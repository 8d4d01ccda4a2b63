------------------------------ MODULE Accounts ------------------------------
(***************************************************************************)
(* accountLogic: the accounts, the sessions that name them, and the change *)
(* of a user's name, which two databases have to follow: the accounts' in  *)
(* one transaction, then the devices' (module DeviceStore) in another one. *)
(* When the second fails the change is noted in a local sqlite database.   *)
(*                                                                         *)
(* A session holds the user's name as it was at the login, and everything  *)
(* a request does is done for that name.                                   *)
(***************************************************************************)
EXTENDS DeviceStore

CONSTANTS
    Persons,    \* the people behind the accounts
    Renamers,   \* consumers of accountLogic
    MaxRenames  \* bound: changes of a name

ASSUME AccountsAssumption ==
    /\ Nil \notin Persons
    /\ MaxRenames \in Nat

VARIABLES
    account,    \* tb_user: whose account each name is
    session,    \* redis: the name in each person's session
    ren,        \* the ModifyUserNameToDB each consumer works on
    renames,    \* how many of them there have been (bounded)
    noted,      \* sqlite: tb_replace_old_username
    locked,     \* whether SqliteOpt::mutex_ was left locked
    outlived,   \* history: names for which something was done in a session that had
                \* outlived the account, or that rows went to too late
    lost        \* history: names whose rows were neither moved nor noted

accountVars == <<account, session, ren, renames, noted, locked, outlived, lost>>
vars == <<storeVars, accountVars>>

NoRen == [at |-> "idle", old |-> Nil, new |-> Nil]

TypeOK ==
    /\ StoreTypeOK
    /\ account \in [Names -> Persons \cup {Nil}]
    /\ session \in [Persons -> Names \cup {Nil}]
    /\ ren \in [Renamers -> [at : {"idle", "users", "devices", "note"},
                             old : Names \cup {Nil}, new : Names \cup {Nil}]]
    /\ renames \in 0 .. MaxRenames
    /\ noted \subseteq Names \X Names
    /\ locked \in BOOLEAN
    /\ outlived \subseteq Names
    /\ lost \subseteq Names

Init ==
    /\ StoreInit
    /\ account = [n \in Names |-> Nil]
    /\ session = [p \in Persons |-> Nil]
    /\ ren = [t \in Renamers |-> NoRen]
    /\ renames = 0
    /\ noted = {}
    /\ locked = FALSE
    /\ outlived = {}
    /\ lost = {}

KeepStore == UNCHANGED storeVars
KeepRen == UNCHANGED <<ren, renames, noted, locked>>
\* Something is done for the name in p's session.
OutlivedBy(p) ==
    IF account[session[p]] # p THEN outlived \cup {session[p]} ELSE outlived

-----------------------------------------------------------------------------
\* UserRegisterToDB: a name is a key of tb_user.
Register(p, n) ==
    /\ account[n] = Nil
    /\ \A m \in Names : account[m] # p
    /\ account' = [account EXCEPT ![n] = p]
    /\ KeepStore /\ KeepRen
    /\ UNCHANGED <<session, outlived, lost>>

\* UserLogin, CreateUserSession.
Login(p, n) ==
    /\ account[n] = p
    /\ session' = [session EXCEPT ![p] = n]
    /\ KeepStore /\ KeepRen
    /\ UNCHANGED <<account, outlived, lost>>

\* A request to deviceInfo is for the name in the session.  It has read the name
\* earlier than it acts; a session that outlives the name does the same.
Request(p) ==
    LET n == session[p] IN
    /\ n # Nil
    /\ \/ Bind(n)
       \/ RemoveBind(n)
       \/ \E c \in Numbers : DeleteChannel(n, c)
       \/ \E t \in Threads, sum \in Numbers : AddTake(t, n, sum)
    /\ outlived' = OutlivedBy(p)
    /\ KeepRen
    /\ UNCHANGED <<account, session, lost>>

-----------------------------------------------------------------------------
(* ResetUserNameAndPassword, ModifyUserNameToDB.                           *)

\* IsUserExistFromDB: the new name is nobody's.
RenameTake(t, p, new) ==
    /\ ren[t] = NoRen
    /\ renames < MaxRenames
    /\ renames' = renames + 1
    /\ session[p] # Nil
    /\ account[new] = Nil
    /\ ren' = [ren EXCEPT ![t] = [at |-> "users", old |-> session[p], new |-> new]]
    /\ KeepStore
    /\ UNCHANGED <<account, session, noted, locked, outlived, lost>>

\* Another change of a name has still to move the rows to n.
MovesTo(n) == \E t \in Renamers : ren[t].at = "devices" /\ ren[t].new = n

\* The transaction on tb_user.  When no account has the old name it updates no
\* row and the change goes on all the same.
RenameUsers(t) ==
    LET r == ren[t] IN
    /\ r.at = "users"
    /\ \/ account[r.new] = Nil
       \/ account[r.old] = Nil
       \/ r.new = r.old
    /\ ren' = [ren EXCEPT ![t] = [r EXCEPT !.at = "devices"]]
    /\ IF account[r.old] = Nil
       THEN /\ outlived' = outlived \cup {r.new}
            /\ UNCHANGED account
       ELSE /\ account' = [account EXCEPT ![r.old] = Nil, ![r.new] = account[r.old]]
            /\ outlived' = IF MovesTo(r.old) THEN outlived \cup {r.old} ELSE outlived
    /\ KeepStore
    /\ UNCHANGED <<session, renames, noted, locked, lost>>

\* The new name has been taken in the meantime, or the transaction fails.
RenameUsersFails(t) ==
    LET r == ren[t] IN
    /\ r.at = "users"
    /\ \/ account[r.new] # Nil /\ account[r.old] # Nil /\ r.new # r.old
          /\ UNCHANGED fails
       \/ SqlFails
    /\ ren' = [ren EXCEPT ![t] = NoRen]
    /\ UNCHANGED <<bound, channels, add, adds, torn>>
    /\ UNCHANGED <<account, session, renames, noted, locked, outlived, lost>>

\* ResetUserPasswordByMobile: a new password for the name in the session, and the
\* rows of the name in the request go to that name, whosever they are: nothing asks
\* who has the name, or whether the session's is still an account's.
ResetPassword(t, p, n) ==
    /\ ren[t] = NoRen
    /\ renames < MaxRenames
    /\ renames' = renames + 1
    /\ session[p] # Nil
    /\ ren' = [ren EXCEPT ![t] = [at |-> "devices", old |-> n, new |-> session[p]]]
    /\ outlived' = OutlivedBy(p)
    /\ KeepStore
    /\ UNCHANGED <<account, session, noted, locked, lost>>

\* The new name has the device already, or a channel of that number.
Taken(r) ==
    /\ r.old # r.new
    /\ {r.old, r.new} \subseteq bound \/ channels[r.old] \cap channels[r.new] # {}

\* UpdateUsernameToDeviceDB: the transaction on the devices' tables.
RenameDevices(t) ==
    LET r == ren[t]
        moved == channels[r.old] \cup channels[r.new]
    IN
    /\ r.at = "devices"
    /\ ~Taken(r)
    /\ channels' = [channels EXCEPT ![r.old] = {}, ![r.new] = moved]
    /\ bound' = IF r.old \in bound THEN (bound \ {r.old}) \cup {r.new} ELSE bound
    /\ torn' = IF r.old \in torn THEN (torn \ {r.old}) \cup {r.new} ELSE torn
    /\ add' = Disturb({r.old, r.new}, Nil)
    /\ ren' = [ren EXCEPT ![t] = NoRen]
    /\ UNCHANGED <<adds, fails, account, session, renames, noted, locked, outlived, lost>>

\* Mutant: the change is not noted.
RenameDevicesFails_Forgotten(t) ==
    LET r == ren[t] IN
    /\ r.at = "devices"
    /\ SqlFails
    /\ ren' = [ren EXCEPT ![t] = NoRen]
    /\ UNCHANGED <<bound, channels, add, adds, torn>>
    /\ UNCHANGED <<account, session, renames, noted, locked, outlived, lost>>

\* It is rolled back.
RenameDevicesFails(t) ==
    LET r == ren[t] IN
    /\ r.at = "devices"
    /\ \/ Taken(r) /\ UNCHANGED fails
       \/ SqlFails
    /\ ren' = [ren EXCEPT ![t] = [r EXCEPT !.at = "note"]]
    /\ UNCHANGED <<bound, channels, add, adds, torn>>
    /\ UNCHANGED <<account, session, renames, noted, locked, outlived, lost>>

\* There is no connection to the devices' database: nothing notes the change.
RenameUnconnected(t) ==
    LET r == ren[t] IN
    /\ r.at = "devices"
    /\ SqlFails
    /\ ren' = [ren EXCEPT ![t] = NoRen]
    /\ lost' = lost \cup {r.old}
    /\ UNCHANGED <<bound, channels, add, adds, torn>>
    /\ UNCHANGED <<account, session, renames, noted, locked, outlived>>

\* InsertModifyMsgSqliteDB.  When it fails it returns with the mutex held, and
\* the next one to come waits for good.
RenameNotes(t) ==
    LET r == ren[t] IN
    /\ r.at = "note"
    /\ ~locked
    /\ ren' = [ren EXCEPT ![t] = NoRen]
    /\ \/ /\ noted' = noted \cup {<<r.old, r.new>>}
          /\ UNCHANGED <<fails, locked, lost>>
       \/ /\ SqlFails
          /\ locked' = TRUE
          /\ lost' = lost \cup {r.old}
          /\ UNCHANGED noted
    /\ UNCHANGED <<bound, channels, add, adds, torn>>
    /\ UNCHANGED <<account, session, renames, outlived>>

RenameStep(t) ==
    \/ \E p \in Persons, n \in Names : RenameTake(t, p, n) \/ ResetPassword(t, p, n)
    \/ RenameUsers(t) \/ RenameUsersFails(t)
    \/ RenameDevices(t) \/ RenameDevicesFails(t) \/ RenameUnconnected(t)
    \/ RenameNotes(t)

Next ==
    \/ \E p \in Persons, n \in Names : Register(p, n) \/ Login(p, n)
    \/ \E p \in Persons : Request(p)
    \/ \E t \in Threads : AddStep(t) /\ UNCHANGED accountVars
    \/ \E t \in Renamers : RenameStep(t)

Spec == Init /\ [][Next]_vars

-----------------------------------------------------------------------------
\* Rows of a device are with a name that an account has, or a change still has to
\* move them, or sqlite has noted where they belong, or their change met no
\* connection or a failing sqlite.  Not for a name whose account had been changed
\* when something was done for it in a session, or when rows were moved to it: there
\* rows are left with nobody, without any failure.
RowsFollow ==
    \A n \in bound \ outlived :
        \/ account[n] # Nil
        \/ \E t \in Renamers : ren[t].at \in {"devices", "note"} /\ ren[t].old = n /\ ren[t].new # n
        \/ \E m \in Names \ {n} : <<n, m>> \in noted
        \/ n \in lost
=============================================================================
