---------------------------- MODULE DeviceStore -----------------------------
(***************************************************************************)
(* deviceInfo: who has a device, and the channels each owner has of it:    *)
(* the tables tb_user_relation_device and tb_user_relation_channel.        *)
(* Consumers work on MySQL side by side.  Binding and giving up are one    *)
(* transaction each; adding channels is none: queries, and an insert for   *)
(* each channel.                                                           *)
(*                                                                         *)
(* The model has one device.  The tables are not in the repository: a name *)
(* is taken to be a key of the device's owners, and a name and a number of *)
(* its channels.  Which user name a request is for is the matter of module *)
(* Accounts.                                                               *)
(***************************************************************************)
EXTENDS Integers, FiniteSets, FiniteSetsExt

CONSTANTS
    Names,      \* user names
    Threads,    \* consumers of deviceInfo
    Nil,        \* no name
    Limit,      \* the highest number of a channel, 64
    MaxAdds,    \* bound: requests to add channels
    MaxFails    \* bound: SQL statements that fail

ASSUME DeviceStoreAssumption ==
    /\ Nil \notin Names \cup Threads
    /\ Limit \in Nat \ {0}
    /\ {MaxAdds, MaxFails} \subseteq Nat

VARIABLES
    bound,      \* tb_user_relation_device: the names that have the device
    channels,   \* tb_user_relation_channel: the numbers of each name
    add,        \* the AddDeviceChannel each consumer works on
    adds,       \* how many of them there have been (bounded)
    fails,      \* how many SQL statements have failed (bounded)
    torn        \* history: names with channels that a failed removal has left, or
                \* that were added after a removal

storeVars == <<bound, channels, add, adds, fails, torn>>

Numbers == 1 .. Limit
\* had and alone are history: the channels that were read, while nobody else has
\* changed the name's since.
NoAdd == [at |-> "idle", name |-> Nil, sum |-> 0, left |-> {}, had |-> {}, alone |-> TRUE]

StoreTypeOK ==
    /\ bound \subseteq Names
    /\ channels \in [Names -> SUBSET Numbers]
    /\ add \in [Threads ->
          [at : {"idle", "read", "insert", "answer"}, name : Names \cup {Nil},
           sum : 0 .. Limit, left : SUBSET Numbers, had : SUBSET Numbers,
           alone : BOOLEAN]]
    /\ adds \in 0 .. MaxAdds
    /\ fails \in 0 .. MaxFails
    /\ torn \subseteq Names

StoreInit ==
    /\ bound = {}
    /\ channels = [n \in Names |-> {}]
    /\ add = [t \in Threads |-> NoAdd]
    /\ adds = 0
    /\ fails = 0
    /\ torn = {}

SqlFails == fails < MaxFails /\ fails' = fails + 1
\* What the history of the adds on their way says once the names' channels have
\* been changed by somebody other than t.
Disturb(names, t) ==
    [s \in Threads |-> IF s # t /\ add[s].name \in names
                       THEN [add[s] EXCEPT !.alone = FALSE, !.had = {}] ELSE add[s]]

-----------------------------------------------------------------------------
(* UserBindDevice, UserRemoveBindDevice, DeleteDeviceChannel.  What fails   *)
(* before its commit changes nothing and is not a step, apart from          *)
(* UserRemoveBindToDB.                                                      *)

\* UserBindDeviceToDB; the device's own row is made when there is none.
Bind(n) ==
    /\ n \notin bound
    /\ bound' = bound \cup {n}
    /\ UNCHANGED <<channels, add, adds, fails, torn>>

\* Mutant: the channels stay.
RemoveBind_DeviceOnly(n) ==
    /\ n \in bound
    /\ bound' = bound \ {n}
    /\ add' = Disturb({n}, Nil)
    /\ UNCHANGED <<channels, adds, fails, torn>>

\* UserRemoveBindToDB.  When the second delete fails there is no rollback:
\* setAutoCommit(true) commits the first.
RemoveBind(n) ==
    /\ n \in bound
    /\ bound' = bound \ {n}
    /\ \/ /\ channels' = [channels EXCEPT ![n] = {}]
          /\ torn' = torn \ {n}
          /\ UNCHANGED fails
       \/ /\ SqlFails
          /\ torn' = torn \cup {n}
          /\ UNCHANGED channels
    /\ add' = Disturb({n}, Nil)
    /\ UNCHANGED adds

\* DeleteDeviceChannelToDB.
DeleteChannel(n, c) ==
    /\ c \in channels[n]
    /\ channels' = [channels EXCEPT ![n] = @ \ {c}]
    /\ add' = Disturb({n}, Nil)
    /\ UNCHANGED <<bound, adds, fails, torn>>

-----------------------------------------------------------------------------
(* AddDeviceChannel.                                                       *)

\* AddDeviceChannelToDB asks whether the name has the device.
AddTake(t, n, sum) ==
    /\ add[t] = NoAdd
    /\ adds < MaxAdds
    /\ adds' = adds + 1
    /\ n \in bound
    /\ add' = [add EXCEPT ![t] = [NoAdd EXCEPT !.at = "read", !.name = n, !.sum = sum]]
    /\ UNCHANGED <<bound, channels, fails, torn>>

\* The loop over the rows in ascending order: after[no] is what it has once the
\* rows up to no are read; i is its counter, gaps is channel_no_add_vec and last
\* the number of the last row.
ScanStart == [i |-> 0, gaps |-> {}, last |-> 0]
ScanRow(r, no) ==
    [i    |-> IF no > r.i + 1 THEN no ELSE r.i + 1,
     gaps |-> r.gaps \cup (r.i + 1) .. (no - 1),
     last |-> no]
Scan(numbers) ==
    LET after[no \in 0 .. Limit] ==
            IF no = 0 THEN ScanStart
            ELSE IF no \in numbers THEN ScanRow(after[no - 1], no)
            ELSE after[no - 1]
    IN  after[Limit]

\* Mutant: gaps are filled, and nothing is added to them.
NewNumbers_GapsOnly(numbers, sum) ==
    LET r == Scan(numbers)
    IN  IF Cardinality(numbers) = r.last THEN (r.last + 1) .. (r.last + sum) ELSE r.gaps

\* The numbers to insert: without gaps the next sum ones, else every gap, and
\* the next ones if that is not enough.
NewNumbers(numbers, sum) ==
    LET r == Scan(numbers)
        more == IF Cardinality(numbers) = r.last THEN sum
                ELSE sum - Cardinality(r.gaps)
    IN  r.gaps \cup (r.last + 1) .. (r.last + more)

\* Mutant: the limit is looked at for the numbers that are there only.
AddRead_NoLimit(t) ==
    LET a == add[t] IN
    /\ a.at = "read"
    /\ add' = [add EXCEPT ![t] = [a EXCEPT !.at = "insert",
                  !.left = NewNumbers(channels[a.name], a.sum),
                  !.had = channels[a.name], !.alone = TRUE]]
    /\ UNCHANGED <<bound, channels, adds, fails, torn>>

\* The query for the numbers; DEVICE_CHANNEL_LIMIT before anything is inserted.
AddRead(t) ==
    LET a == add[t]
        new == NewNumbers(channels[a.name], a.sum)
    IN
    /\ a.at = "read"
    /\ add' = [add EXCEPT ![t] =
                  IF \E c \in new : c > Limit THEN NoAdd
                  ELSE [a EXCEPT !.at = "insert", !.left = new,
                                 !.had = channels[a.name], !.alone = TRUE]]
    /\ UNCHANGED <<bound, channels, adds, fails, torn>>

\* An insert.
AddInsert(t) ==
    LET a == add[t]
        c == Min(a.left)
    IN
    /\ a.at = "insert"
    /\ a.left # {}
    /\ c \notin channels[a.name]
    /\ channels' = [channels EXCEPT ![a.name] = @ \cup {c}]
    /\ add' = [Disturb({a.name}, t) EXCEPT ![t] = [a EXCEPT !.left = @ \ {c}]]
    /\ torn' = IF a.name \in bound THEN torn ELSE torn \cup {a.name}
    /\ UNCHANGED <<bound, adds, fails>>

\* It fails, the number being there by now or for another reason: what is inserted
\* stays.
AddFails(t) ==
    LET a == add[t] IN
    /\ a.at = "insert"
    /\ a.left # {}
    /\ \/ Min(a.left) \in channels[a.name] /\ UNCHANGED fails
       \/ SqlFails
    /\ add' = [add EXCEPT ![t] = NoAdd]
    /\ UNCHANGED <<bound, channels, adds, torn>>

\* The loop is over, and the answer will be SUCCESS.
AddEnds(t) ==
    /\ add[t].at = "insert"
    /\ add[t].left = {}
    /\ add' = [add EXCEPT ![t] = [@ EXCEPT !.at = "answer"]]
    /\ UNCHANGED <<bound, channels, adds, fails, torn>>

AddAnswers(t) ==
    /\ add[t].at = "answer"
    /\ add' = [add EXCEPT ![t] = NoAdd]
    /\ UNCHANGED <<bound, channels, adds, fails, torn>>

AddStep(t) == AddRead(t) \/ AddInsert(t) \/ AddFails(t) \/ AddEnds(t) \/ AddAnswers(t)

-----------------------------------------------------------------------------
(* Properties.                                                             *)

\* Only who has the device has channels of it: binding it again does not bring
\* old ones back.  Not for a name whose removal has failed halfway, or for which
\* channels were still added after it.
ChannelsOwned == \A n \in Names : channels[n] # {} => n \in bound \/ n \in torn

\* Who is told SUCCESS has got at least as many new channels as asked for, has
\* lost none, and none of the new ones leaves a number below it free.  Not if
\* the name's channels have been changed from elsewhere in between.
AddedAsAsked ==
    \A t \in Threads :
        LET a == add[t]
            new == channels[a.name] \ a.had
        IN  a.at = "answer" /\ a.alone =>
                /\ a.had \subseteq channels[a.name]
                /\ Cardinality(new) >= a.sum
                /\ \A c \in new : 1 .. c \subseteq channels[a.name]
=============================================================================
