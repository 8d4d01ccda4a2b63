---------------------------- MODULE DeviceUsers ----------------------------
(***************************************************************************)
(* deviceInfo_HomeCloud: which users a device belongs to, and the cache in *)
(* redis of that list, from which imDevServer learns who gets an alarm.    *)
(*                                                                         *)
(* Requests are handled by consumer threads.  One transaction, or one      *)
(* redis command, is one step of a thread.  Every statement is about one   *)
(* device, so the module is about one device.  Passwords and names are left*)
(* out: VerifyPasswordBeforeBind may accept or refuse any bind, and what it*)
(* refuses changes nothing.  Any transaction and any command may fail.     *)
(***************************************************************************)
EXTENDS Naturals, FiniteSets

CONSTANTS
    Users,
    Consumers,    \* the threads that handle requests
    Nobody,       \* no user name
    Empty,        \* the empty string that holds the key of the cache
    MaxFailures   \* bound: redis commands that fail

ASSUME DeviceUsersAssumption ==
    /\ Nobody \notin Users
    /\ Empty \notin Users
    /\ Nobody # Empty
    /\ MaxFailures \in Nat

VARIABLES
    \* MySQL
    kind,       \* tb_device_basic: no row, a row without a type, a camera
    resetFlag,  \* tb_device_basic.reset_flag
    bound,      \* tb_user_relation_device_homecloud
    linked,     \* tb_user_relation_device, the rows of deviceInfo
    \* redis
    apConf,     \* database DEVICE: the user who configures it by AP
    cache,      \* database DEVICE_USER: the members of the device's key
    failures,   \* how many commands have failed (bounded)
    \* the consumers
    job,        \* the request each of them handles
    \* history
    astray,     \* users on the list, or coming, whom something has kept there
    missed,     \* users something has kept off the list
    unread      \* for each list that is made, users who may not be on it

tables == <<kind, resetFlag, bound, linked>>
history == <<astray, missed, unread>>
vars == <<tables, apConf, cache, failures, job, history>>

NoJob == [at |-> "idle", op |-> "none", user |-> Nobody, flag |-> 0, read |-> {}]

Jobs == [at : {"idle", "look", "unbind", "drop", "setflag", "bound", "add",
               "removed", "forget", "flag", "users", "linked", "hold", "fill"},
         op : {"none", "register", "report", "setap", "bind", "remove", "list"},
         user : Users \cup {Nobody},
         flag : {0, 1},
         read : SUBSET Users]

TypeOK ==
    /\ kind \in {"none", "stub", "camera"}
    /\ resetFlag \in {0, 1}
    /\ bound \subseteq Users
    /\ linked \subseteq Users
    /\ apConf \in Users \cup {Nobody}
    /\ cache \subseteq Users \cup {Empty}
    /\ failures \in 0 .. MaxFailures
    /\ job \in [Consumers -> Jobs]
    /\ astray \subseteq Users
    /\ missed \subseteq Users
    /\ unread \in [Consumers -> SUBSET Users]

Init ==
    /\ kind = "none"
    /\ resetFlag = 0
    /\ bound = {}
    /\ linked = {}
    /\ apConf = Nobody
    /\ cache = {}
    /\ failures = 0
    /\ job = [c \in Consumers |-> NoJob]
    /\ astray = {}
    /\ missed = {}
    /\ unread = [c \in Consumers |-> {}]

At(c, steps) == job[c].at \in steps
Idle(c) == At(c, {"idle"})
Goto(c, step) == job' = [job EXCEPT ![c].at = step]
Done(c) == job' = [job EXCEPT ![c] = NoJob]
CommandFails == failures < MaxFailures /\ failures' = failures + 1

-----------------------------------------------------------------------------
(***************************************************************************)
(* A device registers, or reports that it was reset.                       *)
(***************************************************************************)

\* DeviceRegister up to DeviceRegisterToDB.  If that fails, hold_bind_username
\* is never read.
Register(c, flag) ==
    /\ Idle(c)
    /\ \E ok \in BOOLEAN :
        /\ kind' = IF ok THEN "camera" ELSE kind
        /\ resetFlag' = IF ok THEN flag ELSE resetFlag
        /\ job' = [job EXCEPT ![c] =
             IF flag = 0 THEN NoJob
             ELSE [NoJob EXCEPT !.at = IF ok THEN "look" ELSE "unbind",
                                !.op = "register"]]
    /\ UNCHANGED <<bound, linked, apConf, cache, failures>>

\* DeviceRegister: who configures the device.
LookUp(c) ==
    /\ job[c].at = "look"
    /\ job' = [job EXCEPT ![c] = [@ EXCEPT !.at = "unbind", !.user = apConf]]
    /\ UNCHANGED <<tables, apConf, cache, failures>>

\* ReportDeviceReset.  Its look-up finds nothing: the connection has selected
\* database SESSION, and the flag is in database DEVICE.
Report(c) ==
    /\ Idle(c)
    /\ job' = [job EXCEPT ![c] = [NoJob EXCEPT !.at = "unbind", !.op = "report"]]
    /\ UNCHANGED <<tables, apConf, cache, failures>>

\* RemoveBindByDeviceToDB, or RemoveBindByDeviceHoldUserToDB for one user.
Unbind(c) ==
    /\ job[c].at = "unbind"
    /\ \E ok \in BOOLEAN :
        bound' = IF ok THEN bound \cap {job[c].user} ELSE bound
    /\ Goto(c, "drop")
    /\ UNCHANGED <<kind, resetFlag, linked, apConf, cache, failures>>

\* Mutant: the cache is left as it is.
DropCache_Kept(c) ==
    /\ job[c].at = "drop"
    /\ Done(c)
    /\ UNCHANGED <<tables, apConf, cache, failures>>

\* RemoveBindByDevice deletes the list.  What follows, the Del of the flag, is
\* sent to database DEVICE_USER too and deletes nothing.
DropCache(c) ==
    /\ job[c].at = "drop"
    /\ cache' = {}
    /\ Done(c)
    /\ UNCHANGED <<tables, apConf, failures>>

-----------------------------------------------------------------------------
(***************************************************************************)
(* A user configures a device by AP.                                       *)
(***************************************************************************)

\* SetApConfFlag up to SetApConfFlagToDB, whose UPDATEs need a row.
SetApConf(c, u) ==
    /\ Idle(c)
    /\ \E ok \in BOOLEAN :
        resetFlag' = IF ok /\ kind # "none" THEN 1 ELSE resetFlag
    /\ job' = [job EXCEPT ![c] =
                 [NoJob EXCEPT !.at = "setflag", !.op = "setap", !.user = u]]
    /\ UNCHANGED <<kind, bound, linked, apConf, cache, failures>>

\* SetApConfFlag: Set and Expire.
SetFlag(c) ==
    /\ job[c].at = "setflag"
    /\ apConf' = job[c].user
    /\ Done(c)
    /\ UNCHANGED <<tables, cache, failures>>

\* The 600 seconds are over.
FlagExpires ==
    /\ apConf # Nobody
    /\ apConf' = Nobody
    /\ UNCHANGED <<tables, cache, job, failures>>

-----------------------------------------------------------------------------
(***************************************************************************)
(* A user binds the device, or gives it up.                                *)
(***************************************************************************)

\* Mutant: the user name is not set.
Bind_NoName(c, u) ==
    /\ Idle(c)
    /\ kind = "camera"
    /\ bound' = bound \cup {Nobody}
    /\ resetFlag' = 0
    /\ job' = [job EXCEPT ![c] = [NoJob EXCEPT !.at = "bound", !.op = "bind"]]
    /\ UNCHANGED <<kind, linked, apConf, cache, failures>>

\* UserBindDevice up to UserBindDeviceToDB, once it is verified.  A row without a
\* type is left alone.
Bind(c, u) ==
    /\ Idle(c)
    /\ kind # "none"
    /\ \E ok \in BOOLEAN :
        IF ok /\ kind = "camera"
        THEN bound' = bound \cup {u} /\ resetFlag' = 0
        ELSE UNCHANGED <<bound, resetFlag>>
    /\ job' = [job EXCEPT ![c] =
                 [NoJob EXCEPT !.at = "bound", !.op = "bind", !.user = u]]
    /\ UNCHANGED <<kind, linked, apConf, cache, failures>>

\* UserBindDevice: is there a list?
BoundExists(c) ==
    /\ job[c].at = "bound"
    /\ IF cache = {} THEN Done(c) ELSE Goto(c, "add")
    /\ UNCHANGED <<tables, apConf, cache, failures>>

\* Mutant: the list is left as it is.
BoundAdd_Skipped(c) ==
    /\ job[c].at = "add"
    /\ Done(c)
    /\ UNCHANGED <<tables, apConf, cache, failures>>

\* UserBindDevice: the user joins the list, whatever UserBindDeviceToDB said.
BoundAdd(c) ==
    /\ job[c].at = "add"
    /\ cache' = cache \cup {job[c].user}
    /\ Done(c)
    /\ UNCHANGED <<tables, apConf, failures>>

\* UserRemoveBindDevice up to UserRemoveBindToDB.
Remove(c, u) ==
    /\ Idle(c)
    /\ \E ok \in BOOLEAN : bound' = IF ok THEN bound \ {u} ELSE bound
    /\ job' = [job EXCEPT ![c] =
                 [NoJob EXCEPT !.at = "removed", !.op = "remove", !.user = u]]
    /\ UNCHANGED <<kind, resetFlag, linked, apConf, cache, failures>>

\* UserRemoveBindDevice: is there a list?
RemovedExists(c) ==
    /\ job[c].at = "removed"
    /\ IF cache = {} THEN Done(c) ELSE Goto(c, "forget")
    /\ UNCHANGED <<tables, apConf, cache, failures>>

\* UserRemoveBindDevice: the user leaves the list.
RemovedForget(c) ==
    /\ job[c].at = "forget"
    /\ cache' = cache \ {job[c].user}
    /\ Done(c)
    /\ UNCHANGED <<tables, apConf, failures>>

\* ModifyDevicePassword: only a device in the factory state, which ends.
ModifyPassword(c) ==
    /\ Idle(c)
    /\ kind = "camera"
    /\ resetFlag = 1
    /\ \E ok \in BOOLEAN : resetFlag' = IF ok THEN 0 ELSE 1
    /\ UNCHANGED <<kind, bound, linked, apConf, cache, job, failures>>

\* deviceInfo's UserBindDevice and UserRemoveBindDevice, another process that
\* does not know of the cache.  A device without a row gets one without a type,
\* and the user's row, without a type as well, is never listed.
CloudSee(u) ==
    /\ \/ /\ kind = "camera"
          /\ linked' = linked \cup {u}
          /\ UNCHANGED <<kind, resetFlag>>
       \/ /\ linked' = linked \ {u}
          /\ UNCHANGED <<kind, resetFlag>>
       \/ /\ kind = "none"
          /\ kind' = "stub"
          /\ resetFlag' \in {0, 1}
          /\ UNCHANGED linked
    /\ UNCHANGED <<bound, apConf, cache, job, failures>>

-----------------------------------------------------------------------------
(***************************************************************************)
(* GetDeviceUsers.  If there is a list it is the answer, and nothing       *)
(* changes; if not, it is made.                                            *)
(***************************************************************************)

\* Exists, which says no as well when it fails.
ListMissing(c) ==
    /\ Idle(c)
    /\ \/ cache = {} /\ UNCHANGED failures
       \/ CommandFails
    /\ job' = [job EXCEPT ![c] = [NoJob EXCEPT !.at = "flag", !.op = "list"]]
    /\ UNCHANGED <<tables, apConf, cache>>

\* GetDeviceResetFlagFromDB, which leaves a 1 if there is no row.
ReadFlag(c) ==
    /\ job[c].at = "flag"
    /\ \E ok \in BOOLEAN :
        job' = [job EXCEPT ![c] =
                  [@ EXCEPT !.at = "users",
                            !.flag = IF ok /\ kind # "none" THEN resetFlag ELSE 1]]
    /\ UNCHANGED <<tables, apConf, cache, failures>>

\* GetDeviceUsersFromDB: the users of a device that is not in the factory state.
ReadBound(c) ==
    /\ job[c].at = "users"
    /\ \E ok \in BOOLEAN :
        job' = [job EXCEPT ![c] =
                  [@ EXCEPT !.at = IF ok THEN "linked" ELSE "hold",
                            !.read = IF ok /\ job[c].flag = 0 THEN bound ELSE {}]]
    /\ UNCHANGED <<tables, apConf, cache, failures>>

\* GetDeviceUsersFromDB: the users of deviceInfo.  If it fails here, the users
\* it has read are kept.
ReadLinked(c) ==
    /\ job[c].at = "linked"
    /\ \E ok \in BOOLEAN :
        job' = [job EXCEPT ![c] =
                  [@ EXCEPT !.at = "hold",
                            !.read = job[c].read \cup IF ok THEN linked ELSE {}]]
    /\ UNCHANGED <<tables, apConf, cache, failures>>

\* GetDeviceUsers: the empty string, so that the key stays.
HoldKey(c) ==
    /\ job[c].at = "hold"
    /\ cache' = cache \cup {Empty}
    /\ IF job[c].read = {} THEN Done(c) ELSE Goto(c, "fill")
    /\ UNCHANGED <<tables, apConf, failures>>

\* GetDeviceUsers: the users.
Fill(c) ==
    /\ job[c].at = "fill"
    /\ cache' = cache \cup job[c].read
    /\ Done(c)
    /\ UNCHANGED <<tables, apConf, failures>>

\* Any of the other commands fails; only the log is told, and the request goes on.
RedisFails(c) ==
    /\ CommandFails
    /\ \/ At(c, {"look"}) /\ Goto(c, "unbind")
       \/ At(c, {"hold"}) /\ job[c].read # {} /\ Goto(c, "fill")
       \/ At(c, {"hold"}) /\ job[c].read = {} /\ Done(c)
       \/ At(c, {"drop", "setflag", "bound", "add", "removed", "forget", "fill"}) /\ Done(c)
    /\ UNCHANGED <<tables, apConf, cache>>

-----------------------------------------------------------------------------
(***************************************************************************)
(* What has gone wrong between the tables and the list.                    *)
(***************************************************************************)

Owners == bound \cup linked

\* Making a list past the first table.
Making == {"linked", "hold", "fill"}
\* A request that may still put u on the list.
Coming(u) ==
    \E c \in Consumers :
        \/ At(c, {"bound", "add"}) /\ job[c].user = u
        \/ At(c, Making) /\ u \in job[c].read
\* A request that will take u off the list.
Leaving(u) ==
    \E c \in Consumers :
        \/ At(c, {"drop"})
        \/ At(c, {"removed", "forget"}) /\ job[c].user = u

\* Users who do not own the device and are on their way to the list: their bind
\* failed, or they have given it up, or lost it, meanwhile.  On the list those stay,
\* and those who are on it when deviceInfo unbinds them or a command fails.
NowAstray ==
    {u \in Users \ Owners' :
        Coming(u)' \/ (u \in cache' /\ (u \in astray \/ u \in linked \/ failures' # failures))}

\* Users a list that is made will not have: all of them if a statement failed or the
\* device was in the factory state, and those who bind it after they are read.
NowUnread ==
    [c \in Consumers |->
        IF ~At(c, Making)' THEN {}
        ELSE IF At(c, Making) THEN unread[c] \cup (bound' \ bound)
        ELSE IF job[c].flag = 0 /\ job'[c].at = "linked" THEN {} ELSE Users]

\* Owners who are not on the list: a list is made without them, a bind that read
\* that there is one has made another, a removal that failed, or is older than the
\* bind, took them off, or a command failed.
NowMissed ==
    {u \in bound' \ cache' :
        \/ \E c \in Consumers : u \in unread'[c]
        \/ /\ cache' # {}
           /\ \/ u \in missed
              \/ failures' # failures
              \/ \E c \in Consumers : At(c, {"add"}) /\ cache = {}
              \/ \E c \in Consumers : At(c, {"forget"}) /\ job[c].user = u}

History ==
    /\ astray' = NowAstray
    /\ unread' = NowUnread
    /\ missed' = NowMissed

-----------------------------------------------------------------------------
DeviceStep(c) ==
    \/ \E flag \in {0, 1} : Register(c, flag)
    \/ LookUp(c)
    \/ Report(c)
    \/ Unbind(c)
    \/ DropCache(c)

UserStep(c) ==
    \/ \E u \in Users : SetApConf(c, u) \/ Bind(c, u) \/ Remove(c, u)
    \/ SetFlag(c)
    \/ BoundExists(c)
    \/ BoundAdd(c)
    \/ RemovedExists(c)
    \/ RemovedForget(c)
    \/ ModifyPassword(c)

ListStep(c) ==
    \/ ListMissing(c)
    \/ ReadFlag(c)
    \/ ReadBound(c)
    \/ ReadLinked(c)
    \/ HoldKey(c)
    \/ Fill(c)

Step ==
    \/ \E c \in Consumers : DeviceStep(c) \/ UserStep(c) \/ ListStep(c) \/ RedisFails(c)
    \/ FlagExpires
    \/ \E u \in Users : CloudSee(u)

Next == Step /\ History

Spec == Init /\ [][Next]_vars

-----------------------------------------------------------------------------
(* Properties.                                                             *)

\* Whoever is on the list owns the device, or a request that takes it off the list
\* is being handled: a user who has given the device up, or lost it to a reset, gets
\* no more alarms, whatever several consumers do at once and whichever statements
\* fail.  The code leaves a stranger on the list in the ways of NowAstray; there is
\* no other (the updates of the key after RemoveBind... and UserRemoveBindToDB).
CachedAreBound ==
    \A u \in Users : u \in cache => u \in Owners \/ Leaving(u) \/ u \in astray

\* If there is a list every owner is on it, or will be by a request that is being
\* handled: no owner misses an alarm.  The code leaves an owner off in the ways of
\* NowMissed; there is no other (GetDeviceUsers, which never looks at the tables
\* again, and UserBindDevice).
CacheComplete ==
    \A u \in bound : cache # {} => u \in cache \/ Coming(u) \/ u \in missed

\* A registration of a device in the factory state unbinds its users, but not the
\* one who has added it by AP (the comment in DeviceRegister).
RegisterKeepsApUser ==
    [][\A c \in Consumers :
        At(c, {"unbind"}) /\ job[c].op = "register" /\ At(c, {"drop"})' /\ apConf \in bound
        => apConf \in bound']_vars
=============================================================================
