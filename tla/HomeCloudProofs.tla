--------------------------- MODULE HomeCloudProofs ---------------------------
(***************************************************************************)
(* Proofs about deviceInfo_HomeCloud.  Its consumers keep the users of a   *)
(* device (DeviceUsers) and its timer the statistics of temperature and    *)
(* humidity (Humiture): the two share no state, and each has its own       *)
(* specification and invariant here.                                       *)
(*                                                                         *)
(* For any number of consumers the list of users and the tables differ in  *)
(* no other way than those the code leaves open; the statistics are made of*)
(* the readings the devices have reported, of each hour once, and outside  *)
(* midnight of all of them.                                                *)
(***************************************************************************)
EXTENDS DeviceUsers, Humiture, TLAPS

-----------------------------------------------------------------------------
(* DeviceUsers: types.                                                     *)

\* The state of the code, without the history.
DataOK ==
    /\ kind \in {"none", "stub", "camera"}
    /\ resetFlag \in {0, 1}
    /\ bound \subseteq Users
    /\ linked \subseteq Users
    /\ apConf \in Users \cup {Nobody}
    /\ cache \subseteq Users \cup {Empty}
    /\ failures \in 0 .. MaxFailures
    /\ job \in [Consumers -> Jobs]

\* A request of a user knows its user.
UserInv == \A c \in Consumers :
    At(c, {"setflag", "bound", "add", "removed", "forget"}) => job[c].user \in Users

LEMMA InitTyped == Init => DataOK /\ UserInv
BY DeviceUsersAssumption DEF Init, DataOK, UserInv, At, NoJob, Jobs

\* The steps that give a consumer another place, and nothing else.
LEMMA GotoTyped ==
    ASSUME DataOK, UserInv, NEW c \in Consumers,
           NEW s \in {"unbind", "drop", "add", "forget", "hold", "fill"}, Goto(c, s),
           s \in {"add", "forget"} => job[c].user \in Users
    PROVE  job' \in [Consumers -> Jobs] /\ UserInv'
BY DEF DataOK, UserInv, At, Goto, Jobs

LEMMA DoneTyped ==
    ASSUME DataOK, UserInv, NEW c \in Consumers, Done(c)
    PROVE  job' \in [Consumers -> Jobs] /\ UserInv'
BY DEF DataOK, UserInv, At, Done, NoJob, Jobs

LEMMA NewTyped ==
    ASSUME DataOK, UserInv, NEW c \in Consumers, NEW j \in Jobs,
           job' = [job EXCEPT ![c] = j],
           j.at \in {"setflag", "bound", "add", "removed", "forget"} => j.user \in Users
    PROVE  job' \in [Consumers -> Jobs] /\ UserInv'
BY DEF DataOK, UserInv, At

LEMMA ReadTyped ==
    ASSUME NEW j \in Jobs, NEW s \in {"users", "linked", "hold"},
           NEW f \in {0, 1}, NEW R \in SUBSET Users
    PROVE  /\ [j EXCEPT !.at = s, !.flag = f] \in Jobs
           /\ [j EXCEPT !.at = s, !.flag = f].at = s
           /\ [j EXCEPT !.at = s, !.read = R] \in Jobs
           /\ [j EXCEPT !.at = s, !.read = R].at = s
BY DEF Jobs

\* Types, one action at a time.
LEMMA NextTyped == DataOK /\ UserInv /\ [Step]_vars => DataOK' /\ UserInv'
<1> SUFFICES ASSUME DataOK, UserInv, [Step]_vars PROVE DataOK' /\ UserInv'
  OBVIOUS
<1> USE DeviceUsersAssumption
<1>1. ASSUME NEW c \in Consumers, NEW flag \in {0, 1}, Register(c, flag)
      PROVE  DataOK' /\ UserInv'
  <2>1. PICK ok \in BOOLEAN :
            /\ kind' = IF ok THEN "camera" ELSE kind
            /\ resetFlag' = IF ok THEN flag ELSE resetFlag
            /\ job' = [job EXCEPT ![c] =
                 IF flag = 0 THEN NoJob
                 ELSE [NoJob EXCEPT !.at = IF ok THEN "look" ELSE "unbind",
                                    !.op = "register"]]
    BY <1>1 DEF Register
  <2> DEFINE j == IF flag = 0 THEN NoJob
                  ELSE [NoJob EXCEPT !.at = IF ok THEN "look" ELSE "unbind",
                                     !.op = "register"]
  <2>2. j \in Jobs /\ j.at \in {"idle", "look", "unbind"}
    <3>1. CASE flag = 0
      BY <3>1 DEF NoJob, Jobs
    <3>2. CASE flag # 0 /\ ok
      BY <3>2 DEF NoJob, Jobs
    <3>3. CASE flag # 0 /\ ~ok
      BY <3>3 DEF NoJob, Jobs
    <3> QED
      BY <3>1, <3>2, <3>3
  <2>3. job' = [job EXCEPT ![c] = j]
    BY <2>1
  <2> HIDE DEF j
  <2>4. job' \in [Consumers -> Jobs] /\ UserInv'
    BY <2>2, <2>3, NewTyped
  <2>5. kind' \in {"camera", kind} /\ resetFlag' \in {flag, resetFlag}
    BY <2>1
  <2> QED
    BY <1>1, <2>4, <2>5 DEF Register, DataOK
<1>2. ASSUME NEW c \in Consumers, LookUp(c) PROVE DataOK' /\ UserInv'
  <2>1. job[c] \in Jobs /\ apConf \in Users \cup {Nobody}
    BY DEF DataOK
  <2>2. /\ [job[c] EXCEPT !.at = "unbind", !.user = apConf] \in Jobs
        /\ [job[c] EXCEPT !.at = "unbind", !.user = apConf].at = "unbind"
    BY <2>1 DEF Jobs
  <2>3. job' \in [Consumers -> Jobs] /\ UserInv'
    BY <1>2, <2>2, NewTyped DEF LookUp
  <2> QED
    BY <1>2, <2>3 DEF LookUp, tables, DataOK
<1>18. ASSUME NEW c \in Consumers, Report(c) PROVE DataOK' /\ UserInv'
  BY <1>18 DEF Report, tables, DataOK, UserInv, At, NoJob, Jobs
<1>3. ASSUME NEW c \in Consumers, Unbind(c) PROVE DataOK' /\ UserInv'
  BY <1>3, GotoTyped DEF Unbind, DataOK
<1>4. ASSUME NEW c \in Consumers, DropCache(c) PROVE DataOK' /\ UserInv'
  BY <1>4, DoneTyped DEF DropCache, tables, DataOK
<1>5. ASSUME NEW c \in Consumers, NEW u \in Users, SetApConf(c, u)
      PROVE  DataOK' /\ UserInv'
  BY <1>5 DEF SetApConf, DataOK, UserInv, At, NoJob, Jobs
<1>6. ASSUME NEW c \in Consumers, NEW u \in Users, Bind(c, u)
      PROVE  DataOK' /\ UserInv'
  BY <1>6 DEF Bind, DataOK, UserInv, At, NoJob, Jobs
<1>7. ASSUME NEW c \in Consumers, NEW u \in Users, Remove(c, u)
      PROVE  DataOK' /\ UserInv'
  BY <1>7 DEF Remove, DataOK, UserInv, At, NoJob, Jobs
<1>8. ASSUME NEW c \in Consumers, SetFlag(c) PROVE DataOK' /\ UserInv'
  <2>1. job[c].user \in Users
    BY <1>8 DEF SetFlag, UserInv, At
  <2> QED
    BY <1>8, <2>1, DoneTyped DEF SetFlag, tables, DataOK
<1>9. ASSUME NEW c \in Consumers, BoundExists(c) \/ RemovedExists(c)
      PROVE  DataOK' /\ UserInv'
  <2>1. job[c].user \in Users
    BY <1>9 DEF BoundExists, RemovedExists, UserInv, At
  <2>2. Done(c) \/ Goto(c, "add") \/ Goto(c, "forget")
    BY <1>9 DEF BoundExists, RemovedExists
  <2>3. job' \in [Consumers -> Jobs] /\ UserInv'
    BY <2>1, <2>2, DoneTyped, GotoTyped
  <2> QED
    BY <1>9, <2>3 DEF BoundExists, RemovedExists, tables, DataOK
<1>10. ASSUME NEW c \in Consumers, BoundAdd(c) \/ RemovedForget(c)
       PROVE  DataOK' /\ UserInv'
  <2>1. job[c].user \in Users
    BY <1>10 DEF BoundAdd, RemovedForget, UserInv, At
  <2>2. Done(c)
    BY <1>10 DEF BoundAdd, RemovedForget
  <2> QED
    BY <1>10, <2>1, <2>2, DoneTyped DEF BoundAdd, RemovedForget, tables, DataOK
<1>11. ASSUME NEW c \in Consumers, ModifyPassword(c) PROVE DataOK' /\ UserInv'
  BY <1>11 DEF ModifyPassword, DataOK, UserInv, At
<1>12. ASSUME NEW c \in Consumers, ListMissing(c) PROVE DataOK' /\ UserInv'
  <2>1. job' \in [Consumers -> Jobs] /\ UserInv'
    BY <1>12 DEF ListMissing, DataOK, UserInv, At, NoJob, Jobs
  <2>2. failures' \in 0 .. MaxFailures
    BY <1>12 DEF ListMissing, CommandFails, DataOK
  <2> QED
    BY <1>12, <2>1, <2>2 DEF ListMissing, tables, DataOK
<1>19. ASSUME NEW c \in Consumers, ReadFlag(c) PROVE DataOK' /\ UserInv'
  <2>1. PICK f \in {0, 1} : 
            job' = [job EXCEPT ![c] = [job[c] EXCEPT !.at = "users", !.flag = f]]
    BY <1>19 DEF ReadFlag, DataOK
  <2>2. job' \in [Consumers -> Jobs] /\ UserInv'
    BY <2>1, ReadTyped, NewTyped DEF DataOK
  <2> QED
    BY <1>19, <2>2 DEF ReadFlag, tables, DataOK
<1>20. ASSUME NEW c \in Consumers, ReadBound(c) PROVE DataOK' /\ UserInv'
  <2>1. PICK s \in {"linked", "hold"}, R \in SUBSET Users :
            job' = [job EXCEPT ![c] = [job[c] EXCEPT !.at = s, !.read = R]]
    BY <1>20 DEF ReadBound, DataOK
  <2>2. job' \in [Consumers -> Jobs] /\ UserInv'
    BY <2>1, ReadTyped, NewTyped DEF DataOK
  <2> QED
    BY <1>20, <2>2 DEF ReadBound, tables, DataOK
<1>21. ASSUME NEW c \in Consumers, ReadLinked(c) PROVE DataOK' /\ UserInv'
  <2>1. job[c].read \in SUBSET Users
    BY DEF DataOK, Jobs
  <2>2. PICK R \in SUBSET Users :
            job' = [job EXCEPT ![c] = [job[c] EXCEPT !.at = "hold", !.read = R]]
    <3>1. PICK ok \in BOOLEAN :
              job' = [job EXCEPT ![c] = [job[c] EXCEPT !.at = "hold",
                        !.read = job[c].read \cup IF ok THEN linked ELSE {}]]
      BY <1>21 DEF ReadLinked
    <3>2. job[c].read \cup (IF ok THEN linked ELSE {}) \in SUBSET Users
      BY <2>1 DEF DataOK
    <3> QED
      BY <3>1, <3>2
  <2>3. job' \in [Consumers -> Jobs] /\ UserInv'
    BY <2>2, ReadTyped, NewTyped DEF DataOK
  <2> QED
    BY <1>21, <2>3 DEF ReadLinked, tables, DataOK
<1>13. ASSUME NEW c \in Consumers, HoldKey(c) PROVE DataOK' /\ UserInv'
  BY <1>13 DEF HoldKey, Goto, Done, tables, DataOK, UserInv, At, NoJob, Jobs
<1>14. ASSUME NEW c \in Consumers, Fill(c) PROVE DataOK' /\ UserInv'
  <2>1. job[c].read \subseteq Users
    BY DEF DataOK, Jobs
  <2> QED
    BY <1>14, <2>1, DoneTyped DEF Fill, tables, DataOK
<1>15. CASE FlagExpires
  BY <1>15 DEF FlagExpires, tables, DataOK, UserInv, At
<1>16. ASSUME NEW u \in Users, CloudSee(u) PROVE DataOK' /\ UserInv'
  <2>1. linked' \subseteq Users /\ kind' \in {"none", "stub", "camera"}
        /\ resetFlag' \in {0, 1}
    BY <1>16 DEF CloudSee, DataOK
  <2> QED
    BY <1>16, <2>1 DEF CloudSee, DataOK, UserInv, At
<1>17. CASE UNCHANGED vars
  BY <1>17 DEF vars, tables, DataOK, UserInv, At
<1>22. ASSUME NEW c \in Consumers, RedisFails(c) PROVE DataOK' /\ UserInv'
  <2>1. Done(c) \/ Goto(c, "unbind") \/ Goto(c, "fill")
    BY <1>22 DEF RedisFails
  <2>2. job' \in [Consumers -> Jobs] /\ UserInv'
    BY <2>1, DoneTyped, GotoTyped
  <2> QED
    BY <1>22, <2>2 DEF RedisFails, CommandFails, tables, DataOK
<1> QED
  BY <1>1, <1>2, <1>3, <1>4, <1>5, <1>6, <1>7, <1>8, <1>9, <1>10, <1>11,
     <1>12, <1>13, <1>14, <1>15, <1>16, <1>17, <1>18, <1>19, <1>20, <1>21, <1>22
     DEF Step, DeviceStep, UserStep, ListStep

\* The history is kept beside it.
LEMMA HistoryTyped ==
    ASSUME DataOK', unread \in [Consumers -> SUBSET Users], History
    PROVE  astray' \subseteq Users /\ missed' \subseteq Users /\ unread' \in [Consumers -> SUBSET Users]
<1>1. astray' \subseteq Users
  BY DEF History, NowAstray
<1>2. missed' \subseteq Users
  BY DEF History, NowMissed, DataOK
<1>3. unread' \in [Consumers -> SUBSET Users]
  BY DEF History, NowUnread, DataOK
<1> QED
  BY <1>1, <1>2, <1>3

LEMMA NextUsers == TypeOK /\ UserInv /\ [Next]_vars => TypeOK' /\ UserInv'
<1> SUFFICES ASSUME TypeOK, UserInv, [Next]_vars PROVE TypeOK' /\ UserInv'
  OBVIOUS
<1>1. DataOK
  BY DEF TypeOK, DataOK
<1>2. DataOK' /\ UserInv'
  BY <1>1, NextTyped DEF Next
<1>3. astray' \subseteq Users /\ missed' \subseteq Users /\ unread' \in [Consumers -> SUBSET Users]
  BY <1>2, HistoryTyped DEF TypeOK, Next, vars, history
<1> QED
  BY <1>2, <1>3 DEF TypeOK, DataOK

LEMMA InitUsers == Init => TypeOK /\ UserInv
BY InitTyped, DeviceUsersAssumption DEF Init, TypeOK, DataOK

\* Every variable keeps its type, for any number of users and of threads and
\* whatever statements and commands fail.
THEOREM TypeCorrect == Spec => []TypeOK
<1>1. TypeOK /\ UserInv /\ [Next]_vars => TypeOK' /\ UserInv'
  BY NextUsers
<1> QED
  BY InitUsers, <1>1, PTL DEF Spec

-----------------------------------------------------------------------------
(* DeviceUsers: whoever is on the list owns the device.                    *)

\* Every step is a thread's, or moves no thread.
LEMMA Others ==
    ASSUME DataOK, NEW c \in Consumers, NEW j, job' = [job EXCEPT ![c] = j]
    PROVE  job'[c] = j /\ \A d \in Consumers \ {c} : job'[d] = job[d]
BY DEF DataOK

\* Only these places let a thread take a user off the list.
LEMMA LeavingStays ==
    ASSUME NEW u \in Users, NEW c \in Consumers,
           \A d \in Consumers \ {c} : job'[d] = job[d],
           job'[c] = job[c] \/ ~At(c, {"drop", "removed", "forget"})
    PROVE  Leaving(u) => Leaving(u)'
<1> SUFFICES ASSUME NEW d \in Consumers,
                    \/ At(d, {"drop"})
                    \/ At(d, {"removed", "forget"}) /\ job[d].user = u
             PROVE  Leaving(u)'
  BY DEF Leaving
<1>1. job'[d] = job[d]
  BY DEF At
<1> QED
  BY <1>1 DEF Leaving, At

\* What a step does to a user u who is on the list after it.
Joined(u) == u \in cache \/ (Coming(u) /\ Owners' = Owners)
Owned(u) == u \in Owners => u \in Owners' \/ Leaving(u)' \/ u \in linked
Left(u) == Leaving(u) => Leaving(u)' \/ failures' # failures

LEMMA StepCached ==
    ASSUME DataOK, Step, NEW u \in Users, u \in cache'
    PROVE  Joined(u) /\ Owned(u) /\ Left(u)
<1> USE DeviceUsersAssumption
<1>1. ASSUME NEW c \in Consumers,
             \/ \E flag \in {0, 1} : Register(c, flag)
             \/ LookUp(c) \/ Report(c) \/ SetFlag(c)
             \/ \E v \in Users : SetApConf(c, v) \/ Bind(c, v)
             \/ BoundExists(c) \/ ReadFlag(c) \/ ReadBound(c) \/ ReadLinked(c)
             \/ ListMissing(c)
      PROVE  Joined(u) /\ Owned(u) /\ Left(u)
  <2>1. \E j : job' = [job EXCEPT ![c] = j]
    <3>1. CASE \E flag \in {0, 1} : Register(c, flag)
      BY <3>1 DEF Register
    <3>2. CASE LookUp(c) \/ Report(c) \/ ReadFlag(c) \/ ReadBound(c) \/ ReadLinked(c)
      BY <3>2 DEF LookUp, Report, ReadFlag, ReadBound, ReadLinked
    <3>3. CASE \E v \in Users : SetApConf(c, v) \/ Bind(c, v)
      BY <3>3 DEF SetApConf, Bind
    <3>4. CASE SetFlag(c) \/ BoundExists(c)
      BY <3>4 DEF SetFlag, BoundExists, Goto, Done
    <3>5. CASE ListMissing(c)
      BY <3>5 DEF ListMissing
    <3> QED
      BY <1>1, <3>1, <3>2, <3>3, <3>4, <3>5
  <2>2. cache' = cache /\ linked' = linked /\ bound \subseteq bound'
    BY <1>1 DEF Register, LookUp, Report, SetFlag, SetApConf, Bind, BoundExists,
                ReadFlag, ReadBound, ReadLinked, ListMissing, tables
  <2>3. ~At(c, {"drop", "removed", "forget"})
    BY <1>1 DEF Register, LookUp, Report, SetFlag, SetApConf, Bind, BoundExists,
                ReadFlag, ReadBound, ReadLinked, ListMissing, At, Idle
  <2> QED
    BY <2>1, <2>2, <2>3, Others, LeavingStays DEF Joined, Owned, Left, Owners
<1>2. ASSUME NEW c \in Consumers, Unbind(c) PROVE Joined(u) /\ Owned(u) /\ Left(u)
  <2>1. job'[c].at = "drop"
    BY <1>2 DEF Unbind, Goto, DataOK, Jobs
  <2> QED
    BY <1>2, <2>1 DEF Unbind, Joined, Owned, Left, Leaving, At
<1>3. ASSUME NEW c \in Consumers, DropCache(c) PROVE FALSE
  BY <1>3 DEF DropCache
<1>4. ASSUME NEW c \in Consumers, NEW v \in Users, Remove(c, v)
      PROVE  Joined(u) /\ Owned(u) /\ Left(u)
  <2>1. job'[c].at = "removed" /\ job'[c].user = v
    BY <1>4 DEF Remove, DataOK, NoJob
  <2>2. ~At(c, {"drop", "removed", "forget"})
    BY <1>4 DEF Remove, At, Idle
  <2>3. Left(u)
    BY <1>4, <2>2, Others, LeavingStays DEF Remove, Left
  <2>4. Owned(u)
    <3>1. CASE u = v
      BY <2>1, <3>1 DEF Owned, Leaving, At
    <3>2. CASE u # v
      BY <1>4, <3>2 DEF Remove, Owned, Owners
    <3> QED
      BY <3>1, <3>2
  <2> QED
    BY <1>4, <2>3, <2>4 DEF Remove, Joined
<1>5. ASSUME NEW c \in Consumers, BoundAdd(c) \/ Fill(c)
      PROVE  Joined(u) /\ Owned(u) /\ Left(u)
  <2>1. u \in cache \/ Coming(u)
    BY <1>5 DEF BoundAdd, Fill, Coming, At, Making
  <2>2. \E j : job' = [job EXCEPT ![c] = j]
    BY <1>5 DEF BoundAdd, Fill, Done
  <2>3. ~At(c, {"drop", "removed", "forget"}) /\ Owners' = Owners
    BY <1>5 DEF BoundAdd, Fill, At, tables, Owners
  <2> QED
    BY <2>1, <2>2, <2>3, Others, LeavingStays DEF Joined, Owned, Left
<1>6. ASSUME NEW c \in Consumers, RemovedExists(c) PROVE Joined(u) /\ Owned(u) /\ Left(u)
  <2>1. Goto(c, "forget") /\ UNCHANGED <<tables, cache>>
    BY <1>6 DEF RemovedExists
  <2>2. job'[c] = [job[c] EXCEPT !.at = "forget"] /\ \A d \in Consumers \ {c} : job'[d] = job[d]
    BY <2>1 DEF Goto, DataOK
  <2>3. job'[c].at = "forget" /\ job'[c].user = job[c].user
    BY <2>2 DEF DataOK, Jobs
  <2>4. At(c, {"removed"})
    BY <1>6 DEF RemovedExists, At
  <2>5. Left(u)
    <3> SUFFICES ASSUME NEW d \in Consumers,
                        \/ At(d, {"drop"})
                        \/ At(d, {"removed", "forget"}) /\ job[d].user = u
                 PROVE  Leaving(u)'
      BY DEF Left, Leaving
    <3>1. CASE d = c
      BY <2>3, <2>4, <3>1 DEF Leaving, At
    <3>2. CASE d # c
      BY <2>2, <3>2 DEF Leaving, At
    <3> QED
      BY <3>1, <3>2
  <2> QED
    BY <2>1, <2>5 DEF tables, Joined, Owned, Owners
<1>7. ASSUME NEW c \in Consumers, RemovedForget(c) PROVE Joined(u) /\ Owned(u) /\ Left(u)
  <2>1. /\ u \in cache /\ u # job[c].user /\ UNCHANGED tables
        /\ \A d \in Consumers \ {c} : job'[d] = job[d]
        /\ At(c, {"forget"})
    BY <1>7, Others DEF RemovedForget, Done, At
  <2>2. Left(u)
    <3> SUFFICES ASSUME NEW d \in Consumers,
                        \/ At(d, {"drop"})
                        \/ At(d, {"removed", "forget"}) /\ job[d].user = u
                 PROVE  Leaving(u)'
      BY DEF Left, Leaving
    <3>1. d # c
      BY <2>1 DEF At
    <3> QED
      BY <2>1, <3>1 DEF Leaving, At
  <2> QED
    BY <2>1, <2>2 DEF tables, Joined, Owned, Owners
<1>8. ASSUME NEW c \in Consumers, HoldKey(c) PROVE Joined(u) /\ Owned(u) /\ Left(u)
  <2>1. u \in cache /\ UNCHANGED tables /\ ~At(c, {"drop", "removed", "forget"})
    BY <1>8 DEF HoldKey, At
  <2>2. \E j : job' = [job EXCEPT ![c] = j]
    BY <1>8 DEF HoldKey, Goto, Done
  <2> QED
    BY <2>1, <2>2, Others, LeavingStays DEF tables, Joined, Owned, Left, Owners
<1>9. CASE \E c \in Consumers : RedisFails(c)
  <2>1. UNCHANGED <<tables, cache>> /\ failures' # failures
    BY <1>9 DEF RedisFails, CommandFails, DataOK
  <2> QED
    BY <2>1 DEF tables, Joined, Owned, Left, Owners
<1>10. CASE FlagExpires \/ \E c \in Consumers : ModifyPassword(c)
  BY <1>10 DEF FlagExpires, ModifyPassword, tables, Joined, Owned, Left, Owners, Leaving, At
<1>11. ASSUME NEW v \in Users, CloudSee(v) PROVE Joined(u) /\ Owned(u) /\ Left(u)
  BY <1>11 DEF CloudSee, Joined, Owned, Left, Owners, Leaving, At
<1> QED
  BY <1>1, <1>2, <1>3, <1>4, <1>5, <1>6, <1>7, <1>8, <1>9, <1>10, <1>11
     DEF Step, DeviceStep, UserStep, ListStep

\* Whoever is on the way to the list without owning the device is noted.
AstrayInv == \A u \in Users : Coming(u) => u \in Owners \/ u \in astray

LEMMA NextCached ==
    ASSUME TypeOK, AstrayInv, CachedAreBound, [Next]_vars
    PROVE  AstrayInv' /\ CachedAreBound'
<1>1. CASE Next
  <2>1. Step /\ astray' = NowAstray
    BY <1>1 DEF Next, History
  <2>2. AstrayInv'
    BY <2>1 DEF AstrayInv, NowAstray
  <2>3. ASSUME NEW u \in Users, u \in cache', u \notin Owners', ~Leaving(u)'
        PROVE  u \in astray'
    <3>1. Joined(u) /\ Owned(u) /\ Left(u)
      BY <2>1, <2>3, StepCached DEF TypeOK, DataOK
    <3>2. u \in astray \/ u \in linked \/ failures' # failures
      <4>1. CASE u \in cache
        BY <2>3, <3>1, <4>1 DEF CachedAreBound, Owned, Left
      <4>2. CASE u \notin cache
        BY <2>3, <3>1, <4>2 DEF AstrayInv, Joined
      <4> QED
        BY <4>1, <4>2
    <3> QED
      BY <2>1, <2>3, <3>2 DEF NowAstray
  <2> QED
    BY <2>2, <2>3 DEF CachedAreBound
<1>2. CASE UNCHANGED vars
  BY <1>2 DEF vars, tables, history, AstrayInv, CachedAreBound, Owners, Coming, Leaving, At, Making
<1> QED
  BY <1>1, <1>2

\* Whoever is on the list owns the device or is on the way off it, but for those
\* whom NowAstray says the code keeps there.  It rests on AstrayInv: what a step puts
\* on the list was on its way there before.
THEOREM CachedAreBoundHolds == Spec => []CachedAreBound
<1>1. Init => TypeOK /\ UserInv /\ AstrayInv /\ CachedAreBound
  BY InitUsers DEF Init, AstrayInv, CachedAreBound, Coming, At, Making, NoJob
<1>2. TypeOK /\ UserInv /\ AstrayInv /\ CachedAreBound /\ [Next]_vars
      => TypeOK' /\ UserInv' /\ AstrayInv' /\ CachedAreBound'
  BY NextUsers, NextCached
<1> QED
  BY <1>1, <1>2, PTL DEF Spec

-----------------------------------------------------------------------------
(* DeviceUsers: every owner is on the list.                                *)

\* What a step does to the users a thread has read.
LEMMA StepMaking ==
    ASSUME DataOK, Step, NEW c \in Consumers, At(c, Making)'
    PROVE  IF At(c, Making)
           THEN job[c].read \subseteq job'[c].read
           ELSE job[c].flag = 0 /\ job'[c].at = "linked"
                => bound' = bound /\ job'[c].read = bound
<1>1. CASE job'[c] = job[c]
  BY <1>1 DEF At
<1>2. CASE job'[c] # job[c]
  <2>0. job[c] \in Jobs
    BY DEF DataOK
  <2>1. ~Done(c)
    BY DEF Done, NoJob, DataOK, At, Making
  <2>2. CASE ReadBound(c)
    <3>1. PICK ok \in BOOLEAN :
            job'[c] = [job[c] EXCEPT !.at = IF ok THEN "linked" ELSE "hold",
                                     !.read = IF ok /\ job[c].flag = 0 THEN bound ELSE {}]
      BY <2>2 DEF ReadBound, DataOK
    <3>2. bound' = bound /\ ~At(c, Making)
      BY <2>2 DEF ReadBound, tables, At, Making
    <3> QED
      BY <2>0, <3>1, <3>2 DEF Jobs
  <2>3. CASE ReadLinked(c)
    <3>1. PICK R : job'[c] = [job[c] EXCEPT !.at = "hold", !.read = job[c].read \cup R]
      BY <2>3 DEF ReadLinked, DataOK
    <3>2. At(c, Making)
      BY <2>3 DEF ReadLinked, At, Making
    <3> QED
      BY <2>0, <3>1, <3>2 DEF Jobs
  <2>4. CASE Goto(c, "fill") /\ At(c, Making)
    <3>1. job'[c] = [job[c] EXCEPT !.at = "fill"]
      BY <2>4 DEF Goto, DataOK
    <3> QED
      BY <2>0, <2>4, <3>1 DEF Jobs
  <2>5. ASSUME NEW d \in Consumers, HoldKey(d) \/ RedisFails(d)
        PROVE  Goto(c, "fill") /\ At(c, Making)
    <3>1. \E j : job' = [job EXCEPT ![d] = j]
      BY <2>5 DEF HoldKey, RedisFails, Goto, Done
    <3>2. d = c
      BY <1>2, <3>1, Others
    <3>3. ~Goto(c, "unbind")
      BY DEF Goto, DataOK, Jobs, At, Making
    <3> QED
      BY <2>1, <2>5, <3>2, <3>3 DEF HoldKey, RedisFails, At, Making
  <2>6. ASSUME NEW d \in Consumers, ReadBound(d) \/ ReadLinked(d) PROVE d = c
    BY <1>2, <2>6, Others DEF ReadBound, ReadLinked
  <2>7. ASSUME NEW d \in Consumers, DropCache(d) \/ SetFlag(d) \/ BoundAdd(d) \/ RemovedForget(d) \/ Fill(d)
        PROVE  FALSE
    <3>1. Done(d)
      BY <2>7 DEF DropCache, SetFlag, BoundAdd, RemovedForget, Fill
    <3>2. d = c
      BY <1>2, <3>1, Others DEF Done
    <3> QED
      BY <2>1, <3>1, <3>2
  <2>8. ASSUME NEW d \in Consumers, Unbind(d) \/ BoundExists(d) \/ RemovedExists(d) PROVE FALSE
    <3>1. Done(d) \/ \E s \in {"drop", "add", "forget"} : Goto(d, s)
      BY <2>8 DEF Unbind, BoundExists, RemovedExists
    <3>2. d = c
      BY <1>2, <3>1, Others DEF Done, Goto
    <3>3. PICK s \in {"drop", "add", "forget"} : Goto(c, s)
      BY <2>1, <3>1, <3>2
    <3> QED
      BY <3>3 DEF Goto, DataOK, Jobs, At, Making
  <2>9. ASSUME NEW d \in Consumers,
               \/ \E flag \in {0, 1} : Register(d, flag)
               \/ LookUp(d) \/ Report(d)
               \/ \E v \in Users : SetApConf(d, v) \/ Bind(d, v) \/ Remove(d, v)
               \/ ReadFlag(d) \/ ListMissing(d)
        PROVE  FALSE
    <3>0. job[d] \in Jobs
      BY DEF DataOK
    <3>1. (\E j : job' = [job EXCEPT ![d] = j]) /\ job'[d].at \notin Making
      <4>1. ASSUME NEW flag \in {0, 1}, Register(d, flag)
            PROVE  (\E j : job' = [job EXCEPT ![d] = j]) /\ job'[d].at \notin Making
        <5>1. PICK ok \in BOOLEAN :
                  job' = [job EXCEPT ![d] =
                     IF flag = 0 THEN NoJob
                     ELSE [NoJob EXCEPT !.at = IF ok THEN "look" ELSE "unbind",
                                        !.op = "register"]]
          BY <4>1 DEF Register
        <5>2. job'[d] = IF flag = 0 THEN NoJob
                        ELSE [NoJob EXCEPT !.at = IF ok THEN "look" ELSE "unbind",
                                           !.op = "register"]
          BY <5>1 DEF DataOK
        <5>3. ASSUME flag = 0 PROVE job'[d].at \in {"idle", "look", "unbind"}
          BY <5>2, <5>3 DEF NoJob
        <5>4. ASSUME flag # 0 /\ ok PROVE job'[d].at \in {"idle", "look", "unbind"}
          BY <5>2, <5>4 DEF NoJob
        <5>5. ASSUME flag # 0 /\ ~ok PROVE job'[d].at \in {"idle", "look", "unbind"}
          BY <5>2, <5>5 DEF NoJob
        <5>6. \E j : job' = [job EXCEPT ![d] = j]
          BY <4>1 DEF Register
        <5> QED
          BY <5>3, <5>4, <5>5, <5>6 DEF Making
      <4>2. CASE LookUp(d)
        <5>1. job'[d] = [job[d] EXCEPT !.at = "unbind", !.user = apConf]
          BY <4>2 DEF LookUp, DataOK
        <5>2. job'[d].at = "unbind"
          BY <3>0, <5>1 DEF Jobs
        <5> QED
          BY <4>2, <5>2 DEF LookUp, Making
      <4>3. CASE Report(d) \/ ListMissing(d)
        <5>1. job'[d].at \in {"unbind", "flag"}
          BY <4>3 DEF Report, ListMissing, NoJob, DataOK
        <5> QED
          BY <4>3, <5>1 DEF Report, ListMissing, Making
      <4>4. ASSUME NEW v \in Users, SetApConf(d, v) \/ Bind(d, v) \/ Remove(d, v)
            PROVE  (\E j : job' = [job EXCEPT ![d] = j]) /\ job'[d].at \notin Making
        <5>1. job'[d].at \in {"setflag", "bound", "removed"}
          BY <4>4 DEF SetApConf, Bind, Remove, NoJob, DataOK
        <5> QED
          BY <4>4, <5>1 DEF SetApConf, Bind, Remove, Making
      <4>5. CASE ReadFlag(d)
        <5>1. PICK f : job' = [job EXCEPT ![d] = [job[d] EXCEPT !.at = "users", !.flag = f]]
          BY <4>5 DEF ReadFlag, DataOK
        <5>2. job'[d] = [job[d] EXCEPT !.at = "users", !.flag = f]
          BY <5>1 DEF DataOK
        <5>3. job'[d].at = "users"
          BY <3>0, <5>2 DEF Jobs
        <5> QED
          BY <5>1, <5>3 DEF Making
      <4> QED
        BY <2>9, <4>1, <4>2, <4>3, <4>4, <4>5
    <3>2. d = c
      BY <1>2, <3>1, Others
    <3> QED
      BY <3>1, <3>2 DEF At
  <2>10. ASSUME FlagExpires \/ (\E d \in Consumers : ModifyPassword(d)) \/ \E v \in Users : CloudSee(v)
         PROVE  FALSE
    BY <1>2, <2>10 DEF FlagExpires, ModifyPassword, CloudSee
  <2> QED
    BY <2>2, <2>3, <2>4, <2>5, <2>6, <2>7, <2>8, <2>9, <2>10
       DEF Step, DeviceStep, UserStep, ListStep
<1> QED
  BY <1>1, <1>2

\* Whoever a list is made without is noted as unread, and as missed while he is not
\* on the list.
UnreadInv == \A c \in Consumers : At(c, Making) =>
    \A u \in bound : u \in unread[c] \/ u \in job[c].read
MissedInv == \A u \in bound \ cache : (\E c \in Consumers : u \in unread[c]) => u \in missed

LEMMA NextUnread ==
    ASSUME TypeOK, DataOK', UnreadInv, Next
    PROVE  UnreadInv' /\ MissedInv'
<1>1. Step /\ unread' = NowUnread /\ missed' = NowMissed /\ DataOK
  BY DEF Next, History, TypeOK, DataOK
<1>2. MissedInv'
  BY <1>1 DEF MissedInv, NowMissed
<1>3. ASSUME NEW c \in Consumers, At(c, Making)', NEW u \in bound'
      PROVE  u \in unread'[c] \/ u \in job'[c].read
  <2>1. unread'[c] = IF At(c, Making) THEN unread[c] \cup (bound' \ bound)
                     ELSE IF job[c].flag = 0 /\ job'[c].at = "linked" THEN {} ELSE Users
    BY <1>1, <1>3 DEF NowUnread
  <2>2. IF At(c, Making)
        THEN job[c].read \subseteq job'[c].read
        ELSE job[c].flag = 0 /\ job'[c].at = "linked"
             => bound' = bound /\ job'[c].read = bound
    BY <1>1, <1>3, StepMaking
  <2> QED
    BY <1>3, <2>1, <2>2 DEF UnreadInv, DataOK
<1> QED
  BY <1>2, <1>3 DEF UnreadInv

\* What a step does to an owner u who is not on a list that is there after it.
Bought(u) == u \in bound \/ Coming(u)'
Made(u) == cache = {} =>
    \/ \E c \in Consumers : At(c, {"add"})
    \/ Coming(u)'
    \/ \E c \in Consumers : At(c, Making) /\ u \notin job[c].read
Struck(u) == u \in cache => \E c \in Consumers : At(c, {"forget"}) /\ job[c].user = u
Waits(u) == Coming(u) /\ cache # {} => Coming(u)' \/ failures' # failures

\* Only these places let a thread put a user on the list.
LEMMA ComingStays ==
    ASSUME NEW u \in Users, NEW c \in Consumers,
           \A d \in Consumers \ {c} : job'[d] = job[d],
           job'[c] = job[c] \/ ~At(c, {"bound", "add", "linked", "hold", "fill"})
    PROVE  Coming(u) => Coming(u)'
<1> SUFFICES ASSUME NEW d \in Consumers,
                    \/ At(d, {"bound", "add"}) /\ job[d].user = u
                    \/ At(d, Making) /\ u \in job[d].read
             PROVE  Coming(u)'
  BY DEF Coming
<1>1. job'[d] = job[d]
  BY DEF At, Making
<1> QED
  BY <1>1 DEF Coming, At

\* A thread that stays on its way to the list.
LEMMA ComingGoes ==
    ASSUME DataOK, NEW u \in Users, NEW c \in Consumers,
           \A d \in Consumers \ {c} : job'[d] = job[d],
           \/ At(c, {"bound", "add"}) /\ At(c, {"bound", "add"})' /\ job'[c].user = job[c].user
           \/ At(c, Making) /\ At(c, Making)' /\ job[c].read \subseteq job'[c].read
    PROVE  Coming(u) => Coming(u)'
<1> SUFFICES ASSUME NEW d \in Consumers,
                    \/ At(d, {"bound", "add"}) /\ job[d].user = u
                    \/ At(d, Making) /\ u \in job[d].read
             PROVE  Coming(u)'
  BY DEF Coming
<1>1. CASE d = c
  BY <1>1 DEF Coming, At, Making
<1>2. CASE d # c
  <2>1. job'[d] = job[d]
    BY <1>2
  <2> QED
    BY <2>1 DEF Coming, At
<1> QED
  BY <1>1, <1>2

LEMMA StepMissed ==
    ASSUME DataOK, Step, NEW u \in Users, u \in bound', cache' # {}, u \notin cache'
    PROVE  Bought(u) /\ Made(u) /\ Struck(u) /\ Waits(u)
<1>1. ASSUME NEW c \in Consumers,
             \/ \E flag \in {0, 1} : Register(c, flag)
             \/ LookUp(c) \/ Report(c) \/ SetFlag(c) \/ Unbind(c)
             \/ \E v \in Users : SetApConf(c, v) \/ Remove(c, v)
             \/ RemovedExists(c) \/ ReadFlag(c) \/ ReadBound(c)
             \/ ListMissing(c)
      PROVE  Bought(u) /\ Made(u) /\ Struck(u) /\ Waits(u)
  <2>1. \E j : job' = [job EXCEPT ![c] = j]
    <3>1. CASE \E flag \in {0, 1} : Register(c, flag)
      BY <3>1 DEF Register
    <3>2. CASE LookUp(c) \/ Report(c) \/ ReadFlag(c) \/ ReadBound(c)
      BY <3>2 DEF LookUp, Report, ReadFlag, ReadBound
    <3>3. CASE \E v \in Users : SetApConf(c, v) \/ Remove(c, v)
      BY <3>3 DEF SetApConf, Remove
    <3>4. CASE SetFlag(c) \/ Unbind(c) \/ RemovedExists(c)
      BY <3>4 DEF SetFlag, Unbind, RemovedExists, Goto, Done
    <3>5. CASE ListMissing(c)
      BY <3>5 DEF ListMissing
    <3> QED
      BY <1>1, <3>1, <3>2, <3>3, <3>4, <3>5
  <2>2. cache' = cache
    BY <1>1 DEF Register, LookUp, Report, SetFlag, Unbind, SetApConf, Remove, RemovedExists,
                ReadFlag, ReadBound, ListMissing
  <2>3. bound' \subseteq bound
    <3>1. CASE Unbind(c)
      BY <3>1 DEF Unbind
    <3>2. CASE \E v \in Users : Remove(c, v)
      BY <3>2 DEF Remove
    <3> QED
      BY <1>1, <3>1, <3>2 DEF Register, LookUp, Report, SetFlag, SetApConf, RemovedExists,
                ReadFlag, ReadBound, ListMissing, tables
  <2>4. ~At(c, {"bound", "add", "linked", "hold", "fill"})
    BY <1>1 DEF Register, LookUp, Report, SetFlag, Unbind, SetApConf, Remove, RemovedExists,
                ReadFlag, ReadBound, ListMissing, At, Idle
  <2> QED
    BY <2>1, <2>2, <2>3, <2>4, Others, ComingStays DEF Bought, Made, Struck, Waits
<1>2. ASSUME NEW c \in Consumers, DropCache(c) PROVE FALSE
  BY <1>2 DEF DropCache
<1>3. ASSUME NEW c \in Consumers, NEW v \in Users, Bind(c, v)
      PROVE  Bought(u) /\ Made(u) /\ Struck(u) /\ Waits(u)
  <2>1. cache' = cache /\ bound' \subseteq bound \cup {v} /\ ~At(c, {"bound", "add", "linked", "hold", "fill"})
    BY <1>3 DEF Bind, At, Idle
  <2>2. job'[c].at = "bound" /\ job'[c].user = v
    BY <1>3 DEF Bind, DataOK, NoJob
  <2>3. Coming(u) => Coming(u)'
    BY <1>3, <2>1, Others, ComingStays DEF Bind
  <2>4. u = v => Coming(u)'
    BY <2>2 DEF Coming, At
  <2> QED
    BY <2>1, <2>3, <2>4 DEF Bought, Made, Struck, Waits
<1>4. ASSUME NEW c \in Consumers, BoundExists(c)
      PROVE  Bought(u) /\ Made(u) /\ Struck(u) /\ Waits(u)
  <2>1. UNCHANGED <<tables, cache>> /\ Goto(c, "add") /\ At(c, {"bound", "add"})
    BY <1>4 DEF BoundExists, At
  <2>2. job'[c] = [job[c] EXCEPT !.at = "add"] /\ \A d \in Consumers \ {c} : job'[d] = job[d]
    BY <2>1 DEF Goto, DataOK
  <2>3. job'[c].at = "add" /\ job'[c].user = job[c].user
    BY <2>2 DEF DataOK, Jobs
  <2>4. Coming(u) => Coming(u)'
    BY <2>1, <2>2, <2>3, ComingGoes DEF At
  <2> QED
    BY <2>1, <2>4 DEF tables, Bought, Made, Struck, Waits
<1>5. ASSUME NEW c \in Consumers, BoundAdd(c)
      PROVE  Bought(u) /\ Made(u) /\ Struck(u) /\ Waits(u)
  <2>1. At(c, {"add"}) /\ u # job[c].user /\ UNCHANGED tables /\ u \notin cache
    BY <1>5 DEF BoundAdd, At
  <2>2. \A d \in Consumers \ {c} : job'[d] = job[d]
    BY <1>5, Others DEF BoundAdd, Done
  <2>3. Coming(u) => Coming(u)'
    <3> SUFFICES ASSUME NEW d \in Consumers,
                        \/ At(d, {"bound", "add"}) /\ job[d].user = u
                        \/ At(d, Making) /\ u \in job[d].read
                 PROVE  Coming(u)'
      BY DEF Coming
    <3>1. d # c
      BY <2>1 DEF At, Making
    <3>2. job'[d] = job[d]
      BY <2>2, <3>1
    <3> QED
      BY <3>2 DEF Coming, At
  <2> QED
    BY <2>1, <2>3 DEF tables, Bought, Made, Struck, Waits
<1>6. ASSUME NEW c \in Consumers, RemovedForget(c)
      PROVE  Bought(u) /\ Made(u) /\ Struck(u) /\ Waits(u)
  <2>1. /\ At(c, {"forget"}) /\ UNCHANGED tables /\ cache' = cache \ {job[c].user}
        /\ \E j : job' = [job EXCEPT ![c] = j]
    BY <1>6 DEF RemovedForget, Done, At
  <2>2. Coming(u) => Coming(u)'
    BY <2>1, Others, ComingStays DEF At
  <2> QED
    BY <2>1, <2>2 DEF tables, Bought, Made, Struck, Waits
<1>7. ASSUME NEW c \in Consumers, ReadLinked(c)
      PROVE  Bought(u) /\ Made(u) /\ Struck(u) /\ Waits(u)
  <2>1. UNCHANGED <<tables, cache>> /\ At(c, Making)
    BY <1>7 DEF ReadLinked, At, Making
  <2>2. PICK R : job' = [job EXCEPT ![c] = [job[c] EXCEPT !.at = "hold", !.read = job[c].read \cup R]]
    BY <1>7 DEF ReadLinked, DataOK
  <2>3. job'[c].at = "hold" /\ job[c].read \subseteq job'[c].read
    BY <2>2 DEF DataOK, Jobs
  <2>4. Coming(u) => Coming(u)'
    BY <2>1, <2>2, <2>3, Others, ComingGoes DEF At, Making
  <2> QED
    BY <2>1, <2>4 DEF tables, Bought, Made, Struck, Waits
<1>8. ASSUME NEW c \in Consumers, HoldKey(c)
      PROVE  Bought(u) /\ Made(u) /\ Struck(u) /\ Waits(u)
  <2>1. UNCHANGED tables /\ At(c, Making) /\ cache \subseteq cache'
    BY <1>8 DEF HoldKey, At, Making
  <2>2. CASE job[c].read # {}
    <3>1. Goto(c, "fill")
      BY <1>8, <2>2 DEF HoldKey
    <3>2. job'[c] = [job[c] EXCEPT !.at = "fill"] /\ \A d \in Consumers \ {c} : job'[d] = job[d]
      BY <3>1 DEF Goto, DataOK
    <3>3. job'[c].at = "fill" /\ job'[c].read = job[c].read
      BY <3>2 DEF DataOK, Jobs
    <3>4. Coming(u) => Coming(u)'
      BY <2>1, <3>2, <3>3, ComingGoes DEF At, Making
    <3>5. u \in job[c].read => Coming(u)'
      BY <3>3 DEF Coming, At, Making
    <3> QED
      BY <2>1, <3>4, <3>5 DEF tables, Bought, Made, Struck, Waits
  <2>3. CASE job[c].read = {}
    <3>1. \A d \in Consumers \ {c} : job'[d] = job[d]
      BY <1>8, <2>3, Others DEF HoldKey, Done
    <3>2. Coming(u) => Coming(u)'
      <4> SUFFICES ASSUME NEW d \in Consumers,
                          \/ At(d, {"bound", "add"}) /\ job[d].user = u
                          \/ At(d, Making) /\ u \in job[d].read
                   PROVE  Coming(u)'
        BY DEF Coming
      <4>1. d # c
        BY <1>8, <2>3 DEF HoldKey, At, Making
      <4>2. job'[d] = job[d]
        BY <3>1, <4>1
      <4> QED
        BY <4>2 DEF Coming, At
    <3> QED
      BY <2>1, <2>3, <3>2 DEF tables, Bought, Made, Struck, Waits
  <2> QED
    BY <2>2, <2>3
<1>9. ASSUME NEW c \in Consumers, Fill(c)
      PROVE  Bought(u) /\ Made(u) /\ Struck(u) /\ Waits(u)
  <2>1. At(c, {"fill"}) /\ At(c, Making) /\ u \notin job[c].read /\ UNCHANGED tables /\ u \notin cache
    BY <1>9 DEF Fill, At, Making
  <2>2. \A d \in Consumers \ {c} : job'[d] = job[d]
    BY <1>9, Others DEF Fill, Done
  <2>3. Coming(u) => Coming(u)'
    <3> SUFFICES ASSUME NEW d \in Consumers,
                        \/ At(d, {"bound", "add"}) /\ job[d].user = u
                        \/ At(d, Making) /\ u \in job[d].read
                 PROVE  Coming(u)'
      BY DEF Coming
    <3>1. d # c
      BY <2>1 DEF At
    <3>2. job'[d] = job[d]
      BY <2>2, <3>1
    <3> QED
      BY <3>2 DEF Coming, At
  <2> QED
    BY <2>1, <2>3 DEF tables, Bought, Made, Struck, Waits
<1>10. CASE \E c \in Consumers : RedisFails(c)
  <2>1. UNCHANGED <<tables, cache>> /\ failures' # failures
    BY <1>10 DEF RedisFails, CommandFails, DataOK
  <2> QED
    BY <2>1 DEF tables, Bought, Made, Struck, Waits
<1>11. CASE FlagExpires \/ (\E c \in Consumers : ModifyPassword(c)) \/ \E v \in Users : CloudSee(v)
  <2>1. UNCHANGED <<bound, cache, job>>
    BY <1>11 DEF FlagExpires, ModifyPassword, CloudSee, tables
  <2> QED
    BY <2>1 DEF Bought, Made, Struck, Waits, Coming, At, Making
<1> QED
  BY <1>1, <1>2, <1>3, <1>4, <1>5, <1>6, <1>7, <1>8, <1>9, <1>10, <1>11
     DEF Step, DeviceStep, UserStep, ListStep

LEMMA NextComplete ==
    ASSUME TypeOK, DataOK', UnreadInv, MissedInv, CacheComplete, Next
    PROVE  CacheComplete'
<1> SUFFICES ASSUME NEW u \in bound', cache' # {}, u \notin cache', ~Coming(u)', u \notin missed'
             PROVE  FALSE
  BY DEF CacheComplete
<1>1. Step /\ missed' = NowMissed /\ u \in Users
  BY DEF Next, History, DataOK
<1>2. Bought(u) /\ Made(u) /\ Struck(u) /\ Waits(u)
  BY <1>1, StepMissed DEF TypeOK, DataOK
<1>3. /\ u \notin missed /\ failures' = failures
      /\ ~\E c \in Consumers : At(c, {"add"}) /\ cache = {}
      /\ ~\E c \in Consumers : At(c, {"forget"}) /\ job[c].user = u
  BY <1>1 DEF NowMissed
<1>4. u \in bound \ cache
  BY <1>2, <1>3 DEF Bought, Struck
<1>5. CASE cache = {}
  <2>1. PICK c \in Consumers : At(c, Making) /\ u \notin job[c].read
    BY <1>2, <1>3, <1>5 DEF Made
  <2>2. u \in unread[c]
    BY <1>4, <2>1 DEF UnreadInv
  <2> QED
    BY <1>3, <1>4, <2>2 DEF MissedInv
<1>6. CASE cache # {}
  BY <1>2, <1>3, <1>4, <1>6 DEF CacheComplete, Waits
<1> QED
  BY <1>5, <1>6

\* If there is a list every owner is on it or on the way to it, but for those whom
\* NowMissed says the code leaves off.  It rests on UnreadInv and MissedInv: whoever
\* a list is made without was read too early, and is not on the list meanwhile.
THEOREM CacheCompleteHolds == Spec => []CacheComplete
<1> DEFINE Inv == TypeOK /\ UserInv /\ UnreadInv /\ MissedInv /\ CacheComplete
<1>1. Init => Inv
  BY InitUsers DEF Init, UnreadInv, MissedInv, CacheComplete
<1>2. Inv /\ [Next]_vars => Inv'
  <2> SUFFICES ASSUME Inv, [Next]_vars PROVE Inv'
    OBVIOUS
  <2>1. TypeOK' /\ UserInv' /\ DataOK'
    <3>1. TypeOK' /\ UserInv'
      BY NextUsers
    <3> QED
      BY <3>1 DEF TypeOK, DataOK
  <2>2. CASE Next
    BY <2>1, <2>2, NextUnread, NextComplete
  <2>3. CASE UNCHANGED vars
    BY <2>1, <2>3 DEF vars, tables, history, UnreadInv, MissedInv, CacheComplete, Coming, At, Making
  <2> QED
    BY <2>2, <2>3
<1>3. Inv => CacheComplete
  OBVIOUS
<1> QED
  BY <1>1, <1>2, <1>3, PTL DEF Spec

-----------------------------------------------------------------------------
(* Humiture: hours, days and stamps.                                       *)

LEMMA DayAndHour ==
    ASSUME NEW t \in Nat
    PROVE  /\ Day(t) \in Nat /\ HourOfDay(t) \in 0 .. HoursPerDay - 1
           /\ Day(t) * HoursPerDay + HourOfDay(t) = t
BY HumitureAssumption DEF Day, HourOfDay

\* The hour before is of the same day, midnight excepted.
LEMMA HourBefore ==
    ASSUME NEW t \in Nat, HourOfDay(t) # 0
    PROVE  /\ t - 1 \in Nat
           /\ Day(t - 1) = Day(t) /\ HourOfDay(t - 1) = HourOfDay(t) - 1
BY HumitureAssumption DEF Day, HourOfDay

LEMMA DayGrows ==
    ASSUME NEW s \in Nat, NEW t \in Nat, s <= t
    PROVE  Day(s) <= Day(t)
BY HumitureAssumption DEF Day


\* Everything a stamp says is a number.
LEMMA StampHour ==
    ASSUME NEW s \in Stamps
    PROVE  s.hour \in Hours /\ s.hour \in Nat
BY HumitureAssumption DEF Stamps, Hours

LEMMA NoStatType ==
    NoStat \in Stat /\ NoStat.at = "idle" /\ NoStat.result = "none" /\ NoStat.made = <<>>
    /\ NoStat.vec = {} /\ NoStat.missed = {}
<1>1. 0 \in Hours /\ 0 \in 0 .. Day(LastHour) /\ 0 \in 0 .. HoursPerDay - 1
  BY DayAndHour, HumitureAssumption DEF Hours
<1> QED
  BY <1>1 DEF NoStat, Stat

-----------------------------------------------------------------------------
(* Readings: what is in redis and what has been stored.                    *)

Both == {"temperature", "humidity"}
Reports == [at : {"idle", "temperature", "humidity"}, stamp : Stamps \cup {Nil}]

ReadType ==
    /\ now \in Hours
    /\ readings \in [Devices -> [Stamps -> SUBSET Both]]
    /\ dies \in [Devices -> [Stamps -> (0 .. LastHour + HoursPerDay) \cup {Forever}]]
    /\ report \in [Devices -> Reports]
    /\ stored \subseteq Devices \X Stamps

\* Only what has been stored gets a time to live, a day from its hour or later;
\* until then it is there whole.
ReadOK(d, s) ==
    /\ dies[d][s] # Forever => <<d, s>> \in stored /\ s.hour + HoursPerDay <= dies[d][s]
    /\ "humidity" \in readings[d][s] => <<d, s>> \in stored
    /\ <<d, s>> \in stored /\ now < s.hour + HoursPerDay => Both \subseteq readings[d][s]

\* The reading that imDevServer works on.
ReportOK(d) ==
    LET s == report[d].stamp
    IN  /\ report[d].at # "idle" => s \in Stamps /\ s.hour <= now
        /\ report[d].at = "temperature" => "temperature" \in readings[d][s] \/ <<d, s>> \in stored
        /\ report[d].at = "humidity" => <<d, s>> \in stored

ReadInv ==
    /\ ReadType
    /\ \A d \in Devices, s \in Stamps : ReadOK(d, s)
    /\ \A d \in Devices : ReportOK(d)

LEMMA TemperatureStep ==
    ASSUME ReadInv, NEW d \in Devices, NEW s \in Stamps, ReportTemperature(d, s)
    PROVE  ReadInv'
<1>1. readings' = [readings EXCEPT ![d] = [readings[d] EXCEPT ![s] = @ \cup {"temperature"}]]
      /\ report' = [report EXCEPT ![d] = [at |-> "temperature", stamp |-> s]]
      /\ UNCHANGED <<now, dies, stored>>
  BY DEF ReportTemperature, ReadInv, ReadType
<1>2. \A e \in Devices, t \in Stamps : readings'[e][t] =
          IF e = d /\ t = s THEN readings[e][t] \cup {"temperature"} ELSE readings[e][t]
  BY <1>1 DEF ReadInv, ReadType
<1>3. ReadType'
  <2>1. readings' \in [Devices -> [Stamps -> SUBSET Both]]
    BY <1>1 DEF ReadInv, ReadType, Both
  <2>2. report' \in [Devices -> Reports]
    BY <1>1 DEF ReadInv, ReadType, Reports
  <2> QED
    BY <1>1, <2>1, <2>2 DEF ReadInv, ReadType
<1>4. \A e \in Devices, t \in Stamps : ReadOK(e, t)'
  <2> SUFFICES ASSUME NEW e \in Devices, NEW t \in Stamps PROVE ReadOK(e, t)'
    OBVIOUS
  <2> DEFINE r == readings[e][t]
             q == readings'[e][t]
  <2>1. q = r \/ q = r \cup {"temperature"}
    BY <1>2
  <2> HIDE DEF r, q
  <2>2. r \subseteq q /\ ("humidity" \in q => "humidity" \in r)
    BY <2>1
  <2> QED
    BY <1>1, <2>2 DEF r, q, ReadInv, ReadOK
<1>5. \A e \in Devices : ReportOK(e)'
  <2>1. s.hour <= now
    BY StampHour, HumitureAssumption DEF ReportTemperature, ReadInv, ReadType, Hours
  <2>2. report'[d].at = "temperature" /\ report'[d].stamp = s
        /\ \A e \in Devices : e # d => report'[e] = report[e]
    BY <1>1 DEF ReadInv, ReadType
  <2>3. "temperature" \in readings'[d][s]
    BY <1>2
  <2>4. \A e \in Devices, t \in Stamps : readings[e][t] \subseteq readings'[e][t]
    BY <1>2
  <2> QED
    BY <1>1, <2>1, <2>2, <2>3, <2>4 DEF ReadInv, ReportOK
<1> QED
  BY <1>3, <1>4, <1>5 DEF ReadInv

LEMMA HumidityStep ==
    ASSUME ReadInv, NEW d \in Devices, ReportHumidity(d)
    PROVE  ReadInv' /\ stored \subseteq stored'
<1> DEFINE s == report[d].stamp
<1>1. s \in Stamps /\ s.hour <= now /\ report[d].at = "temperature"
      /\ ("temperature" \in readings[d][s] \/ <<d, s>> \in stored)
  BY DEF ReadInv, ReportOK, ReportHumidity
<1>2. readings' = [readings EXCEPT ![d] = [readings[d] EXCEPT ![s] = @ \cup {"humidity"}]]
  BY <1>1 DEF ReadInv, ReadType, ReportHumidity
<1>3. \A e \in Devices, t \in Stamps : readings'[e][t] =
          IF e = d /\ t = s THEN readings[e][t] \cup {"humidity"} ELSE readings[e][t]
  BY <1>1, <1>2 DEF ReadInv, ReadType
<1>4. stored' = stored \cup {<<d, s>>} /\ <<d, s>> \in stored'
      /\ ("temperature" \in readings[d][s] \/ <<d, s>> \in stored)
  BY <1>1 DEF ReportHumidity
<1>5. report' = [report EXCEPT ![d] = [at |-> "humidity", stamp |-> s]]
  <2>1. report[d] \in Reports
    BY DEF ReadInv, ReadType
  <2>2. [report[d] EXCEPT !.at = "humidity"] = [at |-> "humidity", stamp |-> s]
    BY <2>1 DEF Reports
  <2>3. report' = [report EXCEPT ![d] = [report[d] EXCEPT !.at = "humidity"]]
    BY DEF ReportHumidity
  <2> QED
    BY <2>2, <2>3
<1>6. UNCHANGED <<now, dies>>
  BY DEF ReportHumidity
<1> HIDE DEF s
<1>7. ReadType'
  <2>1. readings' \in [Devices -> [Stamps -> SUBSET Both]]
    BY <1>1, <1>2 DEF ReadInv, ReadType, Both
  <2>2. report' \in [Devices -> Reports]
    BY <1>1, <1>5 DEF ReadInv, ReadType, Reports
  <2> QED
    BY <1>1, <1>4, <1>6, <2>1, <2>2 DEF ReadInv, ReadType
<1>8. \A e \in Devices, t \in Stamps : ReadOK(e, t)'
  <2> SUFFICES ASSUME NEW e \in Devices, NEW t \in Stamps PROVE ReadOK(e, t)'
    OBVIOUS
  <2>1. ReadOK(e, t)
    BY DEF ReadInv
  <2>2. <<e, t>> \in stored' <=> <<e, t>> \in stored \/ (e = d /\ t = s)
    BY <1>4
  <2>3. CASE e = d /\ t = s
    BY <1>3, <1>4, <1>6, <2>1, <2>2, <2>3 DEF ReadOK, Both
  <2>4. CASE ~(e = d /\ t = s)
    BY <1>3, <1>6, <2>1, <2>2, <2>4 DEF ReadOK
  <2> QED
    BY <2>3, <2>4
<1>9. \A e \in Devices : ReportOK(e)'
  <2>1. report'[d].at = "humidity" /\ report'[d].stamp = s
        /\ \A e \in Devices : e # d => report'[e] = report[e]
    BY <1>5 DEF ReadInv, ReadType
  <2>2. \A e \in Devices, t \in Stamps : readings[e][t] \subseteq readings'[e][t]
    BY <1>3
  <2> QED
    BY <1>1, <1>4, <1>6, <2>1, <2>2 DEF ReadInv, ReportOK
<1> QED
  BY <1>4, <1>7, <1>8, <1>9 DEF ReadInv

LEMMA ExpireStep ==
    ASSUME ReadInv, NEW d \in Devices, ReportExpire(d)
    PROVE  ReadInv'
<1> DEFINE s == report[d].stamp
           t == IF readings[d][s] = {} THEN Forever ELSE now + HoursPerDay
<1>1. s \in Stamps /\ s.hour <= now /\ <<d, s>> \in stored
  BY DEF ReadInv, ReportOK, ReportExpire
<1>2. dies' = [dies EXCEPT ![d] = [dies[d] EXCEPT ![s] = t]]
  BY <1>1 DEF ReadInv, ReadType, ReportExpire
<1>3. t \in (0 .. LastHour + HoursPerDay) \cup {Forever}
      /\ (t # Forever => s.hour + HoursPerDay <= t)
  BY <1>1, StampHour, HumitureAssumption DEF ReadInv, ReadType, Hours
<1>4. report' = [report EXCEPT ![d] = NoReport] /\ UNCHANGED <<now, readings, stored>>
  BY DEF ReportExpire
<1> HIDE DEF s, t
<1>5. ReadType'
  <2>1. report' \in [Devices -> Reports]
    BY <1>4 DEF ReadInv, ReadType, Reports, NoReport
  <2>2. dies' \in [Devices -> [Stamps -> (0 .. LastHour + HoursPerDay) \cup {Forever}]]
    BY <1>1, <1>2, <1>3 DEF ReadInv, ReadType
  <2> QED
    BY <1>4, <2>1, <2>2 DEF ReadInv, ReadType
<1>6. \A e \in Devices, u \in Stamps : dies'[e][u] = IF e = d /\ u = s THEN t ELSE dies[e][u]
  BY <1>1, <1>2 DEF ReadInv, ReadType
<1>7. \A e \in Devices, u \in Stamps : ReadOK(e, u)'
  BY <1>1, <1>3, <1>4, <1>6 DEF ReadInv, ReadOK
<1>8. \A e \in Devices : ReportOK(e)'
  <2>1. report'[d].at = "idle" /\ \A e \in Devices : e # d => report'[e] = report[e]
    BY <1>4 DEF ReadInv, ReadType, NoReport
  <2> QED
    BY <1>4, <2>1 DEF ReadInv, ReportOK
<1> QED
  BY <1>5, <1>7, <1>8 DEF ReadInv

LEMMA ReportFailsStep ==
    ASSUME ReadInv, NEW d \in Devices, ReportFails(d)
    PROVE  ReadInv'
<1>1. report' = [report EXCEPT ![d] = NoReport] /\ UNCHANGED <<now, readings, dies, stored>>
  BY DEF ReportFails
<1>2. ReadType'
  BY <1>1 DEF ReadInv, ReadType, Reports, NoReport
<1>3. \A e \in Devices, u \in Stamps : ReadOK(e, u)'
  BY <1>1 DEF ReadInv, ReadOK
<1>4. \A e \in Devices : ReportOK(e)'
  <2>1. report'[d].at = "idle" /\ \A e \in Devices : e # d => report'[e] = report[e]
    BY <1>1 DEF ReadInv, ReadType, NoReport
  <2> QED
    BY <1>1, <2>1 DEF ReadInv, ReportOK
<1> QED
  BY <1>2, <1>3, <1>4 DEF ReadInv

\* What expires is a day old.
LEMMA ExpiresStep ==
    ASSUME ReadInv, NEW d \in Devices, NEW s \in Stamps, Expires(d, s)
    PROVE  ReadInv'
<1>1. readings' = [readings EXCEPT ![d] = [readings[d] EXCEPT ![s] = {}]]
      /\ dies' = [dies EXCEPT ![d] = [dies[d] EXCEPT ![s] = Forever]]
      /\ UNCHANGED <<now, report, stored>>
  BY DEF Expires, ReadInv, ReadType
<1>2. ReadOK(d, s) /\ dies[d][s] # Forever /\ dies[d][s] <= now
  BY DEF Expires, ReadInv
<1>3. <<d, s>> \in stored /\ ~(now < s.hour + HoursPerDay)
  <2>1. dies[d][s] \in Nat /\ now \in Nat
    BY <1>2, HumitureAssumption DEF ReadInv, ReadType, Hours
  <2> QED
    BY <1>2, <2>1, StampHour, HumitureAssumption DEF ReadOK
<1>4. ReadType'
  BY <1>1 DEF ReadInv, ReadType
<1>5. \A e \in Devices, u \in Stamps :
          /\ readings'[e][u] = (IF e = d /\ u = s THEN {} ELSE readings[e][u])
          /\ dies'[e][u] = (IF e = d /\ u = s THEN Forever ELSE dies[e][u])
  BY <1>1 DEF ReadInv, ReadType
<1>6. \A e \in Devices, u \in Stamps : ReadOK(e, u)'
  <2> SUFFICES ASSUME NEW e \in Devices, NEW u \in Stamps PROVE ReadOK(e, u)'
    OBVIOUS
  <2>1. CASE e = d /\ u = s
    BY <1>1, <1>3, <1>5, <2>1 DEF ReadOK
  <2>2. CASE ~(e = d /\ u = s)
    BY <1>1, <1>5, <2>2 DEF ReadInv, ReadOK
  <2> QED
    BY <2>1, <2>2
<1>7. \A e \in Devices : ReportOK(e)'
  BY <1>1, <1>3, <1>5 DEF ReadInv, ReportOK
<1> QED
  BY <1>4, <1>6, <1>7 DEF ReadInv

\* Time passes: less must still be there.
LEMMA TickReads ==
    ASSUME ReadInv, Tick
    PROVE  ReadInv'
<1>1. now' = now + 1 /\ UNCHANGED reportVars /\ now' \in Hours /\ now \in Nat
  BY HumitureAssumption DEF Tick, ReadInv, ReadType, Hours
<1>2. \A d \in Devices, s \in Stamps : ReadOK(d, s)'
  <2> SUFFICES ASSUME NEW d \in Devices, NEW s \in Stamps PROVE ReadOK(d, s)'
    OBVIOUS
  <2>1. now + 1 < s.hour + HoursPerDay => now < s.hour + HoursPerDay
    BY <1>1, StampHour, HumitureAssumption
  <2>2. UNCHANGED <<readings, dies, stored>>
    BY <1>1 DEF reportVars
  <2> QED
    BY <1>1, <2>1, <2>2 DEF ReadInv, ReadOK
<1>3. \A d \in Devices : ReportOK(d)'
  BY <1>1, StampHour DEF reportVars, ReadInv, ReportOK
<1> QED
  BY <1>1, <1>2, <1>3 DEF reportVars, ReadInv, ReadType

LEMMA KeepsReads ==
    ASSUME ReadInv, UNCHANGED <<now, reportVars>>
    PROVE  ReadInv'
BY DEF reportVars, ReadInv, ReadType, ReadOK, ReportOK

-----------------------------------------------------------------------------
(* The thread's work and the table of the statistics.                      *)

\* The hour of the day that was over at the full hour t.
HourEnded(t) == (IF HourOfDay(t) = 0 THEN HoursPerDay ELSE HourOfDay(t)) - 1

\* The full hour of which a row with this date and hour is made.
Begun(r) == r.date * HoursPerDay + (IF r.hour = HoursPerDay - 1 THEN 0 ELSE r.hour + 1)

LEMMA BegunAt ==
    ASSUME NEW t \in Nat, NEW r, r.date = Day(t), r.hour = HourEnded(t)
    PROVE  Begun(r) = t
<1>1. /\ Day(t) \in Nat /\ HourOfDay(t) \in 0 .. HoursPerDay - 1
      /\ Day(t) * HoursPerDay + HourOfDay(t) = t
  BY DayAndHour
<1>2. (IF r.hour = HoursPerDay - 1 THEN 0 ELSE r.hour + 1) = HourOfDay(t)
  BY <1>1, HumitureAssumption DEF HourEnded
<1> QED
  BY <1>1, <1>2 DEF Begun

StatType ==
    /\ full \in BOOLEAN
    /\ stat \in Stat
    /\ rows \in Seq(Row)
    /\ known \subseteq stored

RowOK(r) ==
    /\ r.of # {}
    /\ \A s \in r.of : /\ <<r.guid, s>> \in stored
                       /\ Day(s.hour) = r.date
                       /\ HourOfDay(s.hour) = r.hour

Working == stat.at # "idle"
Reading == stat.at \in {"tem", "hum"}

\* The thread works in the second it was woken in, on one device after the other,
\* and has read nothing that was not stored.
WorkInv ==
    /\ Working => /\ ~full /\ stat.began = now /\ stat.result = "none"
                  /\ stat.date = Day(now) /\ stat.hour = HourEnded(now)
    /\ stat.at \in {"idle", "keys"} => stat.made = <<>>
    /\ Reading => stat.guid \in Devices /\ stat.guid \notin stat.todo
    /\ stat.at = "hum" => stat.stamp \in Stamps
    /\ stat.at = "insert" => stat.todo = {}
    /\ stat.vec \subseteq stored

\* The rows it has made so far: of this hour, and one for a device.
MadeInv ==
    \A i \in DOMAIN stat.made :
        /\ RowOK(stat.made[i])
        /\ stat.made[i].date = stat.date /\ stat.made[i].hour = stat.hour
        /\ stat.made[i].guid \notin stat.todo
        /\ Reading => stat.made[i].guid # stat.guid
        /\ \A j \in DOMAIN stat.made : stat.made[i].guid = stat.made[j].guid => i = j

\* The rows in the table: none is of an hour that is still to come, or still
\* to be inserted.
RowsInv ==
    /\ RowsExact
    /\ \A i \in DOMAIN rows :
        /\ Begun(rows[i]) <= now
        /\ full => Begun(rows[i]) < now
        /\ Working => \/ Begun(rows[i]) < now
                      \/ /\ stat.at = "insert"
                         /\ \A j \in DOMAIN stat.made : stat.made[j].guid # rows[i].guid

\* The readings of a device that were there when the thread began.
Due(d) == {s \in Stamps : <<d, s>> \in known}

Counted(r, d) ==
    /\ r.guid = d
    /\ Due(d) \subseteq r.of
    /\ r.date = Day(stat.began)
    /\ r.hour = HourOfDay(stat.began) - 1

\* Where the readings of a device are that was online.
Accounted(d) ==
    \/ d \in stat.missed
    \/ Due(d) = {}
    \/ d \in stat.todo
    \/ /\ Reading
       /\ d = stat.guid
       /\ \A s \in Due(d) : \/ s \in stat.keys
                            \/ stat.at = "hum" /\ s = stat.stamp
                            \/ <<d, s>> \in stat.vec
    \/ \E i \in DOMAIN stat.made : Counted(stat.made[i], d)
    \/ \E i \in DOMAIN rows : Counted(rows[i], d)

DueInv ==
    /\ Working => \A d \in Devices, s \in Stamps : <<d, s>> \in known => s.hour = now - 1
    /\ (Working /\ stat.at # "keys" /\ HourOfDay(now) # 0) =>
          \A d \in stat.online : Accounted(d)
    /\ HoursCounted

StatInv == StatType /\ WorkInv /\ MadeInv /\ RowsInv /\ DueInv
HumitureInv == ReadInv /\ StatInv

\* What the thread counts on has not expired.
LEMMA DueThere ==
    ASSUME HumitureInv, Working, NEW d \in Devices, NEW s \in Due(d)
    PROVE  s \in Stamps /\ "temperature" \in readings[d][s] /\ "humidity" \in readings[d][s]
<1>1. s \in Stamps /\ <<d, s>> \in known /\ <<d, s>> \in stored
  BY DEF Due, HumitureInv, StatInv, StatType
<1>2. s.hour = now - 1 /\ now \in Nat
  BY <1>1, HumitureAssumption DEF HumitureInv, StatInv, DueInv, ReadInv, ReadType, Hours
<1>3. now < s.hour + HoursPerDay
  BY <1>1, <1>2, StampHour, HumitureAssumption
<1>4. Both \subseteq readings[d][s]
  BY <1>1, <1>3 DEF HumitureInv, ReadInv, ReadOK
<1> QED
  BY <1>1, <1>4 DEF Both

\* Rows are typed, and their hours comparable.
LEMMA RowFacts ==
    ASSUME NEW r \in Row
    PROVE  r.date \in Nat /\ r.hour \in Nat /\ r.guid \in Devices /\ Begun(r) \in Nat
<1>1. r.date \in 0 .. Day(LastHour) /\ r.hour \in 0 .. HoursPerDay - 1 /\ r.guid \in Devices
  BY DEF Row
<1>2. r.date \in Nat /\ r.hour \in Nat
  BY <1>1
<1> QED
  BY <1>1, <1>2, HumitureAssumption DEF Begun

-----------------------------------------------------------------------------
(* Steps of others.                                                        *)

LEMMA OthersKeep ==
    ASSUME StatInv, UNCHANGED <<now, full, stat, rows, known>>, stored \subseteq stored'
    PROVE  StatInv'
<1>1. StatType' /\ WorkInv'
  BY DEF StatInv, StatType, WorkInv, Working, Reading
<1>2. MadeInv'
  BY DEF StatInv, MadeInv, RowOK, Reading
<1>3. RowsInv'
  BY DEF StatInv, RowsInv, RowsExact, Working, Begun
<1>4. DueInv'
  BY DEF StatInv, DueInv, Working, Accounted, Counted, Due, Reading, HoursCounted
<1> QED
  BY <1>1, <1>2, <1>3, <1>4 DEF StatInv

LEMMA TickKeeps ==
    ASSUME HumitureInv, Tick
    PROVE  StatInv'
<1>1. stat.at = "idle" /\ now' = now + 1 /\ now \in Nat /\ UNCHANGED <<stat, rows, known, stored>>
      /\ full' = TRUE
  BY HumitureAssumption DEF Tick, reportVars, HumitureInv, ReadInv, ReadType, Hours
<1>2. StatType' /\ WorkInv'
  BY <1>1 DEF HumitureInv, StatInv, StatType, WorkInv, Working, Reading
<1>3. MadeInv'
  BY <1>1 DEF HumitureInv, StatInv, MadeInv, RowOK, Reading
<1>4. RowsInv'
  <2>1. \A i \in DOMAIN rows : Begun(rows[i]) \in Nat /\ Begun(rows[i]) <= now
    BY RowFacts DEF HumitureInv, StatInv, StatType, RowsInv
  <2>2. \A i \in DOMAIN rows : Begun(rows[i]) <= now + 1 /\ Begun(rows[i]) < now + 1
    BY <1>1, <2>1
  <2>3. RowsExact'
    BY <1>1 DEF HumitureInv, StatInv, RowsInv, RowsExact
  <2> QED
    BY <1>1, <2>2, <2>3 DEF RowsInv, Working, Begun
<1>5. DueInv'
  BY <1>1 DEF HumitureInv, StatInv, DueInv, Working, HoursCounted
<1> QED
  BY <1>2, <1>3, <1>4, <1>5 DEF StatInv

LEMMA SleepsOverKeeps ==
    ASSUME HumitureInv, RunSleepsOver
    PROVE  StatInv'
<1>1. full /\ full' = FALSE /\ UNCHANGED <<now, stat, rows, known, stored>>
  BY DEF RunSleepsOver, reportVars
<1>2. stat.at = "idle"
  BY <1>1 DEF HumitureInv, StatInv, WorkInv, Working
<1>3. StatType' /\ WorkInv'
  BY <1>1, <1>2 DEF HumitureInv, StatInv, StatType, WorkInv, Working, Reading
<1>4. MadeInv'
  BY <1>1 DEF HumitureInv, StatInv, MadeInv, RowOK, Reading
<1>5. RowsInv'
  BY <1>1, <1>2 DEF HumitureInv, StatInv, RowsInv, RowsExact, Working, Begun
<1>6. DueInv'
  BY <1>1, <1>2 DEF HumitureInv, StatInv, DueInv, Working, HoursCounted
<1> QED
  BY <1>3, <1>4, <1>5, <1>6 DEF StatInv

-----------------------------------------------------------------------------
(* Steps of the thread.                                                    *)

LEMMA StartsKeeps ==
    ASSUME HumitureInv, RunStarts
    PROVE  StatInv'
<1>1. full /\ full' = FALSE /\ UNCHANGED <<now, rows, stored>> /\ now \in Nat /\ now \in Hours
      /\ known' = {r \in stored : r[2].hour = now - 1}
  BY HumitureAssumption DEF RunStarts, reportVars, HumitureInv, ReadInv, ReadType, Hours
<1>2. Day(now) \in 0 .. Day(LastHour) /\ HourEnded(now) \in 0 .. HoursPerDay - 1
  <2>1. LastHour \in Nat /\ now <= LastHour
    BY <1>1, HumitureAssumption DEF Hours
  <2>2. Day(now) \in Nat /\ Day(LastHour) \in Nat /\ Day(now) <= Day(LastHour)
    BY <1>1, <2>1, DayAndHour, DayGrows
  <2>3. HourOfDay(now) \in 0 .. HoursPerDay - 1
    BY <1>1, DayAndHour
  <2> QED
    BY <2>2, <2>3, HumitureAssumption DEF HourEnded
<1>3. stat' = [NoStat EXCEPT !.at = "keys", !.began = now, !.date = Day(now),
                             !.hour = HourEnded(now)]
  BY DEF RunStarts, HourEnded
<1>4. /\ stat' \in Stat /\ stat'.at = "keys" /\ stat'.began = now /\ stat'.date = Day(now)
      /\ stat'.hour = HourEnded(now) /\ stat'.made = <<>> /\ stat'.vec = {}
      /\ stat'.result = "none"
  BY <1>1, <1>2, <1>3, NoStatType DEF Stat
<1>5. StatType' /\ WorkInv'
  BY <1>1, <1>4 DEF HumitureInv, StatInv, StatType, WorkInv, Working, Reading
<1>6. MadeInv'
  BY <1>4 DEF MadeInv
<1>7. RowsInv'
  BY <1>1, <1>4 DEF HumitureInv, StatInv, RowsInv, RowsExact, Working, Begun
<1>8. DueInv'
  <2>1. \A d \in Devices, s \in Stamps : <<d, s>> \in known' => s.hour = now - 1
    BY <1>1
  <2> QED
    BY <1>1, <1>4, <2>1 DEF DueInv, Working, HoursCounted
<1> QED
  BY <1>5, <1>6, <1>7, <1>8 DEF StatInv

\* A step that leaves the rows alone, made or inserted.
LEMMA SameRows ==
    ASSUME HumitureInv, UNCHANGED <<now, full, rows, stored, known>>,
           stat' \in Stat, Working, Working', stat.at # "insert",
           UNCHANGED <<stat.made, stat.date, stat.hour>>,
           stat.made = <<>> \/ stat'.todo \subseteq stat.todo,
           Reading' => stat'.guid \in stat.todo \/ (Reading /\ stat'.guid = stat.guid)
    PROVE  MadeInv' /\ RowsInv'
<1>1. MadeInv'
  BY DEF HumitureInv, StatInv, MadeInv, RowOK, Reading
<1>2. RowsInv'
  BY DEF HumitureInv, StatInv, RowsInv, RowsExact, Working, Begun
<1> QED
  BY <1>1, <1>2

\* What GetOnlineDevicesGuid to StatToDB leave alone.
Same == UNCHANGED <<now, full, rows, readings, stored, known>>

LEMMA DueWorking ==
    ASSUME HumitureInv, Same, Working, Working',
           stat'.at # "keys" /\ HourOfDay(now) # 0 => \A d \in stat'.online : Accounted(d)'
    PROVE  DueInv'
BY DEF HumitureInv, StatInv, DueInv, Same, Working, HoursCounted

LEMMA GetOnlineStep ==
    ASSUME HumitureInv, NEW online \in SUBSET Devices, GetOnline(online)
    PROVE  StatInv'
<1>1. Same /\ stat.at = "keys" /\ stat.made = <<>>
  BY DEF GetOnline, OnlyStat, reportVars, Same, HumitureInv, StatInv, WorkInv
<1>2. /\ stat' \in Stat /\ stat'.at = "device" /\ stat'.online = online /\ stat'.todo = online
      /\ UNCHANGED <<stat.began, stat.date, stat.hour, stat.made, stat.vec, stat.result>>
  BY DEF GetOnline, HumitureInv, StatInv, StatType, Stat
<1>3. StatType' /\ WorkInv'
  BY <1>1, <1>2 DEF Same, HumitureInv, StatInv, StatType, WorkInv, Working, Reading
<1>4. MadeInv' /\ RowsInv'
  BY <1>1, <1>2, SameRows DEF Same, Working, Reading
<1>5. DueInv'
  BY <1>1, <1>2, DueWorking DEF Working, Accounted
<1> QED
  BY <1>3, <1>4, <1>5 DEF StatInv

LEMMA GetKeysStep ==
    ASSUME HumitureInv, NEW d \in Devices, GetKeys(d) \/ GetKeysFails(d)
    PROVE  StatInv'
<1>1. Same /\ stat.at = "device" /\ d \in stat.todo
  BY DEF GetKeys, GetKeysFails, OnlyStat, reportVars, Same
<1>2. /\ stat' \in Stat /\ stat'.at = "tem" /\ stat'.guid = d /\ stat'.todo = stat.todo \ {d}
      /\ stat.missed \subseteq stat'.missed
      /\ stat'.keys = {s \in Stamps : readings[d][s] # {}} \/ d \in stat'.missed
      /\ UNCHANGED <<stat.began, stat.date, stat.hour, stat.made, stat.vec, stat.online,
                     stat.result>>
  <2> DEFINE k == {s \in Stamps : readings[d][s] # {}}
  <2>1. stat \in Stat /\ k \in SUBSET Stamps
    BY DEF HumitureInv, StatInv, StatType
  <2>2. CASE GetKeys(d)
    <3>1. stat' = [stat EXCEPT !.at = "tem", !.guid = d, !.todo = @ \ {d}, !.keys = k]
      BY <2>2 DEF GetKeys
    <3> HIDE DEF k
    <3>2. stat'.keys = k
      BY <2>1, <3>1 DEF Stat
    <3>3. stat'.missed = stat.missed
      BY <2>1, <3>1 DEF Stat
    <3> QED
      BY <2>1, <3>1, <3>2, <3>3 DEF k, Stat
  <2>3. CASE GetKeysFails(d)
    BY <2>1, <2>3 DEF GetKeysFails, Stat
  <2> QED
    BY <2>2, <2>3
<1>3. StatType' /\ WorkInv'
  BY <1>1, <1>2 DEF Same, HumitureInv, StatInv, StatType, WorkInv, Working, Reading
<1>4. MadeInv' /\ RowsInv'
  BY <1>1, <1>2, SameRows DEF Same, Working, Reading
<1>5. ASSUME NEW e \in stat.online, Accounted(e)
      PROVE  Accounted(e)'
  <2>1. CASE e = d
    <3>1. \A s \in Due(d) : s \in Stamps /\ readings[d][s] # {}
      BY <1>1, DueThere DEF Working
    <3>2. d \in stat'.missed \/ \A s \in Due(d) : s \in stat'.keys
      BY <1>2, <3>1
    <3>3. Due(d)' = Due(d)
      BY <1>1 DEF Same, Due
    <3> QED
      BY <1>2, <2>1, <3>2, <3>3 DEF Accounted, Reading
  <2>2. CASE e # d
    BY <1>1, <1>2, <1>5, <2>2 DEF Same, Accounted, Counted, Due, Reading
  <2> QED
    BY <2>1, <2>2
<1>6. DueInv'
  BY <1>1, <1>2, <1>5, DueWorking DEF Working, HumitureInv, StatInv, DueInv
<1> QED
  BY <1>3, <1>4, <1>6 DEF StatInv

LEMMA HgetTemStep ==
    ASSUME HumitureInv, NEW s \in Stamps, HgetTem(s) \/ HgetTemFails(s)
    PROVE  StatInv'
<1>1. Same /\ stat.at = "tem" /\ s \in stat.keys
  BY DEF HgetTem, HgetTemFails, OnlyStat, reportVars, Same
<1>2. stat.guid \in Devices /\ stat.guid \notin stat.todo
  BY <1>1 DEF HumitureInv, StatInv, WorkInv, Reading
<1>3. /\ stat' \in Stat /\ stat'.keys = stat.keys \ {s} /\ stat.missed \subseteq stat'.missed
      /\ \/ stat'.at = "hum" /\ stat'.stamp = s
         \/ stat'.at = "tem" /\ "temperature" \notin readings[stat.guid][s]
         \/ stat'.at = "tem" /\ stat.guid \in stat'.missed
      /\ UNCHANGED <<stat.began, stat.date, stat.hour, stat.made, stat.vec, stat.online,
                     stat.guid, stat.todo, stat.result>>
  <2>1. stat \in Stat
    BY DEF HumitureInv, StatInv, StatType
  <2>2. CASE HgetTem(s) /\ "temperature" \in readings[stat.guid][s]
    BY <2>1, <2>2 DEF HgetTem, Stat
  <2>3. CASE HgetTem(s) /\ "temperature" \notin readings[stat.guid][s]
    <3>1. stat' = [stat EXCEPT !.keys = @ \ {s}]
      BY <2>3 DEF HgetTem
    <3> QED
      BY <1>1, <2>1, <2>3, <3>1 DEF Stat
  <2>4. CASE HgetTemFails(s)
    BY <1>1, <1>2, <2>1, <2>4 DEF HgetTemFails, Stat
  <2> QED
    BY <2>2, <2>3, <2>4
<1>4. StatType' /\ WorkInv'
  BY <1>1, <1>2, <1>3 DEF Same, HumitureInv, StatInv, StatType, WorkInv, Working, Reading
<1>5. MadeInv' /\ RowsInv'
  BY <1>1, <1>3, SameRows DEF Same, Working, Reading
<1>6. ASSUME NEW e \in stat.online, Accounted(e)
      PROVE  Accounted(e)'
  <2>1. \A t \in Due(stat.guid) : "temperature" \in readings[stat.guid][t]
    BY <1>1, <1>2, DueThere DEF Working
  <2>2. UNCHANGED <<rows, known>>
    BY <1>1 DEF Same
  <2> QED
    BY <1>1, <1>3, <1>6, <2>1, <2>2 DEF Accounted, Counted, Due, Reading
<1>7. DueInv'
  BY <1>1, <1>3, <1>6, DueWorking DEF Working, HumitureInv, StatInv, DueInv
<1> QED
  BY <1>4, <1>5, <1>7 DEF StatInv

LEMMA HgetHumStep ==
    ASSUME HumitureInv, HgetHum \/ HgetHumFails
    PROVE  StatInv'
<1>1. Same /\ stat.at = "hum"
  BY DEF HgetHum, HgetHumFails, OnlyStat, reportVars, Same
<1>2. stat.guid \in Devices /\ stat.guid \notin stat.todo /\ stat.stamp \in Stamps
      /\ stat.vec \subseteq stored /\ stored \subseteq Devices \X Stamps
  BY <1>1 DEF HumitureInv, StatInv, WorkInv, Reading, ReadInv, ReadType
<1>3. PICK v \in SUBSET (Devices \X Stamps), m \in SUBSET Devices :
          /\ stat' = [stat EXCEPT !.at = "tem", !.stamp = Nil, !.vec = v, !.missed = m]
          /\ stat.missed \subseteq m
          /\ \/ /\ "humidity" \in readings[stat.guid][stat.stamp]
                /\ v = stat.vec \cup {<<stat.guid, stat.stamp>>}
             \/ "humidity" \notin readings[stat.guid][stat.stamp] /\ v = stat.vec
             \/ stat.guid \in m /\ v = stat.vec
  <2>1. stat \in Stat
    BY DEF HumitureInv, StatInv, StatType
  <2>2. /\ stat.vec \in SUBSET (Devices \X Stamps) /\ stat.missed \in SUBSET Devices
        /\ stat.vec \cup {<<stat.guid, stat.stamp>>} \in SUBSET (Devices \X Stamps)
        /\ stat.missed \cup {stat.guid} \in SUBSET Devices
    BY <1>2, <2>1 DEF Stat
  <2>3. [stat EXCEPT !.at = "tem", !.stamp = Nil, !.vec = stat.vec, !.missed = stat.missed]
        = [stat EXCEPT !.at = "tem", !.stamp = Nil]
    BY <2>1 DEF Stat
  <2>4. CASE HgetHum /\ "humidity" \in readings[stat.guid][stat.stamp]
    <3> DEFINE v == stat.vec \cup {<<stat.guid, stat.stamp>>}
    <3>1. stat' = [stat EXCEPT !.at = "tem", !.stamp = Nil, !.vec = v]
      BY <2>4 DEF HgetHum
    <3>2. [stat EXCEPT !.at = "tem", !.stamp = Nil, !.vec = v, !.missed = stat.missed]
          = [stat EXCEPT !.at = "tem", !.stamp = Nil, !.vec = v]
      BY <2>1 DEF Stat
    <3> QED
      BY <2>2, <2>4, <3>1, <3>2
  <2>5. CASE HgetHum /\ "humidity" \notin readings[stat.guid][stat.stamp]
    <3>1. stat' = [stat EXCEPT !.at = "tem", !.stamp = Nil, !.vec = stat.vec]
      BY <2>5 DEF HgetHum
    <3>2. [stat EXCEPT !.at = "tem", !.stamp = Nil, !.vec = stat.vec, !.missed = stat.missed]
          = [stat EXCEPT !.at = "tem", !.stamp = Nil, !.vec = stat.vec]
      BY <2>1 DEF Stat
    <3> QED
      BY <2>2, <2>5, <3>1, <3>2
  <2>6. CASE HgetHumFails
    <3> DEFINE m == stat.missed \cup {stat.guid}
    <3>1. stat' = [stat EXCEPT !.at = "tem", !.stamp = Nil, !.missed = m]
      BY <2>6 DEF HgetHumFails
    <3>2. [stat EXCEPT !.at = "tem", !.stamp = Nil, !.vec = stat.vec, !.missed = m]
          = [stat EXCEPT !.at = "tem", !.stamp = Nil, !.missed = m]
      BY <2>1 DEF Stat
    <3> QED
      BY <2>2, <3>1, <3>2
  <2> QED
    BY <2>4, <2>5, <2>6
<1>4. "humidity" \in readings[stat.guid][stat.stamp] => <<stat.guid, stat.stamp>> \in stored
  BY <1>2 DEF HumitureInv, ReadInv, ReadOK
<1>5. v \subseteq stored
  BY <1>2, <1>3, <1>4
<1>6. /\ stat' \in Stat /\ stat'.at = "tem" /\ stat'.vec = v /\ stat'.missed = m
      /\ UNCHANGED <<stat.began, stat.date, stat.hour, stat.made, stat.online,
                     stat.guid, stat.todo, stat.keys, stat.result>>
  BY <1>3 DEF HumitureInv, StatInv, StatType, Stat
<1>7. StatType' /\ WorkInv'
  BY <1>1, <1>2, <1>5, <1>6 DEF Same, HumitureInv, StatInv, StatType, WorkInv, Working, Reading
<1>8. MadeInv' /\ RowsInv'
  BY <1>1, <1>6, SameRows DEF Same, Working, Reading
<1>9. ASSUME NEW e \in stat.online, Accounted(e)
      PROVE  Accounted(e)'
  <2>1. \A t \in Due(stat.guid) : "humidity" \in readings[stat.guid][t]
    BY <1>1, <1>2, DueThere DEF Working
  <2>2. UNCHANGED <<rows, known>>
    BY <1>1 DEF Same
  <2> QED
    BY <1>1, <1>3, <1>6, <1>9, <2>1, <2>2 DEF Accounted, Counted, Due, Reading
<1>10. DueInv'
  BY <1>1, <1>6, <1>9, DueWorking DEF Working, HumitureInv, StatInv, DueInv
<1> QED
  BY <1>7, <1>8, <1>10 DEF StatInv

\* All that is due of the device has been read, and is of the hour that is over.
LEMMA DueOfHour ==
    ASSUME HumitureInv, stat.at = "tem", stat.keys = {}, HourOfDay(now) # 0,
           \A s \in Due(stat.guid) : <<stat.guid, s>> \in stat.vec
    PROVE  Due(stat.guid) \subseteq OfHour /\ stat.hour = HourOfDay(now) - 1
<1>1. now \in Nat /\ stat.guid \in Devices /\ stat.date = Day(now) /\ stat.hour = HourEnded(now)
  BY HumitureAssumption DEF HumitureInv, ReadInv, ReadType, Hours, StatInv, WorkInv, Working, Reading
<1>2. stat.hour = HourOfDay(now) - 1
  BY <1>1 DEF HourEnded
<1>3. Day(now - 1) = Day(now) /\ HourOfDay(now - 1) = HourOfDay(now) - 1
  BY <1>1, HourBefore
<1>4. \A s \in Due(stat.guid) : s \in Stamps /\ s.hour = now - 1
  BY <1>1 DEF HumitureInv, StatInv, DueInv, Working, Due
<1> QED
  BY <1>1, <1>2, <1>3, <1>4 DEF OfHour

LEMMA GetAvgStep ==
    ASSUME HumitureInv, GetAvg
    PROVE  StatInv'
<1> DEFINE new == [guid |-> stat.guid, date |-> stat.date, hour |-> stat.hour, of |-> OfHour]
           len == Len(stat.made)
<1>1. Same /\ stat.at = "tem" /\ stat.keys = {}
  BY DEF GetAvg, OnlyStat, reportVars, Same
<1>2. stat.guid \in Devices /\ stat.guid \notin stat.todo /\ stat \in Stat
      /\ stat.made \in Seq(Row) /\ stat.vec \subseteq stored
  BY <1>1 DEF HumitureInv, StatInv, StatType, WorkInv, Reading, Stat
<1>3. new \in Row
  <2>1. OfHour \in SUBSET Stamps
    BY DEF OfHour
  <2>2. stat.date \in 0 .. Day(LastHour) /\ stat.hour \in 0 .. HoursPerDay - 1
    BY <1>2 DEF Stat
  <2> QED
    BY <1>2, <2>1, <2>2 DEF Row
<1>4. OfHour # {} => RowOK(new)
  BY <1>2 DEF RowOK, OfHour
<1>5. /\ new.guid = stat.guid /\ new.date = stat.date /\ new.hour = stat.hour
      /\ new.of = OfHour
  OBVIOUS
<1> HIDE DEF new
<1>6. PICK q \in Seq(Row) :
          /\ stat' = [stat EXCEPT !.at = "device", !.guid = Nil, !.made = q]
          /\ \/ OfHour = {} /\ q = stat.made
             \/ OfHour # {} /\ q = Append(stat.made, new)
  <2>1. CASE OfHour = {}
    <3>1. stat' = [stat EXCEPT !.at = "device", !.guid = Nil, !.made = stat.made]
      BY <2>1 DEF GetAvg
    <3> QED
      BY <1>2, <2>1, <3>1
  <2>2. CASE OfHour # {}
    <3>1. stat' = [stat EXCEPT !.at = "device", !.guid = Nil, !.made = Append(stat.made, new)]
      BY <2>2 DEF GetAvg, new
    <3>2. Append(stat.made, new) \in Seq(Row)
      BY <1>2, <1>3
    <3> QED
      BY <2>2, <3>1, <3>2
  <2> QED
    BY <2>1, <2>2
<1>7. /\ \A i \in DOMAIN stat.made : i \in DOMAIN q /\ q[i] = stat.made[i]
      /\ \A i \in DOMAIN q : i \in DOMAIN stat.made \/ (OfHour # {} /\ q[i] = new)
      /\ \A i, j \in DOMAIN q : i \notin DOMAIN stat.made /\ j \notin DOMAIN stat.made => i = j
      /\ OfHour # {} => \E i \in DOMAIN q : q[i] = new
  <2>1. CASE q = stat.made /\ OfHour = {}
    BY <2>1
  <2>2. CASE q = Append(stat.made, new) /\ OfHour # {}
    <3>1. len \in Nat /\ DOMAIN stat.made = 1 .. len /\ DOMAIN q = 1 .. len + 1
          /\ q[len + 1] = new /\ \A i \in 1 .. len : q[i] = stat.made[i]
      BY <1>2, <1>3, <2>2
    <3> HIDE DEF len
    <3> QED
      BY <2>2, <3>1
  <2> QED
    BY <1>6, <2>1, <2>2
<1>8. /\ stat' \in Stat /\ stat'.at = "device" /\ stat'.made = q
      /\ UNCHANGED <<stat.began, stat.date, stat.hour, stat.online, stat.missed, stat.todo,
                     stat.vec, stat.result>>
  BY <1>2, <1>6 DEF Stat
<1>9. StatType' /\ WorkInv'
  BY <1>1, <1>8 DEF Same, HumitureInv, StatInv, StatType, WorkInv, Working, Reading
<1>10. MadeInv'
  <2>1. \A i \in DOMAIN stat.made :
            /\ RowOK(stat.made[i])
            /\ stat.made[i].date = stat.date /\ stat.made[i].hour = stat.hour
            /\ stat.made[i].guid \notin stat.todo /\ stat.made[i].guid # stat.guid
            /\ \A j \in DOMAIN stat.made : stat.made[i].guid = stat.made[j].guid => i = j
    BY <1>1 DEF HumitureInv, StatInv, MadeInv, Reading
  <2>2. \A i \in DOMAIN q :
            /\ RowOK(q[i]) /\ q[i].date = stat.date /\ q[i].hour = stat.hour
            /\ q[i].guid \notin stat.todo
    BY <1>2, <1>4, <1>5, <1>7, <2>1
  <2>3. \A i, j \in DOMAIN q : q[i].guid = q[j].guid => i = j
    BY <1>5, <1>7, <2>1
  <2>4. UNCHANGED stored
    BY <1>1 DEF Same
  <2> QED
    BY <1>8, <2>2, <2>3, <2>4 DEF MadeInv, RowOK, Reading
<1>11. RowsInv'
  BY <1>1, <1>8 DEF Same, HumitureInv, StatInv, RowsInv, RowsExact, Working, Begun
<1>12. ASSUME NEW e \in stat.online, Accounted(e), HourOfDay(now) # 0
       PROVE  Accounted(e)'
  <2>1. UNCHANGED <<rows, known>> /\ stat.began = now
    BY <1>1 DEF Same, HumitureInv, StatInv, WorkInv, Working
  <2>2. CASE /\ e = stat.guid
             /\ \A s \in Due(e) : <<e, s>> \in stat.vec
    <3>1. Due(e) \subseteq OfHour /\ stat.hour = HourOfDay(now) - 1
      BY <1>1, <1>12, <2>2, DueOfHour
    <3>2. stat.date = Day(now)
      BY <1>1 DEF HumitureInv, StatInv, WorkInv, Working
    <3>3. Due(e) = {} \/ \E i \in DOMAIN q : q[i] = new
      BY <1>7, <3>1
    <3>4. Counted(new, e)
      BY <1>5, <2>1, <2>2, <3>1, <3>2 DEF Counted
    <3> QED
      BY <1>8, <2>1, <3>3, <3>4 DEF Accounted, Counted, Due
  <2>3. CASE \E i \in DOMAIN stat.made : Counted(stat.made[i], e)
    <3>1. PICK i \in DOMAIN stat.made : Counted(stat.made[i], e)
      BY <2>3
    <3>2. i \in DOMAIN q /\ q[i] = stat.made[i]
      BY <1>7
    <3> QED
      BY <1>8, <2>1, <3>1, <3>2 DEF Accounted, Counted, Due
  <2>4. CASE \/ e \in stat.missed \/ Due(e) = {} \/ e \in stat.todo
             \/ \E i \in DOMAIN rows : Counted(rows[i], e)
    BY <1>8, <2>1, <2>4 DEF Accounted, Counted, Due
  <2> QED
    BY <1>1, <1>12, <2>2, <2>3, <2>4 DEF Accounted
<1>13. DueInv'
  BY <1>1, <1>8, <1>12, DueWorking DEF Working, HumitureInv, StatInv, DueInv
<1> QED
  BY <1>9, <1>10, <1>11, <1>13 DEF StatInv

LEMMA StatToDBStep ==
    ASSUME HumitureInv, StatToDB
    PROVE  StatInv'
<1>1. Same /\ stat.at = "device" /\ stat.todo = {}
  BY DEF StatToDB, OnlyStat, reportVars, Same
<1>2. /\ stat' \in Stat /\ stat'.at = "insert" /\ stat'.todo = {} /\ stat'.vec = {}
      /\ UNCHANGED <<stat.began, stat.date, stat.hour, stat.made, stat.online, stat.missed,
                     stat.result>>
  BY <1>1 DEF StatToDB, HumitureInv, StatInv, StatType, Stat
<1>3. StatType' /\ WorkInv'
  BY <1>1, <1>2 DEF Same, HumitureInv, StatInv, StatType, WorkInv, Working, Reading
<1>4. MadeInv' /\ RowsInv'
  BY <1>1, <1>2, SameRows DEF Same, Working, Reading
<1>5. ASSUME NEW e \in stat.online, Accounted(e)
      PROVE  Accounted(e)'
  BY <1>1, <1>2, <1>5 DEF Same, Accounted, Counted, Due, Reading
<1>6. DueInv'
  BY <1>1, <1>2, <1>5, DueWorking DEF Working, HumitureInv, StatInv, DueInv
<1> QED
  BY <1>3, <1>4, <1>6 DEF StatInv

LEMMA InsertStep ==
    ASSUME HumitureInv, Insert
    PROVE  StatInv'
<1> DEFINE new == Head(stat.made)
           rest == Tail(stat.made)
           len == Len(rows)
<1>1. /\ UNCHANGED <<now, full, stored, known>> /\ stat.at = "insert" /\ stat.made # <<>>
      /\ rows' = Append(rows, new) /\ stat' = [stat EXCEPT !.made = rest]
  BY DEF Insert, reportVars
<1>2. stat \in Stat /\ stat.made \in Seq(Row) /\ rows \in Seq(Row)
  BY DEF HumitureInv, StatInv, StatType, Stat
<1>3. /\ new \in Row /\ rest \in Seq(Row) /\ rows' \in Seq(Row)
      /\ 1 \in DOMAIN stat.made /\ new = stat.made[1]
      /\ \A i \in DOMAIN rest : /\ i + 1 \in DOMAIN stat.made /\ rest[i] = stat.made[i + 1]
                                /\ i + 1 # 1
      /\ \A i \in DOMAIN stat.made : i = 1 \/ (i - 1 \in DOMAIN rest /\ rest[i - 1] = stat.made[i])
  <2>1. Len(stat.made) \in Nat /\ DOMAIN stat.made = 1 .. Len(stat.made) /\ Len(stat.made) # 0
    BY <1>1, <1>2
  <2>2. new = stat.made[1] /\ 1 \in DOMAIN stat.made
    BY <1>1, <1>2, <2>1
  <2>3. /\ rest \in Seq(Row) /\ DOMAIN rest = 1 .. Len(stat.made) - 1
        /\ \A i \in 1 .. Len(stat.made) - 1 : rest[i] = stat.made[i + 1]
    BY <1>1, <1>2, <2>1
  <2>4. new \in Row
    BY <1>2, <2>1, <2>2
  <2>5. rows' \in Seq(Row)
    BY <1>1, <1>2, <2>4
  <2> HIDE DEF new, rest
  <2>6. \A i \in DOMAIN rest : /\ i + 1 \in DOMAIN stat.made /\ rest[i] = stat.made[i + 1]
                                /\ i + 1 # 1
    BY <2>1, <2>3
  <2>7. \A i \in DOMAIN stat.made : i = 1 \/ (i - 1 \in DOMAIN rest /\ rest[i - 1] = stat.made[i])
    BY <2>1, <2>3
  <2> QED
    BY <2>2, <2>3, <2>4, <2>5, <2>6, <2>7
<1>4. /\ stat' \in Stat /\ stat'.at = "insert" /\ stat'.made = rest
      /\ UNCHANGED <<stat.began, stat.date, stat.hour, stat.online, stat.missed, stat.todo,
                     stat.vec, stat.result>>
  BY <1>1, <1>2, <1>3 DEF Stat
<1>5. /\ len \in Nat /\ DOMAIN rows = 1 .. len /\ DOMAIN rows' = 1 .. len + 1
      /\ rows'[len + 1] = new /\ \A i \in 1 .. len : rows'[i] = rows[i]
  BY <1>1, <1>2, <1>3
<1> HIDE DEF new, rest, len
<1>6. /\ \A i \in DOMAIN rows : i \in DOMAIN rows' /\ rows'[i] = rows[i]
      /\ \A i \in DOMAIN rows' : i \in DOMAIN rows \/ rows'[i] = new
      /\ \A i, j \in DOMAIN rows' : i \notin DOMAIN rows /\ j \notin DOMAIN rows => i = j
      /\ \E i \in DOMAIN rows' : rows'[i] = new
  BY <1>5
<1>7. StatType' /\ WorkInv'
  BY <1>1, <1>3, <1>4 DEF HumitureInv, StatInv, StatType, WorkInv, Working, Reading
<1>8. /\ RowOK(new) /\ new.date = Day(now) /\ new.hour = HourEnded(now) /\ now \in Nat
      /\ \A j \in DOMAIN rest : rest[j].guid # new.guid
      /\ \A j \in DOMAIN rows : Begun(rows[j]) < now \/ rows[j].guid # new.guid
      /\ \A j \in DOMAIN rows : Begun(rows[j]) \in Nat
  <2>1. /\ RowOK(new) /\ new.date = Day(now) /\ new.hour = HourEnded(now)
    BY <1>1, <1>3 DEF HumitureInv, StatInv, MadeInv, WorkInv, Working
  <2>2. \A j \in DOMAIN rest : rest[j].guid # new.guid
    BY <1>3 DEF HumitureInv, StatInv, MadeInv
  <2>3. \A j \in DOMAIN rows : Begun(rows[j]) < now \/ rows[j].guid # new.guid
    BY <1>1, <1>3 DEF HumitureInv, StatInv, RowsInv, Working
  <2>4. \A j \in DOMAIN rows : Begun(rows[j]) \in Nat
    BY <1>2, RowFacts
  <2>5. now \in Nat
    BY HumitureAssumption DEF HumitureInv, ReadInv, ReadType, Hours
  <2> QED
    BY <2>1, <2>2, <2>3, <2>4, <2>5
<1>9. Begun(new) = now
  BY <1>8, BegunAt
<1>10. MadeInv'
  <2>1. \A i \in DOMAIN rest :
            /\ RowOK(rest[i]) /\ rest[i].date = stat.date /\ rest[i].hour = stat.hour
            /\ rest[i].guid \notin stat.todo
    BY <1>3 DEF HumitureInv, StatInv, MadeInv
  <2>2. \A i, j \in DOMAIN rest : rest[i].guid = rest[j].guid => i = j
    <3> SUFFICES ASSUME NEW i \in DOMAIN rest, NEW j \in DOMAIN rest,
                        rest[i].guid = rest[j].guid
                 PROVE  i = j
      OBVIOUS
    <3>1. i + 1 = j + 1
      BY <1>3 DEF HumitureInv, StatInv, MadeInv
    <3>2. i \in Int /\ j \in Int
      BY <1>3
    <3> QED
      BY <3>1, <3>2
  <2> QED
    BY <1>1, <1>4, <2>1, <2>2 DEF MadeInv, RowOK, Reading
<1>11. RowsInv'
  <2>1. RowsExact'
    <3>1. \A i \in DOMAIN rows' :
              /\ rows'[i].of # {}
              /\ \A s \in rows'[i].of : /\ <<rows'[i].guid, s>> \in stored
                                        /\ Day(s.hour) = rows'[i].date
                                        /\ HourOfDay(s.hour) = rows'[i].hour
      BY <1>6, <1>8 DEF RowOK, HumitureInv, StatInv, RowsInv, RowsExact
    <3>2. ASSUME NEW i \in DOMAIN rows,
                 rows[i].guid = new.guid /\ rows[i].date = new.date /\ rows[i].hour = new.hour
          PROVE  FALSE
      <4>1. Begun(rows[i]) = now
        BY <1>8, <3>2, BegunAt
      <4> QED
        BY <1>8, <3>2, <4>1
    <3>3. \A i, j \in DOMAIN rows' :
              (/\ rows'[i].guid = rows'[j].guid
               /\ rows'[i].date = rows'[j].date
               /\ rows'[i].hour = rows'[j].hour) => i = j
      BY <1>6, <3>2 DEF HumitureInv, StatInv, RowsInv, RowsExact
    <3> QED
      BY <1>1, <3>1, <3>3 DEF RowsExact
  <2>2. \A i \in DOMAIN rows : /\ Begun(rows[i]) <= now
                               /\ Begun(rows[i]) < now \/ \A j \in DOMAIN rest : rest[j].guid # rows[i].guid
    BY <1>1, <1>3 DEF HumitureInv, StatInv, RowsInv, Working
  <2>3. ~full
    BY <1>1 DEF HumitureInv, StatInv, WorkInv, Working
  <2>4. \A i \in DOMAIN rows' :
            /\ Begun(rows'[i]) <= now
            /\ Begun(rows'[i]) < now \/ \A j \in DOMAIN rest : rest[j].guid # rows'[i].guid
    BY <1>6, <1>8, <1>9, <2>2
  <2> QED
    BY <1>1, <1>4, <2>1, <2>3, <2>4 DEF RowsInv, Working, Begun
<1>12. ASSUME NEW e \in stat.online, Accounted(e)
       PROVE  Accounted(e)'
  <2>1. UNCHANGED <<known, stat.began>>
    BY <1>1, <1>4
  <2>2. CASE \E i \in DOMAIN stat.made : Counted(stat.made[i], e)
    <3>1. PICK i \in DOMAIN stat.made : Counted(stat.made[i], e)
      BY <2>2
    <3>2. CASE i = 1
      <4>1. Counted(new, e)
        BY <1>3, <3>1, <3>2
      <4>2. PICK k \in DOMAIN rows' : rows'[k] = new
        BY <1>6
      <4> QED
        BY <2>1, <4>1, <4>2 DEF Accounted, Counted, Due
    <3>3. CASE i # 1
      <4>1. i - 1 \in DOMAIN rest /\ rest[i - 1] = stat.made[i]
        BY <1>3, <3>3
      <4> QED
        BY <1>4, <2>1, <3>1, <4>1 DEF Accounted, Counted, Due
    <3> QED
      BY <3>2, <3>3
  <2>3. CASE \E i \in DOMAIN rows : Counted(rows[i], e)
    BY <1>6, <2>1, <2>3 DEF Accounted, Counted, Due
  <2>4. CASE e \in stat.missed \/ Due(e) = {} \/ e \in stat.todo
    BY <1>4, <2>1, <2>4 DEF Accounted, Due
  <2> QED
    BY <1>1, <1>12, <2>2, <2>3, <2>4 DEF Accounted, Reading
<1>13. DueInv'
  <2>1. Working' /\ Working /\ stat.at # "keys" /\ stat'.online = stat.online
        /\ stat'.result = "none"
    BY <1>1, <1>4 DEF Working, HumitureInv, StatInv, WorkInv
  <2>2. HourOfDay(now) # 0 => \A e \in stat.online : Accounted(e)'
    BY <1>12, <2>1 DEF HumitureInv, StatInv, DueInv
  <2>3. \A d \in Devices, s \in Stamps : <<d, s>> \in known => s.hour = now - 1
    BY <2>1 DEF HumitureInv, StatInv, DueInv
  <2>4. HoursCounted'
    BY <2>1 DEF HoursCounted
  <2> QED
    BY <1>1, <2>1, <2>2, <2>3, <2>4 DEF DueInv
<1> QED
  BY <1>7, <1>10, <1>11, <1>13 DEF StatInv

\* An error ends the hour's work.
LEMMA GivesUpStep ==
    ASSUME HumitureInv, GetOnlineFails \/ InsertFails
    PROVE  StatInv'
<1>1. UNCHANGED <<now, full, rows, stored, known>> /\ stat' = NoStat
  BY DEF GetOnlineFails, InsertFails, OnlyStat, reportVars
<1>2. StatType' /\ WorkInv' /\ MadeInv'
  BY <1>1, NoStatType DEF HumitureInv, StatInv, StatType, WorkInv, MadeInv, Working, Reading
<1>3. RowsInv'
  BY <1>1, NoStatType DEF HumitureInv, StatInv, RowsInv, RowsExact, Working, Begun
<1>4. DueInv'
  BY <1>1, NoStatType DEF DueInv, Working, HoursCounted
<1> QED
  BY <1>2, <1>3, <1>4 DEF StatInv

LEMMA InsertsEndStep ==
    ASSUME HumitureInv, InsertsEnd
    PROVE  StatInv'
<1>1. UNCHANGED <<now, full, rows, stored, known>> /\ stat.at = "insert" /\ stat.made = <<>>
      /\ stat' = [stat EXCEPT !.at = "idle", !.date = 0, !.hour = 0, !.result = "success"]
  BY DEF InsertsEnd, OnlyStat, reportVars
<1>2. /\ stat' \in Stat /\ stat'.at = "idle" /\ stat'.made = <<>>
      /\ UNCHANGED <<stat.began, stat.online, stat.missed, stat.vec, stat.todo>>
  <2>1. stat \in Stat /\ 0 \in 0 .. Day(LastHour) /\ 0 \in 0 .. HoursPerDay - 1
    BY DayAndHour, HumitureAssumption DEF HumitureInv, StatInv, StatType
  <2> QED
    BY <1>1, <2>1 DEF Stat
<1>3. StatType' /\ WorkInv' /\ MadeInv'
  BY <1>1, <1>2 DEF HumitureInv, StatInv, StatType, WorkInv, MadeInv, Working, Reading
<1>4. RowsInv'
  BY <1>1, <1>2 DEF HumitureInv, StatInv, RowsInv, RowsExact, Working, Begun
<1>5. HoursCounted'
  <2>1. ASSUME HourOfDay(now) # 0, NEW e \in stat.online \ stat.missed, Due(e) # {}
        PROVE  \E i \in DOMAIN rows : Counted(rows[i], e)
    <3>1. Accounted(e) /\ stat.todo = {}
      BY <1>1, <2>1 DEF HumitureInv, StatInv, DueInv, WorkInv, Working
    <3> QED
      BY <1>1, <2>1, <3>1 DEF Accounted, Reading
  <2>2. stat.began = now
    BY <1>1 DEF HumitureInv, StatInv, WorkInv, Working
  <2>3. UNCHANGED <<rows, known>> /\ stat'.began = now /\ stat'.online = stat.online
        /\ stat'.missed = stat.missed
    BY <1>1, <1>2, <2>2
  <2>4. ASSUME HourOfDay(now) # 0, NEW e \in stat'.online \ stat'.missed,
               {s \in Stamps : <<e, s>> \in known'} # {}
        PROVE  \E i \in DOMAIN rows' :
                   /\ rows'[i].guid = e
                   /\ {s \in Stamps : <<e, s>> \in known'} \subseteq rows'[i].of
                   /\ rows'[i].date = Day(now)
                   /\ rows'[i].hour = HourOfDay(now) - 1
    BY <2>1, <2>2, <2>3, <2>4 DEF Counted, Due
  <2> QED
    BY <2>3, <2>4 DEF HoursCounted
<1>6. DueInv'
  BY <1>2, <1>5 DEF DueInv, Working
<1> QED
  BY <1>3, <1>4, <1>6 DEF StatInv

-----------------------------------------------------------------------------
(* All steps.                                                              *)

LEMMA InitHumiture == HumitureInit => HumitureInv
<1> SUFFICES ASSUME HumitureInit PROVE HumitureInv
  OBVIOUS
<1>1. 0 \in Hours /\ 0 \in Nat
  BY HumitureAssumption DEF Hours
<1>2. ReadInv
  <2>1. ReadType
    <3>1. NoReport \in Reports
      BY DEF NoReport, Reports
    <3>2. readings \in [Devices -> [Stamps -> SUBSET Both]]
      BY DEF HumitureInit
    <3>3. dies \in [Devices -> [Stamps -> (0 .. LastHour + HoursPerDay) \cup {Forever}]]
      BY DEF HumitureInit
    <3> QED
      BY <1>1, <3>1, <3>2, <3>3 DEF HumitureInit, ReadType
  <2>2. \A d \in Devices, s \in Stamps : ReadOK(d, s)
    BY DEF HumitureInit, ReadOK
  <2>3. \A d \in Devices : ReportOK(d)
    BY DEF HumitureInit, NoReport, ReportOK
  <2> QED
    BY <2>1, <2>2, <2>3 DEF ReadInv
<1>3. stat = NoStat /\ rows = <<>> /\ known = {} /\ stored = {} /\ full = FALSE
  BY DEF HumitureInit
<1>4. StatType /\ WorkInv /\ MadeInv
  <2>1. StatType
    <3>1. full \in BOOLEAN
      BY <1>3
    <3>2. rows \in Seq(Row) /\ known \subseteq stored
      BY <1>3
    <3>3. stat \in Stat
      BY <1>3, NoStatType
    <3> QED
      BY <3>1, <3>2, <3>3 DEF StatType
  <2>2. WorkInv
    BY <1>3, NoStatType DEF WorkInv, Working, Reading
  <2>3. MadeInv
    BY <1>3, NoStatType DEF MadeInv
  <2> QED
    BY <2>1, <2>2, <2>3
<1>5. RowsInv
  BY <1>3 DEF RowsInv, RowsExact
<1>6. DueInv
  BY <1>3, NoStatType DEF DueInv, HoursCounted, Working
<1> QED
  BY <1>2, <1>4, <1>5, <1>6 DEF HumitureInv, StatInv

LEMMA NextHumiture == HumitureInv /\ [HumitureNext]_humitureVars => HumitureInv'
<1> SUFFICES ASSUME HumitureInv, [HumitureNext]_humitureVars PROVE HumitureInv'
  OBVIOUS
<1>1. CASE UNCHANGED humitureVars
  <2>1. UNCHANGED <<now, full, stat, rows, known, reportVars>> /\ stored' = stored
    BY <1>1 DEF humitureVars, reportVars
  <2> QED
    BY <2>1, KeepsReads, OthersKeep DEF HumitureInv
<1>2. CASE Tick
  BY <1>2, TickReads, TickKeeps DEF HumitureInv
<1>3. CASE StatStep
  <2>1. UNCHANGED <<now, reportVars>>
    BY <1>3 DEF StatStep, RunSleepsOver, RunStarts, OnlyStat, GetOnline, GetOnlineFails, GetKeys,
       GetKeysFails, HgetTem, HgetTemFails, HgetHum, HgetHumFails, GetAvg, StatToDB, Insert,
       InsertFails, InsertsEnd, reportVars
  <2>2. StatInv'
    <3>1. ASSUME NEW d \in Devices, GetKeys(d) \/ GetKeysFails(d) PROVE StatInv'
      BY <3>1, GetKeysStep
    <3>2. ASSUME NEW s \in Stamps, HgetTem(s) \/ HgetTemFails(s) PROVE StatInv'
      BY <3>2, HgetTemStep
    <3>3. ASSUME NEW online \in SUBSET Devices, GetOnline(online) PROVE StatInv'
      BY <3>3, GetOnlineStep
    <3>4. CASE RunSleepsOver \/ RunStarts \/ GetOnlineFails \/ HgetHum \/ HgetHumFails
      BY <3>4, SleepsOverKeeps, StartsKeeps, GivesUpStep, HgetHumStep
    <3>5. CASE GetAvg \/ StatToDB \/ Insert \/ InsertFails \/ InsertsEnd
      BY <3>5, GetAvgStep, StatToDBStep, InsertStep, GivesUpStep, InsertsEndStep
    <3> QED
      BY <1>3, <3>1, <3>2, <3>3, <3>4, <3>5 DEF StatStep
  <2> QED
    BY <2>1, <2>2, KeepsReads DEF HumitureInv
<1>4. ASSUME NEW d \in Devices, ReportStep(d)
      PROVE  HumitureInv'
  <2>1. UNCHANGED <<now, full, stat, rows, known>> /\ stored \subseteq stored'
    BY <1>4 DEF ReportStep, ReportTemperature, ReportHumidity, ReportExpire, ReportFails, Expires
  <2>2. ASSUME NEW s \in Stamps, ReportTemperature(d, s) \/ Expires(d, s) PROVE ReadInv'
    BY <2>2, TemperatureStep, ExpiresStep DEF HumitureInv
  <2>3. ReadInv'
    BY <1>4, <2>2, HumidityStep, ExpireStep, ReportFailsStep DEF ReportStep, HumitureInv
  <2> QED
    BY <2>1, <2>3, OthersKeep DEF HumitureInv
<1> QED
  BY <1>1, <1>2, <1>3, <1>4 DEF HumitureNext

\* The readings in redis, the thread's work and the rows are always as HumitureInv says.
THEOREM HumitureInvHolds == HumitureSpec => []HumitureInv
BY InitHumiture, NextHumiture, PTL DEF HumitureSpec

-----------------------------------------------------------------------------
(* What follows.                                                           *)

\* Every variable keeps its type; the two that only count have their bounds from
\* the guards.
THEOREM HumitureTypeCorrect == HumitureSpec => []HumitureTypeOK
<1>1. HumitureInit => reports \in 0 .. MaxReports /\ fails \in 0 .. MaxFails
  BY HumitureAssumption DEF HumitureInit
<1> DEFINE Counts == reports \in 0 .. MaxReports /\ fails \in 0 .. MaxFails
<1>2. Counts /\ [HumitureNext]_humitureVars => Counts'
  <2> SUFFICES ASSUME Counts, [HumitureNext]_humitureVars PROVE Counts'
    OBVIOUS
  <2>1. /\ reports' \in {reports, reports + 1} /\ fails' \in {fails, fails + 1}
        /\ reports' = reports \/ reports < MaxReports
        /\ fails' = fails \/ fails < MaxFails
    BY DEF HumitureNext, humitureVars, reportVars, Tick, StatStep, ReportStep, ReportTemperature, ReportHumidity,
       ReportExpire, ReportFails, Expires, RunSleepsOver, RunStarts, OnlyStat, GetOnline,
       GetOnlineFails, GetKeys, GetKeysFails, HgetTem, HgetTemFails, HgetHum, HgetHumFails,
       GetAvg, StatToDB, Insert, InsertFails, InsertsEnd
  <2> QED
    BY <2>1, HumitureAssumption
<1>3. HumitureInv /\ Counts => HumitureTypeOK
  BY DEF HumitureInv, ReadInv, ReadType, StatInv, StatType, HumitureTypeOK, Reports, Both
<1> QED
  BY <1>1, <1>2, <1>3, HumitureInvHolds, PTL DEF HumitureSpec

\* For any devices, any length of a day and wherever a command or a statement fails:
\* a row of the statistics is made of whole readings of its device and its hour, there is
\* one for a device and an hour, and outside midnight every device whose readings were
\* read has one, with all the readings that were there.
THEOREM StatisticsRightHolds == HumitureSpec => []StatisticsRight
<1>1. HumitureInv => StatisticsRight
  BY DEF HumitureInv, StatInv, RowsInv, DueInv, StatisticsRight
<1> QED
  BY <1>1, HumitureInvHolds, PTL
=============================================================================
