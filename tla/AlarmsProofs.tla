---------------------------- MODULE AlarmsProofs ----------------------------
(* Proofs about the alarms of a device's users: a phone is one user's, who   *)
(* has alarms on has a phone, who was told they are off gets none, and       *)
(* SUCCESS means that nobody was left out.                                   *)
EXTENDS Alarms, FiniteSetTheorems, SequenceTheorems, TLAPS

Taken == {"hsetMobile", "expire", "setHolder"}
OnStages == {"onMobile", "onFlag"}
OffStages == {"offFlag", "offMobile"}

(***************************************************************************)
(* The inductive invariant of accountLogic's threads.                      *)
(***************************************************************************)

\* A phone has one request at a time, and two requests of a user are noted.
JobInv ==
    /\ \A c \in Threads : Busy(c) => job[c].phone \in Phones
    /\ \A c, d \in Threads : Busy(c) /\ Busy(d) /\ job[c].phone = job[d].phone => c = d
    /\ \A c \in Threads : job[c].at \in OnStages \cup OffStages \cup {"del"} => job[c].user \in Users
    /\ \A c \in Threads : job[c].at = "hdelOld" => job[c].old \in Users
    /\ \A c, d \in Threads : Busy(c) /\ Busy(d) /\ c # d /\ job[c].user = job[d].user =>
          job[c].user \in mixed \cup {Nil}

\* Whose phone it is: the user redis has as its holder, or the one who is just
\* reporting it.
PhoneOf(p) ==
    /\ \A c \in Threads : job[c].phone = p /\ job[c].at \in Taken =>
          \A v \in Users : info[v].mobile = p => v = job[c].user
    /\ (\A c \in Threads : job[c].phone = p => job[c].at \notin Taken) =>
          \A v \in Users : info[v].mobile = p => holder[p] = v
    /\ \A c \in Threads : job[c].phone = p /\ job[c].at = "hdelOld" => job[c].old = holder[p]
    /\ \A c \in Threads : job[c].phone = p /\ job[c].at \in OnStages => job[c].user = holder[p]

PhoneInv == \A p \in Phones \ odd : PhoneOf(p)

\* The phone is stored before the flag, and the flag taken before the phone.
FlagInv ==
    /\ FlagHasPhone
    /\ \A c \in Threads : job[c].at = "onFlag" /\ job[c].user \notin mixed =>
          info[job[c].user].mobile # Nil
    /\ \A c \in Threads : job[c].at = "offMobile" /\ job[c].user \notin mixed =>
          info[job[c].user].flag # "on"

\* Who was told that alarms are off has them off, and nobody is switching them on.
QuietInv ==
    \A u \in quiet :
        /\ info[u].flag # "on"
        /\ \A c \in Threads : job[c].user = u => job[c].at \notin OnStages

InfoInv == ClientInfoTypeOK /\ JobInv /\ PhoneInv /\ FlagInv /\ QuietInv

Jobs == [at : Stages, phone : Phones \cup {Nil}, user : Users \cup {Nil},
         old : Users \cup {Nil}]
Infos == [flag : {"on", "off", Nil}, mobile : Phones \cup {Nil}]

LEMMA InitInfo == ClientInfoInit => InfoInv
<1> SUFFICES ASSUME ClientInfoInit PROVE InfoInv
  OBVIOUS
<1> USE ClientInfoAssumption DEF ClientInfoInit, IdleJob, NoInfo
<1>1. ClientInfoTypeOK
  BY DEF ClientInfoTypeOK, Stages
<1>2. JobInv /\ PhoneInv /\ FlagInv /\ QuietInv
  BY DEF JobInv, PhoneInv, PhoneOf, FlagInv, FlagHasPhone, QuietInv, Busy, OnStages, OffStages, Taken
<1> QED
  BY <1>1, <1>2 DEF InfoInv

\* What the steps of a request do to the thread's job.
LEMMA GotoJob ==
    ASSUME ClientInfoTypeOK, NEW c \in Threads, NEW s \in Stages, Goto(c, s)
    PROVE  /\ job' \in [Threads -> Jobs]
           /\ job'[c].at = s /\ job'[c].phone = job[c].phone
           /\ job'[c].user = job[c].user /\ job'[c].old = job[c].old
           /\ \A d \in Threads : d # c => job'[d] = job[d]
<1>1. job \in [Threads -> Jobs]
  BY DEF ClientInfoTypeOK, Jobs
<1>2. [job[c] EXCEPT !.at = s] \in Jobs
  BY <1>1 DEF Jobs
<1>3. job'[c] = [job[c] EXCEPT !.at = s]
  BY <1>1 DEF Goto
<1>4. job' \in [Threads -> Jobs] /\ \A d \in Threads : d # c => job'[d] = job[d]
  BY <1>1, <1>2 DEF Goto
<1> QED
  BY <1>1, <1>3, <1>4 DEF Jobs

LEMMA DoneJob ==
    ASSUME ClientInfoTypeOK, NEW c \in Threads, Done(c)
    PROVE  /\ job' \in [Threads -> Jobs]
           /\ job'[c].at = "idle" /\ job'[c].user = job[c].user /\ job'[c].phone = Nil
           /\ \A d \in Threads : d # c => job'[d] = job[d]
<1>1. job \in [Threads -> Jobs]
  BY DEF ClientInfoTypeOK, Jobs
<1>2. IdleJob(job[c].user) \in Jobs
  BY <1>1 DEF Jobs, IdleJob, Stages
<1>3. job'[c] = IdleJob(job[c].user)
  BY <1>1 DEF Done
<1>4. job' \in [Threads -> Jobs] /\ \A d \in Threads : d # c => job'[d] = job[d]
  BY <1>1, <1>2 DEF Done
<1> QED
  BY <1>1, <1>3, <1>4 DEF IdleJob

\* What writing a field of a user's hash does.
LEMMA SetMobileFacts ==
    ASSUME ClientInfoTypeOK, NEW u \in Users \cup {Nil}, NEW m \in Phones \cup {Nil},
           info' = SetMobile(u, m)
    PROVE  /\ info' \in [Users -> Infos]
           /\ \A v \in Users : info'[v].flag = info[v].flag
           /\ \A v \in Users : info'[v].mobile = IF v = u THEN m ELSE info[v].mobile
<1>1. info \in [Users -> Infos]
  BY DEF ClientInfoTypeOK, Infos
<1>2. CASE u = Nil
  BY <1>1, <1>2, ClientInfoAssumption DEF SetMobile
<1>3. CASE u \in Users
  <2>1. [info[u] EXCEPT !.mobile = m] \in Infos
    BY <1>1, <1>3 DEF Infos
  <2>2. info' = [info EXCEPT ![u] = [info[u] EXCEPT !.mobile = m]]
    BY <1>3, ClientInfoAssumption DEF SetMobile
  <2>3. \A v \in Users : info'[v] = IF v = u THEN [info[u] EXCEPT !.mobile = m] ELSE info[v]
    BY <1>1, <2>2
  <2>4. info' \in [Users -> Infos]
    BY <1>1, <2>1, <2>2
  <2> QED
    BY <1>1, <1>3, <2>3, <2>4 DEF Infos
<1> QED
  BY <1>2, <1>3

LEMMA SetFlagFacts ==
    ASSUME ClientInfoTypeOK, NEW u \in Users \cup {Nil}, NEW f \in {"on", "off"},
           info' = SetFlag(u, f)
    PROVE  /\ info' \in [Users -> Infos]
           /\ \A v \in Users : info'[v].flag = IF v = u THEN f ELSE info[v].flag
           /\ \A v \in Users : info'[v].mobile = info[v].mobile
<1>1. info \in [Users -> Infos]
  BY DEF ClientInfoTypeOK, Infos
<1>2. CASE u = Nil
  BY <1>1, <1>2, ClientInfoAssumption DEF SetFlag
<1>3. CASE u \in Users
  <2>1. [info[u] EXCEPT !.flag = f] \in Infos
    BY <1>1, <1>3 DEF Infos
  <2>2. info' = [info EXCEPT ![u] = [info[u] EXCEPT !.flag = f]]
    BY <1>3, ClientInfoAssumption DEF SetFlag
  <2>3. \A v \in Users : info'[v] = IF v = u THEN [info[u] EXCEPT !.flag = f] ELSE info[v]
    BY <1>1, <2>2
  <2>4. info' \in [Users -> Infos]
    BY <1>1, <2>1, <2>2
  <2> QED
    BY <1>1, <1>3, <2>3, <2>4 DEF Infos
<1> QED
  BY <1>2, <1>3

-----------------------------------------------------------------------------
(* Each action keeps InfoInv.                                              *)

\* A step that only takes a thread on, or back to idle: what it must see to.
LEMMA SessionSteps ==
    ASSUME InfoInv, NEW c \in Threads, NEW p \in Phones, NEW u \in Users,
           Login(c, p, u) \/ SessionExpires(p)
    PROVE  InfoInv'
BY DEF Login, SessionExpires, InfoInv, ClientInfoTypeOK, JobInv, PhoneInv, PhoneOf, FlagInv,
   FlagHasPhone, QuietInv, Busy

LEMMA ExpiryStep ==
    ASSUME InfoInv, NEW u \in Users, InfoExpires(u)
    PROVE  InfoInv'
<1> USE ClientInfoAssumption DEF InfoExpires
<1>1. \A v \in Users : info'[v] = IF v = u THEN NoInfo ELSE info[v]
  BY DEF InfoInv, ClientInfoTypeOK
<1>2. NoInfo.flag = Nil /\ NoInfo.mobile = Nil /\ NoInfo \in Infos
  BY DEF NoInfo, Infos
<1>3. ClientInfoTypeOK'
  BY <1>2 DEF InfoInv, ClientInfoTypeOK, Infos
<1>4. JobInv'
  BY DEF InfoInv, JobInv, Busy
<1>5. PhoneInv'
  BY <1>1, <1>2 DEF InfoInv, PhoneInv, PhoneOf
<1>6. FlagInv'
  <2>1. FlagHasPhone'
    BY <1>1, <1>2 DEF InfoInv, FlagInv, FlagHasPhone
  <2>2. \A c \in Threads : job[c].at \in {"onFlag", "offMobile"} =>
            Busy(c) /\ job[c].user \in Users
    BY DEF InfoInv, JobInv, OnStages, OffStages, Busy
  <2> QED
    BY <1>1, <2>1, <2>2 DEF InfoInv, FlagInv
<1>7. QuietInv'
  BY <1>1, <1>2 DEF InfoInv, QuietInv, ClientInfoTypeOK
<1> QED
  BY <1>3, <1>4, <1>5, <1>6, <1>7 DEF InfoInv

LEMMA TakeStep ==
    ASSUME InfoInv, NEW c \in Threads, NEW p \in Phones, NEW op \in DOMAIN FirstStage,
           Take(c, p, op)
    PROVE  InfoInv'
<1> USE ClientInfoAssumption
<1>1. PICK found \in BOOLEAN :
        LET u == IF found THEN session[p] ELSE job[c].user
            goesOn == found \/ op = "report"
        IN
        /\ GetsSession(p, found)
        /\ job' = [job EXCEPT ![c] = IF ~goesOn THEN IdleJob(u)
                   ELSE [at |-> FirstStage[op], phone |-> p, user |-> u, old |-> Nil]]
        /\ mixed' = IF goesOn /\ u # Nil /\ \E d \in Threads : Busy(d) /\ job[d].user = u
                    THEN mixed \cup {u} ELSE mixed
        /\ odd' = IF goesOn /\ op = "on" /\ holder[p] # u THEN odd \cup {p} ELSE odd
        /\ quiet' = IF goesOn /\ op = "on" THEN quiet \ {u} ELSE quiet
  BY DEF Take
<1> DEFINE u == IF found THEN session[p] ELSE job[c].user
           goesOn == found \/ op = "report"
<1>2. /\ UNCHANGED <<session, info, holder>> /\ job[c].at = "idle"
      /\ \A d \in Threads : Busy(d) => job[d].phone # p
      /\ asked' \in 0 .. MaxAsked /\ fails' \in 0 .. MaxFails
  BY <1>1 DEF Take, Free, Busy, Ask, InfoInv, ClientInfoTypeOK, GetsSession, RedisFails
<1>3. u \in Users \cup {Nil} /\ (found => u \in Users)
  BY <1>1 DEF InfoInv, ClientInfoTypeOK, GetsSession
<1>4. /\ FirstStage[op] \in {"getHolder", "onMobile", "offFlag", "del"}
      /\ op = "report" <=> FirstStage[op] = "getHolder"
      /\ op = "on" <=> FirstStage[op] = "onMobile"
  BY DEF FirstStage
<1>5. \A d \in Threads : d # c => job'[d] = job[d]
  BY <1>1 DEF InfoInv, ClientInfoTypeOK
<1>6. CASE goesOn
  <2>1. job'[c] = [at |-> FirstStage[op], phone |-> p, user |-> u, old |-> Nil]
    BY <1>1, <1>6 DEF InfoInv, ClientInfoTypeOK
  <2>2. job'[c].at = FirstStage[op] /\ job'[c].phone = p /\ job'[c].user = u
    BY <2>1
  <2>3. ClientInfoTypeOK'
    <3>1. job' \in [Threads -> Jobs]
      <4>1. job'[c] \in Jobs
        BY <1>3, <1>4, <2>1 DEF Jobs, Stages
      <4> QED
        BY <1>1, <1>6, <2>1, <4>1 DEF InfoInv, ClientInfoTypeOK, Jobs
    <3>2. mixed' \subseteq Users /\ odd' \subseteq Phones /\ quiet' \subseteq Users
      BY <1>1, <1>3 DEF InfoInv, ClientInfoTypeOK
    <3> QED
      BY <1>2, <3>1, <3>2 DEF InfoInv, ClientInfoTypeOK, Jobs
  <2>4. JobInv'
    <3>1. \A d \in Threads : Busy(d)' <=> d = c \/ Busy(d)
      BY <1>2, <1>4, <1>5, <2>2 DEF Busy
    <3>2. op # "report" => u \in Users
      BY <1>3, <1>6
    <3>3. \A d \in Threads \ {c} : Busy(d) /\ job[d].user = u => u \in mixed' \cup {Nil}
      BY <1>1, <1>6
    <3> QED
      BY <1>1, <1>2, <1>4, <1>5, <2>2, <3>1, <3>2, <3>3
         DEF InfoInv, JobInv, OnStages, OffStages
  <2>5. PhoneInv'
    <3>1. \A q \in Phones \ odd' : q \in Phones \ odd
      BY <1>1
    <3>2. \A d \in Threads : job[d].phone = p => ~Busy(d)
      BY <1>2
    <3>3. FirstStage[op] \notin Taken /\ FirstStage[op] # "hdelOld"
          /\ (FirstStage[op] \in OnStages <=> op = "on")
      BY <1>4 DEF Taken, OnStages
    <3>4. "idle" \notin Taken \cup OnStages \cup {"hdelOld"}
      BY DEF Taken, OnStages
    <3>5. op = "on" /\ p \notin odd' => holder[p] = u
      BY <1>1, <1>6
    <3> QED
      BY <1>2, <1>5, <2>2, <3>1, <3>2, <3>3, <3>4, <3>5 DEF InfoInv, PhoneInv, PhoneOf, Busy
  <2>6. FlagInv'
    <3>1. mixed \subseteq mixed'
      BY <1>1
    <3> QED
      BY <1>2, <1>4, <1>5, <2>2, <3>1 DEF InfoInv, FlagInv, FlagHasPhone
  <2>7. QuietInv'
    <3>1. quiet' \subseteq quiet /\ (op = "on" => u \notin quiet')
      BY <1>1, <1>6
    <3>2. FirstStage[op] \in OnStages <=> op = "on"
      BY <1>4 DEF OnStages
    <3> QED
      BY <1>2, <1>5, <2>2, <3>1, <3>2 DEF InfoInv, QuietInv
  <2> QED
    BY <2>3, <2>4, <2>5, <2>6, <2>7 DEF InfoInv
<1>7. CASE ~goesOn
  <2>1. job'[c] = IdleJob(u) /\ UNCHANGED <<mixed, odd, quiet>>
    BY <1>1, <1>7 DEF InfoInv, ClientInfoTypeOK
  <2>2. job'[c].at = "idle" /\ IdleJob(u) \in Jobs
    BY <1>3, <2>1 DEF IdleJob, Jobs, Stages
  <2>3. ClientInfoTypeOK'
    <3>1. job' \in [Threads -> Jobs]
      BY <1>1, <1>7, <2>2 DEF InfoInv, ClientInfoTypeOK, Jobs
    <3> QED
      BY <1>2, <2>1, <3>1 DEF InfoInv, ClientInfoTypeOK, Jobs
  <2>4. JobInv'
    BY <1>2, <1>5, <2>1, <2>2 DEF InfoInv, JobInv, Busy, OnStages, OffStages
  <2>5. PhoneInv'
    BY <1>2, <1>5, <2>1, <2>2 DEF InfoInv, PhoneInv, PhoneOf, OnStages, Taken
  <2>6. FlagInv' /\ QuietInv'
    BY <1>2, <1>5, <2>1, <2>2 DEF InfoInv, FlagInv, FlagHasPhone, QuietInv, OnStages
  <2> QED
    BY <2>3, <2>4, <2>5, <2>6 DEF InfoInv
<1> QED
  BY <1>6, <1>7

\* Requests that go on, or end, stay one for each phone.
LEMMA GotoKeeps ==
    ASSUME InfoInv, NEW c \in Threads, NEW s \in Stages \ {"idle"}, Busy(c), Goto(c, s),
           mixed \subseteq mixed', s # "hdelOld",
           s \in OnStages \cup OffStages \cup {"del"} => job[c].user \in Users
    PROVE  JobInv'
<1>1. /\ job'[c].at = s /\ job'[c].phone = job[c].phone /\ job'[c].user = job[c].user
      /\ \A d \in Threads : d # c => job'[d] = job[d]
  BY GotoJob DEF InfoInv
<1>2. \A d \in Threads : Busy(d)' <=> Busy(d)
  BY <1>1 DEF Busy
<1> QED
  BY <1>1, <1>2 DEF InfoInv, JobInv

LEMMA DoneKeeps ==
    ASSUME InfoInv, NEW c \in Threads, Done(c), mixed \subseteq mixed'
    PROVE  JobInv'
<1>1. /\ job'[c].at = "idle"
      /\ \A d \in Threads : d # c => job'[d] = job[d]
  BY DoneJob DEF InfoInv
<1> QED
  BY <1>1 DEF InfoInv, JobInv, Busy, OnStages, OffStages

\* Where only a request goes on, and the hashes stay, the facts about the
\* phone of the others do.
LEMMA OnlyStage ==
    ASSUME InfoInv, NEW c \in Threads, Busy(c), UNCHANGED <<info, holder, quiet, mixed>>,
           odd \subseteq odd',
           \A d \in Threads : d # c => job'[d] = job[d],
           job'[c].at \notin OnStages \cup OffStages,
           \/ job'[c].at = "idle" /\ (job[c].at \in Taken => job[c].phone \in odd')
           \/ job'[c].phone = job[c].phone /\ job'[c].user = job[c].user
              /\ job'[c].at \in Taken /\ (job[c].at \in Taken \/ job[c].phone \in odd')
    PROVE  PhoneInv' /\ FlagInv' /\ QuietInv'
<1>1. FlagInv' /\ QuietInv'
  BY DEF InfoInv, FlagInv, FlagHasPhone, QuietInv, OnStages, OffStages
<1>2. job[c].phone \in Phones /\ \A d \in Threads : Busy(d) /\ job[d].phone = job[c].phone => c = d
  BY DEF InfoInv, JobInv
<1>3. \A d \in Threads : job[d].at \in Taken => Busy(d)
  BY DEF Taken, Busy
<1>4. "idle" \notin Taken \cup OnStages \cup {"hdelOld"} /\ "hdelOld" \notin Taken
  BY DEF Taken, OnStages
<1>5. CASE job'[c].at = "idle" /\ (job[c].at \in Taken => job[c].phone \in odd')
  <2>1. \A q \in Phones \ odd' : (\A d \in Threads : job'[d].phone = q => job'[d].at \notin Taken)
            => \A d \in Threads : job[d].phone = q => job[d].at \notin Taken
    BY <1>5
  <2>2. \A d \in Threads : job'[d].at \in Taken \cup OnStages \cup {"hdelOld"} => d # c
    BY <1>4, <1>5
  <2> QED
    <3> SUFFICES ASSUME NEW q \in Phones \ odd'
                 PROVE  PhoneOf(q)'
      BY <1>1 DEF PhoneInv
    <3> QED
      BY <2>1, <2>2 DEF InfoInv, PhoneInv, PhoneOf
<1>6. CASE job'[c].phone = job[c].phone /\ job'[c].user = job[c].user
           /\ job'[c].at \in Taken /\ (job[c].at \in Taken \/ job[c].phone \in odd')
  <2>1. \A q \in Phones \ odd' : (\A d \in Threads : job'[d].phone = q => job'[d].at \notin Taken)
            => \A d \in Threads : job[d].phone = q => job[d].at \notin Taken
    BY <1>6
  <2>2. job'[c].at \notin OnStages \cup {"hdelOld"}
    BY <1>4, <1>6
  <2>3. \A q \in Phones \ odd' : q = job[c].phone => job[c].at \in Taken
    BY <1>6
  <2> QED
    <3> SUFFICES ASSUME NEW q \in Phones \ odd'
                 PROVE  PhoneOf(q)'
      BY <1>1 DEF PhoneInv
    <3> QED
      BY <1>6, <2>1, <2>2, <2>3 DEF InfoInv, PhoneInv, PhoneOf
<1> QED
  BY <1>5, <1>6, <1>1

LEMMA GetsHolderStep ==
    ASSUME InfoInv, NEW c \in Threads, ReportGetsHolder(c)
    PROVE  InfoInv'
<1> DEFINE p == job[c].phone
           h == holder[p]
<1>0. job[c].at = "getHolder" /\ UNCHANGED <<session, info, holder, asked, mixed, quiet>>
  BY DEF ReportGetsHolder
<1>1. job \in [Threads -> Jobs] /\ p \in Phones /\ h \in Users \cup {Nil} /\ Busy(c)
      /\ job[c].user \in Users \cup {Nil}
  BY <1>0 DEF InfoInv, ClientInfoTypeOK, JobInv, Jobs, Busy
<1>2. \A d \in Threads : d # c => job[d].phone # p \/ ~Busy(d)
  BY <1>1 DEF InfoInv, JobInv
<1>3. CASE RedisFails /\ Goto(c, "hsetMobile") /\ odd' = odd \cup {p}
  <2>1. "hsetMobile" \in Taken /\ "hsetMobile" \notin OnStages \cup OffStages \cup {"del"}
        /\ "hsetMobile" \in Stages \ {"idle"}
    BY DEF Taken, OnStages, OffStages, Stages
  <2>2. job' \in [Threads -> Jobs] /\ job'[c].at = "hsetMobile" /\ job'[c].phone = p
        /\ job'[c].user = job[c].user /\ \A d \in Threads : d # c => job'[d] = job[d]
    BY <1>3, <2>1, GotoJob DEF InfoInv
  <2>3. ClientInfoTypeOK'
    BY <1>0, <1>1, <1>3, <2>2, ClientInfoAssumption DEF InfoInv, ClientInfoTypeOK, Jobs, RedisFails
  <2>4. JobInv'
    BY <1>0, <1>1, <1>3, <2>1, GotoKeeps
  <2>5. PhoneInv' /\ FlagInv' /\ QuietInv'
    BY <1>0, <1>1, <1>3, <2>1, <2>2, OnlyStage
  <2> QED
    BY <2>3, <2>4, <2>5 DEF InfoInv
<1>4. CASE UNCHANGED <<fails, odd>> /\ h \in {Nil, job[c].user}
           /\ job' = [job EXCEPT ![c] = [@ EXCEPT
                 !.at = IF h \in {Nil, job[c].user} THEN "hsetMobile" ELSE "hdelOld",
                 !.old = IF h = job[c].user THEN Nil ELSE h]]
  <2> DEFINE o == IF h = job[c].user THEN Nil ELSE h
  <2>0. job'[c] = [job[c] EXCEPT !.at = "hsetMobile", !.old = o]
    BY <1>1, <1>4
  <2>1. \A d \in Threads : d # c => job'[d] = job[d]
    BY <1>1, <1>4
  <2>2. job'[c].at = "hsetMobile" /\ job'[c].phone = p /\ job'[c].user = job[c].user
        /\ job'[c] \in Jobs
    <3>1. job[c] \in Jobs /\ o \in Users \cup {Nil}
      BY <1>1
    <3> HIDE DEF o
    <3> QED
      BY <2>0, <3>1 DEF Jobs, Stages
  <2>3. ClientInfoTypeOK'
    <3>1. job' \in [Threads -> Jobs]
      BY <1>1, <1>4, <2>1, <2>2
    <3> QED
      BY <1>0, <1>4, <3>1 DEF InfoInv, ClientInfoTypeOK, Jobs
  <2>4. JobInv'
    <3>1. \A d \in Threads : Busy(d)' <=> Busy(d)
      BY <1>0, <1>1, <2>1, <2>2 DEF Busy
    <3> QED
      BY <2>1, <2>2, <3>1, <1>0 DEF InfoInv, JobInv, OnStages, OffStages
  <2>5. PhoneInv'
    <3> SUFFICES ASSUME NEW q \in Phones \ odd'
                 PROVE  PhoneOf(q)'
      BY DEF PhoneInv
    <3>1. q \in Phones \ odd /\ PhoneOf(q)
      BY <1>4 DEF InfoInv, PhoneInv
    <3>2. "idle" \notin Taken /\ "hsetMobile" \in Taken /\ "getHolder" \notin Taken
          /\ "hsetMobile" \notin OnStages \cup {"hdelOld"}
      BY DEF Taken, OnStages
    <3>3. CASE q = p
      <4>1. \A d \in Threads : job[d].phone = p => job[d].at \notin Taken
        BY <1>0, <1>2, <3>2 DEF Busy
      <4>2. \A v \in Users : info[v].mobile = p => v = job[c].user
        BY <1>4, <3>1, <3>3, <4>1, ClientInfoAssumption DEF PhoneOf
      <4> QED
        BY <2>1, <2>2, <3>1, <3>2, <3>3, <4>2, <1>0 DEF PhoneOf
    <3>4. CASE q # p
      BY <2>1, <2>2, <3>1, <3>2, <3>4, <1>0 DEF PhoneOf
    <3> QED
      BY <3>3, <3>4
  <2>6. FlagInv' /\ QuietInv'
    BY <1>0, <2>1, <2>2 DEF InfoInv, FlagInv, FlagHasPhone, QuietInv, OnStages
  <2> QED
    BY <2>3, <2>4, <2>5, <2>6 DEF InfoInv
<1>5. CASE UNCHANGED <<fails, odd>> /\ h \notin {Nil, job[c].user}
           /\ job' = [job EXCEPT ![c] = [@ EXCEPT
                 !.at = IF h \in {Nil, job[c].user} THEN "hsetMobile" ELSE "hdelOld",
                 !.old = IF h = job[c].user THEN Nil ELSE h]]
  <2>0. job'[c] = [job[c] EXCEPT !.at = "hdelOld", !.old = h]
    BY <1>1, <1>5
  <2>1. \A d \in Threads : d # c => job'[d] = job[d]
    BY <1>1, <1>5
  <2>2. job'[c].at = "hdelOld" /\ job'[c].phone = p /\ job'[c].user = job[c].user
        /\ job'[c].old = h /\ job'[c] \in Jobs
    <3>1. job[c] \in Jobs /\ h \in Users \cup {Nil}
      BY <1>1
    <3> HIDE DEF h
    <3> QED
      BY <2>0, <3>1 DEF Jobs, Stages
  <2>3. ClientInfoTypeOK'
    <3>1. job' \in [Threads -> Jobs]
      <4>1. job' = [job EXCEPT ![c] = job'[c]]
        BY <1>1, <1>5
      <4> QED
        BY <1>1, <2>2, <4>1
    <3> QED
      BY <1>0, <1>5, <3>1 DEF InfoInv, ClientInfoTypeOK, Jobs
  <2>4. JobInv'
    <3>1. \A d \in Threads : Busy(d)' <=> Busy(d)
      BY <1>0, <1>1, <2>1, <2>2 DEF Busy
    <3> QED
      BY <1>1, <1>5, <2>1, <2>2, <3>1, <1>0 DEF InfoInv, JobInv, OnStages, OffStages
  <2>5. PhoneInv'
    <3> SUFFICES ASSUME NEW q \in Phones \ odd'
                 PROVE  PhoneOf(q)'
      BY DEF PhoneInv
    <3>1. q \in Phones \ odd /\ PhoneOf(q)
      BY <1>5 DEF InfoInv, PhoneInv
    <3>2. "hdelOld" \notin Taken \cup OnStages /\ "getHolder" \notin Taken
      BY DEF Taken, OnStages
    <3> QED
      BY <1>0, <2>1, <2>2, <3>1, <3>2 DEF PhoneOf
  <2>6. FlagInv' /\ QuietInv'
    BY <1>0, <2>1, <2>2 DEF InfoInv, FlagInv, FlagHasPhone, QuietInv, OnStages
  <2> QED
    BY <2>3, <2>4, <2>5, <2>6 DEF InfoInv
<1> QED
  BY <1>3, <1>4, <1>5 DEF ReportGetsHolder

LEMMA HdelsOldStep ==
    ASSUME InfoInv, NEW c \in Threads, ReportHdelsOld(c)
    PROVE  InfoInv'
<1> DEFINE p == job[c].phone
           u == job[c].old
<1> USE DEF ReportHdelsOld
<1>1. "hsetMobile" \in Taken /\ "hsetMobile" \notin OnStages \cup OffStages \cup {"del", "hdelOld"}
      /\ "hsetMobile" \in Stages \ {"idle"} /\ "hdelOld" \notin Taken \cup {"idle"}
      /\ "idle" \notin Taken
  BY DEF Taken, OnStages, OffStages, Stages
<1>2. p \in Phones /\ u \in Users /\ Busy(c)
      /\ \A d \in Threads : d # c => job[d].phone # p \/ ~Busy(d)
  BY DEF InfoInv, JobInv, Busy
<1>3. job' \in [Threads -> Jobs] /\ job'[c].at = "hsetMobile" /\ job'[c].phone = p
      /\ job'[c].user = job[c].user /\ \A d \in Threads : d # c => job'[d] = job[d]
  BY <1>1, GotoJob DEF InfoInv
<1>4. mixed \subseteq mixed'
  OBVIOUS
<1>5. JobInv'
  BY <1>1, <1>2, <1>4, GotoKeeps
<1>6. CASE RedisFails /\ odd' = odd \cup {p} /\ UNCHANGED <<info, mixed>>
  <2>1. ClientInfoTypeOK'
    BY <1>2, <1>3, <1>6, ClientInfoAssumption DEF InfoInv, ClientInfoTypeOK, Jobs, RedisFails
  <2>2. PhoneInv' /\ FlagInv' /\ QuietInv'
    BY <1>1, <1>2, <1>3, <1>6, OnlyStage
  <2> QED
    BY <1>5, <2>1, <2>2 DEF InfoInv
<1>7. CASE info' = SetMobile(u, Nil) /\ mixed' = mixed \cup {u} /\ UNCHANGED <<fails, odd>>
  <2>1. info' \in [Users -> Infos]
    BY <1>2, <1>7, SetMobileFacts DEF InfoInv
  <2>2. \A v \in Users : info'[v].flag = info[v].flag
    BY <1>2, <1>7, SetMobileFacts DEF InfoInv
  <2>3. \A v \in Users : info'[v].mobile = IF v = u THEN Nil ELSE info[v].mobile
    BY <1>2, <1>7, SetMobileFacts DEF InfoInv
  <2>4. ClientInfoTypeOK'
    BY <1>2, <1>3, <1>7, <2>1 DEF InfoInv, ClientInfoTypeOK, Jobs, Infos
  <2>5. PhoneInv'
    <3> SUFFICES ASSUME NEW q \in Phones \ odd'
                 PROVE  PhoneOf(q)'
      BY DEF PhoneInv
    <3>1. q \in Phones \ odd /\ PhoneOf(q)
      BY <1>7 DEF InfoInv, PhoneInv
    <3>2. \A v \in Users : info'[v].mobile = q => info[v].mobile = q /\ v # u
      BY <2>3, ClientInfoAssumption
    <3>3. CASE q = p
      <4>1. u = holder[p] /\ \A d \in Threads : job[d].phone = p => job[d].at \notin Taken
        BY <1>1, <1>2, <3>1, <3>3 DEF PhoneOf, Busy
      <4>2. \A v \in Users : info'[v].mobile # p
        BY <3>1, <3>2, <3>3, <4>1 DEF PhoneOf
      <4> QED
        BY <1>1, <1>3, <3>1, <3>3, <4>2 DEF PhoneOf
    <3>4. CASE q # p
      BY <1>3, <3>1, <3>2, <3>4 DEF PhoneOf
    <3> QED
      BY <3>3, <3>4
  <2>6. FlagInv'
    <3>1. FlagHasPhone'
      BY <1>7, <2>2, <2>3 DEF InfoInv, FlagInv, FlagHasPhone
    <3>2. \A d \in Threads : job[d].at \in {"onFlag", "offMobile"} => job[d].user \in Users
      BY DEF InfoInv, JobInv, OnStages, OffStages
    <3> QED
      BY <1>3, <1>7, <2>2, <2>3, <3>1, <3>2 DEF InfoInv, FlagInv
  <2>7. QuietInv'
    BY <1>1, <1>3, <2>2 DEF InfoInv, QuietInv, ClientInfoTypeOK
  <2> QED
    BY <1>5, <2>4, <2>5, <2>6, <2>7 DEF InfoInv
<1> QED
  BY <1>6, <1>7

\* The rest of the report: the hash and then the mobile id.
LEMMA HsetsStep ==
    ASSUME InfoInv, NEW c \in Threads, ReportHsets(c)
    PROVE  InfoInv'
<1> DEFINE p == job[c].phone
           u == job[c].user
<1>0. job[c].at = "hsetMobile" /\ UNCHANGED <<session, holder, asked, mixed, quiet>>
  BY DEF ReportHsets
<1>1. "expire" \in Taken /\ "expire" \notin OnStages \cup OffStages \cup {"del", "hdelOld"}
      /\ "expire" \in Stages \ {"idle"} /\ "hsetMobile" \in Taken
      /\ "hsetMobile" \notin OnStages \cup {"hdelOld"} /\ "idle" \notin Taken \cup OnStages \cup OffStages
  BY DEF Taken, OnStages, OffStages, Stages
<1>2. p \in Phones /\ u \in Users \cup {Nil} /\ Busy(c)
      /\ \A d \in Threads : d # c => job[d].phone # p \/ ~Busy(d)
  BY <1>0 DEF InfoInv, JobInv, Busy, ClientInfoTypeOK
<1>3. CASE RedisFails /\ Done(c) /\ odd' = odd \cup {p} /\ UNCHANGED info
  <2>1. job' \in [Threads -> Jobs] /\ job'[c].at = "idle"
        /\ \A d \in Threads : d # c => job'[d] = job[d]
    BY <1>3, DoneJob DEF InfoInv
  <2>2. ClientInfoTypeOK'
    BY <1>0, <1>2, <1>3, <2>1, ClientInfoAssumption
       DEF InfoInv, ClientInfoTypeOK, Jobs, RedisFails
  <2>3. JobInv'
    BY <1>0, <1>3, DoneKeeps
  <2>4. PhoneInv' /\ FlagInv' /\ QuietInv'
    BY <1>0, <1>1, <1>2, <1>3, <2>1, OnlyStage
  <2> QED
    BY <2>2, <2>3, <2>4 DEF InfoInv
<1>4. CASE info' = SetMobile(u, p) /\ Goto(c, "expire") /\ UNCHANGED <<fails, odd>>
  <2>1. job' \in [Threads -> Jobs] /\ job'[c].at = "expire" /\ job'[c].phone = p
        /\ job'[c].user = u /\ \A d \in Threads : d # c => job'[d] = job[d]
    BY <1>1, <1>4, GotoJob DEF InfoInv
  <2>2. info' \in [Users -> Infos]
    BY <1>2, <1>4, SetMobileFacts DEF InfoInv
  <2>3. \A v \in Users : info'[v].flag = info[v].flag
    BY <1>2, <1>4, SetMobileFacts DEF InfoInv
  <2>4. \A v \in Users : info'[v].mobile = IF v = u THEN p ELSE info[v].mobile
    BY <1>2, <1>4, SetMobileFacts DEF InfoInv
  <2>5. ClientInfoTypeOK'
    BY <1>0, <1>4, <2>1, <2>2 DEF InfoInv, ClientInfoTypeOK, Jobs, Infos
  <2>6. JobInv'
    BY <1>0, <1>1, <1>2, <1>4, GotoKeeps
  <2>7. PhoneInv'
    <3> SUFFICES ASSUME NEW q \in Phones \ odd'
                 PROVE  PhoneOf(q)'
      BY DEF PhoneInv
    <3>1. q \in Phones \ odd /\ PhoneOf(q)
      BY <1>4 DEF InfoInv, PhoneInv
    <3>2. CASE q = p
      <4>1. \A v \in Users : info'[v].mobile = p => v = u
        BY <1>0, <1>1, <2>4, <3>1, <3>2 DEF PhoneOf
      <4>2. \A d \in Threads : job'[d].phone = p /\ job'[d].at # "idle" => d = c
        BY <1>2, <2>1 DEF Busy
      <4> QED
        BY <1>0, <1>1, <2>1, <3>1, <3>2, <4>1, <4>2 DEF PhoneOf
    <3>3. CASE q # p
      <4>1. \A v \in Users : info'[v].mobile = q => info[v].mobile = q
        BY <2>4, <3>3
      <4> QED
        BY <1>0, <1>1, <2>1, <3>1, <3>3, <4>1 DEF PhoneOf
    <3> QED
      BY <3>2, <3>3
  <2>8. FlagInv'
    <3>1. \A v \in Users : info[v].mobile # Nil => info'[v].mobile # Nil
      BY <1>2, <2>4, ClientInfoAssumption
    <3>2. \A d \in Threads : job[d].at \in {"onFlag", "offMobile"} => job[d].user \in Users
      BY DEF InfoInv, JobInv, OnStages, OffStages
    <3> QED
      BY <1>0, <2>1, <2>3, <3>1, <3>2 DEF InfoInv, FlagInv, FlagHasPhone
  <2>9. QuietInv'
    BY <1>0, <1>1, <2>1, <2>3 DEF InfoInv, QuietInv, ClientInfoTypeOK
  <2> QED
    BY <2>5, <2>6, <2>7, <2>8, <2>9 DEF InfoInv
<1> QED
  BY <1>3, <1>4 DEF ReportHsets

LEMMA ExpireStep ==
    ASSUME InfoInv, NEW c \in Threads, ReportExpire(c)
    PROVE  InfoInv'
<1> DEFINE p == job[c].phone
<1>0. job[c].at = "expire" /\ UNCHANGED <<session, info, holder, asked, mixed, quiet>>
  BY DEF ReportExpire
<1>1. /\ "setHolder" \in Taken /\ "setHolder" \notin OnStages \cup OffStages \cup {"del", "hdelOld"}
      /\ "setHolder" \in Stages \ {"idle"} /\ "expire" \in Taken
      /\ "idle" \notin Taken \cup OnStages \cup OffStages
  BY DEF Taken, OnStages, OffStages, Stages
<1>2. p \in Phones /\ Busy(c)
  BY <1>0 DEF InfoInv, JobInv, Busy
<1>3. CASE RedisFails /\ Done(c) /\ odd' = odd \cup {p}
  <2>1. job' \in [Threads -> Jobs] /\ job'[c].at = "idle"
        /\ \A d \in Threads : d # c => job'[d] = job[d]
    BY <1>3, DoneJob DEF InfoInv
  <2>2. ClientInfoTypeOK'
    BY <1>0, <1>2, <1>3, <2>1, ClientInfoAssumption
       DEF InfoInv, ClientInfoTypeOK, Jobs, RedisFails
  <2>3. JobInv'
    BY <1>0, <1>3, DoneKeeps
  <2>4. PhoneInv' /\ FlagInv' /\ QuietInv'
    BY <1>0, <1>1, <1>2, <1>3, <2>1, OnlyStage
  <2> QED
    BY <2>2, <2>3, <2>4 DEF InfoInv
<1>4. CASE Goto(c, "setHolder") /\ UNCHANGED <<fails, odd>>
  <2>1. job' \in [Threads -> Jobs] /\ job'[c].at = "setHolder" /\ job'[c].phone = p
        /\ job'[c].user = job[c].user /\ \A d \in Threads : d # c => job'[d] = job[d]
    BY <1>1, <1>4, GotoJob DEF InfoInv
  <2>2. ClientInfoTypeOK'
    BY <1>0, <1>4, <2>1 DEF InfoInv, ClientInfoTypeOK, Jobs
  <2>3. JobInv'
    BY <1>0, <1>1, <1>2, <1>4, GotoKeeps
  <2>4. PhoneInv' /\ FlagInv' /\ QuietInv'
    BY <1>0, <1>1, <1>2, <1>4, <2>1, OnlyStage
  <2> QED
    BY <2>2, <2>3, <2>4 DEF InfoInv
<1> QED
  BY <1>3, <1>4 DEF ReportExpire

LEMMA SetsHolderStep ==
    ASSUME InfoInv, NEW c \in Threads, ReportSetsHolder(c)
    PROVE  InfoInv'
<1> DEFINE p == job[c].phone
           u == job[c].user
<1>0. job[c].at = "setHolder" /\ UNCHANGED <<session, info, asked, mixed, quiet>> /\ Done(c)
  BY DEF ReportSetsHolder
<1>1. "setHolder" \in Taken /\ "idle" \notin Taken \cup OnStages \cup OffStages \cup {"hdelOld"}
  BY DEF Taken, OnStages, OffStages
<1>2. p \in Phones /\ u \in Users \cup {Nil} /\ Busy(c)
      /\ \A d \in Threads : d # c => job[d].phone # p \/ ~Busy(d)
  BY <1>0 DEF InfoInv, JobInv, Busy, ClientInfoTypeOK
<1>3. job' \in [Threads -> Jobs] /\ job'[c].at = "idle"
      /\ \A d \in Threads : d # c => job'[d] = job[d]
  BY <1>0, DoneJob DEF InfoInv
<1>4. JobInv'
  BY <1>0, DoneKeeps
<1>5. CASE RedisFails /\ odd' = odd \cup {p} /\ UNCHANGED holder
  <2>1. ClientInfoTypeOK'
    BY <1>0, <1>2, <1>3, <1>5, ClientInfoAssumption
       DEF InfoInv, ClientInfoTypeOK, Jobs, RedisFails
  <2>2. PhoneInv' /\ FlagInv' /\ QuietInv'
    BY <1>0, <1>1, <1>2, <1>3, <1>5, OnlyStage
  <2> QED
    BY <1>4, <2>1, <2>2 DEF InfoInv
<1>6. CASE holder' = [holder EXCEPT ![p] = u] /\ UNCHANGED <<fails, odd>>
  <2>1. ClientInfoTypeOK'
    BY <1>0, <1>2, <1>3, <1>6 DEF InfoInv, ClientInfoTypeOK, Jobs
  <2>2. \A q \in Phones : holder'[q] = IF q = p THEN u ELSE holder[q]
    BY <1>6 DEF InfoInv, ClientInfoTypeOK
  <2>3. PhoneInv'
    <3> SUFFICES ASSUME NEW q \in Phones \ odd'
                 PROVE  PhoneOf(q)'
      BY DEF PhoneInv
    <3>1. q \in Phones \ odd /\ PhoneOf(q)
      BY <1>6 DEF InfoInv, PhoneInv
    <3>2. CASE q = p
      <4>1. \A v \in Users : info'[v].mobile = p => v = holder'[p]
        BY <1>0, <1>1, <1>2, <2>2, <3>1, <3>2 DEF PhoneOf
      <4>2. \A d \in Threads : job'[d].phone = p => job'[d].at = "idle"
        BY <1>2, <1>3 DEF Busy
      <4> QED
        BY <1>1, <3>2, <4>1, <4>2 DEF PhoneOf
    <3>3. CASE q # p
      <4>1. holder'[q] = holder[q] /\ UNCHANGED info
        BY <1>0, <2>2, <3>3
      <4>2. \A d \in Threads : job'[d].at # "idle" => job'[d] = job[d]
        BY <1>3
      <4>3. (\A d \in Threads : job'[d].phone = q => job'[d].at \notin Taken)
                => \A d \in Threads : job[d].phone = q => job[d].at \notin Taken
        BY <1>3, <3>3
      <4> QED
        BY <1>1, <3>1, <4>1, <4>2, <4>3 DEF PhoneOf
    <3> QED
      BY <3>2, <3>3
  <2>4. FlagInv' /\ QuietInv'
    BY <1>0, <1>1, <1>3 DEF InfoInv, FlagInv, FlagHasPhone, QuietInv
  <2> QED
    BY <1>4, <2>1, <2>3, <2>4 DEF InfoInv
<1> QED
  BY <1>5, <1>6 DEF ReportSetsHolder

\* SetCurrentAlarmFlag to on: the phone, then the flag.
LEMMA AlarmOnStep ==
    ASSUME InfoInv, NEW c \in Threads, AlarmOn(c)
    PROVE  InfoInv'
<1> DEFINE p == job[c].phone
           u == job[c].user
<1>0. UNCHANGED <<session, holder, asked, fails, odd, mixed, quiet>>
  BY DEF AlarmOn
<1>1. /\ OnStages \cap (Taken \cup {"hdelOld", "idle", "offMobile"}) = {}
      /\ {"onMobile", "onFlag"} \subseteq OnStages
      /\ "idle" \notin Taken \cup OnStages \cup OffStages \cup {"hdelOld"}
  BY DEF Taken, OnStages, OffStages
<1>2. /\ job[c].at \in OnStages /\ Busy(c) /\ p \in Phones /\ u \in Users
      /\ \A d \in Threads : d # c => job[d].phone # p \/ ~Busy(d)
      /\ \A d \in Threads : Busy(d) /\ d # c /\ job[d].user = u => u \in mixed
  BY ClientInfoAssumption DEF AlarmOn, InfoInv, JobInv, Busy, OnStages
<1>3. CASE job[c].at = "onMobile" /\ info' = SetMobile(u, p) /\ Goto(c, "onFlag")
  <2>1. job' \in [Threads -> Jobs] /\ job'[c].at = "onFlag" /\ job'[c].phone = p
        /\ job'[c].user = u /\ \A d \in Threads : d # c => job'[d] = job[d]
    BY <1>3, GotoJob DEF InfoInv, Stages
  <2>2. info' \in [Users -> Infos]
    BY <1>2, <1>3, SetMobileFacts DEF InfoInv
  <2>3. \A v \in Users : info'[v].flag = info[v].flag
    BY <1>2, <1>3, SetMobileFacts DEF InfoInv
  <2>4. \A v \in Users : info'[v].mobile = IF v = u THEN p ELSE info[v].mobile
    BY <1>2, <1>3, SetMobileFacts DEF InfoInv
  <2>5. ClientInfoTypeOK'
    BY <1>0, <2>1, <2>2 DEF InfoInv, ClientInfoTypeOK, Jobs, Infos
  <2>6. JobInv'
    BY <1>0, <1>2, <1>3, GotoKeeps DEF Stages
  <2>7. PhoneInv'
    <3> SUFFICES ASSUME NEW q \in Phones \ odd'
                 PROVE  PhoneOf(q)'
      BY DEF PhoneInv
    <3>1. q \in Phones \ odd /\ PhoneOf(q)
      BY <1>0 DEF InfoInv, PhoneInv
    <3>2. CASE q = p
      <4>1. u = holder'[p]
        BY <1>0, <1>2, <3>1, <3>2 DEF PhoneOf
      <4>2. \A d \in Threads : job[d].phone = p => job[d].at \notin Taken \cup {"hdelOld"}
        BY <1>1, <1>2 DEF Busy
      <4>3. \A v \in Users : info[v].mobile = p => holder[p] = v
        BY <3>1, <3>2, <4>2 DEF PhoneOf
      <4>4. \A v \in Users : info'[v].mobile = p => holder'[p] = v
        BY <1>0, <2>4, <4>1, <4>3
      <4>5. \A d \in Threads : job'[d].phone = p =>
                job'[d].at \notin Taken \cup {"hdelOld"} /\ (d = c \/ job'[d].at \notin OnStages)
        BY <1>1, <1>2, <2>1 DEF Busy
      <4> QED
        BY <2>1, <3>2, <4>1, <4>4, <4>5 DEF PhoneOf
    <3>3. CASE q # p
      <4>1. \A v \in Users : info'[v].mobile = q => info[v].mobile = q
        BY <2>4, <3>3
      <4>2. \A d \in Threads : job'[d].phone = q => job'[d] = job[d]
        BY <2>1, <3>3
      <4>3. \A d \in Threads : job[d].phone = q => job'[d] = job[d]
        BY <2>1, <3>3
      <4> QED
        BY <1>0, <3>1, <4>1, <4>2, <4>3 DEF PhoneOf
    <3> QED
      BY <3>2, <3>3
  <2>8. FlagInv'
    <3>1. \A v \in Users : info[v].mobile # Nil \/ v = u => info'[v].mobile # Nil
      BY <1>2, <2>4, ClientInfoAssumption
    <3>2. \A d \in Threads : job[d].at \in {"onFlag", "offMobile"} => job[d].user \in Users
      BY DEF InfoInv, JobInv, OnStages, OffStages
    <3>3. job'[c].at # "offMobile"
      BY <2>1
    <3> QED
      BY <1>0, <1>2, <2>1, <2>3, <3>1, <3>2, <3>3 DEF InfoInv, FlagInv, FlagHasPhone
  <2>9. QuietInv'
    BY <1>0, <1>2, <2>1, <2>3 DEF InfoInv, QuietInv, ClientInfoTypeOK
  <2> QED
    BY <2>5, <2>6, <2>7, <2>8, <2>9 DEF InfoInv
<1>4. CASE job[c].at = "onFlag" /\ info' = SetFlag(u, "on") /\ Done(c)
  <2>1. job' \in [Threads -> Jobs] /\ job'[c].at = "idle"
        /\ \A d \in Threads : d # c => job'[d] = job[d]
    BY <1>4, DoneJob DEF InfoInv
  <2>2. info' \in [Users -> Infos]
    BY <1>2, <1>4, SetFlagFacts DEF InfoInv
  <2>3. \A v \in Users : info'[v].flag = IF v = u THEN "on" ELSE info[v].flag
    BY <1>2, <1>4, SetFlagFacts DEF InfoInv
  <2>4. \A v \in Users : info'[v].mobile = info[v].mobile
    BY <1>2, <1>4, SetFlagFacts DEF InfoInv
  <2>5. ClientInfoTypeOK'
    BY <1>0, <2>1, <2>2 DEF InfoInv, ClientInfoTypeOK, Jobs, Infos
  <2>6. JobInv'
    BY <1>0, <1>4, DoneKeeps
  <2>7. PhoneInv'
    <3> SUFFICES ASSUME NEW q \in Phones \ odd'
                 PROVE  PhoneOf(q)'
      BY DEF PhoneInv
    <3>1. q \in Phones \ odd /\ PhoneOf(q)
      BY <1>0 DEF InfoInv, PhoneInv
    <3>2. \A d \in Threads : job'[d].at # "idle" => job'[d] = job[d]
      BY <2>1
    <3>3. (\A d \in Threads : job'[d].phone = q => job'[d].at \notin Taken)
              => \A d \in Threads : job[d].phone = q => job[d].at \notin Taken
      BY <1>1, <1>2, <2>1
    <3> QED
      BY <1>0, <1>1, <2>4, <3>1, <3>2, <3>3 DEF PhoneOf
  <2>8. FlagInv'
    <3>1. u \notin mixed => info[u].mobile # Nil
      BY <1>4 DEF InfoInv, FlagInv
    <3>2. FlagHasPhone'
      BY <1>0, <2>3, <2>4, <3>1 DEF InfoInv, FlagInv, FlagHasPhone
    <3>3. \A d \in Threads : job[d].at \in {"onFlag", "offMobile"} =>
              job[d].user \in Users /\ Busy(d)
      BY DEF InfoInv, JobInv, OnStages, OffStages, Busy
    <3>4. \A d \in Threads : d # c /\ job[d].at = "offMobile" /\ job[d].user \notin mixed =>
              job[d].user # u
      BY <1>2, <3>3
    <3> QED
      BY <1>0, <2>1, <2>3, <2>4, <3>2, <3>3, <3>4 DEF InfoInv, FlagInv
  <2>9. QuietInv'
    <3>1. u \notin quiet
      BY <1>2 DEF InfoInv, QuietInv
    <3> QED
      BY <1>0, <1>1, <2>1, <2>3, <3>1 DEF InfoInv, QuietInv, ClientInfoTypeOK
  <2> QED
    BY <2>5, <2>6, <2>7, <2>8, <2>9 DEF InfoInv
<1> QED
  BY <1>3, <1>4 DEF AlarmOn

\* And to off: the flag, then the phone.
LEMMA AlarmOffStep ==
    ASSUME InfoInv, NEW c \in Threads, AlarmOff(c)
    PROVE  InfoInv'
<1> DEFINE p == job[c].phone
           u == job[c].user
<1>0. UNCHANGED <<session, holder, asked, fails, odd, mixed>>
  BY DEF AlarmOff
<1>1. /\ OffStages \cap (Taken \cup OnStages \cup {"hdelOld", "idle"}) = {}
      /\ {"offMobile", "offFlag"} \subseteq OffStages
      /\ "idle" \notin Taken \cup OnStages \cup OffStages \cup {"hdelOld"}
  BY DEF Taken, OnStages, OffStages
<1>2. /\ job[c].at \in OffStages /\ Busy(c) /\ p \in Phones /\ u \in Users
      /\ \A d \in Threads : Busy(d) /\ d # c /\ job[d].user = u => u \in mixed
  BY ClientInfoAssumption DEF AlarmOff, InfoInv, JobInv, Busy, OffStages
<1>3. CASE job[c].at = "offFlag" /\ info' = SetFlag(u, "off") /\ Goto(c, "offMobile")
           /\ UNCHANGED quiet
  <2>1. job' \in [Threads -> Jobs] /\ job'[c].at = "offMobile" /\ job'[c].phone = p
        /\ job'[c].user = u /\ \A d \in Threads : d # c => job'[d] = job[d]
    BY <1>3, GotoJob DEF InfoInv, Stages
  <2>2. info' \in [Users -> Infos]
    BY <1>2, <1>3, SetFlagFacts DEF InfoInv
  <2>3. \A v \in Users : info'[v].flag = IF v = u THEN "off" ELSE info[v].flag
    BY <1>2, <1>3, SetFlagFacts DEF InfoInv
  <2>4. \A v \in Users : info'[v].mobile = info[v].mobile
    BY <1>2, <1>3, SetFlagFacts DEF InfoInv
  <2>5. ClientInfoTypeOK'
    BY <1>0, <1>3, <2>1, <2>2 DEF InfoInv, ClientInfoTypeOK, Jobs, Infos
  <2>6. JobInv'
    BY <1>0, <1>2, <1>3, GotoKeeps DEF Stages
  <2>7. PhoneInv'
    <3> SUFFICES ASSUME NEW q \in Phones \ odd'
                 PROVE  PhoneOf(q)'
      BY DEF PhoneInv
    <3>1. q \in Phones \ odd /\ PhoneOf(q)
      BY <1>0 DEF InfoInv, PhoneInv
    <3>2. \A d \in Threads : job'[d].at \in Taken \cup OnStages \cup {"hdelOld"} =>
              job'[d] = job[d]
      BY <1>1, <2>1
    <3>3. (\A d \in Threads : job'[d].phone = q => job'[d].at \notin Taken)
              => \A d \in Threads : job[d].phone = q => job[d].at \notin Taken
      BY <1>1, <1>2, <2>1
    <3> QED
      BY <1>0, <2>4, <3>1, <3>2, <3>3 DEF PhoneOf
  <2>8. FlagInv'
    <3>1. \A v \in Users : info'[v].flag = "on" => v # u /\ info[v].flag = "on"
      BY <2>3
    <3>2. \A d \in Threads : job[d].at \in {"onFlag", "offMobile"} => job[d].user \in Users
      BY DEF InfoInv, JobInv, OnStages, OffStages
    <3>3. FlagHasPhone'
      BY <1>0, <2>4, <3>1 DEF InfoInv, FlagInv, FlagHasPhone
    <3> QED
      BY <1>0, <1>2, <2>1, <2>4, <3>1, <3>2, <3>3 DEF InfoInv, FlagInv
  <2>9. QuietInv'
    <3>1. \A v \in Users : info'[v].flag = "on" => info[v].flag = "on"
      BY <2>3
    <3> QED
      BY <1>1, <1>2, <1>3, <2>1, <3>1 DEF InfoInv, QuietInv, ClientInfoTypeOK
  <2> QED
    BY <2>5, <2>6, <2>7, <2>8, <2>9 DEF InfoInv
<1>4. CASE job[c].at = "offMobile" /\ info' = SetMobile(u, Nil) /\ Done(c)
           /\ quiet' = IF u \in mixed THEN quiet ELSE quiet \cup {u}
  <2>1. job' \in [Threads -> Jobs] /\ job'[c].at = "idle"
        /\ \A d \in Threads : d # c => job'[d] = job[d]
    BY <1>4, DoneJob DEF InfoInv
  <2>2. info' \in [Users -> Infos]
    BY <1>2, <1>4, SetMobileFacts DEF InfoInv
  <2>3. \A v \in Users : info'[v].flag = info[v].flag
    BY <1>2, <1>4, SetMobileFacts DEF InfoInv
  <2>4. \A v \in Users : info'[v].mobile = IF v = u THEN Nil ELSE info[v].mobile
    BY <1>2, <1>4, SetMobileFacts DEF InfoInv
  <2>5. ClientInfoTypeOK'
    BY <1>0, <1>2, <1>4, <2>1, <2>2 DEF InfoInv, ClientInfoTypeOK, Jobs, Infos
  <2>6. JobInv'
    BY <1>0, <1>4, DoneKeeps
  <2>7. PhoneInv'
    <3> SUFFICES ASSUME NEW q \in Phones \ odd'
                 PROVE  PhoneOf(q)'
      BY DEF PhoneInv
    <3>1. q \in Phones \ odd /\ PhoneOf(q)
      BY <1>0 DEF InfoInv, PhoneInv
    <3>2. \A d \in Threads : job'[d].at # "idle" => job'[d] = job[d]
      BY <2>1
    <3>3. (\A d \in Threads : job'[d].phone = q => job'[d].at \notin Taken)
              => \A d \in Threads : job[d].phone = q => job[d].at \notin Taken
      BY <1>1, <1>2, <2>1
    <3>4. \A v \in Users : info'[v].mobile = q => info[v].mobile = q
      BY <2>4, ClientInfoAssumption
    <3> QED
      BY <1>0, <1>1, <3>1, <3>2, <3>3, <3>4 DEF PhoneOf
  <2>8. FlagInv'
    <3>1. u \notin mixed => info[u].flag # "on"
      BY <1>4 DEF InfoInv, FlagInv
    <3>2. FlagHasPhone'
      BY <1>0, <2>3, <2>4, <3>1 DEF InfoInv, FlagInv, FlagHasPhone
    <3>3. \A d \in Threads : job[d].at \in {"onFlag", "offMobile"} =>
              job[d].user \in Users /\ Busy(d)
      BY DEF InfoInv, JobInv, OnStages, OffStages, Busy
    <3>4. \A d \in Threads : d # c /\ job[d].at = "onFlag" /\ job[d].user \notin mixed =>
              job[d].user # u
      BY <1>2, <3>3
    <3> QED
      BY <1>0, <2>1, <2>3, <2>4, <3>2, <3>3, <3>4 DEF InfoInv, FlagInv
  <2>9. QuietInv'
    <3>1. u \notin mixed => info[u].flag # "on"
      BY <1>4 DEF InfoInv, FlagInv
    <3>2. \A d \in Threads : d # c /\ job[d].at \in OnStages /\ job[d].user = u => u \in mixed
      BY <1>1, <1>2 DEF Busy
    <3>3. \A v \in quiet' : v \in Users /\ (v \in quiet \/ (v = u /\ u \notin mixed))
      BY <1>2, <1>4 DEF InfoInv, ClientInfoTypeOK
    <3>4. \A v \in quiet' : info'[v].flag # "on"
      BY <2>3, <3>1, <3>3 DEF InfoInv, QuietInv
    <3>5. \A v \in quiet', d \in Threads : d # c /\ job[d].user = v => job[d].at \notin OnStages
      BY <3>2, <3>3 DEF InfoInv, QuietInv
    <3> QED
      BY <1>1, <2>1, <3>4, <3>5 DEF QuietInv
  <2> QED
    BY <2>5, <2>6, <2>7, <2>8, <2>9 DEF InfoInv
<1> QED
  BY <1>3, <1>4 DEF AlarmOff

\* A request of one of these that ends early, and a logout.
LEMMA EndStep ==
    ASSUME InfoInv, NEW c \in Threads, AlarmFlagFails(c) \/ Logout(c)
    PROVE  InfoInv'
<1>1. /\ job[c].at \in OnStages \cup OffStages \cup {"del"}
      /\ Done(c) /\ UNCHANGED <<info, holder, asked, odd, mixed, quiet>>
  BY DEF AlarmFlagFails, Logout, OnStages, OffStages
<1>2. job[c].at \notin Taken /\ Busy(c) /\ job[c].phone \in Phones
      /\ "idle" \notin Taken \cup OnStages \cup OffStages
  BY <1>1 DEF InfoInv, JobInv, Busy, Taken, OnStages, OffStages
<1>3. job' \in [Threads -> Jobs] /\ job'[c].at = "idle"
      /\ \A d \in Threads : d # c => job'[d] = job[d]
  BY <1>1, DoneJob DEF InfoInv
<1>4. session' \in [Phones -> Users \cup {Nil}] /\ fails' \in 0 .. MaxFails
  BY <1>2, ClientInfoAssumption
     DEF AlarmFlagFails, Logout, RedisFails, InfoInv, ClientInfoTypeOK
<1>5. ClientInfoTypeOK'
  BY <1>1, <1>3, <1>4 DEF InfoInv, ClientInfoTypeOK, Jobs
<1>6. JobInv'
  BY <1>1, DoneKeeps
<1>7. PhoneInv' /\ FlagInv' /\ QuietInv'
  BY <1>1, <1>2, <1>3, OnlyStage
<1> QED
  BY <1>5, <1>6, <1>7 DEF InfoInv

LEMMA InfoNext ==
    ASSUME InfoInv, ClientInfoNext
    PROVE  InfoInv'
<1>1. ASSUME NEW c \in Threads, ThreadStep(c)
      PROVE  InfoInv'
  <2>1. CASE \E p \in Phones, u \in Users : Login(c, p, u)
    BY <2>1, SessionSteps
  <2>2. CASE \E p \in Phones, op \in DOMAIN FirstStage : Take(c, p, op)
    BY <2>2, TakeStep
  <2> QED
    BY <1>1, <2>1, <2>2, GetsHolderStep, HdelsOldStep, HsetsStep, ExpireStep,
       SetsHolderStep, AlarmOnStep, AlarmOffStep, EndStep DEF ThreadStep
<1>2. ASSUME NEW p \in Phones, SessionExpires(p)
      PROVE  InfoInv'
  BY <1>2 DEF SessionExpires, InfoInv, ClientInfoTypeOK, JobInv, PhoneInv, PhoneOf, FlagInv,
     FlagHasPhone, QuietInv, Busy
<1> QED
  BY <1>1, <1>2, ExpiryStep DEF ClientInfoNext

-----------------------------------------------------------------------------
(* The alarms on their way.                                                *)

Hands == [at : {"idle", "flag", "push", "answer"}, alarm : 0 .. MaxAlarms,
          i : 0 .. Len(Owners) + 1, flag : {"on", "off", Nil},
          answer : {"SUCCESS", "error"}, quiet : SUBSET Users, due : SUBSET Users]

\* One alarm on its way: the owners that are due are still to come in the list
\* of owners, and have alarms on; who is quiet here is quiet.
HandOK(r) ==
    /\ r.at \in {"flag", "push"} => r.i \in 1 .. Len(Owners)
    /\ r.at \in {"flag", "push"} =>
          \A u \in r.due : \E j \in r.i .. Len(Owners) : Owners[j] = u
    /\ r.at = "push" /\ r.flag = "on" => Owners[r.i] \notin r.quiet
    /\ r.at = "push" /\ r.flag # "on" => Owners[r.i] \notin r.due
    /\ r.at = "answer" /\ r.answer = "SUCCESS" => r.due = {}
    /\ r.at # "idle" => r.alarm \in AlarmIds
    /\ r.quiet \subseteq quiet
    /\ \A u \in r.due : info[u].flag = "on"

HandInv ==
    /\ hand \in [Handlers -> Hands]
    /\ \A h \in Handlers : HandOK(hand[h])

Inv == InfoInv /\ HandInv

LEMMA KeepsInfo ==
    ASSUME InfoInv, KeepInfo, UNCHANGED fails \/ RedisFails
    PROVE  InfoInv'
<1>1. fails' \in 0 .. MaxFails
  BY ClientInfoAssumption DEF InfoInv, ClientInfoTypeOK, RedisFails
<1>2. ClientInfoTypeOK'
  BY <1>1 DEF InfoInv, ClientInfoTypeOK, KeepInfo
<1> QED
  BY <1>2 DEF KeepInfo, InfoInv, JobInv, PhoneInv, PhoneOf, FlagInv, FlagHasPhone, QuietInv, Busy

\* A worker whose alarm goes on as it may.
LEMMA OneHand ==
    ASSUME Inv, NEW h \in Handlers, NEW r \in Hands, HandOK(r),
           hand' = [hand EXCEPT ![h] = r], KeepInfo
    PROVE  HandInv'
<1>1. hand' \in [Handlers -> Hands]
      /\ \A g \in Handlers : hand'[g] = IF g = h THEN r ELSE hand[g]
  BY DEF Inv, HandInv
<1>2. \A g \in Handlers : HandOK(hand'[g])
  BY <1>1 DEF Inv, HandInv
<1> QED
  BY <1>1, <1>2 DEF HandInv, HandOK, KeepInfo

LEMMA ComesStep ==
    ASSUME Inv, NEW h \in Handlers, NEW a \in AlarmIds, AlarmComes(h, a)
    PROVE  HandInv'
<1>1. PICK told \in BOOLEAN :
          hand' = [hand EXCEPT ![h] =
              [at |-> IF told /\ Owners # <<>> THEN "flag" ELSE "answer",
               alarm |-> a, i |-> 1, flag |-> Nil,
               answer |-> IF told THEN "SUCCESS" ELSE "error", quiet |-> quiet,
               due |-> {u \in ToSet(Owners) : info[u].flag = "on"}]]
  BY DEF AlarmComes
<1> DEFINE at == IF told /\ Owners # <<>> THEN "flag" ELSE "answer"
           answer == IF told THEN "SUCCESS" ELSE "error"
           due == {u \in ToSet(Owners) : info[u].flag = "on"}
           r == [at |-> at, alarm |-> a, i |-> 1, flag |-> Nil, answer |-> answer,
                 quiet |-> quiet, due |-> due]
<1>2. ToSet(Owners) = {Owners[j] : j \in 1 .. Len(Owners)} /\ Len(Owners) \in Nat
  BY AlarmsAssumption DEF ToSet
<1>3. due \subseteq Users
  BY <1>2, AlarmsAssumption
<1>4. r \in Hands
  <2>1. at \in {"idle", "flag", "push", "answer"} /\ answer \in {"SUCCESS", "error"}
    OBVIOUS
  <2>2. 1 \in 0 .. Len(Owners) + 1 /\ a \in 0 .. MaxAlarms /\ quiet \subseteq Users
    BY <1>2, AlarmsAssumption DEF AlarmIds, Inv, InfoInv, ClientInfoTypeOK
  <2> HIDE DEF at, answer, due
  <2> QED
    BY <1>3, <2>1, <2>2 DEF Hands
<1>5. HandOK(r)
  <2>1. at = "flag" => 1 \in 1 .. Len(Owners)
    BY <1>2, AlarmsAssumption
  <2>2. \A u \in due : \E j \in 1 .. Len(Owners) : Owners[j] = u
    BY <1>2
  <2>3. at = "answer" /\ answer = "SUCCESS" => due = {}
    BY <1>2
  <2>4. at # "push" /\ \A u \in due : info[u].flag = "on"
    OBVIOUS
  <2> HIDE DEF at, answer, due
  <2> QED
    BY <2>1, <2>2, <2>3, <2>4 DEF HandOK
<1>6. hand' = [hand EXCEPT ![h] = r] /\ KeepInfo
  BY <1>1 DEF AlarmComes
<1> HIDE DEF r
<1> QED
  BY <1>4, <1>5, <1>6, OneHand

LEMMA ReadsStep ==
    ASSUME Inv, NEW h \in Handlers, ReadsFlag(h)
    PROVE  HandInv'
<1>1. hand[h] \in Hands /\ HandOK(hand[h]) /\ hand[h].at = "flag" /\ KeepInfo
  BY DEF Inv, HandInv, ReadsFlag
<1> DEFINE u == Owners[hand[h].i]
           r == [hand[h] EXCEPT !.at = "push", !.flag = info[u].flag]
           e == [hand[h] EXCEPT !.at = "answer", !.answer = "error"]
<1>2. u \in Users
  BY <1>1, AlarmsAssumption DEF HandOK
<1>3. info[u].flag \in {"on", "off", Nil}
  BY <1>2 DEF Inv, InfoInv, ClientInfoTypeOK
<1>4. r \in Hands /\ e \in Hands
  BY <1>1, <1>3 DEF Hands
<1>5. r.at = "push" /\ r.flag = info[u].flag /\ r.i = hand[h].i
      /\ r.quiet = hand[h].quiet /\ r.due = hand[h].due /\ r.alarm = hand[h].alarm
  BY <1>1 DEF Hands
<1>6. HandOK(r)
  <2>1. r.flag = "on" => u \notin r.quiet
    BY <1>1, <1>5 DEF HandOK, Inv, InfoInv, QuietInv
  <2>2. r.flag # "on" => u \notin r.due
    BY <1>1, <1>5 DEF HandOK
  <2> HIDE DEF r
  <2> QED
    BY <1>1, <1>5, <2>1, <2>2 DEF HandOK
<1>7. HandOK(e)
  <2>1. e.at = "answer" /\ e.answer = "error" /\ e.quiet = hand[h].quiet /\ e.due = hand[h].due
        /\ e.alarm = hand[h].alarm
    BY <1>1 DEF Hands
  <2> HIDE DEF e
  <2> QED
    BY <1>1, <2>1 DEF HandOK
<1>8. hand' = [hand EXCEPT ![h] = r] \/ hand' = [hand EXCEPT ![h] = e]
  BY DEF ReadsFlag
<1> HIDE DEF r, e
<1> QED
  BY <1>1, <1>4, <1>6, <1>7, <1>8, OneHand

\* The next turn of the loop, when nobody that is due is left behind.
LEMMA NextTurn ==
    ASSUME Inv, NEW r \in Hands, r.at = "push", r.i \in 1 .. Len(Owners),
           \A u \in r.due : \E j \in r.i .. Len(Owners) : Owners[j] = u,
           Owners[r.i] \notin r.due, r.quiet \subseteq quiet, r.alarm \in AlarmIds,
           \A u \in r.due : info[u].flag = "on"
    PROVE  After(r) \in Hands /\ HandOK(After(r))
<1> DEFINE at == IF r.i < Len(Owners) THEN "flag" ELSE "answer"
<1>1. Len(Owners) \in Nat
  BY AlarmsAssumption
<1>2. After(r) = [r EXCEPT !.at = at, !.i = r.i + 1]
  BY DEF After
<1>3. at \in {"flag", "answer"} /\ r.i + 1 \in 0 .. Len(Owners) + 1
      /\ (at = "flag" => r.i + 1 \in 1 .. Len(Owners)) /\ (at = "answer" => r.i = Len(Owners))
  BY <1>1
<1>4. \A u \in r.due : \E j \in r.i + 1 .. Len(Owners) : Owners[j] = u
  <2> SUFFICES ASSUME NEW u \in r.due
               PROVE  \E j \in r.i + 1 .. Len(Owners) : Owners[j] = u
    OBVIOUS
  <2>1. PICK j \in r.i .. Len(Owners) : Owners[j] = u
    OBVIOUS
  <2>2. j # r.i
    BY <2>1
  <2>3. j \in r.i + 1 .. Len(Owners)
    BY <1>1, <2>2
  <2> QED
    BY <2>1, <2>3
<1>5. at = "answer" => r.due = {}
  BY <1>1, <1>3, <1>4
<1> HIDE DEF at
<1>6. After(r) \in Hands
  BY <1>2, <1>3 DEF Hands
<1>7. After(r).at = at /\ After(r).i = r.i + 1 /\ After(r).quiet = r.quiet /\ After(r).due = r.due
      /\ After(r).alarm = r.alarm
  BY <1>2 DEF Hands
<1> QED
  BY <1>3, <1>4, <1>5, <1>6, <1>7 DEF HandOK

LEMMA PushStep ==
    ASSUME Inv, NEW h \in Handlers, Push(h)
    PROVE  HandInv'
<1> DEFINE r == hand[h]
           u == Owners[r.i]
           d == [r EXCEPT !.due = @ \ {u}]
           e == [r EXCEPT !.at = "answer", !.answer = "error"]
<1>1. r \in Hands /\ HandOK(r) /\ r.at = "push" /\ KeepInfo
  BY DEF Inv, HandInv, Push
<1>2. CASE r.flag # "on" /\ hand' = [hand EXCEPT ![h] = After(r)]
  <2>1. After(r) \in Hands /\ HandOK(After(r))
    BY <1>1, <1>2, NextTurn DEF HandOK
  <2> QED
    BY <1>1, <1>2, <2>1, OneHand
<1>3. CASE hand' = [hand EXCEPT ![h] = After(d)]
  <2>1. d \in Hands
    BY <1>1 DEF Hands
  <2>2. d.at = "push" /\ d.i = r.i /\ d.quiet = r.quiet /\ d.due = r.due \ {u} /\ d.alarm = r.alarm
    BY <1>1 DEF Hands
  <2> HIDE DEF d
  <2>3. After(d) \in Hands /\ HandOK(After(d))
    <3>1. d.i \in 1 .. Len(Owners) /\ Owners[d.i] \notin d.due /\ d.quiet \subseteq quiet
          /\ d.alarm \in AlarmIds
      BY <1>1, <2>2 DEF HandOK
    <3>2. \A v \in d.due : \E j \in d.i .. Len(Owners) : Owners[j] = v
      BY <1>1, <2>2 DEF HandOK
    <3>3. \A v \in d.due : info[v].flag = "on"
      BY <1>1, <2>2 DEF HandOK
    <3> QED
      BY <2>1, <2>2, <3>1, <3>2, <3>3, NextTurn
  <2> QED
    BY <1>1, <1>3, <2>3, OneHand
<1>4. CASE hand' = [hand EXCEPT ![h] = e]
  <2>1. e \in Hands
    BY <1>1 DEF Hands
  <2>2. e.at = "answer" /\ e.answer = "error" /\ e.quiet = r.quiet /\ e.due = r.due
        /\ e.alarm = r.alarm
    BY <1>1 DEF Hands
  <2> HIDE DEF e
  <2>3. HandOK(e)
    BY <1>1, <2>2 DEF HandOK
  <2> QED
    BY <1>1, <1>4, <2>1, <2>3, OneHand
<1> QED
  BY <1>2, <1>3, <1>4 DEF Push

LEMMA AnswerStep ==
    ASSUME Inv, NEW h \in Handlers, Answer(h)
    PROVE  HandInv'
<1>1. NoHand \in Hands
  BY AlarmsAssumption DEF NoHand, Hands
<1>2. HandOK(NoHand)
  BY DEF NoHand, HandOK
<1> QED
  BY <1>1, <1>2, OneHand DEF Answer

LEMMA InfoHands ==
    ASSUME Inv, InfoStep
    PROVE  HandInv'
<1> DEFINE q(h) == hand[h].quiet \cap quiet'
           d(h) == {u \in hand[h].due : info'[u].flag = "on"}
<1>1. \A h \in Handlers : hand'[h] = [hand[h] EXCEPT !.quiet = q(h), !.due = d(h)]
  BY DEF InfoStep
<1>2. \A h \in Handlers : hand[h] \in Hands /\ HandOK(hand[h])
  BY DEF Inv, HandInv
<1>3. ASSUME NEW h \in Handlers
      PROVE  hand'[h] \in Hands
  <2>1. hand[h] \in Hands
    BY <1>2
  <2>2. q(h) \in SUBSET Users /\ d(h) \in SUBSET Users
    BY <2>1 DEF Hands
  <2>3. hand'[h] = [hand[h] EXCEPT !.quiet = q(h), !.due = d(h)]
    BY <1>1
  <2> HIDE DEF q, d
  <2> QED
    BY <2>1, <2>2, <2>3 DEF Hands
<1>4. hand' \in [Handlers -> Hands]
  BY <1>3 DEF InfoStep
<1>5. \A h \in Handlers :
          /\ hand'[h].at = hand[h].at /\ hand'[h].i = hand[h].i
          /\ hand'[h].flag = hand[h].flag /\ hand'[h].answer = hand[h].answer
          /\ hand'[h].quiet = q(h) /\ hand'[h].due = d(h) /\ hand'[h].alarm = hand[h].alarm
  BY <1>1, <1>2 DEF Hands
<1>6. \A h \in Handlers : q(h) \subseteq hand[h].quiet /\ q(h) \subseteq quiet'
          /\ d(h) \subseteq hand[h].due /\ \A u \in d(h) : info'[u].flag = "on"
  OBVIOUS
<1>7. ASSUME NEW h \in Handlers
      PROVE  HandOK(hand[h])'
  <2> DEFINE k == q(h)
             o == d(h)
  <2>1. k \subseteq hand[h].quiet /\ k \subseteq quiet'
        /\ o \subseteq hand[h].due /\ \A u \in o : info'[u].flag = "on"
    BY <1>6
  <2>2. /\ hand'[h].at = hand[h].at /\ hand'[h].i = hand[h].i
        /\ hand'[h].flag = hand[h].flag /\ hand'[h].answer = hand[h].answer
        /\ hand'[h].quiet = k /\ hand'[h].due = o /\ hand'[h].alarm = hand[h].alarm
    BY <1>5
  <2>3. HandOK(hand[h])
    BY <1>2
  <2> HIDE DEF k, o
  <2> QED
    BY <2>1, <2>2, <2>3 DEF HandOK
<1> QED
  BY <1>4, <1>7 DEF HandInv

LEMMA InitInv == Init => Inv
<1> SUFFICES ASSUME Init PROVE Inv
  OBVIOUS
<1>1. InfoInv
  BY InitInfo DEF Init
<1>2. NoHand \in Hands /\ HandOK(NoHand)
  BY AlarmsAssumption DEF NoHand, Hands, HandOK
<1> QED
  BY <1>1, <1>2 DEF Init, Inv, HandInv

LEMMA NextInv == Inv /\ [Next]_vars => Inv'
<1> SUFFICES ASSUME Inv, [Next]_vars PROVE Inv'
  OBVIOUS
<1>1. CASE UNCHANGED vars
  <2>1. UNCHANGED <<session, info, holder, job, asked, fails, odd, mixed, quiet, hand>>
    BY <1>1 DEF vars, infoVars, alarmVars
  <2>2. InfoInv'
    BY <2>1, KeepsInfo DEF Inv, KeepInfo
  <2> QED
    BY <2>1, <2>2 DEF Inv, HandInv, HandOK
<1>2. CASE InfoStep
  <2>1. InfoInv'
    BY <1>2, InfoNext DEF Inv, InfoStep
  <2> QED
    BY <1>2, <2>1, InfoHands DEF Inv
<1>3. ASSUME NEW h \in Handlers, HandlerStep(h)
      PROVE  Inv'
  <2>1. KeepInfo /\ (UNCHANGED fails \/ RedisFails)
    BY <1>3 DEF HandlerStep, AlarmComes, ReadsFlag, Push, Answer
  <2>2. HandInv'
    BY <1>3, ComesStep, ReadsStep, PushStep, AnswerStep DEF HandlerStep
  <2> QED
    BY <2>1, <2>2, KeepsInfo DEF Inv
<1>4. CASE DelStep
  <2>1. KeepInfo /\ (UNCHANGED fails \/ RedisFails) /\ UNCHANGED hand
    BY <1>4 DEF DelStep, DelFinds, DelRem, GetsSession
  <2>2. InfoInv'
    BY <2>1, KeepsInfo DEF Inv
  <2> QED
    BY <2>1, <2>2 DEF Inv, HandInv, HandOK, KeepInfo
<1> QED
  BY <1>1, <1>2, <1>3, <1>4 DEF Next

\* The threads of accountLogic, and the alarms on their way, are always as Inv says.
THEOREM InvHolds == Spec => []Inv
BY InitInv, NextInv, PTL DEF Spec

-----------------------------------------------------------------------------
(* What follows.                                                           *)

\* A phone is one user's, whatever the threads of accountLogic do to each
\* other and wherever a report that succeeds meets another.
THEOREM OneHolderHolds == Spec => []OneHolder
<1>1. Inv => OneHolder
  <2> SUFFICES ASSUME Inv, NEW u \in Users, NEW v \in Users, info[u].mobile # Nil,
                      info[u].mobile \notin odd, info[u].mobile = info[v].mobile
               PROVE  u = v
    BY DEF OneHolder
  <2> DEFINE p == info[u].mobile
  <2>1. p \in Phones \ odd
    BY DEF Inv, InfoInv, ClientInfoTypeOK
  <2>2. PhoneOf(p)
    BY <2>1 DEF Inv, InfoInv, PhoneInv
  <2>3. CASE \E c \in Threads : job[c].phone = p /\ job[c].at \in Taken
    BY <2>2, <2>3 DEF PhoneOf
  <2>4. CASE \A c \in Threads : job[c].phone = p => job[c].at \notin Taken
    BY <2>2, <2>4 DEF PhoneOf
  <2> QED
    BY <2>3, <2>4
<1> QED
  BY <1>1, InvHolds, PTL

\* Who has alarms on has a phone for them, at every moment of a request and
\* after every failure.
THEOREM FlagHasPhoneHolds == Spec => []FlagHasPhone
<1>1. Inv => FlagHasPhone
  BY DEF Inv, InfoInv, FlagInv
<1> QED
  BY <1>1, InvHolds, PTL

\* Nobody who was told that alarms are off gets one that comes later.
THEOREM OffMeansOffHolds == Spec => []OffMeansOff
<1>1. Inv => OffMeansOff
  BY DEF Inv, HandInv, HandOK, OffMeansOff
<1> QED
  BY <1>1, InvHolds, PTL

\* SUCCESS leaves out no owner who has had alarms on all the time.
THEOREM RecordedHolds == Spec => []Recorded
<1>1. Inv => Recorded
  BY DEF Inv, HandInv, HandOK, Recorded
<1> QED
  BY <1>1, InvHolds, PTL

-----------------------------------------------------------------------------
(* LRem, and the types of the lists, for any length of them.               *)

\* LRem leaves what it is not asked to remove, all of it and in the old order:
\* place says where in the list the entries that are left were.
THEOREM WithoutRight ==
    ASSUME NEW S, NEW s \in Seq(S), NEW a
    PROVE  LET t == Without(s, a) IN
           /\ t \in Seq(S)
           /\ \E place \in [1 .. Len(t) -> 1 .. Len(s)] :
                 /\ \A k \in 1 .. Len(t) : t[k] = s[place[k]] /\ t[k] # a
                 /\ \A k, l \in 1 .. Len(t) : k < l => place[k] < place[l]
                 /\ \A i \in 1 .. Len(s) : s[i] # a => \E k \in 1 .. Len(t) : place[k] = i
<1> DEFINE kept == {i \in DOMAIN s : s[i] # a}
           Rank(i) == Cardinality({j \in kept : j <= i})
           n == Cardinality(kept)
           place == [k \in 1 .. n |-> CHOOSE i \in kept : Rank(i) = k]
           t == Without(s, a)
<1>1. Len(s) \in Nat /\ DOMAIN s = 1 .. Len(s) /\ \A i \in 1 .. Len(s) : s[i] \in S
  BY LenProperties
<1>2. kept \subseteq 1 .. Len(s)
  BY <1>1
<1>3. IsFiniteSet(kept) /\ n \in Nat
  <2> HIDE DEF kept
  <2>1. IsFiniteSet(1 .. Len(s))
    BY <1>1, FS_Interval
  <2> QED
    BY <1>2, <2>1, FS_Subset, FS_CardinalityType
\* An entry that is kept later has a higher rank.
<1>4. ASSUME NEW i \in kept
      PROVE  Rank(i) \in 1 .. n /\ \A h \in kept : h < i => Rank(h) < Rank(i)
  <2> DEFINE upto(h) == {j \in kept : j <= h}
  <2>1. IsFiniteSet(upto(i)) /\ Rank(i) <= n /\ Rank(i) \in Nat
    BY <1>3, FS_Subset, FS_CardinalityType
  <2>2. Rank(i) # 0
    <3>1. i \in upto(i)
      BY <1>1, <1>2
    <3> QED
      BY <2>1, <3>1, FS_EmptySet
  <2>3. ASSUME NEW h \in kept, h < i
        PROVE  Rank(h) < Rank(i)
    <3>1. upto(h) \in SUBSET upto(i) /\ i \in upto(i) /\ i \notin upto(h)
      BY <1>1, <1>2, <2>3
    <3>2. IsFiniteSet(upto(h)) /\ Rank(h) <= Rank(i) /\ Rank(h) # Rank(i)
      BY <2>1, <3>1, FS_Subset
    <3>3. Rank(h) \in Nat
      BY <3>2, FS_CardinalityType
    <3> QED
      BY <2>1, <3>2, <3>3
  <2> HIDE DEF Rank
  <2> QED
    BY <1>3, <2>1, <2>2, <2>3
\* So the ranks are all of 1 .. n: each rank is an entry's.
<1>5. \A k \in 1 .. n : \E i \in kept : Rank(i) = k
  <2> DEFINE rank == [i \in kept |-> Rank(i)]
  <2> HIDE DEF Rank
  <2>1. rank \in [kept -> 1 .. n]
    BY <1>4
  <2>2. \A i, h \in kept : rank[i] = rank[h] => i = h
    <3> SUFFICES ASSUME NEW i \in kept, NEW h \in kept, i # h PROVE rank[i] # rank[h]
      OBVIOUS
    <3>1. i < h \/ h < i
      BY <1>1, <1>2
    <3>2. Rank(i) \in Nat /\ Rank(h) \in Nat
      BY <1>3, <1>4
    <3>3. (i < h => Rank(i) < Rank(h)) /\ (h < i => Rank(h) < Rank(i))
      BY <1>4
    <3> QED
      BY <3>1, <3>2, <3>3
  <2>3. rank \in Injection(kept, 1 .. n)
    BY <2>1, <2>2 DEF Injection, IsInjective
  <2>4. IsFiniteSet(1 .. n) /\ Cardinality(1 .. n) = n
    BY <1>3, FS_Interval
  <2>5. rank \in Surjection(kept, 1 .. n)
    BY <2>3, <2>4, FS_Injection
  <2> QED
    BY <2>1, <2>5 DEF Surjection
<1>6. \A k \in 1 .. n : place[k] \in kept /\ Rank(place[k]) = k
  <2> HIDE DEF Rank, kept
  <2> QED
    BY <1>5
<1>7. t = [k \in 1 .. n |-> s[place[k]]]
  BY DEF Without
<1>8. t \in Seq(S) /\ Len(t) = n
  <2>1. \A k \in 1 .. n : s[place[k]] \in S
    BY <1>1, <1>2, <1>6
  <2> HIDE DEF place, n, t
  <2> QED
    BY <1>3, <1>7, <2>1
<1>9. place \in [1 .. Len(t) -> 1 .. Len(s)]
  BY <1>2, <1>6, <1>8
<1>10. \A k \in 1 .. Len(t) : t[k] = s[place[k]] /\ t[k] # a
  <2>1. \A i \in kept : s[i] # a
    OBVIOUS
  <2>2. \A k \in 1 .. n : place[k] \in kept
    BY <1>6
  <2> HIDE DEF kept, place, n, t
  <2> QED
    BY <1>7, <1>8, <2>1, <2>2
<1>11. ASSUME NEW k \in 1 .. Len(t), NEW l \in 1 .. Len(t), k < l
       PROVE  place[k] < place[l]
  <2>1. place[k] \in kept /\ place[l] \in kept /\ Rank(place[k]) = k /\ Rank(place[l]) = l
    BY <1>6, <1>8
  <2>2. place[l] < place[k] => Rank(place[l]) < Rank(place[k])
    <3> HIDE DEF place, Rank, kept
    <3> QED
      BY <1>4, <2>1
  <2>3. place[k] # place[l]
    <3> HIDE DEF place, Rank, n, t
    <3> QED
      BY <2>1, <1>3, <1>8, <1>11
  <2>4. place[k] \in Int /\ place[l] \in Int
    BY <1>1, <1>2, <2>1
  <2> HIDE DEF place, Rank
  <2> QED
    BY <1>3, <1>8, <1>11, <2>1, <2>2, <2>3, <2>4
<1>12. ASSUME NEW i \in 1 .. Len(s), s[i] # a
       PROVE  \E k \in 1 .. Len(t) : place[k] = i
  <2>1. i \in kept
    BY <1>1, <1>12
  <2> DEFINE k == Rank(i)
  <2>2. k \in 1 .. n /\ k \in Nat
    <3> HIDE DEF Rank, kept, n
    <3> QED
      BY <1>3, <1>4, <2>1
  <2>3. place[k] \in kept /\ Rank(place[k]) = k
    BY <1>6, <2>2
  <2>4. (place[k] < i => Rank(place[k]) < Rank(i)) /\ (i < place[k] => Rank(i) < Rank(place[k]))
    <3> HIDE DEF place, Rank, kept
    <3> QED
      BY <1>4, <2>1, <2>3
  <2>5. place[k] \in Int /\ i \in Int
    BY <1>1, <1>2, <2>3
  <2>6. place[k] = i
    <3> HIDE DEF place, Rank
    <3> QED
      BY <2>2, <2>3, <2>4, <2>5
  <2> QED
    BY <1>8, <2>2, <2>6
<1> QED
  BY <1>8, <1>9, <1>10, <1>11, <1>12

RestTypeOK ==
    /\ list \in [Users -> Seq(AlarmIds)]
    /\ del \in [user : Users \cup {Nil}, alarm : 0 .. MaxAlarms]
    /\ sends \in 0 .. MaxSends
    /\ open \subseteq AlarmIds

\* The list with an alarm at its head, and the oldest ones off, is a list.
LEMMA PushedType ==
    ASSUME NEW s \in Seq(AlarmIds), NEW a \in AlarmIds
    PROVE  Pushed(s, a) \in Seq(AlarmIds)
<1> DEFINE t == <<a>> \o s
           surplus == LLen(t) - ListLen
<1>1. t \in Seq(AlarmIds) /\ Len(t) \in Nat
  OBVIOUS
<1>2. surplus \in Int
  BY AlarmsAssumption DEF LLen
<1> HIDE DEF t, surplus
<1>3. surplus > 0 => SubSeq(t, surplus + 1, Len(t)) \in Seq(AlarmIds)
  BY <1>1, <1>2, SubSeqProperties, LenProperties
<1> QED
  BY <1>1, <1>3 DEF Pushed, t, surplus

LEMMA RestStep ==
    ASSUME Inv, RestTypeOK, [Next]_vars
    PROVE  RestTypeOK'
<1> USE AlarmsAssumption DEF RestTypeOK
<1>1. CASE UNCHANGED vars
  BY <1>1 DEF vars, alarmVars
<1>2. CASE InfoStep
  BY <1>2 DEF InfoStep
<1>3. ASSUME NEW h \in Handlers, NEW a \in AlarmIds, AlarmComes(h, a)
      PROVE  RestTypeOK'
  BY <1>3 DEF AlarmComes
<1>4. ASSUME NEW h \in Handlers, ReadsFlag(h)
      PROVE  RestTypeOK'
  BY <1>4 DEF ReadsFlag
<1>5. ASSUME NEW h \in Handlers, Push(h)
      PROVE  RestTypeOK'
  <2> DEFINE u == Owners[hand[h].i]
             pushed == Pushed(list[u], hand[h].alarm)
  <2>1. UNCHANGED <<del, sends, open>>
    BY <1>5 DEF Push
  <2>2. CASE UNCHANGED list
    BY <2>1, <2>2
  <2>3. CASE list' = [list EXCEPT ![u] = pushed]
    <3>1. hand[h].i \in 1 .. Len(Owners)
      BY <1>5 DEF Push, Inv, HandInv, HandOK
    <3>2. u \in Users /\ list[u] \in Seq(AlarmIds)
      BY <3>1
    <3>3. hand[h].alarm \in AlarmIds
      BY <1>5 DEF Push, Inv, HandInv, HandOK
    <3>4. pushed \in Seq(AlarmIds)
      BY <3>2, <3>3, PushedType
    <3> HIDE DEF pushed, u
    <3> QED
      BY <2>1, <2>3, <3>4
  <2> QED
    BY <1>5, <2>2, <2>3 DEF Push
<1>6. ASSUME NEW h \in Handlers, Answer(h)
      PROVE  RestTypeOK'
  BY <1>6 DEF Answer
<1>7. ASSUME NEW p \in Phones, NEW a \in AlarmIds, DelFinds(p, a)
      PROVE  RestTypeOK'
  <2>1. PICK u \in Users \cup {Nil} : del' = [user |-> u, alarm |-> a]
    BY <1>7 DEF DelFinds, GetsSession, Inv, InfoInv, ClientInfoTypeOK
  <2> QED
    BY <1>7, <2>1 DEF DelFinds, AlarmIds
<1>8. CASE DelRem
  <2>1. UNCHANGED <<sends, open>> /\ del' = NoDel
    BY <1>8 DEF DelRem
  <2>2. CASE UNCHANGED list
    BY <2>1, <2>2 DEF NoDel
  <2>3. CASE list' = [list EXCEPT ![del.user] = Without(@, del.alarm)]
    <3>1. ASSUME del.user \in Users
          PROVE  Without(list[del.user], del.alarm) \in Seq(AlarmIds)
      BY <3>1, WithoutRight
    <3> DEFINE w == Without(list[del.user], del.alarm)
    <3> HIDE DEF w
    <3>2. list' = [list EXCEPT ![del.user] = w] /\ (del.user \in Users => w \in Seq(AlarmIds))
      BY <2>3, <3>1 DEF w
    <3>3. list' \in [Users -> Seq(AlarmIds)]
      BY <3>2
    <3> QED
      BY <2>1, <3>3 DEF NoDel
  <2> QED
    BY <1>8, <2>2, <2>3 DEF DelRem
<1> QED
  BY <1>1, <1>2, <1>3, <1>4, <1>5, <1>6, <1>7, <1>8 DEF Next, HandlerStep, DelStep

\* Every reachable state of the alarms is well typed: the lists are of alarms,
\* however they are trimmed and whatever is removed from them.
THEOREM TypeCorrect == Spec => []TypeOK
<1>1. Init => RestTypeOK
  BY AlarmsAssumption DEF Init, RestTypeOK, NoDel, AlarmIds
<1>2. Inv /\ RestTypeOK /\ [Next]_vars => RestTypeOK'
  BY RestStep
<1>3. Inv /\ RestTypeOK => TypeOK
  BY DEF Inv, InfoInv, HandInv, Hands, RestTypeOK, TypeOK
<1> QED
  BY <1>1, <1>2, <1>3, InvHolds, PTL DEF Spec
=============================================================================
