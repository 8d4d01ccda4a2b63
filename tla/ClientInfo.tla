----------------------------- MODULE ClientInfo -----------------------------
(***************************************************************************)
(* The part of accountLogic that keeps in redis who is logged in on which  *)
(* phone: the sessions, and for every user the hash clientLoginInfo with   *)
(* the phone its alarms are for and whether it wants them.  The threads of *)
(* accountLogic each take one request at a time and work on redis command  *)
(* by command; a thread's CLogicOperate, with username_, outlives the      *)
(* request.                                                                *)
(*                                                                         *)
(* A phone waits for the answer to a request before it sends the next one. *)
(* A session is named by the phone that holds it: a login on the phone     *)
(* replaces it, and nobody asks for the old one any more.                  *)
(***************************************************************************)
EXTENDS Integers, FiniteSets

CONSTANTS
    Users,      \* the accounts
    Phones,     \* the phones, each with its mobile id
    Threads,    \* the consumer threads of accountLogic
    Nil,        \* no user, no phone; the empty string where the code has one
    MaxAsked,   \* bound: requests to accountLogic other than logins
    MaxFails    \* bound: redis commands that fail

ASSUME ClientInfoAssumption ==
    /\ Nil \notin Users \cup Phones
    /\ Nil \notin {"on", "off"}
    /\ MaxAsked \in Nat
    /\ MaxFails \in Nat

VARIABLES
    session,    \* redis: the user of the session a phone holds
    info,       \* redis: clientLoginInfo of each user, its alarm flag and phone
    holder,     \* redis: the user a mobile id was last reported for
    job,        \* what each thread works on
    asked,      \* how many requests there have been beside logins (bounded)
    fails,      \* how many redis commands have failed (bounded)
    odd,        \* history: phones a report has failed for, or that were given in a
                \* SetCurrentAlarmFlag by a user who had not reported them
    mixed,      \* history: users with two requests at once, a hash that expired
                \* in the middle of one, or a phone taken over
    quiet       \* history: users told that alarms are off and not asking for them since

infoVars == <<session, info, holder, job, asked, fails, odd, mixed, quiet>>

Stages == {"idle", "getHolder", "hdelOld", "hsetMobile", "expire", "setHolder",
           "onMobile", "onFlag", "offFlag", "offMobile", "del"}
IdleJob(u) == [at |-> "idle", phone |-> Nil, user |-> u, old |-> Nil]
NoInfo == [flag |-> Nil, mobile |-> Nil]

ClientInfoTypeOK ==
    /\ session \in [Phones -> Users \cup {Nil}]
    /\ info \in [Users -> [flag : {"on", "off", Nil}, mobile : Phones \cup {Nil}]]
    /\ holder \in [Phones -> Users \cup {Nil}]
    /\ job \in [Threads -> [at : Stages, phone : Phones \cup {Nil},
                            user : Users \cup {Nil}, old : Users \cup {Nil}]]
    /\ asked \in 0 .. MaxAsked
    /\ fails \in 0 .. MaxFails
    /\ odd \subseteq Phones
    /\ mixed \subseteq Users
    /\ quiet \subseteq Users

ClientInfoInit ==
    /\ session = [p \in Phones |-> Nil]
    /\ info = [u \in Users |-> NoInfo]
    /\ holder = [p \in Phones |-> Nil]
    /\ job = [c \in Threads |-> IdleJob(Nil)]
    /\ asked = 0
    /\ fails = 0
    /\ odd = {}
    /\ mixed = {}
    /\ quiet = {}

-----------------------------------------------------------------------------
Busy(c) == job[c].at # "idle"
Free(c, p) == ~Busy(c) /\ \A d \in Threads : Busy(d) => job[d].phone # p
Ask == asked < MaxAsked /\ asked' = asked + 1
RedisFails == fails < MaxFails /\ fails' = fails + 1
Goto(c, stage) == job' = [job EXCEPT ![c] = [@ EXCEPT !.at = stage]]
Done(c) == job' = [job EXCEPT ![c] = IdleJob(job[c].user)]
\* The empty user name has a hash of its own, that nobody reads.
SetMobile(u, m) == IF u = Nil THEN info ELSE [info EXCEPT ![u] = [@ EXCEPT !.mobile = m]]
SetFlag(u, f) == IF u = Nil THEN info ELSE [info EXCEPT ![u] = [@ EXCEPT !.flag = f]]

\* UserLogin with the right password: the session is Set, and it may be that
\* Expire fails, which is only logged.  username_ is left as it is.
Login(c, p, u) ==
    /\ Free(c, p)
    /\ session' = [session EXCEPT ![p] = u]
    /\ UNCHANGED <<info, holder, job, asked, fails, odd, mixed, quiet>>

\* The session is over: its key has expired.
SessionExpires(p) ==
    /\ session[p] # Nil
    /\ session' = [session EXCEPT ![p] = Nil]
    /\ UNCHANGED <<info, holder, job, asked, fails, odd, mixed, quiet>>

\* Seven days after the last report.
InfoExpires(u) ==
    /\ info[u] # NoInfo
    /\ info' = [info EXCEPT ![u] = NoInfo]
    /\ mixed' = IF \E c \in Threads : Busy(c) /\ job[c].user = u THEN mixed \cup {u} ELSE mixed
    /\ UNCHANGED <<session, holder, job, asked, fails, odd, quiet>>

\* StartLogicOpt: whether Get finds the session; it says no when it fails, too.
GetsSession(p, found) ==
    \/ found = (session[p] # Nil) /\ UNCHANGED fails
    \/ session[p] # Nil /\ ~found /\ RedisFails

FirstStage == [report |-> "getHolder", on |-> "onMobile", off |-> "offFlag", logout |-> "del"]

\* StartLogicOpt up to the handler.  Without a session username_ stays that
\* of the thread's last request, and ReportClientPlatformInfo, which does not
\* ask SessionNotExist, goes on with it; the others answer SESSION_NOT_EXSIT.
Take(c, p, op) ==
    /\ Free(c, p)
    /\ Ask
    /\ \E found \in BOOLEAN :
        LET u == IF found THEN session[p] ELSE job[c].user
            goesOn == found \/ op = "report"
        IN
        /\ GetsSession(p, found)
        /\ job' = [job EXCEPT ![c] = IF ~goesOn THEN IdleJob(u)
                   ELSE [at |-> FirstStage[op], phone |-> p, user |-> u, old |-> Nil]]
        /\ mixed' = IF goesOn /\ u # Nil /\ \E d \in Threads : Busy(d) /\ job[d].user = u
                    THEN mixed \cup {u} ELSE mixed
        /\ odd' = IF goesOn /\ op = "on" /\ holder[p] # u THEN odd \cup {p} ELSE odd
        /\ quiet' = IF goesOn /\ op = "on" THEN quiet \ {u} ELSE quiet
    /\ UNCHANGED <<session, info, holder>>

-----------------------------------------------------------------------------
(* ReportClientInfoToCache.                                                *)

\* Get of the mobile id, and Hdel of the phone of the user it says, whichever
\* phone that is.  Get fails, or the key is not there: nothing is deleted.
ReportGetsHolder(c) ==
    LET h == holder[job[c].phone] IN
    /\ job[c].at = "getHolder"
    /\ \/ /\ job' = [job EXCEPT ![c] = [@ EXCEPT
                      !.at = IF h \in {Nil, job[c].user} THEN "hsetMobile" ELSE "hdelOld",
                      !.old = IF h = job[c].user THEN Nil ELSE h]]
          /\ UNCHANGED <<fails, odd>>
       \/ /\ RedisFails
          /\ Goto(c, "hsetMobile")
          /\ odd' = odd \cup {job[c].phone}
    /\ UNCHANGED <<session, info, holder, asked, mixed, quiet>>

\* Mutant: the user whose phone it was keeps it.
ReportHdelsOld_Forgotten(c) ==
    /\ job[c].at = "hdelOld"
    /\ Goto(c, "hsetMobile")
    /\ UNCHANGED <<session, info, holder, asked, fails, odd, mixed, quiet>>

\* An error of Hdel is not looked at.
ReportHdelsOld(c) ==
    LET u == job[c].old IN
    /\ job[c].at = "hdelOld"
    /\ \/ /\ info' = SetMobile(u, Nil)
          /\ mixed' = mixed \cup {u}
          /\ UNCHANGED <<fails, odd>>
       \/ /\ RedisFails
          /\ odd' = odd \cup {job[c].phone}
          /\ UNCHANGED <<info, mixed>>
    /\ Goto(c, "hsetMobile")
    /\ UNCHANGED <<session, holder, asked, quiet>>

\* Hset of the platform and of the mobile id; after the first that fails the
\* handler answers REDIS_OPT_ERROR.
ReportHsets(c) ==
    /\ job[c].at = "hsetMobile"
    /\ \/ /\ info' = SetMobile(job[c].user, job[c].phone)
          /\ Goto(c, "expire")
          /\ UNCHANGED <<fails, odd>>
       \/ /\ RedisFails
          /\ Done(c)
          /\ odd' = odd \cup {job[c].phone}
          /\ UNCHANGED info
    /\ UNCHANGED <<session, holder, asked, mixed, quiet>>

\* Hset of the language and Expire.
ReportExpire(c) ==
    /\ job[c].at = "expire"
    /\ \/ Goto(c, "setHolder") /\ UNCHANGED <<fails, odd>>
       \/ /\ RedisFails
          /\ Done(c)
          /\ odd' = odd \cup {job[c].phone}
    /\ UNCHANGED <<session, info, holder, asked, mixed, quiet>>

\* Set of the mobile id; an error is not looked at.
ReportSetsHolder(c) ==
    LET p == job[c].phone IN
    /\ job[c].at = "setHolder"
    /\ \/ /\ holder' = [holder EXCEPT ![p] = job[c].user]
          /\ UNCHANGED <<fails, odd>>
       \/ /\ RedisFails
          /\ odd' = odd \cup {p}
          /\ UNCHANGED holder
    /\ Done(c)
    /\ UNCHANGED <<session, info, asked, mixed, quiet>>

-----------------------------------------------------------------------------
(* SetCurrentAlarmFlag and UserLogout.  A command that fails ends the      *)
(* request with REDIS_OPT_ERROR.                                           *)

\* Mutant: the flag is switched on before the phone is known.
AlarmOn_FlagFirst(c) ==
    LET j == job[c] IN
    /\ \/ /\ j.at = "onMobile"
          /\ info' = SetFlag(j.user, "on")
          /\ Goto(c, "onFlag")
       \/ /\ j.at = "onFlag"
          /\ info' = SetMobile(j.user, j.phone)
          /\ Done(c)
    /\ UNCHANGED <<session, holder, asked, fails, odd, mixed, quiet>>

AlarmOn(c) ==
    LET j == job[c] IN
    /\ \/ /\ j.at = "onMobile"
          /\ info' = SetMobile(j.user, j.phone)
          /\ Goto(c, "onFlag")
       \/ /\ j.at = "onFlag"
          /\ info' = SetFlag(j.user, "on")
          /\ Done(c)
    /\ UNCHANGED <<session, holder, asked, fails, odd, mixed, quiet>>

\* Mutant: the phone is deleted and the flag is forgotten.
AlarmOff_PhoneOnly(c) ==
    LET j == job[c] IN
    /\ j.at \in {"offFlag", "offMobile"}
    /\ info' = SetMobile(j.user, Nil)
    /\ quiet' = quiet \cup {j.user}
    /\ Done(c)
    /\ UNCHANGED <<session, holder, asked, fails, odd, mixed>>

\* Mutant: the flag is written into the field of the phone.
AlarmOff_WrongField(c) ==
    LET j == job[c] IN
    /\ j.at \in {"offFlag", "offMobile"}
    /\ info' = SetMobile(j.user, "off")
    /\ Done(c)
    /\ UNCHANGED <<session, holder, asked, fails, odd, mixed, quiet>>

AlarmOff(c) ==
    LET j == job[c] IN
    /\ \/ /\ j.at = "offFlag"
          /\ info' = SetFlag(j.user, "off")
          /\ Goto(c, "offMobile")
          /\ UNCHANGED quiet
       \/ /\ j.at = "offMobile"
          /\ info' = SetMobile(j.user, Nil)
          /\ quiet' = IF j.user \in mixed THEN quiet ELSE quiet \cup {j.user}
          /\ Done(c)
    /\ UNCHANGED <<session, holder, asked, fails, odd, mixed>>

AlarmFlagFails(c) ==
    /\ job[c].at \in {"onMobile", "onFlag", "offFlag", "offMobile"}
    /\ RedisFails
    /\ Done(c)
    /\ UNCHANGED <<session, info, holder, asked, odd, mixed, quiet>>

\* UserLogout: Del of the session.
Logout(c) ==
    /\ job[c].at = "del"
    /\ \/ session' = [session EXCEPT ![job[c].phone] = Nil] /\ UNCHANGED fails
       \/ RedisFails /\ UNCHANGED session
    /\ Done(c)
    /\ UNCHANGED <<info, holder, asked, odd, mixed, quiet>>

ThreadStep(c) ==
    \/ \E p \in Phones, u \in Users : Login(c, p, u)
    \/ \E p \in Phones, op \in DOMAIN FirstStage : Take(c, p, op)
    \/ ReportGetsHolder(c) \/ ReportHdelsOld(c) \/ ReportHsets(c)
    \/ ReportExpire(c) \/ ReportSetsHolder(c)
    \/ AlarmOn(c) \/ AlarmOff(c) \/ AlarmFlagFails(c) \/ Logout(c)

ClientInfoNext ==
    \/ \E c \in Threads : ThreadStep(c)
    \/ \E p \in Phones : SessionExpires(p)
    \/ \E u \in Users : InfoExpires(u)

-----------------------------------------------------------------------------
(* Properties.                                                             *)

\* A phone is never two users' phone: who reports it takes it from the user
\* it was, as the comments of ReportClientInfoToCache want.  Not for a phone
\* of which a report failed, or which a user gave in a SetCurrentAlarmFlag who
\* had not reported it.
OneHolder ==
    \A u, v \in Users : info[u].mobile # Nil /\ info[u].mobile \notin odd
                        /\ info[u].mobile = info[v].mobile => u = v

\* Whoever has alarms on has a phone they can go to, at any moment in the
\* middle of a request and wherever redis fails.  Not for a user two requests
\* of which overlap, whose hash expires in the middle of one, or whose phone
\* another user has reported.
FlagHasPhone ==
    \A u \in Users : info[u].flag = "on" /\ u \notin mixed => info[u].mobile # Nil
=============================================================================
