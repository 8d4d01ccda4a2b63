------------------------------- MODULE Alarms -------------------------------
(***************************************************************************)
(* An alarm of a device on its way to the users of the device: imDevServer *)
(* (PushAlarmMessage) asks redis about one user after the other and puts   *)
(* the alarm at the head of the list of each who has alarms on; alarmInfo  *)
(* deletes from these lists.                                               *)
(* Who has alarms on is decided by accountLogic, module ClientInfo.        *)
(*                                                                         *)
(* A device sends an alarm again until it is told SUCCESS.                 *)
(***************************************************************************)
EXTENDS ClientInfo, Sequences, SequencesExt

CONSTANTS
    Owners,     \* the users of the device, as GET_DEVICE_USERS lists them
    Handlers,   \* the worker threads of imDevServer, one alarm at a time each
    MaxAlarms,  \* bound: alarms of the device
    MaxSends,   \* bound: how often it sends them
    ListLen     \* ALARM_MSG_LIST_LEN

ASSUME AlarmsAssumption ==
    /\ Owners \in Seq(Users)
    /\ MaxAlarms \in Nat
    /\ MaxSends \in Nat
    /\ ListLen \in Nat

VARIABLES
    list,       \* redis: the list of alarms of each user, the newest first
    hand,       \* what each worker of imDevServer works on
    del,        \* the deletion that alarmInfo works on
    sends,      \* how often the device has sent an alarm (bounded)
    open        \* the alarms the device has not been told SUCCESS for

alarmVars == <<list, hand, del, sends, open>>
vars == <<infoVars, alarmVars>>

AlarmIds == 1 .. MaxAlarms
NoHand == [at |-> "idle", alarm |-> 0, i |-> 0, flag |-> Nil, answer |-> "SUCCESS",
           quiet |-> {}, due |-> {}]
NoDel == [user |-> Nil, alarm |-> 0]

TypeOK ==
    /\ ClientInfoTypeOK
    /\ list \in [Users -> Seq(AlarmIds)]
    /\ hand \in [Handlers ->
          [at : {"idle", "flag", "push", "answer"}, alarm : 0 .. MaxAlarms,
           i : 0 .. Len(Owners) + 1, flag : {"on", "off", Nil},
           answer : {"SUCCESS", "error"}, quiet : SUBSET Users, due : SUBSET Users]]
    /\ del \in [user : Users \cup {Nil}, alarm : 0 .. MaxAlarms]
    /\ sends \in 0 .. MaxSends
    /\ open \subseteq AlarmIds

Init ==
    /\ ClientInfoInit
    /\ list = [u \in Users |-> <<>>]
    /\ hand = [h \in Handlers |-> NoHand]
    /\ del = NoDel
    /\ sends = 0
    /\ open = AlarmIds

-----------------------------------------------------------------------------
(* PushAlarmMessage of imDevServer, and PushAlarmMessageFtp, which differs  *)
(* in what the alarm says.  The online flag is left out: it decides only    *)
(* whether the alarm is also sent at once, on the way of module             *)
(* OnlineStatus.  The fields quiet and due of hand are history: the users   *)
(* that were told alarms are off before the alarm came and have not asked   *)
(* for them since, and the owners that have had them on all the time and    *)
(* have not got this one.                                                   *)

KeepInfo == UNCHANGED <<session, info, holder, job, asked, odd, mixed, quiet>>

\* The device sends an alarm, and the business process says who its users
\* are; without an answer the device is told JSON_PARSE_ERROR.
AlarmComes(h, a) ==
    /\ hand[h].at = "idle"
    /\ a \in open
    /\ sends < MaxSends
    /\ \A g \in Handlers : hand[g].alarm # a
    /\ sends' = sends + 1
    /\ \E told \in BOOLEAN :
          hand' = [hand EXCEPT ![h] =
              [at |-> IF told /\ Owners # <<>> THEN "flag" ELSE "answer",
               alarm |-> a, i |-> 1, flag |-> Nil,
               answer |-> IF told THEN "SUCCESS" ELSE "error", quiet |-> quiet,
               due |-> {u \in ToSet(Owners) : info[u].flag = "on"}]]
    /\ KeepInfo
    /\ UNCHANGED <<fails, list, del, open>>

\* The four Hgets of the hash: one that is not there has a default, for the
\* alarm flag "off"; one that fails ends the request with REDIS_OPT_ERROR, and
\* the users after this one get nothing.
ReadsFlag(h) ==
    /\ hand[h].at = "flag"
    /\ \/ /\ hand' = [hand EXCEPT ![h] = [@ EXCEPT
                        !.at = "push", !.flag = info[Owners[hand[h].i]].flag]]
          /\ UNCHANGED fails
       \/ /\ RedisFails
          /\ hand' = [hand EXCEPT ![h] = [@ EXCEPT !.at = "answer", !.answer = "error"]]
    /\ KeepInfo
    /\ UNCHANGED <<list, del, sends, open>>

\* The next turn of the loop over the users.
After(r) == [r EXCEPT !.at = IF r.i < Len(Owners) THEN "flag" ELSE "answer",
                      !.i = r.i + 1]

\* LLen hands out the type of redis's answer, REDIS_REPLY_INTEGER, and not
\* the length in it.
LLen(s) == 3

\* SetAlarmMsgToRedis: LPush, LLen, and an LPop for each that is too many.
Pushed(s, a) ==
    LET t == <<a>> \o s
        surplus == LLen(t) - ListLen
    IN  IF surplus > 0 THEN SubSeq(t, surplus + 1, Len(t)) ELSE t

\* Mutant: a user who does not want alarms ends the loop.
Push_Breaks(h) ==
    LET r == hand[h]
        u == Owners[r.i]
    IN
    /\ r.at = "push"
    /\ \/ /\ r.flag # "on"
          /\ hand' = [hand EXCEPT ![h] = [r EXCEPT !.at = "answer"]]
          /\ UNCHANGED list
       \/ /\ r.flag = "on"
          /\ list' = [list EXCEPT ![u] = Pushed(@, r.alarm)]
          /\ hand' = [hand EXCEPT ![h] = After([r EXCEPT !.due = @ \ {u}])]
    /\ KeepInfo
    /\ UNCHANGED <<fails, del, sends, open>>

\* The end of a turn of the loop: the list.
Push(h) ==
    LET r == hand[h]
        u == Owners[r.i]
    IN
    /\ r.at = "push"
    /\ \/ /\ r.flag # "on"
          /\ hand' = [hand EXCEPT ![h] = After(r)]
          /\ UNCHANGED <<list, fails>>
       \/ /\ r.flag = "on"
          /\ list' = [list EXCEPT ![u] = Pushed(@, r.alarm)]
          /\ hand' = [hand EXCEPT ![h] = After([r EXCEPT !.due = @ \ {u}])]
          /\ UNCHANGED fails
       \/ /\ r.flag = "on"
          /\ RedisFails
          /\ hand' = [hand EXCEPT ![h] = [r EXCEPT !.at = "answer", !.answer = "error"]]
          /\ UNCHANGED list
    /\ KeepInfo
    /\ UNCHANGED <<del, sends, open>>

\* The device's answer.
Answer(h) ==
    /\ hand[h].at = "answer"
    /\ open' = IF hand[h].answer = "SUCCESS" THEN open \ {hand[h].alarm} ELSE open
    /\ hand' = [hand EXCEPT ![h] = NoHand]
    /\ KeepInfo
    /\ UNCHANGED <<fails, list, del, sends>>

-----------------------------------------------------------------------------
(* alarmInfo.  GetAlarmInfo only reads; CleanAlarmInfo does nothing.       *)

\* StartLogicOpt and DelAlarmInfo up to the LRange that finds the alarm.  It
\* goes on without a session, for the user of the last request that the thread
\* has had, who may be anybody.
DelFinds(p, a) ==
    /\ del = NoDel
    /\ \E found \in BOOLEAN :
        /\ GetsSession(p, found)
        /\ \E u \in IF found THEN {session[p]} ELSE Users :
              /\ Contains(list[u], a)
              /\ del' = [user |-> u, alarm |-> a]
    /\ KeepInfo
    /\ UNCHANGED <<list, hand, sends, open>>

\* What LRem of every entry a leaves of a list: the k-th entry that is kept.
Without(s, a) ==
    LET kept == {i \in DOMAIN s : s[i] # a}
        Rank(i) == Cardinality({j \in kept : j <= i})
    IN  [k \in 1 .. Cardinality(kept) |-> s[CHOOSE i \in kept : Rank(i) = k]]

\* LRem of every entry with the alarm's id, wherever it has gone by now.
DelRem ==
    /\ del # NoDel
    /\ \/ /\ list' = [list EXCEPT ![del.user] = Without(@, del.alarm)]
          /\ UNCHANGED fails
       \/ RedisFails /\ UNCHANGED list
    /\ del' = NoDel
    /\ KeepInfo
    /\ UNCHANGED <<hand, sends, open>>

\* A step of accountLogic, and what it changes in the history of the alarms
\* on their way.
InfoStep ==
    /\ ClientInfoNext
    /\ hand' = [h \in Handlers |->
          [hand[h] EXCEPT !.quiet = @ \cap quiet',
                          !.due = {u \in @ : info'[u].flag = "on"}]]
    /\ UNCHANGED <<list, del, sends, open>>

HandlerStep(h) ==
    \/ \E a \in AlarmIds : AlarmComes(h, a)
    \/ ReadsFlag(h) \/ Push(h) \/ Answer(h)

DelStep ==
    \/ \E p \in Phones, a \in AlarmIds : DelFinds(p, a)
    \/ DelRem

Next ==
    \/ InfoStep
    \/ \E h \in Handlers : HandlerStep(h)
    \/ DelStep

Spec == Init /\ [][Next]_vars

-----------------------------------------------------------------------------
(* Properties.                                                             *)

\* Who was told that alarms are off before an alarm came, and has not asked
\* for them since, gets none of it.
OffMeansOff ==
    \A h \in Handlers :
        hand[h].at = "push" /\ hand[h].flag = "on" => Owners[hand[h].i] \notin hand[h].quiet

\* When the device is told SUCCESS the alarm has been put on the list of every
\* owner that has had alarms on since it came.
Recorded ==
    \A h \in Handlers : hand[h].at = "answer" /\ hand[h].answer = "SUCCESS" => hand[h].due = {}

=============================================================================
