---------------------------- MODULE RelayRequest ----------------------------
(***************************************************************************)
(* imServer: a worker thread that must ask a device (GetResponseFromRelay) *)
(* leaves an event in g_map_message under the client's message id, sends   *)
(* the request to the relay and waits, five seconds at most, on a          *)
(* semaphore on its own stack.  The thread that reads the relay's link     *)
(* finds the event by the id the reply carries, stores the response in its *)
(* place and then, the map's lock released, posts the semaphore.           *)
(*                                                                         *)
(* A worker runs this call again and again at the same depth of its stack, *)
(* so the semaphore of a later request takes the place of the earlier one. *)
(***************************************************************************)
EXTENDS Integers, FiniteSets

CONSTANTS
    Threads,     \* the worker threads
    Nobody,      \* no event: NULL
    MsgIds,      \* the message ids clients choose, each numbering from 1
    MaxRequests  \* bound: requests of each worker thread

ASSUME RelayRequestAssumption ==
    /\ Nobody \notin Threads
    /\ MaxRequests \in Nat

Request == [by : Threads, n : 1 .. MaxRequests, id : MsgIds]
None == [by |-> Nobody, n |-> 0]           \* no request, an empty response
Entry == [event : Threads, n : 1 .. MaxRequests, response : {None}]
             \cup [event : {Nobody}, n : {0}, response : Request]
Absent == [event |-> Nobody, n |-> 0]      \* the id is not in the map

VARIABLES
    pc,        \* where each worker is in GetResponseFromRelay
    n,         \* the number of its current or last request
    mid,       \* message_id of that request
    sem,       \* the value of the semaphore at cond's place on its stack
    table,     \* g_map_message
    relay,     \* requests whose replies have not come back yet
    post,      \* the relay link's thread: the event it is about to post
    result,    \* what the last request returned
    mixed,     \* history: the request shared its id with another's (Shares)
    lateWake   \* history: a post meant for an earlier request raised its semaphore

vars == <<pc, n, mid, sem, table, relay, post, result, mixed, lateWake>>

\* The request a worker is in or was in last.
Current(t) == [by |-> t, n |-> n[t], id |-> mid[t]]
Busy(t) == pc[t] # "idle"

TypeOK ==
    /\ pc \in [Threads -> {"idle", "inserted", "waiting", "posted", "read", "failed"}]
    /\ n \in [Threads -> 0 .. MaxRequests]
    /\ mid \in [Threads -> MsgIds]
    /\ sem \in [Threads -> Nat]
    /\ table \in [MsgIds -> Entry \cup {Absent}]
    /\ relay \subseteq Request
    /\ post \in Request \cup {None}
    /\ result \in [Threads -> [code : {"none", "success", "other_error"},
                               response : Request \cup {None}]]
    /\ mixed \in [Threads -> BOOLEAN]
    /\ lateWake \in [Threads -> BOOLEAN]

Init ==
    /\ pc = [t \in Threads |-> "idle"]
    /\ n = [t \in Threads |-> 0]
    /\ mid \in [Threads -> MsgIds]
    /\ sem = [t \in Threads |-> 0]
    /\ table = [i \in MsgIds |-> Absent]
    /\ relay = {}
    /\ post = None
    /\ result = [t \in Threads |-> [code |-> "none", response |-> None]]
    /\ mixed = [t \in Threads |-> FALSE]
    /\ lateWake = [t \in Threads |-> FALSE]

-----------------------------------------------------------------------------
(* GetResponseFromRelay.                                                   *)

\* Another request with this id is going on, or has given up and its reply
\* may still come.
Shares(t, i) ==
    \/ \E u \in Threads \ {t} : Busy(u) /\ mid[u] = i
    \/ \E r \in relay : r.id = i

\* sem_init, and an insert that keeps an entry which is already there.  With
\* these arguments (not shared, value 0) sem_init has no failure to report.
Start(t, i) ==
    /\ pc[t] = "idle"
    /\ n[t] < MaxRequests
    /\ n' = [n EXCEPT ![t] = @ + 1]
    /\ mid' = [mid EXCEPT ![t] = i]
    /\ sem' = [sem EXCEPT ![t] = 0]
    /\ table' = IF table[i] = Absent
                THEN [table EXCEPT ![i] = [event |-> t, n |-> n[t] + 1, response |-> None]]
                ELSE table
    /\ result' = [result EXCEPT ![t] = [code |-> "none", response |-> None]]
    /\ mixed' = [u \in Threads |-> IF u = t THEN Shares(t, i)
                                   ELSE mixed[u] \/ (Busy(u) /\ mid[u] = i)]
    /\ lateWake' = [lateWake EXCEPT ![t] = FALSE]
    /\ pc' = [pc EXCEPT ![t] = "inserted"]
    /\ UNCHANGED <<relay, post>>

\* SendToRelayServer; when it fails the worker waits all the same.
Send(t) ==
    /\ pc[t] = "inserted"
    /\ relay' \in {relay, relay \cup {Current(t)}}
    /\ pc' = [pc EXCEPT ![t] = "waiting"]
    /\ UNCHANGED <<n, mid, sem, table, post, result, mixed, lateWake>>

\* sem_timedwait returns 0.
WaitPosted(t) ==
    /\ pc[t] = "waiting"
    /\ sem[t] > 0
    /\ sem' = [sem EXCEPT ![t] = @ - 1]
    /\ pc' = [pc EXCEPT ![t] = "posted"]
    /\ UNCHANGED <<n, mid, table, relay, post, result, mixed, lateWake>>

\* Mutant: a wait without a limit that only a post ends.
WaitFailed_Never(t) ==
    /\ pc[t] = "waiting"
    /\ sem[t] > 0
    /\ pc' = [pc EXCEPT ![t] = "failed"]
    /\ UNCHANGED <<n, mid, sem, table, relay, post, result, mixed, lateWake>>

\* sem_timedwait returns -1: the time is over, a signal interrupted it, or
\* maketimeout made tv_nsec too large.  The switch compares the -1 with
\* ETIMEDOUT, so every one of them becomes REQ_RES_OTHER_ERROR.
WaitFailed(t) ==
    /\ pc[t] = "waiting"
    /\ sem[t] = 0
    /\ pc' = [pc EXCEPT ![t] = "failed"]
    /\ UNCHANGED <<n, mid, sem, table, relay, post, result, mixed, lateWake>>

\* FindResponseByMessageId: the response, empty if the id has no entry.
ReadResponse(t) ==
    /\ pc[t] = "posted"
    /\ result' = [result EXCEPT ![t].response =
                     IF table[mid[t]] = Absent THEN None ELSE table[mid[t]].response]
    /\ pc' = [pc EXCEPT ![t] = "read"]
    /\ UNCHANGED <<n, mid, sem, table, relay, post, mixed, lateWake>>

\* Mutant: a failed request leaves its entry behind.
Finish_KeepsFailed(t) ==
    /\ pc[t] \in {"read", "failed"}
    /\ table' = IF pc[t] = "read" THEN [table EXCEPT ![mid[t]] = Absent] ELSE table
    /\ result' = [result EXCEPT ![t].code =
                     IF pc[t] = "read" THEN "success" ELSE "other_error"]
    /\ pc' = [pc EXCEPT ![t] = "idle"]
    /\ UNCHANGED <<n, mid, sem, relay, post, mixed, lateWake>>

\* g_map_message.erase(message_id), whoever's entry it is, and the return.
Finish(t) ==
    /\ pc[t] \in {"read", "failed"}
    /\ table' = [table EXCEPT ![mid[t]] = Absent]
    /\ result' = [result EXCEPT ![t].code =
                     IF pc[t] = "read" THEN "success" ELSE "other_error"]
    /\ pc' = [pc EXCEPT ![t] = "idle"]
    /\ UNCHANGED <<n, mid, sem, relay, post, mixed, lateWake>>

-----------------------------------------------------------------------------
(* The relay link's thread: the Result handlers of relay_message_opt.cc.   *)

\* The reply is lost, or VerifyUserSfd finds the user's connection invalid.
ReplyDropped(r) ==
    /\ r \in relay
    /\ relay' = relay \ {r}
    /\ UNCHANGED <<pc, n, mid, sem, table, post, result, mixed, lateWake>>

\* Mutant: the reply is stored under every id that has an event.
ReplyFound_Everyone(r) ==
    /\ post = None
    /\ r \in relay
    /\ relay' = relay \ {r}
    /\ table[r.id] # Absent
    /\ table' = [i \in MsgIds |-> IF table[i] = Absent THEN Absent
                                  ELSE [table[i] EXCEPT !.response = r]]
    /\ post' = IF table[r.id].event = Nobody THEN None
               ELSE [by |-> table[r.id].event, n |-> table[r.id].n, id |-> r.id]
    /\ UNCHANGED <<pc, n, mid, sem, result, mixed, lateWake>>

\* Mutant: the response is stored beside the event, which stays.
ReplyFound_KeepsEvent(r) ==
    /\ post = None
    /\ r \in relay
    /\ relay' = relay \ {r}
    /\ table[r.id] # Absent
    /\ table' = [table EXCEPT ![r.id].response = r]
    /\ post' = IF table[r.id].event = Nobody THEN None
               ELSE [by |-> table[r.id].event, n |-> table[r.id].n, id |-> r.id]
    /\ UNCHANGED <<pc, n, mid, sem, result, mixed, lateWake>>

\* FindEventByMessageIdAndSetResponse: the response takes the event's place.
ReplyFound(r) ==
    /\ post = None
    /\ r \in relay
    /\ relay' = relay \ {r}
    /\ table[r.id] # Absent
    /\ table' = [table EXCEPT ![r.id] = [event |-> Nobody, n |-> 0, response |-> r]]
    /\ post' = IF table[r.id].event = Nobody THEN None
               ELSE [by |-> table[r.id].event, n |-> table[r.id].n, id |-> r.id]
    /\ UNCHANGED <<pc, n, mid, sem, result, mixed, lateWake>>

\* The request has given up: nothing is found.
ReplyLate(r) ==
    /\ post = None
    /\ r \in relay
    /\ table[r.id] = Absent
    /\ relay' = relay \ {r}
    /\ UNCHANGED <<pc, n, mid, sem, table, post, result, mixed, lateWake>>

\* sem_post.  On the semaphore of a request that has returned it may do
\* nothing, or raise the semaphore that has taken its place.
Post ==
    /\ post # None
    /\ post' = None
    /\ LET t == post.by IN
           \/ /\ sem' = [sem EXCEPT ![t] = @ + 1]
              /\ lateWake' = [lateWake EXCEPT ![t] = @ \/ (Busy(t) /\ n[t] # post.n)]
           \/ /\ ~(Busy(t) /\ n[t] = post.n)
              /\ UNCHANGED <<sem, lateWake>>
    /\ UNCHANGED <<pc, n, mid, table, relay, result, mixed>>

WorkerStep(t) ==
    \/ \E i \in MsgIds : Start(t, i)
    \/ Send(t)
    \/ WaitPosted(t)
    \/ WaitFailed(t)
    \/ ReadResponse(t)
    \/ Finish(t)

ReplyStep ==
    \/ \E r \in relay : ReplyDropped(r) \/ ReplyFound(r) \/ ReplyLate(r)
    \/ Post

Next == (\E t \in Threads : WorkerStep(t)) \/ ReplyStep

Spec == Init /\ [][Next]_vars

\* A worker goes on with its own call; the replies owe nothing.
Fairness ==
    \A t \in Threads :
        WF_vars(Send(t) \/ WaitPosted(t) \/ WaitFailed(t) \/ ReadResponse(t) \/ Finish(t))

FairSpec == Spec /\ Fairness

-----------------------------------------------------------------------------
(* Properties.                                                             *)

\* An entry of g_map_message belongs to a request that is still going on:
\* whatever ids collide, replies come late or twice, none is left behind.
TableOwned ==
    \A i \in MsgIds : table[i] # Absent => \E t \in Threads : Busy(t) /\ mid[t] = i

\* A request that shares its id with no other while it runs takes the reply
\* to itself as its response, or nothing, however late the replies to
\* earlier requests come; and it reports SUCCESS with that reply in hand,
\* unless the late post of an earlier request woke it.
OwnResponse ==
    \A t \in Threads : ~mixed[t] =>
        /\ result[t].response \in {None, Current(t)}
        /\ result[t].code = "success" /\ ~lateWake[t] => result[t].response = Current(t)

\* A lost reply never holds a worker, and the connections it serves, for good.
Answered == \A t \in Threads : (pc[t] = "waiting") ~> (pc[t] = "idle")

(* The inductive invariant behind OwnResponse.                             *)

\* A request a worker has begun has a number.
BusyInv == \A t \in Threads : Busy(t) => n[t] > 0

\* A stored event is the semaphore of a request that is going on.
EventInv ==
    \A i \in MsgIds : LET e == table[i] IN
        /\ e.event # Nobody => Busy(e.event) /\ e.n = n[e.event] /\ mid[e.event] = i
        /\ e # Absent /\ e.event = Nobody => e.response.id = i

\* No other request under way has the id of one that is not mixed, nor has
\* a reply that can still come.
AloneInv ==
    \A t \in Threads : Busy(t) /\ ~mixed[t] =>
        /\ \A u \in Threads \ {t} : Busy(u) => mid[u] # mid[t]
        /\ \A r \in relay : r.id = mid[t] => r = Current(t)
        /\ table[mid[t]] # Absent
        /\ table[mid[t]].response \in {None, Current(t)}

\* Its response is in place before its semaphore is raised.
Stored(t) == table[mid[t]].response = Current(t)
WakeInv ==
    \A t \in Threads : Busy(t) /\ ~mixed[t] =>
        /\ post # None /\ post.by = t /\ post.n = n[t] => Stored(t)
        /\ ~lateWake[t] /\ (sem[t] > 0 \/ pc[t] = "posted") => Stored(t)
        /\ ~lateWake[t] /\ pc[t] = "read" => result[t].response = Current(t)
        /\ result[t].code = "none"

\* A post is never for a request that has not begun.
PostInv == post # None => post.n <= n[post.by]

ResponseInv ==
    /\ TypeOK /\ BusyInv /\ TableOwned
    /\ EventInv /\ AloneInv /\ WakeInv /\ PostInv
    /\ OwnResponse
=============================================================================
