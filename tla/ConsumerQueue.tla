--------------------------- MODULE ConsumerQueue ---------------------------
(***************************************************************************)
(* consumers.cc: the ring buffer between the thread that reads a logic     *)
(* process' link and the threads that handle the messages.  One mutex      *)
(* guards it, and producer and consumers wait on one condition variable.   *)
(*                                                                         *)
(* Messages are numbered in the order of the calls of putData.  Each action*)
(* is what a thread does while it holds the mutex: it finds its condition  *)
(* and goes on, or it starts to wait.  closed is never set in the code, so *)
(* getData's early return cannot happen and is left out.                   *)
(***************************************************************************)
EXTENDS Integers, FiniteSets

CONSTANTS
    Consumers,    \* the threads of runAllConsumers
    Producer,     \* the thread of the link's event loop
    Capacity,     \* queue_num
    MaxMessages   \* bound: messages the link reads in a behaviour

ASSUME ConsumerQueueAssumption ==
    /\ Producer \notin Consumers
    /\ Capacity \in Nat \ {0}
    /\ MaxMessages \in Nat

Threads == Consumers \cup {Producer}
Slots == 0 .. Capacity - 1
Messages == 1 .. MaxMessages
None == 0                \* the empty string: a free slot, no message held

VARIABLES
    buf,        \* DSQueue::buf
    pos,        \* DSQueue::pos
    length,     \* DSQueue::length
    waiting,    \* the threads in pthread_cond_wait on cond_length
    put,        \* how many messages were put
    taken,      \* how many messages were taken
    held        \* consumerRun's message, while StartLogicOpt runs

vars == <<buf, pos, length, waiting, put, taken, held>>

TypeOK ==
    /\ buf \in [Slots -> Messages \cup {None}]
    /\ pos \in Slots
    /\ length \in 0 .. Capacity
    /\ waiting \subseteq Threads
    /\ put \in 0 .. MaxMessages
    /\ taken \in 0 .. MaxMessages
    /\ held \in [Consumers -> Messages \cup {None}]

Init ==
    /\ buf = [s \in Slots |-> None]
    /\ pos = 0
    /\ length = 0
    /\ waiting = {}
    /\ put = 0
    /\ taken = 0
    /\ held = [c \in Consumers |-> None]

-----------------------------------------------------------------------------
\* Mutant: one waiter is woken, whoever it is.
Wakes_One(set) == {set \ {t} : t \in set} \cup IF set = {} THEN {{}} ELSE {}

\* pthread_cond_broadcast: who may be left waiting.
Wakes(set) == {{}}

\* Mutant: a full queue does not stop the producer.
PutData_NoWait ==
    /\ Producer \notin waiting
    /\ put < MaxMessages
    /\ buf' = [buf EXCEPT ![(pos + length) % Capacity] = put + 1]
    /\ length' = length + 1
    /\ waiting' \in Wakes(waiting)
    /\ put' = put + 1
    /\ UNCHANGED <<pos, taken, held>>

\* Mutant: the consumers are not woken.
PutData_Silent ==
    /\ Producer \notin waiting
    /\ length < Capacity
    /\ put < MaxMessages
    /\ buf' = [buf EXCEPT ![(pos + length) % Capacity] = put + 1]
    /\ length' = length + 1
    /\ put' = put + 1
    /\ UNCHANGED <<pos, taken, held, waiting>>

\* putData, when there is room.
PutData ==
    /\ Producer \notin waiting
    /\ length < Capacity
    /\ put < MaxMessages
    /\ buf' = [buf EXCEPT ![(pos + length) % Capacity] = put + 1]
    /\ length' = length + 1
    /\ waiting' \in Wakes(waiting)
    /\ put' = put + 1
    /\ UNCHANGED <<pos, taken, held>>

\* putData, when the queue is full: the event loop blocks.
PutWait ==
    /\ Producer \notin waiting
    /\ length = Capacity
    /\ put < MaxMessages
    /\ waiting' = waiting \cup {Producer}
    /\ UNCHANGED <<buf, pos, length, put, taken, held>>

\* Mutant: the newest message is taken.
GetData_Newest(c) ==
    /\ c \notin waiting
    /\ held[c] = None
    /\ length > 0
    /\ LET last == (pos + length - 1) % Capacity IN
          /\ held' = [held EXCEPT ![c] = buf[last]]
          /\ buf' = [buf EXCEPT ![last] = None]
    /\ length' = length - 1
    /\ waiting' \in Wakes(waiting)
    /\ taken' = taken + 1
    /\ UNCHANGED <<pos, put>>

\* Mutant: the producer is not woken.
GetData_Silent(c) ==
    /\ c \notin waiting
    /\ held[c] = None
    /\ length > 0
    /\ held' = [held EXCEPT ![c] = buf[pos]]
    /\ buf' = [buf EXCEPT ![pos] = None]
    /\ pos' = (pos + 1) % Capacity
    /\ length' = length - 1
    /\ taken' = taken + 1
    /\ UNCHANGED <<put, waiting>>

\* getData, when there is a message, and consumerRun's call of StartLogicOpt.
GetData(c) ==
    /\ c \notin waiting
    /\ held[c] = None
    /\ length > 0
    /\ held' = [held EXCEPT ![c] = buf[pos]]
    /\ buf' = [buf EXCEPT ![pos] = None]
    /\ pos' = (pos + 1) % Capacity
    /\ length' = length - 1
    /\ waiting' \in Wakes(waiting)
    /\ taken' = taken + 1
    /\ UNCHANGED put

\* getData, when the queue is empty.
GetWait(c) ==
    /\ c \notin waiting
    /\ held[c] = None
    /\ length = 0
    /\ waiting' = waiting \cup {c}
    /\ UNCHANGED <<buf, pos, length, put, taken, held>>

\* pthread_cond_wait may return without a broadcast.
Spurious(t) ==
    /\ t \in waiting
    /\ waiting' = waiting \ {t}
    /\ UNCHANGED <<buf, pos, length, put, taken, held>>

\* StartLogicOpt returns and the consumer comes back for more.
Finish(c) ==
    /\ held[c] # None
    /\ held' = [held EXCEPT ![c] = None]
    /\ UNCHANGED <<buf, pos, length, waiting, put, taken>>

Next ==
    \/ PutData
    \/ PutWait
    \/ \E c \in Consumers : GetData(c) \/ GetWait(c) \/ Finish(c)
    \/ \E t \in Threads : Spurious(t)

Spec == Init /\ [][Next]_vars

\* Every thread that wants the mutex gets it, and StartLogicOpt returns.  No
\* spurious wake-up is promised.
Fairness ==
    /\ WF_vars(PutData \/ PutWait)
    /\ \A c \in Consumers : WF_vars(GetData(c) \/ GetWait(c)) /\ WF_vars(Finish(c))

FairSpec == Spec /\ Fairness

-----------------------------------------------------------------------------
(* Properties.                                                             *)

\* The k-th occupied slot holds the k-th message that was put and not yet
\* taken, every other slot is free, and no message is in two places.
RingInv ==
    /\ put = taken + length
    /\ \A k \in Slots :
          buf[(pos + k) % Capacity] = IF k < length THEN taken + k + 1 ELSE None

\* A thread never waits for what has already happened: a consumer for a
\* message that is there, the producer for a slot that is free.
NoLostWakeup ==
    /\ length > 0 => waiting \cap Consumers = {}
    /\ length < Capacity => Producer \notin waiting

\* A message is handled once: no two consumers hold the same one, and what
\* is held is no longer in the queue.
HandledOnce ==
    /\ \A c, d \in Consumers : c # d /\ held[c] # None => held[c] # held[d]
    /\ \A c \in Consumers : held[c] <= taken

\* Every message the link reads reaches a consumer, although one condition
\* variable serves both directions.
Delivered == \A m \in Messages : (put >= m) ~> (taken >= m)

\* The link's thread is never blocked for good by a full queue.
Unblocked == (Producer \in waiting) ~> (Producer \notin waiting)

QueueInv == TypeOK /\ RingInv /\ NoLostWakeup /\ HandledOnce

\* The ring buffer is the queue of WorkQueue.
ItemsOf(b, p, l) == [k \in 1 .. l |-> b[(p + k - 1) % Capacity]]
Items == ItemsOf(buf, pos, length)
Abstract == INSTANCE WorkQueue WITH items <- Items
Implements == Abstract!Spec
=============================================================================
