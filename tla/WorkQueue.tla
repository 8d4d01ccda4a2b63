----------------------------- MODULE WorkQueue -----------------------------
(***************************************************************************)
(* What the queue between a logic process' link and its consumer threads   *)
(* promises: a bounded first-in first-out queue.  Messages are numbered in *)
(* the order in which the link read them; every message goes to exactly    *)
(* one consumer, and the consumers take the messages in that order.        *)
(***************************************************************************)
EXTENDS Naturals, Sequences

CONSTANTS
    Consumers,    \* the consumer threads
    Capacity,     \* queue_num, how many messages can wait
    MaxMessages   \* bound: messages the link reads in a behaviour

VARIABLES
    items,        \* the messages that wait, oldest first
    taken,        \* how many messages were taken
    held          \* the message each consumer works on, 0 for none

vars == <<items, taken, held>>

Init ==
    /\ items = <<>>
    /\ taken = 0
    /\ held = [c \in Consumers |-> 0]

Put ==
    /\ Len(items) < Capacity
    /\ taken + Len(items) < MaxMessages
    /\ items' = Append(items, taken + Len(items) + 1)
    /\ UNCHANGED <<taken, held>>

Take(c) ==
    /\ held[c] = 0
    /\ items # <<>>
    /\ held' = [held EXCEPT ![c] = Head(items)]
    /\ items' = Tail(items)
    /\ taken' = taken + 1

Finish(c) ==
    /\ held[c] # 0
    /\ held' = [held EXCEPT ![c] = 0]
    /\ UNCHANGED <<items, taken>>

Next == Put \/ \E c \in Consumers : Take(c) \/ Finish(c)

Spec == Init /\ [][Next]_vars
=============================================================================
