------------------------ MODULE ConsumerQueueProofs ------------------------
(* Proofs about consumers.cc: the ring buffer's invariant, the absence of   *)
(* lost wake-ups, and that it implements the queue of WorkQueue.            *)
EXTENDS ConsumerQueue, SequenceTheorems, TLAPS

\* The remainder of a sum of two positions.
LEMMA Wrap ==
    ASSUME NEW a \in Int, 0 <= a, a < 2 * Capacity
    PROVE  a % Capacity = IF a < Capacity THEN a ELSE a - Capacity
<1>1. CASE a < Capacity
  BY <1>1, ConsumerQueueAssumption
<1>2. CASE a >= Capacity
  BY <1>2, ConsumerQueueAssumption
<1> QED
  BY <1>1, <1>2, ConsumerQueueAssumption

\* The slots counted from pos are different slots of the ring.
LEMMA SlotFacts ==
    ASSUME NEW p \in Slots
    PROVE  /\ \A k \in Slots : (p + k) % Capacity \in Slots
           /\ \A k, l \in Slots : k # l => (p + k) % Capacity # (p + l) % Capacity
           /\ (p + 0) % Capacity = p
<1>1. \A k \in Slots : (p + k) % Capacity = IF p + k < Capacity THEN p + k ELSE p + k - Capacity
  BY Wrap, ConsumerQueueAssumption DEF Slots
<1> QED
  BY <1>1, ConsumerQueueAssumption DEF Slots

\* The slots counted from the next position.
LEMMA NextSlot ==
    ASSUME NEW p \in Slots, NEW k \in Slots
    PROVE  /\ (p + 1) % Capacity \in Slots
           /\ (((p + 1) % Capacity) + k) % Capacity =
                 IF k + 1 < Capacity THEN (p + (k + 1)) % Capacity ELSE p
<1>1. (p + 1) % Capacity = IF p + 1 < Capacity THEN p + 1 ELSE p + 1 - Capacity
  BY Wrap, ConsumerQueueAssumption DEF Slots
<1>2. (p + 1) % Capacity \in Slots
  BY <1>1, ConsumerQueueAssumption DEF Slots
<1> DEFINE n == (p + 1) % Capacity
<1> HIDE DEF n
<1>3. (n + k) % Capacity = IF n + k < Capacity THEN n + k ELSE n + k - Capacity
  BY <1>2, Wrap, ConsumerQueueAssumption DEF Slots, n
<1>4. k + 1 < Capacity => (p + (k + 1)) % Capacity =
          IF p + (k + 1) < Capacity THEN p + (k + 1) ELSE p + (k + 1) - Capacity
  BY Wrap, ConsumerQueueAssumption DEF Slots
<1>5. (n + k) % Capacity = IF k + 1 < Capacity THEN (p + (k + 1)) % Capacity ELSE p
  <2>1. CASE k + 1 < Capacity
    BY <1>1, <1>3, <1>4, <2>1, ConsumerQueueAssumption DEF Slots, n
  <2>2. CASE k + 1 = Capacity
    BY <1>1, <1>3, <2>2, ConsumerQueueAssumption DEF Slots, n
  <2> QED
    BY <2>1, <2>2, ConsumerQueueAssumption DEF Slots
<1> QED
  BY <1>2, <1>5 DEF n

-----------------------------------------------------------------------------
(* The inductive invariant.                                                *)

LEMMA InitQueue == Init => QueueInv
<1> SUFFICES ASSUME Init PROVE QueueInv
  OBVIOUS
<1>1. 0 \in Slots
  BY ConsumerQueueAssumption DEF Slots
<1>2. TypeOK
  BY <1>1, ConsumerQueueAssumption DEF Init, TypeOK, Messages, None
<1>3. RingInv
  <2>1. \A k \in Slots : (0 + k) % Capacity \in Slots /\ ~(k < 0)
    BY <1>1, SlotFacts, ConsumerQueueAssumption DEF Slots
  <2> QED
    BY <2>1 DEF Init, RingInv
<1>4. NoLostWakeup
  BY DEF Init, NoLostWakeup
<1>5. HandledOnce
  BY DEF Init, HandledOnce, None
<1> QED
  BY <1>2, <1>3, <1>4, <1>5 DEF QueueInv

LEMMA PutQueue ==
    ASSUME QueueInv, PutData
    PROVE  QueueInv'
<1> USE DEF QueueInv, PutData, Wakes
<1> DEFINE s == (pos + length) % Capacity
<1>0. /\ pos \in Slots /\ length \in Slots /\ s \in Slots
      /\ put \in Nat /\ taken \in Nat /\ put = taken + length /\ length \in Nat
      /\ put + 1 \in Messages
  BY SlotFacts, ConsumerQueueAssumption DEF TypeOK, Slots, RingInv, Messages
<1>1. \A k \in Slots : (pos + k) % Capacity = s <=> k = length
  BY <1>0, SlotFacts
<1> HIDE DEF s
<1>2. buf' = [buf EXCEPT ![s] = put + 1]
  BY DEF s
<1>3. TypeOK'
  BY <1>0, <1>2, ConsumerQueueAssumption DEF TypeOK, Slots, Messages
<1>4. RingInv'
  <2>1. \A k \in Slots : (pos + k) % Capacity \in Slots
    BY <1>0, SlotFacts
  <2>2. ASSUME NEW k \in Slots
        PROVE  buf'[(pos + k) % Capacity] =
                   IF k < length + 1 THEN taken + k + 1 ELSE None
    <3>1. CASE k = length
      BY <1>0, <1>1, <1>2, <2>1, <3>1 DEF TypeOK
    <3>2. CASE k # length
      <4>1. buf'[(pos + k) % Capacity] = buf[(pos + k) % Capacity]
        BY <1>1, <1>2, <2>1, <3>2 DEF TypeOK
      <4>2. k < length + 1 <=> k < length
        BY <1>0, <3>2, ConsumerQueueAssumption DEF Slots
      <4> QED
        BY <4>1, <4>2 DEF RingInv
    <3> QED
      BY <3>1, <3>2
  <2> QED
    BY <1>0, <2>2 DEF RingInv
<1>5. NoLostWakeup'
  BY DEF NoLostWakeup
<1>6. HandledOnce'
  BY DEF HandledOnce
<1> QED
  BY <1>3, <1>4, <1>5, <1>6

LEMMA GetQueue ==
    ASSUME QueueInv, NEW c \in Consumers, GetData(c)
    PROVE  QueueInv'
<1> USE DEF QueueInv, GetData, Wakes
<1>0. /\ pos \in Slots /\ 0 \in Slots /\ length \in Nat /\ taken \in Nat
      /\ length > 0 /\ length <= Capacity /\ put \in 0 .. MaxMessages
      /\ put = taken + length
  BY ConsumerQueueAssumption DEF TypeOK, Slots, RingInv
<1>1. buf[pos] = taken + 1
  BY <1>0, SlotFacts DEF RingInv
<1>2. taken + 1 \in Messages
  BY <1>0, ConsumerQueueAssumption DEF Messages
<1>3. pos' \in Slots
  BY <1>0, NextSlot
<1>4. TypeOK'
  BY <1>0, <1>1, <1>2, <1>3, ConsumerQueueAssumption DEF TypeOK, Slots, Messages
<1>5. RingInv'
  <2>1. ASSUME NEW k \in Slots
        PROVE  buf'[(pos' + k) % Capacity] =
                   IF k < length - 1 THEN taken + 1 + k + 1 ELSE None
    <3>1. (pos' + k) % Capacity = IF k + 1 < Capacity THEN (pos + (k + 1)) % Capacity ELSE pos
      BY <1>0, NextSlot
    <3>2. CASE k + 1 < Capacity
      <4>1. k + 1 \in Slots /\ k + 1 # 0
        BY <3>2, ConsumerQueueAssumption DEF Slots
      <4>2. (pos + (k + 1)) % Capacity \in Slots /\ (pos + (k + 1)) % Capacity # pos
        BY <1>0, <4>1, SlotFacts
      <4>3. buf'[(pos' + k) % Capacity] = buf[(pos + (k + 1)) % Capacity]
        BY <3>1, <3>2, <4>2 DEF TypeOK
      <4>4. buf[(pos + (k + 1)) % Capacity] =
                IF k + 1 < length THEN taken + (k + 1) + 1 ELSE None
        BY <4>1 DEF RingInv
      <4>5. (k + 1 < length <=> k < length - 1) /\ taken + (k + 1) + 1 = taken + 1 + k + 1
        BY <1>0, ConsumerQueueAssumption DEF Slots
      <4> QED
        BY <4>3, <4>4, <4>5
    <3>3. CASE ~(k + 1 < Capacity)
      <4>1. ~(k < length - 1)
        BY <1>0, <3>3, ConsumerQueueAssumption DEF Slots
      <4> QED
        BY <1>0, <3>1, <3>3, <4>1 DEF TypeOK
    <3> QED
      BY <3>2, <3>3
  <2>2. put' = taken' + length'
    BY <1>0
  <2> QED
    BY <2>1, <2>2 DEF RingInv
<1>6. NoLostWakeup'
  BY DEF NoLostWakeup
<1>7. HandledOnce'
  <2>1. \A d \in Consumers : held[d] \in Nat /\ held[d] <= taken
    BY DEF TypeOK, HandledOnce, Messages, None
  <2>2. held' = [held EXCEPT ![c] = taken + 1]
    BY <1>1
  <2> QED
    BY <1>0, <2>1, <2>2 DEF HandledOnce, TypeOK
<1> QED
  BY <1>4, <1>5, <1>6, <1>7

LEMMA NextQueue == QueueInv /\ [Next]_vars => QueueInv'
<1> SUFFICES ASSUME QueueInv, [Next]_vars PROVE QueueInv'
  OBVIOUS
<1> USE DEF QueueInv, TypeOK, RingInv, NoLostWakeup, HandledOnce
<1>1. CASE PutData
  BY <1>1, PutQueue
<1>2. CASE PutWait
  BY <1>2, ConsumerQueueAssumption DEF PutWait, Threads
<1>3. ASSUME NEW c \in Consumers, GetData(c) PROVE QueueInv'
  BY <1>3, GetQueue
<1>4. ASSUME NEW c \in Consumers, GetWait(c) PROVE QueueInv'
  BY <1>4, ConsumerQueueAssumption DEF GetWait, Threads
<1>5. ASSUME NEW c \in Consumers, Finish(c) PROVE QueueInv'
  BY <1>5 DEF Finish, None
<1>6. ASSUME NEW t \in Threads, Spurious(t) PROVE QueueInv'
  BY <1>6 DEF Spurious
<1>7. CASE UNCHANGED vars
  BY <1>7 DEF vars
<1> QED
  BY <1>1, <1>2, <1>3, <1>4, <1>5, <1>6, <1>7 DEF Next

\* The invariant of the queue, for every capacity and number of consumers.
THEOREM QueueInvariant == Spec => []QueueInv
<1> QED
  BY InitQueue, NextQueue, PTL DEF Spec

\* The ring and its threads keep their types.
THEOREM TypeCorrect == Spec => []TypeOK
<1>1. QueueInv => TypeOK
  BY DEF QueueInv
<1> QED
  BY <1>1, QueueInvariant, PTL

\* No message is lost, put twice or reordered in the ring buffer.
THEOREM RingHolds == Spec => []RingInv
<1>1. QueueInv => RingInv
  BY DEF QueueInv
<1> QED
  BY <1>1, QueueInvariant, PTL

\* No thread waits for a message or a slot that is there.
THEOREM NoLostWakeupHolds == Spec => []NoLostWakeup
<1>1. QueueInv => NoLostWakeup
  BY DEF QueueInv
<1> QED
  BY <1>1, QueueInvariant, PTL

\* No two consumers handle the same message.
THEOREM HandledOnceHolds == Spec => []HandledOnce
<1>1. QueueInv => HandledOnce
  BY DEF QueueInv
<1> QED
  BY <1>1, QueueInvariant, PTL

-----------------------------------------------------------------------------
(* The ring buffer implements the queue.                                   *)

\* The messages that wait in a ring b are consecutive numbers.
LEMMA Consecutive ==
    ASSUME NEW b, NEW p \in Slots, NEW l \in 0 .. Capacity, NEW t \in Nat,
           \A k \in Slots : b[(p + k) % Capacity] = IF k < l THEN t + k + 1 ELSE None
    PROVE  /\ ItemsOf(b, p, l) = [k \in 1 .. l |-> t + k]
           /\ ItemsOf(b, p, l) \in Seq(Nat)
           /\ Len(ItemsOf(b, p, l)) = l
<1>1. ASSUME NEW k \in 1 .. l
      PROVE  b[(p + k - 1) % Capacity] = t + k
  <2>1. k - 1 \in Slots /\ k - 1 < l /\ t + (k - 1) + 1 = t + k
    BY <1>1, ConsumerQueueAssumption DEF Slots
  <2>2. b[(p + (k - 1)) % Capacity] = t + (k - 1) + 1
    BY <2>1
  <2>3. p + k - 1 = p + (k - 1)
    BY <1>1, ConsumerQueueAssumption DEF Slots
  <2> QED
    BY <2>1, <2>2, <2>3
<1>2. ItemsOf(b, p, l) = [k \in 1 .. l |-> t + k]
  BY <1>1 DEF ItemsOf
<1> QED
  BY <1>2, ConsumerQueueAssumption

LEMMA ItemsAre ==
    ASSUME QueueInv
    PROVE  /\ Items = [k \in 1 .. length |-> taken + k]
           /\ Items \in Seq(Nat)
           /\ Len(Items) = length
<1>1. pos \in Slots /\ length \in 0 .. Capacity /\ taken \in Nat
  BY ConsumerQueueAssumption DEF QueueInv, TypeOK
<1>2. \A k \in Slots :
          buf[(pos + k) % Capacity] = IF k < length THEN taken + k + 1 ELSE 0
  BY DEF QueueInv, RingInv, None
<1> QED
  BY <1>1, <1>2, Consecutive DEF Items, None

LEMMA ItemsAreNext ==
    ASSUME QueueInv'
    PROVE  /\ Items' = [k \in 1 .. length' |-> taken' + k]
           /\ Items' \in Seq(Nat)
           /\ Len(Items') = length'
<1>1. pos' \in Slots /\ length' \in 0 .. Capacity /\ taken' \in Nat
  BY ConsumerQueueAssumption DEF QueueInv, TypeOK
<1>2. \A k \in Slots :
          buf'[(pos' + k) % Capacity] = IF k < length' THEN taken' + k + 1 ELSE 0
  BY DEF QueueInv, RingInv, None
<1> QED
  BY <1>1, <1>2, Consecutive DEF Items, None

LEMMA PutRefines ==
    ASSUME QueueInv, QueueInv', PutData
    PROVE  Abstract!Put
<1>1. /\ length \in Nat /\ taken \in Nat /\ put = taken + length
      /\ length' = length + 1 /\ taken' = taken
  BY ConsumerQueueAssumption DEF QueueInv, TypeOK, RingInv, PutData
<1>2. /\ Items = [k \in 1 .. length |-> taken + k]
      /\ Len(Items) = length
      /\ Items \in Seq(Nat)
      /\ Items' = [k \in 1 .. length + 1 |-> taken + k]
      /\ Items' \in Seq(Nat) /\ Len(Items') = length + 1
  BY <1>1, ItemsAre, ItemsAreNext
<1>3. Items' = Append(Items, taken + length + 1)
  <2> DEFINE a == Append(Items, taken + length + 1)
  <2>1. a \in Seq(Nat) /\ Len(a) = length + 1
    BY <1>1, <1>2, AppendProperties
  <2>2. \A k \in 1 .. length + 1 : a[k] = Items'[k]
    BY <1>1, <1>2, AppendProperties
  <2> HIDE DEF a
  <2>3. Items' = a
    BY <1>2, <2>1, <2>2, SeqEqual
  <2> QED
    BY <2>3 DEF a
<1> QED
  BY <1>1, <1>2, <1>3, ConsumerQueueAssumption DEF PutData, Abstract!Put

LEMMA GetRefines ==
    ASSUME QueueInv, QueueInv', NEW c \in Consumers, GetData(c)
    PROVE  Abstract!Take(c)
<1>1. /\ length \in Nat /\ length > 0 /\ taken \in Nat
      /\ length' = length - 1 /\ taken' = taken + 1
  BY ConsumerQueueAssumption DEF QueueInv, TypeOK, RingInv, GetData
<1>2. /\ Items = [k \in 1 .. length |-> taken + k]
      /\ Len(Items) = length
      /\ Items \in Seq(Nat)
  BY ItemsAre
<1>3. /\ Items' = [k \in 1 .. length - 1 |-> taken + 1 + k]
      /\ Items' \in Seq(Nat) /\ Len(Items') = length - 1
  BY <1>1, ItemsAreNext
<1>4. Items # <<>> /\ Head(Items) = taken + 1
  BY <1>1, <1>2
<1>5. Items' = Tail(Items)
  <2>1. Tail(Items) \in Seq(Nat) /\ Len(Tail(Items)) = length - 1
    BY <1>2, <1>4, HeadTailProperties
  <2>2. \A k \in 1 .. length - 1 : Tail(Items)[k] = Items'[k]
    BY <1>1, <1>2, <1>3, <1>4, <2>1, HeadTailProperties
  <2> QED
    BY <1>3, <2>1, <2>2, SeqEqual
<1>6. buf[pos] = taken + 1
  <2>1. pos \in Slots /\ 0 \in Slots /\ taken + 0 + 1 = taken + 1
    BY <1>1, ConsumerQueueAssumption DEF QueueInv, TypeOK, Slots
  <2> QED
    BY <1>1, <2>1, SlotFacts DEF QueueInv, RingInv
<1> QED
  BY <1>1, <1>4, <1>5, <1>6 DEF GetData, None, Abstract!Take

\* The refinement mapping's value does not change when the ring does not.
LEMMA ItemsSame ==
    ASSUME UNCHANGED <<buf, pos, length>>
    PROVE  UNCHANGED Items
BY DEF Items, ItemsOf

\* consumers.cc implements the bounded first-in first-out queue.
THEOREM QueueImplements == Spec => Implements
<1>1. Init => Abstract!Init
  <2> SUFFICES ASSUME Init PROVE Abstract!Init
    OBVIOUS
  <2>1. Items = <<>>
    <3>1. QueueInv /\ length = 0
      BY InitQueue DEF Init
    <3>2. Items \in Seq(Nat) /\ Len(Items) = 0
      BY <3>1, ItemsAre
    <3> QED
      BY <3>2, EmptySeq
  <2> QED
    BY <2>1 DEF Init, Abstract!Init, None
<1>2. QueueInv /\ QueueInv' /\ [Next]_vars => [Abstract!Next]_(Abstract!vars)
  <2> SUFFICES ASSUME QueueInv, QueueInv', [Next]_vars
               PROVE  [Abstract!Next]_(Abstract!vars)
    OBVIOUS
  <2>1. CASE PutData
    BY <2>1, PutRefines DEF Abstract!Next
  <2>2. ASSUME NEW c \in Consumers, GetData(c) PROVE Abstract!Next
    BY <2>2, GetRefines DEF Abstract!Next
  <2>3. ASSUME NEW c \in Consumers, Finish(c) PROVE Abstract!Next
    <3>1. UNCHANGED Items
      BY <2>3, ItemsSame DEF Finish
    <3> QED
      BY <2>3, <3>1 DEF Finish, None, Abstract!Next, Abstract!Finish
  <2>4. ASSUME UNCHANGED <<buf, pos, length, taken, held>>
        PROVE  UNCHANGED Abstract!vars
    BY <2>4, ItemsSame DEF Abstract!vars
  <2> QED
    BY <2>1, <2>2, <2>3, <2>4
       DEF Next, PutWait, GetWait, Spurious, vars
<1> QED
  BY <1>1, <1>2, QueueInvariant, PTL DEF Spec, Implements, Abstract!Spec
=============================================================================
