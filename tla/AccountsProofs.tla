--------------------------- MODULE AccountsProofs ---------------------------
(* Proofs about the accounts and the channels of the devices: what the loop  *)
(* over the channel numbers computes, that channels belong to who has the    *)
(* device, that SUCCESS means what was asked for, and that the rows of a     *)
(* device follow the account whose name is changed.                          *)
EXTENDS Accounts, FiniteSetTheorems, WellFoundedInduction, TLAPS

(***************************************************************************)
(* Induction.  The finite sets of numbers are well-founded, so there is a  *)
(* least counterexample to whatever is claimed of every number.            *)
(***************************************************************************)

\* A set of numbers has a least one.
LEMMA Least ==
  ASSUME NEW T \in SUBSET Nat, T # {}
  PROVE  \E x \in T : \A y \in T : x <= y
<1> DEFINE R == StrictSubsetOrdering(Nat)
           F == FiniteSubsetsOf(Nat)
           U == {0 .. (x - 1) : x \in T}
<1>1. IsWellFoundedOn(R, F)
  BY FS_StrictSubsetOrderingWellFounded
<1>2. U \subseteq F
  <2> SUFFICES ASSUME NEW x \in T PROVE 0 .. (x - 1) \in F
    OBVIOUS
  <2>1. IsFiniteSet(0 .. (x - 1))
    BY x - 1 \in Int, FS_Interval
  <2> QED
    BY <2>1 DEF FiniteSubsetsOf
<1>3. U # {}
  OBVIOUS
<1>4. \E i \in U : \A j \in U : ~ (<<j, i>> \in R)
  <2> HIDE DEF R, F, U
  <2> QED
    BY <1>1, <1>2, <1>3, WFMin
<1>5. PICK x \in T : \A y \in T : ~ (<<0 .. (y - 1), 0 .. (x - 1)>> \in R)
  BY <1>4
<1>6. SUFFICES ASSUME NEW y \in T, y < x PROVE FALSE
  OBVIOUS
<1>7. 0 .. (y - 1) \subseteq 0 .. (x - 1) /\ y \in 0 .. (x - 1) /\ y \notin 0 .. (y - 1)
  BY <1>6
<1>8. <<0 .. (y - 1), 0 .. (x - 1)>> \in R
  <2>1. {0 .. (y - 1), 0 .. (x - 1)} \subseteq SUBSET Nat
    OBVIOUS
  <2>2. 0 .. (y - 1) # 0 .. (x - 1)
    BY <1>7
  <2> QED
    BY <1>7, <2>1, <2>2 DEF StrictSubsetOrdering
<1> QED
  BY <1>5, <1>8

\* Whatever holds of 0 and goes over from a number to the next holds of all of them.
LEMMA Induction ==
  ASSUME NEW m \in Nat, NEW G, 0 \in G, \A k \in 1 .. m : k - 1 \in G => k \in G
  PROVE  0 .. m \subseteq G
<1> DEFINE Bad == {k \in 0 .. m : k \notin G}
<1>1. SUFFICES ASSUME Bad # {} PROVE FALSE
  OBVIOUS
<1>2. PICK k \in Bad : \A j \in Bad : k <= j
  <2> HIDE DEF Bad
  <2>1. Bad \in SUBSET Nat
    BY DEF Bad
  <2> QED
    BY <1>1, <2>1, Least
<1>3. k \in 1 .. m /\ k - 1 \in 0 .. m /\ k - 1 \notin Bad
  BY <1>2
<1> QED
  BY <1>3

\* What a loop has after each of m turns: it starts with b, and a turn is a step.
IsLoop(f, V, b, step, m) ==
    /\ f \in [0 .. m -> V]
    /\ f[0] = b
    /\ \A n \in 1 .. m : f[n] = step[n][f[n - 1]]

\* There is such a function, whatever the turns do.
LEMMA LoopDefined ==
  ASSUME NEW V, NEW b \in V, NEW step \in [Nat -> [V -> V]], NEW m \in Nat
  PROVE  \E f : IsLoop(f, V, b, step, m)
<1> DEFINE Eq(f, k) == f[0] = b /\ \A n \in 1 .. k : f[n] = step[n][f[n - 1]]
           G == {k \in Nat : \E f \in [0 .. k -> V] : Eq(f, k)}
<1>1. 0 \in G
  <2> DEFINE f == [n \in {0} |-> b]
  <2>1. f \in [0 .. 0 -> V] /\ Eq(f, 0)
    OBVIOUS
  <2> QED
    BY <2>1
<1>2. ASSUME NEW k \in 1 .. m, k - 1 \in G PROVE k \in G
  <2>1. PICK f \in [0 .. (k - 1) -> V] : Eq(f, k - 1)
    BY <1>2
  <2> DEFINE g == [n \in 0 .. k |-> IF n = k THEN step[k][f[k - 1]] ELSE f[n]]
  <2>2. f[k - 1] \in V /\ step[k][f[k - 1]] \in V
    BY <2>1
  <2>3. \A n \in 0 .. k : g[n] \in V
    BY <2>2
  <2>4. \A n \in 1 .. k : g[n - 1] = f[n - 1]
    OBVIOUS
  <2>5. g[0] = b
    BY <2>1
  <2>6. \A n \in 1 .. k : g[n] = step[n][g[n - 1]]
    <3> TAKE n \in 1 .. k
    <3>1. CASE n = k
      BY <3>1, <2>4
    <3>2. CASE n # k
      <4>1. n \in 1 .. (k - 1)
        BY <3>2
      <4>2. f[n] = step[n][f[n - 1]] /\ g[n] = f[n]
        BY <4>1, <2>1
      <4> QED
        BY <4>2, <2>4
    <3> QED
      BY <3>1, <3>2
  <2>7. g \in [0 .. k -> V]
    BY <2>3
  <2>8. Eq(g, k)
    <3> HIDE DEF g
    <3> QED
      BY <2>5, <2>6
  <2> HIDE DEF g, Eq
  <2> QED
    BY <2>7, <2>8
<1>3. 0 .. m \subseteq G
  <2> HIDE DEF G
  <2> QED
    BY <1>1, <1>2, Induction
<1> QED
  BY <1>3 DEF IsLoop

(***************************************************************************)
(* The two loops of AddDeviceChannelToDB.                                  *)
(***************************************************************************)

Loops == [i : Nat, gaps : SUBSET Nat, last : Nat]
RowStep(numbers, r, no) == IF no \in numbers THEN ScanRow(r, no) ELSE r

\* The first loop is what its turns are.
LEMMA ScanLoop ==
  ASSUME NEW numbers \in SUBSET Numbers
  PROVE  \E f \in [0 .. Limit -> Loops] :
            /\ Scan(numbers) = f[Limit]
            /\ f[0] = ScanStart
            /\ \A no \in Numbers : f[no] = RowStep(numbers, f[no - 1], no)
<1>0. Limit \in Nat /\ Numbers = 1 .. Limit
  BY DeviceStoreAssumption DEF Numbers
<1> DEFINE Body(f) == [no \in 0 .. Limit |->
               IF no = 0 THEN ScanStart
               ELSE IF no \in numbers THEN ScanRow(f[no - 1], no)
               ELSE f[no - 1]]
           after == CHOOSE f : f = Body(f)
           step == [no \in Nat |-> [r \in Loops |-> RowStep(numbers, r, no)]]
<1>1. \A no \in Nat, r \in Loops : RowStep(numbers, r, no) \in Loops
  BY DEF Loops, RowStep, ScanRow
<1>2. step \in [Nat -> [Loops -> Loops]]
  BY <1>1
<1>3. ScanStart \in Loops
  BY DEF Loops, ScanStart
<1>4. PICK f \in [0 .. Limit -> Loops] :
          f[0] = ScanStart /\ \A n \in 1 .. Limit : f[n] = step[n][f[n - 1]]
  <2> HIDE DEF step
  <2>1. \E f : IsLoop(f, Loops, ScanStart, step, Limit)
    BY <1>0, <1>2, <1>3, LoopDefined
  <2> QED
    BY <2>1 DEF IsLoop
<1>5. \A no \in 1 .. Limit : f[no] = RowStep(numbers, f[no - 1], no)
  <2> TAKE no \in 1 .. Limit
  <2>1. f[no - 1] \in Loops /\ no \in Nat
    BY <1>0, <1>4
  <2>2. step[no][f[no - 1]] = RowStep(numbers, f[no - 1], no)
    BY <2>1
  <2> HIDE DEF step
  <2> QED
    BY <1>4, <2>2
<1>6. \A no \in 0 .. Limit : f[no] = Body(f)[no]
  <2> TAKE no \in 0 .. Limit
  <2>1. CASE no = 0
    BY <1>4, <2>1
  <2>2. CASE no # 0
    <3>1. f[no] = RowStep(numbers, f[no - 1], no)
      BY <1>0, <1>5, <2>2
    <3> QED
      BY <2>2, <3>1 DEF RowStep
  <2> QED
    BY <2>1, <2>2
<1>7. f = Body(f)
  <2>1. f = [no \in 0 .. Limit |-> f[no]] /\ Body(f) = [no \in 0 .. Limit |-> Body(f)[no]]
    BY <1>4
  <2> QED
    BY <1>6, <2>1
<1>8. after = Body(after)
  <2> HIDE DEF Body
  <2> QED
    BY <1>7
<1>9. \A no \in 0 .. Limit : after[no] = Body(after)[no]
  BY <1>8
<1>10. \A no \in 0 .. Limit : after[no] = f[no]
  <2> DEFINE G == {no \in 0 .. Limit : after[no] = f[no]}
  <2>1. 0 \in G
    BY <1>0, <1>4, <1>9
  <2>2. ASSUME NEW k \in 1 .. Limit, k - 1 \in G PROVE k \in G
    <3>1. f[k] = RowStep(numbers, f[k - 1], k)
      BY <1>5
    <3>2. after[k] = IF k \in numbers THEN ScanRow(after[k - 1], k) ELSE after[k - 1]
      BY <1>9
    <3> HIDE DEF after
    <3>3. after[k - 1] = f[k - 1]
      BY <2>2
    <3> QED
      BY <3>1, <3>2, <3>3 DEF RowStep
  <2>3. 0 .. Limit \subseteq G
    <3> HIDE DEF G
    <3> QED
      BY <1>0, <2>1, <2>2, Induction
  <2> QED
    BY <2>3
<1>11. Scan(numbers) = after[Limit]
  BY DEF Scan
<1> HIDE DEF after, step, Body
<1> QED
  BY <1>0, <1>4, <1>5, <1>10, <1>11

\* The gaps are the numbers below the last one that are free.
LEMMA ScanFacts ==
  ASSUME NEW numbers \in SUBSET Numbers
  PROVE  LET r == Scan(numbers) IN
         /\ r.last \in 0 .. Limit
         /\ r.gaps = (1 .. r.last) \ numbers
         /\ numbers \subseteq 1 .. r.last
         /\ r.last # 0 => r.last \in numbers
<1> USE DeviceStoreAssumption DEF Numbers
<1> DEFINE Right(r, no) ==
               /\ r.i = r.last
               /\ r.last \in 0 .. no /\ (r.last # 0 => r.last \in numbers)
               /\ r.gaps = (1 .. r.last) \ numbers
               /\ numbers \cap 1 .. no \subseteq 1 .. r.last
<1>1. PICK f \in [0 .. Limit -> Loops] :
            /\ Scan(numbers) = f[Limit]
            /\ f[0] = ScanStart
            /\ \A no \in Numbers : f[no] = RowStep(numbers, f[no - 1], no)
  BY ScanLoop
<1> DEFINE G == {no \in 0 .. Limit : Right(f[no], no)}
<1>2. 0 \in G
  BY <1>1 DEF ScanStart
<1>3. ASSUME NEW k \in 1 .. Limit, k - 1 \in G PROVE k \in G
  <2> DEFINE r == f[k - 1]
  <2>1. Right(r, k - 1) /\ r \in Loops
    BY <1>3, <1>1
  <2>2. CASE k \notin numbers
    BY <1>1, <2>1, <2>2 DEF RowStep
  <2>3. CASE k \in numbers
    <3>1. f[k] = ScanRow(r, k)
      BY <1>1, <2>3 DEF RowStep
    <3>2. f[k].i = k /\ f[k].last = k
      BY <2>1, <3>1 DEF ScanRow
    <3>3. f[k].gaps = r.gaps \cup (r.last + 1) .. (k - 1)
      BY <2>1, <3>1 DEF ScanRow
    <3>4. \A n \in (r.last + 1) .. (k - 1) : n \notin numbers
      BY <2>1
    <3>5. f[k].gaps = (1 .. k) \ numbers
      BY <2>1, <2>3, <3>3, <3>4
    <3> QED
      BY <2>3, <3>2, <3>5
  <2> QED
    BY <2>2, <2>3
<1>4. 0 .. Limit \subseteq G
  <2> HIDE DEF G
  <2> QED
    BY <1>2, <1>3, Induction
<1>5. Right(f[Limit], Limit)
  BY <1>4
<1> QED
  BY <1>1, <1>5

\* What the second loop inserts: new numbers, at least as many as asked for, and
\* more than that only when all of them are gaps; afterwards no number below a new
\* one is free.
THEOREM NewNumbersRight ==
  ASSUME NEW numbers \in SUBSET Numbers, NEW sum \in Nat
  PROVE  LET new == NewNumbers(numbers, sum) IN
         /\ new \subseteq Nat \ {0}
         /\ new \cap numbers = {}
         /\ IsFiniteSet(new) /\ Cardinality(new) >= sum
         /\ Cardinality(new) > sum => \A c \in new : \E n \in numbers : c < n
         /\ \A c \in new : 1 .. c \subseteq numbers \cup new
<1> USE DeviceStoreAssumption DEF Numbers
<1> DEFINE r == Scan(numbers)
           more == IF Cardinality(numbers) = r.last THEN sum ELSE sum - Cardinality(r.gaps)
           upper == (r.last + 1) .. (r.last + more)
           new == r.gaps \cup upper
<1>1. /\ r.last \in 0 .. Limit
      /\ r.gaps = (1 .. r.last) \ numbers
      /\ numbers \subseteq 1 .. r.last
      /\ r.last # 0 => r.last \in numbers
  BY ScanFacts
<1> HIDE DEF r
<1>2. IsFiniteSet(1 .. r.last) /\ IsFiniteSet(r.gaps) /\ Cardinality(r.gaps) \in Nat
  <2>1. IsFiniteSet(1 .. r.last)
    BY <1>1, 1 \in Int, r.last \in Int, FS_Interval
  <2>2. r.gaps \in SUBSET (1 .. r.last)
    BY <1>1
  <2>3. IsFiniteSet(r.gaps)
    BY <2>1, <2>2, FS_Subset
  <2> QED
    BY <2>1, <2>3, FS_CardinalityType
<1>3. more \in Int
  BY <1>2
<1> HIDE DEF more
<1>4. IsFiniteSet(upper) /\ (more >= 0 => Cardinality(upper) = more)
  <2> DEFINE first == r.last + 1
             final == r.last + more
  <2>1. first \in Int /\ final \in Int
    BY <1>1, <1>3
  <2>2. IsFiniteSet(first .. final)
        /\ Cardinality(first .. final) = IF first > final THEN 0 ELSE final - first + 1
    <3> HIDE DEF first, final
    <3> QED
      BY <2>1, FS_Interval
  <2>3. more >= 0 => (IF first > final THEN 0 ELSE final - first + 1) = more
    BY <1>1, <1>3
  <2> HIDE DEF first, final
  <2>4. upper = first .. final
    BY DEF first, final
  <2> HIDE DEF upper
  <2> QED
    BY <2>2, <2>3, <2>4
<1>5. new \subseteq Nat \ {0} /\ new \cap numbers = {}
  BY <1>1, <1>3
<1>6. \A c \in new : 1 .. c \subseteq numbers \cup new
  BY <1>1, <1>3
<1>7. IsFiniteSet(new) /\ Cardinality(new) = Cardinality(r.gaps) + Cardinality(upper)
  <2>1. r.gaps \cap upper = {}
    BY <1>1, <1>3
  <2> HIDE DEF upper
  <2>2. IsFiniteSet(new) /\ Cardinality(new) =
            Cardinality(r.gaps) + Cardinality(upper) - Cardinality(r.gaps \cap upper)
    BY <1>2, <1>4, FS_Union
  <2> QED
    <3>1. Cardinality(r.gaps \cap upper) = 0
      BY <2>1, FS_EmptySet
    <3>2. Cardinality(upper) \in Nat
      BY <1>4, FS_CardinalityType
    <3> QED
      BY <2>2, <3>1, <3>2, <1>2
<1>8. Cardinality(new) >= sum
  <2>1. Cardinality(upper) \in Nat
    BY <1>4, FS_CardinalityType
  <2> HIDE DEF upper
  <2>2. more = sum \/ more = sum - Cardinality(r.gaps)
    BY DEF more
  <2> QED
    BY <2>1, <2>2, <1>2, <1>4, <1>7
<1>9. Cardinality(new) > sum => \A c \in new : \E n \in numbers : c < n
  <2> SUFFICES ASSUME Cardinality(new) > sum PROVE upper = {}
    BY <1>1
  <2>1. CASE Cardinality(numbers) = r.last
    <3>1. Cardinality(1 .. r.last) = IF 1 > r.last THEN 0 ELSE r.last - 1 + 1
      BY <1>1, 1 \in Int, r.last \in Int, FS_Interval
    <3>2. 1 .. r.last = numbers
      <4> DEFINE S == 1 .. r.last
      <4>1. numbers \in SUBSET S /\ Cardinality(S) = Cardinality(numbers)
        BY <1>1, <2>1, <3>1
      <4> HIDE DEF S
      <4> QED
        BY <1>2, <4>1, FS_Subset DEF S
    <3>3. Cardinality(r.gaps) = 0
      BY <1>1, <3>2, FS_EmptySet
    <3>4. more = sum
      BY <2>1 DEF more
    <3> HIDE DEF new, upper
    <3> QED
      BY <1>4, <1>7, <3>3, <3>4
  <2>2. CASE Cardinality(numbers) # r.last
    <3>1. more = sum - Cardinality(r.gaps)
      BY <2>2 DEF more
    <3>2. more < 0
      <4> HIDE DEF new, upper
      <4> QED
        BY <1>2, <1>4, <1>7, <3>1
    <3> QED
      BY <3>2, <1>1, <1>3
  <2> QED
    BY <2>1, <2>2
<1>10. NewNumbers(numbers, sum) = new
  BY DEF NewNumbers, r, more
<1> HIDE DEF new
<1> QED
  BY <1>5, <1>6, <1>7, <1>8, <1>9, <1>10

(***************************************************************************)
(* The devices' tables.  An add on its way that nobody has disturbed has   *)
(* inserted everything but what is left.                                   *)
(***************************************************************************)

Adds == [at : {"idle", "read", "insert", "answer"}, name : Names \cup {Nil},
         sum : 0 .. Limit, left : SUBSET Numbers, had : SUBSET Numbers, alone : BOOLEAN]

Undisturbed(a, numbers) ==
    LET new == NewNumbers(a.had, a.sum)
    IN  a.left \subseteq new /\ numbers = a.had \cup (new \ a.left)

AddRight(t) ==
    LET a == add[t] IN
    /\ a.at # "idle" => a.name \in Names
    /\ a.at = "answer" => a.left = {}
    /\ a.at \in {"insert", "answer"} /\ a.alone => Undisturbed(a, channels[a.name])

StoreInv == StoreTypeOK /\ ChannelsOwned /\ \A t \in Threads : AddRight(t)

LEMMA InitStore == StoreInit => StoreInv
BY DeviceStoreAssumption DEF StoreInit, StoreInv, StoreTypeOK, ChannelsOwned, AddRight, NoAdd, Numbers

\* What somebody else changes is noted in the adds of the name, and in no others.
LEMMA DisturbFacts ==
  ASSUME StoreTypeOK, NEW names \in SUBSET Names, NEW t
  PROVE  LET d == Disturb(names, t) IN
         /\ d \in [Threads -> Adds]
         /\ \A s \in Threads :
               /\ d[s].at = add[s].at /\ d[s].name = add[s].name /\ d[s].left = add[s].left
               /\ d[s].alone => d[s] = add[s] /\ (s = t \/ add[s].name \notin names \/ ~ add[s].alone)
BY DEF StoreTypeOK, Disturb, Adds

\* A change of the channels of some names by nobody's add leaves every add right.
LEMMA DisturbRight ==
  ASSUME StoreTypeOK, \A t \in Threads : AddRight(t), NEW names \in SUBSET Names,
         add' = Disturb(names, Nil),
         \A n \in Names \ names : channels'[n] = channels[n]
  PROVE  add' \in [Threads -> Adds] /\ \A t \in Threads : AddRight(t)'
<1>1. add' \in [Threads -> Adds]
  BY DisturbFacts
<1>2. ASSUME NEW t \in Threads PROVE AddRight(t)'
  <2>1. /\ add'[t].at = add[t].at /\ add'[t].name = add[t].name /\ add'[t].left = add[t].left
        /\ add'[t].alone => add'[t] = add[t] /\ (t = Nil \/ add[t].name \notin names \/ ~ add[t].alone)
    BY DisturbFacts
  <2>2. t # Nil
    BY DeviceStoreAssumption
  <2>3. ASSUME add'[t].at \in {"insert", "answer"}, add'[t].alone
        PROVE  Undisturbed(add'[t], channels'[add'[t].name])
    <3>1. add'[t] = add[t] /\ add[t].name \notin names
      BY <2>1, <2>2, <2>3
    <3>2. add[t].name \in Names
      BY <2>3, <3>1 DEF AddRight
    <3>3. channels'[add[t].name] = channels[add[t].name]
      BY <3>1, <3>2
    <3> QED
      BY <2>3, <3>1, <3>3 DEF AddRight
  <2> QED
    BY <2>1, <2>3 DEF AddRight
<1> QED
  BY <1>1, <1>2

\* Fails counts the statements that fail.
LEMMA FailsType == ASSUME StoreTypeOK, UNCHANGED fails \/ SqlFails PROVE fails' \in 0 .. MaxFails
BY DeviceStoreAssumption DEF StoreTypeOK, SqlFails

LEMMA BindStep == ASSUME StoreInv, NEW n \in Names, Bind(n) PROVE StoreInv'
BY DEF StoreInv, StoreTypeOK, ChannelsOwned, AddRight, Bind

\* Giving up the device: its channels go with it, or the name is noted as torn.
LEMMA RemoveBindStep == ASSUME StoreInv, NEW n \in Names, RemoveBind(n) PROVE StoreInv'
<1>1. UNCHANGED fails \/ SqlFails
  BY DEF RemoveBind
<1>2. /\ \A m \in Names \ {n} : channels'[m] = channels[m]
      /\ add' = Disturb({n}, Nil)
      /\ channels' \in [Names -> SUBSET Numbers]
  BY DEF RemoveBind, StoreInv, StoreTypeOK
<1>3. add' \in [Threads -> Adds] /\ \A t \in Threads : AddRight(t)'
  BY <1>2, DisturbRight DEF StoreInv
<1>4. StoreTypeOK'
  BY <1>1, <1>2, <1>3, FailsType DEF StoreInv, StoreTypeOK, RemoveBind, Adds
<1>5. ChannelsOwned'
  BY DEF StoreInv, StoreTypeOK, ChannelsOwned, RemoveBind
<1> QED
  BY <1>3, <1>4, <1>5 DEF StoreInv

LEMMA DeleteChannelStep ==
  ASSUME StoreInv, NEW n \in Names, NEW c \in Numbers, DeleteChannel(n, c) PROVE StoreInv'
<1>1. /\ \A m \in Names \ {n} : channels'[m] = channels[m]
      /\ add' = Disturb({n}, Nil)
      /\ channels' \in [Names -> SUBSET Numbers]
  BY DEF DeleteChannel, StoreInv, StoreTypeOK
<1>2. add' \in [Threads -> Adds] /\ \A t \in Threads : AddRight(t)'
  BY <1>1, DisturbRight DEF StoreInv
<1>3. StoreTypeOK'
  BY <1>1, <1>2 DEF StoreInv, StoreTypeOK, DeleteChannel, Adds
<1>4. ChannelsOwned'
  BY DEF StoreInv, StoreTypeOK, ChannelsOwned, DeleteChannel
<1> QED
  BY <1>2, <1>3, <1>4 DEF StoreInv

LEMMA NoAddFacts == NoAdd \in Adds /\ NoAdd.at = "idle"
BY DeviceStoreAssumption DEF NoAdd, Adds, Numbers

LEMMA AddTakeStep ==
  ASSUME StoreInv, NEW t \in Threads, NEW n \in Names, NEW sum \in Numbers, AddTake(t, n, sum)
  PROVE  StoreInv'
<1> DEFINE b == [NoAdd EXCEPT !.at = "read", !.name = n, !.sum = sum]
<1>1. b \in Adds /\ b.at = "read" /\ b.name = n
  <2>1. sum \in 0 .. Limit
    BY DeviceStoreAssumption DEF Numbers
  <2> QED
    BY <2>1 DEF NoAdd, Adds
<1> HIDE DEF b
<1>2. add' = [add EXCEPT ![t] = b]
  BY DEF AddTake, b
<1>3. add' \in [Threads -> Adds]
  BY <1>1, <1>2 DEF StoreInv, StoreTypeOK, Adds
<1>4. StoreTypeOK'
  BY <1>3, DeviceStoreAssumption DEF StoreInv, StoreTypeOK, AddTake, Adds
<1>5. ChannelsOwned'
  BY DEF StoreInv, ChannelsOwned, AddTake
<1>6. \A s \in Threads : AddRight(s)'
  BY <1>1, <1>2 DEF StoreInv, StoreTypeOK, AddRight, AddTake
<1> QED
  BY <1>4, <1>5, <1>6 DEF StoreInv

\* A request that is over is right, whatever was done.
LEMMA IdleStep ==
  ASSUME StoreInv, NEW t \in Threads, add' = [add EXCEPT ![t] = NoAdd],
         UNCHANGED <<bound, channels, adds, torn>>, UNCHANGED fails \/ SqlFails
  PROVE  StoreInv'
<1>1. add' \in [Threads -> Adds]
  BY NoAddFacts DEF StoreInv, StoreTypeOK, Adds
<1>2. StoreTypeOK'
  BY <1>1, FailsType DEF StoreInv, StoreTypeOK, Adds
<1>3. \A s \in Threads : AddRight(s)'
  BY NoAddFacts DEF StoreInv, StoreTypeOK, AddRight
<1>4. ChannelsOwned'
  BY DEF StoreInv, ChannelsOwned
<1> QED
  BY <1>2, <1>3, <1>4 DEF StoreInv

\* The numbers are read, and what is to be inserted is all that is new.
LEMMA AddReadStep == ASSUME StoreInv, NEW t \in Threads, AddRead(t) PROVE StoreInv'
<1> DEFINE a == add[t]
           new == NewNumbers(channels[a.name], a.sum)
<1>1. a \in Adds /\ a.at = "read" /\ a.name \in Names
  BY DEF StoreInv, StoreTypeOK, AddRight, AddRead, Adds
<1>2. channels[a.name] \in SUBSET Numbers /\ a.sum \in Nat
  BY <1>1, DeviceStoreAssumption DEF StoreInv, StoreTypeOK, Adds
<1>3. new \subseteq Nat \ {0}
  BY <1>2, NewNumbersRight
<1>4. CASE \E c \in new : c > Limit
  <2>1. add' = [add EXCEPT ![t] = NoAdd]
    BY <1>4 DEF AddRead
  <2> QED
    BY <2>1, IdleStep DEF AddRead
<1>5. CASE ~ \E c \in new : c > Limit
  <2> DEFINE b == [a EXCEPT !.at = "insert", !.left = new, !.had = channels[a.name], !.alone = TRUE]
  <2>1. add' = [add EXCEPT ![t] = b]
    BY <1>5 DEF AddRead
  <2>2. new \subseteq Numbers
    BY <1>3, <1>5, DeviceStoreAssumption DEF Numbers
  <2> HIDE DEF new
  <2>3. b \in Adds /\ b.name = a.name /\ b.sum = a.sum /\ b.had = channels[a.name]
        /\ b.left = new /\ b.at = "insert"
    BY <1>1, <1>2, <2>2 DEF Adds
  <2>4. Undisturbed(b, channels[b.name])
    BY <2>3 DEF Undisturbed, new
  <2> HIDE DEF b
  <2>5. add' \in [Threads -> Adds]
    BY <2>1, <2>3 DEF StoreInv, StoreTypeOK, Adds
  <2>6. UNCHANGED <<bound, channels, adds, fails, torn>>
    BY DEF AddRead
  <2>7. AddRight(t)'
    BY <1>1, <2>1, <2>3, <2>4, <2>6 DEF AddRight, StoreInv, StoreTypeOK
  <2>8. \A s \in Threads \ {t} : AddRight(s)'
    BY <2>1, <2>6 DEF AddRight, StoreInv, StoreTypeOK
  <2> QED
    BY <2>5, <2>6, <2>7, <2>8 DEF StoreInv, StoreTypeOK, ChannelsOwned, Adds
<1> QED
  BY <1>4, <1>5

\* A row is inserted.  For whoever else adds to the same name it is a disturbance.
LEMMA AddInsertStep == ASSUME StoreInv, NEW t \in Threads, AddInsert(t) PROVE StoreInv'
<1> DEFINE a == add[t]
           c == Min(a.left)
           b == [a EXCEPT !.left = @ \ {c}]
           d == Disturb({a.name}, t)
<1>1. /\ a \in Adds /\ a.at = "insert" /\ a.left # {} /\ a.name \in Names
      /\ a.left \in SUBSET Nat
  BY DeviceStoreAssumption DEF StoreInv, StoreTypeOK, AddRight, AddInsert, Adds, Numbers
<1>2. c \in a.left
  <2>1. \E x \in a.left : \A y \in a.left : x <= y
    BY <1>1, Least
  <2> QED
    BY <2>1 DEF Min
<1>3. c \in Numbers
  BY <1>1, <1>2 DEF Adds
<1> HIDE DEF c
<1>4. /\ channels' = [channels EXCEPT ![a.name] = @ \cup {c}]
      /\ add' = [d EXCEPT ![t] = b]
      /\ torn' = IF a.name \in bound THEN torn ELSE torn \cup {a.name}
      /\ UNCHANGED <<bound, adds, fails>>
  BY DEF AddInsert, c
<1>5. /\ d \in [Threads -> Adds]
      /\ \A s \in Threads :
            /\ d[s].at = add[s].at /\ d[s].name = add[s].name /\ d[s].left = add[s].left
            /\ d[s].alone => d[s] = add[s] /\ (s = t \/ add[s].name \notin {a.name} \/ ~ add[s].alone)
  BY <1>1, DisturbFacts DEF StoreInv
<1> HIDE DEF d
<1>6. /\ b \in Adds /\ b.at = a.at /\ b.name = a.name /\ b.sum = a.sum /\ b.had = a.had
      /\ b.alone = a.alone /\ b.left = a.left \ {c}
  BY <1>1 DEF Adds
<1> HIDE DEF b
<1>7. add' \in [Threads -> Adds] /\ add'[t] = b /\ \A s \in Threads \ {t} : add'[s] = d[s]
  BY <1>4, <1>5, <1>6
<1>8. channels' \in [Names -> SUBSET Numbers]
  BY <1>1, <1>3, <1>4 DEF StoreInv, StoreTypeOK
<1>9. StoreTypeOK'
  BY <1>1, <1>4, <1>7, <1>8 DEF StoreInv, StoreTypeOK, Adds
<1>10. ChannelsOwned'
  BY <1>1, <1>4 DEF StoreInv, StoreTypeOK, ChannelsOwned
<1>11. AddRight(t)'
  <2>1. ASSUME b.alone PROVE Undisturbed(b, channels'[b.name])
    <3>1. Undisturbed(a, channels[a.name])
      BY <1>1, <1>6, <2>1 DEF StoreInv, AddRight
    <3>2. channels'[a.name] = channels[a.name] \cup {c}
      BY <1>1, <1>4 DEF StoreInv, StoreTypeOK
    <3>3. NewNumbers(b.had, b.sum) = NewNumbers(a.had, a.sum)
      BY <1>6
    <3> QED
      BY <1>2, <1>6, <3>1, <3>2, <3>3 DEF Undisturbed
  <2> QED
    BY <1>1, <1>6, <1>7, <2>1 DEF AddRight
<1>12. ASSUME NEW s \in Threads \ {t} PROVE AddRight(s)'
  <2>1. /\ add'[s].at = add[s].at /\ add'[s].name = add[s].name /\ add'[s].left = add[s].left
        /\ add'[s].alone => add'[s] = add[s] /\ add[s].name # a.name
    BY <1>5, <1>7
  <2>2. ASSUME add'[s].at \in {"insert", "answer"}, add'[s].alone
        PROVE  Undisturbed(add'[s], channels'[add'[s].name])
    <3>1. add'[s] = add[s] /\ add[s].name # a.name
      BY <2>1, <2>2
    <3>2. add[s].name \in Names
      BY <2>2, <3>1 DEF StoreInv, AddRight
    <3>3. channels'[add[s].name] = channels[add[s].name]
      BY <1>1, <1>4, <3>1, <3>2 DEF StoreInv, StoreTypeOK
    <3> QED
      BY <2>2, <3>1, <3>3 DEF StoreInv, AddRight
  <2> QED
    BY <2>1, <2>2 DEF StoreInv, AddRight
<1> QED
  BY <1>9, <1>10, <1>11, <1>12 DEF StoreInv

LEMMA AddFailsStep == ASSUME StoreInv, NEW t \in Threads, AddFails(t) PROVE StoreInv'
BY IdleStep DEF AddFails

\* The loop over what is to be inserted ends when nothing is left.
LEMMA AddEndsStep == ASSUME StoreInv, NEW t \in Threads, AddEnds(t) PROVE StoreInv'
<1> DEFINE a == add[t]
           b == [a EXCEPT !.at = "answer"]
<1>1. a \in Adds /\ a.at = "insert" /\ a.left = {}
  BY DEF StoreInv, StoreTypeOK, AddEnds, Adds
<1>2. /\ b \in Adds /\ b.at = "answer" /\ b.name = a.name /\ b.sum = a.sum /\ b.had = a.had
      /\ b.alone = a.alone /\ b.left = a.left
  BY <1>1 DEF Adds
<1>3. add' = [add EXCEPT ![t] = b] /\ UNCHANGED <<bound, channels, adds, fails, torn>>
  BY DEF AddEnds
<1> HIDE DEF b
<1>4. add' \in [Threads -> Adds] /\ add'[t] = b /\ \A s \in Threads \ {t} : add'[s] = add[s]
  BY <1>2, <1>3 DEF StoreInv, StoreTypeOK, Adds
<1>5. AddRight(t)'
  BY <1>1, <1>2, <1>3, <1>4 DEF StoreInv, AddRight, Undisturbed
<1>6. \A s \in Threads \ {t} : AddRight(s)'
  BY <1>3, <1>4 DEF StoreInv, AddRight
<1> QED
  BY <1>3, <1>4, <1>5, <1>6 DEF StoreInv, StoreTypeOK, ChannelsOwned, Adds

LEMMA AddStepInv == ASSUME StoreInv, NEW t \in Threads, AddStep(t) PROVE StoreInv'
<1>1. ASSUME AddAnswers(t) PROVE StoreInv'
  BY <1>1, IdleStep DEF AddAnswers
<1> QED
  BY <1>1, AddReadStep, AddInsertStep, AddFailsStep, AddEndsStep DEF AddStep

\* What is inserted, when nobody has disturbed it and nothing is left, is what the
\* loops have computed.
LEMMA AddedRight == StoreInv => AddedAsAsked
<1> SUFFICES ASSUME StoreInv, NEW t \in Threads, add[t].at = "answer", add[t].alone
             PROVE  LET a == add[t]
                        new == channels[a.name] \ a.had
                    IN  /\ a.had \subseteq channels[a.name]
                        /\ Cardinality(new) >= a.sum
                        /\ \A c \in new : 1 .. c \subseteq channels[a.name]
  BY DEF AddedAsAsked
<1> DEFINE a == add[t]
           new == NewNumbers(a.had, a.sum)
<1>1. a.had \in SUBSET Numbers /\ a.sum \in Nat
  BY DeviceStoreAssumption DEF StoreInv, StoreTypeOK
<1>2. a.left = {} /\ Undisturbed(a, channels[a.name])
  BY DEF StoreInv, AddRight
<1>3. channels[a.name] = a.had \cup new
  BY <1>2 DEF Undisturbed
<1>4. /\ new \cap a.had = {}
      /\ Cardinality(new) >= a.sum
      /\ \A c \in new : 1 .. c \subseteq a.had \cup new
  <2> DEFINE had == a.had
             sum == a.sum
  <2>1. had \in SUBSET Numbers /\ sum \in Nat
    BY <1>1
  <2> HIDE DEF had, sum
  <2>2. LET added == NewNumbers(had, sum) IN
        /\ added \cap had = {}
        /\ Cardinality(added) >= sum
        /\ \A c \in added : 1 .. c \subseteq had \cup added
    BY <2>1, NewNumbersRight
  <2> QED
    BY <2>2 DEF had, sum
<1> HIDE DEF a, new
<1>5. channels[a.name] \ a.had = new
  BY <1>3, <1>4
<1> QED
  BY <1>3, <1>4, <1>5 DEF a

(***************************************************************************)
(* The accounts.  Rows are moved to a name that an account has, or that    *)
(* somebody has acted for after it was changed.                            *)
(***************************************************************************)

RenRight(t) ==
    LET r == ren[t] IN
    /\ r.at # "idle" => {r.old, r.new} \subseteq Names
    /\ r.at = "devices" => account[r.new] # Nil \/ r.new \in outlived

Rens == [at : {"idle", "users", "devices", "note"}, old : Names \cup {Nil}, new : Names \cup {Nil}]

AccountTypeOK ==
    /\ account \in [Names -> Persons \cup {Nil}]
    /\ session \in [Persons -> Names \cup {Nil}]
    /\ ren \in [Renamers -> Rens]
    /\ renames \in 0 .. MaxRenames
    /\ noted \subseteq Names \X Names
    /\ locked \in BOOLEAN
    /\ outlived \subseteq Names
    /\ lost \subseteq Names

AccountInv == AccountTypeOK /\ RowsFollow /\ \A t \in Renamers : RenRight(t)

Inv == StoreInv /\ AccountInv

LEMMA InitInv == Init => Inv
<1> SUFFICES ASSUME Init PROVE Inv
  OBVIOUS
<1>1. StoreInv
  BY InitStore DEF Init
<1>2. NoRen \in Rens /\ NoRen.at = "idle"
  BY DEF NoRen, Rens
<1>3. AccountTypeOK
  <2>1. locked \in BOOLEAN /\ noted \subseteq Names \X Names
        /\ outlived \subseteq Names /\ lost \subseteq Names
    BY DEF Init
  <2>2. ren \in [Renamers -> Rens]
    <3>1. ren = [t \in Renamers |-> NoRen]
      BY DEF Init
    <3> QED
      BY <1>2, <3>1
  <2>3. renames \in 0 .. MaxRenames
    BY AccountsAssumption DEF Init
  <2>4. account \in [Names -> Persons \cup {Nil}] /\ session \in [Persons -> Names \cup {Nil}]
    BY DEF Init
  <2> QED
    BY <2>1, <2>2, <2>3, <2>4 DEF AccountTypeOK
<1>4. RowsFollow
  BY DEF Init, StoreInit, RowsFollow
<1>5. \A t \in Renamers : RenRight(t)
  BY <1>2 DEF Init, RenRight
<1> QED
  BY <1>1, <1>3, <1>4, <1>5 DEF Inv, AccountInv

LEMMA TypeIs == StoreTypeOK /\ AccountTypeOK <=> TypeOK
BY DEF TypeOK, AccountTypeOK, Rens

\* Nothing of the devices' tables has changed.
LEMMA KeepsStore == ASSUME StoreInv, UNCHANGED storeVars PROVE StoreInv'
BY DEF storeVars, StoreInv, StoreTypeOK, ChannelsOwned, AddRight

\* A statement has failed, and the devices' tables are as they were.
LEMMA FailsStore ==
  ASSUME StoreInv, UNCHANGED fails \/ SqlFails, UNCHANGED <<bound, channels, add, adds, torn>>
  PROVE  StoreInv'
<1>1. StoreTypeOK'
  BY FailsType DEF StoreInv, StoreTypeOK
<1> QED
  BY <1>1 DEF StoreInv, ChannelsOwned, AddRight

LEMMA RegisterStep ==
  ASSUME Inv, NEW p \in Persons, NEW n \in Names, Register(p, n) \/ Login(p, n)
  PROVE  Inv'
<1>1. StoreInv'
  BY KeepsStore DEF Inv, Register, Login, KeepStore
<1>2. /\ account' \in [Names -> Persons \cup {Nil}]
      /\ \A m \in Names : account[m] # Nil => account'[m] # Nil
  BY AccountsAssumption DEF Inv, AccountInv, AccountTypeOK, Register, Login
<1>3. session' \in [Persons -> Names \cup {Nil}]
  BY DEF Inv, AccountInv, AccountTypeOK, Register, Login
<1>4. UNCHANGED <<bound, ren, renames, noted, locked, outlived, lost>>
  BY DEF Register, Login, KeepStore, KeepRen, storeVars
<1>5. AccountTypeOK' /\ \A t \in Renamers : RenRight(t)'
  BY <1>2, <1>3, <1>4 DEF Inv, AccountInv, AccountTypeOK, RenRight
<1>6. RowsFollow'
  BY <1>2, <1>4 DEF Inv, AccountInv, RowsFollow, StoreInv, StoreTypeOK
<1> QED
  BY <1>1, <1>5, <1>6 DEF Inv, AccountInv

\* What is done for the name in a session leaves rows with a name that the person's
\* account has, or that is outlived.
LEMMA RequestStep == ASSUME Inv, NEW p \in Persons, Request(p) PROVE Inv'
<1> DEFINE n == session[p]
<1>1. n \in Names
  BY DEF Inv, AccountInv, AccountTypeOK, Request
<1>2. /\ UNCHANGED <<account, session, ren, renames, noted, locked, lost>>
      /\ outlived' = OutlivedBy(p)
  BY DEF Request, KeepRen
<1>3. \/ Bind(n)
      \/ RemoveBind(n)
      \/ \E c \in Numbers : DeleteChannel(n, c)
      \/ \E t \in Threads, sum \in Numbers : AddTake(t, n, sum)
  BY DEF Request
<1>4. StoreInv'
  BY <1>1, <1>3, BindStep, RemoveBindStep, DeleteChannelStep, AddTakeStep DEF Inv
<1>5. bound' \subseteq bound \cup {n}
  BY <1>3 DEF Bind, RemoveBind, DeleteChannel, AddTake
<1>6. outlived \subseteq outlived' /\ outlived' \subseteq Names /\ (account[n] # Nil \/ n \in outlived')
  BY <1>1, <1>2, AccountsAssumption DEF Inv, AccountInv, AccountTypeOK, OutlivedBy
<1>7. AccountTypeOK' /\ \A t \in Renamers : RenRight(t)'
  BY <1>2, <1>6 DEF Inv, AccountInv, AccountTypeOK, RenRight
<1>8. RowsFollow'
  BY <1>2, <1>5, <1>6 DEF Inv, AccountInv, RowsFollow
<1> QED
  BY <1>4, <1>7, <1>8 DEF Inv, AccountInv

\* The new state of one change of a name; the others are as they were.
LEMMA RenType ==
  ASSUME AccountTypeOK, NEW t \in Renamers, NEW r \in Rens, ren' = [ren EXCEPT ![t] = r]
  PROVE  ren' \in [Renamers -> Rens] /\ ren'[t] = r /\ \A u \in Renamers \ {t} : ren'[u] = ren[u]
BY DEF AccountTypeOK

LEMMA RenameTakeStep ==
  ASSUME Inv, NEW t \in Renamers, NEW p \in Persons, NEW n \in Names, RenameTake(t, p, n)
  PROVE  Inv'
<1> DEFINE r == [at |-> "users", old |-> session[p], new |-> n]
<1>1. r \in Rens /\ r.at = "users" /\ r.old \in Names /\ r.new \in Names
  BY DEF Inv, AccountInv, AccountTypeOK, RenameTake, Rens
<1>2. /\ ren[t].at = "idle" /\ ren' = [ren EXCEPT ![t] = r]
      /\ UNCHANGED <<account, session, noted, locked, outlived, lost, bound>>
      /\ renames' \in 0 .. MaxRenames
  BY AccountsAssumption DEF RenameTake, KeepStore, storeVars, NoRen, Inv, AccountInv, AccountTypeOK
<1>3. StoreInv'
  BY KeepsStore DEF RenameTake, KeepStore, Inv
<1> HIDE DEF r
<1>4. ren' \in [Renamers -> Rens] /\ ren'[t] = r /\ \A u \in Renamers \ {t} : ren'[u] = ren[u]
  BY <1>1, <1>2, RenType DEF Inv, AccountInv
<1>5. AccountTypeOK'
  BY <1>2, <1>4 DEF Inv, AccountInv, AccountTypeOK
<1>6. \A u \in Renamers : RenRight(u)'
  BY <1>1, <1>2, <1>4 DEF Inv, AccountInv, RenRight
<1>7. RowsFollow'
  BY <1>2, <1>4 DEF Inv, AccountInv, RowsFollow
<1> QED
  BY <1>3, <1>5, <1>6, <1>7 DEF Inv, AccountInv

LEMMA ResetPasswordStep ==
  ASSUME Inv, NEW t \in Renamers, NEW p \in Persons, NEW n \in Names, ResetPassword(t, p, n)
  PROVE  Inv'
<1> DEFINE r == [at |-> "devices", old |-> n, new |-> session[p]]
<1>1. r \in Rens /\ r.at = "devices" /\ r.old \in Names /\ r.new \in Names /\ (account[r.new] # Nil \/ r.new \in outlived')
  BY AccountsAssumption DEF Inv, AccountInv, AccountTypeOK, ResetPassword, OutlivedBy, Rens
<1>2. /\ ren[t].at = "idle" /\ ren' = [ren EXCEPT ![t] = r]
      /\ UNCHANGED <<account, session, noted, locked, lost, bound>>
      /\ outlived \subseteq outlived' /\ outlived' \subseteq Names
      /\ renames' \in 0 .. MaxRenames
  BY AccountsAssumption DEF ResetPassword, OutlivedBy, KeepStore, storeVars, NoRen, Inv, AccountInv, AccountTypeOK
<1>3. StoreInv'
  BY KeepsStore DEF ResetPassword, KeepStore, Inv
<1> HIDE DEF r
<1>4. ren' \in [Renamers -> Rens] /\ ren'[t] = r /\ \A u \in Renamers \ {t} : ren'[u] = ren[u]
  BY <1>1, <1>2, RenType DEF Inv, AccountInv
<1>5. AccountTypeOK'
  BY <1>2, <1>4 DEF Inv, AccountInv, AccountTypeOK
<1>6. \A u \in Renamers : RenRight(u)'
  BY <1>1, <1>2, <1>4 DEF Inv, AccountInv, RenRight
<1>7. RowsFollow'
  BY <1>2, <1>4 DEF Inv, AccountInv, RowsFollow
<1> QED
  BY <1>3, <1>5, <1>6, <1>7 DEF Inv, AccountInv

\* The account's name changes and its rows do not, yet: this change still has them
\* to move.  A change that was to move rows to the old name has been overtaken.
LEMMA RenameUsersStep == ASSUME Inv, NEW t \in Renamers, RenameUsers(t) PROVE Inv'
<1> DEFINE o == ren[t]
           r == [o EXCEPT !.at = "devices"]
<1>1. o \in Rens /\ o.at = "users" /\ o.old \in Names /\ o.new \in Names
  BY DEF Inv, AccountInv, AccountTypeOK, RenRight, RenameUsers
<1>2. r \in Rens /\ r.at = "devices" /\ r.old = o.old /\ r.new = o.new
  BY <1>1 DEF Rens
<1>3. ren' = [ren EXCEPT ![t] = r] /\ UNCHANGED <<session, renames, noted, locked, lost, bound>>
  BY DEF RenameUsers, KeepStore, storeVars
<1>4. StoreInv'
  BY KeepsStore DEF RenameUsers, KeepStore, Inv
<1> HIDE DEF r
<1>5. ren' \in [Renamers -> Rens] /\ ren'[t] = r /\ \A u \in Renamers \ {t} : ren'[u] = ren[u]
  BY <1>2, <1>3, RenType DEF Inv, AccountInv
<1>6. /\ outlived \subseteq outlived' /\ outlived' \subseteq Names
      /\ account' \in [Names -> Persons \cup {Nil}]
      /\ \A n \in Names \ {o.old} : account[n] # Nil => account'[n] # Nil
      /\ account'[o.new] # Nil \/ o.new \in outlived'
  BY <1>1, AccountsAssumption DEF RenameUsers, Inv, AccountInv, AccountTypeOK
<1>7. AccountTypeOK'
  BY <1>3, <1>5, <1>6 DEF Inv, AccountInv, AccountTypeOK
<1>8. RowsFollow'
  <2> SUFFICES ASSUME NEW n \in bound' \ outlived'
               PROVE  \/ account'[n] # Nil
                      \/ \E u \in Renamers : ren'[u].at \in {"devices", "note"}
                                             /\ ren'[u].old = n /\ ren'[u].new # n
                      \/ \E m \in Names \ {n} : <<n, m>> \in noted'
                      \/ n \in lost'
    BY DEF RowsFollow
  <2>1. CASE n = o.old /\ o.new # n
    BY <1>2, <1>5, <2>1
  <2>3. CASE n = o.old /\ o.new = n
    BY <1>6, <2>3
  <2>2. CASE n # o.old
    <3>1. n \in bound \ outlived /\ n \in Names
      BY <1>3, <1>6 DEF Inv, StoreInv, StoreTypeOK
    <3>2. CASE account[n] # Nil
      BY <1>6, <2>2, <3>1, <3>2
    <3>3. CASE \E u \in Renamers : /\ ren[u].at \in {"devices", "note"}
                                  /\ ren[u].old = n /\ ren[u].new # n
      BY <1>1, <1>5, <3>3
    <3>4. CASE n \in lost \/ \E m \in Names \ {n} : <<n, m>> \in noted
      BY <1>3, <3>4
    <3> QED
      BY <3>1, <3>2, <3>3, <3>4 DEF Inv, AccountInv, RowsFollow
  <2> QED
    BY <2>1, <2>2, <2>3
<1>9. RenRight(t)'
  BY <1>1, <1>2, <1>5, <1>6 DEF RenRight
<1>10. ASSUME NEW u \in Renamers \ {t} PROVE RenRight(u)'
  <2>1. RenRight(u) /\ ren'[u] = ren[u]
    BY <1>5 DEF Inv, AccountInv
  <2>2. ASSUME ren[u].at = "devices" PROVE account'[ren[u].new] # Nil \/ ren[u].new \in outlived'
    <3>1. ren[u].new \in Names /\ (account[ren[u].new] # Nil \/ ren[u].new \in outlived)
      BY <2>1, <2>2 DEF RenRight
    <3>2. CASE ren[u].new = o.old
      <4>1. MovesTo(o.old)
        BY <2>2, <3>2 DEF MovesTo
      <4>2. CASE account[o.old] # Nil
        <5>1. o.old \in outlived'
          BY <4>1, <4>2 DEF RenameUsers
        <5> QED
          BY <3>2, <5>1
      <4>3. CASE account[o.old] = Nil
        BY <1>6, <3>1, <3>2, <4>3
      <4> QED
        BY <4>2, <4>3
    <3>3. CASE ren[u].new # o.old
      BY <1>6, <3>1, <3>3
    <3> QED
      BY <3>2, <3>3
  <2> QED
    BY <2>1, <2>2 DEF RenRight
<1> QED
  BY <1>4, <1>7, <1>8, <1>9, <1>10 DEF Inv, AccountInv

\* A change of a name that leaves accounts and rows alone, and that gives up the rows
\* it had to move only when they are noted or lost.
LEMMA RenStep ==
  ASSUME Inv, NEW t \in Renamers, NEW r \in Rens, ren' = [ren EXCEPT ![t] = r],
         ren[t].at # "idle",
         r = NoRen \/ (r.at = "note" /\ r.old = ren[t].old /\ r.new = ren[t].new),
         UNCHANGED <<bound, channels, add, adds, torn, account, session, renames>>,
         UNCHANGED fails \/ SqlFails,
         UNCHANGED outlived, lost \subseteq lost', lost' \subseteq Names,
         noted \subseteq noted', noted' \subseteq Names \X Names, locked' \in BOOLEAN,
         ren[t].at \in {"devices", "note"} /\ r.at = "idle" =>
             ren[t].old \in lost' \/ <<ren[t].old, ren[t].new>> \in noted'
  PROVE  Inv'
<1>1. StoreInv'
  BY FailsStore DEF Inv
<1>2. ren' \in [Renamers -> Rens] /\ ren'[t] = r /\ \A u \in Renamers \ {t} : ren'[u] = ren[u]
  BY RenType DEF Inv, AccountInv
<1>3. r.at \in {"idle", "note"}
  BY DEF NoRen
<1>4. AccountTypeOK'
  BY <1>2 DEF Inv, AccountInv, AccountTypeOK
<1>5. RenRight(t) /\ RenRight(t)'
  <2>1. RenRight(t)
    BY DEF Inv, AccountInv
  <2> QED
    BY <1>2, <2>1 DEF RenRight, NoRen
<1>6. \A u \in Renamers \ {t} : RenRight(u)'
  BY <1>2 DEF Inv, AccountInv, RenRight
<1>7. RowsFollow'
  <2> SUFFICES ASSUME NEW n \in bound' \ outlived'
               PROVE  \/ account'[n] # Nil
                      \/ \E u \in Renamers : ren'[u].at \in {"devices", "note"}
                                             /\ ren'[u].old = n /\ ren'[u].new # n
                      \/ \E m \in Names \ {n} : <<n, m>> \in noted'
                      \/ n \in lost'
    BY DEF RowsFollow
  <2>1. n \in bound \ outlived
    OBVIOUS
  <2>2. CASE account[n] # Nil
    BY <2>2
  <2>3. CASE n \in lost \/ \E m \in Names \ {n} : <<n, m>> \in noted
    BY <2>3
  <2>4. ASSUME NEW u \in Renamers, ren[u].at \in {"devices", "note"}, ren[u].old = n,
               ren[u].new # n
        PROVE  \/ \E v \in Renamers : /\ ren'[v].at \in {"devices", "note"}
                                       /\ ren'[v].old = n /\ ren'[v].new # n
               \/ \E m \in Names \ {n} : <<n, m>> \in noted'
               \/ n \in lost'
    <3>1. CASE u # t
      BY <1>2, <2>4, <3>1
    <3>2. CASE u = t /\ r.at = "note"
      BY <1>2, <2>4, <3>2 DEF NoRen
    <3>3. CASE u = t /\ r.at = "idle"
      BY <1>5, <2>4, <3>3 DEF RenRight
    <3> QED
      BY <1>3, <3>1, <3>2, <3>3
  <2> QED
    BY <2>1, <2>2, <2>3, <2>4 DEF Inv, AccountInv, RowsFollow
<1> QED
  BY <1>1, <1>4, <1>5, <1>6, <1>7 DEF Inv, AccountInv

LEMMA NoRenFacts == NoRen \in Rens /\ NoRen.at = "idle"
BY DEF NoRen, Rens

LEMMA RenameUsersFailsStep == ASSUME Inv, NEW t \in Renamers, RenameUsersFails(t) PROVE Inv'
BY NoRenFacts, RenStep DEF RenameUsersFails, Inv, AccountInv, AccountTypeOK

LEMMA RenameDevicesFailsStep == ASSUME Inv, NEW t \in Renamers, RenameDevicesFails(t) PROVE Inv'
<1> DEFINE r == [ren[t] EXCEPT !.at = "note"]
<1>1. ren[t] \in Rens /\ ren[t].at = "devices"
  BY DEF Inv, AccountInv, AccountTypeOK, RenameDevicesFails
<1>2. r \in Rens /\ r.at = "note" /\ r.old = ren[t].old /\ r.new = ren[t].new
  BY <1>1 DEF Rens
<1>3. ren' = [ren EXCEPT ![t] = r] /\ (UNCHANGED fails \/ SqlFails)
      /\ UNCHANGED <<bound, channels, add, adds, torn, account, session, renames, noted, locked, outlived, lost>>
  BY DEF RenameDevicesFails
<1> HIDE DEF r
<1> QED
  BY <1>1, <1>2, <1>3, RenStep DEF Inv, AccountInv, AccountTypeOK

LEMMA RenameUnconnectedStep == ASSUME Inv, NEW t \in Renamers, RenameUnconnected(t) PROVE Inv'
<1>1. ren[t].at = "devices" /\ ren[t].old \in Names
  BY DEF RenameUnconnected, Inv, AccountInv, RenRight
<1> QED
  BY <1>1, NoRenFacts, RenStep DEF RenameUnconnected, Inv, AccountInv, AccountTypeOK

LEMMA RenameNotesStep == ASSUME Inv, NEW t \in Renamers, RenameNotes(t) PROVE Inv'
<1>1. ren[t].at = "note" /\ ren[t].old \in Names /\ ren[t].new \in Names
  BY DEF RenameNotes, Inv, AccountInv, RenRight
<1>2. CASE noted' = noted \cup {<<ren[t].old, ren[t].new>>} /\ UNCHANGED <<fails, locked, lost>>
  <2>1. noted \subseteq noted' /\ noted' \subseteq Names \X Names
        /\ <<ren[t].old, ren[t].new>> \in noted'
    BY <1>1, <1>2 DEF Inv, AccountInv, AccountTypeOK
  <2>2. lost' \subseteq Names /\ locked' \in BOOLEAN
    BY <1>2 DEF Inv, AccountInv, AccountTypeOK
  <2>3. ren' = [ren EXCEPT ![t] = NoRen]
        /\ UNCHANGED <<bound, channels, add, adds, torn, account, session, renames, outlived>>
    BY DEF RenameNotes
  <2> QED
    BY <1>1, <1>2, <2>1, <2>2, <2>3, NoRenFacts, RenStep
<1>3. CASE SqlFails /\ locked' = TRUE /\ lost' = lost \cup {ren[t].old} /\ UNCHANGED noted
  BY <1>1, <1>3, NoRenFacts, RenStep DEF RenameNotes, Inv, AccountInv, AccountTypeOK
<1> QED
  BY <1>2, <1>3 DEF RenameNotes

\* The rows arrive at the new name.
LEMMA RenameDevicesStep == ASSUME Inv, NEW t \in Renamers, RenameDevices(t) PROVE Inv'
<1> DEFINE r == ren[t]
<1>1. r \in Rens /\ r.at = "devices" /\ r.old \in Names /\ r.new \in Names
      /\ (account[r.new] # Nil \/ r.new \in outlived)
  BY DEF RenameDevices, Inv, AccountInv, AccountTypeOK, RenRight
<1>2. /\ channels' = [channels EXCEPT ![r.old] = {}, ![r.new] = channels[r.old] \cup channels[r.new]]
      /\ bound' = IF r.old \in bound THEN (bound \ {r.old}) \cup {r.new} ELSE bound
      /\ torn' = IF r.old \in torn THEN (torn \ {r.old}) \cup {r.new} ELSE torn
      /\ add' = Disturb({r.old, r.new}, Nil)
      /\ ren' = [ren EXCEPT ![t] = NoRen]
      /\ UNCHANGED <<adds, fails, account, session, renames, noted, locked, outlived, lost>>
  BY DEF RenameDevices
<1>3. ren' \in [Renamers -> Rens] /\ ren'[t] = NoRen /\ \A u \in Renamers \ {t} : ren'[u] = ren[u]
  BY <1>2, NoRenFacts, RenType DEF Inv, AccountInv
<1> HIDE DEF r
<1>4. /\ channels' \in [Names -> SUBSET Numbers]
      /\ channels'[r.new] = channels[r.old] \cup channels[r.new]
      /\ r.old # r.new => channels'[r.old] = {}
      /\ \A n \in Names \ {r.old, r.new} : channels'[n] = channels[n]
  BY <1>1, <1>2 DEF Inv, StoreInv, StoreTypeOK
<1>5. add' \in [Threads -> Adds] /\ \A s \in Threads : AddRight(s)'
  <2> DEFINE both == {r.old, r.new}
  <2>1. both \in SUBSET Names /\ add' = Disturb(both, Nil)
        /\ \A n \in Names \ both : channels'[n] = channels[n]
    BY <1>1, <1>2, <1>4
  <2> HIDE DEF both
  <2> QED
    BY <2>1, DisturbRight DEF Inv, StoreInv
<1>6. StoreTypeOK'
  BY <1>1, <1>2, <1>4, <1>5 DEF Inv, StoreInv, StoreTypeOK, Adds
<1>7. ChannelsOwned'
  <2> SUFFICES ASSUME NEW n \in Names, channels'[n] # {} PROVE n \in bound' \/ n \in torn'
    BY DEF ChannelsOwned
  <2>1. \A m \in Names : channels[m] # {} => m \in bound \/ m \in torn
    BY DEF Inv, StoreInv, ChannelsOwned
  <2>2. CASE n = r.new
    <3>1. channels[r.old] # {} \/ channels[r.new] # {}
      BY <1>4, <2>2
    <3> QED
      BY <1>1, <1>2, <2>1, <2>2, <3>1
  <2>3. CASE n # r.new
    <3>1. n # r.old /\ channels[n] # {}
      BY <1>4, <2>3
    <3> QED
      BY <1>2, <2>1, <2>3, <3>1
  <2> QED
    BY <2>2, <2>3
<1>8. AccountTypeOK'
  BY <1>2, <1>3 DEF Inv, AccountInv, AccountTypeOK
<1>9. \A u \in Renamers : RenRight(u)'
  BY <1>2, <1>3, NoRenFacts DEF Inv, AccountInv, RenRight
<1>10. RowsFollow'
  <2> SUFFICES ASSUME NEW n \in bound' \ outlived'
               PROVE  \/ account'[n] # Nil
                      \/ \E u \in Renamers : ren'[u].at \in {"devices", "note"}
                                             /\ ren'[u].old = n /\ ren'[u].new # n
                      \/ \E m \in Names \ {n} : <<n, m>> \in noted'
                      \/ n \in lost'
    BY DEF RowsFollow
  <2>1. CASE n = r.new
    BY <1>1, <1>2, <2>1
  <2>2. CASE n # r.new
    <3>1. n \in bound \ outlived /\ n # r.old
      BY <1>2, <2>2
    <3>2. \A u \in Renamers : ren[u].old = n => u # t
      BY <3>1 DEF r
    <3> QED
      BY <1>2, <1>3, <3>1, <3>2 DEF Inv, AccountInv, RowsFollow
  <2> QED
    BY <2>1, <2>2
<1> QED
  BY <1>5, <1>6, <1>7, <1>8, <1>9, <1>10 DEF Inv, StoreInv, AccountInv

LEMMA NextInv == Inv /\ [Next]_vars => Inv'
<1> SUFFICES ASSUME Inv, [Next]_vars PROVE Inv'
  OBVIOUS
<1>1. ASSUME NEW p \in Persons, NEW n \in Names, Register(p, n) \/ Login(p, n) PROVE Inv'
  BY <1>1, RegisterStep
<1>2. ASSUME NEW p \in Persons, Request(p) PROVE Inv'
  BY <1>2, RequestStep
<1>3. ASSUME NEW t \in Threads, AddStep(t), UNCHANGED accountVars PROVE Inv'
  <2>1. StoreInv'
    BY <1>3, AddStepInv DEF Inv
  <2>2. UNCHANGED bound
    BY <1>3 DEF AddStep, AddRead, AddInsert, AddFails, AddEnds, AddAnswers
  <2> QED
    BY <1>3, <2>1, <2>2 DEF accountVars, Inv, AccountInv, AccountTypeOK, RowsFollow, RenRight
<1>4. ASSUME NEW t \in Renamers, RenameStep(t) PROVE Inv'
  BY <1>4, RenameTakeStep, ResetPasswordStep, RenameUsersStep, RenameUsersFailsStep,
     RenameDevicesStep, RenameDevicesFailsStep, RenameUnconnectedStep, RenameNotesStep
     DEF RenameStep
<1>5. CASE UNCHANGED vars
  <2>1. StoreInv'
    BY <1>5, KeepsStore DEF Inv, vars
  <2> QED
    BY <1>5, <2>1 DEF vars, storeVars, accountVars, Inv, AccountInv, AccountTypeOK, RowsFollow, RenRight
<1> QED
  BY <1>1, <1>2, <1>3, <1>4, <1>5 DEF Next

LEMMA SpecInv == Spec => []Inv
BY InitInv, NextInv, PTL DEF Spec

\* Accounts, sessions, rows and changes on their way keep their types; in it, that
\* no channel has a number beyond the limit, which the loops look at before the
\* first insert.
THEOREM TypeCorrect == Spec => []TypeOK
<1>1. Inv => TypeOK
  BY TypeIs DEF Inv, StoreInv, AccountInv
<1> QED
  BY <1>1, SpecInv, PTL

\* Channels belong to who has the device, whatever is bound, given up, added and
\* renamed at the same time: but for the removals that have failed halfway.
THEOREM ChannelsOwnedHolds == Spec => []ChannelsOwned
<1>1. Inv => ChannelsOwned
  BY DEF Inv, StoreInv
<1> QED
  BY <1>1, SpecInv, PTL

\* Who is told SUCCESS has the channels asked for, without gaps below them, for any
\* limit and any channels there were.
THEOREM AddedAsAskedHolds == Spec => []AddedAsAsked
<1>1. Inv => AddedAsAsked
  BY AddedRight DEF Inv
<1> QED
  BY <1>1, SpecInv, PTL

\* The rows of a device follow the account whose name is changed, for any number of
\* changes at once, and a statement that fails is noted: what RowsFollow names is all
\* that can leave rows with a name that is nobody's.
THEOREM RowsFollowHolds == Spec => []RowsFollow
<1>1. Inv => RowsFollow
  BY DEF Inv, AccountInv
<1> QED
  BY <1>1, SpecInv, PTL

=============================================================================
