--------------------------- MODULE DispatchProofs ---------------------------
(* Proofs about logicDispatch: the type invariant, the ownership of         *)
(* descriptors, and the soundness of SendToClient's test.                   *)
EXTENDS Dispatch, SequenceTheorems, TLAPS

\* Facts about the queues the steps below need.
LEMMA AppendFacts ==
    ASSUME NEW S, NEW s \in Seq(S), NEW e \in S
    PROVE  /\ Append(s, e) \in Seq(S)
           /\ DOMAIN Append(s, e) = DOMAIN s \cup {Len(s) + 1}
           /\ Len(s) + 1 \notin DOMAIN s
           /\ \A i \in DOMAIN s : Append(s, e)[i] = s[i]
           /\ Append(s, e)[Len(s) + 1] = e
<1>1. /\ Len(s) \in Nat
      /\ DOMAIN s = 1 .. Len(s)
  BY LenProperties
<1>2. /\ Append(s, e) \in Seq(S)
      /\ Len(Append(s, e)) = Len(s) + 1
      /\ \A i \in 1 .. Len(s) : Append(s, e)[i] = s[i]
      /\ Append(s, e)[Len(s) + 1] = e
  BY AppendProperties
<1>3. DOMAIN Append(s, e) = 1 .. Len(s) + 1
  BY <1>2, LenProperties
<1> QED
  BY <1>1, <1>2, <1>3

LEMMA TailFacts ==
    ASSUME NEW S, NEW s \in Seq(S), s # <<>>
    PROVE  /\ Tail(s) \in Seq(S)
           /\ Head(s) \in S
           /\ 1 \in DOMAIN s
           /\ Head(s) = s[1]
           /\ \A i \in DOMAIN Tail(s) :
                 i \in Nat /\ i + 1 \in DOMAIN s /\ i + 1 # 1 /\ Tail(s)[i] = s[i + 1]
<1>1. /\ Len(s) \in Nat /\ Len(s) # 0
      /\ DOMAIN s = 1 .. Len(s)
  BY LenProperties, EmptySeq
<1>2. /\ Tail(s) \in Seq(S)
      /\ Head(s) \in S
      /\ Head(s) = s[1]
      /\ Len(Tail(s)) = Len(s) - 1
      /\ \A i \in 1 .. Len(Tail(s)) : Tail(s)[i] = s[i + 1]
  BY HeadTailProperties
<1>3. DOMAIN Tail(s) = 1 .. Len(s) - 1
  BY <1>2, LenProperties
<1> QED
  BY <1>1, <1>2, <1>3

-----------------------------------------------------------------------------
LEMMA IdArithmetic ==
    ASSUME NEW i \in Ids
    PROVE  NextId(i) \in Ids
BY DispatchAssumption DEF Ids, NextId

LEMMA WorkerArithmetic ==
    ASSUME NEW t \in -1 .. ThreadNum - 1
    PROVE  (t + 1) % ThreadNum \in Workers
BY DispatchAssumption DEF Workers

\* Type correctness.
LEMMA InitType == Init => TypeOK
<1> SUFFICES ASSUME Init PROVE TypeOK
  OBVIOUS
<1>1. 0 \in Workers /\ 0 \in Ids
  BY DispatchAssumption DEF Workers, Ids
<1> QED
  BY <1>1, EmptySeq, DispatchAssumption DEF Init, TypeOK, Stages

LEMMA NextType == TypeOK /\ OwnerInv /\ [Next]_vars => TypeOK'
<1> SUFFICES ASSUME TypeOK, OwnerInv, [Next]_vars PROVE TypeOK'
  OBVIOUS
<1> USE DEF TypeOK, kernelVars, masterVars, connVars, logicVars
<1>1. ASSUME NEW c \in Conns, NEW f \in Fds, MasterAccept(c, f) PROVE TypeOK'
  BY <1>1, IdArithmetic, DispatchAssumption DEF MasterAccept, Stages
<1>2. ASSUME NEW c \in Conns, MasterRefuse(c) PROVE TypeOK'
  BY <1>2 DEF MasterRefuse, Stages
<1>3. CASE MasterErase
  BY <1>3 DEF MasterErase
<1>4. CASE MasterInsert
  BY <1>4 DEF MasterInsert, MapInsert
<1>5. CASE MasterDispatch
  <2>1. lastThread' \in Workers
    BY <1>5, WorkerArithmetic DEF MasterDispatch
  <2>2. mconn \in Conns
    BY <1>5 DEF MasterDispatch
  <2>3. Append(queue[lastThread'], mconn) \in Seq(Conns)
    BY <2>1, <2>2, AppendFacts
  <2>4. queue' \in [Workers -> Seq(Conns)]
    BY <1>5, <2>1, <2>3 DEF MasterDispatch
  <2>5. worker' \in [Conns -> Workers] /\ lastThread' \in -1 .. ThreadNum - 1
    BY <1>5, <2>1, <2>2 DEF MasterDispatch, Workers
  <2> QED
    BY <1>5, <2>4, <2>5 DEF MasterDispatch, Stages
<1>6. ASSUME NEW w \in Workers, WorkerNew(w) PROVE TypeOK'
  <2>1. Head(queue[w]) \in Conns /\ Tail(queue[w]) \in Seq(Conns)
    BY <1>6, TailFacts DEF WorkerNew
  <2> QED
    BY <1>6, <2>1 DEF WorkerNew, Close, Stages
<1>7. ASSUME NEW c \in Conns, ConnStep(c) PROVE TypeOK'
  <2>1. CASE ReadToken(c)
    BY <2>1 DEF ReadToken
  <2>2. CASE ReadBadToken(c)
    BY <2>2 DEF ReadBadToken, Close, Stages
  <2>3. CASE ReadLine(c)
    <3>1. [fd |-> cfd[c], id |-> cid[c], conn |-> c] \in Requests
      BY <2>3 DEF ReadLine, Requests, OwnerInv, Live
    <3> QED
      BY <2>3, <3>1 DEF ReadLine
  <2>4. CASE ErrorErase(c)
    BY <2>4 DEF ErrorErase, Stages
  <2>5. CASE ErrorClose(c)
    BY <2>5 DEF ErrorClose, Close, Stages
  <2> QED
    BY <1>7, <2>1, <2>2, <2>3, <2>4, <2>5 DEF ConnStep
<1>8. CASE LogicStep
  <2>1. CASE LinkUp
    BY <2>1 DEF LinkUp
  <2>2. CASE LinkDown
    BY <2>2, EmptySeq DEF LinkDown
  <2>3. ASSUME NEW r \in Requests, LogicAnswer(r) PROVE TypeOK'
    BY <2>3, AppendFacts DEF LogicAnswer
  <2>4. CASE SendToClientCheck
    BY <2>4, TailFacts DEF SendToClientCheck
  <2>5. CASE SendToClientWrite
    BY <2>5 DEF SendToClientWrite, Requests
  <2> QED
    BY <1>8, <2>1, <2>2, <2>3, <2>4, <2>5 DEF LogicStep
<1>9. CASE UNCHANGED vars
  BY <1>9 DEF vars
<1> QED
  BY <1>1, <1>2, <1>3, <1>4, <1>5, <1>6, <1>7, <1>8, <1>9 DEF Next, MasterStep

-----------------------------------------------------------------------------
(* The ownership of descriptors: FdInv is inductive.                       *)

\* Two live connections never have the same descriptor.
LEMMA Distinct ==
    ASSUME OwnerInv, NEW c \in Conns, NEW d \in Conns, Live(c), Live(d), c # d
    PROVE  cfd[c] # cfd[d]
BY DEF OwnerInv

LEMMA InitFd == Init => FdInv
<1> SUFFICES ASSUME Init PROVE FdInv
  OBVIOUS
<1>1. TypeOK
  BY InitType
<1>2. OwnerInv
  BY DispatchAssumption DEF Init, OwnerInv, Live
<1>3. MasterInv /\ MapInv
  BY DEF Init, MasterInv, MapInv
<1>4. QueueInv
  BY DEF Init, QueueInv
<1> QED
  BY <1>1, <1>2, <1>3, <1>4 DEF FdInv

LEMMA AcceptFd ==
    ASSUME FdInv, TypeOK', NEW c \in Conns, NEW f \in Fds, MasterAccept(c, f)
    PROVE  FdInv'
<1> USE DEF FdInv, MasterAccept
<1>1. ~Live(c)
  BY DEF Live
<1>2. OwnerInv'
  BY <1>1, DispatchAssumption DEF OwnerInv, Live, TypeOK
<1>3. MasterInv'
  BY DEF MasterInv, TypeOK
<1>4. QueueInv'
  BY DEF QueueInv, TypeOK
<1>5. MapInv'
  BY DEF MapInv, TypeOK
<1> QED
  BY <1>2, <1>3, <1>4, <1>5

LEMMA RefuseFd ==
    ASSUME FdInv, TypeOK', NEW c \in Conns, MasterRefuse(c)
    PROVE  FdInv'
<1> USE DEF FdInv, MasterRefuse, kernelVars, masterVars, logicVars
<1>1. OwnerInv'
  BY DispatchAssumption DEF OwnerInv, Live, TypeOK
<1>2. MasterInv'
  BY DEF MasterInv, TypeOK
<1>3. QueueInv'
  BY DEF QueueInv, TypeOK
<1>4. MapInv'
  BY DEF MapInv, TypeOK
<1> QED
  BY <1>1, <1>2, <1>3, <1>4

LEMMA MapStepsFd ==
    ASSUME FdInv, TypeOK', MasterErase \/ MasterInsert
    PROVE  FdInv'
<1> USE DEF FdInv, connVars, logicVars, MasterErase, MasterInsert
<1>1. /\ mpc # "idle" /\ mpc' # "idle" /\ mconn \in Conns
      /\ st[mconn] = "accepting" /\ Live(mconn) /\ cfd[mconn] \in Fds
  BY DEF MasterInv, OwnerInv, Live
<1>2. OwnerInv'
  BY DEF OwnerInv, Live
<1>3. MasterInv' /\ QueueInv'
  BY <1>1 DEF MasterInv, QueueInv
<1>4. \A d \in Conns : st[d] \in {"queued", "open"} => cfd[d] # cfd[mconn]
  BY <1>1, Distinct DEF Live
<1>5. \A d \in Conns : st[d] \in {"queued", "open"} => cfd[d] \in Fds
  BY DEF OwnerInv, Live
<1>6. CASE MasterErase
  BY <1>1, <1>2, <1>3, <1>4, <1>5, <1>6 DEF MapInv, TypeOK
<1>7. CASE MasterInsert
  <2>1. mapId' = [mapId EXCEPT ![cfd[mconn]] = cid[mconn]]
    BY <1>7 DEF MapInv, MapInsert
  <2> QED
    BY <1>1, <1>2, <1>3, <1>4, <1>5, <1>7, <2>1 DEF MapInv, TypeOK
<1> QED
  BY <1>6, <1>7

LEMMA DispatchFd ==
    ASSUME FdInv, TypeOK', MasterDispatch
    PROVE  FdInv'
<1> USE DEF FdInv, MasterDispatch, kernelVars, logicVars
<1>1. /\ mconn \in Conns /\ st[mconn] = "accepting" /\ Live(mconn)
  BY DEF MasterInv, Live
<1>2. OwnerInv'
  BY <1>1 DEF OwnerInv, Live, TypeOK
<1>3. MasterInv'
  BY <1>1 DEF MasterInv, TypeOK
<1>4. QueueInv'
  <2> DEFINE t == lastThread'
             q == queue[t]
  <2>1. t \in Workers
    BY WorkerArithmetic DEF TypeOK
  <2>2. q \in Seq(Conns)
    BY <2>1 DEF TypeOK
  <2> HIDE DEF t
  <2>3. queue' = [queue EXCEPT ![t] = Append(q, mconn)]
    BY DEF t
  <2> HIDE DEF q
  <2>4. /\ DOMAIN Append(q, mconn) = DOMAIN q \cup {Len(q) + 1}
        /\ Len(q) + 1 \notin DOMAIN q
        /\ \A i \in DOMAIN q : Append(q, mconn)[i] = q[i]
        /\ Append(q, mconn)[Len(q) + 1] = mconn
    BY <1>1, <2>2, AppendFacts
  <2>5. \A v \in Workers : \A i \in DOMAIN queue[v] :
           queue[v][i] # mconn /\ queue[v][i] \in Conns
    BY <1>1, ElementOfSeq DEF QueueInv, TypeOK
  <2>6. \A v \in Workers : queue'[v] = IF v = t THEN Append(q, mconn) ELSE queue[v]
    BY <2>1, <2>3 DEF TypeOK
  <2>7. ASSUME NEW v \in Workers, NEW i \in DOMAIN queue'[v]
        PROVE  st'[queue'[v][i]] = "queued"
    BY <1>1, <2>4, <2>5, <2>6, <2>7 DEF QueueInv, TypeOK, q
  <2>8. ASSUME NEW v \in Workers, NEW u \in Workers,
               NEW i \in DOMAIN queue'[v], NEW j \in DOMAIN queue'[u],
               queue'[v][i] = queue'[u][j]
        PROVE  v = u /\ i = j
    BY <1>1, <2>4, <2>5, <2>6, <2>8 DEF QueueInv, q
  <2> QED
    BY <2>7, <2>8 DEF QueueInv
<1>5. MapInv'
  BY <1>1 DEF MapInv, TypeOK
<1> QED
  BY <1>2, <1>3, <1>4, <1>5

\* A connection that leaves the life of a worker's connections, in a step
\* that changes nothing else but what Close does, disturbs no other.
LEMMA CloseFd ==
    ASSUME FdInv, TypeOK', NEW c \in Conns, Live(c), st[c] # "accepting", Close(c),
           \A w \in Workers : \A i \in DOMAIN queue'[w] : st'[queue'[w][i]] = "queued",
           \A w, v \in Workers : \A i \in DOMAIN queue'[w], j \in DOMAIN queue'[v] :
               queue'[w][i] = queue'[v][j] => w = v /\ i = j,
           UNCHANGED <<mapId, masterVars, cfd, cid>>
    PROVE  FdInv'
<1> USE DEF FdInv, masterVars, Close
<1>1. cfd[c] \in Fds /\ fdOwner[cfd[c]] = c
  BY DEF OwnerInv
<1>2. OwnerInv'
  BY <1>1, DispatchAssumption DEF OwnerInv, Live, TypeOK
<1>3. MasterInv'
  BY DEF MasterInv, TypeOK
<1>4. MapInv'
  BY DEF MapInv, TypeOK
<1> QED
  BY <1>2, <1>3, <1>4 DEF QueueInv

LEMMA WorkerNewFd ==
    ASSUME FdInv, TypeOK', NEW w \in Workers, WorkerNew(w)
    PROVE  FdInv'
<1> DEFINE q == queue[w]
           c == Head(queue[w])
<1>1. q \in Seq(Conns) /\ q # <<>>
  BY DEF FdInv, TypeOK, WorkerNew
<1> HIDE DEF q
<1>2. /\ 1 \in DOMAIN q /\ Head(q) \in Conns /\ Head(q) = q[1]
      /\ \A i \in DOMAIN Tail(q) :
            i \in Nat /\ i + 1 \in DOMAIN q /\ i + 1 # 1 /\ Tail(q)[i] = q[i + 1]
  BY <1>1, TailFacts
<1>3. c = q[1] /\ c \in Conns /\ 1 \in DOMAIN queue[w] /\ st[c] = "queued" /\ Live(c)
  BY <1>2 DEF FdInv, QueueInv, Live, q
<1>4. \A v \in Workers : queue'[v] = IF v = w THEN Tail(q) ELSE queue[v]
  BY DEF WorkerNew, FdInv, TypeOK, q
<1> HIDE DEF c
\* Where an element of the new queues was before: never where c was.
<1>5. ASSUME NEW v \in Workers, NEW i \in DOMAIN queue'[v]
      PROVE  \E k \in DOMAIN queue[v] :
                /\ queue'[v][i] = queue[v][k]
                /\ queue[v][k] \in Conns /\ queue[v][k] # c
                /\ k = (IF v = w THEN i + 1 ELSE i)
  <2> DEFINE k == IF v = w THEN i + 1 ELSE i
  <2>1. k \in DOMAIN queue[v] /\ queue'[v][i] = queue[v][k] /\ (v = w => k # 1)
    BY <1>2, <1>4, <1>5 DEF q
  <2> HIDE DEF k
  <2>2. queue[v][k] \in Conns
    <3>1. queue[v] \in Seq(Conns)
      BY DEF FdInv, TypeOK
    <3> QED
      BY <2>1, <3>1, ElementOfSeq
  <2>3. queue[v][k] # c
    BY <1>3, <2>1 DEF FdInv, QueueInv, q
  <2> QED
    BY <2>1, <2>2, <2>3 DEF k
<1>6. ASSUME NEW v \in Workers, NEW u \in Workers,
             NEW i \in DOMAIN queue'[v], NEW j \in DOMAIN queue'[u],
             queue'[v][i] = queue'[u][j]
      PROVE  v = u /\ i = j
  <2>1. PICK k \in DOMAIN queue[v] :
           queue'[v][i] = queue[v][k] /\ k = (IF v = w THEN i + 1 ELSE i)
    BY <1>5
  <2>2. PICK l \in DOMAIN queue[u] :
           queue'[u][j] = queue[u][l] /\ l = (IF u = w THEN j + 1 ELSE j)
    BY <1>5
  <2>3. v = u /\ k = l
    <3>1. queue[v][k] = queue[u][l]
      BY <1>6, <2>1, <2>2
    <3>2. \A m, n \in Workers : \A a \in DOMAIN queue[m], b \in DOMAIN queue[n] :
              queue[m][a] = queue[n][b] => m = n /\ a = b
      BY DEF FdInv, QueueInv
    <3>3. \A a \in DOMAIN queue[v], b \in DOMAIN queue[u] :
              queue[v][a] = queue[u][b] => v = u /\ a = b
      BY <3>2
    <3> QED
      BY <3>1, <3>3
  <2>4. v = w => i \in Nat /\ j \in Nat
    BY <1>2, <1>4, <2>3
  <2> QED
    BY <2>1, <2>2, <2>3, <2>4
<1>7. /\ c \in Conns
      /\ \/ st' = [st EXCEPT ![c] = "open"] /\ UNCHANGED fdOwner
         \/ Close(c)
      /\ UNCHANGED <<mapId, masterVars, cfd, cid>>
  BY <1>3 DEF WorkerNew, c
<1>8. \A d \in Conns : d # c => st'[d] = st[d]
  BY <1>7 DEF FdInv, TypeOK, Close
<1>9. \A v \in Workers : \A i \in DOMAIN queue'[v] : st'[queue'[v][i]] = "queued"
  BY <1>5, <1>8 DEF FdInv, QueueInv
<1>10. CASE Close(c)
  BY <1>3, <1>6, <1>7, <1>9, <1>10, CloseFd
<1>11. CASE st' = [st EXCEPT ![c] = "open"] /\ UNCHANGED fdOwner
  <2> USE DEF FdInv, masterVars
  <2>1. OwnerInv'
    BY <1>3, <1>7, <1>11 DEF OwnerInv, Live, TypeOK
  <2>2. MasterInv' /\ MapInv'
    BY <1>3, <1>7, <1>11 DEF MasterInv, MapInv, TypeOK
  <2>3. QueueInv'
    BY <1>6, <1>9 DEF QueueInv
  <2> QED
    BY <2>1, <2>2, <2>3
<1> QED
  BY <1>7, <1>10, <1>11

LEMMA ConnStepFd ==
    ASSUME FdInv, TypeOK', NEW c \in Conns, ConnStep(c)
    PROVE  FdInv'
<1> USE DEF kernelVars, masterVars, connVars, logicVars
<1>1. CASE ReadToken(c) \/ ReadLine(c)
  BY <1>1 DEF ReadToken, ReadLine, FdInv, OwnerInv, Live, MasterInv, QueueInv, MapInv
<1>2. CASE ReadBadToken(c) \/ ErrorClose(c)
  <2>1. Live(c) /\ st[c] \notin {"accepting", "queued"} /\ Close(c)
    BY <1>2 DEF ReadBadToken, ErrorClose, Live
  <2>2. UNCHANGED <<mapId, masterVars, queue, cfd, cid>>
    BY <1>2 DEF ReadBadToken, ErrorClose
  <2>3. \A w \in Workers : \A i \in DOMAIN queue'[w] : st'[queue'[w][i]] = "queued"
    BY <2>1, <2>2 DEF Close, FdInv, QueueInv, TypeOK
  <2>4. \A w, v \in Workers : \A i \in DOMAIN queue'[w], j \in DOMAIN queue'[v] :
            queue'[w][i] = queue'[v][j] => w = v /\ i = j
    BY <2>2 DEF FdInv, QueueInv
  <2> QED
    BY <2>1, <2>2, <2>3, <2>4, CloseFd
<1>3. CASE ErrorErase(c)
  <2> USE <1>3 DEF ErrorErase, FdInv
  <2>1. /\ OwnerInv' /\ MasterInv' /\ QueueInv'
    BY DEF OwnerInv, Live, MasterInv, QueueInv, TypeOK
  <2>2. Live(c) /\ cfd[c] \in Fds
    BY DEF OwnerInv, Live
  <2>3. \A d \in Conns : d # c /\ Live(d) => cfd[d] # cfd[c]
    BY <2>2, Distinct
  <2>4. mpc # "idle" => Live(mconn) /\ mconn # c /\ mconn \in Conns
    BY DEF MasterInv, Live
  <2>5. MapInv'
    BY <2>2, <2>3, <2>4 DEF MapInv, Live, TypeOK
  <2> QED
    BY <2>1, <2>5
<1> QED
  BY <1>1, <1>2, <1>3 DEF ConnStep

LEMMA NextFd == FdInv /\ [Next]_vars => FdInv'
<1> SUFFICES ASSUME FdInv, [Next]_vars PROVE FdInv'
  OBVIOUS
<1>1. TypeOK'
  BY NextType DEF FdInv
<1>2. CASE MasterStep
  BY <1>1, <1>2, AcceptFd, RefuseFd, MapStepsFd, DispatchFd DEF MasterStep
<1>3. CASE \E w \in Workers : WorkerNew(w)
  BY <1>1, <1>3, WorkerNewFd
<1>4. CASE \E c \in Conns : ConnStep(c)
  BY <1>1, <1>4, ConnStepFd
<1>5. CASE LogicStep \/ UNCHANGED vars
  <2>1. UNCHANGED <<kernelVars, masterVars, queue, connVars>>
    BY <1>5 DEF LogicStep, LinkUp, LinkDown, LogicAnswer, SendToClientCheck,
                SendToClientWrite, vars
  <2> QED
    BY <1>1, <2>1 DEF FdInv, OwnerInv, Live, MasterInv, QueueInv, MapInv,
                      kernelVars, masterVars, connVars
<1> QED
  BY <1>2, <1>3, <1>4, <1>5 DEF Next

LEMMA FdInvariant == Spec => []FdInv
<1>1. Init => FdInv
  BY InitFd
<1>2. FdInv /\ [Next]_vars => FdInv'
  BY NextFd
<1> QED
  BY <1>1, <1>2, PTL DEF Spec

\* Every state of logicDispatch is well typed.
THEOREM TypeCorrect == Spec => []TypeOK
<1>1. FdInv => TypeOK
  BY DEF FdInv
<1> QED
  BY <1>1, FdInvariant, PTL

\* No descriptor of a live connection is closed or given away by another
\* thread, for any number of workers, descriptors and connections.
THEOREM FdExclusiveHolds == Spec => []FdExclusive
<1>1. FdInv => FdExclusive
  BY DEF FdInv, OwnerInv, FdExclusive
<1> QED
  BY <1>1, FdInvariant, PTL

\* Every connection a worker serves has its own id in map_csfd_id_, for any
\* interleaving of the master and the workers and any wrap of the ids.
THEOREM ReachableHolds == Spec => []Reachable
<1>1. FdInv => Reachable
  BY DEF FdInv, MapInv, Reachable
<1> QED
  BY <1>1, FdInvariant, PTL

-----------------------------------------------------------------------------
(* The soundness of SendToClient's test, until the ids wrap.               *)

LEMMA InitIdentity == Init => IdentityInv
<1> SUFFICES ASSUME Init PROVE IdentityInv
  OBVIOUS
<1>1. FdInv
  BY InitFd
<1>2. IdInv /\ VerifiedInv
  BY DEF Init, IdInv, VerifiedInv
<1>3. RequestInv
  BY EmptySeq DEF Init, RequestInv, InFlight
<1> QED
  BY <1>1, <1>2, <1>3 DEF IdentityInv

LEMMA NextIdInv ==
    ASSUME NoWrap, FdInv, IdInv, [Next]_vars
    PROVE  IdInv'
<1> USE DEF FdInv, TypeOK, IdInv, kernelVars, masterVars, connVars, logicVars
<1>1. ASSUME NEW c \in Conns, NEW f \in Fds, MasterAccept(c, f) PROVE IdInv'
  <2>1. lastId' = lastId + 1
    BY <1>1, DispatchAssumption DEF MasterAccept, NextId, NoWrap
  <2>2. /\ cid' = [cid EXCEPT ![c] = lastId + 1]
        /\ cfd' = [cfd EXCEPT ![c] = f]
        /\ accepts' = accepts + 1
    BY <1>1, <2>1 DEF MasterAccept
  <2>3. \A d \in Conns : cid[d] \in Int /\ lastId \in Int
    BY DispatchAssumption DEF Ids
  <2>4. \A d \in Conns : d # c /\ cfd'[d] # NoFd =>
            cid'[d] = cid[d] /\ cid[d] <= lastId /\ cid'[d] # lastId + 1
    BY <2>2, <2>3
  <2>5. cid'[c] = lastId + 1
    BY <2>2
  <2>6. ASSUME NEW d \in Conns, cfd'[d] # NoFd PROVE cid'[d] <= lastId'
    <3>1. CASE d = c
      BY <2>1, <2>3, <2>5, <3>1
    <3>2. CASE d # c
      BY <2>1, <2>3, <2>4, <2>6, <3>2
    <3> QED
      BY <3>1, <3>2
  <2>7. \A d, e \in Conns :
            d # e /\ cfd'[d] # NoFd /\ cfd'[e] # NoFd => cid'[d] # cid'[e]
    BY <2>2, <2>4, <2>5
  <2> QED
    BY <2>1, <2>2, <2>6, <2>7
<1>2. CASE UNCHANGED <<lastId, accepts, cfd, cid>>
  BY <1>2
<1>3. (\E c \in Conns, f \in Fds : MasterAccept(c, f))
      \/ UNCHANGED <<lastId, accepts, cfd, cid>>
  BY DEF Next, MasterStep, MasterRefuse, MasterErase, MasterInsert, MasterDispatch,
         WorkerNew, ConnStep, ReadToken, ReadBadToken, ReadLine, ErrorErase,
         ErrorClose, LogicStep, LinkUp, LinkDown, LogicAnswer, SendToClientCheck,
         SendToClientWrite, vars
<1> QED
  BY <1>1, <1>2, <1>3

LEMMA NextVerified ==
    ASSUME IdentityInv, FdInv', [Next]_vars
    PROVE  VerifiedInv'
<1> USE DEF IdentityInv, FdInv, TypeOK, VerifiedInv, kernelVars, masterVars,
            connVars, logicVars
<1>1. ASSUME NEW c \in Conns, NEW f \in Fds, MasterAccept(c, f) PROVE VerifiedInv'
  BY <1>1 DEF MasterAccept
<1>2. ASSUME NEW c \in Conns, MasterRefuse(c) PROVE VerifiedInv'
  BY <1>2 DEF MasterRefuse
<1>3. mpc # "idle" =>
          /\ mconn \in Conns /\ st[mconn] = "accepting" /\ ~verified[mconn]
          /\ cfd[mconn] \in Fds
  BY DEF MasterInv, OwnerInv, Live
<1>4. CASE MasterErase
  <2>1. \A c \in Conns : cid[c] # NoId
    BY DispatchAssumption DEF Ids, NoId
  <2>2. /\ mapId' = [mapId EXCEPT ![cfd[mconn]] = NoId]
        /\ UNCHANGED <<st, cfd, cid, verified>>
    BY <1>4 DEF MasterErase
  <2> QED
    BY <1>3, <1>4, <2>1, <2>2 DEF MasterErase
<1>5. CASE MasterInsert
  <2>1. \A c \in Conns : verified[c] => cid[c] # cid[mconn]
    BY <1>3, <1>5, DispatchAssumption DEF MasterInsert, IdInv
  <2> QED
    BY <1>3, <1>5, <2>1 DEF MasterInsert, MapInsert
<1>6. CASE MasterDispatch
  BY <1>3, <1>6 DEF MasterDispatch
<1>7. ASSUME NEW w \in Workers, WorkerNew(w) PROVE VerifiedInv'
  <2>1. queue[w] \in Seq(Conns) /\ queue[w] # <<>>
    BY <1>7 DEF WorkerNew
  <2>2. /\ Head(queue[w]) \in Conns /\ 1 \in DOMAIN queue[w]
        /\ Head(queue[w]) = queue[w][1]
    BY <2>1, TailFacts
  <2>3. st[Head(queue[w])] = "queued"
    BY <2>2 DEF QueueInv
  <2> QED
    BY <1>7, <2>2, <2>3 DEF WorkerNew, Close
<1>8. ASSUME NEW c \in Conns, ConnStep(c) PROVE VerifiedInv'
  <2>1. CASE ReadToken(c)
    BY <2>1 DEF ReadToken, OwnerInv, Live
  <2>2. CASE ReadBadToken(c)
    BY <2>2 DEF ReadBadToken, Close
  <2>3. CASE ReadLine(c)
    BY <2>3 DEF ReadLine
  <2>4. CASE ErrorErase(c)
    <3>1. verified[c] => cfd[c] \in Fds /\ mapId'[cfd[c]] = NoId
      BY <2>4 DEF ErrorErase
    <3>2. \A d \in Conns : verified[d] /\ cfd[d] # cfd[c] => mapId'[cfd[d]] = mapId[cfd[d]]
      BY <2>4 DEF ErrorErase
    <3>3. \A d \in Conns : cid[d] # NoId
      BY DispatchAssumption DEF Ids, NoId
    <3> QED
      BY <2>4, <3>1, <3>2, <3>3 DEF ErrorErase
  <2>5. CASE ErrorClose(c)
    BY <2>5 DEF ErrorClose, Close
  <2> QED
    BY <1>8, <2>1, <2>2, <2>3, <2>4, <2>5 DEF ConnStep
<1>9. CASE LogicStep \/ UNCHANGED vars
  BY <1>9 DEF LogicStep, LinkUp, LinkDown, LogicAnswer, SendToClientCheck,
              SendToClientWrite, vars
<1> QED
  BY <1>1, <1>2, <1>4, <1>5, <1>6, <1>7, <1>8, <1>9 DEF Next, MasterStep

\* A step puts at most the request of a verified connection in flight.
LEMMA NextInFlight ==
    ASSUME TypeOK, [Next]_vars
    PROVE  \A r \in InFlight' : r \in InFlight \/
               \E c \in Conns : verified[c] /\ r = [fd |-> cfd[c], id |-> cid[c], conn |-> c]
<1> USE DEF InFlight, kernelVars, masterVars, connVars, logicVars
<1>1. CASE \E c \in Conns : ReadLine(c)
  BY <1>1 DEF ReadLine
<1>2. CASE LinkDown
  BY <1>2, EmptySeq DEF LinkDown
<1>3. ASSUME NEW r \in Requests, LogicAnswer(r) PROVE InFlight' \subseteq InFlight
  <2>1. replies \in Seq(Requests)
    BY DEF TypeOK
  <2>2. r \in atLogic /\ replies' = Append(replies, r) /\ atLogic' \subseteq atLogic
    BY <1>3 DEF LogicAnswer
  <2> QED
    BY <2>1, <2>2, AppendFacts
<1>4. CASE SendToClientCheck
  <2>1. replies \in Seq(Requests) /\ replies # <<>>
    BY <1>4 DEF TypeOK, SendToClientCheck
  <2> QED
    BY <1>4, <2>1, TailFacts DEF SendToClientCheck
<1>5. CASE UNCHANGED <<atLogic, replies>>
  BY <1>5
<1>6. \/ \E c \in Conns : ReadLine(c)
      \/ LinkDown
      \/ \E r \in Requests : LogicAnswer(r)
      \/ SendToClientCheck
      \/ UNCHANGED <<atLogic, replies>>
  BY DEF Next, MasterStep, MasterAccept, MasterRefuse, MasterErase, MasterInsert,
         MasterDispatch, WorkerNew, ConnStep, ReadToken, ReadBadToken, ErrorErase,
         ErrorClose, LogicStep, LinkUp, SendToClientWrite, vars
<1> QED
  BY <1>1, <1>2, <1>3, <1>4, <1>5, <1>6

\* What a verified connection has is never changed.
LEMMA NextVerifiedConn ==
    ASSUME FdInv, VerifiedInv, [Next]_vars, NEW c \in Conns, verified[c]
    PROVE  verified'[c] /\ cfd'[c] = cfd[c] /\ cid'[c] = cid[c]
<1> USE DEF FdInv, TypeOK, kernelVars, masterVars, connVars, logicVars
<1>1. ASSUME NEW d \in Conns, NEW f \in Fds, MasterAccept(d, f)
      PROVE  verified'[c] /\ cfd'[c] = cfd[c] /\ cid'[c] = cid[c]
  BY <1>1 DEF MasterAccept, VerifiedInv
<1>2. ASSUME NEW d \in Conns, ReadToken(d)
      PROVE  verified'[c] /\ cfd'[c] = cfd[c] /\ cid'[c] = cid[c]
  BY <1>2 DEF ReadToken
<1>3. CASE UNCHANGED <<verified, cfd, cid>>
  BY <1>3
<1>4. \/ \E d \in Conns, f \in Fds : MasterAccept(d, f)
      \/ \E d \in Conns : ReadToken(d)
      \/ UNCHANGED <<verified, cfd, cid>>
  BY DEF Next, MasterStep, MasterRefuse, MasterErase, MasterInsert, MasterDispatch,
         WorkerNew, ConnStep, ReadBadToken, ReadLine, ErrorErase, ErrorClose,
         LogicStep, LinkUp, LinkDown, LogicAnswer, SendToClientCheck,
         SendToClientWrite, vars
<1> QED
  BY <1>1, <1>2, <1>3, <1>4

LEMMA InFlightType == TypeOK => InFlight \subseteq Requests
BY ElementOfSeq DEF TypeOK, InFlight

LEMMA NextIdentity == NoWrap /\ IdentityInv /\ [Next]_vars => IdentityInv'
<1> SUFFICES ASSUME NoWrap, IdentityInv, [Next]_vars PROVE IdentityInv'
  OBVIOUS
<1>1. FdInv /\ TypeOK /\ IdInv /\ VerifiedInv /\ RequestInv
  BY DEF IdentityInv, FdInv
<1>2. FdInv'
  BY <1>1, NextFd
<1>3. IdInv'
  BY <1>1, NextIdInv
<1>4. VerifiedInv'
  BY <1>2, NextVerified
<1>5. RequestInv'
  <2> SUFFICES ASSUME NEW r \in InFlight'
               PROVE  /\ verified'[r.conn]
                      /\ r.fd = cfd'[r.conn] /\ r.id = cid'[r.conn]
    BY DEF RequestInv
  <2>1. CASE r \in InFlight
    <3>1. /\ r.conn \in Conns /\ verified[r.conn]
          /\ r.fd = cfd[r.conn] /\ r.id = cid[r.conn]
      BY <1>1, <2>1, InFlightType DEF RequestInv, Requests
    <3> QED
      BY <1>1, <3>1, NextVerifiedConn
  <2>2. ASSUME NEW c \in Conns, verified[c],
               r = [fd |-> cfd[c], id |-> cid[c], conn |-> c]
        PROVE  verified'[r.conn] /\ r.fd = cfd'[r.conn] /\ r.id = cid'[r.conn]
    BY <1>1, <2>2, NextVerifiedConn
  <2> QED
    BY <1>1, <2>1, <2>2, NextInFlight
<1> QED
  BY <1>2, <1>3, <1>4, <1>5 DEF IdentityInv

LEMMA IdentitySound == IdentityInv => CheckSound
<1> SUFFICES ASSUME IdentityInv, NEW r \in InFlight, mapId[r.fd] = r.id
             PROVE  st[r.conn] = "open" /\ fdOwner[r.fd] = r.conn
  BY DEF CheckSound
<1>1. r.conn \in Conns
  BY InFlightType DEF IdentityInv, FdInv, Requests
<1>2. verified[r.conn] /\ r.fd = cfd[r.conn] /\ r.id = cid[r.conn]
  BY DEF IdentityInv, RequestInv
<1>3. st[r.conn] = "open"
  BY <1>1, <1>2 DEF IdentityInv, VerifiedInv
<1> QED
  BY <1>1, <1>2, <1>3 DEF IdentityInv, FdInv, OwnerInv, Live

\* As long as no more than IdLimit + 1 connections have been accepted, a
\* reply passes SendToClient's test only while its requester is still behind
\* the descriptor it asked from.
THEOREM CheckSoundHolds == NoWrap => (Spec => []CheckSound)
<1> SUFFICES ASSUME NoWrap PROVE Spec => []CheckSound
  OBVIOUS
<1>1. Init => IdentityInv
  BY InitIdentity
<1>2. IdentityInv /\ [Next]_vars => IdentityInv'
  BY NextIdentity
<1>3. IdentityInv => CheckSound
  BY IdentitySound
<1> QED
  BY <1>1, <1>2, <1>3, PTL DEF Spec

-----------------------------------------------------------------------------
(* No descriptor is leaked.                                                *)

LEMMA NextHeld ==
    ASSUME FdInv, Held, [Next]_vars
    PROVE  Held'
<1> USE DEF kernelVars, masterVars, connVars, logicVars
<1> DEFINE InQueue(c) == \E i \in DOMAIN queue[worker[c]] : queue[worker[c]][i] = c
<1>1. TypeOK /\ FdInv' /\ TypeOK'
  BY NextFd DEF FdInv
<1>2. \A c \in Conns : st'[c] = "accepting" => mpc' # "idle" /\ mconn' = c
  BY <1>1 DEF FdInv, MasterInv
\* A queued connection stays where it is in its queue, or one place further.
<1>3. ASSUME NEW c \in Conns, st'[c] = "queued"
      PROVE  InQueue(c)'
  <2>1. CASE MasterDispatch
    <3> DEFINE t == lastThread'
    <3>1. t \in Workers
      BY <1>1, <2>1, WorkerArithmetic DEF TypeOK, MasterDispatch
    <3> HIDE DEF t
    <3>2. /\ queue' = [queue EXCEPT ![t] = Append(queue[t], mconn)]
          /\ worker' = [worker EXCEPT ![mconn] = t]
          /\ st' = [st EXCEPT ![mconn] = "queued"]
      BY <2>1 DEF MasterDispatch, t
    <3>3. mconn \in Conns /\ queue[t] \in Seq(Conns)
      BY <1>1, <2>1, <3>1 DEF FdInv, MasterInv, MasterDispatch, TypeOK
    <3>4. queue'[t] = Append(queue[t], mconn)
          /\ \A w \in Workers : w # t => queue'[w] = queue[w]
      BY <1>1, <3>1, <3>2 DEF TypeOK
    <3>5. /\ DOMAIN Append(queue[t], mconn) = DOMAIN queue[t] \cup {Len(queue[t]) + 1}
          /\ \A i \in DOMAIN queue[t] : Append(queue[t], mconn)[i] = queue[t][i]
          /\ Append(queue[t], mconn)[Len(queue[t]) + 1] = mconn
      BY <3>3, AppendFacts
    <3>6. CASE c = mconn
      <4>1. worker'[c] = t
        BY <1>1, <3>2, <3>3, <3>6 DEF TypeOK
      <4> QED
        BY <3>4, <3>5, <3>6, <4>1
    <3>7. CASE c # mconn
      <4>1. worker'[c] = worker[c] /\ worker[c] \in Workers /\ st[c] = "queued"
        BY <1>1, <1>3, <3>2, <3>3, <3>7 DEF TypeOK
      <4>2. PICK i \in DOMAIN queue[worker[c]] : queue[worker[c]][i] = c
        BY <4>1 DEF Held
      <4> QED
        BY <3>4, <3>5, <4>1, <4>2
    <3> QED
      BY <3>6, <3>7
  <2>2. ASSUME NEW w \in Workers, WorkerNew(w)
        PROVE  InQueue(c)'
    <3> DEFINE q == queue[w]
    <3>1. q \in Seq(Conns) /\ q # <<>>
      BY <1>1, <2>2 DEF TypeOK, WorkerNew
    <3>2. queue' = [queue EXCEPT ![w] = Tail(q)] /\ UNCHANGED worker
      BY <2>2 DEF WorkerNew
    <3>3. queue'[w] = Tail(q) /\ \A v \in Workers : v # w => queue'[v] = queue[v]
      BY <1>1, <3>2 DEF TypeOK
    <3>4. Head(q) \in Conns /\ Head(q) = q[1] /\ st'[Head(q)] # "queued"
      <4>1. Head(q) \in Conns /\ Head(q) = q[1]
        BY <3>1, TailFacts
      <4>2. \/ st' = [st EXCEPT ![Head(q)] = "open"]
            \/ st' = [st EXCEPT ![Head(q)] = "gone"]
        BY <2>2 DEF WorkerNew, Close
      <4> HIDE DEF q
      <4> QED
        BY <1>1, <4>1, <4>2 DEF TypeOK
    <3>5. c # Head(q)
      BY <1>3, <3>4
    <3>6. st[c] = "queued"
      <4>1. \/ st' = [st EXCEPT ![Head(q)] = "open"]
            \/ st' = [st EXCEPT ![Head(q)] = "gone"]
        BY <2>2 DEF WorkerNew, Close
      <4> HIDE DEF q
      <4> QED
        BY <1>1, <1>3, <3>4, <3>5, <4>1 DEF TypeOK
    <3>7. worker[c] \in Workers
      BY <1>1 DEF TypeOK
    <3>8. PICK i \in DOMAIN queue[worker[c]] : queue[worker[c]][i] = c
      BY <3>6 DEF Held
    <3>9. CASE worker[c] # w
      BY <3>2, <3>3, <3>7, <3>8, <3>9
    <3>10. CASE worker[c] = w
      <4>1. i \in DOMAIN q /\ q[i] = c /\ i # 1
        BY <3>4, <3>5, <3>8, <3>10
      <4> HIDE DEF q
      <4>2. DOMAIN q = 1 .. Len(q) /\ Len(q) \in Nat
        BY <3>1, LenProperties
      <4>3. /\ Tail(q) \in Seq(Conns) /\ Len(Tail(q)) = Len(q) - 1
            /\ \A j \in 1 .. Len(Tail(q)) : Tail(q)[j] = q[j + 1]
        BY <3>1, HeadTailProperties
      <4>4. DOMAIN Tail(q) = 1 .. Len(q) - 1
        BY <4>3, LenProperties
      <4>5. i - 1 \in DOMAIN Tail(q) /\ Tail(q)[i - 1] = c
        BY <4>1, <4>2, <4>3, <4>4
      <4> QED
        BY <3>2, <3>3, <3>10, <4>5
    <3> QED
      BY <3>9, <3>10
  <2>3. CASE UNCHANGED <<queue, worker>> /\ \A d \in Conns : st'[d] = "queued" => st[d] = "queued"
    BY <1>3, <2>3 DEF Held
  <2>4. \/ MasterDispatch
        \/ \E w \in Workers : WorkerNew(w)
        \/ UNCHANGED <<queue, worker>> /\ \A d \in Conns : st'[d] = "queued" => st[d] = "queued"
    BY <1>1 DEF TypeOK, Next, MasterStep, MasterAccept, MasterRefuse, MasterErase,
       MasterInsert, ConnStep, ReadToken, ReadBadToken, ReadLine, ErrorErase, ErrorClose,
       Close, LogicStep, LinkUp, LinkDown, LogicAnswer, SendToClientCheck,
       SendToClientWrite, vars
  <2> QED
    BY <2>1, <2>2, <2>3, <2>4
\* A worker that is between the two steps of an ErrorCb starts no other.
<1>4. ASSUME NEW c \in Conns, NEW d \in Conns,
             st'[c] = "closing", st'[d] = "closing", worker'[c] = worker'[d]
      PROVE  c = d
  <2>1. ASSUME NEW e \in Conns, ErrorErase(e)
        PROVE  c = d
    <3>1. \A f \in Conns : ~(worker[f] = worker[e] /\ st[f] = "closing")
      BY <2>1 DEF ErrorErase, Free
    <3>2. st' = [st EXCEPT ![e] = "closing"] /\ UNCHANGED worker
      BY <2>1 DEF ErrorErase
    <3> QED
      BY <1>1, <1>4, <3>1, <3>2 DEF TypeOK, Held
  <2>2. \A e \in Conns : st'[e] = "closing" /\ st[e] = "closing" => worker'[e] = worker[e]
    <3>1. CASE MasterDispatch
      <4>1. mconn \in Conns /\ st[mconn] = "accepting" /\ worker' = [worker EXCEPT ![mconn] = lastThread']
        BY <1>1, <3>1 DEF FdInv, MasterInv, MasterDispatch
      <4> QED
        BY <1>1, <4>1 DEF TypeOK
    <3>2. MasterDispatch \/ UNCHANGED worker
      BY DEF Next, MasterStep, MasterAccept, MasterRefuse, MasterErase,
         MasterInsert, WorkerNew, ConnStep, ReadToken, ReadBadToken, ReadLine, ErrorErase,
         ErrorClose, LogicStep, LinkUp, LinkDown, LogicAnswer, SendToClientCheck,
         SendToClientWrite, vars
    <3> QED
      BY <3>1, <3>2
  <2>3. \/ \E e \in Conns : ErrorErase(e)
        \/ \A e \in Conns : st'[e] = "closing" => st[e] = "closing"
    <3>1. ASSUME NEW e \in Conns, ConnStep(e), ~ErrorErase(e)
          PROVE  \A f \in Conns : st'[f] = "closing" => st[f] = "closing"
      BY <1>1, <3>1 DEF TypeOK, ConnStep, ReadToken, ReadBadToken, ReadLine, ErrorClose, Close
    <3>2. ASSUME NEW w \in Workers, WorkerNew(w)
          PROVE  \A f \in Conns : st'[f] = "closing" => st[f] = "closing"
      BY <1>1, <3>2 DEF TypeOK, WorkerNew, Close
    <3>3. CASE MasterStep \/ LogicStep \/ UNCHANGED vars
      BY <1>1, <3>3 DEF TypeOK, MasterStep, MasterAccept, MasterRefuse, MasterErase,
         MasterInsert, MasterDispatch, LogicStep, LinkUp, LinkDown, LogicAnswer,
         SendToClientCheck, SendToClientWrite, vars
    <3> QED
      BY <3>1, <3>2, <3>3 DEF Next
  <2> QED
    BY <1>4, <2>1, <2>2, <2>3 DEF Held
<1> QED
  BY <1>2, <1>3, <1>4 DEF Held

\* Between accept and close a connection is always in somebody's hands: the
\* master's, its own worker's queue, or that worker's, for any number of workers.
THEOREM HeldHolds == Spec => []Held
<1>1. Init => FdInv /\ Held
  BY InitFd DEF Init, Held
<1>2. FdInv /\ Held /\ [Next]_vars => Held'
  BY NextHeld
<1> QED
  BY <1>1, <1>2, FdInvariant, PTL DEF Spec

-----------------------------------------------------------------------------
(* Where a reply that goes astray can go.                                  *)

LEMMA InitStray == Init => StrayInv
<1> SUFFICES ASSUME Init PROVE StrayInv
  OBVIOUS
<1>1. InFlight \cup ({local} \ {NoReply}) = {}
  BY EmptySeq DEF Init, InFlight
<1> QED
  BY <1>1, InitFd DEF Init, StrayInv, OnlyToSuccessor

\* What a connection that could send requests has is never changed, and it is
\* open until it is gone for good.
LEMMA NextCarrier ==
    ASSUME StrayInv, [Next]_vars, NEW c \in Conns, verified'[c]
    PROVE  /\ st'[c] \in {"open", "closing", "gone"}
           /\ verified[c] => cfd'[c] = cfd[c]
           /\ verified[c] /\ st[c] = "gone" => st'[c] = "gone"
<1> USE DEF StrayInv, FdInv, TypeOK, kernelVars, masterVars, connVars, logicVars
<1>1. CASE MasterStep
  <2>1. mpc # "idle" => mconn \in Conns /\ st[mconn] = "accepting"
    BY DEF MasterInv
  <2> QED
    BY <1>1, <2>1 DEF MasterStep, MasterAccept, MasterRefuse, MasterErase, MasterInsert,
       MasterDispatch
<1>2. ASSUME NEW w \in Workers, WorkerNew(w)
      PROVE  /\ st'[c] \in {"open", "closing", "gone"}
             /\ verified[c] => cfd'[c] = cfd[c]
             /\ verified[c] /\ st[c] = "gone" => st'[c] = "gone"
  <2>1. queue[w] \in Seq(Conns) /\ queue[w] # <<>>
    BY <1>2 DEF WorkerNew
  <2>2. Head(queue[w]) \in Conns /\ st[Head(queue[w])] = "queued"
    <3>1. Head(queue[w]) \in Conns /\ 1 \in DOMAIN queue[w] /\ Head(queue[w]) = queue[w][1]
      BY <2>1, TailFacts
    <3> QED
      BY <3>1 DEF QueueInv
  <2> QED
    BY <1>2, <2>2 DEF WorkerNew, Close
<1>3. ASSUME NEW d \in Conns, ConnStep(d)
      PROVE  /\ st'[c] \in {"open", "closing", "gone"}
             /\ verified[c] => cfd'[c] = cfd[c]
             /\ verified[c] /\ st[c] = "gone" => st'[c] = "gone"
  BY <1>3 DEF ConnStep, ReadToken, ReadBadToken, ReadLine, ErrorErase, ErrorClose, Close
<1>4. CASE LogicStep \/ UNCHANGED vars
  BY <1>4 DEF LogicStep, LinkUp, LinkDown, LogicAnswer, SendToClientCheck,
              SendToClientWrite, vars
<1> QED
  BY <1>1, <1>2, <1>3, <1>4 DEF Next

\* A request on its way was on its way before, or is a verified connection's.
LEMMA NextCarried ==
    ASSUME StrayInv, [Next]_vars,
           NEW r \in InFlight' \cup ({local'} \ {NoReply})
    PROVE  Carried(r)'
<1> USE DEF kernelVars, masterVars, connVars, logicVars
<1>1. FdInv /\ TypeOK
  BY DEF StrayInv, FdInv
<1>2. InFlight \cup ({local} \ {NoReply}) \subseteq Requests
  BY <1>1, InFlightType DEF TypeOK
<1>3. ASSUME NEW c \in Conns, verified[c]
      PROVE  verified'[c] /\ cfd'[c] = cfd[c]
  <2>1. verified'[c]
    BY <1>1, <1>3 DEF TypeOK, Next, MasterStep, MasterAccept, MasterRefuse, MasterErase,
       MasterInsert, MasterDispatch, WorkerNew, ConnStep, ReadToken, ReadBadToken, ReadLine,
       ErrorErase, ErrorClose, LogicStep, LinkUp, LinkDown, LogicAnswer, SendToClientCheck,
       SendToClientWrite, vars
  <2> QED
    BY <1>3, <2>1, NextCarrier
<1>4. CASE r \in InFlight \cup ({local} \ {NoReply})
  <2>1. r.conn \in Conns /\ verified[r.conn] /\ r.fd = cfd[r.conn]
    BY <1>2, <1>4 DEF StrayInv, Carried, Requests
  <2> QED
    BY <1>3, <2>1 DEF Carried
<1>5. ASSUME NEW c \in Conns, verified[c], r = [fd |-> cfd[c], id |-> cid[c], conn |-> c]
      PROVE  Carried(r)'
  BY <1>3, <1>5 DEF Carried
<1>6. CASE r \in InFlight'
  BY <1>1, <1>4, <1>5, <1>6, NextInFlight
<1>7. CASE r = local' /\ r # NoReply
  <2>1. local' \in InFlight \cup {local, NoReply}
    <3>1. CASE SendToClientCheck
      <4>1. replies \in Seq(Requests) /\ replies # <<>>
        BY <1>1, <3>1 DEF TypeOK, SendToClientCheck
      <4>2. 1 \in DOMAIN replies /\ Head(replies) = replies[1]
        BY <4>1, TailFacts
      <4> QED
        BY <3>1, <4>2 DEF SendToClientCheck, InFlight
    <3>2. SendToClientCheck \/ local' \in {local, NoReply}
      BY DEF Next, MasterStep, MasterAccept, MasterRefuse, MasterErase,
         MasterInsert, MasterDispatch, WorkerNew, ConnStep, ReadToken, ReadBadToken, ReadLine,
         ErrorErase, ErrorClose, LogicStep, LinkUp, LinkDown, LogicAnswer, SendToClientWrite, vars
    <3> QED
      BY <3>1, <3>2
  <2> QED
    BY <1>4, <1>7, <2>1
<1> QED
  BY <1>6, <1>7

LEMMA NextSuccessor ==
    ASSUME StrayInv, [Next]_vars
    PROVE  /\ OnlyToSuccessor'
           /\ \A c \in Conns : received'[c] # {} => cfd'[c] # NoFd
<1> USE DEF kernelVars, masterVars, connVars, logicVars
<1>1. FdInv /\ TypeOK
  BY DEF StrayInv, FdInv
\* Whoever is gone stays so and keeps its number, and so does who got its reply.
<1>2. ASSUME NEW c \in Conns, cfd[c] # NoFd
      PROVE  cfd'[c] = cfd[c]
  <2>1. ASSUME NEW d \in Conns, NEW f \in Fds, MasterAccept(d, f) PROVE cfd'[c] = cfd[c]
    <3>1. st[d] = "new" /\ cfd[d] = NoFd /\ cfd' = [cfd EXCEPT ![d] = f]
      BY <1>1, <2>1 DEF MasterAccept, FdInv, OwnerInv
    <3> QED
      BY <1>1, <1>2, <3>1 DEF TypeOK
  <2>2. (\E d \in Conns, f \in Fds : MasterAccept(d, f)) \/ UNCHANGED cfd
    BY DEF Next, MasterStep, MasterRefuse, MasterErase, MasterInsert, MasterDispatch,
       WorkerNew, ConnStep, ReadToken, ReadBadToken, ReadLine, ErrorErase,
       ErrorClose, LogicStep, LinkUp, LinkDown, LogicAnswer, SendToClientCheck,
       SendToClientWrite, vars
  <2> QED
    BY <2>1, <2>2
<1>3. ASSUME NEW d \in Conns, st[d] = "gone"
      PROVE  st'[d] = "gone"
  <2>1. CASE MasterStep
    <3>1. mpc # "idle" => mconn \in Conns /\ st[mconn] = "accepting"
      BY <1>1 DEF FdInv, MasterInv
    <3> QED
      BY <1>1, <1>3, <2>1, <3>1 DEF TypeOK, MasterStep, MasterAccept, MasterRefuse, MasterErase,
         MasterInsert, MasterDispatch
  <2>2. ASSUME NEW w \in Workers, WorkerNew(w) PROVE st'[d] = "gone"
    <3>1. queue[w] \in Seq(Conns) /\ queue[w] # <<>>
      BY <1>1, <2>2 DEF TypeOK, WorkerNew
    <3>2. 1 \in DOMAIN queue[w] /\ Head(queue[w]) = queue[w][1]
      BY <3>1, TailFacts
    <3>3. st[Head(queue[w])] = "queued"
      BY <1>1, <3>2 DEF FdInv, QueueInv
    <3> QED
      BY <1>1, <1>3, <2>2, <3>3 DEF TypeOK, WorkerNew, Close
  <2>3. ASSUME NEW c \in Conns, ConnStep(c) PROVE st'[d] = "gone"
    BY <1>1, <1>3, <2>3 DEF TypeOK, ConnStep, ReadToken, ReadBadToken, ReadLine, ErrorErase,
       ErrorClose, Close
  <2>4. CASE LogicStep \/ UNCHANGED vars
    BY <1>3, <2>4 DEF LogicStep, LinkUp, LinkDown, LogicAnswer, SendToClientCheck,
                      SendToClientWrite, vars
  <2> QED
    BY <2>1, <2>2, <2>3, <2>4 DEF Next
<1>4. CASE SendToClientWrite
  <2> DEFINE to == fdOwner[local.fd]
  <2>1. local \in Requests /\ Carried(local) /\ local.fd \in Fds /\ local.conn \in Conns
    BY <1>1, <1>4 DEF SendToClientWrite, StrayInv, TypeOK, Requests
  <2>2. /\ received' = IF to = NoConn THEN received
                       ELSE [received EXCEPT ![to] = received[to] \cup {local.conn}]
        /\ UNCHANGED <<st, cfd>>
    BY <1>4 DEF SendToClientWrite
  <2>3. ASSUME to # NoConn, to # local.conn
        PROVE  st[local.conn] = "gone" /\ cfd[local.conn] = cfd[to]
    <3>1. to \in Conns /\ Live(to) /\ cfd[to] = local.fd
      BY <1>1, <2>1, <2>3 DEF FdInv, TypeOK, OwnerInv
    <3>2. cfd[local.conn] = local.fd /\ st[local.conn] \in {"open", "closing", "gone"}
      BY <2>1 DEF Carried, StrayInv
    <3>3. ~Live(local.conn)
      BY <1>1, <2>1, <2>3, <3>2 DEF FdInv, OwnerInv
    <3> QED
      BY <3>1, <3>2, <3>3 DEF Live
  <2>5. to # NoConn => to \in Conns /\ cfd[to] # NoFd
    BY <1>1, <2>1, DispatchAssumption DEF FdInv, TypeOK, OwnerInv
  <2> HIDE DEF to
  <2>6. \A c \in Conns : received'[c] # {} => cfd'[c] # NoFd
    BY <1>1, <2>2, <2>5 DEF TypeOK, StrayInv
  <2>4. ASSUME NEW c \in Conns, NEW d \in received'[c] \ {c}
        PROVE  st[d] = "gone" /\ cfd[d] = cfd[c]
    <3>1. CASE d \in received[c]
      BY <2>4, <3>1 DEF StrayInv, OnlyToSuccessor
    <3>2. CASE d \notin received[c]
      <4>1. to # NoConn /\ c = to /\ d = local.conn
        BY <1>1, <2>2, <2>4, <2>5, <3>2 DEF TypeOK
      <4> QED
        BY <2>3, <2>4, <4>1
    <3> QED
      BY <3>1, <3>2
  <2> QED
    BY <2>2, <2>4, <2>6 DEF OnlyToSuccessor
<1>5. CASE UNCHANGED received
  <2>1. \A c \in Conns : received'[c] # {} => cfd'[c] # NoFd
    BY <1>2, <1>5 DEF StrayInv
  <2>2. ASSUME NEW c \in Conns, NEW d \in received[c] \ {c}
        PROVE  st'[d] = "gone" /\ cfd'[d] = cfd'[c]
    <3>1. d \in Conns /\ st[d] = "gone" /\ cfd[d] = cfd[c] /\ cfd[c] # NoFd
      BY <1>1 DEF StrayInv, OnlyToSuccessor, TypeOK
    <3> QED
      BY <1>2, <1>3, <3>1
  <2> QED
    BY <1>5, <2>1, <2>2 DEF OnlyToSuccessor
<1>6. SendToClientWrite \/ UNCHANGED received
  BY DEF Next, MasterStep, MasterAccept, MasterRefuse, MasterErase, MasterInsert,
     MasterDispatch, WorkerNew, ConnStep, ReadToken, ReadBadToken, ReadLine, ErrorErase,
     ErrorClose, LogicStep, LinkUp, LinkDown, LogicAnswer, SendToClientCheck, vars
<1> QED
  BY <1>4, <1>5, <1>6

\* A reply that does not reach the client that asked reaches nobody, or the next
\* client on the descriptor of one that is gone; also when the ids have wrapped.
THEOREM OnlyToSuccessorHolds == Spec => []OnlyToSuccessor
<1>1. StrayInv /\ [Next]_vars => StrayInv'
  <2> SUFFICES ASSUME StrayInv, [Next]_vars PROVE StrayInv'
    OBVIOUS
  <2>1. FdInv'
    BY NextFd DEF StrayInv
  <2>2. \A c \in Conns : verified'[c] => st'[c] \in {"open", "closing", "gone"}
    BY NextCarrier
  <2>3. \A r \in InFlight' \cup ({local'} \ {NoReply}) : Carried(r)'
    BY NextCarried
  <2> QED
    BY <2>1, <2>2, <2>3, NextSuccessor DEF StrayInv
<1>2. StrayInv => OnlyToSuccessor
  BY DEF StrayInv
<1> QED
  BY <1>1, <1>2, InitStray, PTL DEF Spec
=============================================================================
