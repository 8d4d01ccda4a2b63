------------------------- MODULE RelayRequestProofs -------------------------
(* Proofs about GetResponseFromRelay: no entry of g_map_message is left     *)
(* behind, and a request whose id no other one shares gets its own reply.   *)
EXTENDS RelayRequest, TLAPS

\* Where the actions of a worker and of the relay link's thread can be told
\* apart: NoneFacts separates the records.
LEMMA NoneFacts ==
    /\ \A r \in Request : r # None /\ r.by \in Threads /\ r.n \in Nat /\ r.id \in MsgIds
    /\ \A e \in Entry : e # Absent /\ e.response \in Request \cup {None}
BY RelayRequestAssumption DEF Request, None, Entry, Absent

LEMMA NullsStay == None' = None /\ Absent' = Absent
BY DEF None, Absent

LEMMA CurrentType ==
    ASSUME TypeOK, BusyInv, NEW t \in Threads, Busy(t)
    PROVE  Current(t) \in Request
BY RelayRequestAssumption DEF TypeOK, BusyInv, Current, Request

LEMMA InitBusy == Init => TypeOK /\ BusyInv /\ TableOwned
BY RelayRequestAssumption
   DEF Init, TypeOK, BusyInv, TableOwned, Busy, None, Absent, Entry

\* Types and the numbers of begun requests, one step at a time.
LEMMA NextBusy == TypeOK /\ BusyInv /\ [Next]_vars => TypeOK' /\ BusyInv'
<1> SUFFICES ASSUME TypeOK, BusyInv, [Next]_vars PROVE TypeOK' /\ BusyInv'
  OBVIOUS
<1> USE RelayRequestAssumption DEF TypeOK, BusyInv, Busy
<1>1. ASSUME NEW t \in Threads, NEW i \in MsgIds, Start(t, i) PROVE TypeOK' /\ BusyInv'
  <2>1. [event |-> t, n |-> n[t] + 1, response |-> None] \in Entry
    BY <1>1 DEF Start, Entry
  <2>2. n'[t] = n[t] + 1 /\ n' \in [Threads -> 0 .. MaxRequests]
        /\ \A u \in Threads : u # t => n'[u] = n[u]
    BY <1>1 DEF Start
  <2>3. /\ mixed' \in [Threads -> BOOLEAN]
        /\ table' \in [MsgIds -> Entry \cup {Absent}]
    BY <1>1, <2>1 DEF Start, Shares
  <2>4. TypeOK'
    BY <1>1, <2>2, <2>3 DEF Start
  <2> QED
    BY <1>1, <2>2, <2>4 DEF Start
<1>2. ASSUME NEW t \in Threads, Send(t) PROVE TypeOK' /\ BusyInv'
  <2>1. Current(t) \in Request
    BY <1>2, CurrentType DEF Send
  <2> QED
    BY <1>2, <2>1 DEF Send
<1>3. ASSUME NEW t \in Threads, WaitPosted(t) PROVE TypeOK' /\ BusyInv'
  BY <1>3 DEF WaitPosted
<1>4. ASSUME NEW t \in Threads, WaitFailed(t) PROVE TypeOK' /\ BusyInv'
  BY <1>4 DEF WaitFailed
<1>5. ASSUME NEW t \in Threads, ReadResponse(t) PROVE TypeOK' /\ BusyInv'
  <2>1. (IF table[mid[t]] = Absent THEN None ELSE table[mid[t]].response)
            \in Request \cup {None}
    BY NoneFacts
  <2> QED
    BY <1>5, <2>1 DEF ReadResponse
<1>6. ASSUME NEW t \in Threads, Finish(t) PROVE TypeOK' /\ BusyInv'
  BY <1>6 DEF Finish
<1>7. ASSUME NEW r \in relay, ReplyDropped(r) \/ ReplyLate(r)
      PROVE  TypeOK' /\ BusyInv'
  BY <1>7 DEF ReplyDropped, ReplyLate
<1>8. ASSUME NEW r \in relay, ReplyFound(r) PROVE TypeOK' /\ BusyInv'
  <2>1. r \in Request /\ r.id \in MsgIds
    BY NoneFacts
  <2>2. [event |-> Nobody, n |-> 0, response |-> r] \in Entry
    BY <2>1 DEF Entry
  <2>3. table[r.id] \in Entry
    BY <1>8, <2>1 DEF ReplyFound
  <2>4. post' \in Request \cup {None}
    BY <1>8, <2>1, <2>3 DEF ReplyFound, Entry, Request
  <2> QED
    BY <1>8, <2>1, <2>2, <2>4 DEF ReplyFound
<1>9. CASE Post
  <2>1. post.by \in Threads
    BY <1>9, NoneFacts DEF Post
  <2>2. sem' \in [Threads -> Nat]
    BY <1>9, <2>1 DEF Post
  <2> QED
    BY <1>9, <2>2 DEF Post, None
<1>10. CASE UNCHANGED vars
  BY <1>10 DEF vars
<1> QED
  BY <1>1, <1>2, <1>3, <1>4, <1>5, <1>6, <1>7, <1>8, <1>9, <1>10
     DEF Next, WorkerStep, ReplyStep

\* No entry of g_map_message outlives the requests with its id, also when
\* ids collide.
LEMMA NextOwned ==
    ASSUME TypeOK, TableOwned, [Next]_vars
    PROVE  TableOwned'
<1> USE DEF TypeOK, TableOwned, Busy
<1>1. ASSUME NEW t \in Threads, NEW i \in MsgIds, Start(t, i) PROVE TableOwned'
  <2>1. \A u \in Threads : Busy(u) => u # t /\ Busy(u)' /\ mid'[u] = mid[u]
    BY <1>1 DEF Start
  <2>2. Busy(t)' /\ mid'[t] = i
    BY <1>1 DEF Start
  <2>3. \A j \in MsgIds : j # i => table'[j] = table[j]
    BY <1>1 DEF Start
  <2> QED
    BY <2>1, <2>2, <2>3
<1>2. ASSUME NEW t \in Threads,
             Send(t) \/ WaitPosted(t) \/ WaitFailed(t) \/ ReadResponse(t)
      PROVE  TableOwned'
  <2>1. \A u \in Threads : Busy(u) => Busy(u)' /\ mid'[u] = mid[u]
    BY <1>2 DEF Send, WaitPosted, WaitFailed, ReadResponse
  <2>2. table' = table
    BY <1>2 DEF Send, WaitPosted, WaitFailed, ReadResponse
  <2> QED
    BY <2>1, <2>2
<1>3. ASSUME NEW t \in Threads, Finish(t) PROVE TableOwned'
  <2>1. \A i \in MsgIds : table'[i] # Absent => i # mid[t] /\ table[i] # Absent
    BY <1>3 DEF Finish
  <2>2. \A u \in Threads : Busy(u) /\ u # t => Busy(u)'
    BY <1>3 DEF Finish
  <2>3. mid' = mid
    BY <1>3 DEF Finish
  <2> QED
    BY <2>1, <2>2, <2>3
<1>4. CASE ReplyStep
  <2>1. \A i \in MsgIds : table'[i] # Absent => table[i] # Absent
    BY <1>4 DEF ReplyStep, ReplyDropped, ReplyFound, ReplyLate, Post
  <2>2. pc' = pc /\ mid' = mid
    BY <1>4 DEF ReplyStep, ReplyDropped, ReplyFound, ReplyLate, Post
  <2> QED
    BY <2>1, <2>2
<1>5. CASE UNCHANGED vars
  BY <1>5 DEF vars
<1> QED
  BY <1>1, <1>2, <1>3, <1>4, <1>5 DEF Next, WorkerStep

\* Every variable keeps its type, whichever ids collide and however late replies come.
THEOREM TypeCorrect == Spec => []TypeOK
<1>1. TypeOK /\ BusyInv /\ [Next]_vars => TypeOK' /\ BusyInv'
  BY NextBusy
<1> QED
  BY InitBusy, <1>1, PTL DEF Spec

\* Every entry of g_map_message belongs to a request that is going on, whether or
\* not ids repeat: no reply finds an entry its request has left behind.
THEOREM TableOwnedHolds == Spec => []TableOwned
<1>1. TypeOK /\ BusyInv /\ TableOwned /\ [Next]_vars
          => TypeOK' /\ BusyInv' /\ TableOwned'
  BY NextBusy, NextOwned
<1> QED
  BY InitBusy, <1>1, PTL DEF Spec

-----------------------------------------------------------------------------
(* A request that shares its id with no other gets its own reply.          *)

LEMMA InitResponse == Init => ResponseInv
<1> SUFFICES ASSUME Init PROVE ResponseInv
  OBVIOUS
<1>1. EventInv /\ AloneInv /\ WakeInv /\ PostInv /\ OwnResponse
  BY DEF Init, EventInv, AloneInv, WakeInv, PostInv, OwnResponse, Busy, Absent
<1> QED
  BY <1>1, InitBusy DEF ResponseInv

\* The entry of a request that is not mixed is its own: its event, or the
\* response to it.
LEMMA OwnEntry ==
    ASSUME ResponseInv, NEW t \in Threads, Busy(t), ~mixed[t]
    PROVE  LET e == table[mid[t]] IN
           \/ e.event = t /\ e.n = n[t] /\ e.response = None
           \/ e.event = Nobody /\ e.response = Current(t) /\ e # Absent
<1> DEFINE e == table[mid[t]]
<1> USE DEF ResponseInv
<1>1. mid[t] \in MsgIds /\ e \in Entry /\ e.response \in {None, Current(t)}
  BY DEF TypeOK, AloneInv
<1>2. CASE e.event # Nobody
  <2>1. e.event \in Threads /\ e.response = None
    BY <1>1, <1>2 DEF Entry
  <2>2. Busy(e.event) /\ e.n = n[e.event] /\ mid[e.event] = mid[t]
    BY <1>1, <1>2 DEF EventInv
  <2>3. e.event = t
    BY <2>1, <2>2 DEF AloneInv
  <2> QED
    BY <2>1, <2>2, <2>3
<1>3. CASE e.event = Nobody
  <2>1. e.response \in Request
    BY <1>1, <1>3, RelayRequestAssumption DEF Entry
  <2> QED
    BY <1>1, <1>3, <2>1, NoneFacts
<1> QED
  BY <1>2, <1>3

LEMMA StartResponse ==
    ASSUME ResponseInv, TypeOK', BusyInv', TableOwned',
           NEW t \in Threads, NEW i \in MsgIds, Start(t, i)
    PROVE  ResponseInv'
<1> USE DEF ResponseInv, TypeOK
<1>1. /\ ~Busy(t) /\ Busy(t)'
      /\ n'[t] = n[t] + 1 /\ n[t] \in Nat /\ mid'[t] = i
      /\ sem'[t] = 0 /\ pc'[t] = "inserted"
      /\ result'[t] = [code |-> "none", response |-> None]
      /\ mixed'[t] = Shares(t, i) /\ lateWake'[t] = FALSE
      /\ relay' = relay /\ post' = post
  BY DEF Start, Busy
<1>2. \A u \in Threads : u # t =>
          /\ n'[u] = n[u] /\ mid'[u] = mid[u] /\ sem'[u] = sem[u] /\ pc'[u] = pc[u]
          /\ result'[u] = result[u] /\ lateWake'[u] = lateWake[u]
          /\ Current(u)' = Current(u) /\ Busy(u)' = Busy(u)
          /\ mixed'[u] = (mixed[u] \/ (Busy(u) /\ mid[u] = i))
  BY DEF Start, Busy, Current
<1>3. \A j \in MsgIds : j # i => table'[j] = table[j]
  BY DEF Start
<1>4. PostInv' /\ OwnResponse'
  <2>1. PostInv'
    <3> SUFFICES ASSUME post # None PROVE post.n <= n'[post.by]
      BY <1>1 DEF PostInv, None
    <3>1. post \in Request /\ post.n <= n[post.by]
      BY DEF PostInv
    <3>2. post.by \in Threads /\ post.n \in Nat
      BY <3>1, NoneFacts
    <3>3. n[post.by] \in Nat
      BY <3>2, RelayRequestAssumption
    <3>4. n'[post.by] \in {n[post.by], n[post.by] + 1}
      BY <1>1, <1>2, <3>2
    <3> QED
      BY <3>1, <3>2, <3>3, <3>4
  <2>2. ASSUME NEW u \in Threads, ~mixed'[u]
        PROVE  /\ result'[u].response \in {None, Current(u)'}
               /\ result'[u].code = "success" /\ ~lateWake'[u]
                      => result'[u].response = Current(u)'
    <3>1. CASE u = t
      BY <1>1, <3>1
    <3>2. CASE u # t
      BY <1>2, <2>2, <3>2 DEF OwnResponse
    <3> QED
      BY <3>1, <3>2
  <2> QED
    BY <2>1, <2>2, NullsStay DEF OwnResponse
<1>5. CASE table[i] = Absent
  <2>1. table'[i] = [event |-> t, n |-> n[t] + 1, response |-> None]
    BY <1>5 DEF Start
  <2>2. EventInv'
    <3> SUFFICES ASSUME NEW j \in MsgIds
                 PROVE  /\ table'[j].event # Nobody =>
                              /\ Busy(table[j].event)'
                              /\ table'[j].n = n'[table'[j].event]
                              /\ mid'[table'[j].event] = j
                        /\ table'[j] # Absent' /\ table'[j].event = Nobody
                              => table'[j].response.id = j
      BY DEF EventInv
    <3>1. CASE j = i
      BY <1>1, <2>1, <3>1, RelayRequestAssumption
    <3>2. CASE j # i
      <4>1. table'[j] = table[j] /\ table[j] \in Entry \cup {Absent}
        BY <1>3, <3>2
      <4>2. table[j].event # Nobody => table[j].event \in Threads
        BY <4>1 DEF Entry, Absent
      <4> QED
        BY <1>1, <1>2, <4>1, <4>2 DEF EventInv, Absent
    <3> QED
      BY <3>1, <3>2
  <2>3. AloneInv'
    <3> SUFFICES ASSUME NEW u \in Threads, Busy(u)', ~mixed'[u]
                 PROVE  /\ \A v \in Threads \ {u} : Busy(v)' => mid'[v] # mid'[u]
                        /\ \A r \in relay' : r.id = mid'[u] => r = Current(u)'
                        /\ table'[mid'[u]] # Absent
                        /\ table'[mid'[u]].response \in {None, Current(u)'}
      BY DEF AloneInv, Absent, None
    <3>1. CASE u = t
      BY <1>1, <1>2, <2>1, <3>1, RelayRequestAssumption DEF Shares, Absent
    <3>2. CASE u # t
      <4>1. Busy(u) /\ ~mixed[u] /\ mid[u] # i /\ mid[u] \in MsgIds
        BY <1>2, <3>2
      <4>2. \A v \in Threads \ {u} : Busy(v)' => mid'[v] # mid'[u]
        BY <1>1, <1>2, <3>2, <4>1 DEF AloneInv
      <4> QED
        BY <1>1, <1>2, <1>3, <3>2, <4>1, <4>2 DEF AloneInv
    <3> QED
      BY <3>1, <3>2
  <2>4. WakeInv'
    <3> SUFFICES ASSUME NEW u \in Threads, Busy(u)', ~mixed'[u]
                 PROVE  /\ post' # None /\ post'.by = u /\ post'.n = n'[u] => Stored(u)'
                        /\ ~lateWake'[u] /\ (sem'[u] > 0 \/ pc'[u] = "posted") => Stored(u)'
                        /\ ~lateWake'[u] /\ pc'[u] = "read"
                               => result'[u].response = Current(u)'
                        /\ result'[u].code = "none"
      BY DEF WakeInv, None
    <3>1. CASE u = t
      BY <1>1, <3>1 DEF PostInv
    <3>2. CASE u # t
      BY <1>1, <1>2, <1>3, <3>2 DEF WakeInv, Stored
    <3> QED
      BY <3>1, <3>2
  <2> QED
    BY <1>1, <1>2, <2>2, <2>3, <2>4, <1>4
<1>6. CASE table[i] # Absent
  <2>1. table' = table
    BY <1>6 DEF Start
  <2>2. Shares(t, i)
    BY <1>1, <1>6 DEF TableOwned, Shares
  <2>3. EventInv'
    <3> SUFFICES ASSUME NEW j \in MsgIds, table[j].event # Nobody
                 PROVE  /\ Busy(table[j].event)'
                        /\ table[j].n = n'[table[j].event]
                        /\ mid'[table[j].event] = j
      BY <2>1 DEF EventInv, Absent
    <3>1. table[j].event \in Threads
      BY DEF Entry, Absent
    <3> QED
      <4>1. Busy(table[j].event) /\ table[j].event # t
        BY <1>1, <3>1 DEF EventInv
      <4> QED
        BY <1>2, <2>1, <3>1, <4>1 DEF EventInv
  <2>4. ASSUME NEW u \in Threads, Busy(u)', ~mixed'[u]
        PROVE  u # t /\ Busy(u) /\ ~mixed[u] /\ mid[u] # i /\ Stored(u)' = Stored(u)
    BY <1>1, <1>2, <2>1, <2>2, <2>4 DEF Stored
  <2>5. AloneInv'
    <3> SUFFICES ASSUME NEW u \in Threads, Busy(u)', ~mixed'[u]
                 PROVE  /\ \A v \in Threads \ {u} : Busy(v)' => mid'[v] # mid'[u]
                        /\ \A r \in relay' : r.id = mid'[u] => r = Current(u)'
                        /\ table'[mid'[u]] # Absent
                        /\ table'[mid'[u]].response \in {None, Current(u)'}
      BY NullsStay DEF AloneInv
    <3> QED
      BY <1>1, <1>2, <2>1, <2>4 DEF AloneInv
  <2>6. WakeInv'
    <3> SUFFICES ASSUME NEW u \in Threads, Busy(u)', ~mixed'[u]
                 PROVE  /\ post' # None /\ post'.by = u /\ post'.n = n'[u] => Stored(u)'
                        /\ ~lateWake'[u] /\ (sem'[u] > 0 \/ pc'[u] = "posted") => Stored(u)'
                        /\ ~lateWake'[u] /\ pc'[u] = "read"
                               => result'[u].response = Current(u)'
                        /\ result'[u].code = "none"
      BY NullsStay DEF WakeInv
    <3> QED
      BY <1>1, <1>2, <2>4 DEF WakeInv
  <2> QED
    BY <1>1, <1>2, <2>3, <2>5, <2>6, <1>4
<1> QED
  BY <1>5, <1>6

\* The steps that leave ids, requests and events alone.
LEMMA KeepsRequests ==
    ASSUME UNCHANGED <<n, mid, mixed, table>>,
           \A t \in Threads : Busy(t)' = Busy(t)
    PROVE  /\ \A t \in Threads : Current(t)' = Current(t) /\ Stored(t)' = Stored(t)
           /\ TypeOK /\ EventInv => EventInv'
<1>1. \A t \in Threads : Current(t)' = Current(t) /\ Stored(t)' = Stored(t)
  BY DEF Current, Stored
<1>2. ASSUME TypeOK, EventInv PROVE EventInv'
  <2>1. \A i \in MsgIds : table[i].event # Nobody => table[i].event \in Threads
    BY <1>2 DEF TypeOK, Entry, Absent
  <2> QED
    BY <1>2, <2>1 DEF EventInv, Absent
<1> QED
  BY <1>1, <1>2

LEMMA NextResponse ==
    ASSUME ResponseInv, [Next]_vars
    PROVE  ResponseInv'
<1> USE DEF ResponseInv, TypeOK
<1>1. TypeOK' /\ BusyInv' /\ TableOwned'
  BY NextBusy, NextOwned
<1>2. ASSUME NEW t \in Threads, NEW i \in MsgIds, Start(t, i) PROVE ResponseInv'
  BY <1>1, <1>2, StartResponse
<1>3. ASSUME NEW t \in Threads, Send(t) PROVE ResponseInv'
  <2>1. /\ UNCHANGED <<n, mid, mixed, table>> /\ UNCHANGED <<sem, post, result, lateWake>>
        /\ relay' \subseteq relay \cup {Current(t)}
        /\ \A u \in Threads : Busy(u)' = Busy(u)
        /\ Busy(t)
        /\ \A u \in Threads : u # t => pc'[u] = pc[u]
        /\ pc'[t] = "waiting"
    BY <1>3 DEF Send, Busy
  <2>2. Current(t).id = mid[t]
    BY DEF Current
  <2>3. AloneInv'
    BY <2>1, <2>2, KeepsRequests DEF AloneInv, None, Absent
  <2>4. WakeInv'
    BY <2>1, KeepsRequests DEF WakeInv, None
  <2> QED
    BY <1>1, <2>1, <2>3, <2>4, KeepsRequests DEF PostInv, OwnResponse, None
<1>4. ASSUME NEW t \in Threads, WaitPosted(t) \/ WaitFailed(t) PROVE ResponseInv'
  <2>1. /\ UNCHANGED <<n, mid, mixed, table>> /\ UNCHANGED <<relay, post, result, lateWake>>
        /\ \A u \in Threads : Busy(u)' = Busy(u)
        /\ \A u \in Threads : sem'[u] > 0 => sem[u] > 0
        /\ \A u \in Threads : pc'[u] = "posted" => pc[u] = "posted" \/ sem[u] > 0
        /\ \A u \in Threads : pc'[u] = "read" => pc[u] = "read"
    BY <1>4 DEF WaitPosted, WaitFailed, Busy
  <2>2. AloneInv' /\ WakeInv'
    BY <2>1, KeepsRequests DEF AloneInv, WakeInv, None, Absent
  <2> QED
    BY <1>1, <2>1, <2>2, KeepsRequests DEF PostInv, OwnResponse, None
<1>5. ASSUME NEW t \in Threads, ReadResponse(t) PROVE ResponseInv'
  <2>1. /\ UNCHANGED <<n, mid, mixed, table>> /\ UNCHANGED <<relay, post, sem, lateWake>>
        /\ \A u \in Threads : Busy(u)' = Busy(u)
        /\ \A u \in Threads : u # t => pc'[u] = pc[u] /\ result'[u] = result[u]
        /\ Busy(t) /\ pc[t] = "posted" /\ pc'[t] = "read"
        /\ result'[t].code = result[t].code
        /\ table[mid[t]] # Absent => result'[t].response = table[mid[t]].response
    BY <1>5 DEF ReadResponse, Busy
  <2>2. AloneInv'
    BY <2>1, KeepsRequests DEF AloneInv, None, Absent
  <2>3. ~mixed[t] => /\ result'[t].response \in {None, Current(t)}
                     /\ ~lateWake[t] => result'[t].response = Current(t)
    BY <2>1 DEF AloneInv, WakeInv, Stored
  <2>4. WakeInv'
    BY <2>1, <2>3, KeepsRequests DEF WakeInv, None
  <2>5. OwnResponse'
    BY <2>1, <2>3, KeepsRequests DEF OwnResponse, WakeInv, None
  <2> QED
    BY <1>1, <2>1, <2>2, <2>4, <2>5, KeepsRequests DEF PostInv, None
<1>6. ASSUME NEW t \in Threads, Finish(t) PROVE ResponseInv'
  <2>1. /\ UNCHANGED <<n, mid, mixed>> /\ UNCHANGED <<relay, post, sem, lateWake>>
        /\ \A u \in Threads : u # t =>
               pc'[u] = pc[u] /\ result'[u] = result[u] /\ Busy(u)' = Busy(u)
        /\ Busy(t) /\ pc[t] \in {"read", "failed"} /\ ~Busy(t)'
        /\ result'[t].response = result[t].response
        /\ result'[t].code = "success" => pc[t] = "read"
        /\ table'[mid[t]] = Absent
        /\ \A i \in MsgIds : i # mid[t] => table'[i] = table[i]
    BY <1>6 DEF Finish, Busy
  <2>2. \A u \in Threads : Current(u)' = Current(u)
    BY <2>1 DEF Current
  <2>3. EventInv'
    <3> SUFFICES ASSUME NEW i \in MsgIds
                 PROVE  /\ table'[i].event # Nobody =>
                              /\ Busy(table[i].event)'
                              /\ table'[i].n = n[table'[i].event]
                              /\ mid[table'[i].event] = i
                        /\ table'[i] # Absent /\ table'[i].event = Nobody
                              => table'[i].response.id = i
      BY <2>1 DEF EventInv, Absent
    <3>1. table[i].event # Nobody => table[i].event \in Threads
      BY DEF Entry, Absent
    <3> QED
      <4>1. CASE i = mid[t]
        BY <2>1, <4>1, RelayRequestAssumption DEF Absent
      <4>2. CASE i # mid[t]
        BY <2>1, <3>1, <4>2 DEF EventInv
      <4> QED
        BY <4>1, <4>2
  <2>4. AloneInv'
    <3> SUFFICES ASSUME NEW u \in Threads, Busy(u)', ~mixed[u]
                 PROVE  /\ \A v \in Threads \ {u} : Busy(v)' => mid[v] # mid[u]
                        /\ \A r \in relay : r.id = mid[u] => r = Current(u)
                        /\ table'[mid[u]] # Absent
                        /\ table'[mid[u]].response \in {None, Current(u)}
      BY <2>1, <2>2, NullsStay DEF AloneInv
    <3>1. u # t /\ mid[u] # mid[t] /\ mid[u] \in MsgIds
      BY <2>1 DEF AloneInv
    <3> QED
      BY <2>1, <3>1 DEF AloneInv
  <2>5. \A u \in Threads : u # t /\ Busy(u) /\ ~mixed[u] => Stored(u)' = Stored(u)
    BY <2>1, <2>2 DEF AloneInv, Stored
  <2>6. WakeInv'
    BY <2>1, <2>2, <2>5 DEF WakeInv, None
  <2>7. OwnResponse'
    BY <2>1, <2>2 DEF OwnResponse, WakeInv, None
  <2> QED
    BY <1>1, <2>1, <2>3, <2>4, <2>6, <2>7 DEF PostInv, None
<1>7. ASSUME NEW r \in relay, ReplyDropped(r) \/ ReplyLate(r) PROVE ResponseInv'
  <2>1. /\ UNCHANGED <<n, mid, mixed, table>>
        /\ UNCHANGED <<pc, post, sem, result, lateWake>>
        /\ relay' \subseteq relay
        /\ \A u \in Threads : Busy(u)' = Busy(u)
    BY <1>7 DEF ReplyDropped, ReplyLate, Busy
  <2>2. AloneInv' /\ WakeInv'
    BY <2>1, KeepsRequests DEF AloneInv, WakeInv, None, Absent
  <2> QED
    BY <1>1, <2>1, <2>2, KeepsRequests DEF PostInv, OwnResponse, None
<1>8. ASSUME NEW r \in relay, ReplyFound(r) PROVE ResponseInv'
  <2> DEFINE e == table[r.id]
  <2>1. /\ UNCHANGED <<n, mid, mixed>> /\ UNCHANGED <<pc, sem, result, lateWake>>
        /\ relay' \subseteq relay
        /\ \A u \in Threads : Busy(u)' = Busy(u) /\ Current(u)' = Current(u)
        /\ r.id \in MsgIds /\ r \in Request /\ e \in Entry
        /\ table'[r.id] = [event |-> Nobody, n |-> 0, response |-> r]
        /\ \A i \in MsgIds : i # r.id => table'[i] = table[i]
        /\ post' = IF e.event = Nobody THEN None
                   ELSE [by |-> e.event, n |-> e.n, id |-> r.id]
    BY <1>8, NoneFacts DEF ReplyFound, Busy, Current
  <2>2. table'[r.id] # Absent
    BY <2>1, NoneFacts, RelayRequestAssumption DEF Entry
  <2>3. EventInv'
    <3> SUFFICES ASSUME NEW i \in MsgIds
                 PROVE  /\ table'[i].event # Nobody =>
                              /\ Busy(table[i].event)'
                              /\ table'[i].n = n[table'[i].event]
                              /\ mid[table'[i].event] = i
                        /\ table'[i] # Absent /\ table'[i].event = Nobody
                              => table'[i].response.id = i
      BY <2>1 DEF EventInv, Absent
    <3>1. table[i].event # Nobody => table[i].event \in Threads
      BY DEF Entry, Absent
    <3> QED
      BY <2>1, <3>1 DEF EventInv, Absent
  <2>4. ASSUME NEW t \in Threads, Busy(t), ~mixed[t]
        PROVE  IF mid[t] = r.id THEN r = Current(t) /\ Stored(t)'
               ELSE Stored(t)' = Stored(t)
    BY <2>1, <2>4 DEF AloneInv, Stored
  <2>5. AloneInv'
    BY <2>1, <2>2, <2>4 DEF AloneInv, None, Absent
  <2>6. e.event # Nobody => e.event \in Threads /\ mid[e.event] = r.id /\ e.n = n[e.event]
    BY <2>1 DEF EventInv, Entry
  <2>7. WakeInv'
    <3> SUFFICES ASSUME NEW t \in Threads, Busy(t), ~mixed[t]
                 PROVE  /\ post' # None /\ post'.by = t /\ post'.n = n[t] => Stored(t)'
                        /\ Stored(t) => Stored(t)'
      BY <2>1 DEF WakeInv, None
    <3> QED
      BY <2>1, <2>4, <2>6
  <2>8. PostInv'
    BY <2>1, <2>6 DEF PostInv, None
  <2> QED
    BY <1>1, <2>1, <2>3, <2>5, <2>7, <2>8 DEF OwnResponse, None
<1>9. CASE Post
  <2>1. /\ UNCHANGED <<n, mid, mixed, table>> /\ UNCHANGED <<pc, relay, result>>
        /\ post # None /\ post' = None
        /\ \A u \in Threads : Busy(u)' = Busy(u)
        /\ post.by \in Threads
    BY <1>9, NoneFacts DEF Post, Busy
  <2>2. ASSUME NEW u \in Threads, Busy(u), ~mixed[u], ~lateWake'[u], sem'[u] > 0
        PROVE  Stored(u)
    <3>1. CASE ~lateWake[u] /\ sem[u] > 0
      BY <2>2, <3>1 DEF WakeInv
    <3>2. CASE u = post.by /\ n[u] = post.n
      BY <2>1, <2>2, <3>2 DEF WakeInv
    <3> QED
      BY <1>9, <2>1, <2>2, <3>1, <3>2 DEF Post
  <2>3. \A u \in Threads : ~lateWake'[u] => ~lateWake[u]
    BY <1>9, <2>1 DEF Post
  <2>4. AloneInv' /\ WakeInv' /\ OwnResponse'
    BY <2>1, <2>2, <2>3, KeepsRequests DEF AloneInv, WakeInv, OwnResponse, None, Absent
  <2> QED
    BY <1>1, <2>1, <2>4, KeepsRequests DEF PostInv, None
<1>10. CASE UNCHANGED vars
  BY <1>1, <1>10, KeepsRequests
     DEF vars, AloneInv, WakeInv, PostInv, OwnResponse, None, Absent, Busy
<1> QED
  BY <1>2, <1>3, <1>4, <1>5, <1>6, <1>7, <1>8, <1>9, <1>10 DEF Next, WorkerStep, ReplyStep

\* A request that shares its id with no other one under way gets its own reply
\* or none, and reports SUCCESS with it in hand unless a late post woke it, for
\* any number of worker threads and requests.
THEOREM OwnResponseHolds == Spec => []OwnResponse
<1>1. Init => ResponseInv
  BY InitResponse
<1>2. ResponseInv /\ [Next]_vars => ResponseInv'
  BY NextResponse
<1>3. ResponseInv => OwnResponse
  BY DEF ResponseInv
<1> QED
  BY <1>1, <1>2, <1>3, PTL DEF Spec
=============================================================================
