------------------------------ MODULE Dispatch ------------------------------
(***************************************************************************)
(* logicDispatch: the process that accepts the clients' short connections, *)
(* hands each to a worker thread, forwards requests to a logic process and *)
(* routes each reply back by the pair (sfd, id) the request carried.       *)
(*                                                                         *)
(* Three kinds of threads share the kernel's descriptor table and the map  *)
(* map_csfd_id_: the master (accept), the workers (read, error, close) and *)
(* the local transport (replies).  A step below is what one thread does    *)
(* between two points where another thread can see the difference: each    *)
(* locked operation of the map, each system call that opens or closes a    *)
(* descriptor, each push to and pop from a queue.                          *)
(***************************************************************************)
EXTENDS Integers, Sequences, FiniteSets

CONSTANTS
    Conns,       \* client connections, each established at most once
    Fds,         \* the descriptors the kernel can give to a client
    NoConn,      \* no connection
    NoFd,        \* no descriptor yet
    ThreadNum,   \* thread_num_, the number of worker threads
    IdLimit,     \* 65535 in GetClientfdMapId
    MaxAccepts,  \* bound: connections accepted in a behaviour
    MaxReplies   \* bound: replies waiting in the local link

ASSUME DispatchAssumption ==
    /\ NoConn \notin Conns
    /\ NoFd \notin Fds
    /\ ThreadNum \in Nat \ {0}
    /\ IdLimit \in Nat
    /\ MaxAccepts \in Nat
    /\ MaxReplies \in Nat

Workers == 0 .. ThreadNum - 1
Ids == 0 .. IdLimit + 1
NoId == -1                \* the map has no entry for a descriptor
Requests == [fd : Fds, id : Ids, conn : Conns]
NoReply == [fd |-> NoFd, id |-> NoId, conn |-> NoConn]

VARIABLES
    fdOwner,     \* kernel: the connection behind each open descriptor
    mapId,       \* CMasterThread::map_csfd_id_
    lastId,      \* CMasterThread::id_
    accepts,     \* how many connections were accepted (bounded)
    mpc,         \* the master thread's place in AcceptCb
    mconn,       \* the connection the master is accepting
    lastThread,  \* CWorkerThread::last_thread_
    queue,       \* new_conn_queue of each worker
    st,          \* where a connection is in its life
    cfd,         \* conn::sfd
    cid,         \* conn::id
    worker,      \* conn::thread
    verified,    \* conn::isVerify, after a correct token
    linkUp,      \* map_logic_sfd_ has the logic process' connection
    atLogic,     \* requests the logic process has
    replies,     \* replies read by the local transport, not yet routed
    local,       \* the reply SendToClient has checked and will now write
    received     \* per connection, the requesters whose replies it was sent

kernelVars == <<fdOwner, mapId>>
masterVars == <<lastId, accepts, mpc, mconn, lastThread>>
connVars == <<st, cfd, cid, worker, verified>>
logicVars == <<linkUp, atLogic, replies, local, received>>
vars == <<kernelVars, masterVars, queue, connVars, logicVars>>

Stages == {"new", "accepting", "queued", "open", "closing", "gone"}
Live(c) == st[c] \in {"accepting", "queued", "open", "closing"}

TypeOK ==
    /\ fdOwner \in [Fds -> Conns \cup {NoConn}]
    /\ mapId \in [Fds -> Ids \cup {NoId}]
    /\ lastId \in Ids
    /\ accepts \in 0 .. MaxAccepts
    /\ mpc \in {"idle", "accepted", "erased", "inserted"}
    /\ mconn \in IF mpc = "idle" THEN {NoConn} ELSE Conns
    /\ lastThread \in -1 .. ThreadNum - 1
    /\ queue \in [Workers -> Seq(Conns)]
    /\ st \in [Conns -> Stages]
    /\ cfd \in [Conns -> Fds \cup {NoFd}]
    /\ cid \in [Conns -> Ids]
    /\ worker \in [Conns -> Workers]
    /\ verified \in [Conns -> BOOLEAN]
    /\ linkUp \in BOOLEAN
    /\ atLogic \subseteq Requests
    /\ replies \in Seq(Requests)
    /\ local \in Requests \cup {NoReply}
    /\ received \in [Conns -> SUBSET Conns]

Init ==
    /\ fdOwner = [f \in Fds |-> NoConn]
    /\ mapId = [f \in Fds |-> NoId]
    /\ lastId = 0
    /\ accepts = 0
    /\ mpc = "idle"
    /\ mconn = NoConn
    /\ lastThread = -1
    /\ queue = [w \in Workers |-> <<>>]
    /\ st = [c \in Conns |-> "new"]
    /\ cfd = [c \in Conns |-> NoFd]
    /\ cid = [c \in Conns |-> 0]
    /\ worker = [c \in Conns |-> 0]
    /\ verified = [c \in Conns |-> FALSE]
    /\ linkUp = FALSE
    /\ atLogic = {}
    /\ replies = <<>>
    /\ local = NoReply
    /\ received = [c \in Conns |-> {}]

-----------------------------------------------------------------------------
(* The master thread.                                                      *)

\* Mutant: the id never starts over.
NextId_NoReset(i) == i + 1

\* GetClientfdMapId: 0 follows 65536.
NextId(i) == IF i > IdLimit THEN 0 ELSE i + 1

\* accept() gives the connection a descriptor that is free in the kernel's
\* table, then the master draws the next id.
MasterAccept(c, f) ==
    /\ mpc = "idle"
    /\ accepts < MaxAccepts
    /\ st[c] = "new"
    /\ fdOwner[f] = NoConn
    /\ fdOwner' = [fdOwner EXCEPT ![f] = c]
    /\ accepts' = accepts + 1
    /\ lastId' = NextId(lastId)
    /\ cfd' = [cfd EXCEPT ![c] = f]
    /\ cid' = [cid EXCEPT ![c] = NextId(lastId)]
    /\ st' = [st EXCEPT ![c] = "accepting"]
    /\ mpc' = "accepted"
    /\ mconn' = c
    /\ UNCHANGED <<mapId, lastThread, queue, worker, verified, logicVars>>

\* SetSocketNoBlock failed: the descriptor is closed at once.
MasterRefuse(c) ==
    /\ mpc = "idle"
    /\ st[c] = "new"
    /\ \E f \in Fds : fdOwner[f] = NoConn
    /\ st' = [st EXCEPT ![c] = "gone"]
    /\ UNCHANGED <<kernelVars, masterVars, queue, cfd, cid, worker, verified,
                   logicVars>>

\* Mutant: the entry of the descriptor's former owner is not erased.
MasterErase_Forgotten ==
    /\ mpc = "accepted"
    /\ mpc' = "erased"
    /\ UNCHANGED <<kernelVars, lastId, accepts, mconn, lastThread, queue,
                   connVars, logicVars>>

MasterErase ==
    /\ mpc = "accepted"
    /\ mapId' = [mapId EXCEPT ![cfd[mconn]] = NoId]
    /\ mpc' = "erased"
    /\ UNCHANGED <<fdOwner, lastId, accepts, mconn, lastThread, queue,
                   connVars, logicVars>>

\* std::map::insert keeps an entry that is already there.
MapInsert(m, f, i) == IF m[f] = NoId THEN [m EXCEPT ![f] = i] ELSE m

MasterInsert ==
    /\ mpc = "erased"
    /\ mapId' = MapInsert(mapId, cfd[mconn], cid[mconn])
    /\ mpc' = "inserted"
    /\ UNCHANGED <<fdOwner, lastId, accepts, mconn, lastThread, queue,
                   connVars, logicVars>>

\* DispatchSfdToWorker: round robin over the workers.
MasterDispatch ==
    /\ mpc = "inserted"
    /\ lastThread' = (lastThread + 1) % ThreadNum
    /\ queue' = [queue EXCEPT ![lastThread'] = Append(@, mconn)]
    /\ worker' = [worker EXCEPT ![mconn] = lastThread']
    /\ st' = [st EXCEPT ![mconn] = "queued"]
    /\ mpc' = "idle"
    /\ mconn' = NoConn
    /\ UNCHANGED <<kernelVars, lastId, accepts, cfd, cid, verified, logicVars>>

-----------------------------------------------------------------------------
(* The worker threads.  A worker runs one callback at a time, so it serves *)
(* no other connection while it is between the two steps of an ErrorCb.    *)

Free(w) == \A c \in Conns : ~(worker[c] = w /\ st[c] = "closing")

Close(c) ==
    /\ fdOwner' = [fdOwner EXCEPT ![cfd[c]] = NoConn]
    /\ st' = [st EXCEPT ![c] = "gone"]

\* Mutant: a connection that cannot be registered is not closed.
WorkerNew_Leaks(w) ==
    /\ Free(w)
    /\ queue[w] # <<>>
    /\ queue' = [queue EXCEPT ![w] = Tail(@)]
    /\ \/ st' = [st EXCEPT ![Head(queue[w])] = "open"]
       \/ UNCHANGED st
    /\ UNCHANGED <<kernelVars, masterVars, cfd, cid, worker, verified, logicVars>>

\* ThreadLibeventProcess: conn_new registers the connection, or fails and
\* the descriptor is closed; the map's entry is left as it is.
WorkerNew(w) ==
    /\ Free(w)
    /\ queue[w] # <<>>
    /\ queue' = [queue EXCEPT ![w] = Tail(@)]
    /\ LET c == Head(queue[w]) IN
          \/ /\ st' = [st EXCEPT ![c] = "open"]
             /\ UNCHANGED fdOwner
          \/ Close(c)
    /\ UNCHANGED <<mapId, masterVars, cfd, cid, worker, verified, logicVars>>

\* ClientTcpReadCb: the first TOKEN_LENGTH bytes are the token.
ReadToken(c) ==
    /\ st[c] = "open"
    /\ Free(worker[c])
    /\ ~verified[c]
    /\ verified' = [verified EXCEPT ![c] = TRUE]
    /\ UNCHANGED <<kernelVars, masterVars, queue, st, cfd, cid, worker, logicVars>>

\* A wrong token closes the connection, again without touching the map.
ReadBadToken(c) ==
    /\ st[c] = "open"
    /\ Free(worker[c])
    /\ ~verified[c]
    /\ Close(c)
    /\ UNCHANGED <<mapId, masterVars, queue, cfd, cid, worker, verified, logicVars>>

\* A complete line.  rBuf is never consumed, so a later line on the same
\* connection forwards the first request again.  Without a logic process
\* the request is dropped and nothing changes.
ReadLine(c) ==
    /\ st[c] = "open"
    /\ Free(worker[c])
    /\ verified[c]
    /\ linkUp
    /\ atLogic' = atLogic \cup {[fd |-> cfd[c], id |-> cid[c], conn |-> c]}
    /\ UNCHANGED <<kernelVars, masterVars, queue, connVars, linkUp, replies,
                   local, received>>

\* Mutant: the map's entry survives the connection.
ErrorErase_Forgotten(c) ==
    /\ st[c] = "open"
    /\ Free(worker[c])
    /\ st' = [st EXCEPT ![c] = "closing"]
    /\ UNCHANGED <<kernelVars, masterVars, queue, cfd, cid, worker, verified,
                   logicVars>>

\* Mutant: the descriptor is closed here and again by conn_close.
ErrorErase_ClosesToo(c) ==
    /\ st[c] = "open"
    /\ Free(worker[c])
    /\ mapId' = [mapId EXCEPT ![cfd[c]] = NoId]
    /\ fdOwner' = [fdOwner EXCEPT ![cfd[c]] = NoConn]
    /\ st' = [st EXCEPT ![c] = "closing"]
    /\ UNCHANGED <<masterVars, queue, cfd, cid, worker, verified, logicVars>>

\* ClientTcpErrorCb, on the timeout, the peer's close or an error: first the
\* map's entry goes ...
ErrorErase(c) ==
    /\ st[c] = "open"
    /\ Free(worker[c])
    /\ mapId' = [mapId EXCEPT ![cfd[c]] = NoId]
    /\ st' = [st EXCEPT ![c] = "closing"]
    /\ UNCHANGED <<fdOwner, masterVars, queue, cfd, cid, worker, verified,
                   logicVars>>

\* ... then conn_close frees the bufferevent, which closes the descriptor.
ErrorClose(c) ==
    /\ st[c] = "closing"
    /\ Close(c)
    /\ UNCHANGED <<mapId, masterVars, queue, cfd, cid, worker, verified, logicVars>>

-----------------------------------------------------------------------------
(* The logic process, as the dispatcher sees it, and the local transport.  *)

LinkUp ==
    /\ ~linkUp
    /\ linkUp' = TRUE
    /\ UNCHANGED <<kernelVars, masterVars, queue, connVars, atLogic, replies,
                   local, received>>

\* The link breaks: what was in its buffers is lost, and the requests of a
\* logic process that died with it too.
LinkDown ==
    /\ linkUp
    /\ linkUp' = FALSE
    /\ replies' = <<>>
    /\ atLogic' \in SUBSET atLogic
    /\ UNCHANGED <<kernelVars, masterVars, queue, connVars, local, received>>

\* The consumers of a logic process answer in any order.  A request of an
\* unknown type makes it send the previous answer again, so answering does
\* not always take the request away.
LogicAnswer(r) ==
    /\ linkUp
    /\ r \in atLogic
    /\ Len(replies) < MaxReplies
    /\ replies' = Append(replies, r)
    /\ atLogic' \in {atLogic, atLogic \ {r}}
    /\ UNCHANGED <<kernelVars, masterVars, queue, connVars, linkUp, local, received>>

\* SendToClient compares the reply's id with the map's ...
SendToClientCheck ==
    /\ local = NoReply
    /\ replies # <<>>
    /\ replies' = Tail(replies)
    /\ local' = IF mapId[Head(replies).fd] = Head(replies).id
                THEN Head(replies) ELSE NoReply
    /\ UNCHANGED <<kernelVars, masterVars, queue, connVars, linkUp, atLogic,
                   received>>

\* ... and, the map's lock released, writes to the descriptor: the bytes go
\* to whoever is behind it now, or nowhere.
SendToClientWrite ==
    /\ local # NoReply
    /\ local' = NoReply
    /\ LET to == fdOwner[local.fd] IN
       received' = IF to = NoConn THEN received
                   ELSE [received EXCEPT ![to] = @ \cup {local.conn}]
    /\ UNCHANGED <<kernelVars, masterVars, queue, connVars, linkUp, atLogic,
                   replies>>

-----------------------------------------------------------------------------
MasterStep ==
    \/ \E c \in Conns, f \in Fds : MasterAccept(c, f)
    \/ \E c \in Conns : MasterRefuse(c)
    \/ MasterErase
    \/ MasterInsert
    \/ MasterDispatch

ConnStep(c) ==
    \/ ReadToken(c)
    \/ ReadBadToken(c)
    \/ ReadLine(c)
    \/ ErrorErase(c)
    \/ ErrorClose(c)

LogicStep ==
    \/ LinkUp
    \/ LinkDown
    \/ \E r \in Requests : LogicAnswer(r)
    \/ SendToClientCheck
    \/ SendToClientWrite

Next ==
    \/ MasterStep
    \/ \E w \in Workers : WorkerNew(w)
    \/ \E c \in Conns : ConnStep(c)
    \/ LogicStep

Spec == Init /\ [][Next]_vars

\* Every event loop keeps running its callbacks, and client_timeout_ ends a
\* connection whose peer stays silent.
Fairness ==
    /\ WF_vars(MasterErase \/ MasterInsert \/ MasterDispatch)
    /\ \A w \in Workers : WF_vars(WorkerNew(w))
    /\ \A c \in Conns : WF_vars(ErrorErase(c)) /\ WF_vars(ErrorClose(c))
    /\ WF_vars(SendToClientCheck) /\ WF_vars(SendToClientWrite)

FairSpec == Spec /\ Fairness

-----------------------------------------------------------------------------
(* Properties.                                                             *)

\* The requests that may still come back as replies.
InFlight == atLogic \cup {replies[i] : i \in DOMAIN replies}

\* As long as the ids have not wrapped (NoWrap), a request whose (sfd, id)
\* still matches map_csfd_id_ belongs to the connection that is behind the
\* descriptor and still open: the test of SendToClient never accepts the
\* reply to a dead client, whatever descriptors were reused meanwhile.
CheckSound ==
    \A r \in InFlight :
        mapId[r.fd] = r.id => st[r.conn] = "open" /\ fdOwner[r.fd] = r.conn

\* A connection a worker serves can be answered: the map holds its own id,
\* although rejected connections leave their entries behind and the master
\* and the workers change the map without a common lock.
Reachable == \A c \in Conns : st[c] = "open" => mapId[cfd[c]] = cid[c]

\* No thread closes a descriptor another connection lives on: from accept to
\* conn_close the kernel's descriptor stays the connection's own.
FdExclusive == \A c \in Conns : Live(c) => fdOwner[cfd[c]] = c

\* Every accepted connection is closed in the end, also when its worker
\* cannot register it, sends a wrong token or falls silent.
Released == \A c \in Conns : (st[c] = "accepting") ~> (st[c] = "gone")

\* What the comments of CMasterThread::AcceptCb promise: a client never gets
\* the reply to another client's request.
NoCrosstalk == \A c \in Conns : received[c] \subseteq {c}

\* What does hold of it, wrapped ids or not: the one who gets a reply to another
\* client's request has that client's descriptor, and the other one is gone.
OnlyToSuccessor ==
    \A c \in Conns : \A d \in received[c] \ {c} : st[d] = "gone" /\ cfd[d] = cfd[c]

\* No descriptor is leaked: a live connection is in the master's hands, in the
\* queue of its own worker, or that worker's, who runs one ErrorCb at a time.
Held ==
    /\ \A c \in Conns : st[c] = "accepting" => mpc # "idle" /\ mconn = c
    /\ \A c \in Conns : st[c] = "queued" =>
          \E i \in DOMAIN queue[worker[c]] : queue[worker[c]][i] = c
    /\ \A c, d \in Conns :
          st[c] = "closing" /\ st[d] = "closing" /\ worker[c] = worker[d] => c = d

\* Fewer connections than ids.
NoWrap == MaxAccepts <= IdLimit + 1

(* The inductive invariant behind FdExclusive, Reachable and CheckSound.   *)

\* The kernel's table and the connections agree.
OwnerInv ==
    /\ \A c \in Conns : Live(c) => cfd[c] \in Fds /\ fdOwner[cfd[c]] = c
    /\ \A f \in Fds : fdOwner[f] # NoConn =>
           Live(fdOwner[f]) /\ cfd[fdOwner[f]] = f
    /\ \A c \in Conns : st[c] = "new" => cfd[c] = NoFd

\* The master is between accept and dispatch with one connection at most.
MasterInv ==
    /\ mpc # "idle" => mconn \in Conns /\ st[mconn] = "accepting"
    /\ \A c \in Conns : st[c] = "accepting" => mpc # "idle" /\ c = mconn

\* A queued connection is in one place of one queue.
QueueInv ==
    /\ \A w \in Workers : \A i \in DOMAIN queue[w] : st[queue[w][i]] = "queued"
    /\ \A w, v \in Workers : \A i \in DOMAIN queue[w], j \in DOMAIN queue[v] :
           queue[w][i] = queue[v][j] => w = v /\ i = j

\* From MasterInsert until ErrorErase the map holds the connection's id.
MapInv ==
    /\ mpc = "erased" => mapId[cfd[mconn]] = NoId
    /\ mpc = "inserted" => mapId[cfd[mconn]] = cid[mconn]
    /\ \A c \in Conns : st[c] \in {"queued", "open"} => mapId[cfd[c]] = cid[c]

FdInv == TypeOK /\ OwnerInv /\ MasterInv /\ QueueInv /\ MapInv

\* Until the ids wrap, no two connections have the same.
IdInv ==
    /\ lastId = accepts
    /\ \A c \in Conns : cfd[c] # NoFd => cid[c] <= lastId
    /\ \A c, d \in Conns :
          c # d /\ cfd[c] # NoFd /\ cfd[d] # NoFd => cid[c] # cid[d]

\* A connection that could send a request leaves no entry behind.
VerifiedInv ==
    \A c \in Conns : verified[c] =>
        /\ st[c] \in {"open", "closing", "gone"}
        /\ cfd[c] \in Fds
        /\ mapId[cfd[c]] = cid[c] => st[c] = "open"

\* A request carries the descriptor and the id of its connection.
RequestInv ==
    \A r \in InFlight :
        verified[r.conn] /\ r.fd = cfd[r.conn] /\ r.id = cid[r.conn]

IdentityInv == FdInv /\ IdInv /\ VerifiedInv /\ RequestInv

\* The requests on their way, and the reply that SendToClient is about to write,
\* carry the descriptor of a connection that sends no more requests once it is gone.
Carried(r) == verified[r.conn] /\ r.fd = cfd[r.conn]

StrayInv ==
    /\ FdInv
    /\ \A c \in Conns : verified[c] => st[c] \in {"open", "closing", "gone"}
    /\ \A r \in InFlight \cup ({local} \ {NoReply}) : Carried(r)
    /\ OnlyToSuccessor
    /\ \A c \in Conns : received[c] # {} => cfd[c] # NoFd
=============================================================================
