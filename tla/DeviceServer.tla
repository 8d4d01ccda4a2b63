---------------------------- MODULE DeviceServer ----------------------------
(***************************************************************************)
(* imDevServer: the process that holds the devices' connections.  The      *)
(* master starts the workers, waits for them and accepts; the workers read *)
(* what devices say and write it into redis; the link's thread, module     *)
(* RelayLink, receives what is for a device and looks its connection up.   *)
(*                                                                         *)
(* Every redis command, every locked operation of map_csfd_id_ and every   *)
(* system call that changes a descriptor is a step.  A device says         *)
(* DEVICE_ONLINE, heartbeat or DEVICE_OFFLINE in any order, always of      *)
(* itself.  Once a close has hit somebody else's descriptor (spoiled) the  *)
(* model stops.                                                            *)
(***************************************************************************)
EXTENDS RelayLink

CONSTANTS
    Devices,    \* the devices, by guid
    ThreadNum,  \* thread_num_
    IdLimit,    \* the id after which GetClientfdMapId starts over: 65535
    MaxAccepts, \* bound: connections the server accepts
    MaxFails    \* bound: redis commands that fail

ASSUME DeviceServerAssumption ==
    /\ ThreadNum \in Nat \ {0}
    /\ {IdLimit, MaxAccepts, MaxFails} \subseteq Nat
    /\ Nil \notin Devices
    /\ Nil \notin 0 .. IdLimit + 1
    /\ Nil \notin {"online", "offline"}

Workers == 0 .. ThreadNum - 1
Ids == 0 .. IdLimit + 1
Stages == {"queued", "idle", "hsetNo", "hsetFd", "hsetId", "expire",
           "expireBeat", "erased"}
NoConn == [id |-> Nil, dev |-> Nil, worker |-> Nil, at |-> "none"]
Conns == [id : Ids, dev : Devices, worker : Workers, at : Stages]
NoInfo == [no |-> Nil, fd |-> Nil, id |-> Nil]
Pushes == [at : {"routed", "readId", "verify"}, dev : Devices,
           fd : Fds \cup {Nil}, id : Ids \cup {Nil}]
          \cup [at : {"verified", "closed"}, dev : Devices, fd : Fds, id : Ids]
NoPush == [at |-> "none", dev |-> Nil, fd |-> Nil, id |-> Nil]

VARIABLES
    started,   \* the workers that have called RegisterThreadInitialized
    master,    \* "creating", "waiting" in WaitForThreadRegistration, "running"
    conn,      \* the connection on each descriptor
    lastId,    \* CNetCore::id_
    given,     \* history: the ids GetClientfdMapId has given
    again,     \* history: it has given one of them twice
    accepts,   \* how many connections have been accepted (bounded)
    lastThread,\* CWorkThread::last_thread
    map,       \* CNetCore::map_csfd_id_
    lost,      \* history: ids of connections that conn_new refused
    flag,      \* redis: device:onlineflag
    ttl,       \* redis: whether that key expires
    info,      \* redis: device:s_info; the server's number is there or not
    fails,     \* how many redis commands have failed (bounded)
    alone,     \* history: the descriptor whose DEVICE_ONLINE is the latest
               \* that no other one of the device has run beside
    push       \* the message for a device that the link's thread works on;
               \* "closed": verified, and its descriptor has been closed since

bootVars == <<started, master>>
idVars == <<lastId, given, again, accepts>>
connVars == <<conn, idVars, lastThread, map, lost>>
redisVars == <<flag, ttl, info, fails, alone>>
vars == <<linkVars, bootVars, connVars, redisVars, push>>

TypeOK ==
    /\ LinkTypeOK
    /\ started \subseteq Workers
    /\ master \in {"creating", "waiting", "running"}
    /\ conn \in [Fds -> Conns \cup {NoConn}]
    /\ lastId \in Ids
    /\ given \subseteq Ids
    /\ again \in BOOLEAN
    /\ accepts \in 0 .. MaxAccepts
    /\ lastThread \in Workers
    /\ map \in [Fds -> Ids \cup {Nil}]
    /\ lost \subseteq Ids
    /\ flag \in [Devices -> {"online", "offline", Nil}]
    /\ ttl \in [Devices -> BOOLEAN]
    /\ info \in [Devices -> [no : {"ours", Nil}, fd : Fds \cup {Nil}, id : Ids \cup {Nil}]]
    /\ fails \in 0 .. MaxFails
    /\ alone \in [Devices -> Fds \cup {Nil}]
    /\ push \in Pushes \cup {NoPush}

Init ==
    /\ LinkInit
    /\ started = {}
    /\ master = "creating"
    /\ conn = [f \in Fds |-> NoConn]
    /\ lastId = 0
    /\ given = {}
    /\ again = FALSE
    /\ accepts = 0
    /\ lastThread = ThreadNum - 1
    /\ map = [f \in Fds |-> Nil]
    /\ lost = {}
    /\ flag = [d \in Devices |-> Nil]
    /\ ttl = [d \in Devices |-> FALSE]
    /\ info = [d \in Devices |-> NoInfo]
    /\ fails = 0
    /\ alone = [d \in Devices |-> Nil]
    /\ push = NoPush

-----------------------------------------------------------------------------
(* The start: InitThread creates the workers and waits for them.           *)

\* RegisterThreadInitialized, under init_lock_; the last one signals, and a
\* signal nobody waits for is gone.
Register(w) ==
    /\ w \notin started
    /\ started' = started \cup {w}
    /\ master' = IF started' = Workers /\ master = "waiting" THEN "running" ELSE master
    /\ UNCHANGED <<linkVars, connVars, redisVars, push>>

\* WaitForThreadRegistration: pthread_cond_wait, with no condition.
MasterWaits ==
    /\ master = "creating"
    /\ master' = "waiting"
    /\ UNCHANGED <<linkVars, started, connVars, redisVars, push>>

-----------------------------------------------------------------------------
(* Connections.                                                            *)

\* GetClientfdMapId.
NextId == IF lastId > IdLimit THEN 0 ELSE lastId + 1

\* Mutant: the number of the next thread does not start over.
Accept_NoModulo(f, d) ==
    LET id == NextId  w == lastThread + 1 IN
    /\ master = "running"
    /\ owner[f] = "free"
    /\ Cardinality({g \in Fds : owner[g] = "client"}) < Cardinality(Fds) - 1
    /\ accepts < MaxAccepts
    /\ Give(f, "client")
    /\ lastId' = id
    /\ given' = given \cup {id}
    /\ again' = (again \/ id \in given)
    /\ accepts' = accepts + 1
    /\ lastThread' = w
    /\ map' = [map EXCEPT ![f] = IF map[f] = Nil THEN id ELSE map[f]]
    /\ conn' = [conn EXCEPT ![f] = [id |-> id, dev |-> d, worker |-> w, at |-> "queued"]]
    /\ UNCHANGED <<link, spoiled, bootVars, lost, redisVars, push>>

\* DoAccept: accept, GetClientfdMapId, the insert, which replaces nothing,
\* and DispatchSfdToWorker; without the insert nobody knows the new id, so
\* these are one step.  The kernel has many descriptors: one is always left
\* for the link.
Accept(f, d) ==
    LET id == NextId  w == (lastThread + 1) % ThreadNum IN
    /\ master = "running"
    /\ owner[f] = "free"
    /\ Cardinality({g \in Fds : owner[g] = "client"}) < Cardinality(Fds) - 1
    /\ accepts < MaxAccepts
    /\ Give(f, "client")
    /\ lastId' = id
    /\ given' = given \cup {id}
    /\ again' = (again \/ id \in given)
    /\ accepts' = accepts + 1
    /\ lastThread' = w
    /\ map' = [map EXCEPT ![f] = IF map[f] = Nil THEN id ELSE map[f]]
    /\ conn' = [conn EXCEPT ![f] = [id |-> id, dev |-> d, worker |-> w, at |-> "queued"]]
    /\ UNCHANGED <<link, spoiled, bootVars, lost, redisVars, push>>

Idle == {"none", "queued", "idle"}
\* The worker of f is in no callback of another connection.
WorkerFree(f) ==
    \A g \in Fds : conn[g].worker = conn[f].worker => conn[g].at \in Idle
Goto(f, stage) == conn' = [conn EXCEPT ![f] = [@ EXCEPT !.at = stage]]
KeepConns == UNCHANGED <<idVars, lastThread, map, lost>>
\* The descriptor of the message on its way is closed.
PushCloses(f) ==
    push' = IF push.at = "verified" /\ push.fd = f THEN [push EXCEPT !.at = "closed"] ELSE push

\* ThreadLibeventProcess: conn_new ...
ConnNew(f) ==
    /\ conn[f].at = "queued"
    /\ WorkerFree(f)
    /\ Goto(f, "idle")
    /\ KeepConns
    /\ UNCHANGED <<linkVars, bootVars, redisVars, push>>

\* ... or close, and the entry stays in the map.
ConnNewFails(f) ==
    /\ conn[f].at = "queued"
    /\ WorkerFree(f)
    /\ CloseFd(f)
    /\ lost' = lost \cup {conn[f].id}
    /\ conn' = [conn EXCEPT ![f] = NoConn]
    /\ PushCloses(f)
    /\ UNCHANGED <<link, spoiled, bootVars, idVars, lastThread, map, redisVars>>

\* DoClientTcpError, after the end of the stream or
\* client_heartbeat_timeout_ without a message: the entry goes first ...
ErrorErase(f) ==
    /\ conn[f].at = "idle"
    /\ WorkerFree(f)
    /\ map' = [map EXCEPT ![f] = Nil]
    /\ Goto(f, "erased")
    /\ UNCHANGED <<linkVars, bootVars, idVars, lastThread, lost, redisVars, push>>

\* ... and conn_close closes.  Redis is not told.
ErrorClose(f) ==
    /\ conn[f].at = "erased"
    /\ CloseFd(f)
    /\ conn' = [conn EXCEPT ![f] = NoConn]
    /\ alone' = [d \in Devices |-> IF alone[d] = f THEN Nil ELSE alone[d]]
    /\ PushCloses(f)
    /\ UNCHANGED <<link, spoiled, bootVars, idVars, lastThread, map, lost,
                   flag, ttl, info, fails>>

-----------------------------------------------------------------------------
(* What devices say: StartLogicOpt.                                        *)

RedisFails == fails < MaxFails /\ fails' = fails + 1
Onlines == {"hsetNo", "hsetFd", "hsetId", "expire"}
\* A DEVICE_ONLINE of d is being handled.
Announcing(d) == \E f \in Fds : conn[f].dev = d /\ conn[f].at \in Onlines
KeepAll == UNCHANGED <<linkVars, bootVars, idVars, lastThread, map, lost, push>>

Ready(f) == conn[f].at = "idle" /\ WorkerFree(f)

\* DeviceOnline: Set of the flag, which takes its time to live away, ...
OnlineSet(f) ==
    LET d == conn[f].dev IN
    /\ Ready(f)
    /\ flag' = [flag EXCEPT ![d] = "online"]
    /\ ttl' = [ttl EXCEPT ![d] = FALSE]
    /\ alone' = [alone EXCEPT ![d] = IF Announcing(d) THEN Nil ELSE f]
    /\ Goto(f, "hsetNo")
    /\ UNCHANGED <<info, fails>>
    /\ KeepAll

\* Mutant: the id is written for the first connection only.
OnlineHset_OldId(f) ==
    LET d == conn[f].dev IN
    /\ \/ /\ conn[f].at = "hsetNo"
          /\ info' = [info EXCEPT ![d] = [@ EXCEPT !.no = "ours"]]
          /\ Goto(f, "hsetFd")
       \/ /\ conn[f].at = "hsetFd"
          /\ info' = [info EXCEPT ![d] = [@ EXCEPT !.fd = f]]
          /\ Goto(f, "hsetId")
       \/ /\ conn[f].at = "hsetId"
          /\ info' = IF info[d].id = Nil THEN [info EXCEPT ![d].id = conn[f].id] ELSE info
          /\ Goto(f, "expire")
    /\ UNCHANGED <<flag, ttl, fails, alone>>
    /\ KeepAll

\* ... the three Hsets ...
OnlineHset(f) ==
    LET d == conn[f].dev IN
    /\ \/ /\ conn[f].at = "hsetNo"
          /\ info' = [info EXCEPT ![d] = [@ EXCEPT !.no = "ours"]]
          /\ Goto(f, "hsetFd")
       \/ /\ conn[f].at = "hsetFd"
          /\ info' = [info EXCEPT ![d] = [@ EXCEPT !.fd = f]]
          /\ Goto(f, "hsetId")
       \/ /\ conn[f].at = "hsetId"
          /\ info' = [info EXCEPT ![d] = [@ EXCEPT !.id = conn[f].id]]
          /\ Goto(f, "expire")
    /\ UNCHANGED <<flag, ttl, fails, alone>>
    /\ KeepAll

\* Mutant: no Expire.
OnlineExpire_Forgotten(f) ==
    /\ conn[f].at = "expire"
    /\ Goto(f, "idle")
    /\ UNCHANGED redisVars
    /\ KeepAll

\* ... and Expire.
OnlineExpire(f) ==
    LET d == conn[f].dev IN
    /\ conn[f].at = "expire"
    /\ ttl' = [ttl EXCEPT ![d] = flag[d] # Nil]
    /\ Goto(f, "idle")
    /\ UNCHANGED <<flag, info, fails, alone>>
    /\ KeepAll

\* One of them fails, the ones after it are left out, and what is written
\* stays.
OnlineFails(f) ==
    LET d == conn[f].dev IN
    /\ RedisFails
    /\ conn[f].at \in Onlines
    /\ alone' = [alone EXCEPT ![d] = Nil]
    /\ Goto(f, "idle")
    /\ UNCHANGED <<flag, ttl, info>>
    /\ KeepAll

\* DeviceHeartBeat: Set of the flag, whose error is only logged, ...
BeatSet(f) ==
    LET d == conn[f].dev IN
    /\ Ready(f)
    /\ \/ /\ flag' = [flag EXCEPT ![d] = "online"]
          /\ ttl' = [ttl EXCEPT ![d] = FALSE]
          /\ UNCHANGED fails
       \/ RedisFails /\ UNCHANGED <<flag, ttl>>
    /\ Goto(f, "expireBeat")
    /\ UNCHANGED <<info, alone>>
    /\ KeepAll

\* Mutant: the flag is left without a time to live.
BeatExpire_Forgotten(f) ==
    /\ conn[f].at = "expireBeat"
    /\ Goto(f, "idle")
    /\ UNCHANGED redisVars
    /\ KeepAll

\* ... and Expire.  The key device_change, which DeviceHeartBeat then reads and
\* resets to answer the device, is left out: nothing else here reads it.
BeatExpire(f) ==
    LET d == conn[f].dev IN
    /\ conn[f].at = "expireBeat"
    /\ \/ ttl' = [ttl EXCEPT ![d] = flag[d] # Nil] /\ UNCHANGED fails
       \/ RedisFails /\ UNCHANGED ttl
    /\ Goto(f, "idle")
    /\ UNCHANGED <<flag, info, alone>>
    /\ KeepAll

\* DeviceOffline; where the device is stays in redis.
Offline(f) ==
    LET d == conn[f].dev IN
    /\ Ready(f)
    /\ flag' = [flag EXCEPT ![d] = "offline"]
    /\ ttl' = [ttl EXCEPT ![d] = FALSE]
    /\ UNCHANGED <<conn, info, fails, alone>>
    /\ KeepAll

\* client_heartbeat_timeout_ has passed since the last Expire.
FlagExpires(d) ==
    /\ ttl[d]
    /\ flag' = [flag EXCEPT ![d] = Nil]
    /\ ttl' = [ttl EXCEPT ![d] = FALSE]
    /\ UNCHANGED <<conn, info, fails, alone>>
    /\ KeepAll

-----------------------------------------------------------------------------
(* Messages for devices.                                                   *)

KeepServer == UNCHANGED <<linkVars, bootVars, connVars, flag, ttl, info, alone>>

\* imRelay's SendToImDevServer finds the device online and the server's number,
\* and the message gets here, if the link does not lose it.
PushRoutes(d) ==
    /\ push = NoPush
    /\ link.at = "up"
    /\ flag[d] = "online"
    /\ info[d].no = "ours"
    /\ push' = [NoPush EXCEPT !.at = "routed", !.dev = d]
    /\ UNCHANGED fails
    /\ KeepServer

\* VerifyDeviceSfd reads the descriptor ...
PushReadsFd ==
    /\ push.at = "routed"
    /\ push' = [push EXCEPT !.at = "readId", !.fd = info[push.dev].fd]
    /\ UNCHANGED fails
    /\ KeepServer

\* ... then the id ...
PushReadsId ==
    /\ push.at = "readId"
    /\ push' = [push EXCEPT !.at = "verify", !.id = info[push.dev].id]
    /\ UNCHANGED fails
    /\ KeepServer

\* Mutant: the descriptor alone is looked up.
FindValueByKey_FdOnly(f, id) == f \in Fds /\ map[f] # Nil

\* map_csfd_id_.findValueByKey(fd, id).
FindValueByKey(f, id) == f \in Fds /\ id # Nil /\ map[f] = id

\* ... and asks the map, under the map's lock.
PushVerify ==
    /\ push.at = "verify"
    /\ push' = IF FindValueByKey(push.fd, push.id)
               THEN [push EXCEPT !.at = "verified"]
               ELSE NoPush
    /\ UNCHANGED fails
    /\ KeepServer

\* SendToClient, later: without a lock, and in OptRelayDeviceModifyInfo after
\* a query of the database.  Whoever has the descriptor now gets the message.
PushWrites ==
    /\ push.at \in {"verified", "closed"}
    /\ push' = NoPush
    /\ UNCHANGED fails
    /\ KeepServer

\* An Hget fails, or the link breaks before the message is here.
PushLost ==
    /\ \/ push.at \in {"routed", "readId"} /\ RedisFails
       \/ push.at = "routed" /\ UNCHANGED fails
    /\ push' = NoPush
    /\ KeepServer

-----------------------------------------------------------------------------
LinkThread ==
    /\ master = "running"
    /\ push.at \in {"none", "routed"}
    /\ LinkStep
    /\ UNCHANGED <<bootVars, connVars, redisVars, push>>

MasterStep ==
    \/ MasterWaits
    \/ \E f \in Fds, d \in Devices : Accept(f, d)

\* What a worker does without being asked by the device.
Continue(f) ==
    \/ ConnNew(f) \/ ConnNewFails(f) \/ ErrorClose(f)
    \/ OnlineHset(f) \/ OnlineExpire(f) \/ BeatExpire(f)

WorkerStep(f) ==
    \/ Continue(f) \/ ErrorErase(f)
    \/ OnlineSet(f) \/ OnlineFails(f) \/ BeatSet(f) \/ Offline(f)

PushStep ==
    \/ \E d \in Devices : PushRoutes(d)
    \/ PushReadsFd \/ PushReadsId \/ PushVerify \/ PushWrites \/ PushLost

Next ==
    /\ ~spoiled
    /\ \/ \E w \in Workers : Register(w)
       \/ MasterStep
       \/ \E f \in Fds : WorkerStep(f)
       \/ \E d \in Devices : FlagExpires(d)
       \/ PushStep
       \/ LinkThread

Spec == Init /\ [][Next]_vars

\* The link's thread goes on; what the network does to it is not promised.
LinkGoesOn ==
    /\ LinkThread
    /\ (\E f \in Fds : LinkOpen(f)) \/ LinkClosesAgain
LinkSucceeds == LinkThread /\ LinkUp

\* Threads go on; a key with a
\* time to live expires; of infinitely many attempts to connect one succeeds.
Fairness ==
    /\ \A w \in Workers : WF_vars(Register(w))
    /\ WF_vars(MasterWaits)
    /\ \A f \in Fds : WF_vars(Continue(f))
    /\ \A d \in Devices : WF_vars(FlagExpires(d))
    /\ WF_vars(PushReadsFd \/ PushReadsId \/ PushVerify \/ PushWrites)
    /\ WF_vars(LinkGoesOn)
    /\ SF_vars(LinkSucceeds)

FairSpec == Spec /\ Fairness

-----------------------------------------------------------------------------
(* Properties.                                                             *)

\* The link's socket and the clients' are never closed under their owners:
\* apart from a second close by LinkClosesAgain, every thread closes only
\* what is its own.
FdOwned ==
    ~spoiled =>
        /\ \A f \in Fds : conn[f] # NoConn => owner[f] = "client"
        /\ link.at \in {"connecting", "up"} => owner[link.fd] = "link"

\* A connection that a worker serves is in the map under its own id, unless
\* conn_new has refused an earlier one on its descriptor: DoAccept, unlike
\* logicDispatch, does not erase before it inserts.
EntryOwn ==
    \A f \in Fds : conn[f].at \notin {"none", "erased"} =>
        map[f] = conn[f].id \/ map[f] \in lost

\* A connection that VerifyDeviceSfd has let through is the device's as long
\* as it stays open, although redis is written and read field by field, keeps
\* what it knows of connections that are closed, and descriptors are used
\* again: a message goes astray only through a close between the check and the
\* write, which no lock keeps together, or through an id that was given twice.
RightDevice ==
    ~again /\ push.at = "verified" => conn[push.fd].dev = push.dev

\* Whose DEVICE_ONLINE was the last of the device and ran alone is found
\* through redis and the map as long as the connection lives.
DeviceFound ==
    \A d \in Devices, f \in Fds :
        alone[d] = f /\ ~Announcing(d) /\ conn[f].at # "erased" /\ map[f] \notin lost =>
            info[d].no = "ours" /\ info[d].fd = f /\ FindValueByKey(f, info[d].id)

\* Between handlers the online flag has a time to live, if no command has failed.
OnlineExpires ==
    \A d \in Devices :
        /\ fails = 0
        /\ flag[d] = "online"
        /\ \A f \in Fds : conn[f].dev = d => conn[f].at \notin Onlines \cup {"expireBeat"}
        => ttl[d]

NoConnOf(d) == \A f \in Fds : conn[f].dev # d
\* A device that went away is not online for good.
OfflineInTheEnd ==
    \A d \in Devices :
        NoConnOf(d) ~> ~NoConnOf(d) \/ flag[d] # "online" \/ fails > 0 \/ spoiled

\* The link is up again and again, unless a descriptor that was not closed
\* keeps its port.
LinkComesBack == []<>(link.at = "up" \/ master # "running" \/ Leaked \/ spoiled)
=============================================================================
