------------------------- MODULE DeviceServerProofs -------------------------
(* Proofs about imDevServer: no descriptor is closed under its owner, a     *)
(* connection is in the map under its own id, and a connection that the     *)
(* link's thread has let through is the device's while it is open.          *)
EXTENDS DeviceServer, TLAPS

LEMMA ConnFacts ==
    /\ \A c \in Conns : c # NoConn /\ c.at \in Stages /\ c.at # "none" /\ c.id \in Ids
                        /\ c.dev \in Devices /\ c.worker \in Workers
    /\ NoConn.at = "none" /\ NoConn.dev = Nil /\ NoConn.id = Nil
<1>1. ASSUME NEW c \in Conns
      PROVE  c.at \in Stages /\ c.id \in Ids /\ c.dev \in Devices /\ c.worker \in Workers
  BY DEF Conns
<1>2. "none" \notin Stages /\ NoConn.at = "none" /\ NoConn.dev = Nil /\ NoConn.id = Nil
  BY DEF Stages, NoConn
<1> QED
  BY <1>1, <1>2

\* What redis says of the place of a device.
Places == [no : {"ours", Nil}, fd : Fds \cup {Nil}, id : Ids \cup {Nil}]

LEMMA InitType == Init => TypeOK
<1> SUFFICES ASSUME Init PROVE TypeOK
  OBVIOUS
<1>1. LinkTypeOK
  BY DEF Init, LinkInit, LinkTypeOK, Owners
<1>2. lastThread \in Workers
  BY DeviceServerAssumption DEF Init, Workers
<1>3. info \in [Devices -> [no : {"ours", Nil}, fd : Fds \cup {Nil}, id : Ids \cup {Nil}]]
  BY DEF Init, NoInfo
<1>4. lastId \in Ids
  BY DeviceServerAssumption DEF Init, Ids
<1>5. /\ fails \in 0 .. MaxFails /\ accepts \in 0 .. MaxAccepts
  BY DeviceServerAssumption DEF Init
<1>6. again \in BOOLEAN /\ given \subseteq Ids /\ push \in Pushes \cup {NoPush}
  BY DEF Init
<1> QED
  BY <1>1, <1>2, <1>3, <1>4, <1>5, <1>6 DEF Init, TypeOK

\* A step to another stage of a connection keeps its type.
LEMMA GotoType ==
    ASSUME TypeOK, NEW f \in Fds, NEW s \in Stages, conn[f] # NoConn, Goto(f, s)
    PROVE  conn' \in [Fds -> Conns \cup {NoConn}]
<1>1. [conn[f] EXCEPT !.at = s] \in Conns
  BY DEF TypeOK, Conns
<1> QED
  BY <1>1 DEF Goto, TypeOK

(***************************************************************************)
(* The inductive invariant.                                                *)
(***************************************************************************)

\* An entry of the map is of the connection on its descriptor, or of one that
\* conn_new has refused; a connection that is queued or served has one.
MapInv ==
    \A f \in Fds :
        \/ map[f] \in lost
        \/ conn[f].at \in {"none", "erased"} /\ map[f] = Nil
        \/ conn[f].at \notin {"none", "erased"} /\ map[f] = conn[f].id

\* Id i was given to a connection of device d that conn_new did not refuse, and
\* to no other one.
Known(d, i) ==
    /\ i \in given \ lost
    /\ \A f \in Fds : conn[f] # NoConn /\ conn[f].id = i =>
           conn[f].dev = d /\ conn[f].at # "queued"

\* Until an id is given twice, redis and the message on its way only know ids of
\* the device's own connections.
IdInv == ~again =>
    /\ \A f, g \in Fds :
          conn[f] # NoConn /\ conn[g] # NoConn /\ conn[f].id = conn[g].id => f = g
    /\ \A f \in Fds : conn[f] # NoConn => conn[f].id \in given \ lost
    /\ lost \subseteq given
    /\ \A d \in Devices : info[d].id # Nil => Known(d, info[d].id)
    /\ push.at = "verify" /\ push.id # Nil => Known(push.dev, push.id)

\* How far the DEVICE_ONLINE that alone stands for has got.
AloneInv ==
    \A d \in Devices, f \in Fds : alone[d] = f =>
        /\ conn[f].dev = d
        /\ conn[f].at # "queued"
        /\ \A g \in Fds : conn[g].dev = d /\ conn[g].at \in Onlines => g = f
        /\ conn[f].at # "hsetNo" => info[d].no = "ours"
        /\ conn[f].at \notin {"hsetNo", "hsetFd"} => info[d].fd = f
        /\ conn[f].at \notin {"hsetNo", "hsetFd", "hsetId"} => info[d].id = conn[f].id

\* What the check of the map lets through is the device's.
LEMMA PushRight ==
    ASSUME TypeOK, MapInv, IdInv, ~again, PushVerify, push'.at = "verified"
    PROVE  conn[push.fd].dev = push.dev
<1>1. push.at = "verify" /\ FindValueByKey(push.fd, push.id)
  BY DEF PushVerify, NoPush
<1>2. push.fd \in Fds /\ map[push.fd] = push.id /\ push.id # Nil
  BY <1>1 DEF FindValueByKey
<1>3. map[push.fd] = conn[push.fd].id /\ conn[push.fd] # NoConn
  BY <1>1, <1>2, ConnFacts DEF IdInv, Known, MapInv
<1> QED
  BY <1>1, <1>2, <1>3 DEF IdInv, Known

LEMMA LinkType ==
    ASSUME TypeOK, LinkThread PROVE TypeOK'
<1>1. LinkTypeOK'
  <2> USE RelayLinkAssumption DEF LinkTypeOK, Down, Owners, Give, CloseFd
  <2>1. LinkTypeOK /\ (link.at # "down" => link.fd \in Fds)
    BY DEF TypeOK
  <2>2. ASSUME NEW f \in Fds, LinkOpen(f) PROVE LinkTypeOK'
    BY <2>1, <2>2 DEF LinkOpen
  <2>3. CASE LinkRefused \/ LinkFailsLate \/ LinkClosesAgain
    BY <2>1, <2>3 DEF LinkRefused, LinkFailsLate, LinkClosesAgain
  <2>4. CASE LinkUp \/ LinkUpFails \/ LinkBreaks
    BY <2>1, <2>4 DEF LinkUp, LinkUpFails, LinkBreaks
  <2> QED
    BY <2>2, <2>3, <2>4 DEF LinkThread, LinkStep
<1>2. UNCHANGED <<bootVars, connVars, redisVars, push>>
  BY DEF LinkThread
<1> QED
  BY <1>1, <1>2 DEF TypeOK, bootVars, connVars, idVars, redisVars

LEMMA NextType == TypeOK /\ [Next]_vars => TypeOK'
<1> SUFFICES ASSUME TypeOK, [Next]_vars PROVE TypeOK'
  OBVIOUS
<1> USE DeviceServerAssumption, RelayLinkAssumption, ConnFacts DEF idVars
<1>1. ASSUME NEW w \in Workers, Register(w) PROVE TypeOK'
  BY <1>1 DEF Register, TypeOK, linkVars, LinkTypeOK, connVars, redisVars
<1>2. CASE MasterWaits
  BY <1>2 DEF MasterWaits, TypeOK, linkVars, LinkTypeOK, connVars, redisVars
<1>3. ASSUME NEW f \in Fds, NEW d \in Devices, Accept(f, d) PROVE TypeOK'
  <2>1. lastId' \in Ids /\ lastThread' \in Workers
    BY <1>3 DEF Accept, NextId, TypeOK, Workers, Ids
  <2>2. [id |-> lastId', dev |-> d, worker |-> lastThread', at |-> "queued"] \in Conns
    BY <2>1 DEF Conns, Stages
  <2>3. conn' \in [Fds -> Conns \cup {NoConn}] /\ map' \in [Fds -> Ids \cup {Nil}]
        /\ LinkTypeOK'
    BY <1>3, <2>1, <2>2 DEF Accept, TypeOK, LinkTypeOK, Give, Owners
  <2>4. accepts' \in 0 .. MaxAccepts /\ given' \subseteq Ids /\ again' \in BOOLEAN
    BY <1>3, <2>1 DEF Accept, TypeOK
  <2> QED
    BY <1>3, <2>1, <2>3, <2>4 DEF Accept, TypeOK, bootVars, redisVars
<1>4. ASSUME NEW f \in Fds, ConnNew(f) \/ ErrorErase(f) PROVE TypeOK'
  <2>1. conn' \in [Fds -> Conns \cup {NoConn}]
    BY <1>4, GotoType DEF ConnNew, ErrorErase, Stages
  <2> QED
    BY <1>4, <2>1 DEF ConnNew, ErrorErase, KeepConns, TypeOK, linkVars, LinkTypeOK,
       bootVars, redisVars
<1>5. ASSUME NEW f \in Fds, ConnNewFails(f) \/ ErrorClose(f) PROVE TypeOK'
  <2>1. conn[f].id \in Ids
    BY <1>5 DEF ConnNewFails, ErrorClose, TypeOK
  <2>2. LinkTypeOK' /\ conn' \in [Fds -> Conns \cup {NoConn}] /\ lost' \subseteq Ids
    BY <1>5, <2>1 DEF ConnNewFails, ErrorClose, CloseFd, Give, TypeOK, LinkTypeOK, Owners
  <2>3. push' \in Pushes \cup {NoPush}
    <3>1. CASE push' = push
      BY <3>1 DEF TypeOK
    <3>2. CASE push.at = "verified" /\ push' = [push EXCEPT !.at = "closed"]
      BY <3>2 DEF TypeOK, NoPush, Pushes
    <3> QED
      BY <1>5, <3>1, <3>2 DEF ConnNewFails, ErrorClose, PushCloses
  <2> QED
    BY <1>5, <2>2, <2>3 DEF ConnNewFails, ErrorClose, TypeOK, bootVars, redisVars
<1>6. ASSUME NEW f \in Fds, OnlineSet(f) \/ OnlineExpire(f) \/ OnlineFails(f)
                            \/ BeatSet(f) \/ BeatExpire(f) \/ OnlineHset(f)
      PROVE  TypeOK'
  <2>1. conn[f] # NoConn
    BY <1>6 DEF OnlineSet, OnlineExpire, OnlineFails, BeatSet, BeatExpire, OnlineHset,
       Ready, Onlines
  <2>2. conn' \in [Fds -> Conns \cup {NoConn}]
    BY <1>6, <2>1, GotoType DEF OnlineSet, OnlineExpire, OnlineFails, BeatSet, BeatExpire,
       OnlineHset, Stages
  <2>3. conn[f].dev \in Devices /\ conn[f].id \in Ids
    BY <2>1 DEF TypeOK
  <2>4. /\ flag' \in [Devices -> {"online", "offline", Nil}]
        /\ ttl' \in [Devices -> BOOLEAN]
        /\ fails' \in 0 .. MaxFails
        /\ alone' \in [Devices -> Fds \cup {Nil}]
    <3>1. fails' = fails \/ RedisFails
      BY <1>6 DEF OnlineSet, OnlineExpire, OnlineFails, BeatSet, BeatExpire, OnlineHset
    <3>2. fails' \in 0 .. MaxFails
      BY <3>1 DEF RedisFails, TypeOK
    <3>3. ttl' = ttl \/ \E x \in BOOLEAN : ttl' = [ttl EXCEPT ![conn[f].dev] = x]
      BY <1>6 DEF OnlineSet, OnlineExpire, OnlineFails, BeatSet, BeatExpire, OnlineHset
    <3>4. ttl' \in [Devices -> BOOLEAN]
      BY <2>3, <3>3 DEF TypeOK
    <3>5. flag' \in [Devices -> {"online", "offline", Nil}]
      BY <1>6, <2>3 DEF OnlineSet, OnlineExpire, OnlineFails, BeatSet, BeatExpire, OnlineHset,
         TypeOK
    <3>6. alone' \in [Devices -> Fds \cup {Nil}]
      BY <1>6, <2>3 DEF OnlineSet, OnlineExpire, OnlineFails, BeatSet, BeatExpire, OnlineHset,
         TypeOK
    <3> QED
      BY <3>2, <3>4, <3>5, <3>6
  <2>5. info' \in [Devices -> Places]
    <3>1. CASE ~OnlineHset(f)
      BY <1>6, <3>1 DEF OnlineSet, OnlineExpire, OnlineFails, BeatSet, BeatExpire, TypeOK, Places
    <3>2. CASE OnlineHset(f)
      <4>1. info \in [Devices -> Places] /\ info[conn[f].dev] \in Places
        BY <2>3 DEF TypeOK, Places
      <4>2. \/ info' = [info EXCEPT ![conn[f].dev] = [@ EXCEPT !.no = "ours"]]
            \/ info' = [info EXCEPT ![conn[f].dev] = [@ EXCEPT !.fd = f]]
            \/ info' = [info EXCEPT ![conn[f].dev] = [@ EXCEPT !.id = conn[f].id]]
        BY <3>2 DEF OnlineHset
      <4>3. PICK r \in Places : info' = [info EXCEPT ![conn[f].dev] = r]
        BY <2>3, <4>1, <4>2 DEF Places
      <4> QED
        BY <4>1, <4>3
    <3> QED
      BY <3>1, <3>2
  <2>6. UNCHANGED <<linkVars, bootVars, idVars, lastThread, map, lost, push>>
    BY <1>6 DEF OnlineSet, OnlineExpire, OnlineFails, BeatSet, BeatExpire, OnlineHset, KeepAll
  <2> QED
    BY <2>2, <2>4, <2>5, <2>6 DEF TypeOK, Places, linkVars, LinkTypeOK, bootVars
<1>7. ASSUME NEW f \in Fds, Offline(f) PROVE TypeOK'
  BY <1>7 DEF Offline, Ready, KeepAll, TypeOK, linkVars, LinkTypeOK, bootVars
<1>8. ASSUME NEW d \in Devices, FlagExpires(d) PROVE TypeOK'
  BY <1>8 DEF FlagExpires, KeepAll, TypeOK, linkVars, LinkTypeOK, bootVars
<1>9. CASE PushStep
  <2>1. UNCHANGED <<linkVars, bootVars, connVars, flag, ttl, info, alone>>
    BY <1>9 DEF PushStep, PushRoutes, PushReadsFd, PushReadsId, PushVerify,
     PushWrites, PushLost, KeepServer
  <2>2. fails' \in 0 .. MaxFails
    <3>1. CASE PushLost
      BY <3>1 DEF PushLost, RedisFails, TypeOK
    <3>2. CASE ~PushLost
      BY <1>9, <3>2 DEF PushStep, PushRoutes, PushReadsFd, PushReadsId, PushVerify, PushWrites,
         TypeOK
    <3> QED
      BY <3>1, <3>2
  <2>3. push' \in Pushes \cup {NoPush}
    <3>1. ASSUME NEW d \in Devices, PushRoutes(d) PROVE push' \in Pushes
      BY <3>1 DEF PushRoutes, NoPush, Pushes
    <3>2. CASE PushReadsFd \/ PushReadsId \/ PushVerify
      <4>1. push \in [at : {"routed", "readId", "verify"}, dev : Devices,
                      fd : Fds \cup {Nil}, id : Ids \cup {Nil}]
        BY <3>2 DEF PushReadsFd, PushReadsId, PushVerify, TypeOK, NoPush, Pushes
      <4>2. info[push.dev].fd \in Fds \cup {Nil} /\ info[push.dev].id \in Ids \cup {Nil}
        BY <4>1 DEF TypeOK
      <4>3. CASE PushReadsFd
        BY <4>1, <4>2, <4>3 DEF PushReadsFd, Pushes
      <4>4. CASE PushReadsId
        BY <4>1, <4>2, <4>4 DEF PushReadsId, Pushes
      <4>5. CASE PushVerify /\ FindValueByKey(push.fd, push.id)
        <5>1. push.fd \in Fds /\ push.id \in Ids
          BY <4>1, <4>5 DEF FindValueByKey
        <5> QED
          BY <4>1, <4>5, <5>1 DEF PushVerify, Pushes
      <4>6. CASE PushVerify /\ ~FindValueByKey(push.fd, push.id)
        BY <4>6 DEF PushVerify
      <4> QED
        BY <3>2, <4>3, <4>4, <4>5, <4>6
    <3>3. CASE PushWrites \/ PushLost
      BY <3>3 DEF PushWrites, PushLost
    <3> QED
      BY <1>9, <3>1, <3>2, <3>3 DEF PushStep
  <2> QED
    BY <2>1, <2>2, <2>3 DEF TypeOK, linkVars, LinkTypeOK, bootVars, connVars
<1>10. CASE LinkThread
  BY <1>10, LinkType
<1>11. CASE UNCHANGED vars
  BY <1>11 DEF vars, TypeOK, linkVars, LinkTypeOK, bootVars, connVars, redisVars
<1> QED
  BY <1>1, <1>2, <1>3, <1>4, <1>5, <1>6, <1>7, <1>8, <1>9, <1>10, <1>11
     DEF Next, MasterStep, WorkerStep, Continue

-----------------------------------------------------------------------------
\* What a step to another stage leaves alone.
LEMMA GotoFacts ==
    ASSUME TypeOK, NEW f \in Fds, NEW s \in Stages, conn[f] # NoConn, Goto(f, s)
    PROVE  \A g \in Fds :
              /\ conn'[g].id = conn[g].id /\ conn'[g].dev = conn[g].dev
              /\ conn'[g].at = IF g = f THEN s ELSE conn[g].at
              /\ conn'[g] = NoConn <=> conn[g] = NoConn
<1>1. [conn[f] EXCEPT !.at = s] \in Conns
  BY DEF TypeOK, Conns
<1>2. conn[f] \in Conns
  BY DEF TypeOK
<1>3. /\ [conn[f] EXCEPT !.at = s].id = conn[f].id
      /\ [conn[f] EXCEPT !.at = s].dev = conn[f].dev
      /\ [conn[f] EXCEPT !.at = s].at = s
  BY <1>2 DEF Conns
<1>4. \A g \in Fds : conn'[g] = IF g = f THEN [conn[f] EXCEPT !.at = s] ELSE conn[g]
  BY DEF Goto, TypeOK
<1> QED
  BY <1>1, <1>3, <1>4, ConnFacts

\* The steps of a worker that go on to another stage of the connection.
Moves(f) ==
    \/ ConnNew(f) \/ ErrorErase(f) \/ OnlineSet(f) \/ OnlineHset(f) \/ OnlineExpire(f)
    \/ OnlineFails(f) \/ BeatSet(f) \/ BeatExpire(f)

LEMMA MovesFacts ==
    ASSUME TypeOK, NEW f \in Fds, Moves(f)
    PROVE  /\ conn[f] # NoConn /\ conn[f] \in Conns
           /\ \E s \in Stages : Goto(f, s)
           /\ UNCHANGED <<idVars, lost, push, linkVars>>
           /\ \A g \in Fds :
              /\ conn'[g].id = conn[g].id /\ conn'[g].dev = conn[g].dev
              /\ g # f => conn'[g].at = conn[g].at
              /\ conn'[g].at # "queued" \/ conn'[g].at = conn[g].at
              /\ conn'[g] = NoConn <=> conn[g] = NoConn
<1>1. conn[f].at # "none"
  BY DEF Moves, ConnNew, ErrorErase, OnlineSet, OnlineHset, OnlineExpire, OnlineFails,
     BeatSet, BeatExpire, Ready, Onlines
<1>2. conn[f] # NoConn /\ conn[f] \in Conns
  BY <1>1, ConnFacts DEF TypeOK
<1>3. PICK s \in Stages : Goto(f, s) /\ s # "queued"
  BY DEF Moves, ConnNew, ErrorErase, OnlineSet, OnlineHset, OnlineExpire, OnlineFails,
     BeatSet, BeatExpire, Stages
<1>4. UNCHANGED <<idVars, lost, push, linkVars>>
  BY DEF Moves, ConnNew, ErrorErase, OnlineSet, OnlineHset, OnlineExpire, OnlineFails,
     BeatSet, BeatExpire, KeepAll, KeepConns
<1> QED
  BY <1>2, <1>3, <1>4, GotoFacts

\* OnlineHset, field by field.
LEMMA HsetFacts ==
    ASSUME TypeOK, NEW f \in Fds, OnlineHset(f)
    PROVE  LET d == conn[f].dev IN
           /\ UNCHANGED <<map, alone, flag, ttl, fails>>
           /\ conn[f].at \in Onlines /\ conn'[f].at \in Onlines
           /\ \A e \in Devices : e # d => info'[e] = info[e]
           /\ \A e \in Devices : info'[e].id = info[e].id \/ (e = d /\ info'[e].id = conn[f].id)
           /\ conn[f].at = "hsetNo" => conn'[f].at = "hsetFd" /\ info'[d].no = "ours"
           /\ conn[f].at = "hsetFd" => /\ conn'[f].at = "hsetId" /\ info'[d].fd = f
                                       /\ info'[d].no = info[d].no
           /\ conn[f].at = "hsetId" => /\ conn'[f].at = "expire" /\ info'[d].id = conn[f].id
                                       /\ info'[d].fd = info[d].fd
                                       /\ info'[d].no = info[d].no
<1> DEFINE d == conn[f].dev
<1>1. d \in Devices /\ conn[f] # NoConn /\ info[d] \in
        [no : {"ours", Nil}, fd : Fds \cup {Nil}, id : Ids \cup {Nil}]
  BY MovesFacts, ConnFacts DEF Moves, TypeOK
<1>2. UNCHANGED <<map, alone, flag, ttl, fails>>
  BY DEF OnlineHset, KeepAll
<1>3. CASE conn[f].at = "hsetNo"
  <2>1. info' = [info EXCEPT ![d] = [@ EXCEPT !.no = "ours"]] /\ Goto(f, "hsetFd")
    BY <1>3 DEF OnlineHset
  <2>2. conn'[f].at = "hsetFd"
    BY <1>1, <2>1, GotoFacts DEF Stages
  <2>3. \A e \in Devices : info'[e] = IF e = d THEN [info[d] EXCEPT !.no = "ours"] ELSE info[e]
    BY <1>1, <2>1 DEF TypeOK
  <2>4. info'[d].no = "ours" /\ info'[d].fd = info[d].fd /\ info'[d].id = info[d].id
    BY <1>1, <2>3
  <2>5. \A e \in Devices : e # d => info'[e] = info[e]
    BY <2>3
  <2>6. conn[f].at \in Onlines /\ conn'[f].at \in Onlines
    BY <1>3, <2>2 DEF Onlines
  <2>7. ASSUME NEW e \in Devices PROVE info'[e].id = info[e].id \/ (e = d /\ info'[e].id = conn[f].id)
    <3>1. CASE e = d
      BY <2>4, <3>1
    <3>2. CASE e # d
      BY <2>5, <3>2
    <3> QED
      BY <3>1, <3>2
  <2> QED
    BY <1>2, <1>3, <2>2, <2>4, <2>5, <2>6, <2>7
<1>4. CASE conn[f].at = "hsetFd"
  <2>1. info' = [info EXCEPT ![d] = [@ EXCEPT !.fd = f]] /\ Goto(f, "hsetId")
    BY <1>4 DEF OnlineHset
  <2>2. conn'[f].at = "hsetId"
    BY <1>1, <2>1, GotoFacts DEF Stages
  <2>3. \A e \in Devices : info'[e] = IF e = d THEN [info[d] EXCEPT !.fd = f] ELSE info[e]
    BY <1>1, <2>1 DEF TypeOK
  <2>4. info'[d].fd = f /\ info'[d].no = info[d].no /\ info'[d].id = info[d].id
    BY <1>1, <2>3
  <2>5. \A e \in Devices : e # d => info'[e] = info[e]
    BY <2>3
  <2> QED
    BY <1>1, <1>2, <1>4, <2>2, <2>4, <2>5 DEF Onlines
<1>5. CASE conn[f].at = "hsetId"
  <2>1. info' = [info EXCEPT ![d] = [@ EXCEPT !.id = conn[f].id]] /\ Goto(f, "expire")
    BY <1>5 DEF OnlineHset
  <2>2. conn'[f].at = "expire"
    BY <1>1, <2>1, GotoFacts DEF Stages
  <2>3. \A e \in Devices : info'[e] = IF e = d THEN [info[d] EXCEPT !.id = conn[f].id] ELSE info[e]
    BY <1>1, <2>1 DEF TypeOK
  <2>4. info'[d].id = conn[f].id /\ info'[d].no = info[d].no /\ info'[d].fd = info[d].fd
    BY <1>1, <2>3
  <2>5. \A e \in Devices : e # d => info'[e] = info[e]
    BY <2>3
  <2> QED
    BY <1>1, <1>2, <1>5, <2>2, <2>4, <2>5 DEF Onlines
<1> QED
  BY <1>3, <1>4, <1>5 DEF OnlineHset

\* Everything else leaves connections, the map and the place in redis alone.
LEMMA OtherFacts ==
    ASSUME TypeOK, [Next]_vars,
           \A f \in Fds : ~Moves(f) /\ ~ConnNewFails(f) /\ ~ErrorClose(f)
                          /\ \A d \in Devices : ~Accept(f, d)
    PROVE  UNCHANGED <<connVars, info, alone>>
<1> USE DEF connVars, redisVars
<1>1. ASSUME NEW w \in Workers, Register(w) PROVE UNCHANGED <<connVars, info, alone>>
  BY <1>1 DEF Register
<1>2. CASE MasterWaits
  BY <1>2 DEF MasterWaits
<1>3. ASSUME NEW f \in Fds, Offline(f) PROVE UNCHANGED <<connVars, info, alone>>
  BY <1>3 DEF Offline, KeepAll
<1>4. ASSUME NEW d \in Devices, FlagExpires(d) PROVE UNCHANGED <<connVars, info, alone>>
  BY <1>4 DEF FlagExpires, KeepAll
<1>5. CASE PushStep
  BY <1>5 DEF PushStep, PushRoutes, PushReadsFd, PushReadsId, PushVerify,
     PushWrites, PushLost, KeepServer
<1>6. CASE LinkThread
  BY <1>6 DEF LinkThread
<1>7. CASE UNCHANGED vars
  BY <1>7 DEF vars
<1> QED
  BY <1>1, <1>2, <1>3, <1>4, <1>5, <1>6, <1>7
     DEF Next, MasterStep, WorkerStep, Continue, Moves

LEMMA OtherPush ==
    ASSUME [Next]_vars, ~PushStep,
           \A f \in Fds : ~Moves(f) /\ ~ConnNewFails(f) /\ ~ErrorClose(f)
                          /\ \A d \in Devices : ~Accept(f, d)
    PROVE  push' = push
BY DEF Next, MasterStep, WorkerStep, Continue, Moves, Register, MasterWaits, Offline,
   FlagExpires, KeepAll, LinkThread, vars

-----------------------------------------------------------------------------
(* No descriptor is closed under its owner.                                *)

LEMMA FdStep == TypeOK /\ ~spoiled /\ FdOwned /\ [Next]_vars => FdOwned'
<1> SUFFICES ASSUME TypeOK, ~spoiled, FdOwned, [Next]_vars PROVE FdOwned'
  OBVIOUS
<1> USE ConnFacts, RelayLinkAssumption DEF FdOwned, linkVars
<1>0. link.at \in {"connecting", "up"} => link.fd \in Fds
  BY DEF TypeOK, LinkTypeOK, Down
<1>1. ASSUME NEW f \in Fds, Moves(f) PROVE FdOwned'
  BY <1>1, MovesFacts
<1>2. ASSUME NEW f \in Fds, NEW d \in Devices, Accept(f, d) PROVE FdOwned'
  <2>1. \A g \in Fds : conn'[g] # NoConn => conn[g] # NoConn \/ g = f
    BY <1>2 DEF Accept, TypeOK
  <2>2. \A g \in Fds : owner'[g] = IF g = f THEN "client" ELSE owner[g]
    BY <1>2 DEF Accept, Give, TypeOK, LinkTypeOK
  <2> QED
    BY <1>0, <1>2, <2>1, <2>2 DEF Accept
<1>3. ASSUME NEW f \in Fds, ConnNewFails(f) \/ ErrorClose(f) PROVE FdOwned'
  <2>1. \A g \in Fds : conn'[g] = IF g = f THEN NoConn ELSE conn[g]
    BY <1>3 DEF ConnNewFails, ErrorClose, TypeOK
  <2>2. \A g \in Fds : owner'[g] = IF g = f THEN "free" ELSE owner[g]
    BY <1>3 DEF ConnNewFails, ErrorClose, CloseFd, Give, TypeOK, LinkTypeOK
  <2>3. owner[f] = "client" /\ UNCHANGED <<link, spoiled>>
    BY <1>3 DEF ConnNewFails, ErrorClose
  <2> QED
    BY <1>0, <2>1, <2>2, <2>3
<1>4. CASE LinkThread
  <2> USE DEF TypeOK, LinkTypeOK, Down, Give, CloseFd
  <2>0. UNCHANGED conn
    BY <1>4 DEF LinkThread, connVars
  <2>1. ASSUME NEW f \in Fds, LinkOpen(f) PROVE FdOwned'
    <3>1. \A g \in Fds : owner'[g] = IF g = f THEN "link" ELSE owner[g]
      BY <2>1 DEF LinkOpen
    <3>2. link'.at = "connecting" /\ link'.fd = f /\ owner[f] = "free" /\ UNCHANGED spoiled
      BY <2>1 DEF LinkOpen
    <3> QED
      BY <2>0, <3>1, <3>2
  <2>2. CASE LinkRefused \/ LinkFailsLate \/ LinkBreaks
    BY <2>0, <2>2 DEF LinkRefused, LinkFailsLate, LinkBreaks
  <2>3. CASE LinkClosesAgain
    BY <2>0, <2>3 DEF LinkClosesAgain
  <2>4. CASE LinkUp
    BY <2>0, <2>4 DEF LinkUp
  <2>5. CASE LinkUpFails
    BY <2>0, <2>5 DEF LinkUpFails
  <2> QED
    BY <1>4, <2>1, <2>2, <2>3, <2>4, <2>5 DEF LinkThread, LinkStep
<1>5. CASE UNCHANGED <<conn, linkVars>>
  BY <1>5
<1>6. ASSUME NEW f \in Fds, Offline(f) PROVE FdOwned'
  BY <1>5, <1>6 DEF Offline, KeepAll
<1>7. ASSUME NEW d \in Devices, FlagExpires(d) PROVE FdOwned'
  BY <1>5, <1>7 DEF FlagExpires, KeepAll
<1>8. CASE PushStep
  BY <1>5, <1>8 DEF PushStep, PushRoutes, PushReadsFd, PushReadsId, PushVerify,
     PushWrites, PushLost, KeepServer,
     connVars
<1>9. CASE MasterWaits \/ \E w \in Workers : Register(w)
  BY <1>5, <1>9 DEF MasterWaits, Register, connVars
<1>10. CASE UNCHANGED vars
  BY <1>5, <1>10 DEF vars, connVars
<1> QED
  BY <1>1, <1>2, <1>3, <1>4, <1>6, <1>7, <1>8, <1>9, <1>10
     DEF Next, MasterStep, WorkerStep, Continue, Moves

-----------------------------------------------------------------------------
(* Ids, the map and the place in redis.                                    *)

LEMMA MapStep == TypeOK /\ ~spoiled /\ FdOwned /\ MapInv /\ [Next]_vars => MapInv'
<1> SUFFICES ASSUME TypeOK, ~spoiled, FdOwned, MapInv, [Next]_vars PROVE MapInv'
  OBVIOUS
<1> USE ConnFacts, DeviceServerAssumption DEF MapInv
<1>1. ASSUME NEW f \in Fds, Moves(f) PROVE MapInv'
  <2>1. CASE OnlineHset(f)
    BY <1>1, <2>1, HsetFacts, MovesFacts DEF Onlines
  <2>2. CASE ErrorErase(f)
    <3>1. \A g \in Fds : map'[g] = IF g = f THEN Nil ELSE map[g]
      BY <2>2 DEF ErrorErase, TypeOK
    <3>2. conn'[f].at = "erased"
      BY <2>2, <1>1, GotoFacts, MovesFacts DEF ErrorErase, Stages
    <3> QED
      BY <1>1, <3>1, <3>2, MovesFacts
  <2>3. CASE ~OnlineHset(f) /\ ~ErrorErase(f)
    <3>1. PICK t \in Stages : Goto(f, t) /\ t # "erased"
      BY <1>1, <2>3 DEF Moves, ConnNew, OnlineSet, OnlineExpire, OnlineFails, BeatSet,
         BeatExpire, Stages
    <3>2. UNCHANGED map /\ conn[f].at \notin {"none", "erased"}
      BY <1>1, <2>3 DEF Moves, ConnNew, OnlineSet, OnlineExpire, OnlineFails, BeatSet,
         BeatExpire, KeepConns, KeepAll, Ready, Onlines
    <3>3. conn'[f].at = t
      BY <1>1, <3>1, GotoFacts, MovesFacts
    <3>4. conn'[f].at \notin {"none", "erased"}
      BY <3>1, <3>3 DEF Stages
    <3> QED
      BY <1>1, <3>2, <3>4, MovesFacts
  <2> QED
    BY <2>1, <2>2, <2>3
<1>2. ASSUME NEW f \in Fds, NEW d \in Devices, Accept(f, d) PROVE MapInv'
  <2>1. conn[f] = NoConn
    BY <1>2 DEF Accept, FdOwned
  <2>2. \A g \in Fds : conn'[g] = IF g = f THEN [id |-> lastId', dev |-> d,
            worker |-> lastThread', at |-> "queued"] ELSE conn[g]
    BY <1>2 DEF Accept, TypeOK
  <2>3. \A g \in Fds : map'[g] = IF g = f /\ map[f] = Nil THEN lastId' ELSE map[g]
    BY <1>2 DEF Accept, TypeOK
  <2>4. UNCHANGED lost
    BY <1>2 DEF Accept
  <2> QED
    BY <2>1, <2>2, <2>3, <2>4
<1>3. ASSUME NEW f \in Fds, ConnNewFails(f) PROVE MapInv'
  <2>1. \A g \in Fds : conn'[g] = IF g = f THEN NoConn ELSE conn[g]
    BY <1>3 DEF ConnNewFails, TypeOK
  <2>2. lost' = lost \cup {conn[f].id} /\ conn[f].at = "queued" /\ UNCHANGED map
    BY <1>3 DEF ConnNewFails
  <2> QED
    BY <2>1, <2>2
<1>4. ASSUME NEW f \in Fds, ErrorClose(f) PROVE MapInv'
  <2>1. \A g \in Fds : conn'[g] = IF g = f THEN NoConn ELSE conn[g]
    BY <1>4 DEF ErrorClose, TypeOK
  <2>2. conn[f].at = "erased" /\ UNCHANGED <<map, lost>>
    BY <1>4 DEF ErrorClose
  <2> QED
    BY <2>1, <2>2
<1>5. CASE UNCHANGED <<connVars, info, alone>>
  BY <1>5 DEF connVars
<1> QED
  BY <1>1, <1>2, <1>3, <1>4, <1>5, OtherFacts

LEMMA IdStep == TypeOK /\ ~spoiled /\ FdOwned /\ MapInv /\ IdInv /\ [Next]_vars => IdInv'
<1> SUFFICES ASSUME TypeOK, ~spoiled, FdOwned, MapInv, IdInv, [Next]_vars, ~again' PROVE IdInv'
  BY DEF IdInv
<1> USE ConnFacts, DeviceServerAssumption
<1>1. ASSUME NEW f \in Fds, Moves(f) PROVE IdInv'
  <2>1. ~again /\ UNCHANGED <<given, again, lost, push>>
    BY <1>1, MovesFacts DEF idVars
  <2>2. ASSUME NEW d, NEW i, Known(d, i) PROVE Known(d, i)'
    <3>1. i \in given' \ lost'
      BY <2>1, <2>2 DEF Known
    <3> QED
      BY <1>1, <2>2, <3>1, MovesFacts DEF Known, NoConn
  <2>3. \A d \in Devices : info'[d].id # Nil => Known(d, info[d].id)'
    <3>1. CASE OnlineHset(f)
      <4>1. conn[f] # NoConn /\ conn[f].at \in Onlines
        BY <1>1, <3>1, MovesFacts, HsetFacts
      <4>2. Known(conn[f].dev, conn[f].id)
        BY <2>1, <4>1 DEF IdInv, Known, Onlines
      <4>3. \A d \in Devices : info'[d].id = info[d].id
                               \/ (d = conn[f].dev /\ info'[d].id = conn[f].id)
        BY <3>1, HsetFacts
      <4> QED
        BY <2>1, <2>2, <4>2, <4>3 DEF IdInv
    <3>2. CASE ~OnlineHset(f)
      <4>1. UNCHANGED info
        BY <1>1, <3>2 DEF Moves, ConnNew, ErrorErase, OnlineSet, OnlineExpire, OnlineFails,
           BeatSet, BeatExpire, redisVars
      <4> QED
        BY <2>1, <2>2, <4>1 DEF IdInv
    <3> QED
      BY <3>1, <3>2
  <2>4. \A g \in Fds : /\ conn'[g].id = conn[g].id
                       /\ conn'[g] = NoConn' <=> conn[g] = NoConn
    BY <1>1, MovesFacts DEF NoConn
  <2>5. push'.at = "verify" /\ push'.id # Nil => Known(push.dev, push.id)'
    BY <2>1, <2>2 DEF IdInv
  <2> QED
    BY <2>1, <2>3, <2>4, <2>5 DEF IdInv
<1>2. ASSUME NEW f \in Fds, NEW d \in Devices, Accept(f, d) PROVE IdInv'
  <2>1. conn[f] = NoConn
    BY <1>2 DEF Accept, FdOwned
  <2>2. \A g \in Fds : conn'[g] = IF g = f THEN [id |-> lastId', dev |-> d,
            worker |-> lastThread', at |-> "queued"] ELSE conn[g]
    BY <1>2 DEF Accept, TypeOK
  <2>3. ~again /\ lastId' \notin given /\ given' = given \cup {lastId'}
        /\ UNCHANGED <<lost, info, push>>
    BY <1>2 DEF Accept, redisVars
  <2>4. ASSUME NEW e, NEW i, Known(e, i) PROVE Known(e, i)'
    <3>1. i # lastId'
      BY <2>3, <2>4 DEF Known
    <3> QED
      BY <2>2, <2>3, <2>4, <3>1 DEF Known, NoConn
  <2>5. \A g \in Fds : g # f /\ conn'[g] # NoConn => conn'[g].id \in given
    BY <2>2, <2>3 DEF IdInv
  <2>6. \A g, h \in Fds :
            conn'[g] # NoConn /\ conn'[h] # NoConn /\ conn'[g].id = conn'[h].id => g = h
    BY <2>2, <2>3, <2>5 DEF IdInv
  <2>7. \A g \in Fds : conn'[g] # NoConn => conn'[g].id \in given' \ lost'
    BY <2>2, <2>3 DEF IdInv
  <2> QED
    BY <2>3, <2>4, <2>6, <2>7 DEF IdInv, NoConn
<1>3. ASSUME NEW f \in Fds, ConnNewFails(f) PROVE IdInv'
  <2>1. \A g \in Fds : conn'[g] = IF g = f THEN NoConn ELSE conn[g]
    BY <1>3 DEF ConnNewFails, TypeOK
  <2>2. lost' = lost \cup {conn[f].id} /\ conn[f].at = "queued"
        /\ UNCHANGED <<given, again, map, info>>
    BY <1>3 DEF ConnNewFails, redisVars, idVars
  <2>3. conn[f] # NoConn /\ conn[f].id \in Ids
    BY <2>2 DEF TypeOK
  <2>4. ~again
    BY <2>2
  <2>5. ASSUME NEW e, NEW i, Known(e, i) PROVE Known(e, i)'
    <3>1. i # conn[f].id
      BY <2>2, <2>3, <2>5 DEF Known
    <3>2. i \in given' \ lost'
      BY <2>2, <2>5, <3>1 DEF Known
    <3> QED
      BY <2>1, <2>5, <3>2 DEF Known, NoConn
  <2>6. \A g \in Fds : conn'[g] # NoConn => conn'[g].id # conn[f].id /\ conn'[g] = conn[g]
    BY <2>1, <2>3, <2>4 DEF IdInv
  <2>7. push'.at = "verify" /\ push'.id # Nil => Known(push.dev, push.id) /\ push' = push
    BY <1>3, <2>4 DEF ConnNewFails, PushCloses, TypeOK, NoPush, Pushes, IdInv
  <2>8. conn[f].id \in given
    BY <2>3, <2>4 DEF IdInv
  <2> QED
    BY <2>2, <2>4, <2>5, <2>6, <2>7, <2>8 DEF IdInv, NoConn
<1>4. ASSUME NEW f \in Fds, ErrorClose(f) PROVE IdInv'
  <2>1. \A g \in Fds : conn'[g] = IF g = f THEN NoConn ELSE conn[g]
    BY <1>4 DEF ErrorClose, TypeOK
  <2>2. conn[f].at = "erased" /\ UNCHANGED <<given, again, map, info, lost>>
    BY <1>4 DEF ErrorClose, idVars
  <2>3. \A e, i : Known(e, i) => Known(e, i)'
    BY <2>1, <2>2 DEF Known, NoConn
  <2>4. push'.at = "verify" /\ push'.id # Nil => Known(push.dev, push.id) /\ push' = push
    BY <1>4, <2>2 DEF ErrorClose, PushCloses, TypeOK, NoPush, Pushes, IdInv
  <2> QED
    BY <2>1, <2>2, <2>3, <2>4 DEF IdInv, NoConn
<1>5. CASE PushStep
  <2>1. UNCHANGED <<conn, given, again, lost, info>>
    BY <1>5 DEF PushStep, PushRoutes, PushReadsFd, PushReadsId, PushVerify, PushWrites,
       PushLost, KeepServer, connVars, idVars
  <2>2. push'.at = "verify" => push'.dev \in Devices /\ push'.id = info[push'.dev].id
    <3>1. CASE PushReadsId
      BY <3>1 DEF PushReadsId, TypeOK, NoPush, Pushes
    <3>2. CASE PushVerify
      BY <3>2 DEF PushVerify, TypeOK, NoPush, Pushes
    <3>3. CASE PushReadsFd \/ \E d \in Devices : PushRoutes(d)
      BY <3>3 DEF PushRoutes, PushReadsFd, NoPush, TypeOK, Pushes
    <3>4. CASE PushWrites \/ PushLost
      BY <3>4 DEF PushWrites, PushLost, NoPush
    <3> QED
      BY <1>5, <3>1, <3>2, <3>3, <3>4 DEF PushStep
  <2>3. \A e, i : Known(e, i)' <=> Known(e, i)
    BY <2>1 DEF Known, NoConn
  <2> QED
    BY <2>1, <2>2, <2>3 DEF IdInv, NoConn
<1>6. CASE UNCHANGED <<connVars, info, push>>
  <2>1. \A e, i : Known(e, i)' <=> Known(e, i)
    BY <1>6 DEF connVars, idVars, Known, NoConn
  <2> QED
    BY <1>6, <2>1 DEF connVars, idVars, IdInv, NoConn
<1> QED
  BY <1>1, <1>2, <1>3, <1>4, <1>5, <1>6, OtherPush, OtherFacts

LEMMA RightStep ==
    TypeOK /\ ~spoiled /\ FdOwned /\ MapInv /\ IdInv /\ RightDevice /\ [Next]_vars => RightDevice'
<1> SUFFICES ASSUME TypeOK, ~spoiled, FdOwned, MapInv, IdInv, RightDevice, [Next]_vars,
                    ~again', push'.at = "verified"
             PROVE  conn'[push'.fd].dev = push'.dev
  BY DEF RightDevice
<1> USE ConnFacts, DeviceServerAssumption
<1> DEFINE Held == push' = push /\ ~again /\ push.fd \in Fds
                   /\ conn[push.fd] # NoConn /\ conn[push.fd].dev = push.dev
<1>0. ASSUME push' = push, ~again PROVE Held
  <2>1. push.fd \in Fds /\ push.dev \in Devices
    BY <1>0 DEF TypeOK, NoPush, Pushes
  <2> QED
    BY <1>0, <2>1 DEF RightDevice
<1>1. ASSUME NEW f \in Fds, Moves(f) PROVE conn'[push'.fd].dev = push'.dev
  <2>1. Held
    BY <1>0, <1>1, MovesFacts DEF idVars
  <2> QED
    BY <1>1, <2>1, MovesFacts
<1>2. ASSUME NEW f \in Fds, NEW d \in Devices, Accept(f, d)
      PROVE  conn'[push'.fd].dev = push'.dev
  <2>1. Held
    BY <1>0, <1>2 DEF Accept
  <2>2. conn[f] = NoConn
    BY <1>2 DEF Accept, FdOwned
  <2> QED
    BY <1>2, <2>1, <2>2 DEF Accept, TypeOK
<1>3. ASSUME NEW f \in Fds, ConnNewFails(f) \/ ErrorClose(f)
      PROVE  conn'[push'.fd].dev = push'.dev
  <2>1. PushCloses(f) /\ again' = again
    BY <1>3 DEF ConnNewFails, ErrorClose, idVars
  <2>2. push' = push /\ push.fd # f
    BY <2>1 DEF PushCloses, TypeOK, NoPush, Pushes
  <2>3. Held
    BY <1>0, <2>1, <2>2
  <2> QED
    BY <1>3, <2>2, <2>3 DEF ConnNewFails, ErrorClose, TypeOK
<1>4. CASE PushStep
  <2>1. UNCHANGED <<conn, again>>
    BY <1>4 DEF PushStep, PushRoutes, PushReadsFd, PushReadsId, PushVerify, PushWrites,
       PushLost, KeepServer, connVars, idVars
  <2>2. PushVerify
    <3>1. ~PushWrites /\ ~PushLost
      BY DEF PushWrites, PushLost, NoPush
    <3>2. ~PushReadsFd /\ ~PushReadsId /\ ~\E d \in Devices : PushRoutes(d)
      BY DEF PushReadsFd, PushReadsId, PushRoutes, NoPush, TypeOK, Pushes
    <3> QED
      BY <1>4, <3>1, <3>2 DEF PushStep
  <2>3. push'.fd = push.fd /\ push'.dev = push.dev
    BY <2>2 DEF PushVerify, TypeOK, NoPush, Pushes
  <2> QED
    BY <2>1, <2>2, <2>3, PushRight
<1>5. CASE UNCHANGED <<connVars, info, push>>
  <2>1. Held
    BY <1>0, <1>5 DEF connVars, idVars
  <2> QED
    BY <1>5, <2>1 DEF connVars
<1> QED
  BY <1>1, <1>2, <1>3, <1>4, <1>5, OtherPush, OtherFacts

-----------------------------------------------------------------------------
(* The announced device, and its online flag.                              *)

\* Where a worker's steps lead when they are none of DEVICE_ONLINE's writes: it never
\* gets into the middle of these.
LEMMA QuietMoves ==
    ASSUME TypeOK, NEW h \in Fds,
           ConnNew(h) \/ ErrorErase(h) \/ OnlineExpire(h) \/ BeatSet(h) \/ BeatExpire(h)
    PROVE  /\ UNCHANGED <<info, alone>>
           /\ conn[h].at \in {"queued", "idle", "expire", "expireBeat"}
           /\ conn'[h].at \in {"idle", "erased", "expireBeat"}
<1>1. Moves(h)
  BY DEF Moves
<1>2. PICK s \in {"idle", "erased", "expireBeat"} : Goto(h, s)
  BY DEF ConnNew, ErrorErase, OnlineExpire, BeatSet, BeatExpire
<1>3. UNCHANGED <<info, alone>> /\ conn[h].at \in {"queued", "idle", "expire", "expireBeat"}
  BY DEF ConnNew, ErrorErase, OnlineExpire, BeatSet, BeatExpire, Ready, redisVars
<1>4. conn'[h].at = s
  BY <1>1, <1>2, GotoFacts, MovesFacts DEF Stages
<1> QED
  BY <1>2, <1>3, <1>4

LEMMA AloneStep == TypeOK /\ ~spoiled /\ FdOwned /\ AloneInv /\ [Next]_vars => AloneInv'
<1> SUFFICES ASSUME TypeOK, ~spoiled, FdOwned, AloneInv, [Next]_vars,
                    NEW d \in Devices, NEW f \in Fds, alone'[d] = f
             PROVE  /\ conn'[f].dev = d
                    /\ conn'[f].at # "queued"
                    /\ \A g \in Fds : conn'[g].dev = d /\ conn'[g].at \in Onlines => g = f
                    /\ conn'[f].at # "hsetNo" => info'[d].no = "ours"
                    /\ conn'[f].at \notin {"hsetNo", "hsetFd"} => info'[d].fd = f
                    /\ conn'[f].at \notin {"hsetNo", "hsetFd", "hsetId"} => info'[d].id = conn'[f].id
  BY DEF AloneInv
<1> DEFINE OK ==
      /\ conn'[f].dev = d
      /\ conn'[f].at # "queued"
      /\ \A g \in Fds : conn'[g].dev = d /\ conn'[g].at \in Onlines => g = f
      /\ conn'[f].at # "hsetNo" => info'[d].no = "ours"
      /\ conn'[f].at \notin {"hsetNo", "hsetFd"} => info'[d].fd = f
      /\ conn'[f].at \notin {"hsetNo", "hsetFd", "hsetId"} => info'[d].id = conn'[f].id
<1> USE ConnFacts, DeviceServerAssumption, RelayLinkAssumption
<1>1. ASSUME NEW h \in Fds, OnlineSet(h) PROVE OK
  <2>1. conn[h].dev \in Devices /\ UNCHANGED info
    BY <1>1, MovesFacts DEF Moves, OnlineSet
  <2>2. conn'[h].at = "hsetNo"
    BY <1>1, MovesFacts, GotoFacts DEF OnlineSet, Moves, Stages
  <2>3. alone' = [alone EXCEPT ![conn[h].dev] = IF Announcing(conn[h].dev) THEN Nil ELSE h]
    BY <1>1 DEF OnlineSet
  <2>4. CASE conn[h].dev = d
    <3>1. f = h /\ ~Announcing(d)
      BY <2>1, <2>3, <2>4 DEF TypeOK
    <3>2. \A g \in Fds : conn'[g].dev = d /\ conn'[g].at \in Onlines => g = f
      BY <1>1, <3>1, MovesFacts DEF Announcing, Moves
    <3> QED
      BY <1>1, <2>2, <2>4, <3>1, <3>2, MovesFacts DEF Moves
  <2>5. CASE conn[h].dev # d
    <3>1. alone[d] = f /\ f # h
      BY <2>1, <2>3, <2>5 DEF TypeOK, AloneInv
    <3> QED
      BY <1>1, <2>1, <2>5, <3>1, MovesFacts DEF AloneInv, Moves
  <2> QED
    BY <2>4, <2>5
<1>2. ASSUME NEW h \in Fds, OnlineHset(h) PROVE OK
  <2>1. alone[d] = f /\ conn[h].dev \in Devices
    BY <1>2, HsetFacts, MovesFacts DEF Moves
  <2>2. CASE h = f
    <3>1. conn[f].dev = d
      BY <2>1 DEF AloneInv
    <3>2. conn[f].at = "hsetNo" \/ conn[f].at = "hsetFd" \/ conn[f].at = "hsetId"
      BY <1>2, <2>2 DEF OnlineHset
    <3>3. /\ conn'[f].dev = d /\ conn'[f].id = conn[f].id
          /\ \A g \in Fds : conn'[g].dev = d /\ conn'[g].at \in Onlines => g = f
      BY <1>2, <2>1, <2>2, <3>1, MovesFacts DEF AloneInv, Moves
    <3>4. CASE conn[f].at = "hsetNo"
      BY <1>2, <2>2, <3>1, <3>3, <3>4, HsetFacts
    <3>5. CASE conn[f].at = "hsetFd"
      BY <1>2, <2>1, <2>2, <3>1, <3>3, <3>5, HsetFacts DEF AloneInv
    <3>6. CASE conn[f].at = "hsetId"
      BY <1>2, <2>1, <2>2, <3>1, <3>3, <3>6, HsetFacts DEF AloneInv
    <3> QED
      BY <3>2, <3>4, <3>5, <3>6
  <2>3. CASE h # f
    <3>1. conn[h].dev # d
      BY <1>2, <2>1, <2>3, HsetFacts DEF AloneInv
    <3>2. info'[d] = info[d]
      BY <1>2, <3>1, HsetFacts
    <3> QED
      BY <1>2, <2>1, <2>3, <3>1, <3>2, MovesFacts DEF AloneInv, Moves
  <2> QED
    BY <2>2, <2>3
<1>3. ASSUME NEW h \in Fds, OnlineFails(h) PROVE OK
  <2>1. conn[h].dev \in Devices /\ UNCHANGED info
    BY <1>3, MovesFacts DEF Moves, OnlineFails
  <2>2. conn[h].dev # d /\ alone[d] = f
    BY <1>3, <2>1 DEF OnlineFails, TypeOK
  <2>3. h # f
    BY <2>2 DEF AloneInv
  <2> QED
    BY <1>3, <2>1, <2>2, <2>3, MovesFacts DEF AloneInv, Moves
<1>4. ASSUME NEW h \in Fds,
             ConnNew(h) \/ ErrorErase(h) \/ OnlineExpire(h) \/ BeatSet(h) \/ BeatExpire(h)
      PROVE  OK
  <2>1. Moves(h)
    BY <1>4 DEF Moves
  <2>2. /\ UNCHANGED <<info, alone>>
        /\ conn[h].at \notin {"hsetNo", "hsetFd", "hsetId"}
        /\ conn'[h].at \notin Onlines \cup {"queued"}
    BY <1>4, QuietMoves DEF Onlines
  <2> QED
    BY <2>1, <2>2, MovesFacts DEF AloneInv
<1>5. ASSUME NEW h \in Fds, NEW e \in Devices, Accept(h, e) PROVE OK
  <2>1. conn[h] = NoConn
    BY <1>5 DEF Accept, FdOwned
  <2>2. \A g \in Fds : g # h => conn'[g] = conn[g]
    BY <1>5 DEF Accept, TypeOK
  <2>3. conn'[h].at \notin Onlines /\ UNCHANGED <<info, alone>>
    BY <1>5 DEF Accept, TypeOK, Onlines, redisVars
  <2>4. alone[d] = f /\ f # h
    BY <2>1, <2>3 DEF AloneInv
  <2> QED
    BY <2>2, <2>3, <2>4 DEF AloneInv
<1>6. ASSUME NEW h \in Fds, ConnNewFails(h) \/ ErrorClose(h) PROVE OK
  <2>1. \A g \in Fds : conn'[g] = IF g = h THEN NoConn ELSE conn[g]
    BY <1>6 DEF ConnNewFails, ErrorClose, TypeOK
  <2>2. UNCHANGED info /\ alone[d] = f
    BY <1>6 DEF ConnNewFails, ErrorClose, redisVars
  <2>3. f # h
    BY <1>6, <2>2 DEF ConnNewFails, ErrorClose, AloneInv
  <2>4. NoConn.at \notin Onlines
    BY DEF Onlines
  <2> QED
    BY <2>1, <2>2, <2>3, <2>4 DEF AloneInv
<1>7. CASE UNCHANGED <<connVars, info, alone>>
  BY <1>7 DEF AloneInv, connVars
<1> QED
  BY <1>1, <1>2, <1>3, <1>4, <1>5, <1>6, <1>7, OtherFacts DEF Moves

LEMMA ExpiresStep == TypeOK /\ ~spoiled /\ FdOwned /\ OnlineExpires /\ [Next]_vars => OnlineExpires'
<1> SUFFICES ASSUME TypeOK, ~spoiled, FdOwned, OnlineExpires, [Next]_vars,
                    NEW d \in Devices, fails' = 0, flag'[d] = "online",
                    \A f \in Fds : conn'[f].dev = d => conn'[f].at \notin Onlines \cup {"expireBeat"}
             PROVE  ttl'[d]
  BY DEF OnlineExpires
<1> USE ConnFacts, DeviceServerAssumption
<1>0. ASSUME fails = 0, UNCHANGED <<flag, ttl>>,
             \A f \in Fds : conn[f].dev = d => conn[f].at \notin Onlines \cup {"expireBeat"}
      PROVE  ttl'[d]
  BY <1>0 DEF OnlineExpires
<1>1. ASSUME NEW h \in Fds, OnlineSet(h) \/ OnlineHset(h) \/ BeatSet(h) PROVE ttl'[d]
  <2>1. conn'[h].at \in Onlines \cup {"expireBeat"}
    <3>1. CASE OnlineSet(h)
      BY <3>1, MovesFacts, GotoFacts DEF OnlineSet, Moves, Stages, Onlines
    <3>2. CASE OnlineHset(h)
      BY <3>2, HsetFacts
    <3>3. CASE BeatSet(h)
      BY <3>3, MovesFacts, GotoFacts DEF BeatSet, Moves, Stages
    <3> QED
      BY <1>1, <3>1, <3>2, <3>3
  <2>2. conn[h].dev # d /\ conn[h].dev \in Devices
    BY <1>1, <2>1, MovesFacts DEF Moves
  <2>3. flag'[d] = flag[d] /\ ttl'[d] = ttl[d] /\ fails = 0
    BY <1>1, <2>2 DEF OnlineSet, OnlineHset, BeatSet, RedisFails, TypeOK
  <2>4. \A f \in Fds : conn[f].dev = d => conn[f].at \notin Onlines \cup {"expireBeat"}
    BY <1>1, <2>2, MovesFacts DEF Moves
  <2> QED
    BY <2>3, <2>4 DEF OnlineExpires
<1>2. ASSUME NEW h \in Fds, OnlineExpire(h) \/ BeatExpire(h) PROVE ttl'[d]
  <2>1. conn[h].dev \in Devices /\ UNCHANGED flag
    BY <1>2, MovesFacts DEF Moves, OnlineExpire, BeatExpire
  <2>2. fails = 0 /\ ttl' = [ttl EXCEPT ![conn[h].dev] = flag[conn[h].dev] # Nil]
    BY <1>2 DEF OnlineExpire, BeatExpire, RedisFails, TypeOK
  <2>3. CASE conn[h].dev = d
    BY <2>1, <2>2, <2>3 DEF TypeOK
  <2>4. CASE conn[h].dev # d
    <3>1. \A f \in Fds : conn[f].dev = d => conn[f].at \notin Onlines \cup {"expireBeat"}
      BY <1>2, <2>4, MovesFacts DEF Moves
    <3> QED
      BY <2>1, <2>2, <2>4, <3>1 DEF OnlineExpires, TypeOK
  <2> QED
    BY <2>3, <2>4
<1>3. ASSUME NEW h \in Fds, OnlineFails(h) PROVE ttl'[d]
  BY <1>3 DEF OnlineFails, RedisFails, TypeOK
<1>4. ASSUME NEW h \in Fds, ConnNew(h) \/ ErrorErase(h) PROVE ttl'[d]
  <2>1. UNCHANGED <<fails, flag, ttl>> /\ conn[h].at \notin Onlines \cup {"expireBeat"}
    BY <1>4 DEF ConnNew, ErrorErase, redisVars, Onlines
  <2>2. \A f \in Fds : conn[f].dev = d => conn[f].at \notin Onlines \cup {"expireBeat"}
    BY <1>4, <2>1, MovesFacts DEF Moves
  <2> QED
    BY <1>0, <2>1, <2>2
<1>5. ASSUME NEW h \in Fds, Offline(h) \/ ConnNewFails(h) \/ ErrorClose(h)
                            \/ \E e \in Devices : Accept(h, e)
      PROVE  ttl'[d]
  <2>1. CASE Offline(h)
    <3>1. conn[h].dev \in Devices
      BY <2>1 DEF Offline, Ready, TypeOK
    <3>2. conn[h].dev # d /\ UNCHANGED <<conn, fails>>
      BY <2>1, <3>1 DEF Offline, TypeOK
    <3> QED
      BY <2>1, <3>1, <3>2 DEF Offline, TypeOK, OnlineExpires
  <2>2. CASE ConnNewFails(h) \/ ErrorClose(h)
    <3>1. \A g \in Fds : conn'[g] = IF g = h THEN NoConn ELSE conn[g]
      BY <2>2 DEF ConnNewFails, ErrorClose, TypeOK
    <3>2. UNCHANGED <<fails, flag, ttl>> /\ conn[h].at \notin Onlines \cup {"expireBeat"}
      BY <2>2 DEF ConnNewFails, ErrorClose, redisVars, Onlines
    <3> QED
      BY <1>0, <3>1, <3>2
  <2>3. ASSUME NEW e \in Devices, Accept(h, e) PROVE ttl'[d]
    <3>1. conn[h] = NoConn
      BY <2>3 DEF Accept, FdOwned
    <3>2. \A g \in Fds : g # h => conn'[g] = conn[g]
      BY <2>3 DEF Accept, TypeOK
    <3>3. UNCHANGED <<fails, flag, ttl>>
      BY <2>3 DEF Accept, redisVars
    <3>4. NoConn.at \notin Onlines \cup {"expireBeat"}
      BY DEF Onlines
    <3> QED
      BY <1>0, <3>1, <3>2, <3>3, <3>4
  <2> QED
    BY <1>5, <2>1, <2>2, <2>3
<1>6. ASSUME NEW e \in Devices, FlagExpires(e) PROVE ttl'[d]
  <2>1. e # d /\ UNCHANGED <<conn, fails>>
    BY <1>6 DEF FlagExpires, TypeOK
  <2> QED
    BY <1>6, <2>1 DEF FlagExpires, TypeOK, OnlineExpires
<1>7. CASE PushStep
  <2>1. UNCHANGED <<conn, flag, ttl>>
    BY <1>7 DEF PushStep, PushRoutes, PushReadsFd, PushReadsId, PushVerify,
     PushWrites, PushLost, KeepServer, connVars
  <2>2. fails = 0
    <3>1. CASE PushLost
      BY <3>1 DEF PushLost, RedisFails, TypeOK
    <3>2. CASE ~PushLost
      BY <1>7, <3>2 DEF PushStep, PushRoutes, PushReadsFd, PushReadsId, PushVerify, PushWrites
    <3> QED
      BY <3>1, <3>2
  <2> QED
    BY <1>0, <2>1, <2>2
<1>8. CASE LinkThread \/ MasterWaits \/ (\E w \in Workers : Register(w)) \/ UNCHANGED vars
  <2>1. UNCHANGED <<conn, flag, ttl, fails>>
    BY <1>8 DEF LinkThread, MasterWaits, Register, vars, connVars, redisVars
  <2> QED
    BY <1>0, <2>1
<1> QED
  BY <1>1, <1>2, <1>3, <1>4, <1>5, <1>6, <1>7, <1>8
     DEF Next, MasterStep, WorkerStep, Continue

-----------------------------------------------------------------------------
(***************************************************************************)
(* The theorems.                                                           *)
(***************************************************************************)

Inv ==
    /\ TypeOK /\ FdOwned /\ MapInv /\ IdInv /\ RightDevice
    /\ AloneInv /\ OnlineExpires

LEMMA InitInv == Init => Inv
<1> SUFFICES ASSUME Init PROVE Inv
  OBVIOUS
<1> USE RelayLinkAssumption, ConnFacts DEF Init
<1>1. FdOwned
  BY DEF FdOwned, LinkInit, Down
<1>2. MapInv /\ IdInv /\ RightDevice
  BY DEF MapInv, IdInv, RightDevice, NoInfo, NoPush
<1>3. AloneInv /\ OnlineExpires
  BY DeviceServerAssumption DEF AloneInv, OnlineExpires
<1> QED
  BY <1>1, <1>2, <1>3, InitType DEF Inv

LEMMA NextInv == Inv /\ [Next]_vars => Inv'
<1> SUFFICES ASSUME Inv, [Next]_vars PROVE Inv'
  OBVIOUS
<1>1. CASE spoiled
  <2>1. UNCHANGED vars
    BY <1>1 DEF Next
  <2> QED
    BY <2>1 DEF Inv, vars, linkVars, bootVars, connVars, idVars, redisVars, TypeOK, LinkTypeOK,
       FdOwned, IdInv, Known, MapInv, AloneInv, RightDevice, OnlineExpires, Announcing
<1>2. CASE ~spoiled
  BY <1>2, NextType, FdStep, MapStep, IdStep, RightStep, AloneStep, ExpiresStep DEF Inv
<1> QED
  BY <1>1, <1>2

LEMMA SpecInv == Spec => []Inv
BY InitInv, NextInv, PTL DEF Spec

\* The types of DeviceServer are right whatever devices, descriptors and workers
\* there are.
THEOREM TypeCorrect == Spec => []TypeOK
BY SpecInv, PTL DEF Inv

\* No thread closes a descriptor that is not its own, apart from the second
\* close of connect_nonb's socket.
THEOREM FdOwnedHolds == Spec => []FdOwned
BY SpecInv, PTL DEF Inv

\* Every connection that is served is in map_csfd_id_ under its own id, unless
\* conn_new has refused an earlier one on the descriptor.
THEOREM EntryOwnHolds == Spec => []EntryOwn
<1>1. Inv => EntryOwn
  BY ConnFacts DEF Inv, MapInv, EntryOwn
<1> QED
  BY <1>1, SpecInv, PTL

\* Until an id is given twice, the connection that VerifyDeviceSfd has let
\* through is the device's as long as it is not closed.
THEOREM RightDeviceHolds == Spec => []RightDevice
BY SpecInv, PTL DEF Inv

\* A device whose last announcement ran alone is found as long as its
\* connection lives.
THEOREM DeviceFoundHolds == Spec => []DeviceFound
<1>1. Inv => DeviceFound
  <2> SUFFICES ASSUME Inv, NEW d \in Devices, NEW f \in Fds, alone[d] = f, ~Announcing(d),
                      conn[f].at # "erased", map[f] \notin lost
               PROVE  info[d].no = "ours" /\ info[d].fd = f /\ FindValueByKey(f, info[d].id)
    BY DEF DeviceFound
  <2>1. conn[f].dev = d /\ conn[f].at \notin Onlines
    BY DEF Inv, AloneInv, Announcing
  <2>2. conn[f].at # "none" /\ conn[f] # NoConn
    BY <2>1, ConnFacts, DeviceServerAssumption DEF Inv, TypeOK
  <2>3. map[f] = conn[f].id
    BY <2>2 DEF Inv, MapInv
  <2>4. info[d].no = "ours" /\ info[d].fd = f /\ info[d].id = conn[f].id
    BY <2>1 DEF Inv, AloneInv, Onlines
  <2> QED
    BY <2>2, <2>3, <2>4, ConnFacts, DeviceServerAssumption DEF Inv, TypeOK, FindValueByKey, Ids
<1> QED
  BY <1>1, SpecInv, PTL

\* Between handlers an online flag has a time to live, as long as no command
\* of redis has failed.
THEOREM OnlineExpiresHolds == Spec => []OnlineExpires
BY SpecInv, PTL DEF Inv
=============================================================================
