---------------------------- MODULE OnlineStatus ----------------------------
(***************************************************************************)
(* Which connection a user is online on: imServer processes write it into  *)
(* redis, one command after the other, when a client sends USER_ONLINE;    *)
(* imRelay reads it to find the server of a message's addressee, and that  *)
(* server reads it again to find the connection.  The pair (fd, id) is     *)
(* checked against the server's own map_csfd_id_.                          *)
(*                                                                         *)
(* Each redis command is a step of its own, and so are the check of the    *)
(* map and the write to the descriptor after it.  Here the map has the     *)
(* open connections: the entries that a wrong token or a failing conn_new  *)
(* leave behind (module Dispatch) are of connections nobody logged in on.  *)
(* When the flag runs out is left open: its time to live is not kept.      *)
(***************************************************************************)
EXTENDS Integers, FiniteSets

CONSTANTS
    Users,       \* the accounts
    Servers,     \* the imServer processes, by bind_port_
    Fds,         \* descriptors; every server has its own table
    IdLimit,     \* the id after which a server starts over, 65535
    MaxAccepts,  \* bound: connections that are accepted
    MaxLogins,   \* bound: USER_ONLINE requests
    MaxRestarts, \* bound: servers that end and start again
    MaxFlight,   \* bound: messages from imRelay on their way
    MaxFails,    \* bound: redis commands that fail
    Nil          \* a field or key that is not there

ASSUME OnlineStatusAssumption ==
    /\ {IdLimit, MaxAccepts, MaxLogins, MaxRestarts, MaxFlight, MaxFails} \subseteq Nat
    /\ Nil \notin Servers \cup Fds \cup Users \cup 0 .. (IdLimit + 1)

Ids == 0 .. (IdLimit + 1)
Places == [no : Servers, fd : Fds, id : Ids]
\* by is history: the server whose client the id is, if the server has not ended
\* since.
Infos == [no : Servers \cup {Nil}, fd : Fds \cup {Nil}, id : Ids \cup {Nil},
          by : Servers \cup {Nil}]
NoInfo == [no |-> Nil, fd |-> Nil, id |-> Nil, by |-> Nil]
NoPlace == [no |-> Nil, fd |-> Nil, id |-> Nil]
\* users is history: who has logged in on the connection.
NoConn == [id |-> Nil, users |-> {}]
Stages == {"idle", "hgetNo", "hgetFd", "hgetId", "set", "setNo", "setFd",
           "setId", "expire"}
NoJob == [at |-> "idle", user |-> Nil, no |-> Nil, fd |-> Nil]
Kicks == [for : Users, at : Infos]
Mails == [for : Users, no : Servers \cup {Nil}]
NoPost == [at |-> "none", for |-> Nil, fd |-> Nil, by |-> Nil]

VARIABLES
    online,   \* redis: the users whose user:onlineflag says online
    info,     \* redis: user:s_info with its three fields
    fails,    \* how many redis commands have failed (bounded)
    conn,     \* per server and descriptor, the connection there
    lastId,   \* CMasterThread::id_ of each server
    given,    \* history: the ids each server has given out
    again,    \* history: servers that have given an id out twice
    accepts,  \* how many connections have been accepted (bounded)
    restarts, \* how many servers have ended (bounded)
    logins,   \* how many USER_ONLINE have come (bounded)
    job,      \* the request each connection's handler works on
    met,      \* history: handlers whose login met another one of the user
    told,     \* history: where each user's last login was that met none, once it
              \* had written all and was told SUCCESS, until a later one writes
    kicks,    \* RELAY_NOTIFY_OFFLINE messages on their way
    asked,    \* imRelay: the addressee whose flag it has just read
    mails,    \* messages for users imRelay has routed to a server
    post      \* what the thread of each server that hears imRelay is about to
              \* write; "closed": verified, and its descriptor was closed since

redisVars == <<online, info, fails>>
connVars == <<conn, lastId, given, again, accepts, restarts>>
handlerVars == <<logins, job, met, told>>
relayVars == <<kicks, asked, mails, post>>
vars == <<redisVars, connVars, handlerVars, relayVars>>

TypeOK ==
    /\ online \subseteq Users
    /\ info \in [Users -> Infos]
    /\ fails \in 0 .. MaxFails
    /\ conn \in [Servers -> [Fds -> [id : Ids, users : SUBSET Users] \cup {NoConn}]]
    /\ lastId \in [Servers -> Ids]
    /\ given \in [Servers -> SUBSET Ids]
    /\ again \subseteq Servers
    /\ accepts \in 0 .. MaxAccepts
    /\ restarts \in 0 .. MaxRestarts
    /\ logins \in 0 .. MaxLogins
    /\ job \in [Servers -> [Fds -> [at : Stages, user : Users \cup {Nil},
                                    no : Servers \cup {Nil}, fd : Fds \cup {Nil}]]]
    /\ met \subseteq Servers \X Fds
    /\ told \in [Users -> Places \cup {NoPlace}]
    /\ kicks \subseteq Kicks
    /\ asked \in Users \cup {Nil}
    /\ mails \subseteq Mails
    /\ post \in [Servers -> [at : {"none", "fd", "verified", "closed"},
                             for : Users \cup {Nil}, fd : Fds \cup {Nil},
                             by : Servers \cup {Nil}]]

Init ==
    /\ online = {}
    /\ info = [u \in Users |-> NoInfo]
    /\ fails = 0
    /\ conn = [s \in Servers |-> [f \in Fds |-> NoConn]]
    /\ lastId = [s \in Servers |-> 0]
    /\ given = [s \in Servers |-> {}]
    /\ again = {}
    /\ accepts = 0
    /\ restarts = 0
    /\ logins = 0
    /\ job = [s \in Servers |-> [f \in Fds |-> NoJob]]
    /\ met = {}
    /\ told = [u \in Users |-> NoPlace]
    /\ kicks = {}
    /\ asked = Nil
    /\ mails = {}
    /\ post = [s \in Servers |-> NoPost]

Open(s, f) == conn[s][f].id # Nil
Here(s, f) == [no |-> s, fd |-> f, id |-> conn[s][f].id]

-----------------------------------------------------------------------------
(* Connections come and go.                                                *)

\* GetClientfdMapId.
NextId(s) == IF lastId[s] > IdLimit THEN 0 ELSE lastId[s] + 1

\* AccepCb: erase and insert, before anything can be said on the connection.
Accept(s, f) ==
    /\ ~Open(s, f)
    /\ accepts < MaxAccepts
    /\ accepts' = accepts + 1
    /\ lastId' = [lastId EXCEPT ![s] = NextId(s)]
    /\ given' = [given EXCEPT ![s] = @ \cup {NextId(s)}]
    /\ again' = IF NextId(s) \in given[s] THEN again \cup {s} ELSE again
    /\ conn' = [conn EXCEPT ![s][f] = [id |-> NextId(s), users |-> {}]]
    /\ UNCHANGED <<restarts, redisVars, handlerVars, relayVars>>

\* Mutant: the id is taken out of the entry and the entry is kept.
Close_KeepsEntry(s, f) ==
    /\ Open(s, f)
    /\ job[s][f].at = "idle"
    /\ conn' = [conn EXCEPT ![s][f].id = Nil]
    /\ UNCHANGED <<redisVars, lastId, given, again, accepts, restarts, handlerVars, relayVars>>

\* The worker's ErrorCb, between two handlers: erase and conn_close.  Redis is not
\* told.
Close(s, f) ==
    /\ Open(s, f)
    /\ job[s][f].at = "idle"
    /\ conn' = [conn EXCEPT ![s][f] = NoConn]
    /\ told' = [u \in Users |-> IF told[u] = Here(s, f) THEN NoPlace ELSE told[u]]
    /\ post' = [post EXCEPT ![s].at = IF @ = "verified" /\ post[s].fd = f THEN "closed" ELSE @]
    /\ UNCHANGED <<redisVars, lastId, given, again, accepts, restarts, logins, job, met,
                   kicks, asked, mails>>

Ended(i, s) == [i EXCEPT !.by = IF @ = s THEN Nil ELSE @]
\* A server ends, wherever its handlers are, and starts again.  Redis keeps what it
\* has written.
Restart(s) ==
    /\ restarts < MaxRestarts
    /\ restarts' = restarts + 1
    /\ conn' = [conn EXCEPT ![s] = [f \in Fds |-> NoConn]]
    /\ lastId' = [lastId EXCEPT ![s] = 0]
    /\ given' = [given EXCEPT ![s] = {}]
    /\ again' = again \ {s}
    /\ job' = [job EXCEPT ![s] = [f \in Fds |-> NoJob]]
    /\ met' = {h \in met : h[1] # s}
    /\ told' = [u \in Users |-> IF told[u].no = s THEN NoPlace ELSE told[u]]
    /\ post' = [post EXCEPT ![s] = NoPost]
    /\ info' = [u \in Users |-> Ended(info[u], s)]
    /\ kicks' = {[k EXCEPT !.at = Ended(@, s)] : k \in kicks}
    /\ UNCHANGED <<online, fails, accepts, logins, asked, mails>>

-----------------------------------------------------------------------------
\* A redis command does not get through.
RedisFails == fails < MaxFails /\ fails' = fails + 1

(* UserOnline.                                                             *)

Goto(s, f, stage) == job' = [job EXCEPT ![s][f].at = stage]
\* The handler is over.
Ends(s, f) ==
    /\ job' = [job EXCEPT ![s][f] = NoJob]
    /\ met' = met \ {<<s, f>>}
Ready(s, f) == Open(s, f) /\ job[s][f].at = "idle"
\* The handlers that log u in.
Logins(u) == {h \in Servers \X Fds : job[h[1]][h[2]].user = u}

\* Get of the flag of the user whose session the request names; without one, or
\* when it says offline, nobody is asked to leave.
OnlineGet(s, f, u) ==
    /\ Ready(s, f)
    /\ logins < MaxLogins
    /\ logins' = logins + 1
    /\ \E stage \in {"hgetNo", "set"} :
          /\ \/ stage = (IF u \in online THEN "hgetNo" ELSE "set") /\ UNCHANGED fails
             \/ stage = "set" /\ RedisFails
          /\ job' = [job EXCEPT ![s][f] = [NoJob EXCEPT !.at = stage, !.user = u]]
    /\ conn' = [conn EXCEPT ![s][f].users = @ \cup {u}]
    /\ met' = IF Logins(u) = {} THEN met ELSE met \cup Logins(u) \cup {<<s, f>>}
    /\ UNCHANGED <<online, info, lastId, given, again, accepts, restarts, told, relayVars>>

\* The three Hgets; a field that is not there is read as 0.
OnlineHget(s, f) ==
    LET j == job[s][f]
        i == info[j.user]
    IN
    /\ \/ /\ j.at = "hgetNo"
          /\ job' = [job EXCEPT ![s][f] = [j EXCEPT !.at = "hgetFd", !.no = i.no]]
          /\ UNCHANGED kicks
       \/ /\ j.at = "hgetFd"
          /\ job' = [job EXCEPT ![s][f] = [j EXCEPT !.at = "hgetId", !.fd = i.fd]]
          /\ UNCHANGED kicks
       \/ /\ j.at = "hgetId"
          /\ Cardinality(kicks) + Cardinality(mails) < MaxFlight
          /\ kicks' = kicks \cup {[for |-> j.user,
                                   at |-> [no |-> j.no, fd |-> j.fd, id |-> i.id, by |-> i.by]]}
          /\ job' = [job EXCEPT ![s][f] = [NoJob EXCEPT !.at = "set", !.user = j.user]]
    /\ UNCHANGED <<redisVars, connVars, logins, met, told, asked, mails, post>>

\* An Hget fails: the handler jumps to GET_RESPONSE with result_ SUCCESS, and has
\* written nothing.
OnlineHgetFails(s, f) ==
    /\ RedisFails
    /\ job[s][f].at \in {"hgetNo", "hgetFd", "hgetId"}
    /\ Ends(s, f)
    /\ UNCHANGED <<online, info, connVars, logins, told, relayVars>>

\* Set of the flag.
OnlineSet(s, f) ==
    /\ job[s][f].at = "set"
    /\ online' = online \cup {job[s][f].user}
    /\ Goto(s, f, "setNo")
    /\ UNCHANGED <<info, fails, connVars, logins, met, told, relayVars>>

\* Mutant: the fd's field is forgotten.
OnlineHset_NoFd(s, f) ==
    LET u == job[s][f].user IN
    /\ \/ /\ job[s][f].at = "setNo"
          /\ info' = [info EXCEPT ![u].no = s]
          /\ told' = [told EXCEPT ![u] = NoPlace]
          /\ Goto(s, f, "setId")
       \/ /\ job[s][f].at = "setId"
          /\ info' = [info EXCEPT ![u].id = conn[s][f].id, ![u].by = s]
          /\ UNCHANGED told
          /\ Goto(s, f, "expire")
    /\ UNCHANGED <<online, fails, connVars, logins, met, relayVars>>

\* The three Hsets.
OnlineHset(s, f) ==
    LET u == job[s][f].user IN
    /\ \/ /\ job[s][f].at = "setNo"
          /\ info' = [info EXCEPT ![u].no = s]
          /\ told' = [told EXCEPT ![u] = NoPlace]
          /\ Goto(s, f, "setFd")
       \/ /\ job[s][f].at = "setFd"
          /\ info' = [info EXCEPT ![u].fd = f]
          /\ UNCHANGED told
          /\ Goto(s, f, "setId")
       \/ /\ job[s][f].at = "setId"
          /\ info' = [info EXCEPT ![u].id = conn[s][f].id, ![u].by = s]
          /\ UNCHANGED told
          /\ Goto(s, f, "expire")
    /\ UNCHANGED <<online, fails, connVars, logins, met, relayVars>>

\* One of the writes fails: REDIS_OPT_ERROR, and what is written stays.
OnlineWriteFails(s, f) ==
    /\ RedisFails
    /\ job[s][f].at \in {"set", "setNo", "setFd", "setId", "expire"}
    /\ Ends(s, f)
    /\ UNCHANGED <<online, info, connVars, logins, told, relayVars>>

\* Expire, and the answer SUCCESS.
OnlineExpire(s, f) ==
    LET u == job[s][f].user IN
    /\ job[s][f].at = "expire"
    /\ told' = [told EXCEPT ![u] = IF <<s, f>> \in met THEN @ ELSE Here(s, f)]
    /\ Ends(s, f)
    /\ UNCHANGED <<redisVars, connVars, logins, relayVars>>

-----------------------------------------------------------------------------
(* GetLiveStatus, the heartbeat, and SetOnlineStatus.                      *)

\* Set of the flag, whose error is only logged, and Expire.
GetLiveStatus(s, f, u) ==
    /\ Ready(s, f)
    /\ online' = online \cup {u}
    /\ UNCHANGED <<info, fails, connVars, handlerVars, relayVars>>

\* Set of the flag to what the client says.
SetOnlineStatus(s, f, u) ==
    /\ Ready(s, f)
    /\ online' \in {online \cup {u}, online \ {u}}
    /\ UNCHANGED <<info, fails, connVars, handlerVars, relayVars>>

\* client_heartbeat_timeout_ has passed since the last Expire.
FlagExpires(u) ==
    /\ online' = online \ {u}
    /\ UNCHANGED <<info, fails, connVars, handlerVars, relayVars>>

-----------------------------------------------------------------------------
(* Messages for users.                                                     *)

\* imRelay's one thread handles a message for a user: SendToImServer reads
\* the flag ...
RelayGet(u) ==
    /\ asked = Nil
    /\ u \in online
    /\ Cardinality(kicks) + Cardinality(mails) < MaxFlight
    /\ asked' = u
    /\ UNCHANGED <<redisVars, connVars, handlerVars, kicks, mails, post>>

\* ... then the server, and sends; the message gets there or is lost.
RelayRoutes ==
    /\ asked # Nil
    /\ asked' = Nil
    /\ mails' \in {mails, mails \cup {[for |-> asked, no |-> info[asked].no]}}
    /\ UNCHANGED <<redisVars, connVars, handlerVars, kicks, post>>

\* Mutant: the descriptor alone is looked up.
FindValueByKey_FdOnly(s, f, i) == f \in Fds /\ Open(s, f)

\* map_csfd_id_.findValueByKey(fd, id); an id that is not there was read as 0.
FindValueByKey(s, f, i) ==
    /\ f \in Fds
    /\ Open(s, f)
    /\ conn[s][f].id = IF i = Nil THEN 0 ELSE i

\* OptReOnlineProblem of the server the message names asks the map; the message
\* may also be lost on its way.
KickChecks(k) ==
    LET s == k.at.no IN
    /\ k \in kicks
    /\ kicks' = kicks \ {k}
    /\ \/ /\ s \in Servers
          /\ post[s].at = "none"
          /\ FindValueByKey(s, k.at.fd, k.at.id)
          /\ post' = [post EXCEPT ![s] = [at |-> "verified", for |-> k.for,
                                          fd |-> k.at.fd, by |-> k.at.by]]
       \/ UNCHANGED post
    /\ UNCHANGED <<redisVars, connVars, handlerVars, asked, mails>>

\* VerifyUserSfd reads the fd ...
VerifyFd(m) ==
    LET s == m.no IN
    /\ m \in mails
    /\ mails' = mails \ {m}
    /\ \/ /\ s \in Servers
          /\ post[s].at = "none"
          /\ post' = [post EXCEPT ![s] = [at |-> "fd", for |-> m.for,
                                          fd |-> info[m.for].fd, by |-> Nil]]
       \/ UNCHANGED post
    /\ UNCHANGED <<redisVars, connVars, handlerVars, kicks, asked>>

\* ... then the id, and asks the map ...
VerifyId(s) ==
    LET i == info[post[s].for] IN
    /\ post[s].at = "fd"
    /\ post' = [post EXCEPT ![s] = IF FindValueByKey(s, @.fd, i.id)
                                   THEN [@ EXCEPT !.at = "verified", !.by = i.by]
                                   ELSE NoPost]
    /\ UNCHANGED <<redisVars, connVars, handlerVars, kicks, asked, mails>>

\* ... and what is verified is written to the descriptor, whatever it is by now.
PostWrites(s) ==
    /\ post[s].at \in {"verified", "closed"}
    /\ post' = [post EXCEPT ![s] = NoPost]
    /\ UNCHANGED <<redisVars, connVars, handlerVars, kicks, asked, mails>>

ClientStep(s, f) ==
    \/ Accept(s, f) \/ Close(s, f)
    \/ OnlineHget(s, f) \/ OnlineHgetFails(s, f)
    \/ OnlineSet(s, f) \/ OnlineHset(s, f) \/ OnlineWriteFails(s, f) \/ OnlineExpire(s, f)
    \/ \E u \in Users : OnlineGet(s, f, u) \/ GetLiveStatus(s, f, u) \/ SetOnlineStatus(s, f, u)

Next ==
    \/ \E s \in Servers, f \in Fds : ClientStep(s, f)
    \/ \E u \in Users : FlagExpires(u) \/ RelayGet(u)
    \/ RelayRoutes
    \/ \E k \in kicks : KickChecks(k)
    \/ \E m \in mails : VerifyFd(m)
    \/ \E s \in Servers : VerifyId(s) \/ PostWrites(s) \/ Restart(s)

Spec == Init /\ [][Next]_vars

-----------------------------------------------------------------------------
(* Properties.                                                             *)

\* What a server is about to write to a client, a message or the notice that it is
\* online elsewhere, is for a user who has logged in on that connection, as long as
\* it is open: although redis is written and read field by field, by logins that
\* overlap, end halfway or are on two servers, and keeps what it knows of dead
\* connections.  Not if the id it read is another server's, or of an earlier run, or
\* the server has given an id out twice: ids are numbers from 1 on every server.
RightUser ==
    \A s \in Servers :
        LET p == post[s] IN
        p.at = "verified" /\ p.by = s /\ s \notin again => p.for \in conn[s][p.fd].users

\* Where a user was told it is online, by a login that met no other one of it, is
\* where redis says it is, whatever earlier logins have left there, until a later
\* one writes or the connection is gone.  Not counted is a login whose Hget fails:
\* it is told SUCCESS too, and has written nothing (OnlineHgetFails).
OnlineReachable ==
    \A u \in Users :
        told[u] # NoPlace => [no |-> info[u].no, fd |-> info[u].fd, id |-> info[u].id] = told[u]
=============================================================================
