------------------------- MODULE OnlineStatusProofs -------------------------
(* Proofs about the connection a user is online on, for any number of users  *)
(* and servers, whichever commands fail and whichever servers end: what is   *)
(* written to a client is for a user of that connection, and who was told it *)
(* is online can be reached.                                                 *)
EXTENDS OnlineStatus, TLAPS

Conns == [id : Ids, users : SUBSET Users] \cup {NoConn}
Jobs == [at : Stages, user : Users \cup {Nil}, no : Servers \cup {Nil}, fd : Fds \cup {Nil}]
Posts == [at : {"none", "fd", "verified", "closed"}, for : Users \cup {Nil},
          fd : Fds \cup {Nil}, by : Servers \cup {Nil}]

\* A handler works for a client that is there and for a user.
HandlerInv ==
    \A s \in Servers, f \in Fds :
        job[s][f].at # "idle" => Open(s, f) /\ job[s][f].user \in Users

\* What is to be written is for a user, and what is verified has a connection.
PostInv ==
    \A s \in Servers :
        /\ post[s].at # "none" => post[s].for \in Users
        /\ post[s].at = "verified" => post[s].fd \in Fds /\ Open(s, post[s].fd)

Inv == TypeOK /\ HandlerInv /\ PostInv

\* What is not there: the empty records are of the types, and Nil is no id.
LEMMA NilFacts ==
    /\ NoConn \in Conns /\ NoJob \in Jobs /\ NoPost \in Posts /\ NoInfo \in Infos
    /\ NoConn.id = Nil /\ NoConn.users = {} /\ NoJob.at = "idle" /\ NoJob.user = Nil
    /\ NoPost.at = "none"
    /\ Nil \notin Ids /\ Nil \notin Users /\ Nil \notin Servers /\ Nil \notin Fds
    /\ 0 \in Ids
BY OnlineStatusAssumption DEF Conns, Jobs, Posts, Infos, Stages, Ids, NoConn, NoJob, NoPost, NoInfo

LEMMA ConnFacts ==
    ASSUME NEW c \in Conns
    PROVE  /\ c.id \in Ids \cup {Nil} /\ c.users \subseteq Users
           /\ c.id # Nil => c.id \in Ids
           /\ \A v \in SUBSET Users : c.id # Nil => [c EXCEPT !.users = v] \in Conns
BY NilFacts DEF Conns, NoConn

LEMMA InitInv == Init => Inv
<1> SUFFICES ASSUME Init PROVE Inv
  OBVIOUS
<1>1. /\ 0 \in 0 .. MaxFails /\ 0 \in 0 .. MaxAccepts /\ 0 \in 0 .. MaxRestarts
      /\ 0 \in 0 .. MaxLogins
  BY OnlineStatusAssumption
<1>2. /\ info \in [Users -> Infos] /\ lastId \in [Servers -> Ids]
      /\ given \in [Servers -> SUBSET Ids] /\ told \in [Users -> Places \cup {NoPlace}]
  BY NilFacts DEF Init
<1>3. conn \in [Servers -> [Fds -> Conns]] /\ job \in [Servers -> [Fds -> Jobs]]
  BY NilFacts DEF Init
<1>4. post \in [Servers -> Posts]
  BY NilFacts DEF Init
<1>5. TypeOK
  BY <1>1, <1>2, <1>3, <1>4 DEF Init, TypeOK, Conns, Jobs, Posts
<1>6. HandlerInv /\ PostInv
  BY NilFacts DEF Init, HandlerInv, PostInv
<1> QED
  BY <1>5, <1>6 DEF Inv

-----------------------------------------------------------------------------
(* Types.                                                                  *)

\* The variables' types by name.
LEMMA Types ==
    ASSUME TypeOK
    PROVE  /\ conn \in [Servers -> [Fds -> Conns]]
           /\ job \in [Servers -> [Fds -> Jobs]]
           /\ post \in [Servers -> Posts]
BY DEF TypeOK, Conns, Jobs, Posts

LEMMA NextIdType == ASSUME TypeOK, NEW s \in Servers PROVE NextId(s) \in Ids
BY OnlineStatusAssumption DEF TypeOK, NextId, Ids

LEMMA HereType ==
    ASSUME TypeOK, NEW s \in Servers, NEW f \in Fds, Open(s, f)
    PROVE  Here(s, f) \in Places /\ conn[s][f].id \in Ids
BY Types, ConnFacts DEF Here, Places, Open

\* One handler's entry is changed.
LEMMA JobType ==
    ASSUME TypeOK, NEW s \in Servers, NEW f \in Fds, NEW r \in Jobs,
           job' = [job EXCEPT ![s] = [@ EXCEPT ![f] = r]]
    PROVE  /\ job' \in [Servers -> [Fds -> Jobs]]
           /\ job'[s][f] = r
           /\ \A t \in Servers, g \in Fds : t # s \/ g # f => job'[t][g] = job[t][g]
BY Types

LEMMA GotoType ==
    ASSUME TypeOK, NEW s \in Servers, NEW f \in Fds, NEW stage \in Stages, Goto(s, f, stage)
    PROVE  /\ job' \in [Servers -> [Fds -> Jobs]]
           /\ job'[s][f].at = stage /\ job'[s][f].user = job[s][f].user
           /\ \A t \in Servers, g \in Fds : t # s \/ g # f => job'[t][g] = job[t][g]
<1> DEFINE r == [job[s][f] EXCEPT !.at = stage]
<1>1. job[s][f] \in Jobs
  BY Types
<1>2. r \in Jobs
  BY <1>1 DEF Jobs
<1>3. r.at = stage /\ r.user = job[s][f].user
  BY <1>1 DEF Jobs
<1>4. job' = [job EXCEPT ![s] = [@ EXCEPT ![f] = r]]
  BY Types DEF Goto
<1> HIDE DEF r
<1>5. /\ job' \in [Servers -> [Fds -> Jobs]] /\ job'[s][f] = r
      /\ \A t \in Servers, g \in Fds : t # s \/ g # f => job'[t][g] = job[t][g]
  BY <1>2, <1>4, Types
<1> QED
  BY <1>3, <1>5

LEMMA EndsType ==
    ASSUME TypeOK, NEW s \in Servers, NEW f \in Fds, Ends(s, f)
    PROVE  /\ job' \in [Servers -> [Fds -> Jobs]] /\ met' \subseteq Servers \X Fds
           /\ job'[s][f] = NoJob
           /\ \A t \in Servers, g \in Fds : t # s \/ g # f => job'[t][g] = job[t][g]
           /\ met' = met \ {<<s, f>>}
<1>1. job' = [job EXCEPT ![s] = [@ EXCEPT ![f] = NoJob]] /\ NoJob \in Jobs
  BY NilFacts DEF Ends
<1>2. met' = met \ {<<s, f>>} /\ met \subseteq Servers \X Fds
  BY DEF Ends, TypeOK
<1>3. /\ job' \in [Servers -> [Fds -> Jobs]] /\ job'[s][f] = NoJob
      /\ \A t \in Servers, g \in Fds : t # s \/ g # f => job'[t][g] = job[t][g]
  BY <1>1, Types
<1> QED
  BY <1>2, <1>3

\* One connection's entry is changed.
LEMMA ConnType ==
    ASSUME TypeOK, NEW s \in Servers, NEW f \in Fds, NEW c \in Conns,
           conn' = [conn EXCEPT ![s] = [@ EXCEPT ![f] = c]]
    PROVE  /\ conn' \in [Servers -> [Fds -> Conns]]
           /\ conn'[s][f] = c
           /\ \A t \in Servers, g \in Fds : t # s \/ g # f => conn'[t][g] = conn[t][g]
BY Types

\* What one server is about to write is changed.
LEMMA PostType ==
    ASSUME TypeOK, NEW s \in Servers, NEW r \in Posts, post' = [post EXCEPT ![s] = r]
    PROVE  /\ post' \in [Servers -> Posts]
           /\ post'[s] = r
           /\ \A t \in Servers : t # s => post'[t] = post[t]
BY Types

LEMMA FailsType == ASSUME TypeOK, UNCHANGED fails \/ RedisFails PROVE fails' \in 0 .. MaxFails
BY OnlineStatusAssumption DEF TypeOK, RedisFails

\* What a step leaves alone keeps its type, and the conjunct about it.
LEMMA HandlerStays ==
    ASSUME HandlerInv, UNCHANGED <<conn, job>> PROVE HandlerInv'
BY DEF HandlerInv, Open

LEMMA PostStays ==
    ASSUME PostInv, UNCHANGED <<conn, post>> PROVE PostInv'
BY DEF PostInv, Open

\* Who has logged in does not say whether a connection is there.
LEMMA PostStaysOpen ==
    ASSUME PostInv, UNCHANGED post,
           \A t \in Servers, g \in Fds : conn[t][g].id # Nil => conn'[t][g].id # Nil
    PROVE  PostInv'
BY DEF PostInv, Open

LEMMA AcceptInv ==
    ASSUME Inv, NEW s \in Servers, NEW f \in Fds, Accept(s, f)
    PROVE  Inv'
<1> DEFINE c == [id |-> NextId(s), users |-> {}]
<1>1. c \in Conns /\ c.id = NextId(s) /\ NextId(s) \in Ids
  BY NextIdType DEF Inv, Conns
<1>2. conn' = [conn EXCEPT ![s] = [@ EXCEPT ![f] = c]]
  BY DEF Accept
<1> HIDE DEF c
<1>3. /\ conn' \in [Servers -> [Fds -> Conns]] /\ conn'[s][f] = c
      /\ \A t \in Servers, g \in Fds : t # s \/ g # f => conn'[t][g] = conn[t][g]
  BY <1>1, <1>2, Types DEF Inv
<1>4. conn'[s][f].id # Nil
  BY <1>1, <1>3, NilFacts
<1>5. \A t \in Servers, g \in Fds : conn[t][g].id # Nil => conn'[t][g].id # Nil
  BY <1>3, <1>4
<1>6. accepts' \in 0 .. MaxAccepts
  BY OnlineStatusAssumption DEF Inv, TypeOK, Accept
<1>7. lastId' \in [Servers -> Ids]
  BY <1>1 DEF Inv, TypeOK, Accept
<1>8. given' \in [Servers -> SUBSET Ids] /\ again' \subseteq Servers
  BY <1>1 DEF Inv, TypeOK, Accept
<1>9. TypeOK'
  BY <1>3, <1>6, <1>7, <1>8
  DEF Inv, TypeOK, Accept, Conns, redisVars, handlerVars, relayVars
<1>10. HandlerInv'
  BY <1>5 DEF Inv, HandlerInv, Open, Accept, handlerVars
<1>11. PostInv'
  BY <1>5, PostStaysOpen DEF Inv, Accept, relayVars
<1> QED
  BY <1>9, <1>10, <1>11 DEF Inv

LEMMA CloseInv ==
    ASSUME Inv, NEW s \in Servers, NEW f \in Fds, Close(s, f)
    PROVE  Inv'
<1>1. conn' = [conn EXCEPT ![s] = [@ EXCEPT ![f] = NoConn]] /\ NoConn \in Conns
  BY NilFacts DEF Close
<1>2. /\ conn' \in [Servers -> [Fds -> Conns]]
      /\ \A t \in Servers, g \in Fds : t # s \/ g # f => conn'[t][g] = conn[t][g]
  BY <1>1, ConnType DEF Inv
<1>3. told' \in [Users -> Places \cup {NoPlace}]
  BY DEF Inv, TypeOK, Close
<1> DEFINE r == [post[s] EXCEPT !.at = IF @ = "verified" /\ post[s].fd = f THEN "closed" ELSE @]
<1>4. post[s] \in Posts
  BY Types DEF Inv
<1>5. /\ r \in Posts /\ r.for = post[s].for /\ r.fd = post[s].fd
      /\ r.at # "none" => post[s].at # "none"
      /\ r.at = "verified" => post[s].at = "verified" /\ post[s].fd # f
  BY <1>4 DEF Posts
<1>6. post' = [post EXCEPT ![s] = r]
  BY Types DEF Inv, Close
<1> HIDE DEF r
<1>7. /\ post' \in [Servers -> Posts] /\ post'[s] = r
      /\ \A t \in Servers : t # s => post'[t] = post[t]
  BY <1>5, <1>6, PostType DEF Inv
<1>8. TypeOK'
  BY <1>2, <1>3, <1>7 DEF Inv, TypeOK, Close, Conns, Posts, redisVars
<1>9. HandlerInv'
  BY <1>2 DEF Inv, HandlerInv, Open, Close
<1>10. PostInv'
  <2> SUFFICES ASSUME NEW t \in Servers
               PROVE  /\ post'[t].at # "none" => post'[t].for \in Users
                      /\ post'[t].at = "verified" =>
                            post'[t].fd \in Fds /\ conn'[t][post'[t].fd].id # Nil
    BY DEF PostInv, Open
  <2>1. CASE t = s
    BY <2>1, <1>2, <1>5, <1>7 DEF Inv, PostInv, Open
  <2>2. CASE t # s
    BY <2>2, <1>2, <1>7 DEF Inv, PostInv, Open
  <2> QED
    BY <2>1, <2>2
<1> QED
  BY <1>8, <1>9, <1>10 DEF Inv

LEMMA RestartInv ==
    ASSUME Inv, NEW s \in Servers, Restart(s)
    PROVE  Inv'
<1>1. restarts' \in 0 .. MaxRestarts /\ again' \subseteq Servers
  BY OnlineStatusAssumption DEF Inv, TypeOK, Restart
<1>2. /\ conn' \in [Servers -> [Fds -> Conns]]
      /\ \A t \in Servers : t # s => conn'[t] = conn[t]
  BY NilFacts, Types DEF Inv, Restart
<1>3. /\ job' \in [Servers -> [Fds -> Jobs]]
      /\ \A g \in Fds : job'[s][g] = NoJob
      /\ \A t \in Servers : t # s => job'[t] = job[t]
  BY NilFacts, Types DEF Inv, Restart
<1>4. /\ post' \in [Servers -> Posts] /\ post'[s] = NoPost
      /\ \A t \in Servers : t # s => post'[t] = post[t]
  BY NilFacts, PostType DEF Inv, Restart
<1>5. lastId' \in [Servers -> Ids] /\ given' \in [Servers -> SUBSET Ids]
  BY NilFacts DEF Inv, TypeOK, Restart
<1>6. met' \subseteq Servers \X Fds /\ told' \in [Users -> Places \cup {NoPlace}]
  BY DEF Inv, TypeOK, Restart
<1>7. \A i \in Infos : Ended(i, s) \in Infos
  BY DEF Infos, Ended
<1>8. info' \in [Users -> Infos]
  BY <1>7 DEF Inv, TypeOK, Restart
<1>9. kicks' \subseteq Kicks
  <2>1. \A k \in Kicks : [k EXCEPT !.at = Ended(@, s)] \in Kicks
    BY <1>7 DEF Kicks
  <2> QED
    BY <2>1 DEF Inv, TypeOK, Restart
<1>10. TypeOK'
  BY <1>1, <1>2, <1>3, <1>4, <1>5, <1>6, <1>8, <1>9 DEF Inv, TypeOK, Restart, Conns, Jobs, Posts
<1>11. HandlerInv'
  BY <1>2, <1>3, NilFacts DEF Inv, HandlerInv, Open
<1>12. PostInv'
  BY <1>2, <1>4, NilFacts DEF Inv, PostInv, Open
<1> QED
  BY <1>10, <1>11, <1>12 DEF Inv

\* A handler goes on: connections and what is to be written stay as they are.
LEMMA StepStays ==
    ASSUME Inv, NEW s \in Servers, NEW f \in Fds, Open(s, f), UNCHANGED <<conn, post>>,
           job'[s][f].at # "idle" => job'[s][f].user \in Users,
           \A t \in Servers, g \in Fds : t # s \/ g # f => job'[t][g] = job[t][g]
    PROVE  HandlerInv' /\ PostInv'
BY PostStays DEF Inv, HandlerInv, Open

LEMMA OnlineGetInv ==
    ASSUME Inv, NEW s \in Servers, NEW f \in Fds, NEW u \in Users, OnlineGet(s, f, u)
    PROVE  Inv'
<1> DEFINE c == [conn[s][f] EXCEPT !.users = @ \cup {u}]
<1>1. conn[s][f].id # Nil /\ conn[s][f] \in Conns
  BY Types DEF OnlineGet, Ready, Open, Inv
<1>2. conn[s][f] \in [id : Ids, users : SUBSET Users]
  BY <1>1 DEF Conns, NoConn
<1>3. c \in Conns /\ c.id = conn[s][f].id
  BY <1>2 DEF Conns
<1>4. conn' = [conn EXCEPT ![s] = [@ EXCEPT ![f] = c]]
  BY Types DEF Inv, OnlineGet
<1> HIDE DEF c
<1>5. /\ conn' \in [Servers -> [Fds -> Conns]] /\ conn'[s][f] = c
      /\ \A t \in Servers, g \in Fds : t # s \/ g # f => conn'[t][g] = conn[t][g]
  BY <1>3, <1>4, Types DEF Inv
<1>6. \A t \in Servers, g \in Fds : conn[t][g].id # Nil => conn'[t][g].id # Nil
  BY <1>1, <1>3, <1>5
<1>7. PICK stage \in {"hgetNo", "set"} :
          /\ UNCHANGED fails \/ RedisFails
          /\ job' = [job EXCEPT ![s][f] = [NoJob EXCEPT !.at = stage, !.user = u]]
  BY DEF OnlineGet
<1> DEFINE r == [NoJob EXCEPT !.at = stage, !.user = u]
<1>8. r \in Jobs /\ r.user = u
  BY DEF Jobs, NoJob, Stages
<1>9. job' = [job EXCEPT ![s] = [@ EXCEPT ![f] = r]]
  BY <1>7
<1> HIDE DEF r
<1>10. /\ job' \in [Servers -> [Fds -> Jobs]] /\ job'[s][f] = r
       /\ \A t \in Servers, g \in Fds : t # s \/ g # f => job'[t][g] = job[t][g]
  BY <1>8, <1>9, Types DEF Inv
<1>11. logins' \in 0 .. MaxLogins /\ fails' \in 0 .. MaxFails
  BY <1>7, FailsType, OnlineStatusAssumption DEF Inv, TypeOK, OnlineGet
<1>12. met' \subseteq Servers \X Fds
  BY DEF Inv, TypeOK, OnlineGet, Logins
<1>13. TypeOK'
  BY <1>5, <1>10, <1>11, <1>12 DEF Inv, TypeOK, OnlineGet, Conns, Jobs, relayVars
<1>14. HandlerInv'
  BY <1>1, <1>6, <1>8, <1>10 DEF Inv, HandlerInv, Open
<1>15. PostInv'
  BY <1>6, PostStaysOpen DEF Inv, OnlineGet, relayVars
<1> QED
  BY <1>13, <1>14, <1>15 DEF Inv

LEMMA OnlineHgetInv ==
    ASSUME Inv, NEW s \in Servers, NEW f \in Fds, OnlineHget(s, f)
    PROVE  Inv'
<1> DEFINE j == job[s][f]
           i == info[j.user]
           k == [for |-> j.user, at |-> [no |-> j.no, fd |-> j.fd, id |-> i.id, by |-> i.by]]
<1>1. Open(s, f) /\ j.user \in Users
  BY DEF Inv, HandlerInv, OnlineHget
<1>2. j \in Jobs
  BY Types DEF Inv
<1>3. i \in Infos
  BY <1>1 DEF Inv, TypeOK
<1>4. PICK r \in Jobs : /\ job' = [job EXCEPT ![s] = [@ EXCEPT ![f] = r]]
                        /\ r.user = j.user
  <2>1. CASE job' = [job EXCEPT ![s][f] = [j EXCEPT !.at = "hgetFd", !.no = i.no]]
    <3>1. /\ [j EXCEPT !.at = "hgetFd", !.no = i.no] \in Jobs
          /\ [j EXCEPT !.at = "hgetFd", !.no = i.no].user = j.user
      BY <1>2, <1>3 DEF Jobs, Infos, Stages
    <3> QED
      BY <2>1, <3>1
  <2>2. CASE job' = [job EXCEPT ![s][f] = [j EXCEPT !.at = "hgetId", !.fd = i.fd]]
    <3>1. /\ [j EXCEPT !.at = "hgetId", !.fd = i.fd] \in Jobs
          /\ [j EXCEPT !.at = "hgetId", !.fd = i.fd].user = j.user
      BY <1>2, <1>3 DEF Jobs, Infos, Stages
    <3> QED
      BY <2>2, <3>1
  <2>3. CASE job' = [job EXCEPT ![s][f] = [NoJob EXCEPT !.at = "set", !.user = j.user]]
    <3>1. /\ [NoJob EXCEPT !.at = "set", !.user = j.user] \in Jobs
          /\ [NoJob EXCEPT !.at = "set", !.user = j.user].user = j.user
      BY <1>1 DEF Jobs, NoJob, Stages
    <3> QED
      BY <2>3, <3>1
  <2> QED
    BY <2>1, <2>2, <2>3 DEF OnlineHget
<1>5. /\ job' \in [Servers -> [Fds -> Jobs]] /\ job'[s][f] = r
      /\ \A t \in Servers, g \in Fds : t # s \/ g # f => job'[t][g] = job[t][g]
  BY <1>4, Types DEF Inv
<1>6. k \in Kicks
  BY <1>1, <1>2, <1>3 DEF Kicks, Infos, Jobs
<1>7. kicks' \subseteq Kicks
  <2>1. kicks' = kicks \/ kicks' = kicks \cup {k}
    BY DEF OnlineHget
  <2> QED
    BY <1>6, <2>1 DEF Inv, TypeOK
<1>8. UNCHANGED <<conn, post>>
  BY DEF OnlineHget, connVars
<1>9. TypeOK'
  BY <1>5, <1>7 DEF Inv, TypeOK, OnlineHget, redisVars, connVars, Jobs
<1> QED
  BY <1>1, <1>4, <1>5, <1>8, <1>9, StepStays DEF Inv

\* A handler ends.
LEMMA EndsStays ==
    ASSUME Inv, NEW s \in Servers, NEW f \in Fds, Ends(s, f), UNCHANGED <<conn, post>>
    PROVE  HandlerInv' /\ PostInv'
BY EndsType, NilFacts, PostStays DEF Inv, HandlerInv, Open

LEMMA OnlineHgetFailsInv ==
    ASSUME Inv, NEW s \in Servers, NEW f \in Fds, OnlineHgetFails(s, f)
    PROVE  Inv'
<1>1. Ends(s, f) /\ RedisFails /\ UNCHANGED <<conn, post>>
  BY DEF OnlineHgetFails, connVars, relayVars
<1>2. TypeOK'
  BY <1>1, EndsType, FailsType
  DEF Inv, TypeOK, OnlineHgetFails, connVars, relayVars, Jobs
<1> QED
  BY <1>1, <1>2, EndsStays DEF Inv

LEMMA OnlineSetInv ==
    ASSUME Inv, NEW s \in Servers, NEW f \in Fds, OnlineSet(s, f)
    PROVE  Inv'
<1>1. Goto(s, f, "setNo") /\ "setNo" \in Stages /\ UNCHANGED <<conn, post>>
  BY DEF OnlineSet, connVars, relayVars, Stages
<1>2. Open(s, f) /\ job[s][f].user \in Users
  BY DEF Inv, HandlerInv, OnlineSet
<1>3. online' \subseteq Users
  BY <1>2 DEF Inv, TypeOK, OnlineSet
<1>4. TypeOK'
  BY <1>1, <1>3, GotoType DEF Inv, TypeOK, OnlineSet, connVars, relayVars, Jobs
<1> QED
  BY <1>1, <1>2, <1>4, GotoType, StepStays DEF Inv

LEMMA OnlineHsetInv ==
    ASSUME Inv, NEW s \in Servers, NEW f \in Fds, OnlineHset(s, f)
    PROVE  Inv'
<1> DEFINE u == job[s][f].user
<1>1. Open(s, f) /\ u \in Users
  BY DEF Inv, HandlerInv, OnlineHset
<1>2. conn[s][f].id \in Ids /\ info[u] \in Infos
  BY <1>1, HereType DEF Inv, TypeOK
<1>3. PICK stage \in Stages : Goto(s, f, stage)
  BY DEF OnlineHset, Stages
<1>4. /\ [info[u] EXCEPT !.no = s] \in Infos
      /\ [info[u] EXCEPT !.fd = f] \in Infos
      /\ [info[u] EXCEPT !.id = conn[s][f].id, !.by = s] \in Infos
  BY <1>2 DEF Infos
<1>5. info' \in [Users -> Infos]
  BY <1>1, <1>4 DEF Inv, TypeOK, OnlineHset
<1>6. told' \in [Users -> Places \cup {NoPlace}]
  BY <1>1 DEF Inv, TypeOK, OnlineHset
<1>7. job' \in [Servers -> [Fds -> Jobs]]
  BY <1>3, GotoType DEF Inv
<1>8. TypeOK'
  BY <1>5, <1>6, <1>7 DEF Inv, TypeOK, OnlineHset, connVars, relayVars, Jobs
<1>9. UNCHANGED <<conn, post>>
  BY DEF OnlineHset, connVars, relayVars
<1> QED
  BY <1>1, <1>3, <1>8, <1>9, GotoType, StepStays DEF Inv

LEMMA OnlineWriteFailsInv ==
    ASSUME Inv, NEW s \in Servers, NEW f \in Fds, OnlineWriteFails(s, f)
    PROVE  Inv'
<1>1. Ends(s, f) /\ RedisFails /\ UNCHANGED <<conn, post>>
  BY DEF OnlineWriteFails, connVars, relayVars
<1>2. TypeOK'
  BY <1>1, EndsType, FailsType
  DEF Inv, TypeOK, OnlineWriteFails, connVars, relayVars, Jobs
<1> QED
  BY <1>1, <1>2, EndsStays DEF Inv

LEMMA OnlineExpireInv ==
    ASSUME Inv, NEW s \in Servers, NEW f \in Fds, OnlineExpire(s, f)
    PROVE  Inv'
<1>1. Ends(s, f) /\ UNCHANGED <<conn, post>>
  BY DEF OnlineExpire, connVars, relayVars
<1>2. Here(s, f) \in Places /\ job[s][f].user \in Users
  BY HereType DEF Inv, HandlerInv, OnlineExpire
<1>3. told' \in [Users -> Places \cup {NoPlace}]
  BY <1>2 DEF Inv, TypeOK, OnlineExpire
<1>4. TypeOK'
  BY <1>1, <1>3, EndsType
  DEF Inv, TypeOK, OnlineExpire, redisVars, connVars, relayVars, Jobs
<1> QED
  BY <1>1, <1>4, EndsStays DEF Inv

\* The flag alone is written.
LEMMA FlagInv ==
    ASSUME Inv, online' \subseteq Users, UNCHANGED <<info, fails, connVars, handlerVars, relayVars>>
    PROVE  Inv'
<1>1. TypeOK'
  BY DEF Inv, TypeOK, connVars, handlerVars, relayVars
<1> QED
  BY <1>1, HandlerStays, PostStays DEF Inv, connVars, handlerVars, relayVars

\* Only messages and what is to be written change.
LEMMA RelayInv ==
    ASSUME Inv, UNCHANGED <<redisVars, connVars, handlerVars>>,
           kicks' \subseteq Kicks, asked' \in Users \cup {Nil}, mails' \subseteq Mails,
           post' \in [Servers -> Posts], PostInv'
    PROVE  Inv'
<1>1. TypeOK'
  BY DEF Inv, TypeOK, redisVars, connVars, handlerVars, Posts
<1> QED
  BY <1>1, HandlerStays DEF Inv, connVars, handlerVars

\* One server is about to write something else.
LEMMA PostGoes ==
    ASSUME Inv, UNCHANGED conn, NEW s \in Servers, NEW r \in Posts, post' = [post EXCEPT ![s] = r],
           r.at # "none" => r.for \in Users,
           r.at = "verified" => r.fd \in Fds /\ Open(s, r.fd)
    PROVE  post' \in [Servers -> Posts] /\ PostInv'
<1>1. /\ post' \in [Servers -> Posts] /\ post'[s] = r
      /\ \A t \in Servers : t # s => post'[t] = post[t]
  BY PostType DEF Inv
<1> QED
  BY <1>1 DEF Inv, PostInv, Open

LEMMA RelayGetInv ==
    ASSUME Inv, NEW u \in Users, RelayGet(u)
    PROVE  Inv'
BY RelayInv, Types, PostStays DEF Inv, TypeOK, RelayGet, connVars

LEMMA RelayRoutesInv == ASSUME Inv, RelayRoutes PROVE Inv'
<1>1. asked \in Users
  BY DEF Inv, TypeOK, RelayRoutes
<1>2. [for |-> asked, no |-> info[asked].no] \in Mails
  BY <1>1 DEF Inv, TypeOK, Infos, Mails
<1>3. mails' \subseteq Mails
  BY <1>2 DEF Inv, TypeOK, RelayRoutes
<1> QED
  BY <1>3, RelayInv, Types, PostStays DEF Inv, TypeOK, RelayRoutes, connVars

LEMMA KickChecksInv ==
    ASSUME Inv, NEW k \in kicks, KickChecks(k)
    PROVE  Inv'
<1> DEFINE s == k.at.no
           r == [at |-> "verified", for |-> k.for, fd |-> k.at.fd, by |-> k.at.by]
<1>1. k.for \in Users /\ k.at \in Infos /\ kicks' \subseteq Kicks
  BY DEF Inv, TypeOK, Kicks, KickChecks
<1>2. UNCHANGED <<redisVars, connVars, handlerVars, asked, mails>>
  BY DEF KickChecks
<1>3. post' \in [Servers -> Posts] /\ PostInv'
  <2>1. CASE UNCHANGED post
    BY <1>2, <2>1, Types, PostStays DEF Inv, connVars
  <2>2. CASE s \in Servers /\ FindValueByKey(s, k.at.fd, k.at.id) /\ post' = [post EXCEPT ![s] = r]
    <3>1. r \in Posts /\ r.at = "verified" /\ r.for \in Users /\ r.fd \in Fds /\ Open(s, r.fd)
      BY <1>1, <2>2 DEF Posts, Infos, FindValueByKey
    <3> HIDE DEF r, s
    <3> QED
      BY <1>2, <2>2, <3>1, PostGoes DEF connVars
  <2> QED
    BY <2>1, <2>2 DEF KickChecks
<1> QED
  BY <1>1, <1>2, <1>3, RelayInv DEF Inv, TypeOK

LEMMA VerifyFdInv ==
    ASSUME Inv, NEW m \in mails, VerifyFd(m)
    PROVE  Inv'
<1> DEFINE s == m.no
           r == [at |-> "fd", for |-> m.for, fd |-> info[m.for].fd, by |-> Nil]
<1>1. m.for \in Users /\ info[m.for] \in Infos /\ mails' \subseteq Mails
  BY DEF Inv, TypeOK, Mails, VerifyFd
<1>2. UNCHANGED <<redisVars, connVars, handlerVars, kicks, asked>>
  BY DEF VerifyFd
<1>3. post' \in [Servers -> Posts] /\ PostInv'
  <2>1. CASE UNCHANGED post
    BY <1>2, <2>1, Types, PostStays DEF Inv, connVars
  <2>2. CASE s \in Servers /\ post' = [post EXCEPT ![s] = r]
    <3>1. r \in Posts /\ r.at = "fd" /\ r.for \in Users
      BY <1>1 DEF Posts, Infos
    <3> HIDE DEF r, s
    <3> QED
      BY <1>2, <2>2, <3>1, PostGoes DEF connVars
  <2> QED
    BY <2>1, <2>2 DEF VerifyFd
<1> QED
  BY <1>1, <1>2, <1>3, RelayInv DEF Inv, TypeOK

LEMMA VerifyIdInv ==
    ASSUME Inv, NEW s \in Servers, VerifyId(s)
    PROVE  Inv'
<1> DEFINE i == info[post[s].for]
           r == IF FindValueByKey(s, post[s].fd, i.id)
                THEN [post[s] EXCEPT !.at = "verified", !.by = i.by] ELSE NoPost
<1>1. post[s] \in Posts /\ post[s].for \in Users
  BY Types DEF Inv, PostInv, VerifyId
<1>2. i \in Infos
  BY <1>1 DEF Inv, TypeOK
<1>3. UNCHANGED <<redisVars, connVars, handlerVars, kicks, asked, mails>>
  BY DEF VerifyId
<1>4. post' = [post EXCEPT ![s] = r]
  BY Types DEF Inv, VerifyId
<1>5. /\ r \in Posts
      /\ r.at # "none" => r.for \in Users
      /\ r.at = "verified" => r.fd \in Fds /\ Open(s, r.fd)
  <2>1. CASE FindValueByKey(s, post[s].fd, i.id)
    <3> DEFINE q == [post[s] EXCEPT !.at = "verified", !.by = i.by]
    <3>1. r = q
      BY <2>1
    <3>2. q \in Posts /\ q.for = post[s].for /\ q.fd = post[s].fd
      BY <1>1, <1>2 DEF Posts, Infos
    <3>3. post[s].fd \in Fds /\ Open(s, post[s].fd)
      BY <2>1 DEF FindValueByKey
    <3> HIDE DEF q, r
    <3> QED
      BY <1>1, <3>1, <3>2, <3>3
  <2>2. CASE ~FindValueByKey(s, post[s].fd, i.id)
    BY <2>2, NilFacts
  <2> QED
    BY <2>1, <2>2
<1> HIDE DEF r
<1>6. post' \in [Servers -> Posts] /\ PostInv'
  BY <1>3, <1>4, <1>5, PostGoes DEF connVars
<1> QED
  BY <1>3, <1>6, RelayInv DEF Inv, TypeOK

LEMMA PostWritesInv ==
    ASSUME Inv, NEW s \in Servers, PostWrites(s)
    PROVE  Inv'
<1>1. UNCHANGED <<redisVars, connVars, handlerVars, kicks, asked, mails>>
  BY DEF PostWrites
<1>2. post' \in [Servers -> Posts] /\ PostInv'
  BY <1>1, NilFacts, PostGoes DEF PostWrites, connVars
<1> QED
  BY <1>1, <1>2, RelayInv DEF Inv, TypeOK

LEMMA InvStep == Inv /\ [Next]_vars => Inv'
<1> SUFFICES ASSUME Inv, [Next]_vars PROVE Inv'
  OBVIOUS
<1>1. ASSUME NEW s \in Servers, NEW f \in Fds, ClientStep(s, f) PROVE Inv'
  <2>1. CASE Accept(s, f) \/ Close(s, f)
    BY <2>1, AcceptInv, CloseInv
  <2>2. CASE OnlineHget(s, f) \/ OnlineHgetFails(s, f)
    BY <2>2, OnlineHgetInv, OnlineHgetFailsInv
  <2>3. CASE OnlineSet(s, f) \/ OnlineHset(s, f)
    BY <2>3, OnlineSetInv, OnlineHsetInv
  <2>4. CASE OnlineWriteFails(s, f) \/ OnlineExpire(s, f)
    BY <2>4, OnlineWriteFailsInv, OnlineExpireInv
  <2>5. ASSUME NEW u \in Users, OnlineGet(s, f, u) PROVE Inv'
    BY <2>5, OnlineGetInv
  <2>6. ASSUME NEW u \in Users, GetLiveStatus(s, f, u) \/ SetOnlineStatus(s, f, u) PROVE Inv'
    <3>1. online' \subseteq Users
      BY <2>6 DEF Inv, TypeOK, GetLiveStatus, SetOnlineStatus
    <3> QED
      BY <2>6, <3>1, FlagInv DEF GetLiveStatus, SetOnlineStatus
  <2> QED
    BY <1>1, <2>1, <2>2, <2>3, <2>4, <2>5, <2>6 DEF ClientStep
<1>2. ASSUME NEW u \in Users, FlagExpires(u) PROVE Inv'
  <2>1. online' \subseteq Users
    BY <1>2 DEF Inv, TypeOK, FlagExpires
  <2> QED
    BY <1>2, <2>1, FlagInv DEF FlagExpires
<1>3. ASSUME NEW u \in Users, RelayGet(u) PROVE Inv'
  BY <1>3, RelayGetInv
<1>4. CASE RelayRoutes
  BY <1>4, RelayRoutesInv
<1>5. ASSUME NEW k \in kicks, KickChecks(k) PROVE Inv'
  BY <1>5, KickChecksInv
<1>6. ASSUME NEW m \in mails, VerifyFd(m) PROVE Inv'
  BY <1>6, VerifyFdInv
<1>7. ASSUME NEW s \in Servers, VerifyId(s) \/ PostWrites(s) \/ Restart(s) PROVE Inv'
  BY <1>7, VerifyIdInv, PostWritesInv, RestartInv
<1>8. CASE UNCHANGED vars
  <2>1. UNCHANGED <<online, info, fails, connVars, handlerVars, relayVars>>
    BY <1>8 DEF vars, redisVars
  <2> QED
    BY <2>1, FlagInv DEF Inv, TypeOK
<1> QED
  BY <1>1, <1>2, <1>3, <1>4, <1>5, <1>6, <1>7, <1>8 DEF Next

\* The type invariant of the servers, redis and the messages, for any number of
\* each.
THEOREM TypeCorrect == Spec => []TypeOK
<1>1. Inv => TypeOK
  BY DEF Inv
<1> QED
  BY InitInv, InvStep, <1>1, PTL DEF Spec

-----------------------------------------------------------------------------
(* Who was told it is online can be reached.                               *)

\* Two logins of one user have met.
MetInv ==
    \A s, t \in Servers, f, g \in Fds :
        job[s][f].user \in Users /\ job[t][g].user = job[s][f].user /\ (t # s \/ g # f)
            => <<s, f>> \in met

\* A login that has begun to write the place and met none has written its own, and
\* the user has not been told of one since.
Wrote(s, f) ==
    LET j == job[s][f]
        i == info[j.user]
    IN
    /\ j.at \in {"setFd", "setId", "expire"} => told[j.user] = NoPlace
    /\ <<s, f>> \notin met =>
          /\ j.at \in {"setFd", "setId", "expire"} => i.no = s
          /\ j.at \in {"setId", "expire"} => i.fd = f
          /\ j.at = "expire" => i.id = conn[s][f].id
WroteInv == \A s \in Servers, f \in Fds : Wrote(s, f)

LoginInv == MetInv /\ WroteInv /\ OnlineReachable

LEMMA InitLogin == Init => LoginInv
BY NilFacts DEF Init, LoginInv, MetInv, WroteInv, Wrote, OnlineReachable

\* No login moves on, and no place is written.
LEMMA LoginStays ==
    ASSUME Inv, LoginInv, UNCHANGED <<job, met>>,
           \A u \in Users : /\ info'[u].no = info[u].no /\ info'[u].fd = info[u].fd
                            /\ info'[u].id = info[u].id
                            /\ told'[u] = told[u] \/ told'[u] = NoPlace,
           \A s \in Servers, f \in Fds :
               job[s][f].at # "idle" => conn'[s][f].id = conn[s][f].id
    PROVE  LoginInv'
<1>1. MetInv'
  BY DEF LoginInv, MetInv
<1>2. OnlineReachable'
  BY DEF LoginInv, OnlineReachable
<1>3. WroteInv'
  <2> SUFFICES ASSUME NEW s \in Servers, NEW f \in Fds PROVE Wrote(s, f)'
    BY DEF WroteInv
  <2>1. Wrote(s, f) /\ job'[s][f] = job[s][f] /\ met' = met
    BY DEF LoginInv, WroteInv
  <2>2. CASE job[s][f].at = "idle"
    BY <2>1, <2>2 DEF Wrote
  <2>3. CASE job[s][f].at # "idle"
    <3> DEFINE u == job[s][f].user
    <3>1. u \in Users /\ conn'[s][f].id = conn[s][f].id
      BY <2>3 DEF Inv, HandlerInv
    <3>2. /\ info'[u].no = info[u].no /\ info'[u].fd = info[u].fd /\ info'[u].id = info[u].id
          /\ told'[u] = told[u] \/ told'[u] = NoPlace
      BY <3>1
    <3> QED
      BY <2>1, <3>1, <3>2 DEF Wrote
  <2> QED
    BY <2>2, <2>3
<1> QED
  BY <1>1, <1>2, <1>3 DEF LoginInv

\* One login ends or goes on, to where it has not begun to write.
LEMMA LoginMoves ==
    ASSUME Inv, LoginInv, NEW s \in Servers, NEW f \in Fds, UNCHANGED <<info, told, conn>>,
           job'[s][f].at \notin {"setFd", "setId", "expire"},
           job'[s][f].user \in {job[s][f].user, Nil},
           \A t \in Servers, g \in Fds : t # s \/ g # f => job'[t][g] = job[t][g],
           \/ met' = met
           \/ met' = met \ {<<s, f>>} /\ job'[s][f].user = Nil
    PROVE  LoginInv'
<1>1. ASSUME NEW t \in Servers, NEW g \in Fds, t # s \/ g # f
      PROVE  <<t, g>> \in met' <=> <<t, g>> \in met
  BY <1>1
<1>2. MetInv'
  <2> SUFFICES ASSUME NEW t \in Servers, NEW g \in Fds, NEW v \in Servers, NEW h \in Fds,
                      job'[t][g].user \in Users, job'[v][h].user = job'[t][g].user,
                      v # t \/ h # g
               PROVE  <<t, g>> \in met'
    BY DEF MetInv
  <2>1. job[t][g].user = job'[t][g].user /\ job[v][h].user = job'[v][h].user
    BY NilFacts
  <2>2. <<t, g>> \in met
    BY <2>1 DEF LoginInv, MetInv
  <2>3. CASE t # s \/ g # f
    BY <2>2, <2>3, <1>1
  <2>4. CASE t = s /\ g = f
    BY <2>2, <2>4, NilFacts
  <2> QED
    BY <2>3, <2>4
<1>3. OnlineReachable'
  BY DEF LoginInv, OnlineReachable
<1>4. WroteInv'
  <2> SUFFICES ASSUME NEW t \in Servers, NEW g \in Fds
               PROVE  Wrote(t, g)'
    BY DEF WroteInv
  <2>1. CASE t = s /\ g = f
    BY <2>1 DEF Wrote
  <2>2. CASE t # s \/ g # f
    BY <2>2, <1>1 DEF LoginInv, WroteInv, Wrote
  <2> QED
    BY <2>1, <2>2
<1> QED
  BY <1>2, <1>3, <1>4 DEF LoginInv

\* A login begins; what it finds of the user's has met it.
LEMMA LoginBegins ==
    ASSUME Inv, LoginInv, NEW s \in Servers, NEW f \in Fds, NEW u \in Users, OnlineGet(s, f, u)
    PROVE  LoginInv'
<1>1. /\ job'[s][f].user = u /\ job'[s][f].at \in {"hgetNo", "set"}
      /\ \A t \in Servers, g \in Fds : t # s \/ g # f => job'[t][g] = job[t][g]
  <2>1. PICK stage \in {"hgetNo", "set"} :
            job' = [job EXCEPT ![s][f] = [NoJob EXCEPT !.at = stage, !.user = u]]
    BY DEF OnlineGet
  <2> DEFINE r == [NoJob EXCEPT !.at = stage, !.user = u]
  <2>2. r.user = u /\ r.at = stage
    BY DEF NoJob
  <2>3. job' = [job EXCEPT ![s] = [@ EXCEPT ![f] = r]]
    BY <2>1
  <2> HIDE DEF r
  <2> QED
    BY <2>2, <2>3, Types DEF Inv
<1>2. /\ \A h \in met : h \in met'
      /\ \A t \in Servers, g \in Fds :
             job[t][g].user = u => <<t, g>> \in met' /\ <<s, f>> \in met'
  <2>1. Logins(u) = {h \in Servers \X Fds : job[h[1]][h[2]].user = u}
    BY DEF Logins
  <2>2. met' = IF Logins(u) = {} THEN met ELSE met \cup Logins(u) \cup {<<s, f>>}
    BY DEF OnlineGet
  <2>3. ASSUME NEW t \in Servers, NEW g \in Fds, job[t][g].user = u
        PROVE  <<t, g>> \in Logins(u)
    BY <2>1, <2>3
  <2> QED
    BY <2>2, <2>3
<1>3. UNCHANGED <<info, told>>
  BY DEF OnlineGet
<1>4. \A t \in Servers, g \in Fds : conn'[t][g].id = conn[t][g].id
  BY Types DEF Inv, OnlineGet, Conns, NoConn
<1>5. OnlineReachable'
  BY <1>3 DEF LoginInv, OnlineReachable
<1>6. MetInv'
  <2> SUFFICES ASSUME NEW t \in Servers, NEW g \in Fds, NEW v \in Servers, NEW h \in Fds,
                      job'[t][g].user \in Users, job'[v][h].user = job'[t][g].user,
                      v # t \/ h # g
               PROVE  <<t, g>> \in met'
    BY DEF MetInv
  <2>1. CASE t = s /\ g = f
    <3>1. v # s \/ h # f
      BY <2>1
    <3>2. job[v][h].user = u
      BY <2>1, <3>1, <1>1
    <3> QED
      BY <2>1, <3>2, <1>2
  <2>2. CASE v = s /\ h = f
    BY <2>2, <1>1, <1>2
  <2>3. CASE (t # s \/ g # f) /\ (v # s \/ h # f)
    <3>1. job'[t][g] = job[t][g] /\ job'[v][h] = job[v][h]
      BY <2>3, <1>1
    <3> QED
      BY <3>1, <1>2 DEF LoginInv, MetInv
  <2> QED
    BY <2>1, <2>2, <2>3
<1>7. WroteInv'
  <2> SUFFICES ASSUME NEW t \in Servers, NEW g \in Fds PROVE Wrote(t, g)'
    BY DEF WroteInv
  <2>1. CASE t = s /\ g = f
    BY <2>1, <1>1 DEF Wrote
  <2>2. CASE t # s \/ g # f
    BY <2>2, <1>1, <1>2, <1>3, <1>4 DEF LoginInv, WroteInv, Wrote
  <2> QED
    BY <2>1, <2>2
<1> QED
  BY <1>5, <1>6, <1>7 DEF LoginInv

\* A login writes: no other one that has met none is of its user.
LEMMA LoginWrites ==
    ASSUME Inv, LoginInv, NEW s \in Servers, NEW f \in Fds, OnlineHset(s, f)
    PROVE  LoginInv'
<1> DEFINE u == job[s][f].user
<1>1. Open(s, f) /\ u \in Users /\ UNCHANGED <<conn, met>>
  BY DEF Inv, HandlerInv, OnlineHset, connVars
<1>2. PICK stage \in Stages : Goto(s, f, stage)
  BY DEF OnlineHset, Stages
<1>3. /\ job'[s][f].user = u /\ job'[s][f].at = stage
      /\ \A t \in Servers, g \in Fds : t # s \/ g # f => job'[t][g] = job[t][g]
  BY <1>2, GotoType DEF Inv
<1>4. \A t \in Servers, g \in Fds : job'[t][g].user = job[t][g].user
  BY <1>3
<1>5. MetInv'
  BY <1>1, <1>4 DEF LoginInv, MetInv
<1>6. told'[u] = NoPlace
  <2>1. told \in [Users -> Places \cup {NoPlace}] /\ Wrote(s, f)
    BY DEF Inv, TypeOK, LoginInv, WroteInv
  <2>2. CASE job[s][f].at = "setNo"
    BY <2>1, <2>2, <1>1 DEF OnlineHset
  <2>3. CASE job[s][f].at \in {"setFd", "setId"}
    BY <2>1, <2>3 DEF OnlineHset, Wrote
  <2> QED
    BY <2>2, <2>3 DEF OnlineHset
<1>7. \A v \in Users : v # u => info'[v] = info[v] /\ told'[v] = told[v]
  BY DEF Inv, TypeOK, OnlineHset
<1>8. OnlineReachable'
  BY <1>6, <1>7 DEF LoginInv, OnlineReachable
<1>9. Wrote(s, f)'
  <2>1. info[u] \in Infos
    BY <1>1 DEF Inv, TypeOK
  <2>2. CASE job[s][f].at = "setNo"
    <3>1. info'[u].no = s /\ job'[s][f].at = "setFd"
      BY <2>1, <2>2, <1>1, GotoType DEF Inv, TypeOK, Infos, OnlineHset, Stages
    <3> QED
      BY <3>1, <1>3, <1>6 DEF Wrote
  <2>3. CASE job[s][f].at = "setFd"
    <3>1. info'[u].no = info[u].no /\ info'[u].fd = f
      BY <2>1, <2>3, <1>1 DEF Inv, TypeOK, Infos, OnlineHset
    <3>2. Goto(s, f, "setId") /\ "setId" \in Stages
      BY <2>3 DEF OnlineHset, Stages
    <3>3. job'[s][f].at = "setId"
      BY <3>2, GotoType DEF Inv
    <3> QED
      BY <2>3, <3>1, <3>3, <1>1, <1>3, <1>6 DEF LoginInv, WroteInv, Wrote
  <2>4. CASE job[s][f].at = "setId"
    <3>1. /\ info'[u].no = info[u].no /\ info'[u].fd = info[u].fd
          /\ info'[u].id = conn[s][f].id
      BY <2>1, <2>4, <1>1 DEF Inv, TypeOK, Infos, OnlineHset
    <3>2. Goto(s, f, "expire") /\ "expire" \in Stages
      BY <2>4 DEF OnlineHset, Stages
    <3>3. job'[s][f].at = "expire"
      BY <3>2, GotoType DEF Inv
    <3> QED
      BY <2>4, <3>1, <3>3, <1>1, <1>3, <1>6 DEF LoginInv, WroteInv, Wrote
  <2> QED
    BY <2>2, <2>3, <2>4 DEF OnlineHset
<1>10. WroteInv'
  <2> SUFFICES ASSUME NEW t \in Servers, NEW g \in Fds, t # s \/ g # f PROVE Wrote(t, g)'
    BY <1>9 DEF WroteInv
  <2>1. Wrote(t, g) /\ job'[t][g] = job[t][g]
    BY <1>3 DEF LoginInv, WroteInv
  <2>2. CASE job[t][g].at = "idle"
    BY <2>1, <2>2 DEF Wrote
  <2>3. CASE job[t][g].at # "idle" /\ job[t][g].user # u
    BY <2>1, <2>3, <1>1, <1>7 DEF Wrote, Inv, HandlerInv
  <2>4. CASE job[t][g].user = u
    <3>1. <<t, g>> \in met
      BY <2>4, <1>1 DEF LoginInv, MetInv
    <3> QED
      BY <2>1, <2>4, <3>1, <1>1, <1>6 DEF Wrote
  <2> QED
    BY <2>2, <2>3, <2>4
<1> QED
  BY <1>5, <1>8, <1>10 DEF LoginInv

\* A login is told of.
LEMMA LoginTold ==
    ASSUME Inv, LoginInv, NEW s \in Servers, NEW f \in Fds, OnlineExpire(s, f)
    PROVE  LoginInv'
<1> DEFINE u == job[s][f].user
<1>1. Open(s, f) /\ u \in Users /\ UNCHANGED <<conn, info>> /\ Ends(s, f)
  BY DEF Inv, HandlerInv, OnlineExpire, connVars, redisVars
<1>2. /\ job'[s][f] = NoJob /\ met' = met \ {<<s, f>>}
      /\ \A t \in Servers, g \in Fds : t # s \/ g # f => job'[t][g] = job[t][g]
  BY <1>1, EndsType DEF Inv
<1>3. \A v \in Users : v # u => told'[v] = told[v]
  BY DEF Inv, TypeOK, OnlineExpire
<1>4. told'[u] = told[u] \/ (<<s, f>> \notin met /\ told'[u] = Here(s, f))
  <2>1. told \in [Users -> Places \cup {NoPlace}]
    BY DEF Inv, TypeOK
  <2>2. told' = [told EXCEPT ![u] = IF <<s, f>> \in met THEN told[u] ELSE Here(s, f)]
    BY DEF OnlineExpire
  <2> QED
    BY <2>1, <2>2, <1>1
<1>5. ASSUME NEW t \in Servers, NEW g \in Fds, t # s \/ g # f
      PROVE  <<t, g>> \in met' <=> <<t, g>> \in met
  BY <1>2, <1>5
<1>6. MetInv'
  <2> SUFFICES ASSUME NEW t \in Servers, NEW g \in Fds, NEW v \in Servers, NEW h \in Fds,
                      job'[t][g].user \in Users, job'[v][h].user = job'[t][g].user,
                      v # t \/ h # g
               PROVE  <<t, g>> \in met'
    BY DEF MetInv
  <2>1. (t # s \/ g # f) /\ (v # s \/ h # f)
    BY <1>2, NilFacts
  <2>2. job'[t][g] = job[t][g] /\ job'[v][h] = job[v][h]
    BY <2>1, <1>2
  <2> QED
    BY <2>1, <2>2, <1>5 DEF LoginInv, MetInv
<1>7. OnlineReachable'
  <2> SUFFICES ASSUME NEW v \in Users, told'[v] # NoPlace
               PROVE  [no |-> info[v].no, fd |-> info[v].fd, id |-> info[v].id] = told'[v]
    BY <1>1 DEF OnlineReachable
  <2>1. CASE told'[v] = told[v]
    BY <2>1 DEF LoginInv, OnlineReachable
  <2>2. CASE v = u /\ <<s, f>> \notin met /\ told'[u] = Here(s, f)
    <3>1. info[u].no = s /\ info[u].fd = f /\ info[u].id = conn[s][f].id
      BY <2>2 DEF LoginInv, WroteInv, Wrote, OnlineExpire
    <3> QED
      BY <2>2, <3>1 DEF Here
  <2> QED
    BY <2>1, <2>2, <1>3, <1>4
<1>8. WroteInv'
  <2> SUFFICES ASSUME NEW t \in Servers, NEW g \in Fds PROVE Wrote(t, g)'
    BY DEF WroteInv
  <2>1. CASE t = s /\ g = f
    BY <2>1, <1>2, NilFacts DEF Wrote
  <2>2. CASE t # s \/ g # f
    <3>1. Wrote(t, g) /\ job'[t][g] = job[t][g]
      BY <2>2, <1>2 DEF LoginInv, WroteInv
    <3>2. job[t][g].at # "idle" => job[t][g].user \in Users
      BY DEF Inv, HandlerInv
    <3>3. job[t][g].at # "idle" => told'[job[t][g].user] = told[job[t][g].user]
      <4>1. CASE told'[u] = told[u]
        BY <4>1, <3>2, <1>3
      <4>2. CASE <<s, f>> \notin met
        BY <2>2, <4>2, <3>2, <1>1, <1>3 DEF LoginInv, MetInv
      <4> QED
        BY <4>1, <4>2, <1>4
    <3> QED
      BY <2>2, <3>1, <3>3, <1>1, <1>5 DEF Wrote
  <2> QED
    BY <2>1, <2>2
<1> QED
  BY <1>6, <1>7, <1>8 DEF LoginInv

LEMMA LoginStep == Inv /\ LoginInv /\ [Next]_vars => LoginInv'
<1> SUFFICES ASSUME Inv, LoginInv, [Next]_vars PROVE LoginInv'
  OBVIOUS
<1>1. ASSUME UNCHANGED <<info, handlerVars, connVars>> PROVE LoginInv'
  BY <1>1, LoginStays DEF handlerVars, connVars
<1>2. ASSUME NEW s \in Servers, NEW f \in Fds, ClientStep(s, f) PROVE LoginInv'
  <2>1. CASE Accept(s, f)
    <3>1. \A t \in Servers, g \in Fds : t # s \/ g # f => conn'[t][g] = conn[t][g]
      BY <2>1, Types DEF Inv, Accept
    <3>2. job[s][f].at = "idle"
      BY <2>1 DEF Inv, HandlerInv, Accept
    <3>3. \A t \in Servers, g \in Fds : job[t][g].at # "idle" => conn'[t][g].id = conn[t][g].id
      BY <3>1, <3>2
    <3> QED
      BY <2>1, <3>3, LoginStays DEF Accept, redisVars, handlerVars
  <2>2. CASE Close(s, f)
    <3>1. \A t \in Servers, g \in Fds : t # s \/ g # f => conn'[t][g] = conn[t][g]
      BY <2>2, Types DEF Inv, Close
    <3>2. \A t \in Servers, g \in Fds : job[t][g].at # "idle" => conn'[t][g].id = conn[t][g].id
      BY <2>2, <3>1 DEF Close
    <3>3. \A u \in Users : told'[u] = told[u] \/ told'[u] = NoPlace
      BY <2>2 DEF Close
    <3> QED
      BY <2>2, <3>2, <3>3, LoginStays DEF Close, redisVars
  <2>3. CASE OnlineHget(s, f)
    <3> DEFINE j == job[s][f]
    <3>1. PICK r : /\ job' = [job EXCEPT ![s] = [@ EXCEPT ![f] = r]]
                   /\ r.at \in {"hgetFd", "hgetId", "set"} /\ r.user = j.user
      <4>1. j \in Jobs
        BY Types DEF Inv
      <4>2. CASE job' = [job EXCEPT ![s][f] = [j EXCEPT !.at = "hgetFd", !.no = info[j.user].no]]
        <5>1. /\ [j EXCEPT !.at = "hgetFd", !.no = info[j.user].no].at = "hgetFd"
              /\ [j EXCEPT !.at = "hgetFd", !.no = info[j.user].no].user = j.user
          BY <4>1 DEF Jobs
        <5> QED
          BY <4>2, <5>1
      <4>3. CASE job' = [job EXCEPT ![s][f] = [j EXCEPT !.at = "hgetId", !.fd = info[j.user].fd]]
        <5>1. /\ [j EXCEPT !.at = "hgetId", !.fd = info[j.user].fd].at = "hgetId"
              /\ [j EXCEPT !.at = "hgetId", !.fd = info[j.user].fd].user = j.user
          BY <4>1 DEF Jobs
        <5> QED
          BY <4>3, <5>1
      <4>4. CASE job' = [job EXCEPT ![s][f] = [NoJob EXCEPT !.at = "set", !.user = j.user]]
        <5>1. /\ [NoJob EXCEPT !.at = "set", !.user = j.user].at = "set"
              /\ [NoJob EXCEPT !.at = "set", !.user = j.user].user = j.user
          BY DEF NoJob
        <5> QED
          BY <4>4, <5>1
      <4> QED
        BY <2>3, <4>2, <4>3, <4>4 DEF OnlineHget
    <3>2. /\ job'[s][f].at \in {"hgetFd", "hgetId", "set"} /\ job'[s][f].user = job[s][f].user
          /\ \A t \in Servers, g \in Fds : t # s \/ g # f => job'[t][g] = job[t][g]
      BY <3>1, Types DEF Inv
    <3>3. job'[s][f].at \notin {"setFd", "setId", "expire"}
      BY <3>2
    <3> QED
      BY <2>3, <3>2, <3>3, LoginMoves DEF OnlineHget, redisVars, connVars
  <2>4. CASE OnlineHgetFails(s, f) \/ OnlineWriteFails(s, f)
    <3>1. Ends(s, f) /\ UNCHANGED <<info, told, conn>>
      BY <2>4 DEF OnlineHgetFails, OnlineWriteFails, connVars
    <3> QED
      BY <3>1, EndsType, NilFacts, LoginMoves DEF Inv
  <2>5. CASE OnlineSet(s, f)
    <3>1. Goto(s, f, "setNo") /\ "setNo" \in Stages /\ UNCHANGED <<info, told, conn, met>>
      BY <2>5 DEF OnlineSet, connVars, Stages
    <3> QED
      BY <3>1, GotoType, LoginMoves DEF Inv
  <2>6. CASE OnlineHset(s, f) \/ OnlineExpire(s, f)
    BY <2>6, LoginWrites, LoginTold
  <2>7. ASSUME NEW u \in Users, OnlineGet(s, f, u) PROVE LoginInv'
    BY <2>7, LoginBegins
  <2>8. ASSUME NEW u \in Users, GetLiveStatus(s, f, u) \/ SetOnlineStatus(s, f, u) PROVE LoginInv'
    BY <2>8, <1>1 DEF GetLiveStatus, SetOnlineStatus
  <2> QED
    BY <1>2, <2>1, <2>2, <2>3, <2>4, <2>5, <2>6, <2>7, <2>8 DEF ClientStep
<1>3. ASSUME NEW u \in Users, FlagExpires(u) \/ RelayGet(u) PROVE LoginInv'
  BY <1>1, <1>3 DEF FlagExpires, RelayGet, redisVars
<1>4. CASE RelayRoutes
  BY <1>1, <1>4 DEF RelayRoutes, redisVars
<1>5. ASSUME NEW k \in kicks, KickChecks(k) PROVE LoginInv'
  BY <1>1, <1>5 DEF KickChecks, redisVars
<1>6. ASSUME NEW m \in mails, VerifyFd(m) PROVE LoginInv'
  BY <1>1, <1>6 DEF VerifyFd, redisVars
<1>7. ASSUME NEW s \in Servers, VerifyId(s) \/ PostWrites(s) PROVE LoginInv'
  BY <1>1, <1>7 DEF VerifyId, PostWrites, redisVars
<1>8. ASSUME NEW s \in Servers, Restart(s) PROVE LoginInv'
  <2>1. /\ \A t \in Servers, g \in Fds : t # s => job'[t][g] = job[t][g] /\ conn'[t][g] = conn[t][g]
        /\ \A g \in Fds : job'[s][g] = NoJob
    BY <1>8, Types DEF Inv, Restart
  <2>2. ASSUME NEW t \in Servers, NEW g \in Fds, t # s PROVE <<t, g>> \in met' <=> <<t, g>> \in met
    BY <1>8, <2>2 DEF Restart
  <2>3. ASSUME NEW u \in Users
        PROVE  /\ info'[u].no = info[u].no /\ info'[u].fd = info[u].fd /\ info'[u].id = info[u].id
               /\ told'[u] \in {told[u], NoPlace}
    <3>1. info[u] \in Infos /\ info'[u] = Ended(info[u], s)
      BY <1>8 DEF Inv, TypeOK, Restart
    <3>2. told'[u] \in {told[u], NoPlace}
      BY <1>8 DEF Restart
    <3> QED
      BY <3>1, <3>2 DEF Ended, Infos
  <2>4. OnlineReachable'
    BY <2>3 DEF LoginInv, OnlineReachable
  <2>5. MetInv'
    <3> SUFFICES ASSUME NEW t \in Servers, NEW g \in Fds, NEW v \in Servers, NEW h \in Fds,
                        job'[t][g].user \in Users, job'[v][h].user = job'[t][g].user,
                        v # t \/ h # g
                 PROVE  <<t, g>> \in met'
      BY DEF MetInv
    <3>1. t # s /\ v # s
      BY <2>1, NilFacts
    <3> QED
      BY <3>1, <2>1, <2>2 DEF LoginInv, MetInv
  <2>6. WroteInv'
    <3> SUFFICES ASSUME NEW t \in Servers, NEW g \in Fds PROVE Wrote(t, g)'
      BY DEF WroteInv
    <3>1. CASE t = s
      BY <3>1, <2>1, NilFacts DEF Wrote
    <3>2. CASE t # s
      <4>1. Wrote(t, g) /\ job'[t][g] = job[t][g] /\ conn'[t][g] = conn[t][g]
        BY <3>2, <2>1 DEF LoginInv, WroteInv
      <4>2. CASE job[t][g].at = "idle"
        BY <4>1, <4>2 DEF Wrote
      <4>3. CASE job[t][g].at # "idle"
        <5>1. job[t][g].user \in Users
          BY <4>3 DEF Inv, HandlerInv
        <5> QED
          BY <3>2, <4>1, <5>1, <2>2, <2>3 DEF Wrote
      <4> QED
        BY <4>2, <4>3
    <3> QED
      BY <3>1, <3>2
  <2> QED
    BY <2>4, <2>5, <2>6 DEF LoginInv
<1>9. CASE UNCHANGED vars
  BY <1>1, <1>9 DEF vars, redisVars
<1> QED
  BY <1>2, <1>3, <1>4, <1>5, <1>6, <1>7, <1>8, <1>9 DEF Next

\* Whoever was told it is online, by a login that met no other one, is where redis
\* says it is until a later login writes or the connection is gone, for any number
\* of users and servers, whichever commands fail and whichever servers end.
THEOREM OnlineReachableHolds == Spec => []OnlineReachable
<1>1. Inv /\ LoginInv /\ [Next]_vars => (Inv /\ LoginInv)'
  BY InvStep, LoginStep
<1>2. Inv /\ LoginInv => OnlineReachable
  BY DEF LoginInv
<1> QED
  BY InitInv, InitLogin, <1>1, <1>2, PTL DEF Spec

-----------------------------------------------------------------------------
(* What is written to a client is for a user of its.                       *)

\* Whoever's handler runs on a connection has logged in on it.
UserInv ==
    \A s \in Servers, f \in Fds : job[s][f].at # "idle" => job[s][f].user \in conn[s][f].users

\* Open connections have ids that were given out, until one is given twice one each.
IdsInv ==
    \A s \in Servers, f \in Fds :
        Open(s, f) =>
            /\ conn[s][f].id \in given[s]
            /\ \A g \in Fds : conn[s][g].id = conn[s][f].id => g = f \/ s \in again

\* What was read of where u is names no connection u has not logged in on.
Known(u, i) ==
    \A s \in Servers :
        i.by = s /\ s \notin again =>
            /\ i.id \in given[s]
            /\ \A f \in Fds : conn[s][f].id = i.id => u \in conn[s][f].users

KnownInv ==
    /\ \A u \in Users : Known(u, info[u])
    /\ \A k \in kicks : Known(k.for, k.at)

RightInv == UserInv /\ IdsInv /\ KnownInv /\ RightUser

LEMMA InitRight == Init => RightInv
<1> SUFFICES ASSUME Init PROVE RightInv
  OBVIOUS
<1>1. UserInv /\ IdsInv
  BY NilFacts DEF Init, UserInv, IdsInv, Open
<1>2. KnownInv
  BY NilFacts DEF Init, KnownInv, Known, NoInfo
<1>3. RightUser
  BY NilFacts DEF Init, RightUser
<1> QED
  BY <1>1, <1>2, <1>3 DEF RightInv

\* A server keeps what it knows: the ids it has given out stay, no connection
\* changes to one of those, and who has logged in has.
Keeps(s) ==
    s \notin again' =>
        /\ s \notin again
        /\ given[s] \subseteq given'[s]
        /\ \A f \in Fds :
              conn'[s][f].id \in given[s] =>
                  conn'[s][f].id = conn[s][f].id /\ conn[s][f].users \subseteq conn'[s][f].users

LEMMA KeepsKnown ==
    ASSUME \A s \in Servers : Keeps(s)
    PROVE  \A u \in Users, i \in Infos : Known(u, i) => Known(u, i)'
<1> SUFFICES ASSUME NEW u \in Users, NEW i \in Infos, Known(u, i),
                    NEW s \in Servers, i.by = s, s \notin again'
             PROVE  /\ i.id \in given'[s]
                    /\ \A f \in Fds : conn'[s][f].id = i.id => u \in conn'[s][f].users
  BY DEF Known
<1> QED
  BY DEF Keeps, Known

\* What is known stays known if no more is.
LEMMA KnownStays ==
    ASSUME Inv, KnownInv, \A s \in Servers : Keeps(s), UNCHANGED info, kicks' \subseteq kicks
    PROVE  KnownInv'
<1>1. \A u \in Users : info[u] \in Infos
  BY DEF Inv, TypeOK
<1>2. \A k \in kicks : k.for \in Users /\ k.at \in Infos
  BY DEF Inv, TypeOK, Kicks
<1>3. \A u \in Users : Known(u, info[u])'
  <2> SUFFICES ASSUME NEW u \in Users, NEW i \in Infos, i = info[u] PROVE Known(u, i)'
    BY <1>1 DEF Known
  <2> QED
    BY KeepsKnown DEF KnownInv
<1>4. \A k \in kicks' : Known(k.for, k.at)'
  <2> SUFFICES ASSUME NEW k \in kicks PROVE Known(k.for, k.at)'
    BY DEF Known
  <2> QED
    BY <1>2, KeepsKnown DEF KnownInv
<1> QED
  BY <1>3, <1>4 DEF KnownInv

\* What is about to be written stays right, as long as users stay.
LEMMA RightStays ==
    ASSUME Inv, RightUser, NEW s \in Servers, post'[s] = post[s], s \notin again' => s \notin again,
           \A f \in Fds : Open(s, f) => conn[s][f].users \subseteq conn'[s][f].users
    PROVE  post'[s].at = "verified" /\ post'[s].by = s /\ s \notin again' =>
               post'[s].for \in conn'[s][post'[s].fd].users
BY DEF RightUser, Inv, PostInv

\* Connections, ids and handlers' users stay.
LEMMA SameConns ==
    ASSUME RightInv, UNCHANGED <<conn, given, again>>,
           \A s \in Servers, f \in Fds :
               job'[s][f].at = "idle" \/ (job[s][f].at # "idle" /\ job'[s][f].user = job[s][f].user)
    PROVE  UserInv' /\ IdsInv' /\ \A s \in Servers : Keeps(s)
<1>1. UserInv'
  BY DEF RightInv, UserInv
<1>2. IdsInv'
  BY DEF RightInv, IdsInv, Open
<1>3. \A s \in Servers : Keeps(s)
  BY DEF Keeps
<1> QED
  BY <1>1, <1>2, <1>3

\* A handler goes on or ends, or a message leaves, and no id is written or read.
LEMMA RightMoves ==
    ASSUME Inv, RightInv, UNCHANGED <<conn, given, again, info, post>>, kicks' \subseteq kicks,
           \A s \in Servers, f \in Fds :
               job'[s][f].at = "idle" \/ (job[s][f].at # "idle" /\ job'[s][f].user = job[s][f].user)
    PROVE  RightInv'
<1>1. KnownInv'
  BY SameConns, KnownStays DEF RightInv
<1>2. RightUser'
  BY RightStays DEF RightInv, RightUser
<1> QED
  BY <1>1, <1>2, SameConns DEF RightInv

\* Something else is about to be written, and it is right.
LEMMA RightPosts ==
    ASSUME Inv, RightInv, UNCHANGED <<conn, given, again, info, job>>, kicks' \subseteq kicks,
           NEW s \in Servers, \A t \in Servers : t # s => post'[t] = post[t],
           post'[s].at = "verified" /\ post'[s].by = s /\ s \notin again =>
               post'[s].for \in conn[s][post'[s].fd].users
    PROVE  RightInv'
<1>1. \A t \in Servers, f \in Fds :
          job'[t][f].at = "idle" \/ (job[t][f].at # "idle" /\ job'[t][f].user = job[t][f].user)
  OBVIOUS
<1>2. KnownInv'
  BY <1>1, SameConns, KnownStays DEF RightInv
<1>3. RightUser'
  BY DEF RightInv, RightUser
<1> QED
  BY <1>1, <1>2, <1>3, SameConns DEF RightInv

\* A new connection's id is new, or its server has given an id out twice.
LEMMA AcceptRight ==
    ASSUME Inv, RightInv, NEW s \in Servers, NEW f \in Fds, Accept(s, f)
    PROVE  RightInv'
<1> DEFINE n == NextId(s)
           c == [id |-> n, users |-> {}]
<1>1. /\ conn'[s][f] = c
      /\ \A t \in Servers, g \in Fds : t # s \/ g # f => conn'[t][g] = conn[t][g]
  BY Types DEF Inv, Accept
<1>2. /\ given'[s] = given[s] \cup {n}
      /\ \A t \in Servers : t # s => given'[t] = given[t]
  BY DEF Inv, TypeOK, Accept
<1>3. /\ s \notin again' => s \notin again /\ n \notin given[s]
      /\ \A t \in Servers : t # s => (t \in again' <=> t \in again)
      /\ \A t \in Servers : t \notin again' => t \notin again
  BY DEF Accept
<1>4. conn[s][f].id = Nil /\ n \in Ids /\ n # Nil
  BY NextIdType, NilFacts DEF Inv, Accept, Open
<1>5. c.id = n /\ c.users = {}
  OBVIOUS
<1>6. UNCHANGED <<info, job, kicks, post>>
  BY DEF Accept, redisVars, handlerVars, relayVars
<1> HIDE DEF n, c
<1>7. \A t \in Servers : Keeps(t)
  BY <1>1, <1>2, <1>3, <1>5 DEF Keeps
<1>8. UserInv'
  BY <1>1, <1>4, <1>6 DEF RightInv, UserInv, Inv, HandlerInv, Open
<1>9. IdsInv'
  <2> SUFFICES ASSUME NEW t \in Servers, NEW g \in Fds, conn'[t][g].id # Nil
               PROVE  /\ conn'[t][g].id \in given'[t]
                      /\ \A h \in Fds : conn'[t][h].id = conn'[t][g].id => h = g \/ t \in again'
    BY DEF IdsInv, Open
  <2>1. CASE t # s
    BY <2>1, <1>1, <1>2, <1>3 DEF RightInv, IdsInv, Open
  <2>2. CASE t = s /\ g = f
    BY <2>2, <1>1, <1>2, <1>3, <1>4, <1>5 DEF RightInv, IdsInv, Open
  <2>3. CASE t = s /\ g # f
    <3>1. conn'[s][g] = conn[s][g] /\ conn[s][g].id \in given[s]
      BY <2>3, <1>1 DEF RightInv, IdsInv, Open
    <3> QED
      BY <2>3, <3>1, <1>1, <1>2, <1>3, <1>5 DEF RightInv, IdsInv, Open
  <2> QED
    BY <2>1, <2>2, <2>3
<1>10. KnownInv'
  BY <1>6, <1>7, KnownStays DEF RightInv
<1>11. RightUser'
  <2>1. \A t \in Servers, g \in Fds : Open(t, g) => conn[t][g].users \subseteq conn'[t][g].users
    BY <1>1, <1>4 DEF Open
  <2> QED
    BY <2>1, <1>3, <1>6, RightStays DEF RightInv, RightUser
<1> QED
  BY <1>8, <1>9, <1>10, <1>11 DEF RightInv

LEMMA CloseRight ==
    ASSUME Inv, RightInv, NEW s \in Servers, NEW f \in Fds, Close(s, f)
    PROVE  RightInv'
<1>1. /\ conn'[s][f] = NoConn
      /\ \A t \in Servers, g \in Fds : t # s \/ g # f => conn'[t][g] = conn[t][g]
  BY Types DEF Inv, Close
<1>2. UNCHANGED <<info, given, again, job, kicks>> /\ job[s][f].at = "idle"
  BY DEF Close, redisVars
<1>3. given \in [Servers -> SUBSET Ids]
  BY DEF Inv, TypeOK
<1>4. \A t \in Servers : Keeps(t)
  BY <1>1, <1>2, <1>3, NilFacts DEF Keeps
<1>5. UserInv' /\ IdsInv'
  BY <1>1, <1>2, NilFacts DEF RightInv, UserInv, IdsInv, Open
<1>6. KnownInv'
  BY <1>2, <1>4, KnownStays DEF RightInv
<1>7. RightUser'
  <2> SUFFICES ASSUME NEW t \in Servers, post'[t].at = "verified", post'[t].by = t, t \notin again
               PROVE  post'[t].for \in conn'[t][post'[t].fd].users
    BY <1>2 DEF RightUser
  <2>1. CASE t # s
    <3>1. post'[t] = post[t]
      BY <2>1 DEF Inv, TypeOK, Close
    <3> QED
      BY <2>1, <3>1, <1>1 DEF RightInv, RightUser, Inv, PostInv
  <2>2. CASE t = s
    <3> DEFINE r == [post[s] EXCEPT !.at = IF @ = "verified" /\ post[s].fd = f
                                           THEN "closed" ELSE @]
    <3>1. post[s] \in Posts /\ post'[s] = r
      BY Types DEF Inv, Close
    <3>2. /\ r.for = post[s].for /\ r.fd = post[s].fd /\ r.by = post[s].by
          /\ r.at = "verified" => post[s].at = "verified" /\ post[s].fd # f
      BY <3>1 DEF Posts
    <3>3. post[s].at = "verified" /\ post[s].fd # f /\ post[s].fd \in Fds
      BY <2>2, <3>1, <3>2 DEF Inv, PostInv
    <3> HIDE DEF r
    <3> QED
      BY <2>2, <3>1, <3>2, <3>3, <1>1 DEF RightInv, RightUser
  <2> QED
    BY <2>1, <2>2
<1> QED
  BY <1>5, <1>6, <1>7 DEF RightInv

\* What a server that has ended wrote is no longer its.
LEMMA RestartRight ==
    ASSUME Inv, RightInv, NEW s \in Servers, Restart(s)
    PROVE  RightInv'
<1>1. /\ \A t \in Servers : t # s => /\ job'[t] = job[t] /\ conn'[t] = conn[t]
                                     /\ post'[t] = post[t] /\ given'[t] = given[t]
                                     /\ (t \in again' <=> t \in again)
      /\ \A g \in Fds : job'[s][g] = NoJob /\ conn'[s][g] = NoConn
      /\ post'[s] = NoPost
  BY Types DEF Inv, TypeOK, Restart
<1>2. UserInv' /\ IdsInv'
  BY <1>1, NilFacts DEF RightInv, UserInv, IdsInv, Open
<1>3. RightUser'
  BY <1>1, NilFacts DEF RightInv, RightUser
<1>4. ASSUME NEW u \in Users, NEW i \in Infos, Known(u, i), NEW e \in Infos, e = Ended(i, s)
      PROVE  Known(u, e)'
  <2>1. e.id = i.id /\ e.by = IF i.by = s THEN Nil ELSE i.by
    BY <1>4 DEF Ended, Infos
  <2> SUFFICES ASSUME NEW t \in Servers, e.by = t, t \notin again'
               PROVE  /\ e.id \in given'[t]
                      /\ \A f \in Fds : conn'[t][f].id = e.id => u \in conn'[t][f].users
    BY DEF Known
  <2>2. t # s /\ i.by = t
    BY <2>1, NilFacts
  <2> QED
    BY <2>1, <2>2, <1>1, <1>4 DEF Known
<1>5. \A i \in Infos : Ended(i, s) \in Infos
  BY DEF Infos, Ended
<1>6. \A u \in Users : Known(u, info[u])'
  <2> SUFFICES ASSUME NEW u \in Users, NEW e \in Infos, e = info'[u] PROVE Known(u, e)'
    BY RestartInv DEF Known, Inv, TypeOK
  <2>1. e = Ended(info[u], s) /\ info[u] \in Infos /\ Known(u, info[u])
    BY DEF Inv, TypeOK, Restart, RightInv, KnownInv
  <2> QED
    BY <2>1, <1>4
<1>7. \A k \in kicks' : Known(k.for, k.at)'
  <2> SUFFICES ASSUME NEW k \in kicks, NEW l, l = [k EXCEPT !.at = Ended(@, s)]
               PROVE  Known(l.for, l.at)'
    BY DEF Restart
  <2>1. k.for \in Users /\ k.at \in Infos /\ Known(k.for, k.at)
    BY DEF Inv, TypeOK, Kicks, RightInv, KnownInv
  <2>2. l.for = k.for /\ l.at = Ended(k.at, s)
    BY DEF Inv, TypeOK, Kicks
  <2> QED
    BY <2>1, <2>2, <1>4, <1>5
<1> QED
  BY <1>2, <1>3, <1>6, <1>7 DEF RightInv, KnownInv

LEMMA OnlineGetRight ==
    ASSUME Inv, RightInv, NEW s \in Servers, NEW f \in Fds, NEW u \in Users, OnlineGet(s, f, u)
    PROVE  RightInv'
<1>1. /\ conn'[s][f].id = conn[s][f].id /\ conn'[s][f].users = conn[s][f].users \cup {u}
      /\ \A t \in Servers, g \in Fds : t # s \/ g # f => conn'[t][g] = conn[t][g]
  <2> DEFINE c == [conn[s][f] EXCEPT !.users = @ \cup {u}]
  <2>1. c.id = conn[s][f].id /\ c.users = conn[s][f].users \cup {u}
    BY Types DEF Inv, Conns, NoConn
  <2>2. conn' = [conn EXCEPT ![s] = [@ EXCEPT ![f] = c]]
    BY Types DEF Inv, OnlineGet
  <2> HIDE DEF c
  <2> QED
    BY <2>1, <2>2, Types DEF Inv
<1>2. /\ job'[s][f].user = u
      /\ \A t \in Servers, g \in Fds : t # s \/ g # f => job'[t][g] = job[t][g]
  <2>1. PICK stage \in {"hgetNo", "set"} :
            job' = [job EXCEPT ![s][f] = [NoJob EXCEPT !.at = stage, !.user = u]]
    BY DEF OnlineGet
  <2> DEFINE r == [NoJob EXCEPT !.at = stage, !.user = u]
  <2>2. r.user = u
    BY DEF NoJob
  <2>3. job' = [job EXCEPT ![s] = [@ EXCEPT ![f] = r]]
    BY <2>1
  <2> HIDE DEF r
  <2> QED
    BY <2>2, <2>3, Types DEF Inv
<1>3. UNCHANGED <<info, given, again, kicks, post>>
  BY DEF OnlineGet, relayVars
<1>4. \A t \in Servers, g \in Fds :
          conn'[t][g].id = conn[t][g].id /\ conn[t][g].users \subseteq conn'[t][g].users
  BY <1>1
<1>5. \A t \in Servers : Keeps(t)
  BY <1>3, <1>4 DEF Keeps
<1>6. UserInv'
  BY <1>1, <1>2 DEF RightInv, UserInv
<1>7. IdsInv'
  BY <1>3, <1>4 DEF RightInv, IdsInv, Open
<1>8. KnownInv'
  BY <1>3, <1>5, KnownStays DEF RightInv
<1>9. RightUser'
  BY <1>3, <1>4, RightStays DEF RightInv, RightUser
<1> QED
  BY <1>6, <1>7, <1>8, <1>9 DEF RightInv

\* The message that asks to leave has the id that was read.
LEMMA OnlineHgetRight ==
    ASSUME Inv, RightInv, NEW s \in Servers, NEW f \in Fds, OnlineHget(s, f)
    PROVE  RightInv'
<1> DEFINE j == job[s][f]
           i == info[j.user]
           k == [for |-> j.user, at |-> [no |-> j.no, fd |-> j.fd, id |-> i.id, by |-> i.by]]
<1>1. j \in Jobs /\ j.user \in Users /\ j.at # "idle"
  BY Types DEF Inv, HandlerInv, OnlineHget
<1>2. /\ job'[s][f].user = j.user
      /\ \A t \in Servers, g \in Fds : t # s \/ g # f => job'[t][g] = job[t][g]
  <2>1. PICK r : job' = [job EXCEPT ![s] = [@ EXCEPT ![f] = r]] /\ r.user = j.user
    <3>1. CASE job' = [job EXCEPT ![s][f] = [j EXCEPT !.at = "hgetFd", !.no = i.no]]
      <4>1. [j EXCEPT !.at = "hgetFd", !.no = i.no].user = j.user
        BY <1>1 DEF Jobs
      <4> QED
        BY <3>1, <4>1
    <3>2. CASE job' = [job EXCEPT ![s][f] = [j EXCEPT !.at = "hgetId", !.fd = i.fd]]
      <4>1. [j EXCEPT !.at = "hgetId", !.fd = i.fd].user = j.user
        BY <1>1 DEF Jobs
      <4> QED
        BY <3>2, <4>1
    <3>3. CASE job' = [job EXCEPT ![s][f] = [NoJob EXCEPT !.at = "set", !.user = j.user]]
      <4>1. [NoJob EXCEPT !.at = "set", !.user = j.user].user = j.user
        BY DEF NoJob
      <4> QED
        BY <3>3, <4>1
    <3> QED
      BY <3>1, <3>2, <3>3 DEF OnlineHget
  <2> QED
    BY <2>1, Types DEF Inv
<1>3. UNCHANGED <<info, conn, given, again, post>>
  BY DEF OnlineHget, redisVars, connVars
<1>4. \A t \in Servers, g \in Fds :
          job'[t][g].at = "idle" \/ (job[t][g].at # "idle" /\ job'[t][g].user = job[t][g].user)
  BY <1>1, <1>2
<1>5. UserInv' /\ IdsInv' /\ \A t \in Servers : Keeps(t)
  BY <1>3, <1>4, SameConns
<1>6. Known(k.for, k.at)
  <2>1. k.for = j.user /\ k.at.id = i.id /\ k.at.by = i.by
    OBVIOUS
  <2>2. Known(j.user, i)
    BY <1>1 DEF RightInv, KnownInv
  <2> HIDE DEF k, i, j
  <2> QED
    BY <2>1, <2>2 DEF Known
<1>7. kicks' = kicks \/ kicks' = kicks \cup {k}
  BY DEF OnlineHget
<1> HIDE DEF k
<1>8. KnownInv'
  BY <1>3, <1>6, <1>7 DEF RightInv, KnownInv, Known
<1>9. RightUser'
  BY <1>3, RightStays DEF RightInv, RightUser
<1> QED
  BY <1>5, <1>8, <1>9 DEF RightInv

\* The id that is written is of a connection its user has logged in on.
LEMMA OnlineHsetRight ==
    ASSUME Inv, RightInv, NEW s \in Servers, NEW f \in Fds, OnlineHset(s, f)
    PROVE  RightInv'
<1> DEFINE u == job[s][f].user
<1>1. Open(s, f) /\ u \in Users /\ u \in conn[s][f].users
  BY DEF Inv, HandlerInv, OnlineHset, RightInv, UserInv
<1>2. PICK stage \in Stages : Goto(s, f, stage)
  BY DEF OnlineHset, Stages
<1>3. UNCHANGED <<conn, given, again, kicks, post>>
  BY DEF OnlineHset, connVars, relayVars
<1>4. \A t \in Servers, g \in Fds :
          job'[t][g].at = "idle" \/ (job[t][g].at # "idle" /\ job'[t][g].user = job[t][g].user)
  BY <1>2, GotoType DEF Inv, OnlineHset
<1>5. UserInv' /\ IdsInv'
  BY <1>3, <1>4, SameConns
<1>6. info[u] \in Infos
  BY <1>1 DEF Inv, TypeOK
<1>7. \A v \in Users : v # u => info'[v] = info[v]
  BY DEF Inv, TypeOK, OnlineHset
<1>8. \/ info'[u].id = info[u].id /\ info'[u].by = info[u].by
      \/ info'[u].id = conn[s][f].id /\ info'[u].by = s
  BY <1>1, <1>6 DEF Inv, TypeOK, Infos, OnlineHset
<1>9. \A v \in Users : Known(v, info[v])'
  <2> SUFFICES ASSUME NEW v \in Users, NEW t \in Servers, info'[v].by = t, t \notin again
               PROVE  /\ info'[v].id \in given[t]
                      /\ \A g \in Fds : conn[t][g].id = info'[v].id => v \in conn[t][g].users
    BY <1>3 DEF Known
  <2>1. CASE info'[v].id = info[v].id /\ info'[v].by = info[v].by
    BY <2>1 DEF RightInv, KnownInv, Known
  <2>2. CASE v = u /\ info'[u].id = conn[s][f].id /\ info'[u].by = s
    <3>1. conn[s][f].id \in given[s]
      BY <1>1 DEF RightInv, IdsInv
    <3>2. \A g \in Fds : conn[s][g].id = conn[s][f].id => g = f
      BY <2>2, <1>1 DEF RightInv, IdsInv
    <3> QED
      BY <2>2, <3>1, <3>2, <1>1
  <2> QED
    BY <2>1, <2>2, <1>7, <1>8
<1>10. KnownInv'
  BY <1>3, <1>9 DEF RightInv, KnownInv, Known
<1>11. RightUser'
  BY <1>3, RightStays DEF RightInv, RightUser
<1> QED
  BY <1>5, <1>10, <1>11 DEF RightInv

LEMMA KickChecksRight ==
    ASSUME Inv, RightInv, NEW k \in kicks, KickChecks(k)
    PROVE  RightInv'
<1> DEFINE s == k.at.no
           r == [at |-> "verified", for |-> k.for, fd |-> k.at.fd, by |-> k.at.by]
<1>1. UNCHANGED <<conn, given, again, info, job>> /\ kicks' \subseteq kicks
  BY DEF KickChecks, redisVars, connVars, handlerVars
<1>2. CASE UNCHANGED post
  <2>1. \A t \in Servers, g \in Fds :
            job'[t][g].at = "idle" \/ (job[t][g].at # "idle" /\ job'[t][g].user = job[t][g].user)
    BY <1>1
  <2> QED
    BY <1>1, <1>2, <2>1, RightMoves
<1>3. CASE s \in Servers /\ FindValueByKey(s, k.at.fd, k.at.id) /\ post' = [post EXCEPT ![s] = r]
  <2>1. post'[s] = r /\ \A t \in Servers : t # s => post'[t] = post[t]
    BY <1>3, Types DEF Inv
  <2>2. r.for = k.for /\ r.fd = k.at.fd /\ r.by = k.at.by
    OBVIOUS
  <2>3. ASSUME r.by = s, s \notin again PROVE r.for \in conn[s][r.fd].users
    <3>1. k.at.id \in given[s] /\ \A g \in Fds : conn[s][g].id = k.at.id => k.for \in conn[s][g].users
      BY <1>3, <2>2, <2>3 DEF RightInv, KnownInv, Known
    <3>2. k.at.id # Nil
      BY <1>3, <3>1, NilFacts DEF Inv, TypeOK
    <3>3. k.at.fd \in Fds /\ conn[s][k.at.fd].id = k.at.id
      BY <1>3, <3>2 DEF FindValueByKey
    <3> QED
      BY <2>2, <3>1, <3>3
  <2> HIDE DEF r, s
  <2> QED
    BY <1>1, <1>3, <2>1, <2>3, RightPosts
<1> QED
  BY <1>2, <1>3 DEF KickChecks

LEMMA VerifyIdRight ==
    ASSUME Inv, RightInv, NEW s \in Servers, VerifyId(s)
    PROVE  RightInv'
<1> DEFINE p == post[s]
           i == info[p.for]
           q == [p EXCEPT !.at = "verified", !.by = i.by]
<1>1. UNCHANGED <<conn, given, again, info, job, kicks>>
  BY DEF VerifyId, redisVars, connVars, handlerVars
<1>2. p \in Posts /\ p.for \in Users
  BY Types DEF Inv, PostInv, VerifyId
<1>3. q.for = p.for /\ q.fd = p.fd /\ q.by = i.by
  BY <1>2 DEF Posts
<1>4. \A t \in Servers : t # s => post'[t] = post[t]
  BY Types DEF Inv, VerifyId
<1>5. CASE FindValueByKey(s, p.fd, i.id)
  <2>1. post'[s] = q
    BY <1>5, Types DEF Inv, VerifyId
  <2>2. ASSUME i.by = s, s \notin again PROVE p.for \in conn[s][p.fd].users
    <3>1. i.id \in given[s] /\ \A g \in Fds : conn[s][g].id = i.id => p.for \in conn[s][g].users
      BY <1>2, <2>2 DEF RightInv, KnownInv, Known
    <3>2. i.id # Nil
      BY <3>1, NilFacts DEF Inv, TypeOK
    <3>3. p.fd \in Fds /\ conn[s][p.fd].id = i.id
      BY <1>5, <3>2 DEF FindValueByKey
    <3> QED
      BY <3>1, <3>3
  <2> HIDE DEF q, p, i
  <2> QED
    BY <1>1, <1>3, <1>4, <2>1, <2>2, RightPosts
<1>6. CASE ~FindValueByKey(s, p.fd, i.id)
  <2>1. post'[s] = NoPost
    BY <1>6, Types DEF Inv, VerifyId
  <2> QED
    BY <1>1, <1>4, <2>1, NilFacts, RightPosts
<1> QED
  BY <1>5, <1>6

LEMMA RightStep == Inv /\ RightInv /\ [Next]_vars => RightInv'
<1> SUFFICES ASSUME Inv, RightInv, [Next]_vars PROVE RightInv'
  OBVIOUS
<1>1. ASSUME UNCHANGED <<conn, given, again, info, post, job, kicks>> PROVE RightInv'
  <2>1. \A t \in Servers, g \in Fds :
            job'[t][g].at = "idle" \/ (job[t][g].at # "idle" /\ job'[t][g].user = job[t][g].user)
    BY <1>1
  <2> QED
    BY <1>1, <2>1, RightMoves
<1>2. ASSUME NEW s \in Servers, NEW f \in Fds, ClientStep(s, f) PROVE RightInv'
  <2>1. CASE Accept(s, f) \/ Close(s, f)
    BY <2>1, AcceptRight, CloseRight
  <2>2. CASE OnlineHget(s, f) \/ OnlineHset(s, f)
    BY <2>2, OnlineHgetRight, OnlineHsetRight
  <2>3. CASE OnlineHgetFails(s, f) \/ OnlineWriteFails(s, f) \/ OnlineExpire(s, f)
    <3>1. Ends(s, f) /\ UNCHANGED <<conn, given, again, info, post, kicks>>
      BY <2>3 DEF OnlineHgetFails, OnlineWriteFails, OnlineExpire, connVars, redisVars, relayVars
    <3>2. \A t \in Servers, g \in Fds :
              job'[t][g].at = "idle" \/ (job[t][g].at # "idle" /\ job'[t][g].user = job[t][g].user)
      BY <3>1, EndsType, NilFacts DEF Inv
    <3> QED
      BY <3>1, <3>2, RightMoves
  <2>4. CASE OnlineSet(s, f)
    <3>1. Goto(s, f, "setNo") /\ "setNo" \in Stages /\ job[s][f].at # "idle"
      BY <2>4 DEF OnlineSet, Stages
    <3>2. \A t \in Servers, g \in Fds :
              job'[t][g].at = "idle" \/ (job[t][g].at # "idle" /\ job'[t][g].user = job[t][g].user)
      BY <3>1, GotoType DEF Inv
    <3> QED
      BY <2>4, <3>2, RightMoves DEF OnlineSet, connVars, relayVars
  <2>5. ASSUME NEW u \in Users, OnlineGet(s, f, u) PROVE RightInv'
    BY <2>5, OnlineGetRight
  <2>6. ASSUME NEW u \in Users, GetLiveStatus(s, f, u) \/ SetOnlineStatus(s, f, u) PROVE RightInv'
    BY <2>6, <1>1 DEF GetLiveStatus, SetOnlineStatus, connVars, handlerVars, relayVars
  <2> QED
    BY <1>2, <2>1, <2>2, <2>3, <2>4, <2>5, <2>6 DEF ClientStep
<1>3. ASSUME NEW u \in Users, FlagExpires(u) \/ RelayGet(u) PROVE RightInv'
  BY <1>1, <1>3 DEF FlagExpires, RelayGet, redisVars, connVars, handlerVars, relayVars
<1>4. CASE RelayRoutes
  BY <1>1, <1>4 DEF RelayRoutes, redisVars, connVars, handlerVars
<1>5. ASSUME NEW k \in kicks, KickChecks(k) PROVE RightInv'
  BY <1>5, KickChecksRight
<1>6. ASSUME NEW m \in mails, VerifyFd(m) PROVE RightInv'
  <2>1. UNCHANGED <<conn, given, again, info, job, kicks>>
    BY <1>6 DEF VerifyFd, redisVars, connVars, handlerVars
  <2>2. CASE UNCHANGED post
    BY <1>1, <2>1, <2>2
  <2>3. CASE m.no \in Servers /\ post' = [post EXCEPT ![m.no] = [at |-> "fd", for |-> m.for,
                                                       fd |-> info[m.for].fd, by |-> Nil]]
    <3>1. /\ post'[m.no].at = "fd"
          /\ \A t \in Servers : t # m.no => post'[t] = post[t]
      BY <2>3, Types DEF Inv
    <3> QED
      BY <2>1, <2>3, <3>1, RightPosts
  <2> QED
    BY <1>6, <2>2, <2>3 DEF VerifyFd
<1>7. ASSUME NEW s \in Servers, VerifyId(s) PROVE RightInv'
  BY <1>7, VerifyIdRight
<1>8. ASSUME NEW s \in Servers, PostWrites(s) PROVE RightInv'
  <2>1. UNCHANGED <<conn, given, again, info, job, kicks>>
    BY <1>8 DEF PostWrites, redisVars, connVars, handlerVars
  <2>2. post'[s] = NoPost /\ \A t \in Servers : t # s => post'[t] = post[t]
    BY <1>8, Types DEF Inv, PostWrites
  <2> QED
    BY <2>1, <2>2, NilFacts, RightPosts
<1>9. ASSUME NEW s \in Servers, Restart(s) PROVE RightInv'
  BY <1>9, RestartRight
<1>10. CASE UNCHANGED vars
  BY <1>1, <1>10 DEF vars, redisVars, connVars, handlerVars, relayVars
<1> QED
  BY <1>2, <1>3, <1>4, <1>5, <1>6, <1>7, <1>8, <1>9, <1>10 DEF Next

\* What a server is about to write is for a user who has logged in on that
\* connection, as long as it is open, whatever redis keeps of other servers and
\* earlier runs, for any number of users, servers and descriptors: of what the
\* server has itself written, and until it gives an id out twice.
THEOREM RightUserHolds == Spec => []RightUser
<1>1. Inv /\ RightInv /\ [Next]_vars => (Inv /\ RightInv)'
  BY InvStep, RightStep
<1>2. Inv /\ RightInv => RightUser
  BY DEF RightInv
<1> QED
  BY InitInv, InitRight, <1>1, <1>2, PTL DEF Spec
=============================================================================
