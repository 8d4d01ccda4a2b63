----------------------------- MODULE RelayLink ------------------------------
(***************************************************************************)
(* The link of an imServer or imDevServer to imRelay, a thread that        *)
(* connects, reads until the link breaks, and connects again every five    *)
(* seconds (CLocalTransport, the same file in both servers).  Its socket   *)
(* and those of the clients share the process's descriptors.               *)
(***************************************************************************)
EXTENDS Integers, FiniteSets

CONSTANTS
    Fds,   \* bound: the descriptors of the process
    Nil    \* no descriptor, no id, no key

ASSUME RelayLinkAssumption == Nil \notin Fds

VARIABLES
    owner,   \* the kernel's table: what each descriptor is
    link,    \* where SetupThread is, and its descriptor
    spoiled  \* history: a second close has hit a descriptor of somebody else

linkVars == <<owner, link, spoiled>>

Owners == {"free", "client", "link"}
Down == [at |-> "down", fd |-> Nil]

LinkTypeOK ==
    /\ owner \in [Fds -> Owners]
    /\ link \in [at : {"connecting", "closed", "up"}, fd : Fds] \cup {Down}
    /\ spoiled \in BOOLEAN

LinkInit ==
    /\ owner = [f \in Fds |-> "free"]
    /\ link = Down
    /\ spoiled = FALSE

Give(f, who) == owner' = [owner EXCEPT ![f] = who]
CloseFd(f) == Give(f, "free")

\* InitSocketFd: socket, bind.  An earlier socket that was not closed keeps
\* the port's connection, and the connect below is refused.
LinkOpen(f) ==
    /\ link = Down
    /\ owner[f] = "free"
    /\ Give(f, "link")
    /\ link' = [at |-> "connecting", fd |-> f]
    /\ UNCHANGED spoiled

\* Mutant: SetupThread returns instead of trying again.
LinkRefused_GivesUp ==
    /\ link.at = "connecting"
    /\ CloseFd(link.fd)
    /\ link' = [link EXCEPT !.at = "ended"]
    /\ UNCHANGED spoiled

\* connect fails at once: connect_nonb returns and InitSocketFd closes.
LinkRefused ==
    /\ link.at = "connecting"
    /\ CloseFd(link.fd)
    /\ link' = Down
    /\ UNCHANGED spoiled

\* connect fails later, by select or SO_ERROR: connect_nonb closes ...
LinkFailsLate ==
    /\ link.at = "connecting"
    /\ CloseFd(link.fd)
    /\ link' = [link EXCEPT !.at = "closed"]
    /\ UNCHANGED spoiled

\* ... and InitSocketFd closes the same number once more.
LinkClosesAgain ==
    /\ link.at = "closed"
    /\ CloseFd(link.fd)
    /\ spoiled' = (spoiled \/ owner[link.fd] # "free")
    /\ link' = Down

Leaked == \E f \in Fds : owner[f] = "link" /\ f # link.fd

\* connect succeeds, AddNewConnToEvent, and the event loop of the link.
LinkUp ==
    /\ link.at = "connecting"
    /\ ~Leaked
    /\ link' = [link EXCEPT !.at = "up"]
    /\ UNCHANGED <<owner, spoiled>>

\* AddNewConnToEvent fails: SetupThread continues without closing.
LinkUpFails ==
    /\ link.at = "connecting"
    /\ ~Leaked
    /\ link' = Down
    /\ UNCHANGED <<owner, spoiled>>

\* Mutant: ErrorCb closes, and bufferevent_free closes again.
LinkBreaks_Twice ==
    /\ link.at = "up"
    /\ CloseFd(link.fd)
    /\ UNCHANGED <<link, spoiled>>

\* ErrorCb: bufferevent_free closes; the loop has no events left, ends, and
\* SetupThread starts over.
LinkBreaks ==
    /\ link.at = "up"
    /\ CloseFd(link.fd)
    /\ link' = Down
    /\ UNCHANGED spoiled

LinkStep ==
    \/ \E f \in Fds : LinkOpen(f)
    \/ LinkRefused \/ LinkFailsLate \/ LinkClosesAgain
    \/ LinkUp \/ LinkUpFails \/ LinkBreaks
=============================================================================
