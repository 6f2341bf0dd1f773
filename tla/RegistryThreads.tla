-------------------------- MODULE RegistryThreads --------------------------
(***************************************************************************)
(* client_registry.cpp inside the daemon, thread by thread: the main       *)
(* thread that starts and stops it, the epoll thread, and the polling      *)
(* thread that broadcasts, with clients_mutex_ and the process's           *)
(* descriptor table between them.  A peer is a connected client process:   *)
(* its listener reads a command and then may have to write a report before *)
(* it reads again; it may hang up at any point.  Of a message it only      *)
(* matters whether it has begun and whether it is there (Wire looks        *)
(* inside); a socket holds MaxQueued each way.                             *)
(***************************************************************************)
EXTENDS Integers, FiniteSets

CONSTANTS
  Peers,
  Flaky,       \* the peers that may hang up
  Torn,        \* the peers whose writes the kernel may cut in two
  MaxFd,       \* descriptors there are names for
  Limits,      \* the descriptor limits (RLIMIT_NOFILE) considered
  MaxQueued    \* bound: messages a socket buffer holds

ASSUME RegistryAssumption ==
  /\ Flaky \subseteq Peers /\ Torn \subseteq Peers
  /\ MaxFd \in Nat /\ MaxQueued \in Nat \ {0}
  /\ Limits \subseteq 1 .. MaxFd
  /\ Peers \cap {"free", "listen", "epoll"} = {}

Fds == 0 .. MaxFd - 1
NoFd == -1

VARIABLES
  limit,                 \* the descriptor limit of this behaviour
  table,                 \* what each descriptor is open on
  alive,                 \* SIGPIPE has not killed the daemon
  running, listen_fd, epoll_fd, clients, mutex,   \* ClientRegistry's fields
  owner,                 \* where main is
  epoll, events, cur,    \* where the epoll thread is, its batch, its fd
  poller, todo,          \* where the polling thread is, fds left to write
  ready,                 \* edges that epoll_wait has not reported
  conn,                  \* the kernel's side of each peer's connection
  peer,                  \* where each peer's listener is
  toDaemon, toPeer,      \* messages buffered each way
  half,                  \* peers of whose next message a part is buffered
  strayed                \* peers of whose stream a part of a prefix has been
                         \* dropped: what is read as a length may be anything

registryVars == <<running, listen_fd, epoll_fd, clients, mutex>>
epollVars == <<epoll, events, cur>>
pollerVars == <<poller, todo>>
streams == <<half, strayed>>
peerVars == <<conn, peer, toDaemon, toPeer, streams>>
vars == <<limit, table, alive, registryVars, owner, epollVars, pollerVars, ready, peerVars>>

Init ==
  /\ limit \in Limits
  /\ table = [f \in Fds |-> "free"]
  /\ alive = TRUE
  /\ running = FALSE /\ listen_fd = NoFd /\ epoll_fd = NoFd
  /\ clients = {} /\ mutex = "none"
  /\ owner = "new"
  /\ epoll = "none" /\ events = {} /\ cur = NoFd
  /\ poller = "none" /\ todo = {}
  /\ ready = {}
  /\ conn = [p \in Peers |-> "none"]
  /\ peer = [p \in Peers |-> "away"]
  /\ toDaemon = [p \in Peers |-> 0]
  /\ toPeer = [p \in Peers |-> 0]
  /\ half = {} /\ strayed = {}

Free == {f \in 0 .. limit - 1 : table[f] = "free"}
Lowest(S) == CHOOSE f \in S : \A g \in S : f <= g

-----------------------------------------------------------------------------
(* main and the registry's start and stop.                                 *)

(* start() throws: the socket, bind or listen, epoll_create1, epoll_ctl.   *)
(* running_ stays set, and the descriptors it names are closed.            *)
StartFails ==
  /\ owner = "new"
  /\ running' = TRUE
  /\ \/ listen_fd' = NoFd /\ epoll_fd' = NoFd
     \/ listen_fd' = 0 /\ epoll_fd' \in {NoFd, 1} \cap (NoFd .. limit - 1)
  /\ owner' = "failed"
  /\ UNCHANGED <<limit, table, alive, clients, mutex, epollVars, pollerVars, ready, peerVars>>

(* start(), which takes two descriptors; GovernorDaemon::start starts the  *)
(* poller after it.                                                        *)
Start ==
  /\ owner = "new"
  /\ limit > 1
  /\ running' = TRUE
  /\ listen_fd' = 0 /\ epoll_fd' = 1
  /\ table' = [table EXCEPT ![0] = "listen", ![1] = "epoll"]
  /\ epoll' = "wait"
  /\ poller' = "idle"
  /\ owner' = "serving"
  /\ UNCHANGED <<limit, alive, clients, mutex, events, cur, todo, ready, peerVars>>

(* SIGTERM: GovernorDaemon::stop waits for the poller first. *)
Stop ==
  /\ alive
  /\ owner = "serving"
  /\ owner' = "joinPoller"
  /\ UNCHANGED <<limit, table, alive, registryVars, epollVars, pollerVars, ready, peerVars>>

(* registry_->stop(), after the poller is gone or when start() threw. *)
StopRegistry ==
  /\ alive
  /\ owner = "failed" \/ (owner = "joinPoller" /\ poller = "done")
  /\ running' = FALSE
  /\ owner' = "joinEpoll"
  /\ UNCHANGED <<limit, table, alive, listen_fd, epoll_fd, clients, mutex, epollVars, pollerVars, ready, peerVars>>

(* ... once the epoll thread has ended: every descriptor is closed; closing *)
(* one that start() already closed does nothing.                           *)
CloseAll ==
  /\ owner = "joinEpoll"
  /\ epoll \in {"none", "done"}
  /\ mutex = "none"
  /\ table' = [f \in Fds |-> IF f \in {listen_fd, epoll_fd} \cup clients
                             THEN "free" ELSE table[f]]
  /\ listen_fd' = NoFd /\ epoll_fd' = NoFd /\ clients' = {}
  /\ owner' = "stopped"
  /\ conn' = [p \in Peers |-> "none"]
  /\ peer' = [p \in Peers |-> "away"]
  /\ toDaemon' = [p \in Peers |-> 0] /\ toPeer' = [p \in Peers |-> 0]
  /\ half' = {} /\ strayed' = {}
  /\ UNCHANGED <<limit, alive, running, mutex, epollVars, pollerVars, ready>>

-----------------------------------------------------------------------------
(* The epoll thread.                                                       *)

(* while (running_) epoll_wait(...): a batch of descriptors, each with     *)
(* EPOLLHUP if its peer has closed by now.                                 *)
EpollWait ==
  /\ alive /\ epoll = "wait"
  /\ \/ /\ ~running
        /\ epoll' = "done"
        /\ UNCHANGED <<events, ready>>
     \/ /\ running /\ ready # {}
        /\ events' = {[fd |-> f, hup |-> table[f] \in Peers /\ peer[table[f]] = "away"] :
                        f \in {g \in Fds : table[g] \in ready}}
        /\ ready' = {x \in ready : \A f \in Fds : table[f] # x}
        /\ epoll' = "events"
  /\ UNCHANGED <<limit, table, alive, registryVars, owner, cur, pollerVars, peerVars>>

(* Mutant: only the first event of a batch is handled. *)
NextEventOnly ==
  /\ alive /\ epoll = "events"
  /\ \/ /\ events = {}
        /\ epoll' = "wait"
        /\ UNCHANGED <<events, cur>>
     \/ \E e \in events :
          /\ events' = {}
          /\ cur' = e.fd
          /\ epoll' = IF e.fd = listen_fd THEN "accept"
                      ELSE IF e.hup THEN "remove" ELSE "read"
  /\ UNCHANGED <<limit, table, alive, registryVars, owner, pollerVars, ready, peerVars>>

NextEvent ==
  /\ alive /\ epoll = "events"
  /\ \/ /\ events = {}
        /\ epoll' = "wait"
        /\ UNCHANGED <<events, cur>>
     \/ \E e \in events :
          /\ events' = events \ {e}
          /\ cur' = e.fd
          /\ epoll' = IF e.fd = listen_fd THEN "accept"
                      ELSE IF e.hup THEN "remove" ELSE "read"
  /\ UNCHANGED <<limit, table, alive, registryVars, owner, pollerVars, ready, peerVars>>

(* What a connection leaves behind when the daemon closes it. *)
Closed(p) ==
  /\ conn' = [conn EXCEPT ![p] = "none"]
  /\ peer' = [peer EXCEPT ![p] = "away"]
  /\ toDaemon' = [toDaemon EXCEPT ![p] = 0]
  /\ toPeer' = [toPeer EXCEPT ![p] = 0]
  /\ half' = half \ {p} /\ strayed' = strayed \ {p}
  /\ ready' = ready \ {p}

(* handle_new_connection's accept.  It needs a free descriptor before it   *)
(* looks for a connection: without one it fails with EMFILE and is tried   *)
(* again, for ever, whether or not anyone is waiting.                      *)
AcceptNone ==
  /\ alive /\ epoll = "accept"
  /\ Free # {}
  /\ \A p \in Peers : conn[p] # "backlog"
  /\ epoll' = "events" /\ cur' = NoFd
  /\ UNCHANGED <<limit, table, alive, registryVars, owner, events, pollerVars, ready, peerVars>>

AcceptOne ==
  /\ alive /\ epoll = "accept"
  /\ Free # {}
  /\ \E p \in Peers :
       /\ conn[p] = "backlog"
       /\ conn' = [conn EXCEPT ![p] = "open"]
       /\ table' = [table EXCEPT ![Lowest(Free)] = p]
  /\ cur' = Lowest(Free)
  /\ epoll' = "insert"
  /\ UNCHANGED <<limit, alive, registryVars, owner, events, pollerVars, ready, peer, toDaemon, toPeer, streams>>

(* Mutant: the error path forgets to close the descriptor. *)
AcceptAddFailsOpen ==
  /\ alive /\ epoll = "accept"
  /\ Free # {}
  /\ \E p \in Peers :
       /\ conn[p] = "backlog"
       /\ table' = [table EXCEPT ![Lowest(Free)] = p]
       /\ Closed(p)
  /\ UNCHANGED <<limit, alive, registryVars, owner, epollVars, pollerVars>>

(* epoll_ctl fails: the connection is closed again. *)
AcceptAddFails ==
  /\ alive /\ epoll = "accept"
  /\ Free # {}
  /\ \E p \in Peers : conn[p] = "backlog" /\ Closed(p)
  /\ UNCHANGED <<limit, table, alive, registryVars, owner, epollVars, pollerVars>>

Accept == AcceptNone \/ AcceptOne \/ AcceptAddFails

(* ... and its entry in clients_. *)
Insert ==
  /\ alive /\ epoll = "insert"
  /\ mutex = "none"
  /\ clients' = clients \cup {cur}
  /\ epoll' = "accept"
  /\ UNCHANGED <<limit, table, alive, running, listen_fd, epoll_fd, mutex, owner, events, cur, pollerVars, ready, peerVars>>

(* Mutant: the result of read is not looked at. *)
ReadUnchecked ==
  /\ alive /\ epoll = "read"
  /\ toDaemon' = [toDaemon EXCEPT ![table[cur]] = @ - 1]
  /\ epoll' = "apply"
  /\ UNCHANGED <<limit, table, alive, registryVars, owner, events, cur, pollerVars, ready, conn, peer, toPeer, streams>>

(* handle_client_message, the prefix: of a message that is there (its      *)
(* payload is read at once), of one that has begun, or, out of step, of    *)
(* anything; end of file; or nothing to read.                              *)
Read ==
  /\ alive /\ epoll = "read"
  /\ LET p == table[cur] IN
     \/ /\ toDaemon[p] > 0
        /\ toDaemon' = [toDaemon EXCEPT ![p] = @ - 1]
        /\ epoll' = "apply" \/ (p \in strayed /\ epoll' \in {"read", "payload"})
        /\ UNCHANGED <<streams, cur>>
     \/ /\ toDaemon[p] = 0 /\ p \in half
        /\ \/ epoll' = "payload" /\ UNCHANGED streams
           \/ epoll' = "read" /\ half' = half \ {p} /\ strayed' = strayed \cup {p}
        /\ UNCHANGED <<toDaemon, cur>>
     \/ /\ toDaemon[p] = 0 /\ p \notin half /\ peer[p] = "away"
        /\ epoll' = "remove" /\ UNCHANGED <<toDaemon, streams, cur>>
     \/ /\ toDaemon[p] = 0 /\ p \notin half /\ peer[p] # "away"
        /\ epoll' = "events" /\ cur' = NoFd
        /\ UNCHANGED <<toDaemon, streams>>
  /\ UNCHANGED <<limit, table, alive, registryVars, owner, events, pollerVars, ready, conn, peer, toPeer>>

(* ... the payload: the rest of a begun message, or as much of a stray     *)
(* length as is there; end of file.  With nothing to read the loop goes    *)
(* round, and it does not look at running_.                                *)
Payload ==
  /\ alive /\ epoll = "payload"
  /\ LET p == table[cur] IN
     \/ /\ toDaemon[p] > 0
        /\ toDaemon' = [toDaemon EXCEPT ![p] = @ - 1]
        /\ epoll' = "apply" \/ (p \in strayed /\ epoll' = "payload")
     \/ /\ toDaemon[p] = 0 /\ peer[p] = "away"
        /\ epoll' = "remove" /\ UNCHANGED toDaemon
  /\ UNCHANGED <<limit, table, alive, registryVars, owner, events, cur, pollerVars, ready, conn, peer, toPeer, streams>>

Apply ==
  /\ alive /\ epoll = "apply"
  /\ mutex = "none"
  /\ epoll' = "read"
  /\ UNCHANGED <<limit, table, alive, registryVars, owner, events, cur, pollerVars, ready, peerVars>>

(* Mutant: the client is removed without the mutex. *)
RemoveUnlocked ==
  /\ alive /\ epoll = "remove"
  /\ cur \in clients
  /\ clients' = clients \ {cur}
  /\ table' = [table EXCEPT ![cur] = "free"]
  /\ Closed(table[cur])
  /\ epoll' = "events" /\ cur' = NoFd
  /\ UNCHANGED <<limit, alive, running, listen_fd, epoll_fd, mutex, owner, events, pollerVars>>

remove_client ==
  /\ alive /\ epoll = "remove"
  /\ mutex = "none"
  /\ cur \in clients
  /\ clients' = clients \ {cur}
  /\ table' = [table EXCEPT ![cur] = "free"]
  /\ Closed(table[cur])
  /\ epoll' = "events" /\ cur' = NoFd
  /\ UNCHANGED <<limit, alive, running, listen_fd, epoll_fd, mutex, owner, events, pollerVars>>

-----------------------------------------------------------------------------
(* The polling thread.                                                     *)

(* poll_loop opens, reads and closes the pressure file, for which it needs *)
(* a descriptor; with none left there is no sample.  A sample may ask for  *)
(* a broadcast.                                                            *)
Poll ==
  /\ alive /\ poller = "idle"
  /\ owner = "serving"
  /\ Free # {}
  /\ poller' = "lock"
  /\ UNCHANGED <<limit, table, alive, registryVars, owner, epollVars, todo, ready, peerVars>>

(* broadcast_shrink, broadcast_grow: the mutex, then every client. *)
BroadcastLock ==
  /\ alive /\ poller = "lock"
  /\ mutex = "none"
  /\ mutex' = "poller"
  /\ todo' = clients
  /\ poller' = "write"
  /\ UNCHANGED <<limit, table, alive, running, listen_fd, epoll_fd, clients, owner, epollVars, ready, peerVars>>

(* Mutant: an error of write is retried like EAGAIN. *)
send_retrying(f) ==
  /\ peer[table[f]] # "away"
  /\ toPeer[table[f]] < MaxQueued
  /\ toPeer' = [toPeer EXCEPT ![table[f]] = @ + 1]
  /\ todo' = todo \ {f}
  /\ UNCHANGED alive

(* A socket that is full is tried again at once, mutex in hand; one whose  *)
(* peer is gone raises SIGPIPE, which nobody handles.                      *)
send_to_client(f) ==
  \/ /\ peer[table[f]] = "away"
     /\ alive' = FALSE
     /\ UNCHANGED <<toPeer, todo>>
  \/ /\ peer[table[f]] # "away"
     /\ toPeer[table[f]] < MaxQueued
     /\ toPeer' = [toPeer EXCEPT ![table[f]] = @ + 1]
     /\ todo' = todo \ {f}
     /\ UNCHANGED alive

BroadcastWrite ==
  /\ alive /\ poller = "write"
  /\ \E f \in todo : send_to_client(f)
  /\ UNCHANGED <<limit, table, registryVars, owner, epollVars, poller, ready, conn, peer, toDaemon, streams>>

BroadcastEnd ==
  /\ alive /\ poller = "write"
  /\ todo = {}
  /\ mutex' = "none"
  /\ poller' = "idle"
  /\ UNCHANGED <<limit, table, alive, running, listen_fd, epoll_fd, clients, owner, epollVars, todo, ready, peerVars>>

(* PsiPoller::stop has cleared its flag and the loop ends. *)
PollerEnd ==
  /\ alive /\ poller = "idle"
  /\ owner = "joinPoller"
  /\ poller' = "done"
  /\ UNCHANGED <<limit, table, alive, registryVars, owner, epollVars, todo, ready, peerVars>>

-----------------------------------------------------------------------------
(* The peers: external processes, each running governor_client.cpp.        *)

Connect(p) ==
  /\ peer[p] = "away" /\ conn[p] = "none"
  /\ \E f \in Fds : table[f] = "listen"
  /\ alive
  /\ conn' = [conn EXCEPT ![p] = "backlog"]
  /\ peer' = [peer EXCEPT ![p] = "report"]
  /\ ready' = ready \cup {"listen"}
  /\ UNCHANGED <<limit, table, alive, registryVars, owner, epollVars, pollerVars, toDaemon, toPeer, streams>>

(* A blocking write of REGISTER or REPORT_SIZE takes a first part ...  Of  *)
(* a stream that is out of step whole messages will do: they are read as   *)
(* anything.                                                               *)
PeerBegin(p) ==
  /\ alive /\ peer[p] = "report"
  /\ p \notin half \cup strayed
  /\ half' = half \cup {p}
  /\ ready' = ready \cup {p}
  /\ UNCHANGED <<limit, table, alive, registryVars, owner, epollVars, pollerVars, conn, peer, toDaemon, toPeer, strayed>>

(* ... or all that is left, and the listener is back to reading. *)
PeerReport(p) ==
  /\ alive /\ peer[p] = "report"
  /\ toDaemon[p] < MaxQueued
  /\ toDaemon' = [toDaemon EXCEPT ![p] = @ + 1]
  /\ half' = half \ {p}
  /\ peer' = [peer EXCEPT ![p] = "read"]
  /\ ready' = ready \cup {p}
  /\ UNCHANGED <<limit, table, alive, registryVars, owner, epollVars, pollerVars, conn, toPeer, strayed>>

(* A command is handled; it is reported if it changed the capacity. *)
PeerRead(p) ==
  /\ alive /\ peer[p] = "read"
  /\ toPeer[p] > 0
  /\ toPeer' = [toPeer EXCEPT ![p] = @ - 1]
  /\ \E q \in {"read", "report"} : peer' = [peer EXCEPT ![p] = q]
  /\ UNCHANGED <<limit, table, alive, registryVars, owner, epollVars, pollerVars, ready, conn, toDaemon, streams>>

HangUp(p) ==
  /\ alive
  /\ peer[p] # "away"
  /\ peer' = [peer EXCEPT ![p] = "away"]
  /\ toPeer' = [toPeer EXCEPT ![p] = 0]
  /\ ready' = ready \cup {p}
  /\ UNCHANGED <<limit, table, alive, registryVars, owner, epollVars, pollerVars, conn, toDaemon, streams>>

-----------------------------------------------------------------------------

Locking == Insert \/ Apply \/ remove_client
Epoll == EpollWait \/ NextEvent \/ Accept \/ Read \/ Payload
Poller == BroadcastLock \/ BroadcastWrite \/ BroadcastEnd \/ PollerEnd
Joining == StopRegistry \/ CloseAll

Next ==
  \/ Start \/ StartFails \/ Stop \/ Joining
  \/ Epoll \/ Locking
  \/ Poll \/ Poller
  \/ \E p \in Peers : Connect(p) \/ PeerReport(p) \/ PeerRead(p)
  \/ \E p \in Torn : PeerBegin(p)
  \/ \E p \in Flaky : HangUp(p)

(* Threads keep running.  The epoll thread gets the mutex in the end: the  *)
(* poller sleeps 200 ms between two polls without it.  epoll_ctl does not  *)
(* fail for ever.  The peers owe nothing: one may be suspended for good.   *)
Spec ==
  /\ Init /\ [][Next]_vars
  /\ WF_vars(Epoll) /\ SF_vars(Locking) /\ SF_vars(AcceptOne)
  /\ WF_vars(Poller) /\ WF_vars(Joining)

(* ... unless every client goes on with what it is doing: it reads what it *)
(* is sent, and finishes a report that it has begun.                       *)
ServedSpec ==
  Spec /\ \A p \in Peers : WF_vars(PeerReport(p)) /\ WF_vars(PeerRead(p))

-----------------------------------------------------------------------------

TypeOK ==
  /\ limit \in Limits
  /\ table \in [Fds -> {"free", "listen", "epoll"} \cup Peers]
  /\ clients \subseteq Fds
  /\ mutex \in {"none", "poller"}
  /\ listen_fd \in Fds \cup {NoFd} /\ epoll_fd \in Fds \cup {NoFd}
  /\ epoll \in {"none", "wait", "events", "accept", "insert", "read", "payload", "apply",
               "remove", "done"}
  /\ poller \in {"none", "idle", "lock", "write", "done"}
  /\ toDaemon \in [Peers -> 0 .. MaxQueued] /\ toPeer \in [Peers -> 0 .. MaxQueued]
  /\ half \subseteq Peers /\ strayed \subseteq Peers

(* A descriptor a thread is about to write to or read from is still the    *)
(* connection it took it for: none is closed, or closed and used again,    *)
(* under a broadcast (which runs through clients_) or under an event of    *)
(* the batch epoll_wait returned.                                          *)
DescriptorsCurrent ==
  /\ \A f \in todo : f \in clients /\ table[f] \in Peers
  /\ \A e \in events : e.fd \in clients \cup {listen_fd}
  /\ epoll \in {"read", "payload", "apply", "remove"} => cur \in clients /\ table[cur] \in Peers

(* Every open descriptor is one that stop() will close, and none is open   *)
(* when it has, also after a start() that threw.                           *)
NoDescriptorLeaks ==
  /\ \A f \in Fds :
       table[f] # "free" =>
         \/ f \in clients \cup {listen_fd, epoll_fd}
         \/ (f = cur /\ epoll = "insert")
  /\ owner = "stopped" => \A f \in Fds : table[f] = "free"

(* The ways the daemon comes to a halt by itself: the descriptor table is  *)
(* full when the epoll thread asks for one more (client_registry.cpp:130), *)
(* or the poller waits, mutex in hand, for a client that waits for the     *)
(* epoll thread to read its report, which waits for the mutex or for a     *)
(* descriptor (client_registry.cpp:229).                                   *)
Exhausted == epoll = "accept" /\ Free = {}

Wedged ==
  /\ poller = "write"
  /\ epoll \in {"insert", "apply", "remove"} \/ Exhausted
  /\ \E f \in todo : LET p == table[f] IN
       /\ peer[p] = "report"
       /\ toPeer[p] = MaxQueued /\ toDaemon[p] = MaxQueued

Halted == ~alive \/ Exhausted \/ Wedged

(* ... and the payload loop (client_registry.cpp:178-183), out of step     *)
(* with a stream, waits for more than its client is writing.  It goes on   *)
(* when the client reports again or hangs up; that it is not left waiting  *)
(* for ever is an assumption.                                              *)
Starved ==
  /\ epoll = "payload"
  /\ LET p == table[cur] IN toDaemon[p] = 0 /\ peer[p] \notin {"report", "away"}

PayloadsEnd == []<>~Starved

(* As long as the clients keep reading and no payload is waited for for    *)
(* ever, one that hung up leaves clients_ and gives its descriptor back.   *)
HungUpRemoved ==
  PayloadsEnd =>
    \A p \in Flaky : conn[p] = "open" /\ peer[p] = "away" ~> conn[p] # "open" \/ Halted

(* SIGTERM ends the daemon, under the same assumptions: stop() comes back  *)
(* from both joins, so the broadcast that the polling thread is in and the *)
(* client that the epoll thread is reading come to an end, too.            *)
StopReturns ==
  PayloadsEnd =>
    (owner = "joinPoller" ~> owner = "stopped" \/ Halted)

=============================================================================
