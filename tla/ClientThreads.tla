--------------------------- MODULE ClientThreads ---------------------------
(***************************************************************************)
(* governor_client.cpp as GovernedCache uses it, statement by statement:   *)
(* the application's start() and stop() against the listener thread, which *)
(* share sock_fd_ (a plain int) and the flags connected_ and listening_.   *)
(* The descriptor table is the process's.  A read in progress keeps its    *)
(* socket alive, and goes on waiting, when the descriptor is closed under  *)
(* it.  The daemon comes, goes and sends as it likes, and a command whose  *)
(* prefix has come comes whole unless it leaves.                           *)
(***************************************************************************)
EXTENDS Integers, FiniteSets

CONSTANTS
  MaxFd,      \* descriptors the process may have
  MaxStops,   \* bound: calls of stop()
  MaxLost     \* bound: connections lost or given up

ASSUME ClientAssumption == MaxFd \in Nat \ {0} /\ MaxStops \in Nat /\ MaxLost \in Nat

Fds == 0 .. MaxFd - 1
NoFd == -1

VARIABLES
  table,               \* what each descriptor is: "free", a "new" socket, a
                       \* connection that is "open" or that the daemon "left"
  held,                \* the socket of a read whose descriptor was closed
  sock_fd, connected, listening,
  app, old,            \* where the application is; stop_listening's old_fd
  listener, rfd,       \* where the listener is; the descriptor it reads
  up,                  \* the daemon accepts connections
  cmd,                 \* a command waits on the open connection
  alive,               \* SIGPIPE has not killed the process
  stops, lost          \* history: calls of stop(), connections lost
                       \* to the daemon or given up

flags == <<sock_fd, connected, listening>>
history == <<stops, lost>>
vars == <<table, held, flags, app, old, listener, rfd, up, cmd, alive, history>>

Init ==
  /\ table = [f \in Fds |-> "free"]
  /\ held = "none"
  /\ sock_fd = NoFd /\ connected = FALSE /\ listening = FALSE
  /\ app = "idle" /\ old = NoFd
  /\ listener = "none" /\ rfd = NoFd
  /\ up \in BOOLEAN
  /\ cmd = FALSE
  /\ alive = TRUE
  /\ stops = 0 /\ lost = 0

Free == {f \in Fds : table[f] = "free"}
Lowest(S) == CHOOSE f \in S : \A g \in S : f <= g
State(f) == IF f = NoFd THEN "free" ELSE table[f]

(* close(f), also while the listener is blocked in a read of f. *)
Close(f) ==
  /\ table' = [g \in Fds |-> IF g = f THEN "free" ELSE table[g]]
  /\ IF listener = "read" /\ rfd = f /\ f # NoFd
     THEN held' = table[f] /\ rfd' = NoFd
     ELSE UNCHANGED <<held, rfd>>

-----------------------------------------------------------------------------
(* The application.                                                        *)

(* GovernedCache::start: connect, REGISTER, start_listening.  If connect   *)
(* fails it closes what it opened and nothing is left of the call.         *)
Start ==
  /\ alive /\ app = "idle"
  /\ stops < MaxStops
  /\ up /\ Free # {}
  /\ sock_fd' = Lowest(Free)
  /\ table' = [table EXCEPT ![Lowest(Free)] = "open"]
  /\ connected' = TRUE
  /\ listening' = TRUE
  /\ listener' = "top"
  /\ cmd' = FALSE
  /\ app' = "serving"
  /\ UNCHANGED <<held, old, rfd, up, alive, history>>

(* stop_listening, one statement at a time. *)
StopFlag ==
  /\ alive /\ app = "serving"
  /\ listening' = FALSE
  /\ stops' = stops + 1
  /\ app' = "load"
  /\ UNCHANGED <<table, held, sock_fd, connected, old, listener, rfd, up, cmd, alive, lost>>

StopLoad ==
  /\ alive /\ app = "load"
  /\ old' = sock_fd
  /\ app' = "swap"
  /\ UNCHANGED <<table, held, flags, listener, rfd, up, cmd, alive, history>>

StopSwap ==
  /\ alive /\ app = "swap"
  /\ sock_fd' = NoFd
  /\ app' = "close"
  /\ UNCHANGED <<table, held, connected, listening, old, listener, rfd, up, cmd, alive, history>>

StopClose ==
  /\ alive /\ app = "close"
  /\ Close(old)
  /\ old' = NoFd
  /\ app' = "clear"
  /\ UNCHANGED <<flags, listener, up, cmd, alive, history>>

StopClear ==
  /\ alive /\ app = "clear"
  /\ connected' = FALSE
  /\ app' = "join"
  /\ UNCHANGED <<table, held, sock_fd, listening, old, listener, rfd, up, cmd, alive, history>>

StopJoin ==
  /\ alive /\ app = "join"
  /\ listener = "done"
  /\ app' = "disconnect"
  /\ UNCHANGED <<table, held, flags, old, listener, rfd, up, cmd, alive, history>>

(* Mutant: stop() relies on stop_listening to have disconnected. *)
DisconnectSkipped ==
  /\ alive /\ app = "disconnect"
  /\ app' = "idle"
  /\ UNCHANGED <<table, held, flags, old, listener, rfd, up, cmd, alive, history>>

(* disconnect(), and the end of GovernedCache::stop. *)
Disconnect ==
  /\ alive /\ app = "disconnect"
  /\ Close(sock_fd)
  /\ sock_fd' = NoFd
  /\ connected' = FALSE
  /\ app' = "idle"
  /\ UNCHANGED <<listening, old, listener, up, cmd, alive, history>>

Stopping == StopFlag \/ StopLoad \/ StopSwap \/ StopClose \/ StopClear \/ StopJoin \/ Disconnect

-----------------------------------------------------------------------------
(* listener_loop.                                                          *)

(* Mutant: the loop is left only by an error. *)
TopForever ==
  /\ alive /\ listener = "top"
  /\ listener' = IF connected THEN "enter" ELSE "socket"
  /\ UNCHANGED <<table, held, flags, app, old, rfd, up, cmd, alive, history>>

Top ==
  /\ alive /\ listener = "top"
  /\ listener' = IF ~listening THEN "done" ELSE IF connected THEN "enter" ELSE "socket"
  /\ UNCHANGED <<table, held, flags, app, old, rfd, up, cmd, alive, history>>

(* connect(): sock_fd_ = socket(), over whatever it held. *)
Socket ==
  /\ alive /\ listener = "socket"
  /\ \/ /\ Free = {}
        /\ sock_fd' = NoFd
        /\ listener' = "backoff"
        /\ UNCHANGED table
     \/ /\ Free # {}
        /\ sock_fd' = Lowest(Free)
        /\ table' = [table EXCEPT ![Lowest(Free)] = "new"]
        /\ listener' = "dial"
  /\ UNCHANGED <<held, connected, listening, app, old, rfd, up, cmd, alive, history>>

(* ::connect(sock_fd_): it fails without a daemon, and if stop() has taken *)
(* the descriptor away.                                                    *)
Dial ==
  /\ alive /\ listener = "dial"
  /\ \/ /\ up /\ State(sock_fd) = "new"
        /\ table' = [table EXCEPT ![sock_fd] = "open"]
        /\ cmd' = FALSE
        /\ listener' = "dialled"
     \/ /\ ~up \/ State(sock_fd) # "new"
        /\ listener' = "failed"
        /\ UNCHANGED <<table, cmd>>
  /\ UNCHANGED <<held, flags, app, old, rfd, up, alive, history>>

Dialled ==
  /\ alive /\ listener = "dialled"
  /\ connected' = TRUE
  /\ listener' = "enter"
  /\ UNCHANGED <<table, held, sock_fd, listening, app, old, rfd, up, cmd, alive, history>>

(* Mutant: a socket that could not connect is not closed. *)
DialFailedOpen ==
  /\ alive /\ listener = "failed"
  /\ sock_fd' = NoFd
  /\ listener' = "backoff"
  /\ UNCHANGED <<table, held, connected, listening, app, old, rfd, up, cmd, alive, history>>

DialFailed ==
  /\ alive /\ listener = "failed"
  /\ Close(sock_fd)
  /\ sock_fd' = NoFd
  /\ listener' = "backoff"
  /\ UNCHANGED <<connected, listening, app, old, up, cmd, alive, history>>

Backoff ==
  /\ alive /\ listener = "backoff"
  /\ listener' = "top"
  /\ UNCHANGED <<table, held, flags, app, old, rfd, up, cmd, alive, history>>

(* read(sock_fd_) for the prefix begins, or fails with EBADF. *)
Enter ==
  /\ alive /\ listener = "enter"
  /\ \/ /\ State(sock_fd) = "free"
        /\ connected' = FALSE
        /\ listener' = "top"
        /\ UNCHANGED rfd
     \/ /\ State(sock_fd) # "free"
        /\ rfd' = sock_fd
        /\ listener' = "read"
        /\ UNCHANGED connected
  /\ UNCHANGED <<table, held, sock_fd, listening, app, old, up, cmd, alive, history>>

Reading == IF rfd = NoFd THEN held ELSE table[rfd]

(* Mutant: end of file is not taken for the end of the connection. *)
ReadEofIgnored ==
  /\ alive /\ listener = "read"
  /\ cmd \/ Reading = "left"
  /\ cmd' = FALSE
  /\ listener' = IF cmd THEN "payload" ELSE "top"
  /\ held' = "none" /\ rfd' = NoFd
  /\ UNCHANGED <<table, flags, app, old, up, alive, history>>

(* Mutant: the same, noticed every time round. *)
ReadEofAgain ==
  /\ alive /\ listener = "read"
  /\ cmd \/ Reading = "left"
  /\ cmd' = FALSE
  /\ lost' = IF cmd THEN lost ELSE lost + 1
  /\ listener' = IF cmd THEN "payload" ELSE "top"
  /\ held' = "none" /\ rfd' = NoFd
  /\ UNCHANGED <<table, flags, app, old, up, alive, stops>>

(* It returns the prefix of a command.  Or the listener gives the          *)
(* connection up: at the end of file, or, though the daemon has not left,  *)
(* for part of a prefix or a length it refuses.                            *)
Read ==
  /\ alive /\ listener = "read"
  /\ \/ /\ cmd
        /\ listener' = "payload"
        /\ UNCHANGED <<connected, lost>>
     \/ /\ IF cmd THEN lost < MaxLost ELSE Reading = "left"
        /\ connected' = FALSE
        /\ lost' = lost + 1
        /\ listener' = "top"
  /\ cmd' = FALSE
  /\ held' = "none" /\ rfd' = NoFd
  /\ UNCHANGED <<table, sock_fd, listening, app, old, up, alive, stops>>

(* The payload, from whatever sock_fd_ is by now, or end of file; then     *)
(* if (connected_).                                                        *)
Payload ==
  /\ alive /\ listener = "payload"
  /\ \/ /\ connected' = (connected /\ State(sock_fd) # "free")
        /\ UNCHANGED lost
     \/ /\ connected /\ State(sock_fd) = "left"
        /\ connected' = FALSE
        /\ lost' = lost + 1
  /\ listener' = IF connected' THEN "handle" ELSE "top"
  /\ UNCHANGED <<table, held, sock_fd, listening, app, old, rfd, up, cmd, alive, stops>>

(* process_message: the handler applies the command and reports.  The      *)
(* report goes to whatever sock_fd_ is by now, and raises SIGPIPE if the   *)
(* daemon has left.                                                        *)
Handle ==
  /\ alive /\ listener = "handle"
  /\ connected' = (connected /\ State(sock_fd) # "free")
  /\ alive' = ~(connected /\ State(sock_fd) = "left")
  /\ listener' = "top"
  /\ UNCHANGED <<table, held, sock_fd, listening, app, old, rfd, up, cmd, history>>

Listener ==
  Top \/ Socket \/ Dial \/ Dialled \/ DialFailed \/ Backoff \/ Enter \/ Read \/ Payload \/ Handle

-----------------------------------------------------------------------------
(* The daemon, as the client sees it.                                      *)

DaemonUp ==
  /\ ~up
  /\ up' = TRUE
  /\ UNCHANGED <<table, held, flags, app, old, listener, rfd, cmd, alive, history>>

DaemonDown ==
  /\ up /\ lost < MaxLost
  /\ up' = FALSE
  /\ table' = [f \in Fds |-> IF table[f] = "open" THEN "left" ELSE table[f]]
  /\ held' = IF held = "open" THEN "left" ELSE held
  /\ UNCHANGED <<flags, app, old, listener, rfd, cmd, alive, history>>

Command ==
  /\ up /\ ~cmd
  /\ held = "open" \/ \E f \in Fds : table[f] = "open"
  /\ cmd' = TRUE
  /\ UNCHANGED <<table, held, flags, app, old, listener, rfd, up, alive, history>>

Next == Start \/ Stopping \/ Listener \/ DaemonUp \/ DaemonDown \/ Command

(* Both threads keep running; the application, once it calls stop(), waits *)
(* for it.  The daemon owes nothing.                                       *)
Spec ==
  /\ Init /\ [][Next]_vars
  /\ WF_vars(Listener)
  /\ WF_vars(StopLoad \/ StopSwap \/ StopClose \/ StopClear \/ StopJoin \/ Disconnect)

-----------------------------------------------------------------------------

(* Types; a connection is lost or given up once. *)
TypeOK ==
  /\ stops \in 0 .. MaxStops /\ lost \in 0 .. MaxLost
  /\ table \in [Fds -> {"free", "new", "open", "left"}]
  /\ held \in {"none", "open", "left"}
  /\ {sock_fd, old, rfd} \subseteq Fds \cup {NoFd}
  /\ {connected, listening, up, cmd, alive} \subseteq BOOLEAN
  /\ app \in {"idle", "serving", "load", "swap", "close", "clear", "join", "disconnect"}
  /\ listener \in {"none", "top", "socket", "dial", "dialled", "failed", "backoff",
                   "enter", "read", "payload", "handle", "done"}

Open == Fds \ Free

(* connect() writes sock_fd_ over the descriptor of a connection that was  *)
(* lost or given up, and stop_listening clears it over one the listener    *)
(* has just opened: those leak (governor_client.cpp:24, :121), one per     *)
(* such connection and one per stop() at most.  The retries against an     *)
(* absent daemon leak none.                                                *)
LeaksBounded ==
  Cardinality(Open) <= lost + stops + (IF app = "idle" THEN 0 ELSE 1)

(* When stop() has returned, no listener is left to call back into the     *)
(* cache, and the client is disconnected, whatever connect() was doing     *)
(* when the flags were cleared.                                            *)
StoppedForGood ==
  app = "idle" => listener \in {"none", "done"} /\ ~connected /\ sock_fd = NoFd

(* A client that has lost the daemon gets back to it once the daemon stays *)
(* up, unless the connections lost and given up have used up the           *)
(* descriptors.                                                            *)
Reconnects ==
  <>[](up /\ app = "serving" /\ alive) =>
    <>[]((connected /\ State(sock_fd) = "open") \/ Free = {})

(* stop() returns if the daemon goes down again and again (or for good). *)
StopReturnsWhenLeft ==
  []<>~up => (app = "join" ~> app = "idle" \/ ~alive)

(* governor_client.cpp:119, "Close socket to unblock the blocking read in  *)
(* the listener thread": stop() returns whatever the daemon does.          *)
StopReturns == app = "join" ~> app = "idle" \/ ~alive

=============================================================================
