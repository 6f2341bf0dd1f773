--------------------------- MODULE GovernorSystem ---------------------------
(***************************************************************************)
(* The governor daemon and its clients, joined by their sockets.           *)
(*                                                                         *)
(* Daemon (governor_daemon.cpp, client_registry.cpp): the polling thread   *)
(* moves the tier as TierLadder allows and then broadcasts the command to  *)
(* every registered client; the epoll thread accepts, reads and removes.   *)
(* Client (governed_cache.cpp, governor_client.cpp): the application fills *)
(* the cache; the listener thread applies commands and reports the size.   *)
(* A cache is its size and capacity in entries (LRUCache shows how it gets *)
(* them).  Sockets are FIFO; either process may stop or die at any time,   *)
(* and neither ignores SIGPIPE.                                            *)
(***************************************************************************)
EXTENDS Integers, Sequences

CONSTANTS
  Clients,
  NumTiers, ShrinkPct,   \* see TierLadder; ShrinkPct in percent
  MaxCapacity,           \* GovernedCache's max_capacity
  EntryBytes,            \* estimated_entry_bytes_
  NumKeys,               \* distinct keys of the workload: bounds the size
  MaxInFlight            \* bound: messages a socket holds in one direction

ASSUME SystemAssumption ==
  /\ NumTiers \in Nat \ {0}
  /\ ShrinkPct \in [0 .. NumTiers - 1 -> 0 .. 100]
  /\ MaxCapacity \in Nat /\ NumKeys \in Nat /\ MaxInFlight \in Nat
  /\ EntryBytes \in Nat \ {0}

VARIABLES
  tier, action,   \* the policy engine, as TierLadder
  up,             \* the daemon process is running
  dispatching,    \* its polling thread holds an action not yet broadcast
  registry,       \* clients_: current_size_bytes, Absent if not accepted
  conn,           \* the connection of each client
  toDaemon,       \* messages written by the client, not yet read
  toClient,       \* commands written by the daemon, not yet read
  life,           \* the client's life cycle
  listener,       \* where its listener thread is, see Position
  size, capacity  \* its cache

daemonVars == <<tier, action, up, dispatching, registry>>
socketVars == <<conn, toDaemon, toClient>>
clientVars == <<life, listener, size, capacity>>
vars == <<daemonVars, socketVars, clientVars>>

Ladder == INSTANCE TierLadder

Absent == -1

(* conn: "backlog" is connected but not yet accepted; "clientClosed" and   *)
(* "daemonClosed" are noticed by the other side only when it looks.        *)
ConnState == {"none", "backlog", "open", "clientClosed", "daemonClosed"}

(* life: "connecting" is between connect and REGISTER; "failed" could not  *)
(* connect; "lost" listens for a daemon that is gone; "stopping" waits in  *)
(* stop_listening's join; "dead" is the end of the process, "killed" its   *)
(* end by SIGPIPE.                                                         *)
LifeState == {"new", "failed", "connecting", "connected", "lost",
              "stopping", "stopped", "dead", "killed"}

Gone == {"dead", "killed"}

(* listener: "top" is the head of listener_loop; "read" and "write" are    *)
(* inside the system call, which a close of the descriptor by another      *)
(* thread does not end; "report" is in the handler, after the resize and   *)
(* before send_message's check of connected_.  From "report" to the end of *)
(* "write" it holds the cache's mutex.                                     *)
Position == {"none", "top", "read", "report", "write"}

InCall == {"read", "write"}

Reporting == {"report", "write"}

Bytes(entries) == entries * EntryBytes

Init ==
  /\ Ladder!Init
  /\ up = FALSE
  /\ dispatching = FALSE
  /\ registry = [k \in Clients |-> Absent]
  /\ conn = [k \in Clients |-> "none"]
  /\ toDaemon = [k \in Clients |-> <<>>]
  /\ toClient = [k \in Clients |-> <<>>]
  /\ life = [k \in Clients |-> "new"]
  /\ listener = [k \in Clients |-> "none"]
  /\ size = [k \in Clients |-> 0]
  /\ capacity = [k \in Clients |-> MaxCapacity]

-----------------------------------------------------------------------------
(* The daemon.                                                             *)

(* main: a fresh process, whose engine starts at NORMAL. *)
DaemonStart ==
  /\ ~up
  /\ up' = TRUE
  /\ UNCHANGED <<tier, action, dispatching, registry, socketVars, clientVars>>

(* Every daemon-side socket closes, by registry_->stop() or by the kernel, *)
(* and the engine is gone with the process.                                *)
CloseAll(pendingCommands) ==
  /\ up' = FALSE
  /\ dispatching' = FALSE
  /\ registry' = [k \in Clients |-> Absent]
  /\ conn' = [k \in Clients |->
       IF conn[k] \in {"backlog", "open"} THEN "daemonClosed"
       ELSE IF conn[k] = "clientClosed" THEN "none" ELSE conn[k]]
  /\ toDaemon' = [k \in Clients |-> <<>>]
  /\ toClient' = pendingCommands
  /\ tier' = Ladder!NORMAL
  /\ action' = Ladder!Answer("NONE", 0, Ladder!NORMAL)
  /\ UNCHANGED clientVars

(* stop() joins the polling thread first, so no dispatch is cut short. *)
DaemonStop == up /\ ~dispatching /\ CloseAll(toClient)

(* on_psi_update, first half: evaluate.  An evaluation that answers NONE   *)
(* does nothing more.                                                      *)
Evaluate ==
  /\ up
  /\ ~dispatching
  /\ \A k \in Clients : Len(toClient[k]) < MaxInFlight
  /\ Ladder!Up \/ Ladder!Down
  /\ dispatching' = TRUE
  /\ UNCHANGED <<up, registry, socketVars, clientVars>>

(* Mutant: a SHRINK takes its fraction of the capacity, not of the size. *)
TargetOfCapacity(k) ==
  IF action.type = "SHRINK"
  THEN registry[k] - (Bytes(MaxCapacity) * action.fraction) \div 100
  ELSE (registry[k] * (100 + action.fraction)) \div 100

(* msg.target_bytes, truncated to uint64_t. *)
Target(k) ==
  IF action.type = "SHRINK"
  THEN (registry[k] * (100 - action.fraction)) \div 100
  ELSE (registry[k] * (100 + action.fraction)) \div 100

Registered == {k \in Clients : registry[k] # Absent}

Commanded(sent) ==
  [k \in Clients |->
     IF k \in sent
     THEN Append(toClient[k], [type |-> action.type, target_bytes |-> Target(k)])
     ELSE toClient[k]]

(* dispatch_action: broadcast_shrink or broadcast_grow, under the registry *)
(* mutex; the PolicyAction then goes out of scope.                         *)
Dispatch ==
  /\ up
  /\ dispatching
  /\ \A k \in Registered : conn[k] = "open"
  /\ toClient' = Commanded(Registered)
  /\ dispatching' = FALSE
  /\ Ladder!Stay
  /\ UNCHANGED <<up, registry, conn, toDaemon, clientVars>>

(* Writing to a client that has gone but is still registered raises        *)
(* SIGPIPE; the clients that come earlier in the map have been told.       *)
DispatchKilled ==
  /\ up
  /\ dispatching
  /\ \E k \in Registered : conn[k] = "clientClosed"
  /\ \E sent \in SUBSET {k \in Registered : conn[k] = "open"} :
       CloseAll(Commanded(sent))

(* The process ends while it broadcasts: only some clients have been told. *)
(* (At any other time it ends as DaemonStop does.)                         *)
DaemonCrash ==
  /\ up
  /\ dispatching
  /\ \E told \in SUBSET {k \in Registered : conn[k] = "open"} :
       CloseAll(Commanded(told))

(* handle_new_connection.  A client that closed meanwhile is accepted too. *)
Accept(k) ==
  /\ up
  /\ registry[k] = Absent
  /\ conn[k] \in {"backlog", "clientClosed"}
  /\ registry' = [registry EXCEPT ![k] = 0]
  /\ conn' = [conn EXCEPT ![k] = IF @ = "backlog" THEN "open" ELSE @]
  /\ UNCHANGED <<tier, action, up, dispatching, toDaemon, toClient, clientVars>>

(* handle_client_message: REGISTER and REPORT_SIZE both set the size. *)
Receive(k) ==
  /\ up
  /\ registry[k] # Absent
  /\ toDaemon[k] # <<>>
  /\ registry' = [registry EXCEPT ![k] = Head(toDaemon[k]).current_size_bytes]
  /\ toDaemon' = [toDaemon EXCEPT ![k] = Tail(@)]
  /\ UNCHANGED <<tier, action, up, dispatching, conn, toClient, clientVars>>

(* remove_client, on EPOLLHUP or end of file. *)
Remove(k) ==
  /\ up
  /\ registry[k] # Absent
  /\ conn[k] = "clientClosed"
  /\ registry' = [registry EXCEPT ![k] = Absent]
  /\ conn' = [conn EXCEPT ![k] = "none"]
  /\ toDaemon' = [toDaemon EXCEPT ![k] = <<>>]
  /\ UNCHANGED <<tier, action, up, dispatching, toClient, clientVars>>

-----------------------------------------------------------------------------
(* The client.                                                             *)

(* The client's end is closed, and what the daemon sent to it is lost. *)
CloseEnd(k) ==
  /\ conn' = [conn EXCEPT ![k] =
       IF @ \in {"backlog", "open", "clientClosed"} THEN "clientClosed" ELSE "none"]
  /\ toClient' = [toClient EXCEPT ![k] = <<>>]

(* The listener and its connection are gone, with the process its cache. *)
HangUp(k, fate) ==
  /\ CloseEnd(k)
  /\ size' = [size EXCEPT ![k] = IF fate \in Gone THEN 0 ELSE @]
  /\ capacity' = [capacity EXCEPT ![k] = IF fate \in Gone THEN 0 ELSE @]
  /\ life' = [life EXCEPT ![k] = fate]
  /\ listener' = [listener EXCEPT ![k] = "none"]

(* GovernedCache::start, first half: connect. *)
Connect(k) ==
  /\ life[k] \in {"new", "failed"}
  /\ IF up THEN /\ life' = [life EXCEPT ![k] = "connecting"]
                /\ conn' = [conn EXCEPT ![k] = "backlog"]
           ELSE /\ life' = [life EXCEPT ![k] = "failed"]
                /\ UNCHANGED conn
  /\ UNCHANGED <<daemonVars, toDaemon, toClient, listener, size, capacity>>

Message(type, entries) ==
  [type |-> type, current_size_bytes |-> Bytes(entries)]

Writable(k) == conn[k] \in {"backlog", "open"}

Sent(k, msg) == [toDaemon EXCEPT ![k] = Append(@, msg)]

(* start, second half: register_cache and start_listening. *)
Register(k) ==
  /\ life[k] = "connecting"
  /\ Writable(k)
  /\ toDaemon' = Sent(k, Message("REGISTER", size[k]))
  /\ life' = [life EXCEPT ![k] = "connected"]
  /\ listener' = [listener EXCEPT ![k] = "top"]
  /\ UNCHANGED <<daemonVars, conn, toClient, size, capacity>>

(* Writing to a daemon that has gone raises SIGPIPE. *)
RegisterKilled(k) ==
  /\ life[k] = "connecting"
  /\ ~Writable(k)
  /\ HangUp(k, "killed")
  /\ UNCHANGED <<daemonVars, toDaemon>>

(* put of a key that is not cached, under the cache's mutex.  At capacity  *)
(* an entry is evicted, if there is one; below and above it the cache      *)
(* grows.                                                                  *)
Put(k) ==
  /\ life[k] \notin Gone
  /\ listener[k] \notin Reporting
  /\ size[k] < NumKeys
  /\ size[k] # capacity[k] \/ size[k] = 0
  /\ size' = [size EXCEPT ![k] = @ + 1]
  /\ UNCHANGED <<daemonVars, socketVars, life, listener, capacity>>

(* listener_loop up to its blocking read. *)
EnterRead(k) ==
  /\ listener[k] = "top"
  /\ life[k] = "connected"
  /\ listener' = [listener EXCEPT ![k] = "read"]
  /\ UNCHANGED <<daemonVars, socketVars, life, size, capacity>>

TargetCapacity(k) == Head(toClient[k]).target_bytes \div EntryBytes

(* handle_shrink only lowers the capacity, handle_grow only raises it. *)
Applies(k) ==
  IF Head(toClient[k]).type = "SHRINK"
  THEN TargetCapacity(k) < capacity[k]
  ELSE TargetCapacity(k) > capacity[k]

(* Mutant: the capacity changes but nothing is evicted. *)
ResizedNoEvict(k) == size[k]

(* The size resize leaves behind. *)
Resized(k) == IF size[k] > TargetCapacity(k) THEN TargetCapacity(k) ELSE size[k]

(* Mutant: the new size is not reported. *)
ApplySilent(k) ==
  /\ capacity' = [capacity EXCEPT ![k] = TargetCapacity(k)]
  /\ size' = [size EXCEPT ![k] = Resized(k)]
  /\ listener' = [listener EXCEPT ![k] = "top"]

(* resize, before report_size. *)
Apply(k) ==
  /\ capacity' = [capacity EXCEPT ![k] = TargetCapacity(k)]
  /\ size' = [size EXCEPT ![k] = Resized(k)]
  /\ listener' = [listener EXCEPT ![k] = "report"]

(* The handler has nothing to do. *)
Ignore(k) ==
  /\ listener' = [listener EXCEPT ![k] = "top"]
  /\ UNCHANGED <<capacity, size>>

Reading(k) == listener[k] = "read" /\ life[k] = "connected"

(* Mutant: the listener thread ends with the first command it handles. *)
CommandOnce(k) ==
  /\ Reading(k)
  /\ toClient[k] # <<>>
  /\ toClient' = [toClient EXCEPT ![k] = Tail(@)]
  /\ listener' = [listener EXCEPT ![k] = "none"]
  /\ UNCHANGED <<daemonVars, conn, toDaemon, life, size, capacity>>

(* The read returns a command, and the handler takes the cache's mutex. *)
Command(k) ==
  /\ Reading(k)
  /\ toClient[k] # <<>>
  /\ \/ Applies(k) /\ Apply(k)
     \/ ~Applies(k) /\ Ignore(k)
  /\ toClient' = [toClient EXCEPT ![k] = Tail(@)]
  /\ UNCHANGED <<daemonVars, conn, toDaemon, life>>

(* report_size finds the client connected and begins to write.  If         *)
(* stop_listening has come first, connected_ is false or sock_fd_ is -1:   *)
(* nothing is sent, the handler returns and StopDone may follow.           *)
Report(k) ==
  /\ listener[k] = "report"
  /\ life[k] = "connected"
  /\ listener' = [listener EXCEPT ![k] = "write"]
  /\ UNCHANGED <<daemonVars, socketVars, life, size, capacity>>

(* The write ends when the socket has room.  If stop_listening has closed  *)
(* the descriptor meanwhile, this was the last use of the connection and   *)
(* the listener is joined.                                                 *)
WriteReport(k) ==
  /\ listener[k] = "write"
  /\ Writable(k)
  /\ Len(toDaemon[k]) < MaxInFlight
  /\ toDaemon' = Sent(k, Message("REPORT_SIZE", size[k]))
  /\ \/ /\ life[k] = "connected"
        /\ listener' = [listener EXCEPT ![k] = "top"]
        /\ UNCHANGED <<conn, toClient, life, size, capacity>>
     \/ /\ life[k] = "stopping"
        /\ HangUp(k, "stopped")
  /\ UNCHANGED daemonVars

(* The daemon has gone away since it sent the command: the report raises   *)
(* SIGPIPE.                                                                *)
ReportKilled(k) ==
  /\ listener[k] = "write"
  /\ ~Writable(k)
  /\ HangUp(k, "killed")
  /\ UNCHANGED <<daemonVars, toDaemon>>

(* The read returns end of file. *)
EndOfFile(k) ==
  /\ Reading(k)
  /\ toClient[k] = <<>>
  /\ conn[k] = "daemonClosed"
  /\ conn' = [conn EXCEPT ![k] = "none"]
  /\ life' = [life EXCEPT ![k] = "lost"]
  /\ listener' = [listener EXCEPT ![k] = "top"]
  /\ UNCHANGED <<daemonVars, toDaemon, toClient, size, capacity>>

(* The listener's own connect: straight on to the read, no REGISTER. *)
Reconnect(k) ==
  /\ life[k] = "lost"
  /\ up
  /\ life' = [life EXCEPT ![k] = "connected"]
  /\ conn' = [conn EXCEPT ![k] = "backlog"]
  /\ listener' = [listener EXCEPT ![k] = "read"]
  /\ UNCHANGED <<daemonVars, toDaemon, toClient, size, capacity>>

(* stop_listening up to the join.  It takes no mutex: the listener may be  *)
(* anywhere.  Closing a descriptor that another thread is reading from or  *)
(* writing to neither wakes that thread nor shuts the socket down.         *)
Stop(k) ==
  /\ life[k] \in {"connected", "lost"}
  /\ life' = [life EXCEPT ![k] = "stopping"]
  /\ \/ listener[k] \in InCall /\ UNCHANGED <<conn, toClient>>
     \/ listener[k] \notin InCall /\ CloseEnd(k)
  /\ UNCHANGED <<daemonVars, toDaemon, listener, size, capacity>>

(* The listener leaves its loop and is joined: at once if it was in no     *)
(* call, otherwise when the read returns (what it read is dropped) or the  *)
(* write does (WriteReport, ReportKilled).                                 *)
StopDone(k) ==
  /\ life[k] = "stopping"
  /\ listener[k] # "write"
  /\ listener[k] = "read" => toClient[k] # <<>> \/ conn[k] = "daemonClosed"
  /\ HangUp(k, "stopped")
  /\ UNCHANGED <<daemonVars, toDaemon>>

(* The application ends or is killed. *)
ClientCrash(k) ==
  /\ life[k] \notin Gone
  /\ HangUp(k, "dead")
  /\ UNCHANGED <<daemonVars, toDaemon>>

-----------------------------------------------------------------------------

(* The epoll thread's work on one client, and the client's own threads. *)
Epoll(k) == Accept(k) \/ Receive(k) \/ Remove(k)

Listen(k) ==
  \/ EnterRead(k) \/ Command(k) \/ Report(k) \/ WriteReport(k) \/ ReportKilled(k)
  \/ EndOfFile(k) \/ Reconnect(k) \/ StopDone(k)

Starting(k) == Register(k) \/ RegisterKilled(k)

Broadcast == Dispatch \/ DispatchKilled

Next ==
  \/ DaemonStart \/ DaemonStop \/ DaemonCrash \/ Evaluate \/ Broadcast
  \/ \E k \in Clients :
       \/ Epoll(k) \/ Listen(k) \/ Starting(k)
       \/ Connect(k) \/ Put(k) \/ Stop(k) \/ ClientCrash(k)

(* Threads that are ready run; nobody has to start, stop or use anything.  *)
(* That the epoll thread and the broadcast come to every client they have  *)
(* to is an assumption here: the daemon has descriptors for what it        *)
(* accepts, and nobody stops reading or leaves a message unfinished.       *)
(* RegistryThreads has those ways to halt.                                 *)
Spec ==
  /\ Init /\ [][Next]_vars
  /\ WF_vars(Broadcast)
  /\ \A k \in Clients :
       WF_vars(Accept(k)) /\ WF_vars(Receive(k)) /\ WF_vars(Remove(k))
         /\ WF_vars(Listen(k)) /\ WF_vars(Starting(k))

-----------------------------------------------------------------------------

TypeOK ==
  /\ tier \in 0 .. NumTiers - 1
  /\ action \in Ladder!PolicyAction
  /\ up \in BOOLEAN /\ dispatching \in BOOLEAN
  /\ registry \in [Clients -> Nat \cup {Absent}]
  /\ conn \in [Clients -> ConnState]
  /\ life \in [Clients -> LifeState]
  /\ listener \in [Clients -> Position]
  /\ size \in [Clients -> Nat] /\ capacity \in [Clients -> Nat]
  /\ toDaemon \in
       [Clients -> Seq([type : {"REGISTER", "REPORT_SIZE"},
                        current_size_bytes : Nat])]
  /\ toClient \in
       [Clients -> Seq([type : {"SHRINK", "GROW"}, target_bytes : Nat])]

(* For a client that is connected, the registry holds at most the true     *)
(* size, except while a report is under way: unread in the socket, or not  *)
(* yet sent by a listener that has already resized.  Puts only add, and    *)
(* what evicts reports before the mutex is released.  A client that has    *)
(* closed is outside: if stop() falls between resize and report_size, the  *)
(* lower size is never sent.                                               *)
NeverOverestimated ==
  \A k \in Registered :
    /\ conn[k] = "open"
    /\ toDaemon[k] = <<>>
    /\ listener[k] \notin Reporting
    => registry[k] <= Bytes(size[k])

(* The step takes a command off a client's queue, and the client goes on. *)
Handles(k, type) ==
  /\ toClient[k] # <<>> /\ Head(toClient[k]).type = type
  /\ toClient'[k] = Tail(toClient[k]) /\ life'[k] = "connected"

(* When a client with a positive capacity has handled a SHRINK, its size   *)
(* and capacity are within the target the daemon asked for, whether or not *)
(* the handler had to act; and from then on only a GROW that is handled    *)
(* lifts the capacity, and no put exceeds it while it is positive.  A      *)
(* target below one entry leaves capacity zero, which put does not enforce *)
(* (SizeWithinMaximum): nothing is claimed after it.                       *)
ShrinkHonoured ==
  [][\A k \in Clients :
       /\ Handles(k, "SHRINK") /\ capacity[k] # 0 =>
            size'[k] <= TargetCapacity(k) /\ capacity'[k] <= TargetCapacity(k)
       /\ capacity'[k] > capacity[k] => Handles(k, "GROW")
       /\ size'[k] > size[k] /\ capacity[k] # 0 => size'[k] <= capacity[k]]_vars

(* Once the daemon stays up and stops moving, every command is consumed    *)
(* and every report read, and it stays so.                                 *)
Drains ==
  <>[](up /\ ~dispatching) =>
    <>[](\A k \in Clients : toClient[k] = <<>> /\ toDaemon[k] = <<>>)

-----------------------------------------------------------------------------
(* What the repository says and the code does not do.                      *)

(* README.md:19: "lazily evicting up to 50% of the cache capacity".  But   *)
(* start() registers the cache while it is still empty and nothing reports *)
(* its growth, so the first SHRINK asks for zero bytes and evicts it all.  *)
EvictsAtMostHalf ==
  [][\A k \in Clients : life'[k] \notin Gone =>
       2 * (size[k] - size'[k]) <= MaxCapacity + 1]_vars

(* src/cache_app/main.cpp:110: "--capacity N  Max items in cache".  But    *)
(* the first SHRINK of a cache that registered empty leaves capacity zero, *)
(* which no GROW of zero bytes ever lifts and which put does not enforce;  *)
(* and a cache that registers above NORMAL is told to GROW for a SHRINK it *)
(* never saw.                                                              *)
SizeWithinMaximum == \A k \in Clients : size[k] <= MaxCapacity

=============================================================================
