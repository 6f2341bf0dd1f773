--------------------------- MODULE RegistryProofs ---------------------------
(***************************************************************************)
(* ClientRegistry's three threads, for any clients, descriptor limits and  *)
(* socket buffers: which descriptors a thread may still use, and which     *)
(* stop() will close.                                                      *)
(***************************************************************************)
EXTENDS RegistryThreads, NaturalFacts

(* Types of what TypeOK leaves out. *)
MoreTypes ==
  /\ {alive, running} \subseteq BOOLEAN
  /\ owner \in {"new", "failed", "serving", "joinPoller", "joinEpoll", "stopped"}
  /\ cur \in Fds \cup {NoFd} /\ todo \subseteq Fds
  /\ events \subseteq [fd : Fds, hup : BOOLEAN]
  /\ ready \subseteq Peers \cup {"listen"}
  /\ conn \in [Peers -> {"none", "backlog", "open"}]
  /\ peer \in [Peers -> {"away", "report", "read"}]

(* How far main has come, and what it has started and stopped. *)
Phases ==
  /\ owner \in {"new", "failed"} => epoll = "none"
  /\ epoll = "none" => poller = "none" /\ \A f \in Fds : table[f] = "free"
  /\ owner \in {"serving", "joinPoller"} => running /\ epoll \notin {"none", "done"}
  /\ owner \in {"joinEpoll", "stopped"} => poller \in {"none", "done"}
  /\ owner = "stopped" => epoll \in {"none", "done"}
  /\ epoll # "none" /\ owner # "stopped" =>
       /\ limit > 1 /\ listen_fd = 0 /\ epoll_fd = 1
       /\ table[0] = "listen" /\ table[1] = "epoll"

(* The mutex is the poller's while it writes, and only then has it clients *)
(* left to write to.                                                       *)
Locked ==
  /\ mutex = "poller" <=> poller = "write"
  /\ poller # "write" => todo = {}

(* clients_ holds connections, and the one being accepted is another.  A   *)
(* batch has one event for a descriptor, and none for the one in hand.     *)
Connections ==
  /\ \A f \in clients : table[f] \in Peers
  /\ epoll = "insert" => cur \in Fds /\ table[cur] \in Peers
  /\ \A d, e \in events : d.fd = e.fd => d = e
  /\ epoll \in {"read", "payload", "apply", "remove"} => \A e \in events : e.fd # cur
  /\ epoll \in {"none", "wait", "done"} => events = {}

RegistryInv ==
  /\ TypeOK
  /\ MoreTypes
  /\ Phases
  /\ Locked
  /\ Connections
  /\ DescriptorsCurrent
  /\ NoDescriptorLeaks

-----------------------------------------------------------------------------
(* Descriptors and queues.                                                 *)

(* The kinds of descriptor are not peers, -1 is not a descriptor, and the  *)
(* limit leaves only descriptors.                                          *)
LEMMA Names ==
  /\ NoFd \notin Fds
  /\ Flaky \subseteq Peers
  /\ "free" \notin Peers /\ "listen" \notin Peers /\ "epoll" \notin Peers
  /\ limit \in Limits => 0 \in Fds /\ (limit > 1 => 1 \in Fds)
<1>1. NoFd \notin Fds
  BY DEF Fds, NoFd
<1>2. limit \in Limits => 0 \in Fds /\ (limit > 1 => 1 \in Fds)
  BY RegistryAssumption DEF Fds
<1> QED
  BY <1>1, <1>2, RegistryAssumption

(* accept() returns a descriptor that was free. *)
LEMMA LowestFree ==
  ASSUME limit \in Limits, Free # {}
  PROVE  Lowest(Free) \in Fds /\ table[Lowest(Free)] = "free"
<1>1. limit \in Int /\ limit <= MaxFd /\ MaxFd \in Int
  BY RegistryAssumption
<1>2. Free \in SUBSET Nat /\ Free \subseteq Fds
  BY <1>1 DEF Free, Fds
<1>3. Lowest(Free) \in Free
  BY <1>2, LeastNatural DEF Lowest
<1> QED
  BY <1>2, <1>3 DEF Free

(* A buffer that takes or gives one message, or is emptied, stays within   *)
(* its bound.                                                              *)
LEMMA Queues ==
  ASSUME NEW q \in [Peers -> 0 .. MaxQueued], NEW p \in Peers
  PROVE  /\ [q EXCEPT ![p] = 0] \in [Peers -> 0 .. MaxQueued]
         /\ q[p] < MaxQueued => [q EXCEPT ![p] = @ + 1] \in [Peers -> 0 .. MaxQueued]
         /\ q[p] > 0 => [q EXCEPT ![p] = @ - 1] \in [Peers -> 0 .. MaxQueued]
<1> DEFINE Q == 0 .. MaxQueued
<1>1. 0 \in Q
  BY RegistryAssumption
<1>2. q[p] < MaxQueued => q[p] + 1 \in Q
  BY RegistryAssumption
<1>3. q[p] > 0 => q[p] - 1 \in Q
  BY RegistryAssumption
<1> HIDE DEF Q
<1>4. q \in [Peers -> Q]
  BY DEF Q
<1>5. /\ [q EXCEPT ![p] = 0] \in [Peers -> Q]
      /\ q[p] < MaxQueued => [q EXCEPT ![p] = @ + 1] \in [Peers -> Q]
      /\ q[p] > 0 => [q EXCEPT ![p] = @ - 1] \in [Peers -> Q]
  BY <1>1, <1>2, <1>3, <1>4
<1> QED
  BY <1>5 DEF Q

(* Closing a connection keeps the types of what the peer leaves behind. *)
LEMMA ClosedTypes ==
  ASSUME TypeOK, MoreTypes, NEW p \in Peers, Closed(p)
  PROVE  /\ toDaemon' \in [Peers -> 0 .. MaxQueued] /\ toPeer' \in [Peers -> 0 .. MaxQueued]
         /\ conn' \in [Peers -> {"none", "backlog", "open"}]
         /\ peer' \in [Peers -> {"away", "report", "read"}]
         /\ ready' \subseteq Peers \cup {"listen"}
  BY Queues DEF TypeOK, MoreTypes, Closed

-----------------------------------------------------------------------------
(* Every step keeps the invariant.                                         *)

(* start() throws: listen_fd_ and epoll_fd_ may name descriptors that it   *)
(* has closed again.                                                       *)
LEMMA StartFailsKeeps ==
  ASSUME RegistryInv, StartFails
  PROVE  RegistryInv'
<1> USE Names DEF RegistryInv, StartFails, registryVars, epollVars, pollerVars, peerVars, streams
<1>1. TypeOK'
  <2>1. epoll_fd' = 1 => limit > 1
    BY RegistryAssumption DEF TypeOK, NoFd
  <2> QED
    BY <2>1 DEF TypeOK
<1>2. MoreTypes'
  BY DEF TypeOK, MoreTypes
<1>3. Phases' /\ Locked'
  BY DEF TypeOK, MoreTypes, Phases, Locked
<1>4. Connections'
  BY DEF TypeOK, MoreTypes, Phases, Connections
<1>5. DescriptorsCurrent'
  BY DEF TypeOK, MoreTypes, Phases, Connections, Locked, DescriptorsCurrent
<1>6. NoDescriptorLeaks'
  BY DEF TypeOK, MoreTypes, Phases, Connections, NoDescriptorLeaks
<1> QED
  BY <1>1, <1>2, <1>3, <1>4, <1>5, <1>6

(* start() and the two threads. *)
LEMMA StartKeeps ==
  ASSUME RegistryInv, Start
  PROVE  RegistryInv'
<1> USE Names DEF RegistryInv, Start, registryVars, epollVars, pollerVars, peerVars, streams
<1>1. TypeOK'
  BY DEF TypeOK
<1>2. MoreTypes'
  BY DEF TypeOK, MoreTypes
<1>3. Phases' /\ Locked'
  BY DEF TypeOK, MoreTypes, Phases, Locked
<1>4. Connections'
  BY DEF TypeOK, MoreTypes, Phases, Connections
<1>5. DescriptorsCurrent'
  BY DEF TypeOK, MoreTypes, Phases, Connections, Locked, DescriptorsCurrent
<1>6. NoDescriptorLeaks'
  BY DEF TypeOK, MoreTypes, Phases, Connections, NoDescriptorLeaks
<1> QED
  BY <1>1, <1>2, <1>3, <1>4, <1>5, <1>6

(* main waits for the poller. *)
LEMMA StopKeeps ==
  ASSUME RegistryInv, Stop
  PROVE  RegistryInv'
<1> USE Names DEF RegistryInv, Stop, registryVars, epollVars, pollerVars, peerVars, streams
<1>1. TypeOK'
  BY DEF TypeOK
<1>2. MoreTypes'
  BY DEF TypeOK, MoreTypes
<1>3. Phases' /\ Locked'
  BY DEF TypeOK, MoreTypes, Phases, Locked
<1>4. Connections'
  BY DEF TypeOK, MoreTypes, Phases, Connections
<1>5. DescriptorsCurrent'
  BY DEF TypeOK, MoreTypes, Phases, Connections, Locked, DescriptorsCurrent
<1>6. NoDescriptorLeaks'
  BY DEF TypeOK, MoreTypes, Phases, Connections, NoDescriptorLeaks
<1> QED
  BY <1>1, <1>2, <1>3, <1>4, <1>5, <1>6

(* The poller has ended, or never began: it holds no mutex. *)
LEMMA StopRegistryKeeps ==
  ASSUME RegistryInv, StopRegistry
  PROVE  RegistryInv'
<1> USE Names DEF RegistryInv, StopRegistry, registryVars, epollVars, pollerVars, peerVars, streams
<1>1. TypeOK'
  BY DEF TypeOK
<1>2. MoreTypes'
  BY DEF TypeOK, MoreTypes
<1>3. Phases' /\ Locked'
  BY DEF TypeOK, MoreTypes, Phases, Locked
<1>4. Connections'
  BY DEF TypeOK, MoreTypes, Phases, Connections
<1>5. DescriptorsCurrent'
  BY DEF TypeOK, MoreTypes, Phases, Connections, Locked, DescriptorsCurrent
<1>6. NoDescriptorLeaks'
  BY DEF TypeOK, MoreTypes, Phases, Connections, NoDescriptorLeaks
<1> QED
  BY <1>1, <1>2, <1>3, <1>4, <1>5, <1>6

(* The epoll thread has ended, so every open descriptor is one that        *)
(* stop() closes.                                                          *)
LEMMA CloseAllKeeps ==
  ASSUME RegistryInv, CloseAll
  PROVE  RegistryInv'
<1> USE Names DEF RegistryInv, CloseAll, registryVars, epollVars, pollerVars, peerVars, streams
<1>1. TypeOK'
  <2>1. 0 \in 0 .. MaxQueued
    BY RegistryAssumption
  <2> HIDE Names
  <2> QED
    BY <2>1 DEF TypeOK
<1>2. MoreTypes'
  BY DEF TypeOK, MoreTypes
<1>3. Phases' /\ Locked'
  BY DEF TypeOK, MoreTypes, Phases, Locked
<1>4. Connections'
  BY DEF TypeOK, MoreTypes, Phases, Connections
<1>5. DescriptorsCurrent'
  BY DEF TypeOK, MoreTypes, Phases, Connections, Locked, DescriptorsCurrent
<1>6. NoDescriptorLeaks'
  BY DEF TypeOK, MoreTypes, Phases, Connections, NoDescriptorLeaks
<1> QED
  BY <1>1, <1>2, <1>3, <1>4, <1>5, <1>6

(* epoll_wait: one event for each descriptor, each of a connection in      *)
(* clients_ or of the listening socket, because none is being accepted.    *)
LEMMA EpollWaitKeeps ==
  ASSUME RegistryInv, EpollWait
  PROVE  RegistryInv'
<1> USE Names DEF RegistryInv, EpollWait, registryVars, epollVars, pollerVars, peerVars, streams
<1>1. TypeOK'
  BY DEF TypeOK
<1>2. MoreTypes'
  <2>1. CASE ~running
    BY <2>1 DEF MoreTypes
  <2>2. CASE running
    <3>1. events' \subseteq [fd : Fds, hup : BOOLEAN]
      <4> SUFFICES ASSUME NEW e \in events' PROVE e \in [fd : Fds, hup : BOOLEAN]
        OBVIOUS
      <4>1. PICK f \in Fds :
              e = [fd |-> f, hup |-> table[f] \in Peers /\ peer[table[f]] = "away"]
        BY <2>2
      <4> QED
        BY <4>1
    <3>2. ready' \subseteq Peers \cup {"listen"}
      BY <2>2 DEF MoreTypes
    <3> QED
      BY <3>1, <3>2 DEF MoreTypes
  <2> QED
    BY <2>1, <2>2 DEF MoreTypes
<1>3. Phases' /\ Locked'
  BY DEF TypeOK, MoreTypes, Phases, Locked
<1>4. Connections'
  BY DEF TypeOK, MoreTypes, Phases, Connections
<1>5. DescriptorsCurrent'
  <2>1. CASE ~running
    BY <2>1 DEF MoreTypes, DescriptorsCurrent
  <2>2. CASE running
    <3>1. \A f \in Fds : table[f] \in ready => f \in clients \cup {listen_fd}
      BY DEF TypeOK, MoreTypes, Phases, NoDescriptorLeaks
    <3> QED
      BY <2>2, <3>1 DEF DescriptorsCurrent
  <2> QED
    BY <2>1, <2>2 DEF MoreTypes
<1>6. NoDescriptorLeaks'
  BY DEF TypeOK, MoreTypes, Phases, Connections, NoDescriptorLeaks
<1> QED
  BY <1>1, <1>2, <1>3, <1>4, <1>5, <1>6

(* The event in hand is taken out of the batch. *)
LEMMA NextEventKeeps ==
  ASSUME RegistryInv, NextEvent
  PROVE  RegistryInv'
<1> USE Names DEF RegistryInv, NextEvent, registryVars, epollVars, pollerVars, peerVars, streams
<1>1. TypeOK'
  BY DEF TypeOK
<1>2. MoreTypes'
  BY DEF TypeOK, MoreTypes
<1>3. Phases' /\ Locked'
  BY DEF TypeOK, MoreTypes, Phases, Locked
<1>4. Connections'
  BY DEF TypeOK, MoreTypes, Phases, Connections
<1>5. DescriptorsCurrent'
  BY DEF TypeOK, MoreTypes, Phases, Connections, Locked, DescriptorsCurrent
<1>6. NoDescriptorLeaks'
  BY DEF TypeOK, MoreTypes, Phases, Connections, NoDescriptorLeaks
<1> QED
  BY <1>1, <1>2, <1>3, <1>4, <1>5, <1>6

(* No connection waits. *)
LEMMA AcceptNoneKeeps ==
  ASSUME RegistryInv, AcceptNone
  PROVE  RegistryInv'
<1> USE Names DEF RegistryInv, AcceptNone, registryVars, epollVars, pollerVars, peerVars, streams
<1>1. TypeOK'
  BY DEF TypeOK
<1>2. MoreTypes'
  BY DEF TypeOK, MoreTypes
<1>3. Phases' /\ Locked'
  BY DEF TypeOK, MoreTypes, Phases, Locked
<1>4. Connections'
  BY DEF TypeOK, MoreTypes, Phases, Connections
<1>5. DescriptorsCurrent'
  BY DEF TypeOK, MoreTypes, Phases, Connections, Locked, DescriptorsCurrent
<1>6. NoDescriptorLeaks'
  BY DEF TypeOK, MoreTypes, Phases, Connections, NoDescriptorLeaks
<1> QED
  BY <1>1, <1>2, <1>3, <1>4, <1>5, <1>6

(* accept4 returns a descriptor that was free, so in no set. *)
LEMMA AcceptOneKeeps ==
  ASSUME RegistryInv, AcceptOne
  PROVE  RegistryInv'
<1> USE Names DEF RegistryInv, AcceptOne, registryVars, epollVars, pollerVars, peerVars, streams
<1>1. TypeOK'
  BY LowestFree DEF TypeOK
<1>2. MoreTypes'
  BY LowestFree DEF TypeOK, MoreTypes
<1>3. Phases' /\ Locked'
  BY LowestFree DEF TypeOK, MoreTypes, Phases, Locked
<1>4. Connections'
  BY LowestFree DEF TypeOK, MoreTypes, Phases, Connections
<1>5. DescriptorsCurrent'
  BY LowestFree DEF TypeOK, MoreTypes, Phases, Connections, Locked, DescriptorsCurrent
<1>6. NoDescriptorLeaks'
  BY LowestFree DEF TypeOK, MoreTypes, Phases, Connections, NoDescriptorLeaks
<1> QED
  BY <1>1, <1>2, <1>3, <1>4, <1>5, <1>6

(* A connection that epoll would not take is closed. *)
LEMMA AcceptAddFailsKeeps ==
  ASSUME RegistryInv, AcceptAddFails
  PROVE  RegistryInv'
<1> USE Names DEF RegistryInv, AcceptAddFails, registryVars, epollVars, pollerVars, peerVars, streams, Closed
<1>1. TypeOK'
  BY ClosedTypes DEF TypeOK
<1>2. MoreTypes'
  BY ClosedTypes DEF TypeOK, MoreTypes
<1>3. Phases' /\ Locked'
  BY DEF TypeOK, MoreTypes, Phases, Locked
<1>4. Connections'
  BY DEF TypeOK, MoreTypes, Phases, Connections
<1>5. DescriptorsCurrent'
  BY DEF TypeOK, MoreTypes, Phases, Connections, Locked, DescriptorsCurrent
<1>6. NoDescriptorLeaks'
  BY DEF TypeOK, MoreTypes, Phases, Connections, NoDescriptorLeaks
<1> QED
  BY <1>1, <1>2, <1>3, <1>4, <1>5, <1>6

(* The accepted connection joins clients_. *)
LEMMA InsertKeeps ==
  ASSUME RegistryInv, Insert
  PROVE  RegistryInv'
<1> USE Names DEF RegistryInv, Insert, registryVars, epollVars, pollerVars, peerVars, streams
<1>1. TypeOK'
  BY DEF TypeOK, Connections
<1>2. MoreTypes'
  BY DEF TypeOK, MoreTypes
<1>3. Phases' /\ Locked'
  BY DEF TypeOK, MoreTypes, Phases, Locked
<1>4. Connections'
  BY DEF TypeOK, MoreTypes, Phases, Connections
<1>5. DescriptorsCurrent'
  BY DEF TypeOK, MoreTypes, Phases, Connections, Locked, DescriptorsCurrent
<1>6. NoDescriptorLeaks'
  BY DEF TypeOK, MoreTypes, Phases, Connections, NoDescriptorLeaks
<1> QED
  BY <1>1, <1>2, <1>3, <1>4, <1>5, <1>6

(* A message or a part of one, end of file, or nothing yet. *)
LEMMA ReadKeeps ==
  ASSUME RegistryInv, Read
  PROVE  RegistryInv'
<1> USE Names DEF RegistryInv, Read, registryVars, epollVars, pollerVars, peerVars, streams
<1>1. TypeOK'
  <2>1. table[cur] \in Peers
    BY DEF DescriptorsCurrent
  <2>2. toDaemon' \in [Peers -> 0 .. MaxQueued]
    BY <2>1, Queues DEF TypeOK
  <2>3. epoll' \in {"read", "payload", "apply", "remove", "events"}
    OBVIOUS
  <2>4. half' \subseteq Peers /\ strayed' \subseteq Peers
    BY <2>1 DEF TypeOK
  <2> QED
    BY <2>2, <2>3, <2>4 DEF TypeOK
<1>2. MoreTypes'
  BY DEF TypeOK, MoreTypes
<1>3. Phases' /\ Locked'
  BY DEF TypeOK, MoreTypes, Phases, Locked
<1>4. Connections'
  BY DEF TypeOK, MoreTypes, Phases, Connections
<1>5. DescriptorsCurrent'
  BY DEF TypeOK, MoreTypes, Phases, Connections, Locked, DescriptorsCurrent
<1>6. NoDescriptorLeaks'
  BY DEF TypeOK, MoreTypes, Phases, Connections, NoDescriptorLeaks
<1> QED
  BY <1>1, <1>2, <1>3, <1>4, <1>5, <1>6

(* The rest of a message, more of a stray length, or end of file. *)
LEMMA PayloadKeeps ==
  ASSUME RegistryInv, Payload
  PROVE  RegistryInv'
<1> USE Names DEF RegistryInv, Payload, registryVars, epollVars, pollerVars, peerVars, streams
<1>1. TypeOK'
  <2>1. table[cur] \in Peers
    BY DEF DescriptorsCurrent
  <2>2. toDaemon' \in [Peers -> 0 .. MaxQueued]
    BY <2>1, Queues DEF TypeOK
  <2>3. epoll' \in {"payload", "apply", "remove"}
    OBVIOUS
  <2> QED
    BY <2>2, <2>3 DEF TypeOK
<1>2. MoreTypes'
  BY DEF TypeOK, MoreTypes
<1>3. Phases' /\ Locked'
  BY DEF TypeOK, MoreTypes, Phases, Locked
<1>4. Connections'
  BY DEF TypeOK, MoreTypes, Phases, Connections
<1>5. DescriptorsCurrent'
  BY DEF TypeOK, MoreTypes, Phases, Connections, Locked, DescriptorsCurrent
<1>6. NoDescriptorLeaks'
  BY DEF TypeOK, MoreTypes, Phases, Connections, NoDescriptorLeaks
<1> QED
  BY <1>1, <1>2, <1>3, <1>4, <1>5, <1>6

(* The message is applied under the mutex. *)
LEMMA ApplyKeeps ==
  ASSUME RegistryInv, Apply
  PROVE  RegistryInv'
<1> USE Names DEF RegistryInv, Apply, registryVars, epollVars, pollerVars, peerVars, streams
<1>1. TypeOK'
  BY DEF TypeOK
<1>2. MoreTypes'
  BY DEF TypeOK, MoreTypes
<1>3. Phases' /\ Locked'
  BY DEF TypeOK, MoreTypes, Phases, Locked
<1>4. Connections'
  BY DEF TypeOK, MoreTypes, Phases, Connections
<1>5. DescriptorsCurrent'
  BY DEF TypeOK, MoreTypes, Phases, Connections, Locked, DescriptorsCurrent
<1>6. NoDescriptorLeaks'
  BY DEF TypeOK, MoreTypes, Phases, Connections, NoDescriptorLeaks
<1> QED
  BY <1>1, <1>2, <1>3, <1>4, <1>5, <1>6

(* remove_client holds the mutex, so no broadcast is under way, and its    *)
(* descriptor has no other event in the batch.                             *)
LEMMA remove_clientKeeps ==
  ASSUME RegistryInv, remove_client
  PROVE  RegistryInv'
<1> USE Names DEF RegistryInv, remove_client, registryVars, epollVars, pollerVars, peerVars, streams, Closed
<1>1. TypeOK'
  <2>1. cur \in Fds /\ table[cur] \in Peers
    BY DEF TypeOK, Connections
  <2>2. toDaemon' \in [Peers -> 0 .. MaxQueued] /\ toPeer' \in [Peers -> 0 .. MaxQueued]
    BY <2>1, ClosedTypes
  <2> QED
    BY <2>1, <2>2 DEF TypeOK
<1>2. MoreTypes'
  <2>1. table[cur] \in Peers
    BY DEF TypeOK, Connections
  <2> QED
    BY <2>1, ClosedTypes DEF TypeOK, MoreTypes
<1>3. Phases' /\ Locked'
  <2>1. cur \in Fds /\ table[cur] \in Peers
    BY DEF TypeOK, Connections
  <2> QED
    BY <2>1 DEF TypeOK, MoreTypes, Phases, Locked
<1>4. Connections'
  BY DEF TypeOK, MoreTypes, Phases, Connections
<1>5. DescriptorsCurrent'
  BY DEF TypeOK, MoreTypes, Phases, Connections, Locked, DescriptorsCurrent
<1>6. NoDescriptorLeaks'
  BY DEF TypeOK, MoreTypes, Phases, Connections, NoDescriptorLeaks
<1> QED
  BY <1>1, <1>2, <1>3, <1>4, <1>5, <1>6

(* A sample asks for a broadcast. *)
LEMMA PollKeeps ==
  ASSUME RegistryInv, Poll
  PROVE  RegistryInv'
<1> USE Names DEF RegistryInv, Poll, registryVars, epollVars, pollerVars, peerVars, streams
<1>1. TypeOK'
  BY DEF TypeOK
<1>2. MoreTypes'
  BY DEF TypeOK, MoreTypes
<1>3. Phases' /\ Locked'
  BY DEF TypeOK, MoreTypes, Phases, Locked
<1>4. Connections'
  BY DEF TypeOK, MoreTypes, Phases, Connections
<1>5. DescriptorsCurrent'
  BY DEF TypeOK, MoreTypes, Phases, Connections, Locked, DescriptorsCurrent
<1>6. NoDescriptorLeaks'
  BY DEF TypeOK, MoreTypes, Phases, Connections, NoDescriptorLeaks
<1> QED
  BY <1>1, <1>2, <1>3, <1>4, <1>5, <1>6

(* The broadcast takes the mutex and every client there is. *)
LEMMA BroadcastLockKeeps ==
  ASSUME RegistryInv, BroadcastLock
  PROVE  RegistryInv'
<1> USE Names DEF RegistryInv, BroadcastLock, registryVars, epollVars, pollerVars, peerVars, streams
<1>1. TypeOK'
  BY DEF TypeOK
<1>2. MoreTypes'
  BY DEF TypeOK, MoreTypes
<1>3. Phases' /\ Locked'
  BY DEF TypeOK, MoreTypes, Phases, Locked
<1>4. Connections'
  BY DEF TypeOK, MoreTypes, Phases, Connections
<1>5. DescriptorsCurrent'
  BY DEF TypeOK, MoreTypes, Phases, Connections, Locked, DescriptorsCurrent
<1>6. NoDescriptorLeaks'
  BY DEF TypeOK, MoreTypes, Phases, Connections, NoDescriptorLeaks
<1> QED
  BY <1>1, <1>2, <1>3, <1>4, <1>5, <1>6

(* A write, or SIGPIPE. *)
LEMMA BroadcastWriteKeeps ==
  ASSUME RegistryInv, BroadcastWrite
  PROVE  RegistryInv'
<1> USE Names DEF RegistryInv, BroadcastWrite, registryVars, epollVars, pollerVars, peerVars, streams
<1>1. TypeOK'
  <2>1. PICK f \in todo : send_to_client(f)
    OBVIOUS
  <2>2. table[f] \in Peers
    BY DEF DescriptorsCurrent
  <2>3. toPeer' \in [Peers -> 0 .. MaxQueued]
    <3>1. toPeer \in [Peers -> 0 .. MaxQueued]
      BY DEF TypeOK
    <3>2. CASE toPeer' = toPeer
      BY <3>1, <3>2
    <3>3. CASE /\ toPeer[table[f]] < MaxQueued
               /\ toPeer' = [toPeer EXCEPT ![table[f]] = @ + 1]
      BY <2>2, <3>1, <3>3, Queues
    <3> QED
      BY <2>1, <3>2, <3>3 DEF send_to_client
  <2> QED
    BY <2>3 DEF TypeOK
<1>2. MoreTypes'
  <2>1. todo' \subseteq todo /\ alive' \in BOOLEAN
    BY DEF send_to_client, MoreTypes
  <2> QED
    BY <2>1 DEF MoreTypes
<1>3. Phases' /\ Locked'
  <2>1. todo' \subseteq todo
    BY DEF send_to_client
  <2> QED
    BY <2>1 DEF Phases, Locked
<1>4. Connections'
  BY DEF TypeOK, MoreTypes, Phases, Connections
<1>5. DescriptorsCurrent'
  <2>1. todo' \subseteq todo
    BY DEF send_to_client
  <2> QED
    BY <2>1 DEF DescriptorsCurrent
<1>6. NoDescriptorLeaks'
  BY DEF TypeOK, MoreTypes, Phases, Connections, NoDescriptorLeaks
<1> QED
  BY <1>1, <1>2, <1>3, <1>4, <1>5, <1>6

(* All are written to. *)
LEMMA BroadcastEndKeeps ==
  ASSUME RegistryInv, BroadcastEnd
  PROVE  RegistryInv'
<1> USE Names DEF RegistryInv, BroadcastEnd, registryVars, epollVars, pollerVars, peerVars, streams
<1>1. TypeOK'
  BY DEF TypeOK
<1>2. MoreTypes'
  BY DEF TypeOK, MoreTypes
<1>3. Phases' /\ Locked'
  BY DEF TypeOK, MoreTypes, Phases, Locked
<1>4. Connections'
  BY DEF TypeOK, MoreTypes, Phases, Connections
<1>5. DescriptorsCurrent'
  BY DEF TypeOK, MoreTypes, Phases, Connections, Locked, DescriptorsCurrent
<1>6. NoDescriptorLeaks'
  BY DEF TypeOK, MoreTypes, Phases, Connections, NoDescriptorLeaks
<1> QED
  BY <1>1, <1>2, <1>3, <1>4, <1>5, <1>6

(* poll_loop ends. *)
LEMMA PollerEndKeeps ==
  ASSUME RegistryInv, PollerEnd
  PROVE  RegistryInv'
<1> USE Names DEF RegistryInv, PollerEnd, registryVars, epollVars, pollerVars, peerVars, streams
<1>1. TypeOK'
  BY DEF TypeOK
<1>2. MoreTypes'
  BY DEF TypeOK, MoreTypes
<1>3. Phases' /\ Locked'
  BY DEF TypeOK, MoreTypes, Phases, Locked
<1>4. Connections'
  BY DEF TypeOK, MoreTypes, Phases, Connections
<1>5. DescriptorsCurrent'
  BY DEF TypeOK, MoreTypes, Phases, Connections, Locked, DescriptorsCurrent
<1>6. NoDescriptorLeaks'
  BY DEF TypeOK, MoreTypes, Phases, Connections, NoDescriptorLeaks
<1> QED
  BY <1>1, <1>2, <1>3, <1>4, <1>5, <1>6

(* A peer connects. *)
LEMMA ConnectKeeps ==
  ASSUME RegistryInv, NEW p \in Peers, Connect(p)
  PROVE  RegistryInv'
<1> USE Names DEF RegistryInv, Connect, registryVars, epollVars, pollerVars, peerVars, streams
<1>1. TypeOK'
  BY DEF TypeOK
<1>2. MoreTypes'
  BY DEF TypeOK, MoreTypes
<1>3. Phases' /\ Locked'
  BY DEF TypeOK, MoreTypes, Phases, Locked
<1>4. Connections'
  BY DEF TypeOK, MoreTypes, Phases, Connections
<1>5. DescriptorsCurrent'
  BY DEF TypeOK, MoreTypes, Phases, Connections, Locked, DescriptorsCurrent
<1>6. NoDescriptorLeaks'
  BY DEF TypeOK, MoreTypes, Phases, Connections, NoDescriptorLeaks
<1> QED
  BY <1>1, <1>2, <1>3, <1>4, <1>5, <1>6

(* A peer writes a first part. *)
LEMMA PeerBeginKeeps ==
  ASSUME RegistryInv, NEW p \in Peers, PeerBegin(p)
  PROVE  RegistryInv'
<1> USE Names DEF RegistryInv, PeerBegin, registryVars, epollVars, pollerVars, peerVars, streams
<1>1. TypeOK'
  BY DEF TypeOK
<1>2. MoreTypes'
  BY DEF TypeOK, MoreTypes
<1>3. Phases' /\ Locked'
  BY DEF TypeOK, MoreTypes, Phases, Locked
<1>4. Connections'
  BY DEF TypeOK, MoreTypes, Phases, Connections
<1>5. DescriptorsCurrent'
  BY DEF TypeOK, MoreTypes, Phases, Connections, Locked, DescriptorsCurrent
<1>6. NoDescriptorLeaks'
  BY DEF TypeOK, MoreTypes, Phases, Connections, NoDescriptorLeaks
<1> QED
  BY <1>1, <1>2, <1>3, <1>4, <1>5, <1>6

(* A peer writes what is left. *)
LEMMA PeerReportKeeps ==
  ASSUME RegistryInv, NEW p \in Peers, PeerReport(p)
  PROVE  RegistryInv'
<1> USE Names DEF RegistryInv, PeerReport, registryVars, epollVars, pollerVars, peerVars, streams
<1>1. TypeOK'
  <2>1. toDaemon' \in [Peers -> 0 .. MaxQueued]
    BY Queues DEF TypeOK
  <2> QED
    BY <2>1 DEF TypeOK
<1>2. MoreTypes'
  BY DEF TypeOK, MoreTypes
<1>3. Phases' /\ Locked'
  BY DEF TypeOK, MoreTypes, Phases, Locked
<1>4. Connections'
  BY DEF TypeOK, MoreTypes, Phases, Connections
<1>5. DescriptorsCurrent'
  BY DEF TypeOK, MoreTypes, Phases, Connections, Locked, DescriptorsCurrent
<1>6. NoDescriptorLeaks'
  BY DEF TypeOK, MoreTypes, Phases, Connections, NoDescriptorLeaks
<1> QED
  BY <1>1, <1>2, <1>3, <1>4, <1>5, <1>6

(* A peer reads. *)
LEMMA PeerReadKeeps ==
  ASSUME RegistryInv, NEW p \in Peers, PeerRead(p)
  PROVE  RegistryInv'
<1> USE Names DEF RegistryInv, PeerRead, registryVars, epollVars, pollerVars, peerVars, streams
<1>1. TypeOK'
  <2>1. toPeer' \in [Peers -> 0 .. MaxQueued]
    BY Queues DEF TypeOK
  <2> QED
    BY <2>1 DEF TypeOK
<1>2. MoreTypes'
  BY DEF TypeOK, MoreTypes
<1>3. Phases' /\ Locked'
  BY DEF TypeOK, MoreTypes, Phases, Locked
<1>4. Connections'
  BY DEF TypeOK, MoreTypes, Phases, Connections
<1>5. DescriptorsCurrent'
  BY DEF TypeOK, MoreTypes, Phases, Connections, Locked, DescriptorsCurrent
<1>6. NoDescriptorLeaks'
  BY DEF TypeOK, MoreTypes, Phases, Connections, NoDescriptorLeaks
<1> QED
  BY <1>1, <1>2, <1>3, <1>4, <1>5, <1>6

(* A peer closes its end; the daemon's end stays in the table. *)
LEMMA HangUpKeeps ==
  ASSUME RegistryInv, NEW p \in Flaky, HangUp(p)
  PROVE  RegistryInv'
<1> USE Names DEF RegistryInv, HangUp, registryVars, epollVars, pollerVars, peerVars, streams
<1>1. TypeOK'
  <2>1. toPeer' \in [Peers -> 0 .. MaxQueued]
    BY Queues DEF TypeOK
  <2> QED
    BY <2>1 DEF TypeOK
<1>2. MoreTypes'
  BY DEF TypeOK, MoreTypes
<1>3. Phases' /\ Locked'
  BY DEF TypeOK, MoreTypes, Phases, Locked
<1>4. Connections'
  BY DEF TypeOK, MoreTypes, Phases, Connections
<1>5. DescriptorsCurrent'
  BY DEF TypeOK, MoreTypes, Phases, Connections, Locked, DescriptorsCurrent
<1>6. NoDescriptorLeaks'
  BY DEF TypeOK, MoreTypes, Phases, Connections, NoDescriptorLeaks
<1> QED
  BY <1>1, <1>2, <1>3, <1>4, <1>5, <1>6

-----------------------------------------------------------------------------
(* The invariant, and what it gives.                                       *)

LEMMA InitRegistry == Init => RegistryInv
<1> SUFFICES ASSUME Init PROVE RegistryInv
  OBVIOUS
<1> USE Names DEF Init
<1>1. TypeOK
  <2>1. 0 \in 0 .. MaxQueued
    BY RegistryAssumption
  <2> QED
    BY <2>1 DEF TypeOK
<1>2. MoreTypes /\ Phases /\ Locked /\ Connections
  BY DEF MoreTypes, Phases, Locked, Connections
<1>3. DescriptorsCurrent /\ NoDescriptorLeaks
  BY DEF DescriptorsCurrent, NoDescriptorLeaks
<1> QED
  BY <1>1, <1>2, <1>3 DEF RegistryInv

LEMMA StepRegistry == RegistryInv /\ [Next]_vars => RegistryInv'
<1> SUFFICES ASSUME RegistryInv, [Next]_vars PROVE RegistryInv'
  OBVIOUS
<1>1. CASE Start \/ StartFails \/ Stop \/ Joining
  BY <1>1, StartKeeps, StartFailsKeeps, StopKeeps, StopRegistryKeeps, CloseAllKeeps DEF Joining
<1>2. CASE Epoll
  BY <1>2, EpollWaitKeeps, NextEventKeeps, AcceptNoneKeeps, AcceptOneKeeps,
     AcceptAddFailsKeeps, ReadKeeps, PayloadKeeps DEF Epoll, Accept
<1>3. CASE Locking
  BY <1>3, InsertKeeps, ApplyKeeps, remove_clientKeeps DEF Locking
<1>4. CASE Poll \/ Poller
  BY <1>4, PollKeeps, BroadcastLockKeeps, BroadcastWriteKeeps, BroadcastEndKeeps,
     PollerEndKeeps DEF Poller
<1>5. CASE \E p \in Peers : Connect(p) \/ PeerReport(p) \/ PeerRead(p)
  BY <1>5, ConnectKeeps, PeerReportKeeps, PeerReadKeeps
<1>6. CASE (\E p \in Torn : PeerBegin(p)) \/ (\E p \in Flaky : HangUp(p))
  BY <1>6, PeerBeginKeeps, HangUpKeeps, RegistryAssumption
<1>7. CASE UNCHANGED vars
  BY <1>7 DEF vars, registryVars, epollVars, pollerVars, peerVars, streams, RegistryInv, TypeOK,
     MoreTypes, Phases, Locked, Connections, DescriptorsCurrent, NoDescriptorLeaks
<1> QED
  BY <1>1, <1>2, <1>3, <1>4, <1>5, <1>6, <1>7 DEF Next

LEMMA RegistryInvariant == Spec => []RegistryInv
  BY InitRegistry, StepRegistry, PTL DEF Spec

(* The registry's fields, the descriptor table and the socket buffers stay *)
(* well formed under every interleaving of the three threads.              *)
THEOREM RegistryTypeOK == Spec => []TypeOK
<1>1. RegistryInv => TypeOK
  BY DEF RegistryInv
<1> QED
  BY <1>1, RegistryInvariant, PTL

(* A broadcast, a read and a removal use a descriptor only while it is the *)
(* connection it was taken for: remove_client cannot close one under a     *)
(* broadcast, nor accept reuse one that is still in the batch.             *)
THEOREM DescriptorsStayCurrent == Spec => []DescriptorsCurrent
<1>1. RegistryInv => DescriptorsCurrent
  BY DEF RegistryInv
<1> QED
  BY <1>1, RegistryInvariant, PTL

(* Every open descriptor is in clients_, is one of the registry's two, or  *)
(* is being accepted, on the error paths too; after stop() none is open.   *)
THEOREM NoDescriptorIsLeaked == Spec => []NoDescriptorLeaks
<1>1. RegistryInv => NoDescriptorLeaks
  BY DEF RegistryInv
<1> QED
  BY <1>1, RegistryInvariant, PTL

=============================================================================
