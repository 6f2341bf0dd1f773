---------------------------- MODULE ClientProofs ----------------------------
(***************************************************************************)
(* GovernorClient's two threads, for any number of descriptors, stops and  *)
(* connections lost or given up: what stop() leaves behind, and what       *)
(* leaks.                                                                  *)
(***************************************************************************)
EXTENDS ClientThreads, FiniteSetTheorems, NaturalFacts

(* Where the listener is while it has a connection, or is making one. *)
Dialling == {"dial", "dialled", "failed"}
Talking == {"enter", "read", "payload", "handle"}

(* The two threads' positions and the flags they leave. *)
Positions ==
  /\ app = "disconnect" => listener = "done"
  /\ listening <=> app = "serving"
  /\ app = "serving" => listener \notin {"none", "done"} /\ stops < MaxStops
  /\ listener \in Dialling \cup {"socket", "backoff"} => ~connected
  /\ app = "serving" /\ listener \in Talking => connected

(* sock_fd_ names an open socket or none, one that is connected unless the *)
(* listener is still at it.  What stop_listening is about to close is not  *)
(* what the listener opened since, and a read is of sock_fd_ until         *)
(* stop_listening takes it away.                                           *)
Descriptors ==
  /\ sock_fd \in Fds =>
       /\ table[sock_fd] # "free"
       /\ table[sock_fd] = "new" => listener \in {"dial", "failed"}
       /\ app = "close" => sock_fd # old
  /\ app \in {"swap", "close"} /\ listener = "socket" /\ old \in Fds =>
       table[old] # "free"
  /\ listener = "read" => sock_fd \in {rfd, NoFd}
  /\ listener = "read" /\ rfd \in Fds => table[rfd] \in {"open", "left"}
  /\ app = "serving" =>
       \/ listener \in {"socket", "backoff"}
       \/ listener = "top" /\ ~connected
       \/ sock_fd \in Fds

(* The daemon has closed a connection and the listener has yet to find out. *)
Unnoticed ==
  \/ listener = "read" /\ Reading = "left"
  \/ listener \in {"dialled", "enter"} /\ State(sock_fd) = "left"
  \/ listener \in {"top", "payload", "handle"} /\ connected /\ State(sock_fd) = "left"

(* How many descriptors may be open beyond those that connections lost or  *)
(* given up and calls of stop() have leaked: the one in use.  One less     *)
(* when the listener is about to open another, once stop() has been        *)
(* counted.                                                                *)
Allowance ==
  CASE app = "idle" -> 0
    [] app = "serving" -> IF \/ listener \in {"socket", "backoff"}
                             \/ listener = "top" /\ ~connected
                          THEN 0 ELSE 1
    [] OTHER -> IF listener = "socket" THEN -1 ELSE 0

Accounted == Cardinality(Open) <= lost + stops + Allowance

ClientInv ==
  /\ TypeOK
  /\ StoppedForGood
  /\ Positions
  /\ Descriptors
  /\ Unnoticed => lost < MaxLost
  /\ Accounted

-----------------------------------------------------------------------------
(* Descriptors.                                                            *)

(* A nonempty set of descriptors has a lowest one, so open() and socket()  *)
(* return one that was free.                                               *)
LEMMA LowestIn ==
  ASSUME NEW S \in SUBSET Fds, S # {}
  PROVE  Lowest(S) \in S
<1>1. S \in SUBSET Nat
  BY DEF Fds
<1>2. PICK x \in S : \A y \in S : x <= y
  BY <1>1, LeastNatural
<1> QED
  BY <1>2 DEF Lowest

(* No descriptor is -1. *)
LEMMA NoFdFree == NoFd \notin Fds
  BY DEF Fds, NoFd

(* The open descriptors are finitely many. *)
LEMMA OpenFinite == IsFiniteSet(Open) /\ Cardinality(Open) \in Nat
<1>1. IsFiniteSet(Fds)
  BY FS_Interval, ClientAssumption DEF Fds
<1> QED
  BY <1>1, FS_Subset, FS_CardinalityType DEF Open

(* A step that opens no descriptor leaves no more of them open. *)
LEMMA NoneOpened ==
  ASSUME Open' \subseteq Open
  PROVE  Cardinality(Open') <= Cardinality(Open) /\ Cardinality(Open') \in Nat
  BY OpenFinite, FS_Subset, FS_CardinalityType

(* A step that opens one of the free descriptors adds one. *)
LEMMA OneOpened ==
  ASSUME NEW f, f \notin Open, Open' = Open \cup {f}
  PROVE  Cardinality(Open') = Cardinality(Open) + 1
  BY OpenFinite, FS_AddElement

(* A step that closes an open descriptor takes one away. *)
LEMMA OneClosed ==
  ASSUME NEW f \in Open, Open' = Open \ {f}
  PROVE  Cardinality(Open') = Cardinality(Open) - 1
  BY OpenFinite, FS_RemoveElement

-----------------------------------------------------------------------------
(* Every step keeps the invariant.                                         *)

(* GovernedCache::start opens one descriptor, which the count allows once  *)
(* it serves.                                                              *)
LEMMA StartKeeps ==
  ASSUME ClientInv, Start
  PROVE  ClientInv'
<1> USE NoFdFree DEF ClientInv, Start, flags, history
<1>0. Lowest(Free) \in Fds
  BY LowestIn DEF Free
<1>1. TypeOK'
  BY <1>0 DEF TypeOK
<1>2. StoppedForGood' /\ Positions'
  BY DEF StoppedForGood, Positions, Dialling
<1>3. Descriptors'
  BY <1>1 DEF TypeOK, Descriptors
<1>4. (Unnoticed => lost < MaxLost)'
  BY <1>1 DEF TypeOK, Unnoticed, State
<1>5. Accounted'
  <2>1. Lowest(Free) \notin Open /\ Open' = Open \cup {Lowest(Free)}
    BY LowestIn DEF Open, Free, TypeOK
  <2>2. Cardinality(Open') = Cardinality(Open) + 1
    BY <2>1, OneOpened
  <2> QED
    BY <2>2, OpenFinite DEF Accounted, Allowance, TypeOK
<1> QED
  BY <1>1, <1>2, <1>3, <1>4, <1>5

(* stop_listening is counted as it clears listening_: from here on, the    *)
(* descriptor in use is one that this stop() may leak.                     *)
LEMMA StopFlagKeeps ==
  ASSUME ClientInv, StopFlag
  PROVE  ClientInv'
<1> USE NoFdFree DEF ClientInv, StopFlag, flags, history
<1>1. TypeOK'
  <2>1. stops' \in 0 .. MaxStops
    BY ClientAssumption DEF TypeOK, Positions
  <2> QED
    BY <2>1 DEF TypeOK
<1>2. StoppedForGood' /\ Positions'
  BY DEF StoppedForGood, Positions
<1>3. Descriptors'
  BY DEF Descriptors
<1>4. (Unnoticed => lost < MaxLost)'
  BY DEF Unnoticed, Reading, State
<1>5. Accounted'
  <2>1. Open' = Open
    BY DEF Open, Free
  <2> QED
    BY <2>1, OpenFinite DEF Accounted, Allowance, TypeOK
<1> QED
  BY <1>1, <1>2, <1>3, <1>4, <1>5

(* old_fd is sock_fd_ as it was read. *)
LEMMA StopLoadKeeps ==
  ASSUME ClientInv, StopLoad
  PROVE  ClientInv'
<1> USE NoFdFree DEF ClientInv, StopLoad, flags, history
<1>1. TypeOK'
  BY DEF TypeOK
<1>2. StoppedForGood' /\ Positions'
  BY DEF StoppedForGood, Positions
<1>3. Descriptors'
  BY DEF Descriptors
<1>4. (Unnoticed => lost < MaxLost)'
  BY DEF Unnoticed, Reading, State
<1>5. Accounted'
  <2>1. Open' = Open
    BY DEF Open, Free
  <2> QED
    BY <2>1 DEF Accounted, Allowance
<1> QED
  BY <1>1, <1>2, <1>3, <1>4, <1>5

(* sock_fd_ is cleared; old_fd still names what it was, unless the         *)
(* listener has overwritten it since.                                      *)
LEMMA StopSwapKeeps ==
  ASSUME ClientInv, StopSwap
  PROVE  ClientInv'
<1> USE NoFdFree DEF ClientInv, StopSwap, flags, history
<1>1. TypeOK'
  BY DEF TypeOK
<1>2. StoppedForGood' /\ Positions'
  BY DEF StoppedForGood, Positions
<1>3. Descriptors'
  BY DEF Descriptors
<1>4. (Unnoticed => lost < MaxLost)'
  BY DEF Unnoticed, Reading, State
<1>5. Accounted'
  <2>1. Open' = Open
    BY DEF Open, Free
  <2> QED
    BY <2>1 DEF Accounted, Allowance
<1> QED
  BY <1>1, <1>2, <1>3, <1>4, <1>5

(* old_fd is closed, which is not what the listener opened since. *)
LEMMA StopCloseKeeps ==
  ASSUME ClientInv, StopClose
  PROVE  ClientInv'
<1> USE NoFdFree DEF ClientInv, StopClose, flags, history, Close
<1>1. TypeOK'
  BY DEF TypeOK, Descriptors
<1>2. StoppedForGood' /\ Positions'
  BY DEF StoppedForGood, Positions
<1>3. Descriptors'
  BY DEF TypeOK, Descriptors
<1>4. (Unnoticed => lost < MaxLost)'
  BY DEF TypeOK, Unnoticed, Reading, State
<1>5. Accounted'
  <2>1. Open' \subseteq Open
    BY DEF Open, Free
  <2> QED
    BY <2>1, NoneOpened, OpenFinite DEF Accounted, Allowance, TypeOK
<1> QED
  BY <1>1, <1>2, <1>3, <1>4, <1>5

(* connected_ is cleared. *)
LEMMA StopClearKeeps ==
  ASSUME ClientInv, StopClear
  PROVE  ClientInv'
<1> USE NoFdFree DEF ClientInv, StopClear, flags, history
<1>1. TypeOK'
  BY DEF TypeOK
<1>2. StoppedForGood' /\ Positions'
  BY DEF StoppedForGood, Positions
<1>3. Descriptors'
  BY DEF Descriptors
<1>4. (Unnoticed => lost < MaxLost)'
  BY DEF Unnoticed, Reading, State
<1>5. Accounted'
  <2>1. Open' = Open
    BY DEF Open, Free
  <2> QED
    BY <2>1 DEF Accounted, Allowance
<1> QED
  BY <1>1, <1>2, <1>3, <1>4, <1>5

(* join() returns: the listener has ended. *)
LEMMA StopJoinKeeps ==
  ASSUME ClientInv, StopJoin
  PROVE  ClientInv'
<1> USE NoFdFree DEF ClientInv, StopJoin, flags, history
<1>1. TypeOK'
  BY DEF TypeOK
<1>2. StoppedForGood' /\ Positions'
  BY DEF StoppedForGood, Positions
<1>3. Descriptors'
  BY DEF Descriptors
<1>4. (Unnoticed => lost < MaxLost)'
  BY DEF Unnoticed
<1>5. Accounted'
  <2>1. Open' = Open
    BY DEF Open, Free
  <2> QED
    BY <2>1 DEF Accounted, Allowance
<1> QED
  BY <1>1, <1>2, <1>3, <1>4, <1>5

(* disconnect() closes what sock_fd_ names and leaves no connection. *)
LEMMA DisconnectKeeps ==
  ASSUME ClientInv, Disconnect
  PROVE  ClientInv'
<1> USE NoFdFree DEF ClientInv, Disconnect, flags, history, Close
<1>1. TypeOK'
  BY DEF TypeOK, Positions
<1>2. StoppedForGood' /\ Positions'
  BY DEF StoppedForGood, Positions
<1>3. Descriptors'
  BY DEF Descriptors
<1>4. (Unnoticed => lost < MaxLost)'
  BY DEF Positions, Unnoticed
<1>5. Accounted'
  <2>1. Open' \subseteq Open
    BY DEF Open, Free
  <2> QED
    BY <2>1, NoneOpened, OpenFinite DEF Accounted, Allowance, TypeOK
<1> QED
  BY <1>1, <1>2, <1>3, <1>4, <1>5

(* The head of listener_loop. *)
LEMMA TopKeeps ==
  ASSUME ClientInv, Top
  PROVE  ClientInv'
<1> USE NoFdFree DEF ClientInv, Top, flags, history
<1>1. TypeOK'
  BY DEF TypeOK
<1>2. StoppedForGood' /\ Positions'
  BY DEF StoppedForGood, Positions, Dialling, Talking
<1>3. Descriptors'
  BY DEF Positions, Descriptors
<1>4. (Unnoticed => lost < MaxLost)'
  BY DEF Unnoticed, State
<1>5. Accounted'
  <2>1. Open' = Open
    BY DEF Open, Free
  <2> QED
    BY <2>1 DEF Accounted, Allowance, Positions
<1> QED
  BY <1>1, <1>2, <1>3, <1>4, <1>5

(* connect() opens a descriptor over the one it had: the one allowed, or   *)
(* one leaked by a connection lost or given up, or by a stop().            *)
LEMMA SocketKeeps ==
  ASSUME ClientInv, Socket
  PROVE  ClientInv'
<1> USE NoFdFree DEF ClientInv, Socket, flags, history
<1>1. TypeOK'
  <2>1. CASE Free = {}
    BY <2>1 DEF TypeOK
  <2>2. CASE Free # {}
    BY LowestIn DEF TypeOK, Free
  <2> QED
    BY <2>1, <2>2
<1>2. StoppedForGood' /\ Positions'
  BY DEF StoppedForGood, Positions, Talking
<1>3. Descriptors'
  <2>1. CASE Free = {}
    BY <2>1 DEF Descriptors
  <2>2. CASE Free # {}
    BY LowestIn DEF TypeOK, Descriptors, Free
  <2> QED
    BY <2>1, <2>2
<1>4. (Unnoticed => lost < MaxLost)'
  BY DEF Unnoticed
<1>5. Accounted'
  <2>1. CASE Free = {}
    <3>1. Open' = Open
      BY <2>1 DEF Open, Free
    <3> QED
      BY <3>1, OpenFinite DEF Accounted, Allowance, TypeOK
  <2>2. CASE Free # {}
    <3>1. Lowest(Free) \notin Open /\ Open' = Open \cup {Lowest(Free)}
      BY <2>2, LowestIn DEF Open, Free, TypeOK
    <3>2. Cardinality(Open') = Cardinality(Open) + 1
      BY <3>1, OneOpened
    <3> QED
      BY <2>2, <3>2, OpenFinite DEF Accounted, Allowance, TypeOK, StoppedForGood
  <2> QED
    BY <2>1, <2>2
<1> QED
  BY <1>1, <1>2, <1>3, <1>4, <1>5

(* ::connect succeeds only on the socket that socket() returned. *)
LEMMA DialKeeps ==
  ASSUME ClientInv, Dial
  PROVE  ClientInv'
<1> USE NoFdFree DEF ClientInv, Dial, flags, history
<1>1. TypeOK'
  BY DEF TypeOK
<1>2. StoppedForGood' /\ Positions'
  BY DEF StoppedForGood, Positions, Dialling, Talking
<1>3. Descriptors'
  BY DEF TypeOK, Descriptors
<1>4. (Unnoticed => lost < MaxLost)'
  BY DEF TypeOK, Unnoticed, State
<1>5. Accounted'
  <2>1. Open' = Open
    BY DEF Open, Free, TypeOK, State
  <2> QED
    BY <2>1 DEF Accounted, Allowance
<1> QED
  BY <1>1, <1>2, <1>3, <1>4, <1>5

(* connected_ is set on an open connection. *)
LEMMA DialledKeeps ==
  ASSUME ClientInv, Dialled
  PROVE  ClientInv'
<1> USE NoFdFree DEF ClientInv, Dialled, flags, history
<1>1. TypeOK'
  BY DEF TypeOK
<1>2. StoppedForGood' /\ Positions'
  BY DEF StoppedForGood, Positions, Dialling
<1>3. Descriptors'
  BY DEF Descriptors
<1>4. (Unnoticed => lost < MaxLost)'
  BY DEF Unnoticed, State
<1>5. Accounted'
  <2>1. Open' = Open
    BY DEF Open, Free
  <2> QED
    BY <2>1 DEF Accounted, Allowance
<1> QED
  BY <1>1, <1>2, <1>3, <1>4, <1>5

(* A connect() that failed closes its socket. *)
LEMMA DialFailedKeeps ==
  ASSUME ClientInv, DialFailed
  PROVE  ClientInv'
<1> USE NoFdFree DEF ClientInv, DialFailed, flags, history, Close
<1>1. TypeOK'
  BY DEF TypeOK
<1>2. StoppedForGood' /\ Positions'
  BY DEF StoppedForGood, Positions, Dialling, Talking
<1>3. Descriptors'
  BY DEF Descriptors
<1>4. (Unnoticed => lost < MaxLost)'
  BY DEF Unnoticed
<1>5. Accounted'
  <2>1. CASE app = "serving"
    <3>1. sock_fd \in Open /\ Open' = Open \ {sock_fd}
      BY <2>1 DEF Open, Free, Descriptors
    <3>2. Cardinality(Open') = Cardinality(Open) - 1
      BY <3>1, OneClosed
    <3> QED
      BY <3>2, OpenFinite DEF Accounted, Allowance, TypeOK
  <2>2. CASE app # "serving"
    <3>1. Open' \subseteq Open
      BY DEF Open, Free
    <3> QED
      BY <2>2, <3>1, NoneOpened, OpenFinite DEF Accounted, Allowance, TypeOK
  <2> QED
    BY <2>1, <2>2
<1> QED
  BY <1>1, <1>2, <1>3, <1>4, <1>5

(* The listener waits and goes round. *)
LEMMA BackoffKeeps ==
  ASSUME ClientInv, Backoff
  PROVE  ClientInv'
<1> USE NoFdFree DEF ClientInv, Backoff, flags, history
<1>1. TypeOK'
  BY DEF TypeOK
<1>2. StoppedForGood' /\ Positions'
  BY DEF StoppedForGood, Positions, Talking
<1>3. Descriptors'
  BY DEF Positions, Descriptors
<1>4. (Unnoticed => lost < MaxLost)'
  BY DEF Positions, Unnoticed
<1>5. Accounted'
  <2>1. Open' = Open
    BY DEF Open, Free
  <2> QED
    BY <2>1 DEF Accounted, Allowance, Positions
<1> QED
  BY <1>1, <1>2, <1>3, <1>4, <1>5

(* A read begins, of sock_fd_ if it names a socket. *)
LEMMA EnterKeeps ==
  ASSUME ClientInv, Enter
  PROVE  ClientInv'
<1> USE NoFdFree DEF ClientInv, Enter, flags, history
<1>1. TypeOK'
  BY DEF TypeOK
<1>2. StoppedForGood' /\ Positions'
  BY DEF StoppedForGood, Positions, Dialling, Talking
<1>3. Descriptors'
  BY DEF TypeOK, Descriptors
<1>4. (Unnoticed => lost < MaxLost)'
  BY DEF Unnoticed, Reading, State
<1>5. Accounted'
  <2>1. Open' = Open
    BY DEF Open, Free
  <2> QED
    BY <2>1 DEF Accounted, Allowance, Descriptors, State
<1> QED
  BY <1>1, <1>2, <1>3, <1>4, <1>5

(* A connection that is lost or given up is counted once: the bound has    *)
(* not been reached while a lost one is unnoticed.                         *)
LEMMA ReadKeeps ==
  ASSUME ClientInv, Read
  PROVE  ClientInv'
<1> USE NoFdFree DEF ClientInv, Read, flags, history
<1>1. TypeOK'
  <2>1. CASE UNCHANGED <<connected, lost>>
    BY <2>1 DEF TypeOK
  <2>2. CASE /\ IF cmd THEN lost < MaxLost ELSE Reading = "left"
             /\ connected' = FALSE /\ lost' = lost + 1 /\ listener' = "top"
    <3>1. lost' \in 0 .. MaxLost
      BY <2>2, ClientAssumption DEF TypeOK, Unnoticed
    <3> QED
      BY <2>2, <3>1 DEF TypeOK
  <2> QED
    BY <2>1, <2>2
<1>2. StoppedForGood' /\ Positions'
  BY DEF StoppedForGood, Positions, Dialling, Talking
<1>3. Descriptors'
  BY DEF Descriptors
<1>4. (Unnoticed => lost < MaxLost)'
  BY DEF Descriptors, Unnoticed, Reading, State
<1>5. Accounted'
  <2>1. Open' = Open
    BY DEF Open, Free
  <2> QED
    BY <2>1, OpenFinite DEF Accounted, Allowance, TypeOK
<1> QED
  BY <1>1, <1>2, <1>3, <1>4, <1>5

(* The rest of a message, or end of file. *)
LEMMA PayloadKeeps ==
  ASSUME ClientInv, Payload
  PROVE  ClientInv'
<1> USE NoFdFree DEF ClientInv, Payload, flags, history
<1>1. TypeOK'
  <2>1. lost' \in 0 .. MaxLost
    BY ClientAssumption DEF TypeOK, Unnoticed
  <2> QED
    BY <2>1 DEF TypeOK
<1>2. StoppedForGood' /\ Positions'
  BY DEF StoppedForGood, Positions, Dialling, Talking
<1>3. Descriptors'
  BY DEF Descriptors
<1>4. (Unnoticed => lost < MaxLost)'
  BY DEF Unnoticed, State
<1>5. Accounted'
  <2>1. Open' = Open
    BY DEF Open, Free
  <2> QED
    BY <2>1, OpenFinite DEF Accounted, Allowance, TypeOK, Positions, Descriptors, State, Talking
<1> QED
  BY <1>1, <1>2, <1>3, <1>4, <1>5

(* The handler runs and reports. *)
LEMMA HandleKeeps ==
  ASSUME ClientInv, Handle
  PROVE  ClientInv'
<1> USE NoFdFree DEF ClientInv, Handle, flags, history
<1>1. TypeOK'
  BY DEF TypeOK
<1>2. StoppedForGood' /\ Positions'
  BY DEF StoppedForGood, Positions, Dialling, Talking
<1>3. Descriptors'
  BY DEF Descriptors
<1>4. (Unnoticed => lost < MaxLost)'
  BY DEF Unnoticed, State
<1>5. Accounted'
  <2>1. Open' = Open
    BY DEF Open, Free
  <2> QED
    BY <2>1 DEF Accounted, Allowance, Positions, Descriptors, State, Talking
<1> QED
  BY <1>1, <1>2, <1>3, <1>4, <1>5

(* The daemon starts. *)
LEMMA DaemonUpKeeps ==
  ASSUME ClientInv, DaemonUp
  PROVE  ClientInv'
<1> USE NoFdFree DEF ClientInv, DaemonUp, flags, history
<1>1. TypeOK'
  BY DEF TypeOK
<1>2. StoppedForGood' /\ Positions'
  BY DEF StoppedForGood, Positions
<1>3. Descriptors'
  BY DEF Descriptors
<1>4. (Unnoticed => lost < MaxLost)'
  BY DEF Unnoticed, Reading, State
<1>5. Accounted'
  <2>1. Open' = Open
    BY DEF Open, Free
  <2> QED
    BY <2>1 DEF Accounted, Allowance
<1> QED
  BY <1>1, <1>2, <1>3, <1>4, <1>5

(* The daemon goes away: every connection is lost, and noticed later. *)
LEMMA DaemonDownKeeps ==
  ASSUME ClientInv, DaemonDown
  PROVE  ClientInv'
<1> USE NoFdFree DEF ClientInv, DaemonDown, flags, history
<1>1. TypeOK'
  BY DEF TypeOK
<1>2. StoppedForGood' /\ Positions'
  BY DEF StoppedForGood, Positions
<1>3. Descriptors'
  BY DEF Descriptors
<1>4. (Unnoticed => lost < MaxLost)'
  BY <1>1
<1>5. Accounted'
  <2>1. Open' = Open
    BY DEF Open, Free
  <2> QED
    BY <2>1 DEF Accounted, Allowance
<1> QED
  BY <1>1, <1>2, <1>3, <1>5

(* The daemon sends a command. *)
LEMMA CommandKeeps ==
  ASSUME ClientInv, Command
  PROVE  ClientInv'
<1> USE NoFdFree DEF ClientInv, Command, flags, history
<1>1. TypeOK'
  BY DEF TypeOK
<1>2. StoppedForGood' /\ Positions'
  BY DEF StoppedForGood, Positions
<1>3. Descriptors'
  BY DEF Descriptors
<1>4. (Unnoticed => lost < MaxLost)'
  BY DEF Unnoticed, Reading, State
<1>5. Accounted'
  <2>1. Open' = Open
    BY DEF Open, Free
  <2> QED
    BY <2>1 DEF Accounted, Allowance
<1> QED
  BY <1>1, <1>2, <1>3, <1>4, <1>5

-----------------------------------------------------------------------------
(* The invariant, and what it gives.                                       *)

LEMMA InitClient == Init => ClientInv
<1> SUFFICES ASSUME Init PROVE ClientInv
  OBVIOUS
<1> USE NoFdFree DEF Init
<1>1. TypeOK
  <2>1. stops \in 0 .. MaxStops /\ lost \in 0 .. MaxLost
    BY ClientAssumption
  <2>2. table \in [Fds -> {"free", "new", "open", "left"}]
    OBVIOUS
  <2> QED
    BY <2>1 DEF TypeOK
<1>2. StoppedForGood /\ Positions /\ Descriptors
  BY DEF StoppedForGood, Positions, Descriptors
<1>3. ~Unnoticed
  BY DEF Unnoticed
<1>4. Accounted
  <2>1. Open = {}
    BY DEF Open, Free
  <2> QED
    BY <2>1, FS_EmptySet DEF Accounted, Allowance
<1> QED
  BY <1>1, <1>2, <1>3, <1>4 DEF ClientInv

LEMMA StepClient == ClientInv /\ [Next]_vars => ClientInv'
<1> SUFFICES ASSUME ClientInv, [Next]_vars PROVE ClientInv'
  OBVIOUS
<1>1. CASE Start
  BY <1>1, StartKeeps
<1>2. CASE Stopping
  BY <1>2, StopFlagKeeps, StopLoadKeeps, StopSwapKeeps, StopCloseKeeps, StopClearKeeps,
     StopJoinKeeps, DisconnectKeeps DEF Stopping
<1>3. CASE Listener
  BY <1>3, TopKeeps, SocketKeeps, DialKeeps, DialledKeeps, DialFailedKeeps, BackoffKeeps,
     EnterKeeps, ReadKeeps, PayloadKeeps, HandleKeeps DEF Listener
<1>4. CASE DaemonUp \/ DaemonDown \/ Command
  BY <1>4, DaemonUpKeeps, DaemonDownKeeps, CommandKeeps
<1>5. CASE UNCHANGED vars
  BY <1>5 DEF vars, flags, history, ClientInv, TypeOK, StoppedForGood, Positions, Descriptors,
     Unnoticed, Accounted, Allowance, Open, Free, State, Reading
<1> QED
  BY <1>1, <1>2, <1>3, <1>4, <1>5 DEF Next

LEMMA ClientInvariant == Spec => []ClientInv
  BY InitClient, StepClient, PTL DEF Spec

(* The threads' shared state stays well formed, whatever the interleaving: *)
(* among others, a connection that the daemon closes is counted once.      *)
THEOREM ClientTypeOK == Spec => []TypeOK
<1>1. ClientInv => TypeOK
  BY DEF ClientInv
<1> QED
  BY <1>1, ClientInvariant, PTL

(* After stop() has returned no listener thread runs, and sock_fd_ and     *)
(* connected_ are clear, although stop_listening and connect() write them  *)
(* without a lock.                                                         *)
THEOREM StopIsFinal == Spec => []StoppedForGood
<1>1. ClientInv => StoppedForGood
  BY DEF ClientInv
<1> QED
  BY <1>1, ClientInvariant, PTL

(* However connect() and stop_listening overtake each other, at most one   *)
(* descriptor leaks for every connection lost or given up and every        *)
(* stop(), and none while the client retries.                              *)
THEOREM LeaksAreBounded == Spec => []LeaksBounded
<1>1. ClientInv => LeaksBounded
  <2> SUFFICES ASSUME ClientInv PROVE LeaksBounded
    OBVIOUS
  <2>1. Allowance \in Int /\ Allowance <= (IF app = "idle" THEN 0 ELSE 1)
    BY DEF Allowance
  <2> QED
    BY <2>1, OpenFinite DEF ClientInv, TypeOK, Accounted, LeaksBounded
<1> QED
  BY <1>1, ClientInvariant, PTL

=============================================================================
