---------------------------- MODULE SystemProofs ----------------------------
(***************************************************************************)
(* The composed system, for any number of clients, tiers and keys and any  *)
(* entry size: types, what the registry may believe, and what a handled    *)
(* SHRINK leaves behind.                                                   *)
(***************************************************************************)
EXTENDS GovernorSystem, SequenceTheorems, TLAPS

Note == [type : {"REGISTER", "REPORT_SIZE"}, current_size_bytes : Nat]
Order == [type : {"SHRINK", "GROW"}, target_bytes : Nat]

(* Only a SHRINK or a GROW is ever dispatched. *)
Dispatchable == dispatching => action.type \in {"SHRINK", "GROW"}

TypeInv == TypeOK /\ Dispatchable

-----------------------------------------------------------------------------
(* Arithmetic and sequences.                                               *)

(* Products and quotients of sizes are naturals. *)
LEMMA NatProduct ==
  ASSUME NEW a \in Nat, NEW b \in Nat PROVE a * b \in Nat
  OBVIOUS

LEMMA NatQuotient ==
  ASSUME NEW a \in Nat, NEW b \in Nat \ {0} PROVE a \div b \in Nat
  OBVIOUS

LEMMA BytesNat ==
  ASSUME NEW n \in Nat PROVE Bytes(n) \in Nat
  BY SystemAssumption, NatProduct DEF Bytes

(* What a broadcast asks for is a natural number of bytes. *)
LEMMA TargetNat ==
  ASSUME TypeInv, NEW k \in Registered PROVE Target(k) \in Nat
  <1>1. registry[k] \in Nat /\ action.fraction \in 0 .. 100
    BY DEF TypeInv, TypeOK, Registered, Ladder!PolicyAction
  <1>2. /\ 100 - action.fraction \in Nat
        /\ 100 + action.fraction \in Nat
    BY <1>1
  <1>3. /\ registry[k] * (100 - action.fraction) \in Nat
        /\ registry[k] * (100 + action.fraction) \in Nat
    BY <1>1, <1>2, NatProduct
  <1> QED BY <1>3, NatQuotient DEF Target

(* Broadcasting to some of the registered clients appends to their queues. *)
LEMMA CommandedType ==
  ASSUME TypeInv, dispatching, NEW sent \in SUBSET Registered
  PROVE  Commanded(sent) \in [Clients -> Seq(Order)]
  <1> SUFFICES ASSUME NEW k \in Clients
               PROVE  Commanded(sent)[k] \in Seq(Order)
    BY DEF Commanded
  <1>1. toClient[k] \in Seq(Order)
    BY DEF TypeInv, TypeOK, Order
  <1>2. CASE k \in sent
    <2>1. [type |-> action.type, target_bytes |-> Target(k)] \in Order
      BY <1>2, TargetNat DEF TypeInv, Dispatchable, Order
    <2>2. Append(toClient[k], [type |-> action.type, target_bytes |-> Target(k)])
            \in Seq(Order)
      BY <1>1, <2>1, AppendProperties
    <2> QED BY <1>2, <2>2 DEF Commanded
  <1>3. CASE k \notin sent
    BY <1>1, <1>3 DEF Commanded
  <1> QED BY <1>2, <1>3

(* The daemon's end leaves the types alone. *)
LEMMA CloseAllType ==
  ASSUME TypeInv, NEW pending \in [Clients -> Seq(Order)], CloseAll(pending)
  PROVE  TypeInv'
  <1>1. tier' \in 0 .. NumTiers - 1 /\ action' \in Ladder!PolicyAction
    BY SystemAssumption
    DEF CloseAll, Ladder!NORMAL, Ladder!Answer, Ladder!PolicyAction, Ladder!Tiers
  <1>2. toDaemon' \in [Clients -> Seq(Note)] /\ toClient' \in [Clients -> Seq(Order)]
    BY DEF CloseAll
  <1> QED
    BY <1>1, <1>2
    DEF CloseAll, TypeInv, TypeOK, Dispatchable, Absent, ConnState, Note, Order, clientVars

(* A client's end leaves them alone, too. *)
LEMMA CloseEndType ==
  ASSUME TypeInv, NEW k \in Clients, CloseEnd(k)
  PROVE  conn' \in [Clients -> ConnState] /\ toClient' \in [Clients -> Seq(Order)]
  BY DEF CloseEnd, TypeInv, TypeOK, ConnState, Order

LEMMA CloseEndConn ==
  ASSUME TypeInv, NEW j \in Clients, NEW k \in Clients, CloseEnd(j)
  PROVE  /\ conn'[k] \in {"none", "daemonClosed"} => conn[k] \in {"none", "daemonClosed"}
         /\ conn[k] = "none" => conn'[k] = "none"
  <1>1. conn[j] \in ConnState /\ conn \in [Clients -> ConnState]
    BY DEF TypeInv, TypeOK
  <1>2. CASE j = k
    BY <1>1, <1>2 DEF CloseEnd, ConnState
  <1>3. CASE j # k
    BY <1>1, <1>3 DEF CloseEnd
  <1> QED BY <1>2, <1>3

LEMMA HangUpType ==
  ASSUME TypeInv, NEW k \in Clients, NEW fate \in LifeState, HangUp(k, fate),
         UNCHANGED daemonVars, toDaemon' \in [Clients -> Seq(Note)]
  PROVE  TypeInv'
  <1>1. toClient' \in [Clients -> Seq(Order)] /\ conn' \in [Clients -> ConnState]
    BY CloseEndType DEF HangUp
  <1>2. life' \in [Clients -> LifeState] /\ listener' \in [Clients -> Position]
    BY DEF HangUp, TypeInv, TypeOK, Position
  <1>3. size' \in [Clients -> Nat] /\ capacity' \in [Clients -> Nat]
    BY DEF HangUp, TypeInv, TypeOK
  <1> QED
    BY <1>1, <1>2, <1>3
    DEF TypeInv, TypeOK, Dispatchable, Order, Note, daemonVars

(* A message of the client is appended to its queue. *)
LEMMA SentType ==
  ASSUME TypeInv, NEW k \in Clients, NEW n \in Nat,
         NEW type \in {"REGISTER", "REPORT_SIZE"}
  PROVE  /\ Message(type, n) \in Note
         /\ Sent(k, Message(type, n)) \in [Clients -> Seq(Note)]
  <1>1. Message(type, n) \in Note
    BY BytesNat DEF Message, Note
  <1>2. toDaemon \in [Clients -> Seq(Note)]
    BY DEF TypeInv, TypeOK, Note
  <1>3. Append(toDaemon[k], Message(type, n)) \in Seq(Note)
    BY <1>1, <1>2, AppendProperties
  <1> QED BY <1>1, <1>2, <1>3 DEF Sent

(* The oldest command of a client, and the capacity it asks for. *)
LEMMA HeadCommand ==
  ASSUME TypeInv, NEW k \in Clients, toClient[k] # <<>>
  PROVE  /\ Head(toClient[k]) \in Order
         /\ TargetCapacity(k) \in Nat
         /\ Resized(k) \in Nat /\ Resized(k) <= TargetCapacity(k)
         /\ Resized(k) <= size[k]
         /\ Tail(toClient[k]) \in Seq(Order)
  <1>1. toClient[k] \in Seq(Order) /\ size[k] \in Nat
    BY DEF TypeInv, TypeOK, Order
  <1>2. Head(toClient[k]) \in Order /\ Tail(toClient[k]) \in Seq(Order)
    BY <1>1, HeadTailProperties
  <1>3. TargetCapacity(k) \in Nat
    BY <1>2, NatQuotient, SystemAssumption DEF TargetCapacity, Order
  <1> QED BY <1>1, <1>2, <1>3 DEF Resized

-----------------------------------------------------------------------------
(* Types.                                                                  *)

LEMMA InitType == Init => TypeInv
  <1> SUFFICES ASSUME Init PROVE TypeInv
    OBVIOUS
  <1>1. tier \in 0 .. NumTiers - 1 /\ action \in Ladder!PolicyAction
    BY SystemAssumption
    DEF Init, Ladder!Init, Ladder!NORMAL, Ladder!Answer, Ladder!PolicyAction, Ladder!Tiers
  <1>2. toDaemon \in [Clients -> Seq(Note)] /\ toClient \in [Clients -> Seq(Order)]
    BY DEF Init
  <1>3. /\ conn \in [Clients -> ConnState] /\ life \in [Clients -> LifeState]
        /\ registry \in [Clients -> Nat \cup {Absent}]
        /\ listener \in [Clients -> Position]
    BY DEF Init, ConnState, LifeState, Position
  <1>4. size \in [Clients -> Nat] /\ capacity \in [Clients -> Nat]
    BY SystemAssumption DEF Init
  <1> QED
    BY <1>1, <1>2, <1>3, <1>4
    DEF Init, TypeInv, TypeOK, Dispatchable, Note, Order

LEMMA DaemonType ==
  ASSUME TypeInv,
         \/ DaemonStart \/ DaemonStop \/ DaemonCrash \/ Evaluate \/ Broadcast
  PROVE  TypeInv'
  <1>1. toClient \in [Clients -> Seq(Order)]
    BY DEF TypeInv, TypeOK, Order
  <1>2. CASE DaemonStart
    BY <1>2 DEF DaemonStart, TypeInv, TypeOK, Dispatchable, socketVars, clientVars
  <1>3. CASE DaemonStop
    BY <1>1, <1>3, CloseAllType DEF DaemonStop
  <1>4. CASE DaemonCrash \/ DispatchKilled
    <2>1. PICK told \in SUBSET Registered : dispatching /\ CloseAll(Commanded(told))
      BY <1>4 DEF DaemonCrash, DispatchKilled
    <2> QED BY <2>1, CommandedType, CloseAllType
  <1>5. CASE Evaluate
    <2>1. /\ tier' \in 0 .. NumTiers - 1 /\ action' \in Ladder!PolicyAction
          /\ action'.type \in {"SHRINK", "GROW"}
      <3>1. tier \in 0 .. NumTiers - 1
        BY DEF TypeInv, TypeOK
      <3>2. CASE Ladder!Up
        <4>1. tier + 1 \in 0 .. NumTiers - 1 /\ ShrinkPct[tier + 1] \in 0 .. 100
          BY <3>1, <3>2, SystemAssumption DEF Ladder!Up
        <4> QED
          BY <3>2, <4>1 DEF Ladder!Up, Ladder!Answer, Ladder!PolicyAction, Ladder!Tiers
      <3>3. CASE Ladder!Down
        <4>1. tier - 1 \in 0 .. NumTiers - 1 /\ ShrinkPct[tier] \in 0 .. 100
          BY <3>1, <3>3, SystemAssumption DEF Ladder!Down, Ladder!NORMAL
        <4> QED
          BY <3>3, <4>1 DEF Ladder!Down, Ladder!Answer, Ladder!PolicyAction, Ladder!Tiers
      <3> QED BY <1>5, <3>2, <3>3 DEF Evaluate
    <2> QED
      BY <1>5, <2>1
      DEF Evaluate, TypeInv, TypeOK, Dispatchable, socketVars, clientVars
  <1>6. CASE Dispatch
    <2>1. toClient' \in [Clients -> Seq(Order)]
      BY <1>6, CommandedType DEF Dispatch
    <2>2. tier' \in 0 .. NumTiers - 1 /\ action' \in Ladder!PolicyAction
      BY <1>6
      DEF Dispatch, TypeInv, TypeOK, Ladder!Stay, Ladder!Answer, Ladder!PolicyAction,
          Ladder!Tiers
    <2> QED
      BY <1>6, <2>1, <2>2
      DEF Dispatch, TypeInv, TypeOK, Dispatchable, Order, clientVars
  <1> QED BY <1>2, <1>3, <1>4, <1>5, <1>6 DEF Broadcast

LEMMA EpollType ==
  ASSUME TypeInv, NEW k \in Clients, Epoll(k)
  PROVE  TypeInv'
  <1>1. toDaemon[k] \in Seq(Note)
    BY DEF TypeInv, TypeOK, Note
  <1>2. CASE Accept(k)
    BY <1>2 DEF Accept, TypeInv, TypeOK, Dispatchable, ConnState, clientVars
  <1>3. CASE Receive(k)
    <2>1. Head(toDaemon[k]) \in Note /\ Tail(toDaemon[k]) \in Seq(Note)
      BY <1>1, <1>3, HeadTailProperties DEF Receive
    <2>2. registry' \in [Clients -> Nat \cup {Absent}]
      BY <1>3, <2>1 DEF Receive, TypeInv, TypeOK, Note
    <2>3. toDaemon' \in [Clients -> Seq(Note)]
      BY <1>3, <2>1 DEF Receive, TypeInv, TypeOK, Note
    <2> QED
      BY <1>3, <2>2, <2>3
      DEF Receive, TypeInv, TypeOK, Dispatchable, Note, clientVars
  <1>4. CASE Remove(k)
    BY <1>4 DEF Remove, TypeInv, TypeOK, Dispatchable, ConnState, clientVars
  <1> QED BY <1>2, <1>3, <1>4 DEF Epoll

LEMMA ClientType ==
  ASSUME TypeInv, NEW k \in Clients,
         \/ Listen(k) \/ Starting(k)
         \/ Connect(k) \/ Put(k) \/ Stop(k) \/ ClientCrash(k)
  PROVE  TypeInv'
  <1>1. CASE Connect(k)
    BY <1>1 DEF Connect, TypeInv, TypeOK, Dispatchable, ConnState, LifeState, daemonVars
  <1>2. CASE Register(k)
    <2>1. size[k] \in Nat
      BY DEF TypeInv, TypeOK
    <2>2. toDaemon' \in [Clients -> Seq(Note)]
      BY <1>2, <2>1, SentType DEF Register
    <2> QED
      BY <1>2, <2>2
      DEF Register, TypeInv, TypeOK, Dispatchable, LifeState, Position, Note, daemonVars
  <1>3. CASE RegisterKilled(k) \/ ReportKilled(k) \/ ClientCrash(k) \/ StopDone(k)
    <2>1. PICK fate \in LifeState : HangUp(k, fate) /\ UNCHANGED <<daemonVars, toDaemon>>
      BY <1>3 DEF RegisterKilled, ReportKilled, ClientCrash, StopDone, LifeState
    <2> QED BY <2>1, HangUpType DEF TypeInv, TypeOK, Note
  <1>4. CASE Put(k)
    BY <1>4 DEF Put, TypeInv, TypeOK, Dispatchable, daemonVars, socketVars
  <1>5. CASE EnterRead(k)
    BY <1>5 DEF EnterRead, TypeInv, TypeOK, Dispatchable, Position, daemonVars, socketVars
  <1>8. CASE Stop(k)
    <2>1. conn' \in [Clients -> ConnState] /\ toClient' \in [Clients -> Seq(Order)]
      BY <1>8, CloseEndType DEF Stop, TypeInv, TypeOK, Order
    <2> QED
      BY <1>8, <2>1 DEF Stop, TypeInv, TypeOK, Dispatchable, LifeState, Order, daemonVars
  <1>10. CASE Report(k)
    BY <1>10 DEF Report, TypeInv, TypeOK, Dispatchable, Position, daemonVars, socketVars
  <1>11. CASE WriteReport(k)
    <2>1. toDaemon' \in [Clients -> Seq(Note)]
      BY <1>11, SentType DEF WriteReport, TypeInv, TypeOK
    <2>2. CASE HangUp(k, "stopped")
      BY <1>11, <2>1, <2>2, HangUpType DEF WriteReport, LifeState
    <2>3. CASE /\ listener' = [listener EXCEPT ![k] = "top"]
               /\ UNCHANGED <<conn, toClient, life, size, capacity>>
      BY <1>11, <2>1, <2>3
      DEF WriteReport, TypeInv, TypeOK, Dispatchable, Note, Position, daemonVars
    <2> QED BY <1>11, <2>2, <2>3 DEF WriteReport
  <1>6. CASE Command(k)
    <2>1. toClient[k] # <<>>
      BY <1>6 DEF Command
    <2>2. toClient' \in [Clients -> Seq(Order)]
      BY <1>6, <2>1, HeadCommand DEF Command, TypeInv, TypeOK, Order
    <2>3. /\ listener' \in [Clients -> Position]
          /\ size' \in [Clients -> Nat] /\ capacity' \in [Clients -> Nat]
      <3>1. CASE Apply(k)
        BY <2>1, <3>1, HeadCommand DEF Apply, TypeInv, TypeOK, Position
      <3>2. CASE Ignore(k)
        BY <3>2 DEF Ignore, TypeInv, TypeOK, Position
      <3> QED BY <1>6, <3>1, <3>2 DEF Command
    <2> QED
      BY <1>6, <2>2, <2>3
      DEF Command, TypeInv, TypeOK, Dispatchable, Order, daemonVars
  <1>7. CASE EndOfFile(k)
    BY <1>7
    DEF EndOfFile, TypeInv, TypeOK, Dispatchable, ConnState, LifeState, Position, daemonVars
  <1>9. CASE Reconnect(k)
    BY <1>9
    DEF Reconnect, TypeInv, TypeOK, Dispatchable, ConnState, LifeState, Position, daemonVars
  <1> QED
    BY <1>1, <1>2, <1>3, <1>4, <1>5, <1>6, <1>7, <1>8, <1>9, <1>10, <1>11
    DEF Listen, Starting

LEMMA NextType == TypeInv /\ [Next]_vars => TypeInv'
  <1> SUFFICES ASSUME TypeInv, [Next]_vars PROVE TypeInv'
    OBVIOUS
  <1>1. CASE UNCHANGED vars
    BY <1>1 DEF vars, daemonVars, socketVars, clientVars, TypeInv, TypeOK, Dispatchable
  <1> QED BY <1>1, DaemonType, EpollType, ClientType DEF Next

(* Every variable keeps its type: sizes, targets and reported bytes never  *)
(* go below zero, and only SHRINK and GROW are broadcast.                  *)
THEOREM SystemTypeOK == Spec => []TypeOK
  <1>1. TypeInv => TypeOK
    BY DEF TypeInv
  <1> QED BY <1>1, InitType, NextType, PTL DEF Spec

-----------------------------------------------------------------------------
(* What the registry believes.                                             *)

(* The size the daemon will hold for a client once it has read everything  *)
(* that is under way.                                                      *)
Latest(k) ==
  IF toDaemon[k] = <<>> THEN registry[k]
  ELSE toDaemon[k][Len(toDaemon[k])].current_size_bytes

(* The client is connected and its listener owes no report. *)
Settled(k) == conn[k] \in {"backlog", "open"} /\ listener[k] \notin Reporting

(* The inductive form of NeverOverestimated: also with messages unread. *)
Honest(k) == Settled(k) => Latest(k) <= Bytes(size[k])

HonestInv == \A k \in Clients : Honest(k)

(* Where there is no connection the daemon has neither a record nor an     *)
(* unread message, and a client that is about to connect has none: a new   *)
(* connection starts from nothing.                                         *)
SocketInv ==
  \A k \in Clients :
    /\ conn[k] \in {"none", "daemonClosed"} =>
         registry[k] = Absent /\ toDaemon[k] = <<>>
    /\ life[k] \in {"new", "failed", "lost"} => conn[k] = "none"

LEMMA BytesMonotonic ==
  ASSUME NEW m \in Nat, NEW n \in Nat, m <= n
  PROVE  Bytes(m) <= Bytes(n)
  <1>1. PICK d \in Nat : n = m + d
    <2>1. n - m \in Nat /\ n = m + (n - m)
      OBVIOUS
    <2> QED BY <2>1
  <1>2. n * EntryBytes = m * EntryBytes + d * EntryBytes
    BY <1>1, SystemAssumption
  <1>3. d * EntryBytes \in Nat /\ m * EntryBytes \in Nat
    BY <1>1, NatProduct, SystemAssumption
  <1> QED BY <1>2, <1>3 DEF Bytes

(* The last element of a queue after an Append and after a Tail. *)
LEMMA LastOfAppend ==
  ASSUME NEW S, NEW q \in Seq(S), NEW e \in S
  PROVE  /\ Append(q, e) # <<>>
         /\ Append(q, e)[Len(Append(q, e))] = e
  BY AppendProperties

LEMMA LastOfTail ==
  ASSUME NEW S, NEW q \in Seq(S), q # <<>>
  PROVE  /\ Tail(q) = <<>> => Head(q) = q[Len(q)]
         /\ Tail(q) # <<>> => Tail(q)[Len(Tail(q))] = q[Len(q)]
  <1>1. Len(q) \in Nat /\ Len(q) # 0
    BY EmptySeq
  <1>2. /\ Tail(q) \in Seq(S) /\ Len(Tail(q)) = Len(q) - 1
        /\ \A i \in 1 .. Len(Tail(q)) : Tail(q)[i] = q[i + 1]
        /\ Head(q) = q[1]
    BY HeadTailProperties
  <1>3. ASSUME Tail(q) = <<>> PROVE Len(q) = 1
    <2>1. Len(Tail(q)) = 0
      BY <1>3, EmptySeq
    <2>2. Len(Tail(q)) = Len(q) - 1
      BY <1>2
    <2> QED BY <1>1, <2>1, <2>2
  <1>4. ASSUME Tail(q) # <<>> PROVE Len(q) - 1 \in 1 .. Len(Tail(q))
    <2>1. Len(Tail(q)) \in Nat \ {0}
      BY <1>2, <1>4, EmptySeq
    <2> QED BY <1>2, <2>1
  <1> QED BY <1>1, <1>2, <1>3, <1>4

(* A step that tells the daemon nothing new and does not shrink the cache. *)
LEMMA HonestFrame ==
  ASSUME TypeInv, NEW k \in Clients, Honest(k),
         Latest(k)' = Latest(k), size'[k] \in Nat, size[k] <= size'[k],
         Settled(k)' => Settled(k)
  PROVE  Honest(k)'
  <1>1. ASSUME Settled(k)' PROVE Latest(k)' <= Bytes(size'[k])
    <2>2. size[k] \in Nat /\ Bytes(size[k]) <= Bytes(size'[k])
      BY BytesMonotonic DEF TypeInv, TypeOK
    <2>3. Bytes(size[k]) \in Nat /\ Bytes(size'[k]) \in Nat
      BY <2>2, BytesNat
    <2>4. Latest(k) <= Bytes(size[k])
      BY <1>1 DEF Honest
    <2>5. Latest(k) \in Int
      <3>1. CASE toDaemon[k] = <<>>
        BY <3>1 DEF Latest, TypeInv, TypeOK, Absent
      <3>2. CASE toDaemon[k] # <<>>
        <4>1. toDaemon[k] \in Seq(Note)
          BY DEF TypeInv, TypeOK, Note
        <4>2. Len(toDaemon[k]) \in 1 .. Len(toDaemon[k])
          BY <3>2, <4>1, EmptySeq
        <4>3. toDaemon[k][Len(toDaemon[k])] \in Note
          BY <4>1, <4>2, ElementOfSeq
        <4> QED BY <3>2, <4>3 DEF Latest, Note
      <3> QED BY <3>1, <3>2
    <2> QED BY <2>2, <2>3, <2>4, <2>5
  <1> QED BY <1>1 DEF Honest

(* The client has just said how large it is. *)
LEMMA HonestSent ==
  ASSUME TypeInv, NEW k \in Clients, NEW type \in {"REGISTER", "REPORT_SIZE"},
         size'[k] \in Nat, toDaemon' = Sent(k, Message(type, size'[k]))
  PROVE  Honest(k)'
  <1> DEFINE m == Message(type, size'[k])
  <1>1. toDaemon \in [Clients -> Seq(Note)] /\ m \in Note
    BY SentType DEF TypeInv, TypeOK, Note
  <1>2. m.current_size_bytes = Bytes(size'[k]) /\ Bytes(size'[k]) \in Nat
    BY BytesNat DEF Message
  <1>3. toDaemon'[k] = Append(toDaemon[k], m)
    BY <1>1 DEF Sent
  <1> HIDE DEF m
  <1>4. toDaemon'[k] # <<>> /\ toDaemon'[k][Len(toDaemon'[k])] = m
    BY <1>1, <1>3, LastOfAppend
  <1>5. Latest(k)' = Bytes(size'[k])
    BY <1>2, <1>4 DEF Latest
  <1> QED BY <1>2, <1>5 DEF Honest

(* The daemon has forgotten the client, or has just accepted it. *)
LEMMA HonestFresh ==
  ASSUME NEW k \in Clients, registry'[k] \in {0, Absent}, toDaemon'[k] = <<>>,
         size'[k] \in Nat
  PROVE  Honest(k)'
  <1>1. Latest(k)' <= 0
    BY DEF Latest, Absent
  <1>2. Bytes(size'[k]) \in Nat /\ Latest(k)' \in {0, -1}
    BY BytesNat DEF Latest, Absent
  <1> QED BY <1>1, <1>2 DEF Honest

LEMMA InitHonest == Init => HonestInv /\ SocketInv
  <1> SUFFICES ASSUME Init PROVE HonestInv /\ SocketInv
    OBVIOUS
  <1>1. \A k \in Clients : conn[k] = "none" /\ registry[k] = Absent /\ toDaemon[k] = <<>>
    BY DEF Init
  <1> QED BY <1>1 DEF HonestInv, Honest, Settled, SocketInv

LEMMA NextSocket ==
  ASSUME TypeInv, SocketInv, [Next]_vars
  PROVE  SocketInv'
  <1> DEFINE Fine(k) ==
        /\ conn[k] \in {"none", "daemonClosed"} =>
             registry[k] = Absent /\ toDaemon[k] = <<>>
        /\ life[k] \in {"new", "failed", "lost"} => conn[k] = "none"
  <1> SUFFICES ASSUME NEW k \in Clients PROVE Fine(k)'
    BY DEF SocketInv
  <1>1. Fine(k)
    BY DEF SocketInv
  <1>2. /\ conn \in [Clients -> ConnState] /\ registry \in [Clients -> Nat \cup {Absent}]
        /\ toDaemon \in [Clients -> Seq(Note)] /\ life \in [Clients -> LifeState]
    BY DEF TypeInv, TypeOK, Note
  <1>3. CASE UNCHANGED <<conn, registry, toDaemon, life>>
    BY <1>1, <1>3
  <1>4. CASE UNCHANGED vars \/ DaemonStart \/ Evaluate \/ Dispatch
    BY <1>3, <1>4
    DEF vars, daemonVars, socketVars, clientVars, DaemonStart, Evaluate, Dispatch
  <1>5. ASSUME NEW pending, CloseAll(pending) PROVE Fine(k)'
    BY <1>1, <1>2, <1>5 DEF CloseAll, clientVars, ConnState
  <1>6. ASSUME NEW j \in Clients, Epoll(j) PROVE Fine(k)'
    BY <1>1, <1>2, <1>6 DEF Epoll, Accept, Receive, Remove, clientVars, Absent
  <1>7. ASSUME NEW j \in Clients, NEW fate \in {"stopped", "dead", "killed"},
               HangUp(j, fate), registry' = registry,
               \/ toDaemon' = toDaemon
               \/ Writable(j) /\ \E msg : toDaemon' = Sent(j, msg)
        PROVE  Fine(k)'
    <2>1. CASE toDaemon' = toDaemon
      BY <1>1, <1>2, <1>7, <2>1, CloseEndConn DEF HangUp
    <2>2. CASE Writable(j) /\ \E msg : toDaemon' = Sent(j, msg)
      BY <1>1, <1>2, <1>7, <2>2, CloseEndConn DEF HangUp, Sent, Writable
    <2> QED BY <1>7, <2>1, <2>2
  <1>8. ASSUME NEW j \in Clients,
               \/ Listen(j) \/ Starting(j)
               \/ Connect(j) \/ Put(j) \/ Stop(j) \/ ClientCrash(j)
        PROVE  Fine(k)'
    <2>1. CASE Put(j) \/ EnterRead(j) \/ Command(j) \/ Report(j)
      BY <1>3, <2>1
      DEF Put, EnterRead, Command, Report, daemonVars, socketVars
    <2>2. CASE StopDone(j) \/ ClientCrash(j) \/ RegisterKilled(j) \/ ReportKilled(j)
      BY <1>7, <2>2 DEF StopDone, ClientCrash, RegisterKilled, ReportKilled, daemonVars
    <2>3. CASE WriteReport(j)
      <3>1. CASE HangUp(j, "stopped")
        BY <1>7, <2>3, <3>1 DEF WriteReport, daemonVars
      <3>2. CASE UNCHANGED <<conn, life>>
        BY <1>1, <1>2, <2>3, <3>2 DEF WriteReport, Sent, Writable, daemonVars
      <3> QED BY <2>3, <3>1, <3>2 DEF WriteReport
    <2>4. CASE Register(j)
      BY <1>1, <1>2, <2>4 DEF Register, Sent, Writable, daemonVars
    <2>5. CASE Connect(j) \/ Reconnect(j)
      BY <1>1, <1>2, <2>5 DEF Connect, Reconnect, daemonVars
    <2>6. CASE Stop(j)
      BY <1>1, <1>2, <2>6, CloseEndConn DEF Stop, daemonVars
    <2>7. CASE EndOfFile(j)
      BY <1>1, <1>2, <2>7 DEF EndOfFile, daemonVars
    <2> QED BY <1>8, <2>1, <2>2, <2>3, <2>4, <2>5, <2>6, <2>7
      DEF Listen, Starting
  <1>9. CASE DaemonStop \/ DaemonCrash \/ DispatchKilled
    BY <1>5, <1>9 DEF DaemonStop, DaemonCrash, DispatchKilled
  <1> HIDE DEF Fine
  <1> QED BY <1>4, <1>6, <1>8, <1>9 DEF Next, Broadcast

LEMMA DaemonHonest ==
  ASSUME TypeInv, HonestInv, TypeInv',
         \/ DaemonStart \/ DaemonStop \/ DaemonCrash \/ Evaluate \/ Broadcast
  PROVE  HonestInv'
  <1> SUFFICES ASSUME NEW k \in Clients PROVE Honest(k)'
    BY DEF HonestInv
  <1>1. Honest(k) /\ size[k] \in Nat /\ size'[k] \in Nat
    BY DEF HonestInv, TypeInv, TypeOK
  <1>2. CASE DaemonStart \/ Evaluate \/ Dispatch
    <2>1. /\ Latest(k)' = Latest(k) /\ size'[k] = size[k]
          /\ Settled(k)' = Settled(k)
      BY <1>2 DEF DaemonStart, Evaluate, Dispatch, Latest, Settled, socketVars, clientVars
    <2> QED BY <1>1, <2>1, HonestFrame
  <1>3. CASE DaemonStop \/ DaemonCrash \/ DispatchKilled
    <2>1. registry'[k] = Absent /\ toDaemon'[k] = <<>>
      BY <1>3 DEF DaemonStop, DaemonCrash, DispatchKilled, CloseAll
    <2> QED BY <1>1, <2>1, HonestFresh
  <1> QED BY <1>2, <1>3 DEF Broadcast

LEMMA EpollHonest ==
  ASSUME TypeInv, HonestInv, TypeInv', NEW j \in Clients, Epoll(j)
  PROVE  HonestInv'
  <1> SUFFICES ASSUME NEW k \in Clients PROVE Honest(k)'
    BY DEF HonestInv
  <1>1. /\ Honest(k) /\ size[k] \in Nat
        /\ size'[k] = size[k]
        /\ Settled(k)' => Settled(k)
    BY DEF HonestInv, Settled, TypeInv, TypeOK, Epoll, Accept, Receive, Remove, clientVars
  <1>2. CASE k # j
    <2>1. Latest(k)' = Latest(k)
      BY <1>2 DEF Epoll, Accept, Receive, Remove, Latest, TypeInv, TypeOK
    <2> QED BY <1>1, <2>1, HonestFrame
  <1>3. CASE k = j /\ Accept(k)
    <2>1. CASE toDaemon[k] = <<>>
      <3>1. registry'[k] = 0 /\ toDaemon'[k] = <<>>
        BY <1>3, <2>1 DEF Accept, TypeInv, TypeOK
      <3> QED BY <1>1, <3>1, HonestFresh
    <2>2. CASE toDaemon[k] # <<>>
      <3>1. Latest(k)' = Latest(k)
        BY <1>3, <2>2 DEF Accept, Latest
      <3> QED BY <1>1, <3>1, HonestFrame
    <2> QED BY <2>1, <2>2
  <1>4. CASE k = j /\ Receive(k)
    <2>1. toDaemon[k] \in Seq(Note) /\ toDaemon[k] # <<>>
      BY <1>4 DEF Receive, TypeInv, TypeOK, Note
    <2>2. /\ registry'[k] = Head(toDaemon[k]).current_size_bytes
          /\ toDaemon'[k] = Tail(toDaemon[k])
      BY <1>4 DEF Receive, TypeInv, TypeOK
    <2>3. Latest(k)' = Latest(k)
      BY <2>1, <2>2, LastOfTail DEF Latest
    <2> QED BY <1>1, <2>3, HonestFrame
  <1>5. CASE k = j /\ Remove(k)
    <2>1. registry'[k] = Absent /\ toDaemon'[k] = <<>>
      BY <1>5 DEF Remove, TypeInv, TypeOK
    <2> QED BY <1>1, <2>1, HonestFresh
  <1> QED BY <1>2, <1>3, <1>4, <1>5 DEF Epoll

LEMMA ClientHonest ==
  ASSUME TypeInv, HonestInv, SocketInv, TypeInv', NEW j \in Clients,
         \/ Listen(j) \/ Starting(j)
         \/ Connect(j) \/ Put(j) \/ Stop(j) \/ ClientCrash(j)
  PROVE  HonestInv'
  <1> SUFFICES ASSUME NEW k \in Clients PROVE Honest(k)'
    BY DEF HonestInv
  <1>1. Honest(k) /\ size[k] \in Nat /\ size'[k] \in Nat
    BY DEF HonestInv, TypeInv, TypeOK
  <1>2. CASE k # j
    <2>1. /\ registry' = registry /\ toDaemon'[k] = toDaemon[k] /\ size'[k] = size[k]
          /\ conn'[k] = conn[k] /\ listener'[k] = listener[k]
      <3> USE <1>2 DEF HangUp, CloseEnd, TypeInv, TypeOK, daemonVars, socketVars
      <3>1. CASE Connect(j) \/ Put(j)
        BY <3>1 DEF Connect, Put
      <3>2. CASE Stop(j) \/ EndOfFile(j)
        BY <3>2 DEF Stop, EndOfFile
      <3>3. CASE EnterRead(j) \/ Reconnect(j) \/ Report(j)
        BY <3>3 DEF EnterRead, Reconnect, Report
      <3>4. CASE StopDone(j) \/ ClientCrash(j) \/ RegisterKilled(j) \/ ReportKilled(j)
        BY <3>4 DEF StopDone, ClientCrash, RegisterKilled, ReportKilled
      <3>5. CASE Register(j)
        BY <3>5 DEF Register, Sent
      <3>6. CASE WriteReport(j)
        BY <3>6 DEF WriteReport, Sent
      <3>7. CASE Command(j)
        BY <3>7 DEF Command, Apply, Ignore
      <3> QED
        BY <3>1, <3>2, <3>3, <3>4, <3>5, <3>6, <3>7 DEF Listen, Starting
    <2>2. Latest(k)' = Latest(k) /\ Settled(k)' = Settled(k)
      BY <2>1 DEF Latest, Settled
    <2> QED BY <1>1, <2>1, <2>2, HonestFrame
  <1>3. ASSUME UNCHANGED <<registry, toDaemon>>, size[k] <= size'[k], Settled(k)' => Settled(k)
        PROVE  Honest(k)'
    <2>1. Latest(k)' = Latest(k)
      BY <1>3 DEF Latest
    <2> QED BY <1>1, <1>3, <2>1, HonestFrame
  <1>4. CASE k = j /\ (EnterRead(k) \/ Stop(k) \/ Put(k))
    <2>1. /\ UNCHANGED <<registry, toDaemon>> /\ size[k] <= size'[k]
          /\ Settled(k)' => Settled(k)
      BY <1>1, <1>4
      DEF EnterRead, Stop, Put, CloseEnd, Settled, Reporting, daemonVars, socketVars,
          TypeInv, TypeOK
    <2> QED BY <1>3, <2>1
  <1>5. CASE k = j /\ (Connect(k) \/ Reconnect(k))
    <2>1. registry'[k] = Absent /\ toDaemon'[k] = <<>>
      BY <1>5 DEF Connect, Reconnect, SocketInv, daemonVars
    <2> QED BY <1>1, <2>1, HonestFresh
  <1>6. ASSUME ~Settled(k)' PROVE Honest(k)'
    BY <1>6 DEF Honest
  <1>7. ASSUME NEW fate, HangUp(k, fate) PROVE ~Settled(k)'
    BY <1>7 DEF HangUp, CloseEnd, Settled, TypeInv, TypeOK
  <1>8. CASE k = j /\ (StopDone(k) \/ ClientCrash(k) \/ RegisterKilled(k) \/ ReportKilled(k))
    BY <1>6, <1>7, <1>8 DEF StopDone, ClientCrash, RegisterKilled, ReportKilled
  <1>9. CASE k = j /\ (EndOfFile(k) \/ Report(k))
    <2>1. ~Settled(k)'
      BY <1>9 DEF EndOfFile, Report, Settled, Reporting, TypeInv, TypeOK
    <2> QED BY <1>6, <2>1
  <1>10. CASE k = j /\ Register(k)
    <2>1. toDaemon' = Sent(k, Message("REGISTER", size'[k]))
      BY <1>10 DEF Register
    <2> QED BY <1>1, <2>1, HonestSent
  <1>11. CASE k = j /\ WriteReport(k)
    <2>1. CASE HangUp(k, "stopped")
      BY <1>6, <1>7, <2>1
    <2>2. CASE size' = size
      <3>1. toDaemon' = Sent(k, Message("REPORT_SIZE", size'[k]))
        BY <1>11, <2>2 DEF WriteReport
      <3> QED BY <1>1, <3>1, HonestSent
    <2> QED BY <1>11, <2>1, <2>2 DEF WriteReport
  <1>12. CASE k = j /\ Command(k)
    <2>1. CASE Apply(k)
      <3>1. ~Settled(k)'
        BY <2>1 DEF Apply, Settled, Reporting, TypeInv, TypeOK
      <3> QED BY <1>6, <3>1
    <2>2. CASE Ignore(k)
      <3>1. /\ UNCHANGED <<registry, toDaemon>> /\ size[k] <= size'[k]
            /\ Settled(k)' => Settled(k)
        BY <1>1, <1>12, <2>2 DEF Command, Reading, Ignore, Settled, Reporting, daemonVars
      <3> QED BY <1>3, <3>1
    <2> QED BY <1>12, <2>1, <2>2 DEF Command
  <1> QED
    BY <1>2, <1>4, <1>5, <1>8, <1>9, <1>10, <1>11, <1>12
    DEF Listen, Starting

(* For any number of clients and any traffic, stops, crashes and           *)
(* reconnects, the daemon takes no connected client for larger than it is, *)
(* unless a report of it is under way: what evicts holds the cache's mutex *)
(* until its report is in the socket, and what is unread says no more.     *)
THEOREM RegistryNeverOverestimates == Spec => []NeverOverestimated
  <1>1. TypeInv /\ HonestInv /\ SocketInv /\ [Next]_vars => HonestInv'
    <2> SUFFICES ASSUME TypeInv, HonestInv, SocketInv, [Next]_vars PROVE HonestInv'
      OBVIOUS
    <2>1. TypeInv'
      BY NextType
    <2>2. CASE UNCHANGED vars
      BY <2>2
      DEF vars, daemonVars, socketVars, clientVars, HonestInv, Honest, Latest, Settled
    <2> QED BY <2>1, <2>2, DaemonHonest, EpollHonest, ClientHonest DEF Next
  <1>2. TypeInv /\ HonestInv => NeverOverestimated
    BY DEF HonestInv, Honest, Settled, Latest, NeverOverestimated, Registered
  <1>3. TypeInv /\ SocketInv /\ [Next]_vars => SocketInv'
    BY NextSocket
  <1> QED BY <1>1, <1>2, <1>3, InitType, NextType, InitHonest, PTL DEF Spec

-----------------------------------------------------------------------------
(* What a SHRINK leaves behind.                                            *)

(* A cache with a positive capacity is within it: handle_shrink may leave  *)
(* alone a cache whose capacity is low enough already.                     *)
WithinCapacity == \A k \in Clients : capacity[k] # 0 => size[k] <= capacity[k]

LEMMA NextWithin ==
  ASSUME TypeInv, WithinCapacity, [Next]_vars
  PROVE  WithinCapacity'
  <1> SUFFICES ASSUME NEW k \in Clients, capacity'[k] # 0
               PROVE  size'[k] <= capacity'[k]
    BY DEF WithinCapacity
  <1>1. /\ size \in [Clients -> Nat] /\ capacity \in [Clients -> Nat]
        /\ size[k] \in Nat /\ capacity[k] \in Nat
        /\ capacity[k] # 0 => size[k] <= capacity[k]
    BY DEF WithinCapacity, TypeInv, TypeOK
  <1>2. CASE size'[k] = size[k] /\ capacity'[k] = capacity[k]
    BY <1>1, <1>2
  <1>3. CASE Put(k)
    BY <1>1, <1>3 DEF Put
  <1>4. CASE toClient[k] # <<>> /\ Apply(k)
    <2>1. size'[k] = Resized(k) /\ capacity'[k] = TargetCapacity(k)
      BY <1>1, <1>4 DEF Apply
    <2> QED BY <1>4, <2>1, HeadCommand
  <1>5. ASSUME NEW fate \in LifeState, HangUp(k, fate)
        PROVE  size'[k] <= capacity'[k]
    BY <1>1, <1>5 DEF HangUp
  <1>6. CASE UNCHANGED vars \/ DaemonStart \/ DaemonStop \/ DaemonCrash \/ Evaluate \/ Broadcast
    BY <1>2, <1>6
    DEF vars, clientVars, DaemonStart, DaemonStop, DaemonCrash, Evaluate, Broadcast,
        Dispatch, DispatchKilled, CloseAll
  <1>7. CASE \E j \in Clients : Epoll(j)
    BY <1>2, <1>7 DEF clientVars, Epoll, Accept, Receive, Remove
  <1>8. ASSUME NEW j \in Clients,
               \/ Listen(j) \/ Starting(j)
               \/ Connect(j) \/ Put(j) \/ Stop(j) \/ ClientCrash(j)
        PROVE  size'[k] <= capacity'[k]
    <2>1. CASE k # j
      <3>1. size'[k] = size[k] /\ capacity'[k] = capacity[k]
        BY <1>1, <1>8, <2>1
        DEF Listen, Starting, Connect, Put, Stop, ClientCrash, EnterRead, Command,
            Report, WriteReport, ReportKilled, EndOfFile, Reconnect, StopDone, Register,
            RegisterKilled, HangUp, Apply, Ignore
      <3> QED BY <1>2, <3>1
    <2>2. CASE k = j
      <3>1. CASE \/ Connect(k) \/ EnterRead(k) \/ EndOfFile(k) \/ Reconnect(k)
                 \/ Stop(k) \/ Register(k) \/ Report(k)
        BY <1>2, <3>1 DEF Connect, EnterRead, EndOfFile, Reconnect, Stop, Register, Report
      <3>2. CASE RegisterKilled(k) \/ ReportKilled(k) \/ ClientCrash(k) \/ StopDone(k)
        BY <1>5, <3>2
        DEF RegisterKilled, ReportKilled, ClientCrash, StopDone, LifeState
      <3>3. CASE Command(k) \/ WriteReport(k)
        BY <1>2, <1>4, <1>5, <3>3 DEF Command, Ignore, WriteReport, LifeState
      <3> QED BY <1>3, <1>8, <2>2, <3>1, <3>2, <3>3 DEF Listen, Starting
    <2> QED BY <2>1, <2>2
  <1> QED BY <1>6, <1>7, <1>8 DEF Next

(* No other step looks like the handling of a command. *)
LEMMA QueueLengths ==
  ASSUME NEW S, NEW q \in Seq(S), q # <<>>, NEW e \in S
  PROVE  q # Tail(q) /\ Append(q, e) # Tail(q)
  <1> DEFINE n == Len(q)
             rest == Len(Tail(q))
             more == Len(Append(q, e))
  <1>1. n \in Nat /\ rest = n - 1
    BY HeadTailProperties, LenProperties
  <1>2. more = n + 1
    BY AppendProperties
  <1>3. n # rest /\ more # rest
    <2> HIDE DEF n, rest, more
    <2> QED BY <1>1, <1>2
  <1> QED BY <1>3, Zenon

LEMMA OnlyCommandHandles ==
  ASSUME TypeInv, [Next]_vars, NEW k \in Clients, NEW type, Handles(k, type)
  PROVE  Command(k)
  <1>1. toClient[k] \in Seq(Order) /\ toClient \in [Clients -> Seq(Order)]
    BY DEF TypeInv, TypeOK, Order
  <1>2. toClient'[k] # toClient[k]
    BY <1>1, QueueLengths DEF Handles
  <1>3. ASSUME dispatching, NEW sent \in SUBSET Registered
        PROVE  toClient'[k] # Commanded(sent)[k]
    <2>1. CASE k \in sent
      <3>1. [type |-> action.type, target_bytes |-> Target(k)] \in Order
        BY <1>3, <2>1, TargetNat DEF TypeInv, Dispatchable, Order
      <3> QED BY <1>1, <2>1, <3>1, QueueLengths DEF Handles, Commanded
    <2>2. CASE k \notin sent
      BY <1>2, <2>2 DEF Commanded
    <2> QED BY <2>1, <2>2
  <1>4. ~DaemonStart /\ ~DaemonStop /\ ~Evaluate /\ ~UNCHANGED vars
    BY <1>2 DEF DaemonStart, DaemonStop, Evaluate, CloseAll, socketVars, vars
  <1>5. ~Dispatch /\ ~DispatchKilled /\ ~DaemonCrash
    BY <1>3 DEF Dispatch, DispatchKilled, DaemonCrash, CloseAll
  <1>6. ASSUME NEW j \in Clients, Epoll(j) PROVE FALSE
    BY <1>2, <1>6 DEF Epoll, Accept, Receive, Remove
  <1>7. ASSUME NEW j \in Clients, NEW fate \in LifeState \ {"connected"}, HangUp(j, fate)
        PROVE  FALSE
    <2>1. CASE j = k
      BY <1>7, <2>1 DEF HangUp, Handles, TypeInv, TypeOK
    <2>2. CASE j # k
      BY <1>1, <1>2, <1>7, <2>2 DEF HangUp, CloseEnd
    <2> QED BY <2>1, <2>2
  <1>8. ASSUME NEW j \in Clients,
               \/ Listen(j) \/ Starting(j)
               \/ Connect(j) \/ Put(j) \/ Stop(j) \/ ClientCrash(j)
        PROVE  Command(k)
    <2>1. ~RegisterKilled(j) /\ ~ReportKilled(j) /\ ~ClientCrash(j) /\ ~StopDone(j)
      BY <1>7
      DEF RegisterKilled, ReportKilled, ClientCrash, StopDone, LifeState
    <2>2. ~WriteReport(j) /\ ~Stop(j)
      <3>1. ASSUME Stop(j) PROVE FALSE
        BY <1>1, <1>2, <3>1 DEF Stop, CloseEnd, Handles, TypeInv, TypeOK
      <3>2. ASSUME WriteReport(j) PROVE FALSE
        BY <1>2, <1>7, <3>2 DEF WriteReport, LifeState
      <3> QED BY <3>1, <3>2
    <2>4. Command(j)
      BY <1>2, <1>8, <2>1, <2>2
      DEF Listen, Starting, Connect, Put, EnterRead, Report, EndOfFile, Reconnect, Register,
          socketVars
    <2>3. j = k
      BY <1>1, <1>2, <2>4 DEF Command
    <2> QED BY <2>3, <2>4
  <1> QED BY <1>4, <1>5, <1>6, <1>8 DEF Next, Broadcast

(* A cache grows only by a put, and its capacity only by a command. *)
LEMMA OnlyPutGrows ==
  ASSUME TypeInv, WithinCapacity, [Next]_vars, NEW k \in Clients
  PROVE  /\ size'[k] > size[k] /\ capacity[k] # 0 => size'[k] <= capacity[k]
         /\ capacity'[k] > capacity[k] => Command(k)
  <1>1. /\ size \in [Clients -> Nat] /\ capacity \in [Clients -> Nat]
        /\ size[k] \in Nat /\ capacity[k] \in Nat
        /\ capacity[k] # 0 => size[k] <= capacity[k]
    BY DEF TypeInv, TypeOK, WithinCapacity
  <1> DEFINE Goal == /\ size'[k] > size[k] /\ capacity[k] # 0 => size'[k] <= capacity[k]
                     /\ capacity'[k] > capacity[k] => Command(k)
  <1> SUFFICES Goal
    OBVIOUS
  <1>2. CASE size'[k] = size[k] /\ capacity'[k] = capacity[k]
    BY <1>1, <1>2
  <1>3. ASSUME NEW j \in Clients, NEW fate \in LifeState, HangUp(j, fate) PROVE Goal
    BY <1>1, <1>3 DEF HangUp
  <1>4. CASE UNCHANGED vars \/ DaemonStart \/ DaemonStop \/ DaemonCrash \/ Evaluate \/ Broadcast
    BY <1>2, <1>4
    DEF vars, clientVars, DaemonStart, DaemonStop, DaemonCrash, Evaluate, Broadcast,
        Dispatch, DispatchKilled, CloseAll
  <1>5. CASE \E j \in Clients : Epoll(j)
    BY <1>2, <1>5 DEF clientVars, Epoll, Accept, Receive, Remove
  <1>6. ASSUME NEW j \in Clients,
               \/ Listen(j) \/ Starting(j)
               \/ Connect(j) \/ Put(j) \/ Stop(j) \/ ClientCrash(j)
        PROVE  Goal
    <2>1. CASE \/ Connect(j) \/ EnterRead(j) \/ EndOfFile(j) \/ Reconnect(j)
               \/ Stop(j) \/ Register(j) \/ Report(j)
      BY <1>2, <2>1 DEF Connect, EnterRead, EndOfFile, Reconnect, Stop, Register, Report
    <2>2. CASE RegisterKilled(j) \/ ReportKilled(j) \/ ClientCrash(j) \/ StopDone(j)
      BY <1>3, <2>2 DEF RegisterKilled, ReportKilled, ClientCrash, StopDone, LifeState
    <2>3. CASE WriteReport(j)
      BY <1>2, <1>3, <2>3 DEF WriteReport, LifeState
    <2>4. CASE Put(j)
      BY <1>1, <2>4 DEF Put
    <2>5. CASE Command(j)
      <3>1. CASE j = k
        <4>1. CASE Apply(k)
          <5>1. toClient[k] # <<>> /\ size'[k] = Resized(k)
            BY <1>1, <2>5, <3>1, <4>1 DEF Command, Apply
          <5>2. Resized(k) \in Nat /\ Resized(k) <= size[k]
            BY <5>1, HeadCommand
          <5> QED BY <1>1, <2>5, <3>1, <5>1, <5>2
        <4>2. CASE Ignore(k)
          BY <1>2, <4>2 DEF Ignore
        <4> QED BY <2>5, <3>1, <4>1, <4>2 DEF Command
      <3>2. CASE j # k
        BY <1>1, <1>2, <2>5, <3>2 DEF Command, Apply, Ignore
      <3> QED BY <3>1, <3>2
    <2> HIDE DEF Goal
    <2> QED BY <1>6, <2>1, <2>2, <2>3, <2>4, <2>5 DEF Listen, Starting
  <1> HIDE DEF Goal
  <1> QED BY <1>4, <1>5, <1>6 DEF Next

(* Whatever the client's size and capacity have become since the daemon    *)
(* computed the target, a SHRINK that is handled leaves at most the target *)
(* if the capacity was positive; then only a GROW lifts the capacity, and  *)
(* no put exceeds it unless it is zero.                                    *)
THEOREM ShrinksHonoured == Spec => ShrinkHonoured
  <1> DEFINE Honoured ==
        \A k \in Clients :
          /\ Handles(k, "SHRINK") /\ capacity[k] # 0 =>
               size'[k] <= TargetCapacity(k) /\ capacity'[k] <= TargetCapacity(k)
          /\ capacity'[k] > capacity[k] => Handles(k, "GROW")
          /\ size'[k] > size[k] /\ capacity[k] # 0 => size'[k] <= capacity[k]
  <1>1. Init => WithinCapacity
    BY SystemAssumption DEF Init, WithinCapacity
  <1>2. TypeInv /\ WithinCapacity /\ [Next]_vars => WithinCapacity'
    BY NextWithin
  <1>3. ASSUME TypeInv, WithinCapacity, [Next]_vars PROVE Honoured
    <2> SUFFICES ASSUME NEW k \in Clients
                 PROVE  /\ Handles(k, "SHRINK") /\ capacity[k] # 0 =>
                             /\ size'[k] <= TargetCapacity(k)
                             /\ capacity'[k] <= TargetCapacity(k)
                        /\ capacity'[k] > capacity[k] => Handles(k, "GROW")
                        /\ size'[k] > size[k] /\ capacity[k] # 0 => size'[k] <= capacity[k]
      OBVIOUS
    <2>1. /\ size \in [Clients -> Nat] /\ capacity \in [Clients -> Nat]
          /\ size[k] \in Nat /\ capacity[k] \in Nat
          /\ capacity[k] # 0 => size[k] <= capacity[k]
      BY <1>3 DEF TypeInv, TypeOK, WithinCapacity
    <2>2. ASSUME Handles(k, "SHRINK"), capacity[k] # 0
          PROVE  size'[k] <= TargetCapacity(k) /\ capacity'[k] <= TargetCapacity(k)
      <3>1. Command(k) /\ toClient[k] # <<>> /\ Head(toClient[k]).type = "SHRINK"
        BY <1>3, <2>2, OnlyCommandHandles DEF Handles
      <3>2. /\ TargetCapacity(k) \in Nat
            /\ Resized(k) \in Nat /\ Resized(k) <= TargetCapacity(k)
        BY <1>3, <3>1, HeadCommand
      <3>3. CASE Apply(k)
        BY <2>1, <3>2, <3>3 DEF Apply
      <3>4. CASE ~Applies(k) /\ Ignore(k)
        BY <2>1, <2>2, <3>1, <3>2, <3>4 DEF Applies, Ignore
      <3> QED BY <3>1, <3>3, <3>4 DEF Command
    <2>3. ASSUME capacity'[k] > capacity[k] PROVE Handles(k, "GROW")
      <3>1. Command(k) /\ toClient[k] # <<>>
        BY <1>3, <2>3, OnlyPutGrows DEF Command
      <3>2. Head(toClient[k]) \in Order /\ TargetCapacity(k) \in Nat
        BY <1>3, <3>1, HeadCommand
      <3>3. Applies(k) /\ capacity'[k] = TargetCapacity(k)
        BY <2>1, <2>3, <3>1 DEF Command, Apply, Ignore
      <3>4. Head(toClient[k]).type = "GROW"
        BY <2>1, <2>3, <3>2, <3>3 DEF Applies, Order
      <3>5. toClient'[k] = Tail(toClient[k]) /\ life'[k] = "connected"
        BY <1>3, <3>1 DEF Command, Reading, TypeInv, TypeOK
      <3> QED BY <3>1, <3>4, <3>5 DEF Handles
    <2> QED BY <1>3, <2>2, <2>3, OnlyPutGrows
  <1>4. TypeInv /\ WithinCapacity /\ [Next]_vars => [Honoured]_vars
    BY <1>3
  <1> HIDE DEF Honoured
  <1>5. [][Honoured]_vars => ShrinkHonoured
    BY DEF Honoured, ShrinkHonoured
  <1> QED BY <1>1, <1>2, <1>4, <1>5, InitType, NextType, PTL DEF Spec

=============================================================================
