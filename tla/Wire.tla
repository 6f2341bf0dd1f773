-------------------------------- MODULE Wire --------------------------------
(***************************************************************************)
(* One direction of one connection, byte by byte: Message of protocol.h    *)
(* (serialize, deserialize, frame), the loops that write a frame, and the  *)
(* two readers.  With side = "daemon" the bytes go from a client to        *)
(* ClientRegistry::handle_client_message, which is driven by an            *)
(* edge-triggered epoll on a non-blocking socket; with side = "client"     *)
(* from the registry to GovernorClient::listener_loop, which blocks.  The  *)
(* kernel may cut a write anywhere, and the writer may close or die at any *)
(* point.  Characters are cells: a key with its quotes is one cell, a      *)
(* number one cell per digit.                                              *)
(***************************************************************************)
EXTENDS Integers, SequencesExt

CONSTANTS
  Senders,       \* threads that may send on the connection
  Types, Numbers,
  Chars,         \* the cells that types and numbers are written with
  Text,          \* how each of them is written
  Messages,      \* what is sent to each side
  PrefixBytes,   \* sizeof(uint32_t)
  MaxFrame,      \* the largest length the client accepts (65536)
  Lengths,       \* what four bytes that are no prefix may be read as
  Cuts,          \* bound: what a write may leave unwritten of its frame
  MaxSent        \* bound: messages per behaviour

Sides == {"daemon", "client"}

Numeric == <<"pid", "target_bytes", "current_size_bytes", "tier">>
Fields == {"type"} \cup ToSet(Numeric)

(* The cells of the keys, and all the cells that are not part of a value. *)
Key ==
  [type |-> "key type", pid |-> "key pid", target_bytes |-> "key target_bytes",
   current_size_bytes |-> "key current_size_bytes", tier |-> "key tier"]

Structural == {"{", "}", ":", ",", "quote", "newline"} \cup {Key[k] : k \in Fields}

ASSUME WireAssumption ==
  /\ Senders # {}
  /\ PrefixBytes \in Nat \ {0} /\ MaxFrame \in Nat /\ MaxSent \in Nat
  /\ Lengths \subseteq Nat /\ Cuts \subseteq Nat /\ 0 \in Cuts
  /\ Types \cap Numbers = {} /\ "UNKNOWN" \in Types /\ "0" \in Numbers
  /\ Text \in [Types \cup Numbers -> Seq(Chars) \ {<<>>}]
  /\ \A v, w \in DOMAIN Text : Text[v] = Text[w] => v = w
  /\ Chars \cap Structural = {}
  /\ \A x \in Sides : \A m \in Messages[x] :
       /\ m \in [Fields -> Types \cup Numbers]
       /\ m["type"] \in Types /\ \A i \in DOMAIN Numeric : m[Numeric[i]] \in Numbers

-----------------------------------------------------------------------------
(* protocol.h *)

Pair(m, i) == <<",", Key[Numeric[i]], ":">> \o Text[m[Numeric[i]]]

serialize(m) ==
  <<"{", Key["type"], ":", "quote">> \o Text[m["type"]] \o <<"quote">>
    \o Pair(m, 1) \o Pair(m, 2) \o Pair(m, 3) \o Pair(m, 4) \o <<"}">>

(* The first place of a text, from a given one on, with one of the cells:  *)
(* a set of one place, or of none (npos).                                  *)
find(json, from, cells) ==
  {i \in from .. Len(json) :
     json[i] \in cells /\ \A j \in from .. i - 1 : json[j] \notin cells}

find_not(json, from, cells) ==
  {i \in from .. Len(json) :
     json[i] \notin cells /\ \A j \in from .. i - 1 : json[j] \in cells}

(* The value of a key, cut out of the text; none if there is no such value. *)
extract_string(json, key) ==
  LET colons == UNION {find(json, k, {":"}) : k \in find(json, 1, {Key[key]})}
      starts == UNION {find_not(json, c + 1, {"quote"}) : c \in colons}
      ends(s) == find(json, s, IF json[s - 1] = "quote" THEN {"quote"} ELSE {",", "}"})
  IN  UNION {{SubSeq(json, s, e - 1) : e \in ends(s)} : s \in starts}

(* The types or numbers that are written like that. *)
ReadAs(texts, values) == {v \in values : Text[v] \in texts}

string_to_type(texts) ==
  IF ReadAs(texts, Types) = {} THEN "UNKNOWN" ELSE CHOOSE t \in ReadAs(texts, Types) : TRUE

(* std::stoi and std::stoull throw on what is not a number; an empty value *)
(* is not converted.                                                       *)
stoi(texts) ==
  IF texts \subseteq {<<>>} THEN {"0"} ELSE ReadAs(texts, Numbers)

throws(json) ==
  \E i \in DOMAIN Numeric : stoi(extract_string(json, Numeric[i])) = {}

deserialize(json) ==
  [k \in Fields |->
     IF k = "type" THEN string_to_type(extract_string(json, k))
     ELSE CHOOSE n \in stoi(extract_string(json, k)) : TRUE]

(* The bytes of a frame: each cell says which byte of the prefix it is,    *)
(* with the length it is part of, or which character of the payload.       *)
frame(m) ==
  LET payload == Append(serialize(m), "newline")
  IN  [i \in 1 .. PrefixBytes + Len(payload) |->
        IF i <= PrefixBytes
        THEN [byte |-> i, len |-> Len(payload), char |-> "binary"]
        ELSE [byte |-> 0, len |-> 0, char |-> payload[i - PrefixBytes]]]

(* The lengths the cells of a prefix may be read as: the one that was      *)
(* written, or anything when they are not one whole prefix.                *)
ntohl(cells) ==
  IF \A i \in 1 .. PrefixBytes : cells[i].byte = i /\ cells[i].len = cells[1].len
  THEN {cells[1].len} ELSE Lengths

-----------------------------------------------------------------------------

VARIABLES
  side,     \* who reads
  mutex,    \* the senders that hold send_mutex_ (or clients_mutex_)
  job,      \* what each sender has still to write of its frame
  wire,     \* bytes in the socket's buffer
  closed,   \* the writer has closed the connection, or died
  ready,    \* edge-triggered readiness the epoll has not reported yet
  reader,   \* where the reader is
  buf,      \* the part of the payload that has been read
  msg_len,
  insync,   \* no prefix has been dropped by the daemon half read
  sent, queue, got   \* history: how many were sent; see Channel

writerVars == <<mutex, job, closed, sent>>
readerVars == <<reader, buf, msg_len, insync, got>>
vars == <<side, writerVars, wire, ready, readerVars, queue>>

Init ==
  /\ side \in Sides
  /\ mutex = {}
  /\ job = [s \in Senders |-> <<>>]
  /\ wire = <<>>
  /\ closed = FALSE
  /\ ready = FALSE
  /\ reader = IF side = "daemon" THEN "epoll" ELSE "prefix"
  /\ buf = <<>>
  /\ msg_len = 0
  /\ insync = TRUE
  /\ sent = 0
  /\ queue = <<>>
  /\ got = <<>>

Broken == reader \in {"removed", "disconnected", "terminated"}

(* Mutant: the frame is written without the mutex. *)
LockNone(s) == TRUE

(* std::lock_guard: one sender at a time. *)
Lock(s) == mutex = {}

(* send_message, send_to_client: take the mutex and frame the message. *)
Send(s) ==
  /\ ~closed /\ ~Broken
  /\ job[s] = <<>> /\ sent < MaxSent
  /\ Lock(s)
  /\ \E m \in Messages[side] :
       /\ job' = [job EXCEPT ![s] = frame(m)]
       /\ queue' = Append(queue, m)
  /\ mutex' = mutex \cup {s}
  /\ sent' = sent + 1
  /\ UNCHANGED <<side, closed, wire, ready, readerVars>>

(* One write of the loop: the kernel takes as much as it likes. *)
Write(s) ==
  /\ ~closed /\ ~Broken
  /\ \E left \in {c \in Cuts : c < Len(job[s])} :
       LET n == Len(job[s]) - left IN
       /\ wire' = wire \o SubSeq(job[s], 1, n)
       /\ job' = [job EXCEPT ![s] = SubSeq(@, n + 1, Len(@))]
       /\ mutex' = IF left = 0 THEN mutex \ {s} ELSE mutex
  /\ ready' = TRUE
  /\ UNCHANGED <<side, closed, sent, readerVars, queue>>

(* The writer closes the connection or dies, also in the middle of a frame. *)
Close ==
  /\ ~closed
  /\ closed' = TRUE
  /\ ready' = TRUE
  /\ UNCHANGED <<side, mutex, job, sent, wire, readerVars, queue>>

(* epoll_wait reports the connection: EPOLLHUP removes the client without  *)
(* a look at what it sent last, anything else is read.                     *)
Event ==
  /\ reader = "epoll"
  /\ ready
  /\ ready' = FALSE
  /\ reader' = IF closed THEN "removed" ELSE "prefix"
  /\ UNCHANGED <<side, writerVars, wire, buf, msg_len, insync, got, queue>>

(* Mutant: the read is as large as what is there, not as the frame. *)
TakenAll(n) == [i \in DOMAIN wire |-> wire[i].char]

(* What is left of the stream, and the characters read, after a read of at *)
(* most n bytes.                                                           *)
Rest(n) == SubSeq(wire, n + 1, Len(wire))
Taken(n) ==
  [i \in 1 .. (IF n < Len(wire) THEN n ELSE Len(wire)) |-> wire[i].char]

(* End of file. *)
EndOfFile ==
  /\ wire = <<>> /\ closed
  /\ reader' = IF side = "daemon" THEN "removed" ELSE "disconnected"
  /\ UNCHANGED <<wire, buf, msg_len, insync>>

(* EAGAIN between two messages: back to epoll_wait. *)
Drained ==
  /\ wire = <<>> /\ ~closed /\ side = "daemon"
  /\ reader' = "epoll"
  /\ UNCHANGED <<wire, buf, msg_len, insync>>

(* Mutant: the listener drops a prefix read in two parts, as the daemon does. *)
PartialPrefixDropped ==
  /\ 0 < Len(wire) /\ Len(wire) < PrefixBytes
  /\ wire' = <<>>
  /\ insync' = (side = "client" /\ insync)
  /\ UNCHANGED <<reader, buf, msg_len>>

(* Fewer bytes than a prefix: the daemon drops them and reads on, the      *)
(* client gives the connection up.                                         *)
PartialPrefix ==
  /\ 0 < Len(wire) /\ Len(wire) < PrefixBytes
  /\ wire' = <<>>
  /\ \/ side = "daemon" /\ insync' = FALSE /\ UNCHANGED reader
     \/ side = "client" /\ reader' = "disconnected" /\ UNCHANGED insync
  /\ UNCHANGED <<buf, msg_len>>

(* The length; the client refuses none and too much. *)
WholePrefix ==
  /\ Len(wire) >= PrefixBytes
  /\ wire' = Rest(PrefixBytes)
  /\ msg_len' \in ntohl(wire)
  /\ buf' = <<>>
  /\ reader' = IF side = "client" /\ (msg_len' = 0 \/ msg_len' > MaxFrame)
               THEN "disconnected" ELSE "payload"
  /\ UNCHANGED insync

ReadPrefix ==
  /\ reader = "prefix"
  /\ EndOfFile \/ Drained \/ PartialPrefix \/ WholePrefix
  /\ UNCHANGED <<side, writerVars, ready, got, queue>>

(* The payload, in as many reads as it takes: the daemon spins on EAGAIN,  *)
(* the client blocks.                                                      *)
ReadPayload ==
  /\ reader = "payload"
  /\ \/ /\ Len(buf) < msg_len
        /\ EndOfFile
     \/ /\ Len(buf) < msg_len /\ wire # <<>>
        /\ buf' = buf \o Taken(msg_len - Len(buf))
        /\ wire' = Rest(msg_len - Len(buf))
        /\ UNCHANGED <<reader, msg_len, insync>>
     \/ /\ Len(buf) = msg_len
        /\ reader' = "handle"
        /\ UNCHANGED <<wire, buf, msg_len, insync>>
  /\ UNCHANGED <<side, writerVars, ready, got, queue>>

(* Mutant: one message per event. *)
HandleOne ==
  /\ reader = "handle"
  /\ got' = IF throws(buf) THEN got ELSE Append(got, deserialize(buf))
  /\ queue' = IF throws(buf) \/ queue = <<>> THEN queue ELSE Tail(queue)
  /\ reader' = IF side = "daemon" THEN "epoll"
               ELSE IF throws(buf) THEN "terminated" ELSE "prefix"
  /\ buf' = <<>>
  /\ UNCHANGED <<side, writerVars, wire, ready, msg_len, insync>>

(* deserialize and act on the message.  The daemon swallows an exception;  *)
(* in the listener thread nothing catches it.                              *)
Handle ==
  /\ reader = "handle"
  /\ got' = IF throws(buf) THEN got ELSE Append(got, deserialize(buf))
  /\ queue' = IF throws(buf) \/ queue = <<>> THEN queue ELSE Tail(queue)
  /\ reader' = IF throws(buf) /\ side = "client" THEN "terminated" ELSE "prefix"
  /\ buf' = <<>>
  /\ UNCHANGED <<side, writerVars, wire, ready, msg_len, insync>>

Reader == Event \/ ReadPrefix \/ ReadPayload \/ Handle

Next ==
  \/ \E s \in Senders : Send(s) \/ Write(s)
  \/ Close
  \/ Reader

(* A sender inside its loop goes on writing, and a reader reading: neither *)
(* waits for anything but the socket.                                      *)
Spec ==
  /\ Init /\ [][Next]_vars
  /\ \A s \in Senders : WF_vars(Write(s))
  /\ WF_vars(Reader)

-----------------------------------------------------------------------------

(* Types, and the payload never overruns the buffer made for it. *)
TypeOK ==
  /\ side \in Sides
  /\ mutex \subseteq Senders
  /\ reader \in {"epoll", "prefix", "payload", "handle", "removed",
                 "disconnected", "terminated"}
  /\ Len(buf) <= msg_len
  /\ \A i \in DOMAIN got : got[i]["type"] \in Types

(* Frames arrive whole and in order, whoever of the senders wrote them and *)
(* however the kernel cut them up: to a client until it disconnects, to    *)
(* the daemon until it drops the client or part of a prefix                *)
(* (client_registry.cpp:168, "Partial read for length not handled").       *)
Ch == INSTANCE Channel WITH
        Messages <- UNION {Messages[x] : x \in Sides},
        open <- ~Broken /\ insync
ImplementsChannel == Ch!Spec

(* listener_loop calls deserialize with nothing to catch what it throws    *)
(* (governor_client.cpp:183): no interleaving of the senders and no cut of *)
(* the stream gives it a number that is not one.                           *)
ListenerSurvives == reader # "terminated"

(* Every message sent is handed over while the connection lasts and the    *)
(* reader is in step: the daemon empties the socket before it waits for    *)
(* another edge, so none is left behind in it.                             *)
AllDelivered == queue # <<>> ~> queue = <<>> \/ Broken \/ closed \/ ~insync

=============================================================================
