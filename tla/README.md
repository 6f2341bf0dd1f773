# Verification of the memory-aware cache governor

The repository holds a daemon that watches Linux memory pressure (PSI) and tells
cache processes to shrink or to grow, and a client library whose LRU cache obeys.
This directory holds TLA+ models of that code, the TLC runs that check them on
small instances, and theorems that TLAPS proves for every instance.

Paths below are relative to the repository root; in `PROJECT.json` they are
prefixed with `src/`.

## 1. The system and its parts

| Part | Source | State | Operations |
|---|---|---|---|
| `PolicyEngine` | `src/governor/policy_engine.cpp` | `current_tier_`, two debounce counters, tier table | `evaluate`, `reset` |
| `PsiPoller` | `src/governor/psi_poller.cpp` | `running_`, `thread_`, `latest_data_`, `callback_` | `start`, `stop`, `set_callback`, `poll_loop`, `parse_psi_file` |
| `ClientRegistry` | `src/governor/client_registry.cpp` | `clients_` (fd to pid and size) under `clients_mutex_`, epoll and listen descriptors | accept, read, remove, `broadcast_shrink`, `broadcast_grow`, `stop` |
| `GovernorDaemon`, `main` | `src/governor/governor_daemon.cpp`, `main.cpp` | owns the three above | `start`, `stop`, `on_psi_update`, `dispatch_action` |
| wire protocol | `include/governor/protocol.h` | none | length prefix and JSON, both directions |
| `GovernorClient` | `src/client/governor_client.cpp` | `sock_fd_`, `connected_`, `listening_`, listener thread | `connect`, `register_cache`, `report_size`, `start_listening`, `stop_listening`, `listener_loop` |
| `GovernedCache` | `src/client/governed_cache.cpp` | the cache and its mutex, `max_capacity`, `estimated_entry_bytes_` | `start`, `stop`, `get`, `put`, `handle_shrink`, `handle_grow` |
| `LRUCache` | `include/client/governed_cache.h` | hash index, doubly linked list of heap nodes, `size_`, `capacity_`, hit counters | `get`, `put`, `evict_to`, `resize`, `reset_stats`, destructor |
| workload driver, pressure generator, evaluation scripts | `src/cache_app`, `src/pressure_gen`, `eval` | not modelled | |

**Interaction.** The poller's thread reads the pressure file every 200 ms and calls
`on_psi_update`, which evaluates the policy and, if the tier moved, broadcasts a
SHRINK or GROW to every accepted connection. The registry's epoll thread accepts
connections, records the sizes that clients send, and drops clients that hang
up. In a client, the application thread calls `get` and `put`; the listener thread
reads commands, resizes the cache under its mutex and reports the new size. Both
sides may stop, die and come back; the client's listener reconnects by itself.

**Where it is hard.** The debounce logic has two counters that each check of the
other direction resets; the two-average promotion rule of CRITICAL is outside the
hysteresis band; the registry works with sizes that are stale by construction;
commands cross reports and connection losses; `stop` may fall between a resize and its
report; the daemon waits for the rest of a message without looking at its flag; writing to a vanished peer raises
SIGPIPE, which neither process ignores; `stop` must interrupt a thread blocked in
`read`; three fields of the client are shared by two threads without a lock, and
descriptors are closed by one thread while another uses them; one broadcast holds the
registry's mutex through blocking-like writes; frames cross a byte stream that may be
cut anywhere; the LRU list is hand-made pointer code. `PROJECT.json` lists each hazard at
its line, with the properties that watch it.

**What makes each part correct.**

- `PolicyEngine`: a transition happens exactly when the configured number of
  consecutive samples asks for it; the tier moves one step at a time with the right
  command and fraction; calm pressure brings it down, constant pressure to rest.
- `PsiPoller`: what is evaluated is what the file said, the parser ends the daemon on
  nothing but a malformed number, no callback runs after `stop` has returned, and `stop`
  returns if the callback does.
- `LRUCache`: no dangling pointer, index and list agree, capacity respected, the
  least recently used entry is the victim, every node deleted exactly once.
- wire protocol: whole messages, in order, none invented or repeated, until the
  connection breaks; the client's reader never meets something it cannot convert.
- `ClientRegistry` as threads: no descriptor is leaked or used after it was closed;
  broadcasts, removals and `stop` come to an end, if the clients do their part and the
  daemon has not brought itself to a halt (section 3).
- `GovernorClient` as threads: `stop` leaves nothing running; at most one descriptor leaks
  for every `stop` and every connection lost or given up; the client gets back to a daemon
  that returned.
- daemon and clients: the registry never believes a connected cache larger than it is,
  unless a report of it is under way; a handled SHRINK is honoured; messages drain.

## 2. Modules

| Module | Models | State | Actions |
|---|---|---|---|
| `TierLadder` | what the engine promises: an abstract ladder of tiers | `tier`, `action` | `Up`, `Down`, `Stay`, `Reset` |
| `PolicyEngine` | `policy_engine.cpp` | tier, the two counters, last `PolicyAction` | `Evaluate(d)` = `Promote`, `Demote` or `Hold`; `Reset` |
| `PolicyStreaks` | `PolicyEngine` with history variables | plus the runs of samples seen | the same steps, counted |
| `PolicyProofs` | theorems about the two above | | |
| `PsiParser` | `parse_psi_file`, and a reference definition of what a text means | none | operators |
| `PsiPoller` | `psi_poller.cpp` with the daemon's callback; extends `PsiParser`, uses `PolicyEngine` by `INSTANCE` | flag, thread position, owner, data, engine | `Start`, `Stop`, `Join`, `SetCallback`, `Loop`, `Read`, `Parse`, `Call`, `Dispatch`, `Sleep`, `KernelUpdate` |
| `LRU` | abstract least-recently-used cache | a sequence of entries, most recent first | `Hit`, `Miss`, `PutCached`, `PutNew`, `EvictTo`, `Resize`, `ResetStats`, `Destroy` |
| `LRUCache` | the pointer-level `LRUCache` | heap nodes with `prev`/`next`, head, tail, index, size | one per method; the loops of `evict_to` and of the destructor one step per iteration |
| `LRUProofs` | theorems about `LRUCache`, among them that it implements `LRU` | | |
| `GovernorSystem` | daemon, clients and sockets; uses `TierLadder` by `INSTANCE` | registry, sockets as FIFO queues, client life cycle, cache sizes | daemon: `DaemonStart`, `DaemonStop`, `DaemonCrash`, `Evaluate`, `Dispatch`, `DispatchKilled`, `Accept`, `Receive`, `Remove`; client: `Connect`, `Register`, `Put`, `EnterRead`, `Command`, `Report`, `WriteReport`, `EndOfFile`, `Reconnect`, `Stop`, `StopDone`, `ClientCrash`, and two deaths by SIGPIPE, `RegisterKilled` and `ReportKilled` |
| `Channel` | what one direction of a connection promises | messages under way, messages handed over, whether it is open | `Send`, `Deliver`, `Break` |
| `Wire` | `protocol.h`, the writing loops, `handle_client_message` and `listener_loop` as readers of bytes | socket buffer, each sender's rest of a frame, mutex, reader position and buffer | `Send`, `Write`, `Close`, `Event`, `ReadPrefix`, `ReadPayload`, `Handle` |
| `RegistryThreads` | `client_registry.cpp` in the daemon: main, epoll thread, polling thread | descriptor table, `clients_`, `clients_mutex_`, epoll edges and batch, broadcast in progress, peers and their socket buffers, messages begun, streams out of step | `Start`, `StartFails`, `Stop`, `StopRegistry`, `CloseAll`; `EpollWait`, `NextEvent`, `Accept*`, `Insert`, `Read`, `Payload`, `Apply`, `remove_client`; `Poll`, `BroadcastLock`, `BroadcastWrite`, `BroadcastEnd`, `PollerEnd`; the peers: `Connect`, `PeerBegin`, `PeerReport`, `PeerRead`, `HangUp` |
| `ClientThreads` | `governor_client.cpp` under `GovernedCache::start` and `stop`, statement by statement | descriptor table, `sock_fd_`, the flags, both threads' positions, a read whose descriptor was closed | `Start`, `StopFlag` to `Disconnect`; `Top`, `Socket`, `Dial`, `Dialled`, `DialFailed`, `Backoff`, `Enter`, `Read`, `Payload`, `Handle`; the daemon |
| `PollerProofs`, `SystemProofs`, `WireProofs`, `RegistryProofs`, `ClientProofs` | theorems about `PsiPoller`, `GovernorSystem`, `Wire`, `RegistryThreads`, `ClientThreads` | | |
| `NaturalFacts` | theorems about the naturals that the proofs share: least element, induction, iteration | | |
| `MC*` | constants for TLC | | |

`PolicyEngine` implements `TierLadder` (checked and proved), which is why
`GovernorSystem` may use the ladder in place of the engine. `LRUCache` implements
`LRU` (checked and proved), which is why `GovernorSystem` may keep a cache as a size and a
capacity. `Wire` implements `Channel` (checked and proved), which is why its sockets may be queues
of whole messages, with the gap that `Wire` makes visible: a daemon that reads a length
prefix in two parts is out of step afterwards, and `GovernorSystem` does not follow it
there. `RegistryThreads` and `ClientThreads` look at the same two classes as
`GovernorSystem` does, with messages reduced to units and threads, mutexes and
descriptors in full.

**Abstractions.**

- Pressures are naturals; only their order relative to the thresholds matters. The
  shrink fraction is a percentage, so the daemon's `double` arithmetic with its
  truncation to bytes is an integer division.
- In `LRUCache` the heap is a set of addresses; `new` takes any address that is not
  live and `delete` returns it with its fields wiped, so reading a deleted node
  shows. Keys and values are model values. Hit and miss counters stop at `MaxGets`.
- In `PsiParser` a text is a sequence of lines, a line its first four characters, which is
  what `rfind("some", 0) == 0` compares, and the tokens after its first word, which the code
  reads and never looks at; a token is the key and value around its `=`. So a line
  `something avg10=99` counts as a line of `some`, and an indented one does not. A value is a natural or `Malformed`, on which
  `std::stod` throws; the exception leaves the polling thread and ends the daemon.
- In `Wire` a character is a cell: a quoted key is one cell, a number a cell per digit,
  a prefix byte a cell that knows which byte of which length it is. `serialize` builds
  the text and `deserialize` scans it with the code's own `find` calls. Bytes that are
  not one whole prefix are read as any length of `Lengths`. `insync` is a history
  variable.
- In `RegistryThreads` and `ClientThreads` a descriptor is the lowest free number, as on
  Linux, so that a closed number is reused at once. `epoll_wait` reports edges once.
  `accept` needs a free descriptor before it looks for a connection; the poller needs
  one to open the pressure file. `lost` and `stops` are history variables. `lost` counts
  connections lost or given up: the listener gives up one that the daemon has not closed
  on a short read of the prefix or a length it refuses, and connects over it.
- In `RegistryThreads` a message counts as one unit, of which a peer in `Torn` may have
  written a part (`half`). The prefix of a begun message is read whole, and `Payload` waits
  for the rest without a look at `running_`; or in part, which the code drops, and from then
  on the stream is out of step (`strayed`) and anything may be read as a length.
- In `PsiPoller` the callback is two steps: `Call` evaluates and `Dispatch` broadcasts.
  `Dispatch` may end the process, and has no fairness: it need not return.
- In `GovernorSystem` a frame is one element of a queue, and `broadcast_shrink`, which holds
  the registry's mutex throughout, one step; `evaluate` and the broadcast that follows are
  two, because the registry changes in between. A handler is three: the resize (`Command`),
  the check of `connected_` in `send_message` (`Report`) and the write (`WriteReport`). It
  holds the cache's mutex all along, so `Put` waits; `Stop` takes no mutex and may fall
  between any two. If it falls before the check, nothing is sent and the registry keeps the
  larger size until it removes the client. A cache does not start again after `stop`.
- `close` on a descriptor another thread is reading neither wakes that read nor
  closes the connection, which the read keeps alive (Linux); a write to a closed peer kills the writer.
- Operators commented as *Mutant* are faulty variants of the definition that follows
  them. Nothing uses them; they are there to show that each property can fail.

## 3. Runs

| Run | Module, cfg | Checks | Bounds |
|---|---|---|---|
| `policy` | `MCPolicy` | `StreakInv`, `NoTransitionMissed`, `TransitionJustified`, `ImplementsLadder` | the default tier table; a PSI value in each interval of avg10 its thresholds cut out, avg60 below and at the CRITICAL rule; runs saturate at 4, above every debounce count |
| `poller` | `MCPsiPoller` | `TypeOK`, `EvaluatesOnlyWhatWasRead`, `OnlyBadNumbersTerminate`, `QuietAfterStop`, `StopReturns`, `ConvergesWhenUnambiguous` | the default table; texts for five pressures, with fields repeated, missing, unknown and malformed; a text of nothing but unknown lines; a malformed number on a line that only starts like `some`; an unreadable file |
| `lru` | `MCLRUCache` | `CacheWellFormed`, `PositiveCapacityRespected`, `DestructorExact`, `EvictionTerminates`, `ImplementsLRU` | three keys, three nodes, two values, capacities 0, 1, 2, 4 |
| `system` | `MCSystem` | `TypeOK`, `NeverOverestimated`, `ShrinkHonoured`, `Drains` | one client, all four tiers, capacity 4, five keys, entries of 3 bytes, two messages per direction |
| `wire` | `MCWire` | `TypeOK`, `ListenerSurvives`, `ImplementsChannel`, `AllDelivered` | either direction, two senders, two messages of different lengths; a write may leave 14, 25 or 26 bytes of its frame; prefixes of two bytes |
| `registry` | `MCRegistry` | `TypeOK`, `DescriptorsCurrent`, `NoDescriptorLeaks`, `HungUpRemoved`, `StopReturns` | under `ServedSpec`: two clients, one may hang up, the other may write in two pieces; descriptor limits 1, 4 and 5; one message per socket buffer |
| `client` | `MCClient` | `TypeOK`, `LeaksBounded`, `StoppedForGood`, `Reconnects`, `StopReturnsWhenLeft` | four descriptors, three calls of `stop`, four connections lost or given up |

Why these are enough. The engine compares PSI values only with its thresholds, so
one value per interval is exhaustive for the default table. Three nodes give a list
with a head, an inner node and a tail, the cases the pointer code tells apart.
Entries of 3 bytes make both truncating divisions lose something; two messages in
flight let a command cross a report, and a write find the socket full. The cuts of `wire` fall inside a prefix, right
after it and inside the payload; the parser run has a text for each branch of the
scanner. With limit 1 `start` fails half way; with limit 4 two clients exhaust the registry's
descriptors (two go to the listening socket and epoll) and with 5 they do not; a buffer of one message is full with
the first, which is what the spinning writer needs. Four descriptors and seven stops and
losses let the client leak until none is left.

`system` has one client. Clients share nothing there but the tier, which any sequence of
evaluations can reach, and the daemon's life: what one client can do to another is to
kill or block the daemon, which the other sees as `DaemonCrash` or as delay. The
clients' meeting inside the registry is what `registry` is about.

Deadlock checking is off in `lru` (a destroyed cache stops), `wire` (two messages, then
nothing), `registry` (a stopped or killed daemon) and `client` (the bounds on stops and
losses, a killed process).

The symmetry of keys, nodes and clients is not used: most of these runs check
liveness or refinement, where it is unsound.

**Fairness.** `poll_loop`, the epoll loop, `listener_loop` and the senders each own a
thread, so a step that stays enabled is taken (weak fairness); `Join`, `StopDone`,
`Joining` and the rest of `stop_listening` run inside a call the caller waits for; the
loops of `evict_to` and of the destructor likewise. Strong fairness is used twice, in
`RegistryThreads`: for the epoll thread taking `clients_mutex_` (`Locking`), because the
poller sleeps 200 ms between two polls without it, and for `AcceptOne`, because
`epoll_ctl` does not fail for ever. The kernel, the application, the operator and the network
owe nothing: `KernelUpdate`, `Put`, `Stop`, `DaemonStart`, `Evaluate`, `Connect`, `PeerBegin`,
`HangUp`, `DaemonUp`, `DaemonDown` and all crashes have no fairness.

**What is assumed beyond that.** Three runs rest on more than threads that run, because the
code does not give them more:

- `poller`: `StopReturns` waits for a thread that may be inside a broadcast, and a broadcast
  may spin for ever (`client_registry.cpp:229`). `BroadcastsEnd`, that the thread is again
  and again outside one, is a premise of `StopReturns`, `ConvergesWhenUnambiguous` and
  `TierComesToRest`, and an end of the process is an exception.
- `registry`: `ServedSpec` adds that every client reads what it is
  sent and finishes a report that it has begun. A client that is suspended for good, with a
  full buffer, holds the mutex through the poller's spin; one suspended inside a message
  holds the epoll thread in the payload loop.
- `system`: the fairness of `Accept`, `Receive`, `Remove` and of the broadcast assumes that
  the epoll thread and the poller come round to every client: there are descriptors for what
  is accepted, nobody stops reading and no message is left unfinished. `RegistryThreads` has
  each of the ways in which this fails. `Drains` therefore says that the *protocol* leaves no
  message behind, not that the threads cannot halt.

**What the liveness of the registry excludes.** `HungUpRemoved` and `StopReturns` hold unless the daemon has come to a halt, `Halted`, in one of three ways, all
reachable:

- it was killed by SIGPIPE, writing to a client that hung up (`client_registry.cpp:227`);
- `Exhausted`: the epoll thread is in `accept` and there is no descriptor left, so
  `accept` fails with EMFILE and is retried for ever (`:130`), whether or not anybody is
  waiting; clients that hang up are no longer removed, so nothing is ever freed;
- `Wedged`: the poller spins on a full socket with the mutex held (`:229`), the client
  behind it is blocked writing a report, and the epoll thread that would read it waits
  for the mutex or is exhausted.

And they have a premise, `PayloadsEnd`: out of step with a stream, the payload loop
(`:178-183`) may wait for more than the client is ever going to write (`Starved`), with no
look at `running_`. The client may still write or hang up, so this is no halt for good; but
nothing makes it end. Without the premise TLC refutes both. That every
broadcast ends needs no property of its own: `stop` may be called during any, and waits
for it.

### Runs that show a disagreement

Each of these five runs states what a line of the repository says and ends with a
counterexample.

| Run | Shows |
|---|---|
| `policy_stuck` | At HIGH with avg60 at 15 or more, samples of low avg10 meet the promotion check and the demotion check together; each restarts the other's counter and the tier stays at HIGH, although `policy_engine.cpp:93-95` promises demotion after `debounce` consecutive low polls. |
| `poller_flap` | A constant avg10 = 10, avg60 = 15 promotes HIGH to CRITICAL and demotes it again for ever: the avg60 clause (`policy_engine.cpp:71`) is outside the hysteresis band. |
| `system_evicts_all` | The cache is registered while empty and `put` never reports, so the first SHRINK asks for 0 bytes and empties it; `README.md:19` says "up to 50% of the cache capacity". A later GROW to fewer entries than were put meanwhile evicts, although the comment at `governed_cache.cpp:89` says it only updates the capacity. |
| `system_above_max` | After that SHRINK the capacity is 0. `put` evicts only when `size_ == capacity_`, which never holds again once an entry is in, so the cache grows past its configured maximum. |
| `client_stop_hangs` | `stop_listening` closes the socket "to unblock the blocking read" (`governor_client.cpp:119`), which on Linux it does not, and a listener that was inside `connect` goes on to block on a new connection: the join lasts until the daemon writes or closes. |

Met while modelling, against no line that promises otherwise: a client that registers
above NORMAL misses the SHRINK and gets the GROW; a client with a command still in its
buffer when the daemon goes away is killed by SIGPIPE when it reports; a daemon that
drops half a prefix reads the rest of that connection out of step.

## 4. Theorems

`PolicyProofs` assumes only `EngineAssumption` (a table with at least one tier, whose
entries have natural thresholds and a positive debounce count) and
`MaxRunAssumption` (the history counters reach past every debounce count).

- `StreakInvariance`: `StreakSpec => []StreakInv`. `NoTransitionMissed` and
  `TransitionJustified` speak about samples and the code about counters, so neither is
  inductive. `StreakInv` ties them: each counter lies between the run of samples that
  ask *only* for the transition (below) and the run of all that ask for it
  (above), no counter is left at or above its debounce count, and the two are
  never positive together. Equality would be false: a sample that meets both checks
  restarts a counter without ending the run. That gap is the finding
  `policy_stuck`.
- `NothingMissed`, `TransitionsJustified`: debouncing is exact in both directions, for
  every table and every sequence of samples.
- `EngineTypeOK`, `EngineImplementsLadder`: the engine implements the tier ladder, with
  the right fraction on the way up and on the way down. `CountersCorrect` states the
  counter facts by themselves.

`LRUProofs` assumes `CacheAssumption` (finitely many heap nodes, `Null` not one of
them, natural capacities).

- `WellFormedAlways`: `Spec => []CacheWellFormed`. Next and prev are inverse on the live
  nodes, the ends are where `head_` and `tail_` point, the index and the nodes' keys are
  inverse, and `size_` is the number of live nodes; so no `get`, `put` or eviction
  touches a deleted node and `size_--` never wraps. The formula is inductive as it
  stands because it is local: it speaks of neighbours, never of reachability. The
  proof has a lemma per helper (`AddToFrontLinks`, `UnlinkLinks`, `MoveToFrontLinks`,
  `EvictLruStep`, `InsertStep`), each over an arbitrary cache record, and a
  lemma per action.
- `CapacityRespected`, `DestructorIsExact`: from `ListInv`. Local consistency allows a
  ring of live nodes beside the list: then `evict_lru` might find no tail in a full
  cache, and the destructor would not reach the ring. `NoRing` excludes it: some
  function counts down along `next` (`CountsDown`). It is existential, so every
  primitive has a lemma that gives the new function. While the destructor runs, `Remaining`
  says that the nodes still live are the list from `curr` on.
- `ListImplementsLRU`: `Spec => ImplementsLRU`. The abstract sequence is the list read
  from `head_` on, `Walk`, a recursive function. That its recursion has a solution
  (`WalkIsWalk`, from `Iteration`), and that it is a bijection between
  `0 .. size_ - 1` and the live nodes (`WalkVisits`: it stays live, loses rank with every
  step, and a first node it missed would have a predecessor it met), is shown by induction.
  `MoveToFrontWalk`, `EvictLruWalk` and `InsertWalk` give the walk after each primitive,
  `MovedListed`, `EvictedListed`, `InsertedListed` and `CutListed` the sequence of entries, and
  a lemma per action the abstract step. A round of `evict_to` and the destructor's
  loop are stutters.

`NaturalFacts` assumes nothing. `LeastNatural` comes from the well-foundedness of `<`;
`Induction` states induction for the *set* of naturals that have a property, which the
provers can instantiate where they cannot with a predicate; `Iteration` builds the
function that iterates another one from its finite approximations.

`SystemProofs` assumes `SystemAssumption`.

- `SystemTypeOK`: from `TypeInv`, which adds that only a SHRINK or a GROW is ever
  dispatched.
- `RegistryNeverOverestimates`: `NeverOverestimated` speaks of connected clients with no
  report under way. `HonestInv` adds what is under way: the *last* report on its way to the
  daemon, or the record if there is none, is at most the client's size unless the listener
  is between its resize and the end of its write (`Settled` says when the claim is due). A
  `Put` raises the size and waits for the mutex; what lowers it writes a report before the
  mutex is released, and that becomes the last. `stop()` in between closes the connection,
  which ends the claim: it speaks of open connections only. `SocketInv` (inductive by
  `NextSocket`) says that a new connection starts without a record or an unread message.
- `ShrinksHonoured`: an action property of three parts. A SHRINK that is handled leaves size
  and capacity within its target if the capacity was positive, from `WithinCapacity` (a cache
  whose capacity is not zero is within it). Only a GROW that is handled lifts a capacity:
  `OnlyCommandHandles` shows that no other action takes a command off the queue of a client
  that goes on. No put exceeds a positive capacity: `OnlyPutGrows`. After a target below one
  entry nothing is claimed, since `put` does not enforce capacity zero (`system_above_max`).

`ClientProofs` assumes `ClientAssumption`. `ClientInv` has five parts besides the types:
which positions of the two threads go together (`Positions`); what `sock_fd_`, `old_fd`
and a read in progress name (`Descriptors`); the bound on losses while one is unnoticed;
and `Accounted`, the count of open descriptors against losses, stops and an `Allowance`
that depends on where both threads are, and is negative in one position: after `stop()` has
been counted and before the listener's `socket()`.

- `StopIsFinal`, `LeaksAreBounded`, `ClientTypeOK`: consequences of `ClientInv`.

`RegistryProofs` assumes `RegistryAssumption`. `RegistryInv` strengthens the two
properties by each other and by three facts: which phases of main, the epoll thread and
the polling thread go together (`Phases`), that `clients_mutex_` is the poller's
exactly while it writes (`Locked`), and that `clients_` holds connections and a batch of
events one for each descriptor (`Connections`).

- `DescriptorsStayCurrent`, `NoDescriptorIsLeaked`, `RegistryTypeOK`: consequences of
  `RegistryInv`. `start` needs two descriptors, so both `Start` and `StartFails` depend on
  the limit.

`WireProofs` assumes `WireAssumption`: types and numbers are written, each its own way
(`type_to_string`, `std::to_string`), as non-empty texts without punctuation.

- `RoundTrip`: `deserialize` undoes `serialize`. The scanner looks for a key from the
  start of the text, for its colon from there, and for what ends the value.
  `PairFollows` and `HeadFollows` say where each pair lies in the text, and that no key
  or punctuation comes before; `ExtractNumber` and `ExtractType` that the scanner then stops
  where it should.
- `WireInvariant`: `Spec => []WireInv`. `Stream` is what the reader has consumed of the
  frame it is in, then the socket, then what the sender inside the mutex has still to write.
  While the connection lasts and the reader is in step, `Stream` is the frames of `queue` one
  after the other (`InStep`), and at most one sender is inside a frame (`OneWriter`). `Write`
  and the reads only move the borders within `Stream`, `Send` appends a frame (`InStepSent`),
  and `Handle`, which holds the first frame whole (`GatheredWhole`), takes it off.
- `TypesAlways`, `ListenerAlwaysSurvives`: what the listener converts is a payload
  that `serialize` wrote, and `RoundTrip` says that it throws nothing.
- `WireImplementsChannel`: `Send` and `Handle` are the channel's steps, the reader's
  giving up and a dropped part of a prefix break it, everything else stutters.

`PollerProofs` assumes `MalformedAssumption`, `ContentsAssumption` (the file holds texts of
lines and tokens, none of them empty) and `ConfigAssumption` (the engine's tier table).

- `ParserFindsMeaning`: for every text, `parse_psi_file` throws exactly on
  `HasBadNumber`, a malformed number of a known field on a line that *starts with* `some` or
  `full`, and otherwise gives `Meaning`, the last value that such lines give each field, and
  zero for a field they do not give. A text of unknown lines is thus an absence of
  pressure, as `tests/test_psi_parser.cpp:107-115` has it. The loops are
  recursive functions; `RoundsExist` gives them a solution, and `Knows`, what the data hold
  after the tokens met so far, is kept by a token (`TokenKept`), a line (`LineKept`) and a
  line passed over (`LineSkipped`).
- `PollerTypeOK`, `EvaluatesWhatWasRead`, `BadNumbersOnly`: from `PollInv`, which says
  that a parse, a call and a termination belong to the text read last (`Holds`), and
  `ParserFindsMeaning`.
- `DrivesEngine`: `Spec => Engine!Spec`. `Samples`, what the engine may be given, is what
  the texts parse to, so `Holds` puts every call in it; what
  `PolicyProofs` shows of the engine alone holds of it under the poller.
- `QuietOnceStopped`, an action property, from `Joined` (once `stop` has
  returned there is no thread inside the loop).

**Only model-checked.** Every safety property of a passing run, action properties and
refinements included, has its theorem. What has none is everything with fairness
(`ConvergesWhenUnambiguous`, `EvictionTerminates`, `Drains`,
`AllDelivered`, `HungUpRemoved`, `StopReturns`, `Reconnects`,
`StopReturnsWhenLeft`): liveness and ENABLED are beyond the prover.

## 5. Not modelled

- `cache_app`, `pressure_gen`, `eval`: workload, load and plotting. They are the
  environment of the models.
- Option parsing and logging.
- Descriptors that other threads of the application open: `close(old_fd)` in
  `stop_listening` may hit one of them if the listener closed the number just before.
- `GovernedCache::start` called while a listener is still running: `start_listening`
  returns at once in that case, but `connect` and the REGISTER race it.
- A start whose write of REGISTER fails is modelled in `GovernorSystem`
  (`RegisterKilled`), not in `ClientThreads`.
- A second daemon on the same path (`unlink` at `client_registry.cpp:40` and `:86`).
- Memory exhaustion, among it `buffer.resize` with a length read out of step.
- `get`, which changes no size and waits for the cache's mutex as `Put` does while the
  listener reports. How long that takes is up to the daemon that does not read.
- Overflow of the 64-bit byte counts, and rounding of `double` beyond the truncation.

## 6. Plan

Modelled: the engine, the poller with its parser, the LRU cache, the wire, the registry
and the client as threads, and the composed system at message level. Proved: the
engine's debouncing and refinement; the cache's memory safety, capacity, destructor and
refinement; the wire's round trip and refinement; the registry's and the client's
descriptors; what the daemon believes of its clients; the parser, and that the poller
drives the engine as the engine's specification says.

What is left: the safety half of the liveness properties, namely the invariants that rule
out each way of waiting for ever (a reader that sleeps with bytes in its socket, a broadcast
that holds `clients_mutex_` with nobody to write to, a payload loop in step with its stream), and in `GovernorSystem` that
the daemon's tier follows the ladder through broadcasts and restarts.
