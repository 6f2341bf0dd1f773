------------------------------ MODULE PsiPoller ------------------------------
(***************************************************************************)
(* The polling thread of src/governor/psi_poller.cpp together with the     *)
(* callback GovernorDaemon gives it (on_psi_update: one evaluate of the    *)
(* policy engine per sample, and the broadcast of its answer, which        *)
(* RegistryThreads details).  The owner starts and stops the thread; the   *)
(* kernel changes the pressure file whenever it likes, also between the    *)
(* read and the evaluation, and may make it unreadable.                    *)
(***************************************************************************)
EXTENDS PsiParser

CONSTANTS
  NumTiers, Config,   \* see PolicyEngine
  Contents            \* the texts the pressure file may hold

(* read_file gives the same for a file that is empty or cannot be opened. *)
Unreadable == <<>>

ASSUME ContentsAssumption == Contents \subseteq Text \ {Unreadable}

(* What the policy engine looks at. *)
Sample(data) ==
  [some_avg10 |-> data["some"]["avg10"], some_avg60 |-> data["some"]["avg60"]]

Samples == {Sample(parse_psi_file(t)) : t \in {u \in Contents : ~throws(u)}}

VARIABLES
  psi,           \* what reading the pressure file would give now
  running,       \* running_
  thread,        \* where poll_loop is; "none" when there is no thread_,
                 \* "terminated" or "killed" when it has taken the process
                 \* with it: by an exception, or by a signal
  content,       \* poll_loop's content, empty outside an iteration
  owner,         \* "idle", or "joining" inside stop()
  latest_data,   \* latest_data_
  callback,      \* callback_ is set
  cb,            \* poll_loop's copy of it
  current_tier, consecutive_promote_polls, consecutive_demote_polls, action

Engine == INSTANCE PolicyEngine

ASSUME ConfigAssumption ==
  NumTiers \in Nat \ {0} /\ Config \in [0 .. NumTiers - 1 -> Engine!TierConfig]

engineVars ==
  <<current_tier, consecutive_promote_polls, consecutive_demote_polls, action>>
pollerVars == <<psi, running, thread, content, owner, latest_data, callback, cb>>
vars == <<pollerVars, engineVars>>

Alive == thread \notin {"terminated", "killed"}

Init ==
  /\ psi \in Contents \cup {Unreadable}
  /\ content = <<>>
  /\ running = FALSE
  /\ thread = "none"
  /\ owner = "idle"
  /\ latest_data = ZeroData
  /\ callback = FALSE
  /\ cb = FALSE
  /\ Engine!Init

(* External: the kernel updates the averages. *)
KernelUpdate ==
  /\ psi' \in (Contents \cup {Unreadable}) \ {psi}
  /\ UNCHANGED <<content, running, thread, owner, latest_data, callback, cb, engineVars>>

SetCallback ==
  /\ Alive /\ owner = "idle"
  /\ ~callback
  /\ callback' = TRUE
  /\ UNCHANGED <<psi, content, running, thread, owner, latest_data, cb, engineVars>>

Start ==
  /\ Alive /\ owner = "idle"
  /\ ~running
  /\ running' = TRUE
  /\ thread' = "loop"
  /\ UNCHANGED <<psi, content, owner, latest_data, callback, cb, engineVars>>

(* Mutant: stop() only clears the flag and does not join. *)
StopNoJoin ==
  /\ Alive /\ owner = "idle"
  /\ running
  /\ running' = FALSE
  /\ UNCHANGED <<psi, content, thread, owner, latest_data, callback, cb, engineVars>>

Stop ==
  /\ Alive /\ owner = "idle"
  /\ running
  /\ running' = FALSE
  /\ owner' = "joining"
  /\ UNCHANGED <<psi, content, thread, latest_data, callback, cb, engineVars>>

Join ==
  /\ owner = "joining"
  /\ thread = "done"
  /\ thread' = "none"
  /\ owner' = "idle"
  /\ UNCHANGED <<psi, content, running, latest_data, callback, cb, engineVars>>

(* Mutant: the loop condition is never looked at again. *)
LoopForever ==
  /\ thread = "loop"
  /\ thread' = "read"
  /\ UNCHANGED <<psi, content, running, owner, latest_data, callback, cb, engineVars>>

Loop ==
  /\ thread = "loop"
  /\ thread' = IF running THEN "read" ELSE "done"
  /\ UNCHANGED <<psi, content, running, owner, latest_data, callback, cb, engineVars>>

Read ==
  /\ thread = "read"
  /\ content' = psi
  /\ thread' = IF psi = Unreadable THEN "sleep" ELSE "parse"
  /\ UNCHANGED <<psi, running, owner, latest_data, callback, cb, engineVars>>

(* parse_psi_file, then latest_data_ and the callback copied under mutex_. *)
(* Nothing catches what the parser throws: std::terminate.                 *)
Parse ==
  /\ thread = "parse"
  /\ \/ /\ throws(content)
        /\ thread' = "terminated"
        /\ UNCHANGED <<latest_data, cb>>
     \/ /\ ~throws(content)
        /\ latest_data' = parse_psi_file(content)
        /\ cb' = callback
        /\ thread' = IF callback THEN "call" ELSE "sleep"
  /\ UNCHANGED <<psi, content, running, owner, callback, engineVars>>

(* cb(data): GovernorDaemon::on_psi_update evaluates the policy and        *)
(* dispatches every answer but NONE.                                       *)
Call ==
  /\ thread = "call"
  /\ Engine!Evaluate(Sample(latest_data))
  /\ thread' = IF action'.type = "NONE" THEN "sleep" ELSE "dispatch"
  /\ UNCHANGED <<psi, content, running, owner, latest_data, callback, cb>>

(* The broadcast of dispatch_action returns, or the signal of a write to a *)
(* client that has hung up ends the process.  It need do neither:          *)
(* send_to_client tries again for as long as a client does not read.       *)
Dispatch ==
  /\ thread = "dispatch"
  /\ thread' \in {"sleep", "killed"}
  /\ UNCHANGED <<psi, content, running, owner, latest_data, callback, cb, engineVars>>

Sleep ==
  /\ thread = "sleep"
  /\ thread' = "loop"
  /\ content' = <<>>
  /\ UNCHANGED <<psi, running, owner, latest_data, callback, cb, engineVars>>

PollLoop == Loop \/ Read \/ Parse \/ Call \/ Sleep

Next ==
  KernelUpdate \/ SetCallback \/ Start \/ Stop \/ Join \/ PollLoop \/ Dispatch

(* The poller is a thread of its own that takes its next step, and a join  *)
(* waits only for that thread.  That a broadcast returns is not assumed;   *)
(* the kernel and the owner owe nothing.                                   *)
Spec == Init /\ [][Next]_vars /\ WF_vars(PollLoop) /\ WF_vars(Join)

-----------------------------------------------------------------------------

TypeOK ==
  /\ psi \in Contents \cup {Unreadable}
  /\ content \in Contents \cup {Unreadable}
  /\ running \in BOOLEAN
  /\ thread \in {"none", "loop", "read", "parse", "call", "dispatch",
                 "sleep", "done", "terminated", "killed"}
  /\ owner \in {"idle", "joining"}
  /\ latest_data \in PsiFile
  /\ callback \in BOOLEAN
  /\ cb \in BOOLEAN
  /\ Engine!TypeOK

(* Once stop() has returned no callback runs any more: the policy engine,  *)
(* which has no lock of its own, is then only touched by its owner.        *)
QuietAfterStop ==
  [][~running /\ owner = "idle" => UNCHANGED engineVars]_vars

(* The engine only ever evaluates what the file said when it was read: for *)
(* each field the last value that a line starting with the name of the     *)
(* half gives it.  Other lines and other fields are never taken for a      *)
(* pressure, and a file that cannot be read is not evaluated at all.  A    *)
(* field the text does not give counts as zero, so that a text of unknown  *)
(* lines is an absence of pressure, as tests/test_psi_parser.cpp:107-115   *)
(* has it.                                                                 *)
EvaluatesOnlyWhatWasRead ==
  thread = "call" => content # Unreadable /\ latest_data = Meaning(content)

(* tests/test_psi_parser.cpp:108: malformed text must not crash the        *)
(* parser.  Nothing but a known field with a bad number makes it throw and *)
(* end the daemon, on any line that starts with "some" or "full": lines    *)
(* that start otherwise, unknown fields whatever their value, and words    *)
(* without '=' do not.                                                     *)
OnlyBadNumbersTerminate == thread = "terminated" => HasBadNumber(content)

(* The assumption that no broadcast lasts for ever.  RegistryThreads says  *)
(* when it does not hold: client_registry.cpp:229 tries again without end. *)
BroadcastsEnd == []<>(thread # "dispatch")

(* If broadcasts end, stop() comes back: the poll loop looks at running_   *)
(* again after every sleep, and psi_poller.cpp:24 waits for nothing else.  *)
StopReturns ==
  BroadcastsEnd => (owner = "joining" ~> owner = "idle" \/ ~Alive)

(* A sample that asks for a move at no tier in both directions, and asks   *)
(* to leave no tier that a lower tier is asked to enter.                   *)
Unambiguous(s) ==
  \A t \in 0 .. NumTiers - 1 :
    /\ ~(Engine!PromoteCondition(t, s) /\ Engine!DemoteCondition(t, s))
    /\ ~(Engine!PromoteCondition(t, s) /\ Engine!DemoteCondition(t + 1, s))

(* The texts that can be parsed, each with what the engine sees of it. *)
Pressures ==
  {<<t, Sample(Meaning(t))>> : t \in {u \in Contents : ~HasBadNumber(u)}}

Governing(t) == running /\ callback /\ Alive /\ psi = t

(* Under a constant, unambiguous pressure a governor that lives and whose  *)
(* broadcasts end converges: it ends up, for good, at a tier that this     *)
(* pressure neither promotes nor demotes.  From any state this covers both *)
(* the climb to CRITICAL and the recovery to NORMAL, past stale samples    *)
(* still being evaluated.                                                  *)
ConvergesWhenUnambiguous ==
  \A p \in {q \in Pressures : Unambiguous(q[2])} :
    BroadcastsEnd /\ <>[]Governing(p[1]) =>
      <>[](/\ ~Engine!PromoteCondition(current_tier, p[2])
           /\ ~Engine!DemoteCondition(current_tier, p[2]))

(* policy_engine.cpp:93-95 and tests/test_policy_engine.cpp:161 promise a  *)
(* hysteresis band that prevents flapping: under a constant pressure, and  *)
(* if broadcasts end, the tier comes to rest.                              *)
TierComesToRest ==
  \A p \in Pressures :
    BroadcastsEnd /\ <>[]Governing(p[1]) =>
      \E t \in 0 .. NumTiers - 1 : <>[](current_tier = t)

=============================================================================
