------------------------------ MODULE Channel ------------------------------
(***************************************************************************)
(* What one direction of a connection promises, and what GovernorSystem    *)
(* takes for granted: whole messages, in the order they were sent, none    *)
(* invented, none repeated, until the connection breaks.  Nothing is       *)
(* promised after that.                                                    *)
(***************************************************************************)
EXTENDS Sequences

CONSTANT Messages

VARIABLES
  queue,   \* sent and not yet handed over, oldest first
  got,     \* the messages handed over
  open

vars == <<queue, got, open>>

Init ==
  /\ queue = <<>>
  /\ got = <<>>
  /\ open = TRUE

Send(m) ==
  /\ open
  /\ queue' = Append(queue, m)
  /\ UNCHANGED <<got, open>>

Deliver ==
  /\ open
  /\ queue # <<>>
  /\ got' = Append(got, Head(queue))
  /\ queue' = Tail(queue)
  /\ UNCHANGED open

Break == open' = FALSE

Next == (\E m \in Messages : Send(m)) \/ Deliver \/ Break

Spec == Init /\ [][Next]_vars

=============================================================================
