----------------------------- MODULE MCPsiPoller -----------------------------
(* The default configuration under a handful of pressures: calm, inside    *)
(* the ELEVATED band, and sustained, each with a low and a high avg60; a   *)
(* text with everything the parser passes over and one with nothing else;  *)
(* and a bad number on the line of a half and on an unknown line that      *)
(* starts like one.                                                        *)
EXTENDS PsiPoller, TLC

Row(promote, demote, debounce, pct) ==
  [promote_threshold |-> promote, demote_threshold |-> demote,
   debounce_polls |-> debounce, shrink_pct |-> pct]

default_configs ==
  (0 :> Row(5, 0, 3, 0)) @@ (1 :> Row(5, 2, 3, 10))
    @@ (2 :> Row(15, 8, 3, 25)) @@ (3 :> Row(30, 15, 2, 50))

Reads(k, v) == [key |-> k, val |-> v]

Half(h, avg10, avg60) ==
  [start |-> h,
   tokens |-> <<Reads("avg10", avg10), Reads("avg60", avg60),
                Reads("avg300", 3), Reads("total", 9)>>]

Usual(avg10, avg60) == <<Half("some", avg10, avg60), Half("full", 20, 4)>>

(* Lines of the parser's tests, and an indented one. *)
Garbage == Half("garb", 99, Malformed)
Indented == Half(" som", 99, Malformed)

Odd ==
  <<Garbage,
    [start |-> "some",
     tokens |-> <<Reads("none", Malformed), Reads("avg10", 99),
                  Reads("unknown", Malformed), Reads("avg60", 10),
                  Reads("avg10", 10)>>],
    Indented>>

Broken == <<Half("some", 10, Malformed), Half("full", 20, 4)>>

(* A line "something avg10=... avg60=x" after a sound one. *)
Something == <<Half("some", 10, 10), Half("some", 1, Malformed)>>

PollContents ==
  {Usual(1, 10), Usual(1, 15), Usual(10, 10), Usual(10, 15), Usual(30, 15),
   Odd, <<Garbage, Indented>>, Broken, Something}

=============================================================================
