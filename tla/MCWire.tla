------------------------------- MODULE MCWire -------------------------------
(* Two senders, up to two messages.  Numbers of one and two digits make    *)
(* frames of different lengths.                                            *)
EXTENDS Wire

AllTypes == {"REGISTER", "REPORT_SIZE", "SHRINK", "GROW", "ACK", "HEARTBEAT", "UNKNOWN"}
AllNumbers == {"0", "7", "42"}

AllChars == AllTypes \cup {"0", "7", "4", "2"}

Cells ==
  [v \in AllTypes \cup AllNumbers |-> IF v = "42" THEN <<"4", "2">> ELSE <<v>>]

M(type, target, size) ==
  [k \in Fields |-> CASE k = "type" -> type
                      [] k = "target_bytes" -> target
                      [] k = "current_size_bytes" -> size
                      [] k = "pid" -> IF type \in {"SHRINK", "GROW"} THEN "0" ELSE "7"
                      [] k = "tier" -> "0"]

ToSide ==
  [daemon |-> {M("REGISTER", "0", "7"), M("REPORT_SIZE", "0", "42")},
   client |-> {M("SHRINK", "0", "0"), M("GROW", "42", "0")}]

=============================================================================
