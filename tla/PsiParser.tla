----------------------------- MODULE PsiParser -----------------------------
(***************************************************************************)
(* PsiPoller::parse_psi_file of src/governor/psi_poller.cpp.  A text is a  *)
(* sequence of lines.  A line is its first four characters, which          *)
(* rfind(..., 0) compares, and the tokens after its first word, which is   *)
(* read and never looked at: a line "something avg10=1" starts with        *)
(* "some", and one that is indented does not.  A token is the key and the  *)
(* value around its '=', with a key of no meaning if there is no '='.      *)
(***************************************************************************)
EXTENDS Integers, Sequences

CONSTANT Malformed   \* a value std::stod and std::stoull throw on; also what
                     \* is left of the data when they have

Fields == {"avg10", "avg60", "avg300", "total"}
Heads == {"some", "full"}

(* One half of a PsiData, and all of it. *)
Averages == [Fields -> Nat]
PsiFile == [Heads -> Averages]

ASSUME MalformedAssumption == Malformed \notin Nat \cup PsiFile

ZeroData == [h \in Heads |-> [f \in Fields |-> 0]]

Token == [key : STRING, val : Nat \cup {Malformed}]
Line == [start : STRING, tokens : Seq(Token)]
Text == Seq(Line)

(* Mutant: every value is stored in the "some" half. *)
store_some(data, head, token) ==
  IF data = Malformed \/ token.key \notin Fields THEN data
  ELSE IF token.val = Malformed THEN Malformed
  ELSE [data EXCEPT !["some"][token.key] = token.val]

(* Mutant: every value is converted before its key is looked at. *)
store_eagerly(data, head, token) ==
  IF data = Malformed \/ token.val = Malformed THEN Malformed
  ELSE IF token.key \notin Fields THEN data
  ELSE [data EXCEPT ![head][token.key] = token.val]

(* A token with a known key overwrites the field, or throws; another one   *)
(* is passed over.                                                         *)
store(data, head, token) ==
  IF data = Malformed \/ token.key \notin Fields THEN data
  ELSE IF token.val = Malformed THEN Malformed
  ELSE [data EXCEPT ![head][token.key] = token.val]

(* The tokens of a line, one after the other. *)
parse_line(data, line) ==
  LET after[n \in 0 .. Len(line.tokens)] ==
        IF n = 0 THEN data ELSE store(after[n - 1], line.start, line.tokens[n])
  IN  after[Len(line.tokens)]

(* The lines; one that starts with neither name is passed over. *)
parse_psi_file(content) ==
  LET after[n \in 0 .. Len(content)] ==
        IF n = 0 THEN ZeroData
        ELSE IF content[n].start \in Heads THEN parse_line(after[n - 1], content[n])
        ELSE after[n - 1]
  IN  after[Len(content)]

(* Mutant: no value is ever refused. *)
ThrowsNever(content) == FALSE

(* A conversion throws out of the parser. *)
throws(content) == parse_psi_file(content) = Malformed

-----------------------------------------------------------------------------
(* What the parser should find in a text, said without scanning it.        *)

(* The places of a text where a field is given on a line that starts with  *)
(* the name of a half.                                                     *)
Places(content, head, field) ==
  {p \in UNION {{i} \X DOMAIN content[i].tokens : i \in DOMAIN content} :
     content[p[1]].start = head /\ content[p[1]].tokens[p[2]].key = field}

Later(p, q) == p[1] > q[1] \/ (p[1] = q[1] /\ p[2] >= q[2])

(* The last one counts; zero if there is none. *)
Given(content, head, field) ==
  LET P == Places(content, head, field)
      last == CHOOSE p \in P : \A q \in P : Later(p, q)
  IN  IF P = {} THEN 0 ELSE content[last[1]].tokens[last[2]].val

Meaning(content) ==
  [h \in Heads |-> [f \in Fields |-> Given(content, h, f)]]

HasBadNumber(content) ==
  \E h \in Heads, f \in Fields :
    \E p \in Places(content, h, f) : content[p[1]].tokens[p[2]].val = Malformed

=============================================================================
