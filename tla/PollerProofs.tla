---------------------------- MODULE PollerProofs ----------------------------
(***************************************************************************)
(* For any pressure texts and any tier table: parse_psi_file finds in a    *)
(* text what the text says, and throws on a bad number of a known field    *)
(* and on nothing else; the engine evaluates what was read; and the        *)
(* polling thread against start() and stop().                              *)
(***************************************************************************)
EXTENDS PsiPoller, NaturalFacts, SequenceTheorems

-----------------------------------------------------------------------------
(* Loops *)

(* What a loop makes of x in N rounds, round n making step[n, y] of y. *)
Rounds(P, N, step, x, f) ==
  /\ f \in [0 .. N -> P]
  /\ f[0] = x
  /\ \A n \in 1 .. N : f[n] = step[<<n, f[n - 1]>>]

LEMMA OneRoundMore ==
  ASSUME NEW P, NEW x \in P, NEW N \in Nat, NEW step \in [(1 .. N) \X P -> P],
         NEW m \in Nat, m + 1 <= N, NEW f, Rounds(P, m, step, x, f)
  PROVE  \E g : Rounds(P, m + 1, step, x, g)
<1> DEFINE y == step[<<m + 1, f[m]>>]
           g == [i \in 0 .. m + 1 |-> IF i <= m THEN f[i] ELSE y]
<1>1. f \in [0 .. m -> P] /\ f[0] = x /\ \A n \in 1 .. m : f[n] = step[<<n, f[n - 1]>>]
  BY DEF Rounds
<1>2. y \in P
  <2>1. m + 1 \in 1 .. N /\ f[m] \in P
    BY <1>1
  <2> QED
    BY <2>1
<1>d. y = step[<<m + 1, f[m]>>]
  OBVIOUS
<1> HIDE DEF y
<1>3. g \in [0 .. m + 1 -> P]
  BY <1>1, <1>2
<1>4. /\ \A i \in 0 .. m : i \in 0 .. m + 1 /\ i <= m
      /\ m + 1 \in 0 .. m + 1 /\ ~(m + 1 <= m) /\ 0 \in 0 .. m
  OBVIOUS
<1>5. (\A i \in 0 .. m : g[i] = f[i]) /\ g[m + 1] = y
  BY <1>4
<1> HIDE DEF g
<1>6. \A n \in 1 .. m + 1 : g[n] = step[<<n, g[n - 1]>>]
  <2> SUFFICES ASSUME NEW n \in 1 .. m + 1
               PROVE  g[n] = step[<<n, g[n - 1]>>]
    OBVIOUS
  <2>1. CASE n = m + 1
    <3>1. n - 1 = m /\ m \in 0 .. m
      BY <2>1
    <3> QED
      BY <1>5, <1>d, <2>1, <3>1
  <2>2. CASE n # m + 1
    <3>1. n \in 1 .. m /\ n \in 0 .. m /\ n - 1 \in 0 .. m
      BY <2>2
    <3> QED
      BY <1>1, <1>5, <3>1
  <2> QED
    BY <2>1, <2>2
<1>7. g[0] = x
  BY <1>1, <1>4, <1>5
<1> QED
  BY <1>3, <1>6, <1>7 DEF Rounds

LEMMA RoundsExist ==
  ASSUME NEW P, NEW x \in P, NEW N \in Nat, NEW step \in [(1 .. N) \X P -> P]
  PROVE  \E f : Rounds(P, N, step, x, f)
<1> DEFINE S == {m \in Nat : m <= N => \E f : Rounds(P, m, step, x, f)}
<1>1. 0 \in S
  <2> DEFINE f == [i \in 0 .. 0 |-> x]
  <2>1. f \in [0 .. 0 -> P] /\ f[0] = x
    OBVIOUS
  <2> HIDE DEF f
  <2>2. Rounds(P, 0, step, x, f)
    BY <2>1 DEF Rounds
  <2> QED
    BY <2>2
<1>2. \A m \in S : m + 1 \in S
  <2> SUFFICES ASSUME NEW m \in S, m + 1 <= N
               PROVE  \E g : Rounds(P, m + 1, step, x, g)
    OBVIOUS
  <2>1. m \in Nat /\ m <= N
    OBVIOUS
  <2>2. PICK f : Rounds(P, m, step, x, f)
    BY <2>1
  <2> QED
    BY <2>1, <2>2, OneRoundMore
<1>3. \A n \in Nat : n \in S
  <2>1. S \in SUBSET Nat
    OBVIOUS
  <2> HIDE DEF S
  <2> QED
    BY <1>1, <1>2, <2>1, Induction
<1> QED
  BY <1>3

(* What is kept from round to round is true after the last one. *)
LEMMA Kept ==
  ASSUME NEW N \in Nat, NEW S, 0 \in S, \A n \in 1 .. N : n - 1 \in S => n \in S
  PROVE  N \in S
<1> DEFINE T == {m \in Nat : m <= N => m \in S}
<1>1. 0 \in T
  OBVIOUS
<1>2. \A m \in T : m + 1 \in T
  <2> SUFFICES ASSUME NEW m \in T, m + 1 <= N PROVE m + 1 \in S
    OBVIOUS
  <2>1. m + 1 \in 1 .. N /\ (m + 1) - 1 = m /\ m \in S
    OBVIOUS
  <2> QED
    BY <2>1
<1>3. T \in SUBSET Nat
  OBVIOUS
<1> HIDE DEF T
<1>4. N \in T
  BY <1>1, <1>2, <1>3, Induction
<1> QED
  BY <1>4 DEF T

-----------------------------------------------------------------------------
(* The two loops of parse_psi_file *)

(* The data while a text is parsed. *)
Data == PsiFile \cup {Malformed}

LEMMA StoreType ==
  ASSUME NEW d \in Data, NEW head \in Heads, NEW token \in Token
  PROVE  store(d, head, token) \in Data
<1>1. CASE d = Malformed \/ token.key \notin Fields \/ token.val = Malformed
  BY <1>1 DEF store, Data
<1>2. CASE ~(d = Malformed \/ token.key \notin Fields \/ token.val = Malformed)
  <2>1. d \in [Heads -> [Fields -> Nat]] /\ token.val \in Nat /\ token.key \in Fields
    BY <1>2 DEF Data, PsiFile, Averages, Token
  <2>2. store(d, head, token) = [d EXCEPT ![head] = [@ EXCEPT ![token.key] = token.val]]
    BY <1>2 DEF store
  <2>3. [d EXCEPT ![head] = [@ EXCEPT ![token.key] = token.val]] \in PsiFile
    BY <2>1 DEF PsiFile, Averages
  <2> QED
    BY <2>2, <2>3 DEF Data
<1> QED
  BY <1>1, <1>2

(* The token loop: what it makes of the data after each token. *)
TokenLoop(d, line, w) ==
  /\ w \in [0 .. Len(line.tokens) -> Data]
  /\ w[0] = d
  /\ \A n \in 1 .. Len(line.tokens) : w[n] = store(w[n - 1], line.start, line.tokens[n])
  /\ parse_line(d, line) = w[Len(line.tokens)]

LEMMA LineScanned ==
  ASSUME NEW d \in Data, NEW line \in Line, line.start \in Heads
  PROVE  \E w : TokenLoop(d, line, w)
<1> DEFINE N == Len(line.tokens)
           tok == line.tokens
           s(y, n) == store(y, line.start, tok[n])
           step == [p \in (1 .. N) \X Data |-> s(p[2], p[1])]
           Equation(g) == g = [n \in 0 .. N |-> IF n = 0 THEN d ELSE s(g[n - 1], n)]
<1>1. N \in Nat /\ \A n \in 1 .. N : tok[n] \in Token
  <2>1. tok \in Seq(Token)
    BY DEF Line
  <2> QED
    BY <2>1, LenProperties, ElementOfSeq
<1>2. \A y \in Data : \A n \in 1 .. N : s(y, n) \in Data
  BY <1>1, StoreType
<1>3. parse_line(d, line) = (CHOOSE g : Equation(g))[N]
  BY DEF parse_line
<1> HIDE DEF s, N, tok
<1>4. step \in [(1 .. N) \X Data -> Data]
  BY <1>2
<1>5. \A n \in 1 .. N : \A y \in Data : step[<<n, y>>] = s(y, n)
  OBVIOUS
<1> HIDE DEF step
<1>6. PICK f : Rounds(Data, N, step, d, f)
  BY <1>1, <1>4, RoundsExist
<1>7. f \in [0 .. N -> Data] /\ f[0] = d /\ \A n \in 1 .. N : f[n] = s(f[n - 1], n)
  <2>1. \A n \in 1 .. N : n - 1 \in 0 .. N
    BY <1>1
  <2> QED
    BY <1>5, <1>6, <2>1 DEF Rounds
<1>8. Equation(f)
  <2>1. \A n \in 0 .. N : f[n] = IF n = 0 THEN d ELSE s(f[n - 1], n)
    <3>1. \A n \in 0 .. N : n = 0 \/ n \in 1 .. N
      BY <1>1
    <3> QED
      BY <1>7, <3>1
  <2> QED
    BY <1>7, <2>1
<1> DEFINE w == CHOOSE g : Equation(g)
<1>9. Equation(w)
  BY <1>8
<1>w. parse_line(d, line) = w[N]
  BY <1>3
<1> HIDE DEF w
<1>10. /\ w[0] = d
       /\ \A n \in 1 .. N : w[n] = s(w[n - 1], n)
       /\ w = [n \in 0 .. N |-> w[n]]
  <2>1. \A n \in 0 .. N : w[n] = IF n = 0 THEN d ELSE s(w[n - 1], n)
    BY <1>9
  <2>2. 0 \in 0 .. N /\ \A n \in 1 .. N : n \in 0 .. N /\ n # 0
    BY <1>1
  <2>3. w = [n \in 0 .. N |-> w[n]]
    BY <1>9
  <2> QED
    BY <2>1, <2>2, <2>3
<1>11. \A n \in 0 .. N : w[n] \in Data
  <2> DEFINE S == {n \in 0 .. N : w[n] \in Data}
  <2> SUFFICES ASSUME NEW k \in 0 .. N PROVE k \in S
    OBVIOUS
  <2>1. 0 \in S
    BY <1>1, <1>10
  <2>2. \A n \in 1 .. k : n - 1 \in S => n \in S
    <3> SUFFICES ASSUME NEW n \in 1 .. k, n - 1 \in S PROVE n \in S
      OBVIOUS
    <3>1. n \in 1 .. N /\ n \in 0 .. N /\ w[n - 1] \in Data
      BY <1>1
    <3>2. w[n] = s(w[n - 1], n)
      BY <1>10, <3>1
    <3>3. s(w[n - 1], n) \in Data
      BY <1>2, <3>1
    <3> QED
      BY <3>1, <3>2, <3>3
  <2> HIDE DEF S
  <2> QED
    BY <1>1, <2>1, <2>2, Kept
<1>12. w \in [0 .. N -> Data]
  BY <1>10, <1>11
<1> QED
  BY <1>10, <1>12, <1>w DEF TokenLoop, s, N, tok

LEMMA ParsedLine ==
  ASSUME NEW d \in Data, NEW line \in Line, line.start \in Heads
  PROVE  parse_line(d, line) \in Data
<1>1. PICK w : TokenLoop(d, line, w)
  BY LineScanned
<1>2. Len(line.tokens) \in Nat
  <2>1. line.tokens \in Seq(Token)
    BY DEF Line
  <2> QED
    BY <2>1, LenProperties
<1> QED
  BY <1>1, <1>2 DEF TokenLoop

(* The line loop. *)
LineLoop(c, w) ==
  /\ w \in [0 .. Len(c) -> Data]
  /\ w[0] = ZeroData
  /\ \A n \in 1 .. Len(c) :
       w[n] = IF c[n].start \in Heads THEN parse_line(w[n - 1], c[n]) ELSE w[n - 1]
  /\ parse_psi_file(c) = w[Len(c)]

LEMMA TextScanned ==
  ASSUME NEW c \in Text
  PROVE  \E w : LineLoop(c, w)
<1> DEFINE N == Len(c)
           d == ZeroData
           s(y, n) == IF c[n].start \in Heads THEN parse_line(y, c[n]) ELSE y
           step == [p \in (1 .. N) \X Data |-> s(p[2], p[1])]
           Equation(g) == g = [n \in 0 .. N |-> IF n = 0 THEN d ELSE s(g[n - 1], n)]
<1>1. N \in Nat /\ (\A n \in 1 .. N : c[n] \in Line) /\ d \in Data
  <2>1. ZeroData \in Data
    BY DEF ZeroData, Data, PsiFile, Averages
  <2> QED
    BY <2>1, LenProperties, ElementOfSeq DEF Text
<1>2. \A y \in Data : \A n \in 1 .. N : s(y, n) \in Data
  BY <1>1, ParsedLine
<1>3. parse_psi_file(c) = (CHOOSE g : Equation(g))[N]
  BY DEF parse_psi_file
<1> HIDE DEF s, N, d
<1>4. step \in [(1 .. N) \X Data -> Data]
  BY <1>2
<1>5. \A n \in 1 .. N : \A y \in Data : step[<<n, y>>] = s(y, n)
  OBVIOUS
<1> HIDE DEF step
<1>6. PICK f : Rounds(Data, N, step, d, f)
  BY <1>1, <1>4, RoundsExist
<1>7. f \in [0 .. N -> Data] /\ f[0] = d /\ \A n \in 1 .. N : f[n] = s(f[n - 1], n)
  <2>1. \A n \in 1 .. N : n - 1 \in 0 .. N
    BY <1>1
  <2> QED
    BY <1>5, <1>6, <2>1 DEF Rounds
<1>8. Equation(f)
  <2>1. \A n \in 0 .. N : f[n] = IF n = 0 THEN d ELSE s(f[n - 1], n)
    <3>1. \A n \in 0 .. N : n = 0 \/ n \in 1 .. N
      BY <1>1
    <3> QED
      BY <1>7, <3>1
  <2> QED
    BY <1>7, <2>1
<1> DEFINE w == CHOOSE g : Equation(g)
<1>9. Equation(w)
  BY <1>8
<1>w. parse_psi_file(c) = w[N]
  BY <1>3
<1> HIDE DEF w
<1>10. /\ w[0] = d
       /\ \A n \in 1 .. N : w[n] = s(w[n - 1], n)
       /\ w = [n \in 0 .. N |-> w[n]]
  <2>1. \A n \in 0 .. N : w[n] = IF n = 0 THEN d ELSE s(w[n - 1], n)
    BY <1>9
  <2>2. 0 \in 0 .. N /\ \A n \in 1 .. N : n \in 0 .. N /\ n # 0
    BY <1>1
  <2>3. w = [n \in 0 .. N |-> w[n]]
    BY <1>9
  <2> QED
    BY <2>1, <2>2, <2>3
<1>11. \A n \in 0 .. N : w[n] \in Data
  <2> DEFINE S == {n \in 0 .. N : w[n] \in Data}
  <2> SUFFICES ASSUME NEW k \in 0 .. N PROVE k \in S
    OBVIOUS
  <2>1. 0 \in S
    BY <1>1, <1>10
  <2>2. \A n \in 1 .. k : n - 1 \in S => n \in S
    <3> SUFFICES ASSUME NEW n \in 1 .. k, n - 1 \in S PROVE n \in S
      OBVIOUS
    <3>1. n \in 1 .. N /\ n \in 0 .. N /\ w[n - 1] \in Data
      BY <1>1
    <3>2. w[n] = s(w[n - 1], n)
      BY <1>10, <3>1
    <3>3. s(w[n - 1], n) \in Data
      BY <1>2, <3>1
    <3> QED
      BY <3>1, <3>2, <3>3
  <2> HIDE DEF S
  <2> QED
    BY <1>1, <2>1, <2>2, Kept
<1>12. w \in [0 .. N -> Data]
  BY <1>10, <1>11
<1> QED
  BY <1>10, <1>12, <1>w DEF LineLoop, s, N, d

-----------------------------------------------------------------------------
(* What the loops have found *)

(* The places met when j tokens of line i have been read, and all before. *)
Met(c, h, f, i, j) ==
  {p \in Places(c, h, f) : p[1] < i \/ (p[1] = i /\ p[2] <= j)}

Value(c, p) == c[p[1]].tokens[p[2]].val

BadIn(c, S) == \E p \in S : Value(c, p) = Malformed

LastIn(c, S, v) ==
  IF S = {} THEN v = 0
  ELSE \E p \in S : v = Value(c, p) /\ \A q \in S : Later(p, q)

(* The data hold the last values met, unless one could not be converted. *)
Knows(c, i, j, d) ==
  /\ d \in Data
  /\ d = Malformed <=> \E h \in Heads : \E f \in Fields : BadIn(c, Met(c, h, f, i, j))
  /\ d # Malformed => \A h \in Heads : \A f \in Fields : LastIn(c, Met(c, h, f, i, j), d[h][f])

LEMMA Lines ==
  ASSUME NEW c \in Text
  PROVE  /\ Len(c) \in Nat
         /\ \A i \in 1 .. Len(c) :
              /\ c[i] \in Line /\ Len(c[i].tokens) \in Nat
              /\ \A j \in 1 .. Len(c[i].tokens) : c[i].tokens[j] \in Token
<1>1. Len(c) \in Nat /\ \A i \in 1 .. Len(c) : c[i] \in Line
  BY LenProperties, ElementOfSeq DEF Text
<1>2. ASSUME NEW l \in Line
      PROVE  Len(l.tokens) \in Nat /\ \A j \in 1 .. Len(l.tokens) : l.tokens[j] \in Token
  <2>1. l.tokens \in Seq(Token)
    BY DEF Line
  <2> QED
    BY <2>1, LenProperties, ElementOfSeq
<1> QED
  BY <1>1, <1>2

(* A place of a text, by its line and its token. *)
IsPlace(c, h, f, i, j) ==
  /\ i \in 1 .. Len(c) /\ j \in 1 .. Len(c[i].tokens)
  /\ c[i].start = h /\ c[i].tokens[j].key = f

LEMMA PlacesAre ==
  ASSUME NEW c \in Text, NEW h, NEW f
  PROVE  /\ \A p \in Places(c, h, f) : p = <<p[1], p[2]>> /\ IsPlace(c, h, f, p[1], p[2])
         /\ \A i, j : IsPlace(c, h, f, i, j) => <<i, j>> \in Places(c, h, f)
<1>1. DOMAIN c = 1 .. Len(c) /\ \A i \in 1 .. Len(c) : DOMAIN c[i].tokens = 1 .. Len(c[i].tokens)
  <2>1. ASSUME NEW l \in Line PROVE DOMAIN l.tokens = 1 .. Len(l.tokens)
    <3>1. l.tokens \in Seq(Token)
      BY DEF Line
    <3> QED
      BY <3>1, LenProperties
  <2> QED
    BY <2>1, Lines, LenProperties DEF Text
<1>2. ASSUME NEW p \in Places(c, h, f)
      PROVE  p = <<p[1], p[2]>> /\ IsPlace(c, h, f, p[1], p[2])
  <2>1. PICK i \in DOMAIN c : p \in {i} \X DOMAIN c[i].tokens
    BY DEF Places
  <2>2. p = <<p[1], p[2]>> /\ p[1] = i /\ p[2] \in DOMAIN c[i].tokens
    BY <2>1
  <2>3. c[p[1]].start = h /\ c[p[1]].tokens[p[2]].key = f
    BY DEF Places
  <2> QED
    BY <1>1, <2>2, <2>3 DEF IsPlace
<1>3. ASSUME NEW i, NEW j, IsPlace(c, h, f, i, j)
      PROVE  <<i, j>> \in Places(c, h, f)
  <2>1. i \in DOMAIN c /\ j \in DOMAIN c[i].tokens
    BY <1>1, <1>3 DEF IsPlace
  <2>2. <<i, j>> \in {i} \X DOMAIN c[i].tokens
    BY <2>1
  <2>3. <<i, j>> \in UNION {{k} \X DOMAIN c[k].tokens : k \in DOMAIN c}
    BY <2>1, <2>2
  <2> QED
    BY <1>3, <2>3 DEF Places, IsPlace
<1> QED
  BY <1>2, <1>3

(* The next token is a place of its own field, the last so far. *)
One(c, i, j, h, f) ==
  IF c[i].start = h /\ c[i].tokens[j].key = f
  THEN Met(c, h, f, i, j) = Met(c, h, f, i, j - 1) \cup {<<i, j>>}
  ELSE Met(c, h, f, i, j) = Met(c, h, f, i, j - 1)

LEMMA MetOneMore ==
  ASSUME NEW c \in Text, NEW i \in 1 .. Len(c), NEW j \in 1 .. Len(c[i].tokens),
         NEW h, NEW f
  PROVE  /\ One(c, i, j, h, f)
         /\ \A p \in Met(c, h, f, i, j - 1) : Later(<<i, j>>, p)
<1>1. \A p \in Places(c, h, f) :
        /\ p = <<p[1], p[2]>> /\ p[1] \in Int /\ p[2] \in Int
        /\ c[p[1]].start = h /\ c[p[1]].tokens[p[2]].key = f
  BY PlacesAre, Lines DEF IsPlace
<1>2. i \in Int /\ j \in Int
  BY Lines
<1>3. \A p \in Places(c, h, f) : p[1] = i /\ p[2] = j <=> p = <<i, j>>
  BY <1>1
<1>4. ASSUME NEW p \in Places(c, h, f)
      PROVE  (p[1] < i \/ (p[1] = i /\ p[2] <= j))
               <=> (p[1] < i \/ (p[1] = i /\ p[2] <= j - 1)) \/ p = <<i, j>>
  <2>1. p[1] \in Int /\ p[2] \in Int /\ (p[1] = i /\ p[2] = j <=> p = <<i, j>>)
    BY <1>1, <1>3
  <2> QED
    BY <1>2, <2>1
<1> DEFINE Pl == Places(c, h, f)
           A == Met(c, h, f, i, j)
           B == Met(c, h, f, i, j - 1)
<1>a. /\ \A p \in A : p \in Pl /\ (p \in B \/ p = <<i, j>>)
      /\ \A p \in B : p \in Pl /\ p \in A
      /\ <<i, j>> \in Pl => <<i, j>> \in A
  BY <1>4 DEF Met
<1>5. ASSUME c[i].start = h, c[i].tokens[j].key = f
      PROVE  A = B \cup {<<i, j>>}
  <2>1. <<i, j>> \in Pl
    BY <1>5, PlacesAre DEF IsPlace
  <2> HIDE DEF A, B, Pl
  <2> QED
    BY <1>a, <2>1
<1>6. ASSUME ~(c[i].start = h /\ c[i].tokens[j].key = f)
      PROVE  A = B
  <2>1. <<i, j>> \notin Pl
    BY <1>1, <1>6
  <2> HIDE DEF A, B, Pl
  <2> QED
    BY <1>a, <2>1
<1> HIDE DEF A, B, Pl
<1>7. \A p \in Met(c, h, f, i, j - 1) : Later(<<i, j>>, p)
  <2> SUFFICES ASSUME NEW p \in Met(c, h, f, i, j - 1) PROVE Later(<<i, j>>, p)
    OBVIOUS
  <2>1. p[1] \in Int /\ p[2] \in Int /\ (p[1] < i \/ (p[1] = i /\ p[2] <= j - 1))
    BY <1>1 DEF Met
  <2>2. i > p[1] \/ (i = p[1] /\ j >= p[2])
    BY <1>2, <2>1
  <2> QED
    BY <2>2 DEF Later
<1> QED
  BY <1>5, <1>6, <1>7 DEF A, B, One

(* store keeps what is known true from one token to the next. *)
LEMMA TokenKept ==
  ASSUME NEW c \in Text, NEW i \in 1 .. Len(c), NEW j \in 1 .. Len(c[i].tokens),
         c[i].start \in Heads, NEW d, Knows(c, i, j - 1, d)
  PROVE  Knows(c, i, j, store(d, c[i].start, c[i].tokens[j]))
<1> DEFINE H == c[i].start
           t == c[i].tokens[j]
           K == t.key
           V == t.val
           e == store(d, H, t)
           Old(h, f) == Met(c, h, f, i, j - 1)
           New(h, f) == Met(c, h, f, i, j)
<1>1. t \in Token /\ H \in Heads /\ i \in Int /\ j \in Int
  BY Lines
<1>2. d \in Data /\ e \in Data
  BY <1>1, StoreType DEF Knows
<1>3. /\ d = Malformed <=> \E h \in Heads : \E f \in Fields : BadIn(c, Old(h, f))
      /\ d # Malformed => \A h \in Heads : \A f \in Fields : LastIn(c, Old(h, f), d[h][f])
  BY DEF Knows
<1>4. \A h, f : IF H = h /\ K = f THEN New(h, f) = Old(h, f) \cup {<<i, j>>} ELSE New(h, f) = Old(h, f)
  <2> SUFFICES ASSUME NEW h, NEW f
               PROVE  IF H = h /\ K = f THEN New(h, f) = Old(h, f) \cup {<<i, j>>}
                      ELSE New(h, f) = Old(h, f)
    OBVIOUS
  <2>1. One(c, i, j, h, f)
    BY MetOneMore
  <2> QED
    BY <2>1 DEF One
<1>5. \A h, f : \A p \in Old(h, f) : Later(<<i, j>>, p)
  BY MetOneMore
<1>6. Later(<<i, j>>, <<i, j>>)
  BY <1>1 DEF Later
<1>7. Value(c, <<i, j>>) = V
  BY DEF Value
<1>8. e = IF d = Malformed \/ K \notin Fields THEN d
          ELSE IF V = Malformed THEN Malformed ELSE [d EXCEPT ![H][K] = V]
  BY DEF store
<1> SUFFICES /\ e = Malformed <=> \E h \in Heads : \E f \in Fields : BadIn(c, New(h, f))
             /\ e # Malformed => \A h \in Heads : \A f \in Fields : LastIn(c, New(h, f), e[h][f])
  BY <1>2 DEF Knows
<1> HIDE DEF t, K, V, H, e, Old, New
<1>9. CASE K \notin Fields
  <2>1. \A h \in Heads : \A f \in Fields : New(h, f) = Old(h, f)
    BY <1>4, <1>9
  <2>2. e = d
    BY <1>8, <1>9
  <2> QED
    BY <1>3, <2>1, <2>2
<1>10. CASE K \in Fields
  <2>1. BadIn(c, New(H, K)) <=> BadIn(c, Old(H, K)) \/ V = Malformed
    BY <1>4, <1>7 DEF BadIn
  <2>2. \A h, f : ~(H = h /\ K = f) => New(h, f) = Old(h, f)
    BY <1>4
  <2>3. (\E h \in Heads : \E f \in Fields : BadIn(c, New(h, f)))
          <=> (\E h \in Heads : \E f \in Fields : BadIn(c, Old(h, f))) \/ V = Malformed
    BY <1>1, <1>10, <2>1, <2>2
  <2>4. CASE d = Malformed \/ V = Malformed
    BY <1>3, <1>8, <1>10, <2>3, <2>4
  <2>5. CASE d # Malformed /\ V # Malformed
    <3>1. e = [d EXCEPT ![H] = [@ EXCEPT ![K] = V]]
      BY <1>8, <1>10, <2>5
    <3>2. d \in [Heads -> [Fields -> Nat]]
      BY <1>2, <2>5 DEF Data, PsiFile, Averages
    <3>3. \A h \in Heads : \A f \in Fields : e[h][f] = IF H = h /\ K = f THEN V ELSE d[h][f]
      BY <1>1, <1>10, <3>1, <3>2
    <3>4. e # Malformed
      <4>1. V \in Nat
        BY <1>1, <2>5 DEF V, Token
      <4>2. e \in PsiFile
        BY <1>1, <1>10, <3>1, <3>2, <4>1 DEF PsiFile, Averages
      <4> QED
        BY <4>2, MalformedAssumption
    <3>5. LastIn(c, New(H, K), V)
      <4>1. <<i, j>> \in New(H, K) /\ \A q \in New(H, K) : Later(<<i, j>>, q)
        BY <1>4, <1>5, <1>6
      <4> QED
        BY <1>7, <4>1 DEF LastIn
    <3>6. \A h \in Heads : \A f \in Fields : LastIn(c, New(h, f), e[h][f])
      <4> SUFFICES ASSUME NEW h \in Heads, NEW f \in Fields
                   PROVE  LastIn(c, New(h, f), e[h][f])
        OBVIOUS
      <4>1. CASE H = h /\ K = f
        BY <3>3, <3>5, <4>1
      <4>2. CASE ~(H = h /\ K = f)
        <5>1. New(h, f) = Old(h, f) /\ e[h][f] = d[h][f]
          BY <2>2, <3>3, <4>2
        <5> QED
          BY <1>3, <2>5, <5>1
      <4> QED
        BY <4>1, <4>2
    <3> QED
      BY <1>3, <2>3, <2>5, <3>4, <3>6
  <2> QED
    BY <2>4, <2>5
<1> QED
  BY <1>9, <1>10

(* Equal sets of places, equal knowledge. *)
LEMMA SameKnown ==
  ASSUME NEW c, NEW i, NEW j, NEW k, NEW l, NEW d, Knows(c, i, j, d),
         \A h \in Heads : \A f \in Fields : Met(c, h, f, i, j) = Met(c, h, f, k, l)
  PROVE  Knows(c, k, l, d)
<1> DEFINE X(h, f) == Met(c, h, f, i, j)
           Y(h, f) == Met(c, h, f, k, l)
<1>1. \A h \in Heads : \A f \in Fields : X(h, f) = Y(h, f)
  OBVIOUS
<1>2. /\ d \in Data
      /\ d = Malformed <=> \E h \in Heads : \E f \in Fields : BadIn(c, X(h, f))
      /\ d # Malformed => \A h \in Heads : \A f \in Fields : LastIn(c, X(h, f), d[h][f])
  BY DEF Knows
<1> SUFFICES /\ d \in Data
             /\ d = Malformed <=> \E h \in Heads : \E f \in Fields : BadIn(c, Y(h, f))
             /\ d # Malformed => \A h \in Heads : \A f \in Fields : LastIn(c, Y(h, f), d[h][f])
  BY DEF Knows
<1> HIDE DEF X, Y
<1> QED
  BY <1>1, <1>2

(* All tokens of a line: on to the next one. *)
LEMMA NextLine ==
  ASSUME NEW c \in Text, NEW i \in 1 .. Len(c), NEW d, Knows(c, i, Len(c[i].tokens), d)
  PROVE  Knows(c, i + 1, 0, d)
<1>1. ASSUME NEW h, NEW f
      PROVE  Met(c, h, f, i, Len(c[i].tokens)) = Met(c, h, f, i + 1, 0)
  <2>1. \A p \in Places(c, h, f) :
          (p[1] < i \/ (p[1] = i /\ p[2] <= Len(c[i].tokens)))
            <=> (p[1] < i + 1 \/ (p[1] = i + 1 /\ p[2] <= 0))
    BY PlacesAre, Lines DEF IsPlace
  <2> QED
    BY <2>1 DEF Met
<1> QED
  BY <1>1, SameKnown

(* A line that starts with neither word has no places. *)
LEMMA LineSkipped ==
  ASSUME NEW c \in Text, NEW i \in 1 .. Len(c), c[i].start \notin Heads,
         NEW d, Knows(c, i, 0, d)
  PROVE  Knows(c, i + 1, 0, d)
<1>1. ASSUME NEW h \in Heads, NEW f
      PROVE  Met(c, h, f, i, 0) = Met(c, h, f, i + 1, 0)
  <2>1. ASSUME NEW p \in Places(c, h, f)
        PROVE  (p[1] < i \/ (p[1] = i /\ p[2] <= 0))
                 <=> (p[1] < i + 1 \/ (p[1] = i + 1 /\ p[2] <= 0))
    <3>1. IsPlace(c, h, f, p[1], p[2])
      BY PlacesAre
    <3>2. p[1] \in Int /\ p[2] \in Int /\ p[2] >= 1 /\ p[1] # i
      BY <3>1, Lines DEF IsPlace
    <3> QED
      BY <3>2, Lines
  <2> QED
    BY <2>1 DEF Met
<1> QED
  BY <1>1, SameKnown

(* A line that does is read token by token. *)
LEMMA LineKept ==
  ASSUME NEW c \in Text, NEW i \in 1 .. Len(c), c[i].start \in Heads,
         NEW d, Knows(c, i, 0, d)
  PROVE  Knows(c, i + 1, 0, parse_line(d, c[i]))
<1> DEFINE N == Len(c[i].tokens)
<1>1. d \in Data /\ c[i] \in Line /\ N \in Nat
  BY Lines DEF Knows
<1>2. PICK w : TokenLoop(d, c[i], w)
  BY <1>1, LineScanned
<1>3. /\ w[0] = d /\ parse_line(d, c[i]) = w[N]
      /\ \A n \in 1 .. N : w[n] = store(w[n - 1], c[i].start, c[i].tokens[n])
  BY <1>2 DEF TokenLoop
<1> DEFINE S == {n \in 0 .. N : Knows(c, i, n, w[n])}
<1>4. 0 \in S
  BY <1>1, <1>3
<1>5. \A n \in 1 .. N : n - 1 \in S => n \in S
  <2> SUFFICES ASSUME NEW n \in 1 .. N, n - 1 \in S PROVE n \in S
    OBVIOUS
  <2>1. Knows(c, i, n - 1, w[n - 1])
    OBVIOUS
  <2>2. Knows(c, i, n, w[n])
    BY <1>3, <2>1, TokenKept
  <2> QED
    BY <1>1, <2>2
<1>6. N \in S
  <2> HIDE DEF S, N
  <2> QED
    BY <1>1, <1>4, <1>5, Kept
<1>7. Knows(c, i, N, w[N])
  BY <1>6
<1> QED
  BY <1>3, <1>7, NextLine

LEMMA NothingKnown ==
  ASSUME NEW c \in Text
  PROVE  Knows(c, 1, 0, ZeroData)
<1>1. ASSUME NEW h, NEW f PROVE Met(c, h, f, 1, 0) = {}
  <2>1. \A p \in Places(c, h, f) : p[1] \in Nat \ {0} /\ p[2] \in Nat \ {0}
    BY PlacesAre, Lines DEF IsPlace
  <2> QED
    BY <2>1 DEF Met
<1>2. ZeroData \in PsiFile /\ \A h \in Heads : \A f \in Fields : ZeroData[h][f] = 0
  BY DEF ZeroData, PsiFile, Averages
<1>3. ZeroData \in Data /\ ZeroData # Malformed
  BY <1>2, MalformedAssumption DEF Data
<1> QED
  BY <1>1, <1>2, <1>3 DEF Knows, BadIn, LastIn

(* At the end everything in the text is known. *)
LEMMA AllKnown ==
  ASSUME NEW c \in Text
  PROVE  Knows(c, Len(c) + 1, 0, parse_psi_file(c))
<1> DEFINE N == Len(c)
<1>1. PICK w : LineLoop(c, w)
  BY TextScanned
<1>2. /\ w[0] = ZeroData /\ parse_psi_file(c) = w[N]
      /\ \A n \in 1 .. N :
           w[n] = IF c[n].start \in Heads THEN parse_line(w[n - 1], c[n]) ELSE w[n - 1]
  BY <1>1 DEF LineLoop
<1>3. N \in Nat
  BY Lines
<1> DEFINE S == {n \in 0 .. N : Knows(c, n + 1, 0, w[n])}
<1>4. 0 \in S
  <2>1. 0 + 1 = 1
    OBVIOUS
  <2> QED
    BY <1>2, <1>3, <2>1, NothingKnown
<1>5. \A n \in 1 .. N : n - 1 \in S => n \in S
  <2> SUFFICES ASSUME NEW n \in 1 .. N, n - 1 \in S PROVE n \in S
    OBVIOUS
  <2>1. Knows(c, n, 0, w[n - 1])
    <3>1. (n - 1) + 1 = n
      BY <1>3
    <3> QED
      BY <3>1
  <2>2. Knows(c, n + 1, 0, w[n])
    <3>1. CASE c[n].start \in Heads
      BY <1>2, <2>1, <3>1, LineKept
    <3>2. CASE c[n].start \notin Heads
      BY <1>2, <2>1, <3>2, LineSkipped
    <3> QED
      BY <3>1, <3>2
  <2> QED
    BY <1>3, <2>2
<1>6. N \in S
  <2> HIDE DEF S, N
  <2> QED
    BY <1>3, <1>4, <1>5, Kept
<1> QED
  BY <1>2, <1>6

(* There is one last place at most. *)
LEMMA GivenIs ==
  ASSUME NEW c \in Text, NEW h, NEW f, NEW v, LastIn(c, Places(c, h, f), v)
  PROVE  Given(c, h, f) = v
<1> DEFINE P == Places(c, h, f)
           last == CHOOSE p \in P : \A q \in P : Later(p, q)
<1>1. CASE P = {}
  BY <1>1 DEF LastIn, Given
<1>2. CASE P # {}
  <2>1. PICK p \in P : v = Value(c, p) /\ \A q \in P : Later(p, q)
    BY <1>2 DEF LastIn
  <2>2. last \in P /\ \A q \in P : Later(last, q)
    BY <2>1
  <2>g. Given(c, h, f) = c[last[1]].tokens[last[2]].val
    BY <1>2 DEF Given
  <2> HIDE DEF last
  <2>3. \A q \in P : q = <<q[1], q[2]>> /\ q[1] \in Int /\ q[2] \in Int
    BY PlacesAre, Lines DEF IsPlace
  <2>4. p[1] = last[1] /\ p[2] = last[2]
    <3>1. Later(p, last) /\ Later(last, p)
      BY <2>1, <2>2
    <3>2. p[1] \in Int /\ p[2] \in Int /\ last[1] \in Int /\ last[2] \in Int
      BY <2>1, <2>2, <2>3
    <3> QED
      BY <3>1, <3>2 DEF Later
  <2> QED
    BY <2>1, <2>4, <2>g DEF Value
<1> QED
  BY <1>1, <1>2

(* parse_psi_file throws on a bad number of a known field on a line that   *)
(* starts with "some" or "full", whatever its first word is, and on        *)
(* nothing else; otherwise it finds for each half the last value such      *)
(* lines give every field, and zero for one they do not give.              *)
THEOREM ParserFindsMeaning ==
  \A c \in Text :
    /\ throws(c) <=> HasBadNumber(c)
    /\ ~throws(c) => parse_psi_file(c) \in PsiFile /\ parse_psi_file(c) = Meaning(c)
<1> SUFFICES ASSUME NEW c \in Text
             PROVE  /\ throws(c) <=> HasBadNumber(c)
                    /\ ~throws(c) => parse_psi_file(c) \in PsiFile /\ parse_psi_file(c) = Meaning(c)
  OBVIOUS
<1> DEFINE d == parse_psi_file(c)
<1>1. \A h, f : Met(c, h, f, Len(c) + 1, 0) = Places(c, h, f)
  <2> SUFFICES ASSUME NEW h, NEW f
               PROVE  Met(c, h, f, Len(c) + 1, 0) = Places(c, h, f)
    OBVIOUS
  <2>1. \A p \in Places(c, h, f) : p[1] < Len(c) + 1
    BY PlacesAre, Lines DEF IsPlace
  <2> QED
    BY <2>1 DEF Met
<1>2. Knows(c, Len(c) + 1, 0, d)
  BY AllKnown
<1>t. throws(c) <=> d = Malformed
  BY DEF throws
<1> HIDE DEF d
<1>3. /\ d \in Data
      /\ d = Malformed <=> \E h \in Heads : \E f \in Fields : BadIn(c, Places(c, h, f))
      /\ d # Malformed => \A h \in Heads : \A f \in Fields : LastIn(c, Places(c, h, f), d[h][f])
  BY <1>1, <1>2 DEF Knows
<1>4. throws(c) <=> HasBadNumber(c)
  BY <1>3, <1>t DEF HasBadNumber, BadIn, Value
<1>5. ASSUME ~throws(c)
      PROVE  d \in PsiFile /\ d = Meaning(c)
  <2>1. d \in PsiFile
    BY <1>3, <1>5, <1>t DEF Data
  <2>2. \A h \in Heads : \A f \in Fields : Given(c, h, f) = d[h][f]
    BY <1>3, <1>5, <1>t, GivenIs
  <2>3. d = [h \in Heads |-> [f \in Fields |-> d[h][f]]]
    BY <2>1 DEF PsiFile, Averages
  <2> QED
    BY <2>1, <2>2, <2>3 DEF Meaning
<1> QED
  BY <1>4, <1>5 DEF d

-----------------------------------------------------------------------------
(* The engine under the poller *)

LEMMA TierFacts ==
  ASSUME NEW t \in Engine!Tiers
  PROVE  /\ t \in Nat /\ Engine!TopTier \in Nat
         /\ Config[t].shrink_pct \in 0 .. 100
         /\ t < Engine!TopTier => t + 1 \in Engine!Tiers
         /\ t > Engine!NORMAL => t - 1 \in Engine!Tiers
<1>1. NumTiers \in Nat \ {0} /\ t \in 0 .. NumTiers - 1 /\ Config[t] \in Engine!TierConfig
  BY ConfigAssumption DEF Engine!Tiers
<1>2. Config[t].shrink_pct \in 0 .. 100
  BY <1>1 DEF Engine!TierConfig
<1> QED
  BY <1>1, <1>2 DEF Engine!Tiers, Engine!TopTier, Engine!NORMAL

LEMMA EvaluateType ==
  ASSUME Engine!TypeOK, NEW d, Engine!Evaluate(d)
  PROVE  Engine!TypeOK'
<1>1. /\ current_tier \in Engine!Tiers /\ consecutive_promote_polls \in Nat
      /\ consecutive_demote_polls \in Nat
  BY DEF Engine!TypeOK
<1>2. Engine!PromotePolls(d) \in Nat /\ Engine!DemotePolls(d) \in Nat
  BY <1>1 DEF Engine!PromotePolls, Engine!DemotePolls
<1>3. CASE Engine!Promote(d)
  <2>1. current_tier < Engine!TopTier
    BY <1>3 DEF Engine!Promote, Engine!Promotes, Engine!PromoteCondition
  <2>2. current_tier + 1 \in Engine!Tiers
    BY <1>1, <2>1, TierFacts
  <2>3. Config[current_tier + 1].shrink_pct \in 0 .. 100
    BY <2>2, TierFacts
  <2>4. action' \in Engine!PolicyAction
    BY <1>3, <2>2, <2>3 DEF Engine!Promote, Engine!Answer, Engine!PolicyAction
  <2> QED
    BY <1>3, <2>2, <2>4 DEF Engine!Promote, Engine!TypeOK
<1>4. CASE Engine!Demote(d)
  <2>1. current_tier > Engine!NORMAL
    BY <1>4 DEF Engine!Demote, Engine!Demotes, Engine!DemoteCondition
  <2>2. current_tier - 1 \in Engine!Tiers /\ Config[current_tier].shrink_pct \in 0 .. 100
    BY <1>1, <2>1, TierFacts
  <2>3. action' \in Engine!PolicyAction
    BY <1>4, <2>2 DEF Engine!Demote, Engine!Answer, Engine!PolicyAction
  <2> QED
    BY <1>4, <2>2, <2>3 DEF Engine!Demote, Engine!TypeOK
<1>5. CASE Engine!Hold(d)
  <2>1. action' \in Engine!PolicyAction
    BY <1>1, <1>5 DEF Engine!Hold, Engine!Answer, Engine!PolicyAction
  <2> QED
    BY <1>1, <1>2, <1>5, <2>1 DEF Engine!Hold, Engine!TypeOK
<1> QED
  BY <1>3, <1>4, <1>5 DEF Engine!Evaluate

-----------------------------------------------------------------------------
(* What the thread holds *)

(* A parse, a call and the end of the process are of the text read last,   *)
(* and the call of its data.                                               *)
Holds ==
  /\ thread \in {"parse", "call", "terminated"} => content \in Contents
  /\ thread = "call" => ~throws(content) /\ latest_data = parse_psi_file(content)
  /\ thread = "terminated" => throws(content)

PollInv == TypeOK /\ Holds

LEMMA InitPollInv == Init => PollInv
<1> SUFFICES ASSUME Init PROVE PollInv
  OBVIOUS
<1>1. 0 \in Engine!Tiers
  BY ConfigAssumption DEF Engine!Tiers
<1>2. Engine!TypeOK
  <2>1. Engine!Answer("NONE", 0, Engine!NORMAL) \in Engine!PolicyAction
    BY <1>1 DEF Engine!Answer, Engine!PolicyAction, Engine!NORMAL
  <2> QED
    BY <1>1, <2>1 DEF Init, Engine!Init, Engine!TypeOK, Engine!NORMAL
<1>3. ZeroData \in PsiFile
  BY DEF ZeroData, PsiFile, Averages
<1> QED
  BY <1>2, <1>3 DEF Init, PollInv, TypeOK, Holds, Unreadable

(* Steps that leave the engine and the data alone. *)
LEMMA QuietSteps ==
  ASSUME PollInv, UNCHANGED <<latest_data, engineVars>>,
         psi' \in Contents \cup {Unreadable}, content' \in Contents \cup {Unreadable},
         running' \in BOOLEAN, owner' \in {"idle", "joining"}, callback' \in BOOLEAN,
         cb' \in BOOLEAN,
         thread' \in {"none", "loop", "read", "parse", "call", "dispatch", "sleep", "done",
                      "terminated", "killed"},
         Holds'
  PROVE  PollInv'
<1>1. Engine!TypeOK'
  BY DEF PollInv, TypeOK, Engine!TypeOK, engineVars
<1> QED
  BY <1>1 DEF PollInv, TypeOK

LEMMA ParsePolls == ASSUME PollInv, Parse PROVE PollInv'
<1>1. thread = "parse" /\ content \in Contents /\ content \in Text
  BY ContentsAssumption DEF Parse, PollInv, Holds
<1>2. UNCHANGED <<psi, content, running, owner, callback, engineVars>>
  BY DEF Parse
<1>3. Engine!TypeOK'
  BY <1>2 DEF PollInv, TypeOK, Engine!TypeOK, engineVars
<1>4. CASE throws(content)
  <2>1. thread' = "terminated" /\ UNCHANGED <<latest_data, cb>>
    BY <1>4 DEF Parse
  <2>2. Holds'
    BY <1>1, <1>2, <1>4, <2>1 DEF Holds
  <2> QED
    BY <1>2, <1>3, <2>1, <2>2 DEF PollInv, TypeOK
<1>5. CASE ~throws(content)
  <2>1. /\ latest_data' = parse_psi_file(content) /\ cb' = callback
        /\ thread' \in {"call", "sleep"}
    BY <1>5 DEF Parse
  <2>2. latest_data' \in PsiFile
    BY <1>1, <1>5, <2>1, ParserFindsMeaning
  <2>3. Holds'
    BY <1>1, <1>2, <1>5, <2>1 DEF Holds
  <2> QED
    BY <1>2, <1>3, <2>1, <2>2, <2>3 DEF PollInv, TypeOK
<1> QED
  BY <1>4, <1>5

LEMMA CallPolls == ASSUME PollInv, Call PROVE PollInv'
<1>1. /\ thread' \in {"sleep", "dispatch"} /\ Engine!Evaluate(Sample(latest_data))
      /\ UNCHANGED <<psi, content, running, owner, latest_data, callback, cb>>
  BY DEF Call
<1>2. Engine!TypeOK'
  BY <1>1, EvaluateType DEF PollInv, TypeOK
<1>3. Holds'
  BY <1>1 DEF Holds
<1> QED
  BY <1>1, <1>2, <1>3 DEF PollInv, TypeOK

LEMMA StepPollInv == PollInv /\ [Next]_vars => PollInv'
<1> SUFFICES ASSUME PollInv, [Next]_vars PROVE PollInv'
  OBVIOUS
<1> USE DEF PollInv, TypeOK, Holds
<1>1. CASE KernelUpdate
  BY <1>1, QuietSteps DEF KernelUpdate
<1>2. CASE SetCallback
  BY <1>2, QuietSteps DEF SetCallback
<1>3. CASE Start
  BY <1>3, QuietSteps DEF Start
<1>4. CASE Stop
  BY <1>4, QuietSteps DEF Stop
<1>5. CASE Join
  BY <1>5, QuietSteps DEF Join
<1>6. CASE Loop
  BY <1>6, QuietSteps DEF Loop
<1>7. CASE Read
  BY <1>7, QuietSteps DEF Read
<1>8. CASE Parse
  BY <1>8, ParsePolls
<1>9. CASE Call
  BY <1>9, CallPolls
<1>10. CASE Sleep
  BY <1>10, QuietSteps DEF Sleep, Unreadable
<1>11. CASE Dispatch
  BY <1>11, QuietSteps DEF Dispatch
<1>12. CASE UNCHANGED vars
  BY <1>12, QuietSteps DEF vars, pollerVars
<1> QED
  BY <1>1, <1>2, <1>3, <1>4, <1>5, <1>6, <1>7, <1>8, <1>9, <1>10, <1>11, <1>12
     DEF Next, PollLoop

LEMMA PollInvariant == Spec => []PollInv
BY InitPollInv, StepPollInv, PTL DEF Spec

(* The poller never publishes anything but a whole PsiData, and the engine *)
(* driven by it keeps to its tiers.                                        *)
THEOREM PollerTypeOK == Spec => []TypeOK
<1>1. PollInv => TypeOK
  BY DEF PollInv
<1> QED
  BY <1>1, PollInvariant, PTL

(* poll_loop calls the engine with the last values the file gave when it   *)
(* was read, and zero for those it did not give, however the file has      *)
(* changed since, and never after a read that failed.                      *)
THEOREM EvaluatesWhatWasRead == Spec => []EvaluatesOnlyWhatWasRead
<1>1. PollInv => EvaluatesOnlyWhatWasRead
  <2> SUFFICES ASSUME PollInv, thread = "call"
               PROVE  content # Unreadable /\ latest_data = Meaning(content)
    BY DEF EvaluatesOnlyWhatWasRead
  <2>1. content \in Text \ {Unreadable}
    BY ContentsAssumption DEF PollInv, Holds
  <2>2. ~throws(content) /\ latest_data = parse_psi_file(content)
    BY DEF PollInv, Holds
  <2> QED
    BY <2>1, <2>2, ParserFindsMeaning
<1> QED
  BY <1>1, PollInvariant, PTL

(* The parser throws, and so ends the daemon, on no text but one with a    *)
(* bad number for a known field, on a line that starts with "some" or      *)
(* "full" whatever its first word is.                                      *)
THEOREM BadNumbersOnly == Spec => []OnlyBadNumbersTerminate
<1>1. PollInv => OnlyBadNumbersTerminate
  <2> SUFFICES ASSUME PollInv, thread = "terminated"
               PROVE  HasBadNumber(content)
    BY DEF OnlyBadNumbersTerminate
  <2>1. content \in Text /\ throws(content)
    BY ContentsAssumption DEF PollInv, Holds
  <2> QED
    BY <2>1, ParserFindsMeaning
<1> QED
  BY <1>1, PollInvariant, PTL

(* GovernorDaemon::on_psi_update is all that the engine ever sees of the   *)
(* poller: under it the engine starts as constructed and takes its own     *)
(* steps, each on a sample that a text of the file gives, so that what is  *)
(* proved of the engine alone holds of it here.                            *)
THEOREM DrivesEngine == Spec => Engine!Spec
<1>1. Init => Engine!Init
  BY DEF Init
<1>2. PollInv /\ [Next]_vars => [Engine!Next]_(Engine!engineVars)
  <2> SUFFICES ASSUME PollInv, [Next]_vars
               PROVE  Engine!Next \/ UNCHANGED Engine!engineVars
    OBVIOUS
  <2>1. CASE Call
    <3>1. Engine!Evaluate(Sample(latest_data)) /\ thread = "call"
      BY <2>1 DEF Call
    <3>2. Sample(latest_data) \in Samples
      <4>1. content \in {u \in Contents : ~throws(u)} /\ latest_data = parse_psi_file(content)
        BY <3>1 DEF PollInv, Holds
      <4> QED
        BY <4>1 DEF Samples
    <3> QED
      BY <3>1, <3>2 DEF Engine!Next
  <2>2. CASE ~Call
    BY <2>2 DEF Next, PollLoop, KernelUpdate, SetCallback, Start, Stop, Join, Loop, Read, Parse,
       Sleep, Dispatch, vars, engineVars, Engine!engineVars
  <2> QED
    BY <2>1, <2>2
<1> QED
  BY <1>1, <1>2, PollInvariant, PTL DEF Spec, Engine!Spec

-----------------------------------------------------------------------------
(* The thread and its owner *)

(* There is a thread only between start() and the join in stop().  One     *)
(* that has run to its end is one that stop() waits for.                   *)
Joined ==
  /\ running => owner = "idle"
  /\ ~running /\ owner = "idle" => thread \in {"none", "terminated", "killed"}

LEMMA InitJoined == Init => Joined
  BY DEF Init, Joined

LEMMA StepJoined == Joined /\ [Next]_vars => Joined'
<1> SUFFICES ASSUME Joined, [Next]_vars PROVE Joined'
  OBVIOUS
<1>1. CASE KernelUpdate
  BY <1>1 DEF KernelUpdate, Joined
<1>2. CASE SetCallback
  BY <1>2 DEF SetCallback, Joined
<1>3. CASE Start
  BY <1>3 DEF Start, Joined
<1>4. CASE Stop
  BY <1>4 DEF Stop, Joined
<1>5. CASE Join
  BY <1>5 DEF Join, Joined
<1>6. CASE Loop
  BY <1>6 DEF Loop, Joined
<1>7. CASE Read
  BY <1>7 DEF Read, Joined
<1>8. CASE Parse
  BY <1>8 DEF Parse, Joined
<1>9. CASE Call
  BY <1>9 DEF Call, Joined
<1>10. CASE Sleep
  BY <1>10 DEF Sleep, Joined
<1>11. CASE Dispatch
  BY <1>11 DEF Dispatch, Joined
<1>12. CASE UNCHANGED vars
  BY <1>12 DEF vars, pollerVars, Joined
<1> QED
  BY <1>1, <1>2, <1>3, <1>4, <1>5, <1>6, <1>7, <1>8, <1>9, <1>10, <1>11, <1>12
     DEF Next, PollLoop

(* Only a call of the callback reaches the engine, and there is none once  *)
(* stop() has returned: it has joined the thread that would make it.       *)
LEMMA OnlyCallsEvaluate ==
  Joined /\ [Next]_vars => [~running /\ owner = "idle" => UNCHANGED engineVars]_vars
<1> SUFFICES ASSUME Joined, [Next]_vars, ~running, owner = "idle"
             PROVE  UNCHANGED engineVars
  OBVIOUS
<1>1. ~Call
  BY DEF Call, Joined
<1> QED
  BY <1>1 DEF Next, PollLoop, KernelUpdate, SetCallback, Start, Stop, Join, Loop, Read, Parse,
     Sleep, Dispatch, vars, engineVars

(* PsiPoller::stop returns with the callback silenced: the policy engine   *)
(* does not move until the poller is started again.                        *)
THEOREM QuietOnceStopped == Spec => QuietAfterStop
<1>1. Spec => []Joined
  BY InitJoined, StepJoined, PTL DEF Spec
<1> QED
  BY <1>1, OnlyCallsEvaluate, PTL DEF Spec, QuietAfterStop

=============================================================================
