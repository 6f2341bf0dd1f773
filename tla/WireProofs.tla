----------------------------- MODULE WireProofs -----------------------------
(***************************************************************************)
(* Theorems about Wire for every set of senders, messages and numbers, and *)
(* however long a frame and its prefix: what deserialize reads of a text   *)
(* that serialize wrote is the message that was written; the bytes in      *)
(* flight are the frames of the messages still to be handed over; and so   *)
(* the connection is a channel of whole messages, and no number that a     *)
(* listener converts can end it.                                           *)
(***************************************************************************)
EXTENDS Wire, SequenceTheorems, TLAPS

-----------------------------------------------------------------------------
(* The scanner *)

(* The punctuation, by name. *)
Open == "{"
Shut == "}"
Colon == ":"
Comma == ","
Quote == "quote"
Newline == "newline"
Punctuation == {Open, Shut, Colon, Comma, Quote, Newline}

(* The cells of a text. *)
Cell == Chars \cup Structural

(* The first place from `from' on with one of the cells, or without one. *)
FirstWith(json, from, cells, n) ==
  /\ from \in Int /\ n \in from .. Len(json) /\ Len(json) \in Int
  /\ json[n] \in cells /\ \A j \in from .. n - 1 : json[j] \notin cells

FirstWithout(json, from, cells, n) ==
  /\ from \in Int /\ n \in from .. Len(json) /\ Len(json) \in Int
  /\ json[n] \notin cells /\ \A j \in from .. n - 1 : json[j] \in cells

(* A search whose answer is known finds nothing else. *)
LEMMA FindIs ==
  ASSUME NEW json, NEW from, NEW cells, NEW n, FirstWith(json, from, cells, n)
  PROVE  find(json, from, cells) = {n}
<1>1. ASSUME NEW i \in from .. Len(json), json[i] \in cells,
             \A j \in from .. i - 1 : json[j] \notin cells
      PROVE  i = n
  <2>1. ~(i < n)
    BY <1>1 DEF FirstWith
  <2>2. ~(n < i)
    BY <1>1 DEF FirstWith
  <2> QED
    BY <1>1, <2>1, <2>2 DEF FirstWith
<1> QED
  BY <1>1 DEF find, FirstWith

LEMMA FindNotIs ==
  ASSUME NEW json, NEW from, NEW cells, NEW n, FirstWithout(json, from, cells, n)
  PROVE  find_not(json, from, cells) = {n}
<1>1. ASSUME NEW i \in from .. Len(json), json[i] \notin cells,
             \A j \in from .. i - 1 : json[j] \in cells
      PROVE  i = n
  <2>1. ~(i < n)
    BY <1>1 DEF FirstWithout
  <2>2. ~(n < i)
    BY <1>1 DEF FirstWithout
  <2> QED
    BY <1>1, <2>1, <2>2 DEF FirstWithout
<1> QED
  BY <1>1 DEF find_not, FirstWithout

(* The key is found at k, its colon at c, the value from s on, and what    *)
(* ends it at e.                                                           *)
FoundAt(json, key, k, c, s, e) ==
  /\ find(json, 1, {Key[key]}) = {k}
  /\ find(json, k, {Colon}) = {c}
  /\ find_not(json, c + 1, {Quote}) = {s}
  /\ find(json, s, IF json[s - 1] = Quote THEN {Quote} ELSE {Comma, Shut}) = {e}

LEMMA Extract ==
  ASSUME NEW json, NEW key, NEW k, NEW c, NEW s, NEW e, FoundAt(json, key, k, c, s, e)
  PROVE  extract_string(json, key) = {SubSeq(json, s, e - 1)}
<1> DEFINE colons == UNION {find(json, i, {":"}) : i \in find(json, 1, {Key[key]})}
           starts == UNION {find_not(json, i + 1, {"quote"}) : i \in colons}
           ends(t) == find(json, t, IF json[t - 1] = "quote" THEN {"quote"} ELSE {",", "}"})
           cuts(t) == {SubSeq(json, t, i - 1) : i \in ends(t)}
<1>1. colons = {c}
  BY Zenon DEF Colon, FoundAt
<1>2. extract_string(json, key) = UNION {cuts(t) : t \in starts}
  BY Zenon DEF extract_string, colons
<1>3. ends(s) = {e}
  BY Zenon DEF Quote, Comma, Shut, FoundAt
<1> HIDE DEF colons
<1>4. starts = {s}
  BY <1>1, Zenon DEF Quote, FoundAt
<1> HIDE DEF starts, ends
<1>5. cuts(s) = {SubSeq(json, s, e - 1)}
  BY <1>3
<1> HIDE DEF cuts
<1>6. UNION {cuts(t) : t \in {s}} = cuts(s)
  BY Zenon
<1> QED
  BY <1>2, <1>4, <1>5, <1>6, Zenon

(* The keys differ from one another and from the punctuation. *)
LEMMA KeyCells ==
  /\ Fields = {"type", "pid", "target_bytes", "current_size_bytes", "tier"}
  /\ DOMAIN Numeric = 1 .. 4
  /\ \A i \in 1 .. 4 : Numeric[i] \in Fields \ {"type"}
  /\ \A i, j \in 1 .. 4 : Numeric[i] = Numeric[j] => i = j
  /\ \A k \in Fields : k = "type" \/ \E i \in 1 .. 4 : k = Numeric[i]
  /\ \A k \in Fields :
       /\ Key[k] \in Structural
       /\ Key[k] \notin Punctuation
  /\ \A k, l \in Fields : Key[k] = Key[l] => k = l
  /\ Punctuation \subseteq Structural
  /\ Colon # Quote /\ Comma # Quote /\ Colon # Comma /\ Colon # Shut
<1>1. /\ DOMAIN Numeric = 1 .. 4
      /\ Numeric[1] = "pid" /\ Numeric[2] = "target_bytes"
      /\ Numeric[3] = "current_size_bytes" /\ Numeric[4] = "tier"
  BY DEF Numeric
<1>2. ToSet(Numeric) = {"pid", "target_bytes", "current_size_bytes", "tier"}
  <2>1. ToSet(Numeric) = {Numeric[i] : i \in 1 .. 4}
    BY <1>1, Zenon DEF ToSet
  <2> QED
    BY <1>1, <2>1
<1>3. Fields = {"type", "pid", "target_bytes", "current_size_bytes", "tier"}
  BY <1>2 DEF Fields
<1>4. /\ Key["type"] = "key type" /\ Key["pid"] = "key pid"
      /\ Key["target_bytes"] = "key target_bytes"
      /\ Key["current_size_bytes"] = "key current_size_bytes"
      /\ Key["tier"] = "key tier"
  BY DEF Key
<1>5. /\ \A k \in Fields : Key[k] \in Structural
      /\ Punctuation \subseteq Structural
  BY DEF Structural, Punctuation, Open, Shut, Colon, Comma, Quote, Newline
<1>6. Punctuation = {"{", "}", ":", ",", "quote", "newline"}
  BY DEF Punctuation, Open, Shut, Colon, Comma, Quote, Newline
<1>7. Colon # Quote /\ Comma # Quote /\ Colon # Comma /\ Colon # Shut
  BY DEF Shut, Colon, Comma, Quote
<1>8. \A k \in Fields : Key[k] \notin Punctuation
  BY <1>3, <1>4, <1>6
<1>9. \A k, l \in Fields : Key[k] = Key[l] => k = l
  BY <1>3, <1>4
<1>10. /\ \A i \in 1 .. 4 : Numeric[i] \in Fields \ {"type"}
       /\ \A k \in Fields : k = "type" \/ \E i \in 1 .. 4 : k = Numeric[i]
  BY <1>1, <1>3
<1>11. \A i, j \in 1 .. 4 : Numeric[i] = Numeric[j] => i = j
  BY <1>1
<1> QED
  BY <1>1, <1>3, <1>5, <1>7, <1>8, <1>9, <1>10, <1>11, Zenon

(* After a cells come a key that is not among them, its number T and the   *)
(* end of the number.                                                      *)
NumberAt(json, key, T, a) ==
  /\ a \in Nat /\ a + 4 + Len(T) <= Len(json)
  /\ \A i \in 1 .. a : json[i] # Key[key]
  /\ json[a + 1] = Comma /\ json[a + 2] = Key[key] /\ json[a + 3] = Colon
  /\ \A i \in 1 .. Len(T) : json[a + 3 + i] = T[i]
  /\ json[a + 4 + Len(T)] \in {Comma, Shut}

(* Such a number is read back. *)
LEMMA ExtractNumber ==
  ASSUME NEW json \in Seq(Cell), NEW key \in Fields,
         NEW T \in Seq(Chars), T # <<>>, NEW a, NumberAt(json, key, T, a)
  PROVE  extract_string(json, key) = {T}
<1> DEFINE n == Len(T)
           s == a + 4
           e == a + 4 + n
<1>1. /\ n \in Nat /\ n >= 1 /\ Len(json) \in Nat
  BY EmptySeq, LenProperties
<1>2. /\ Key[key] # Comma /\ Key[key] # Colon /\ Colon # Quote
      /\ \A i \in 1 .. Len(T) : T[i] # Quote /\ T[i] # Comma /\ T[i] # Shut
  <2>1. \A i \in 1 .. Len(T) : T[i] \in Chars
    BY ElementOfSeq
  <2>2. Chars \cap Structural = {}
    BY WireAssumption
  <2> QED
    BY <2>1, <2>2, KeyCells DEF Punctuation
<1> DEFINE k == a + 2
           c == a + 3
<1>3. /\ k \in Int /\ 1 <= k /\ k <= Len(json) /\ json[k] = Key[key]
      /\ c = k + 1 /\ c <= Len(json) /\ json[c] = Colon
      /\ s = c + 1 /\ s <= e /\ e <= Len(json) /\ e \in Int
      /\ json[e] \in {Comma, Shut}
      /\ \A j \in 1 .. k - 1 : j \in 1 .. a \/ j = a + 1
  BY <1>1 DEF NumberAt
<1>4. \A j \in s .. e - 1 : json[j] \notin {Quote, Comma, Shut}
  <2> SUFFICES ASSUME NEW j \in s .. e - 1
               PROVE  json[j] \notin {Quote, Comma, Shut}
    OBVIOUS
  <2>1. j - (a + 3) \in 1 .. n /\ a + 3 + (j - (a + 3)) = j
    BY <1>1 DEF NumberAt
  <2>2. json[j] = T[j - (a + 3)]
    BY <2>1 DEF NumberAt
  <2> QED
    BY <1>2, <2>1, <2>2
<1>5. \A j \in 1 .. k - 1 : json[j] \notin {Key[key]}
  BY <1>2, <1>3 DEF NumberAt
<1> HIDE DEF k, c, s, e
<1>6. find(json, 1, {Key[key]}) = {k}
  <2>1. FirstWith(json, 1, {Key[key]}, k)
    BY <1>1, <1>3, <1>5 DEF FirstWith
  <2> QED
    BY <2>1, FindIs
<1>7. find(json, k, {Colon}) = {c}
  <2>1. \A j \in k .. c - 1 : json[j] \notin {Colon}
    BY <1>2, <1>3
  <2>2. k \in Int /\ c \in k .. Len(json) /\ Len(json) \in Int
    BY <1>1, <1>3
  <2>3. json[c] \in {Colon}
    BY <1>3
  <2>4. FirstWith(json, k, {Colon}, c)
    BY <2>1, <2>2, <2>3 DEF FirstWith
  <2> QED
    BY <2>4, FindIs
<1>8. find_not(json, c + 1, {Quote}) = {s}
  <2>1. s \in s .. e - 1
    BY <1>1 DEF s, e, NumberAt
  <2>2. json[s] \notin {Quote}
    BY <1>4, <2>1
  <2>3. \A j \in c + 1 .. s - 1 : json[j] \in {Quote}
    BY <1>3
  <2>4. c + 1 \in Int /\ s \in c + 1 .. Len(json) /\ Len(json) \in Int
    BY <1>1, <1>3
  <2>5. FirstWithout(json, c + 1, {Quote}, s)
    BY <2>2, <2>3, <2>4 DEF FirstWithout
  <2> QED
    BY <2>5, FindNotIs
<1>9. find(json, s, IF json[s - 1] = Quote THEN {Quote} ELSE {Comma, Shut}) = {e}
  <2>1. json[s - 1] = Colon
    BY <1>3
  <2>2. s \in Int /\ e \in s .. Len(json) /\ Len(json) \in Int
    BY <1>1, <1>3
  <2>a. json[e] \in {Comma, Shut} /\ \A j \in s .. e - 1 : json[j] \notin {Comma, Shut}
    BY <1>3, <1>4
  <2>b. FirstWith(json, s, {Comma, Shut}, e)
    BY <2>2, <2>a DEF FirstWith
  <2>3. find(json, s, {Comma, Shut}) = {e}
    BY <2>b, FindIs
  <2> QED
    BY <1>2, <2>1, <2>3, Zenon
<1>10. SubSeq(json, s, e - 1) = T
  <2>1. \A i \in s .. e - 1 : json[i] \in Chars
    <3> SUFFICES ASSUME NEW i \in s .. e - 1
                 PROVE  json[i] \in Chars
      OBVIOUS
    <3>1. i - (a + 3) \in 1 .. n /\ a + 3 + (i - (a + 3)) = i
      BY <1>1 DEF s, e, NumberAt
    <3> QED
      BY <3>1, ElementOfSeq DEF NumberAt
  <2>2. s \in Int /\ e - 1 \in Int /\ (e - 1) - s + 1 = n /\ s <= e - 1
    BY <1>1 DEF s, e, NumberAt
  <2>3. \A i \in 1 .. n : s + i - 1 = a + 3 + i
    BY <1>1 DEF s, NumberAt
  <2> DEFINE cut == SubSeq(json, s, e - 1)
  <2>4. /\ cut \in Seq(Chars) /\ Len(cut) = n
        /\ \A i \in 1 .. n : cut[i] = json[s + i - 1]
    BY <2>1, <2>2, SubSeqProperties
  <2> HIDE DEF cut
  <2>5. \A i \in 1 .. n : cut[i] = T[i]
    BY <2>3, <2>4 DEF NumberAt
  <2>6. cut = T
    BY <2>4, <2>5, SeqEqual
  <2> QED
    BY <2>6 DEF cut
<1> QED
  <2>1. FoundAt(json, key, k, c, s, e)
    BY <1>6, <1>7, <1>8, <1>9, Zenon DEF FoundAt
  <2>2. extract_string(json, key) = {SubSeq(json, s, e - 1)}
    BY <2>1, Extract
  <2> QED
    BY <1>10, <2>2

(* The type, at the head of the text and in quotes, is read back. *)
LEMMA ExtractType ==
  ASSUME NEW json \in Seq(Cell), NEW T \in Seq(Chars), T # <<>>,
         5 + Len(T) <= Len(json),
         json[1] = Open, json[2] = Key["type"], json[3] = Colon, json[4] = Quote,
         \A i \in 1 .. Len(T) : json[4 + i] = T[i],
         json[5 + Len(T)] = Quote
  PROVE  extract_string(json, "type") = {T}
<1> DEFINE n == Len(T)
           s == 5
           e == 5 + n
<1>1. n \in Nat /\ n >= 1 /\ Len(json) \in Nat /\ 5 + n <= Len(json)
  BY EmptySeq, LenProperties
<1>2. /\ Key["type"] # Open /\ Key["type"] # Colon /\ Colon # Quote
      /\ \A i \in 1 .. n : T[i] # Quote
  <2>1. \A i \in 1 .. n : T[i] \in Chars
    BY ElementOfSeq
  <2>2. Chars \cap Structural = {}
    BY WireAssumption
  <2>3. "type" \in Fields
    BY KeyCells
  <2>4. Key["type"] \notin Punctuation /\ Quote \in Structural /\ Colon # Quote
    BY <2>3, KeyCells DEF Punctuation
  <2> QED
    BY <2>1, <2>2, <2>4 DEF Punctuation
<1>3. /\ s <= e - 1 /\ s \in Int /\ e \in Int /\ e <= Len(json) /\ json[e] = Quote
      /\ s \in 4 .. Len(json) /\ json[s - 1] = Quote /\ (e - 1) - s + 1 = n
      /\ \A i \in 1 .. n : s + i - 1 = 4 + i
  BY <1>1
<1>4. \A j \in s .. e - 1 : j - 4 \in 1 .. n /\ 4 + (j - 4) = j
  BY <1>1
<1>5. \A j \in s .. e - 1 : json[j] = T[j - 4]
  BY <1>4
<1>6. \A j \in s .. e - 1 : json[j] # Quote /\ json[j] \in Chars
  BY <1>2, <1>4, <1>5, ElementOfSeq
<1> HIDE DEF s, e
<1>7. find(json, 1, {Key["type"]}) = {2}
  <2>1. \A j \in 1 .. 2 - 1 : json[j] \notin {Key["type"]}
    BY <1>2
  <2>2. FirstWith(json, 1, {Key["type"]}, 2)
    BY <1>1, <2>1 DEF FirstWith
  <2> QED
    BY <2>2, FindIs
<1>8. find(json, 2, {Colon}) = {3}
  <2>1. \A j \in 2 .. 3 - 1 : json[j] \notin {Colon}
    BY <1>2
  <2>2. FirstWith(json, 2, {Colon}, 3)
    BY <1>1, <2>1 DEF FirstWith
  <2> QED
    BY <2>2, FindIs
<1>9. find_not(json, 3 + 1, {Quote}) = {s}
  <2>1. \A j \in 3 + 1 .. s - 1 : json[j] \in {Quote}
    BY DEF s
  <2>2. s \in s .. e - 1
    BY <1>3
  <2>3. FirstWithout(json, 3 + 1, {Quote}, s)
    BY <1>1, <1>3, <1>6, <2>1, <2>2 DEF FirstWithout
  <2> QED
    BY <2>3, FindNotIs
<1>10. find(json, s, IF json[s - 1] = Quote THEN {Quote} ELSE {Comma, Shut}) = {e}
  <2>1. FirstWith(json, s, {Quote}, e)
    BY <1>1, <1>3, <1>6 DEF FirstWith
  <2>2. find(json, s, {Quote}) = {e}
    BY <2>1, FindIs
  <2> QED
    BY <1>3, <2>2, Zenon
<1>11. SubSeq(json, s, e - 1) = T
  <2> DEFINE cut == SubSeq(json, s, e - 1)
  <2>1. \A i \in s .. e - 1 : json[i] \in Chars
    BY <1>6
  <2>2. e - 1 \in Int
    BY <1>3
  <2>3. /\ cut \in Seq(Chars) /\ Len(cut) = n
        /\ \A i \in 1 .. n : cut[i] = json[s + i - 1]
    BY <1>3, <2>1, <2>2, SubSeqProperties
  <2> HIDE DEF cut
  <2>4. \A i \in 1 .. n : cut[i] = T[i]
    BY <1>3, <2>3
  <2>5. cut = T
    BY <2>3, <2>4, SeqEqual
  <2> QED
    BY <2>5 DEF cut
<1>12. FoundAt(json, "type", 2, 3, s, e)
  BY <1>7, <1>8, <1>9, <1>10, Zenon DEF FoundAt
<1>13. extract_string(json, "type") = {SubSeq(json, s, e - 1)}
  BY <1>12, Extract
<1> QED
  BY <1>11, <1>13

-----------------------------------------------------------------------------
(* What serialize writes *)

payload(m) == Append(serialize(m), Newline)

Sent == UNION {Messages[x] : x \in Sides}

(* One text begins another. *)
Begins(A, json) ==
  Len(A) <= Len(json) /\ \A i \in 1 .. Len(A) : json[i] = A[i]

(* After a cells of a text come a key and its number. *)
Holds(json, a, key, T) ==
  /\ a + 3 + Len(T) <= Len(json)
  /\ json[a + 1] = Comma /\ json[a + 2] = Key[key] /\ json[a + 3] = Colon
  /\ \A i \in 1 .. Len(T) : json[a + 3 + i] = T[i]

Lacks(A, key) == \A i \in 1 .. Len(A) : A[i] # Key[key]

LEMMA BeginsAppended ==
  ASSUME NEW A \in Seq(Cell), NEW B \in Seq(Cell)
  PROVE  A \o B \in Seq(Cell) /\ Begins(A, A \o B)
<1>1. Len(A) \in Nat /\ Len(B) \in Nat
  BY LenProperties
<1>2. /\ A \o B \in Seq(Cell) /\ Len(A \o B) = Len(A) + Len(B)
      /\ \A i \in 1 .. Len(A) + Len(B) :
           (A \o B)[i] = IF i <= Len(A) THEN A[i] ELSE B[i - Len(A)]
  BY ConcatProperties
<1> DEFINE C == A \o B
<1> HIDE DEF C
<1>3. Begins(A, C)
  BY <1>1, <1>2 DEF Begins, C
<1> QED
  BY <1>2, <1>3 DEF C

LEMMA BeginsTwice ==
  ASSUME NEW A \in Seq(Cell), NEW B \in Seq(Cell), NEW C \in Seq(Cell),
         Begins(A, B), Begins(B, C)
  PROVE  Begins(A, C)
BY LenProperties DEF Begins

(* B is A and one pair more. *)
PairAfter(A, B, key, T) ==
  /\ B \in Seq(Cell) /\ Begins(A, B) /\ Holds(B, Len(A), key, T)
  /\ Len(B) = Len(A) + 3 + Len(T)
  /\ \A other \in Fields : Lacks(A, other) /\ other # key => Lacks(B, other)

LEMMA PairFollows ==
  ASSUME NEW A \in Seq(Cell), NEW key \in Fields, NEW T \in Seq(Chars),
         NEW B, B = A \o (<<Comma, Key[key], Colon>> \o T)
  PROVE  PairAfter(A, B, key, T)
<1> DEFINE P == <<Comma, Key[key], Colon>> \o T
<1>B. B = A \o P
  OBVIOUS
<1> DEFINE K == <<Comma, Key[key], Colon>>
<1>1. /\ T \in Seq(Cell) /\ Len(T) \in Nat /\ Len(A) \in Nat
      /\ \A i \in 1 .. Len(T) : T[i] \in Chars
  BY SeqMonotonic, LenProperties, ElementOfSeq DEF Cell
<1>2. Comma \in Cell /\ Key[key] \in Cell /\ Colon \in Cell
  BY KeyCells DEF Cell, Punctuation
<1>3. /\ K \in Seq(Cell) /\ Len(K) = 3
      /\ K[1] = Comma /\ K[2] = Key[key] /\ K[3] = Colon
  BY <1>2
<1>K. P = K \o T
  BY DEF K
<1> HIDE DEF K, P
<1>4. /\ P \in Seq(Cell) /\ Len(P) = Len(K) + Len(T)
      /\ \A i \in 1 .. Len(K) + Len(T) : P[i] = IF i <= Len(K) THEN K[i] ELSE T[i - Len(K)]
  BY <1>1, <1>3, <1>K, ConcatProperties
<1>5. /\ Len(P) = 3 + Len(T) /\ P[1] = Comma /\ P[2] = Key[key] /\ P[3] = Colon
      /\ \A i \in 1 .. Len(T) : P[3 + i] = T[i]
  BY <1>1, <1>3, <1>4
<1>6. /\ B \in Seq(Cell) /\ Len(B) = Len(A) + Len(P)
      /\ \A i \in 1 .. Len(A) + Len(P) : B[i] = IF i <= Len(A) THEN A[i] ELSE P[i - Len(A)]
  <2>1. P \in Seq(Cell)
    BY <1>4
  <2>2. /\ A \o P \in Seq(Cell) /\ Len(A \o P) = Len(A) + Len(P)
        /\ \A i \in 1 .. Len(A) + Len(P) :
             (A \o P)[i] = IF i <= Len(A) THEN A[i] ELSE P[i - Len(A)]
    BY <2>1, ConcatProperties
  <2> QED
    BY <1>B, <2>2, Zenon
<1>7. Begins(A, B)
  BY <1>4, <1>B, BeginsAppended
<1>8. Len(B) = Len(A) + 3 + Len(T)
  BY <1>1, <1>5, <1>6
<1>9. \A j \in 1 .. 3 + Len(T) : B[Len(A) + j] = P[j]
  <2> SUFFICES ASSUME NEW j \in 1 .. 3 + Len(T)
               PROVE  B[Len(A) + j] = P[j]
    OBVIOUS
  <2>1. /\ Len(A) + j \in 1 .. Len(A) + Len(P) /\ ~(Len(A) + j <= Len(A))
        /\ (Len(A) + j) - Len(A) = j
    BY <1>1, <1>5
  <2> QED
    BY <1>6, <2>1
<1>10. Holds(B, Len(A), key, T)
  <2>1. /\ 1 \in 1 .. 3 + Len(T) /\ 2 \in 1 .. 3 + Len(T) /\ 3 \in 1 .. 3 + Len(T)
        /\ \A i \in 1 .. Len(T) : 3 + i \in 1 .. 3 + Len(T) /\ Len(A) + (3 + i) = Len(A) + 3 + i
    BY <1>1
  <2>2. \A i \in 1 .. Len(T) : B[Len(A) + 3 + i] = T[i]
    BY <1>5, <1>9, <2>1
  <2>3. B[Len(A) + 1] = Comma /\ B[Len(A) + 2] = Key[key] /\ B[Len(A) + 3] = Colon
    BY <1>5, <1>9, <2>1
  <2> QED
    BY <1>1, <1>8, <2>2, <2>3 DEF Holds
<1>11. ASSUME NEW other \in Fields, Lacks(A, other), other # key
       PROVE  Lacks(B, other)
  <2> SUFFICES ASSUME NEW i \in 1 .. Len(B)
               PROVE  B[i] # Key[other]
    BY DEF Lacks
  <2>1. CASE i <= Len(A)
    <3>1. i \in 1 .. Len(A)
      BY <1>1, <1>8, <2>1
    <3> QED
      BY <1>7, <1>11, <3>1 DEF Begins, Lacks
  <2>2. CASE ~(i <= Len(A))
    <3> DEFINE j == i - Len(A)
    <3>1. j \in 1 .. 3 + Len(T) /\ Len(A) + j = i /\ (j > 3 => j - 3 \in 1 .. Len(T) /\ 3 + (j - 3) = j)
      BY <1>1, <1>8, <2>2
    <3> HIDE DEF j
    <3>2. B[i] = P[j]
      BY <1>9, <3>1
    <3>3. Key[other] # Comma /\ Key[other] # Colon /\ Key[other] # Key[key] /\ Key[other] \notin Chars
      BY <1>11, KeyCells, WireAssumption DEF Punctuation
    <3>4. j = 1 \/ j = 2 \/ j = 3 \/ j > 3
      BY <1>1, <3>1
    <3> QED
      BY <1>1, <1>5, <3>1, <3>2, <3>3, <3>4
  <2> QED
    BY <2>1, <2>2
<1>12. \A other \in Fields : Lacks(A, other) /\ other # key => Lacks(B, other)
  BY <1>11
<1> QED
  BY <1>6, <1>7, <1>8, <1>10, <1>12, Zenon DEF PairAfter

(* A is the beginning of a text, with the type T. *)
HeadWith(A, T) ==
  /\ A \in Seq(Cell) /\ Len(A) = 5 + Len(T)
  /\ A[1] = Open /\ A[2] = Key["type"] /\ A[3] = Colon /\ A[4] = Quote
  /\ \A i \in 1 .. Len(T) : A[4 + i] = T[i]
  /\ A[5 + Len(T)] = Quote
  /\ \A other \in Fields : other # "type" => Lacks(A, other)

LEMMA HeadFollows ==
  ASSUME NEW T \in Seq(Chars), NEW A, A = (<<Open, Key["type"], Colon, Quote>> \o T) \o <<Quote>>
  PROVE  HeadWith(A, T)
<1> DEFINE K == <<Open, Key["type"], Colon, Quote>>
           Q == <<Quote>>
           B == K \o T
<1>1. /\ T \in Seq(Cell) /\ Len(T) \in Nat
      /\ \A i \in 1 .. Len(T) : T[i] \in Chars
  BY SeqMonotonic, LenProperties, ElementOfSeq DEF Cell
<1>2. "type" \in Fields
  BY KeyCells
<1>3. Open \in Cell /\ Key["type"] \in Cell /\ Colon \in Cell /\ Quote \in Cell
  BY <1>2, KeyCells DEF Cell, Punctuation
<1>4. /\ K \in Seq(Cell) /\ Len(K) = 4
      /\ K[1] = Open /\ K[2] = Key["type"] /\ K[3] = Colon /\ K[4] = Quote
  BY <1>3
<1>5. Q \in Seq(Cell) /\ Len(Q) = 1 /\ Q[1] = Quote
  BY <1>3
<1>6. A = B \o Q
  OBVIOUS
<1> HIDE DEF K, Q
<1>7. /\ B \in Seq(Cell) /\ Len(B) = Len(K) + Len(T)
      /\ \A i \in 1 .. Len(K) + Len(T) : B[i] = IF i <= Len(K) THEN K[i] ELSE T[i - Len(K)]
  BY <1>1, <1>4, ConcatProperties
<1> HIDE DEF B
<1>8. /\ A \in Seq(Cell) /\ Len(A) = Len(B) + Len(Q)
      /\ \A i \in 1 .. Len(B) + Len(Q) : A[i] = IF i <= Len(B) THEN B[i] ELSE Q[i - Len(B)]
  <2>1. B \in Seq(Cell)
    BY <1>7
  <2>2. /\ B \o Q \in Seq(Cell) /\ Len(B \o Q) = Len(B) + Len(Q)
        /\ \A i \in 1 .. Len(B) + Len(Q) :
             (B \o Q)[i] = IF i <= Len(B) THEN B[i] ELSE Q[i - Len(B)]
    BY <1>5, <2>1, ConcatProperties
  <2> QED
    BY <1>6, <2>2, Zenon
<1>9. /\ Len(B) = 4 + Len(T) /\ B[1] = Open /\ B[2] = Key["type"] /\ B[3] = Colon /\ B[4] = Quote
      /\ \A i \in 1 .. Len(T) : B[4 + i] = T[i]
  BY <1>1, <1>4, <1>7
<1>10. /\ Len(A) = 5 + Len(T)
       /\ \A i \in 1 .. 4 + Len(T) : A[i] = B[i]
       /\ A[5 + Len(T)] = Quote
  BY <1>1, <1>5, <1>8, <1>9
<1>11. /\ A[1] = Open /\ A[2] = Key["type"] /\ A[3] = Colon /\ A[4] = Quote
       /\ \A i \in 1 .. Len(T) : A[4 + i] = T[i]
  BY <1>1, <1>9, <1>10
<1>12. ASSUME NEW other \in Fields, other # "type"
       PROVE  Lacks(A, other)
  <2> SUFFICES ASSUME NEW i \in 1 .. Len(A)
               PROVE  A[i] # Key[other]
    BY DEF Lacks
  <2>1. Key[other] \notin Punctuation /\ Key[other] # Key["type"] /\ Key[other] \notin Chars
    BY <1>2, <1>12, KeyCells, WireAssumption
  <2>2. Key[other] # Open /\ Key[other] # Colon /\ Key[other] # Quote
    BY <2>1 DEF Punctuation
  <2>3. \/ i = 1 \/ i = 2 \/ i = 3 \/ i = 4 \/ i = 5 + Len(T)
        \/ i - 4 \in 1 .. Len(T) /\ 4 + (i - 4) = i
    BY <1>1, <1>10
  <2> QED
    BY <1>1, <1>10, <1>11, <2>1, <2>2, <2>3
<1>13. \A other \in Fields : other # "type" => Lacks(A, other)
  BY <1>12
<1>14. A \in Seq(Cell)
  BY <1>8
<1> QED
  BY <1>10, <1>11, <1>13, <1>14, Zenon DEF HeadWith

(* The text goes on, after A, with what ends a number. *)
Ends(A, json) ==
  Len(A) + 1 <= Len(json) /\ json[Len(A) + 1] \in {Comma, Shut}

LEMMA HeadRead ==
  ASSUME NEW json \in Seq(Cell), NEW A, NEW T \in Seq(Chars), T # <<>>,
         HeadWith(A, T), Begins(A, json)
  PROVE  extract_string(json, "type") = {T}
<1>1. Len(T) \in Nat /\ Len(json) \in Nat
  BY LenProperties
<1>2. /\ 5 + Len(T) <= Len(json)
      /\ \A i \in 1 .. 5 + Len(T) : json[i] = A[i]
  BY <1>1 DEF Begins, HeadWith
<1>3. /\ json[1] = Open /\ json[2] = Key["type"] /\ json[3] = Colon /\ json[4] = Quote
      /\ \A i \in 1 .. Len(T) : json[4 + i] = T[i]
      /\ json[5 + Len(T)] = Quote
  <2>1. /\ 1 \in 1 .. 5 + Len(T) /\ 2 \in 1 .. 5 + Len(T) /\ 3 \in 1 .. 5 + Len(T)
        /\ 4 \in 1 .. 5 + Len(T) /\ 5 + Len(T) \in 1 .. 5 + Len(T)
        /\ \A i \in 1 .. Len(T) : 4 + i \in 1 .. 5 + Len(T)
    BY <1>1
  <2> QED
    BY <1>2, <2>1 DEF HeadWith
<1> QED
  BY <1>2, <1>3, ExtractType

(* A pair that stands in a text behind a part without its key is read back. *)
LEMMA PairRead ==
  ASSUME NEW json \in Seq(Cell), NEW A \in Seq(Cell), NEW B,
         NEW key \in Fields, NEW T \in Seq(Chars), T # <<>>,
         PairAfter(A, B, key, T), Begins(B, json), Lacks(A, key), Ends(B, json)
  PROVE  extract_string(json, key) = {T}
<1>0. B \in Seq(Cell) /\ Begins(A, B) /\ Len(B) = Len(A) + 3 + Len(T)
  BY DEF PairAfter
<1>1. Len(A) \in Nat /\ Len(T) \in Nat /\ Len(B) \in Nat /\ Len(json) \in Nat
  BY <1>0, LenProperties
<1>2. Begins(A, json)
  BY <1>0, BeginsTwice
<1>3. \A i \in 1 .. Len(A) : json[i] # Key[key]
  BY <1>1, <1>2 DEF Begins, Lacks
<1>4. /\ json[Len(A) + 1] = Comma /\ json[Len(A) + 2] = Key[key] /\ json[Len(A) + 3] = Colon
      /\ \A i \in 1 .. Len(T) : json[Len(A) + 3 + i] = T[i]
  BY <1>0, <1>1 DEF Begins, Holds, PairAfter
<1>5. Len(A) + 4 + Len(T) = Len(B) + 1
  BY <1>0, <1>1
<1>6. NumberAt(json, key, T, Len(A))
  BY <1>1, <1>3, <1>4, <1>5 DEF NumberAt, Ends
<1> QED
  BY <1>6, ExtractNumber

(* A pair ends the number before it. *)
LEMMA PairEnds ==
  ASSUME NEW json \in Seq(Cell), NEW A \in Seq(Cell), NEW B, NEW key,
         NEW T \in Seq(Chars), PairAfter(A, B, key, T), Begins(B, json)
  PROVE  Ends(A, json)
<1>1. B \in Seq(Cell) /\ Len(B) = Len(A) + 3 + Len(T)
  BY DEF PairAfter
<1>2. Len(A) \in Nat /\ Len(T) \in Nat /\ Len(B) \in Nat /\ Len(json) \in Nat
  BY <1>1, LenProperties
<1> QED
  BY <1>1, <1>2 DEF Ends, Begins, Holds, PairAfter

LEMMA SentFields ==
  ASSUME NEW m \in Sent
  PROVE  /\ m \in [Fields -> Types \cup Numbers]
         /\ m["type"] \in Types /\ \A i \in 1 .. 4 : m[Numeric[i]] \in Numbers
         /\ Text[m["type"]] \in Seq(Chars) /\ Text[m["type"]] # <<>>
         /\ \A i \in 1 .. 4 :
              Text[m[Numeric[i]]] \in Seq(Chars) /\ Text[m[Numeric[i]]] # <<>>
<1>1. PICK x \in Sides : m \in Messages[x]
  BY DEF Sent
<1>2. m \in [Fields -> Types \cup Numbers] /\ m["type"] \in Types
  BY <1>1, WireAssumption
<1>3. \A i \in 1 .. 4 : m[Numeric[i]] \in Numbers
  BY <1>1, KeyCells, WireAssumption, Zenon
<1>4. \A v \in Types \cup Numbers : Text[v] \in Seq(Chars) /\ Text[v] # <<>>
  BY WireAssumption
<1> QED
  BY <1>2, <1>3, <1>4

(* All the values of a message can be read back. *)
LEMMA SerializedRead ==
  ASSUME NEW m \in Sent
  PROVE  /\ payload(m) \in Seq(Cell) /\ Len(payload(m)) \in Nat \ {0}
         /\ extract_string(payload(m), "type") = {Text[m["type"]]}
         /\ \A i \in 1 .. 4 :
              extract_string(payload(m), Numeric[i]) = {Text[m[Numeric[i]]]}
<1> DEFINE T0 == Text[m["type"]]
           T(i) == Text[m[Numeric[i]]]
           A0 == (<<Open, Key["type"], Colon, Quote>> \o T0) \o <<Quote>>
           A1 == A0 \o Pair(m, 1)
           A2 == A1 \o Pair(m, 2)
           A3 == A2 \o Pair(m, 3)
           A4 == A3 \o Pair(m, 4)
           A5 == A4 \o <<Shut>>
           json == Append(A5, Newline)
<1>1. payload(m) = json
  BY DEF payload, serialize, Open, Colon, Quote, Shut
<1>2. /\ T0 \in Seq(Chars) /\ T0 # <<>>
      /\ \A i \in 1 .. 4 : T(i) \in Seq(Chars) /\ T(i) # <<>>
      /\ \A i \in 1 .. 4 : Pair(m, i) = <<Comma, Key[Numeric[i]], Colon>> \o T(i)
  BY SentFields, Zenon DEF Pair, Comma, Colon
<1>3. /\ \A i \in 1 .. 4 : Numeric[i] \in Fields /\ Numeric[i] # "type"
      /\ \A i, j \in 1 .. 4 : Numeric[i] = Numeric[j] => i = j
  BY KeyCells
<1> HIDE DEF T, T0
<1>4. HeadWith(A0, T0)
  BY <1>2, HeadFollows
<1> HIDE DEF A0
<1>5. A0 \in Seq(Cell) /\ \A i \in 1 .. 4 : Lacks(A0, Numeric[i])
  BY <1>3, <1>4 DEF HeadWith
<1> HIDE DEF HeadWith
<1> DEFINE Built(A, B, i) ==
             /\ PairAfter(A, B, Numeric[i], T(i)) /\ B \in Seq(Cell)
             /\ \A j \in 1 .. 4 : Lacks(A, Numeric[j]) /\ j # i => Lacks(B, Numeric[j])
<1>6. ASSUME NEW i \in 1 .. 4, NEW A \in Seq(Cell)
      PROVE  Built(A, A \o Pair(m, i), i)
  <2> DEFINE B == A \o Pair(m, i)
  <2>1. B = A \o (<<Comma, Key[Numeric[i]], Colon>> \o T(i))
    BY <1>2, Zenon
  <2> HIDE DEF B
  <2>2. PairAfter(A, B, Numeric[i], T(i))
    BY <1>2, <1>3, <2>1, PairFollows
  <2>3. Built(A, B, i)
    BY <1>3, <2>2 DEF PairAfter
  <2> QED
    BY <2>3 DEF B
<1>7. /\ PairAfter(A0, A1, Numeric[1], T(1)) /\ A1 \in Seq(Cell)
      /\ \A i \in 2 .. 4 : Lacks(A1, Numeric[i])
  <2>1. Built(A0, A1, 1)
    BY <1>5, <1>6
  <2> HIDE DEF A1
  <2> QED
    BY <1>5, <2>1
<1> HIDE DEF A1
<1>8. /\ PairAfter(A1, A2, Numeric[2], T(2)) /\ A2 \in Seq(Cell)
      /\ \A i \in 3 .. 4 : Lacks(A2, Numeric[i])
  <2>1. Built(A1, A2, 2)
    BY <1>6, <1>7
  <2> HIDE DEF A2
  <2> QED
    BY <1>7, <2>1
<1> HIDE DEF A2
<1>9. /\ PairAfter(A2, A3, Numeric[3], T(3)) /\ A3 \in Seq(Cell)
      /\ Lacks(A3, Numeric[4])
  <2>1. Built(A2, A3, 3)
    BY <1>6, <1>8
  <2> HIDE DEF A3
  <2> QED
    BY <1>8, <2>1
<1> HIDE DEF A3
<1>10. PairAfter(A3, A4, Numeric[4], T(4)) /\ A4 \in Seq(Cell)
  <2>1. Built(A3, A4, 4)
    BY <1>6, <1>9
  <2> HIDE DEF A4
  <2> QED
    BY <2>1
<1> HIDE DEF A4
<1>11. /\ A5 \in Seq(Cell) /\ Begins(A4, A5) /\ Len(A5) = Len(A4) + 1
      /\ A5[Len(A4) + 1] = Shut
  <2> DEFINE S == <<Shut>>
  <2>1. S \in Seq(Cell) /\ Len(S) = 1 /\ S[1] = Shut
    BY KeyCells DEF Cell, Punctuation
  <2>2. A4 \in Seq(Cell) /\ Len(A4) \in Nat
    BY <1>10, LenProperties
  <2> HIDE DEF S
  <2>3. Len(A4 \o S) = Len(A4) + Len(S) /\ \A i \in 1 .. Len(A4) + Len(S) :
          (A4 \o S)[i] = IF i <= Len(A4) THEN A4[i] ELSE S[i - Len(A4)]
    BY <2>1, <2>2, ConcatProperties
  <2>4. A4 \o S \in Seq(Cell) /\ Begins(A4, A4 \o S)
    BY <2>1, <2>2, BeginsAppended
  <2>5. (A4 \o S)[Len(A4) + 1] = Shut
    BY <2>1, <2>2, <2>3
  <2> QED
    BY <2>1, <2>3, <2>4, <2>5 DEF S
<1> HIDE DEF A5
<1>12. /\ json \in Seq(Cell) /\ Begins(A5, json) /\ Len(json) = Len(A5) + 1
  <2>1. Newline \in Cell
    BY KeyCells DEF Cell, Punctuation
  <2>2. A5 \in Seq(Cell) /\ Len(A5) \in Nat
    BY <1>11, LenProperties
  <2>3. /\ json \in Seq(Cell) /\ Len(json) = Len(A5) + 1
        /\ \A i \in 1 .. Len(A5) : json[i] = A5[i]
    BY <2>1, <2>2, AppendProperties
  <2> QED
    BY <2>2, <2>3 DEF Begins
<1> HIDE DEF json
<1>13. /\ Begins(A4, json) /\ Begins(A3, json) /\ Begins(A2, json)
       /\ Begins(A1, json) /\ Begins(A0, json)
  <2>1. /\ Begins(A0, A1) /\ Begins(A1, A2) /\ Begins(A2, A3) /\ Begins(A3, A4)
    BY <1>7, <1>8, <1>9, <1>10 DEF PairAfter
  <2>2. Begins(A4, json)
    BY <1>10, <1>11, <1>12, BeginsTwice
  <2>3. Begins(A3, json)
    BY <1>9, <1>10, <1>12, <2>1, <2>2, BeginsTwice
  <2>4. Begins(A2, json)
    BY <1>8, <1>9, <1>12, <2>1, <2>3, BeginsTwice
  <2>5. Begins(A1, json)
    BY <1>7, <1>8, <1>12, <2>1, <2>4, BeginsTwice
  <2>6. Begins(A0, json)
    BY <1>5, <1>7, <1>12, <2>1, <2>5, BeginsTwice
  <2> QED
    BY <2>2, <2>3, <2>4, <2>5, <2>6
<1>14. /\ Ends(A1, json) /\ Ends(A2, json) /\ Ends(A3, json) /\ Ends(A4, json)
  <2>1. Ends(A1, json)
    BY <1>2, <1>7, <1>8, <1>12, <1>13, PairEnds
  <2>2. Ends(A2, json)
    BY <1>2, <1>8, <1>9, <1>12, <1>13, PairEnds
  <2>3. Ends(A3, json)
    BY <1>2, <1>9, <1>10, <1>12, <1>13, PairEnds
  <2>4. Ends(A4, json)
    <3>1. Len(A4) \in Nat
      BY <1>10, LenProperties
    <3> QED
      BY <1>11, <1>12, <3>1 DEF Begins, Ends
  <2> QED
    BY <2>1, <2>2, <2>3, <2>4
<1>15. extract_string(json, "type") = {T0}
  BY <1>2, <1>4, <1>12, <1>13, HeadRead
<1>16. extract_string(json, Numeric[1]) = {T(1)}
  BY <1>2, <1>3, <1>5, <1>7, <1>12, <1>13, <1>14, PairRead
<1>17. extract_string(json, Numeric[2]) = {T(2)}
  BY <1>2, <1>3, <1>7, <1>8, <1>12, <1>13, <1>14, PairRead
<1>18. extract_string(json, Numeric[3]) = {T(3)}
  BY <1>2, <1>3, <1>8, <1>9, <1>12, <1>13, <1>14, PairRead
<1>19. extract_string(json, Numeric[4]) = {T(4)}
  BY <1>2, <1>3, <1>9, <1>10, <1>12, <1>13, <1>14, PairRead
<1>20. \A i \in 1 .. 4 : extract_string(json, Numeric[i]) = {T(i)}
  BY <1>16, <1>17, <1>18, <1>19
<1>21. json \in Seq(Cell) /\ Len(json) \in Nat \ {0}
  BY <1>11, <1>12, LenProperties
<1> QED
  BY <1>1, <1>15, <1>20, <1>21, Zenon DEF T, T0

(* A number, as it is written, is converted to itself. *)
LEMMA Converted ==
  ASSUME NEW n \in Numbers
  PROVE  stoi({Text[n]}) = {n}
<1>1. Text[n] # <<>> /\ n \in DOMAIN Text /\ Numbers \subseteq DOMAIN Text
  BY WireAssumption
<1>2. \A v \in Numbers : Text[v] = Text[n] => v = n
  BY <1>1, WireAssumption
<1>3. ReadAs({Text[n]}, Numbers) = {n}
  BY <1>2 DEF ReadAs
<1> QED
  BY <1>1, <1>3 DEF stoi

LEMMA TypeConverted ==
  ASSUME NEW t \in Types
  PROVE  string_to_type({Text[t]}) = t
<1>1. t \in DOMAIN Text /\ Types \subseteq DOMAIN Text
  BY WireAssumption
<1>2. \A v \in Types : Text[v] = Text[t] => v = t
  BY <1>1, WireAssumption
<1>3. ReadAs({Text[t]}, Types) = {t}
  BY <1>2 DEF ReadAs
<1> QED
  BY <1>3 DEF string_to_type

(* deserialize gives back the message that serialize wrote, and converts   *)
(* nothing that is not a number.                                           *)
THEOREM RoundTrip ==
  \A m \in Sent : ~throws(payload(m)) /\ deserialize(payload(m)) = m
<1> SUFFICES ASSUME NEW m \in Sent
             PROVE  ~throws(payload(m)) /\ deserialize(payload(m)) = m
  OBVIOUS
<1> DEFINE json == payload(m)
<1>1. /\ extract_string(json, "type") = {Text[m["type"]]}
      /\ \A i \in 1 .. 4 : extract_string(json, Numeric[i]) = {Text[m[Numeric[i]]]}
  BY SerializedRead, Zenon
<1>2. /\ m \in [Fields -> Types \cup Numbers] /\ m["type"] \in Types
      /\ \A i \in 1 .. 4 : m[Numeric[i]] \in Numbers
  BY SentFields, Zenon
<1> HIDE DEF json
<1>3. \A i \in 1 .. 4 : stoi(extract_string(json, Numeric[i])) = {m[Numeric[i]]}
  <2> SUFFICES ASSUME NEW i \in 1 .. 4
               PROVE  stoi(extract_string(json, Numeric[i])) = {m[Numeric[i]]}
    OBVIOUS
  <2> DEFINE n == m[Numeric[i]]
  <2>1. n \in Numbers /\ extract_string(json, Numeric[i]) = {Text[n]}
    BY <1>1, <1>2
  <2> HIDE DEF n
  <2>2. stoi({Text[n]}) = {n}
    BY <2>1, Converted
  <2> QED
    BY <2>1, <2>2, Zenon DEF n
<1>4. ~throws(json)
  <2>1. DOMAIN Numeric = 1 .. 4
    BY KeyCells
  <2>2. \A i \in 1 .. 4 : stoi(extract_string(json, Numeric[i])) # {}
    BY <1>3
  <2> QED
    BY <2>1, <2>2, Zenon DEF throws
<1>5. string_to_type(extract_string(json, "type")) = m["type"]
  BY <1>1, <1>2, TypeConverted, Zenon
<1>6. \A i \in 1 .. 4 :
        (CHOOSE n \in stoi(extract_string(json, Numeric[i])) : TRUE) = m[Numeric[i]]
  <2>1. \A x : (CHOOSE n \in {x} : TRUE) = x
    OBVIOUS
  <2> QED
    BY <1>3, <2>1
<1>7. deserialize(json) = m
  <2> DEFINE f == [k \in Fields |->
                     IF k = "type" THEN string_to_type(extract_string(json, k))
                     ELSE CHOOSE n \in stoi(extract_string(json, k)) : TRUE]
  <2>1. deserialize(json) = f
    BY Zenon DEF deserialize
  <2>2. \A i \in 1 .. 4 : Numeric[i] \in Fields /\ Numeric[i] # "type"
    BY KeyCells
  <2>3. f["type"] = m["type"]
    <3>1. "type" \in Fields
      BY KeyCells
    <3> QED
      BY <1>5, <3>1, Zenon
  <2>4. \A i \in 1 .. 4 : f[Numeric[i]] = m[Numeric[i]]
    BY <1>6, <2>2, Zenon
  <2>5. \A k \in Fields : f[k] = m[k]
    <3>1. \A k \in Fields : k = "type" \/ \E i \in 1 .. 4 : k = Numeric[i]
      BY KeyCells
    <3> HIDE DEF f
    <3> QED
      BY <2>3, <2>4, <3>1, Zenon
  <2>6. f = [k \in Fields |-> f[k]]
    OBVIOUS
  <2> HIDE DEF f
  <2>7. m = [k \in Fields |-> m[k]]
    BY <1>2, Zenon
  <2> QED
    BY <2>1, <2>5, <2>6, <2>7
<1> QED
  BY <1>4, <1>7 DEF json

-----------------------------------------------------------------------------
(* Frames *)

(* What a character of a read may be, and the cells of the stream. *)
Octet == Cell \cup {"binary"}
Byte == [byte : Nat, len : Nat, char : Octet]

(* Concatenation is associative: one name for the equation lets a step cite it. *)
Associates(u, v, w) == (u \o v) \o w = u \o (v \o w)

LEMMA Associative == \A u, v, w \in Seq(Byte) : Associates(u, v, w)
<1> DEFINE S == Byte
<1> SUFFICES ASSUME NEW u \in Seq(S), NEW v \in Seq(S), NEW w \in Seq(S)
             PROVE  (u \o v) \o w = u \o (v \o w)
  BY DEF Associates
<1> HIDE DEF S
<1> QED
  BY ConcatAssociative

(* A whole prefix for a payload of n characters, and characters of one. *)
Prefix(n) ==
  [i \in 1 .. PrefixBytes |-> [byte |-> i, len |-> n, char |-> "binary"]]

Plain(p) == [i \in 1 .. Len(p) |-> [byte |-> 0, len |-> 0, char |-> p[i]]]

LEMMA PrefixIs ==
  ASSUME NEW n \in Nat
  PROVE  /\ Prefix(n) \in Seq(Byte) /\ Len(Prefix(n)) = PrefixBytes
         /\ \A i \in 1 .. PrefixBytes :
              /\ Prefix(n)[i].byte = i /\ Prefix(n)[i].len = n
              /\ Prefix(n)[i] = [byte |-> i, len |-> n, char |-> "binary"]
<1>1. PrefixBytes \in Nat
  BY WireAssumption
<1>2. \A i \in 1 .. PrefixBytes : [byte |-> i, len |-> n, char |-> "binary"] \in Byte
  <2>1. "binary" \in Octet
    BY DEF Octet
  <2>2. \A i \in 1 .. PrefixBytes : i \in Nat
    BY <1>1
  <2> QED
    BY <2>1, <2>2 DEF Byte
<1> DEFINE c(i) == [byte |-> i, len |-> n, char |-> "binary"]
<1>3. \A i \in 1 .. PrefixBytes : c(i).byte = i /\ c(i).len = n
  OBVIOUS
<1>4. Prefix(n) = [i \in 1 .. PrefixBytes |-> c(i)]
  BY Zenon DEF Prefix
<1>5. \A i \in 1 .. PrefixBytes : c(i) \in Byte
  BY <1>2, Zenon
<1> HIDE DEF c
<1>6. Prefix(n) \in Seq(Byte) /\ Len(Prefix(n)) = PrefixBytes
  BY <1>1, <1>4, <1>5
<1>7. \A i \in 1 .. PrefixBytes : Prefix(n)[i] = c(i)
  BY <1>4
<1> QED
  BY <1>3, <1>6, <1>7, Zenon DEF c

LEMMA PlainIs ==
  ASSUME NEW p \in Seq(Octet)
  PROVE  /\ Plain(p) \in Seq(Byte) /\ Len(Plain(p)) = Len(p)
         /\ \A i \in 1 .. Len(p) :
              /\ Plain(p)[i].char = p[i]
              /\ Plain(p)[i] = [byte |-> 0, len |-> 0, char |-> p[i]]
<1>1. Len(p) \in Nat /\ \A i \in 1 .. Len(p) : p[i] \in Octet
  BY LenProperties, ElementOfSeq
<1> DEFINE c(i) == [byte |-> 0, len |-> 0, char |-> p[i]]
<1>2. \A i \in 1 .. Len(p) : c(i) \in Byte
  BY <1>1 DEF Byte
<1>3. \A i \in 1 .. Len(p) : c(i).char = p[i]
  OBVIOUS
<1>4. Plain(p) = [i \in 1 .. Len(p) |-> c(i)]
  BY Zenon DEF Plain
<1> HIDE DEF c
<1>5. Plain(p) \in Seq(Byte) /\ Len(Plain(p)) = Len(p)
  BY <1>1, <1>2, <1>4
<1>6. \A i \in 1 .. Len(p) : Plain(p)[i] = c(i)
  BY <1>4
<1> QED
  BY <1>3, <1>5, <1>6, Zenon DEF c

(* A frame is a prefix with the length of the payload, and the payload. *)
LEMMA FrameIs ==
  ASSUME NEW m \in Sent
  PROVE  /\ frame(m) = Prefix(Len(payload(m))) \o Plain(payload(m))
         /\ frame(m) \in Seq(Byte)
         /\ Len(frame(m)) = PrefixBytes + Len(payload(m))
<1> DEFINE p == payload(m)
           P == Prefix(Len(p))
           Q == Plain(p)
           f == frame(m)
<1>1. p \in Seq(Cell) /\ Len(p) \in Nat
  BY SerializedRead, Zenon
<1>2. p \in Seq(Octet) /\ PrefixBytes \in Nat
  BY <1>1, SeqMonotonic, WireAssumption DEF Octet
<1>0. p = Append(serialize(m), "newline")
  BY Zenon DEF payload, Newline
<1> HIDE DEF p
<1>3. /\ P \in Seq(Byte) /\ Len(P) = PrefixBytes
      /\ \A i \in 1 .. PrefixBytes : P[i] = [byte |-> i, len |-> Len(p), char |-> "binary"]
  BY <1>1, PrefixIs
<1>4. /\ Q \in Seq(Byte) /\ Len(Q) = Len(p)
      /\ \A i \in 1 .. Len(p) : Q[i] = [byte |-> 0, len |-> 0, char |-> p[i]]
  BY <1>2, PlainIs
<1>5. f = [i \in 1 .. PrefixBytes + Len(p) |->
             IF i <= PrefixBytes THEN [byte |-> i, len |-> Len(p), char |-> "binary"]
             ELSE [byte |-> 0, len |-> 0, char |-> p[i - PrefixBytes]]]
  BY <1>0, Zenon DEF frame
<1> HIDE DEF P, Q, f
<1>6. /\ P \o Q \in Seq(Byte) /\ Len(P \o Q) = Len(P) + Len(Q)
      /\ \A i \in 1 .. Len(P) + Len(Q) : (P \o Q)[i] = IF i <= Len(P) THEN P[i] ELSE Q[i - Len(P)]
  <2>1. P \in Seq(Byte) /\ Q \in Seq(Byte)
    BY <1>3, <1>4
  <2> QED
    BY <2>1, ConcatProperties
<1>7. \A i \in 1 .. PrefixBytes + Len(p) : f[i] = (P \o Q)[i]
  <2> SUFFICES ASSUME NEW i \in 1 .. PrefixBytes + Len(p)
               PROVE  f[i] = (P \o Q)[i]
    OBVIOUS
  <2>1. CASE i <= PrefixBytes
    <3>1. i \in 1 .. PrefixBytes
      BY <1>2, <2>1
    <3>2. f[i] = [byte |-> i, len |-> Len(p), char |-> "binary"]
      BY <1>5, <2>1
    <3>3. (P \o Q)[i] = P[i]
      BY <1>3, <1>4, <1>6, <2>1
    <3> QED
      BY <1>3, <3>1, <3>2, <3>3, Zenon
  <2>2. CASE ~(i <= PrefixBytes)
    <3>1. i - PrefixBytes \in 1 .. Len(p)
      BY <1>1, <1>2, <2>2
    <3>2. f[i] = [byte |-> 0, len |-> 0, char |-> p[i - PrefixBytes]]
      BY <1>5, <2>2
    <3>3. (P \o Q)[i] = Q[i - PrefixBytes]
      BY <1>3, <1>4, <1>6, <2>2
    <3> QED
      BY <1>4, <3>1, <3>2, <3>3, Zenon
  <2> QED
    BY <2>1, <2>2
<1>8. f \in Seq(Byte) /\ Len(f) = PrefixBytes + Len(p)
  <2>1. \A i \in 1 .. PrefixBytes + Len(p) : f[i] \in Byte
    BY <1>1, <1>2, <1>3, <1>4, <1>6, <1>7, ElementOfSeq
  <2>2. PrefixBytes + Len(p) \in Nat
    BY <1>1, <1>2
  <2>3. f = [i \in 1 .. PrefixBytes + Len(p) |-> f[i]]
    BY <1>5
  <2> HIDE DEF f
  <2> QED
    BY <2>1, <2>2, <2>3
<1>9. f = P \o Q
  BY <1>3, <1>4, <1>6, <1>7, <1>8, SeqEqual
<1> QED
  BY <1>8, <1>9 DEF f, P, Q, p

(* The bytes are the frames of the messages in q, one after the other:     *)
(* t[i] is what is left of them from the i-th frame on.                    *)
InStep(bytes, q) ==
  \E t \in [1 .. Len(q) + 1 -> Seq(Byte)] :
    /\ t[1] = bytes /\ t[Len(q) + 1] = <<>>
    /\ \A i \in 1 .. Len(q) : t[i] = frame(q[i]) \o t[i + 1]

LEMMA InStepEmpty == InStep(<<>>, <<>>)
<1> DEFINE t == [i \in 1 .. 1 |-> <<>>]
<1>1. <<>> \in Seq(Byte)
  OBVIOUS
<1>2. t \in [1 .. 1 -> Seq(Byte)] /\ t[1] = <<>>
  BY <1>1
<1>3. Len(<<>>) = 0
  OBVIOUS
<1> HIDE DEF t
<1> QED
  BY <1>2, <1>3 DEF InStep

(* A frame is sent. *)
LEMMA InStepSent ==
  ASSUME NEW b \in Seq(Byte), NEW q \in Seq(Sent), InStep(b, q), NEW m \in Sent
  PROVE  InStep(b \o frame(m), Append(q, m))
<1> DEFINE n == Len(q)
           r == Append(q, m)
           f == frame(m)
<1>1. PICK t \in [1 .. n + 1 -> Seq(Byte)] :
        /\ t[1] = b /\ t[n + 1] = <<>>
        /\ \A i \in 1 .. n : t[i] = frame(q[i]) \o t[i + 1]
  BY DEF InStep
<1>2. n \in Nat /\ Len(r) = n + 1 /\ r[n + 1] = m /\ \A i \in 1 .. n : r[i] = q[i]
  BY LenProperties, AppendProperties
<1>3. f \in Seq(Byte)
  BY FrameIs
<1>4. \A i \in 1 .. n : q[i] \in Sent /\ frame(q[i]) \in Seq(Byte)
  BY ElementOfSeq, FrameIs
<1> HIDE DEF f, r, n
<1> DEFINE u == [i \in 1 .. n + 2 |-> IF i <= n + 1 THEN t[i] \o f ELSE <<>>]
<1>5. \A i \in 1 .. n + 1 : t[i] \o f \in Seq(Byte)
  <2> SUFFICES ASSUME NEW i \in 1 .. n + 1
               PROVE  t[i] \o f \in Seq(Byte)
    OBVIOUS
  <2>1. t[i] \in Seq(Byte)
    OBVIOUS
  <2> QED
    BY <1>3, <2>1, ConcatProperties
<1>6. /\ \A i \in 1 .. n + 1 : u[i] = t[i] \o f
      /\ u[n + 2] = <<>>
  BY <1>2
<1>7. u \in [1 .. n + 2 -> Seq(Byte)]
  <2>1. \A i \in 1 .. n + 2 : (IF i <= n + 1 THEN t[i] \o f ELSE <<>>) \in Seq(Byte)
    <3>1. \A i \in 1 .. n + 2 : i <= n + 1 => i \in 1 .. n + 1
      BY <1>2
    <3>2. <<>> \in Seq(Byte)
      OBVIOUS
    <3> QED
      BY <1>5, <3>1, <3>2, Zenon
  <2> QED
    BY <2>1, Zenon
<1> HIDE DEF u
<1>8. \A i \in 1 .. n : u[i] = frame(r[i]) \o u[i + 1]
  <2> SUFFICES ASSUME NEW i \in 1 .. n
               PROVE  u[i] = frame(r[i]) \o u[i + 1]
    OBVIOUS
  <2>1. i \in 1 .. n + 1 /\ i + 1 \in 1 .. n + 1
    BY <1>2
  <2> DEFINE g == frame(q[i])
             v == t[i + 1]
  <2>2. g \in Seq(Byte) /\ v \in Seq(Byte)
    BY <1>4, <2>1
  <2>3. u[i] = (g \o v) \o f /\ u[i + 1] = v \o f /\ r[i] = q[i]
    BY <1>1, <1>2, <1>6, <2>1
  <2>g. g = frame(q[i])
    OBVIOUS
  <2> HIDE DEF g, v
  <2>4. Associates(g, v, f)
    BY <1>3, <2>2, Associative, Zenon
  <2> QED
    BY <2>3, <2>4, <2>g DEF Associates
<1>9. u[n + 1] = frame(r[n + 1]) \o u[n + 2]
  <2>1. n + 1 \in 1 .. n + 1
    BY <1>2
  <2>2. u[n + 1] = <<>> \o f
    BY <1>1, <1>6, <2>1
  <2>3. <<>> \o f = f /\ f \o <<>> = f
    BY <1>3, ConcatEmptySeq
  <2>4. frame(r[n + 1]) = f
    BY <1>2 DEF f
  <2> QED
    BY <1>6, <2>2, <2>3, <2>4
<1>10. u[1] = b \o f
  <2>1. 1 \in 1 .. n + 1
    BY <1>2
  <2> QED
    BY <1>1, <1>6, <2>1
<1>11. \A i \in 1 .. n + 1 : u[i] = frame(r[i]) \o u[i + 1]
  <2>1. \A i \in 1 .. n + 1 : i \in 1 .. n \/ i = n + 1
    BY <1>2
  <2>2. (n + 1) + 1 = n + 2
    BY <1>2
  <2> QED
    BY <1>8, <1>9, <2>1, <2>2
<1>12. Len(r) + 1 = n + 2
  BY <1>2
<1>13. InStep(b \o f, r)
  BY <1>2, <1>6, <1>7, <1>10, <1>11, <1>12 DEF InStep
<1> QED
  BY <1>13 DEF f, r

(* The first frame of a stream that is not empty. *)
LEMMA InStepHead ==
  ASSUME NEW b \in Seq(Byte), b # <<>>, NEW q \in Seq(Sent), InStep(b, q)
  PROVE  /\ q # <<>> /\ Head(q) \in Sent /\ Tail(q) \in Seq(Sent)
         /\ \E r \in Seq(Byte) : b = frame(Head(q)) \o r /\ InStep(r, Tail(q))
<1> DEFINE n == Len(q)
<1>1. PICK t \in [1 .. n + 1 -> Seq(Byte)] :
        /\ t[1] = b /\ t[n + 1] = <<>>
        /\ \A i \in 1 .. n : t[i] = frame(q[i]) \o t[i + 1]
  BY DEF InStep
<1>2. n \in Nat
  BY LenProperties
<1>3. n # 0
  BY <1>1
<1>4. q # <<>>
  BY <1>3
<1> DEFINE p == Tail(q)
<1>5. /\ Head(q) = q[1] /\ Head(q) \in Sent /\ p \in Seq(Sent) /\ Len(p) = n - 1
      /\ \A i \in 1 .. n - 1 : p[i] = q[i + 1]
  BY <1>4, HeadTailProperties
<1> DEFINE u == [i \in 1 .. n |-> t[i + 1]]
<1>6. \A i \in 1 .. n : i + 1 \in 1 .. n + 1
  BY <1>2
<1>7. u \in [1 .. n -> Seq(Byte)] /\ \A i \in 1 .. n : u[i] = t[i + 1]
  BY <1>6
<1> HIDE DEF u, p, n
<1>8. u[n] = <<>> /\ u[1] \in Seq(Byte) /\ b = frame(Head(q)) \o u[1]
  <2>1. 1 \in 1 .. n /\ n \in 1 .. n /\ 1 + 1 = 2
    BY <1>2, <1>3
  <2>2. u[n] = <<>> /\ u[1] = t[1 + 1]
    BY <1>1, <1>7, <2>1
  <2>3. u[1] \in Seq(Byte)
    BY <1>7, <2>1
  <2>4. q[1] = Head(q)
    BY <1>5
  <2>5. b = frame(q[1]) \o t[1 + 1]
    BY <1>1, <2>1
  <2> QED
    BY <2>2, <2>3, <2>4, <2>5
<1>9. \A i \in 1 .. n - 1 : u[i] = frame(p[i]) \o u[i + 1]
  <2> SUFFICES ASSUME NEW i \in 1 .. n - 1
               PROVE  u[i] = frame(p[i]) \o u[i + 1]
    OBVIOUS
  <2>1. i \in 1 .. n /\ i + 1 \in 1 .. n
    BY <1>2
  <2> QED
    BY <1>1, <1>5, <1>7, <2>1
<1>10. Len(p) + 1 = n
  BY <1>2, <1>5
<1>11. InStep(u[1], p)
  BY <1>5, <1>7, <1>8, <1>9, <1>10 DEF InStep
<1> QED
  BY <1>4, <1>5, <1>8, <1>11 DEF p

-----------------------------------------------------------------------------
(* The invariant *)

(* What the sender that holds the mutex has still to write, and what the   *)
(* reader has read of a frame: with the socket between, all the bytes of   *)
(* the messages not handed over.                                           *)
HeldBy(M, J) == IF M = {} THEN <<>> ELSE J[CHOOSE s \in M : TRUE]
Unwritten == HeldBy(mutex, job)

Consumed ==
  IF reader \in {"payload", "handle"} THEN Prefix(msg_len) \o Plain(buf) ELSE <<>>

Stream == Consumed \o (wire \o Unwritten)

Readers == {"epoll", "prefix", "payload", "handle", "removed", "disconnected"}

Handed == {m \in [Fields -> Types \cup Numbers] : m["type"] \in Types}

WriterTypes ==
  /\ side \in Sides /\ closed \in BOOLEAN
  /\ mutex \subseteq Senders /\ job \in [Senders -> Seq(Byte)] /\ wire \in Seq(Byte)
  /\ queue \in Seq(Sent)

ReaderTypes ==
  /\ reader \in Readers
  /\ msg_len \in Nat /\ buf \in Seq(Octet) /\ Len(buf) <= msg_len
  /\ insync \in BOOLEAN
  /\ got \in Seq(Handed)

(* One sender at a time has begun a frame and not finished it. *)
OneWriter ==
  /\ \A s, u \in mutex : s = u
  /\ \A s \in Senders : s \in mutex <=> job[s] # <<>>

WireInv ==
  /\ WriterTypes /\ ReaderTypes /\ OneWriter
  /\ reader = "handle" => Len(buf) = msg_len
  /\ side = "client" => insync
  /\ ~Broken /\ insync => InStep(Stream, queue)

LEMMA HeldByNone == ASSUME NEW J PROVE HeldBy({}, J) = <<>>
BY DEF HeldBy

LEMMA HeldByOne ==
  ASSUME NEW M, NEW J, NEW s \in M, \A h, u \in M : h = u
  PROVE  HeldBy(M, J) = J[s]
<1> DEFINE h == CHOOSE u \in M : TRUE
<1>1. h \in M
  OBVIOUS
<1>2. HeldBy(M, J) = J[h]
  BY Zenon DEF HeldBy
<1> HIDE DEF h
<1> QED
  BY <1>1, <1>2

LEMMA UnwrittenType ==
  ASSUME WriterTypes, OneWriter
  PROVE  Unwritten \in Seq(Byte)
<1>1. CASE mutex = {}
  <2>1. <<>> \in Seq(Byte)
    OBVIOUS
  <2> QED
    BY <1>1, <2>1, HeldByNone DEF Unwritten
<1>2. CASE mutex # {}
  <2>1. PICK s \in mutex : TRUE
    BY <1>2
  <2>2. Unwritten = job[s]
    BY <2>1, HeldByOne DEF Unwritten, OneWriter
  <2> QED
    BY <2>1, <2>2 DEF WriterTypes
<1> QED
  BY <1>1, <1>2

LEMMA StreamType ==
  ASSUME WriterTypes, ReaderTypes, OneWriter
  PROVE  /\ Consumed \in Seq(Byte) /\ wire \o Unwritten \in Seq(Byte)
         /\ Stream \in Seq(Byte)
<1>1. wire \o Unwritten \in Seq(Byte)
  BY UnwrittenType, ConcatProperties DEF WriterTypes
<1>2. Consumed \in Seq(Byte)
  <2>1. msg_len \in Nat /\ buf \in Seq(Octet)
    BY DEF ReaderTypes
  <2>2. Prefix(msg_len) \in Seq(Byte) /\ Plain(buf) \in Seq(Byte)
    BY <2>1, PrefixIs, PlainIs
  <2>3. Prefix(msg_len) \o Plain(buf) \in Seq(Byte)
    BY <2>2, ConcatProperties
  <2>4. <<>> \in Seq(Byte)
    OBVIOUS
  <2> QED
    BY <2>3, <2>4, Zenon DEF Consumed
<1> QED
  BY <1>1, <1>2, ConcatProperties DEF Stream

LEMMA InitWireInv == Init => WireInv
<1> SUFFICES ASSUME Init PROVE WireInv
  OBVIOUS
<1>1. WriterTypes
  <2>1. <<>> \in Seq(Byte) /\ <<>> \in Seq(Sent)
    OBVIOUS
  <2> QED
    BY <2>1 DEF Init, WriterTypes
<1>2. ReaderTypes
  <2>1. <<>> \in Seq(Octet) /\ <<>> \in Seq(Handed) /\ Len(<<>>) = 0
    OBVIOUS
  <2> QED
    BY <2>1 DEF Init, ReaderTypes, Readers
<1>3. OneWriter
  BY DEF Init, OneWriter
<1>4. Stream = <<>> /\ queue = <<>>
  <2>1. Consumed = <<>> /\ Unwritten = <<>> /\ wire = <<>>
    BY HeldByNone DEF Init, Consumed, Unwritten
  <2> QED
    BY <2>1 DEF Stream, Init
<1>5. InStep(Stream, queue)
  BY <1>4, InStepEmpty
<1> QED
  BY <1>1, <1>2, <1>3, <1>5 DEF Init, WireInv

LEMMA SendKeeps ==
  ASSUME WireInv, NEW s \in Senders, Send(s)
  PROVE  WireInv'
<1>1. PICK m \in Messages[side] :
        job' = [job EXCEPT ![s] = frame(m)] /\ queue' = Append(queue, m)
  BY DEF Send
<1>2. /\ mutex = {} /\ mutex' = mutex \cup {s} /\ ~Broken
      /\ UNCHANGED <<side, closed, wire, reader, buf, msg_len, insync, got>>
  BY DEF Send, Lock, readerVars
<1>3. m \in Sent
  BY <1>1 DEF WireInv, WriterTypes, Sent
<1>4. frame(m) \in Seq(Byte) /\ frame(m) # <<>>
  <2>1. Len(frame(m)) = PrefixBytes + Len(payload(m)) /\ Len(payload(m)) \in Nat \ {0}
    BY <1>3, FrameIs, SerializedRead, Zenon
  <2>2. PrefixBytes \in Nat
    BY WireAssumption
  <2>3. frame(m) \in Seq(Byte)
    BY <1>3, FrameIs
  <2>4. Len(frame(m)) # 0
    BY <2>1, <2>2
  <2> QED
    BY <2>3, <2>4
<1>5. WriterTypes'
  <2>1. Append(queue, m) \in Seq(Sent)
    BY <1>3, AppendProperties DEF WireInv, WriterTypes
  <2> QED
    BY <1>1, <1>2, <1>4, <2>1 DEF WireInv, WriterTypes
<1>6. ReaderTypes'
  BY <1>2 DEF WireInv, ReaderTypes
<1>7. OneWriter'
  BY <1>1, <1>2, <1>4 DEF WireInv, OneWriter, WriterTypes
<1>8. Broken' = Broken
  BY <1>2 DEF Broken
<1>9. ASSUME insync
      PROVE  InStep(Stream, queue)'
  <2>1. Unwritten = <<>> /\ Unwritten' = frame(m)
    <3>1. Unwritten = <<>>
      BY <1>2, HeldByNone DEF Unwritten
    <3>2. s \in mutex' /\ \A h, u \in mutex' : h = u
      BY <1>2
    <3>u. HeldBy(mutex', job') = job'[s]
      BY <3>2, HeldByOne
    <3>v. Unwritten' = job'[s]
      BY <3>u DEF Unwritten
    <3>3. job'[s] = frame(m)
      BY <1>1 DEF WireInv, WriterTypes
    <3> QED
      BY <3>1, <3>v, <3>3
  <2>2. Consumed' = Consumed
    BY <1>2 DEF Consumed
  <2>3. wire \in Seq(Byte) /\ Consumed \in Seq(Byte)
    BY StreamType DEF WireInv, WriterTypes
  <2> DEFINE C == Consumed
             f == frame(m)
  <2>4. wire \o <<>> = wire
    BY <2>3, ConcatEmptySeq
  <2>5. Stream = C \o wire
    BY <2>1, <2>4 DEF Stream
  <2>6. Stream' = C \o (wire \o f)
    BY <1>2, <2>1, <2>2 DEF Stream
  <2>7. InStep(Stream, queue) /\ Stream \in Seq(Byte) /\ queue \in Seq(Sent)
    BY <1>2, <1>9, StreamType DEF WireInv, WriterTypes
  <2>8. InStep(Stream \o f, Append(queue, m))
    BY <1>3, <2>7, InStepSent
  <2> HIDE DEF C, f
  <2>9. C \in Seq(Byte) /\ f \in Seq(Byte)
    BY <1>4, <2>3 DEF C, f
  <2>10. C \o (wire \o f) = (C \o wire) \o f
    <3>1. C \in Seq(Byte) /\ wire \in Seq(Byte) /\ f \in Seq(Byte)
      BY <2>3, <2>9
    <3>2. Associates(C, wire, f)
      BY <3>1, Associative, Zenon
    <3> QED
      BY <3>2 DEF Associates
  <2>11. Stream' = Stream \o f
    BY <2>5, <2>6, <2>10
  <2> QED
    BY <1>1, <2>8, <2>11
<1> QED
  BY <1>2, <1>5, <1>6, <1>7, <1>8, <1>9 DEF WireInv

(* A sequence cut in two. *)
InTwo(S, w, n) ==
  /\ SubSeq(w, 1, n) \in Seq(S) /\ SubSeq(w, n + 1, Len(w)) \in Seq(S)
  /\ w = SubSeq(w, 1, n) \o SubSeq(w, n + 1, Len(w))
  /\ Len(SubSeq(w, 1, n)) = n /\ Len(SubSeq(w, n + 1, Len(w))) = Len(w) - n
  /\ \A i \in 1 .. n : SubSeq(w, 1, n)[i] = w[i]

LEMMA CutInTwo ==
  ASSUME NEW S, NEW w \in Seq(S), NEW n \in 0 .. Len(w)
  PROVE  InTwo(S, w, n)
<1> DEFINE u == SubSeq(w, 1, n)
           v == SubSeq(w, n + 1, Len(w))
<1>1. Len(w) \in Nat /\ \A i \in 1 .. Len(w) : w[i] \in S
  BY LenProperties, ElementOfSeq
<1>2. /\ u \in Seq(S) /\ Len(u) = n /\ \A i \in 1 .. n : u[i] = w[i]
  <2>1. \A i \in 1 .. n : w[i] \in S
    BY <1>1
  <2>2. 1 \in Int /\ n \in Int
    BY <1>1
  <2>3. /\ u \in Seq(S) /\ Len(u) = IF 1 <= n THEN n - 1 + 1 ELSE 0
        /\ \A i \in 1 .. n - 1 + 1 : u[i] = w[1 + i - 1]
    BY <2>1, <2>2, SubSeqProperties
  <2> HIDE DEF u
  <2>4. Len(u) = n
    BY <1>1, <2>3
  <2>5. \A i \in 1 .. n : i \in 1 .. n - 1 + 1 /\ 1 + i - 1 = i
    BY <2>2
  <2> QED
    BY <2>3, <2>4, <2>5
<1>3. /\ v \in Seq(S) /\ Len(v) = Len(w) - n /\ \A i \in 1 .. Len(w) - n : v[i] = w[n + i]
  <2> DEFINE a == n + 1
             b == Len(w)
  <2>1. a \in Int /\ b \in Int /\ a >= 1
    BY <1>1
  <2>2. \A i \in a .. b : w[i] \in S
    BY <1>1
  <2> HIDE DEF a, b
  <2>3. /\ SubSeq(w, a, b) \in Seq(S) /\ Len(SubSeq(w, a, b)) = IF a <= b THEN b - a + 1 ELSE 0
        /\ \A i \in 1 .. b - a + 1 : SubSeq(w, a, b)[i] = w[a + i - 1]
    BY <2>1, <2>2, SubSeqProperties
  <2>4. /\ v \in Seq(S) /\ Len(v) = IF a <= b THEN b - a + 1 ELSE 0
        /\ \A i \in 1 .. b - a + 1 : v[i] = w[a + i - 1]
    BY <2>3 DEF a, b
  <2> HIDE DEF v
  <2>5. Len(v) = Len(w) - n
    BY <1>1, <2>4 DEF a, b
  <2>6. \A i \in 1 .. Len(w) - n : i \in 1 .. b - a + 1 /\ a + i - 1 = n + i
    BY <1>1 DEF a, b
  <2> QED
    BY <2>4, <2>5, <2>6
<1> HIDE DEF u, v
<1>4. /\ u \o v \in Seq(S) /\ Len(u \o v) = Len(u) + Len(v)
      /\ \A i \in 1 .. Len(u) + Len(v) : (u \o v)[i] = IF i <= Len(u) THEN u[i] ELSE v[i - Len(u)]
  <2>1. u \in Seq(S) /\ v \in Seq(S)
    BY <1>2, <1>3
  <2> QED
    BY <2>1, ConcatProperties
<1>5. \A i \in 1 .. Len(w) : w[i] = (u \o v)[i]
  <2> SUFFICES ASSUME NEW i \in 1 .. Len(w)
               PROVE  w[i] = (u \o v)[i]
    OBVIOUS
  <2>1. CASE i <= n
    <3>1. i \in 1 .. n
      BY <1>1, <2>1
    <3> QED
      BY <1>1, <1>2, <1>3, <1>4, <2>1, <3>1
  <2>2. CASE ~(i <= n)
    <3>1. i - n \in 1 .. Len(w) - n /\ n + (i - n) = i
      BY <1>1, <2>2
    <3> QED
      BY <1>1, <1>2, <1>3, <1>4, <2>2, <3>1
  <2> QED
    BY <2>1, <2>2
<1>6. Len(u \o v) = Len(w)
  BY <1>1, <1>2, <1>3, <1>4
<1>7. w = u \o v
  BY <1>4, <1>5, <1>6, SeqEqual
<1> QED
  BY <1>2, <1>3, <1>7, Zenon DEF u, v, InTwo

LEMMA WriteKeeps ==
  ASSUME WireInv, NEW s \in Senders, Write(s)
  PROVE  WireInv'
<1> DEFINE J == job[s]
<1>1. PICK left \in {c \in Cuts : c < Len(J)} :
        LET n == Len(J) - left IN
        /\ wire' = wire \o SubSeq(J, 1, n)
        /\ job' = [job EXCEPT ![s] = SubSeq(@, n + 1, Len(@))]
        /\ mutex' = IF left = 0 THEN mutex \ {s} ELSE mutex
  BY DEF Write
<1>2. ~Broken /\ UNCHANGED <<side, closed, reader, buf, msg_len, insync, got, queue>>
  BY DEF Write, readerVars
<1>3. job \in [Senders -> Seq(Byte)] /\ wire \in Seq(Byte) /\ mutex \subseteq Senders
  BY DEF WireInv, WriterTypes
<1>4. J \in Seq(Byte) /\ Len(J) \in Nat
  BY <1>3, LenProperties
<1> DEFINE n == Len(J) - left
           A == SubSeq(J, 1, n)
           B == SubSeq(J, n + 1, Len(J))
<1>5. left \in Nat /\ left < Len(J) /\ n \in 0 .. Len(J) /\ Len(J) - n = left
  BY <1>4, WireAssumption
<1>6. /\ wire' = wire \o A /\ job' = [job EXCEPT ![s] = B]
      /\ mutex' = IF left = 0 THEN mutex \ {s} ELSE mutex
  BY <1>1
<1> HIDE DEF n
<1>7. /\ A \in Seq(Byte) /\ B \in Seq(Byte) /\ J = A \o B /\ Len(B) = left
  <2>1. InTwo(Byte, J, n)
    BY <1>4, <1>5, CutInTwo
  <2> QED
    BY <1>4, <1>5, <2>1 DEF InTwo
<1>8. J # <<>>
  BY <1>4, <1>5
<1>9. s \in mutex /\ \A u \in mutex : u = s
  BY <1>8 DEF WireInv, OneWriter
<1>10. B = <<>> <=> left = 0
  <2>1. B = <<>> <=> Len(B) = 0
    BY <1>7, EmptySeq
  <2> QED
    BY <1>5, <1>7, <2>1
<1>j. job[s] = J
  OBVIOUS
<1> HIDE DEF J, A, B
<1>11. job' \in [Senders -> Seq(Byte)] /\ job'[s] = B /\ \A u \in Senders : u # s => job'[u] = job[u]
  BY <1>3, <1>6, <1>7
<1>12. wire' \in Seq(Byte)
  BY <1>3, <1>6, <1>7, ConcatProperties
<1>13. WriterTypes'
  BY <1>2, <1>3, <1>6, <1>11, <1>12 DEF WireInv, WriterTypes
<1>14. ReaderTypes'
  BY <1>2 DEF WireInv, ReaderTypes
<1>15. OneWriter'
  BY <1>6, <1>9, <1>10, <1>11 DEF WireInv, OneWriter
<1>16. Broken' = Broken
  BY <1>2 DEF Broken
<1>17. ASSUME insync
       PROVE  InStep(Stream, queue)'
  <2>1. Unwritten = A \o B
    BY <1>7, <1>9, <1>j, HeldByOne DEF Unwritten
  <2>2. Unwritten' = B
    <3>1. CASE left = 0
      <4>1. mutex' = {}
        BY <1>6, <1>9, <3>1
      <4> QED
        BY <1>10, <3>1, <4>1, HeldByNone DEF Unwritten
    <3>2. CASE left # 0
      <4>1. mutex' = mutex
        BY <1>6, <3>2
      <4> QED
        BY <1>9, <1>11, <4>1, HeldByOne DEF Unwritten
    <3> QED
      BY <3>1, <3>2
  <2>3. Consumed' = Consumed
    BY <1>2 DEF Consumed
  <2>4. wire \o (A \o B) = (wire \o A) \o B
    <3>1. wire \in Seq(Byte) /\ A \in Seq(Byte) /\ B \in Seq(Byte)
      BY <1>3, <1>7
    <3>2. Associates(wire, A, B)
      BY <3>1, Associative, Zenon
    <3> QED
      BY <3>2 DEF Associates
  <2>5. Stream' = Stream
    BY <1>6, <2>1, <2>2, <2>3, <2>4 DEF Stream
  <2> QED
    BY <1>2, <1>17, <2>5 DEF WireInv
<1> QED
  BY <1>2, <1>13, <1>14, <1>15, <1>16, <1>17 DEF WireInv

(* A step that moves no byte of a frame. *)
LEMMA StaysPut ==
  ASSUME WireInv,
         UNCHANGED <<side, mutex, job, wire, insync, buf, msg_len, got, queue>>,
         closed' \in BOOLEAN, reader' \in Readers,
         Broken => Broken',
         reader' = "handle" => reader = "handle" \/ Len(buf) = msg_len,
         \/ Broken'
         \/ reader \in {"payload", "handle"} <=> reader' \in {"payload", "handle"}
  PROVE  WireInv'
<1>1. WriterTypes' /\ ReaderTypes' /\ OneWriter'
  BY DEF WireInv, WriterTypes, ReaderTypes, OneWriter
<1>2. ASSUME ~Broken', insync
      PROVE  InStep(Stream, queue)'
  <2>1. Unwritten' = Unwritten
    BY DEF Unwritten
  <2>2. Consumed' = Consumed
    BY <1>2 DEF Consumed
  <2>3. Stream' = Stream
    BY <2>1, <2>2 DEF Stream
  <2> QED
    BY <1>2, <2>3 DEF WireInv
<1> QED
  BY <1>1, <1>2 DEF WireInv

LEMMA CloseKeeps == ASSUME WireInv, Close PROVE WireInv'
<1>1. /\ UNCHANGED <<side, mutex, job, wire, insync, buf, msg_len, got, queue, reader>>
      /\ closed' = TRUE
  BY DEF Close, readerVars
<1>2. reader' \in Readers /\ Broken' = Broken
  BY <1>1 DEF WireInv, ReaderTypes, Broken
<1> QED
  BY <1>1, <1>2, StaysPut

LEMMA EventKeeps == ASSUME WireInv, Event PROVE WireInv'
<1>1. /\ UNCHANGED <<side, mutex, job, wire, insync, buf, msg_len, got, queue, closed>>
      /\ reader = "epoll" /\ reader' \in {"removed", "prefix"}
  BY DEF Event, writerVars
<1>2. closed' \in BOOLEAN
  BY <1>1 DEF WireInv, WriterTypes
<1> QED
  BY <1>1, <1>2, StaysPut DEF Readers, Broken

(* What the reader has before it, while it is in step. *)
LEMMA AtHead ==
  ASSUME WireInv, ~Broken, insync, Stream # <<>>
  PROVE  /\ queue # <<>> /\ Head(queue) \in Sent /\ Tail(queue) \in Seq(Sent)
         /\ \E r \in Seq(Byte) :
              Stream = frame(Head(queue)) \o r /\ InStep(r, Tail(queue))
<1>1. Stream \in Seq(Byte) /\ queue \in Seq(Sent) /\ InStep(Stream, queue)
  BY StreamType DEF WireInv, WriterTypes
<1> QED
  BY <1>1, InStepHead

(* The first bytes of a concatenation. *)
LEMMA FirstCells ==
  ASSUME NEW S, NEW u \in Seq(S), NEW v \in Seq(S), NEW i \in 1 .. Len(u)
  PROVE  (u \o v)[i] = u[i]
BY ConcatProperties, LenProperties

LEMMA LastCells ==
  ASSUME NEW S, NEW u \in Seq(S), NEW v \in Seq(S), NEW i \in 1 .. Len(v)
  PROVE  (u \o v)[Len(u) + i] = v[i]
<1>1. Len(u) \in Nat /\ Len(v) \in Nat
  BY LenProperties
<1>2. \A j \in 1 .. Len(u) + Len(v) : (u \o v)[j] = IF j <= Len(u) THEN u[j] ELSE v[j - Len(u)]
  BY ConcatProperties
<1>3. /\ Len(u) + i \in 1 .. Len(u) + Len(v) /\ ~(Len(u) + i <= Len(u))
      /\ (Len(u) + i) - Len(u) = i
  BY <1>1
<1> QED
  BY <1>2, <1>3

LEMMA FrameCells ==
  ASSUME NEW m \in Sent, NEW r \in Seq(Byte)
  PROVE  /\ \A i \in 1 .. PrefixBytes : (frame(m) \o r)[i] = Prefix(Len(payload(m)))[i]
         /\ \A i \in 1 .. Len(payload(m)) :
              (frame(m) \o r)[PrefixBytes + i] = [byte |-> 0, len |-> 0, char |-> payload(m)[i]]
<1> DEFINE p == payload(m)
           P == Prefix(Len(p))
           Q == Plain(p)
           f == frame(m)
<1>1. f = P \o Q /\ f \in Seq(Byte) /\ Len(f) = PrefixBytes + Len(p)
  BY FrameIs, Zenon
<1>2. p \in Seq(Octet) /\ Len(p) \in Nat /\ PrefixBytes \in Nat
  <2>1. p \in Seq(Cell) /\ Len(p) \in Nat
    BY SerializedRead, Zenon
  <2> QED
    BY <2>1, SeqMonotonic, WireAssumption DEF Octet
<1> HIDE DEF p, f
<1>3. P \in Seq(Byte) /\ Len(P) = PrefixBytes
  BY <1>2, PrefixIs
<1>4. /\ Q \in Seq(Byte) /\ Len(Q) = Len(p)
      /\ \A i \in 1 .. Len(p) : Q[i] = [byte |-> 0, len |-> 0, char |-> p[i]]
  BY <1>2, PlainIs
<1> HIDE DEF P, Q
<1>5. \A i \in 1 .. PrefixBytes + Len(p) : (f \o r)[i] = f[i]
  <2>1. \A i \in 1 .. Len(f) : (f \o r)[i] = f[i]
    BY <1>1, FirstCells
  <2> QED
    BY <1>1, <2>1
<1>6. \A i \in 1 .. PrefixBytes : i \in 1 .. PrefixBytes + Len(p)
  BY <1>2
<1>7. \A i \in 1 .. Len(p) : PrefixBytes + i \in 1 .. PrefixBytes + Len(p)
  BY <1>2
<1>8. \A i \in 1 .. PrefixBytes : f[i] = P[i]
  BY <1>1, <1>3, <1>4, FirstCells
<1>9. \A i \in 1 .. Len(p) : f[PrefixBytes + i] = Q[i]
  <2>1. \A i \in 1 .. Len(Q) : (P \o Q)[Len(P) + i] = Q[i]
    BY <1>3, <1>4, LastCells
  <2> QED
    BY <1>1, <1>3, <1>4, <2>1
<1>10. \A i \in 1 .. PrefixBytes : (f \o r)[i] = P[i]
  BY <1>5, <1>6, <1>8
<1>11. \A i \in 1 .. Len(p) :
         (f \o r)[PrefixBytes + i] = [byte |-> 0, len |-> 0, char |-> p[i]]
  BY <1>4, <1>5, <1>7, <1>9
<1> QED
  BY <1>10, <1>11 DEF f, P, p

(* A whole prefix that is the next thing in the stream is read as written. *)
LEMMA PrefixRead ==
  ASSUME WireInv, ~Broken, insync, reader = "prefix", Len(wire) >= PrefixBytes
  PROVE  /\ ntohl(wire) = {Len(payload(Head(queue)))}
         /\ \A i \in 1 .. PrefixBytes : wire[i] = Prefix(Len(payload(Head(queue))))[i]
<1>1. PrefixBytes \in Nat \ {0}
  BY WireAssumption
<1>2. wire \in Seq(Byte) /\ Unwritten \in Seq(Byte) /\ Len(wire) \in Nat
  BY UnwrittenType, LenProperties DEF WireInv, WriterTypes
<1>3. Stream = wire \o Unwritten
  <2>1. wire \o Unwritten \in Seq(Byte)
    BY <1>2, ConcatProperties
  <2>2. Consumed = <<>>
    BY DEF Consumed
  <2> QED
    BY <2>1, <2>2, ConcatEmptySeq DEF Stream
<1>4. \A i \in 1 .. Len(wire) : Stream[i] = wire[i]
  BY <1>2, <1>3, FirstCells
<1>5. Stream # <<>>
  <2>1. Len(Stream) = Len(wire) + Len(Unwritten) /\ Len(Unwritten) \in Nat
    BY <1>2, <1>3, ConcatProperties, LenProperties
  <2> QED
    BY <1>1, <1>2, <2>1
<1> DEFINE h == Head(queue)
           L == Len(payload(h))
<1>6. PICK r \in Seq(Byte) : h \in Sent /\ Stream = frame(h) \o r
  BY <1>5, AtHead
<1>7. L \in Nat
  BY <1>6, SerializedRead, Zenon
<1>8. \A i \in 1 .. PrefixBytes : Stream[i] = Prefix(L)[i]
  BY <1>6, FrameCells
<1> HIDE DEF L, h
<1>9. \A i \in 1 .. PrefixBytes : wire[i] = Prefix(L)[i] /\ wire[i].byte = i /\ wire[i].len = L
  <2>1. \A i \in 1 .. PrefixBytes : i \in 1 .. Len(wire)
    BY <1>1, <1>2
  <2>2. \A i \in 1 .. PrefixBytes : Prefix(L)[i].byte = i /\ Prefix(L)[i].len = L
    BY <1>7, PrefixIs
  <2>3. \A i \in 1 .. PrefixBytes : wire[i] = Prefix(L)[i]
    BY <1>4, <1>8, <2>1
  <2> QED
    BY <2>2, <2>3
<1>10. ntohl(wire) = {L}
  <2>1. 1 \in 1 .. PrefixBytes
    BY <1>1
  <2> QED
    BY <1>9, <2>1 DEF ntohl
<1> QED
  BY <1>9, <1>10 DEF L, h

LEMMA LengthType ==
  ASSUME NEW w \in Seq(Byte), Len(w) >= PrefixBytes
  PROVE  ntohl(w) \subseteq Nat
<1>1. PrefixBytes \in Nat \ {0} /\ Lengths \subseteq Nat
  BY WireAssumption
<1>2. Len(w) \in Nat
  BY LenProperties
<1>3. 1 \in 1 .. Len(w)
  BY <1>1, <1>2
<1>4. w[1] \in Byte
  BY <1>3, ElementOfSeq
<1>5. w[1].len \in Nat
  BY <1>4 DEF Byte
<1> QED
  BY <1>1, <1>5 DEF ntohl

LEMMA WholePrefixKeeps ==
  ASSUME WireInv, reader = "prefix", WholePrefix,
         UNCHANGED <<side, mutex, job, closed, queue, got>>
  PROVE  WireInv'
<1>1. /\ Len(wire) >= PrefixBytes /\ wire' = SubSeq(wire, PrefixBytes + 1, Len(wire))
      /\ msg_len' \in ntohl(wire) /\ buf' = <<>> /\ insync' = insync
      /\ reader' \in {"disconnected", "payload"}
  BY DEF WholePrefix, Rest
<1>2. /\ wire \in Seq(Byte) /\ Len(wire) \in Nat /\ Unwritten \in Seq(Byte)
      /\ PrefixBytes \in Nat
  BY UnwrittenType, LenProperties, WireAssumption DEF WireInv, WriterTypes
<1>3. PrefixBytes \in 0 .. Len(wire)
  BY <1>1, <1>2
<1> DEFINE A == SubSeq(wire, 1, PrefixBytes)
           B == SubSeq(wire, PrefixBytes + 1, Len(wire))
<1>4. /\ A \in Seq(Byte) /\ B \in Seq(Byte) /\ wire = A \o B /\ Len(A) = PrefixBytes
      /\ \A i \in 1 .. PrefixBytes : A[i] = wire[i]
  <2>1. InTwo(Byte, wire, PrefixBytes)
    BY <1>2, <1>3, CutInTwo, Zenon
  <2> QED
    BY <2>1 DEF InTwo
<1>5. wire' = B
  BY <1>1
<1> HIDE DEF A, B
<1>6. msg_len' \in Nat
  BY <1>1, <1>2, LengthType
<1>7. WriterTypes' /\ OneWriter'
  BY <1>4, <1>5 DEF WireInv, WriterTypes, OneWriter
<1>8. ReaderTypes'
  <2>1. <<>> \in Seq(Octet) /\ Len(<<>>) = 0
    OBVIOUS
  <2> QED
    BY <1>1, <1>6, <2>1 DEF WireInv, ReaderTypes, Readers
<1>9. ASSUME insync, ~Broken'
      PROVE  InStep(Stream, queue)'
  <2>1. ~Broken /\ reader' = "payload"
    BY <1>1, <1>9 DEF Broken
  <2>2. \A i \in 1 .. PrefixBytes : wire[i] = Prefix(msg_len')[i]
    <3>1. /\ ntohl(wire) = {Len(payload(Head(queue)))}
          /\ \A i \in 1 .. PrefixBytes : wire[i] = Prefix(Len(payload(Head(queue))))[i]
      BY <1>1, <1>9, <2>1, PrefixRead
    <3>2. msg_len' = Len(payload(Head(queue)))
      BY <1>1, <3>1
    <3> QED
      BY <3>1, <3>2, Zenon
  <2> DEFINE P == Prefix(msg_len')
  <2>3. P \in Seq(Byte) /\ Len(P) = PrefixBytes
    BY <1>6, PrefixIs
  <2>4. A = P
    BY <1>4, <2>2, <2>3, SeqEqual
  <2>5. Plain(<<>>) = <<>>
    <3>1. <<>> \in Seq(Octet) /\ Len(<<>>) = 0
      OBVIOUS
    <3>2. Plain(<<>>) \in Seq(Byte) /\ Len(Plain(<<>>)) = 0
      BY <3>1, PlainIs
    <3> QED
      BY <3>2, EmptySeq
  <2>6. Consumed' = P \o <<>>
    BY <1>1, <2>1, <2>5 DEF Consumed
  <2>7. Consumed = <<>>
    BY DEF Consumed
  <2>8. Unwritten' = Unwritten
    BY DEF Unwritten
  <2> HIDE DEF P
  <2>9. P \o <<>> = P
    BY <2>3, ConcatEmptySeq
  <2>10. Stream' = P \o (B \o Unwritten)
    BY <1>5, <2>6, <2>8, <2>9 DEF Stream
  <2>11. Stream = (P \o B) \o Unwritten
    <3>1. wire \o Unwritten \in Seq(Byte)
      BY <1>2, ConcatProperties
    <3>2. Stream = wire \o Unwritten
      BY <2>7, <3>1, ConcatEmptySeq DEF Stream
    <3> QED
      BY <1>4, <2>4, <3>2
  <2>12. Associates(P, B, Unwritten)
    BY <1>2, <1>4, <2>3, Associative, Zenon
  <2>13. Stream' = Stream
    BY <2>10, <2>11, <2>12 DEF Associates
  <2> QED
    BY <1>9, <2>1, <2>13 DEF WireInv
<1> QED
  BY <1>1, <1>7, <1>8, <1>9 DEF WireInv

LEMMA EndOfFileKeeps ==
  ASSUME WireInv, EndOfFile, UNCHANGED <<side, mutex, job, closed, queue, got>>
  PROVE  WireInv'
<1>1. /\ UNCHANGED <<wire, buf, msg_len, insync>>
      /\ reader' \in {"removed", "disconnected"} /\ closed' \in BOOLEAN
  BY DEF EndOfFile, WireInv, WriterTypes
<1> QED
  BY <1>1, StaysPut DEF Readers, Broken

LEMMA PartialPrefixKeeps ==
  ASSUME WireInv, reader = "prefix", PartialPrefix,
         UNCHANGED <<side, mutex, job, closed, queue, got>>
  PROVE  WireInv'
<1>1. /\ wire' = <<>> /\ UNCHANGED <<buf, msg_len>>
      /\ \/ side = "daemon" /\ insync' = FALSE /\ reader' = reader
         \/ side = "client" /\ reader' = "disconnected" /\ insync' = insync
  BY DEF PartialPrefix
<1>2. WriterTypes' /\ OneWriter'
  <2>1. <<>> \in Seq(Byte)
    OBVIOUS
  <2> QED
    BY <1>1, <2>1 DEF WireInv, WriterTypes, OneWriter
<1>3. ReaderTypes'
  BY <1>1 DEF WireInv, ReaderTypes, Readers
<1> QED
  BY <1>1, <1>2, <1>3 DEF WireInv, Broken

LEMMA ReadPrefixKeeps == ASSUME WireInv, ReadPrefix PROVE WireInv'
<1>1. reader = "prefix" /\ UNCHANGED <<side, mutex, job, closed, queue, got>>
  BY DEF ReadPrefix, writerVars
<1>2. CASE EndOfFile
  BY <1>1, <1>2, EndOfFileKeeps
<1>3. CASE Drained
  <2>1. /\ UNCHANGED <<wire, buf, msg_len, insync>> /\ reader' = "epoll"
        /\ closed' \in BOOLEAN
    BY <1>1, <1>3 DEF Drained, WireInv, WriterTypes
  <2> QED
    BY <1>1, <2>1, StaysPut DEF Readers, Broken
<1>4. CASE PartialPrefix
  BY <1>1, <1>4, PartialPrefixKeeps
<1>5. CASE WholePrefix
  BY <1>1, <1>5, WholePrefixKeeps
<1> QED
  BY <1>2, <1>3, <1>4, <1>5 DEF ReadPrefix

(* Inside a frame, the reader has the length of the first message sent,    *)
(* and the stream goes on with its characters.                             *)
LEMMA InsideFrame ==
  ASSUME WireInv, ~Broken, insync, reader \in {"payload", "handle"}
  PROVE  /\ queue # <<>> /\ Head(queue) \in Sent /\ Tail(queue) \in Seq(Sent)
         /\ msg_len = Len(payload(Head(queue)))
         /\ \A i \in 1 .. msg_len :
              Stream[PrefixBytes + i] = [byte |-> 0, len |-> 0, char |-> payload(Head(queue))[i]]
         /\ \E r \in Seq(Byte) : Stream = frame(Head(queue)) \o r /\ InStep(r, Tail(queue))
<1>1. /\ PrefixBytes \in Nat \ {0} /\ msg_len \in Nat /\ buf \in Seq(Octet)
  BY WireAssumption DEF WireInv, ReaderTypes
<1> DEFINE P == Prefix(msg_len)
           Q == Plain(buf)
           R == wire \o Unwritten
<1>2. /\ P \in Seq(Byte) /\ Len(P) = PrefixBytes /\ Q \in Seq(Byte)
      /\ \A i \in 1 .. PrefixBytes : P[i].len = msg_len
  BY <1>1, PrefixIs, PlainIs
<1>3. R \in Seq(Byte)
  BY StreamType DEF WireInv
<1>4. Stream = (P \o Q) \o R
  BY DEF Stream, Consumed
<1> HIDE DEF P, Q, R
<1>5. P \o Q \in Seq(Byte) /\ Len(P \o Q) = Len(P) + Len(Q) /\ Len(Q) \in Nat
  BY <1>2, ConcatProperties, LenProperties
<1>6. 1 \in 1 .. Len(P) /\ 1 \in 1 .. Len(P \o Q) /\ 1 \in 1 .. PrefixBytes
  BY <1>1, <1>2, <1>5
<1>7. Stream[1] = P[1]
  <2>1. (P \o Q)[1] = P[1]
    BY <1>2, <1>6, FirstCells
  <2> DEFINE C == P \o Q
  <2>2. C \in Seq(Byte) /\ 1 \in 1 .. Len(C) /\ Stream = C \o R
    BY <1>4, <1>5, <1>6
  <2> HIDE DEF C
  <2>3. Stream[1] = C[1]
    BY <1>3, <2>2, FirstCells
  <2> QED
    BY <2>1, <2>3 DEF C
<1>8. Stream # <<>>
  <2> DEFINE C == P \o Q
  <2>1. C \in Seq(Byte) /\ Len(C) >= 1 /\ Len(C) \in Nat
    BY <1>1, <1>2, <1>5
  <2>c. Stream = C \o R
    BY <1>4
  <2> HIDE DEF C
  <2>2. Len(C \o R) = Len(C) + Len(R) /\ Len(R) \in Nat
    BY <1>3, <2>1, ConcatProperties, LenProperties
  <2> QED
    BY <2>1, <2>2, <2>c
<1> DEFINE h == Head(queue)
           L == Len(payload(h))
<1>9. /\ queue # <<>> /\ h \in Sent /\ Tail(queue) \in Seq(Sent)
      /\ \E r \in Seq(Byte) : Stream = frame(h) \o r /\ InStep(r, Tail(queue))
  BY <1>8, AtHead
<1>10. PICK r \in Seq(Byte) : Stream = frame(h) \o r /\ InStep(r, Tail(queue))
  BY <1>9
<1>11. L \in Nat
  BY <1>9, SerializedRead, Zenon
<1>12. /\ \A i \in 1 .. PrefixBytes : Stream[i] = Prefix(L)[i]
       /\ \A i \in 1 .. L : Stream[PrefixBytes + i] = [byte |-> 0, len |-> 0, char |-> payload(h)[i]]
  BY <1>9, <1>10, FrameCells
<1> HIDE DEF L, h
<1>13. msg_len = L
  <2>1. Prefix(L)[1].len = L
    BY <1>6, <1>11, PrefixIs
  <2>2. P[1].len = msg_len
    BY <1>2, <1>6
  <2> QED
    BY <1>6, <1>7, <1>12, <2>1, <2>2
<1> QED
  BY <1>9, <1>12, <1>13 DEF L, h

(* The characters of one read, and what it leaves. *)
LEMMA ReadTypes ==
  ASSUME WireInv, NEW n \in Nat
  PROVE  /\ Rest(n) \in Seq(Byte) /\ Taken(n) \in Seq(Octet)
         /\ \E k \in 0 .. Len(wire) :
              /\ k <= n /\ Len(Taken(n)) = k /\ Rest(n) = SubSeq(wire, k + 1, Len(wire))
              /\ \A i \in 1 .. k : Taken(n)[i] = wire[i].char
<1>1. wire \in Seq(Byte) /\ Len(wire) \in Nat /\ \A i \in 1 .. Len(wire) : wire[i] \in Byte
  BY LenProperties, ElementOfSeq DEF WireInv, WriterTypes
<1> DEFINE k == IF n < Len(wire) THEN n ELSE Len(wire)
           c(i) == wire[i].char
<1>2. Taken(n) = [i \in 1 .. k |-> c(i)]
  BY Zenon DEF Taken
<1>3. k \in 0 .. Len(wire) /\ k <= n /\ k \in Nat
  BY <1>1
<1>4. Rest(n) = SubSeq(wire, k + 1, Len(wire))
  <2>1. CASE n < Len(wire)
    BY <2>1 DEF Rest
  <2>2. CASE ~(n < Len(wire))
    <3>1. k = Len(wire) /\ Len(wire) < n + 1 /\ Len(wire) < k + 1
      BY <1>1, <2>2
    <3>2. n + 1 \in Int /\ k + 1 \in Int /\ Len(wire) \in Int
      BY <1>1, <1>3
    <3>3. Rest(n) = <<>>
      BY <3>1, <3>2, SubSeqEmpty DEF Rest
    <3> HIDE DEF k
    <3>4. SubSeq(wire, k + 1, Len(wire)) = <<>>
      BY <3>1, <3>2, SubSeqEmpty
    <3> QED
      BY <3>3, <3>4
  <2> QED
    BY <2>1, <2>2
<1> HIDE DEF k
<1>5. \A i \in 1 .. k : c(i) \in Octet
  <2>1. \A i \in 1 .. k : wire[i] \in Byte
    BY <1>1, <1>3
  <2> QED
    BY <2>1 DEF Byte
<1> HIDE DEF c
<1>6. Taken(n) \in Seq(Octet) /\ Len(Taken(n)) = k /\ \A i \in 1 .. k : Taken(n)[i] = c(i)
  BY <1>2, <1>3, <1>5
<1>7. Rest(n) \in Seq(Byte)
  <2>1. InTwo(Byte, wire, k)
    BY <1>1, <1>3, <1>4, CutInTwo
  <2> QED
    BY <1>1, <1>3, <1>4, <2>1 DEF InTwo
<1> QED
  BY <1>3, <1>4, <1>6, <1>7 DEF c

LEMMA PlainConcat ==
  ASSUME NEW u \in Seq(Octet), NEW v \in Seq(Octet)
  PROVE  Plain(u \o v) = Plain(u) \o Plain(v)
<1> DEFINE w == u \o v
           P == Plain(u)
           Q == Plain(v)
           W == Plain(w)
           c(x) == [byte |-> 0, len |-> 0, char |-> x]
<1>1. /\ w \in Seq(Octet) /\ Len(w) = Len(u) + Len(v) /\ Len(u) \in Nat /\ Len(v) \in Nat
      /\ \A i \in 1 .. Len(u) + Len(v) : w[i] = IF i <= Len(u) THEN u[i] ELSE v[i - Len(u)]
  BY ConcatProperties, LenProperties
<1> HIDE DEF w
<1>2. W \in Seq(Byte) /\ Len(W) = Len(w) /\ \A i \in 1 .. Len(w) : W[i] = c(w[i])
  BY <1>1, PlainIs
<1>3. P \in Seq(Byte) /\ Len(P) = Len(u) /\ \A i \in 1 .. Len(u) : P[i] = c(u[i])
  BY PlainIs
<1>4. Q \in Seq(Byte) /\ Len(Q) = Len(v) /\ \A i \in 1 .. Len(v) : Q[i] = c(v[i])
  BY PlainIs
<1> HIDE DEF P, Q, W, c
<1>5. /\ P \o Q \in Seq(Byte) /\ Len(P \o Q) = Len(P) + Len(Q)
      /\ \A i \in 1 .. Len(P) + Len(Q) : (P \o Q)[i] = IF i <= Len(P) THEN P[i] ELSE Q[i - Len(P)]
  <2>1. P \in Seq(Byte) /\ Q \in Seq(Byte)
    BY <1>3, <1>4
  <2> QED
    BY <2>1, ConcatProperties
<1>6. \A i \in 1 .. Len(w) : W[i] = (P \o Q)[i]
  <2> SUFFICES ASSUME NEW i \in 1 .. Len(w)
               PROVE  W[i] = (P \o Q)[i]
    OBVIOUS
  <2>1. CASE i <= Len(u)
    <3>1. i \in 1 .. Len(u)
      BY <1>1, <2>1
    <3> QED
      BY <1>1, <1>2, <1>3, <1>4, <1>5, <2>1, <3>1
  <2>2. CASE ~(i <= Len(u))
    <3>1. i - Len(u) \in 1 .. Len(v)
      BY <1>1, <2>2
    <3> QED
      BY <1>1, <1>2, <1>3, <1>4, <1>5, <2>2, <3>1
  <2> QED
    BY <2>1, <2>2
<1>7. Len(W) = Len(P \o Q)
  BY <1>1, <1>2, <1>3, <1>4, <1>5
<1>8. W = P \o Q
  BY <1>2, <1>5, <1>6, <1>7, SeqEqual
<1> QED
  BY <1>8 DEF W, P, Q, w

Regroups(t, u, v, w) == (t \o u) \o (v \o w) = t \o ((u \o v) \o w)

LEMMA Regroup == \A t, u, v, w \in Seq(Byte) : Regroups(t, u, v, w)
<1> SUFFICES ASSUME NEW t \in Seq(Byte), NEW u \in Seq(Byte),
                    NEW v \in Seq(Byte), NEW w \in Seq(Byte)
             PROVE  Regroups(t, u, v, w)
  BY Zenon
<1> DEFINE x == v \o w
<1>1. x \in Seq(Byte)
  <2> DEFINE S == Byte
  <2>1. v \in Seq(S) /\ w \in Seq(S)
    OBVIOUS
  <2> HIDE DEF S
  <2>2. x \in Seq(S)
    BY <2>1, ConcatProperties
  <2> QED
    BY <2>2 DEF S
<1> HIDE DEF x
<1>2. Associates(t, u, x)
  BY <1>1, Associative, Zenon
<1>3. Associates(u, v, w)
  BY Associative, Zenon
<1> QED
  BY <1>2, <1>3 DEF x, Associates, Regroups

LEMMA ReadSomeKeeps ==
  ASSUME WireInv, reader = "payload", Len(buf) < msg_len,
         buf' = buf \o Taken(msg_len - Len(buf)), wire' = Rest(msg_len - Len(buf)),
         UNCHANGED <<side, mutex, job, closed, queue, got, reader, msg_len, insync>>
  PROVE  WireInv'
<1> DEFINE n == msg_len - Len(buf)
           T == Taken(n)
<1>1. /\ buf \in Seq(Octet) /\ Len(buf) \in Nat /\ msg_len \in Nat /\ wire \in Seq(Byte)
      /\ Unwritten \in Seq(Byte) /\ Len(wire) \in Nat
  BY UnwrittenType, LenProperties DEF WireInv, ReaderTypes, WriterTypes
<1>2. n \in Nat /\ Len(buf) + n = msg_len
  BY <1>1
<1>3. buf' = buf \o T /\ wire' = Rest(n)
  OBVIOUS
<1> HIDE DEF n
<1>4. Rest(n) \in Seq(Byte) /\ T \in Seq(Octet)
  BY <1>2, ReadTypes
<1>5. PICK k \in 0 .. Len(wire) :
        /\ k <= n /\ Len(T) = k /\ Rest(n) = SubSeq(wire, k + 1, Len(wire))
        /\ \A i \in 1 .. k : T[i] = wire[i].char
  BY <1>2, ReadTypes
<1> HIDE DEF T
<1>6. buf' \in Seq(Octet) /\ Len(buf') = Len(buf) + k
  BY <1>1, <1>3, <1>4, <1>5, ConcatProperties
<1>7. Len(buf') <= msg_len
  BY <1>1, <1>2, <1>5, <1>6
<1>8. WriterTypes' /\ OneWriter'
  BY <1>3, <1>4 DEF WireInv, WriterTypes, OneWriter
<1>9. ReaderTypes'
  BY <1>6, <1>7 DEF WireInv, ReaderTypes
<1>10. Broken' = Broken
  BY DEF Broken
<1>11. ASSUME insync, ~Broken
       PROVE  InStep(Stream, queue)'
  <2> DEFINE p == payload(Head(queue))
             C == Prefix(msg_len) \o Plain(buf)
             A == SubSeq(wire, 1, k)
             B == SubSeq(wire, k + 1, Len(wire))
             U == Unwritten
             P == Plain(T)
  <2>1. /\ msg_len = Len(p)
        /\ \A i \in 1 .. msg_len :
             Stream[PrefixBytes + i] = [byte |-> 0, len |-> 0, char |-> p[i]]
    BY <1>11, InsideFrame
  <2>2. /\ Prefix(msg_len) \in Seq(Byte) /\ Len(Prefix(msg_len)) = PrefixBytes
        /\ Plain(buf) \in Seq(Byte) /\ Len(Plain(buf)) = Len(buf)
        /\ PrefixBytes \in Nat
    BY <1>1, PrefixIs, PlainIs, WireAssumption
  <2>3. C \in Seq(Byte) /\ Len(C) = PrefixBytes + Len(buf)
    <3> DEFINE K == Prefix(msg_len)
               Q == Plain(buf)
    <3>1. K \in Seq(Byte) /\ Q \in Seq(Byte)
      BY <2>2
    <3> HIDE DEF K, Q
    <3>2. K \o Q \in Seq(Byte) /\ Len(K \o Q) = Len(K) + Len(Q)
      BY <3>1, ConcatProperties
    <3> QED
      BY <2>2, <3>2 DEF K, Q
  <2>4. /\ A \in Seq(Byte) /\ B \in Seq(Byte) /\ wire = A \o B /\ Len(A) = k
        /\ \A i \in 1 .. k : A[i] = wire[i]
    <3>1. InTwo(Byte, wire, k)
      BY <1>1, CutInTwo, Zenon
    <3> QED
      BY <3>1 DEF InTwo
  <2>5. P \in Seq(Byte) /\ Len(P) = k
        /\ \A i \in 1 .. k : P[i] = [byte |-> 0, len |-> 0, char |-> T[i]]
    BY <1>4, <1>5, PlainIs
  <2>6. Consumed = C /\ Stream = C \o (wire \o U)
    BY DEF Consumed, Stream
  <2>7. Consumed' = Prefix(msg_len) \o (Plain(buf) \o P)
    BY <1>1, <1>3, <1>4, PlainConcat DEF Consumed
  <2>8. wire' = B /\ Unwritten' = U
    BY <1>3, <1>5 DEF Unwritten
  <2>9. Consumed' = C \o P
    <3> DEFINE K == Prefix(msg_len)
               Q == Plain(buf)
    <3>1. P \in Seq(Byte) /\ K \in Seq(Byte) /\ Q \in Seq(Byte)
      BY <2>2, <2>5
    <3> HIDE DEF P, K, Q
    <3>2. Associates(K, Q, P)
      BY <3>1, Associative, Zenon
    <3> QED
      BY <2>7, <3>2 DEF K, Q, Associates
  <2>u. U \in Seq(Byte)
    BY <1>1
  <2> HIDE DEF p, C, A, B, U, P
  <2>10. wire \o U \in Seq(Byte) /\ \A i \in 1 .. Len(wire) : (wire \o U)[i] = wire[i]
    BY <1>1, <2>u, ConcatProperties, FirstCells
  <2>11. Len(wire \o U) = Len(wire) + Len(U) /\ Len(U) \in Nat
    BY <1>1, <2>u, ConcatProperties, LenProperties
  <2>12. \A i \in 1 .. k : Stream[PrefixBytes + Len(buf) + i] = wire[i]
    <3> DEFINE R == wire \o U
    <3>1. R \in Seq(Byte) /\ Stream = C \o R /\ \A i \in 1 .. k : i \in 1 .. Len(R) /\ R[i] = wire[i]
      BY <1>1, <2>6, <2>10, <2>11
    <3> HIDE DEF R
    <3>2. \A i \in 1 .. Len(R) : (C \o R)[Len(C) + i] = R[i]
      BY <2>3, <3>1, LastCells
    <3> QED
      BY <2>3, <3>1, <3>2
  <2>13. \A i \in 1 .. k : A[i] = P[i]
    <3> SUFFICES ASSUME NEW i \in 1 .. k
                 PROVE  A[i] = P[i]
      OBVIOUS
    <3>1. Len(buf) + i \in 1 .. msg_len /\ PrefixBytes + (Len(buf) + i) = PrefixBytes + Len(buf) + i
      BY <1>1, <1>2, <1>5, <2>2
    <3>2. wire[i] = [byte |-> 0, len |-> 0, char |-> p[Len(buf) + i]]
      BY <2>1, <2>12, <3>1
    <3>3. T[i] = p[Len(buf) + i]
      BY <1>5, <3>2
    <3> QED
      BY <2>4, <2>5, <3>2, <3>3
  <2>14. A = P
    BY <2>4, <2>5, <2>13, SeqEqual
  <2>15. (C \o P) \o (B \o U) = C \o ((P \o B) \o U)
    <3>1. P \in Seq(Byte) /\ B \in Seq(Byte) /\ C \in Seq(Byte) /\ U \in Seq(Byte)
      BY <2>3, <2>4, <2>5, <2>u
    <3>2. Regroups(C, P, B, U)
      BY <3>1, Regroup, Zenon
    <3> QED
      BY <3>2 DEF Regroups
  <2>16. Stream = C \o ((P \o B) \o U)
    BY <2>4, <2>6, <2>14
  <2>17. Stream' = (C \o P) \o (B \o U)
    BY <2>8, <2>9 DEF Stream
  <2>18. Stream' = Stream
    BY <2>15, <2>16, <2>17
  <2> QED
    BY <1>11, <2>18 DEF WireInv
<1> QED
  BY <1>8, <1>9, <1>10, <1>11 DEF WireInv

LEMMA ReadPayloadKeeps == ASSUME WireInv, ReadPayload PROVE WireInv'
<1>1. reader = "payload" /\ UNCHANGED <<side, mutex, job, closed, queue, got>>
  BY DEF ReadPayload, writerVars
<1>2. CASE EndOfFile
  BY <1>1, <1>2, EndOfFileKeeps
<1>3. CASE /\ Len(buf) < msg_len /\ wire # <<>>
           /\ buf' = buf \o Taken(msg_len - Len(buf))
           /\ wire' = Rest(msg_len - Len(buf))
           /\ UNCHANGED <<reader, msg_len, insync>>
  BY <1>1, <1>3, ReadSomeKeeps
<1>4. CASE /\ Len(buf) = msg_len /\ reader' = "handle"
           /\ UNCHANGED <<wire, buf, msg_len, insync>>
  <2>1. closed' \in BOOLEAN
    BY <1>1 DEF WireInv, WriterTypes
  <2> QED
    BY <1>1, <1>4, <2>1, StaysPut DEF Readers, Broken
<1> QED
  BY <1>2, <1>3, <1>4 DEF ReadPayload

(* Whatever the text was, what is handed over has a type and numbers. *)
LEMMA DeserializeType ==
  ASSUME NEW json, ~throws(json)
  PROVE  deserialize(json) \in Handed
<1> DEFINE value(k) ==
             IF k = "type" THEN string_to_type(extract_string(json, k))
             ELSE CHOOSE n \in stoi(extract_string(json, k)) : TRUE
<1>1. deserialize(json) = [k \in Fields |-> value(k)]
  BY Zenon DEF deserialize
<1>2. \A texts : string_to_type(texts) \in Types
  <2> SUFFICES ASSUME NEW texts
               PROVE  string_to_type(texts) \in Types
    OBVIOUS
  <2>1. "UNKNOWN" \in Types
    BY WireAssumption
  <2>2. ReadAs(texts, Types) \subseteq Types
    BY DEF ReadAs
  <2>3. ReadAs(texts, Types) # {} =>
          (CHOOSE t \in ReadAs(texts, Types) : TRUE) \in ReadAs(texts, Types)
    OBVIOUS
  <2> QED
    BY <2>1, <2>2, <2>3, Zenon DEF string_to_type
<1>3. \A texts : stoi(texts) \subseteq Numbers
  BY WireAssumption DEF stoi, ReadAs
<1>4. \A i \in 1 .. 4 : stoi(extract_string(json, Numeric[i])) # {}
  BY KeyCells, Zenon DEF throws
<1>5. \A S : S # {} => (CHOOSE x \in S : TRUE) \in S
  OBVIOUS
<1>6. \A i \in 1 .. 4 :
        (CHOOSE n \in stoi(extract_string(json, Numeric[i])) : TRUE) \in Numbers
  BY <1>3, <1>4, <1>5
<1>7. \A k \in Fields : k = "type" \/ \E i \in 1 .. 4 : k = Numeric[i]
  BY KeyCells
<1>8. value("type") \in Types
  BY <1>2, Zenon
<1>9. \A k \in Fields : k # "type" => value(k) \in Numbers
  BY <1>6, <1>7, Zenon
<1>10. "type" \in Fields
  BY KeyCells
<1> HIDE DEF value
<1>11. \A k \in Fields : value(k) \in Types \cup Numbers
  BY <1>8, <1>9
<1> QED
  BY <1>1, <1>8, <1>10, <1>11 DEF Handed

(* What the reader has gathered when it is in step is the first message    *)
(* sent, whole.                                                            *)
LEMMA GatheredWhole ==
  ASSUME WireInv, ~Broken, insync, reader = "handle"
  PROVE  /\ queue # <<>> /\ Head(queue) \in Sent /\ Tail(queue) \in Seq(Sent)
         /\ buf = payload(Head(queue))
         /\ InStep(wire \o Unwritten, Tail(queue))
<1> DEFINE h == Head(queue)
           p == payload(h)
           P == Prefix(msg_len)
           Q == Plain(buf)
           R == wire \o Unwritten
           C == P \o Q
           f == frame(h)
<1>1. /\ queue # <<>> /\ h \in Sent /\ Tail(queue) \in Seq(Sent) /\ msg_len = Len(p)
      /\ \A i \in 1 .. msg_len :
           Stream[PrefixBytes + i] = [byte |-> 0, len |-> 0, char |-> p[i]]
  BY InsideFrame
<1>2. PICK r \in Seq(Byte) : Stream = f \o r /\ InStep(r, Tail(queue))
  BY InsideFrame
<1>3. /\ buf \in Seq(Octet) /\ msg_len \in Nat /\ Len(buf) = msg_len /\ PrefixBytes \in Nat
  BY WireAssumption DEF WireInv, ReaderTypes
<1>4. p \in Seq(Octet)
  <2>1. p \in Seq(Cell)
    BY <1>1, SerializedRead, Zenon
  <2> QED
    BY <2>1, SeqMonotonic DEF Octet
<1>5. /\ P \in Seq(Byte) /\ Len(P) = PrefixBytes
  BY <1>3, PrefixIs
<1>6. /\ Q \in Seq(Byte) /\ Len(Q) = Len(buf)
      /\ \A i \in 1 .. Len(buf) : Q[i] = [byte |-> 0, len |-> 0, char |-> buf[i]]
  BY <1>3, PlainIs
<1>7. R \in Seq(Byte)
  BY StreamType DEF WireInv
<1>8. Stream = C \o R
  BY DEF Stream, Consumed
<1>f. f = Prefix(Len(p)) \o Plain(p)
  BY <1>1, FrameIs, Zenon
<1> HIDE DEF P, Q, R, p, f
<1>9. C \in Seq(Byte) /\ Len(C) = Len(P) + Len(Q)
  BY <1>5, <1>6, ConcatProperties
<1>10. \A i \in 1 .. Len(buf) : C[PrefixBytes + i] = Q[i]
  <2>1. \A i \in 1 .. Len(Q) : (P \o Q)[Len(P) + i] = Q[i]
    BY <1>5, <1>6, LastCells
  <2> QED
    BY <1>5, <1>6, <2>1
<1> HIDE DEF C
<1>11. \A i \in 1 .. Len(C) : Stream[i] = C[i]
  BY <1>7, <1>8, <1>9, FirstCells
<1>12. \A i \in 1 .. msg_len : PrefixBytes + i \in 1 .. Len(C)
  BY <1>3, <1>5, <1>6, <1>9
<1>13. \A i \in 1 .. Len(buf) : buf[i] = p[i]
  <2> SUFFICES ASSUME NEW i \in 1 .. Len(buf)
               PROVE  buf[i] = p[i]
    OBVIOUS
  <2>1. Stream[PrefixBytes + i] = [byte |-> 0, len |-> 0, char |-> p[i]]
    BY <1>1, <1>3
  <2>2. Stream[PrefixBytes + i] = [byte |-> 0, len |-> 0, char |-> buf[i]]
    BY <1>3, <1>6, <1>10, <1>11, <1>12
  <2> QED
    BY <2>1, <2>2
<1>14. buf = p
  BY <1>1, <1>3, <1>4, <1>13, SeqEqual
<1>15. f = C
  BY <1>1, <1>14, <1>f, Zenon DEF C, P, Q
<1>16. R = r
  <2>1. C \o R = C \o r
    BY <1>2, <1>8, <1>15
  <2> QED
    BY <1>7, <1>9, <2>1, ConcatSimplifications, Zenon
<1> QED
  BY <1>1, <1>2, <1>14, <1>16 DEF R, p

LEMMA HandleKeeps == ASSUME WireInv, Handle PROVE WireInv'
<1>1. /\ reader = "handle" /\ UNCHANGED <<side, mutex, job, closed, wire, msg_len, insync>>
      /\ got' = IF throws(buf) THEN got ELSE Append(got, deserialize(buf))
      /\ queue' = IF throws(buf) \/ queue = <<>> THEN queue ELSE Tail(queue)
      /\ reader' = IF throws(buf) /\ side = "client" THEN "terminated" ELSE "prefix"
      /\ buf' = <<>>
  BY DEF Handle, writerVars
<1>2. ~Broken
  BY <1>1 DEF Broken
<1>3. insync => ~throws(buf)
  BY <1>1, <1>2, GatheredWhole, RoundTrip
<1>4. reader' = "prefix"
  BY <1>1, <1>3 DEF WireInv
<1>5. WriterTypes'
  <2>1. queue' \in Seq(Sent)
    <3>1. queue \in Seq(Sent)
      BY DEF WireInv, WriterTypes
    <3>2. queue # <<>> => Tail(queue) \in Seq(Sent)
      BY <3>1, HeadTailProperties
    <3> QED
      BY <1>1, <3>1, <3>2
  <2> QED
    BY <1>1, <2>1 DEF WireInv, WriterTypes
<1>6. ReaderTypes'
  <2>1. got' \in Seq(Handed)
    <3>1. got \in Seq(Handed)
      BY DEF WireInv, ReaderTypes
    <3>2. ~throws(buf) => Append(got, deserialize(buf)) \in Seq(Handed)
      BY <3>1, DeserializeType, AppendProperties
    <3> QED
      BY <1>1, <3>1, <3>2
  <2>2. <<>> \in Seq(Octet) /\ Len(<<>>) = 0
    OBVIOUS
  <2> QED
    BY <1>1, <1>4, <2>1, <2>2 DEF WireInv, ReaderTypes, Readers
<1>7. OneWriter'
  BY <1>1 DEF WireInv, OneWriter
<1>8. ASSUME insync
      PROVE  InStep(Stream, queue)'
  <2>1. queue # <<>> /\ InStep(wire \o Unwritten, Tail(queue))
    BY <1>1, <1>2, <1>8, GatheredWhole
  <2>2. queue' = Tail(queue)
    BY <1>1, <1>3, <1>8, <2>1
  <2>3. Consumed' = <<>> /\ Unwritten' = Unwritten /\ wire' = wire
    BY <1>1, <1>4 DEF Consumed, Unwritten
  <2>4. wire \o Unwritten \in Seq(Byte)
    BY StreamType DEF WireInv
  <2>5. Stream' = wire \o Unwritten
    BY <2>3, <2>4, ConcatEmptySeq DEF Stream
  <2> QED
    BY <2>1, <2>2, <2>5
<1> QED
  BY <1>1, <1>4, <1>5, <1>6, <1>7, <1>8 DEF WireInv

LEMMA StepWireInv == WireInv /\ [Next]_vars => WireInv'
<1> SUFFICES ASSUME WireInv, [Next]_vars
             PROVE  WireInv'
  OBVIOUS
<1>1. ASSUME NEW s \in Senders, Send(s) PROVE WireInv'
  BY <1>1, SendKeeps
<1>2. ASSUME NEW s \in Senders, Write(s) PROVE WireInv'
  BY <1>2, WriteKeeps
<1>3. CASE Close
  BY <1>3, CloseKeeps
<1>4. CASE Event
  BY <1>4, EventKeeps
<1>5. CASE ReadPrefix
  BY <1>5, ReadPrefixKeeps
<1>6. CASE ReadPayload
  BY <1>6, ReadPayloadKeeps
<1>7. CASE Handle
  BY <1>7, HandleKeeps
<1>8. CASE UNCHANGED vars
  <2>1. UNCHANGED <<side, mutex, job, wire, insync, buf, msg_len, got, queue, reader, closed>>
    BY <1>8 DEF vars, writerVars, readerVars
  <2>2. closed' \in BOOLEAN /\ reader' \in Readers /\ Broken' = Broken
    BY <2>1 DEF WireInv, WriterTypes, ReaderTypes, Broken
  <2> QED
    BY <2>1, <2>2, StaysPut
<1> QED
  BY <1>1, <1>2, <1>3, <1>4, <1>5, <1>6, <1>7, <1>8 DEF Next, Reader

LEMMA WireInvariant == Spec => []WireInv
<1> SUFFICES ASSUME TRUE PROVE Init /\ [][Next]_vars => []WireInv
  BY PTL DEF Spec
<1> QED
  BY InitWireInv, StepWireInv, PTL

-----------------------------------------------------------------------------
(* Theorems *)

(* handle_client_message and listener_loop never read more of a payload    *)
(* than the length before it says, and hand over nothing but messages of a *)
(* known type, whatever the cuts of the stream.                            *)
THEOREM TypesAlways == Spec => []TypeOK
<1>1. WireInv => TypeOK
  <2> SUFFICES ASSUME WireInv PROVE TypeOK
    OBVIOUS
  <2>1. /\ side \in Sides /\ mutex \subseteq Senders /\ Len(buf) <= msg_len
        /\ reader \in Readers /\ got \in Seq(Handed)
    BY DEF WireInv, WriterTypes, ReaderTypes
  <2>2. \A i \in DOMAIN got : got[i]["type"] \in Types
    <3>1. \A i \in DOMAIN got : got[i] \in Handed
      BY <2>1, LenProperties, ElementOfSeq
    <3> QED
      BY <3>1 DEF Handed
  <2> QED
    BY <2>1, <2>2 DEF TypeOK, Readers
<1> QED
  BY <1>1, WireInvariant, PTL

(* listener_loop calls deserialize with no handler around it, and no       *)
(* interleaving of the senders and no cut of the stream makes it throw.    *)
THEOREM ListenerAlwaysSurvives == Spec => []ListenerSurvives
<1>1. WireInv => ListenerSurvives
  BY DEF WireInv, ReaderTypes, Readers, ListenerSurvives
<1> QED
  BY <1>1, WireInvariant, PTL

LEMMA InitRefines == Init => Ch!Init
BY DEF Init, Ch!Init, Broken

LEMMA StepRefines == WireInv /\ [Next]_vars => [Ch!Next]_(Ch!vars)
<1> SUFFICES ASSUME WireInv, [Next]_vars
             PROVE  Ch!Next \/ UNCHANGED Ch!vars
  BY Zenon
<1> DEFINE open == ~Broken /\ insync
<1>1. CASE ~open'
  BY <1>1 DEF Ch!Next, Ch!Break
<1>2. CASE open' /\ UNCHANGED <<queue, got>> /\ open
  BY <1>2 DEF Ch!vars
<1>3. ASSUME open', NEW s \in Senders, Send(s)
      PROVE  Ch!Next
  <2>1. PICK m \in Messages[side] : queue' = Append(queue, m)
    BY <1>3 DEF Send
  <2>2. m \in UNION {Messages[x] : x \in Sides}
    BY <2>1 DEF WireInv, WriterTypes
  <2>3. open /\ got' = got
    BY <1>3 DEF Send, readerVars, Broken
  <2>4. Ch!Send(m)
    BY <1>3, <2>1, <2>3 DEF Ch!Send
  <2> QED
    BY <2>2, <2>4 DEF Ch!Next
<1>4. ASSUME open', Handle
      PROVE  Ch!Next
  <2>1. ~Broken /\ insync /\ reader = "handle"
    BY <1>4 DEF Handle, Broken
  <2>2. queue # <<>> /\ Head(queue) \in Sent /\ buf = payload(Head(queue))
    BY <2>1, GatheredWhole
  <2>3. ~throws(buf) /\ deserialize(buf) = Head(queue)
    BY <2>2, RoundTrip
  <2>4. got' = Append(got, Head(queue)) /\ queue' = Tail(queue)
    BY <1>4, <2>2, <2>3 DEF Handle
  <2>5. Ch!Deliver
    BY <1>4, <2>1, <2>2, <2>4 DEF Ch!Deliver
  <2> QED
    BY <2>5 DEF Ch!Next
<1>5. ASSUME NEW s \in Senders, Write(s)
      PROVE  UNCHANGED <<queue, got>> /\ (open' => open)
  BY <1>5 DEF Write, readerVars, Broken
<1>6. CASE Close
  BY <1>1, <1>2, <1>6 DEF Close, readerVars, Broken
<1>7. ASSUME Event \/ ReadPayload
      PROVE  UNCHANGED <<queue, got>> /\ (open' => open)
  BY <1>7 DEF Event, ReadPayload, EndOfFile, Broken
<1>8. ASSUME ReadPrefix
      PROVE  UNCHANGED <<queue, got>> /\ (open' => open)
  BY <1>8 DEF ReadPrefix, EndOfFile, Drained, PartialPrefix, WholePrefix, Broken, WireInv
<1>9. CASE UNCHANGED vars
  BY <1>1, <1>2, <1>9 DEF vars, readerVars, Broken
<1> QED
  BY <1>1, <1>2, <1>3, <1>4, <1>5, <1>6, <1>7, <1>8, <1>9 DEF Next, Reader

(* Whatever the kernel does to the writes, the connection is a channel of  *)
(* whole messages, none lost, invented, repeated or out of order, until    *)
(* the reader gives it up or the daemon drops a part of a prefix.          *)
THEOREM WireImplementsChannel == Spec => ImplementsChannel
<1>1. Init => Ch!Init
  BY InitRefines
<1>2. WireInv /\ [Next]_vars => [Ch!Next]_(Ch!vars)
  BY StepRefines
<1> QED
  BY <1>1, <1>2, WireInvariant, PTL DEF Spec, ImplementsChannel, Ch!Spec

=============================================================================
