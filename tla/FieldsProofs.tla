---------------------------- MODULE FieldsProofs ----------------------------
(***************************************************************************)
(* The line parser takes every line apart as it is meant to be: the header *)
(* it finds (HeaderFound), the fields it hands out one after the other     *)
(* (FieldsInStep), their count (CountIsLeft), whether each is a number      *)
(* (NumberIsWhole) and which one (NumberMeant), whatever the alphabet, the *)
(* length of a line and the size of an int.                                *)
(***************************************************************************)
EXTENDS FieldsProperties, FunctionTheorems, FiniteSetTheorems,
        SequenceTheorems, WellFoundedInduction, TLAPS

-----------------------------------------------------------------------------
(* Numbers *)

\* A set of naturals has a least member: induction, for a property that is
\* stated in place.
LEMMA Least ==
  ASSUME NEW S \in SUBSET Nat, S # {}
  PROVE  \E n \in S : \A m \in S : n <= m
<1>1. PICK R : R = OpToRel(<, Nat)
  OBVIOUS
<1>2. R = {ss \in Nat \X Nat : ss[1] < ss[2]}
  BY <1>1 DEF OpToRel
<1>3. IsWellFoundedOn(R, Nat)
  BY <1>1, NatLessThanWellFounded
<1>4. \E x \in S : \A y \in S : <<y, x>> \notin R
  BY <1>3, WFMin
<1>5. \A x, y \in Nat : <<y, x>> \notin R => x <= y
  BY <1>2
<1>6. S \subseteq Nat
  OBVIOUS
<1> QED  BY <1>4, <1>5, <1>6

\* The least member of a set of naturals, as Min chooses it.
LEMMA MinIs ==
  ASSUME NEW S \in SUBSET Nat, S # {}
  PROVE  /\ Min(S) \in S
         /\ \A m \in S : Min(S) <= m
BY Least DEF Min

LEMMA MinEquals ==
  ASSUME NEW S \in SUBSET Nat, NEW n \in S, \A m \in S : n <= m
  PROVE  Min(S) = n
<1>1. Min(S) \in S /\ Min(S) <= n
  BY MinIs
<1>2. n <= Min(S)
  BY <1>1
<1>3. n \in Nat /\ Min(S) \in Nat
  BY <1>1
<1> QED  BY <1>1, <1>2, <1>3

LEMMA MaxEquals ==
  ASSUME NEW S \in SUBSET Nat, NEW n \in S, \A m \in S : m <= n
  PROVE  Max(S) = n
<1>1. \E x \in S : \A y \in S : x >= y
  OBVIOUS
<1>2. Max(S) \in S /\ Max(S) >= n
  BY <1>1 DEF Max
<1>3. Max(S) <= n
  BY <1>2
<1>4. n \in Nat /\ Max(S) \in Nat
  BY <1>2
<1> QED  BY <1>2, <1>3, <1>4

-----------------------------------------------------------------------------
(* Texts *)

\* A line is a sequence of characters.
LEMMA TextIs ==
  ASSUME NEW t \in Text
  PROVE  t \in Seq(Alphabet)
<1>1. PICK n \in 0..MaxLength : t \in [1..n -> Alphabet]
  BY DEF Text
<1>2. n \in Nat
  BY FieldsAssumption
<1> QED  BY <1>1, <1>2, SeqDef

\* What From leaves of a text.
LEMMA FromIs ==
  ASSUME NEW A, NEW t \in Seq(A), NEW i \in 1..Len(t) + 2
  PROVE  /\ From(t, i) \in Seq(A)
         /\ Len(From(t, i)) = IF i > Len(t) THEN 0 ELSE Len(t) + 1 - i
         /\ \A j \in 1..Len(From(t, i)) : From(t, i)[j] = t[i + j - 1]
<1>1. \A j \in i..Len(t) : t[j] \in A
  BY ElementOfSeq, LenProperties
<1>2. i \in Int /\ Len(t) \in Int
  BY LenProperties
<1> QED  BY <1>1, <1>2, SubSeqProperties DEF From

LEMMA FromHas ==
  ASSUME NEW A, NEW t \in Seq(A), NEW i \in 1..Len(t) + 1
  PROVE  /\ From(t, i) \in Seq(A)
         /\ Len(From(t, i)) = Len(t) + 1 - i
         /\ \A j \in 1..Len(t) + 1 - i : From(t, i)[j] = t[i + j - 1]
<1>1. Len(t) \in Nat
  BY LenProperties
<1>2. i \in 1..Len(t) + 2 /\ (i > Len(t) => 0 = Len(t) + 1 - i)
  BY <1>1
<1> QED  BY <1>2, FromIs

LEMMA FromFirst ==
  ASSUME NEW A, NEW t \in Seq(A)
  PROVE  From(t, 1) = t
BY SubSeqFull DEF From

LEMMA FromPastEnd ==
  ASSUME NEW A, NEW t \in Seq(A)
  PROVE  From(t, Len(t) + 1) = <<>> /\ From(t, Len(t) + 2) = <<>>
BY LenProperties, SubSeqEmpty DEF From

LEMMA FromOfFrom ==
  ASSUME NEW A, NEW t \in Seq(A), NEW i \in 1..Len(t) + 1,
         NEW j \in 1..Len(From(t, i)) + 1
  PROVE  From(From(t, i), j) = From(t, i + j - 1)
<1>1. /\ From(t, i) \in Seq(A) /\ Len(t) \in Nat
      /\ Len(From(t, i)) = Len(t) + 1 - i
      /\ \A m \in 1..Len(From(t, i)) : From(t, i)[m] = t[i + m - 1]
  BY FromIs, LenProperties
<1>2. /\ From(From(t, i), j) \in Seq(A)
      /\ Len(From(From(t, i), j)) = Len(From(t, i)) + 1 - j
      /\ \A m \in 1..Len(From(From(t, i), j)) :
           From(From(t, i), j)[m] = From(t, i)[j + m - 1]
  <2>1. j \in 1..Len(From(t, i)) + 2 /\ Len(From(t, i)) \in Nat
    BY <1>1
  <2>2. j > Len(From(t, i)) => 0 = Len(From(t, i)) + 1 - j
    BY <2>1
  <2> QED  BY <1>1, <2>1, <2>2, FromIs
<1>3. PICK k \in 1..Len(t) + 1 : k = i + j - 1
  BY <1>1
<1>4. /\ From(t, k) \in Seq(A)
      /\ Len(From(t, k)) = Len(t) + 1 - k
      /\ \A m \in 1..Len(From(t, k)) : From(t, k)[m] = t[k + m - 1]
  <2>1. Len(t) \in Nat
    BY <1>1
  <2>2. k \in 1..Len(t) + 2
    BY <2>1
  <2>3. k > Len(t) => 0 = Len(t) + 1 - k
    BY <2>1
  <2> QED  BY <2>2, <2>3, FromIs
<1>5. Len(From(From(t, i), j)) = Len(From(t, k))
  BY <1>1, <1>2, <1>3, <1>4
<1>6. ASSUME NEW m \in 1..Len(From(From(t, i), j))
      PROVE  From(From(t, i), j)[m] = From(t, k)[m]
  <2>1. From(From(t, i), j)[m] = From(t, i)[j + m - 1]
    BY <1>2
  <2>2. PICK n \in 1..Len(From(t, i)) : n = j + m - 1
    BY <1>1, <1>2
  <2>3. From(t, i)[n] = t[i + n - 1]
    BY <1>1
  <2>4. From(t, k)[m] = t[k + m - 1]
    BY <1>4, <1>5
  <2>5. i + n - 1 = k + m - 1
    BY <1>3, <2>2
  <2> QED  BY <2>1, <2>2, <2>3, <2>4, <2>5
<1> QED  BY <1>2, <1>3, <1>4, <1>5, <1>6, SeqEqual

-----------------------------------------------------------------------------
(* The scan for the header *)

\* The characters that matter to it.
Colon(t, i) == t[i] = ":"
Comma(t, i) == t[i] = ","
Blank(t, i) == t[i] = " "
Digit(t, i) == t[i] \in Decimal

\* The first i characters are channel numbers.
Channels(t, i) ==
  \A j \in 1..i : \/ Digit(t, j) \/ Comma(t, j)
                  \/ j > 1 /\ Blank(t, j) /\ Comma(t, j - 1)

\* Where the header starts, when k characters of channels precede it and i have
\* been seen.
StartAfter(t, k, i) ==
  IF k > 0 /\ k < i /\ Blank(t, k + 1) THEN k + 2 ELSE k + 1

\* What the scan knows after i characters none of which has ended the header.
Searched(t, s, i) ==
  /\ \A j \in 1..i : ~Colon(t, j)
  /\ s.digitsOnly <=> Channels(t, i)
  /\ \E k \in 0..i : /\ k = 0 \/ Comma(t, k)
                     /\ Channels(t, k)
                     /\ \A j \in k + 1..i : ~Comma(t, j)
                     /\ s.start = StartAfter(t, k, i)

\* What it knows after i characters.
Sought(t, s, i) ==
  /\ s \in [start : Nat, digitsOnly : BOOLEAN, end : Nat]
  /\ IF s.end = 0 THEN Searched(t, s, i)
     ELSE /\ s.end \in 1..i
          /\ Searched(t, s, s.end - 1)
          /\ Colon(t, s.end) \/ (Comma(t, s.end) /\ ~Channels(t, s.end - 1))

ScanStart == [start |-> 1, digitsOnly |-> TRUE, end |-> 0]

LEMMA OneKind ==
  ASSUME NEW t, NEW i
  PROVE  /\ ~(Colon(t, i) /\ Comma(t, i))
         /\ ~(Colon(t, i) /\ Blank(t, i))
         /\ ~(Colon(t, i) /\ Digit(t, i))
         /\ ~(Comma(t, i) /\ Blank(t, i))
         /\ ~(Comma(t, i) /\ Digit(t, i))
         /\ ~(Blank(t, i) /\ Digit(t, i))
BY DEF Colon, Comma, Blank, Digit, Decimal

LEMMA ScannedIs ==
  ASSUME NEW t, NEW i \in Nat, NEW s
  PROVE  Scanned(t, s, i) =
    IF s.end # 0 THEN s
    ELSE IF Colon(t, i) \/ (Comma(t, i) /\ ~s.digitsOnly)
         THEN [s EXCEPT !.end = i]
    ELSE IF \/ Comma(t, i)
            \/ Blank(t, i) /\ s.start = i /\ i > 1 /\ Comma(t, i - 1)
         THEN [s EXCEPT !.start = i + 1]
    ELSE [s EXCEPT !.digitsOnly = @ /\ Digit(t, i)]
BY DEF Scanned, Restarts, Colon, Comma, Blank, Digit

\* The function that Scan defines by recursion exists: it is extended by one
\* character at a time.
LEMMA ScanExists ==
  ASSUME NEW t, NEW n \in Nat
  PROVE  \E f : f = [i \in 0..n |->
                       IF i = 0 THEN ScanStart ELSE Scanned(t, f[i - 1], i)]
<1> DEFINE Step(f, i) == IF i = 0 THEN ScanStart ELSE Scanned(t, f[i - 1], i)
           Has(m) == \E f : f = [i \in 0..m |-> Step(f, i)]
           Lacking == {m \in Nat : ~Has(m)}
<1>1. SUFFICES ASSUME Lacking # {}
               PROVE  FALSE
  OBVIOUS
<1>2. PICK m \in Lacking : \A x \in Lacking : m <= x
  <2>1. Lacking \in SUBSET Nat
    OBVIOUS
  <2> HIDE DEF Lacking
  <2> QED  BY <1>1, <2>1, Least
<1>3. CASE m = 0
  <2>1. PICK f : f = [i \in 0..0 |-> ScanStart]
    OBVIOUS
  <2>2. f = [i \in 0..0 |-> Step(f, i)]
    BY <2>1
  <2> QED  BY <1>3, <2>2
<1>4. CASE m # 0
  <2>1. m \in Nat /\ m - 1 \in Nat /\ Has(m - 1)
    <3>1. m \in Nat
      BY <1>2
    <3>2. m - 1 \in Nat /\ ~(m <= m - 1)
      BY <1>4, <3>1
    <3>3. m - 1 \notin Lacking
      <4> HIDE DEF Lacking
      <4> QED  BY <1>2, <3>2
    <3> QED  BY <3>1, <3>2, <3>3
  <2>2. PICK f : f = [i \in 0..m - 1 |-> Step(f, i)]
    BY <2>1
  <2>3. PICK g : g = [i \in 0..m |-> IF i = m THEN Scanned(t, f[m - 1], m)
                                     ELSE f[i]]
    OBVIOUS
  <2>4. ASSUME NEW i \in 0..m
        PROVE  g[i] = Step(g, i)
    <3>1. CASE i = 0
      BY <1>4, <2>1, <2>2, <2>3, <3>1
    <3>2. CASE i = m
      <4>1. g[m - 1] = f[m - 1]
        BY <2>1, <2>3
      <4> QED  BY <1>4, <2>3, <3>2, <4>1
    <3>3. CASE i \in 1..m - 1
      <4>1. g[i] = f[i] /\ g[i - 1] = f[i - 1]
        BY <2>1, <2>3, <3>3
      <4>2. f[i] = Step(f, i)
        BY <2>2, <3>3
      <4> QED  BY <3>3, <4>1, <4>2
    <3> QED  BY <2>1, <3>1, <3>2, <3>3
  <2>5. g = [i \in 0..m |-> g[i]]
    BY <2>3
  <2>6. g = [i \in 0..m |-> Step(g, i)]
    BY <2>4, <2>5
  <2> QED  BY <1>2, <2>6
<1> QED  BY <1>3, <1>4

LEMMA ScanIs ==
  ASSUME NEW t \in Seq(Alphabet)
  PROVE  \E f : /\ Scan(t) = f[Len(t)]
                /\ f[0] = ScanStart
                /\ \A i \in 1..Len(t) : f[i] = Scanned(t, f[i - 1], i)
<1>1. Len(t) \in Nat
  BY LenProperties
<1> DEFINE Is(f) == f = [i \in 0..Len(t) |->
                       IF i = 0 THEN ScanStart ELSE Scanned(t, f[i - 1], i)]
<1>2. PICK f : f = CHOOSE g : Is(g)
  OBVIOUS
<1>3. \E g : Is(g)
  BY <1>1, ScanExists
<1>4. Is(f)
  BY <1>2, <1>3
<1>5. Scan(t) = f[Len(t)]
  BY <1>2 DEF Scan, ScanStart
<1>6. f[0] = ScanStart
  BY <1>1, <1>4
<1>7. ASSUME NEW i \in 1..Len(t)
      PROVE  f[i] = Scanned(t, f[i - 1], i)
  BY <1>1, <1>4
<1> QED  BY <1>5, <1>6, <1>7

\* Before the first character.
LEMMA SoughtStart ==
  ASSUME NEW t
  PROVE  Sought(t, ScanStart, 0)
<1>1. Searched(t, ScanStart, 0)
  <2>1. Channels(t, 0)
    <3>1. 1..0 = {}
      OBVIOUS
    <3> QED  BY <3>1 DEF Channels
  <2>2. 1 = StartAfter(t, 0, 0)
    BY DEF StartAfter
  <2>3. /\ 0 \in 0..0
        /\ \A j \in 0 + 1..0 : ~Comma(t, j)
        /\ \A j \in 1..0 : ~Colon(t, j)
    OBVIOUS
  <2> QED  BY <2>1, <2>2, <2>3 DEF Searched, ScanStart
<1> QED  BY <1>1 DEF Sought, ScanStart

\* Channels, one character on.
LEMMA ChannelsStep ==
  ASSUME NEW t, NEW i \in Nat, i > 0
  PROVE  Channels(t, i) <=>
           /\ Channels(t, i - 1)
           /\ \/ Digit(t, i) \/ Comma(t, i)
              \/ i > 1 /\ Blank(t, i) /\ Comma(t, i - 1)
<1>1. \A j \in 1..i : j = i \/ j \in 1..i - 1
  OBVIOUS
<1>2. i \in 1..i /\ \A j \in 1..i - 1 : j \in 1..i
  OBVIOUS
<1> QED  BY <1>1, <1>2 DEF Channels

\* A character that does not end the header.
LEMMA SoughtStep ==
  ASSUME NEW t, NEW i \in Nat, i > 0, NEW s
  PROVE  Sought(t, s, i - 1) => Sought(t, Scanned(t, s, i), i)
<1>0. SUFFICES ASSUME Sought(t, s, i - 1)
               PROVE  Sought(t, Scanned(t, s, i), i)
  OBVIOUS
<1>1. PICK r : r = Scanned(t, s, i)
  OBVIOUS
<1>2. s \in [start : Nat, digitsOnly : BOOLEAN, end : Nat]
  BY <1>0 DEF Sought
<1>3. CASE s.end # 0
  <2>1. r = s
    BY <1>1, <1>3, ScannedIs
  <2>2. s.end \in 1..i - 1 => s.end \in 1..i
    OBVIOUS
  <2> QED  BY <1>0, <1>1, <1>2, <1>3, <2>1, <2>2 DEF Sought
<1>4. CASE s.end = 0
  <2>1. Searched(t, s, i - 1)
    BY <1>0, <1>4 DEF Sought
  <2>2. PICK k \in 0..i - 1 : /\ k = 0 \/ Comma(t, k)
                              /\ Channels(t, k)
                              /\ \A j \in k + 1..i - 1 : ~Comma(t, j)
                              /\ s.start = StartAfter(t, k, i - 1)
    BY <2>1 DEF Searched
  <2>3. /\ \A j \in 1..i - 1 : ~Colon(t, j)
        /\ s.digitsOnly <=> Channels(t, i - 1)
    BY <2>1 DEF Searched
  <2>4. CASE Colon(t, i)
    <3>1. r = [s EXCEPT !.end = i]
      BY <1>1, <1>4, <2>4, ScannedIs
    <3>2. Searched(t, r, i - 1)
      BY <1>2, <2>1, <3>1 DEF Searched
    <3> QED  BY <1>1, <1>2, <2>4, <3>1, <3>2 DEF Sought
  <2>5. CASE Comma(t, i) /\ ~s.digitsOnly
    <3>1. r = [s EXCEPT !.end = i]
      BY <1>1, <1>4, <2>5, ScannedIs
    <3>2. Searched(t, r, i - 1)
      BY <1>2, <2>1, <3>1 DEF Searched
    <3> QED  BY <1>1, <1>2, <2>3, <2>5, <3>1, <3>2 DEF Sought
  <2>6. CASE Comma(t, i) /\ s.digitsOnly
    <3>1. r = [s EXCEPT !.start = i + 1]
      <4>1. ~(Colon(t, i) \/ (Comma(t, i) /\ ~s.digitsOnly))
        BY <2>6, OneKind
      <4> QED  BY <1>1, <1>4, <2>6, <4>1, ScannedIs
    <3>2. Channels(t, i)
      BY <2>3, <2>6, ChannelsStep
    <3>3. r.start = StartAfter(t, i, i)
      BY <1>2, <3>1 DEF StartAfter
    <3>4. r.digitsOnly = s.digitsOnly /\ r.end = 0
      BY <1>2, <1>4, <3>1
    <3>5. \A j \in 1..i : ~Colon(t, j)
      BY <2>3, <2>6, OneKind
    <3>6. /\ i \in 0..i
          /\ \A j \in i + 1..i : ~Comma(t, j)
      OBVIOUS
    <3>7. Searched(t, r, i)
      BY <2>6, <3>2, <3>3, <3>4, <3>5, <3>6 DEF Searched
    <3> QED  BY <1>1, <1>2, <3>1, <3>4, <3>7 DEF Sought
  <2>7. CASE ~Colon(t, i) /\ ~Comma(t, i)
    <3> DEFINE Skips == Blank(t, i) /\ s.start = i /\ i > 1 /\ Comma(t, i - 1)
    <3>1. r = IF Skips THEN [s EXCEPT !.start = i + 1]
              ELSE [s EXCEPT !.digitsOnly = @ /\ Digit(t, i)]
      BY <1>1, <1>4, <2>7, ScannedIs
    <3>2. Skips <=> Blank(t, i) /\ i > 1 /\ Comma(t, i - 1)
      <4>1. ASSUME i > 1, Comma(t, i - 1)
            PROVE  k = i - 1
        BY <2>2, <4>1
      <4>2. StartAfter(t, i - 1, i - 1) = i
        BY DEF StartAfter
      <4> QED  BY <2>2, <4>1, <4>2
    <3>3. r.start = StartAfter(t, k, i)
      <4>1. CASE k = i - 1
        <5>1. s.start = i
          BY <2>2, <4>1 DEF StartAfter
        <5>2. Skips => r.start = i + 1
          BY <1>2, <3>1
        <5>3. ~Skips => r.start = i
          BY <1>2, <3>1, <5>1
        <5>4. Skips <=> k > 0 /\ Blank(t, k + 1)
          BY <2>2, <3>2, <4>1
        <5> QED  BY <4>1, <5>2, <5>3, <5>4 DEF StartAfter
      <4>2. CASE k < i - 1
        <5>1. ~Skips
          BY <2>2, <3>2, <4>2
        <5>2. r.start = s.start
          BY <1>2, <3>1, <5>1
        <5> QED  BY <2>2, <4>2, <5>2 DEF StartAfter
      <4> QED  BY <4>1, <4>2
    <3>4. r.digitsOnly <=> Channels(t, i)
      <4>1. r.digitsOnly <=> s.digitsOnly /\ (Skips \/ Digit(t, i))
        BY <1>2, <3>1
      <4> QED  BY <2>3, <2>7, <3>2, <4>1, ChannelsStep, OneKind
    <3>5. r \in [start : Nat, digitsOnly : BOOLEAN, end : Nat] /\ r.end = 0
      <4>1. CASE Skips
        <5>1. r = [s EXCEPT !.start = i + 1]
          BY <3>1, <4>1
        <5> QED  BY <1>2, <1>4, <5>1
      <4>2. CASE ~Skips
        <5>1. r = [s EXCEPT !.digitsOnly = @ /\ Digit(t, i)]
          BY <3>1, <4>2
        <5>2. (s.digitsOnly /\ Digit(t, i)) \in BOOLEAN
          OBVIOUS
        <5> QED  BY <1>2, <1>4, <5>1, <5>2, Zenon
      <4> QED  BY <4>1, <4>2
    <3>6. k \in 0..i /\ \A j \in k + 1..i : ~Comma(t, j)
      BY <2>2, <2>7
    <3>7. \A j \in 1..i : ~Colon(t, j)
      BY <2>3, <2>7
    <3> HIDE DEF Skips
    <3>8. Searched(t, r, i)
      BY <2>2, <3>3, <3>4, <3>6, <3>7 DEF Searched
    <3> QED  BY <1>1, <3>5, <3>8 DEF Sought
  <2> QED  BY <2>4, <2>5, <2>6, <2>7
<1> QED  BY <1>3, <1>4

\* What it knows of the whole line.
LEMMA ScanSought ==
  ASSUME NEW t \in Seq(Alphabet)
  PROVE  Sought(t, Scan(t), Len(t))
<1>1. PICK f : /\ Scan(t) = f[Len(t)]
               /\ f[0] = ScanStart
               /\ \A i \in 1..Len(t) : f[i] = Scanned(t, f[i - 1], i)
  BY ScanIs
<1>2. Len(t) \in Nat
  BY LenProperties
<1> DEFINE Wrong == {i \in Nat : i <= Len(t) /\ ~Sought(t, f[i], i)}
<1>3. SUFFICES ASSUME Wrong # {}
               PROVE  FALSE
  BY <1>1, <1>2
<1>4. PICK i \in Wrong : \A x \in Wrong : i <= x
  <2>1. Wrong \in SUBSET Nat
    OBVIOUS
  <2> HIDE DEF Wrong
  <2> QED  BY <1>3, <2>1, Least
<1>5. i \in Nat /\ i <= Len(t) /\ ~Sought(t, f[i], i)
  BY <1>4
<1>6. i # 0
  BY <1>1, <1>5, SoughtStart
<1>7. Sought(t, f[i - 1], i - 1)
  <2>1. i - 1 \in Nat /\ i - 1 <= Len(t) /\ ~(i <= i - 1)
    BY <1>2, <1>5, <1>6
  <2>2. i - 1 \notin Wrong
    <3> HIDE DEF Wrong
    <3> QED  BY <1>4, <2>1
  <2> QED  BY <2>1, <2>2
<1>8. f[i] = Scanned(t, f[i - 1], i)
  BY <1>1, <1>2, <1>5, <1>6
<1>9. Sought(t, Scanned(t, f[i - 1], i), i)
  BY <1>5, <1>6, <1>7, SoughtStep
<1> QED  BY <1>5, <1>8, <1>9

-----------------------------------------------------------------------------
(* The header found *)

\* The members of PrefixEnds and of HeaderEnds, in the scan's words.
LEMMA PrefixEndIs ==
  \A k : k \in PrefixEnds <=>
           k = 0 \/ (k \in 1..Len(line) /\ Comma(line, k) /\ Channels(line, k))
<1>1. ASSUME NEW i
      PROVE  line[i] \in Decimal \cup {","} <=> Digit(line, i) \/ Comma(line, i)
  BY DEF Digit, Comma
<1> QED  BY <1>1 DEF PrefixEnds, Positions, Channels, Comma, Blank

LEMMA HeaderEndIs ==
  ASSUME line \in Seq(Alphabet), NEW b \in 1..Len(line) + 1,
         Body = From(line, b)
  PROVE  \A p : p \in HeaderEnds <=>
                  /\ p \in 1..Len(line) + 1 - b
                  /\ Colon(line, b + p - 1) \/ Comma(line, b + p - 1)
<1>1. /\ Len(Body) = Len(line) + 1 - b
      /\ \A p \in 1..Len(Body) : Body[p] = line[b + p - 1]
  <2>1. PICK x : x = From(line, b)
    OBVIOUS
  <2>2. /\ Len(x) = Len(line) + 1 - b
        /\ \A p \in 1..Len(line) + 1 - b : x[p] = line[b + p - 1]
    BY <2>1, FromHas
  <2> QED  BY <2>1, <2>2
<1>2. \A p : p \in HeaderEnds <=>
               p \in 1..Len(Body) /\ (Body[p] = ":" \/ Body[p] = ",")
  BY DEF HeaderEnds, Positions
<1> QED  BY <1>1, <1>2 DEF Colon, Comma

\* The fields begin where a colon and a space have been skipped.
LEMMA ColonSkipped ==
  ASSUME Body \in Seq(Alphabet), NEW h \in 0..Len(Body)
  PROVE  WithoutColon(From(Body, h + 1)) = From(Body, FieldsBegin(h) + 1)
<1>1. PICK x : x = From(Body, h + 1)
  OBVIOUS
<1>2. PICK n : n = Len(Body)
  OBVIOUS
<1>3. n \in Nat /\ h \in 0..n
  BY <1>2, LenProperties
<1>4. /\ x \in Seq(Alphabet) /\ Len(x) = n - h
      /\ \A j \in 1..n - h : x[j] = Body[h + j]
  <2>1. h + 1 \in 1..Len(Body) + 1
    BY <1>2, <1>3
  <2>2. /\ x \in Seq(Alphabet) /\ Len(x) = n + 1 - (h + 1)
        /\ \A j \in 1..n + 1 - (h + 1) : x[j] = Body[h + 1 + j - 1]
    BY <1>1, <1>2, <2>1, FromHas
  <2>3. n + 1 - (h + 1) = n - h /\ \A j \in Int : h + 1 + j - 1 = h + j
    BY <1>3
  <2> QED  BY <2>2, <2>3
<1>5. ASSUME NEW j \in 1..n - h + 1
      PROVE  From(x, j) = From(Body, h + j)
  <2>1. h + 1 \in 1..Len(Body) + 1 /\ j \in 1..Len(From(Body, h + 1)) + 1
    BY <1>1, <1>2, <1>3, <1>4
  <2>2. From(From(Body, h + 1), j) = From(Body, h + 1 + j - 1)
    BY <2>1, FromOfFrom
  <2>3. h + 1 + j - 1 = h + j
    BY <1>3
  <2> QED  BY <1>1, <2>2, <2>3
<1>6. x # <<>> /\ x[1] = ":" <=> h < n /\ Body[h + 1] = ":"
  <2>1. x # <<>> <=> h < n
    BY <1>3, <1>4, EmptySeq
  <2>2. h < n => x[1] = Body[h + 1]
    BY <1>3, <1>4
  <2> QED  BY <2>1, <2>2
<1>7. Len(x) > 1 /\ x[2] = " " <=> h + 1 < n /\ Body[h + 2] = " "
  <2>1. Len(x) > 1 <=> h + 1 < n
    BY <1>3, <1>4
  <2>2. ASSUME h + 1 < n
        PROVE  x[2] = Body[h + 2]
    <3>1. 2 \in 1..n - h
      BY <1>3, <2>2
    <3> QED  BY <1>4, <3>1
  <2> QED  BY <2>1, <2>2
<1>8. CASE ~(h < n /\ Body[h + 1] = ":")
  <2>1. WithoutColon(x) = x
    BY <1>6, <1>8 DEF WithoutColon
  <2>2. ~(h < Len(Body) /\ Body[h + 1] = ":")
    BY <1>2, <1>8
  <2>3. FieldsBegin(h) = h + 0 + 0
    BY <2>2 DEF FieldsBegin
  <2>4. h + 0 + 0 = h
    BY <1>3
  <2> QED  BY <1>1, <2>1, <2>3, <2>4
<1>9. CASE h < n /\ Body[h + 1] = ":"
  <2>1. /\ h < Len(Body) /\ Body[h + 1] = ":"
        /\ Len(x) > 1 /\ x[2] = " "
             <=> h + 1 < Len(Body) /\ Body[h + 2] = " "
    BY <1>2, <1>7, <1>9
  <2>2. CASE Len(x) > 1 /\ x[2] = " "
    <3>1. WithoutColon(x) = From(x, 3)
      BY <1>6, <1>9, <2>2 DEF WithoutColon
    <3>2. h + 1 < n
      BY <1>7, <2>2
    <3>3. 3 \in 1..n - h + 1
      BY <1>3, <3>2
    <3>4. FieldsBegin(h) = h + 1 + 1
      BY <2>1, <2>2 DEF FieldsBegin
    <3>5. h + 1 + 1 + 1 = h + 3
      BY <1>3
    <3> QED  BY <1>1, <1>5, <3>1, <3>3, <3>4, <3>5
  <2>3. CASE ~(Len(x) > 1 /\ x[2] = " ")
    <3>1. WithoutColon(x) = From(x, 2)
      BY <1>6, <1>9, <2>3 DEF WithoutColon
    <3>2. 2 \in 1..n - h + 1
      BY <1>3, <1>9
    <3>3. FieldsBegin(h) = h + 1 + 0
      BY <2>1, <2>3 DEF FieldsBegin
    <3>4. h + 1 + 0 + 1 = h + 2
      BY <1>3
    <3> QED  BY <1>1, <1>5, <3>1, <3>2, <3>3, <3>4
  <2> QED  BY <2>2, <2>3
<1> QED  BY <1>8, <1>9

\* The end of the header is the first there is, and what comes before and after
\* it is the header and the fields.
LEMMA EndRight ==
  ASSUME line \in Seq(Alphabet),
         NEW b \in 1..Len(line), NEW d \in b..Len(line), Body = From(line, b),
         \A j \in b..d - 1 : ~Colon(line, j) /\ ~Comma(line, j),
         Colon(line, d) \/ Comma(line, d),
         header = SubSeq(line, b, IF Comma(line, d) THEN d ELSE d - 1),
         start = WithoutColon(From(line, IF Comma(line, d) THEN d + 1 ELSE d))
  PROVE  HeaderFound
<1>1. PICK n : n = Len(line)
  OBVIOUS
<1>2. n \in Nat /\ b \in Nat /\ d \in Nat /\ 1 <= b /\ b <= d /\ d <= n
  BY <1>1, LenProperties
<1>3. PICK e : e = d + 1 - b
  OBVIOUS
<1>4. e \in 1..n + 1 - b /\ e \in Nat /\ b + e - 1 = d
  BY <1>2, <1>3
<1>5. \A p : p \in HeaderEnds <=>
               /\ p \in 1..n + 1 - b
               /\ Colon(line, b + p - 1) \/ Comma(line, b + p - 1)
  <2>1. b \in 1..Len(line) + 1
    BY <1>1, <1>2
  <2> QED  BY <1>1, <2>1, HeaderEndIs
<1>6. e \in HeaderEnds
  BY <1>4, <1>5
<1>7. Min(HeaderEnds) = e
  <2>1. \A p \in HeaderEnds : p \in Nat
    BY <1>5
  <2>2. ASSUME NEW p \in HeaderEnds, p < e
        PROVE  FALSE
    <3>1. /\ p \in 1..n + 1 - b
          /\ Colon(line, b + p - 1) \/ Comma(line, b + p - 1)
      BY <1>5
    <3>2. b + p - 1 \in b..d - 1
      BY <1>2, <1>4, <2>2, <3>1
    <3> QED  BY <3>1, <3>2
  <2>3. \A p \in HeaderEnds : e <= p
    BY <1>4, <2>1, <2>2
  <2>4. HeaderEnds \in SUBSET Nat
    BY <2>1
  <2> QED  BY <1>6, <2>3, <2>4, MinEquals
<1>8. /\ Body \in Seq(Alphabet)
      /\ Len(Body) = n + 1 - b
      /\ \A p \in 1..n + 1 - b : Body[p] = line[b + p - 1]
  <2>1. PICK x : x = From(line, b)
    OBVIOUS
  <2>2. b \in 1..Len(line) + 1
    BY <1>1, <1>2
  <2>3. /\ x \in Seq(Alphabet)
        /\ Len(x) = n + 1 - b
        /\ \A p \in 1..n + 1 - b : x[p] = line[b + p - 1]
    BY <1>1, <2>1, <2>2, FromHas
  <2> QED  BY <2>1, <2>3
<1>9. Body[e] = line[d]
  BY <1>4, <1>8
<1>10. PICK h : h = IF Comma(line, d) THEN e ELSE e - 1
  OBVIOUS
<1>11. h \in 0..n + 1 - b /\ b + h - 1 = IF Comma(line, d) THEN d ELSE d - 1
  BY <1>2, <1>4, <1>10
<1>12. header = SubSeq(Body, 1, h)
  <2>1. header = SubSeq(line, b, b + h - 1)
    BY <1>11
  <2>2. CASE h = 0
    <3>1. SubSeq(line, b, b + h - 1) = <<>>
      BY <1>2, <2>2, SubSeqEmpty
    <3>2. SubSeq(Body, 1, h) = <<>>
      BY <2>2, SubSeqEmpty
    <3> QED  BY <2>1, <3>1, <3>2
  <2>3. CASE h # 0
    <3>1. /\ b \in 1..Len(line) /\ n \in 1..Len(line)
          /\ 1 \in 1..n - b + 1 /\ h \in 1..n - b + 1
      BY <1>1, <1>2, <1>11, <2>3
    <3>2. SubSeq(SubSeq(line, b, n), 1, h)
            = SubSeq(line, b + 1 - 1, b + h - 1)
      BY <3>1, SubSeqOfSubSeq
    <3>3. b + 1 - 1 = b
      BY <1>2
    <3> QED  BY <1>1, <2>1, <3>2, <3>3 DEF From
  <2> QED  BY <2>2, <2>3
<1>13. start = WithoutColon(From(Body, h + 1))
  <2>1. start = WithoutColon(From(line, b + h))
    <3>1. b + h = IF Comma(line, d) THEN d + 1 ELSE d
      BY <1>2, <1>11
    <3> QED  BY <3>1
  <2>2. PICK x : x = From(line, b)
    OBVIOUS
  <2>3. b \in 1..Len(line) + 1 /\ h + 1 \in 1..Len(x) + 1
    BY <1>1, <1>2, <1>8, <1>11, <2>2
  <2>4. From(x, h + 1) = From(line, b + (h + 1) - 1)
    BY <2>2, <2>3, FromOfFrom
  <2>5. b + (h + 1) - 1 = b + h
    BY <1>2, <1>11
  <2> QED  BY <2>1, <2>2, <2>4, <2>5
<1>14. start = From(Body, FieldsBegin(h) + 1)
  <2>1. h \in 0..Len(Body)
    BY <1>8, <1>11
  <2> QED  BY <1>8, <1>13, <2>1, ColonSkipped
<1>15. h = IF Body[e] = "," THEN e ELSE e - 1
  BY <1>9, <1>10 DEF Comma
<1> QED  BY <1>6, <1>7, <1>12, <1>14, <1>15 DEF HeaderFound

\* What the scan has found is the header and the fields that are meant.
LEMMA HeaderRight ==
  ASSUME line \in Seq(Alphabet), header = Header(line), start = AfterHeader(line)
  PROVE  HeaderFound
<1>1. PICK s : s = Scan(line)
  OBVIOUS
<1>2. PICK n : n = Len(line)
  OBVIOUS
<1>3. n \in Nat
  BY <1>2, LenProperties
<1>4. Sought(line, s, n)
  BY <1>1, <1>2, ScanSought
<1>5. PICK m : m = IF s.end = 0 THEN n ELSE s.end - 1
  OBVIOUS
<1>6. /\ s.start \in Nat /\ s.end \in Nat /\ s.end <= n
      /\ m \in 0..n
      /\ Searched(line, s, m)
      /\ s.end # 0 => \/ Colon(line, s.end)
                      \/ Comma(line, s.end) /\ ~Channels(line, s.end - 1)
  BY <1>3, <1>4, <1>5 DEF Sought
<1>7. PICK k \in 0..m : /\ k = 0 \/ Comma(line, k)
                        /\ Channels(line, k)
                        /\ \A j \in k + 1..m : ~Comma(line, j)
                        /\ s.start = StartAfter(line, k, m)
  BY <1>6 DEF Searched
<1>8. \A j \in 1..m : ~Colon(line, j)
  BY <1>6 DEF Searched
<1>9. Max(PrefixEnds) = k
  <2>1. k \in PrefixEnds
    BY <1>2, <1>3, <1>6, <1>7, PrefixEndIs
  <2>2. ASSUME NEW x \in PrefixEnds, x > k
        PROVE  FALSE
    <3>1. x \in 1..n /\ Comma(line, x) /\ Channels(line, x)
      BY <1>2, <1>7, <2>2, PrefixEndIs
    <3>2. x > m
      BY <1>6, <1>7, <2>2, <3>1
    <3>3. s.end # 0 /\ x >= s.end /\ m = s.end - 1
      BY <1>3, <1>5, <1>6, <3>1, <3>2
    <3>4. CASE Colon(line, s.end)
      <4>1. s.end \in 1..x
        BY <1>6, <3>1, <3>3
      <4> QED  BY <3>1, <3>4, <4>1, OneKind DEF Channels
    <3>5. CASE ~Channels(line, s.end - 1)
      <4>1. \A j \in 1..s.end - 1 : j \in 1..x
        BY <1>6, <3>1, <3>3
      <4> QED  BY <3>1, <3>5, <4>1 DEF Channels
    <3> QED  BY <1>6, <3>3, <3>4, <3>5
  <2>3. PrefixEnds \in SUBSET Nat
    <3>1. \A x \in PrefixEnds : x \in Nat
      BY <1>2, <1>3, PrefixEndIs
    <3> QED  BY <3>1
  <2>4. \A x \in PrefixEnds : x <= k
    BY <2>2, <2>3, <1>7
  <2> QED  BY <2>1, <2>3, <2>4, MaxEquals
<1>10. s.start = StartAfter(line, k, n)
  <2>1. CASE s.end = 0
    BY <1>5, <1>7, <2>1
  <2>2. CASE s.end # 0
    <3>1. k < n /\ ~(k < m) => k + 1 = s.end
      BY <1>3, <1>5, <1>6, <1>7, <2>2
    <3>2. ~Blank(line, s.end)
      BY <1>6, <2>2, OneKind
    <3>3. k < m => k < n
      BY <1>3, <1>6, <1>7
    <3> QED  BY <1>7, <3>1, <3>2, <3>3 DEF StartAfter
  <2> QED  BY <2>1, <2>2
<1>11. s.start \in 1..m + 1 /\ s.start > k
  BY <1>3, <1>6, <1>7 DEF StartAfter
<1>12. Body = From(line, s.start)
  BY <1>2, <1>9, <1>10 DEF Body, StartAfter, Blank
<1>13. \A j \in s.start..m : ~Colon(line, j) /\ ~Comma(line, j)
  BY <1>6, <1>7, <1>8, <1>11
<1>14. CASE s.end = 0
  <2>1. HeaderEnds = {}
    <3>1. ASSUME NEW p \in HeaderEnds
          PROVE  FALSE
      <4>1. s.start \in 1..n + 1 /\ m = n
        BY <1>3, <1>5, <1>6, <1>11, <1>14
      <4>2. /\ p \in 1..n + 1 - s.start
            /\ \/ Colon(line, s.start + p - 1)
               \/ Comma(line, s.start + p - 1)
        BY <1>2, <1>12, <4>1, HeaderEndIs
      <4>3. s.start + p - 1 \in s.start..m
        BY <1>3, <4>1, <4>2
      <4> QED  BY <1>13, <4>2, <4>3
    <3> QED  BY <3>1
  <2>2. header = Body /\ start = <<>>
    BY <1>1, <1>12, <1>14 DEF Header, AfterHeader
  <2> QED  BY <2>1, <2>2 DEF HeaderFound
<1>15. CASE s.end # 0
  <2>1. PICK b, d : b = s.start /\ d = s.end
    OBVIOUS
  <2>2. b \in 1..n /\ d \in b..n /\ m = d - 1
    BY <1>3, <1>5, <1>6, <1>11, <1>15, <2>1
  <2>3. header = SubSeq(line, b, IF Comma(line, d) THEN d ELSE d - 1)
    BY <1>1, <1>15, <2>1 DEF Header, Comma
  <2>4. start = WithoutColon(From(line, IF Comma(line, d) THEN d + 1 ELSE d))
    BY <1>1, <1>15, <2>1 DEF AfterHeader, Comma
  <2>5. Colon(line, d) \/ Comma(line, d)
    BY <1>6, <1>15, <2>1
  <2>6. \A j \in b..d - 1 : ~Colon(line, j) /\ ~Comma(line, j)
    BY <1>13, <2>1, <2>2
  <2>7. Body = From(line, b)
    BY <1>12, <2>1
  <2> QED  BY <1>2, <2>2, <2>3, <2>4, <2>5, <2>6, <2>7, EndRight
<1> QED  BY <1>14, <1>15

-----------------------------------------------------------------------------
(* The fields handed out *)

Commas(t) == Positions(t, ",")

\* The commas that come before position i.
Before(t, i) == {c \in Commas(t) : c < i}

\* What is left starts after as many commas as fields have been read, or all of
\* them have been.
Given ==
  \/ \E p \in Commas(start) \cup {0} :
       /\ lineFields = From(start, p + 1)
       /\ Cardinality(Before(start, p + 1)) = read
  \/ Cardinality(Commas(start)) < read /\ lineFields = <<>>

FieldsInv ==
  /\ line \in Text
  /\ start \in Seq(Alphabet)
  /\ read \in Nat
  /\ header = NoHeader => read = 0
  /\ header # NoHeader => header = Header(line) /\ start = AfterHeader(line)
  /\ Given

LEMMA CommaAt ==
  ASSUME NEW t
  PROVE  \A c : c \in Commas(t) <=> c \in 1..Len(t) /\ Comma(t, c)
BY DEF Commas, Positions, Comma

\* The commas before a position are finitely many, and so are all.
LEMMA CommasFinite ==
  ASSUME NEW t \in Seq(Alphabet)
  PROVE  /\ Commas(t) \in SUBSET (1..Len(t))
         /\ IsFiniteSet(Commas(t))
         /\ Cardinality(Commas(t)) \in Nat
         /\ \A i : /\ IsFiniteSet(Before(t, i))
                   /\ Cardinality(Before(t, i)) \in Nat
                   /\ Cardinality(Before(t, i)) <= Cardinality(Commas(t))
<1>1. Commas(t) \subseteq 1..Len(t)
  BY CommaAt
<1>2. 1..Len(t) \subseteq Nat /\ Len(t) \in Nat
  BY LenProperties
<1>3. IsFiniteSet(Commas(t))
  <2>1. \A c \in Commas(t) : c <= Len(t)
    BY <1>1, <1>2
  <2>2. Commas(t) \in SUBSET Nat
    BY <1>1, <1>2
  <2> QED  BY <1>2, <2>1, <2>2, FS_BoundedSetOfNaturals
<1>4. ASSUME NEW i
      PROVE  /\ IsFiniteSet(Before(t, i))
             /\ Cardinality(Before(t, i)) \in Nat
             /\ Cardinality(Before(t, i)) <= Cardinality(Commas(t))
  <2>1. Before(t, i) \in SUBSET Commas(t)
    BY DEF Before
  <2> QED  BY <1>3, <2>1, FS_Subset, FS_CardinalityType
<1> QED  BY <1>1, <1>3, <1>4, FS_CardinalityType

\* The commas of what follows the p-th character are those that follow it.
LEMMA CommasOfRest ==
  ASSUME NEW t \in Seq(Alphabet), NEW p \in 0..Len(t),
         NEW x, x = From(t, p + 1)
  PROVE  /\ x \in Seq(Alphabet)
         /\ Len(x) = Len(t) - p
         /\ \A j \in Nat : j \in Commas(x) <=> j > 0 /\ p + j \in Commas(t)
<1>1. Len(t) \in Nat /\ p \in Nat /\ p <= Len(t)
  BY LenProperties
<1>2. PICK i \in 1..Len(t) + 1 : i = p + 1
  BY <1>1
<1>3. /\ x \in Seq(Alphabet)
      /\ Len(x) = Len(t) + 1 - i
      /\ \A j \in 1..Len(t) + 1 - i : x[j] = t[i + j - 1]
  <2>1. PICK y : y = From(t, i)
    OBVIOUS
  <2>2. /\ y \in Seq(Alphabet)
        /\ Len(y) = Len(t) + 1 - i
        /\ \A j \in 1..Len(t) + 1 - i : y[j] = t[i + j - 1]
    BY <2>1, FromHas
  <2>3. x = y
    BY <1>2, <2>1
  <2> QED  BY <2>2, <2>3
<1>4. Len(x) = Len(t) - p
  BY <1>1, <1>2, <1>3
<1>5. ASSUME NEW j \in Nat
      PROVE  j \in Commas(x) <=> j > 0 /\ p + j \in Commas(t)
  <2>1. j \in 1..Len(x) <=> j > 0 /\ p + j \in 1..Len(t)
    BY <1>1, <1>4
  <2>2. ASSUME j \in 1..Len(x)
        PROVE  Comma(x, j) <=> Comma(t, p + j)
    <3>1. j \in 1..Len(t) + 1 - i /\ i + j - 1 = p + j
      BY <1>1, <1>2, <1>3, <2>2
    <3> QED  BY <1>3, <3>1 DEF Comma
  <2> QED  BY <2>1, <2>2, CommaAt
<1> QED  BY <1>3, <1>4, <1>5

\* What NextFields leaves of what follows the p-th character: what follows the
\* next comma, or nothing.
LEMMA NextAfter ==
  ASSUME NEW t \in Seq(Alphabet), NEW p \in 0..Len(t)
  PROVE  LET later == {c \in Commas(t) : c > p}
         IN  /\ later = {} => NextFields(From(t, p + 1)) = <<>>
             /\ later # {} =>
                  \E q \in later : /\ \A c \in later : q <= c
                                   /\ NextFields(From(t, p + 1)) = From(t, q + 1)
<1> DEFINE later == {c \in Commas(t) : c > p}
<1>1. PICK x : x = From(t, p + 1)
  OBVIOUS
<1>2. /\ x \in Seq(Alphabet)
      /\ Len(x) = Len(t) - p
      /\ \A j \in Nat : j \in Commas(x) <=> j > 0 /\ p + j \in Commas(t)
  BY <1>1, CommasOfRest
<1>3. Len(t) \in Nat /\ p \in Nat /\ p <= Len(t) /\ Len(x) \in Nat
  BY <1>2, LenProperties
<1>4. FieldEnd(x) = Min(Commas(x) \cup {Len(x) + 1})
  BY DEF FieldEnd, Commas
<1>5. Commas(x) \in SUBSET (1..Len(x))
  BY <1>2, CommasFinite
<1>6. Commas(x) \cup {Len(x) + 1} \in SUBSET Nat
  BY <1>3, <1>5
<1>7. ASSUME later = {}
      PROVE  NextFields(x) = <<>>
  <2>1. ASSUME NEW j \in Commas(x)
        PROVE  FALSE
    <3>1. j \in Nat
      BY <1>5
    <3>2. j > 0 /\ p + j \in Commas(t)
      BY <1>2, <3>1
    <3>3. p + j > p
      BY <1>3, <3>1, <3>2
    <3> QED  BY <1>7, <3>2, <3>3
  <2>2. Commas(x) \cup {Len(x) + 1} = {Len(x) + 1}
    BY <2>1
  <2>3. FieldEnd(x) = Len(x) + 1
    BY <1>3, <1>4, <2>2, MinIs
  <2>4. NextFields(x) = From(x, Len(x) + 2)
    BY <1>3, <2>3 DEF NextFields
  <2> QED  BY <1>2, <2>4, FromPastEnd
<1>8. ASSUME later # {}
      PROVE  \E q \in later : /\ \A c \in later : q <= c
                              /\ NextFields(x) = From(t, q + 1)
  <2>1. Commas(t) \in SUBSET (1..Len(t))
    BY CommasFinite
  <2>2. later \in SUBSET Nat
    BY <2>1
  <2>3. PICK q \in later : \A c \in later : q <= c
    <3> HIDE DEF later
    <3> QED  BY <1>8, <2>2, Least
  <2>4. q \in 1..Len(t) /\ q > p /\ q \in Commas(t)
    BY <2>1, <2>3
  <2>5. PICK j \in 1..Len(x) : q = p + j
    BY <1>2, <1>3, <2>4
  <2>6. j \in Commas(x)
    BY <1>2, <2>4, <2>5
  <2>7. ASSUME NEW i \in Commas(x)
        PROVE  j <= i
    <3>1. i \in Nat /\ i > 0 /\ p + i \in Commas(t)
      BY <1>2, <1>5
    <3>2. p + i \in later
      BY <1>3, <3>1
    <3>3. q <= p + i
      <4> HIDE DEF later
      <4> QED  BY <2>3, <3>2
    <3> QED  BY <1>3, <2>5, <3>1, <3>3
  <2>8. FieldEnd(x) = j
    <3>1. j <= Len(x) + 1
      BY <1>3
    <3>2. \A i \in Commas(x) \cup {Len(x) + 1} : j <= i
      BY <2>7, <3>1
    <3>3. j \in Commas(x) \cup {Len(x) + 1}
      BY <2>6
    <3> QED  BY <1>4, <1>6, <3>2, <3>3, MinEquals
  <2>9. NextFields(x) = From(x, j + 1)
    BY <2>8 DEF NextFields
  <2>10. PICK b \in 1..Len(t) + 1, d \in 1..Len(x) + 1 :
           b = p + 1 /\ d = j + 1 /\ b + d - 1 = q + 1
    BY <1>3, <2>5
  <2>11. From(x, d) = From(t, b + d - 1)
    BY <1>1, <2>10, FromOfFrom
  <2>12. NextFields(x) = From(t, q + 1)
    BY <2>9, <2>10, <2>11
  <2> QED  BY <2>3, <2>12
<1> QED  BY <1>1, <1>7, <1>8

\* One field more: the next comma, or the end.
LEMMA GivenNext ==
  ASSUME NEW t \in Seq(Alphabet), NEW n \in Nat, NEW p \in Commas(t) \cup {0},
         Cardinality(Before(t, p + 1)) = n
  PROVE  \/ \E q \in Commas(t) :
              /\ NextFields(From(t, p + 1)) = From(t, q + 1)
              /\ Cardinality(Before(t, q + 1)) = n + 1
         \/ /\ NextFields(From(t, p + 1)) = <<>>
            /\ Cardinality(Commas(t)) < n + 1
<1> DEFINE later == {c \in Commas(t) : c > p}
<1>1. Commas(t) \in SUBSET (1..Len(t)) /\ Len(t) \in Nat
  BY CommasFinite, LenProperties
<1>2. p \in 0..Len(t) /\ \A c \in Commas(t) : c \in Nat
  BY <1>1
<1>3. CASE later = {}
  <2>1. Before(t, p + 1) = Commas(t)
    <3>1. \A c \in Commas(t) : c < p + 1
      BY <1>2, <1>3
    <3> QED  BY <3>1 DEF Before
  <2>2. NextFields(From(t, p + 1)) = <<>>
    BY <1>2, <1>3, NextAfter
  <2> QED  BY <2>1, <2>2
<1>4. CASE later # {}
  <2>1. PICK q \in later : /\ \A c \in later : q <= c
                           /\ NextFields(From(t, p + 1)) = From(t, q + 1)
    BY <1>2, <1>4, NextAfter
  <2>2. q \in Commas(t) /\ q > p
    BY <2>1
  <2>3. Before(t, q + 1) = Before(t, p + 1) \cup {q}
    <3>1. ASSUME NEW c \in Commas(t)
          PROVE  c < q + 1 <=> c < p + 1 \/ c = q
      BY <1>2, <2>1, <2>2
    <3> QED  BY <2>2, <3>1 DEF Before
  <2>4. q \notin Before(t, p + 1)
    BY <1>2, <2>2 DEF Before
  <2>5. Cardinality(Before(t, q + 1)) = n + 1
    BY <2>3, <2>4, CommasFinite, FS_AddElement
  <2> QED  BY <2>1, <2>2, <2>5
<1> QED  BY <1>3, <1>4

\* Nothing stays nothing.
LEMMA NextOfNothing == NextFields(<<>>) = <<>>
<1>1. <<>> \in Seq(Alphabet) /\ Len(<<>>) = 0
  BY EmptySeq
<1>2. Commas(<<>>) = {}
  BY <1>1, CommaAt
<1>3. FieldEnd(<<>>) = Min({1})
  <2>1. FieldEnd(<<>>) = Min(Commas(<<>>) \cup {Len(<<>>) + 1})
    BY DEF FieldEnd, Commas
  <2>2. Len(<<>>) + 1 = 1
    BY <1>1
  <2>3. Commas(<<>>) \cup {1} = {1}
    BY <1>2
  <2> QED  BY <2>1, <2>2, <2>3
<1>4. Min({1}) = 1
  BY MinIs
<1>5. NextFields(<<>>) = From(<<>>, 0 + 2)
  BY <1>3, <1>4 DEF NextFields
<1> QED  BY <1>1, <1>5, FromPastEnd

\* Reading a field keeps step with the commas.
LEMMA GivenStep ==
  ASSUME start \in Seq(Alphabet), read \in Nat, Given,
         UNCHANGED start, read' = read + 1, lineFields' = NextFields(lineFields)
  PROVE  Given'
<1>1. CASE \E p \in Commas(start) \cup {0} :
             /\ lineFields = From(start, p + 1)
             /\ Cardinality(Before(start, p + 1)) = read
  <2>1. PICK p \in Commas(start) \cup {0} :
               /\ lineFields = From(start, p + 1)
               /\ Cardinality(Before(start, p + 1)) = read
    BY <1>1
  <2>2. \/ \E q \in Commas(start) :
             /\ lineFields' = From(start, q + 1)
             /\ Cardinality(Before(start, q + 1)) = read + 1
        \/ /\ lineFields' = <<>>
           /\ Cardinality(Commas(start)) < read + 1
    BY <2>1, GivenNext
  <2> QED  BY <2>2 DEF Given
<1>2. CASE Cardinality(Commas(start)) < read /\ lineFields = <<>>
  <2>1. lineFields' = <<>>
    BY <1>2, NextOfNothing
  <2>2. Cardinality(Commas(start)) < read + 1
    BY <1>2, CommasFinite
  <2> QED  BY <2>1, <2>2 DEF Given
<1> QED  BY <1>1, <1>2 DEF Given

\* Before any field is read.
LEMMA GivenFirst ==
  ASSUME NEW t \in Seq(Alphabet)
  PROVE  t = From(t, 0 + 1) /\ Cardinality(Before(t, 0 + 1)) = 0
<1>1. t = From(t, 0 + 1)
  BY FromFirst
<1>2. Commas(t) \in SUBSET (1..Len(t)) /\ Len(t) \in Nat
  BY CommasFinite, LenProperties
<1>3. Before(t, 0 + 1) = {}
  BY <1>2 DEF Before
<1> QED  BY <1>1, <1>3, FS_EmptySet

-----------------------------------------------------------------------------
(* The invariant *)

LEMMA FieldsAreText ==
  ASSUME NEW t \in Seq(Alphabet)
  PROVE  AfterHeader(t) \in Seq(Alphabet)
<1>1. PICK s : s = Scan(t)
  OBVIOUS
<1>2. Sought(t, s, Len(t)) /\ Len(t) \in Nat
  BY <1>1, ScanSought, LenProperties
<1>3. CASE s.end = 0
  BY <1>1, <1>3, EmptySeq DEF AfterHeader
<1>4. CASE s.end # 0
  <2>1. PICK e \in 1..Len(t) : e = s.end
    BY <1>2, <1>4 DEF Sought
  <2>2. PICK i \in {e, e + 1} : AfterHeader(t) = WithoutColon(From(t, i))
    BY <1>1, <1>4, <2>1 DEF AfterHeader
  <2>3. PICK x : x = From(t, i)
    OBVIOUS
  <2>4. i \in 1..Len(t) + 1
    BY <1>2, <2>1, <2>2
  <2>5. x \in Seq(Alphabet)
    BY <2>3, <2>4, FromHas
  <2>6. WithoutColon(x) \in Seq(Alphabet)
    <3>1. CASE x # <<>> /\ x[1] = ":"
      <4>1. PICK m \in Nat : m = Len(x)
        BY <2>5, LenProperties
      <4>2. m >= 1
        BY <2>5, <3>1, <4>1, EmptySeq
      <4>3. CASE Len(x) > 1 /\ x[2] = " "
        <5>1. WithoutColon(x) = From(x, 3)
          BY <3>1, <4>3 DEF WithoutColon
        <5>2. m > 1
          BY <4>1, <4>3
        <5>3. 3 \in 1..m + 1
          BY <5>2
        <5> QED  BY <2>5, <4>1, <5>1, <5>3, FromHas
      <4>4. CASE ~(Len(x) > 1 /\ x[2] = " ")
        <5>1. WithoutColon(x) = From(x, 2)
          BY <3>1, <4>4 DEF WithoutColon
        <5>2. 2 \in 1..m + 1
          BY <4>2
        <5> QED  BY <2>5, <4>1, <5>1, <5>2, FromHas
      <4> QED  BY <4>3, <4>4
    <3>2. CASE ~(x # <<>> /\ x[1] = ":")
      BY <2>5, <3>2 DEF WithoutColon
    <3> QED  BY <3>1, <3>2
  <2> QED  BY <2>2, <2>3, <2>6
<1> QED  BY <1>3, <1>4

LEMMA FieldsInit == Init => FieldsInv
<1>1. SUFFICES ASSUME Init
               PROVE  FieldsInv
  OBVIOUS
<1>2. start \in Seq(Alphabet) /\ read = 0 /\ lineFields = start
  BY <1>1, EmptySeq DEF Init
<1>3. Given
  BY <1>2, GivenFirst DEF Given
<1>4. line \in Text /\ header = NoHeader
  BY <1>1 DEF Init
<1> QED  BY <1>2, <1>3, <1>4 DEF FieldsInv

LEMMA FieldsStep == FieldsInv /\ [Next]_vars => FieldsInv'
<1>1. SUFFICES ASSUME FieldsInv, [Next]_vars
               PROVE  FieldsInv'
  OBVIOUS
<1> USE DEF FieldsInv
<1>2. CASE OnLine
  <2>1. /\ header = NoHeader /\ read = 0
        /\ UNCHANGED <<line, read>>
        /\ header' = Header(line)
        /\ start' = AfterHeader(line)
        /\ lineFields' = start'
    BY <1>1, <1>2 DEF OnLine
  <2>2. start' \in Seq(Alphabet)
    BY <1>1, <2>1, TextIs, FieldsAreText
  <2>3. Given'
    <3>1. start' \in Seq(Alphabet) /\ read' = 0 /\ lineFields' = start'
      BY <2>1, <2>2
    <3> QED  BY <3>1, GivenFirst DEF Given
  <2> QED  BY <1>1, <2>1, <2>2, <2>3
<1>3. CASE InputFieldFnv \/ \E base \in Base : InputFieldNum(base)
  <2>1. /\ header # NoHeader
        /\ UNCHANGED <<line, header, start>>
        /\ read' = read + 1
        /\ lineFields' = NextFields(lineFields)
    BY <1>3 DEF InputFieldFnv, InputFieldNum, AfterField
  <2>2. Given'
    BY <1>1, <2>1, GivenStep
  <2> QED  BY <1>1, <2>1, <2>2
<1>4. CASE UNCHANGED vars
  BY <1>1, <1>4 DEF vars, Given
<1> QED  BY <1>1, <1>2, <1>3, <1>4 DEF Next

\* Every line is taken apart so, of any length and alphabet.
THEOREM FieldsInvariance == Spec => []FieldsInv
BY FieldsInit, FieldsStep, PTL DEF Spec

\* The header looked up is the one meant: of the text past any channel numbers,
\* what comes before a colon, or up to and with a comma (RxTask's loop over the
\* line, Modem.cpp:472).
THEOREM HeaderIsFound == Spec => []HeaderFound
<1>1. FieldsInv => HeaderFound
  <2>1. SUFFICES ASSUME FieldsInv, header # NoHeader
                 PROVE  HeaderFound
    BY DEF HeaderFound
  <2>2. /\ line \in Seq(Alphabet)
        /\ header = Header(line) /\ start = AfterHeader(line)
    BY <2>1, TextIs DEF FieldsInv
  <2> QED  BY <2>2, HeaderRight
<1> QED  BY <1>1, FieldsInvariance, PTL

-----------------------------------------------------------------------------
(* What follows from it *)

\* There is one comma with so many before it.
LEMMA OneComma ==
  ASSUME NEW t \in Seq(Alphabet), NEW p \in Commas(t), NEW q \in Commas(t),
         Cardinality(Before(t, p + 1)) = Cardinality(Before(t, q + 1))
  PROVE  p = q
<1>1. Commas(t) \in SUBSET (1..Len(t)) /\ Len(t) \in Nat
  BY CommasFinite, LenProperties
<1>2. \A c \in Commas(t) : c \in Nat
  BY <1>1
<1>3. ASSUME NEW x \in Commas(t), NEW y \in Commas(t), x < y
      PROVE  Cardinality(Before(t, x + 1)) # Cardinality(Before(t, y + 1))
  <2>1. Before(t, x + 1) \in SUBSET Before(t, y + 1)
    <3>1. ASSUME NEW c \in Commas(t), c < x + 1
          PROVE  c < y + 1
      BY <1>2, <1>3, <3>1
    <3> QED  BY <3>1 DEF Before
  <2>2. y \in Before(t, y + 1) /\ y \notin Before(t, x + 1)
    BY <1>2, <1>3 DEF Before
  <2>3. IsFiniteSet(Before(t, y + 1))
    BY CommasFinite
  <2> QED  BY <2>1, <2>2, <2>3, FS_Subset
<1>4. ~(p < q) /\ ~(q < p)
  BY <1>3
<1> QED  BY <1>2, <1>4

LEMMA InStep ==
  ASSUME FieldsInv
  PROVE  FieldsInStep
<1>1. start \in Seq(Alphabet) /\ read \in Nat /\ Given
  BY DEF FieldsInv
<1>2. Commas(start) \in SUBSET (1..Len(start)) /\ Len(start) \in Nat
  BY <1>1, CommasFinite, LenProperties
<1>3. /\ Positions(start, ",") = Commas(start)
      /\ \A i : {c \in Positions(start, ",") : c < i} = Before(start, i)
  BY DEF Commas, Before
<1>4. CASE \E p \in Commas(start) \cup {0} :
             /\ lineFields = From(start, p + 1)
             /\ Cardinality(Before(start, p + 1)) = read
  <2>1. PICK p \in Commas(start) \cup {0} :
               /\ lineFields = From(start, p + 1)
               /\ Cardinality(Before(start, p + 1)) = read
    BY <1>4
  <2>2. CASE p = 0
    <3>1. read = 0 /\ lineFields = start
      BY <1>1, <2>1, <2>2, GivenFirst
    <3> QED  BY <3>1 DEF FieldsInStep
  <2>3. CASE p # 0
    <3>1. p \in Commas(start)
      BY <2>3
    <3>2. read # 0
      <4>1. p \in Before(start, p + 1)
        BY <1>2, <3>1 DEF Before
      <4> QED  BY <1>1, <2>1, <4>1, CommasFinite, FS_EmptySet
    <3>3. ~(Cardinality(Commas(start)) < read)
      BY <1>1, <2>1, CommasFinite
    <3>4. PICK i : i = CHOOSE j \in 1..Len(start) + 1 :
                         /\ j - 1 \in Commas(start)
                         /\ Cardinality(Before(start, j)) = read
      OBVIOUS
    <3>5. /\ i \in 1..Len(start) + 1
          /\ i - 1 \in Commas(start)
          /\ Cardinality(Before(start, i)) = read
      <4>1. p \in Nat /\ p + 1 \in 1..Len(start) + 1
        BY <1>2, <3>1
      <4>2. \E j \in 1..Len(start) + 1 :
              /\ j - 1 \in Commas(start)
              /\ Cardinality(Before(start, j)) = read
        <5>1. PICK j \in 1..Len(start) + 1 : j = p + 1 /\ j - 1 = p
          BY <4>1
        <5> QED  BY <2>1, <3>1, <5>1
      <4> QED  BY <3>4, <4>2
    <3>6. i = p + 1
      <4>1. PICK q \in Commas(start) : q = i - 1 /\ q + 1 = i
        BY <1>2, <3>5
      <4>2. p = q
        BY <1>1, <2>1, <3>1, <3>5, <4>1, OneComma
      <4> QED  BY <4>1, <4>2
    <3> QED  BY <1>3, <2>1, <3>2, <3>3, <3>4, <3>6 DEF FieldsInStep
  <2> QED  BY <2>2, <2>3
<1>5. CASE Cardinality(Commas(start)) < read /\ lineFields = <<>>
  <2>1. read # 0
    BY <1>1, <1>5, CommasFinite
  <2> QED  BY <1>3, <1>5, <2>1 DEF FieldsInStep
<1> QED  BY <1>1, <1>4, <1>5 DEF Given

\* The commas of a line are those before its p-th character and those of the
\* rest.
LEMMA CommasSplit ==
  ASSUME NEW t \in Seq(Alphabet), NEW p \in 0..Len(t)
  PROVE  Cardinality(Commas(t)) = Cardinality(Before(t, p + 1))
                                    + Cardinality(Commas(From(t, p + 1)))
<1> DEFINE later == {c \in Commas(t) : c > p}
<1>1. PICK x : x = From(t, p + 1)
  OBVIOUS
<1>2. /\ x \in Seq(Alphabet)
      /\ \A j \in Nat : j \in Commas(x) <=> j > 0 /\ p + j \in Commas(t)
  BY <1>1, CommasOfRest
<1>3. /\ Commas(t) \in SUBSET (1..Len(t)) /\ Len(t) \in Nat
      /\ Commas(x) \in SUBSET (1..Len(x)) /\ Len(x) \in Nat
      /\ IsFiniteSet(Commas(t)) /\ IsFiniteSet(Commas(x))
  BY <1>2, CommasFinite, LenProperties
<1>4. /\ p \in Nat
      /\ \A c \in Commas(t) : c \in Nat
      /\ \A c \in Commas(x) : c \in Nat
  BY <1>3
<1>5. Cardinality(later) = Cardinality(Commas(x))
  <2>1. PICK f : f = [j \in Commas(x) |-> p + j]
    OBVIOUS
  <2>2. \A j \in Commas(x) : f[j] \in later
    BY <1>2, <1>4, <2>1
  <2>3. f \in [Commas(x) -> later]
    <3> HIDE DEF later
    <3> QED  BY <2>1, <2>2
  <2>4. \A a, b \in Commas(x) : f[a] = f[b] => a = b
    BY <1>4, <2>1
  <2>5. \A c \in later : \E j \in Commas(x) : f[j] = c
    <3>1. ASSUME NEW c \in later
          PROVE  c - p \in Commas(x) /\ p + (c - p) = c
      <4>1. c \in Commas(t) /\ c \in Nat /\ c > p
        BY <1>4
      <4>2. c - p \in Nat /\ c - p > 0 /\ p + (c - p) = c
        BY <1>4, <4>1
      <4> QED  BY <1>2, <4>1, <4>2
    <3> HIDE DEF later
    <3> QED  BY <2>1, <3>1
  <2> HIDE DEF later
  <2>6. f \in Bijection(Commas(x), later)
    BY <2>3, <2>4, <2>5, Fun_IsBij
  <2>7. ExistsBijection(Commas(x), later)
    BY <2>6 DEF ExistsBijection
  <2> QED  BY <1>3, <2>7, FS_Bijection
<1>6. Commas(t) = Before(t, p + 1) \cup later
  BY <1>4 DEF Before
<1>7. Before(t, p + 1) \cap later = {}
  BY <1>4 DEF Before
<1>8. IsFiniteSet(later) /\ IsFiniteSet(Before(t, p + 1))
  <2>1. later \in SUBSET Commas(t)
    OBVIOUS
  <2> HIDE DEF later
  <2> QED  BY <1>3, <2>1, FS_Subset, CommasFinite
<1>9. /\ Cardinality(later) \in Nat
      /\ Cardinality(Before(t, p + 1)) \in Nat
      /\ Cardinality({}) = 0
  BY <1>8, FS_CardinalityType, FS_EmptySet
<1>10. Cardinality(Commas(t))
         = Cardinality(Before(t, p + 1)) + Cardinality(later) - 0
  <2> HIDE DEF later
  <2> QED  BY <1>6, <1>7, <1>8, <1>9, FS_Union
<1> QED  BY <1>1, <1>5, <1>9, <1>10

LEMMA CountLeft ==
  ASSUME FieldsInv
  PROVE  CountIsLeft
<1>1. start \in Seq(Alphabet) /\ read \in Nat /\ Given
  BY DEF FieldsInv
<1>2. Commas(start) \in SUBSET (1..Len(start)) /\ Len(start) \in Nat
  BY <1>1, CommasFinite, LenProperties
<1>3. \A t : InputFieldCount(t) =
               IF t = <<>> THEN 0 ELSE Cardinality(Commas(t)) + 1
  BY DEF InputFieldCount, Commas
<1>4. CASE \E p \in Commas(start) \cup {0} :
             /\ lineFields = From(start, p + 1)
             /\ Cardinality(Before(start, p + 1)) = read
  <2>1. PICK p \in Commas(start) \cup {0} :
               /\ lineFields = From(start, p + 1)
               /\ Cardinality(Before(start, p + 1)) = read
    BY <1>4
  <2>2. p \in 0..Len(start)
    BY <1>2
  <2>3. Cardinality(Commas(start)) = read + Cardinality(Commas(lineFields))
    BY <1>1, <2>1, <2>2, CommasSplit
  <2>4. lineFields \in Seq(Alphabet)
    BY <1>1, <2>1, <2>2, CommasOfRest
  <2>5. Cardinality(Commas(lineFields)) \in Nat
    BY <2>4, CommasFinite
  <2>6. start = <<>> => lineFields = <<>>
    <3>1. ASSUME start = <<>>
          PROVE  p = 0
      BY <2>2, <3>1, EmptySeq
    <3> QED  BY <1>1, <2>1, <3>1, GivenFirst
  <2> QED  BY <1>1, <1>3, <2>3, <2>5, <2>6 DEF CountIsLeft
<1>5. CASE Cardinality(Commas(start)) < read /\ lineFields = <<>>
  BY <1>5 DEF CountIsLeft
<1> QED  BY <1>1, <1>4, <1>5 DEF Given

\* n calls read n fields, whatever is in them and whichever call reads them
\* (InputFieldNum and InputFieldFnv skip to past the next comma).
THEOREM FieldsStayInStep == Spec => []FieldsInStep
BY FieldsInvariance, InStep, PTL

\* InputFieldCount is the number of calls left, at any point of the line.
THEOREM CountIsOfCallsLeft == Spec => []CountIsLeft
BY FieldsInvariance, CountLeft, PTL

-----------------------------------------------------------------------------
(* What is a number *)

\* A comma is not a digit of either base.
LEMMA CommaIsNoDigit ==
  ASSUME NEW base \in Base, NEW t, NEW i, Comma(t, i)
  PROVE  ~IsDigit(t[i], base)
<1>1. \A d \in 1..16 : "," \notin DigitChars[d]
  <2>1. ASSUME NEW d \in 1..16
        PROVE  DigitChars[d] \in {{"0"}, {"1"}, {"2"}, {"3"}, {"4"}, {"5"},
                                  {"6"}, {"7"}, {"8"}, {"9"}, {"a", "A"},
                                  {"b", "B"}, {"c", "C"}, {"d", "D"},
                                  {"e", "E"}, {"f", "F"}}
    BY DEF DigitChars
  <2>2. /\ "," \notin {"0"} /\ "," \notin {"1"} /\ "," \notin {"2"}
        /\ "," \notin {"3"} /\ "," \notin {"4"} /\ "," \notin {"5"}
        /\ "," \notin {"6"} /\ "," \notin {"7"} /\ "," \notin {"8"}
        /\ "," \notin {"9"} /\ "," \notin {"a", "A"} /\ "," \notin {"b", "B"}
        /\ "," \notin {"c", "C"} /\ "," \notin {"d", "D"}
        /\ "," \notin {"e", "E"} /\ "," \notin {"f", "F"}
    OBVIOUS
  <2> QED  BY <2>1, <2>2
<1>2. 1..base \subseteq 1..16
  BY DEF Base
<1> QED  BY <1>1, <1>2 DEF IsDigit, Comma

LEMMA SignIs ==
  ASSUME NEW t \in Seq(Alphabet)
  PROVE  /\ SignLength(t) \in {0, 1}
         /\ SignLength(t) = 1 => 1 \in 1..Len(t) /\ ~Comma(t, 1)
<1>1. t # <<>> => Len(t) \in Nat /\ Len(t) > 0
  BY EmptySeq, LenProperties
<1>2. SignLength(t) = 1 => t # <<>> /\ t[1] \in {"+", "-"}
  BY DEF SignLength
<1>3. SignLength(t) \in {0, 1}
  BY DEF SignLength
<1>4. t[1] \in {"+", "-"} => ~Comma(t, 1)
  BY DEF Comma
<1> QED  BY <1>1, <1>2, <1>3, <1>4

\* A sign is one in the field alone, too.
LEMMA SignSame ==
  ASSUME NEW t \in Seq(Alphabet), NEW u \in Seq(Alphabet),
         u # <<>> => t # <<>> /\ u[1] = t[1],
         SignLength(t) = 1 => u # <<>>
  PROVE  SignLength(u) = SignLength(t)
BY DEF SignLength

\* Where the first field ends.
LEMMA FieldEndIs ==
  ASSUME NEW t \in Seq(Alphabet)
  PROVE  /\ FieldEnd(t) \in 1..Len(t) + 1
         /\ \A j \in 1..Len(t) : j < FieldEnd(t) => ~Comma(t, j)
         /\ FieldEnd(t) <= Len(t) => Comma(t, FieldEnd(t))
<1>1. Commas(t) \in SUBSET (1..Len(t)) /\ Len(t) \in Nat
  BY CommasFinite, LenProperties
<1>2. PICK S : S = Commas(t) \cup {Len(t) + 1}
  OBVIOUS
<1>3. S \in SUBSET Nat /\ S # {}
  BY <1>1, <1>2
<1>4. PICK f : f = FieldEnd(t)
  OBVIOUS
<1>5. f \in S /\ \A m \in S : f <= m
  BY <1>2, <1>3, <1>4, MinIs DEF FieldEnd, Commas
<1>6. f \in 1..Len(t) + 1
  BY <1>1, <1>2, <1>5
<1>7. ASSUME NEW j \in 1..Len(t), j < f
      PROVE  ~Comma(t, j)
  <2>1. j \notin S
    BY <1>1, <1>5, <1>6, <1>7
  <2> QED  BY <1>2, <2>1, CommaAt
<1>8. f <= Len(t) => Comma(t, f)
  BY <1>1, <1>2, <1>5, CommaAt
<1> QED  BY <1>4, <1>6, <1>7, <1>8

\* Where the number ends: at the last digit that is reached.
LEMMA NumberEndIs ==
  ASSUME NEW t \in Seq(Alphabet), NEW base \in Base
  PROVE  LET b == SignLength(t)
             e == NumberEnd(t, base)
         IN  /\ e \in b..Len(t)
             /\ \A j \in b + 1..e : IsDigit(t[j], base)
             /\ \A i \in b..Len(t) :
                  (\A j \in b + 1..i : IsDigit(t[j], base)) => i <= e
<1>1. PICK b : b = SignLength(t)
  OBVIOUS
<1>2. Len(t) \in Nat /\ b \in 0..Len(t)
  BY <1>1, SignIs, LenProperties
<1>3. PICK S : S = {i \in b..Len(t) : \A j \in b + 1..i : IsDigit(t[j], base)}
  OBVIOUS
<1>4. b \in S
  BY <1>2, <1>3
<1>5. \A i \in S : i \in Nat /\ i <= Len(t)
  BY <1>2, <1>3
<1>6. \E e \in S : \A i \in S : e >= i
  \* The least number that none of them exceeds is one of them.
  <2>1. PICK U : U = {n \in Nat : \A i \in S : i <= n}
    OBVIOUS
  <2>2. U \in SUBSET Nat /\ Len(t) \in U
    BY <1>2, <1>5, <2>1
  <2>3. PICK n \in U : \A m \in U : n <= m
    BY <2>2, Least
  <2>4. n \in S
    <3>1. SUFFICES ASSUME n \notin S
                   PROVE  FALSE
      OBVIOUS
    <3>2. n \in Nat /\ \A i \in S : i <= n /\ i # n
      BY <2>1, <2>3, <3>1
    <3>3. n > b
      BY <1>2, <1>4, <3>2
    <3>4. n - 1 \in Nat /\ \A i \in S : i <= n - 1
      BY <1>2, <1>5, <3>2, <3>3
    <3>5. n - 1 \in U
      BY <2>1, <3>4
    <3>6. n <= n - 1
      BY <2>3, <3>5
    <3> QED  BY <3>2, <3>6
  <2>5. \A i \in S : n >= i
    BY <1>5, <2>1, <2>3
  <2> QED  BY <2>4, <2>5
<1>7. PICK e : e = NumberEnd(t, base)
  OBVIOUS
<1>8. e = Max(S)
  BY <1>1, <1>3, <1>7 DEF NumberEnd
<1>9. e \in S /\ \A i \in S : e >= i
  BY <1>6, <1>8 DEF Max
<1>10. \A i \in S : i <= e
  BY <1>5, <1>9
<1>11. e \in b..Len(t) /\ \A j \in b + 1..e : IsDigit(t[j], base)
  BY <1>3, <1>9
<1>12. ASSUME NEW i \in b..Len(t), \A j \in b + 1..i : IsDigit(t[j], base)
       PROVE  i <= e
  BY <1>3, <1>10, <1>12
<1> QED  BY <1>1, <1>7, <1>11, <1>12

\* A number is one when the characters between the sign and the end of its
\* field are digits, and there are some.
LEMMA NumberIs ==
  ASSUME NEW t \in Seq(Alphabet), NEW base \in Base
  PROVE  IsNumber(t, base) <=>
           /\ FieldEnd(t) > SignLength(t) + 1
           /\ \A j \in SignLength(t) + 1..FieldEnd(t) - 1 : IsDigit(t[j], base)
<1>1. PICK b, e, f : /\ b = SignLength(t)
                     /\ e = NumberEnd(t, base)
                     /\ f = FieldEnd(t)
  OBVIOUS
<1>2. /\ b \in {0, 1} /\ Len(t) \in Nat
      /\ b = 1 => 1 \in 1..Len(t) /\ ~Comma(t, 1)
  BY <1>1, SignIs, LenProperties
<1>3. f \in 1..Len(t) + 1 /\ (f <= Len(t) => Comma(t, f))
  BY <1>1, FieldEndIs
<1>4. /\ e \in b..Len(t)
      /\ \A j \in b + 1..e : IsDigit(t[j], base)
      /\ \A i \in b..Len(t) :
           (\A j \in b + 1..i : IsDigit(t[j], base)) => i <= e
  BY <1>1, NumberEndIs
<1>5. IsNumber(t, base) <=> e > b /\ e = f - 1
  BY <1>1 DEF IsNumber
<1>6. ASSUME e > b, e = f - 1
      PROVE  f > b + 1 /\ \A j \in b + 1..f - 1 : IsDigit(t[j], base)
  BY <1>2, <1>3, <1>4, <1>6
<1>7. ASSUME f > b + 1, \A j \in b + 1..f - 1 : IsDigit(t[j], base)
      PROVE  e > b /\ e = f - 1
  <2>1. f - 1 \in b..Len(t)
    BY <1>2, <1>3, <1>7
  <2>2. f - 1 <= e
    BY <1>4, <1>7, <2>1
  <2>3. ~(f <= e)
    <3>1. SUFFICES ASSUME f <= e
                   PROVE  FALSE
      OBVIOUS
    <3>2. f <= Len(t) /\ f \in b + 1..e
      BY <1>2, <1>3, <1>4, <1>7, <3>1
    <3> QED  BY <1>3, <1>4, <3>2, CommaIsNoDigit
  <2> QED  BY <1>2, <1>3, <1>4, <1>7, <2>2, <2>3
<1> QED  BY <1>1, <1>5, <1>6, <1>7

LEMMA IsWhole ==
  ASSUME NEW t \in Seq(Alphabet), NEW base \in Base
  PROVE  LET field == SubSeq(t, 1, FieldEnd(t) - 1)
             digits == From(field, SignLength(field) + 1)
         IN  IsNumber(t, base) <=>
               /\ digits # <<>>
               /\ \A i \in 1..Len(digits) : IsDigit(digits[i], base)
<1>1. PICK b, f, u : /\ b = SignLength(t)
                     /\ f = FieldEnd(t)
                     /\ u = SubSeq(t, 1, f - 1)
  OBVIOUS
<1>2. /\ b \in {0, 1} /\ Len(t) \in Nat
      /\ b = 1 => 1 \in 1..Len(t) /\ ~Comma(t, 1)
  BY <1>1, SignIs, LenProperties
<1>3. f \in 1..Len(t) + 1 /\ (f <= Len(t) => Comma(t, f))
  BY <1>1, FieldEndIs
<1>4. /\ u \in Seq(Alphabet) /\ Len(u) = f - 1
      /\ \A i \in 1..f - 1 : u[i] = t[i]
  <2>1. /\ 1 \in Int /\ f - 1 \in Int
        /\ \A i \in 1..f - 1 : t[i] \in Alphabet
    BY <1>2, <1>3, ElementOfSeq
  <2>2. /\ SubSeq(t, 1, f - 1) \in Seq(Alphabet)
        /\ Len(SubSeq(t, 1, f - 1)) = IF 1 <= f - 1 THEN f - 1 - 1 + 1 ELSE 0
        /\ \A i \in 1..f - 1 - 1 + 1 : SubSeq(t, 1, f - 1)[i] = t[1 + i - 1]
    BY <2>1, SubSeqProperties
  <2>3. f - 1 - 1 + 1 = f - 1 /\ \A i \in Int : 1 + i - 1 = i
    BY <2>1
  <2>4. f - 1 = IF 1 <= f - 1 THEN f - 1 ELSE 0
    BY <1>2, <1>3
  <2> QED  BY <1>1, <2>2, <2>3, <2>4
<1>5. b = 1 => f > 1
  BY <1>2, <1>3
<1>6. SignLength(u) = b
  <2>1. ASSUME u # <<>>
        PROVE  t # <<>> /\ u[1] = t[1]
    <3>1. Len(u) > 0
      BY <1>4, <2>1, EmptySeq
    <3>2. Len(t) > 0 /\ 1 \in 1..f - 1
      BY <1>2, <1>3, <1>4, <3>1
    <3> QED  BY <1>4, <3>2, EmptySeq
  <2>2. ASSUME b = 1
        PROVE  u # <<>>
    <3>1. Len(u) > 0
      BY <1>3, <1>4, <1>5, <2>2
    <3> QED  BY <3>1, EmptySeq
  <2> QED  BY <1>1, <1>4, <2>1, <2>2, SignSame
<1>7. PICK d : d = From(u, b + 1)
  OBVIOUS
<1>8. /\ d \in Seq(Alphabet) /\ Len(d) = f - (b + 1)
      /\ \A i \in 1..f - (b + 1) : d[i] = t[b + i]
  <2>1. PICK c \in 1..Len(u) + 1 : c = b + 1
    BY <1>2, <1>3, <1>4, <1>5
  <2>2. /\ From(u, c) \in Seq(Alphabet)
        /\ Len(From(u, c)) = Len(u) + 1 - c
        /\ \A i \in 1..Len(u) + 1 - c : From(u, c)[i] = u[c + i - 1]
    <3>1. u \in Seq(Alphabet)
      BY <1>4
    <3> QED  BY <3>1, FromHas
  <2>3. Len(u) + 1 - c = f - (b + 1) /\ d = From(u, c)
    BY <1>2, <1>3, <1>4, <1>7, <2>1
  <2>4. ASSUME NEW i \in 1..f - (b + 1)
        PROVE  d[i] = t[b + i]
    <3>1. c + i - 1 = b + i /\ b + i \in 1..f - 1
      BY <1>2, <1>3, <2>1
    <3> QED  BY <1>4, <2>2, <2>3, <3>1
  <2> QED  BY <2>2, <2>3, <2>4
<1>9. d # <<>> <=> f > b + 1
  <2>1. d # <<>> <=> Len(d) > 0
    BY <1>8, EmptySeq
  <2> QED  BY <1>2, <1>3, <1>8, <2>1
<1>10. (\A i \in 1..Len(d) : IsDigit(d[i], base)) <=>
         \A j \in b + 1..f - 1 : IsDigit(t[j], base)
  <2>1. ASSUME \A i \in 1..Len(d) : IsDigit(d[i], base),
               NEW j \in b + 1..f - 1
        PROVE  IsDigit(t[j], base)
    <3>1. PICK i \in 1..f - (b + 1) : b + i = j
      BY <1>2, <1>3, <2>1
    <3> QED  BY <1>8, <2>1, <3>1
  <2>2. ASSUME \A j \in b + 1..f - 1 : IsDigit(t[j], base),
               NEW i \in 1..Len(d)
        PROVE  IsDigit(d[i], base)
    <3>1. i \in 1..f - (b + 1) /\ b + i \in b + 1..f - 1
      BY <1>2, <1>3, <1>8, <2>2
    <3> QED  BY <1>8, <2>2, <3>1
  <2> QED  BY <2>1, <2>2
<1>11. IsNumber(t, base) <=> /\ f > b + 1
                             /\ \A j \in b + 1..f - 1 : IsDigit(t[j], base)
  BY <1>1, NumberIs
<1> QED  BY <1>1, <1>6, <1>7, <1>9, <1>10, <1>11

LEMMA FieldsLeft ==
  ASSUME FieldsInv
  PROVE  lineFields \in Seq(Alphabet)
<1>1. start \in Seq(Alphabet) /\ Given
  BY DEF FieldsInv
<1>2. \A p \in Commas(start) \cup {0} : p \in 0..Len(start)
  BY <1>1, CommasFinite, LenProperties
<1>3. \A p \in Commas(start) \cup {0} : From(start, p + 1) \in Seq(Alphabet)
  BY <1>1, <1>2, CommasOfRest
<1> QED  BY <1>1, <1>3, EmptySeq DEF Given

\* InputFieldNum says true exactly when a sign and digits are all the field has.
THEOREM NumbersAreWhole == Spec => []NumberIsWhole
<1>1. FieldsInv => NumberIsWhole
  BY FieldsLeft, IsWhole DEF NumberIsWhole, Number
<1> QED  BY <1>1, FieldsInvariance, PTL

-----------------------------------------------------------------------------
(* The value of a number *)

\* Induction up to n, for a set: the theorems of the library want an operator.
LEMMA UpTo ==
  ASSUME NEW n \in Nat, NEW P, 0 \in P, \A i \in 1..n : i - 1 \in P => i \in P
  PROVE  \A i \in 0..n : i \in P
<1>1. PICK Missing : Missing = {i \in 0..n : i \notin P}
  OBVIOUS
<1>2. SUFFICES ASSUME Missing # {}
               PROVE  FALSE
  BY <1>1
<1>3. PICK m \in Missing : \A i \in Missing : m <= i
  <2>1. Missing \in SUBSET Nat
    BY <1>1
  <2> QED  BY <1>2, <2>1, Least
<1>4. m \in 0..n /\ m # 0 /\ m \notin P
  BY <1>1
<1>5. m \in 1..n /\ m - 1 \in 0..n /\ ~(m <= m - 1)
  BY <1>4
<1>6. m - 1 \in P
  BY <1>1, <1>3, <1>5
<1> QED  BY <1>4, <1>5, <1>6

\* f goes m steps from z on, each value given by the one before it.
Goes(f, m, z, next, S) ==
  /\ f \in [0..m -> S] /\ f[0] = z
  /\ \A i \in 1..m : f[i] = next[i][f[i - 1]]

LEMMA StepByStep ==
  ASSUME NEW S, NEW z \in S, NEW n \in Nat, NEW next \in [1..n -> [S -> S]]
  PROVE  \E f : Goes(f, n, z, next, S)
<1> DEFINE Is(f, m) == Goes(f, m, z, next, S)
<1>1. PICK P : P = {m \in 0..n : \E f : Is(f, m)}
  OBVIOUS
<1>2. 0 \in P
  <2>1. PICK f : f = [i \in 0..0 |-> z]
    OBVIOUS
  <2>2. Is(f, 0)
    BY <2>1 DEF Goes
  <2> HIDE DEF Is
  <2> QED  BY <1>1, <2>2
<1>3. ASSUME NEW m \in 1..n, m - 1 \in P
      PROVE  m \in P
  <2>1. PICK f : Is(f, m - 1)
    BY <1>1, <1>3
  <2>2. f[m - 1] \in S
    BY <2>1 DEF Goes
  <2>3. PICK x \in S : x = next[m][f[m - 1]]
    BY <2>2
  <2>4. PICK g : g = [i \in 0..m |-> IF i = m THEN x ELSE f[i]]
    OBVIOUS
  <2>5. ASSUME NEW i \in 0..m - 1
        PROVE  g[i] = f[i] /\ f[i] \in S
    BY <2>1, <2>4 DEF Goes
  <2>6. g \in [0..m -> S] /\ g[m] = x
    <3>1. m \in 0..m /\ \A i \in 0..m : i = m \/ i \in 0..m - 1
      OBVIOUS
    <3>2. g[m] = x
      BY <2>4, <3>1
    <3>3. \A i \in 0..m : g[i] \in S
      BY <2>5, <3>1, <3>2
    <3> QED  BY <2>4, <3>2, <3>3
  <2>7. ASSUME NEW i \in 1..m
        PROVE  g[i] = next[i][g[i - 1]]
    <3>1. i - 1 \in 0..m - 1 /\ g[i - 1] = f[i - 1]
      BY <2>5
    <3>2. CASE i = m
      BY <2>3, <2>6, <3>1, <3>2
    <3>3. CASE i # m
      <4>1. i \in 1..m - 1 /\ i \in 0..m - 1
        BY <3>3
      <4> QED  BY <2>1, <2>5, <3>1, <4>1 DEF Goes
    <3> QED  BY <3>2, <3>3
  <2>8. g[0] = z
    BY <2>1, <2>5 DEF Goes
  <2>9. Is(g, m)
    BY <2>6, <2>7, <2>8 DEF Goes
  <2> HIDE DEF Is
  <2> QED  BY <1>1, <2>9
<1>4. n \in P
  <2>1. \A i \in 0..n : i \in P
    BY <1>2, <1>3, UpTo
  <2> QED  BY <2>1
<1> QED  BY <1>1, <1>4

\* What is left of a division, with the quotient.
LEMMA Remainder ==
  ASSUME NEW m \in Nat \ {0}, NEW n \in Int
  PROVE  /\ n % m \in 0..m - 1
         /\ \E q \in Int : n % m = n + q * m
<1>1. n % m \in 0..m - 1 /\ n = (n \div m) * m + (n % m)
  OBVIOUS
<1>2. PICK q \in Int : q = -(n \div m)
  OBVIOUS
<1>3. n % m = n + q * m
  BY <1>1, <1>2
<1> QED  BY <1>1, <1>3

LEMMA Multiple ==
  ASSUME NEW m \in Nat \ {0}, NEW k \in Int
  PROVE  (k * m) % m = 0
OBVIOUS

LEMMA DigitIs ==
  ASSUME NEW base \in Base, NEW c, IsDigit(c, base)
  PROVE  DigitValue(c) \in Nat
<1>1. 1..base \subseteq 1..16
  BY DEF Base
<1>2. \E d \in 1..16 : c \in DigitChars[d]
  BY <1>1 DEF IsDigit
<1>3. PICK d : d = CHOOSE x \in 1..16 : c \in DigitChars[x]
  OBVIOUS
<1>4. d \in 1..16
  BY <1>2, <1>3
<1>5. DigitValue(c) = d - 1
  BY <1>3 DEF DigitValue
<1> QED  BY <1>4, <1>5

LEMMA DigitsAre ==
  ASSUME NEW t \in Seq(Alphabet), NEW base \in Base
  PROVE  /\ Len(Digits(t, base)) \in Nat
         /\ \A i \in 1..Len(Digits(t, base)) :
              DigitValue(Digits(t, base)[i]) \in Nat
<1>1. PICK b, e, d : /\ b = SignLength(t)
                     /\ e = NumberEnd(t, base)
                     /\ d = SubSeq(t, b + 1, e)
  OBVIOUS
<1>2. d = Digits(t, base)
  BY <1>1 DEF Digits
<1>3. b \in {0, 1} /\ Len(t) \in Nat
  BY <1>1, SignIs, LenProperties
<1>4. e \in b..Len(t) /\ \A j \in b + 1..e : IsDigit(t[j], base)
  BY <1>1, NumberEndIs
<1>5. /\ b + 1 \in Int /\ e \in Int
      /\ \A j \in b + 1..e : t[j] \in Alphabet
  BY <1>3, <1>4, ElementOfSeq
<1>6. /\ Len(SubSeq(t, b + 1, e)) =
           IF b + 1 <= e THEN e - (b + 1) + 1 ELSE 0
      /\ \A i \in 1..e - (b + 1) + 1 :
           SubSeq(t, b + 1, e)[i] = t[b + 1 + i - 1]
  BY <1>5, SubSeqProperties
<1>7. Len(d) = e - b /\ e - b \in Nat
  BY <1>1, <1>3, <1>4, <1>6
<1>8. ASSUME NEW i \in 1..Len(d)
      PROVE  DigitValue(d[i]) \in Nat
  <2>1. PICK j \in b + 1..e : j = b + 1 + i - 1 /\ i \in 1..e - (b + 1) + 1
    BY <1>3, <1>4, <1>7
  <2>2. d[i] = t[j] /\ IsDigit(t[j], base)
    BY <1>1, <1>4, <1>6, <2>1
  <2> QED  BY <2>2, DigitIs
<1> QED  BY <1>2, <1>7, <1>8

\* A place, and a register.
LEMMA ModulusIs == Modulus \in Nat \ {0} /\ Modulus = 2 * (MaxInt + 1)
BY FieldsAssumption DEF Modulus

LEMMA RegisterIs ==
  ASSUME NEW n \in Int
  PROVE  /\ Register(n) \in 0..Modulus - 1
         /\ \E q \in Int : Register(n) = n + q * Modulus
BY Remainder, ModulusIs DEF Register

\* What the loop over the digits has after each of them.
LEMMA AccumulatedIs ==
  ASSUME NEW digits, NEW base \in Nat, Len(digits) \in Nat,
         \A i \in 1..Len(digits) : DigitValue(digits[i]) \in Nat
  PROVE  \E f \in [0..Len(digits) -> Int] :
           /\ Accumulated(digits, base) = f[Len(digits)]
           /\ f[0] = 0
           /\ \A i \in 1..Len(digits) :
                f[i] = Register(f[i - 1] * base + DigitValue(digits[i]))
<1>1. PICK n \in Nat : n = Len(digits)
  OBVIOUS
<1> DEFINE Step(x, i) == Register(x * base + DigitValue(digits[i]))
           Is(f) == f = [i \in 0..n |-> IF i = 0 THEN 0 ELSE Step(f[i - 1], i)]
<1>2. ASSUME NEW x \in Int, NEW i \in 1..n
      PROVE  Step(x, i) \in Int
  <2>1. x * base + DigitValue(digits[i]) \in Int
    BY <1>1
  <2> QED  BY <2>1, RegisterIs, ModulusIs
<1> HIDE DEF Step
<1>3. PICK next : next = [i \in 1..n |-> [x \in Int |-> Step(x, i)]]
  OBVIOUS
<1>4. /\ next \in [1..n -> [Int -> Int]]
      /\ \A i \in 1..n : \A x \in Int : next[i][x] = Step(x, i)
  BY <1>2, <1>3
<1>5. PICK g : Goes(g, n, 0, next, Int)
  <2>1. 0 \in Int /\ next \in [1..n -> [Int -> Int]]
    BY <1>4
  <2> QED  BY <2>1, StepByStep
<1>6. \A i \in 1..n : i - 1 \in 0..n /\ i # 0
  OBVIOUS
<1>7. \A i \in 1..n : g[i] = Step(g[i - 1], i)
  BY <1>4, <1>5, <1>6 DEF Goes
<1>8. \A i \in 0..n : i = 0 \/ i \in 1..n
  OBVIOUS
<1>9. \A i \in 0..n : g[i] = IF i = 0 THEN 0 ELSE Step(g[i - 1], i)
  BY <1>5, <1>7, <1>8 DEF Goes
<1>10. g = [i \in 0..n |-> g[i]]
  BY <1>5 DEF Goes
<1>11. Is(g)
  BY <1>9, <1>10
<1>12. PICK f : f = CHOOSE h : Is(h)
  OBVIOUS
<1>13. Is(f)
  <2> HIDE DEF Is
  <2> QED  BY <1>11, <1>12
<1>14. f[n] = Accumulated(digits, base)
  BY <1>1, <1>12 DEF Accumulated, Step
<1>15. /\ f[0] = 0
       /\ \A i \in 1..n : f[i] = Step(f[i - 1], i)
  BY <1>13
<1>16. \A i \in 0..n : f[i] \in Int
  <2>1. PICK P : P = {i \in 0..n : f[i] \in Int}
    OBVIOUS
  <2>2. 0 \in P
    BY <1>15, <2>1
  <2>3. ASSUME NEW i \in 1..n, i - 1 \in P
        PROVE  i \in P
    <3>1. PICK x \in Int : x = f[i - 1] /\ f[i] = Step(x, i)
      BY <1>15, <2>1, <2>3
    <3>2. f[i] \in Int
      BY <1>2, <3>1
    <3> QED  BY <2>1, <3>2
  <2> QED  BY <2>1, <2>2, <2>3, UpTo
<1>17. f \in [0..n -> Int]
  BY <1>13, <1>16
<1> QED  BY <1>1, <1>14, <1>15, <1>17 DEF Step

\* What the last digits mean, and the worth of the place before them.
Tails(f, digits, base, n) ==
  /\ f \in [0..n -> [sum : Int, place : Int]]
  /\ Value(digits, base) = f[n].sum
  /\ f[0] = [sum |-> 0, place |-> 1]
  /\ \A i \in 1..n :
       /\ f[i].sum = f[i - 1].sum
                       + DigitValue(digits[n + 1 - i]) * f[i - 1].place
       /\ f[i].place = base * f[i - 1].place

LEMMA ValueIs ==
  ASSUME NEW digits, NEW base \in Nat, Len(digits) \in Nat,
         \A i \in 1..Len(digits) : DigitValue(digits[i]) \in Nat
  PROVE  \E f : Tails(f, digits, base, Len(digits))
<1>1. PICK n \in Nat : n = Len(digits)
  OBVIOUS
<1> DEFINE Part == [sum : Int, place : Int]
           Last == [sum |-> 0, place |-> 1]
           Step(x, i) ==
             [sum |-> x.sum + DigitValue(digits[n + 1 - i]) * x.place,
              place |-> base * x.place]
           Is(f) == f = [i \in 0..n |-> IF i = 0 THEN Last ELSE Step(f[i - 1], i)]
<1>2. ASSUME NEW x \in Part, NEW i \in 1..n
      PROVE  Step(x, i) \in Part
  <2>1. n + 1 - i \in 1..n
    OBVIOUS
  <2>2. DigitValue(digits[n + 1 - i]) \in Nat
    BY <1>1, <2>1
  <2>3. x.sum \in Int /\ x.place \in Int
    OBVIOUS
  <2>4. /\ x.sum + DigitValue(digits[n + 1 - i]) * x.place \in Int
        /\ base * x.place \in Int
    BY <2>2, <2>3
  <2> QED  BY <2>4
<1>3. Last \in Part
  OBVIOUS
<1>4. ASSUME NEW x, NEW i
      PROVE  /\ Step(x, i).sum =
                  x.sum + DigitValue(digits[n + 1 - i]) * x.place
             /\ Step(x, i).place = base * x.place
  OBVIOUS
<1> HIDE DEF Step, Part, Last
<1>5. PICK next : next = [i \in 1..n |-> [x \in Part |-> Step(x, i)]]
  OBVIOUS
<1>6. /\ next \in [1..n -> [Part -> Part]]
      /\ \A i \in 1..n : \A x \in Part : next[i][x] = Step(x, i)
  BY <1>2, <1>5
<1>7. PICK g : Goes(g, n, Last, next, Part)
  <2>1. Last \in Part /\ next \in [1..n -> [Part -> Part]]
    BY <1>3, <1>6
  <2> QED  BY <2>1, StepByStep
<1>8. \A i \in 1..n : i - 1 \in 0..n /\ i # 0
  OBVIOUS
<1>9. \A i \in 1..n : g[i] = Step(g[i - 1], i)
  BY <1>6, <1>7, <1>8 DEF Goes
<1>10. \A i \in 0..n : i = 0 \/ i \in 1..n
  OBVIOUS
<1>11. \A i \in 0..n : g[i] = IF i = 0 THEN Last ELSE Step(g[i - 1], i)
  BY <1>7, <1>9, <1>10 DEF Goes
<1>12. g = [i \in 0..n |-> g[i]]
  BY <1>7 DEF Goes
<1>13. Is(g)
  BY <1>11, <1>12
<1>14. PICK f : f = CHOOSE h : Is(h)
  OBVIOUS
<1>15. Is(f)
  <2> HIDE DEF Is
  <2> QED  BY <1>13, <1>14
<1>16. f[n].sum = Value(digits, base)
  BY <1>1, <1>14 DEF Value, Step, Last
<1>17. /\ f[0] = Last
       /\ \A i \in 1..n : f[i] = Step(f[i - 1], i)
  BY <1>15
<1>18. \A i \in 0..n : f[i] \in Part
  <2>1. PICK P : P = {i \in 0..n : f[i] \in Part}
    OBVIOUS
  <2>2. 0 \in P
    BY <1>3, <1>17, <2>1
  <2>3. ASSUME NEW i \in 1..n, i - 1 \in P
        PROVE  i \in P
    BY <1>2, <1>17, <2>1, <2>3
  <2> QED  BY <2>1, <2>2, <2>3, UpTo
<1>19. f \in [0..n -> Part]
  BY <1>15, <1>18
<1>20. ASSUME NEW i \in 1..n
       PROVE  /\ f[i].sum = f[i - 1].sum
                   + DigitValue(digits[n + 1 - i]) * f[i - 1].place
              /\ f[i].place = base * f[i - 1].place
  BY <1>4, <1>17
<1> QED  BY <1>1, <1>16, <1>17, <1>19, <1>20 DEF Tails, Part, Last

\* One digit more: what has been accumulated, at the worth of the digits that
\* follow, and these together stay the same but for multiples of m.
LEMMA Horner ==
  ASSUME NEW m \in Nat, NEW v \in Int, NEW d \in Int, NEW base \in Int,
         NEW place \in Int, NEW sum \in Int, NEW q \in Int, NEW r \in Int,
         NEW total \in Int,
         v * (base * place) + (sum + d * place) = total + r * m
  PROVE  ((v * base + d) + q * m) * place + sum = total + (r + q * place) * m
<1>1. ((v * base + d) + q * m) * place
        = v * base * place + d * place + q * m * place
  OBVIOUS
<1>2. v * (base * place) = v * base * place
  OBVIOUS
<1>3. (r + q * place) * m = r * m + q * m * place
  OBVIOUS
<1> QED  BY <1>1, <1>2, <1>3

\* The loop computes what the digits mean, but for multiples of Modulus.
LEMMA AccumulatedMeans ==
  ASSUME NEW digits, NEW base \in Nat, Len(digits) \in Nat,
         \A i \in 1..Len(digits) : DigitValue(digits[i]) \in Nat
  PROVE  /\ Accumulated(digits, base) \in Int /\ Value(digits, base) \in Int
         /\ \E r \in Int : Accumulated(digits, base)
                             = Value(digits, base) + r * Modulus
<1>1. PICK n \in Nat : n = Len(digits)
  OBVIOUS
<1>2. PICK f \in [0..n -> Int] :
        /\ Accumulated(digits, base) = f[n]
        /\ f[0] = 0
        /\ \A i \in 1..n :
             f[i] = Register(f[i - 1] * base + DigitValue(digits[i]))
  BY <1>1, AccumulatedIs
<1>3. PICK g \in [0..n -> [sum : Int, place : Int]] :
        /\ Value(digits, base) = g[n].sum
        /\ g[0] = [sum |-> 0, place |-> 1]
        /\ \A i \in 1..n :
             /\ g[i].sum = g[i - 1].sum
                  + DigitValue(digits[n + 1 - i]) * g[i - 1].place
             /\ g[i].place = base * g[i - 1].place
  <2>1. PICK g : Tails(g, digits, base, n)
    BY <1>1, ValueIs
  <2> QED  BY <2>1 DEF Tails
<1>4. PICK m, total : m = Modulus /\ total = Value(digits, base)
  OBVIOUS
<1>5. m \in Nat /\ total \in Int
  <2>1. n \in 0..n
    OBVIOUS
  <2>2. g[n] \in [sum : Int, place : Int]
    BY <2>1
  <2> QED  BY <1>3, <1>4, <2>2, ModulusIs
<1> DEFINE Whole(i) == f[i] * g[n - i].place + g[n - i].sum
<1>6. PICK P : P = {i \in 0..n : \E r \in Int : Whole(i) = total + r * m}
  OBVIOUS
<1>7. 0 \in P
  <2>1. n \in 0..n /\ n - 0 = n
    OBVIOUS
  <2>2. g[n].place \in Int /\ g[n].sum \in Int
    BY <2>1
  <2>3. f[0] * g[n].place + g[n].sum = total + 0 * m
    BY <1>2, <1>3, <1>4, <1>5, <2>2
  <2>4. Whole(0) = total + 0 * m
    BY <2>1, <2>3
  <2> QED  BY <1>6, <2>4
<1>8. ASSUME NEW i \in 1..n, i - 1 \in P
      PROVE  i \in P
  <2>1. PICK r \in Int : Whole(i - 1) = total + r * m
    BY <1>6, <1>8
  <2>2. PICK j \in 1..n : j = n - (i - 1)
    OBVIOUS
  <2>3. /\ i - 1 \in 0..n /\ j \in 0..n /\ j - 1 \in 0..n
        /\ j - 1 = n - i /\ n + 1 - j = i
    BY <2>2
  <2>4. PICK v \in Int, d \in Int, place \in Int, sum \in Int :
          /\ v = f[i - 1] /\ d = DigitValue(digits[i])
          /\ place = g[j - 1].place /\ sum = g[j - 1].sum
    <3>1. f[i - 1] \in Int /\ DigitValue(digits[i]) \in Int
      <4>1. i \in 1..Len(digits)
        BY <1>1
      <4>2. DigitValue(digits[i]) \in Nat
        BY <4>1
      <4> QED  BY <2>3, <4>2
    <3>2. g[j - 1].place \in Int /\ g[j - 1].sum \in Int
      BY <2>3
    <3> QED  BY <3>1, <3>2
  <2>5. g[j].sum = sum + d * place /\ g[j].place = base * place
    BY <1>3, <2>2, <2>3, <2>4
  <2>6. v * (base * place) + (sum + d * place) = total + r * m
    BY <2>1, <2>2, <2>4, <2>5
  <2>7. PICK q \in Int : f[i] = (v * base + d) + q * m
    <3>1. v * base + d \in Int
      OBVIOUS
    <3>2. f[i] = Register(v * base + d)
      BY <1>2, <2>4
    <3> QED  BY <1>4, <3>1, <3>2, RegisterIs
  <2>8. f[i] * place + sum = total + (r + q * place) * m
    BY <1>5, <2>6, <2>7, Horner
  <2>9. Whole(i) = f[i] * place + sum
    BY <2>3, <2>4
  <2>10. r + q * place \in Int
    OBVIOUS
  <2>11. \E k \in Int : Whole(i) = total + k * m
    BY <2>8, <2>9, <2>10
  <2> HIDE DEF Whole
  <2> QED  BY <1>6, <2>11
<1>9. n \in P
  <2> HIDE DEF Whole
  <2>1. \A i \in 0..n : i \in P
    BY <1>7, <1>8, UpTo
  <2> QED  BY <2>1
<1>10. PICK r \in Int : Whole(n) = total + r * m
  BY <1>6, <1>9
<1>11. Whole(n) = f[n] /\ f[n] \in Int
  <2>1. n - n = 0 /\ n \in 0..n
    OBVIOUS
  <2>2. f[n] \in Int /\ g[n - n].place = 1 /\ g[n - n].sum = 0
    BY <1>3, <2>1
  <2> QED  BY <2>2
<1> QED  BY <1>2, <1>4, <1>5, <1>10, <1>11

\* A register read as an int.
LEMMA AsIntIs ==
  ASSUME NEW n \in Int
  PROVE  /\ AsInt(Register(n)) \in -MaxInt - 1..MaxInt
         /\ \E q \in Int : AsInt(Register(n)) = n + q * Modulus
<1>1. PICK m, x, k : m = Modulus /\ x = Register(n) /\ k = MaxInt
  OBVIOUS
<1>2. m \in Nat /\ k \in Nat /\ m = 2 * (k + 1)
  BY <1>1, ModulusIs, FieldsAssumption
<1>3. PICK q \in Int : x = n + q * m
  BY <1>1, RegisterIs
<1>4. x \in 0..m - 1
  BY <1>1, RegisterIs
<1>5. PICK a : a = AsInt(x)
  OBVIOUS
<1>6. a = IF x <= k THEN x ELSE x - m
  BY <1>1, <1>5 DEF AsInt
<1>7. a \in -k - 1..k
  BY <1>2, <1>4, <1>6
<1>8. x - m = n + (q - 1) * m
  BY <1>2, <1>3
<1>9. \E p \in Int : a = n + p * m
  BY <1>3, <1>6, <1>8
<1> QED  BY <1>1, <1>5, <1>7, <1>9

LEMMA NumberIsMeant ==
  ASSUME NEW t \in Seq(Alphabet), NEW base \in Base
  PROVE  /\ Number(t, base).res \in -MaxInt - 1..MaxInt
         /\ (Number(t, base).res - Meant(t, base)) % Modulus = 0
<1>1. PICK digits : digits = Digits(t, base)
  OBVIOUS
<1>2. base \in Nat
  BY DEF Base
<1>3. /\ Len(digits) \in Nat
      /\ \A i \in 1..Len(digits) : DigitValue(digits[i]) \in Nat
  BY <1>1, DigitsAre
<1>4. PICK n \in Int, v \in Int, r \in Int :
        /\ n = Accumulated(digits, base) /\ v = Value(digits, base)
        /\ n = v + r * Modulus
  BY <1>2, <1>3, AccumulatedMeans
<1>5. PICK m \in Nat \ {0} : m = Modulus
  BY ModulusIs
<1>6. PICK x \in Int, y \in Int : /\ x = IF Negative(t) THEN -n ELSE n
                                 /\ y = IF Negative(t) THEN -v ELSE v
  <2>1. -n \in Int /\ -v \in Int
    OBVIOUS
  <2>2. CASE Negative(t)
    BY <2>1, <2>2
  <2>3. CASE ~Negative(t)
    BY <2>3
  <2> QED  BY <2>2, <2>3
<1>7. PICK p \in Int : x = y + p * m
  <2>1. -n = -v + (-r) * m /\ -r \in Int
    BY <1>4, <1>5
  <2>2. CASE Negative(t)
    BY <1>6, <2>1, <2>2
  <2>3. CASE ~Negative(t)
    BY <1>4, <1>5, <1>6, <2>3
  <2> QED  BY <2>2, <2>3
<1>8. PICK res : res = AsInt(Register(x))
  OBVIOUS
<1>9. Number(t, base).res = res
  BY <1>1, <1>4, <1>6, <1>8 DEF Number
<1>10. Meant(t, base) = y
  BY <1>1, <1>4, <1>6 DEF Meant
<1>11. res \in -MaxInt - 1..MaxInt
  BY <1>8, AsIntIs
<1>12. PICK q \in Int : res = x + q * m
  BY <1>5, <1>8, AsIntIs
<1>13. res - y = (p + q) * m
  BY <1>7, <1>12
<1>14. ((p + q) * m) % m = 0
  <2>1. PICK k \in Int : k = p + q
    OBVIOUS
  <2>2. (k * m) % m = 0
    BY Multiple
  <2> QED  BY <2>1, <2>2
<1> QED  BY <1>5, <1>9, <1>10, <1>11, <1>13, <1>14

\* What InputFieldNum and InputFieldHex put out is what the digits mean, as far
\* as an int can say it, whatever follows them and however large an int is.
THEOREM NumbersAreMeant == Spec => []NumberMeant
<1>1. FieldsInv => NumberMeant
  BY FieldsLeft, NumberIsMeant DEF NumberMeant
<1> QED  BY <1>1, FieldsInvariance, PTL

=============================================================================
