-------------------------- MODULE FieldsProperties --------------------------
(***************************************************************************)
(* What the line parser is meant to compute, said without its loops.       *)
(***************************************************************************)
EXTENDS Fields

\* A line may begin with channel numbers, each with a comma and a space; what
\* follows is its header up to a colon, or up to and with a comma.
PrefixEnds ==
  {0} \cup {k \in Positions(line, ",") :
              \A i \in 1..k : \/ line[i] \in Decimal \cup {","}
                              \/ i > 1 /\ line[i] = " " /\ line[i - 1] = ","}

Body ==
  LET k == Max(PrefixEnds)
  IN  From(line, IF k > 0 /\ k < Len(line) /\ line[k + 1] = " " THEN k + 2
                 ELSE k + 1)

HeaderEnds == Positions(Body, ":") \cup Positions(Body, ",")

\* How much of the body comes before the fields: a header of h characters, with
\* its comma if it has one, then a colon and a space.
FieldsBegin(h) ==
  LET colon == IF h < Len(Body) /\ Body[h + 1] = ":" THEN 1 ELSE 0
      space == IF colon = 1 /\ h + 1 < Len(Body) /\ Body[h + 2] = " " THEN 1
               ELSE 0
  IN  h + colon + space

\* The header looked up and the fields handed to the handlers are those of the
\* line, with and without a channel before the header.
HeaderFound ==
  header # NoHeader =>
    IF HeaderEnds = {} THEN header = Body /\ start = <<>>
    ELSE LET e == Min(HeaderEnds)
             h == IF Body[e] = "," THEN e ELSE e - 1
         IN  /\ header = SubSeq(Body, 1, h)
             /\ start = From(Body, FieldsBegin(h) + 1)

\* Whatever the fields contain and however they are read, n calls read n fields:
\* a number that breaks off does not shift the ones after it.
FieldsInStep ==
  LET commas == Positions(start, ",")
      next(i) == Cardinality({c \in commas : c < i}) = read
  IN  lineFields = IF read = 0 THEN start
                   ELSE IF Cardinality(commas) < read THEN <<>>
                   ELSE From(start, CHOOSE i \in 1..Len(start) + 1 :
                                      i - 1 \in commas /\ next(i))

\* The count taken before reading (SimComModem.cpp:866 and 999 decide by it) is
\* the number of calls that use the line up, at any point of it.
CountIsLeft ==
  /\ lineFields # <<>> =>
       InputFieldCount(lineFields) = InputFieldCount(start) - read
  /\ read >= InputFieldCount(start) => lineFields = <<>>

\* What digits mean: each is worth what its place is worth, the last one 1 and
\* every other base times the next one.
Value(digits, base) ==
  LET n == Len(digits)
      tail[i \in 0..n] ==
        IF i = 0 THEN [sum |-> 0, place |-> 1]
        ELSE [sum |-> tail[i - 1].sum
                        + DigitValue(digits[n + 1 - i]) * tail[i - 1].place,
              place |-> base * tail[i - 1].place]
  IN  tail[n].sum

\* The number written before the first character that is not part of it.
Meant(t, base) ==
  LET n == Value(Digits(t, base), base)
  IN  IF Negative(t) THEN -n ELSE n

\* Numbers come out as written, modulo the width of an int, also when something
\* else follows them in their field (SimComModem.cpp:1070 depends on it).
NumberMeant ==
  \A base \in Base :
    LET res == Number(lineFields, base).res
    IN  /\ res \in -MaxInt - 1..MaxInt
        /\ (res - Meant(lineFields, base)) % Modulus = 0

\* They are called numbers exactly when a sign and digits are all their field
\* has: the handlers that answer the modem's text by it (SimComModem.cpp:999)
\* never take the beginning of a word, or of the next field, for a number.
NumberIsWhole ==
  \A base \in Base :
    LET field == SubSeq(lineFields, 1, FieldEnd(lineFields) - 1)
        digits == From(field, SignLength(field) + 1)
    IN  Number(lineFields, base).ok <=>
          /\ digits # <<>>
          /\ \A i \in 1..Len(digits) : IsDigit(digits[i], base)

=============================================================================
