------------------------------- MODULE Fields -------------------------------
(***************************************************************************)
(* How a line of the modem is taken apart: RxTask's search for the header  *)
(* it hashes, and InputFieldCount, InputFieldNum and InputFieldFnv, which  *)
(* the handlers call on what is left.  A hash is the text hashed; an int   *)
(* goes from -MaxInt - 1 to MaxInt.                                        *)
(*                                                                         *)
(*   line         the line, without its end                                *)
(*   header       the text hashed, once it is found                        *)
(*   start        the fields of the line                                   *)
(*   lineFields   what the handlers have not read of them                  *)
(*   read, last   how many fields have been read, and what the last call   *)
(*                has returned                                             *)
(***************************************************************************)
EXTENDS Integers, Sequences, FiniteSetsExt, TLC

CONSTANTS
  Alphabet,   \* characters in lines
  MaxLength,  \* bound: characters in a line
  MaxInt      \* the largest int

ASSUME FieldsAssumption ==
  /\ MaxLength \in Nat /\ MaxInt \in Nat

VARIABLES line, header, start, lineFields, read, last

vars == <<line, header, start, lineFields, read, last>>

Text == UNION {[1..n -> Alphabet] : n \in 0..MaxLength}

\* The text from its i-th character on.
From(t, i) == SubSeq(t, i, Len(t))

Positions(t, c) == {i \in 1..Len(t) : t[i] = c}

-----------------------------------------------------------------------------
(* Headers *)

Decimal == {"0", "1", "2", "3", "4", "5", "6", "7", "8", "9"}

\* Slip: a comma always ends the header.
RestartsNever(s) == FALSE

Restarts(s) == s.digitsOnly

\* What the scan has up to and including the i-th character, from what it had
\* before: where the header starts, whether only digits have come, and where it
\* ended (0: not yet).  Past digits and a comma, as in "0, CONNECT OK", it
\* starts again, and skips a space.
Scanned(t, s, i) ==
  IF s.end # 0 THEN s
  ELSE CASE t[i] = ":" -> [s EXCEPT !.end = i]
         [] t[i] = "," /\ Restarts(s) -> [s EXCEPT !.start = i + 1]
         [] t[i] = "," /\ ~Restarts(s) -> [s EXCEPT !.end = i]
         [] t[i] = " " /\ s.start = i /\ i > 1 /\ t[i - 1] = ","
           -> [s EXCEPT !.start = i + 1]
         [] OTHER -> [s EXCEPT !.digitsOnly = @ /\ t[i] \in Decimal]

Scan(t) ==
  LET scan[i \in 0..Len(t)] ==
        IF i = 0 THEN [start |-> 1, digitsOnly |-> TRUE, end |-> 0]
        ELSE Scanned(t, scan[i - 1], i)
  IN  scan[Len(t)]

\* A comma that ends the header belongs to it.
Header(t) ==
  LET s == Scan(t)
  IN  IF s.end = 0 THEN From(t, s.start)
      ELSE SubSeq(t, s.start, IF t[s.end] = "," THEN s.end ELSE s.end - 1)

\* A colon is skipped with a space after it.
WithoutColon(t) ==
  LET spaced == Len(t) > 1 /\ t[2] = " "
  IN  IF t # <<>> /\ t[1] = ":" THEN From(t, IF spaced THEN 3 ELSE 2) ELSE t

\* The search ends at a colon or past a comma; either way a colon is looked for.
AfterHeader(t) ==
  LET s == Scan(t)
  IN  IF s.end = 0 THEN <<>>
      ELSE WithoutColon(From(t, IF t[s.end] = "," THEN s.end + 1 ELSE s.end))

-----------------------------------------------------------------------------
(* Fields *)

\* Slip: the last field is not counted.
CommaCount(t) == Cardinality(Positions(t, ","))

InputFieldCount(t) ==
  IF t = <<>> THEN 0 ELSE Cardinality(Positions(t, ",")) + 1

\* The end of the first field, and what follows its comma.
FieldEnd(t) == Min(Positions(t, ",") \cup {Len(t) + 1})
NextFields(t) == From(t, FieldEnd(t) + 1)

\* The characters of each digit; the letters that follow are too large for any
\* base in use.
DigitChars ==
  <<{"0"}, {"1"}, {"2"}, {"3"}, {"4"}, {"5"}, {"6"}, {"7"}, {"8"}, {"9"},
    {"a", "A"}, {"b", "B"}, {"c", "C"}, {"d", "D"}, {"e", "E"}, {"f", "F"}>>

Base == {10, 16}

IsDigit(c, base) == \E d \in 1..base : c \in DigitChars[d]
DigitValue(c) == (CHOOSE d \in 1..16 : c \in DigitChars[d]) - 1

\* A sign is skipped; '-' is remembered.
Negative(t) == t # <<>> /\ t[1] = "-"
SignLength(t) == IF t # <<>> /\ t[1] \in {"+", "-"} THEN 1 ELSE 0

\* Where the number ends that starts after the sign.
NumberEnd(t, base) ==
  Max({i \in SignLength(t)..Len(t) :
         \A j \in SignLength(t) + 1..i : IsDigit(t[j], base)})

Digits(t, base) == SubSeq(t, SignLength(t) + 1, NumberEnd(t, base))

\* How many values a register has.
Modulus == 2 * (MaxInt + 1)

\* Slip: it is cut to its width once, having been rounded off before.
Saturated(n) == IF n < Modulus THEN n ELSE Modulus - 1

\* What an unsigned register keeps of n, and the int it is read as.
Register(n) == n % Modulus
AsInt(n) == IF n <= MaxInt THEN n ELSE n - Modulus

\* "res * base + digit" for each of the digits in turn.
Accumulated(digits, base) ==
  LET value[i \in 0..Len(digits)] ==
        IF i = 0 THEN 0
        ELSE Register(value[i - 1] * base + DigitValue(digits[i]))
  IN  value[Len(digits)]

\* Slip: the rest of the field is left for the next call.
AfterNumber(t, base) ==
  LET e == NumberEnd(t, base)
  IN  IF e < Len(t) /\ t[e + 1] = "," THEN From(t, e + 2) ELSE From(t, e + 1)

AfterField(t, base) == NextFields(t)

\* Slip: what comes after the digits is not looked at.
BeginsWithNumber(t, base) == NumberEnd(t, base) > SignLength(t)

IsNumber(t, base) ==
  NumberEnd(t, base) > SignLength(t) /\ NumberEnd(t, base) = FieldEnd(t) - 1

\* The number read, and whether it is one.  A number that is followed by
\* something else is given all the same.
Number(t, base) ==
  [res |-> LET n == Accumulated(Digits(t, base), base)
           IN  AsInt(Register(IF Negative(t) THEN -n ELSE n)),
   ok |-> IsNumber(t, base)]

-----------------------------------------------------------------------------
(* The handlers' calls *)

NoHeader == <<"?">>

\* RxTask has a line.
OnLine ==
  /\ header = NoHeader
  /\ header' = Header(line)
  /\ start' = AfterHeader(line) /\ lineFields' = start'
  /\ UNCHANGED <<line, read, last>>

InputFieldNum(base) ==
  /\ header # NoHeader /\ read <= MaxLength
  /\ last' = Number(lineFields, base) @@ [text |-> <<>>]
  /\ lineFields' = AfterField(lineFields, base)
  /\ read' = read + 1
  /\ UNCHANGED <<line, header, start>>

\* The whole field, whatever it is; there is always one.
InputFieldFnv ==
  /\ header # NoHeader /\ read <= MaxLength
  /\ last' = [ok |-> TRUE, res |-> 0,
              text |-> SubSeq(lineFields, 1, FieldEnd(lineFields) - 1)]
  /\ lineFields' = NextFields(lineFields)
  /\ read' = read + 1
  /\ UNCHANGED <<line, header, start>>

\* Spaces before a line are skipped, and it is not empty.
Init ==
  /\ line \in {t \in Text : t # <<>> /\ t[1] # " "}
  /\ header = NoHeader /\ start = <<>> /\ lineFields = <<>>
  /\ read = 0 /\ last = [ok |-> FALSE, res |-> 0, text |-> <<>>]

Next == OnLine \/ InputFieldFnv \/ \E base \in Base : InputFieldNum(base)

Spec == Init /\ [][Next]_vars

=============================================================================
