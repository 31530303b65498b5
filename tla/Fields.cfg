\* Decimal and hexadecimal digits, a sign, a space and both separators; integers
\* two digits overflow.
CONSTANTS
  Alphabet = {"1", "9", "f", "-", " ", ":", ","}
  MaxLength = 5
  MaxInt = 31

SPECIFICATION Spec

INVARIANTS
  HeaderFound
  FieldsInStep
  CountIsLeft
  NumberMeant
  NumberIsWhole

\* A line ends.
CHECK_DEADLOCK FALSE
