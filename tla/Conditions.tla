----------------------------- MODULE Conditions -----------------------------
(***************************************************************************)
(* How one condition of a filter is evaluated on a row (keti/filter.cc,    *)
(* the cases GE ... NE, BETWEEN and IN of BlockFilter with typeLittle,     *)
(* typeBig, typeDecimal, ItoDec, InOperator and BetweenOperator): which    *)
(* operand is taken for a column and which for a constant, and what is     *)
(* compared in the end.                                                    *)
(*                                                                         *)
(* A text is a sequence of characters and a number a sequence of one       *)
(* number; a constant's text carries a mark in front, which substr(1)      *)
(* removes.  A column's name is never looked into, so a column operand     *)
(* only carries what the row has: the bytes of an INT or DATE column, the  *)
(* characters of a CHAR column, the binary form of a DECIMAL column.       *)
(* typeDecimal writes the latter with two hexadecimal digits to the byte,  *)
(* and texts of one length in these digits are in the order of the numbers *)
(* they are made of: here a text has one number for the sign, for the      *)
(* digits before the last nine, for the last nine and for the fraction.    *)
(***************************************************************************)
EXTENDS Integers, Sequences

CONSTANTS
    Digits,     \* the characters of numbers
    Letters,    \* the other characters
    Texts,      \* the texts of CHAR columns and constants
    Ints,       \* the numbers of INT columns and of constants
    Dates,      \* the numbers of DATE columns
    Decimals,   \* the values of DECIMAL columns and constants, in units of their fraction
    Byte,       \* the values of a byte, 256
    Group,      \* the values of nine decimal digits, 10^9
    Fraction    \* the values of the digits of the fraction, 100

Mark == 0     \* '+' in front of a constant
Sign == 128   \* 0x80, the first byte of a decimal that is not negative
IntSize == 4  \* the bytes of an INT
DateSize == 3 \* the bytes of a DATE

IntMod == Byte * Byte * Byte * Byte

ASSUME CharactersAssumption ==
    /\ Digits \subseteq Nat \ {0}
    /\ Letters \subseteq Nat \ {0}
    /\ Digits \cap Letters = {}
    /\ Texts \subseteq Seq(Letters)

ASSUME NumbersAssumption ==
    /\ Byte \in Nat \ {0, 1}
    /\ Ints \subseteq Int /\ \A n \in Ints : -IntMod <= 2 * n /\ 2 * n < IntMod
    /\ Dates \subseteq 0 .. Byte * Byte * Byte - 1
    /\ Group \in 1 .. IntMod
    /\ Fraction \in 1 .. Byte
    /\ Decimals \subseteq Int

Orders == {"GE", "LE", "GT", "LT", "ET", "NE"}
Families == {"int", "char", "decimal"}

Digit == {<<d>> : d \in Digits}

\* A row holds an INT or DATE with its lowest byte first.
RowBytes(n, size) ==
    [k \in 1 .. size |->
        LET place == CASE k = 1 -> 1 [] k = 2 -> Byte [] k = 3 -> Byte * Byte
                       [] k = 4 -> Byte * Byte * Byte
        IN  ((n % IntMod) \div place) % Byte]

\* The binary form of a decimal; that of a negative one is the complement.
RowDecimal(x) ==
    LET a == IF x < 0 THEN -x ELSE x
        hi == (a \div Fraction) \div Group
        lo == (a \div Fraction) % Group
    IN  IF x >= 0
        THEN <<Sign, hi, lo, a % Fraction>>
        ELSE <<Sign - 1, Byte - 1 - hi, IntMod - 1 - lo, Byte - 1 - (a % Fraction)>>

\* What an operand may be, by the type of the columns of its condition.
ColumnOf(family) ==
    CASE family = "int" ->
           [kind : {"intcol"}, val : {RowBytes(n, IntSize) : n \in Ints}
                                       \cup {RowBytes(n, DateSize) : n \in Dates}]
      [] family = "char" -> [kind : {"charcol"}, val : Texts]
      [] family = "decimal" -> [kind : {"deccol"}, val : {RowDecimal(x) : x \in Decimals}]

Number == [kind : {"intconst"}, val : {<<n>> : n \in Ints}]

Constant(family) ==
    CASE family = "int" ->
           Number \cup [kind : {"text"}, val : {<<Mark, x>> : x \in Digits \cup Letters}]
      [] family = "char" -> [kind : {"text"}, val : {<<Mark>> \o t : t \in Texts}]
      [] family = "decimal" ->
           Number \cup [kind : {"text"}, val : {<<Mark>> \o RowDecimal(x) : x \in Decimals}]

\* Number constants among the bounds of a BETWEEN on decimals, which are compared
\* as texts, are numbers of one digit.
Bound(family) ==
    {o \in Constant(family) : family = "decimal" /\ o.kind = "intconst" => o.val \in Digit}

\* A list of IN may mix columns of numbers.
Element(family) ==
    Constant(family) \cup IF family = "char" THEN ColumnOf(family)
                          ELSE ColumnOf("int") \cup ColumnOf("decimal")

VARIABLES
    family,  \* the type of the columns of the condition
    op,      \* OPERATOR
    LV,      \* the left operand
    RVs,     \* the right operand, or the list EXTRA
    CV,      \* the result of the operation
    phase    \* "evaluate" or "done"

condVars == <<family, op, LV, RVs, CV, phase>>

CondInit ==
    /\ family \in Families
    /\ phase = "evaluate"
    /\ CV \in BOOLEAN
    /\ \/ /\ op \in Orders
          /\ \/ /\ LV \in ColumnOf(family)
                /\ \E o \in ColumnOf(family) \cup Constant(family) : RVs = <<o>>
             \/ /\ LV \in Constant(family)
                /\ \E o \in ColumnOf(family) : RVs = <<o>>
       \/ /\ op = "BETWEEN"
          /\ LV \in ColumnOf(family) \cup Constant(family)
          /\ \E o, q \in ColumnOf(family) \cup Bound(family) : RVs = <<o, q>>
       \/ /\ op = "IN"
          /\ LV \in ColumnOf(family) \cup Constant(family)
          /\ \E o, q \in Element(family) : RVs = <<o, q>>

IsString(o) == o.kind # "intconst"
substr1(t) == Tail(t)

\* The int that up to four bytes make, the rest of them being 0.
IntOf(bytes) ==
    LET at(k) == IF k <= Len(bytes) THEN bytes[k] ELSE 0
        n == at(1) + Byte * (at(2) + Byte * (at(3) + Byte * at(4)))
    IN  IF 2 * n >= IntMod THEN n - IntMod ELSE n

\* typeLittle: 0 for what is not an INT or DATE column.
typeLittle(o) == IF o.kind = "intcol" THEN <<IntOf(o.val)>> ELSE <<0>>

\* typeBig: a name that is not in the maps has length 0.
typeBig(o) == IF o.kind = "charcol" THEN o.val ELSE <<>>

typeDecimal(o) == o.val

\* Ten hexadecimal digits for the number, two of them for what is before its last
\* eight: a negative number has eight in two's complement.
ItoDec(n) == <<Sign, 0, n[1] % IntMod, 0>>

to_string(n) == n

\* The order of std::string, and of numbers.
Less(x, y) ==
    \E n \in 0 .. Len(x) :
       /\ n < Len(y)
       /\ \A m \in 1 .. n : x[m] = y[m]
       /\ n = Len(x) \/ x[n + 1] < y[n + 1]

LessOrEqual(x, y) == x = y \/ Less(x, y)

Compares(o, x, y) ==
    CASE o = "GE" -> LessOrEqual(y, x)
      [] o = "LE" -> LessOrEqual(x, y)
      [] o = "GT" -> Less(y, x)
      [] o = "LT" -> Less(x, y)
      [] o = "ET" -> x = y
      [] o = "NE" -> x # y

-----------------------------------------------------------------------------
(* GE, LE, GT, LT, ET and NE *)

\* An error: the number is compared as its text.
DecimalOperandText(o) ==
    CASE o.kind = "deccol" -> typeDecimal(o)
      [] o.kind = "text" -> substr1(o.val)
      [] o.kind = "intconst" -> to_string(o.val)

DecimalOperand(o) ==
    CASE o.kind = "deccol" -> typeDecimal(o)
      [] o.kind = "text" -> substr1(o.val)
      [] o.kind = "intconst" -> ItoDec(o.val)

IntOperand(o) == IF IsString(o) THEN typeLittle(o) ELSE o.val

\* GE alone looks whether a text is a column before it is taken for one.
CharOperand(o) ==
    IF op = "GE" /\ o.kind = "text" THEN substr1(o.val) ELSE typeBig(o)

\* With a constant on the left the right operand has to be a column.
RightColumn(o) ==
    CASE o.kind = "charcol" -> typeBig(o)
      [] o.kind = "deccol" -> typeDecimal(o)
      [] OTHER -> <<>>

\* The operands as the case of op compares them.
Operands ==
    LET RV == RVs[1]
    IN  CASE LV.kind = "intcol" -> <<typeLittle(LV), IntOperand(RV)>>
          [] LV.kind = "charcol" -> <<LV.val, CharOperand(RV)>>
          [] LV.kind = "deccol" -> <<LV.val, DecimalOperand(RV)>>
          [] LV.kind = "text" -> <<substr1(LV.val), RightColumn(RV)>>
          [] LV.kind = "intconst" -> <<LV.val, typeLittle(RV)>>

Compare ==
    /\ phase = "evaluate"
    /\ op \in Orders
    /\ CV' = Compares(op, Operands[1], Operands[2])
    /\ phase' = "done"
    /\ UNCHANGED <<family, op, LV, RVs>>

-----------------------------------------------------------------------------
(* BETWEEN *)

\* stoi accepts the mark; it throws if no digit follows.
IsNumber(o) == o.kind # "text" \/ o.val[2] \in Digits

IntBound(o) == IF o.kind = "text" THEN substr1(o.val) ELSE IntOperand(o)

BetweenOperator(lv, rv1, rv2) == LessOrEqual(rv1, lv) /\ LessOrEqual(lv, rv2)

\* A bound that is no number ends the loop over EXTRA, and the bounds that
\* were not read hold whatever was in their place.
Unread == Digit \cup {<<0>>}

BetweenInts(v) ==
    \E lo \in IF IsNumber(RVs[1]) THEN {IntBound(RVs[1])} ELSE Unread :
      \E hi \in IF IsNumber(RVs[1]) /\ IsNumber(RVs[2]) THEN {IntBound(RVs[2])} ELSE Unread :
         v = BetweenOperator(typeLittle(LV), lo, hi)

\* The text of a bound: a column's name without its first letter, which is not
\* looked into and may be anything.
BoundTexts(o) ==
    CASE o.kind = "text" -> {substr1(o.val)}
      [] o.kind = "intconst" -> {to_string(o.val)}
      [] OTHER -> Texts

\* An error: the mark stays in front of the upper bound.
UpperBoundsMarked(o) == IF o.kind = "text" THEN {o.val} ELSE BoundTexts(o)

UpperBounds(o) == BoundTexts(o)

BetweenDecimals(v) ==
    \E lo \in BoundTexts(RVs[1]), hi \in UpperBounds(RVs[2]) :
       v = BetweenOperator(LV.val, lo, hi)

\* RV1 = RV.substr(1): the lower bound without its first letter becomes the
\* upper one; if the lower one is empty, substr throws and RV1 keeps its text.
CharUpperBounds(lo, o) ==
    IF o.kind = "intconst" THEN {to_string(o.val)}
    ELSE IF lo # <<>> THEN {substr1(lo)}
    ELSE IF o.kind = "text" THEN {o.val} ELSE Texts

BetweenChars(v) ==
    \E lo \in BoundTexts(RVs[1]) : \E hi \in CharUpperBounds(lo, RVs[2]) :
       v = BetweenOperator(LV.val, lo, hi)

\* For a constant on the left nothing is compared.
Between ==
    /\ phase = "evaluate"
    /\ op = "BETWEEN"
    /\ \E v \in BOOLEAN :
          /\ CASE LV.kind = "intcol" -> BetweenInts(v)
               [] LV.kind = "charcol" -> BetweenChars(v)
               [] LV.kind = "deccol" -> BetweenDecimals(v)
               [] OTHER -> v = CV
          /\ CV' = v
    /\ phase' = "done"
    /\ UNCHANGED <<family, op, LV, RVs>>

-----------------------------------------------------------------------------
(* IN *)

\* InOperator(int, ...): a text is converted and then not compared.
EqualsInt(lv, o) ==
    \/ o.kind \in {"intcol", "intconst"} /\ lv = IntOperand(o)
    \/ o.kind = "deccol" /\ ItoDec(lv) = typeDecimal(o)

\* InOperator(string, ...).
EqualsText(lv, o) ==
    lv = CASE o.kind = "intcol" -> ItoDec(typeLittle(o))
           [] o.kind = "charcol" -> typeBig(o)
           [] o.kind = "deccol" -> typeDecimal(o)
           [] o.kind = "text" -> substr1(o.val)
           [] o.kind = "intconst" -> ItoDec(o.val)

\* An error: the last element of the list is not looked at.
ElementsButLast == 1 .. Len(RVs) - 1

Elements == 1 .. Len(RVs)

In ==
    /\ phase = "evaluate"
    /\ op = "IN"
    /\ CV' = (\E k \in Elements :
                 CASE LV.kind = "intcol" -> EqualsInt(typeLittle(LV), RVs[k])
                   [] LV.kind = "intconst" -> EqualsInt(LV.val, RVs[k])
                   [] LV.kind = "text" -> EqualsText(substr1(LV.val), RVs[k])
                   [] OTHER -> EqualsText(LV.val, RVs[k]))
    /\ phase' = "done"
    /\ UNCHANGED <<family, op, LV, RVs>>

CondNext == Compare \/ Between \/ In

CondSpec == CondInit /\ [][CondNext]_condVars

-----------------------------------------------------------------------------
(* The condition as it is meant. *)

\* The decimal that a binary form stands for, as one number.
DecimalOf(t) == <<CHOOSE x \in Decimals : RowDecimal(x) = t>>

\* The value an operand stands for; that of a number in units of the fraction.
Value(o) ==
    CASE o.kind = "charcol" -> o.val
      [] o.kind = "deccol" -> DecimalOf(o.val)
      [] o.kind = "intconst" -> <<Fraction * o.val[1]>>
      [] o.kind = "intcol" /\ Len(o.val) = IntSize ->
           <<Fraction * CHOOSE n \in Ints : RowBytes(n, IntSize) = o.val>>
      [] o.kind = "intcol" /\ Len(o.val) = DateSize ->
           <<Fraction * CHOOSE n \in Dates : RowBytes(n, DateSize) = o.val>>
      [] o.kind = "text" /\ family = "char" -> substr1(o.val)
      [] o.kind = "text" /\ family = "decimal" -> DecimalOf(substr1(o.val))
      [] o.kind = "text" /\ family = "int" -> <<Fraction * o.val[2]>>

IsInt(o) == o.kind \in {"intcol", "intconst"}

\* ItoDec is right for numbers of up to nine digits that are not negative.
FitsItoDec(o) == IsInt(o) => Value(o)[1] \in 0 .. Fraction * Group - 1

IsColumn(o) == o.kind \in {"intcol", "charcol", "deccol"}

AllNumbers == \A k \in DOMAIN RVs : IsNumber(RVs[k])

(* GE to NE compare the values their operands stand for, on either side and *)
(* for either sign, if there is no text in a condition on numbers, no       *)
(* number on the left of a decimal column and none on its right that is     *)
(* negative or has more than nine digits, and no CHAR constant on the       *)
(* right, except in GE.                                                     *)
ComparesValues ==
    /\ phase = "done" /\ op \in Orders
    /\ family = "int" => {LV.kind, RVs[1].kind} \cap {"text"} = {}
    /\ family = "decimal" => LV.kind # "intconst" /\ FitsItoDec(RVs[1])
    /\ family = "char" => op = "GE" \/ IsColumn(RVs[1])
    => CV = Compares(op, Value(LV), Value(RVs[1]))

(* BETWEEN tells whether the value of a column lies between the bounds, if  *)
(* it is a number and the bounds are numbers, columns or texts of digits,   *)
(* or if it is a decimal and the bounds are decimal constants.              *)
BetweenBounds ==
    /\ phase = "done" /\ op = "BETWEEN" /\ IsColumn(LV)
    /\ \/ family = "int" /\ AllNumbers
       \/ family = "decimal" /\ \A k \in DOMAIN RVs : RVs[k].kind = "text"
    => CV = BetweenOperator(Value(LV), Value(RVs[1]), Value(RVs[2]))

(* IN tells whether some element of the list equals the value, whatever     *)
(* columns and constants of numbers are mixed on both sides, if no text     *)
(* stands among numbers and, where there is a decimal, every other number   *)
(* fits into nine digits and is not negative.                               *)
InElements ==
    LET all == {LV} \cup {RVs[k] : k \in DOMAIN RVs}
        texts == {o \in all : o.kind = "text"}
        decimals == {o \in all : o.kind = "deccol"}
    IN  /\ phase = "done" /\ op = "IN"
        /\ family = "int" \/ (family = "decimal" /\ IsInt(LV)) => texts = {}
        /\ family # "char" /\ texts \cup decimals # {} => \A o \in all : FitsItoDec(o)
        => (CV <=> \E k \in DOMAIN RVs : Value(LV) = Value(RVs[k]))
=============================================================================
