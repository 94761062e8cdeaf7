---------------------------- MODULE MCConditions ----------------------------
(* Three numbers, and texts of up to two letters, the empty one included:   *)
(* enough for a bound below, between and above two others and for texts     *)
(* that differ in their first letter, their second or their length.  With   *)
(* bytes of 2 values an INT has 16 and a DATE 8; decimals have a fraction   *)
(* of one half and two as the base of their groups of digits, so that there *)
(* are negative ones and ones of two groups.                                *)
EXTENDS Conditions

MCDigits == 1 .. 3
MCLetters == {5, 6}
MCInts == {-2, -1, 0, 1, 2, 3}
MCDates == {1, 2, 7}
MCDecimals == {-5, -3, -2, 0, 1, 2, 3, 4, 6}
MCTexts == {<<>>} \cup {<<x>> : x \in MCLetters} \cup {<<x, y>> : x, y \in MCLetters}
=============================================================================
