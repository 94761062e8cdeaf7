------------------------------ MODULE LikeMatch ------------------------------
(***************************************************************************)
(* LIKE: the matcher LikeSubString_v2 with split (keti/filter.cc).  split  *)
(* reads the pattern on to the next '%' and puts what it read into val,    *)
(* until nothing is left: a '%' at the end has no piece behind it.  Then   *)
(* two nested loops with the counters i (piece) and j (place in the value) *)
(* look for the pieces.  The inner loop counts i on by itself, and ends    *)
(* the function in one way or the other.  Its bound is computed in size_t: *)
(* it wraps if the last piece is longer than the value by two or more.     *)
(* (For the empty pattern rv[-1] is read, but the result is false whatever *)
(* is there.)                                                              *)
(***************************************************************************)
EXTENDS Integers, Sequences

CONSTANTS
    Characters,  \* the characters of values and patterns
    Values,      \* the values of the column
    Patterns     \* the patterns, not empty

ANY == "%"

ASSUME PatternsAssumption ==
    /\ Values \subseteq Seq(Characters)
    /\ Patterns \subseteq Seq(Characters)
    /\ \A p \in Patterns : p # <<>>

VARIABLES
    lv, rv,   \* the value and the pattern
    pos,      \* where split reads the pattern on, counted from 1
    val,      \* the pieces of the pattern
    i, j,     \* the current piece and place, counted from 0
    loop,     \* "split", "piece", "place" or "returned"
    result    \* "none" yet, "true", "false" or "out_of_range", which substr throws

likeVars == <<lv, rv, pos, val, i, j, loop, result>>

LikeInit ==
    /\ lv \in Values
    /\ rv \in Patterns
    /\ pos = 1
    /\ val = <<>>
    /\ i = 0 /\ j = 0
    /\ loop = "split"
    /\ result = "none"

isfirst == rv[1] = ANY
islast == rv[Len(rv)] = ANY

Separators == {k \in 1 .. Len(rv) : rv[k] = ANY}

\* The first separator from k on, or the end of the pattern.
Delimiter(k) == CHOOSE m \in Separators \cup {Len(rv) + 1} :
                   m >= k /\ \A n \in Separators : n >= k => m <= n

\* An error: behind a trailing separator an empty piece is read.
MoreBehindSeparator == pos <= Len(rv) + 1

\* getline finds nothing behind a trailing separator.
More == pos <= Len(rv)

GetLine ==
    /\ loop = "split"
    /\ More
    /\ val' = Append(val, SubSeq(rv, pos, Delimiter(pos) - 1))
    /\ pos' = Delimiter(pos) + 1
    /\ UNCHANGED <<lv, rv, i, j, loop, result>>

EndOfPattern ==
    /\ loop = "split"
    /\ ~ More
    /\ i' = IF isfirst THEN 1 ELSE 0
    /\ loop' = "piece"
    /\ UNCHANGED <<lv, rv, pos, val, j, result>>

Return(v) ==
    /\ loop' = "returned"
    /\ result' = v
    /\ UNCHANGED <<lv, rv, pos, val, i, j>>

\* The condition of the outer loop.
NextPiece ==
    /\ loop = "piece"
    /\ IF i < Len(val)
       THEN loop' = "place" /\ UNCHANGED <<lv, rv, pos, val, i, j, result>>
       ELSE Return("false")

Piece(k) == val[k + 1]
LastPiece == val[Len(val)]

\* An error: the bound is one too low, and wraps for one length more.
InBoundLow == Len(LastPiece) > Len(lv) \/ j < Len(lv) - Len(LastPiece)

\* j < LvLen - val[val.size() - 1].length() + 1
InBound == Len(LastPiece) > Len(lv) + 1 \/ j < Len(lv) - Len(LastPiece) + 1

\* lv.substr(k, n), for k up to the length of lv.
substr(k, n) == SubSeq(lv, k + 1, IF k + n < Len(lv) THEN k + n ELSE Len(lv))

Ends == Len(LastPiece) <= Len(lv) /\ substr(Len(lv) - Len(LastPiece), Len(LastPiece)) = LastPiece

\* An error: the beginning of the value is not looked at.
WrongPrefixAllowed == FALSE

\* The value has to begin with each of the pieces, not only with the first.
WrongPrefix == ~ isfirst /\ substr(0, Len(Piece(i))) # Piece(i)

Throws == (~ islast /\ Len(LastPiece) > Len(lv)) \/ j > Len(lv)

\* An error: the place is not counted on.
SamePlace == j

PlaceAfter == j + 1

\* The place behind the piece, and one more: continue counts j on as well.
NextPlace == j + Len(Piece(i)) + 1

EndOfValue ==
    /\ loop = "place"
    /\ ~ InBound
    /\ Return("false")

Place ==
    /\ loop = "place"
    /\ InBound
    /\ IF WrongPrefix THEN Return("false")
       ELSE IF Throws THEN Return("out_of_range")
       ELSE IF ~ islast /\ ~ Ends THEN Return("false")
       ELSE IF substr(j, Len(Piece(i))) # Piece(i)
       THEN j' = PlaceAfter /\ UNCHANGED <<lv, rv, pos, val, i, loop, result>>
       ELSE IF i = Len(val) - 1 THEN Return("true")
       ELSE /\ i' = i + 1
            /\ j' = NextPlace
            /\ UNCHANGED <<lv, rv, pos, val, loop, result>>

LikeNext == GetLine \/ EndOfPattern \/ NextPiece \/ EndOfValue \/ Place

LikeSpec == LikeInit /\ [][LikeNext]_likeVars /\ WF_likeVars(LikeNext)

-----------------------------------------------------------------------------
(* LIKE with '%' alone: the characters of the pattern that are no '%' are   *)
(* those of the value, and a '%' stands for any text.                       *)

\* at[b] is where in the value the text for the pattern from b on begins.
Matches(v, p) ==
    \E at \in [1 .. Len(p) + 1 -> 1 .. Len(v) + 1] :
       /\ at[1] = 1 /\ at[Len(p) + 1] = Len(v) + 1
       /\ \A b \in 1 .. Len(p) :
             IF p[b] = ANY THEN at[b] <= at[b + 1]
                           ELSE at[b + 1] = at[b] + 1 /\ v[at[b]] = p[b]

\* '%' at one end or at both, and one piece that is not empty.
OnePiece ==
    Separators # {} /\ Separators # 1 .. Len(rv) /\ Separators \subseteq {1, Len(rv)}

(* With a '%' in the pattern, what the matcher takes for like is like it:   *)
(* the pieces were found one behind the other, the first at the beginning   *)
(* and the last at the end where there is no '%'.  (The only piece of a     *)
(* pattern without '%' may be at both: it takes 'aa' for like 'a'.)         *)
NoFalseMatch == result = "true" /\ Separators # {} => Matches(lv, rv)

(* Patterns of one piece with '%' before, behind or around it are matched   *)
(* exactly, if the piece is not longer than the value by two or more.       *)
OnePieceExact ==
    loop = "returned" /\ OnePiece /\ Len(LastPiece) <= Len(lv) + 1 =>
        (result = "true" <=> Matches(lv, rv))

(* The matcher throws, which ends the process, only if the last piece is    *)
(* longer than the value by two or more; no sequence of pieces found and    *)
(* places skipped leads beyond the value otherwise.                         *)
ThrowsOnlyForLongPiece ==
    result = "out_of_range" => Len(LastPiece) > Len(lv) + 1

(* The loops end for every value and pattern, although the inner one counts *)
(* both counters.                                                           *)
Terminates == <>(loop = "returned")
=============================================================================
