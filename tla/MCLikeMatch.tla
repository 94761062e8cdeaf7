---------------------------- MODULE MCLikeMatch -----------------------------
(* All values of up to four letters and all patterns of up to four          *)
(* characters over two letters: three pieces, pieces that overlap           *)
(* themselves, and a piece longer than the value by two.                    *)
EXTENDS LikeMatch

Strings(S, m, n) == UNION {[1 .. k -> S] : k \in m .. n}

MCCharacters == {"a", "b", ANY}
MCValues == Strings({"a", "b"}, 0, 4)
MCPatterns == Strings(MCCharacters, 1, 4)
=============================================================================
