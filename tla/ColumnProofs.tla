---------------------------- MODULE ColumnProofs -----------------------------
(***************************************************************************)
(* Proofs about the columns of a row: where they are (RowLayout), what a   *)
(* condition makes of them (Conditions) and what LIKE makes of a text      *)
(* (LikeMatch), for blocks of any number of rows, tables of any columns,   *)
(* and numbers, texts and patterns of any size.                            *)
(*                                                                         *)
(* Row layout.  The invariant says what makenewmap knows in the middle of  *)
(* a row: iter is where the row starts, and the columns before c are in    *)
(* the maps with the places and the lengths they have in the block.  It    *)
(* says so of the rows in Followed only: where the maps begin empty and no *)
(* length is read as a negative char.  A length is read at the place of    *)
(* its prefix, and no other prefix is there, since each has a byte at      *)
(* least: that is PrefixRead.  The places are sums of lengths; what is     *)
(* needed of Sums is proved with the least number that would be an         *)
(* exception, in the first part.                                           *)
(*                                                                         *)
(* Conditions.  A condition is one step, so the invariant only says that   *)
(* its result is the comparison the code makes.  The proof is that this    *)
(* comparison, of bytes and of texts, is that of the numbers they stand    *)
(* for: the bytes of a row make their number, and the binary forms of      *)
(* decimals, complements included, are in the order of the decimals.       *)
(*                                                                         *)
(* LIKE.  The invariant says that the pieces are the pattern cut at its    *)
(* '%', and that the text for the current piece may begin at the current   *)
(* place of the value or at any behind it; for a pattern of one piece it   *)
(* also says that the piece is at no place already passed.                 *)
(***************************************************************************)
EXTENDS RowLayout, Conditions, LikeMatch, SequenceTheorems, WellFoundedInduction, TLAPS

-----------------------------------------------------------------------------
(* The sums, for which there is an induction only as the least number that *)
(* would be an exception.                                                  *)
LEMMA LeastNumber ==
  ASSUME NEW T, T \subseteq Nat, T # {}
  PROVE  \E n \in T : \A m \in T : n <= m
<1>1. IsWellFoundedOn(OpToRel(<, Nat), Nat)
  BY NatLessThanWellFounded
<1>2. PICK n \in T : \A m \in T : ~ (<<m, n>> \in OpToRel(<, Nat))
  BY <1>1, WFMin
<1>3. \A m \in T : ~ (m < n)
  BY <1>2 DEF OpToRel
<1> QED BY <1>3

(* The sums up to the n-th. *)
IsPart(f, n, g) == g = [k \in 0 .. n |-> IF k = 0 THEN 0 ELSE g[k - 1] + f[k]]

LEMMA PartsAgree ==
  ASSUME NEW f, NEW n \in Nat, NEW m \in Nat, NEW g, NEW h, IsPart(f, n, g), IsPart(f, m, h),
         NEW k \in 0 .. n, k \in 0 .. m
  PROVE  g[k] = h[k]
<1> DEFINE T == {x \in Nat : x <= n /\ x <= m /\ g[x] # h[x]}
<1> SUFFICES ASSUME T # {} PROVE FALSE
  OBVIOUS
<1>1. PICK x \in T : \A y \in T : x <= y
  BY LeastNumber
<1>2. x # 0
  BY DEF IsPart
<1>3. x - 1 \in 0 .. n /\ x - 1 \in 0 .. m /\ x \in 0 .. n /\ x \in 0 .. m
  BY <1>2
<1>4. g[x - 1] = h[x - 1]
  BY <1>1, <1>2, <1>3
<1>5. g[x] = g[x - 1] + f[x]
  BY <1>2, <1>3 DEF IsPart
<1>6. h[x] = h[x - 1] + f[x]
  BY <1>2, <1>3 DEF IsPart
<1> QED BY <1>4, <1>5, <1>6

LEMMA PartExists == ASSUME NEW f, NEW n \in Nat PROVE \E g : IsPart(f, n, g)
<1> DEFINE T == {x \in Nat : ~ \E g : IsPart(f, x, g)}
<1> SUFFICES ASSUME T # {} PROVE FALSE
  OBVIOUS
<1>1. PICK x \in T : \A y \in T : x <= y
  BY LeastNumber
<1>2. x # 0
  <2>1. IsPart(f, 0, [k \in 0 .. 0 |-> 0])
    BY DEF IsPart
  <2> QED BY <2>1
<1>3. PICK g : IsPart(f, x - 1, g)
  BY <1>1, <1>2
<1> DEFINE h == [k \in 0 .. x |-> IF k = x THEN g[x - 1] + f[x] ELSE g[k]]
<1>4. \A k \in 0 .. x : h[k] = IF k = 0 THEN 0 ELSE h[k - 1] + f[k]
  <2> SUFFICES ASSUME NEW k \in 0 .. x PROVE h[k] = IF k = 0 THEN 0 ELSE h[k - 1] + f[k]
    OBVIOUS
  <2>1. CASE k = x
    <3>1. k - 1 \in 0 .. x /\ k - 1 # x
      BY <1>2, <2>1
    <3> QED BY <1>2, <2>1, <3>1
  <2>2. CASE k # x
    <3>1. k \in 0 .. x - 1
      BY <1>2, <2>2
    <3>2. g[k] = IF k = 0 THEN 0 ELSE g[k - 1] + f[k]
      BY <1>3, <3>1 DEF IsPart
    <3>3. k # 0 => k - 1 \in 0 .. x /\ k - 1 # x
      BY <3>1
    <3> QED BY <2>2, <3>2, <3>3
  <2> QED BY <2>1, <2>2
<1>5. IsPart(f, x, h)
  BY <1>4 DEF IsPart
<1> QED BY <1>5

IsSums(f, s) == s = [n \in Nat |-> IF n = 0 THEN 0 ELSE s[n - 1] + f[n]]

LEMMA SumsExist == ASSUME NEW f PROVE IsSums(f, Sums(f))
<1> DEFINE G(n) == CHOOSE g : IsPart(f, n, g)
           s == [n \in Nat |-> G(n)[n]]
<1>1. \A n \in Nat : IsPart(f, n, G(n))
  BY PartExists
<1> HIDE DEF G
<1>2. ASSUME NEW n \in Nat PROVE s[n] = IF n = 0 THEN 0 ELSE s[n - 1] + f[n]
  <2>1. CASE n = 0
    <3>1. G(0)[0] = 0
      BY <1>1 DEF IsPart
    <3> QED BY <2>1, <3>1
  <2>2. CASE n # 0
    <3>1. n - 1 \in Nat /\ n \in 0 .. n /\ n - 1 \in 0 .. n /\ n - 1 \in 0 .. n - 1
      BY <2>2
    <3>2. G(n)[n] = G(n)[n - 1] + f[n]
      BY <1>1, <2>2, <3>1 DEF IsPart
    <3>3. G(n)[n - 1] = G(n - 1)[n - 1]
      BY <1>1, <3>1, PartsAgree
    <3> QED BY <2>2, <3>1, <3>2, <3>3
  <2> QED BY <2>1, <2>2
<1>3. IsSums(f, s)
  BY <1>2 DEF IsSums
<1> HIDE DEF s
<1> QED BY <1>3 DEF IsSums, Sums

LEMMA SumsStep ==
  ASSUME NEW f
  PROVE  /\ Sums(f)[0] = 0
         /\ \A n \in Nat : Sums(f)[n + 1] = Sums(f)[n] + f[n + 1]
<1>1. Sums(f)[0] = 0
  BY SumsExist DEF IsSums
<1>2. ASSUME NEW n \in Nat PROVE Sums(f)[n + 1] = Sums(f)[n] + f[n + 1]
  <2>1. n + 1 \in Nat /\ n + 1 # 0 /\ (n + 1) - 1 = n
    OBVIOUS
  <2> HIDE DEF Sums
  <2>2. \A s, k : IsSums(f, s) /\ k \in Nat /\ k # 0 => s[k] = s[k - 1] + f[k]
    BY DEF IsSums
  <2> QED BY <2>1, <2>2, SumsExist
<1> QED BY <1>1, <1>2

(* Sums of numbers are numbers and grow; they depend on what is added only. *)
LEMMA SumsGrow ==
  ASSUME NEW f, NEW m \in Nat, \A k \in 1 .. m : f[k] \in Nat, NEW n \in 0 .. m
  PROVE  /\ Sums(f)[n] \in Nat
         /\ \A k \in 1 .. n : Sums(f)[k - 1] \in Nat /\ Sums(f)[k - 1] + f[k] <= Sums(f)[n]
<1> DEFINE s == Sums(f)
           Grows(x) == /\ s[x] \in Nat
                       /\ \A k \in 1 .. x : s[k - 1] \in Nat /\ s[k - 1] + f[k] <= s[x]
           T == {x \in Nat : x <= m /\ ~ Grows(x)}
<1>1. s[0] = 0 /\ \A x \in Nat : s[x + 1] = s[x] + f[x + 1]
  BY SumsStep
<1> HIDE DEF s
<1> SUFFICES ASSUME T # {} PROVE FALSE
  BY DEF s
<1>2. PICK x \in T : \A y \in T : x <= y
  BY LeastNumber
<1>3. x # 0
  <2>1. Grows(0)
    BY <1>1
  <2> QED BY <2>1
<1>4. x \in 1 .. m /\ x - 1 \in Nat /\ (x - 1) + 1 = x
  BY <1>3
<1>5. Grows(x - 1)
  BY <1>2, <1>4
<1>6. s[x] = s[x - 1] + f[x] /\ f[x] \in Nat
  BY <1>1, <1>4
<1>7. Grows(x)
  <2>1. s[x] \in Nat
    BY <1>5, <1>6
  <2>2. ASSUME NEW k \in 1 .. x PROVE s[k - 1] \in Nat /\ s[k - 1] + f[k] <= s[x]
    <3>1. CASE k = x
      BY <1>5, <1>6, <2>1, <3>1
    <3>2. CASE k # x
      <4>1. k \in 1 .. x - 1 /\ k \in 1 .. m /\ k - 1 \in Nat /\ (k - 1) + 1 = k
        BY <1>4, <3>2
      <4>2. s[k - 1] \in Nat /\ s[k - 1] + f[k] <= s[x - 1] /\ f[k] \in Nat /\ s[x - 1] \in Nat
        BY <1>5, <4>1
      <4> QED BY <1>6, <4>2
    <3> QED BY <3>1, <3>2
  <2> QED BY <2>1, <2>2
<1> QED BY <1>2, <1>7

LEMMA SumsAgree ==
  ASSUME NEW f, NEW g, NEW m \in Nat, \A k \in 1 .. m : f[k] = g[k], NEW n \in 0 .. m
  PROVE  Sums(f)[n] = Sums(g)[n]
<1> DEFINE T == {x \in Nat : x <= m /\ Sums(f)[x] # Sums(g)[x]}
<1> SUFFICES ASSUME T # {} PROVE FALSE
  OBVIOUS
<1>1. PICK x \in T : \A y \in T : x <= y
  BY LeastNumber
<1>2. Sums(f)[0] = 0 /\ \A k \in Nat : Sums(f)[k + 1] = Sums(f)[k] + f[k + 1]
  BY SumsStep
<1>3. Sums(g)[0] = 0 /\ \A k \in Nat : Sums(g)[k + 1] = Sums(g)[k] + g[k + 1]
  BY SumsStep
<1>4. x # 0
  BY <1>2, <1>3
<1>5. x - 1 \in Nat /\ (x - 1) + 1 = x /\ x \in 1 .. m
  BY <1>4
<1>6. Sums(f)[x - 1] = Sums(g)[x - 1]
  BY <1>1, <1>5
<1> HIDE DEF Sums
<1> QED BY <1>2, <1>3, <1>5, <1>6
-----------------------------------------------------------------------------
(* The block as it is: it stays, and its parts lie one behind the other.   *)
InputOK ==
    /\ table \in Tables
    /\ lens \in [1 .. RowNum -> RowLengths]
    /\ signed \in BOOLEAN

LEMMA InputFacts ==
  ASSUME InputOK
  PROVE  /\ ColNum \in Nat \ {0} /\ RowNum \in Nat
         /\ \A k \in 1 .. ColNum :
               /\ table[k].offlen \in Nat
               /\ Prefix(k) \in Nat /\ (IsVarchar(k) <=> Prefix(k) > 0)
         /\ \A q \in 1 .. RowNum, k \in 1 .. ColNum :
               /\ lens[q][k] \in Nat
               /\ ~ IsVarchar(k) => lens[q][k] = table[k].offlen
               /\ Size(q)[k] = Prefix(k) + lens[q][k] /\ Size(q)[k] \in Nat
<1>1. table \in Seq(Column) /\ table # <<>>
  BY TablesAssumption DEF InputOK
<1>2. /\ ColNum \in Nat \ {0} /\ DOMAIN table = 1 .. ColNum
      /\ \A k \in 1 .. ColNum : table[k] \in Column
  BY <1>1, LenProperties, ElementOfSeq, EmptySeq DEF ColNum
<1>3. RowNum \in Nat /\ VarLens \subseteq Nat
  BY BoundsAssumption
<1>4. ASSUME NEW k \in 1 .. ColNum
      PROVE  /\ table[k].offlen \in Nat
             /\ Prefix(k) \in Nat /\ (IsVarchar(k) <=> Prefix(k) > 0)
  BY <1>2 DEF Prefix, Column
<1>5. ASSUME NEW q \in 1 .. RowNum, NEW k \in 1 .. ColNum
      PROVE  lens[q][k] \in Nat /\ (~ IsVarchar(k) => lens[q][k] = table[k].offlen)
  <2>1. lens[q] \in RowLengths
    BY DEF InputOK
  <2> QED BY <1>3, <1>4, <2>1 DEF RowLengths
<1>6. ASSUME NEW q \in 1 .. RowNum, NEW k \in 1 .. ColNum
      PROVE  Size(q)[k] = Prefix(k) + lens[q][k] /\ Size(q)[k] \in Nat
  BY <1>4, <1>5 DEF Size
<1> QED BY <1>2, <1>3, <1>4, <1>5, <1>6

(* A column of a row begins where the one before ends, and the row ends    *)
(* with its last column.                                                   *)
LEMMA ColumnPlaces ==
  ASSUME InputOK, NEW q \in 1 .. RowNum, RowStart(q) \in Nat
  PROVE  /\ PrefixAt(q, 1) = RowStart(q) + HEADER
         /\ \A k \in 1 .. ColNum + 1 : PrefixAt(q, k) \in Nat
         /\ \A k \in 1 .. ColNum :
               /\ ValueAt(q, k) \in Nat
               /\ ValueAt(q, k) + lens[q][k] = PrefixAt(q, k + 1)
               /\ \A m \in k + 1 .. ColNum + 1 : PrefixAt(q, k) + Size(q)[k] <= PrefixAt(q, m)
         /\ PrefixAt(q, ColNum + 1) = RowStart(q) + RowLength(q)
         /\ RowLength(q) \in Nat /\ RowLength(q) > 0
<1> DEFINE s == Sums(Size(q))
<1>1. /\ ColNum \in Nat
      /\ \A k \in 1 .. ColNum : /\ Prefix(k) \in Nat /\ lens[q][k] \in Nat
                                /\ Size(q)[k] = Prefix(k) + lens[q][k] /\ Size(q)[k] \in Nat
  BY InputFacts
<1>2. s[0] = 0 /\ \A n \in Nat : s[n + 1] = s[n] + Size(q)[n + 1]
  BY SumsStep
<1>3. \A n \in 0 .. ColNum :
         s[n] \in Nat /\ \A k \in 1 .. n : s[k - 1] \in Nat /\ s[k - 1] + Size(q)[k] <= s[n]
  BY <1>1, SumsGrow
<1>4. /\ HEADER = 2
      /\ \A k : PrefixAt(q, k) = RowStart(q) + HEADER + s[k - 1]
      /\ RowLength(q) = HEADER + s[ColNum]
  BY DEF PrefixAt, RowLength, HEADER
<1> HIDE DEF s
<1>5. ASSUME NEW k \in 1 .. ColNum + 1
      PROVE  s[k - 1] \in Nat /\ PrefixAt(q, k) \in Nat
                /\ PrefixAt(q, k) = RowStart(q) + 2 + s[k - 1]
  <2>1. k - 1 \in 0 .. ColNum
    BY <1>1
  <2>2. s[k - 1] \in Nat
    BY <1>3, <2>1
  <2> QED BY <1>4, <2>2
<1>6. ASSUME NEW k \in 1 .. ColNum
      PROVE  /\ ValueAt(q, k) \in Nat
             /\ ValueAt(q, k) + lens[q][k] = PrefixAt(q, k + 1)
             /\ \A m \in k + 1 .. ColNum + 1 : PrefixAt(q, k) + Size(q)[k] <= PrefixAt(q, m)
  <2>1. /\ k \in 1 .. ColNum + 1 /\ k + 1 \in 1 .. ColNum + 1 /\ k - 1 \in Nat
        /\ (k - 1) + 1 = k /\ (k + 1) - 1 = k
    BY <1>1
  <2>2. s[k] = s[k - 1] + Size(q)[k]
    BY <1>2, <2>1
  <2>3. ValueAt(q, k) = PrefixAt(q, k) + Prefix(k)
    BY DEF ValueAt
  <2>4. ValueAt(q, k) \in Nat /\ ValueAt(q, k) + lens[q][k] = PrefixAt(q, k + 1)
    BY <1>1, <1>5, <2>1, <2>2, <2>3
  <2>5. ASSUME NEW m \in k + 1 .. ColNum + 1 PROVE PrefixAt(q, k) + Size(q)[k] <= PrefixAt(q, m)
    <3>1. m \in 1 .. ColNum + 1 /\ m - 1 \in 0 .. ColNum /\ k \in 1 .. m - 1
      BY <1>1
    <3>2. s[k - 1] + Size(q)[k] <= s[m - 1]
      BY <1>3, <3>1
    <3> QED BY <1>1, <1>5, <2>1, <3>1, <3>2
  <2> QED BY <2>4, <2>5
<1>7. PrefixAt(q, 1) = RowStart(q) + HEADER
  BY <1>2, <1>4
<1>8. /\ PrefixAt(q, ColNum + 1) = RowStart(q) + RowLength(q)
      /\ RowLength(q) \in Nat /\ RowLength(q) > 0
  <2>1. ColNum \in 0 .. ColNum /\ (ColNum + 1) - 1 = ColNum
    BY <1>1
  <2>2. s[ColNum] \in Nat
    BY <1>3, <2>1
  <2> QED BY <1>4, <2>1, <2>2
<1> QED BY <1>5, <1>6, <1>7, <1>8

(* The rows follow one another. *)
LEMMA RowPlaces ==
  ASSUME InputOK
  PROVE  /\ RowStart(1) = 0
         /\ \A q \in 1 .. RowNum + 1 : RowStart(q) \in Nat
         /\ \A q \in 1 .. RowNum :
               /\ RowLength(q) \in Nat /\ RowLength(q) > 0
               /\ RowStart(q + 1) = RowStart(q) + RowLength(q)
               /\ \A p \in q + 1 .. RowNum : RowStart(q) + RowLength(q) <= RowStart(p)
<1> DEFINE f == [q \in 1 .. RowNum |-> RowLength(q)]
           s == Sums(f)
<1>1. RowNum \in Nat
  BY InputFacts
<1>2. ASSUME NEW q \in 1 .. RowNum PROVE RowLength(q) \in Nat /\ RowLength(q) > 0
  <2>1. \A k \in 1 .. ColNum : Size(q)[k] \in Nat
    BY InputFacts
  <2>2. ColNum \in Nat
    BY InputFacts
  <2>3. Sums(Size(q))[ColNum] \in Nat
    BY <2>1, <2>2, SumsGrow
  <2> QED BY <2>3 DEF RowLength, HEADER
<1>3. \A q \in 1 .. RowNum : f[q] = RowLength(q) /\ f[q] \in Nat
  BY <1>2
<1>4. \A q : RowStart(q) = s[q - 1]
  BY DEF RowStart
<1> HIDE DEF f
<1>5. s[0] = 0 /\ \A n \in Nat : s[n + 1] = s[n] + f[n + 1]
  BY SumsStep
<1>6. \A n \in 0 .. RowNum :
         s[n] \in Nat /\ \A q \in 1 .. n : s[q - 1] \in Nat /\ s[q - 1] + f[q] <= s[n]
  BY <1>1, <1>3, SumsGrow
<1> HIDE DEF s
<1>7. RowStart(1) = 0
  BY <1>4, <1>5
<1>8. ASSUME NEW q \in 1 .. RowNum + 1 PROVE RowStart(q) \in Nat
  <2>1. q - 1 \in 0 .. RowNum
    BY <1>1
  <2> QED BY <1>4, <1>6, <2>1
<1>9. ASSUME NEW q \in 1 .. RowNum
      PROVE  /\ RowStart(q + 1) = RowStart(q) + RowLength(q)
             /\ \A p \in q + 1 .. RowNum : RowStart(q) + RowLength(q) <= RowStart(p)
  <2>1. q - 1 \in Nat /\ (q - 1) + 1 = q /\ (q + 1) - 1 = q
    BY <1>1
  <2>2. s[q] = s[q - 1] + f[q]
    BY <1>5, <2>1
  <2>3. ASSUME NEW p \in q + 1 .. RowNum PROVE RowStart(q) + RowLength(q) <= RowStart(p)
    <3>1. p - 1 \in 0 .. RowNum /\ q \in 1 .. p - 1
      BY <1>1
    <3>2. s[q - 1] + f[q] <= s[p - 1]
      BY <1>6, <3>1
    <3> QED BY <1>3, <1>4, <3>2
  <2> QED BY <1>3, <1>4, <2>1, <2>2, <2>3
<1> QED BY <1>2, <1>7, <1>8, <1>9
-----------------------------------------------------------------------------
(* No two length prefixes are at the same place: who reads there the       *)
(* prefix of a column gets the length of that column.                      *)
LEMMA PrefixRead ==
  ASSUME InputOK, NEW q \in 1 .. RowNum, NEW k \in 1 .. ColNum, IsVarchar(k)
  PROVE  LengthsAt(PrefixAt(q, k), Prefix(k)) = {lens[q][k]}
<1> DEFINE Before(p, m, p2, m2) == PrefixAt(p, m) < PrefixAt(p2, m2)
<1>1. /\ ColNum \in Nat /\ RowNum \in Nat
      /\ \A p \in 1 .. RowNum, m \in 1 .. ColNum :
            /\ Size(p)[m] \in Nat
            /\ IsVarchar(m) => Size(p)[m] > 0
  BY InputFacts
<1>2. \A p \in 1 .. RowNum :
         /\ RowStart(p) \in Nat /\ RowLength(p) \in Nat
         /\ \A p2 \in p + 1 .. RowNum : RowStart(p) + RowLength(p) <= RowStart(p2)
  BY <1>1, RowPlaces
<1>3. ASSUME NEW p \in 1 .. RowNum, NEW m \in 1 .. ColNum, IsVarchar(m)
      PROVE  /\ PrefixAt(p, m) \in Nat
             /\ \A m2 \in m + 1 .. ColNum + 1 :
                   PrefixAt(p, m2) \in Nat /\ PrefixAt(p, m) < PrefixAt(p, m2)
             /\ PrefixAt(p, m) < RowStart(p) + RowLength(p) /\ RowStart(p) < PrefixAt(p, m)
  <2>1. /\ \A m2 \in 1 .. ColNum + 1 : PrefixAt(p, m2) \in Nat
        /\ \A m2 \in m + 1 .. ColNum + 1 : PrefixAt(p, m) + Size(p)[m] <= PrefixAt(p, m2)
        /\ PrefixAt(p, ColNum + 1) = RowStart(p) + RowLength(p)
        /\ PrefixAt(p, 1) = RowStart(p) + HEADER
    BY <1>2, ColumnPlaces
  <2>2. Size(p)[m] \in Nat /\ Size(p)[m] > 0
    BY <1>1, <1>3
  <2>3. /\ m \in 1 .. ColNum + 1 /\ ColNum + 1 \in m + 1 .. ColNum + 1
        /\ \A m2 \in m + 1 .. ColNum + 1 : m2 \in 1 .. ColNum + 1
    BY <1>1
  <2>4. \A m2 \in m + 1 .. ColNum + 1 : PrefixAt(p, m2) \in Nat /\ PrefixAt(p, m) < PrefixAt(p, m2)
    BY <2>1, <2>2, <2>3
  <2>5. RowStart(p) < PrefixAt(p, m)
    <3>1. CASE m = 1
      BY <1>2, <2>1, <3>1 DEF HEADER
    <3>2. CASE m # 1
      <4>1. 1 \in 1 .. ColNum /\ m \in 1 + 1 .. ColNum + 1 /\ 1 \in 1 .. ColNum + 1
        BY <1>1, <3>2
      <4>2. PrefixAt(p, 1) + Size(p)[1] <= PrefixAt(p, m)
        BY <1>2, <4>1, ColumnPlaces
      <4>3. Size(p)[1] \in Nat /\ PrefixAt(p, 1) \in Nat /\ PrefixAt(p, m) \in Nat
        BY <1>1, <2>1, <2>3, <4>1
      <4> QED BY <1>2, <2>1, <4>2, <4>3 DEF HEADER
    <3> QED BY <3>1, <3>2
  <2> QED BY <2>1, <2>3, <2>4, <2>5
<1>4. ASSUME NEW p \in 1 .. RowNum, NEW m \in 1 .. ColNum, IsVarchar(m),
             NEW p2 \in 1 .. RowNum, NEW m2 \in 1 .. ColNum, IsVarchar(m2), p < p2
      PROVE  PrefixAt(p, m) < PrefixAt(p2, m2)
  <2>1. p2 \in p + 1 .. RowNum
    BY <1>1, <1>4
  <2>2. RowStart(p) + RowLength(p) <= RowStart(p2)
    BY <1>2, <2>1
  <2>3. /\ PrefixAt(p, m) < RowStart(p) + RowLength(p) /\ RowStart(p2) < PrefixAt(p2, m2)
        /\ PrefixAt(p, m) \in Nat /\ PrefixAt(p2, m2) \in Nat
    BY <1>3, <1>4
  <2> QED BY <1>2, <2>2, <2>3
<1>5. ASSUME NEW p \in 1 .. RowNum, NEW m \in 1 .. ColNum, IsVarchar(m),
             PrefixAt(p, m) = PrefixAt(q, k)
      PROVE  p = q /\ m = k
  <2>1. PrefixAt(q, k) \in Nat
    BY <1>3
  <2>2. ~ (p < q) /\ ~ (q < p)
    BY <1>4, <1>5, <2>1
  <2>3. p = q
    BY <1>1, <2>2
  <2>4. ASSUME m < k PROVE FALSE
    <3>1. k \in m + 1 .. ColNum + 1
      BY <1>1, <2>4
    <3> QED BY <1>3, <1>5, <2>1, <2>3, <3>1
  <2>5. ASSUME k < m PROVE FALSE
    <3>1. m \in k + 1 .. ColNum + 1
      BY <1>1, <2>5
    <3> QED BY <1>3, <1>5, <2>1, <2>3, <3>1
  <2> QED BY <1>1, <2>3, <2>4, <2>5
<1> DEFINE here == {x \in (1 .. RowNum) \X (1 .. ColNum) :
                      IsVarchar(x[2]) /\ Prefix(x[2]) = Prefix(k)
                         /\ PrefixAt(x[1], x[2]) = PrefixAt(q, k)}
<1>6. here = {<<q, k>>}
  BY <1>5
<1> HIDE DEF here
<1>7. LengthsAt(PrefixAt(q, k), Prefix(k)) =
         IF here = {} THEN VarLens ELSE {lens[x[1]][x[2]] : x \in here}
  BY DEF LengthsAt, here
<1> QED BY <1>6, <1>7

LEMMA ReadsNumbers == ASSUME InputOK, NEW a, NEW n PROVE LengthsAt(a, n) \subseteq Nat
<1> DEFINE here == {x \in (1 .. RowNum) \X (1 .. ColNum) :
                      IsVarchar(x[2]) /\ Prefix(x[2]) = n /\ PrefixAt(x[1], x[2]) = a}
<1>1. \A x \in here : lens[x[1]][x[2]] \in Nat
  BY InputFacts
<1>2. VarLens \subseteq Nat
  BY BoundsAssumption
<1>3. LengthsAt(a, n) = IF here = {} THEN VarLens ELSE {lens[x[1]][x[2]] : x \in here}
  BY DEF LengthsAt
<1> HIDE DEF here
<1> QED BY <1>1, <1>2, <1>3

(* Before the first VARCHAR the columns are where table_offset says. *)
LEMMA StaticStart ==
  ASSUME InputOK, NEW q \in 1 .. RowNum, NEW k \in 1 .. ColNum, RowStart(q) \in Nat,
         \A m \in 1 .. k - 1 : ~ IsVarchar(m)
  PROVE  RowStart(q) + startoff(k) = PrefixAt(q, k) /\ startoff(k) \in Nat
<1> DEFINE f == [m \in 1 .. ColNum |-> table[m].offlen]
<1>1. /\ ColNum \in Nat
      /\ \A m \in 1 .. ColNum : /\ table[m].offlen \in Nat
                                /\ ~ IsVarchar(m) => lens[q][m] = table[m].offlen /\ Prefix(m) = 0
                                /\ Size(q)[m] = Prefix(m) + lens[q][m]
  BY InputFacts
<1>2. k - 1 \in Nat /\ k - 1 \in 0 .. k - 1 /\ \A m \in 1 .. k - 1 : m \in 1 .. ColNum
  BY <1>1
<1>3. \A m \in 1 .. k - 1 : f[m] = Size(q)[m] /\ f[m] \in Nat
  BY <1>1, <1>2
<1>4. startoff(k) = HEADER + Sums(f)[k - 1]
  BY DEF startoff
<1> HIDE DEF f
<1>5. Sums(f)[k - 1] = Sums(Size(q))[k - 1]
  BY <1>2, <1>3, SumsAgree
<1>6. Sums(f)[k - 1] \in Nat
  BY <1>2, <1>3, SumsGrow
<1> QED BY <1>4, <1>5, <1>6 DEF PrefixAt, HEADER
-----------------------------------------------------------------------------
(* The inductive invariant. *)
WalkOK ==
    /\ pc \in {"row", "column", "save"}
    /\ r \in 1 .. RowNum + 1 /\ c \in 1 .. ColNum + 1
    /\ iter \in Int /\ aftervarchar \in BOOLEAN
    /\ pc # "row" => r <= RowNum /\ 1 .. c - 1 \subseteq DOMAIN newstartptr
    /\ pc = "save" => c = ColNum + 1
    /\ pc = "column" => (aftervarchar <=> \E k \in 1 .. c - 1 : IsVarchar(k))

MapsOK ==
    /\ DOMAIN newstartptr \subseteq 1 .. ColNum
    /\ newstartptr \in [DOMAIN newstartptr -> Int]
    /\ newlengthraw \in [DOMAIN newstartptr -> Int]

\* The rows where the maps begin empty and a length is read as it was written.
Followed == (signed => ShortLengths) /\ (isvarchar \/ r = 1)

Located(q, n) == \A k \in 1 .. n : newstartptr[k] = ValueAt(q, k) /\ newlengthraw[k] = lens[q][k]

RowFollowed ==
    Followed =>
       /\ iter = RowStart(r) + IF pc = "save" THEN RowLength(r) ELSE 0
       /\ pc = "row" /\ ~ isvarchar => DOMAIN newstartptr = {}
       /\ pc = "column" => DOMAIN newstartptr = 1 .. c - 1
       /\ pc # "row" => Located(r, c - 1)

SavedOK ==
    /\ saved.offset \in Seq(Int)
    /\ saved.copies \in Seq((1 .. RowNum) \X Int \X Int)
    /\ Len(saved.offset) = Len(saved.copies)
    /\ row_offset \in Int /\ saved.totallength = row_offset
    /\ saved = [offset |-> saved.offset, totallength |-> saved.totallength,
                copies |-> saved.copies]

RowInv ==
    /\ InputOK /\ WalkOK /\ MapsOK /\ RowFollowed
    /\ SavedOK /\ WholeRowSaved /\ OffsetsAreRunningSums

LEMMA InitInvariant == ASSUME Init PROVE RowInv
<1> USE DEF Init
<1>1. InputOK
  BY BoundsAssumption DEF InputOK
<1>2. /\ ColNum \in Nat \ {0} /\ RowNum \in Nat
      /\ DOMAIN newstartptr = {} /\ DOMAIN newlengthraw = {}
  BY <1>1, InputFacts
<1>3. WalkOK /\ MapsOK
  <2>1. WalkOK
    <3>1. 1 \in 1 .. RowNum + 1 /\ 1 \in 1 .. ColNum + 1 /\ 0 \in Int
      BY <1>2
    <3>2. r \in 1 .. RowNum + 1 /\ c \in 1 .. ColNum + 1 /\ iter \in Int /\ aftervarchar \in BOOLEAN
      BY <3>1
    <3> QED BY <3>2 DEF WalkOK
  <2>2. newstartptr \in [{} -> Int] /\ newlengthraw \in [{} -> Int]
    OBVIOUS
  <2> QED BY <1>2, <2>1, <2>2 DEF MapsOK
<1>4. RowFollowed
  <2>1. RowStart(1) = 0
    BY <1>1, RowPlaces
  <2> QED BY <1>2, <2>1 DEF RowFollowed
<1>5. SavedOK /\ WholeRowSaved /\ OffsetsAreRunningSums
  <2>1. saved.offset = <<>> /\ saved.copies = <<>> /\ saved.totallength = 0
    OBVIOUS
  <2>2. Len(saved.offset) = 0 /\ Len(saved.copies) = 0
    BY <2>1
  <2>3. \A T : <<>> \in Seq(T)
    OBVIOUS
  <2> QED BY <2>1, <2>2, <2>3 DEF SavedOK, WholeRowSaved, OffsetsAreRunningSums
<1> QED BY <1>1, <1>3, <1>4, <1>5 DEF RowInv

(* The block does not change, and its rows and columns stay where they are. *)
LEMMA BlockKept ==
  ASSUME UNCHANGED input
  PROVE  /\ ColNum' = ColNum /\ InputOK' = InputOK /\ (isvarchar' <=> isvarchar)
         /\ ((signed => ShortLengths)' <=> (signed => ShortLengths))
         /\ \A k : (IsVarchar(k)' <=> IsVarchar(k)) /\ Prefix(k)' = Prefix(k)
         /\ \A q : RowStart(q)' = RowStart(q) /\ RowLength(q)' = RowLength(q)
         /\ \A q, k : ValueAt(q, k)' = ValueAt(q, k)
<1> USE DEF input
<1>1. ColNum' = ColNum
  BY DEF ColNum
<1>2. \A k : (IsVarchar(k)' <=> IsVarchar(k)) /\ Prefix(k)' = Prefix(k)
  BY DEF IsVarchar, Prefix
<1>3. \A q : Size(q)' = Size(q)
  BY <1>1, <1>2 DEF Size
<1>4. \A q : RowLength(q)' = RowLength(q)
  BY <1>1, <1>3 DEF RowLength, Sums
<1>5. \A q : RowStart(q)' = RowStart(q)
  <2>1. [q \in 1 .. RowNum |-> RowLength(q)]' = [q \in 1 .. RowNum |-> RowLength(q)]
    BY <1>4
  <2> QED BY <2>1 DEF RowStart
<1>6. \A q, k : ValueAt(q, k)' = ValueAt(q, k)
  BY <1>2, <1>3, <1>5 DEF ValueAt, PrefixAt, Sums
<1>7. InputOK' = InputOK
  <2>1. RowLengths' = RowLengths
    BY <1>1, <1>2 DEF RowLengths
  <2> QED BY <2>1 DEF InputOK
<1>8. (isvarchar' <=> isvarchar) /\ ((signed => ShortLengths)' <=> (signed => ShortLengths))
  BY <1>1, <1>2 DEF isvarchar, ShortLengths
<1> QED BY <1>1, <1>2, <1>4, <1>5, <1>6, <1>7, <1>8

LEMMA SavedKept ==
  ASSUME RowInv, UNCHANGED <<input, row_offset, saved>>
  PROVE  InputOK' /\ SavedOK' /\ WholeRowSaved' /\ OffsetsAreRunningSums'
<1>1. InputOK'
  BY BlockKept DEF RowInv
<1>2. SavedOK' /\ OffsetsAreRunningSums'
  BY DEF RowInv, SavedOK, OffsetsAreRunningSums
<1>3. WholeRowSaved'
  BY BlockKept DEF RowInv, WholeRowSaved
<1> QED BY <1>1, <1>2, <1>3

-----------------------------------------------------------------------------
LEMMA BeginRowInvariant == ASSUME RowInv, BeginRow PROVE RowInv'
<1> USE DEF BeginRow
<1>1. ColNum \in Nat \ {0} /\ RowNum \in Nat
  BY InputFacts DEF RowInv
<1>2. ColNum' = ColNum
  BY BlockKept
<1>3. UNCHANGED input
  OBVIOUS
<1>4. \/ isvarchar /\ newstartptr' = <<>> /\ newlengthraw' = <<>>
      \/ ~ isvarchar /\ UNCHANGED <<newstartptr, newlengthraw>>
  BY DEF MapsCleared
<1>5. MapsOK'
  <2>1. CASE isvarchar
    <3>1. DOMAIN newstartptr' = {} /\ DOMAIN newlengthraw' = {}
      BY <1>4, <2>1
    <3> QED BY <1>4, <2>1, <3>1 DEF MapsOK
  <2>2. CASE ~ isvarchar
    BY <1>2, <1>4, <2>2 DEF MapsOK, RowInv
  <2> QED BY <2>1, <2>2
<1>6. WalkOK'
  <2>1. 1 .. c' - 1 = {} /\ c' \in 1 .. ColNum + 1
    BY <1>1
  <2> QED BY <1>1, <1>2, <2>1 DEF WalkOK, RowInv
<1>7. RowFollowed'
  <2> SUFFICES ASSUME Followed' PROVE RowFollowed'
    BY DEF RowFollowed
  <2>1. Followed
    BY <1>3, BlockKept DEF Followed
  <2>2. iter = RowStart(r) + 0 /\ (~ isvarchar => DOMAIN newstartptr = {})
    BY <2>1 DEF RowInv, RowFollowed
  <2>3. iter' = RowStart(r)' + 0
    BY <1>3, <2>2, BlockKept
  <2>4. DOMAIN newstartptr' = 1 .. c' - 1
    BY <1>4, <2>2
  <2>5. Located(r, c - 1)'
    BY DEF Located
  <2> QED BY <2>3, <2>4, <2>5 DEF RowFollowed
<1> QED BY <1>5, <1>6, <1>7, SavedKept DEF RowInv
-----------------------------------------------------------------------------
(* What holds while makenewmap is in a row. *)
LEMMA InRow ==
  ASSUME RowInv, pc # "row"
  PROVE  /\ r \in 1 .. RowNum /\ c \in 1 .. ColNum + 1 /\ iter \in Int
         /\ ColNum \in Nat \ {0} /\ RowNum \in Nat
         /\ RowStart(r) \in Nat
         /\ \A k \in 1 .. c - 1 : EndOf(k) \in Int /\ newstartptr[k] \in Int
         /\ Followed => /\ \A k \in 1 .. c - 1 : EndOf(k) = PrefixAt(r, k + 1)
                        /\ pc = "column" => iter = RowStart(r)
<1>1. /\ r \in 1 .. RowNum /\ c \in 1 .. ColNum + 1 /\ iter \in Int
      /\ ColNum \in Nat \ {0} /\ RowNum \in Nat
  BY InputFacts DEF RowInv, WalkOK
<1>2. RowStart(r) \in Nat
  BY <1>1, RowPlaces DEF RowInv
<1>3. ASSUME NEW k \in 1 .. c - 1
      PROVE  /\ EndOf(k) \in Int /\ newstartptr[k] \in Int
             /\ Followed => EndOf(k) = PrefixAt(r, k + 1)
  <2>1. newstartptr[k] \in Int /\ newlengthraw[k] \in Int
    BY DEF RowInv, WalkOK, MapsOK
  <2>2. k \in 1 .. ColNum
    BY <1>1
  <2>3. ValueAt(r, k) + lens[r][k] = PrefixAt(r, k + 1)
    BY <1>1, <1>2, <2>2, ColumnPlaces DEF RowInv
  <2>4. Followed => newstartptr[k] = ValueAt(r, k) /\ newlengthraw[k] = lens[r][k]
    BY DEF RowInv, RowFollowed, Located
  <2> QED BY <2>1, <2>3, <2>4 DEF EndOf
<1>4. Followed /\ pc = "column" => iter = RowStart(r)
  <2>1. Followed /\ pc = "column" => iter = RowStart(r) + 0
    BY DEF RowInv, RowFollowed
  <2> QED BY <1>2, <2>1
<1> QED BY <1>1, <1>2, <1>3, <1>4

(* A column is entered where it is. *)
LEMMA AddColumnInvariant ==
  ASSUME RowInv, pc = "column", c <= ColNum, NEW start \in Int, NEW length \in Int,
         AddColumn(start, length), aftervarchar' \in BOOLEAN,
         aftervarchar' <=> aftervarchar \/ IsVarchar(c),
         Followed => start = ValueAt(r, c) /\ length = lens[r][c]
  PROVE  RowInv'
<1> USE DEF AddColumn
<1>1. /\ r \in 1 .. RowNum /\ c \in 1 .. ColNum /\ ColNum \in Nat \ {0} /\ RowNum \in Nat
      /\ c' = c + 1 /\ c' - 1 = c
  BY InRow
<1>2. UNCHANGED <<input, r, iter, pc, row_offset, saved>> /\ ColNum' = ColNum
  BY BlockKept
<1>3. /\ DOMAIN newstartptr' = DOMAIN newstartptr \cup {c}
      /\ DOMAIN newlengthraw' = DOMAIN newstartptr \cup {c}
      /\ newstartptr' \in [DOMAIN newstartptr' -> Int]
      /\ newlengthraw' \in [DOMAIN newstartptr' -> Int]
      /\ \A k \in DOMAIN newstartptr :
            newstartptr'[k] = newstartptr[k] /\ newlengthraw'[k] = newlengthraw[k]
      /\ c \notin DOMAIN newstartptr => newstartptr'[c] = start /\ newlengthraw'[c] = length
  <2>1. /\ newstartptr \in [DOMAIN newstartptr -> Int]
        /\ newlengthraw \in [DOMAIN newstartptr -> Int]
        /\ DOMAIN newlengthraw = DOMAIN newstartptr
    BY DEF RowInv, MapsOK
  <2>2. newstartptr' = [m \in DOMAIN newstartptr \cup {c} |->
                           IF m \in DOMAIN newstartptr THEN newstartptr[m] ELSE start]
    BY DEF Insert
  <2>3. newlengthraw' = [m \in DOMAIN newstartptr \cup {c} |->
                            IF m \in DOMAIN newstartptr THEN newlengthraw[m] ELSE length]
    BY <2>1 DEF Insert
  <2> QED BY <2>1, <2>2, <2>3
<1>4. MapsOK'
  BY <1>1, <1>2, <1>3 DEF RowInv, MapsOK
<1>5. WalkOK'
  <2>1. 1 .. c = 1 .. c - 1 \cup {c}
    BY <1>1
  <2>2. 1 .. c' - 1 \subseteq DOMAIN newstartptr'
    BY <1>1, <1>3, <2>1 DEF RowInv, WalkOK
  <2>3. aftervarchar' <=> \E k \in 1 .. c' - 1 : IsVarchar(k)'
    <3>1. aftervarchar <=> \E k \in 1 .. c - 1 : IsVarchar(k)
      BY DEF RowInv, WalkOK
    <3>2. aftervarchar' <=> \E k \in 1 .. c : IsVarchar(k)
      BY <2>1, <3>1
    <3> QED BY <1>1, <1>2, <3>2, BlockKept
  <2>4. r \in 1 .. RowNum + 1 /\ r <= RowNum /\ c' \in 1 .. ColNum + 1 /\ iter \in Int
    BY <1>1, InRow
  <2> QED BY <1>2, <2>2, <2>3, <2>4 DEF WalkOK
<1>6. RowFollowed'
  <2> SUFFICES ASSUME Followed' PROVE RowFollowed'
    BY DEF RowFollowed
  <2>1. Followed
    BY <1>2, BlockKept DEF Followed
  <2>2. /\ iter = RowStart(r) + 0 /\ DOMAIN newstartptr = 1 .. c - 1
        /\ \A k \in 1 .. c - 1 : newstartptr[k] = ValueAt(r, k) /\ newlengthraw[k] = lens[r][k]
    BY <2>1 DEF RowInv, RowFollowed, Located
  <2>3. iter' = RowStart(r)' + 0
    BY <1>2, <2>2, BlockKept
  <2>4. DOMAIN newstartptr' = 1 .. c' - 1
    BY <1>1, <1>3, <2>2
  <2>5. ASSUME NEW k \in 1 .. c
        PROVE  newstartptr'[k] = ValueAt(r, k) /\ newlengthraw'[k] = lens[r][k]
    <3>1. CASE k = c
      <4>1. c \notin DOMAIN newstartptr
        BY <1>1, <2>2
      <4> QED BY <1>3, <2>1, <3>1, <4>1
    <3>2. CASE k # c
      <4>1. k \in 1 .. c - 1
        BY <1>1, <3>2
      <4> QED BY <1>3, <2>2, <4>1
    <3> QED BY <3>1, <3>2
  <2>6. Located(r, c - 1)'
    <3>1. lens' = lens /\ r' = r
      BY <1>2 DEF input
    <3>2. \A k : ValueAt(r, k)' = ValueAt(r, k)
      BY <1>2, BlockKept
    <3> QED BY <1>1, <2>5, <3>1, <3>2 DEF Located
  <2> QED BY <1>2, <2>3, <2>4, <2>6 DEF RowFollowed
<1> QED BY <1>2, <1>4, <1>5, <1>6, SavedKept DEF RowInv

LEMMA VarcharColumnInvariant == ASSUME RowInv, VarcharColumn PROVE RowInv'
<1> DEFINE at == IF c = 1 THEN iter + startoff(1) ELSE EndOf(c - 1)
<1>1. /\ pc = "column" /\ c <= ColNum /\ IsVarchar(c) /\ aftervarchar' = TRUE
      /\ \E n \in LengthsAt(at, Prefix(c)) :
            AddColumn(at + Prefix(c), IF Prefix(c) = 1 THEN OneByte(n) ELSE n)
  BY DEF VarcharColumn, ValueAfterPrefix
<1>2. PICK n \in LengthsAt(at, Prefix(c)) :
         AddColumn(at + Prefix(c), IF Prefix(c) = 1 THEN OneByte(n) ELSE n)
  BY <1>1
<1>3. /\ r \in 1 .. RowNum /\ c \in 1 .. ColNum /\ RowStart(r) \in Nat /\ iter \in Int
      /\ ColNum \in Nat \ {0}
  BY <1>1, InRow
<1>4. /\ Prefix(c) \in Nat /\ n \in Nat
      /\ (IF Prefix(c) = 1 THEN OneByte(n) ELSE n) \in Int
  <2>1. Prefix(c) \in Nat /\ n \in Nat
    BY <1>3, InputFacts, ReadsNumbers DEF RowInv
  <2>2. OneByte(n) \in Int
    BY <2>1 DEF OneByte
  <2> QED BY <2>1, <2>2
<1>5. at \in Int /\ (Followed => at = PrefixAt(r, c))
  <2>1. CASE c = 1
    <3>1. RowStart(r) + startoff(1) = PrefixAt(r, 1) /\ startoff(1) \in Nat
      <4>1. 1 \in 1 .. ColNum /\ \A m \in 1 .. 1 - 1 : ~ IsVarchar(m)
        BY <1>3
      <4> QED BY <1>3, <4>1, StaticStart DEF RowInv
    <3> QED BY <1>1, <1>3, <2>1, <3>1, InRow
  <2>2. CASE c # 1
    <3>1. c - 1 \in 1 .. c - 1 /\ (c - 1) + 1 = c
      BY <1>3, <2>2
    <3>2. EndOf(c - 1) \in Int /\ (Followed => EndOf(c - 1) = PrefixAt(r, (c - 1) + 1))
      BY <1>1, <3>1, InRow
    <3> QED BY <2>2, <3>1, <3>2
  <2> QED BY <2>1, <2>2
<1> HIDE DEF at
<1>6. ASSUME Followed
      PROVE  /\ at + Prefix(c) = ValueAt(r, c)
             /\ (IF Prefix(c) = 1 THEN OneByte(n) ELSE n) = lens[r][c]
  <2>1. n = lens[r][c]
    <3>1. LengthsAt(at, Prefix(c)) = {lens[r][c]}
      BY <1>1, <1>3, <1>5, <1>6, PrefixRead DEF RowInv
    <3> QED BY <3>1
  <2>2. Prefix(c) = 1 => OneByte(n) = n
    <3>1. signed /\ Prefix(c) = 1 => n < 128
      BY <1>3, <1>6, <2>1 DEF Followed, ShortLengths
    <3> QED BY <1>4, <3>1 DEF OneByte
  <2> QED BY <1>5, <1>6, <2>1, <2>2 DEF ValueAt
<1>7. at + Prefix(c) \in Int
  BY <1>4, <1>5
<1>8. aftervarchar' \in BOOLEAN /\ (aftervarchar' <=> aftervarchar \/ IsVarchar(c))
  BY <1>1
<1> QED BY <1>1, <1>2, <1>4, <1>6, <1>7, <1>8, AddColumnInvariant

LEMMA FixedFacts ==
  ASSUME RowInv, pc = "column", c <= ColNum, ~ IsVarchar(c)
  PROVE  /\ table[c].offlen \in Nat /\ table[c].offlen = lens[r][c]
         /\ ValueAt(r, c) = PrefixAt(r, c)
<1>1. r \in 1 .. RowNum /\ c \in 1 .. ColNum /\ RowStart(r) \in Nat
  BY InRow
<1>2. /\ table[c].offlen \in Nat /\ table[c].offlen = lens[r][c] /\ Prefix(c) = 0
  BY <1>1, InputFacts DEF RowInv, Prefix
<1>3. PrefixAt(r, c) \in Nat
  BY <1>1, ColumnPlaces, InputFacts DEF RowInv
<1> QED BY <1>2, <1>3 DEF ValueAt

LEMMA ColumnAfterVarcharInvariant == ASSUME RowInv, ColumnAfterVarchar PROVE RowInv'
<1>1. /\ pc = "column" /\ c <= ColNum /\ ~ IsVarchar(c) /\ aftervarchar
      /\ AddColumn(EndOf(c - 1), table[c].offlen) /\ aftervarchar' = aftervarchar
  BY DEF ColumnAfterVarchar, StartAfterVarchar
<1>2. c \in 1 .. ColNum /\ ColNum \in Nat
  BY <1>1, InRow
<1>3. c - 1 \in 1 .. c - 1 /\ (c - 1) + 1 = c
  <2>1. \E k \in 1 .. c - 1 : IsVarchar(k)
    BY <1>1 DEF RowInv, WalkOK
  <2> QED BY <1>2, <2>1
<1>4. EndOf(c - 1) \in Int /\ (Followed => EndOf(c - 1) = PrefixAt(r, c))
  <2>1. EndOf(c - 1) \in Int /\ (Followed => EndOf(c - 1) = PrefixAt(r, (c - 1) + 1))
    BY <1>1, <1>3, InRow
  <2> QED BY <1>3, <2>1
<1>5. /\ table[c].offlen \in Int /\ table[c].offlen = lens[r][c]
      /\ ValueAt(r, c) = PrefixAt(r, c)
  BY <1>1, FixedFacts
<1>6. aftervarchar' \in BOOLEAN /\ (aftervarchar' <=> aftervarchar \/ IsVarchar(c))
  BY <1>1 DEF RowInv, WalkOK
<1> QED BY <1>1, <1>4, <1>5, <1>6, AddColumnInvariant

LEMMA FixedColumnInvariant == ASSUME RowInv, FixedColumn PROVE RowInv'
<1>1. /\ pc = "column" /\ c <= ColNum /\ ~ IsVarchar(c) /\ ~ aftervarchar
      /\ AddColumn(iter + startoff(c), table[c].offlen) /\ aftervarchar' = aftervarchar
  BY DEF FixedColumn
<1>2. /\ r \in 1 .. RowNum /\ c \in 1 .. ColNum /\ ColNum \in Nat /\ iter \in Int
      /\ RowStart(r) \in Nat /\ (Followed => iter = RowStart(r))
  BY <1>1, InRow
<1>3. RowStart(r) + startoff(c) = PrefixAt(r, c) /\ startoff(c) \in Nat
  <2>1. \A m \in 1 .. c - 1 : ~ IsVarchar(m)
    BY <1>1 DEF RowInv, WalkOK
  <2> QED BY <1>2, <2>1, StaticStart DEF RowInv
<1>4. iter + startoff(c) \in Int /\ (Followed => iter + startoff(c) = PrefixAt(r, c))
  BY <1>2, <1>3
<1>5. /\ table[c].offlen \in Int /\ table[c].offlen = lens[r][c]
      /\ ValueAt(r, c) = PrefixAt(r, c)
  BY <1>1, FixedFacts
<1>6. aftervarchar' \in BOOLEAN /\ (aftervarchar' <=> aftervarchar \/ IsVarchar(c))
  BY <1>1 DEF RowInv, WalkOK
<1> QED BY <1>1, <1>4, <1>5, <1>6, AddColumnInvariant
-----------------------------------------------------------------------------
(* At the end of a row iter is where the row ends. *)
LEMMA EndRowInvariant == ASSUME RowInv, EndRow PROVE RowInv'
<1> USE DEF EndRow
<1>1. /\ r \in 1 .. RowNum /\ c = ColNum + 1 /\ ColNum \in Nat \ {0} /\ RowNum \in Nat
      /\ RowStart(r) \in Nat /\ EndOf(ColNum) \in Int
      /\ Followed => EndOf(ColNum) = PrefixAt(r, ColNum + 1)
  <2>1. /\ r \in 1 .. RowNum /\ c = ColNum + 1 /\ ColNum \in Nat \ {0} /\ RowNum \in Nat
        /\ RowStart(r) \in Nat
    BY InRow
  <2>2. ColNum \in 1 .. c - 1
    BY <2>1
  <2>3. EndOf(ColNum) \in Int /\ (Followed => EndOf(ColNum) = PrefixAt(r, ColNum + 1))
    BY <2>2, InRow
  <2> QED BY <2>1, <2>3
<1>2. UNCHANGED input /\ ColNum' = ColNum
  BY BlockKept
<1>3. MapsOK'
  BY <1>2 DEF RowInv, MapsOK
<1>4. WalkOK'
  BY <1>1, <1>2 DEF RowInv, WalkOK
<1>5. RowFollowed'
  <2> SUFFICES ASSUME Followed' PROVE RowFollowed'
    BY DEF RowFollowed
  <2>1. Followed
    BY <1>2, BlockKept DEF Followed
  <2>2. iter' = RowStart(r) + RowLength(r)
    BY <1>1, <2>1, ColumnPlaces DEF RowInv
  <2>3. iter' = RowStart(r)' + RowLength(r)'
    BY <1>2, <2>2, BlockKept
  <2>4. Located(r, c - 1)
    BY <2>1 DEF RowInv, RowFollowed
  <2>5. Located(r, c - 1)'
    <3>1. lens' = lens
      BY <1>2 DEF input
    <3>2. \A k : ValueAt(r, k)' = ValueAt(r, k)
      BY <1>2, BlockKept
    <3> QED BY <2>4, <3>1, <3>2 DEF Located
  <2> QED BY <2>3, <2>5 DEF RowFollowed
<1> QED BY <1>2, <1>3, <1>4, <1>5, SavedKept DEF RowInv

(* The next row begins where the row ends that was saved or dropped. *)
LEMMA NextRow ==
  ASSUME RowInv, pc = "save", r' = r + 1, pc' = "row",
         UNCHANGED <<input, c, iter, newstartptr, newlengthraw, aftervarchar>>
  PROVE  InputOK' /\ WalkOK' /\ MapsOK' /\ RowFollowed'
<1>1. /\ r \in 1 .. RowNum /\ c \in 1 .. ColNum + 1 /\ RowNum \in Nat /\ RowStart(r) \in Nat
  BY InRow
<1>2. UNCHANGED input /\ ColNum' = ColNum
  BY BlockKept
<1>3. InputOK' /\ MapsOK'
  BY <1>2, BlockKept DEF RowInv, MapsOK
<1>4. WalkOK'
  <2>1. r' \in 1 .. RowNum + 1
    BY <1>1
  <2> QED BY <1>2, <2>1 DEF RowInv, WalkOK
<1>5. RowFollowed'
  <2> SUFFICES ASSUME Followed' PROVE RowFollowed'
    BY DEF RowFollowed
  <2>1. isvarchar /\ Followed
    <3>1. r' # 1
      BY <1>1
    <3> QED BY <1>2, <3>1, BlockKept DEF Followed
  <2>2. isvarchar'
    BY <1>2, <2>1, BlockKept
  <2>3. iter = RowStart(r) + RowLength(r)
    BY <2>1 DEF RowInv, RowFollowed
  <2>4. ASSUME NEW q, q = r' PROVE iter' = RowStart(q)'
    <3>1. RowStart(r + 1) = RowStart(r) + RowLength(r) /\ q = r + 1
      BY <1>1, <2>4, RowPlaces DEF RowInv
    <3>2. RowStart(q)' = RowStart(q)
      BY <1>2, BlockKept
    <3> QED BY <2>3, <3>1, <3>2
  <2>5. iter' = RowStart(r)' + 0
    <3>1. iter' = RowStart(r)'
      BY <2>4
    <3>2. iter' \in Int
      BY DEF RowInv, WalkOK
    <3> QED BY <3>1, <3>2
  <2> QED BY <2>2, <2>5 DEF RowFollowed
<1> QED BY <1>3, <1>4, <1>5

LEMMA DropRowInvariant == ASSUME RowInv, DropRow PROVE RowInv'
<1> USE DEF DropRow
<1>1. WalkOK' /\ MapsOK' /\ RowFollowed'
  BY NextRow
<1> QED BY <1>1, SavedKept DEF RowInv

LEMMA SaveRowInvariant == ASSUME RowInv, SaveRow PROVE RowInv'
<1> DEFINE n == EndOf(ColNum) - CopyStart
           last == Len(saved.offset) + 1
           copy == <<r, CopyStart, n>>
<1>1. /\ pc = "save" /\ r' = r + 1 /\ pc' = "row"
      /\ UNCHANGED <<input, c, iter, newstartptr, newlengthraw, aftervarchar>>
      /\ saved' = [offset |-> Append(saved.offset, row_offset),
                   totallength |-> saved.totallength + n,
                   copies |-> Append(saved.copies, copy)]
      /\ row_offset' = row_offset + n
  BY DEF SaveRow, NextOffset
<1>2. /\ r \in 1 .. RowNum /\ c = ColNum + 1 /\ ColNum \in Nat \ {0} /\ RowNum \in Nat
      /\ RowStart(r) \in Nat
  BY <1>1, InRow DEF RowInv, WalkOK
<1>3. /\ EndOf(ColNum) \in Int /\ CopyStart \in Int
      /\ Followed => EndOf(ColNum) = PrefixAt(r, ColNum + 1) /\ newstartptr[1] = ValueAt(r, 1)
  <2>1. ColNum \in 1 .. c - 1 /\ 1 \in 1 .. c - 1
    BY <1>2
  <2>2. EndOf(ColNum) \in Int /\ (Followed => EndOf(ColNum) = PrefixAt(r, ColNum + 1))
    BY <1>1, <2>1, InRow
  <2>3. newstartptr[1] \in Int
    BY <1>1, <2>1, InRow
  <2>4. Followed => newstartptr[1] = ValueAt(r, 1)
    BY <1>1, <2>1 DEF RowInv, RowFollowed, Located
  <2> QED BY <2>2, <2>3, <2>4 DEF CopyStart, HEADER
<1>4. n \in Int
  BY <1>3
<1>5. (signed => ShortLengths) /\ isvarchar /\ ~ IsVarchar(1)
         => CopyStart = RowStart(r) /\ n = RowLength(r)
  <2> SUFFICES ASSUME (signed => ShortLengths), isvarchar, ~ IsVarchar(1)
               PROVE  CopyStart = RowStart(r) /\ n = RowLength(r)
    OBVIOUS
  <2>1. Followed
    BY DEF Followed
  <2>2. /\ PrefixAt(r, 1) = RowStart(r) + HEADER /\ PrefixAt(r, 1) \in Nat
        /\ PrefixAt(r, ColNum + 1) = RowStart(r) + RowLength(r) /\ RowLength(r) \in Nat
    <3>1. 1 \in 1 .. ColNum + 1
      BY <1>2
    <3> QED BY <1>2, <3>1, ColumnPlaces DEF RowInv
  <2>3. Prefix(1) = 0
    BY DEF Prefix
  <2>4. newstartptr[1] = RowStart(r) + HEADER
    BY <1>3, <2>1, <2>2, <2>3 DEF ValueAt
  <2>5. CopyStart = RowStart(r)
    BY <1>2, <2>4 DEF CopyStart, HEADER
  <2> QED BY <1>2, <1>3, <2>1, <2>2, <2>5
<1> HIDE DEF n
<1>6. copy \in (1 .. RowNum) \X Int \X Int
      /\ copy[1] = r /\ copy[2] = CopyStart /\ copy[3] = n
  BY <1>2, <1>3, <1>4
<1> HIDE DEF copy
<1>7. /\ saved.offset \in Seq(Int) /\ saved.copies \in Seq((1 .. RowNum) \X Int \X Int)
      /\ Len(saved.offset) = Len(saved.copies) /\ row_offset \in Int
      /\ saved.totallength = row_offset
  BY DEF RowInv, SavedOK
<1>8. /\ last \in Nat \ {0} /\ last - 1 = Len(saved.offset)
      /\ saved'.offset = Append(saved.offset, row_offset) /\ saved'.offset \in Seq(Int)
      /\ Len(saved'.offset) = last /\ saved'.offset[last] = row_offset
      /\ \A k \in 1 .. last - 1 : saved'.offset[k] = saved.offset[k]
  <2>1. saved'.offset = Append(saved.offset, row_offset)
    BY <1>1
  <2>2. Len(saved.offset) \in Nat
    BY <1>7, LenProperties
  <2>3. last = Len(saved.offset) + 1
    BY <1>7
  <2>4. last \in Nat \ {0} /\ last - 1 = Len(saved.offset)
    BY <2>2, <2>3
  <2>5. /\ saved'.offset \in Seq(Int) /\ Len(saved'.offset) = last
        /\ saved'.offset[last] = row_offset
        /\ \A k \in 1 .. Len(saved.offset) : saved'.offset[k] = saved.offset[k]
    BY <1>7, <2>1, <2>3, AppendProperties
  <2> QED BY <2>1, <2>4, <2>5
<1>9. /\ saved'.copies \in Seq((1 .. RowNum) \X Int \X Int)
      /\ Len(saved'.copies) = last /\ saved'.copies[last] = copy
      /\ \A k \in 1 .. last - 1 : saved'.copies[k] = saved.copies[k]
  <2>1. saved'.copies = Append(saved.copies, copy)
    BY <1>1
  <2>2. Len(saved.copies) + 1 = last
    BY <1>7
  <2> QED BY <1>6, <1>7, <2>1, <2>2, AppendProperties
<1>10. row_offset' \in Int /\ saved'.totallength = row_offset' /\ row_offset' = row_offset + n
  BY <1>1, <1>4, <1>7
<1> HIDE DEF last
<1>11. SavedOK'
  <2>1. saved' = [offset |-> saved'.offset, totallength |-> saved'.totallength,
                  copies |-> saved'.copies]
    BY <1>1
  <2> QED BY <1>8, <1>9, <1>10, <2>1 DEF SavedOK
<1>12. WholeRowSaved'
  <2> DEFINE Whole == (signed => ShortLengths) /\ isvarchar /\ ~ IsVarchar(1)
  <2>1. Whole' <=> Whole
    BY <1>1, BlockKept
  <2>2. ASSUME Whole, NEW k \in 1 .. last
        PROVE  /\ saved'.copies[k][2] = RowStart(saved'.copies[k][1])
               /\ saved'.copies[k][3] = RowLength(saved'.copies[k][1])
    <3>1. CASE k = last
      BY <1>5, <1>6, <1>9, <2>2, <3>1
    <3>2. CASE k # last
      <4>1. k \in 1 .. last - 1 /\ k \in 1 .. Len(saved.copies)
        BY <1>7, <1>8, <3>2
      <4>2. \A m \in 1 .. Len(saved.copies) :
               /\ saved.copies[m][2] = RowStart(saved.copies[m][1])
               /\ saved.copies[m][3] = RowLength(saved.copies[m][1])
        BY <2>2 DEF RowInv, WholeRowSaved
      <4>3. saved'.copies[k] = saved.copies[k]
        BY <1>9, <4>1
      <4> QED BY <4>1, <4>2, <4>3
    <3> QED BY <3>1, <3>2
  <2>3. \A q : RowStart(q)' = RowStart(q) /\ RowLength(q)' = RowLength(q)
    BY <1>1, BlockKept
  <2>4. ASSUME Whole, NEW k \in 1 .. last
        PROVE  /\ saved'.copies[k][2] = RowStart(saved.copies[k][1])'
               /\ saved'.copies[k][3] = RowLength(saved.copies[k][1])'
    BY <2>2, <2>3, <2>4
  <2> QED BY <1>9, <2>1, <2>4 DEF WholeRowSaved
<1>13. OffsetsAreRunningSums'
  <2>1. ASSUME NEW k \in 1 .. last
        PROVE  saved'.offset[k] + saved'.copies[k][3] =
                  IF k < last THEN saved'.offset[k + 1] ELSE saved'.totallength
    <3>1. CASE k = last
      <4>1. saved'.offset[k] = row_offset /\ saved'.copies[k][3] = n
        BY <1>6, <1>8, <1>9, <3>1
      <4>2. saved'.totallength = row_offset + n
        BY <1>10
      <4>3. ~ (k < last)
        BY <1>8, <3>1
      <4> QED BY <4>1, <4>2, <4>3
    <3>2. CASE k # last
      <4>1. k \in 1 .. last - 1 /\ k \in 1 .. Len(saved.offset) /\ k < last
        BY <1>8, <3>2
      <4>2. saved.offset[k] + saved.copies[k][3] =
               IF k < Len(saved.offset) THEN saved.offset[k + 1] ELSE saved.totallength
        BY <4>1 DEF RowInv, OffsetsAreRunningSums
      <4>3. CASE k < Len(saved.offset)
        <5>1. k + 1 \in 1 .. last - 1
          BY <1>8, <4>1, <4>3
        <5> QED BY <1>8, <1>9, <4>1, <4>2, <4>3, <5>1
      <4>4. CASE ~ (k < Len(saved.offset))
        <5>1. k + 1 = last
          BY <1>8, <4>1, <4>4
        <5> QED BY <1>7, <1>8, <1>9, <4>1, <4>2, <4>4, <5>1
      <4> QED BY <4>3, <4>4
    <3> QED BY <3>1, <3>2
  <2> QED BY <1>8, <2>1 DEF OffsetsAreRunningSums
<1>14. InputOK' /\ WalkOK' /\ MapsOK' /\ RowFollowed'
  BY <1>1, NextRow
<1> QED BY <1>11, <1>12, <1>13, <1>14 DEF RowInv

-----------------------------------------------------------------------------
LEMMA StutterInvariant == ASSUME RowInv, UNCHANGED vars PROVE RowInv'
<1> USE DEF vars
<1>1. UNCHANGED input /\ ColNum' = ColNum
  BY BlockKept DEF input
<1>2. WalkOK'
  <2>1. \A k : IsVarchar(k)' <=> IsVarchar(k)
    BY <1>1, BlockKept
  <2> QED BY <1>1, <2>1 DEF RowInv, WalkOK
<1>3. MapsOK'
  BY <1>1 DEF RowInv, MapsOK
<1>4. RowFollowed'
  <2>1. Followed' <=> Followed
    BY <1>1, BlockKept DEF Followed
  <2>2. RowStart(r)' = RowStart(r) /\ RowLength(r)' = RowLength(r)
        /\ (isvarchar' <=> isvarchar)
    BY <1>1, BlockKept
  <2>3. Located(r, c - 1)' <=> Located(r, c - 1)
    <3>1. \A k : ValueAt(r, k)' = ValueAt(r, k)
      BY <1>1, BlockKept
    <3> QED BY <3>1 DEF Located
  <2> QED BY <2>1, <2>2, <2>3 DEF RowInv, RowFollowed
<1> QED BY <1>1, <1>2, <1>3, <1>4, SavedKept DEF RowInv

LEMMA StepInvariant == ASSUME RowInv, [Next]_vars PROVE RowInv'
BY BeginRowInvariant, VarcharColumnInvariant, ColumnAfterVarcharInvariant,
   FixedColumnInvariant, EndRowInvariant, SaveRowInvariant, DropRowInvariant,
   StutterInvariant DEF Next

LEMMA RowInvariantHolds == Spec => []RowInv
BY InitInvariant, StepInvariant, PTL DEF Spec

-----------------------------------------------------------------------------
(* The row walk's state is always of its type: the maps hold columns of the *)
(* table only, both the same ones (makenewmap), and a FilterResult has one  *)
(* offset for each copy (SavedRow).                                         *)
THEOREM RowTypeCorrect == Spec => []TypeOK
<1>1. RowInv => TypeOK
  <2> SUFFICES ASSUME RowInv PROVE TypeOK
    OBVIOUS
  <2>1. /\ r \in 1 .. RowNum + 1 /\ c \in 1 .. ColNum + 1 /\ iter \in Int
        /\ aftervarchar \in BOOLEAN /\ pc \in {"row", "column", "save"}
    BY DEF RowInv, WalkOK
  <2>2. DOMAIN newstartptr \subseteq 1 .. ColNum /\ DOMAIN newlengthraw = DOMAIN newstartptr
    BY DEF RowInv, MapsOK
  <2>3. Len(saved.offset) = Len(saved.copies) /\ {row_offset, saved.totallength} \subseteq Int
    BY DEF RowInv, SavedOK
  <2> QED BY <2>1, <2>2, <2>3 DEF TypeOK
<1> QED BY <1>1, RowInvariantHolds, PTL

(* When a row is filtered, the maps makenewmap has filled say where each of *)
(* its columns is and how long it is: for every row of a table with a       *)
(* VARCHAR whose lengths a char can carry, and for the first row of the     *)
(* tables whose maps are never cleared.                                     *)
THEOREM ColumnsLocatedCorrect == Spec => []ColumnsLocated
<1>1. RowInv => ColumnsLocated
  <2> SUFFICES ASSUME RowInv, pc = "save", (signed => ShortLengths), isvarchar \/ r = 1,
                      NEW k \in 1 .. ColNum
               PROVE  newstartptr[k] = ValueAt(r, k) /\ newlengthraw[k] = lens[r][k]
    BY DEF ColumnsLocated
  <2>1. c = ColNum + 1 /\ ColNum \in Nat
    BY InputFacts DEF RowInv, WalkOK
  <2>2. k \in 1 .. c - 1
    BY <2>1
  <2> QED BY <2>2 DEF RowInv, RowFollowed, Followed, Located
<1> QED BY <1>1, RowInvariantHolds, PTL

(* In a table with a VARCHAR that begins with a column of fixed length, a   *)
(* row that passed the filter is copied whole, header included (the saving  *)
(* branches of BlockFilter), and no byte of another row with it.            *)
THEOREM WholeRowCorrect == Spec => []WholeRowSaved
BY RowInvariantHolds, PTL DEF RowInv

(* Whichever rows are saved and dropped, the offsets of a FilterResult are  *)
(* where its copies begin, and totallength is where the last one ends.      *)
THEOREM OffsetsCorrect == Spec => []OffsetsAreRunningSums
BY RowInvariantHolds, PTL DEF RowInv

-----------------------------------------------------------------------------
(* Conditions: numbers, their division and their bytes. *)

(* Division by a number that is not 0, which need not be a literal. *)
LEMMA DivMod ==
  ASSUME NEW d \in Nat \ {0}, NEW x \in Int
  PROVE  /\ x \div d \in Int /\ x % d \in 0 .. d - 1
         /\ x = d * (x \div d) + (x % d)
OBVIOUS

(* Products of one factor are in the order of the other, and differ by it. *)
LEMMA ProductGrows ==
  ASSUME NEW d \in Nat, NEW p \in Int, NEW q \in Int, p < q
  PROVE  d * p + d <= d * q
<1>1. q - p - 1 \in Nat
  OBVIOUS
<1>2. \A k \in Nat : d * k \in Nat
  OBVIOUS
<1>3. d * (q - p - 1) \in Nat
  BY <1>1, <1>2
<1>4. d * (q - p - 1) = d * q - d * p - d
  OBVIOUS
<1>5. d * q \in Int /\ d * p \in Int
  OBVIOUS
<1> QED BY <1>3, <1>4, <1>5

(* Quotient and remainder are what divides a number. *)
LEMMA DivModUnique ==
  ASSUME NEW d \in Nat \ {0}, NEW x \in Int, NEW q \in Int, NEW z \in 0 .. d - 1, x = d * q + z
  PROVE  x \div d = q /\ x % d = z
<1>1. /\ x \div d \in Int /\ x % d \in 0 .. d - 1
      /\ x = d * (x \div d) + (x % d)
  BY DivMod
<1>2. /\ d * q \in Int /\ d * (x \div d) \in Int
  BY <1>1
<1>3. x \div d = q
  <2>1. CASE x \div d < q
    <3>1. d * (x \div d) + d <= d * q
      BY <1>1, <2>1, ProductGrows
    <3> QED BY <1>1, <1>2, <3>1
  <2>2. CASE q < x \div d
    <3>1. d * q + d <= d * (x \div d)
      BY <1>1, <2>2, ProductGrows
    <3> QED BY <1>1, <1>2, <3>1
  <2> QED BY <1>1, <2>1, <2>2
<1>4. x % d = z
  <2>1. x = d * q + (x % d)
    BY <1>1, <1>3
  <2> QED BY <1>1, <1>2, <2>1
<1> QED BY <1>3, <1>4

(* Division by one number and then by another is division by their product. *)
LEMMA DivDiv ==
  ASSUME NEW d \in Nat \ {0}, NEW e \in Nat \ {0}, NEW x \in Nat
  PROVE  d * e \in Nat \ {0} /\ x \div (d * e) = (x \div d) \div e
<1> DEFINE q == x \div d
           p == q \div e
           y == x % d
           z == q % e
<1>1. q \in Int /\ y \in 0 .. d - 1 /\ x = d * q + y
  BY DivMod
<1>2. p \in Int /\ z \in 0 .. e - 1 /\ q = e * p + z
  BY <1>1, DivMod
<1>3. d * e \in Nat \ {0}
  OBVIOUS
<1> HIDE DEF q, p, y, z
<1>4. x = d * e * p + (d * z + y)
  BY <1>1, <1>2
<1>5. d * z + y \in 0 .. d * e - 1
  <2>1. d * z + d <= d * e
    BY <1>2, ProductGrows
  <2>2. d * z \in Nat
    <3>1. \A m, n \in Nat : m * n \in Nat
      OBVIOUS
    <3>2. z \in Nat
      BY <1>2
    <3> QED BY <3>1, <3>2
  <2> QED BY <1>1, <1>3, <2>1, <2>2
<1>6. x \div (d * e) = p
  BY <1>2, <1>3, <1>4, <1>5, DivModUnique
<1> QED BY <1>3, <1>6 DEF p, q

LEMMA Products ==
  /\ \A m, n \in Nat : m * n \in Nat
  /\ \A m, n \in Nat \ {0} : m * n \in Nat \ {0}
OBVIOUS

(* Powers of Byte. *)
LEMMA ByteFacts ==
  /\ Byte \in Nat \ {0} /\ Byte >= 2
  /\ Byte * Byte \in Nat \ {0} /\ Byte * Byte * Byte \in Nat \ {0}
  /\ IntMod \in Nat \ {0} /\ IntMod = (Byte * Byte * Byte) * Byte
  /\ 2 * (Byte * Byte * Byte) <= IntMod
<1>1. Byte \in Nat \ {0} /\ Byte >= 2
  BY NumbersAssumption
<1>2. Byte * Byte \in Nat \ {0}
  BY <1>1, Products
<1>3. (Byte * Byte) * Byte \in Nat \ {0}
  BY <1>1, <1>2, Products
<1>4. ASSUME NEW cube \in Nat \ {0}, cube = Byte * Byte * Byte
      PROVE  cube * Byte \in Nat \ {0} /\ 2 * cube <= cube * Byte
  <2>1. cube * Byte \in Nat \ {0}
    BY <1>1, Products
  <2>2. cube * 1 + cube <= cube * Byte
    BY <1>1, ProductGrows
  <2> QED BY <2>1, <2>2
<1>5. IntMod = (Byte * Byte * Byte) * Byte
  BY DEF IntMod
<1> QED BY <1>1, <1>2, <1>3, <1>4, <1>5

(* The bytes in which a row holds a number. *)
ByteAt(n, k) ==
    CASE k = 1 -> (n % IntMod) % Byte
      [] k = 2 -> ((n % IntMod) \div Byte) % Byte
      [] k = 3 -> ((n % IntMod) \div (Byte * Byte)) % Byte
      [] k = 4 -> ((n % IntMod) \div (Byte * Byte * Byte)) % Byte

LEMMA RowBytesFacts ==
  ASSUME NEW n \in Int, NEW size \in 3 .. 4
  PROVE  /\ RowBytes(n, size) \in Seq(Int) /\ Len(RowBytes(n, size)) = size
         /\ \A k \in 1 .. size : RowBytes(n, size)[k] = ByteAt(n, k)
<1>1. n % IntMod \in Nat
  BY ByteFacts, DivMod
<1> DEFINE m == n % IntMod
<1> HIDE DEF m
<1>2. \A d \in Nat \ {0} : (m \div d) % Byte \in Int
  BY <1>1, ByteFacts DEF m
<1>3. m \div 1 = m
  BY <1>1 DEF m
<1>4. ASSUME NEW k \in 1 .. size
      PROVE  RowBytes(n, size)[k] = ByteAt(n, k) /\ ByteAt(n, k) \in Int
  <2>1. k = 1 \/ k = 2 \/ k = 3 \/ k = 4
    OBVIOUS
  <2>2. CASE k = 1
    <3>1. RowBytes(n, size)[k] = (m \div 1) % Byte
      BY <2>2 DEF RowBytes, m
    <3>2. m % Byte \in Int
      BY <1>1, ByteFacts DEF m
    <3> QED BY <1>3, <2>2, <3>1, <3>2 DEF ByteAt, m
  <2>3. CASE k = 2
    <3>1. RowBytes(n, size)[k] = (m \div Byte) % Byte
      BY <2>3 DEF RowBytes, m
    <3> QED BY <1>2, <2>3, <3>1, ByteFacts DEF ByteAt, m
  <2>4. CASE k = 3
    <3>1. RowBytes(n, size)[k] = (m \div (Byte * Byte)) % Byte
      BY <2>4 DEF RowBytes, m
    <3> QED BY <1>2, <2>4, <3>1, ByteFacts DEF ByteAt, m
  <2>5. CASE k = 4
    <3>1. RowBytes(n, size)[k] = (m \div (Byte * Byte * Byte)) % Byte
      BY <2>5 DEF RowBytes, m
    <3> QED BY <1>2, <2>5, <3>1, ByteFacts DEF ByteAt, m
  <2> QED BY <2>1, <2>2, <2>3, <2>4, <2>5
<1>5. RowBytes(n, size) \in [1 .. size -> Int]
  <2>1. RowBytes(n, size) = [k \in 1 .. size |-> RowBytes(n, size)[k]]
    BY DEF RowBytes
  <2>2. \A k \in 1 .. size : RowBytes(n, size)[k] \in Int
    BY <1>4
  <2> QED BY <2>1, <2>2
<1>6. RowBytes(n, size) \in Seq(Int)
  BY <1>5, SeqDef
<1>7. Len(RowBytes(n, size)) = size
  <2>1. DOMAIN RowBytes(n, size) = 1 .. size
    BY <1>5
  <2>2. DOMAIN RowBytes(n, size) = 1 .. Len(RowBytes(n, size))
       /\ Len(RowBytes(n, size)) \in Nat
    BY <1>6, LenProperties
  <2> QED BY <2>1, <2>2
<1> QED BY <1>4, <1>6, <1>7

(* The four bytes of a number make the number. *)
LEMMA BytesMake ==
  ASSUME NEW m \in 0 .. IntMod - 1
  PROVE  LET b1 == m % Byte
             b2 == (m \div Byte) % Byte
             b3 == (m \div (Byte * Byte)) % Byte
             b4 == (m \div (Byte * Byte * Byte)) % Byte
         IN  /\ m = b1 + Byte * (b2 + Byte * (b3 + Byte * b4))
             /\ m < Byte * Byte * Byte => b4 = 0
<1> DEFINE q1 == m \div Byte
           q2 == q1 \div Byte
           q3 == q2 \div Byte
<1>1. m \in Nat /\ Byte \in Nat \ {0}
  BY ByteFacts
<1>2. q1 \in Nat /\ m % Byte \in 0 .. Byte - 1 /\ m = Byte * q1 + (m % Byte)
  BY <1>1
<1>3. q2 \in Nat /\ q1 % Byte \in 0 .. Byte - 1 /\ q1 = Byte * q2 + (q1 % Byte)
  BY <1>1, <1>2
<1>4. q3 \in Nat /\ q2 % Byte \in 0 .. Byte - 1 /\ q2 = Byte * q3 + (q2 % Byte)
  BY <1>1, <1>3
<1>5. m \div (Byte * Byte) = q2
  BY <1>1, DivDiv
<1>6. m \div (Byte * Byte * Byte) = q3
  <2>1. m \div ((Byte * Byte) * Byte) = (m \div (Byte * Byte)) \div Byte
    BY <1>1, ByteFacts, DivDiv
  <2> QED BY <1>5, <2>1
<1> HIDE DEF q1, q2, q3
<1>7. q3 < Byte
  <2>1. ASSUME NEW cube \in Nat \ {0}, m < cube * Byte, m \div cube = q3 PROVE q3 < Byte
    <3>1. /\ m = cube * q3 + (m % cube) /\ m % cube \in Nat /\ cube * q3 \in Int
          /\ cube * Byte \in Int
      <4>1. m = cube * q3 + (m % cube) /\ m % cube \in Nat
        <5>1. m \in Int
          BY <1>1
        <5>2. m = cube * (m \div cube) + (m % cube) /\ m % cube \in 0 .. cube - 1
          BY <5>1, DivMod
        <5> QED BY <2>1, <5>2
      <4>2. cube * q3 \in Nat /\ cube * Byte \in Nat
        BY <1>1, <1>4, <2>1, Products
      <4> QED BY <4>1, <4>2
    <3>2. CASE Byte < q3
      <4>1. cube * Byte + cube <= cube * q3
        BY <1>1, <1>4, <3>2, ProductGrows
      <4> QED BY <2>1, <3>1, <4>1
    <3>3. CASE Byte = q3
      BY <2>1, <3>1, <3>3
    <3> QED BY <1>1, <1>4, <3>2, <3>3
  <2>2. m < (Byte * Byte * Byte) * Byte
    BY ByteFacts
  <2> QED BY <1>6, <2>1, <2>2, ByteFacts
<1>8. q3 % Byte = q3
  <2>1. q3 = Byte * 0 + q3 /\ q3 \in 0 .. Byte - 1
    BY <1>1, <1>4, <1>7
  <2> QED BY <1>1, <2>1, DivModUnique
<1>9. m < Byte * Byte * Byte => q3 = 0
  <2> SUFFICES ASSUME m < Byte * Byte * Byte PROVE q3 = 0
    OBVIOUS
  <2>1. m = (Byte * Byte * Byte) * 0 + m /\ m \in 0 .. Byte * Byte * Byte - 1
    BY <1>1, ByteFacts
  <2>2. m \div (Byte * Byte * Byte) = 0
    BY <1>1, <2>1, ByteFacts, DivModUnique
  <2> QED BY <1>6, <2>2
<1>10. m = (m % Byte) + Byte * ((q1 % Byte) + Byte * ((q2 % Byte) + Byte * q3))
  <2>1. q1 = (q1 % Byte) + Byte * ((q2 % Byte) + Byte * q3)
    <3>1. q2 = (q2 % Byte) + Byte * q3
      BY <1>1, <1>4
    <3>2. q1 = (q1 % Byte) + Byte * q2
      BY <1>1, <1>3
    <3> QED BY <3>1, <3>2
  <2>2. m = (m % Byte) + Byte * q1
    BY <1>1, <1>2
  <2> QED BY <2>1, <2>2
<1> QED BY <1>5, <1>6, <1>8, <1>9, <1>10 DEF q1

(* typeLittle gets back the number whose bytes a row has. *)
LEMMA IntBytes == ASSUME NEW n \in Ints PROVE IntOf(RowBytes(n, IntSize)) = n
<1> DEFINE m == n % IntMod
           t == RowBytes(n, IntSize)
<1>1. n \in Int /\ -IntMod <= 2 * n /\ 2 * n < IntMod
  BY NumbersAssumption
<1>2. IntMod \in Nat \ {0}
  BY ByteFacts
<1>3. IF n >= 0 THEN m = n ELSE m = n + IntMod
  <2>1. CASE n >= 0
    <3>1. n = IntMod * 0 + n /\ n \in 0 .. IntMod - 1
      BY <1>1, <1>2, <2>1
    <3> QED BY <1>1, <1>2, <2>1, <3>1, DivModUnique
  <2>2. CASE n < 0
    <3>1. n = IntMod * (-1) + (n + IntMod) /\ n + IntMod \in 0 .. IntMod - 1
      BY <1>1, <1>2, <2>2
    <3> QED BY <1>1, <1>2, <2>2, <3>1, DivModUnique
  <2> QED BY <1>1, <2>1, <2>2
<1>4. m \in 0 .. IntMod - 1
  BY <1>1, <1>2, DivMod
<1>5. Len(t) = 4 /\ t[1] = ByteAt(n, 1) /\ t[2] = ByteAt(n, 2) /\ t[3] = ByteAt(n, 3)
        /\ t[4] = ByteAt(n, 4)
  BY <1>1, RowBytesFacts DEF IntSize
<1> HIDE DEF t
<1>6. m = t[1] + Byte * (t[2] + Byte * (t[3] + Byte * t[4]))
  <2>1. /\ t[1] = m % Byte /\ t[2] = (m \div Byte) % Byte
        /\ t[3] = (m \div (Byte * Byte)) % Byte
        /\ t[4] = (m \div (Byte * Byte * Byte)) % Byte
    BY <1>5 DEF ByteAt
  <2> HIDE DEF m
  <2> QED BY <1>4, <2>1, BytesMake
<1> HIDE DEF m
<1>7. IntOf(t) = IF 2 * m >= IntMod THEN m - IntMod ELSE m
  BY <1>5, <1>6 DEF IntOf
<1>8. IntOf(t) = n
  BY <1>1, <1>2, <1>3, <1>4, <1>7
<1> QED BY <1>8 DEF t

(* The same for the three bytes of a date: the fourth is 0. *)
LEMMA DateBytes ==
  ASSUME NEW n \in Dates PROVE n \in Int /\ IntOf(RowBytes(n, DateSize)) = n
<1> DEFINE t == RowBytes(n, DateSize)
<1>1. n \in 0 .. Byte * Byte * Byte - 1
  BY NumbersAssumption
<1>2. n \in Nat /\ n \in 0 .. IntMod - 1 /\ 2 * n < IntMod /\ n < Byte * Byte * Byte
  BY <1>1, ByteFacts
<1>3. n % IntMod = n
  <2>1. n = IntMod * 0 + n
    BY <1>2, ByteFacts
  <2> QED BY <1>2, <2>1, ByteFacts, DivModUnique
<1>5. Len(t) = 3 /\ t[1] = ByteAt(n, 1) /\ t[2] = ByteAt(n, 2) /\ t[3] = ByteAt(n, 3)
  BY <1>2, RowBytesFacts DEF DateSize
<1> HIDE DEF t
<1>6. n = t[1] + Byte * (t[2] + Byte * (t[3] + Byte * 0))
  <2>1. /\ t[1] = n % Byte /\ t[2] = (n \div Byte) % Byte
        /\ t[3] = (n \div (Byte * Byte)) % Byte
    BY <1>3, <1>5 DEF ByteAt
  <2> QED BY <1>2, <2>1, BytesMake
<1>7. IntOf(t) = IF 2 * n >= IntMod THEN n - IntMod ELSE n
  BY <1>5, <1>6 DEF IntOf
<1>8. IntOf(t) = n
  BY <1>2, <1>7, ByteFacts
<1> QED BY <1>2, <1>8 DEF t

-----------------------------------------------------------------------------
(* The order of texts of one number and of four. *)
LEMMA LessOne ==
  ASSUME NEW p \in Int, NEW q \in Int PROVE Less(<<p>>, <<q>>) <=> p < q
<1>1. Len(<<p>>) = 1 /\ Len(<<q>>) = 1
  OBVIOUS
<1>2. ASSUME p < q PROVE Less(<<p>>, <<q>>)
  <2>1. 0 \in 0 .. Len(<<p>>) /\ 0 < Len(<<q>>) /\ <<p>>[0 + 1] < <<q>>[0 + 1]
    BY <1>2
  <2> QED BY <2>1 DEF Less
<1>3. ASSUME Less(<<p>>, <<q>>) PROVE p < q
  <2>1. PICK n \in 0 .. 1 : n < 1 /\ (n = 1 \/ <<p>>[n + 1] < <<q>>[n + 1])
    BY <1>1, <1>3 DEF Less
  <2>2. n = 0
    BY <2>1
  <2> QED BY <2>1, <2>2
<1> QED BY <1>2, <1>3

Quads == Int \X Int \X Int \X Int

\* The first of four numbers that differs is smaller.
Lex(p, q) ==
    \/ p[1] < q[1]
    \/ p[1] = q[1] /\ p[2] < q[2]
    \/ p[1] = q[1] /\ p[2] = q[2] /\ p[3] < q[3]
    \/ p[1] = q[1] /\ p[2] = q[2] /\ p[3] = q[3] /\ p[4] < q[4]

LEMMA LessFour ==
  ASSUME NEW p \in Quads, NEW q \in Quads PROVE Less(p, q) <=> Lex(p, q)
<1>1. /\ Len(p) = 4 /\ p[1] \in Int /\ p[2] \in Int /\ p[3] \in Int /\ p[4] \in Int
      /\ Len(q) = 4 /\ q[1] \in Int /\ q[2] \in Int /\ q[3] \in Int /\ q[4] \in Int
  BY DEF Quads
<1> DEFINE At(n) == (\A m \in 1 .. n : p[m] = q[m]) /\ p[n + 1] < q[n + 1]
<1>2. Less(p, q) <=> \E n \in 0 .. 3 : At(n)
  BY <1>1 DEF Less
<1>3. (\E n \in 0 .. 3 : At(n)) <=> At(0) \/ At(1) \/ At(2) \/ At(3)
  <2> HIDE DEF At
  <2>1. \A n \in 0 .. 3 : n = 0 \/ n = 1 \/ n = 2 \/ n = 3
    OBVIOUS
  <2> QED BY <2>1
<1>4. At(0) <=> p[1] < q[1]
  BY <1>1
<1>5. At(1) <=> p[1] = q[1] /\ p[2] < q[2]
  BY <1>1
<1>6. At(2) <=> p[1] = q[1] /\ p[2] = q[2] /\ p[3] < q[3]
  <2>1. \A m \in 1 .. 2 : m = 1 \/ m = 2
    OBVIOUS
  <2> QED BY <1>1, <2>1
<1>7. At(3) <=> p[1] = q[1] /\ p[2] = q[2] /\ p[3] = q[3] /\ p[4] < q[4]
  <2>1. \A m \in 1 .. 3 : m = 1 \/ m = 2 \/ m = 3
    OBVIOUS
  <2> QED BY <1>1, <2>1
<1> HIDE DEF At
<1> QED BY <1>2, <1>3, <1>4, <1>5, <1>6, <1>7 DEF Lex

(* One order excludes the other. *)
LEMMA LexLess ==
  ASSUME NEW p \in Quads, NEW q \in Quads, Lex(p, q)
  PROVE  Less(p, q) /\ ~ Less(q, p) /\ p # q
<1>1. /\ p[1] \in Int /\ p[2] \in Int /\ p[3] \in Int /\ p[4] \in Int
      /\ q[1] \in Int /\ q[2] \in Int /\ q[3] \in Int /\ q[4] \in Int
  BY DEF Quads
<1>2. ~ Lex(q, p) /\ p # q
  BY <1>1 DEF Lex
<1> QED BY <1>2, LessFour

-----------------------------------------------------------------------------
(* Decimals: the order of their binary forms is that of the numbers. *)
Absolute(x) == IF x < 0 THEN -x ELSE x
High(x) == (Absolute(x) \div Fraction) \div Group
Low(x) == (Absolute(x) \div Fraction) % Group
Hundredths(x) == Absolute(x) % Fraction

(* The parts of a decimal are in their ranges, whatever the number. *)
LEMMA DecimalParts ==
  ASSUME NEW x \in Int
  PROVE  /\ Absolute(x) \in Nat
         /\ High(x) \in Int /\ Low(x) \in 0 .. Group - 1 /\ Hundredths(x) \in 0 .. Fraction - 1
         /\ Absolute(x) = Fraction * (Group * High(x) + Low(x)) + Hundredths(x)
         /\ RowDecimal(x) =
              IF x >= 0
              THEN <<Sign, High(x), Low(x), Hundredths(x)>>
              ELSE <<Sign - 1, Byte - 1 - High(x), IntMod - 1 - Low(x),
                     Byte - 1 - Hundredths(x)>>
<1> DEFINE q == Absolute(x) \div Fraction
<1>1. Fraction \in Nat \ {0} /\ Group \in Nat \ {0}
  BY NumbersAssumption, ByteFacts
<1>2. Absolute(x) \in Nat
  BY DEF Absolute
<1>3. /\ q \in Int /\ Hundredths(x) \in 0 .. Fraction - 1
      /\ Absolute(x) = Fraction * q + Hundredths(x)
  <2>1. \A z \in Nat : /\ z \div Fraction \in Int /\ z % Fraction \in 0 .. Fraction - 1
                       /\ z = Fraction * (z \div Fraction) + (z % Fraction)
    BY <1>1, DivMod
  <2> QED BY <1>2, <2>1 DEF Hundredths
<1> HIDE DEF q
<1>4. /\ q \div Group \in Int /\ q % Group \in 0 .. Group - 1
      /\ q = Group * (q \div Group) + (q % Group)
  BY <1>1, <1>3, DivMod
<1>5. High(x) = q \div Group /\ Low(x) = q % Group
  BY DEF High, Low, q
<1>6. Absolute(x) = Fraction * (Group * High(x) + Low(x)) + Hundredths(x)
  BY <1>3, <1>4, <1>5
<1>7. RowDecimal(x) =
              IF x >= 0
              THEN <<Sign, High(x), Low(x), Hundredths(x)>>
              ELSE <<Sign - 1, Byte - 1 - High(x), IntMod - 1 - Low(x),
                     Byte - 1 - Hundredths(x)>>
  BY DEF RowDecimal, High, Low, Hundredths, Absolute
<1> QED BY <1>2, <1>3, <1>4, <1>5, <1>6, <1>7

(* Numbers in the order of their quotients, and of their remainders if the *)
(* quotients are the same.                                                 *)
LEMMA QuotientOrder ==
  ASSUME NEW d \in Nat, NEW p \in Int, NEW q \in Int, NEW y \in 0 .. d - 1, NEW z \in 0 .. d - 1,
         d * p + y < d * q + z
  PROVE  p < q \/ (p = q /\ y < z)
<1>1. d * p \in Int /\ d * q \in Int
  OBVIOUS
<1>2. CASE q < p
  <2>1. d * q + d <= d * p
    BY <1>2, ProductGrows
  <2> QED BY <1>1, <2>1
<1>3. CASE p = q
  BY <1>1, <1>3
<1> QED BY <1>2, <1>3

(* A smaller absolute value has smaller parts, the first that differs. *)
LEMMA PartsOrder ==
  ASSUME NEW x \in Int, NEW y \in Int, Absolute(x) < Absolute(y)
  PROVE  \/ High(x) < High(y)
         \/ High(x) = High(y) /\ Low(x) < Low(y)
         \/ High(x) = High(y) /\ Low(x) = Low(y) /\ Hundredths(x) < Hundredths(y)
<1>1. Fraction \in Nat /\ Group \in Nat
  BY NumbersAssumption, ByteFacts
<1>2. /\ High(x) \in Int /\ Low(x) \in 0 .. Group - 1 /\ Hundredths(x) \in 0 .. Fraction - 1
      /\ Absolute(x) = Fraction * (Group * High(x) + Low(x)) + Hundredths(x)
  BY DecimalParts
<1>3. /\ High(y) \in Int /\ Low(y) \in 0 .. Group - 1 /\ Hundredths(y) \in 0 .. Fraction - 1
      /\ Absolute(y) = Fraction * (Group * High(y) + Low(y)) + Hundredths(y)
  BY DecimalParts
<1>4. \A k \in Int, l \in 0 .. Group - 1 : Group * k + l \in Int
  BY <1>1
<1>5. ASSUME NEW p \in Int, p = Group * High(x) + Low(x),
             NEW q \in Int, q = Group * High(y) + Low(y)
      PROVE  p < q \/ (p = q /\ Hundredths(x) < Hundredths(y))
  <2>1. Fraction * p + Hundredths(x) < Fraction * q + Hundredths(y)
    BY <1>2, <1>3, <1>5
  <2> QED BY <1>1, <1>2, <1>3, <2>1, QuotientOrder
<1>6. ASSUME Group * High(x) + Low(x) < Group * High(y) + Low(y)
      PROVE  High(x) < High(y) \/ (High(x) = High(y) /\ Low(x) < Low(y))
  BY <1>1, <1>2, <1>3, <1>6, QuotientOrder
<1>7. ASSUME Group * High(x) + Low(x) = Group * High(y) + Low(y)
      PROVE  High(x) = High(y) /\ Low(x) = Low(y)
  <2>1. ASSUME NEW p \in Int, p = Group * High(x) + Low(x)
        PROVE  High(x) = High(y) /\ Low(x) = Low(y)
    <3>1. Group \in Nat \ {0}
      BY NumbersAssumption
    <3>2. p \div Group = High(x) /\ p % Group = Low(x)
      <4>1. High(x) \in Int /\ Low(x) \in 0 .. Group - 1
        BY <1>2
      <4> QED BY <2>1, <3>1, <4>1, DivModUnique
    <3>3. p \div Group = High(y) /\ p % Group = Low(y)
      <4>1. High(y) \in Int /\ Low(y) \in 0 .. Group - 1
        BY <1>3
      <4> QED BY <1>7, <2>1, <3>1, <4>1, DivModUnique
    <3> QED BY <3>2, <3>3
  <2> QED BY <1>2, <1>4, <2>1
<1> QED BY <1>2, <1>3, <1>4, <1>5, <1>6, <1>7

(* The complement turns the order round for negative numbers. *)
LEMMA DecimalOrdered ==
  ASSUME NEW x \in Int, NEW y \in Int, x < y
  PROVE  Less(RowDecimal(x), RowDecimal(y)) /\ ~ Less(RowDecimal(y), RowDecimal(x))
            /\ RowDecimal(x) # RowDecimal(y)
<1>1. Byte \in Int /\ IntMod \in Int /\ Sign \in Int /\ Sign - 1 < Sign
  BY ByteFacts DEF Sign
<1>2. Group \in Nat /\ Fraction \in Nat
  BY NumbersAssumption, ByteFacts
<1>3. High(x) \in Int /\ Low(x) \in Int /\ Hundredths(x) \in Int
  BY <1>2, DecimalParts
<1>4. High(y) \in Int /\ Low(y) \in Int /\ Hundredths(y) \in Int
  BY <1>2, DecimalParts
<1> DEFINE Plain(z) == <<Sign, High(z), Low(z), Hundredths(z)>>
           Complement(z) ==
             <<Sign - 1, Byte - 1 - High(z), IntMod - 1 - Low(z), Byte - 1 - Hundredths(z)>>
<1>5. RowDecimal(x) = IF x >= 0 THEN Plain(x) ELSE Complement(x)
  BY DecimalParts
<1>6. RowDecimal(y) = IF y >= 0 THEN Plain(y) ELSE Complement(y)
  BY DecimalParts
<1>7. CASE x >= 0
  <2>1. RowDecimal(x) = Plain(x)
    BY <1>5, <1>7
  <2>2. RowDecimal(y) = Plain(y)
    <3>1. y >= 0
      BY <1>7
    <3> QED BY <1>6, <3>1
  <2>3. Absolute(x) < Absolute(y)
    BY <1>7 DEF Absolute
  <2>4. \/ High(x) < High(y)
        \/ High(x) = High(y) /\ Low(x) < Low(y)
        \/ High(x) = High(y) /\ Low(x) = Low(y) /\ Hundredths(x) < Hundredths(y)
    BY <2>3, PartsOrder
  <2>5. Lex(Plain(x), Plain(y)) /\ Plain(x) \in Quads /\ Plain(y) \in Quads
    BY <1>1, <1>3, <1>4, <2>4 DEF Lex, Quads
  <2> QED BY <2>1, <2>2, <2>5, LexLess
<1>8. CASE x < 0 /\ y >= 0
  <2>1. RowDecimal(x) = Complement(x)
    <3>1. ~ (x >= 0)
      BY <1>8
    <3> QED BY <1>5, <3>1
  <2>2. RowDecimal(y) = Plain(y)
    BY <1>6, <1>8
  <2>3. /\ Byte - 1 - High(x) \in Int /\ IntMod - 1 - Low(x) \in Int
        /\ Byte - 1 - Hundredths(x) \in Int
        /\ Sign - 1 \in Int
    BY <1>1, <1>3
  <2>4. Lex(Complement(x), Plain(y)) /\ Complement(x) \in Quads /\ Plain(y) \in Quads
    BY <1>1, <1>4, <2>3 DEF Lex, Quads
  <2> QED BY <2>1, <2>2, <2>4, LexLess
<1>9. CASE x < 0 /\ y < 0
  <2>1. RowDecimal(x) = Complement(x) /\ RowDecimal(y) = Complement(y)
    <3>1. ~ (x >= 0) /\ ~ (y >= 0)
      BY <1>9
    <3> QED BY <1>5, <1>6, <3>1
  <2>2. /\ Byte - 1 - High(x) \in Int /\ IntMod - 1 - Low(x) \in Int
        /\ Byte - 1 - Hundredths(x) \in Int /\ Sign - 1 \in Int
        /\ Byte - 1 - High(y) \in Int /\ IntMod - 1 - Low(y) \in Int
        /\ Byte - 1 - Hundredths(y) \in Int
    BY <1>1, <1>3, <1>4
  <2>3. Absolute(y) < Absolute(x)
    BY <1>9 DEF Absolute
  <2>4. \/ High(y) < High(x)
        \/ High(y) = High(x) /\ Low(y) < Low(x)
        \/ High(y) = High(x) /\ Low(y) = Low(x) /\ Hundredths(y) < Hundredths(x)
    BY <2>3, PartsOrder
  <2>5. \/ Byte - 1 - High(x) < Byte - 1 - High(y)
        \/ /\ Byte - 1 - High(x) = Byte - 1 - High(y)
           /\ IntMod - 1 - Low(x) < IntMod - 1 - Low(y)
        \/ /\ Byte - 1 - High(x) = Byte - 1 - High(y)
           /\ IntMod - 1 - Low(x) = IntMod - 1 - Low(y)
           /\ Byte - 1 - Hundredths(x) < Byte - 1 - Hundredths(y)
    BY <1>1, <1>3, <1>4, <2>4
  <2>6. /\ Lex(Complement(x), Complement(y))
        /\ Complement(x) \in Quads /\ Complement(y) \in Quads
    BY <2>2, <2>5 DEF Lex, Quads
  <2> QED BY <2>1, <2>6, LexLess
<1> QED BY <1>7, <1>8, <1>9

(* Texts and numbers in the same order as others. *)
SameOrder(p, q, x, y) ==
    (Less(p, q) <=> Less(x, y)) /\ (Less(q, p) <=> Less(y, x)) /\ (p = q <=> x = y)

(* What the six operators tell depends on the order alone. *)
LEMMA ComparesSame ==
  ASSUME NEW p, NEW q, NEW x, NEW y, SameOrder(p, q, x, y), NEW o \in Orders
  PROVE  Compares(o, p, q) = Compares(o, x, y)
<1>1. /\ LessOrEqual(p, q) = LessOrEqual(x, y) /\ LessOrEqual(q, p) = LessOrEqual(y, x)
      /\ Less(p, q) = Less(x, y) /\ Less(q, p) = Less(y, x)
  <2>1. (Less(p, q) = Less(x, y)) /\ (Less(q, p) = Less(y, x))
    BY DEF SameOrder, Less
  <2>2. (LessOrEqual(p, q) <=> LessOrEqual(x, y)) /\ (LessOrEqual(q, p) <=> LessOrEqual(y, x))
    BY DEF SameOrder, LessOrEqual
  <2> QED BY <2>1, <2>2 DEF LessOrEqual
<1>2. (p = q <=> x = y)
  BY DEF SameOrder
<1> QED BY <1>1, <1>2 DEF Compares, Orders

(* The binary form has four parts. *)
LEMMA DecimalIsQuad == ASSUME NEW x \in Int PROVE RowDecimal(x) \in Quads
<1>1. Byte \in Int /\ IntMod \in Int /\ Sign \in Int /\ Group \in Int /\ Fraction \in Int
  BY ByteFacts, NumbersAssumption DEF Sign
<1>2. High(x) \in Int /\ Low(x) \in Int /\ Hundredths(x) \in Int
  BY <1>1, DecimalParts
<1>3. /\ Byte - 1 - High(x) \in Int /\ IntMod - 1 - Low(x) \in Int
      /\ Byte - 1 - Hundredths(x) \in Int /\ Sign - 1 \in Int
  BY <1>1, <1>2
<1>4. CASE x >= 0
  <2>1. RowDecimal(x) = <<Sign, High(x), Low(x), Hundredths(x)>>
    BY <1>4, DecimalParts
  <2> QED BY <1>1, <1>2, <2>1 DEF Quads
<1>5. CASE ~ (x >= 0)
  <2>1. RowDecimal(x) = <<Sign - 1, Byte - 1 - High(x), IntMod - 1 - Low(x),
                          Byte - 1 - Hundredths(x)>>
    BY <1>5, DecimalParts
  <2> QED BY <1>3, <2>1 DEF Quads
<1> QED BY <1>4, <1>5

(* So decimals may be compared as texts, and so may numbers in units of the *)
(* fraction.                                                                *)
LEMMA DecimalsOrdered ==
  ASSUME NEW x \in Int, NEW y \in Int
  PROVE  SameOrder(RowDecimal(x), RowDecimal(y), <<x>>, <<y>>)
<1>1. (Less(<<x>>, <<y>>) <=> x < y) /\ (Less(<<y>>, <<x>>) <=> y < x) /\ (<<x>> = <<y>> <=> x = y)
  BY LessOne
<1>2. CASE x < y
  <2>1. ~ (y < x) /\ x # y
    BY <1>2
  <2> QED BY <1>1, <1>2, <2>1, DecimalOrdered DEF SameOrder
<1>3. CASE y < x
  <2>1. ~ (x < y) /\ x # y
    BY <1>3
  <2> QED BY <1>1, <1>3, <2>1, DecimalOrdered DEF SameOrder
<1>4. CASE x = y
  <2>1. ~ Less(RowDecimal(x), RowDecimal(x))
    <3>2. RowDecimal(x) \in Quads
      BY DecimalIsQuad
    <3>3. \A z \in Quads : ~ Lex(z, z)
      BY DEF Quads, Lex
    <3> QED BY <3>2, <3>3, LessFour
  <2>2. ~ (x < y) /\ ~ (y < x)
    BY <1>4
  <2> QED BY <1>1, <1>4, <2>1, <2>2 DEF SameOrder
<1> QED BY <1>2, <1>3, <1>4

LEMMA IntsOrdered ==
  ASSUME NEW m \in Int, NEW n \in Int
  PROVE  SameOrder(<<m>>, <<n>>, <<Fraction * m>>, <<Fraction * n>>)
<1>1. Fraction \in Nat \ {0}
  BY NumbersAssumption, ByteFacts
<1>2. Fraction * m \in Int /\ Fraction * n \in Int
  BY <1>1
<1>3. m < n => Fraction * m < Fraction * n
  <2> SUFFICES ASSUME m < n PROVE Fraction * m < Fraction * n
    OBVIOUS
  <2>1. Fraction * m + Fraction <= Fraction * n
    BY <1>1, ProductGrows
  <2> QED BY <1>1, <1>2, <2>1
<1>4. n < m => Fraction * n < Fraction * m
  <2> SUFFICES ASSUME n < m PROVE Fraction * n < Fraction * m
    OBVIOUS
  <2>1. Fraction * n + Fraction <= Fraction * m
    BY <1>1, ProductGrows
  <2> QED BY <1>1, <1>2, <2>1
<1>5. ASSUME NEW p \in Int, NEW q \in Int, m < n => p < q, n < m => q < p, m = n => p = q
      PROVE  SameOrder(<<m>>, <<n>>, <<p>>, <<q>>)
  <2>1. /\ Less(<<m>>, <<n>>) <=> m < n
        /\ Less(<<n>>, <<m>>) <=> n < m
        /\ Less(<<p>>, <<q>>) <=> p < q
        /\ Less(<<q>>, <<p>>) <=> q < p
    BY LessOne
  <2>2. (m < n <=> p < q) /\ (n < m <=> q < p) /\ (m = n <=> p = q)
    BY <1>5
  <2> QED BY <2>1, <2>2 DEF SameOrder
<1> QED BY <1>2, <1>3, <1>4, <1>5

(* ItoDec makes the binary form of a number of up to nine digits. *)
LEMMA ItoDecMakesDecimal ==
  ASSUME NEW n \in Int, Fraction * n \in 0 .. Fraction * Group - 1
  PROVE  ItoDec(<<n>>) = RowDecimal(Fraction * n)
<1>1. Fraction \in Nat \ {0} /\ Group \in Nat \ {0} /\ Group <= IntMod /\ IntMod \in Nat \ {0}
  BY NumbersAssumption, ByteFacts
<1>2. Fraction * n \in Int /\ Fraction * Group \in Int /\ Fraction * 0 = 0
  BY <1>1
<1>3. n \in 0 .. Group - 1
  <2>1. CASE n < 0
    <3>1. Fraction * n + Fraction <= Fraction * 0
      BY <1>1, <2>1, ProductGrows
    <3> QED BY <1>1, <1>2, <3>1
  <2>2. CASE Group < n
    <3>1. Fraction * Group + Fraction <= Fraction * n
      BY <1>1, <2>2, ProductGrows
    <3> QED BY <1>1, <1>2, <3>1
  <2>3. CASE n = Group
    BY <1>2, <2>3
  <2> QED BY <1>1, <2>1, <2>2, <2>3
<1>4. n % IntMod = n
  <2>1. n = IntMod * 0 + n /\ n \in 0 .. IntMod - 1
    BY <1>1, <1>3
  <2> QED BY <1>1, <2>1, DivModUnique
<1>5. (Fraction * n) \div Fraction = n /\ (Fraction * n) % Fraction = 0
  <2>1. Fraction * n = Fraction * n + 0 /\ 0 \in 0 .. Fraction - 1
    BY <1>1, <1>2
  <2> QED BY <1>1, <1>2, <2>1, DivModUnique
<1>6. n \div Group = 0 /\ n % Group = n
  <2>1. n = Group * 0 + n
    BY <1>1
  <2> QED BY <1>1, <1>3, <2>1, DivModUnique
<1>7. ItoDec(<<n>>) = <<Sign, 0, n, 0>>
  BY <1>4 DEF ItoDec
<1>8. RowDecimal(Fraction * n) = <<Sign, 0, n, 0>>
  <2>1. ASSUME NEW x, x = Fraction * n PROVE RowDecimal(x) = <<Sign, 0, n, 0>>
    <3>1. x >= 0 /\ ~ (x < 0) /\ x \div Fraction = n /\ x % Fraction = 0
      BY <1>2, <1>5, <2>1
    <3> QED BY <1>6, <3>1 DEF RowDecimal
  <2> QED BY <2>1
<1> QED BY <1>7, <1>8

-----------------------------------------------------------------------------
(* What the operands of each kind stand for. *)
LEMMA IntColumn ==
  ASSUME NEW o \in ColumnOf("int")
  PROVE  /\ o.kind = "intcol"
         /\ \E n \in Int : typeLittle(o) = <<n>> /\ Value(o) = <<Fraction * n>>
<1>1. /\ o.kind = "intcol"
      /\ \/ \E n \in Ints : o.val = RowBytes(n, IntSize)
         \/ \E n \in Dates : o.val = RowBytes(n, DateSize)
  BY DEF ColumnOf
<1>2. typeLittle(o) = <<IntOf(o.val)>>
  BY <1>1 DEF typeLittle
<1>3. CASE \E n \in Ints : o.val = RowBytes(n, IntSize)
  <2>1. PICK n \in Ints : o.val = RowBytes(n, IntSize)
    BY <1>3
  <2>2. n \in Int /\ IntSize = 4 /\ DateSize = 3
    BY NumbersAssumption DEF IntSize, DateSize
  <2>3. Len(o.val) = IntSize /\ IntOf(o.val) = n
    BY <2>1, <2>2, RowBytesFacts, IntBytes
  <2>4. (CHOOSE k \in Ints : RowBytes(k, IntSize) = o.val) = n
    <3>1. \A k \in Ints : RowBytes(k, IntSize) = o.val => k = n
      BY <2>3, IntBytes
    <3> QED BY <2>1, <3>1
  <2>5. Value(o) = <<Fraction * CHOOSE k \in Ints : RowBytes(k, IntSize) = o.val>>
    <3>1. Len(o.val) # DateSize
      BY <2>2, <2>3
    <3> QED BY <1>1, <2>3, <3>1 DEF Value
  <2> QED BY <1>1, <1>2, <2>2, <2>3, <2>4, <2>5
<1>4. CASE \E n \in Dates : o.val = RowBytes(n, DateSize)
  <2>1. PICK n \in Dates : o.val = RowBytes(n, DateSize)
    BY <1>4
  <2>2. n \in Int /\ IntSize = 4 /\ DateSize = 3
    BY DateBytes DEF IntSize, DateSize
  <2>3. Len(o.val) = DateSize /\ IntOf(o.val) = n
    BY <2>1, <2>2, RowBytesFacts, DateBytes
  <2>4. (CHOOSE k \in Dates : RowBytes(k, DateSize) = o.val) = n
    <3>1. \A k \in Dates : RowBytes(k, DateSize) = o.val => k = n
      BY <2>3, DateBytes
    <3> QED BY <2>1, <3>1
  <2>5. Value(o) = <<Fraction * CHOOSE k \in Dates : RowBytes(k, DateSize) = o.val>>
    <3>1. Len(o.val) # IntSize
      BY <2>2, <2>3
    <3> QED BY <1>1, <2>3, <3>1 DEF Value
  <2> QED BY <1>1, <1>2, <2>2, <2>3, <2>4, <2>5
<1> QED BY <1>1, <1>3, <1>4

LEMMA CharColumn ==
  ASSUME NEW o \in ColumnOf("char")
  PROVE  o.kind = "charcol" /\ Value(o) = o.val
<1>1. o.kind = "charcol"
  BY DEF ColumnOf
<1> QED BY <1>1 DEF Value

LEMMA DecimalForm ==
  ASSUME NEW x \in Decimals PROVE x \in Int /\ DecimalOf(RowDecimal(x)) = <<x>>
<1>1. \A y \in Decimals : y \in Int
  BY NumbersAssumption
<1>2. \A y \in Decimals : RowDecimal(y) = RowDecimal(x) => y = x
  <2>1. ASSUME NEW y \in Decimals, RowDecimal(y) = RowDecimal(x) PROVE y = x
    <3>1. SameOrder(RowDecimal(y), RowDecimal(x), <<y>>, <<x>>)
      BY <1>1, DecimalsOrdered
    <3>2. <<y>> = <<x>>
      BY <2>1, <3>1 DEF SameOrder
    <3> QED BY <3>2
  <2> QED BY <2>1
<1>3. (CHOOSE y \in Decimals : RowDecimal(y) = RowDecimal(x)) = x
  BY <1>2
<1> QED BY <1>1, <1>3 DEF DecimalOf

LEMMA DecimalColumn ==
  ASSUME NEW o \in ColumnOf("decimal")
  PROVE  o.kind = "deccol" /\ \E x \in Int : o.val = RowDecimal(x) /\ Value(o) = <<x>>
<1>1. o.kind = "deccol" /\ \E x \in Decimals : o.val = RowDecimal(x)
  BY DEF ColumnOf
<1>2. Value(o) = DecimalOf(o.val)
  BY <1>1 DEF Value
<1> QED BY <1>1, <1>2, DecimalForm

LEMMA NumberConstant ==
  ASSUME NEW o \in Number
  PROVE  /\ o.kind = "intconst"
         /\ \E n \in Int : o.val = <<n>> /\ Value(o) = <<Fraction * n>>
<1>1. o.kind = "intconst" /\ \E n \in Ints : o.val = <<n>>
  BY DEF Number
<1>2. Value(o) = <<Fraction * o.val[1]>>
  BY <1>1 DEF Value
<1>3. PICK n \in Ints : o.val = <<n>>
  BY <1>1
<1>4. n \in Int
  BY NumbersAssumption
<1> QED BY <1>1, <1>2, <1>3, <1>4

(* substr(1) takes the mark off. *)
LEMMA CutMark ==
  ASSUME NEW S, NEW t \in Seq(S) PROVE substr1(<<Mark>> \o t) = t
<1>1. /\ <<Mark>> \in Seq(S \cup {Mark}) /\ t \in Seq(S \cup {Mark}) /\ Len(<<Mark>>) = 1
  BY SeqMonotonic
<1> DEFINE s == <<Mark>> \o t
<1>2. /\ s \in Seq(S \cup {Mark}) /\ Len(s) = 1 + Len(t) /\ Len(t) \in Nat
      /\ \A k \in 1 .. Len(s) : s[k] = IF k <= 1 THEN <<Mark>>[k] ELSE t[k - 1]
  BY <1>1, ConcatProperties, LenProperties
<1> HIDE DEF s
<1>3. s # <<>>
  BY <1>2
<1>4. /\ Tail(s) \in Seq(S \cup {Mark}) /\ Len(Tail(s)) = Len(t)
      /\ \A k \in 1 .. Len(Tail(s)) : Tail(s)[k] = s[k + 1]
  BY <1>2, <1>3, HeadTailProperties
<1>5. \A k \in 1 .. Len(t) : Tail(s)[k] = t[k]
  BY <1>2, <1>4
<1>6. Tail(s) = t
  BY <1>1, <1>4, <1>5, SeqEqual
<1> QED BY <1>6 DEF s, substr1

LEMMA CharText ==
  ASSUME NEW o \in Constant("char"), family = "char"
  PROVE  o.kind = "text" /\ Value(o) = substr1(o.val)
<1>1. o.kind = "text"
  BY DEF Constant
<1> QED BY <1>1 DEF Value

LEMMA DecimalText ==
  ASSUME NEW o \in Constant("decimal"), o.kind = "text", family = "decimal"
  PROVE  \E x \in Int : substr1(o.val) = RowDecimal(x) /\ Value(o) = <<x>>
<1>1. \E x \in Decimals : o.val = <<Mark>> \o RowDecimal(x)
  BY DEF Constant, Number
<1>2. PICK x \in Decimals : o.val = <<Mark>> \o RowDecimal(x)
  BY <1>1
<1>3. RowDecimal(x) \in Seq(Int)
  <2>1. x \in Int
    BY NumbersAssumption
  <2>2. RowDecimal(x) \in Quads
    BY <2>1, DecimalIsQuad
  <2>3. PICK p1 \in Int, p2 \in Int, p3 \in Int, p4 \in Int : RowDecimal(x) = <<p1, p2, p3, p4>>
    BY <2>2 DEF Quads
  <2>4. <<p1, p2, p3, p4>> \in Seq(Int)
    OBVIOUS
  <2> QED BY <2>3, <2>4
<1>4. substr1(o.val) = RowDecimal(x)
  BY <1>2, <1>3, CutMark
<1>5. Value(o) = DecimalOf(substr1(o.val))
  BY DEF Value
<1> QED BY <1>4, <1>5, DecimalForm

LEMMA DigitText ==
  ASSUME NEW o \in Constant("int"), o.kind = "text", IsNumber(o), family = "int"
  PROVE  \E n \in Int : substr1(o.val) = <<n>> /\ Value(o) = <<Fraction * n>>
<1>1. \E x \in Digits \cup Letters : o.val = <<Mark, x>>
  BY DEF Constant, Number
<1>2. PICK x \in Digits \cup Letters : o.val = <<Mark, x>>
  BY <1>1
<1>3. x \in Int
  <2>1. o.val[2] \in Digits
    BY DEF IsNumber
  <2> QED BY <1>2, <2>1, CharactersAssumption
<1>4. Value(o) = <<Fraction * o.val[2]>>
  BY DEF Value
<1>5. substr1(o.val) = <<x>>
  BY <1>2 DEF substr1
<1> QED BY <1>2, <1>3, <1>4, <1>5

-----------------------------------------------------------------------------
(* A condition keeps its operands, and its result is what they make it. *)
OperandsOK ==
    /\ family \in Families
    /\ CV \in BOOLEAN
    /\ \/ /\ op \in Orders
          /\ \/ /\ LV \in ColumnOf(family)
                /\ \E o \in ColumnOf(family) \cup Constant(family) : RVs = <<o>>
             \/ LV \in Constant(family) /\ \E o \in ColumnOf(family) : RVs = <<o>>
       \/ /\ op = "BETWEEN"
          /\ LV \in ColumnOf(family) \cup Constant(family)
          /\ \E o, q \in ColumnOf(family) \cup Bound(family) : RVs = <<o, q>>
       \/ /\ op = "IN"
          /\ LV \in ColumnOf(family) \cup Constant(family)
          /\ \E o, q \in Element(family) : RVs = <<o, q>>

Compared == CV = Compares(op, Operands[1], Operands[2])

BetweenBothBounds ==
    /\ LV.kind = "intcol" => BetweenInts(CV)
    /\ LV.kind = "deccol" => BetweenDecimals(CV)

\* The comparison of In with one element.
EqualsElement(o) ==
    CASE LV.kind = "intcol" -> EqualsInt(typeLittle(LV), o)
      [] LV.kind = "intconst" -> EqualsInt(LV.val, o)
      [] LV.kind = "text" -> EqualsText(substr1(LV.val), o)
      [] OTHER -> EqualsText(LV.val, o)

FoundInList == CV <=> \E k \in Elements : EqualsElement(RVs[k])

CondInv ==
    /\ OperandsOK
    /\ phase \in {"evaluate", "done"}
    /\ phase = "done" => /\ op \in Orders => Compared
                         /\ op = "BETWEEN" => BetweenBothBounds
                         /\ op = "IN" => FoundInList

LEMMA CondInitInvariant == ASSUME CondInit PROVE CondInv
<1>1. OperandsOK
  BY DEF CondInit, OperandsOK
<1> QED BY <1>1 DEF CondInit, CondInv

LEMMA OperatorsDiffer == "BETWEEN" \notin Orders /\ "IN" \notin Orders /\ "BETWEEN" # "IN"
BY DEF Orders

(* Nothing but CV and the phase changes. *)
LEMMA OperandsKept ==
  ASSUME OperandsOK, UNCHANGED <<family, op, LV, RVs>>, CV' \in BOOLEAN PROVE OperandsOK'
<1>1. /\ ColumnOf(family)' = ColumnOf(family) /\ Constant(family)' = Constant(family)
      /\ Bound(family)' = Bound(family) /\ Element(family)' = Element(family)
  BY DEF ColumnOf, Constant, Bound, Element
<1> QED BY <1>1 DEF OperandsOK

LEMMA CompareInvariant == ASSUME CondInv, Compare PROVE CondInv'
<1>1. /\ op \in Orders /\ CV' = Compares(op, Operands[1], Operands[2])
      /\ phase' = "done" /\ UNCHANGED <<family, op, LV, RVs>>
  BY DEF Compare
<1>2. Operands' = Operands
  BY <1>1 DEF Operands, CharOperand, IntOperand, DecimalOperand, RightColumn
<1>3. Compared'
  BY <1>1, <1>2 DEF Compared
<1>4. CV' \in BOOLEAN
  BY <1>1 DEF Compares, Orders, LessOrEqual, Less
<1>5. op' \in Orders /\ op' # "BETWEEN" /\ op' # "IN"
  BY <1>1, OperatorsDiffer
<1>6. OperandsOK'
  BY <1>1, <1>4, OperandsKept DEF CondInv
<1> QED BY <1>1, <1>3, <1>5, <1>6 DEF CondInv

LEMMA BetweenInvariant == ASSUME CondInv, Between PROVE CondInv'
<1>1. /\ op = "BETWEEN" /\ phase' = "done" /\ UNCHANGED <<family, op, LV, RVs>>
  BY DEF Between
<1>2. CV' \in BOOLEAN /\ (LV.kind = "intcol" => BetweenInts(CV'))
        /\ (LV.kind = "deccol" => BetweenDecimals(CV'))
  BY DEF Between
<1>3. BetweenBothBounds'
  <2>1. ASSUME NEW v
        PROVE  (BetweenInts(v) => BetweenInts(v)') /\ (BetweenDecimals(v) => BetweenDecimals(v)')
    BY <1>1 DEF BetweenInts, BetweenDecimals
  <2> QED BY <1>1, <1>2, <2>1 DEF BetweenBothBounds
<1>4. op' = "BETWEEN" /\ op' \notin Orders /\ op' # "IN"
  BY <1>1, OperatorsDiffer
<1>5. OperandsOK'
  BY <1>1, <1>2, OperandsKept DEF CondInv
<1> QED BY <1>1, <1>3, <1>4, <1>5 DEF CondInv

LEMMA InInvariant == ASSUME CondInv, In PROVE CondInv'
<1>1. /\ op = "IN" /\ phase' = "done" /\ UNCHANGED <<family, op, LV, RVs>>
      /\ CV' = \E k \in Elements : EqualsElement(RVs[k])
  BY DEF In, EqualsElement
<1>2. FoundInList'
  <2>1. Elements' = Elements /\ RVs' = RVs
    BY <1>1 DEF Elements
  <2>2. \A o : EqualsElement(o)' = EqualsElement(o)
    BY <1>1 DEF EqualsElement
  <2> QED BY <1>1, <2>1, <2>2 DEF FoundInList
<1>3. CV' \in BOOLEAN
  BY <1>1
<1>4. op' = "IN" /\ op' \notin Orders /\ op' # "BETWEEN"
  BY <1>1, OperatorsDiffer
<1>5. OperandsOK'
  BY <1>1, <1>3, OperandsKept DEF CondInv
<1> QED BY <1>1, <1>2, <1>4, <1>5 DEF CondInv

LEMMA CondStutter == ASSUME CondInv, UNCHANGED condVars PROVE CondInv'
<1>1. UNCHANGED <<family, op, LV, RVs, CV, phase>>
  BY DEF condVars
<1>2. OperandsOK'
  BY <1>1, OperandsKept DEF CondInv, OperandsOK
<1>3. Compared' = Compared
  BY <1>1 DEF Compared, Operands, CharOperand, IntOperand, DecimalOperand, RightColumn
<1>4. BetweenBothBounds' = BetweenBothBounds
  BY <1>1 DEF BetweenBothBounds, BetweenInts, BetweenDecimals
<1>5. FoundInList' = FoundInList
  BY <1>1 DEF FoundInList, Elements, EqualsElement
<1> QED BY <1>1, <1>2, <1>3, <1>4, <1>5 DEF CondInv

LEMMA CondInvariantHolds == CondSpec => []CondInv
<1>1. CondInv /\ [CondNext]_condVars => CondInv'
  BY CompareInvariant, BetweenInvariant, InInvariant, CondStutter DEF CondNext
<1> QED BY <1>1, CondInitInvariant, PTL DEF CondSpec

-----------------------------------------------------------------------------
(* The operands of a comparison. *)
LEMMA ComparisonOperands ==
  ASSUME OperandsOK, op \in Orders
  PROVE  \E o : /\ RVs = <<o>> /\ RVs[1] = o
                /\ \/ LV \in ColumnOf(family) /\ o \in ColumnOf(family) \cup Constant(family)
                   \/ LV \in Constant(family) /\ o \in ColumnOf(family)
<1>1. op # "BETWEEN" /\ op # "IN"
  BY OperatorsDiffer
<1>2. \E o : /\ RVs = <<o>>
             /\ \/ LV \in ColumnOf(family) /\ o \in ColumnOf(family) \cup Constant(family)
                \/ LV \in Constant(family) /\ o \in ColumnOf(family)
  BY <1>1 DEF OperandsOK
<1> QED BY <1>2

(* A number, in a column or a constant. *)
LEMMA IntMeaning ==
  ASSUME NEW o \in ColumnOf("int") \cup Number
  PROVE  \E n \in Int : /\ IntOperand(o) = <<n>> /\ Value(o) = <<Fraction * n>>
                        /\ o.kind = "intcol" => typeLittle(o) = <<n>>
                        /\ o.kind = "intconst" => o.val = <<n>>
<1>1. CASE o \in ColumnOf("int")
  <2>1. o.kind = "intcol" /\ \E n \in Int : typeLittle(o) = <<n>> /\ Value(o) = <<Fraction * n>>
    BY <1>1, IntColumn
  <2>2. IntOperand(o) = typeLittle(o)
    BY <2>1 DEF IntOperand, IsString
  <2> QED BY <2>1, <2>2
<1>2. CASE o \in Number
  <2>1. o.kind = "intconst" /\ \E n \in Int : o.val = <<n>> /\ Value(o) = <<Fraction * n>>
    BY <1>2, NumberConstant
  <2>2. IntOperand(o) = o.val
    BY <2>1 DEF IntOperand, IsString
  <2> QED BY <2>1, <2>2
<1> QED BY <1>1, <1>2

(* In a comparison without a text both operands are numbers. *)
LEMMA IntComparison ==
  ASSUME OperandsOK, op \in Orders, family = "int", LV.kind # "text", RVs[1].kind # "text", Compared
  PROVE  CV = Compares(op, Value(LV), Value(RVs[1]))
<1>1. PICK o : /\ RVs = <<o>> /\ RVs[1] = o
               /\ \/ LV \in ColumnOf("int") /\ o \in ColumnOf("int") \cup Constant("int")
                  \/ LV \in Constant("int") /\ o \in ColumnOf("int")
  BY ComparisonOperands
<1>2. \A e \in Constant("int") : e.kind # "text" => e \in Number
  BY DEF Constant
<1>3. LV \in ColumnOf("int") \cup Number /\ o \in ColumnOf("int") \cup Number
  BY <1>1, <1>2
<1>4. PICK m \in Int : /\ IntOperand(LV) = <<m>> /\ Value(LV) = <<Fraction * m>>
                       /\ LV.kind = "intcol" => typeLittle(LV) = <<m>>
                       /\ LV.kind = "intconst" => LV.val = <<m>>
  BY <1>3, IntMeaning
<1>5. PICK n \in Int : /\ IntOperand(o) = <<n>> /\ Value(o) = <<Fraction * n>>
                       /\ o.kind = "intcol" => typeLittle(o) = <<n>>
                       /\ o.kind = "intconst" => o.val = <<n>>
  BY <1>3, IntMeaning
<1>6. Operands[1] = <<m>> /\ Operands[2] = <<n>>
  <2>1. CASE LV \in ColumnOf("int")
    <3>1. LV.kind = "intcol"
      BY <2>1, IntColumn
    <3> QED BY <1>1, <1>4, <1>5, <3>1 DEF Operands
  <2>2. CASE LV \in Number
    <3>1. LV.kind = "intconst"
      BY <2>2, NumberConstant
    <3>2. o \in ColumnOf("int")
      <4>1. LV \notin ColumnOf("int")
        BY <3>1, IntColumn
      <4> QED BY <1>1, <4>1
    <3>3. o.kind = "intcol"
      BY <3>2, IntColumn
    <3> QED BY <1>1, <1>4, <1>5, <3>1, <3>3 DEF Operands
  <2> QED BY <1>3, <2>1, <2>2
<1>7. Compares(op, <<m>>, <<n>>) = Compares(op, Value(LV), Value(o))
  BY <1>4, <1>5, IntsOrdered, ComparesSame
<1> QED BY <1>1, <1>6, <1>7 DEF Compared

(* The names of a CHAR column are not looked into; GE alone reads a constant. *)
LEMMA CharComparison ==
  ASSUME OperandsOK, op \in Orders, family = "char", op = "GE" \/ IsColumn(RVs[1]), Compared
  PROVE  CV = Compares(op, Value(LV), Value(RVs[1]))
<1>1. PICK o : /\ RVs = <<o>> /\ RVs[1] = o
               /\ \/ LV \in ColumnOf("char") /\ o \in ColumnOf("char") \cup Constant("char")
                  \/ LV \in Constant("char") /\ o \in ColumnOf("char")
  BY ComparisonOperands
<1>2. \A e \in ColumnOf("char") : e.kind = "charcol" /\ Value(e) = e.val
  BY CharColumn
<1>3. \A e \in Constant("char") : e.kind = "text" /\ Value(e) = substr1(e.val)
  BY CharText
<1>4. Operands[1] = Value(LV) /\ Operands[2] = Value(o)
  <2>1. CASE LV \in ColumnOf("char")
    <3>1. LV.kind = "charcol" /\ Value(LV) = LV.val
      BY <1>2, <2>1
    <3>2. CharOperand(o) = Value(o)
      <4>1. CASE o \in ColumnOf("char")
        BY <1>2, <4>1 DEF CharOperand, typeBig
      <4>2. CASE o \in Constant("char")
        <5>1. o.kind = "text" /\ Value(o) = substr1(o.val)
          BY <1>3, <4>2
        <5>2. op = "GE"
          BY <1>1, <5>1 DEF IsColumn
        <5> QED BY <5>1, <5>2 DEF CharOperand
      <4>3. o \in ColumnOf("char") \cup Constant("char")
        BY <1>1
      <4> QED BY <4>1, <4>2, <4>3
    <3> QED BY <1>1, <3>1, <3>2 DEF Operands
  <2>2. CASE LV \in Constant("char")
    <3>1. LV.kind = "text" /\ Value(LV) = substr1(LV.val)
      BY <1>3, <2>2
    <3>2. o \in ColumnOf("char")
      <4>1. LV \notin ColumnOf("char")
        BY <1>2, <3>1
      <4> QED BY <1>1, <4>1
    <3>3. RightColumn(o) = Value(o)
      BY <1>2, <3>2 DEF RightColumn, typeBig
    <3> QED BY <1>1, <3>1, <3>3 DEF Operands
  <2> QED BY <1>1, <2>1, <2>2
<1> QED BY <1>1, <1>4 DEF Compared

(* A number that ItoDec is right for. *)
LEMMA FittingNumber ==
  ASSUME NEW o \in ColumnOf("int") \cup Number, FitsItoDec(o), NEW n \in Int,
         Value(o) = <<Fraction * n>>
  PROVE  ItoDec(<<n>>) = RowDecimal(Fraction * n)
<1>1. IsInt(o)
  BY IntColumn, NumberConstant DEF IsInt
<1>2. <<Fraction * n>>[1] \in 0 .. Fraction * Group - 1
  BY <1>1 DEF FitsItoDec
<1> QED BY <1>2, ItoDecMakesDecimal

LEMMA FractionTimes == \A n \in Int : Fraction * n \in Int
<1>1. Fraction \in Int
  BY NumbersAssumption, ByteFacts
<1> QED BY <1>1

(* A decimal with a decimal, or with a number that ItoDec is right for. *)
LEMMA DecimalComparison ==
  ASSUME OperandsOK, op \in Orders, family = "decimal", LV.kind # "intconst", FitsItoDec(RVs[1]),
         Compared
  PROVE  CV = Compares(op, Value(LV), Value(RVs[1]))
<1>1. PICK o : /\ RVs = <<o>> /\ RVs[1] = o
               /\ \/ /\ LV \in ColumnOf("decimal")
                     /\ o \in ColumnOf("decimal") \cup Constant("decimal")
                  \/ LV \in Constant("decimal") /\ o \in ColumnOf("decimal")
  BY ComparisonOperands
<1>2. \A e \in ColumnOf("decimal") :
         e.kind = "deccol" /\ \E z \in Int : e.val = RowDecimal(z) /\ Value(e) = <<z>>
  BY DecimalColumn
<1>3. \A e \in Constant("decimal") : e \in Number \/ e.kind = "text"
  BY DEF Constant
<1>4. \E x, y \in Int : /\ Operands[1] = RowDecimal(x) /\ Value(LV) = <<x>>
                        /\ Operands[2] = RowDecimal(y) /\ Value(o) = <<y>>
  <2>1. CASE LV \in ColumnOf("decimal")
    <3>1. LV.kind = "deccol" /\ \E x \in Int : LV.val = RowDecimal(x) /\ Value(LV) = <<x>>
      BY <1>2, <2>1
    <3>2. \E y \in Int : DecimalOperand(o) = RowDecimal(y) /\ Value(o) = <<y>>
      <4>1. CASE o \in ColumnOf("decimal")
        <5>1. o.kind = "deccol" /\ \E y \in Int : o.val = RowDecimal(y) /\ Value(o) = <<y>>
          BY <1>2, <4>1
        <5> QED BY <5>1 DEF DecimalOperand, typeDecimal
      <4>2. CASE o \in Number
        <5>1. o.kind = "intconst"
          BY <4>2, NumberConstant
        <5>2. PICK n \in Int : o.val = <<n>> /\ Value(o) = <<Fraction * n>>
          BY <4>2, NumberConstant
        <5>3. ItoDec(<<n>>) = RowDecimal(Fraction * n)
          BY <1>1, <4>2, <5>2, FittingNumber
        <5>4. DecimalOperand(o) = ItoDec(<<n>>)
          BY <5>1, <5>2 DEF DecimalOperand
        <5> QED BY <5>2, <5>3, <5>4, FractionTimes
      <4>3. CASE o \in Constant("decimal") /\ o.kind = "text"
        <5>1. \E y \in Int : substr1(o.val) = RowDecimal(y) /\ Value(o) = <<y>>
          BY <4>3, DecimalText
        <5> QED BY <4>3, <5>1 DEF DecimalOperand
      <4> QED BY <1>1, <1>3, <4>1, <4>2, <4>3
    <3>3. Operands[1] = LV.val /\ Operands[2] = DecimalOperand(o)
      BY <1>1, <3>1 DEF Operands
    <3> QED BY <3>1, <3>2, <3>3
  <2>2. CASE LV \in Constant("decimal")
    <3>1. LV.kind = "text"
      BY <1>3, <2>2, NumberConstant
    <3>2. \E x \in Int : substr1(LV.val) = RowDecimal(x) /\ Value(LV) = <<x>>
      BY <2>2, <3>1, DecimalText
    <3>3. o \in ColumnOf("decimal")
      <4>1. LV \notin ColumnOf("decimal")
        BY <1>2, <3>1
      <4> QED BY <1>1, <4>1
    <3>4. o.kind = "deccol" /\ \E y \in Int : o.val = RowDecimal(y) /\ Value(o) = <<y>>
      BY <1>2, <3>3
    <3>5. Operands[1] = substr1(LV.val) /\ Operands[2] = o.val
      BY <1>1, <3>1, <3>4 DEF Operands, RightColumn, typeDecimal
    <3> QED BY <3>2, <3>4, <3>5
  <2> QED BY <1>1, <2>1, <2>2
<1>5. PICK x \in Int, y \in Int : /\ Operands[1] = RowDecimal(x) /\ Value(LV) = <<x>>
                                  /\ Operands[2] = RowDecimal(y) /\ Value(o) = <<y>>
  BY <1>4
<1>6. Compares(op, RowDecimal(x), RowDecimal(y)) = Compares(op, <<x>>, <<y>>)
  BY DecimalsOrdered, ComparesSame
<1> QED BY <1>1, <1>5, <1>6 DEF Compared

(* GE to NE compare the values that their operands stand for (the cases GE  *)
(* to NE of BlockFilter with typeLittle, typeBig, typeDecimal and ItoDec),  *)
(* for numbers of any size, either sign and texts of any length.            *)
THEOREM ComparesCorrect == CondSpec => []ComparesValues
<1>1. CondInv => ComparesValues
  <2> SUFFICES ASSUME CondInv, phase = "done", op \in Orders,
                      family = "int" => {LV.kind, RVs[1].kind} \cap {"text"} = {},
                      family = "decimal" => LV.kind # "intconst" /\ FitsItoDec(RVs[1]),
                      family = "char" => op = "GE" \/ IsColumn(RVs[1])
               PROVE  CV = Compares(op, Value(LV), Value(RVs[1]))
    BY DEF ComparesValues
  <2>1. OperandsOK /\ Compared /\ family \in Families
    BY DEF CondInv, OperandsOK
  <2>2. CASE family = "int"
    <3>1. LV.kind # "text" /\ RVs[1].kind # "text"
      BY <2>2
    <3> QED BY <2>1, <2>2, <3>1, IntComparison
  <2>3. CASE family = "char"
    BY <2>1, <2>3, CharComparison
  <2>4. CASE family = "decimal"
    BY <2>1, <2>4, DecimalComparison
  <2> QED BY <2>1, <2>2, <2>3, <2>4 DEF Families
<1> QED BY <1>1, CondInvariantHolds, PTL

-----------------------------------------------------------------------------
(* BETWEEN depends on the order alone, too. *)
LEMMA BetweenSame ==
  ASSUME NEW p, NEW q, NEW s, NEW x, NEW y, NEW z,
         SameOrder(q, p, y, x), SameOrder(p, s, x, z)
  PROVE  BetweenOperator(p, q, s) = BetweenOperator(x, y, z)
BY DEF BetweenOperator, SameOrder, LessOrEqual

LEMMA BetweenOperands ==
  ASSUME OperandsOK, op = "BETWEEN"
  PROVE  \E o, q \in ColumnOf(family) \cup Bound(family) :
            /\ RVs = <<o, q>> /\ RVs[1] = o /\ RVs[2] = q /\ DOMAIN RVs = {1, 2}
            /\ LV \in ColumnOf(family) \cup Constant(family)
<1>1. op \notin Orders /\ op # "IN"
  BY OperatorsDiffer
<1>2. /\ LV \in ColumnOf(family) \cup Constant(family)
      /\ \E o, q \in ColumnOf(family) \cup Bound(family) : RVs = <<o, q>>
  BY <1>1 DEF OperandsOK
<1>3. PICK o \in ColumnOf(family) \cup Bound(family), q \in ColumnOf(family) \cup Bound(family) :
         RVs = <<o, q>>
  BY <1>2
<1>4. RVs[1] = o /\ RVs[2] = q /\ DOMAIN RVs = {1, 2}
  <2>1. 1 .. 2 = {1, 2}
    OBVIOUS
  <2> QED BY <1>3, <2>1
<1> QED BY <1>2, <1>3, <1>4

(* A column is on the left if its kind is a column's. *)
LEMMA LeftColumn ==
  ASSUME NEW o \in ColumnOf(family) \cup Constant(family), family \in Families, IsColumn(o)
  PROVE  o \in ColumnOf(family)
<1>1. \A e \in Constant(family) : e.kind \in {"intconst", "text"}
  BY DEF Constant, Number, Families
<1>2. /\ "intconst" \notin {"intcol", "charcol", "deccol"}
      /\ "text" \notin {"intcol", "charcol", "deccol"}
  OBVIOUS
<1> QED BY <1>1, <1>2 DEF IsColumn

(* Bounds that are numbers are read both, so nothing stale takes their place. *)
LEMMA IntBounds ==
  ASSUME OperandsOK, op = "BETWEEN", family = "int", IsColumn(LV), AllNumbers, BetweenBothBounds
  PROVE  CV = BetweenOperator(Value(LV), Value(RVs[1]), Value(RVs[2]))
<1>1. PICK o \in ColumnOf("int") \cup Bound("int"), q \in ColumnOf("int") \cup Bound("int") :
         /\ RVs[1] = o /\ RVs[2] = q /\ DOMAIN RVs = {1, 2}
         /\ LV \in ColumnOf("int") \cup Constant("int")
  BY BetweenOperands
<1>2. IsNumber(o) /\ IsNumber(q)
  BY <1>1 DEF AllNumbers
<1>3. ASSUME NEW e \in ColumnOf("int") \cup Bound("int"), IsNumber(e)
      PROVE  \E n \in Int : IntBound(e) = <<n>> /\ Value(e) = <<Fraction * n>>
  <2>1. e \in ColumnOf("int") \cup Constant("int")
    BY DEF Bound
  <2>2. CASE e \in ColumnOf("int") \cup Number
    <3>1. e.kind # "text"
      BY <2>2, IntColumn, NumberConstant
    <3> QED BY <2>2, <3>1, IntMeaning DEF IntBound
  <2>3. CASE e \in Constant("int") /\ e.kind = "text"
    BY <1>3, <2>3, DigitText DEF IntBound
  <2> QED BY <2>1, <2>2, <2>3 DEF Constant
<1>4. LV \in ColumnOf("int")
  BY <1>1, LeftColumn DEF Families
<1>5. PICK l \in Int : LV.kind = "intcol" /\ typeLittle(LV) = <<l>> /\ Value(LV) = <<Fraction * l>>
  BY <1>4, IntColumn
<1>6. PICK m \in Int : IntBound(o) = <<m>> /\ Value(o) = <<Fraction * m>>
  BY <1>2, <1>3
<1>7. PICK n \in Int : IntBound(q) = <<n>> /\ Value(q) = <<Fraction * n>>
  BY <1>2, <1>3
<1>8. BetweenInts(CV)
  BY <1>5 DEF BetweenBothBounds
<1>9. CV = BetweenOperator(<<l>>, <<m>>, <<n>>)
  BY <1>1, <1>2, <1>5, <1>6, <1>7, <1>8 DEF BetweenInts
<1>10. BetweenOperator(<<l>>, <<m>>, <<n>>)
          = BetweenOperator(<<Fraction * l>>, <<Fraction * m>>, <<Fraction * n>>)
  BY BetweenSame, IntsOrdered
<1> QED BY <1>1, <1>5, <1>6, <1>7, <1>9, <1>10

(* Decimal bounds are compared without their marks. *)
LEMMA DecimalBounds ==
  ASSUME OperandsOK, op = "BETWEEN", family = "decimal", IsColumn(LV),
         \A k \in DOMAIN RVs : RVs[k].kind = "text", BetweenBothBounds
  PROVE  CV = BetweenOperator(Value(LV), Value(RVs[1]), Value(RVs[2]))
<1>1. PICK o \in ColumnOf("decimal") \cup Bound("decimal"),
           q \in ColumnOf("decimal") \cup Bound("decimal") :
         /\ RVs[1] = o /\ RVs[2] = q /\ DOMAIN RVs = {1, 2}
         /\ LV \in ColumnOf("decimal") \cup Constant("decimal")
  BY BetweenOperands
<1>2. o.kind = "text" /\ q.kind = "text"
  BY <1>1
<1>3. ASSUME NEW e \in ColumnOf("decimal") \cup Bound("decimal"), e.kind = "text"
      PROVE  \E x \in Int : BoundTexts(e) = {RowDecimal(x)} /\ Value(e) = <<x>>
  <2>1. e \in Constant("decimal")
    BY <1>3, DecimalColumn DEF Bound
  <2> QED BY <1>3, <2>1, DecimalText DEF BoundTexts
<1>4. LV \in ColumnOf("decimal")
  BY <1>1, LeftColumn DEF Families
<1>5. PICK x \in Int : LV.kind = "deccol" /\ LV.val = RowDecimal(x) /\ Value(LV) = <<x>>
  BY <1>4, DecimalColumn
<1>6. PICK y \in Int : BoundTexts(o) = {RowDecimal(y)} /\ Value(o) = <<y>>
  BY <1>2, <1>3
<1>7. PICK z \in Int : BoundTexts(q) = {RowDecimal(z)} /\ Value(q) = <<z>>
  BY <1>2, <1>3
<1>8. BetweenDecimals(CV)
  BY <1>5 DEF BetweenBothBounds
<1>9. CV = BetweenOperator(RowDecimal(x), RowDecimal(y), RowDecimal(z))
  BY <1>1, <1>5, <1>6, <1>7, <1>8 DEF BetweenDecimals, UpperBounds
<1>10. BetweenOperator(RowDecimal(x), RowDecimal(y), RowDecimal(z))
          = BetweenOperator(<<x>>, <<y>>, <<z>>)
  BY BetweenSame, DecimalsOrdered
<1> QED BY <1>1, <1>5, <1>6, <1>7, <1>9, <1>10

(* BETWEEN tells whether a number lies between numbers, columns or texts of *)
(* digits, and a decimal between decimal constants (BetweenOperator).       *)
THEOREM BetweenCorrect == CondSpec => []BetweenBounds
<1>1. CondInv => BetweenBounds
  <2> SUFFICES ASSUME CondInv, phase = "done", op = "BETWEEN", IsColumn(LV),
                      \/ family = "int" /\ AllNumbers
                      \/ family = "decimal" /\ \A k \in DOMAIN RVs : RVs[k].kind = "text"
               PROVE  CV = BetweenOperator(Value(LV), Value(RVs[1]), Value(RVs[2]))
    BY DEF BetweenBounds
  <2>1. OperandsOK /\ BetweenBothBounds
    BY DEF CondInv
  <2> QED BY <2>1, IntBounds, DecimalBounds
<1> QED BY <1>1, CondInvariantHolds, PTL

-----------------------------------------------------------------------------
(* An element is compared as the code of its kind and that of LV says: the *)
(* three lemmas that follow say that this is equality of the values.       *)
LEMMA InOperands ==
  ASSUME OperandsOK, op = "IN"
  PROVE  /\ DOMAIN RVs = {1, 2} /\ Elements = {1, 2}
         /\ LV \in ColumnOf(family) \cup Constant(family)
         /\ \A k \in {1, 2} : RVs[k] \in Element(family)
<1>1. op \notin Orders /\ op # "BETWEEN"
  BY OperatorsDiffer
<1>2. /\ LV \in ColumnOf(family) \cup Constant(family)
      /\ \E o, q \in Element(family) : RVs = <<o, q>>
  BY <1>1 DEF OperandsOK
<1>3. PICK o \in Element(family), q \in Element(family) : RVs = <<o, q>>
  BY <1>2
<1>4. 1 .. 2 = {1, 2}
  OBVIOUS
<1>5. RVs[1] = o /\ RVs[2] = q /\ DOMAIN RVs = {1, 2} /\ Len(RVs) = 2
  BY <1>3, <1>4
<1> QED BY <1>2, <1>4, <1>5 DEF Elements

(* A number on the left, and an element that is a number or a decimal. *)
LEMMA IntElement ==
  ASSUME NEW left \in ColumnOf("int") \cup Number, NEW m \in Int, Value(left) = <<Fraction * m>>,
         NEW e \in ColumnOf("int") \cup ColumnOf("decimal") \cup Number,
         e.kind = "deccol" => FitsItoDec(left)
  PROVE  EqualsInt(<<m>>, e) <=> Value(left) = Value(e)
<1>1. CASE e \in ColumnOf("int") \cup Number
  <2>1. e.kind \in {"intcol", "intconst"} /\ e.kind # "deccol"
    BY <1>1, IntColumn, NumberConstant
  <2>2. PICK n \in Int : IntOperand(e) = <<n>> /\ Value(e) = <<Fraction * n>>
    BY <1>1, IntMeaning
  <2>3. <<m>> = <<n>> <=> <<Fraction * m>> = <<Fraction * n>>
    BY IntsOrdered DEF SameOrder
  <2> QED BY <2>1, <2>2, <2>3 DEF EqualsInt
<1>2. CASE e \in ColumnOf("decimal")
  <2>1. e.kind = "deccol"
    BY <1>2, DecimalColumn
  <2>2. PICK x \in Int : e.val = RowDecimal(x) /\ Value(e) = <<x>>
    BY <1>2, DecimalColumn
  <2>3. ItoDec(<<m>>) = RowDecimal(Fraction * m)
    BY <2>1, FittingNumber
  <2>4. RowDecimal(Fraction * m) = RowDecimal(x) <=> <<Fraction * m>> = <<x>>
    BY FractionTimes, DecimalsOrdered DEF SameOrder
  <2>5. EqualsInt(<<m>>, e) <=> ItoDec(<<m>>) = e.val
    BY <2>1 DEF EqualsInt, typeDecimal
  <2> QED BY <2>2, <2>3, <2>4, <2>5
<1> QED BY <1>1, <1>2

(* A decimal on the left. *)
LEMMA DecimalElement ==
  ASSUME NEW left, NEW x \in Int, Value(left) = <<x>>, family = "decimal",
         NEW e \in Element("decimal"), FitsItoDec(e)
  PROVE  EqualsText(RowDecimal(x), e) <=> Value(left) = Value(e)
<1>1. \/ e \in ColumnOf("int") \cup Number \/ e \in ColumnOf("decimal")
      \/ e \in Constant("decimal") /\ e.kind = "text"
  BY DEF Element, Constant
<1>2. \A y \in Int : RowDecimal(x) = RowDecimal(y) <=> <<x>> = <<y>>
  BY DecimalsOrdered DEF SameOrder
<1>3. CASE e \in ColumnOf("int") \cup Number
  <2>1. PICK n \in Int : /\ Value(e) = <<Fraction * n>>
                         /\ e.kind = "intcol" => typeLittle(e) = <<n>>
                         /\ e.kind = "intconst" => e.val = <<n>>
    BY <1>3, IntMeaning
  <2>2. ItoDec(<<n>>) = RowDecimal(Fraction * n)
    BY <1>3, <2>1, FittingNumber
  <2>3. e.kind \in {"intcol", "intconst"}
    BY <1>3, IntColumn, NumberConstant
  <2>4. EqualsText(RowDecimal(x), e) <=> RowDecimal(x) = ItoDec(<<n>>)
    BY <2>1, <2>3 DEF EqualsText
  <2> QED BY <1>2, <2>1, <2>2, <2>4, FractionTimes
<1>4. CASE e \in ColumnOf("decimal")
  <2>1. e.kind = "deccol" /\ \E y \in Int : e.val = RowDecimal(y) /\ Value(e) = <<y>>
    BY <1>4, DecimalColumn
  <2> QED BY <1>2, <2>1 DEF EqualsText, typeDecimal
<1>5. CASE e \in Constant("decimal") /\ e.kind = "text"
  <2>1. \E y \in Int : substr1(e.val) = RowDecimal(y) /\ Value(e) = <<y>>
    BY <1>5, DecimalText
  <2> QED BY <1>2, <1>5, <2>1 DEF EqualsText
<1> QED BY <1>1, <1>3, <1>4, <1>5

(* Texts among texts. *)
LEMMA CharElement ==
  ASSUME family = "char", NEW e \in Element("char"), NEW t
  PROVE  EqualsText(t, e) <=> t = Value(e)
<1>1. e \in Constant("char") \/ e \in ColumnOf("char")
  BY DEF Element
<1>2. CASE e \in Constant("char")
  <2>1. e.kind = "text" /\ Value(e) = substr1(e.val)
    BY <1>2, CharText
  <2> QED BY <2>1 DEF EqualsText
<1>3. CASE e \in ColumnOf("char")
  <2>1. e.kind = "charcol" /\ Value(e) = e.val
    BY <1>3, CharColumn
  <2> QED BY <2>1 DEF EqualsText, typeBig
<1> QED BY <1>1, <1>2, <1>3

InDecides(o) == EqualsElement(o) <=> Value(LV) = Value(o)

LEMMA LeftNumber ==
  ASSUME LV \in ColumnOf("int") \cup Number,
         NEW e \in ColumnOf("int") \cup ColumnOf("decimal") \cup Number,
         e.kind = "deccol" => FitsItoDec(LV)
  PROVE  InDecides(e)
<1>1. PICK m \in Int : /\ Value(LV) = <<Fraction * m>>
                       /\ LV.kind = "intcol" => typeLittle(LV) = <<m>>
                       /\ LV.kind = "intconst" => LV.val = <<m>>
  BY IntMeaning
<1>2. LV.kind \in {"intcol", "intconst"}
  BY IntColumn, NumberConstant
<1>3. EqualsElement(e) <=> EqualsInt(<<m>>, e)
  BY <1>1, <1>2 DEF EqualsElement
<1> QED BY <1>1, <1>3, IntElement DEF InDecides

(* The same for the whole list, by the type of the columns. *)
LEMMA IntList ==
  ASSUME OperandsOK, op = "IN", family \in {"int", "decimal"}, LV \in ColumnOf("int") \cup Number,
         \A k \in {1, 2} : RVs[k].kind # "text",
         \A k \in {1, 2} : RVs[k].kind = "deccol" => FitsItoDec(LV),
         NEW k \in {1, 2}
  PROVE  InDecides(RVs[k])
<1>1. RVs[k] \in Element(family) /\ RVs[k].kind # "text"
  BY InOperands
<1>2. RVs[k] \in ColumnOf("int") \cup ColumnOf("decimal") \cup Number
  BY <1>1 DEF Element, Constant
<1> QED BY <1>2, LeftNumber

LEMMA DecimalList ==
  ASSUME OperandsOK, op = "IN", family = "decimal", LV \notin Number,
         \A k \in {1, 2} : FitsItoDec(RVs[k]),
         NEW k \in {1, 2}
  PROVE  InDecides(RVs[k])
<1>1. RVs[k] \in Element("decimal") /\ LV \in ColumnOf("decimal") \cup Constant("decimal")
  BY InOperands
<1>2. CASE LV \in ColumnOf("decimal")
  <2>1. PICK x \in Int : LV.kind = "deccol" /\ LV.val = RowDecimal(x) /\ Value(LV) = <<x>>
    BY <1>2, DecimalColumn
  <2>2. EqualsElement(RVs[k]) <=> EqualsText(RowDecimal(x), RVs[k])
    BY <2>1 DEF EqualsElement
  <2> QED BY <1>1, <2>1, <2>2, DecimalElement DEF InDecides
<1>3. CASE LV \in Constant("decimal") /\ LV.kind = "text"
  <2>1. PICK x \in Int : substr1(LV.val) = RowDecimal(x) /\ Value(LV) = <<x>>
    BY <1>3, DecimalText
  <2>2. EqualsElement(RVs[k]) <=> EqualsText(RowDecimal(x), RVs[k])
    BY <1>3, <2>1 DEF EqualsElement
  <2> QED BY <1>1, <2>1, <2>2, DecimalElement DEF InDecides
<1> QED BY <1>1, <1>2, <1>3 DEF Constant

LEMMA CharList ==
  ASSUME OperandsOK, op = "IN", family = "char", NEW k \in {1, 2} PROVE InDecides(RVs[k])
<1>1. RVs[k] \in Element("char") /\ LV \in ColumnOf("char") \cup Constant("char")
  BY InOperands
<1>2. EqualsElement(RVs[k]) <=> EqualsText(Value(LV), RVs[k])
  <2>1. CASE LV \in ColumnOf("char")
    <3>1. LV.kind = "charcol" /\ Value(LV) = LV.val
      BY <2>1, CharColumn
    <3> QED BY <3>1 DEF EqualsElement
  <2>2. CASE LV \in Constant("char")
    <3>1. LV.kind = "text" /\ Value(LV) = substr1(LV.val)
      BY <2>2, CharText
    <3> QED BY <3>1 DEF EqualsElement
  <2> QED BY <1>1, <2>1, <2>2
<1> QED BY <1>1, <1>2, CharElement DEF InDecides

(* IN finds the elements of the list that equal the value, and no others    *)
(* (InOperator), if no text is among numbers and ItoDec is right for them.  *)
THEOREM InCorrect == CondSpec => []InElements
<1>1. CondInv => InElements
  <2> DEFINE all == {LV} \cup {RVs[k] : k \in DOMAIN RVs}
             texts == {o \in all : o.kind = "text"}
             decimals == {o \in all : o.kind = "deccol"}
  <2> SUFFICES ASSUME CondInv, phase = "done", op = "IN",
                      family = "int" \/ (family = "decimal" /\ IsInt(LV)) => texts = {},
                      family # "char" /\ texts \cup decimals # {} => \A o \in all : FitsItoDec(o)
               PROVE  CV <=> \E k \in DOMAIN RVs : Value(LV) = Value(RVs[k])
    BY DEF InElements
  <2>1. OperandsOK /\ FoundInList /\ family \in Families
    BY DEF CondInv, OperandsOK
  <2>2. /\ DOMAIN RVs = {1, 2} /\ Elements = {1, 2}
        /\ LV \in ColumnOf(family) \cup Constant(family)
    BY <2>1, InOperands
  <2>3. LV \in all /\ \A k \in {1, 2} : RVs[k] \in all
    BY <2>2
  <2>4. ASSUME NEW k \in {1, 2} PROVE InDecides(RVs[k])
    <3>1. CASE texts = {} /\ family # "char" /\ LV \in ColumnOf("int") \cup Number
      <4>1. \A n \in {1, 2} : RVs[n].kind # "text"
        BY <2>3, <3>1
      <4>2. \A n \in {1, 2} : RVs[n].kind = "deccol" => FitsItoDec(LV)
        BY <2>3, <3>1
      <4>3. family \in {"int", "decimal"}
        BY <2>1, <3>1 DEF Families
      <4> QED BY <2>1, <3>1, <4>1, <4>2, <4>3, IntList
    <3>2. CASE family = "int"
      <4>1. texts = {} /\ LV.kind # "text"
        BY <2>3, <3>2
      <4>2. LV \in ColumnOf("int") \cup Number
        BY <2>2, <3>2, <4>1 DEF Constant
      <4> QED BY <3>1, <3>2, <4>1, <4>2
    <3>3. CASE family = "decimal" /\ LV \in Number
      <4>1. IsInt(LV)
        BY <3>3, NumberConstant DEF IsInt
      <4> QED BY <3>1, <3>3, <4>1
    <3>4. CASE family = "decimal" /\ LV \notin Number
      <4>1. LV.kind = "deccol" \/ LV.kind = "text"
        BY <2>2, <3>4, DecimalColumn DEF Constant
      <4>2. texts \cup decimals # {}
        BY <2>3, <4>1
      <4>3. \A n \in {1, 2} : FitsItoDec(RVs[n])
        BY <2>3, <3>4, <4>2
      <4> QED BY <2>1, <3>4, <4>3, DecimalList
    <3>5. CASE family = "char"
      BY <2>1, <3>5, CharList
    <3> QED BY <2>1, <3>2, <3>3, <3>4, <3>5 DEF Families
  <2> QED BY <2>1, <2>2, <2>4 DEF FoundInList, InDecides
<1> QED BY <1>1, CondInvariantHolds, PTL

-----------------------------------------------------------------------------
(* LIKE: parts of values that are like parts of patterns. *)

(* The text for the k-th character of the pattern. *)
Advances(v, p, at, k) ==
    IF p[k] = ANY THEN at[k] <= at[k + 1] ELSE at[k + 1] = at[k] + 1 /\ v[at[k]] = p[k]

(* The value up to a is like the pattern up to b, both not included. *)
PartMatch(v, p, b, a) ==
    \E at \in [1 .. b -> 1 .. Len(v) + 1] :
       at[1] = 1 /\ at[b] = a /\ \A k \in 1 .. b - 1 : Advances(v, p, at, k)

LEMMA WholeMatch ==
  ASSUME NEW v \in Seq(Characters), NEW p \in Seq(Characters)
  PROVE  Matches(v, p) <=> PartMatch(v, p, Len(p) + 1, Len(v) + 1)
<1>1. Len(p) \in Nat
  BY LenProperties
<1>2. (Len(p) + 1) - 1 = Len(p)
  BY <1>1
<1> QED BY <1>2 DEF Matches, PartMatch, Advances

LEMMA MatchBegins ==
  ASSUME NEW v \in Seq(Characters), NEW p PROVE PartMatch(v, p, 1, 1)
<1> DEFINE at == [k \in 1 .. 1 |-> 1]
<1>1. Len(v) \in Nat
  BY LenProperties
<1>2. at \in [1 .. 1 -> 1 .. Len(v) + 1] /\ at[1] = 1 /\ \A k \in 1 .. 1 - 1 : Advances(v, p, at, k)
  BY <1>1
<1> QED BY <1>2 DEF PartMatch

(* A text that is that of the pattern. *)
LEMMA MatchText ==
  ASSUME NEW v \in Seq(Characters), NEW p, NEW b \in Nat \ {0}, NEW a \in Nat,
         PartMatch(v, p, b, a),
         NEW n \in Nat, a + n <= Len(v) + 1,
         \A m \in 0 .. n - 1 : p[b + m] # ANY /\ v[a + m] = p[b + m]
  PROVE  PartMatch(v, p, b + n, a + n)
<1>1. Len(v) \in Nat
  BY LenProperties
<1>2. PICK at \in [1 .. b -> 1 .. Len(v) + 1] :
         at[1] = 1 /\ at[b] = a /\ \A k \in 1 .. b - 1 : Advances(v, p, at, k)
  BY DEF PartMatch
<1> DEFINE new == [k \in 1 .. b + n |-> IF k <= b THEN at[k] ELSE a + (k - b)]
<1>3. a \in 1 .. Len(v) + 1
  BY <1>2
<1>4. new \in [1 .. b + n -> 1 .. Len(v) + 1]
  <2>1. ASSUME NEW k \in 1 .. b + n
        PROVE  (IF k <= b THEN at[k] ELSE a + (k - b)) \in 1 .. Len(v) + 1
    <3>1. CASE k <= b
      BY <1>2, <3>1
    <3>2. CASE k > b
      BY <1>1, <1>3, <3>2
    <3> QED BY <3>1, <3>2
  <2> QED BY <2>1
<1>5. /\ \A k \in 1 .. b : new[k] = at[k]
      /\ \A k \in b .. b + n : new[k] = a + (k - b)
  BY <1>2, <1>3
<1> HIDE DEF new
<1>6. ASSUME NEW k \in 1 .. (b + n) - 1 PROVE Advances(v, p, new, k)
  <2>1. CASE k < b
    <3>1. k \in 1 .. b - 1 /\ k \in 1 .. b /\ k + 1 \in 1 .. b
      BY <2>1
    <3>2. Advances(v, p, at, k)
      BY <1>2, <3>1
    <3> QED BY <1>5, <3>1, <3>2 DEF Advances
  <2>2. CASE k >= b
    <3>1. k \in b .. b + n /\ k + 1 \in b .. b + n /\ k - b \in 0 .. n - 1 /\ b + (k - b) = k
      BY <2>2
    <3>2. new[k] = a + (k - b) /\ new[k + 1] = a + ((k + 1) - b)
      BY <1>5, <3>1
    <3>3. p[k] # ANY /\ v[a + (k - b)] = p[k]
      BY <3>1
    <3>4. new[k + 1] = new[k] + 1
      BY <1>3, <3>1, <3>2
    <3> QED BY <3>2, <3>3, <3>4 DEF Advances
  <2> QED BY <2>1, <2>2
<1>7. new[1] = 1 /\ new[b + n] = a + n
  <2>1. 1 \in 1 .. b /\ b + n \in b .. b + n /\ (b + n) - b = n
    OBVIOUS
  <2> QED BY <1>2, <1>5, <2>1
<1> QED BY <1>4, <1>6, <1>7 DEF PartMatch

(* A '%' stands for any text. *)
LEMMA MatchAny ==
  ASSUME NEW v \in Seq(Characters), NEW p, NEW b \in Nat \ {0}, NEW a \in Nat,
         PartMatch(v, p, b, a),
         p[b] = ANY, NEW e \in a .. Len(v) + 1
  PROVE  PartMatch(v, p, b + 1, e)
<1>1. Len(v) \in Nat
  BY LenProperties
<1>2. PICK at \in [1 .. b -> 1 .. Len(v) + 1] :
         at[1] = 1 /\ at[b] = a /\ \A k \in 1 .. b - 1 : Advances(v, p, at, k)
  BY DEF PartMatch
<1> DEFINE new == [k \in 1 .. b + 1 |-> IF k <= b THEN at[k] ELSE e]
<1>3. a \in 1 .. Len(v) + 1 /\ e \in 1 .. Len(v) + 1
  BY <1>1, <1>2
<1>4. new \in [1 .. b + 1 -> 1 .. Len(v) + 1]
  BY <1>2, <1>3
<1>5. new[b + 1] = e /\ \A k \in 1 .. b : new[k] = at[k]
  BY <1>2, <1>3
<1> HIDE DEF new
<1>6. ASSUME NEW k \in 1 .. (b + 1) - 1 PROVE Advances(v, p, new, k)
  <2>1. CASE k < b
    <3>1. k \in 1 .. b - 1 /\ k \in 1 .. b /\ k + 1 \in 1 .. b
      BY <2>1
    <3>2. Advances(v, p, at, k)
      BY <1>2, <3>1
    <3> QED BY <1>5, <3>1, <3>2 DEF Advances
  <2>2. CASE k = b
    <3>1. new[k] = a /\ new[k + 1] = e /\ a <= e
      BY <1>2, <1>5, <2>2
    <3> QED BY <2>2, <3>1 DEF Advances
  <2> QED BY <2>1, <2>2
<1>7. new[1] = 1
  BY <1>2, <1>5
<1> QED BY <1>4, <1>5, <1>6, <1>7 DEF PartMatch

(* The n characters of the pattern from b on are a text without '%'. *)
IsText(p, b, n) ==
    b + n <= Len(p) + 1 /\ \A m \in 0 .. n - 1 : p[b + m] # ANY

(* That text is in the value, at the beginning or the end of it if it is at *)
(* that of the pattern.                                                    *)
TextFound(v, p, b, n) ==
    \E a \in Nat \ {0} :
       /\ a + n <= Len(v) + 1
       /\ \A m \in 0 .. n - 1 : v[a + m] = p[b + m]
       /\ b = 1 => a = 1
       /\ b + n = Len(p) + 1 => a + n = Len(v) + 1

(* Conversely, a text without '%' in the pattern is found in the value. *)
LEMMA TextMatched ==
  ASSUME NEW v \in Seq(Characters), NEW p \in Seq(Characters), Matches(v, p),
         NEW b \in Nat \ {0}, NEW n \in Nat, IsText(p, b, n)
  PROVE  TextFound(v, p, b, n)
<1> b + n <= Len(p) + 1 /\ \A m \in 0 .. n - 1 : p[b + m] # ANY
  BY DEF IsText
<1>1. Len(v) \in Nat /\ Len(p) \in Nat
  BY LenProperties
<1>2. PICK at \in [1 .. Len(p) + 1 -> 1 .. Len(v) + 1] :
         at[1] = 1 /\ at[Len(p) + 1] = Len(v) + 1 /\ \A k \in 1 .. Len(p) : Advances(v, p, at, k)
  BY DEF Matches, Advances
<1> DEFINE a == at[b]
<1>3. a \in 1 .. Len(v) + 1
  <2>1. b \in 1 .. Len(p) + 1
    BY <1>1
  <2> QED BY <1>2, <2>1
<1> DEFINE T == {m \in Nat : m <= n /\ at[b + m] # a + m}
<1>4. T = {}
  <2> SUFFICES ASSUME T # {} PROVE FALSE
    OBVIOUS
  <2>1. PICK m \in T : \A q \in T : m <= q
    BY LeastNumber
  <2>2. m # 0
    BY <1>3
  <2>3. m - 1 \in Nat /\ m - 1 <= n /\ m - 1 \in 0 .. n - 1
    BY <2>2
  <2>4. at[b + (m - 1)] = a + (m - 1)
    BY <2>1, <2>3
  <2>5. b + (m - 1) \in 1 .. Len(p) /\ (b + (m - 1)) + 1 = b + m
    BY <1>1, <2>3
  <2>6. at[b + m] = at[b + (m - 1)] + 1
    BY <1>2, <2>3, <2>5 DEF Advances
  <2> HIDE DEF a
  <2>7. at[b + m] = a + m
    BY <1>3, <2>3, <2>4, <2>6
  <2> QED BY <2>7 DEF a
<1>5. ASSUME NEW m \in 0 .. n PROVE at[b + m] = a + m
  <2>1. m \in Nat /\ m <= n
    OBVIOUS
  <2> HIDE DEF a
  <2> QED BY <1>4, <2>1
<1>6. a + n \in 1 .. Len(v) + 1
  <2>1. b + n \in 1 .. Len(p) + 1 /\ n \in 0 .. n
    BY <1>1
  <2> QED BY <1>2, <1>5, <2>1
<1>7. ASSUME NEW m \in 0 .. n - 1 PROVE v[a + m] = p[b + m]
  <2>1. b + m \in 1 .. Len(p) /\ m \in 0 .. n
    BY <1>1
  <2>2. v[at[b + m]] = p[b + m]
    BY <1>2, <2>1 DEF Advances
  <2> QED BY <1>5, <2>1, <2>2
<1>8. b = 1 => a = 1
  BY <1>2
<1>9. b + n = Len(p) + 1 => a + n = Len(v) + 1
  <2>1. n \in 0 .. n
    OBVIOUS
  <2> QED BY <1>2, <1>5, <2>1
<1> HIDE DEF a
<1>10. a \in Nat \ {0} /\ a + n <= Len(v) + 1
  BY <1>1, <1>3, <1>6
<1> QED BY <1>7, <1>8, <1>9, <1>10 DEF TextFound

-----------------------------------------------------------------------------
(* The pieces of the pattern, each with the place where it begins; the next *)
(* one would begin at e.                                                   *)
IsCut(p, pieces, s, e) ==
    /\ s \in [1 .. Len(pieces) + 1 -> Nat \ {0}]
    /\ s[1] = 1 /\ s[Len(pieces) + 1] = e
    /\ \A k \in 1 .. Len(pieces) :
          /\ s[k] <= Len(p) /\ s[k + 1] <= Len(p) + 2
          /\ s[k + 1] = s[k] + Len(pieces[k]) + 1
          /\ \A m \in 1 .. Len(pieces[k]) : pieces[k][m] = p[s[k] + m - 1]
          /\ \A m \in 0 .. Len(pieces[k]) - 1 : p[s[k] + m] # ANY
          /\ s[k + 1] <= Len(p) + 1 => p[s[k + 1] - 1] = ANY

InputsOK == lv \in Values /\ rv \in Patterns

LEMMA InputsAreTexts ==
  ASSUME InputsOK
  PROVE  /\ lv \in Seq(Characters) /\ rv \in Seq(Characters)
         /\ Len(lv) \in Nat /\ Len(rv) \in Nat \ {0}
BY PatternsAssumption, LenProperties, EmptySeq DEF InputsOK

LEMMA DelimiterFacts ==
  ASSUME InputsOK, NEW k \in 1 .. Len(rv)
  PROVE  /\ Delimiter(k) \in k .. Len(rv) + 1
         /\ \A n \in k .. Delimiter(k) - 1 : rv[n] # ANY
         /\ Delimiter(k) <= Len(rv) => rv[Delimiter(k)] = ANY
<1>1. Len(rv) \in Nat
  BY InputsAreTexts
<1> DEFINE T == {m \in Separators \cup {Len(rv) + 1} : m >= k}
           Is(m) == m >= k /\ \A n \in Separators : n >= k => m <= n
<1>2. T \subseteq Nat /\ T # {}
  BY <1>1 DEF Separators
<1>3. PICK x \in T : \A y \in T : x <= y
  BY <1>2, LeastNumber
<1>4. x \in Separators \cup {Len(rv) + 1} /\ Is(x)
  BY <1>3
<1>5. Delimiter(k) \in Separators \cup {Len(rv) + 1} /\ Is(Delimiter(k))
  <2>1. Delimiter(k) = CHOOSE m \in Separators \cup {Len(rv) + 1} : Is(m)
    BY DEF Delimiter
  <2> HIDE DEF Is
  <2> QED BY <1>4, <2>1
<1>6. Delimiter(k) \in k .. Len(rv) + 1
  BY <1>1, <1>5 DEF Separators
<1>7. ASSUME NEW n \in k .. Delimiter(k) - 1, rv[n] = ANY PROVE FALSE
  <2>1. n \in Separators /\ n >= k
    BY <1>1, <1>6, <1>7 DEF Separators
  <2>2. Delimiter(k) <= n
    BY <1>5, <2>1
  <2> QED BY <1>1, <1>6, <2>2
<1>8. Delimiter(k) <= Len(rv) => rv[Delimiter(k)] = ANY
  BY <1>1, <1>5 DEF Separators
<1> QED BY <1>6, <1>7, <1>8

SplitOK ==
    /\ val \in Seq(Seq(Characters))
    /\ pos \in Nat \ {0}
    /\ \E s : IsCut(rv, val, s, pos)

LEMMA LineCut ==
  ASSUME InputsOK, SplitOK, GetLine PROVE SplitOK'
<1> DEFINE m == Delimiter(pos)
           line == SubSeq(rv, pos, m - 1)
           n == Len(val)
<1>1. /\ pos \in 1 .. Len(rv) /\ UNCHANGED <<lv, rv>>
      /\ val' = Append(val, line) /\ pos' = m + 1
  BY InputsAreTexts DEF GetLine, More, SplitOK
<1>2. /\ m \in pos .. Len(rv) + 1 /\ \A k \in pos .. m - 1 : rv[k] # ANY
      /\ m <= Len(rv) => rv[m] = ANY
  BY <1>1, DelimiterFacts
<1>3. rv \in Seq(Characters) /\ Len(rv) \in Nat /\ val \in Seq(Seq(Characters)) /\ n \in Nat
  BY InputsAreTexts, LenProperties DEF SplitOK
<1> HIDE DEF m
<1>4. /\ line \in Seq(Characters) /\ Len(line) = m - pos
      /\ \A k \in 1 .. m - pos : line[k] = rv[pos + k - 1]
  <2>1. \A k \in pos .. m - 1 : rv[k] \in Characters
    <3>1. \A k \in pos .. m - 1 : k \in 1 .. Len(rv)
      BY <1>1, <1>2, <1>3
    <3> QED BY <1>3, <3>1, ElementOfSeq
  <2>2. pos \in Int /\ m - 1 \in Int /\ (m - 1) - pos + 1 = m - pos
    BY <1>1, <1>2, <1>3
  <2>3. /\ line \in Seq(Characters)
        /\ Len(line) = IF pos <= m - 1 THEN (m - 1) - pos + 1 ELSE 0
        /\ \A k \in 1 .. (m - 1) - pos + 1 : line[k] = rv[pos + k - 1]
    BY <2>1, <2>2, SubSeqProperties
  <2>4. Len(line) = m - pos
    BY <1>1, <1>2, <1>3, <2>3
  <2> QED BY <2>2, <2>3, <2>4
<1> HIDE DEF line
<1>5. PICK s : IsCut(rv, val, s, pos)
  BY DEF SplitOK
<1> DEFINE new == [k \in 1 .. n + 2 |-> IF k = n + 2 THEN m + 1 ELSE s[k]]
<1>6. /\ val' \in Seq(Seq(Characters)) /\ Len(val') = n + 1
      /\ val'[n + 1] = line /\ \A k \in 1 .. n : val'[k] = val[k]
  BY <1>1, <1>3, <1>4, AppendProperties
<1>7. /\ new[n + 2] = m + 1 /\ new[n + 1] = pos /\ new[1] = 1
      /\ \A k \in 1 .. n + 1 : new[k] = s[k] /\ s[k] \in Nat \ {0}
  <2>1. \A k \in 1 .. n + 1 : k \in 1 .. n + 2 /\ k # n + 2
    BY <1>3
  <2>2. n + 2 \in 1 .. n + 2 /\ n + 1 \in 1 .. n + 1 /\ 1 \in 1 .. n + 1
    BY <1>3
  <2> QED BY <1>5, <2>1, <2>2 DEF IsCut
<1>8. new \in [1 .. n + 2 -> Nat \ {0}]
  <2>1. m + 1 \in Nat \ {0}
    BY <1>1, <1>2
  <2>2. \A k \in 1 .. n + 2 : k # n + 2 => k \in 1 .. n + 1
    BY <1>3
  <2> QED BY <1>7, <2>1, <2>2
<1> HIDE DEF new
<1>9. ASSUME NEW k \in 1 .. n + 1
      PROVE  /\ new[k] <= Len(rv) /\ new[k + 1] <= Len(rv) + 2
             /\ new[k + 1] = new[k] + Len(val'[k]) + 1
             /\ \A q \in 1 .. Len(val'[k]) : val'[k][q] = rv[new[k] + q - 1]
             /\ \A q \in 0 .. Len(val'[k]) - 1 : rv[new[k] + q] # ANY
             /\ new[k + 1] <= Len(rv) + 1 => rv[new[k + 1] - 1] = ANY
  <2>1. CASE k = n + 1
    <3>1. val'[k] = line /\ new[k] = pos /\ new[k + 1] = m + 1
      <4>1. k + 1 = n + 2
        BY <1>3, <2>1
      <4> QED BY <1>6, <1>7, <2>1, <4>1
    <3>2. pos <= Len(rv) /\ m + 1 <= Len(rv) + 2 /\ m + 1 = pos + Len(line) + 1
             /\ (m + 1) - 1 = m
      BY <1>1, <1>2, <1>3, <1>4
    <3>3. ASSUME NEW q \in 0 .. Len(line) - 1 PROVE rv[pos + q] # ANY
      <4>1. pos + q \in pos .. m - 1
        BY <1>1, <1>2, <1>3, <1>4
      <4> QED BY <1>2, <4>1
    <3>4. m + 1 <= Len(rv) + 1 => rv[(m + 1) - 1] = ANY
      <4>1. m + 1 <= Len(rv) + 1 => m <= Len(rv)
        BY <1>2, <1>3
      <4> QED BY <1>2, <3>2, <4>1
    <3> QED BY <1>4, <3>1, <3>2, <3>3, <3>4
  <2>2. CASE k # n + 1
    <3>1. k \in 1 .. n /\ k \in 1 .. n + 1 /\ k + 1 \in 1 .. n + 1
      BY <1>3, <2>2
    <3>2. val'[k] = val[k] /\ new[k] = s[k] /\ new[k + 1] = s[k + 1]
      BY <1>6, <1>7, <3>1
    <3> QED BY <1>5, <3>1, <3>2 DEF IsCut
  <2> QED BY <2>1, <2>2
<1>10. IsCut(rv, val', new, m + 1)
  <2>1. Len(val') + 1 = n + 2
    BY <1>3, <1>6
  <2> QED BY <1>6, <1>7, <1>8, <1>9, <2>1 DEF IsCut
<1>11. m + 1 \in Nat \ {0}
  BY <1>1, <1>2
<1> QED BY <1>1, <1>6, <1>10, <1>11 DEF SplitOK

(* Where the pieces begin in the pattern. *)
Begins == CHOOSE s : IsCut(rv, val, s, pos)

LEMMA PieceFacts ==
  ASSUME InputsOK, SplitOK, ~ More
  PROVE  /\ Len(val) \in Nat \ {0} /\ Begins[1] = 1
         /\ \A k \in 1 .. Len(val) :
               /\ val[k] \in Seq(Characters) /\ Len(val[k]) \in Nat
               /\ Begins[k] \in Nat \ {0} /\ Begins[k] <= Len(rv)
               /\ Begins[k] + Len(val[k]) <= Len(rv) + 1
               /\ \A m \in 1 .. Len(val[k]) : val[k][m] = rv[Begins[k] + m - 1]
               /\ \A m \in 0 .. Len(val[k]) - 1 : rv[Begins[k] + m] # ANY
               /\ k < Len(val) => /\ Begins[k + 1] = Begins[k] + Len(val[k]) + 1
                                  /\ rv[Begins[k] + Len(val[k])] = ANY
<1> DEFINE n == Len(val)
<1>1. IsCut(rv, val, Begins, pos)
  BY DEF SplitOK, Begins
<1>2. Len(rv) \in Nat \ {0} /\ n \in Nat /\ pos \in Nat \ {0} /\ pos > Len(rv)
  BY InputsAreTexts, LenProperties DEF SplitOK, More
<1>3. Begins[1] = 1 /\ Begins[n + 1] = pos
  BY <1>1 DEF IsCut
<1>4. n # 0
  BY <1>2, <1>3
<1>5. ASSUME NEW k \in 1 .. n
      PROVE  /\ val[k] \in Seq(Characters) /\ Len(val[k]) \in Nat
             /\ Begins[k] \in Nat \ {0} /\ Begins[k + 1] \in Nat \ {0}
             /\ Begins[k] <= Len(rv) /\ Begins[k + 1] <= Len(rv) + 2
             /\ Begins[k + 1] = Begins[k] + Len(val[k]) + 1
  <2>1. val[k] \in Seq(Characters)
    BY ElementOfSeq DEF SplitOK
  <2>2. k \in 1 .. n + 1 /\ k + 1 \in 1 .. n + 1
    BY <1>2
  <2>3. Begins[k] \in Nat \ {0} /\ Begins[k + 1] \in Nat \ {0}
    BY <1>1, <2>2 DEF IsCut
  <2> QED BY <1>1, <2>1, <2>3, LenProperties DEF IsCut
<1>6. ASSUME NEW k \in 1 .. n
      PROVE  /\ Begins[k] + Len(val[k]) <= Len(rv) + 1
             /\ k < n => rv[Begins[k] + Len(val[k])] = ANY
  <2>1. Begins[k] + Len(val[k]) <= Len(rv) + 1
    BY <1>2, <1>5
  <2>2. k < n => rv[Begins[k] + Len(val[k])] = ANY
    <3> SUFFICES ASSUME k < n PROVE rv[Begins[k] + Len(val[k])] = ANY
      OBVIOUS
    <3>1. k + 1 \in 1 .. n
      BY <1>2
    <3>2. Begins[k + 1] <= Len(rv)
      BY <1>5, <3>1
    <3>3. Begins[k + 1] <= Len(rv) + 1 => rv[Begins[k + 1] - 1] = ANY
      BY <1>1 DEF IsCut
    <3>4. Begins[k + 1] - 1 = Begins[k] + Len(val[k]) /\ Begins[k + 1] <= Len(rv) + 1
      BY <1>2, <1>5, <3>2
    <3> QED BY <3>3, <3>4
  <2> QED BY <2>1, <2>2
<1>7. \A k \in 1 .. n :
         /\ \A m \in 1 .. Len(val[k]) : val[k][m] = rv[Begins[k] + m - 1]
         /\ \A m \in 0 .. Len(val[k]) - 1 : rv[Begins[k] + m] # ANY
  BY <1>1 DEF IsCut
<1> QED BY <1>2, <1>3, <1>4, <1>5, <1>6, <1>7

(* The last piece ends the pattern, or a '%' behind it does. *)
LEMMA LastPieceFacts ==
  ASSUME InputsOK, SplitOK, ~ More
  PROVE  LET n == Len(val)
         IN  /\ LastPiece = val[n]
             /\ islast => Begins[n] + Len(val[n]) = Len(rv)
             /\ ~ islast => Begins[n] + Len(val[n]) = Len(rv) + 1
<1> DEFINE n == Len(val)
<1>1. /\ n \in Nat \ {0} /\ Len(val[n]) \in Nat /\ Begins[n] \in Nat \ {0}
      /\ Begins[n] <= Len(rv) /\ Begins[n] + Len(val[n]) <= Len(rv) + 1
      /\ \A m \in 0 .. Len(val[n]) - 1 : rv[Begins[n] + m] # ANY
  <2>1. n \in Nat \ {0}
    BY PieceFacts
  <2>2. n \in 1 .. Len(val)
    BY <2>1
  <2> QED BY <2>1, <2>2, PieceFacts
<1>2. Len(rv) \in Nat \ {0}
  BY InputsAreTexts
<1>3. /\ Begins[n] + Len(val[n]) + 1 > Len(rv)
      /\ Begins[n] + Len(val[n]) <= Len(rv) => rv[Begins[n] + Len(val[n])] = ANY
  <2>1. IsCut(rv, val, Begins, pos)
    BY DEF SplitOK, Begins
  <2>2. n \in 1 .. Len(val) /\ pos \in Nat \ {0} /\ pos > Len(rv)
    BY <1>1, <1>2 DEF More, SplitOK
  <2>3. pos = Begins[n] + Len(val[n]) + 1
    BY <2>1, <2>2 DEF IsCut
  <2>4. pos <= Len(rv) + 1 => rv[pos - 1] = ANY
    BY <2>1, <2>2 DEF IsCut
  <2>5. pos - 1 = Begins[n] + Len(val[n])
    BY <1>1, <2>2, <2>3
  <2> QED BY <1>1, <1>2, <2>2, <2>3, <2>4, <2>5
<1>4. CASE Begins[n] + Len(val[n]) = Len(rv)
  <2>1. islast
    BY <1>2, <1>3, <1>4 DEF islast
  <2> QED BY <1>4, <2>1 DEF LastPiece
<1>5. CASE Begins[n] + Len(val[n]) = Len(rv) + 1
  <2>1. Len(val[n]) > 0
    BY <1>1, <1>2, <1>5
  <2>2. Len(val[n]) - 1 \in 0 .. Len(val[n]) - 1 /\ Begins[n] + (Len(val[n]) - 1) = Len(rv)
    BY <1>1, <1>2, <1>5, <2>1
  <2>3. ~ islast
    BY <1>1, <2>2 DEF islast
  <2> QED BY <1>5, <2>3 DEF LastPiece
<1> QED BY <1>1, <1>2, <1>3, <1>4, <1>5

(* The first piece is empty if the pattern begins with '%'. *)
LEMMA FirstPieceFacts ==
  ASSUME InputsOK, SplitOK, ~ More
  PROVE  /\ isfirst => Len(val[1]) = 0 /\ (1 < Len(val) => Begins[2] = 2)
         /\ ~ isfirst /\ 1 < Len(val) => rv[1] # ANY /\ Begins[2] > 2
<1>1. /\ Len(val) \in Nat \ {0} /\ Begins[1] = 1 /\ Len(val[1]) \in Nat
      /\ \A m \in 0 .. Len(val[1]) - 1 : rv[Begins[1] + m] # ANY
      /\ 1 < Len(val) => Begins[1 + 1] = Begins[1] + Len(val[1]) + 1
                            /\ rv[Begins[1] + Len(val[1])] = ANY
  <2>1. Len(val) \in Nat \ {0} /\ Begins[1] = 1
    BY PieceFacts
  <2>2. 1 \in 1 .. Len(val)
    BY <2>1
  <2> QED BY <2>1, <2>2, PieceFacts
<1>2. 1 < Len(val) => Begins[2] = 2 + Len(val[1]) /\ rv[1 + Len(val[1])] = ANY
  <2>1. 1 + 1 = 2 /\ 1 + Len(val[1]) + 1 = 2 + Len(val[1])
    BY <1>1
  <2> QED BY <1>1, <2>1
<1>3. CASE isfirst
  <2>1. CASE Len(val[1]) > 0
    <3>1. 0 \in 0 .. Len(val[1]) - 1 /\ 1 + 0 = 1
      BY <1>1, <2>1
    <3>2. rv[1] # ANY
      BY <1>1, <3>1
    <3> QED BY <1>3, <3>2 DEF isfirst
  <2>2. CASE Len(val[1]) = 0
    BY <1>2, <1>3, <2>2
  <2> QED BY <1>1, <2>1, <2>2
<1>4. CASE ~ isfirst
  <2>1. rv[1] # ANY
    BY <1>4 DEF isfirst
  <2>2. CASE Len(val[1]) = 0
    <3>1. ~ (1 < Len(val))
      BY <1>2, <2>1, <2>2
    <3> QED BY <1>4, <3>1
  <2>3. CASE Len(val[1]) > 0
    BY <1>1, <1>2, <1>4, <2>1, <2>3
  <2> QED BY <1>1, <2>2, <2>3
<1> QED BY <1>3, <1>4

(* Without a '%' at either end and one piece only there is none at all. *)
LEMMA NoSeparator ==
  ASSUME InputsOK, SplitOK, ~ More, Len(val) = 1, ~ islast PROVE Separators = {}
<1>1. Begins[1] = 1 /\ Begins[1] + Len(val[1]) = Len(rv) + 1
  BY PieceFacts, LastPieceFacts
<1>2. \A m \in 0 .. Len(val[1]) - 1 : rv[1 + m] # ANY
  <2>1. 1 \in 1 .. Len(val)
    OBVIOUS
  <2> QED BY <1>1, <2>1, PieceFacts
<1>3. Len(rv) \in Nat /\ Len(val[1]) \in Nat
  <2>1. 1 \in 1 .. Len(val)
    OBVIOUS
  <2> QED BY <2>1, InputsAreTexts, PieceFacts
<1>4. ASSUME NEW k \in 1 .. Len(rv) PROVE rv[k] # ANY
  <2>1. k - 1 \in 0 .. Len(val[1]) - 1 /\ 1 + (k - 1) = k
    BY <1>1, <1>3
  <2> QED BY <1>2, <2>1
<1> QED BY <1>4 DEF Separators

(* A pattern of one piece that is not empty. *)
LEMMA OnePieceFacts ==
  ASSUME InputsOK, SplitOK, ~ More, OnePiece
  PROVE  /\ isfirst => Len(val) = 2
         /\ ~ isfirst => Len(val) = 1 /\ Begins[Len(val)] = 1
<1> DEFINE n == Len(val)
<1>1. /\ n \in Nat \ {0} /\ Begins[1] = 1
      /\ \A k \in 1 .. n :
               /\ Len(val[k]) \in Nat
               /\ Begins[k] \in Nat \ {0} /\ Begins[k] <= Len(rv)
               /\ k < n => /\ Begins[k + 1] = Begins[k] + Len(val[k]) + 1
                           /\ rv[Begins[k] + Len(val[k])] = ANY
  BY PieceFacts
<1>2. Len(rv) \in Nat \ {0}
  BY InputsAreTexts
<1>3. ASSUME NEW k \in 1 .. n - 1 PROVE Begins[k + 1] = 2 /\ rv[1] = ANY
  <2>1. k \in 1 .. n /\ k < n /\ k + 1 \in 1 .. n
    BY <1>1
  <2>2. /\ Begins[k + 1] = Begins[k] + Len(val[k]) + 1 /\ rv[Begins[k] + Len(val[k])] = ANY
        /\ Begins[k] \in Nat \ {0} /\ Len(val[k]) \in Nat /\ Begins[k + 1] <= Len(rv)
    BY <1>1, <2>1
  <2>3. Begins[k] + Len(val[k]) \in 1 .. Len(rv) /\ Begins[k] + Len(val[k]) # Len(rv)
    BY <1>2, <2>2
  <2>4. Begins[k] + Len(val[k]) \in Separators
    BY <2>2, <2>3 DEF Separators
  <2>5. Begins[k] + Len(val[k]) = 1
    BY <2>3, <2>4 DEF OnePiece
  <2> QED BY <2>2, <2>5
<1>4. n <= 2
  <2> SUFFICES ASSUME n > 2 PROVE FALSE
    BY <1>1
  <2>1. 1 \in 1 .. n - 1 /\ 2 \in 1 .. n - 1 /\ 2 \in 1 .. n /\ 2 < n
    BY <1>1
  <2>2. Begins[1 + 1] = 2 /\ Begins[2 + 1] = 2
    BY <1>3, <2>1
  <2>3. Begins[2 + 1] = Begins[2] + Len(val[2]) + 1 /\ Len(val[2]) \in Nat
    BY <1>1, <2>1
  <2> QED BY <2>2, <2>3
<1>5. n = 1 \/ n = 2
  <2>1. n \in Nat \ {0}
    BY <1>1
  <2>2. \A m \in Nat \ {0} : m <= 2 => m = 1 \/ m = 2
    OBVIOUS
  <2> QED BY <1>4, <2>1, <2>2
<1>6. ASSUME isfirst PROVE n = 2
  <2> SUFFICES ASSUME n = 1 PROVE FALSE
    BY <1>5
  <2>1. Len(val[1]) = 0
    BY <1>6, FirstPieceFacts
  <2>2. Len(rv) = 1
    BY <1>1, <1>2, <2>1, LastPieceFacts
  <2>3. Separators = 1 .. Len(rv)
    BY <1>6, <2>2 DEF Separators, isfirst
  <2> QED BY <2>3 DEF OnePiece
<1>7. ASSUME ~ isfirst PROVE n = 1
  <2> SUFFICES ASSUME n = 2 PROVE FALSE
    BY <1>5
  <2>1. 1 \in 1 .. n - 1
    OBVIOUS
  <2> QED BY <1>3, <1>7, <2>1 DEF isfirst
<1> QED BY <1>1, <1>6, <1>7

-----------------------------------------------------------------------------
(* The text t is in the value behind its first n characters. *)
Occurs(t, n) == n + Len(t) <= Len(lv) /\ \A m \in 1 .. Len(t) : lv[n + m] = t[m]

LEMMA SubstrOccurs ==
  ASSUME InputsOK, NEW t \in Seq(Characters), NEW n \in Nat, n <= Len(lv)
  PROVE  substr(n, Len(t)) = t <=> Occurs(t, n)
<1> DEFINE e == IF n + Len(t) < Len(lv) THEN n + Len(t) ELSE Len(lv)
           s == SubSeq(lv, n + 1, e)
<1>1. lv \in Seq(Characters) /\ Len(lv) \in Nat /\ Len(t) \in Nat
  BY InputsAreTexts, LenProperties
<1>2. e \in Nat /\ e <= Len(lv) /\ n <= e /\ e <= n + Len(t)
  BY <1>1
<1>3. /\ s \in Seq(Characters) /\ Len(s) = e - n
      /\ \A m \in 1 .. e - n : s[m] = lv[n + m]
  <2> HIDE DEF e
  <2>1. \A m \in n + 1 .. e : lv[m] \in Characters
    <3>1. \A m \in n + 1 .. e : m \in 1 .. Len(lv)
      BY <1>1, <1>2
    <3> QED BY <1>1, <3>1, ElementOfSeq
  <2>2. n + 1 \in Int /\ e \in Int /\ e - (n + 1) + 1 = e - n
    BY <1>2
  <2>3. /\ s \in Seq(Characters)
        /\ Len(s) = IF n + 1 <= e THEN e - (n + 1) + 1 ELSE 0
        /\ \A m \in 1 .. e - (n + 1) + 1 : s[m] = lv[(n + 1) + m - 1]
    BY <2>1, <2>2, SubSeqProperties
  <2>4. Len(s) = e - n
    BY <1>2, <2>3
  <2>5. \A m \in 1 .. e - n : (n + 1) + m - 1 = n + m
    BY <1>2
  <2> QED BY <2>2, <2>3, <2>4, <2>5
<1>4. substr(n, Len(t)) = s
  BY DEF substr
<1>5. ASSUME s = t PROVE Occurs(t, n)
  <2>1. e - n = Len(t)
    BY <1>3, <1>5
  <2>2. n + Len(t) <= Len(lv)
    BY <1>1, <1>2, <2>1
  <2> HIDE DEF s, e
  <2> QED BY <1>3, <1>5, <2>1, <2>2 DEF Occurs
<1>6. ASSUME Occurs(t, n) PROVE s = t
  <2>1. e - n = Len(t)
    BY <1>1, <1>6 DEF Occurs
  <2>2. \A m \in 1 .. Len(t) : lv[n + m] = t[m]
    BY <1>6 DEF Occurs
  <2> HIDE DEF s, e
  <2>3. Len(s) = Len(t) /\ \A m \in 1 .. Len(s) : s[m] = t[m]
    BY <1>3, <2>1, <2>2
  <2> QED BY <1>3, <2>3, SeqEqual
<1> HIDE DEF s
<1> QED BY <1>4, <1>5, <1>6

\* The last piece could be what the pattern needs at this place.
Candidate(n) ==
    /\ Occurs(LastPiece, n)
    /\ ~ isfirst => n = 0
    /\ ~ islast => n + Len(LastPiece) = Len(lv)

(* A value like a pattern of one piece has the piece where it has to be. *)
LEMMA LikeHasCandidate ==
  ASSUME InputsOK, SplitOK, ~ More, OnePiece, Matches(lv, rv)
  PROVE  \E n \in Nat : Candidate(n)
<1> DEFINE last == Len(val)
           P == val[last]
           b == Begins[last]
<1>1. /\ last \in Nat \ {0} /\ Len(P) \in Nat /\ b \in Nat \ {0} /\ b + Len(P) <= Len(rv) + 1
      /\ \A m \in 1 .. Len(P) : P[m] = rv[b + m - 1]
      /\ \A m \in 0 .. Len(P) - 1 : rv[b + m] # ANY
  <2>1. last \in Nat \ {0}
    BY PieceFacts
  <2>2. last \in 1 .. Len(val)
    BY <2>1
  <2> QED BY <2>1, <2>2, PieceFacts
<1>2. /\ LastPiece = P
      /\ ~ islast => b + Len(P) = Len(rv) + 1
  BY LastPieceFacts
<1>3. ~ isfirst => b = 1
  BY OnePieceFacts
<1>4. lv \in Seq(Characters) /\ rv \in Seq(Characters) /\ Len(lv) \in Nat
  BY InputsAreTexts
<1> HIDE DEF last, P, b
<1>5. PICK a \in Nat \ {0} :
            /\ a + Len(P) <= Len(lv) + 1
            /\ \A m \in 0 .. Len(P) - 1 : lv[a + m] = rv[b + m]
            /\ b = 1 => a = 1
            /\ b + Len(P) = Len(rv) + 1 => a + Len(P) = Len(lv) + 1
  <2>1. IsText(rv, b, Len(P))
    BY <1>1 DEF IsText
  <2>2. TextFound(lv, rv, b, Len(P))
    BY <1>1, <1>4, <2>1, TextMatched
  <2> QED BY <2>2 DEF TextFound
<1>6. ASSUME NEW m \in 1 .. Len(P) PROVE lv[(a - 1) + m] = P[m]
  <2>1. m - 1 \in 0 .. Len(P) - 1 /\ a + (m - 1) = (a - 1) + m /\ b + (m - 1) = b + m - 1
    BY <1>1
  <2>2. lv[a + (m - 1)] = rv[b + (m - 1)]
    BY <1>5, <2>1
  <2>3. P[m] = rv[b + m - 1]
    BY <1>1
  <2> QED BY <2>1, <2>2, <2>3
<1>7. (a - 1) + Len(P) <= Len(lv)
  BY <1>1, <1>4, <1>5
<1>8. ~ islast => (a - 1) + Len(P) = Len(lv)
  BY <1>1, <1>2, <1>4, <1>5
<1>9. a - 1 \in Nat /\ (~ isfirst => a - 1 = 0)
  BY <1>3, <1>5
<1>10. Candidate(a - 1)
  BY <1>2, <1>6, <1>7, <1>8, <1>9 DEF Candidate, Occurs
<1> QED BY <1>9, <1>10

-----------------------------------------------------------------------------
(* LIKE: the matcher. *)

LEMMA PieceMatched ==
  ASSUME InputsOK, SplitOK, ~ More, NEW k \in 1 .. Len(val), NEW n \in Nat,
         Occurs(val[k], n), PartMatch(lv, rv, Begins[k], n + 1)
  PROVE  PartMatch(lv, rv, Begins[k] + Len(val[k]), n + Len(val[k]) + 1)
<1> DEFINE P == val[k]
           b == Begins[k]
<1>1. /\ Len(P) \in Nat /\ b \in Nat \ {0}
      /\ \A m \in 1 .. Len(P) : P[m] = rv[b + m - 1]
      /\ \A m \in 0 .. Len(P) - 1 : rv[b + m] # ANY
  BY PieceFacts
<1>2. lv \in Seq(Characters) /\ Len(lv) \in Nat
  BY InputsAreTexts
<1>3. n + Len(P) <= Len(lv) /\ \A m \in 1 .. Len(P) : lv[n + m] = P[m]
  BY DEF Occurs
<1>4. PartMatch(lv, rv, b, n + 1)
  OBVIOUS
<1> HIDE DEF P, b
<1>5. ASSUME NEW m \in 0 .. Len(P) - 1 PROVE rv[b + m] # ANY /\ lv[(n + 1) + m] = rv[b + m]
  <2>1. m + 1 \in 1 .. Len(P) /\ n + (m + 1) = (n + 1) + m /\ b + (m + 1) - 1 = b + m
    BY <1>1
  <2>2. lv[n + (m + 1)] = P[m + 1] /\ P[m + 1] = rv[b + (m + 1) - 1]
    BY <1>1, <1>3, <2>1
  <2> QED BY <1>1, <2>1, <2>2
<1>6. PartMatch(lv, rv, b + Len(P), (n + 1) + Len(P))
  <2>1. n + 1 \in Nat /\ (n + 1) + Len(P) <= Len(lv) + 1
    BY <1>1, <1>2, <1>3
  <2> QED BY <1>1, <1>2, <1>4, <1>5, <2>1, MatchText
<1>7. (n + 1) + Len(P) = n + Len(P) + 1
  BY <1>1
<1> QED BY <1>6, <1>7 DEF P, b

-----------------------------------------------------------------------------
(* The pieces before the current one were found, one behind the other: the  *)
(* text for the current one may begin at the current place or behind it.   *)
PlaceOK ==
    /\ result = "none"
    /\ i < Len(val)
    /\ i = 0 => ~ isfirst /\ j = 0
    /\ i > 0 => \A a \in j + 1 .. Len(lv) + 1 : PartMatch(lv, rv, Begins[i + 1], a)
    /\ OnePiece => \A n \in Nat : n < j => ~ Candidate(n)

ReturnOK ==
    /\ result \in {"true", "false", "out_of_range"}
    /\ result = "true" /\ Separators # {} => Matches(lv, rv)
    /\ result = "out_of_range" => Len(LastPiece) > Len(lv) + 1
    /\ result = "false" /\ OnePiece /\ Len(LastPiece) <= Len(lv) + 1 =>
          \A n \in Nat : ~ Candidate(n)

LikeInv ==
    /\ InputsOK
    /\ SplitOK
    /\ i \in Nat /\ j \in Nat
    /\ loop \in {"split", "piece", "place", "returned"}
    /\ loop = "split" => i = 0 /\ j = 0 /\ result = "none"
    /\ loop # "split" => ~ More
    /\ loop = "piece" => i = (IF isfirst THEN 1 ELSE 0) /\ j = 0 /\ result = "none"
    /\ loop = "place" => PlaceOK
    /\ loop = "returned" => ReturnOK

LEMMA LikeInitially == ASSUME LikeInit PROVE LikeInv
<1>1. InputsOK
  BY DEF LikeInit, InputsOK
<1>2. SplitOK
  <2> DEFINE s == [k \in 1 .. 1 |-> 1]
  <2>1. val = <<>> /\ pos = 1 /\ Len(val) = 0
    BY EmptySeq DEF LikeInit
  <2>2. IsCut(rv, val, s, pos)
    BY <2>1 DEF IsCut
  <2>3. val \in Seq(Seq(Characters))
    BY <2>1, EmptySeq
  <2> QED BY <2>1, <2>2, <2>3 DEF SplitOK
<1> QED BY <1>1, <1>2 DEF LikeInv, LikeInit

LEMMA SameText ==
  ASSUME UNCHANGED <<lv, rv, pos, val>>
  PROVE  /\ InputsOK' <=> InputsOK
         /\ SplitOK' <=> SplitOK
         /\ More' <=> More
         /\ OnePiece' <=> OnePiece
         /\ isfirst' <=> isfirst
         /\ Separators' = Separators /\ LastPiece' = LastPiece /\ Begins' = Begins
         /\ \A n \in Nat : Candidate(n)' <=> Candidate(n)
<1>1. (InputsOK' <=> InputsOK) /\ (SplitOK' <=> SplitOK) /\ (More' <=> More)
  BY DEF InputsOK, SplitOK, More
<1>2. Separators' = Separators /\ LastPiece' = LastPiece /\ Begins' = Begins
  BY DEF Separators, LastPiece, Begins
<1>3. (OnePiece' <=> OnePiece) /\ (isfirst' <=> isfirst) /\ (islast' <=> islast)
  BY <1>2 DEF OnePiece, isfirst, islast
<1>4. ASSUME NEW n \in Nat PROVE Candidate(n)' <=> Candidate(n)
  BY <1>2, <1>3 DEF Candidate, Occurs
<1> QED BY <1>1, <1>2, <1>3, <1>4

LEMMA LineKeeps == ASSUME LikeInv, GetLine PROVE LikeInv'
<1>1. InputsOK /\ SplitOK
  BY DEF LikeInv
<1>2. InputsOK' /\ SplitOK'
  BY <1>1, LineCut DEF GetLine, InputsOK
<1>3. loop = "split" /\ UNCHANGED <<i, j, loop, result>>
  BY DEF GetLine
<1> QED BY <1>2, <1>3 DEF LikeInv

LEMMA EndKeeps == ASSUME LikeInv, EndOfPattern PROVE LikeInv'
<1>1. /\ InputsOK' /\ SplitOK' /\ ~ More' /\ (isfirst' <=> isfirst)
  BY SameText DEF LikeInv, EndOfPattern
<1>2. /\ loop' = "piece" /\ i' = (IF isfirst THEN 1 ELSE 0) /\ j' = 0 /\ result' = "none"
  BY DEF LikeInv, EndOfPattern
<1> QED BY <1>1, <1>2 DEF LikeInv

(* A return keeps the invariant if the result is right. *)
LEMMA ReturnKeeps ==
  ASSUME LikeInv, NEW v \in {"true", "false", "out_of_range"}, Return(v), ~ More,
         v = "true" /\ Separators # {} => Matches(lv, rv),
         v = "out_of_range" => Len(LastPiece) > Len(lv) + 1,
         v = "false" /\ OnePiece /\ Len(LastPiece) <= Len(lv) + 1 =>
            \A n \in Nat : ~ Candidate(n)
  PROVE  LikeInv'
<1>1. loop' = "returned" /\ result' = v /\ UNCHANGED <<lv, rv, pos, val, i, j>>
  BY DEF Return
<1>2. /\ InputsOK' /\ SplitOK' /\ ~ More' /\ (OnePiece' <=> OnePiece)
      /\ Separators' = Separators /\ LastPiece' = LastPiece
      /\ \A n \in Nat : Candidate(n)' <=> Candidate(n)
  BY <1>1, SameText DEF LikeInv
<1>3. ReturnOK'
  BY <1>1, <1>2 DEF ReturnOK
<1> QED BY <1>1, <1>2, <1>3 DEF LikeInv

LEMMA NextPieceKeeps == ASSUME LikeInv, NextPiece PROVE LikeInv'
<1>1. /\ InputsOK /\ SplitOK /\ ~ More
      /\ i = (IF isfirst THEN 1 ELSE 0) /\ j = 0 /\ result = "none"
  BY DEF LikeInv, NextPiece
<1>2. Len(val) \in Nat \ {0} /\ Begins[1] = 1
  BY <1>1, PieceFacts
<1>3. CASE i < Len(val)
  <2>1. loop' = "place" /\ UNCHANGED <<lv, rv, pos, val, i, j, result>>
    BY <1>3 DEF NextPiece
  <2>2. /\ InputsOK' /\ SplitOK' /\ ~ More' /\ (isfirst' <=> isfirst)
        /\ Begins' = Begins
    BY <1>1, <2>1, SameText
  <2>3. ASSUME i > 0, NEW a \in j + 1 .. Len(lv) + 1 PROVE PartMatch(lv, rv, Begins[i + 1], a)
    <3>1. isfirst /\ i = 1 /\ Begins[2] = 2 /\ i + 1 = 2
      BY <1>1, <1>3, <2>3, FirstPieceFacts
    <3>2. lv \in Seq(Characters) /\ rv[1] = ANY /\ a \in 1 .. Len(lv) + 1
      BY <1>1, <3>1, InputsAreTexts DEF isfirst
    <3>3. PartMatch(lv, rv, 1, 1)
      BY <3>2, MatchBegins
    <3>4. PartMatch(lv, rv, 1 + 1, a)
      BY <3>2, <3>3, MatchAny
    <3> QED BY <3>1, <3>4
  <2>4. PlaceOK'
    BY <1>1, <1>3, <2>1, <2>2, <2>3 DEF PlaceOK
  <2> QED BY <1>1, <2>1, <2>2, <2>4 DEF LikeInv
<1>4. CASE ~ (i < Len(val))
  <2>1. Return("false")
    BY <1>4 DEF NextPiece
  <2>2. ~ OnePiece
    BY <1>1, <1>2, <1>4, OnePieceFacts
  <2> QED BY <1>1, <2>1, <2>2, ReturnKeeps
<1> QED BY <1>3, <1>4

(* What holds at every place. *)
LEMMA PlaceFacts ==
  ASSUME LikeInv, loop = "place"
  PROVE  /\ InputsOK /\ SplitOK /\ ~ More /\ PlaceOK
         /\ i \in Nat /\ j \in Nat /\ i + 1 \in 1 .. Len(val)
         /\ Len(val) \in Nat \ {0} /\ Len(lv) \in Nat
         /\ Len(val) \in 1 .. Len(val)
         /\ Piece(i) = val[i + 1] /\ Piece(i) \in Seq(Characters) /\ Len(Piece(i)) \in Nat
         /\ LastPiece = val[Len(val)] /\ LastPiece \in Seq(Characters) /\ Len(LastPiece) \in Nat
         /\ OnePiece => i = Len(val) - 1
<1>1. InputsOK /\ SplitOK /\ ~ More /\ PlaceOK /\ i \in Nat /\ j \in Nat
  BY DEF LikeInv
<1>2. Len(val) \in Nat \ {0} /\ Len(lv) \in Nat
  BY <1>1, PieceFacts, InputsAreTexts
<1>3. i + 1 \in 1 .. Len(val) /\ Len(val) \in 1 .. Len(val)
  BY <1>1, <1>2 DEF PlaceOK
<1>4. /\ Piece(i) = val[i + 1] /\ Piece(i) \in Seq(Characters) /\ Len(Piece(i)) \in Nat
      /\ LastPiece = val[Len(val)] /\ LastPiece \in Seq(Characters) /\ Len(LastPiece) \in Nat
  BY <1>1, <1>3, PieceFacts DEF Piece, LastPiece
<1>5. OnePiece => i = Len(val) - 1
  <2> SUFFICES ASSUME OnePiece PROVE i = Len(val) - 1
    OBVIOUS
  <2>1. (isfirst => Len(val) = 2) /\ (~ isfirst => Len(val) = 1)
    BY <1>1, OnePieceFacts
  <2>2. i < Len(val) /\ (i = 0 => ~ isfirst)
    BY <1>1 DEF PlaceOK
  <2>3. i = 0 \/ i > 0
    BY <1>1
  <2>4. CASE isfirst
    <3>1. Len(val) = 2 /\ i # 0 /\ i < 2
      BY <2>1, <2>2, <2>4
    <3>2. i = 1
      BY <1>1, <3>1
    <3> QED BY <3>1, <3>2
  <2>5. CASE ~ isfirst
    <3>1. Len(val) = 1 /\ i < 1
      BY <2>1, <2>2, <2>5
    <3>2. i = 0
      BY <1>1, <3>1
    <3> QED BY <3>1, <3>2
  <2> QED BY <2>4, <2>5
<1> QED BY <1>1, <1>2, <1>3, <1>4, <1>5

LEMMA EndOfValueKeeps == ASSUME LikeInv, EndOfValue PROVE LikeInv'
<1>1. loop = "place" /\ ~ InBound /\ Return("false")
  BY DEF EndOfValue
<1>2. ~ More /\ PlaceOK /\ j \in Nat /\ Len(lv) \in Nat /\ Len(LastPiece) \in Nat
  BY <1>1, PlaceFacts
<1>3. ASSUME OnePiece, NEW n \in Nat, Candidate(n) PROVE FALSE
  <2>1. n + Len(LastPiece) <= Len(lv)
    BY <1>3 DEF Candidate, Occurs
  <2>2. n < j
    BY <1>1, <1>2, <2>1 DEF InBound
  <2> QED BY <1>2, <1>3, <2>2 DEF PlaceOK
<1> QED BY <1>1, <1>2, <1>3, ReturnKeeps

(* The four ways in which the body of the inner loop refuses. *)
LEMMA PrefixKeeps ==
  ASSUME LikeInv, loop = "place", WrongPrefix, Return("false") PROVE LikeInv'
<1>1. InputsOK /\ ~ More /\ Len(lv) \in Nat
  BY PlaceFacts
<1>2. ASSUME OnePiece, NEW n \in Nat, Candidate(n) PROVE FALSE
  <2>1. Piece(i) = LastPiece /\ LastPiece \in Seq(Characters)
    <3>1. i = Len(val) - 1 /\ Len(val) \in Nat
      BY <1>2, PlaceFacts
    <3>2. i + 1 = Len(val)
      BY <3>1
    <3> QED BY <3>2, PlaceFacts
  <2>2. Occurs(LastPiece, 0)
    BY <1>2 DEF Candidate, WrongPrefix
  <2>3. substr(0, Len(LastPiece)) = LastPiece
    BY <1>1, <2>1, <2>2, SubstrOccurs
  <2> QED BY <2>1, <2>3 DEF WrongPrefix
<1> QED BY <1>1, <1>2, ReturnKeeps

LEMMA ThrowKeeps ==
  ASSUME LikeInv, loop = "place", InBound, Throws, Return("out_of_range") PROVE LikeInv'
<1>1. ~ More /\ j \in Nat /\ Len(lv) \in Nat /\ Len(LastPiece) \in Nat
  BY PlaceFacts
<1>2. Len(LastPiece) > Len(lv) + 1
  BY <1>1 DEF InBound, Throws
<1> QED BY <1>1, <1>2, ReturnKeeps

LEMMA EndKeepsPlace ==
  ASSUME LikeInv, loop = "place", ~ islast, ~ Ends, Return("false") PROVE LikeInv'
<1>1. /\ InputsOK /\ ~ More /\ Len(lv) \in Nat
      /\ LastPiece \in Seq(Characters) /\ Len(LastPiece) \in Nat
  BY PlaceFacts
<1>2. ASSUME NEW n \in Nat, Candidate(n) PROVE FALSE
  <2>1. n + Len(LastPiece) = Len(lv) /\ Occurs(LastPiece, n)
    BY <1>2 DEF Candidate
  <2>2. n = Len(lv) - Len(LastPiece) /\ n <= Len(lv) /\ Len(LastPiece) <= Len(lv)
    BY <1>1, <2>1
  <2>3. substr(n, Len(LastPiece)) = LastPiece
    BY <1>1, <2>1, <2>2, SubstrOccurs
  <2> QED BY <2>2, <2>3 DEF Ends
<1> QED BY <1>1, <1>2, ReturnKeeps

(* The place is counted on only if the piece may still begin behind it. *)
LEMMA PlaceAfterKeeps ==
  ASSUME LikeInv, loop = "place", ~ WrongPrefix, ~ Throws,
         substr(j, Len(Piece(i))) # Piece(i),
         j' = PlaceAfter, UNCHANGED <<lv, rv, pos, val, i, loop, result>>
  PROVE  LikeInv'
<1>1. /\ InputsOK /\ SplitOK /\ ~ More /\ PlaceOK /\ i \in Nat /\ j \in Nat
      /\ Len(val) \in Nat \ {0} /\ Len(lv) \in Nat
      /\ Piece(i) \in Seq(Characters)
  BY PlaceFacts
<1>2. j <= Len(lv) /\ j' = j + 1
  BY <1>1 DEF Throws, PlaceAfter
<1>3. /\ InputsOK' /\ SplitOK' /\ ~ More' /\ (isfirst' <=> isfirst) /\ (OnePiece' <=> OnePiece)
      /\ Begins' = Begins /\ \A n \in Nat : Candidate(n)' <=> Candidate(n)
  BY <1>1, SameText
<1>4. i # 0
  BY <1>1 DEF PlaceOK, WrongPrefix
<1>5. ASSUME NEW a \in (j + 1) + 1 .. Len(lv) + 1 PROVE PartMatch(lv, rv, Begins[i + 1], a)
  <2>1. a \in j + 1 .. Len(lv) + 1 /\ i > 0
    BY <1>1, <1>4
  <2> QED BY <1>1, <2>1 DEF PlaceOK
<1>6. ASSUME OnePiece, NEW n \in Nat, n < j + 1, Candidate(n) PROVE FALSE
  <2>1. n = j
    BY <1>1, <1>6 DEF PlaceOK
  <2>2. Piece(i) = LastPiece
    <3>1. i = Len(val) - 1
      BY <1>6, PlaceFacts
    <3>2. i + 1 = Len(val)
      BY <1>1, <3>1
    <3> QED BY <3>2, PlaceFacts
  <2>3. Occurs(Piece(i), j)
    BY <1>6, <2>1, <2>2 DEF Candidate
  <2> QED BY <1>1, <1>2, <2>3, SubstrOccurs
<1>7. PlaceOK'
  <2>1. result' = "none" /\ i' = i /\ i < Len(val) /\ UNCHANGED <<lv, rv, val>>
    BY <1>1 DEF PlaceOK
  <2> QED BY <1>2, <1>3, <1>4, <1>5, <1>6, <2>1 DEF PlaceOK
<1> QED BY <1>1, <1>2, <1>3, <1>7 DEF LikeInv

(* The piece is found at a place where the pattern may have it. *)
LEMMA FoundFacts ==
  ASSUME LikeInv, loop = "place", ~ Throws, substr(j, Len(Piece(i))) = Piece(i)
  PROVE  /\ Occurs(Piece(i), j)
         /\ PartMatch(lv, rv, Begins[i + 1] + Len(Piece(i)), j + Len(Piece(i)) + 1)
<1>1. /\ InputsOK /\ SplitOK /\ ~ More /\ PlaceOK /\ i \in Nat /\ j \in Nat
      /\ i + 1 \in 1 .. Len(val) /\ Len(lv) \in Nat
      /\ Piece(i) = val[i + 1] /\ Piece(i) \in Seq(Characters)
  BY PlaceFacts
<1>2. j <= Len(lv)
  BY <1>1 DEF Throws
<1>3. Occurs(Piece(i), j)
  BY <1>1, <1>2, SubstrOccurs
<1>4. PartMatch(lv, rv, Begins[i + 1], j + 1)
  <2>1. CASE i = 0
    <3>1. j = 0 /\ j + 1 = 1 /\ i + 1 = 1
      BY <1>1, <2>1 DEF PlaceOK
    <3>2. Begins[1] = 1 /\ lv \in Seq(Characters)
      BY <1>1, PieceFacts, InputsAreTexts
    <3> QED BY <3>1, <3>2, MatchBegins
  <2>2. CASE i > 0
    <3>1. j + 1 \in j + 1 .. Len(lv) + 1
      BY <1>1, <1>2
    <3> QED BY <1>1, <2>2, <3>1 DEF PlaceOK
  <2> QED BY <1>1, <2>1, <2>2
<1> QED BY <1>1, <1>3, <1>4, PieceMatched

LEMMA FoundKeeps ==
  ASSUME LikeInv, loop = "place", ~ Throws, substr(j, Len(Piece(i))) = Piece(i),
         i # Len(val) - 1, i' = i + 1, j' = NextPlace,
         UNCHANGED <<lv, rv, pos, val, loop, result>>
  PROVE  LikeInv'
<1> DEFINE n == Len(Piece(i))
           b == Begins[i + 1]
<1>1. /\ InputsOK /\ SplitOK /\ ~ More /\ PlaceOK /\ i \in Nat /\ j \in Nat
      /\ i + 1 \in 1 .. Len(val) /\ Len(val) \in Nat \ {0} /\ Len(lv) \in Nat
      /\ Piece(i) = val[i + 1] /\ n \in Nat /\ ~ OnePiece
  BY PlaceFacts
<1>2. /\ b \in Nat \ {0} /\ Begins[(i + 1) + 1] = b + n + 1 /\ rv[b + n] = ANY
      /\ i + 1 < Len(val)
  <2>1. i + 1 < Len(val)
    BY <1>1
  <2> QED BY <1>1, <2>1, PieceFacts
<1>3. PartMatch(lv, rv, b + n, j + n + 1)
  BY FoundFacts
<1>4. /\ InputsOK' /\ SplitOK' /\ ~ More' /\ (isfirst' <=> isfirst) /\ (OnePiece' <=> OnePiece)
      /\ Begins' = Begins
  BY <1>1, SameText
<1>5. lv \in Seq(Characters) /\ j' = j + n + 1
  BY <1>1, InputsAreTexts DEF NextPlace
<1> HIDE DEF n, b
<1>6. ASSUME NEW a \in (j + n + 1) + 1 .. Len(lv) + 1
      PROVE  PartMatch(lv, rv, Begins[(i + 1) + 1], a)
  <2>1. /\ b + n \in Nat \ {0} /\ j + n + 1 \in Nat /\ a \in j + n + 1 .. Len(lv) + 1
        /\ (b + n) + 1 = b + n + 1
    BY <1>1, <1>2
  <2>2. PartMatch(lv, rv, (b + n) + 1, a)
    BY <1>2, <1>3, <1>5, <2>1, MatchAny
  <2> QED BY <1>2, <2>1, <2>2
<1>7. PlaceOK'
  <2>1. /\ result' = "none" /\ i' = i + 1 /\ i + 1 # 0 /\ i + 1 > 0
        /\ UNCHANGED <<lv, rv, val>>
    BY <1>1 DEF PlaceOK
  <2> QED BY <1>1, <1>2, <1>4, <1>5, <1>6, <2>1 DEF PlaceOK
<1>8. i' \in Nat /\ j' \in Nat /\ loop' = "place"
  BY <1>1, <1>5
<1> QED BY <1>4, <1>7, <1>8 DEF LikeInv

(* The last piece is found: the value is like the pattern. *)
LEMMA AllFoundMatches ==
  ASSUME LikeInv, loop = "place", ~ Throws, islast \/ Ends,
         substr(j, Len(Piece(i))) = Piece(i), i = Len(val) - 1, Separators # {}
  PROVE  Matches(lv, rv)
<1> DEFINE n == Len(LastPiece)
           b == Begins[Len(val)]
<1>1. /\ InputsOK /\ SplitOK /\ ~ More /\ PlaceOK /\ i \in Nat /\ j \in Nat
      /\ Len(val) \in Nat \ {0} /\ Len(lv) \in Nat /\ Len(val) \in 1 .. Len(val)
      /\ LastPiece = val[Len(val)] /\ LastPiece \in Seq(Characters) /\ n \in Nat
  BY PlaceFacts
<1>2. i + 1 = Len(val) /\ Piece(i) = LastPiece
  <2>1. i + 1 = Len(val)
    BY <1>1
  <2> QED BY <2>1, PlaceFacts
<1>3. Occurs(LastPiece, j) /\ PartMatch(lv, rv, b + n, j + n + 1)
  BY <1>2, FoundFacts
<1>4. j + n <= Len(lv)
  BY <1>3 DEF Occurs
<1>5. /\ lv \in Seq(Characters) /\ rv \in Seq(Characters) /\ Len(rv) \in Nat \ {0}
      /\ islast => b + n = Len(rv)
      /\ ~ islast => b + n = Len(rv) + 1
  BY <1>1, InputsAreTexts, LastPieceFacts
<1>6. CASE islast
  <2>1. b + n \in Nat \ {0} /\ rv[b + n] = ANY /\ (b + n) + 1 = Len(rv) + 1
    BY <1>5, <1>6 DEF islast
  <2>2. j + n + 1 \in Nat /\ Len(lv) + 1 \in j + n + 1 .. Len(lv) + 1
    BY <1>1, <1>4
  <2>3. PartMatch(lv, rv, (b + n) + 1, Len(lv) + 1)
    BY <1>3, <1>5, <2>1, <2>2, MatchAny
  <2> QED BY <1>5, <2>1, <2>3, WholeMatch
<1>7. CASE ~ islast
  <2>1. i # 0
    BY <1>1, <1>2, <1>7, NoSeparator
  <2>2. substr(Len(lv) - n, n) = LastPiece /\ Len(lv) - n \in Nat /\ Len(lv) - n <= Len(lv)
    BY <1>1, <1>4, <1>7 DEF Ends
  <2>3. Occurs(LastPiece, Len(lv) - n)
    BY <1>1, <2>2, SubstrOccurs
  <2>4. PartMatch(lv, rv, b, (Len(lv) - n) + 1)
    <3>1. \A m, q, len \in Nat : q + m <= len => (len - m) + 1 \in q + 1 .. len + 1
      OBVIOUS
    <3>2. (Len(lv) - n) + 1 \in j + 1 .. Len(lv) + 1
      BY <1>1, <1>4, <3>1
    <3>3. i > 0
      BY <1>1, <2>1
    <3> QED BY <1>1, <1>2, <3>2, <3>3 DEF PlaceOK
  <2>5. PartMatch(lv, rv, b + n, (Len(lv) - n) + n + 1)
    BY <1>1, <2>2, <2>3, <2>4, PieceMatched
  <2>6. (Len(lv) - n) + n + 1 = Len(lv) + 1
    BY <1>1
  <2> QED BY <1>5, <1>7, <2>5, <2>6, WholeMatch
<1> QED BY <1>6, <1>7

LEMMA PlaceKeeps == ASSUME LikeInv, Place PROVE LikeInv'
<1>1. loop = "place" /\ InBound
  BY DEF Place
<1>2. CASE WrongPrefix
  BY <1>1, <1>2, PrefixKeeps DEF Place
<1>3. CASE ~ WrongPrefix /\ Throws
  BY <1>1, <1>3, ThrowKeeps DEF Place
<1>4. CASE ~ WrongPrefix /\ ~ Throws /\ ~ islast /\ ~ Ends
  BY <1>1, <1>4, EndKeepsPlace DEF Place
<1>5. CASE ~ WrongPrefix /\ ~ Throws /\ ~ (~ islast /\ ~ Ends)
  <2>1. CASE substr(j, Len(Piece(i))) # Piece(i)
    <3>1. j' = PlaceAfter /\ UNCHANGED <<lv, rv, pos, val, i, loop, result>>
      BY <1>5, <2>1 DEF Place
    <3> QED BY <1>1, <1>5, <2>1, <3>1, PlaceAfterKeeps
  <2>2. CASE substr(j, Len(Piece(i))) = Piece(i) /\ i = Len(val) - 1
    <3>1. Return("true")
      BY <1>5, <2>2 DEF Place
    <3>2. Separators # {} => Matches(lv, rv)
      BY <1>1, <1>5, <2>2, AllFoundMatches
    <3>3. ~ More
      BY <1>1, PlaceFacts
    <3> QED BY <3>1, <3>2, <3>3, ReturnKeeps
  <2>3. CASE substr(j, Len(Piece(i))) = Piece(i) /\ i # Len(val) - 1
    <3>1. i' = i + 1 /\ j' = NextPlace /\ UNCHANGED <<lv, rv, pos, val, loop, result>>
      BY <1>5, <2>3 DEF Place
    <3> QED BY <1>1, <1>5, <2>3, <3>1, FoundKeeps
  <2> QED BY <2>1, <2>2, <2>3
<1> QED BY <1>2, <1>3, <1>4, <1>5

LEMMA LikeInvariantHolds == LikeSpec => []LikeInv
<1>1. LikeInit => LikeInv
  BY LikeInitially
<1>2. LikeInv /\ [LikeNext]_likeVars => LikeInv'
  <2> SUFFICES ASSUME LikeInv, [LikeNext]_likeVars PROVE LikeInv'
    OBVIOUS
  <2>1. CASE GetLine
    BY <2>1, LineKeeps
  <2>2. CASE EndOfPattern
    BY <2>2, EndKeeps
  <2>3. CASE NextPiece
    BY <2>3, NextPieceKeeps
  <2>4. CASE EndOfValue
    BY <2>4, EndOfValueKeeps
  <2>5. CASE Place
    BY <2>5, PlaceKeeps
  <2>6. CASE UNCHANGED likeVars
    <3>1. UNCHANGED <<lv, rv, pos, val, i, j, loop, result>>
      BY <2>6 DEF likeVars
    <3>2. /\ (InputsOK' <=> InputsOK) /\ (SplitOK' <=> SplitOK) /\ (More' <=> More)
          /\ (OnePiece' <=> OnePiece) /\ (isfirst' <=> isfirst)
          /\ Separators' = Separators /\ LastPiece' = LastPiece /\ Begins' = Begins
          /\ \A n \in Nat : Candidate(n)' <=> Candidate(n)
      BY <3>1, SameText
    <3>3. (PlaceOK' <=> PlaceOK) /\ (ReturnOK' <=> ReturnOK)
      BY <3>1, <3>2 DEF PlaceOK, ReturnOK
    <3> QED BY <3>1, <3>2, <3>3 DEF LikeInv
  <2> QED BY <2>1, <2>2, <2>3, <2>4, <2>5, <2>6 DEF LikeNext
<1> QED BY <1>1, <1>2, PTL DEF LikeSpec

LEMMA Returned ==
  ASSUME LikeInv, result # "none"
  PROVE  loop = "returned" /\ InputsOK /\ SplitOK /\ ~ More /\ ReturnOK
BY DEF LikeInv, PlaceOK

(* No false match: with a '%' in the pattern, the matcher returns true only *)
(* for a value that is like the pattern (LikeSubString_v2, keti/filter.cc). *)
THEOREM MatchesAreRight == LikeSpec => []NoFalseMatch
<1>1. LikeInv => NoFalseMatch
  <2> SUFFICES ASSUME LikeInv, result = "true", Separators # {} PROVE Matches(lv, rv)
    BY DEF NoFalseMatch
  <2> QED BY Returned DEF ReturnOK
<1> QED BY <1>1, LikeInvariantHolds, PTL

(* A pattern of one piece with '%' before, behind or around it is matched   *)
(* exactly, for every value it is at most one longer than.                 *)
THEOREM OnePieceIsExact == LikeSpec => []OnePieceExact
<1>1. LikeInv => OnePieceExact
  <2> SUFFICES ASSUME LikeInv, loop = "returned", OnePiece, Len(LastPiece) <= Len(lv) + 1
               PROVE  result = "true" <=> Matches(lv, rv)
    BY DEF OnePieceExact
  <2>1. InputsOK /\ SplitOK /\ ~ More /\ ReturnOK
    BY DEF LikeInv
  <2>2. Len(lv) \in Nat /\ Len(LastPiece) \in Nat
    <3>1. Len(val) \in 1 .. Len(val)
      BY <2>1, PieceFacts
    <3> QED BY <2>1, <3>1, PieceFacts, InputsAreTexts DEF LastPiece
  <2>3. Separators # {}
    BY DEF OnePiece
  <2>4. result # "out_of_range"
    BY <2>1, <2>2 DEF ReturnOK
  <2>5. CASE result = "true"
    BY <2>1, <2>3, <2>5 DEF ReturnOK
  <2>6. CASE result = "false"
    <3>1. \A n \in Nat : ~ Candidate(n)
      BY <2>1, <2>6 DEF ReturnOK
    <3>2. ~ Matches(lv, rv)
      BY <2>1, <3>1, LikeHasCandidate
    <3> QED BY <2>6, <3>2
  <2> QED BY <2>1, <2>4, <2>5, <2>6 DEF ReturnOK
<1> QED BY <1>1, LikeInvariantHolds, PTL

(* The matcher throws only for a last piece that is longer than the value   *)
(* by two or more, for which the bound of the inner loop wraps.            *)
THEOREM ThrowsForLongPieceOnly == LikeSpec => []ThrowsOnlyForLongPiece
<1>1. LikeInv => ThrowsOnlyForLongPiece
  <2> SUFFICES ASSUME LikeInv, result = "out_of_range" PROVE Len(LastPiece) > Len(lv) + 1
    BY DEF ThrowsOnlyForLongPiece
  <2> QED BY Returned DEF ReturnOK
<1> QED BY <1>1, LikeInvariantHolds, PTL
=============================================================================
