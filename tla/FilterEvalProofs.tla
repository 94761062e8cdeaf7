-------------------------- MODULE FilterEvalProofs ---------------------------
(***************************************************************************)
(* Proofs about FilterEval, for filters of any length and any number of    *)
(* rows: the walk over the tokens saves the rows that satisfy the filter,  *)
(* once and in order.                                                      *)
(*                                                                         *)
(* The invariant relates the flags at each token to the meaning of what    *)
(* was walked: CV to the truth of the operand of OR that the walk is in,   *)
(* Passed to its being false already, isnot to the NOTs just before the    *)
(* token.  It says nothing of CV at the beginning of a row: in a supported *)
(* filter every condition assigns CV before AND or OR looks at it.         *)
(***************************************************************************)
EXTENDS FilterEval, SequenceTheorems, FiniteSetTheorems, TLAPS

-----------------------------------------------------------------------------
(* What was walked of a filter f up to the token n, for a row where the     *)
(* conditions h hold.                                                       *)

\* There is no OR from the k-th token on, up to the n-th.
SameClause(f, k, n) == \A m \in k .. n - 1 : f[m] # "OR"

\* No condition in the operand of OR that goes up to the n-th token is false.
TrueUpTo(f, h, n) ==
    \A k \in 1 .. n - 1 : f[k] \in Conditions /\ SameClause(f, k, n) => True(f, h, k)

\* The operand of OR that begins with the s-th token has only true conditions.
ClauseTrue(f, h, s) == \A k \in Clause(f, s) : f[k] \in Conditions => True(f, h, k)

\* A true condition that sets canSaved.
SetsCanSaved(f, k) ==
    f[k] \in Comparisons \/ (f[k] \in {"LIKE", "BETWEEN"} /\ Negated(f, k))

LEMMA SameClauseStep ==
  ASSUME NEW f, NEW n \in Nat \ {0}, NEW k \in 1 .. n
  PROVE  SameClause(f, k, n + 1) <=> SameClause(f, k, n) /\ f[n] # "OR"
<1>1. k .. (n + 1) - 1 = (k .. n - 1) \cup {n}
  OBVIOUS
<1> QED BY <1>1 DEF SameClause

(* Nothing has been walked behind an OR. *)
LEMMA TrueAfterOr ==
  ASSUME NEW f, NEW h, NEW n \in Nat \ {0}, f[n] = "OR"
  PROVE  TrueUpTo(f, h, n + 1)
  BY SameClauseStep DEF TrueUpTo

(* AND and NOT have no truth of their own. *)
LEMMA TrueAfterOther ==
  ASSUME NEW f, NEW h, NEW n \in Nat \ {0}, f[n] # "OR", f[n] \notin Conditions
  PROVE  TrueUpTo(f, h, n + 1) <=> TrueUpTo(f, h, n)
<1>1. 1 .. (n + 1) - 1 = (1 .. n - 1) \cup {n}
  OBVIOUS
<1>2. \A k \in 1 .. n - 1 : SameClause(f, k, n + 1) <=> SameClause(f, k, n)
  BY SameClauseStep
<1> QED BY <1>1, <1>2 DEF TrueUpTo

(* A condition decides with those before it. *)
LEMMA TrueAfterCondition ==
  ASSUME NEW f, NEW h, NEW n \in Nat \ {0}, f[n] \in Conditions
  PROVE  TrueUpTo(f, h, n + 1) <=> TrueUpTo(f, h, n) /\ True(f, h, n)
<1>1. 1 .. (n + 1) - 1 = (1 .. n - 1) \cup {n} /\ n \in 1 .. n
  OBVIOUS
<1>2. f[n] # "OR"
  BY DEF Conditions, Comparisons, Betweens
<1>3. \A k \in 1 .. n - 1 : SameClause(f, k, n + 1) <=> SameClause(f, k, n)
  BY <1>2, SameClauseStep
<1>4. SameClause(f, n, n + 1)
  BY <1>2 DEF SameClause
<1> QED BY <1>1, <1>3, <1>4 DEF TrueUpTo

(* The first token has no NOT before it. *)
LEMMA NegatedFirst ==
  ASSUME NEW f
  PROVE  ~ Negated(f, 1)
<1>1. NotsBefore(f, 1) = {}
  BY DEF NotsBefore
<1> QED BY <1>1, FS_EmptySet DEF Negated

(* A NOT turns round what the NOTs before it say; other tokens end them. *)
LEMMA NegatedStep ==
  ASSUME NEW f, NEW n \in Nat \ {0}
  PROVE  Negated(f, n + 1) <=> f[n] = "NOT" /\ ~ Negated(f, n)
<1>1. CASE f[n] # "NOT"
  <2>1. NotsBefore(f, n + 1) = {}
    BY <1>1 DEF NotsBefore
  <2>2. Cardinality(NotsBefore(f, n + 1)) = 0
    BY <2>1, FS_EmptySet
  <2>3. ~ Negated(f, n + 1)
    BY <2>2 DEF Negated
  <2> QED BY <1>1, <2>3
<1>2. CASE f[n] = "NOT"
  <2>1. NotsBefore(f, n + 1) = NotsBefore(f, n) \cup {n}
    <3>1. ASSUME NEW l \in 1 .. n
          PROVE  (\A m \in l .. (n + 1) - 1 : f[m] = "NOT") <=> (\A m \in l .. n - 1 : f[m] = "NOT")
      <4>1. l .. (n + 1) - 1 = (l .. n - 1) \cup {n}
        OBVIOUS
      <4> QED BY <1>2, <4>1
    <3>2. \A m \in n .. n - 1 : f[m] = "NOT"
      OBVIOUS
    <3>3. 1 .. (n + 1) - 1 = (1 .. n - 1) \cup {n}
      OBVIOUS
    <3> QED BY <3>1, <3>2, <3>3 DEF NotsBefore
  <2>2. n \notin NotsBefore(f, n) /\ NotsBefore(f, n) \in SUBSET (1 .. n)
    BY DEF NotsBefore
  <2>3. IsFiniteSet(NotsBefore(f, n)) /\ Cardinality(NotsBefore(f, n)) \in Nat
    <3>1. IsFiniteSet(1 .. n)
      BY FS_Interval
    <3>2. IsFiniteSet(NotsBefore(f, n))
      BY <2>2, <3>1, FS_Subset
    <3> QED BY <3>2, FS_CardinalityType
  <2>4. Cardinality(NotsBefore(f, n + 1)) = Cardinality(NotsBefore(f, n)) + 1
    BY <2>1, <2>2, <2>3, FS_AddElement
  <2> QED BY <1>2, <2>3, <2>4 DEF Negated
<1> QED BY <1>1, <1>2

-----------------------------------------------------------------------------
(* The operands of OR do not overlap. *)
LEMMA StartUnique ==
  ASSUME NEW f \in Seq(Operators), NEW n \in Nat \ {0},
         NEW s \in ClauseStarts(f), NEW t \in ClauseStarts(f),
         s <= n, t <= n, SameClause(f, s, n), SameClause(f, t, n)
  PROVE  s = t
<1>1. Len(f) \in Nat
  BY LenProperties
<1>2. ASSUME NEW a \in ClauseStarts(f), NEW b \in ClauseStarts(f), a < b, b <= n
      PROVE  ~ SameClause(f, a, n)
  <2>1. a \in Nat \ {0} /\ b \in Nat \ {0}
    BY <1>1 DEF ClauseStarts
  <2>2. f[b - 1] = "OR" /\ b - 1 \in a .. n - 1
    BY <1>1, <1>2, <2>1 DEF ClauseStarts
  <2> QED BY <2>2 DEF SameClause
<1>3. s \in Nat /\ t \in Nat
  BY <1>1 DEF ClauseStarts
<1> QED BY <1>2, <1>3

(* Where an operand of OR ends, what was walked of it is all of it. *)
LEMMA ClauseWalked ==
  ASSUME NEW f \in Seq(Operators), NEW h, NEW s \in ClauseStarts(f),
         NEW n \in 1 .. Len(f) + 1, s <= n, SameClause(f, s, n),
         n <= Len(f) => f[n] = "OR"
  PROVE  /\ Clause(f, s) = s .. n - 1
         /\ ClauseTrue(f, h, s) <=> TrueUpTo(f, h, n)
<1>1. Len(f) \in Nat /\ n \in Nat \ {0} /\ s \in Nat \ {0}
  BY LenProperties DEF ClauseStarts
<1>2. Clause(f, s) = s .. n - 1
  <2>1. ASSUME NEW l \in s .. Len(f) PROVE (\A m \in s .. l : f[m] # "OR") <=> l <= n - 1
    <3>1. CASE l <= n - 1
      BY <1>1, <3>1 DEF SameClause
    <3>2. CASE ~ (l <= n - 1)
      <4>1. n \in s .. l /\ f[n] = "OR"
        BY <1>1, <3>2
      <4> QED BY <3>2, <4>1
    <3> QED BY <3>1, <3>2
  <2>2. \A l \in s .. n - 1 : l \in s .. Len(f)
    BY <1>1
  <2>3. \A l : l \in Clause(f, s) <=> l \in s .. n - 1
    BY <1>1, <2>1, <2>2 DEF Clause
  <2> QED BY <2>3
<1>3. ASSUME NEW k \in 1 .. n - 1 PROVE SameClause(f, k, n) <=> k >= s
  <2>1. CASE k >= s
    BY <1>1, <2>1 DEF SameClause
  <2>2. CASE k < s
    <3>1. f[s - 1] = "OR" /\ s - 1 \in k .. n - 1
      BY <1>1, <2>2 DEF ClauseStarts
    <3> QED BY <1>1, <2>2, <3>1 DEF SameClause
  <2> QED BY <1>1, <2>1, <2>2
<1>4. \A k : k \in s .. n - 1 <=> k \in 1 .. n - 1 /\ k >= s
  BY <1>1
<1>5. ClauseTrue(f, h, s) <=> TrueUpTo(f, h, n)
  BY <1>2, <1>3, <1>4 DEF ClauseTrue, TrueUpTo
<1> QED BY <1>2, <1>5
-----------------------------------------------------------------------------
(* The inductive invariant. *)

\* The walk is behind a condition, and before the AND or OR that follows.
BehindCondition == j > 1 /\ filterarray[j - 1] \in Conditions

\* What is skipped was false, and no NOT is pending.
SkippedIsFalse == TmpV = TRUE /\ (Passed => ~ CV /\ ~ isnot)

\* An OR that saves the row ends its walk.
SavedByOr == isSaved => j = Len(filterarray) + 1 /\ i \in SavedRows

\* The rows before are saved before, and this row only by an OR.
SavedSoFar ==
    \A k \in 1 .. Len(saved) : saved[k] <= i /\ (saved[k] = i => isSaved)

\* isnot says what the NOTs just before the token say.
NotsRead ==
    ~ Passed /\ ~ BehindCondition => (isnot <=> Negated(filterarray, j))

\* CV and Passed say whether the conditions of this operand of OR are true.
OperandTruth ==
    IF Passed THEN ~ TrueUpTo(filterarray, holds[i], j)
    ELSE IF BehindCondition THEN CV <=> TrueUpTo(filterarray, holds[i], j)
    ELSE TrueUpTo(filterarray, holds[i], j)

\* The walk is in some operand of OR.
InOperand ==
    \E s \in ClauseStarts(filterarray) : s <= j /\ SameClause(filterarray, s, j)

\* The operands of OR before this one are false.
OperandsBeforeFalse ==
    \A s \in ClauseStarts(filterarray) :
       s < j /\ ~ SameClause(filterarray, s, j) => ~ ClauseTrue(filterarray, holds[i], s)

\* A condition of this operand that may set canSaved has done so.
CanSavedSet ==
    /\ TrueUpTo(filterarray, holds[i], j)
    /\ \E k \in 1 .. j - 1 : SameClause(filterarray, k, j) /\ SetsCanSaved(filterarray, k)
    => canSaved

WalkAgrees ==
    Supported(filterarray) /\ ~ isSaved =>
       NotsRead /\ OperandTruth /\ InOperand /\ OperandsBeforeFalse /\ CanSavedSet

IInv ==
    /\ filterarray \in Filters
    /\ TypeOK
    /\ SkippedIsFalse
    /\ SavedByOr
    /\ SavedSoFar
    /\ WalkAgrees
    /\ SavedInOrder
    /\ SavedRowsSatisfy
    /\ SatisfyingRowsSaved
LEMMA FilterType ==
  ASSUME filterarray \in Filters
  PROVE  filterarray \in Seq(Operators) /\ Len(filterarray) \in Nat
  BY FiltersAssumption, LenProperties

(* What the proof takes from a filter's being supported. *)
LEMMA SupportedFilter ==
  ASSUME NEW f, Supported(f)
  PROVE  IsInfix(f) /\ \A k \in 1 .. Len(f) : f[k] # "CONST BETWEEN"
<1>1. IsInfix(f)
  BY DEF Supported
<1>2. \A k \in 1 .. Len(f) : f[k] \notin {"IS", "ISNOT", "CONST BETWEEN"}
  BY ZenonT(30) DEF Supported
<1> QED BY <1>1, <1>2

(* At the first token nothing has been walked. *)
LEMMA FirstToken ==
  filterarray \in Filters /\ j = 1 /\ ~ isnot /\ ~ Passed => WalkAgrees
<1> SUFFICES ASSUME filterarray \in Filters, j = 1, ~ isnot, ~ Passed PROVE WalkAgrees
  OBVIOUS
<1>1. ~ BehindCondition /\ ~ Negated(filterarray, j)
  BY NegatedFirst DEF BehindCondition
<1>2. 1 \in ClauseStarts(filterarray) /\ SameClause(filterarray, 1, j)
  BY DEF ClauseStarts, SameClause
<1>3. TrueUpTo(filterarray, holds[i], j)
  BY DEF TrueUpTo
<1>4. \A s \in ClauseStarts(filterarray) : ~ (s < j)
  BY FilterType DEF ClauseStarts
<1> QED
  BY <1>1, <1>2, <1>3, <1>4
  DEF WalkAgrees, NotsRead, OperandTruth, InOperand, OperandsBeforeFalse, CanSavedSet

LEMMA InitInvariant == Init => IInv
<1> SUFFICES ASSUME Init PROVE IInv
  OBVIOUS
<1>1. filterarray \in Filters /\ Len(filterarray) \in Nat
  BY FilterType DEF Init
<1>2. TypeOK
  <2>1. i \in 1 .. RowNum + 1 /\ j \in 1 .. Len(filterarray) + 1
    BY <1>1, RowNumAssumption DEF Init
  <2>2. {CV, TmpV, Passed, isSaved, canSaved, isnot} \subseteq BOOLEAN
    BY DEF Init
  <2>3. saved \in Seq(1 .. RowNum)
    BY DEF Init
  <2> QED BY <2>1, <2>2, <2>3 DEF TypeOK
<1>3. SkippedIsFalse /\ SavedByOr
  BY DEF Init, SkippedIsFalse, SavedByOr
<1>4. SavedSoFar /\ SavedInOrder
  BY DEF Init, SavedSoFar, SavedInOrder
<1>5. WalkAgrees
  BY <1>1, FirstToken DEF Init
<1>6. SavedRowsSatisfy /\ SatisfyingRowsSaved
  BY DEF Init, SavedRowsSatisfy, SatisfyingRowsSaved, SavedRows
<1> QED BY <1>1, <1>2, <1>3, <1>4, <1>5, <1>6 DEF IInv

-----------------------------------------------------------------------------
(* The steps from a token to the next one. *)

(* A step that saves no row keeps what concerns the saved rows. *)
LEMMA TokenStep ==
  ASSUME IInv, At(Operators), NextToken, UNCHANGED <<TmpV, isSaved, saved>>,
         CV' \in BOOLEAN, Passed' \in BOOLEAN, canSaved' \in BOOLEAN, isnot' \in BOOLEAN,
         Passed' => ~ CV' /\ ~ isnot',
         Supported(filterarray) => WalkAgrees'
  PROVE  IInv'
<1>1. Len(filterarray) \in Nat /\ j \in 1 .. Len(filterarray) /\ ~ isSaved
  BY FilterType DEF IInv, At, TypeOK, SavedByOr
<1>2. filterarray' \in Filters /\ TypeOK'
  BY <1>1 DEF IInv, TypeOK, NextToken
<1>3. SkippedIsFalse' /\ SavedByOr'
  BY <1>1 DEF IInv, SkippedIsFalse, SavedByOr
<1>4. SavedSoFar' /\ SavedInOrder'
  BY <1>1 DEF IInv, SavedSoFar, SavedInOrder, NextToken
<1>5. SavedRowsSatisfy' /\ SatisfyingRowsSaved'
  BY DEF IInv, SavedRowsSatisfy, SatisfyingRowsSaved, SavedRows, NextToken
<1>6. WalkAgrees'
  BY DEF WalkAgrees, NextToken
<1> QED BY <1>2, <1>3, <1>4, <1>5, <1>6 DEF IInv

(* At a token no OR has saved the row. *)
LEMMA Walking ==
  ASSUME IInv, j <= Len(filterarray)
  PROVE  /\ Len(filterarray) \in Nat /\ j \in Nat \ {0} /\ j \in 1 .. Len(filterarray)
         /\ ~ isSaved
         /\ Supported(filterarray) =>
               /\ IsInfix(filterarray)
               /\ NotsRead /\ OperandTruth /\ InOperand /\ OperandsBeforeFalse /\ CanSavedSet
<1>1. Len(filterarray) \in Nat /\ j \in 1 .. Len(filterarray)
  BY FilterType DEF IInv, TypeOK
<1>2. ~ isSaved
  BY <1>1 DEF IInv, SavedByOr
<1>3. Supported(filterarray) => IsInfix(filterarray)
  BY SupportedFilter
<1>4. Supported(filterarray) =>
         NotsRead /\ OperandTruth /\ InOperand /\ OperandsBeforeFalse /\ CanSavedSet
  BY <1>2 DEF IInv, WalkAgrees
<1> QED BY <1>1, <1>2, <1>3, <1>4

(* Within an operand of OR the operands do not change. *)
LEMMA SameOperand ==
  ASSUME IInv, j <= Len(filterarray), Supported(filterarray), filterarray[j] # "OR", NextToken
  PROVE  InOperand' /\ OperandsBeforeFalse'
<1>1. Len(filterarray) \in Nat /\ j \in Nat \ {0} /\ InOperand /\ OperandsBeforeFalse
  BY Walking
<1>2. \A s \in ClauseStarts(filterarray) : s \in Nat \ {0}
  BY <1>1 DEF ClauseStarts
<1>3. \A s \in ClauseStarts(filterarray) :
         s <= j => (SameClause(filterarray, s, j + 1) <=> SameClause(filterarray, s, j))
  <2> TAKE s \in ClauseStarts(filterarray)
  <2> HAVE s <= j
  <2>1. s \in 1 .. j
    BY <1>1, <1>2
  <2> QED BY <1>1, <2>1, SameClauseStep
<1>4. InOperand'
  <2>1. PICK s \in ClauseStarts(filterarray) : s <= j /\ SameClause(filterarray, s, j)
    BY <1>1 DEF InOperand
  <2>2. s <= j + 1 /\ SameClause(filterarray, s, j + 1)
    BY <1>1, <1>2, <1>3, <2>1
  <2> QED BY <2>2 DEF InOperand, NextToken
<1>5. SameClause(filterarray, j, j)
  BY <1>1 DEF SameClause
<1>6. OperandsBeforeFalse'
  <2>1. ASSUME NEW s \in ClauseStarts(filterarray), s < j + 1, ~ SameClause(filterarray, s, j + 1)
        PROVE  ~ ClauseTrue(filterarray, holds[i], s)
    BY <1>1, <1>2, <1>3, <1>5, <2>1 DEF OperandsBeforeFalse
  <2> QED BY <2>1 DEF OperandsBeforeFalse, NextToken
<1> QED BY <1>4, <1>6

(* A condition is not behind another one, and meets true conditions only. *)
LEMMA ConditionRead ==
  ASSUME IInv, Supported(filterarray), At(Conditions), ~ Passed
  PROVE  /\ isnot <=> Negated(filterarray, j)
         /\ TrueUpTo(filterarray, holds[i], j)
<1>1. ~ BehindCondition
  BY Walking DEF IsInfix, At, BehindCondition
<1> QED BY <1>1, Walking DEF At, NotsRead, OperandTruth

(* The step over a condition, whichever kind it is of. *)
LEMMA ConditionStep ==
  ASSUME IInv, Supported(filterarray), At(Conditions), NextToken, UNCHANGED <<Passed, isSaved>>,
         ~ Passed => (CV' <=> True(filterarray, holds[i], j)),
         ~ Passed /\ True(filterarray, holds[i], j) /\ (canSaved \/ SetsCanSaved(filterarray, j))
           => canSaved'
  PROVE  WalkAgrees'
<1>1. /\ j \in Nat \ {0} /\ ~ isSaved /\ filterarray[j] \in Conditions
      /\ NotsRead /\ OperandTruth /\ CanSavedSet
  BY Walking DEF At
<1>2. filterarray[j] # "OR"
  BY <1>1 DEF Conditions, Comparisons, Betweens
<1>3. InOperand' /\ OperandsBeforeFalse'
  BY <1>2, SameOperand DEF At
<1>4. BehindCondition'
  BY <1>1 DEF BehindCondition, NextToken
<1>5. TrueUpTo(filterarray, holds[i], j + 1)
        <=> TrueUpTo(filterarray, holds[i], j) /\ True(filterarray, holds[i], j)
  BY <1>1, TrueAfterCondition
<1>6. ~ Passed => TrueUpTo(filterarray, holds[i], j)
  BY ConditionRead
<1>7. Passed => ~ TrueUpTo(filterarray, holds[i], j)
  BY <1>1 DEF OperandTruth
<1>8. OperandTruth'
  <2>1. IF Passed THEN ~ TrueUpTo(filterarray, holds[i], j + 1)
        ELSE CV' <=> TrueUpTo(filterarray, holds[i], j + 1)
    BY <1>5, <1>6, <1>7
  <2> QED BY <1>4, <2>1 DEF OperandTruth, NextToken
<1>9. CanSavedSet'
  <2>1. ASSUME TrueUpTo(filterarray, holds[i], j + 1), NEW k \in 1 .. (j + 1) - 1,
               SameClause(filterarray, k, j + 1), SetsCanSaved(filterarray, k)
        PROVE  canSaved'
    <3>1. CASE k = j
      BY <1>5, <1>7, <2>1, <3>1
    <3>2. CASE k # j
      <4>1. k \in 1 .. j - 1 /\ k \in 1 .. j
        BY <1>1, <3>2
      <4>2. SameClause(filterarray, k, j)
        BY <1>1, <2>1, <4>1, SameClauseStep
      <4>3. canSaved
        BY <1>1, <1>5, <2>1, <4>1, <4>2 DEF CanSavedSet
      <4> QED BY <1>5, <1>7, <2>1, <4>3
    <3> QED BY <3>1, <3>2
  <2> QED BY <2>1 DEF CanSavedSet, NextToken
<1>10. NotsRead'
  BY <1>4 DEF NotsRead
<1> QED BY <1>3, <1>8, <1>9, <1>10 DEF WalkAgrees
-----------------------------------------------------------------------------
(* AND and NOT. *)
LEMMA JoinStep ==
  ASSUME IInv, Supported(filterarray), At({"AND", "NOT"}), NextToken,
         UNCHANGED <<isSaved, canSaved>>,
         Passed' <=> Passed \/ (filterarray[j] = "AND" /\ ~ CV),
         ~ Passed' => (isnot' <=> filterarray[j] = "NOT" /\ ~ isnot)
  PROVE  WalkAgrees'
<1>1. /\ j \in Nat \ {0} /\ j \in 1 .. Len(filterarray) /\ Len(filterarray) \in Nat
      /\ NotsRead /\ OperandTruth /\ CanSavedSet /\ IsInfix(filterarray)
  BY Walking DEF At
<1>2. filterarray[j] # "OR" /\ filterarray[j] \notin Conditions
  BY DEF At, Conditions, Comparisons, Betweens
<1>3. InOperand' /\ OperandsBeforeFalse'
  BY <1>2, SameOperand DEF At
<1>4. ~ BehindCondition'
  BY <1>1, <1>2 DEF BehindCondition, NextToken
<1>5. BehindCondition <=> filterarray[j] = "AND"
  BY <1>1 DEF BehindCondition, IsInfix, At
<1>6. TrueUpTo(filterarray, holds[i], j + 1) <=> TrueUpTo(filterarray, holds[i], j)
  BY <1>1, <1>2, TrueAfterOther
<1>7. NotsRead'
  <2>1. Negated(filterarray, j + 1) <=> filterarray[j] = "NOT" /\ ~ Negated(filterarray, j)
    BY <1>1, NegatedStep
  <2>2. ASSUME ~ Passed' PROVE isnot' <=> Negated(filterarray, j + 1)
    BY <1>1, <1>5, <2>1, <2>2 DEF NotsRead, At
  <2> QED BY <2>2 DEF NotsRead, NextToken
<1>8. OperandTruth'
  <2>1. Passed' <=> ~ TrueUpTo(filterarray, holds[i], j + 1)
    BY <1>1, <1>5, <1>6 DEF OperandTruth, At
  <2> QED BY <1>4, <2>1 DEF OperandTruth, NextToken
<1>9. CanSavedSet'
  <2>1. ASSUME TrueUpTo(filterarray, holds[i], j + 1), NEW k \in 1 .. (j + 1) - 1,
               SameClause(filterarray, k, j + 1), SetsCanSaved(filterarray, k)
        PROVE  canSaved'
    <3>1. k # j
      BY <1>2, <2>1 DEF SetsCanSaved, Conditions, Betweens
    <3>2. k \in 1 .. j - 1 /\ k \in 1 .. j
      BY <1>1, <3>1
    <3>3. SameClause(filterarray, k, j)
      BY <1>1, <2>1, <3>2, SameClauseStep
    <3> QED BY <1>1, <1>6, <2>1, <3>2, <3>3 DEF CanSavedSet
  <2> QED BY <2>1 DEF CanSavedSet, NextToken
<1> QED BY <1>3, <1>7, <1>8, <1>9 DEF WalkAgrees

(* An OR after a false operand. *)
LEMMA OrStep ==
  ASSUME IInv, Supported(filterarray), At({"OR"}), NextToken, UNCHANGED isSaved,
         ~ CV, ~ isnot', ~ Passed'
  PROVE  WalkAgrees'
<1>1. /\ j \in Nat \ {0} /\ j \in 1 .. Len(filterarray) /\ Len(filterarray) \in Nat
      /\ OperandTruth /\ InOperand /\ OperandsBeforeFalse /\ IsInfix(filterarray)
      /\ filterarray[j] = "OR"
  BY Walking DEF At
<1>2. ~ BehindCondition'
  <2>1. "OR" \notin Conditions
    BY DEF Conditions, Comparisons, Betweens
  <2>2. filterarray' = filterarray /\ j' = j + 1 /\ j' - 1 = j
    BY <1>1 DEF NextToken
  <2> QED BY <1>1, <2>1, <2>2 DEF BehindCondition
<1>3. TrueUpTo(filterarray, holds[i], j + 1)
  BY <1>1, TrueAfterOr
<1>4. ~ Negated(filterarray, j + 1)
  BY <1>1, NegatedStep
<1>5. NotsRead' /\ OperandTruth'
  BY <1>2, <1>3, <1>4 DEF NotsRead, OperandTruth, NextToken
<1>6. InOperand'
  <2>1. j + 1 \in ClauseStarts(filterarray)
    BY <1>1 DEF ClauseStarts
  <2>2. j + 1 <= j + 1 /\ SameClause(filterarray, j + 1, j + 1)
    BY <1>1 DEF SameClause
  <2> QED BY <2>1, <2>2 DEF InOperand, NextToken
<1>7. ~ TrueUpTo(filterarray, holds[i], j)
  BY <1>1 DEF OperandTruth, BehindCondition, IsInfix
<1>8. OperandsBeforeFalse'
  <2>1. ASSUME NEW s \in ClauseStarts(filterarray), s < j + 1
        PROVE  ~ ClauseTrue(filterarray, holds[i], s)
    <3>1. s \in Nat \ {0} /\ s <= j
      BY <1>1, <2>1 DEF ClauseStarts
    <3>2. CASE SameClause(filterarray, s, j)
      <4>1. filterarray \in Seq(Operators) /\ j \in 1 .. Len(filterarray) + 1
        BY <1>1, FilterType DEF IInv
      <4> QED BY <1>1, <1>7, <3>1, <3>2, <4>1, ClauseWalked
    <3>3. CASE ~ SameClause(filterarray, s, j)
      <4>1. s # j
        BY <1>1, <3>3 DEF SameClause
      <4> QED BY <1>1, <3>1, <3>3, <4>1 DEF OperandsBeforeFalse
    <3> QED BY <3>2, <3>3
  <2> QED BY <2>1 DEF OperandsBeforeFalse, NextToken
<1>9. CanSavedSet'
  <2>1. ASSUME NEW k \in 1 .. (j + 1) - 1 PROVE ~ SameClause(filterarray, k, j + 1)
    BY <1>1 DEF SameClause
  <2> QED BY <2>1 DEF CanSavedSet, NextToken
<1> QED BY <1>5, <1>6, <1>8, <1>9 DEF WalkAgrees

-----------------------------------------------------------------------------
LEMMA SkipInvariant == ASSUME IInv, Skip PROVE IInv'
<1>1. At(Operators)
  BY DEF Skip, At, Operators, Conditions, Betweens
<1>2. Supported(filterarray) => WalkAgrees'
  <2>1. CASE filterarray[j] = "NOT"
    BY <2>1, JoinStep DEF Skip, At, flags
  <2>2. CASE filterarray[j] # "NOT"
    <3>1. At(Conditions)
      BY <2>2 DEF Skip, At, Conditions
    <3> QED BY <3>1, ConditionStep DEF Skip, flags
  <2> QED BY <2>1, <2>2
<1>3. /\ {CV, Passed, canSaved, isnot} \subseteq BOOLEAN
      /\ Passed => ~ CV /\ ~ isnot
  BY DEF IInv, TypeOK, SkippedIsFalse
<1> QED BY <1>1, <1>2, <1>3, TokenStep DEF Skip, flags

LEMMA CompareInvariant == ASSUME IInv, Compare PROVE IInv'
<1>1. At(Conditions) /\ At(Operators)
  BY DEF Compare, At, Operators, Conditions, Betweens
<1>2. {CV, Passed, canSaved, isnot} \subseteq BOOLEAN /\ TmpV = TRUE
  BY DEF IInv, TypeOK, SkippedIsFalse
<1>3. Verdict \in BOOLEAN
  BY DEF Verdict
<1>4. Supported(filterarray) => WalkAgrees'
  <2>1. ASSUME Supported(filterarray) PROVE Verdict <=> True(filterarray, holds[i], j)
    <3>1. isnot <=> Negated(filterarray, j)
      BY <1>1, <2>1, ConditionRead DEF Compare
    <3>2. isnot \in BOOLEAN /\ Negated(filterarray, j) \in BOOLEAN
      BY <1>2 DEF Negated
    <3> QED BY <1>2, <3>1, <3>2 DEF Verdict, Holds, True
  <2> QED BY <1>1, <2>1, ConditionStep DEF Compare
<1> QED BY <1>1, <1>2, <1>3, <1>4, TokenStep DEF Compare
LEMMA LikeBetweenInvariant == ASSUME IInv, LikeBetween PROVE IInv'
<1>1. At(Conditions) /\ At(Operators)
  BY DEF LikeBetween, At, Operators, Conditions, Betweens
<1>2. /\ {CV, Passed, canSaved, isnot} \subseteq BOOLEAN
      /\ Passed => ~ CV /\ ~ isnot
  BY DEF IInv, TypeOK, SkippedIsFalse
<1>3. CV' = ((IF KeepsCV THEN CV ELSE Holds) # isnot)
  BY DEF LikeBetween
<1>4. canSaved' = IF isnot THEN ~ (IF KeepsCV THEN CV ELSE Holds) ELSE canSaved
  BY DEF LikeBetween
<1>5. NextToken /\ UNCHANGED <<TmpV, Passed, isSaved, isnot, saved>>
  BY DEF LikeBetween
<1>6. CV' \in BOOLEAN /\ canSaved' \in BOOLEAN
  <2>1. Holds \in BOOLEAN
    BY DEF Holds
  <2> QED BY <1>2, <1>3, <1>4, <2>1
<1>7. Passed => ~ CV'
  BY <1>2, <1>3 DEF KeepsCV
<1>8. Supported(filterarray) => WalkAgrees'
  <2> SUFFICES ASSUME Supported(filterarray) PROVE WalkAgrees'
    OBVIOUS
  <2>1. CASE Passed
    BY <1>1, <1>5, <2>1, ConditionStep
  <2>2. CASE ~ Passed
    <3>1. isnot <=> Negated(filterarray, j)
      BY <1>1, <2>2, ConditionRead
    <3>5. ~ KeepsCV
      <4>1. j \in 1 .. Len(filterarray)
        BY <1>1, Walking DEF At
      <4> QED BY <2>2, <4>1, SupportedFilter DEF KeepsCV
    <3>2. isnot \in BOOLEAN /\ Holds \in BOOLEAN /\ Negated(filterarray, j) \in BOOLEAN
      BY <1>2 DEF Holds, Negated
    <3>3. CV' <=> True(filterarray, holds[i], j)
      BY <1>3, <3>5, <3>1, <3>2 DEF True, Holds
    <3>4. ASSUME True(filterarray, holds[i], j), canSaved \/ SetsCanSaved(filterarray, j)
          PROVE  canSaved'
      <4>1. CASE isnot
        BY <1>3, <1>4, <3>5, <3>2, <3>3, <3>4, <4>1
      <4>2. CASE ~ isnot
        BY <1>4, <3>1, <3>4, <4>2 DEF SetsCanSaved, LikeBetween, At, Comparisons, Betweens
      <4> QED BY <4>1, <4>2
    <3> QED BY <1>1, <1>5, <3>3, <3>4, ConditionStep
  <2> QED BY <2>1, <2>2
<1> QED BY <1>1, <1>2, <1>5, <1>6, <1>7, <1>8, TokenStep

LEMMA InInvariant == ASSUME IInv, In PROVE IInv'
<1>1. At(Conditions) /\ At(Operators)
  BY DEF In, At, Operators, Conditions, Betweens
<1>2. {CV, Passed, canSaved, isnot} \subseteq BOOLEAN /\ Holds \in BOOLEAN
  BY DEF IInv, TypeOK, Holds
<1>3. Supported(filterarray) => WalkAgrees'
  <2> SUFFICES ASSUME Supported(filterarray) PROVE WalkAgrees'
    OBVIOUS
  <2>1. NotsBefore(filterarray, j) = {}
    BY Walking DEF In, At, Supported
  <2>2. Cardinality(NotsBefore(filterarray, j)) = 0
    BY <2>1, FS_EmptySet
  <2>3. Negated(filterarray, j) = FALSE
    BY <2>2 DEF Negated
  <2>4. Holds <=> True(filterarray, holds[i], j)
    BY <1>2, <2>3 DEF True, Holds
  <2>5. ~ SetsCanSaved(filterarray, j)
    BY DEF SetsCanSaved, In, At, Comparisons
  <2> QED BY <1>1, <2>4, <2>5, ConditionStep DEF In, flags
<1> QED BY <1>1, <1>2, <1>3, TokenStep DEF In, flags

LEMMA IsInvariant == ASSUME IInv, Is PROVE IInv'
<1>1. At(Operators)
  BY DEF Is, At, Operators, Conditions, Betweens
<1>2. /\ {CV, Passed, canSaved, isnot} \subseteq BOOLEAN
      /\ Passed => ~ CV /\ ~ isnot
  BY DEF IInv, TypeOK, SkippedIsFalse
<1>3. ~ Supported(filterarray)
  BY <1>1, Walking DEF Is, At, Supported
<1> QED BY <1>1, <1>2, <1>3, TokenStep DEF Is, flags

LEMMA NotInvariant == ASSUME IInv, Not PROVE IInv'
<1>1. At(Operators)
  BY DEF Not, At, Operators
<1>2. {CV, Passed, canSaved, isnot} \subseteq BOOLEAN
  BY DEF IInv, TypeOK
<1>3. Supported(filterarray) => WalkAgrees'
  BY JoinStep DEF Not, At
<1> QED BY <1>1, <1>2, <1>3, TokenStep DEF Not

LEMMA AndInvariant == ASSUME IInv, And PROVE IInv'
<1>1. At(Operators)
  BY DEF And, At, Operators
<1>2. /\ {CV, Passed, canSaved, isnot} \subseteq BOOLEAN /\ TmpV = TRUE
      /\ Passed => ~ CV
  BY DEF IInv, TypeOK, SkippedIsFalse
<1>3. TmpV' = TmpV /\ (Passed' <=> Passed \/ ~ CV) /\ Passed' \in BOOLEAN
  BY <1>2 DEF And
<1>4. Supported(filterarray) => WalkAgrees'
  BY <1>3, JoinStep DEF And, At
<1> QED BY <1>1, <1>2, <1>3, <1>4, TokenStep DEF And

LEMMA OrFalseInvariant == ASSUME IInv, OrFalse PROVE IInv'
<1>1. At(Operators)
  BY DEF OrFalse, At, Operators
<1>2. {CV, canSaved} \subseteq BOOLEAN /\ TmpV = TRUE
  BY DEF IInv, TypeOK, SkippedIsFalse
<1>3. Supported(filterarray) => WalkAgrees'
  BY OrStep DEF OrFalse, OrRestart
<1> QED BY <1>1, <1>2, <1>3, TokenStep DEF OrFalse, OrRestart

-----------------------------------------------------------------------------
(* The two places that save a row. *)

(* The row saved now comes behind those saved before. *)
LEMMA AppendRow ==
  ASSUME IInv, i <= RowNum, ~ isSaved, saved' = Append(saved, i)
  PROVE  /\ saved' \in Seq(1 .. RowNum)
         /\ SavedRows' = SavedRows \cup {i}
         /\ \A k \in 1 .. Len(saved') : saved'[k] <= i
         /\ SavedInOrder'
<1>1. saved \in Seq(1 .. RowNum) /\ i \in 1 .. RowNum /\ Len(saved) \in Nat
  BY RowNumAssumption, LenProperties DEF IInv, TypeOK
<1>2. /\ saved' \in Seq(1 .. RowNum) /\ Len(saved') = Len(saved) + 1
      /\ saved'[Len(saved) + 1] = i
      /\ \A k \in 1 .. Len(saved) : saved'[k] = saved[k]
  BY <1>1, AppendProperties
<1>3. \A k \in 1 .. Len(saved) : saved[k] < i /\ saved[k] \in 1 .. RowNum
  <2> TAKE k \in 1 .. Len(saved)
  <2>1. saved[k] \in 1 .. RowNum
    BY <1>1, ElementOfSeq
  <2>2. saved[k] <= i /\ saved[k] # i
    BY DEF IInv, SavedSoFar
  <2> QED BY <1>1, <2>1, <2>2, RowNumAssumption
<1>4. \A k \in 1 .. Len(saved') : k \in 1 .. Len(saved) \/ k = Len(saved) + 1
  BY <1>1, <1>2
<1>5. SavedRows' = SavedRows \cup {i}
  <2>1. SavedRows' = {saved'[k] : k \in 1 .. Len(saved')}
    BY DEF SavedRows
  <2>2. Len(saved) + 1 \in 1 .. Len(saved') /\ \A k \in 1 .. Len(saved) : k \in 1 .. Len(saved')
    BY <1>1, <1>2
  <2> QED BY <1>2, <1>4, <2>1, <2>2 DEF SavedRows
<1>6. \A k \in 1 .. Len(saved') : saved'[k] <= i
  BY <1>1, <1>2, <1>3, <1>4
<1>7. SavedInOrder'
  <2>1. ASSUME NEW k \in 1 .. Len(saved') - 1 PROVE saved'[k] < saved'[k + 1]
    <3>1. CASE k = Len(saved)
      BY <1>1, <1>2, <1>3, <2>1, <3>1
    <3>2. CASE k # Len(saved)
      <4>1. k \in 1 .. Len(saved) - 1 /\ k \in 1 .. Len(saved) /\ k + 1 \in 1 .. Len(saved)
        BY <1>1, <1>2, <3>2
      <4> QED BY <1>2, <4>1 DEF IInv, SavedInOrder
    <3> QED BY <3>1, <3>2
  <2> QED BY <2>1 DEF SavedInOrder
<1> QED BY <1>2, <1>5, <1>6, <1>7

(* A row whose operand of OR is true up to its end satisfies the filter. *)
LEMMA TrueOperandSatisfies ==
  ASSUME IInv, Supported(filterarray), ~ isSaved, CV, ~ Passed, BehindCondition,
         j <= Len(filterarray) => filterarray[j] = "OR"
  PROVE  Satisfies(filterarray, holds[i])
<1>1. /\ filterarray \in Seq(Operators) /\ j \in 1 .. Len(filterarray) + 1
      /\ OperandTruth /\ InOperand
  BY FilterType DEF IInv, TypeOK, WalkAgrees
<1>2. TrueUpTo(filterarray, holds[i], j)
  BY <1>1 DEF OperandTruth
<1>3. PICK s \in ClauseStarts(filterarray) : s <= j /\ SameClause(filterarray, s, j)
  BY <1>1 DEF InOperand
<1>4. ClauseTrue(filterarray, holds[i], s)
  BY <1>1, <1>2, <1>3, ClauseWalked
<1> QED BY <1>4 DEF Satisfies, ClauseTrue
LEMMA OrTrueInvariant == ASSUME IInv, OrTrue PROVE IInv'
<1>1. /\ Len(filterarray) \in Nat /\ j \in 1 .. Len(filterarray) /\ ~ isSaved
      /\ filterarray[j] = "OR" /\ i <= RowNum
  BY Walking DEF OrTrue, At
<1>2. /\ saved' \in Seq(1 .. RowNum) /\ SavedRows' = SavedRows \cup {i}
      /\ \A k \in 1 .. Len(saved') : saved'[k] <= i
      /\ SavedInOrder'
  BY <1>1, AppendRow DEF OrTrue
<1>3. UNCHANGED <<filterarray, holds, i, CV, TmpV, Passed, canSaved>>
  BY DEF OrTrue
<1>4. isSaved' = TRUE /\ isnot' = FALSE /\ j' = Len(filterarray) + 1
  BY DEF OrTrue
<1>5. CV /\ ~ Passed /\ TmpV = TRUE
  BY DEF IInv, SkippedIsFalse, OrTrue
<1>6. filterarray' \in Filters /\ TypeOK'
  <2>1. i' \in 1 .. RowNum' + 1 /\ j' \in 1 .. Len(filterarray') + 1
    BY <1>1, <1>3, <1>4 DEF IInv, TypeOK
  <2>2. {CV', TmpV', Passed', isSaved', canSaved', isnot'} \subseteq BOOLEAN
    BY <1>3, <1>4 DEF IInv, TypeOK
  <2>3. filterarray' \in Filters
    BY <1>3 DEF IInv
  <2> QED BY <1>2, <2>1, <2>2, <2>3 DEF TypeOK
<1>7. SkippedIsFalse' /\ SavedByOr' /\ SavedSoFar' /\ WalkAgrees'
  <2>1. SkippedIsFalse'
    BY <1>3, <1>5 DEF SkippedIsFalse
  <2>2. SavedByOr'
    BY <1>2, <1>3, <1>4 DEF SavedByOr
  <2>3. SavedSoFar'
    BY <1>2, <1>3, <1>4 DEF SavedSoFar
  <2>4. WalkAgrees'
    BY <1>4 DEF WalkAgrees
  <2> QED BY <2>1, <2>2, <2>3, <2>4
<1>8. SavedRowsSatisfy'
  <2>1. ASSUME Supported(filterarray) PROVE Satisfies(filterarray, holds[i])
    <3>1. BehindCondition
      BY <1>1, <2>1, SupportedFilter DEF IsInfix, BehindCondition
    <3> QED BY <1>1, <1>5, <2>1, <3>1, TrueOperandSatisfies
  <2> QED BY <1>2, <1>3, <2>1 DEF IInv, SavedRowsSatisfy
<1>9. SatisfyingRowsSaved'
  BY <1>2, <1>3 DEF IInv, SatisfyingRowsSaved
<1> QED BY <1>2, <1>6, <1>7, <1>8, <1>9 DEF IInv

(* A row that satisfies a filter is saved when all tokens are walked. *)
LEMMA SatisfyingSavedAtEnd ==
  ASSUME IInv, j > Len(filterarray), ~ isSaved, Supported(filterarray),
         CanSaveLast(filterarray), Satisfies(filterarray, holds[i])
  PROVE  SaveAtEnd
<1>1. /\ filterarray \in Seq(Operators) /\ Len(filterarray) \in Nat
      /\ j = Len(filterarray) + 1 /\ IsInfix(filterarray)
      /\ OperandTruth /\ OperandsBeforeFalse /\ CanSavedSet
  <2>1. filterarray \in Seq(Operators) /\ Len(filterarray) \in Nat /\ IsInfix(filterarray)
    BY FilterType, SupportedFilter DEF IInv
  <2>2. j = Len(filterarray) + 1
    BY <2>1 DEF IInv, TypeOK
  <2>3. OperandTruth /\ OperandsBeforeFalse /\ CanSavedSet
    BY DEF IInv, WalkAgrees
  <2> QED BY <2>1, <2>2, <2>3
<1>2. PICK s \in ClauseStarts(filterarray) : ClauseTrue(filterarray, holds[i], s)
  BY DEF Satisfies, ClauseTrue
<1>3. PICK t \in ClauseStarts(filterarray) :
         /\ Clause(filterarray, t) = t .. Len(filterarray)
         /\ \E k \in Clause(filterarray, t) : SetsCanSaved(filterarray, k)
  BY DEF CanSaveLast, SetsCanSaved
<1>4. PICK k \in Clause(filterarray, t) : SetsCanSaved(filterarray, k)
  BY <1>3
<1>5. t \in Nat \ {0} /\ k \in t .. Len(filterarray) /\ s \in Nat \ {0}
  BY <1>1, <1>3, <1>4 DEF ClauseStarts
<1>6. Len(filterarray) >= 1 /\ filterarray[Len(filterarray)] \in Conditions /\ BehindCondition
  BY <1>1, <1>5 DEF IsInfix, BehindCondition
<1>7. s < j
  <2>1. filterarray[Len(filterarray)] # "OR"
    BY <1>6 DEF Conditions, Comparisons, Betweens
  <2> QED BY <1>1, <1>5, <1>6, <2>1 DEF ClauseStarts
<1>8. SameClause(filterarray, s, j)
  BY <1>2, <1>7, <1>1 DEF OperandsBeforeFalse
<1>9. TrueUpTo(filterarray, holds[i], j)
  <2>1. j \in 1 .. Len(filterarray) + 1 /\ s <= j /\ ~ (j <= Len(filterarray))
    BY <1>1, <1>5, <1>7
  <2> QED BY <1>1, <1>2, <1>8, <2>1, ClauseWalked
<1>10. canSaved
  <2>1. k \in 1 .. j - 1 /\ SetsCanSaved(filterarray, k)
    BY <1>1, <1>4, <1>5
  <2>2. SameClause(filterarray, k, j)
    <3>1. \A l \in t .. Len(filterarray) : filterarray[l] # "OR"
      BY <1>3, <1>5 DEF Clause
    <3> QED BY <1>1, <1>5, <3>1 DEF SameClause
  <2> QED BY <1>1, <1>9, <2>1, <2>2 DEF CanSavedSet
<1> QED BY <1>1, <1>6, <1>9, <1>10 DEF OperandTruth, SaveAtEnd

LEMMA EndRowInvariant == ASSUME IInv, EndRow PROVE IInv'
<1>1. /\ Len(filterarray) \in Nat /\ j = Len(filterarray) + 1
      /\ i \in 1 .. RowNum /\ saved \in Seq(1 .. RowNum) /\ RowNum \in Nat
  BY FilterType, RowNumAssumption DEF IInv, TypeOK, EndRow
<1>2. /\ i' = i + 1 /\ j' = 1 /\ TmpV' = TRUE /\ Passed' = FALSE /\ isSaved' = FALSE
      /\ canSaved' = FALSE /\ isnot' = FALSE
      /\ UNCHANGED <<filterarray, holds, CV>>
  BY DEF EndRow, NextRow
<1>3. /\ saved' \in Seq(1 .. RowNum)
      /\ SavedRows' = IF SaveAtEnd THEN SavedRows \cup {i} ELSE SavedRows
      /\ \A k \in 1 .. Len(saved') : saved'[k] <= i
      /\ SavedInOrder'
  <2>1. CASE SaveAtEnd
    BY <1>1, <2>1, AppendRow DEF EndRow, SaveAtEnd
  <2>2. CASE ~ SaveAtEnd
    <3>1. saved' = saved
      BY <2>2 DEF EndRow
    <3>2. \A k \in 1 .. Len(saved) : saved[k] <= i
      BY DEF IInv, SavedSoFar
    <3> QED BY <1>1, <2>2, <3>1, <3>2 DEF IInv, SavedInOrder, SavedRows
  <2> QED BY <2>1, <2>2
<1>4. filterarray' \in Filters
  BY <1>2 DEF IInv
<1>5. TypeOK'
  <2>1. i' \in 1 .. RowNum' + 1 /\ j' \in 1 .. Len(filterarray') + 1
    BY <1>1, <1>2
  <2>2. {CV', TmpV', Passed', isSaved', canSaved', isnot'} \subseteq BOOLEAN
    BY <1>2 DEF IInv, TypeOK
  <2> QED BY <1>3, <2>1, <2>2 DEF TypeOK
<1>6. SkippedIsFalse' /\ SavedByOr'
  BY <1>2 DEF SkippedIsFalse, SavedByOr
<1>7. SavedSoFar'
  <2>1. ASSUME NEW k \in 1 .. Len(saved') PROVE saved'[k] <= i' /\ saved'[k] # i'
    <3>1. saved'[k] \in 1 .. RowNum /\ saved'[k] <= i
      BY <1>3, ElementOfSeq
    <3> QED BY <1>1, <1>2, <3>1
  <2> QED BY <2>1 DEF SavedSoFar
<1>8. WalkAgrees'
  <2>1. (filterarray \in Filters /\ j = 1 /\ ~ isnot /\ ~ Passed)'
    BY <1>2, <1>4
  <2> QED BY <2>1, FirstToken, PTL
<1>9. SavedRowsSatisfy'
  <2>1. ASSUME Supported(filterarray), SaveAtEnd PROVE Satisfies(filterarray, holds[i])
    <3>1. OperandTruth /\ canSaved /\ ~ isSaved /\ CV /\ ~ Passed
      BY <2>1 DEF IInv, WalkAgrees, SaveAtEnd
    <3>2. CASE Len(filterarray) = 0
      <4>1. 1 \in ClauseStarts(filterarray) /\ Clause(filterarray, 1) = {}
        BY <3>2 DEF ClauseStarts, Clause
      <4> QED BY <4>1 DEF Satisfies
    <3>3. CASE Len(filterarray) # 0
      <4>1. BehindCondition
        <5>1. IsInfix(filterarray)
          BY <2>1, SupportedFilter
        <5> QED BY <1>1, <3>3, <5>1 DEF BehindCondition, IsInfix
      <4> QED BY <1>1, <2>1, <3>1, <4>1, TrueOperandSatisfies
    <3> QED BY <3>2, <3>3
  <2> QED BY <1>2, <1>3, <2>1 DEF IInv, SavedRowsSatisfy
<1>10. SatisfyingRowsSaved'
  <2>1. ASSUME Supported(filterarray), CanSaveLast(filterarray), NEW r \in 1 .. i,
               Satisfies(filterarray, holds[r])
        PROVE  r \in SavedRows'
    <3>1. CASE r = i
      <4>1. CASE isSaved
        BY <1>3, <3>1, <4>1 DEF IInv, SavedByOr
      <4>2. CASE ~ isSaved
        BY <1>1, <1>3, <2>1, <3>1, <4>2, SatisfyingSavedAtEnd
      <4> QED BY <4>1, <4>2
    <3>2. CASE r # i
      <4>1. r \in 1 .. i - 1
        BY <1>1, <3>2
      <4> QED BY <1>3, <2>1, <4>1 DEF IInv, SatisfyingRowsSaved
    <3> QED BY <3>1, <3>2
  <2>2. i' - 1 = i
    BY <1>1, <1>2
  <2> QED BY <1>2, <2>1, <2>2 DEF SatisfyingRowsSaved
<1> QED BY <1>3, <1>4, <1>5, <1>6, <1>7, <1>8, <1>9, <1>10 DEF IInv

LEMMA StutterInvariant == ASSUME IInv, UNCHANGED vars PROVE IInv'
<1> USE DEF vars
<1>1. filterarray' \in Filters /\ TypeOK'
  BY DEF IInv, TypeOK
<1>2. SkippedIsFalse' /\ SavedByOr' /\ SavedSoFar' /\ SavedInOrder'
  BY DEF IInv, SkippedIsFalse, SavedByOr, SavedSoFar, SavedInOrder, SavedRows
<1>3. WalkAgrees'
  BY DEF IInv, WalkAgrees, NotsRead, OperandTruth, InOperand, OperandsBeforeFalse,
         CanSavedSet, BehindCondition
<1>4. SavedRowsSatisfy' /\ SatisfyingRowsSaved'
  BY DEF IInv, SavedRowsSatisfy, SatisfyingRowsSaved, SavedRows
<1> QED BY <1>1, <1>2, <1>3, <1>4 DEF IInv

LEMMA StepInvariant == IInv /\ [Next]_vars => IInv'
<1> SUFFICES ASSUME IInv, [Next]_vars PROVE IInv'
  OBVIOUS
<1> QED
  BY SkipInvariant, CompareInvariant, LikeBetweenInvariant, InInvariant, IsInvariant,
     NotInvariant, AndInvariant, OrFalseInvariant, OrTrueInvariant, EndRowInvariant,
     StutterInvariant
  DEF Next

(* Every state of the row loop satisfies the invariant. *)
LEMMA Invariance == Spec => []IInv
  BY InitInvariant, StepInvariant, PTL DEF Spec

(* The indexes, flags and saved rows of Filter::BlockFilter keep their types. *)
THEOREM TypeCorrect == Spec => []TypeOK
<1>1. IInv => TypeOK
  BY DEF IInv
<1> QED BY <1>1, Invariance, PTL

(* No row that fails the filter is written to the FilterResult. *)
THEOREM SavedSatisfy == Spec => []SavedRowsSatisfy
<1>1. IInv => SavedRowsSatisfy
  BY DEF IInv
<1> QED BY <1>1, Invariance, PTL

(* A row that satisfies a filter whose last operand of OR sets canSaved is  *)
(* written to the FilterResult.                                             *)
THEOREM SatisfyingSaved == Spec => []SatisfyingRowsSaved
<1>1. IInv => SatisfyingRowsSaved
  BY DEF IInv
<1> QED BY <1>1, Invariance, PTL

(* A FilterResult holds its rows once and in the order of the block. *)
THEOREM OrderCorrect == Spec => []SavedInOrder
<1>1. IInv => SavedInOrder
  BY DEF IInv
<1> QED BY <1>1, Invariance, PTL
=============================================================================
