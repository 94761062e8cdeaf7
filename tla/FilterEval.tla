----------------------------- MODULE FilterEval -----------------------------
(***************************************************************************)
(* The row loop of the filter stage (Filter::BlockFilter, keti/filter.cc). *)
(* table_filter is a sequence of tokens in infix order: conditions, NOT    *)
(* before a condition, AND and OR between them.  For each row of the block *)
(* the tokens are walked once with six flags; an OR after a true operand   *)
(* saves the row at once and skips the rest, the others are saved at the   *)
(* end of the walk if the flags allow it.  CV is declared outside the loop *)
(* and is never reset: a row begins with what the row before left in it,   *)
(* the first one with an uninitialised value.                              *)
(*                                                                         *)
(* Whether a condition holds for a row is an input here (holds); how the   *)
(* operands are decoded and compared is not part of this module.           *)
(***************************************************************************)
EXTENDS Naturals, Sequences, FiniteSets

CONSTANTS
    Filters,  \* the filters of the snippets
    RowNum    \* the rows of a block

Comparisons == {"GE", "LE", "GT", "LT", "ET", "NE"}

\* A BETWEEN is a token of its own if its LV is a constant, or a column of a type that
\* the filter does not know and takes for one.
Betweens == {"BETWEEN", "CONST BETWEEN"}

Conditions == Comparisons \cup Betweens \cup {"LIKE", "IN", "IS", "ISNOT"}
Operators == Conditions \cup {"NOT", "AND", "OR"}

ASSUME FiltersAssumption == Filters \subseteq Seq(Operators)
ASSUME RowNumAssumption == RowNum \in Nat

VARIABLES
    filterarray,  \* the filter
    holds,        \* for each row, the tokens whose condition holds
    i,            \* the current row, counted from 1
    j,            \* the current token, counted from 1
    CV,           \* the result of the current operation
    TmpV,         \* the result of the operations before
    Passed,       \* the operations are skipped until the next OR
    isSaved,      \* an OR saved the row
    canSaved,     \* the end of the walk may save the row
    isnot,        \* a NOT precedes
    saved         \* the rows written to the FilterResult

vars == <<filterarray, holds, i, j, CV, TmpV, Passed, isSaved, canSaved, isnot, saved>>
flags == <<TmpV, Passed, isSaved, canSaved, isnot>>

Init ==
    /\ filterarray \in Filters
    /\ holds \in [1 .. RowNum ->
                    SUBSET {k \in 1 .. Len(filterarray) : filterarray[k] \in Conditions}]
    /\ i = 1 /\ j = 1
    /\ CV \in BOOLEAN
    /\ TmpV = TRUE
    /\ Passed = FALSE
    /\ isSaved = FALSE
    /\ canSaved = FALSE
    /\ isnot = FALSE
    /\ saved = <<>>

\* The switch on the operator of the current token.
At(ops) == i <= RowNum /\ j <= Len(filterarray) /\ filterarray[j] \in ops

Holds == j \in holds[i]

NextToken == j' = j + 1 /\ UNCHANGED <<filterarray, holds, i>>

\* The flags at the beginning of a row; CV is not among them.
NextRow ==
    /\ i' = i + 1 /\ j' = 1
    /\ TmpV' = TRUE /\ Passed' = FALSE /\ isSaved' = FALSE
    /\ canSaved' = FALSE /\ isnot' = FALSE
    /\ UNCHANGED <<filterarray, holds, CV>>

-----------------------------------------------------------------------------
\* A comparison, IN or NOT after a false operand of AND.
Skip ==
    /\ At(Comparisons \cup {"IN", "NOT"})
    /\ Passed
    /\ NextToken
    /\ UNCHANGED <<CV, flags, saved>>

\* An error: a NOT before the condition is forgotten.
VerdictWithoutNot == TmpV /\ Holds

\* compareGE, ..., compareNE: the condition, turned round after a NOT.
Verdict == (TmpV /\ Holds) # isnot

Compare ==
    /\ At(Comparisons)
    /\ ~ Passed
    /\ CV' = Verdict
    /\ canSaved' = Verdict
    /\ NextToken
    /\ UNCHANGED <<TmpV, Passed, isSaved, isnot, saved>>

\* BETWEEN reads a constant on the left and compares it with nothing.
KeepsCV == Passed \/ filterarray[j] = "CONST BETWEEN"

\* LIKE and BETWEEN: only a NOT, which is looked at even if the condition is
\* skipped or CV is still that of the operation or the row before, makes them set
\* canSaved.
LikeBetween ==
    /\ At({"LIKE"} \cup Betweens)
    /\ LET v == IF KeepsCV THEN CV ELSE Holds IN
          /\ CV' = (v # isnot)
          /\ canSaved' = IF isnot THEN ~ v ELSE canSaved
    /\ NextToken
    /\ UNCHANGED <<TmpV, Passed, isSaved, isnot, saved>>

\* IN: neither NOT nor canSaved is looked at.
In ==
    /\ At({"IN"})
    /\ ~ Passed
    /\ CV' = Holds
    /\ NextToken
    /\ UNCHANGED <<flags, saved>>

\* IS and ISNOT do nothing: CV keeps the result of the operation before.
Is ==
    /\ At({"IS", "ISNOT"})
    /\ NextToken
    /\ UNCHANGED <<CV, flags, saved>>

Not ==
    /\ At({"NOT"})
    /\ ~ Passed
    /\ isnot' = ~ isnot
    /\ NextToken
    /\ UNCHANGED <<CV, TmpV, Passed, isSaved, canSaved, saved>>

\* A false operand makes the rest be skipped up to the next OR.
And ==
    /\ At({"AND"})
    /\ isnot' = FALSE
    /\ IF CV THEN TmpV' = CV /\ UNCHANGED Passed
             ELSE Passed' = TRUE /\ UNCHANGED TmpV
    /\ NextToken
    /\ UNCHANGED <<CV, isSaved, canSaved, saved>>

\* An error: what was skipped before an OR is skipped after it as well.
OrKeepsPassed == TmpV' = TRUE /\ UNCHANGED Passed

\* After a false operand of OR the walk begins anew.
OrRestart == TmpV' = TRUE /\ Passed' = FALSE

OrFalse ==
    /\ At({"OR"})
    /\ ~ CV
    /\ isnot' = FALSE
    /\ OrRestart
    /\ NextToken
    /\ UNCHANGED <<CV, isSaved, canSaved, saved>>

\* After a true operand the row is saved (SavedRow) and the walk is left.
OrTrue ==
    /\ At({"OR"})
    /\ CV
    /\ isnot' = FALSE
    /\ isSaved' = TRUE
    /\ saved' = Append(saved, i)
    /\ j' = Len(filterarray) + 1
    /\ UNCHANGED <<filterarray, holds, i, CV, TmpV, Passed, canSaved>>

\* An error: a row saved by an OR may be saved a second time.
SaveAtEndAgain == canSaved /\ ~ Passed /\ CV

SaveAtEnd == canSaved /\ ~ isSaved /\ ~ Passed /\ CV

\* All tokens have been walked.
EndRow ==
    /\ i <= RowNum
    /\ j > Len(filterarray)
    /\ saved' = IF SaveAtEnd THEN Append(saved, i) ELSE saved
    /\ NextRow

Next ==
    \/ Skip
    \/ Compare
    \/ LikeBetween
    \/ In
    \/ Is
    \/ Not
    \/ And
    \/ OrFalse
    \/ OrTrue
    \/ EndRow

Spec == Init /\ [][Next]_vars

-----------------------------------------------------------------------------
(* The meaning of a filter: AND binds more than OR, NOT only concerns the   *)
(* condition that follows.                                                  *)

\* The tokens from the k-th on that belong to the same operand of OR.
Clause(f, k) ==
    {l \in k .. Len(f) : \A m \in k .. l : f[m] # "OR"}

\* Where the operands of OR begin.
ClauseStarts(f) == {1} \cup {k + 1 : k \in {l \in 1 .. Len(f) : f[l] = "OR"}}

\* The NOTs immediately before the k-th token.
NotsBefore(f, k) == {l \in 1 .. k - 1 : \A m \in l .. k - 1 : f[m] = "NOT"}

Negated(f, k) == Cardinality(NotsBefore(f, k)) % 2 = 1

True(f, h, k) == (k \in h) # Negated(f, k)

\* Some operand of OR has only true conditions.
Satisfies(f, h) ==
    \E s \in ClauseStarts(f) :
       \A k \in Clause(f, s) : f[k] \in Conditions => True(f, h, k)

\* Conditions, each with its NOTs before it, and one AND or OR between two.
IsInfix(f) ==
    \A k \in 1 .. Len(f) :
       /\ f[k] \in {"AND", "OR"} => k > 1 /\ f[k - 1] \in Conditions
       /\ f[k] \in Conditions \cup {"NOT"} => k = 1 \/ f[k - 1] \notin Conditions
       /\ k = Len(f) => f[k] \in Conditions

\* Filters whose conditions are all evaluated: no IS, no BETWEEN with a constant on
\* the left, and no NOT before IN.
Supported(f) ==
    /\ IsInfix(f)
    /\ \A k \in 1 .. Len(f) :
          /\ f[k] \notin {"IS", "ISNOT", "CONST BETWEEN"}
          /\ f[k] = "IN" => NotsBefore(f, k) = {}

\* The last operand of OR has a condition that may set canSaved.
CanSaveLast(f) ==
    \E s \in ClauseStarts(f) : \E k \in Clause(f, s) :
       /\ Clause(f, s) = s .. Len(f)
       /\ \/ f[k] \in Comparisons
          \/ f[k] \in {"LIKE", "BETWEEN"} /\ Negated(f, k)

SavedRows == {saved[k] : k \in 1 .. Len(saved)}

-----------------------------------------------------------------------------
(* The type of the row loop's state. *)
TypeOK ==
    /\ i \in 1 .. RowNum + 1
    /\ j \in 1 .. Len(filterarray) + 1
    /\ {CV, TmpV, Passed, isSaved, canSaved, isnot} \subseteq BOOLEAN
    /\ saved \in Seq(1 .. RowNum)

(* No row that does not satisfy the filter is sent to the host, whatever    *)
(* the row before left in CV and wherever the walk skipped or stopped, if   *)
(* the filter has no IS, no BETWEEN with a constant on the left and no NOT  *)
(* before IN: those act on the CV of the operation or the row before.       *)
SavedRowsSatisfy ==
    Supported(filterarray) =>
      \A r \in SavedRows : Satisfies(filterarray, holds[r])

(* A row that satisfies such a filter is saved once it has been walked, if  *)
(* its last operand of OR has a comparison (or a LIKE or BETWEEN after      *)
(* NOT): only those allow the end of the walk to save a row.                *)
SatisfyingRowsSaved ==
    Supported(filterarray) /\ CanSaveLast(filterarray) =>
      \A r \in 1 .. i - 1 : Satisfies(filterarray, holds[r]) => r \in SavedRows

(* The rows of a FilterResult are in the order of the block, and none is    *)
(* there twice, although a row can be saved at two places of the walk.      *)
SavedInOrder == \A k \in 1 .. Len(saved) - 1 : saved[k] < saved[k + 1]
=============================================================================
