------------------------------ MODULE RowLayout -----------------------------
(***************************************************************************)
(* Where the filter finds the columns of a row (makenewmap) and what it    *)
(* copies when the row is saved (the saving branches of BlockFilter and    *)
(* SavedRow), keti/filter.cc.                                              *)
(*                                                                         *)
(* A block is the concatenation of its rows.  A row has a header of        *)
(* HEADER bytes, then its columns; a VARCHAR column has a prefix with its  *)
(* length, of one byte if its declared length is below 256, of two bytes   *)
(* otherwise.  The bytes are abstracted to the places of the prefixes and  *)
(* to the lengths they hold.  The maps newstartptr and newlengthraw live   *)
(* as long as the block: insert does not replace what they hold, and they  *)
(* are cleared for tables with a VARCHAR only.                             *)
(***************************************************************************)
EXTENDS Integers, Sequences

CONSTANTS
    Tables,   \* for each table, the sequence of its columns
    RowNum,   \* the rows of a block
    VarLens,  \* the lengths a VARCHAR value may have
    Signed    \* what char may be on the platform: {TRUE}, {FALSE} or both

HEADER == 2
VARCHAR == 15

Column == [type : Nat, offlen : Nat]

ASSUME TablesAssumption ==
    /\ Tables \subseteq Seq(Column)
    /\ \A t \in Tables : t # <<>>
ASSUME BoundsAssumption ==
    /\ RowNum \in Nat
    /\ VarLens \subseteq Nat
    /\ Signed \subseteq BOOLEAN

VARIABLES
    table,         \* the columns: table_datatype and table_offlen
    lens,          \* lens[r][c]: the true length of column c in row r
    signed,        \* whether char is signed
    r,             \* the row of the loop in BlockFilter
    c,             \* the column of the loop in makenewmap
    iter,          \* where makenewmap believes the row to start
    newstartptr,   \* where the columns start, by column
    newlengthraw,  \* how long they are, by column
    aftervarchar,  \* a VARCHAR was met in this row
    pc,            \* "row", "column" or "save"
    row_offset,    \* where the next saved row will begin in the FilterResult
    saved          \* offset and totallength of the FilterResult, and the copies

vars == <<table, lens, signed, r, c, iter, newstartptr, newlengthraw, aftervarchar, pc, row_offset, saved>>
input == <<table, lens, signed>>

ColNum == Len(table)
IsVarchar(k) == table[k].type = VARCHAR
Prefix(k) == IF ~ IsVarchar(k) THEN 0 ELSE IF table[k].offlen < 256 THEN 1 ELSE 2

-----------------------------------------------------------------------------
(* The block as it is. *)

\* The sum of the first n numbers of f, for each n.
Sums(f) == LET s[n \in Nat] == IF n = 0 THEN 0 ELSE s[n - 1] + f[n] IN s

\* The lengths the columns of a row may have.
RowLengths ==
    {f \in [1 .. ColNum -> VarLens \cup {table[k].offlen : k \in 1 .. ColNum}] :
        \A k \in 1 .. ColNum :
           IF IsVarchar(k) THEN f[k] \in VarLens /\ f[k] <= table[k].offlen
                           ELSE f[k] = table[k].offlen}

Size(row) == [k \in 1 .. ColNum |-> Prefix(k) + lens[row][k]]

RowLength(row) == HEADER + Sums(Size(row))[ColNum]

RowStart(row) == Sums([q \in 1 .. RowNum |-> RowLength(q)])[row - 1]

\* Where the length prefix of a column is, and where its value is.
PrefixAt(row, k) == RowStart(row) + HEADER + Sums(Size(row))[k - 1]
ValueAt(row, k) == PrefixAt(row, k) + Prefix(k)

\* What the bytes at an address say when they are read as a length of n bytes.
LengthsAt(a, n) ==
    LET here == {x \in (1 .. RowNum) \X (1 .. ColNum) :
                   IsVarchar(x[2]) /\ Prefix(x[2]) = n /\ PrefixAt(x[1], x[2]) = a}
    IN  IF here = {} THEN VarLens ELSE {lens[x[1]][x[2]] : x \in here}

-----------------------------------------------------------------------------
Init ==
    /\ table \in Tables
    /\ lens \in [1 .. RowNum -> RowLengths]
    /\ signed \in Signed
    /\ r = 1 /\ c = 1
    /\ iter = 0
    /\ newstartptr = << >> /\ newlengthraw = << >>
    /\ aftervarchar = FALSE
    /\ pc = "row"
    /\ row_offset = 0
    /\ saved = [offset |-> <<>>, totallength |-> 0, copies |-> <<>>]

\* isvarc: does the table have a VARCHAR column?
isvarchar == \E k \in 1 .. ColNum : IsVarchar(k)

\* table_offset: the static start of a column, right before the first VARCHAR.
startoff(k) == HEADER + Sums([m \in 1 .. ColNum |-> table[m].offlen])[k - 1]

\* insert of unordered_map: a column that is there keeps what it has.
Insert(map, k, v) ==
    [m \in DOMAIN map \cup {k} |-> IF m \in DOMAIN map THEN map[m] ELSE v]

\* An error: the maps keep the columns of the row before.
MapsKept == UNCHANGED <<newstartptr, newlengthraw>>

MapsCleared ==
    IF isvarchar THEN newstartptr' = << >> /\ newlengthraw' = << >>
                 ELSE UNCHANGED <<newstartptr, newlengthraw>>

BeginRow ==
    /\ pc = "row"
    /\ r <= RowNum
    /\ MapsCleared
    /\ aftervarchar' = FALSE
    /\ c' = 1
    /\ pc' = "column"
    /\ UNCHANGED <<input, r, iter, row_offset, saved>>

\* Where the column before ends, by the maps.
EndOf(k) == newstartptr[k] + newlengthraw[k]

AddColumn(start, length) ==
    /\ newstartptr' = Insert(newstartptr, c, start)
    /\ newlengthraw' = Insert(newlengthraw, c, length)
    /\ c' = c + 1
    /\ UNCHANGED <<input, r, iter, pc, row_offset, saved>>

\* (int)rowbuf[...]: a char from 128 on is negative where char is signed.
OneByte(n) == IF signed /\ n >= 128 THEN n - 256 ELSE n

ValueAfterPrefix(at) == at + Prefix(c)

VarcharColumn ==
    /\ pc = "column"
    /\ c <= ColNum
    /\ IsVarchar(c)
    /\ aftervarchar' = TRUE
    /\ LET at == IF c = 1 THEN iter + startoff(1) ELSE EndOf(c - 1)
       IN  \E n \in LengthsAt(at, Prefix(c)) :
              AddColumn(ValueAfterPrefix(at), IF Prefix(c) = 1 THEN OneByte(n) ELSE n)

StartAfterVarchar == EndOf(c - 1)

ColumnAfterVarchar ==
    /\ pc = "column"
    /\ c <= ColNum
    /\ ~ IsVarchar(c)
    /\ aftervarchar
    /\ AddColumn(StartAfterVarchar, table[c].offlen)
    /\ UNCHANGED aftervarchar

FixedColumn ==
    /\ pc = "column"
    /\ c <= ColNum
    /\ ~ IsVarchar(c)
    /\ ~ aftervarchar
    /\ AddColumn(iter + startoff(c), table[c].offlen)
    /\ UNCHANGED aftervarchar

\* iter becomes the end of the last column.
EndRow ==
    /\ pc = "column"
    /\ c > ColNum
    /\ iter' = EndOf(ColNum)
    /\ pc' = "save"
    /\ UNCHANGED <<input, r, c, newstartptr, newlengthraw, aftervarchar, row_offset, saved>>

\* An error: the header before the first column is not copied.
CopyStartWithoutHeader == newstartptr[1]

CopyStart == newstartptr[1] - HEADER

\* An error: the two bytes of the header are not counted.
NextOffsetWithoutHeader(n) == row_offset + n - HEADER

NextOffset(n) == row_offset + n

\* The row passed the filter: SavedRow appends its bytes to the FilterResult.
SaveRow ==
    /\ pc = "save"
    /\ LET n == EndOf(ColNum) - CopyStart IN
          /\ saved' = [offset |-> Append(saved.offset, row_offset),
                       totallength |-> saved.totallength + n,
                       copies |-> Append(saved.copies, <<r, CopyStart, n>>)]
          /\ row_offset' = NextOffset(n)
    /\ r' = r + 1
    /\ pc' = "row"
    /\ UNCHANGED <<input, c, iter, newstartptr, newlengthraw, aftervarchar>>

DropRow ==
    /\ pc = "save"
    /\ r' = r + 1
    /\ pc' = "row"
    /\ UNCHANGED <<input, c, iter, newstartptr, newlengthraw, aftervarchar,
                   row_offset, saved>>

Next ==
    \/ BeginRow
    \/ VarcharColumn
    \/ ColumnAfterVarchar
    \/ FixedColumn
    \/ EndRow
    \/ SaveRow
    \/ DropRow

Spec == Init /\ [][Next]_vars

-----------------------------------------------------------------------------
(* The type of the row walk's state. *)
TypeOK ==
    /\ r \in 1 .. RowNum + 1
    /\ c \in 1 .. ColNum + 1
    /\ iter \in Int
    /\ DOMAIN newstartptr \subseteq 1 .. ColNum
    /\ DOMAIN newlengthraw = DOMAIN newstartptr
    /\ aftervarchar \in BOOLEAN
    /\ pc \in {"row", "column", "save"}
    /\ Len(saved.offset) = Len(saved.copies)
    /\ {row_offset, saved.totallength} \subseteq Int

\* Lengths that one byte carries on the platform.
ShortLengths == \A q \in 1 .. RowNum, k \in 1 .. ColNum : Prefix(k) = 1 => lens[q][k] < 128

(* The maps point at the columns of the row being filtered: in a table with *)
(* a VARCHAR for every row, as long as the lengths fit in a char; in the    *)
(* others, where they are never cleared, for the first row.                 *)
ColumnsLocated ==
    pc = "save" /\ (signed => ShortLengths) /\ (isvarchar \/ r = 1) =>
      \A k \in 1 .. ColNum :
         newstartptr[k] = ValueAt(r, k) /\ newlengthraw[k] = lens[r][k]

(* A saved row is the whole row, header included, if its table starts with  *)
(* a column of fixed length.                                                *)
WholeRowSaved ==
    (signed => ShortLengths) /\ isvarchar /\ ~ IsVarchar(1) =>
      \A k \in 1 .. Len(saved.copies) : LET x == saved.copies[k] IN
         x[2] = RowStart(x[1]) /\ x[3] = RowLength(x[1])

(* The offsets of a FilterResult are where its copies begin, whichever rows *)
(* were dropped: MergeManager takes their differences, and that of the      *)
(* last one and totallength, for the lengths of the rows.                   *)
OffsetsAreRunningSums ==
    \A k \in 1 .. Len(saved.offset) :
       saved.offset[k] + saved.copies[k][3] =
          IF k < Len(saved.offset) THEN saved.offset[k + 1] ELSE saved.totallength
=============================================================================
