---------------------------- MODULE MCRowLayout -----------------------------
(* Tables with and without VARCHAR columns, first, last or in the middle,   *)
(* with prefixes of one and of two bytes.  Three rows: the third is where   *)
(* a row pointer that stands still since the first one shows.               *)
EXTENDS RowLayout

Fixed(n) == [type |-> 3, offlen |-> n]
Var(n) == [type |-> 15, offlen |-> n]

FixedTable == <<Fixed(4), Fixed(3)>>
MCTables == {FixedTable, <<Fixed(4), Var(200)>>, <<Fixed(4), Var(300), Fixed(3)>>,
             <<Fixed(1), Var(200), Var(300), Fixed(2)>>, <<Var(200), Fixed(4)>>,
             <<Var(300), Fixed(4)>>}
=============================================================================
