---------------------------- MODULE MCHostServer ----------------------------
(* Files of up to three extents of one or two sectors of two bytes, not in *)
(* the order of the disk, and one whose sectors do not fit an int; all     *)
(* chunks within the file and some beyond it, and some pairs of chunks.    *)
(* A second known table has two files, a third name is not known.          *)
EXTENDS HostServer, FiniteSetsExt

CONSTANTS t1, t2, t3

MCTables == {t1, t2, t3}
MCKnown == {t1, t2}

Places == <<5, 1, 12>>

SizesOf(n) == [1 .. n -> 1 .. 2]

ExtentsOf(sizes, places) ==
    [e \in DOMAIN sizes |->
        [byte_offset |-> Sector * MapThenSumSet(LAMBDA d : sizes[d], 1 .. e - 1),
         begin_LBA |-> places[e],
         sectors |-> sizes[e]]]

Maps ==
    UNION {{ExtentsOf(s, Places) : s \in SizesOf(n)} : n \in 0 .. 3}
        \cup {ExtentsOf(<<1, 1>>, <<20, 1>>)}

ChunkAt(o, l) == [Offset |-> o, Length |-> l]

MCChunks ==
    {<<ChunkAt(o, l)>> : o \in 0 .. 6, l \in 1 .. 7}
        \cup {<<ChunkAt(o, 3), ChunkAt(o + 3, l)>> : o \in 0 .. 3, l \in 1 .. 3}

FileOf(m, c) == [extents |-> m, chunks |-> c]

SecondTable ==
    <<FileOf(ExtentsOf(<<1>>, <<3>>), <<ChunkAt(0, 2)>>),
      FileOf(ExtentsOf(<<1, 1>>, <<7, 9>>), <<ChunkAt(1, 2)>>)>>

MCStorage ==
    {[t \in MCKnown |-> IF t = t1 THEN <<FileOf(m, c)>> ELSE SecondTable] :
       m \in Maps, c \in MCChunks}
=============================================================================
