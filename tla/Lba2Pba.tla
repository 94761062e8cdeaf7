------------------------------ MODULE Lba2Pba ------------------------------
(***************************************************************************)
(* my_LBA2PBA of the host's server: the chunks of a table's SST files are  *)
(* given by their place in the file, the pieces that the device shall read *)
(* by their place on the disk.  hdparm --fibmap lists the extents of a     *)
(* file; for each chunk the extents are walked once from the first.        *)
(*                                                                         *)
(* An extent is a line of what hdparm prints, a chunk is a part of a file  *)
(* that is asked for.                                                      *)
(***************************************************************************)
EXTENDS Integers, Sequences

CONSTANTS
    Sector,   \* the bytes of a sector, 512
    IntHalf   \* atoi gives an int, -IntHalf .. IntHalf - 1

ASSUME NumbersAssumption == Sector \in Nat \ {0} /\ IntHalf \in Nat \ {0}

Extents == [byte_offset : Nat, begin_LBA : Nat, sectors : Nat \ {0}]

\* GetInt takes a length that is an int.
Chunks == [Offset : Nat, Length : 1 .. IntHalf - 1]

File == [extents : Seq(Extents), chunks : Seq(Chunks)]

EndOf(e) == e.byte_offset + Sector * e.sectors

\* The extents lie one behind the other and leave no hole in the file, which is
\* written from the first byte to the last (the third line follows from the second).
Contiguous(extents) ==
    \A e, d \in 1 .. Len(extents) :
       /\ e = 1 => extents[e].byte_offset = 0
       /\ d = e + 1 => extents[d].byte_offset = EndOf(extents[e])
       /\ e < d => EndOf(extents[e]) <= extents[d].byte_offset

\* The rows of offset_buffer, which is filled without a look at its size.
Rows == 128

MappedFile == {f \in File : Contiguous(f.extents) /\ Len(f.extents) <= Rows}

VARIABLES
    walk,         \* where the function is
    files,        \* the SST files of the request
    i,            \* the file in work
    j,            \* the chunk in work
    k,            \* the extent in work
    flag,         \* the extent where the chunk begins has been found
    req_offset,   \* where in the file the rest of the chunk begins
    req_length,   \* how long it is
    seq_id,       \* the number the next piece gets
    Offset_List,  \* the pieces of this file; chunk and from are history fields
    Chunk_List    \* the finished lists, one for each file

lbaVars ==
    <<walk, files, i, j, k, flag, req_offset, req_length, seq_id, Offset_List, Chunk_List>>

\* strtol and a conversion to int, as atoi does it: what does not fit wraps.
atoi(n) == ((n + IntHalf) % (2 * IntHalf)) - IntHalf

\* A row of offset_buffer: place in the file, place on the disk, and size, in bytes.
Row(e) ==
    [byte_offset |-> atoi(e.byte_offset),
     begin |-> Sector * atoi(e.begin_LBA),
     size |-> Sector * atoi(e.sectors)]

LbaInit ==
    /\ walk = "returned"
    /\ files = <<>>
    /\ i = 1 /\ j = 1 /\ k = 1
    /\ flag = FALSE
    /\ req_offset = 0 /\ req_length = 0
    /\ seq_id = 1
    /\ Offset_List = <<>>
    /\ Chunk_List = <<>>

\* The program ends: LbaInit of the next start.
Forget ==
    /\ walk' = "returned"
    /\ files' = <<>>
    /\ i' = 1 /\ j' = 1 /\ k' = 1
    /\ flag' = FALSE
    /\ req_offset' = 0 /\ req_length' = 0
    /\ seq_id' = 1
    /\ Offset_List' = <<>>
    /\ Chunk_List' = <<>>

Call(fs) ==
    /\ files' = fs
    /\ walk' = "file"
    /\ i' = 1
    /\ Chunk_List' = <<>>
    /\ UNCHANGED <<j, k, flag, req_offset, req_length, seq_id, Offset_List>>

BeginFile ==
    /\ walk = "file"
    /\ i <= Len(files)
    /\ walk' = "chunk"
    /\ j' = 1
    /\ seq_id' = 1
    /\ Offset_List' = <<>>
    /\ UNCHANGED <<files, i, k, flag, req_offset, req_length, Chunk_List>>

BeginChunk ==
    /\ walk = "chunk"
    /\ j <= Len(files[i].chunks)
    /\ walk' = "extent"
    /\ k' = 1
    /\ flag' = FALSE
    /\ req_offset' = files[i].chunks[j].Offset
    /\ req_length' = files[i].chunks[j].Length
    /\ UNCHANGED <<files, i, j, seq_id, Offset_List, Chunk_List>>

Extent == Row(files[i].extents[k])

BeginsHere ==
    Extent.byte_offset <= req_offset /\ req_offset < Extent.byte_offset + Extent.size

SkipExtent ==
    /\ ~ flag /\ ~ BeginsHere
    /\ k' = k + 1
    /\ UNCHANGED <<walk, j, flag, req_offset, req_length, seq_id, Offset_List>>

\* An error: the place in the file is taken for the place in the extent.
PieceOffsetInFile == Extent.begin + req_offset

PieceOffset == Extent.begin + req_offset - Extent.byte_offset

Piece(length) ==
    [chunk |-> j, from |-> req_offset,
     seq |-> seq_id, offset |-> PieceOffset, length |-> length]

\* An error: a chunk that ends with the extent is carried on to the next.
ReachesEnd == req_length >= Extent.size

\* The rest of the chunk is longer than the whole extent.
Exceeds == req_length > Extent.size

WholeExtent ==
    /\ flag \/ BeginsHere
    /\ Exceeds
    /\ Offset_List' = Append(Offset_List, Piece(Extent.size))
    /\ req_length' = req_length - Extent.size
    /\ req_offset' = req_offset + Extent.size
    /\ flag' = TRUE
    /\ k' = k + 1
    /\ UNCHANGED <<walk, j, seq_id>>

\* The break of the loop over the extents.
LastPiece ==
    /\ flag \/ BeginsHere
    /\ ~ Exceeds
    /\ Offset_List' = Append(Offset_List, Piece(req_length))
    /\ seq_id' = seq_id + 1
    /\ flag' = TRUE
    /\ walk' = "chunk"
    /\ j' = j + 1
    /\ UNCHANGED <<k, req_offset, req_length>>

WalkExtent ==
    /\ walk = "extent"
    /\ k <= Len(files[i].extents)
    /\ SkipExtent \/ WholeExtent \/ LastPiece
    /\ UNCHANGED <<files, i, Chunk_List>>

\* The extents are at an end before the chunk is: what is left is dropped, and
\* the next chunk gets the same number.
EndOfExtents ==
    /\ walk = "extent"
    /\ k > Len(files[i].extents)
    /\ walk' = "chunk"
    /\ j' = j + 1
    /\ UNCHANGED <<files, i, k, flag, req_offset, req_length, seq_id, Offset_List, Chunk_List>>

EndOfFile ==
    /\ walk = "chunk"
    /\ j > Len(files[i].chunks)
    /\ Chunk_List' = Append(Chunk_List, Offset_List)
    /\ i' = i + 1
    /\ walk' = "file"
    /\ UNCHANGED <<files, j, k, flag, req_offset, req_length, seq_id, Offset_List>>

Return ==
    /\ walk = "file"
    /\ i > Len(files)
    /\ walk' = "returned"
    /\ UNCHANGED <<files, i, j, k, flag, req_offset, req_length, seq_id,
                   Offset_List, Chunk_List>>

my_LBA2PBA ==
    BeginFile \/ BeginChunk \/ WalkExtent \/ EndOfExtents \/ EndOfFile \/ Return

-----------------------------------------------------------------------------
(* What the pieces should be *)

FileSize(f) == IF f.extents = <<>> THEN 0 ELSE EndOf(f.extents[Len(f.extents)])

\* The place on the disk of byte x of the file.
DiskByte(f, x) ==
    LET e == CHOOSE e \in DOMAIN f.extents :
                 f.extents[e].byte_offset <= x /\ x < EndOf(f.extents[e])
    IN  Sector * f.extents[e].begin_LBA + x - f.extents[e].byte_offset

\* No number of the file's map exceeds an int: files below 2 GiB, sectors below 1 TiB.
FitsInt(f) ==
    \A e \in DOMAIN f.extents :
        /\ f.extents[e].byte_offset < IntHalf
        /\ f.extents[e].begin_LBA < IntHalf
        /\ f.extents[e].sectors < IntHalf

\* The chunk begins where an extent begins, or ends in the extent it begins in.
Mappable(f, c) ==
    \E e \in DOMAIN f.extents :
        \/ c.Offset = f.extents[e].byte_offset
        \/ /\ f.extents[e].byte_offset <= c.Offset
           /\ c.Offset + c.Length <= EndOf(f.extents[e])

PiecesOf(list, c) == {p \in DOMAIN list : list[p].chunk = c}

\* The p-th piece begins where the one before ends, or is the first of its chunk.
InPlace(f, list, p) ==
    IF p > 1 /\ list[p - 1].chunk = list[p].chunk
    THEN list[p].from = list[p - 1].from + list[p - 1].length
    ELSE /\ list[p].from = f.chunks[list[p].chunk].Offset
         /\ p > 1 => list[p - 1].chunk < list[p].chunk

(* A chunk that begins at the start of an extent, or that does not leave   *)
(* the extent it begins in, is mapped to the bytes it names, in order, if  *)
(* the numbers of the file's extents fit an int, as atoi reads them.       *)
(* (The comparison with the whole size of the extent, and not with what is *)
(* left of it, spoils the others.)                                         *)
PiecesLocateBytes ==
    \A n \in DOMAIN Chunk_List : FitsInt(files[n]) =>
        LET list == Chunk_List[n]
        IN  \A p \in DOMAIN list : Mappable(files[n], files[n].chunks[list[p].chunk]) =>
                /\ InPlace(files[n], list, p)
                /\ \A x \in 0 .. list[p].length - 1 :
                      list[p].offset + x = DiskByte(files[n], list[p].from + x)

\* The pieces of a chunk lead from its beginning to its end.
Covered(f, list, c) ==
    \E a, b \in DOMAIN list :
       /\ PiecesOf(list, c) = a .. b
       /\ list[a].from = f.chunks[c].Offset
       /\ \A p \in a .. b - 1 : list[p + 1].from = list[p].from + list[p].length
       /\ list[b].from + list[b].length = f.chunks[c].Offset + f.chunks[c].Length

\* The chunks end within the file.
Within(f) == \A c \in DOMAIN f.chunks : f.chunks[c].Offset + f.chunks[c].Length <= FileSize(f)

(* Whatever the place where a chunk begins, if the chunks of a file end    *)
(* within it then the pieces of each add up to it, there is no empty one,  *)
(* and the SEQ ID tells the chunk they belong to.                          *)
PiecesAddUp ==
    \A n \in DOMAIN Chunk_List :
        LET list == Chunk_List[n]
        IN  FitsInt(files[n]) /\ Within(files[n]) =>
                /\ \A c \in DOMAIN files[n].chunks : Covered(files[n], list, c)
                /\ \A p \in DOMAIN list : list[p].length > 0 /\ list[p].seq = list[p].chunk
=============================================================================
