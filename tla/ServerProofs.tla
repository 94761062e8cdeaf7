---------------------------- MODULE ServerProofs ----------------------------
(***************************************************************************)
(* Proofs about the two programs beside the container, which share nothing *)
(* but their place: RocksServer, for any clients, texts, numbers of        *)
(* descriptors and restarts, and HostServer with Lba2Pba, for any tables,  *)
(* requests and starts, and any files whose extents lie one behind the     *)
(* other.                                                                  *)
(*                                                                         *)
(* AnsweredIsStored is about the end of a request; what makes it inductive *)
(* is what each step of a request knows: the branch for a write has 'w' in *)
(* operation, whatever put it there, and between Put and the answer the    *)
(* stored text is the current client's.                                    *)
(*                                                                         *)
(* The properties of Lba2Pba are about finished lists; what makes them     *)
(* inductive is where the walk stands in a chunk: before its first piece,  *)
(* no extent that was passed has its first byte, and behind it the pieces  *)
(* lead up to req_offset, and req_length has lost whole extents only.      *)
(***************************************************************************)
EXTENDS HostServer, RocksServer, SequenceTheorems, TLAPS

(* RocksServer *)

\* Where a request is under way.
InRequest == {"operation", "message", "open", "put", "delete", "get", "send"}

ServesSomebody == pc \in InRequest => served # <<>>

\* The two branches of main keep what was read in operation.
BranchTaken ==
    /\ pc \in {"message", "open", "put", "delete"} => operation = "w"
    /\ pc = "get" => operation = "r"

\* After Put, the stored text is that of the client that is served.
WriteIsStored ==
    pc = "delete" \/ (pc = "send" /\ operation = "w") => stored.writer = client

\* Only a read leaves the database locked behind it, until the program ends.
LockedByRead == locked => pc \in {"put", "delete", "down"} \/ read_in_run

RocksInv ==
    /\ TypeOK
    /\ ServesSomebody
    /\ BranchTaken
    /\ WriteIsStored
    /\ LockedByRead
    /\ AnsweredIsStored

-----------------------------------------------------------------------------
(* The client that is served is the last one accepted. *)
LEMMA ClientType ==
  ASSUME TypeOK
  PROVE  /\ client \in Nat
         /\ DOMAIN served = 1 .. client
         /\ served # <<>> => client \in 1 .. client /\ served[client] \in Clients
         /\ stored.writer \in 0 .. client
         /\ stored.length \in 0 .. MessageSize
<1>1. served \in Seq(Clients) /\ client \in Nat /\ DOMAIN served = 1 .. client
  BY LenProperties DEF TypeOK, client
<1>2. served # <<>> => client \in 1 .. client
  BY <1>1, EmptySeq DEF client
<1>3. served # <<>> => served[client] \in Clients
  BY <1>1, <1>2, ElementOfSeq DEF client
<1> QED BY <1>1, <1>2, <1>3 DEF TypeOK, client

LEMMA InitRocksInv == Init => RocksInv
<1> SUFFICES ASSUME Init PROVE RocksInv
  OBVIOUS
<1> USE ClientsAssumption DEF Init, Nothing
<1>1. <<>> \in Seq(Clients) /\ Len(<<>>) = 0
  BY EmptySeq
<1>2. stored \in [writer : 0 .. Len(served), length : 0 .. MessageSize]
  BY <1>1
<1>3. served \in Seq(Clients) /\ answered \subseteq DOMAIN served
  BY <1>1
<1>4. runs \in 0 .. MaxRuns /\ sockets \in 0 .. MaxFds /\ str_len \in 0 .. MessageSize
  OBVIOUS
<1>5. TypeOK
  BY <1>2, <1>3, <1>4 DEF TypeOK
<1> QED BY <1>5 DEF RocksInv, ServesSomebody, BranchTaken, WriteIsStored, LockedByRead,
                    AnsweredIsStored, InRequest

(* The program is started or ended: what is stored stays. *)
LEMMA ProcessRocksInv == ASSUME RocksInv, Start \/ Kill PROVE RocksInv'
<1> USE ClientsAssumption
        DEF RocksInv, TypeOK, ServesSomebody, BranchTaken, WriteIsStored, LockedByRead,
            AnsweredIsStored, InRequest, client
<1>1. CASE Start
  <2>1. runs' \in 0 .. MaxRuns /\ sockets' \in 0 .. MaxFds
    BY <1>1 DEF Start
  <2>2. TypeOK'
    BY <1>1, <2>1 DEF Start
  <2> QED BY <1>1, <2>2 DEF Start
<1>2. CASE Kill
  BY <1>2 DEF Kill
<1> QED BY <1>1, <1>2

(* A client is accepted: it comes behind those that were answered. *)
LEMMA AcceptRocksInv == ASSUME RocksInv, NEW c \in Clients, Accept(c) PROVE RocksInv'
<1> USE DEF Accept
<1>1. /\ client \in Nat /\ DOMAIN served = 1 .. client
      /\ stored.writer \in 0 .. client /\ stored.length \in 0 .. MessageSize
  BY ClientType DEF RocksInv
<1>2. /\ served' \in Seq(Clients) /\ served' # <<>> /\ Len(served') = client + 1
      /\ DOMAIN served' = 1 .. client + 1
  BY AppendProperties, LenProperties DEF RocksInv, TypeOK, client
<1>3. sockets' \in 0 .. MaxFds /\ pc' \in {"operation", "down"}
  BY ClientsAssumption DEF RocksInv, TypeOK
<1>4. TypeOK'
  BY <1>1, <1>2, <1>3 DEF RocksInv, TypeOK
<1>5. ServesSomebody' /\ BranchTaken' /\ WriteIsStored'
  BY <1>2, <1>3 DEF ServesSomebody, BranchTaken, WriteIsStored
<1>6. LockedByRead' /\ AnsweredIsStored'
  BY DEF RocksInv, LockedByRead, AnsweredIsStored
<1> QED BY <1>4, <1>5, <1>6 DEF RocksInv

(* The operation is read, or what the stack held is taken for it. *)
LEMMA ReadOperationRocksInv == ASSUME RocksInv, ReadOperation PROVE RocksInv'
<1> USE DEF ReadOperation
<1>1. served # <<>> /\ served[client] \in Clients
  BY ClientType DEF RocksInv, ServesSomebody, InRequest
<1>2. Wants[served[client]] \in {"w", "r"}
  BY <1>1, ClientsAssumption
<1>3. operation' \in {"w", "r", "?"}
  BY <1>2 DEF RocksInv, TypeOK
<1>4. /\ pc' \in {"message", "get", "accept", "down"}
      /\ pc' = "message" => operation' = "w"
      /\ pc' = "get" => operation' = "r"
  BY <1>3 DEF Branch
<1>5. TypeOK'
  BY <1>3, <1>4 DEF RocksInv, TypeOK
<1> QED BY <1>1, <1>4, <1>5 DEF RocksInv, ServesSomebody, BranchTaken, WriteIsStored, LockedByRead,
                                AnsweredIsStored, InRequest

LEMMA ReadMessageRocksInv == ASSUME RocksInv, ReadMessage PROVE RocksInv'
  BY DEF ReadMessage, RocksInv, TypeOK, ServesSomebody, BranchTaken, WriteIsStored, LockedByRead,
         AnsweredIsStored, InRequest, client

(* The database is opened, or an assertion ends the program. *)
LEMMA OpenRocksInv == ASSUME RocksInv, OpenToPut \/ OpenToGet PROVE RocksInv'
<1> USE DEF AssertFails, RocksInv, TypeOK, ServesSomebody, BranchTaken, WriteIsStored, LockedByRead,
            AnsweredIsStored, InRequest, client
<1>1. CASE OpenToPut
  BY <1>1 DEF OpenToPut
<1>2. CASE OpenToGet
  BY <1>2 DEF OpenToGet
<1> QED BY <1>1, <1>2

(* A text is stored over the one before: its writer came later. *)
LEMMA PutRocksInv == ASSUME RocksInv, Put PROVE RocksInv'
<1> USE DEF Put
<1>1. /\ client \in Nat /\ DOMAIN served = 1 .. client /\ client' = client
      /\ stored'.writer = client /\ stored'.length = str_len
  BY ClientType DEF RocksInv, client
<1>2. TypeOK'
  BY <1>1 DEF RocksInv, TypeOK, client
<1>3. AnsweredIsStored'
  BY <1>1 DEF RocksInv, TypeOK, AnsweredIsStored
<1>4. WriteIsStored'
  BY <1>1 DEF WriteIsStored
<1> QED BY <1>2, <1>3, <1>4 DEF RocksInv, ServesSomebody, BranchTaken, LockedByRead, InRequest

LEMMA FlushAndCloseRocksInv == ASSUME RocksInv, FlushAndClose PROVE RocksInv'
  BY DEF FlushAndClose, DeleteHandle, RocksInv, TypeOK, ServesSomebody, BranchTaken, WriteIsStored,
         LockedByRead, AnsweredIsStored, InRequest, client

(* The answer: who gets it for a write has its text in the database. *)
LEMMA SendRocksInv == ASSUME RocksInv, Send PROVE RocksInv'
<1> USE DEF Send
<1>1. /\ client \in Nat /\ client' = client /\ DOMAIN served = 1 .. client
      /\ client \in DOMAIN served
  BY ClientType DEF RocksInv, ServesSomebody, InRequest, client
<1>2. answered' \subseteq answered \cup {client}
  OBVIOUS
<1>3. TypeOK'
  BY <1>1, <1>2 DEF RocksInv, TypeOK
<1>4. AnsweredIsStored'
  BY <1>1 DEF RocksInv, WriteIsStored, AnsweredIsStored
<1> QED BY <1>3, <1>4 DEF RocksInv, ServesSomebody, BranchTaken, WriteIsStored, LockedByRead,
                          InRequest

-----------------------------------------------------------------------------
LEMMA NextRocksInv == RocksInv /\ [Next]_vars => RocksInv'
<1> SUFFICES ASSUME RocksInv, [Next]_vars PROVE RocksInv'
  OBVIOUS
<1>1. CASE UNCHANGED vars
  BY <1>1 DEF vars, RocksInv, TypeOK, ServesSomebody, BranchTaken, WriteIsStored, LockedByRead,
              AnsweredIsStored, client
<1>2. CASE Next
  BY <1>2, ProcessRocksInv, AcceptRocksInv, ReadOperationRocksInv, ReadMessageRocksInv,
     OpenRocksInv, PutRocksInv, FlushAndCloseRocksInv, SendRocksInv DEF Next
<1> QED BY <1>1, <1>2

LEMMA InductiveInvariant == Spec => []RocksInv
  BY InitRocksInv, NextRocksInv, PTL DEF Spec

(* The state of the program keeps its type over any number of restarts. *)
THEOREM RocksTypeCorrect == Spec => []TypeOK
  BY InductiveInvariant, PTL DEF RocksInv

(* What was answered is stored, or a later client's text is: whatever fails *)
(* afterwards and however often the program is started again.               *)
THEOREM StoredCorrect == Spec => []AnsweredIsStored
  BY InductiveInvariant, PTL DEF RocksInv

(* No write leaves the database locked: an open fails only after a read in  *)
(* this run, or for want of a descriptor.                                   *)
THEOREM OpenCorrect == Spec => []OpenFailsOnlyAfterRead
<1>1. RocksInv => OpenFailsOnlyAfterRead
  BY ClientsAssumption DEF RocksInv, TypeOK, LockedByRead, OpenFailsOnlyAfterRead, CanOpen
<1> QED BY <1>1, InductiveInvariant, PTL
-----------------------------------------------------------------------------
(* Where the chunks of a file are mapped to: the inductive invariant of the *)
(* walk over the extents.                                                   *)

Pieces == [chunk : Nat, from : Int, seq : Int, offset : Int, length : Int]

\* Where an extent begins; behind the last one, where the file ends.
Place(f, e) == IF e <= Len(f.extents) THEN f.extents[e].byte_offset ELSE FileSize(f)

Located(f, list, p) ==
    Mappable(f, f.chunks[list[p].chunk]) =>
       /\ InPlace(f, list, p)
       /\ \A x \in 0 .. list[p].length - 1 :
             list[p].offset + x = DiskByte(f, list[p].from + x)

Counted(list, p) == list[p].length > 0 /\ list[p].seq = list[p].chunk

\* The list has pieces of the first m chunks, and all pieces of the first n.
Mapped(f, list, m, n) ==
    /\ \A p \in 1 .. Len(list) : list[p].chunk \in 1 .. m
    /\ FitsInt(f) => \A p \in 1 .. Len(list) : Located(f, list, p)
    /\ FitsInt(f) /\ Within(f) =>
          /\ \A c \in 1 .. n : Covered(f, list, c)
          /\ \A p \in 1 .. Len(list) : Counted(list, p)

TypesOK ==
    /\ walk \in {"returned", "file", "chunk", "extent"}
    /\ files \in Seq(MappedFile)
    /\ i \in Nat \ {0} /\ j \in Nat \ {0} /\ k \in Nat \ {0}
    /\ flag \in BOOLEAN
    /\ req_offset \in Int /\ req_length \in Int /\ seq_id \in Nat
    /\ Offset_List \in Seq(Pieces)
    /\ Chunk_List \in Seq(Seq(Pieces))

AtWalk ==
    /\ Len(Chunk_List) <= Len(files)
    /\ walk # "returned" => Len(Chunk_List) = i - 1
    /\ walk \in {"chunk", "extent"} => i <= Len(files) /\ j <= Len(files[i].chunks) + 1
    /\ walk = "extent" => j <= Len(files[i].chunks) /\ k <= Len(files[i].extents) + 1

\* The lists that are finished have all chunks of their files.
ListsOK ==
    \A n \in 1 .. Len(Chunk_List) :
       Mapped(files[n], Chunk_List[n], Len(files[n].chunks), Len(files[n].chunks))

ListOK ==
    walk \in {"chunk", "extent"} =>
       /\ Mapped(files[i], Offset_List, IF walk = "extent" /\ flag THEN j ELSE j - 1, j - 1)
       /\ FitsInt(files[i]) /\ Within(files[i]) => seq_id = j

\* The pieces of the c-th chunk lead from its beginning to the byte at x.
LeadTo(f, list, c, x) ==
    \E a \in 1 .. Len(list) :
       /\ PiecesOf(list, c) = a .. Len(list)
       /\ list[a].from = f.chunks[c].Offset
       /\ \A p \in a .. Len(list) - 1 : list[p + 1].from = list[p].from + list[p].length
       /\ list[Len(list)].from + list[Len(list)].length = x

\* What is left of the chunk in work: before its first piece, it does not begin in
\* an extent that was passed; behind it, what was taken from req_length are whole
\* extents, even if the chunk did not begin with one.
ChunkOK ==
    walk = "extent" =>
       LET f == files[i]
           c == files[i].chunks[j]
       IN  /\ req_length > 0
           /\ req_offset + req_length = c.Offset + c.Length
           /\ ~ flag => req_offset = c.Offset
           /\ flag => LeadTo(f, Offset_List, j, req_offset)
           /\ FitsInt(f) /\ ~ flag => Place(f, k) <= req_offset
           /\ FitsInt(f) /\ flag =>
                 /\ c.Offset + c.Length <= FileSize(f) => req_length <= FileSize(f) - Place(f, k)
                 /\ Mappable(f, c) /\ k <= Len(f.extents) => req_offset = Place(f, k)

LbaInv == TypesOK /\ AtWalk /\ ListsOK /\ ListOK /\ ChunkOK
-----------------------------------------------------------------------------
(* A file of the request: its extents have a length and lie one behind the  *)
(* other, its chunks have a length.                                         *)
LEMMA FileFacts ==
  ASSUME NEW f \in MappedFile
  PROVE  /\ f.extents \in Seq(Extents) /\ Len(f.extents) \in Nat
         /\ f.chunks \in Seq(Chunks) /\ Len(f.chunks) \in Nat
         /\ DOMAIN f.extents = 1 .. Len(f.extents) /\ DOMAIN f.chunks = 1 .. Len(f.chunks)
         /\ \A c \in 1 .. Len(f.chunks) :
               f.chunks[c].Offset \in Nat /\ f.chunks[c].Length \in Nat \ {0}
         /\ \A e \in 1 .. Len(f.extents) :
               /\ f.extents[e].byte_offset \in Nat /\ f.extents[e].begin_LBA \in Nat
               /\ f.extents[e].sectors \in Nat
               /\ Sector * f.extents[e].sectors \in Nat \ {0}
               /\ Sector * f.extents[e].begin_LBA \in Nat
               /\ EndOf(f.extents[e]) = f.extents[e].byte_offset + Sector * f.extents[e].sectors
               /\ EndOf(f.extents[e]) \in Nat
<1>1. /\ f.extents \in Seq(Extents) /\ f.chunks \in Seq(Chunks)
  BY DEF MappedFile, File
<1>2. /\ Len(f.extents) \in Nat /\ Len(f.chunks) \in Nat
      /\ DOMAIN f.extents = 1 .. Len(f.extents) /\ DOMAIN f.chunks = 1 .. Len(f.chunks)
  BY <1>1, LenProperties
<1>3. ASSUME NEW c \in 1 .. Len(f.chunks)
      PROVE  f.chunks[c].Offset \in Nat /\ f.chunks[c].Length \in Nat \ {0}
  <2>1. f.chunks[c] \in Chunks
    BY <1>1, ElementOfSeq
  <2> QED BY <2>1, NumbersAssumption DEF Chunks
<1>4. ASSUME NEW e \in 1 .. Len(f.extents)
      PROVE  /\ f.extents[e].byte_offset \in Nat /\ f.extents[e].begin_LBA \in Nat
             /\ f.extents[e].sectors \in Nat
             /\ Sector * f.extents[e].sectors \in Nat \ {0}
             /\ Sector * f.extents[e].begin_LBA \in Nat
             /\ EndOf(f.extents[e]) = f.extents[e].byte_offset + Sector * f.extents[e].sectors
             /\ EndOf(f.extents[e]) \in Nat
  <2>1. f.extents[e] \in Extents
    BY <1>1, ElementOfSeq
  <2>2. /\ f.extents[e].byte_offset \in Nat /\ f.extents[e].begin_LBA \in Nat
        /\ f.extents[e].sectors \in Nat \ {0}
    BY <2>1 DEF Extents
  <2>3. \A m, n \in Nat : m * n \in Nat
    OBVIOUS
  <2>4. \A m, n \in Nat \ {0} : m * n # 0
    OBVIOUS
  <2>5. Sector \in Nat \ {0}
    BY NumbersAssumption
  <2>6. Sector * f.extents[e].sectors \in Nat \ {0} /\ Sector * f.extents[e].begin_LBA \in Nat
    BY <2>2, <2>3, <2>4, <2>5
  <2>7. \A m, n \in Nat : m + n \in Nat
    OBVIOUS
  <2>8. f.extents[e].byte_offset + Sector * f.extents[e].sectors \in Nat
    BY <2>2, <2>6, <2>7
  <2> QED BY <2>2, <2>6, <2>8 DEF EndOf
<1> QED BY <1>1, <1>2, <1>3, <1>4

(* The places of the extents: the next one begins where this one ends, and  *)
(* no byte is in two of them.                                               *)
LEMMA PlaceFacts ==
  ASSUME NEW f \in MappedFile
  PROVE  /\ Place(f, 1) = 0
         /\ FileSize(f) \in Nat
         /\ Place(f, Len(f.extents) + 1) = FileSize(f)
         /\ \A e \in 1 .. Len(f.extents) :
               /\ Place(f, e) = f.extents[e].byte_offset /\ Place(f, e) \in Nat
               /\ Place(f, e + 1) = EndOf(f.extents[e])
         /\ \A e, d \in 1 .. Len(f.extents), y \in Int :
               /\ f.extents[e].byte_offset <= y /\ y < EndOf(f.extents[e])
               /\ f.extents[d].byte_offset <= y /\ y < EndOf(f.extents[d])
               => e = d
<1>1. /\ Len(f.extents) \in Nat /\ f.extents \in Seq(Extents)
      /\ \A e \in 1 .. Len(f.extents) :
            /\ f.extents[e].byte_offset \in Nat
            /\ Sector * f.extents[e].sectors \in Nat \ {0}
            /\ EndOf(f.extents[e]) = f.extents[e].byte_offset + Sector * f.extents[e].sectors
            /\ EndOf(f.extents[e]) \in Nat
  BY FileFacts
<1>2. Contiguous(f.extents)
  BY DEF MappedFile
<1>3. f.extents = <<>> <=> Len(f.extents) = 0
  BY <1>1, EmptySeq
<1>4. Place(f, 1) = 0
  <2>1. CASE Len(f.extents) = 0
    BY <1>3, <2>1 DEF Place, FileSize
  <2>2. CASE Len(f.extents) # 0
    <3>1. 1 \in 1 .. Len(f.extents)
      BY <1>1, <2>2
    <3> QED BY <1>2, <3>1 DEF Contiguous, Place
  <2> QED BY <2>1, <2>2
<1>5. FileSize(f) \in Nat /\ Place(f, Len(f.extents) + 1) = FileSize(f)
  <2>1. CASE Len(f.extents) = 0
    BY <1>3, <2>1 DEF Place, FileSize
  <2>2. CASE Len(f.extents) # 0
    <3>1. Len(f.extents) \in 1 .. Len(f.extents) /\ ~ (Len(f.extents) + 1 <= Len(f.extents))
      BY <1>1, <2>2
    <3>2. EndOf(f.extents[Len(f.extents)]) \in Nat
      BY <1>1, <3>1
    <3> QED BY <1>3, <2>2, <3>1, <3>2 DEF Place, FileSize
  <2> QED BY <2>1, <2>2
<1>6. ASSUME NEW e \in 1 .. Len(f.extents)
      PROVE  /\ Place(f, e) = f.extents[e].byte_offset /\ Place(f, e) \in Nat
             /\ Place(f, e + 1) = EndOf(f.extents[e])
  <2>1. Place(f, e) = f.extents[e].byte_offset
    BY <1>1 DEF Place
  <2>2. CASE e = Len(f.extents)
    <3>1. f.extents # <<>> /\ Place(f, e + 1) = FileSize(f)
      BY <1>1, <1>3, <1>5, <2>2
    <3> QED BY <1>1, <2>1, <2>2, <3>1 DEF FileSize
  <2>3. CASE e # Len(f.extents)
    <3>1. e + 1 \in 1 .. Len(f.extents)
      BY <1>1, <2>3
    <3> QED BY <1>1, <1>2, <2>1, <3>1 DEF Contiguous, Place
  <2> QED BY <2>2, <2>3
<1>7. ASSUME NEW e \in 1 .. Len(f.extents), NEW d \in 1 .. Len(f.extents), NEW y \in Int,
             f.extents[e].byte_offset <= y, y < EndOf(f.extents[e]),
             f.extents[d].byte_offset <= y, y < EndOf(f.extents[d])
      PROVE  e = d
  <2>1. /\ e < d => EndOf(f.extents[e]) <= f.extents[d].byte_offset
        /\ d < e => EndOf(f.extents[d]) <= f.extents[e].byte_offset
    BY <1>2 DEF Contiguous
  <2>2. ASSUME NEW x \in 1 .. Len(f.extents)
        PROVE  EndOf(f.extents[x]) \in Nat /\ f.extents[x].byte_offset \in Nat
    BY <1>1
  <2> QED BY <1>7, <2>1, <2>2
<1> QED BY <1>4, <1>5, <1>6, <1>7

(* A byte of a file is in one extent. *)
LEMMA OneExtent ==
  ASSUME NEW f \in MappedFile, NEW y \in Int,
         NEW e \in 1 .. Len(f.extents), NEW d \in 1 .. Len(f.extents),
         f.extents[e].byte_offset <= y, y < EndOf(f.extents[e]),
         f.extents[d].byte_offset <= y, y < EndOf(f.extents[d])
  PROVE  d = e
BY PlaceFacts, Zenon

(* The byte y of a file is in its extent e. *)
LEMMA ByteInExtent ==
  ASSUME NEW f \in MappedFile, NEW e \in 1 .. Len(f.extents), NEW y \in Int,
         f.extents[e].byte_offset <= y, y < EndOf(f.extents[e])
  PROVE  DiskByte(f, y) = Sector * f.extents[e].begin_LBA + y - f.extents[e].byte_offset
<1> DEFINE In(d) == f.extents[d].byte_offset <= y /\ y < EndOf(f.extents[d])
<1>1. DOMAIN f.extents = 1 .. Len(f.extents)
  BY FileFacts
<1>2. \A d \in DOMAIN f.extents : In(d) => d = e
  BY <1>1, OneExtent
<1>3. (CHOOSE d \in DOMAIN f.extents : In(d)) = e
  BY <1>1, <1>2
<1> QED BY <1>3 DEF DiskByte

(* The numbers of a map that fit are those that are computed with. *)
LEMMA RowFits ==
  ASSUME NEW f \in MappedFile, FitsInt(f), NEW e \in 1 .. Len(f.extents)
  PROVE  /\ Row(f.extents[e]).byte_offset = f.extents[e].byte_offset
         /\ Row(f.extents[e]).begin = Sector * f.extents[e].begin_LBA
         /\ Row(f.extents[e]).size = Sector * f.extents[e].sectors
<1>1. IntHalf \in Nat \ {0}
  BY NumbersAssumption
<1>2. ASSUME NEW n \in Nat, n < IntHalf PROVE atoi(n) = n
  <2>1. n + IntHalf \in 0 .. 2 * IntHalf - 1 /\ 2 * IntHalf \in Nat \ {0}
    BY <1>1, <1>2
  <2>2. (n + IntHalf) % (2 * IntHalf) = n + IntHalf
    BY <2>1
  <2> QED BY <1>1, <2>2 DEF atoi
<1>3. /\ f.extents[e].byte_offset \in Nat /\ f.extents[e].byte_offset < IntHalf
      /\ f.extents[e].begin_LBA \in Nat /\ f.extents[e].begin_LBA < IntHalf
      /\ f.extents[e].sectors \in Nat /\ f.extents[e].sectors < IntHalf
  BY FileFacts DEF FitsInt
<1> QED BY <1>2, <1>3 DEF Row

LEMMA RowType ==
  ASSUME NEW f \in MappedFile, NEW e \in 1 .. Len(f.extents)
  PROVE  /\ Row(f.extents[e]).byte_offset \in Int
         /\ Row(f.extents[e]).begin \in Int
         /\ Row(f.extents[e]).size \in Int
<1>1. IntHalf \in Nat \ {0} /\ Sector \in Int
  BY NumbersAssumption
<1>2. ASSUME NEW n \in Nat PROVE atoi(n) \in Int
  <2>1. n + IntHalf \in Int /\ 2 * IntHalf \in Nat \ {0}
    BY <1>1
  <2>2. (n + IntHalf) % (2 * IntHalf) \in Int
    BY <2>1
  <2> QED BY <1>1, <2>2 DEF atoi
<1>3. \A m, n \in Int : m * n \in Int
  OBVIOUS
<1>4. /\ f.extents[e].byte_offset \in Nat /\ f.extents[e].begin_LBA \in Nat
      /\ f.extents[e].sectors \in Nat
  BY FileFacts
<1> QED BY <1>1, <1>2, <1>3, <1>4 DEF Row
-----------------------------------------------------------------------------
(* A piece is appended to the list. *)
LEMMA AppendFacts ==
  ASSUME NEW T, NEW list \in Seq(T), NEW x \in T
  PROVE  /\ Append(list, x) \in Seq(T)
         /\ Len(list) \in Nat /\ DOMAIN list = 1 .. Len(list)
         /\ Len(Append(list, x)) = Len(list) + 1
         /\ DOMAIN Append(list, x) = 1 .. Len(list) + 1
         /\ Append(list, x)[Len(list) + 1] = x
         /\ \A p \in 1 .. Len(list) : Append(list, x)[p] = list[p]
BY AppendProperties, LenProperties

(* What is said of the pieces before it does not change. *)
LEMMA PiecesKept ==
  ASSUME NEW f, NEW list \in Seq(Pieces), NEW x \in Pieces
  PROVE  /\ \A p \in 1 .. Len(list) : Located(f, list, p) => Located(f, Append(list, x), p)
         /\ \A p \in 1 .. Len(list) : Counted(list, p) => Counted(Append(list, x), p)
         /\ \A c : c # x.chunk => PiecesOf(Append(list, x), c) = PiecesOf(list, c)
         /\ \A c : c # x.chunk /\ Covered(f, list, c) => Covered(f, Append(list, x), c)
<1> DEFINE new == Append(list, x)
<1>1. /\ Len(list) \in Nat /\ DOMAIN list = 1 .. Len(list) /\ DOMAIN new = 1 .. Len(list) + 1
      /\ new[Len(list) + 1] = x
      /\ \A p \in 1 .. Len(list) : new[p] = list[p]
  BY AppendFacts
<1> HIDE DEF new
<1>2. ASSUME NEW p \in 1 .. Len(list)
      PROVE  /\ Located(f, list, p) => Located(f, new, p)
             /\ Counted(list, p) => Counted(new, p)
  <2>1. new[p] = list[p] /\ (p > 1 => new[p - 1] = list[p - 1])
    BY <1>1
  <2>2. InPlace(f, list, p) => InPlace(f, new, p)
    BY <2>1 DEF InPlace
  <2> QED BY <2>1, <2>2 DEF Located, Counted
<1>3. ASSUME NEW c, c # x.chunk PROVE PiecesOf(new, c) = PiecesOf(list, c)
  BY <1>1, <1>3 DEF PiecesOf
<1>4. ASSUME NEW c, c # x.chunk, Covered(f, list, c) PROVE Covered(f, new, c)
  <2>1. PICK a \in DOMAIN list, b \in DOMAIN list :
           /\ PiecesOf(list, c) = a .. b
           /\ list[a].from = f.chunks[c].Offset
           /\ \A p \in a .. b - 1 : list[p + 1].from = list[p].from + list[p].length
           /\ list[b].from + list[b].length = f.chunks[c].Offset + f.chunks[c].Length
    BY <1>4 DEF Covered
  <2>2. a \in DOMAIN new /\ b \in DOMAIN new /\ new[a] = list[a] /\ new[b] = list[b]
    BY <1>1
  <2>3. \A p \in a .. b - 1 : new[p + 1] = list[p + 1] /\ new[p] = list[p]
    BY <1>1
  <2>4. PiecesOf(new, c) = a .. b
    BY <1>3, <1>4, <2>1
  <2> QED BY <2>1, <2>2, <2>3, <2>4 DEF Covered
<1> QED BY <1>2, <1>3, <1>4 DEF new

LEMMA MappedAppend ==
  ASSUME NEW f, NEW list \in Seq(Pieces), NEW x \in Pieces, NEW m \in Nat, NEW n \in Nat,
         NEW m2 \in Nat, Mapped(f, list, m, n), m <= m2, n < x.chunk, x.chunk <= m2,
         FitsInt(f) => Located(f, Append(list, x), Len(list) + 1),
         FitsInt(f) /\ Within(f) => Counted(Append(list, x), Len(list) + 1)
  PROVE  Mapped(f, Append(list, x), m2, n)
<1> DEFINE new == Append(list, x)
<1>1. /\ Len(list) \in Nat /\ Len(new) = Len(list) + 1
      /\ new[Len(list) + 1] = x
      /\ \A p \in 1 .. Len(list) : new[p] = list[p]
  BY AppendFacts
<1>2. /\ \A p \in 1 .. Len(list) : Located(f, list, p) => Located(f, new, p)
      /\ \A p \in 1 .. Len(list) : Counted(list, p) => Counted(new, p)
      /\ \A c : c # x.chunk /\ Covered(f, list, c) => Covered(f, new, c)
  BY PiecesKept
<1>3. FitsInt(f) => Located(f, new, Len(list) + 1)
  OBVIOUS
<1>4. FitsInt(f) /\ Within(f) => Counted(new, Len(list) + 1)
  OBVIOUS
<1> HIDE DEF new
<1>5. \A p \in 1 .. Len(new) : p \in 1 .. Len(list) \/ p = Len(list) + 1
  BY <1>1
<1>6. ASSUME NEW p \in 1 .. Len(new) PROVE new[p].chunk \in 1 .. m2
  <2>1. CASE p \in 1 .. Len(list)
    <3>1. new[p].chunk \in 1 .. m
      BY <1>1, <2>1 DEF Mapped
    <3> QED BY <3>1
  <2>2. CASE p = Len(list) + 1
    <3>1. x.chunk \in Nat
      BY DEF Pieces
    <3> QED BY <1>1, <2>2, <3>1
  <2> QED BY <1>5, <2>1, <2>2
<1>7. FitsInt(f) => \A p \in 1 .. Len(new) : Located(f, new, p)
  BY <1>2, <1>3, <1>5 DEF Mapped
<1>8. ASSUME FitsInt(f), Within(f)
      PROVE  /\ \A c \in 1 .. n : Covered(f, new, c)
             /\ \A p \in 1 .. Len(new) : Counted(new, p)
  <2>1. \A c \in 1 .. n : c # x.chunk
    BY DEF Pieces
  <2> QED BY <1>2, <1>4, <1>5, <1>8, <2>1 DEF Mapped
<1>9. Mapped(f, new, m2, n)
  BY <1>6, <1>7, <1>8 DEF Mapped
<1> QED BY <1>9 DEF new

LEMMA MappedNext ==
  ASSUME NEW f, NEW list, NEW m, NEW n \in Nat, Mapped(f, list, m, n),
         FitsInt(f) /\ Within(f) => Covered(f, list, n + 1)
  PROVE  Mapped(f, list, m, n + 1)
<1>1. \A c \in 1 .. n + 1 : c \in 1 .. n \/ c = n + 1
  OBVIOUS
<1> QED BY <1>1 DEF Mapped

(* The pieces of a chunk lead on. *)
LEMMA LeadToFirst ==
  ASSUME NEW f, NEW list \in Seq(Pieces), NEW x \in Pieces,
         \A p \in 1 .. Len(list) : list[p].chunk # x.chunk,
         x.from = f.chunks[x.chunk].Offset
  PROVE  LeadTo(f, Append(list, x), x.chunk, x.from + x.length)
<1> DEFINE new == Append(list, x)
           a == Len(list) + 1
<1>1. /\ Len(list) \in Nat /\ Len(new) = a /\ DOMAIN new = 1 .. a /\ new[a] = x
      /\ \A p \in 1 .. Len(list) : new[p] = list[p]
  BY AppendFacts
<1> HIDE DEF new
<1>2. PiecesOf(new, x.chunk) = a .. a
  <2>1. \A p \in 1 .. a : p \in 1 .. Len(list) \/ p = a
    BY <1>1
  <2>2. \A p \in DOMAIN new : new[p].chunk = x.chunk <=> p = a
    BY <1>1, <2>1
  <2>3. \A p : p \in a .. a <=> p = a
    BY <1>1
  <2>4. a \in DOMAIN new
    BY <1>1
  <2>5. \A p : p \in PiecesOf(new, x.chunk) <=> p = a
    BY <2>2, <2>4 DEF PiecesOf
  <2> QED BY <2>3, <2>5
<1>3. a \in 1 .. Len(new) /\ a .. Len(new) - 1 = {}
  BY <1>1
<1>4. LeadTo(f, new, x.chunk, x.from + x.length)
  BY <1>1, <1>2, <1>3 DEF LeadTo
<1> QED BY <1>4 DEF new

LEMMA LeadToNext ==
  ASSUME NEW f, NEW list \in Seq(Pieces), NEW x \in Pieces,
         LeadTo(f, list, x.chunk, x.from)
  PROVE  LeadTo(f, Append(list, x), x.chunk, x.from + x.length)
<1> DEFINE new == Append(list, x)
           b == Len(list) + 1
<1>1. /\ Len(list) \in Nat /\ Len(new) = b /\ DOMAIN new = 1 .. b /\ new[b] = x
      /\ DOMAIN list = 1 .. Len(list)
      /\ \A p \in 1 .. Len(list) : new[p] = list[p]
  BY AppendFacts
<1>2. PICK a \in 1 .. Len(list) :
         /\ PiecesOf(list, x.chunk) = a .. Len(list)
         /\ list[a].from = f.chunks[x.chunk].Offset
         /\ \A p \in a .. Len(list) - 1 : list[p + 1].from = list[p].from + list[p].length
         /\ list[Len(list)].from + list[Len(list)].length = x.from
  BY DEF LeadTo
<1> HIDE DEF new
<1>3. PiecesOf(new, x.chunk) = a .. b
  <2>1. \A p : p \in a .. b <=> p \in a .. Len(list) \/ p = b
    BY <1>1
  <2>2. \A p : p \in 1 .. b <=> p \in 1 .. Len(list) \/ p = b
    BY <1>1
  <2>3. \A p : p \in PiecesOf(new, x.chunk) <=> p \in PiecesOf(list, x.chunk) \/ p = b
    BY <1>1, <2>2 DEF PiecesOf
  <2> QED BY <1>2, <2>1, <2>3
<1>4. ASSUME NEW p \in a .. b - 1 PROVE new[p + 1].from = new[p].from + new[p].length
  <2>1. CASE p = Len(list)
    BY <1>1, <1>2, <2>1
  <2>2. CASE p # Len(list)
    <3>1. a \in 1 .. Len(list) /\ p \in a .. Len(list) /\ p # Len(list)
      <4>1. b - 1 = Len(list)
        BY <1>1
      <4> QED BY <2>2, <4>1
    <3>2. \A n \in Nat : \A e \in 1 .. n : \A q \in e .. n :
             q # n => q \in e .. n - 1 /\ q \in 1 .. n /\ q + 1 \in 1 .. n
      OBVIOUS
    <3>3. p \in a .. Len(list) - 1 /\ p \in 1 .. Len(list) /\ p + 1 \in 1 .. Len(list)
      <4>1. Len(list) \in Nat
        BY <1>1
      <4> QED BY <3>1, <3>2, <4>1
    <3> QED BY <1>1, <1>2, <3>3
  <2> QED BY <2>1, <2>2
<1>5. a \in 1 .. Len(new) /\ new[a] = list[a]
  BY <1>1
<1>6. LeadTo(f, new, x.chunk, x.from + x.length)
  BY <1>1, <1>2, <1>3, <1>4, <1>5 DEF LeadTo
<1> QED BY <1>6 DEF new

LEMMA LeadToEnd ==
  ASSUME NEW f, NEW list \in Seq(Pieces), NEW c,
         LeadTo(f, list, c, f.chunks[c].Offset + f.chunks[c].Length)
  PROVE  Covered(f, list, c)
<1>1. DOMAIN list = 1 .. Len(list) /\ Len(list) \in Nat
  BY LenProperties
<1>2. PICK a \in 1 .. Len(list) :
         /\ PiecesOf(list, c) = a .. Len(list)
         /\ list[a].from = f.chunks[c].Offset
         /\ \A p \in a .. Len(list) - 1 : list[p + 1].from = list[p].from + list[p].length
         /\ list[Len(list)].from + list[Len(list)].length
              = f.chunks[c].Offset + f.chunks[c].Length
  BY DEF LeadTo
<1>3. Len(list) \in DOMAIN list /\ a \in DOMAIN list
  BY <1>1
<1> QED BY <1>2, <1>3 DEF Covered

(* A piece is in its place in the list: the first one of its chunk, or      *)
(* right behind the one before.                                             *)
LEMMA AppendedInPlace ==
  ASSUME NEW f, NEW list \in Seq(Pieces), NEW x \in Pieces,
         \/ LeadTo(f, list, x.chunk, x.from)
         \/ /\ \A p \in 1 .. Len(list) : list[p].chunk < x.chunk
            /\ x.from = f.chunks[x.chunk].Offset
  PROVE  InPlace(f, Append(list, x), Len(list) + 1)
<1> DEFINE new == Append(list, x)
           b == Len(list) + 1
<1>1. /\ Len(list) \in Nat /\ new[b] = x
      /\ \A p \in 1 .. Len(list) : new[p] = list[p]
      /\ \A p \in 1 .. Len(list) : list[p] \in Pieces
  BY AppendFacts, ElementOfSeq
<1> HIDE DEF new
<1>2. b - 1 = Len(list) /\ (b > 1 <=> Len(list) \in 1 .. Len(list))
  BY <1>1
<1>3. CASE LeadTo(f, list, x.chunk, x.from)
  <2>1. PICK a \in 1 .. Len(list) :
           /\ PiecesOf(list, x.chunk) = a .. Len(list)
           /\ list[Len(list)].from + list[Len(list)].length = x.from
    BY <1>3 DEF LeadTo
  <2>2. Len(list) \in 1 .. Len(list) /\ Len(list) \in a .. Len(list)
    BY <1>1
  <2>3. list[Len(list)].chunk = x.chunk
    BY <2>1, <2>2 DEF PiecesOf
  <2>4. new[b - 1] = list[Len(list)]
    BY <1>1, <1>2, <2>2
  <2>5. InPlace(f, new, b)
    BY <1>1, <1>2, <2>1, <2>2, <2>3, <2>4 DEF InPlace
  <2> QED BY <2>5 DEF new
<1>4. CASE /\ \A p \in 1 .. Len(list) : list[p].chunk < x.chunk
           /\ x.from = f.chunks[x.chunk].Offset
  <2>1. b > 1 => new[b - 1].chunk < x.chunk /\ new[b - 1].chunk # x.chunk
    <3>1. SUFFICES ASSUME b > 1 PROVE new[b - 1].chunk < x.chunk /\ new[b - 1].chunk # x.chunk
      OBVIOUS
    <3>2. new[b - 1] = list[Len(list)] /\ list[Len(list)] \in Pieces
      BY <1>1, <1>2, <3>1
    <3>3. list[Len(list)].chunk < x.chunk
      BY <1>2, <1>4, <3>1
    <3> QED BY <3>2, <3>3 DEF Pieces
  <2>2. InPlace(f, new, b)
    BY <1>1, <1>4, <2>1 DEF InPlace
  <2> QED BY <2>2 DEF new
<1> QED BY <1>3, <1>4
-----------------------------------------------------------------------------
(* What holds in every state of the walk. *)
LEMMA FileInWork ==
  ASSUME LbaInv, walk \in {"chunk", "extent"}
  PROVE  /\ files[i] \in MappedFile
         /\ i \in 1 .. Len(files) /\ Len(files) \in Nat
         /\ Len(files[i].chunks) \in Nat /\ Len(files[i].extents) \in Nat
         /\ Len(Chunk_List) = i - 1
         /\ j \in 1 .. Len(files[i].chunks) + 1
<1>1. i \in 1 .. Len(files) /\ Len(files) \in Nat /\ files \in Seq(MappedFile)
  BY LenProperties DEF LbaInv, TypesOK, AtWalk
<1>2. files[i] \in MappedFile
  BY <1>1, ElementOfSeq
<1>3. Len(files[i].chunks) \in Nat /\ Len(files[i].extents) \in Nat
  BY <1>2, FileFacts
<1> QED BY <1>1, <1>2, <1>3 DEF LbaInv, TypesOK, AtWalk

LEMMA ChunkInWork ==
  ASSUME LbaInv, walk = "extent"
  PROVE  /\ j \in 1 .. Len(files[i].chunks)
         /\ k \in 1 .. Len(files[i].extents) + 1
         /\ files[i].chunks[j].Offset \in Nat
         /\ files[i].chunks[j].Length \in Nat \ {0}
         /\ flag \in BOOLEAN /\ req_offset \in Int /\ req_length \in Int /\ seq_id \in Nat
         /\ Offset_List \in Seq(Pieces)
<1>1. files[i] \in MappedFile /\ Len(files[i].chunks) \in Nat
  BY FileInWork
<1>2. /\ j \in 1 .. Len(files[i].chunks)
      /\ k \in 1 .. Len(files[i].extents) + 1
  BY FileInWork DEF LbaInv, TypesOK, AtWalk
<1>3. files[i].chunks[j].Offset \in Nat /\ files[i].chunks[j].Length \in Nat \ {0}
  BY <1>1, <1>2, FileFacts
<1> QED BY <1>2, <1>3 DEF LbaInv, TypesOK

(* A chunk that can be mapped and begins in an extent either begins with it *)
(* or ends in it.                                                           *)
LEMMA BeginsOrEnds ==
  ASSUME NEW f \in MappedFile, NEW e \in 1 .. Len(f.extents), NEW c \in Chunks,
         Mappable(f, c), f.extents[e].byte_offset <= c.Offset, c.Offset < EndOf(f.extents[e])
  PROVE  c.Offset = f.extents[e].byte_offset \/ c.Offset + c.Length <= EndOf(f.extents[e])
<1>1. c.Offset \in Nat /\ c.Length \in Nat \ {0}
  BY NumbersAssumption DEF Chunks
<1>2. PICK d \in 1 .. Len(f.extents) :
         \/ c.Offset = f.extents[d].byte_offset
         \/ /\ f.extents[d].byte_offset <= c.Offset
            /\ c.Offset + c.Length <= EndOf(f.extents[d])
  BY FileFacts DEF Mappable
<1>3. /\ f.extents[d].byte_offset \in Nat
      /\ Sector * f.extents[d].sectors \in Nat \ {0}
      /\ EndOf(f.extents[d]) = f.extents[d].byte_offset + Sector * f.extents[d].sectors
  BY FileFacts
<1>4. f.extents[d].byte_offset <= c.Offset /\ c.Offset < EndOf(f.extents[d])
  <2>1. CASE c.Offset = f.extents[d].byte_offset
    <3>1. \A m \in Nat, n \in Nat \ {0} : m <= m /\ m < m + n
      OBVIOUS
    <3> QED BY <1>3, <2>1, <3>1
  <2>2. CASE /\ f.extents[d].byte_offset <= c.Offset
             /\ c.Offset + c.Length <= EndOf(f.extents[d])
    <3>1. EndOf(f.extents[d]) \in Nat
      BY FileFacts
    <3>2. \A m, z \in Nat, n \in Nat \ {0} : m + n <= z => m < z
      OBVIOUS
    <3> QED BY <1>1, <2>2, <3>1, <3>2
  <2> QED BY <1>2, <2>1, <2>2
<1>5. d = e
  <2>1. c.Offset \in Int
    BY <1>1
  <2> QED BY <1>4, <2>1, OneExtent, Zenon
<1> QED BY <1>2, <1>5

(* The extent in work. *)
LEMMA ExtentInWork ==
  ASSUME LbaInv, walk = "extent", k <= Len(files[i].extents)
  PROVE  /\ k \in 1 .. Len(files[i].extents)
         /\ Extent.byte_offset \in Int /\ Extent.begin \in Int /\ Extent.size \in Int
         /\ Place(files[i], k) \in Nat /\ Place(files[i], k + 1) \in Int
         /\ FitsInt(files[i]) =>
               /\ Extent.size > 0
               /\ Extent.byte_offset = Place(files[i], k)
               /\ Place(files[i], k + 1) = Place(files[i], k) + Extent.size
<1>1. files[i] \in MappedFile /\ k \in 1 .. Len(files[i].extents)
  BY FileInWork, ChunkInWork
<1>2. Extent.byte_offset \in Int /\ Extent.begin \in Int /\ Extent.size \in Int
  BY <1>1, RowType DEF Extent
<1>3. /\ Place(files[i], k) = files[i].extents[k].byte_offset
      /\ Place(files[i], k) \in Nat
      /\ Place(files[i], k + 1) = EndOf(files[i].extents[k])
  BY <1>1, PlaceFacts
<1>4. /\ Sector * files[i].extents[k].sectors \in Nat \ {0}
      /\ EndOf(files[i].extents[k])
           = files[i].extents[k].byte_offset + Sector * files[i].extents[k].sectors
      /\ EndOf(files[i].extents[k]) \in Nat
  BY <1>1, FileFacts
<1>5. ASSUME FitsInt(files[i])
      PROVE  /\ Extent.byte_offset = files[i].extents[k].byte_offset
             /\ Extent.size = Sector * files[i].extents[k].sectors
  BY <1>1, <1>5, RowFits DEF Extent
<1> QED BY <1>1, <1>2, <1>3, <1>4, <1>5

(* Where the walk stands when it takes a piece of a chunk that can be mapped: *)
(* at the beginning of the extent, or what is left ends in it.               *)
LEMMA PieceInExtent ==
  ASSUME LbaInv, walk = "extent", k <= Len(files[i].extents), flag \/ BeginsHere,
         FitsInt(files[i]), Mappable(files[i], files[i].chunks[j])
  PROVE  /\ Place(files[i], k) <= req_offset
         /\ \/ req_offset = Place(files[i], k)
            \/ ~ Exceeds /\ req_offset + req_length <= Place(files[i], k + 1)
<1> DEFINE f == files[i]
           c == f.chunks[j]
<1>1. /\ f \in MappedFile /\ c \in Chunks /\ k \in 1 .. Len(f.extents)
      /\ c.Offset \in Nat /\ c.Length \in Nat \ {0}
      /\ req_offset \in Int /\ req_length \in Int /\ flag \in BOOLEAN
  BY FileInWork, ChunkInWork, FileFacts, ElementOfSeq
<1>2. /\ Extent.size \in Int
      /\ Place(f, k) \in Nat /\ Place(f, k + 1) \in Int
      /\ Extent.byte_offset = Place(f, k)
      /\ Place(f, k + 1) = Place(f, k) + Extent.size
  BY ExtentInWork
<1>3. CASE flag
  BY <1>2, <1>3 DEF LbaInv, ChunkOK
<1>4. CASE ~ flag
  <2>1. Place(f, k) <= req_offset /\ req_offset < Place(f, k + 1)
    BY <1>2, <1>4 DEF BeginsHere
  <2>2. req_offset = c.Offset /\ req_offset + req_length = c.Offset + c.Length
    BY <1>4 DEF LbaInv, ChunkOK
  <2>3. /\ Place(f, k) = f.extents[k].byte_offset
        /\ Place(f, k + 1) = EndOf(f.extents[k])
    BY <1>1, PlaceFacts
  <2>4. c.Offset = Place(f, k) \/ c.Offset + c.Length <= Place(f, k + 1)
    BY <1>1, <2>1, <2>2, <2>3, BeginsOrEnds
  <2>5. c.Offset + c.Length <= Place(f, k + 1) => ~ Exceeds
    BY <1>1, <1>2, <2>1, <2>2 DEF Exceeds
  <2> QED BY <2>1, <2>2, <2>4, <2>5
<1> QED BY <1>1, <1>3, <1>4
-----------------------------------------------------------------------------
(* The piece that is appended, a whole extent or the rest of the chunk. *)
LEMMA PieceTaken ==
  ASSUME LbaInv, walk = "extent", k <= Len(files[i].extents), flag \/ BeginsHere,
         NEW length \in Int,
         \/ length = Extent.size /\ Exceeds
         \/ length = req_length /\ ~ Exceeds
  PROVE  /\ Append(Offset_List, Piece(length)) \in Seq(Pieces)
         /\ Mapped(files[i], Append(Offset_List, Piece(length)), j, j - 1)
         /\ LeadTo(files[i], Append(Offset_List, Piece(length)), j, req_offset + length)
<1> DEFINE f == files[i]
           x == Piece(length)
           list == Offset_List
           n == Len(list) + 1
<1>1. /\ f \in MappedFile /\ k \in 1 .. Len(f.extents) /\ j \in Nat \ {0} /\ i \in Nat
      /\ req_offset \in Int /\ req_length \in Int /\ seq_id \in Nat /\ flag \in BOOLEAN
      /\ list \in Seq(Pieces)
  <2>1. walk \in {"chunk", "extent"}
    OBVIOUS
  <2>2. f \in MappedFile /\ k \in 1 .. Len(f.extents)
    BY <2>1, FileInWork, ExtentInWork
  <2>3. j \in Nat \ {0} /\ i \in Nat
    BY DEF LbaInv, TypesOK
  <2> QED BY <2>2, <2>3, ChunkInWork
<1>2. /\ Extent.byte_offset \in Int /\ Extent.begin \in Int /\ Extent.size \in Int
  BY ExtentInWork
<1>3. /\ x.chunk = j /\ x.from = req_offset /\ x.seq = seq_id /\ x.length = length
      /\ x.offset = Extent.begin + req_offset - Extent.byte_offset
  BY DEF Piece, PieceOffset
<1>4. x \in Pieces
  <2>1. PieceOffset \in Int
    BY <1>1, <1>2 DEF PieceOffset
  <2> QED BY <1>1, <2>1 DEF Piece, Pieces
<1>5. /\ Append(list, x) \in Seq(Pieces)
      /\ Append(list, x)[n] = x
      /\ Len(list) \in Nat
  BY <1>1, <1>4, AppendFacts
<1>6. /\ Mapped(f, list, IF flag THEN j ELSE j - 1, j - 1)
      /\ FitsInt(f) /\ Within(f) => seq_id = j
  BY DEF LbaInv, ListOK
<1>7. /\ flag => LeadTo(f, list, j, req_offset)
      /\ ~ flag => req_offset = f.chunks[j].Offset
      /\ req_length > 0
  BY DEF LbaInv, ChunkOK
<1> HIDE DEF x, list, f
<1>8. ~ flag => \A p \in 1 .. Len(list) : list[p].chunk < j /\ list[p].chunk # j
  <2>1. ASSUME ~ flag, NEW p \in 1 .. Len(list) PROVE list[p].chunk \in 1 .. j - 1
    BY <1>6, <2>1 DEF Mapped
  <2>2. \A c \in 1 .. j - 1 : c < j /\ c # j
    BY <1>1
  <2> QED BY <2>1, <2>2
<1>9. LeadTo(f, Append(list, x), j, req_offset + length)
  <2>1. CASE flag
    <3>1. LeadTo(f, list, x.chunk, x.from)
      BY <1>3, <1>7, <2>1
    <3>2. LeadTo(f, Append(list, x), x.chunk, x.from + x.length)
      BY <1>1, <1>4, <3>1, LeadToNext
    <3> QED BY <1>3, <3>2
  <2>2. CASE ~ flag
    <3>1. x.from = f.chunks[x.chunk].Offset /\ \A p \in 1 .. Len(list) : list[p].chunk # x.chunk
      BY <1>3, <1>7, <1>8, <2>2
    <3>2. LeadTo(f, Append(list, x), x.chunk, x.from + x.length)
      BY <1>1, <1>4, <3>1, LeadToFirst
    <3> QED BY <1>3, <3>2
  <2> QED BY <2>1, <2>2
<1>10. InPlace(f, Append(list, x), n)
  <2>1. \/ LeadTo(f, list, x.chunk, x.from)
        \/ /\ \A p \in 1 .. Len(list) : list[p].chunk < x.chunk
           /\ x.from = f.chunks[x.chunk].Offset
    BY <1>1, <1>3, <1>7, <1>8
  <2> QED BY <1>1, <1>4, <2>1, AppendedInPlace
<1>11. ASSUME FitsInt(f) PROVE Located(f, Append(list, x), n)
  <2>1. SUFFICES ASSUME Mappable(f, f.chunks[j]), NEW d \in 0 .. length - 1
                 PROVE  x.offset + d = DiskByte(f, x.from + d)
    BY <1>3, <1>5, <1>10 DEF Located
  <2>2. /\ Extent.size > 0
        /\ Extent.byte_offset = Place(f, k) /\ Place(f, k) \in Nat
        /\ Place(f, k + 1) = Place(f, k) + Extent.size
    BY <1>11, ExtentInWork DEF f
  <2>3. /\ Place(f, k) <= req_offset
        /\ \/ req_offset = Place(f, k)
           \/ ~ Exceeds /\ req_offset + req_length <= Place(f, k + 1)
    BY <1>11, <2>1, PieceInExtent DEF f
  <2>4. length <= Extent.size /\ (~ Exceeds => length = req_length)
    BY <1>1, <1>2 DEF Exceeds
  <2>5. Place(f, k) <= req_offset + d /\ req_offset + d < Place(f, k + 1)
    BY <1>1, <1>2, <2>2, <2>3, <2>4
  <2>6. /\ f.extents[k].byte_offset = Place(f, k)
        /\ EndOf(f.extents[k]) = Place(f, k + 1)
    BY <1>1, PlaceFacts
  <2>7. DiskByte(f, req_offset + d)
          = Sector * f.extents[k].begin_LBA + (req_offset + d) - f.extents[k].byte_offset
    <3>1. req_offset + d \in Int
      BY <1>1
    <3> QED BY <1>1, <2>5, <2>6, <3>1, ByteInExtent
  <2>8. Extent.begin = Sector * f.extents[k].begin_LBA
    BY <1>1, <1>11, RowFits DEF Extent, f
  <2>9. x.offset + d = Extent.begin + (req_offset + d) - Extent.byte_offset
    BY <1>1, <1>2, <1>3
  <2>10. f.extents[k].byte_offset = Extent.byte_offset
    BY <2>2, <2>6
  <2> QED BY <1>3, <2>7, <2>8, <2>9, <2>10
<1>12. ASSUME FitsInt(f), Within(f) PROVE Counted(Append(list, x), n)
  <2>1. Extent.size > 0
    BY <1>12, ExtentInWork DEF f
  <2>2. length > 0 /\ seq_id = j
    BY <1>1, <1>6, <1>7, <1>12, <2>1
  <2> QED BY <1>3, <1>5, <2>2 DEF Counted
<1>13. Mapped(f, Append(list, x), j, j - 1)
  <2>1. j - 1 < x.chunk /\ x.chunk <= j /\ j - 1 \in Nat /\ j \in Nat
    BY <1>1, <1>3
  <2>2. CASE flag
    <3>1. Mapped(f, list, j, j - 1)
      BY <1>6, <2>2
    <3> QED BY <1>1, <1>4, <1>11, <1>12, <2>1, <3>1, MappedAppend
  <2>3. CASE ~ flag
    <3>1. Mapped(f, list, j - 1, j - 1) /\ j - 1 <= j
      BY <1>1, <1>6, <2>3
    <3> QED BY <1>1, <1>4, <1>11, <1>12, <2>1, <3>1, MappedAppend
  <2> QED BY <2>2, <2>3
<1> QED BY <1>5, <1>9, <1>13 DEF f, list, x
-----------------------------------------------------------------------------
(* The steps of the walk. *)
LEMMA LbaStart == LbaInit => LbaInv
<1> SUFFICES ASSUME LbaInit PROVE LbaInv
  OBVIOUS
<1>1. <<>> \in Seq(MappedFile) /\ <<>> \in Seq(Pieces) /\ <<>> \in Seq(Seq(Pieces))
      /\ Len(<<>>) = 0
  OBVIOUS
<1>2. TypesOK
  <2>1. /\ walk = "returned" /\ flag \in BOOLEAN
        /\ files \in Seq(MappedFile)
        /\ Offset_List \in Seq(Pieces)
        /\ Chunk_List \in Seq(Seq(Pieces))
    BY <1>1, Zenon DEF LbaInit
  <2>2. /\ i \in Nat \ {0} /\ j \in Nat \ {0} /\ k \in Nat \ {0}
        /\ req_offset \in Int /\ req_length \in Int /\ seq_id \in Nat
    BY SMT DEF LbaInit
  <2> QED BY <2>1, <2>2 DEF TypesOK
<1>3. AtWalk
  <2>1. walk = "returned" /\ Len(Chunk_List) = 0 /\ Len(files) = 0
    BY <1>1 DEF LbaInit
  <2> QED BY <2>1 DEF AtWalk
<1>4. ListsOK /\ ListOK /\ ChunkOK
  BY <1>1 DEF LbaInit, ListsOK, ListOK, ChunkOK
<1> QED BY <1>2, <1>3, <1>4 DEF LbaInv

LEMMA LbaStutter == LbaInv /\ UNCHANGED lbaVars => LbaInv'
BY DEF LbaInv, TypesOK, AtWalk, ListsOK, ListOK, ChunkOK, lbaVars, FitsInt, Within

LEMMA LbaCall ==
  ASSUME LbaInv, NEW fs \in Seq(MappedFile), Call(fs)
  PROVE  LbaInv'
<1>1. <<>> \in Seq(Seq(Pieces)) /\ Len(<<>>) = 0 /\ Len(fs) \in Nat
  BY LenProperties
<1>2. TypesOK'
  BY <1>1 DEF LbaInv, TypesOK, Call
<1>3. AtWalk'
  BY <1>1 DEF AtWalk, Call
<1>4. ListsOK' /\ ListOK' /\ ChunkOK'
  BY <1>1 DEF ListsOK, ListOK, ChunkOK, Call
<1> QED BY <1>2, <1>3, <1>4 DEF LbaInv

LEMMA LbaBeginFile == LbaInv /\ BeginFile => LbaInv'
<1> SUFFICES ASSUME LbaInv, BeginFile PROVE LbaInv'
  OBVIOUS
<1>1. <<>> \in Seq(Pieces) /\ Len(<<>>) = 0
  OBVIOUS
<1>2. i \in 1 .. Len(files) /\ files \in Seq(MappedFile) /\ Len(files) \in Nat
  BY LenProperties DEF LbaInv, TypesOK, BeginFile
<1>3. Len(files[i].chunks) \in Nat
  BY <1>2, ElementOfSeq, FileFacts
<1>4. TypesOK'
  BY <1>1 DEF LbaInv, TypesOK, BeginFile
<1>5. AtWalk'
  BY <1>2, <1>3 DEF LbaInv, AtWalk, BeginFile
<1>6. ListsOK'
  BY DEF LbaInv, ListsOK, BeginFile
<1>7. Mapped(files[i], <<>>, 0, 0)
  BY <1>1 DEF Mapped
<1>8. ListOK'
  BY <1>7 DEF ListOK, BeginFile
<1>9. ChunkOK'
  BY DEF ChunkOK, BeginFile
<1> QED BY <1>4, <1>5, <1>6, <1>8, <1>9 DEF LbaInv

LEMMA LbaBeginChunk == LbaInv /\ BeginChunk => LbaInv'
<1> SUFFICES ASSUME LbaInv, BeginChunk PROVE LbaInv'
  OBVIOUS
<1>1. /\ files[i] \in MappedFile /\ Len(files[i].extents) \in Nat
      /\ j \in 1 .. Len(files[i].chunks)
  BY FileInWork DEF BeginChunk
<1>2. files[i].chunks[j].Offset \in Nat /\ files[i].chunks[j].Length \in Nat \ {0}
  BY <1>1, FileFacts
<1>3. TypesOK'
  <2>1. req_offset' \in Int /\ req_length' \in Int
    BY <1>2 DEF BeginChunk
  <2>2. /\ walk' = "extent" /\ flag' \in BOOLEAN
        /\ UNCHANGED <<files, i, j, seq_id, Offset_List, Chunk_List>>
    BY DEF BeginChunk
  <2>3. k' = 1
    BY DEF BeginChunk
  <2> QED BY <2>1, <2>2, <2>3 DEF LbaInv, TypesOK
<1>4. AtWalk'
  BY <1>1 DEF LbaInv, AtWalk, BeginChunk
<1>5. ListsOK'
  BY DEF LbaInv, ListsOK, BeginChunk
<1>6. ListOK'
  BY DEF LbaInv, ListOK, BeginChunk
<1>7. Place(files[i], 1) = 0
  BY <1>1, PlaceFacts
<1>8. ChunkOK'
  BY <1>2, <1>7 DEF ChunkOK, BeginChunk
<1> QED BY <1>3, <1>4, <1>5, <1>6, <1>8 DEF LbaInv
-----------------------------------------------------------------------------
(* The extents are walked: nothing else changes. *)
LEMMA WalkKeeps ==
  ASSUME LbaInv, walk = "extent", UNCHANGED <<files, i, Chunk_List>>
  PROVE  ListsOK'
BY DEF LbaInv, ListsOK

LEMMA LbaSkip == LbaInv /\ WalkExtent /\ SkipExtent => LbaInv'
<1> SUFFICES ASSUME LbaInv, WalkExtent, SkipExtent PROVE LbaInv'
  OBVIOUS
<1>1. /\ walk = "extent" /\ walk' = walk /\ k <= Len(files[i].extents) /\ k' = k + 1
      /\ ~ flag /\ ~ BeginsHere
      /\ UNCHANGED <<files, i, j, flag, req_offset, req_length, seq_id, Offset_List, Chunk_List>>
  BY DEF WalkExtent, SkipExtent
<1>2. /\ k \in 1 .. Len(files[i].extents) + 1 /\ Len(files[i].extents) \in Nat
      /\ req_offset \in Int
  BY <1>1, FileInWork, ChunkInWork
<1>3. TypesOK'
  <2>1. k' \in Nat \ {0}
    BY <1>1, <1>2
  <2> QED BY <1>1, <2>1 DEF LbaInv, TypesOK
<1>4. AtWalk'
  BY <1>1, <1>2 DEF LbaInv, AtWalk
<1>5. ListsOK'
  BY <1>1, WalkKeeps
<1>6. ListOK'
  BY <1>1 DEF LbaInv, ListOK
<1>7. ASSUME FitsInt(files[i]) PROVE Place(files[i], k + 1) <= req_offset
  <2>1. /\ Extent.byte_offset = Place(files[i], k)
        /\ Place(files[i], k + 1) = Place(files[i], k) + Extent.size
        /\ Place(files[i], k + 1) \in Int
    BY <1>1, <1>7, ExtentInWork
  <2>2. Place(files[i], k) <= req_offset
    BY <1>1, <1>7 DEF LbaInv, ChunkOK
  <2> QED BY <1>1, <1>2, <2>1, <2>2 DEF BeginsHere
<1>8. ChunkOK'
  BY <1>1, <1>7 DEF LbaInv, ChunkOK
<1> QED BY <1>3, <1>4, <1>5, <1>6, <1>8 DEF LbaInv

LEMMA LbaWhole == LbaInv /\ WalkExtent /\ WholeExtent => LbaInv'
<1> SUFFICES ASSUME LbaInv, WalkExtent, WholeExtent PROVE LbaInv'
  OBVIOUS
<1> DEFINE f == files[i]
           c == f.chunks[j]
<1>1. /\ walk = "extent" /\ walk' = walk /\ k <= Len(f.extents)
      /\ flag \/ BeginsHere
      /\ Exceeds
      /\ UNCHANGED <<files, i, j, seq_id, Chunk_List>>
  BY DEF WalkExtent, WholeExtent
<1>2. /\ Offset_List' = Append(Offset_List, Piece(Extent.size))
      /\ req_length' = req_length - Extent.size
      /\ req_offset' = req_offset + Extent.size
      /\ flag' = TRUE
      /\ k' = k + 1
  BY DEF WholeExtent
<1>3. /\ k \in 1 .. Len(f.extents) /\ Len(f.extents) \in Nat
      /\ req_offset \in Int /\ req_length \in Int /\ flag \in BOOLEAN
      /\ Extent.size \in Int /\ Place(f, k) \in Nat /\ Place(f, k + 1) \in Int
      /\ c.Offset \in Nat /\ c.Length \in Nat \ {0}
      /\ f \in MappedFile
  BY <1>1, FileInWork, ChunkInWork, ExtentInWork
<1>4. /\ Offset_List' \in Seq(Pieces)
      /\ Mapped(f, Offset_List', j, j - 1)
      /\ LeadTo(f, Offset_List', j, req_offset')
  BY <1>1, <1>2, <1>3, PieceTaken
<1>5. TypesOK'
  <2>1. /\ k' \in Nat \ {0} /\ req_offset' \in Int /\ req_length' \in Int
    <3>1. k \in Nat /\ Extent.size \in Int /\ req_offset \in Int /\ req_length \in Int
      BY <1>3
    <3> QED BY <1>2, <3>1
  <2>2. flag' \in BOOLEAN
    BY <1>2
  <2> QED BY <1>1, <1>4, <2>1, <2>2 DEF LbaInv, TypesOK
<1>6. AtWalk'
  BY <1>1, <1>2, <1>3 DEF LbaInv, AtWalk
<1>7. ListsOK'
  BY <1>1, WalkKeeps
<1>8. ListOK'
  BY <1>1, <1>2, <1>4 DEF LbaInv, ListOK
<1>9. /\ req_length' > 0
      /\ req_offset' + req_length' = c.Offset + c.Length
  <2>1. req_offset + req_length = c.Offset + c.Length
    BY <1>1 DEF LbaInv, ChunkOK
  <2> QED BY <1>1, <1>2, <1>3, <2>1 DEF Exceeds
<1>10. ASSUME FitsInt(f), c.Offset + c.Length <= FileSize(f)
       PROVE  req_length' <= FileSize(f) - Place(f, k')
  <2>1. /\ Extent.byte_offset = Place(f, k)
        /\ Place(f, k + 1) = Place(f, k) + Extent.size
    BY <1>1, <1>10, ExtentInWork
  <2>2. FileSize(f) \in Nat
    BY <1>3, PlaceFacts
  <2>3. req_length <= FileSize(f) - Place(f, k)
    <3>1. CASE flag
      BY <1>1, <1>10, <3>1 DEF LbaInv, ChunkOK
    <3>2. CASE ~ flag
      <4>1. req_offset = c.Offset /\ req_offset + req_length = c.Offset + c.Length
        BY <1>1, <3>2 DEF LbaInv, ChunkOK
      <4>2. Place(f, k) <= req_offset
        BY <1>1, <1>10, <3>2 DEF LbaInv, ChunkOK
      <4> QED BY <1>3, <1>10, <2>2, <4>1, <4>2
    <3> QED BY <1>3, <3>1, <3>2
  <2>4. \A length, size, total, place, next \in Int :
           length <= total - place /\ next = place + size => length - size <= total - next
    OBVIOUS
  <2>5. req_length - Extent.size <= FileSize(f) - Place(f, k + 1)
    BY <1>3, <2>1, <2>2, <2>3, <2>4
  <2> QED BY <1>2, <2>5
<1>11. ASSUME FitsInt(f), Mappable(f, c) PROVE req_offset' = Place(f, k')
  <2>1. Place(f, k + 1) = Place(f, k) + Extent.size
    BY <1>1, <1>11, ExtentInWork
  <2>2. req_offset = Place(f, k)
    BY <1>1, <1>11, PieceInExtent
  <2> QED BY <1>2, <1>3, <2>1, <2>2
<1>12. ChunkOK'
  BY <1>1, <1>2, <1>4, <1>9, <1>10, <1>11 DEF ChunkOK
<1> QED BY <1>5, <1>6, <1>7, <1>8, <1>12 DEF LbaInv

LEMMA LbaLast == LbaInv /\ WalkExtent /\ LastPiece => LbaInv'
<1> SUFFICES ASSUME LbaInv, WalkExtent, LastPiece PROVE LbaInv'
  OBVIOUS
<1> DEFINE f == files[i]
           c == f.chunks[j]
<1>1. /\ walk = "extent" /\ k <= Len(f.extents)
      /\ flag \/ BeginsHere
      /\ ~ Exceeds
      /\ UNCHANGED <<files, i, k, req_offset, req_length, Chunk_List>>
  BY DEF WalkExtent, LastPiece
<1>2. /\ Offset_List' = Append(Offset_List, Piece(req_length))
      /\ seq_id' = seq_id + 1
      /\ flag' = TRUE
      /\ walk' = "chunk"
      /\ j' = j + 1
  BY DEF LastPiece
<1>3. /\ j \in 1 .. Len(f.chunks) /\ Len(f.chunks) \in Nat
      /\ req_length \in Int /\ req_offset \in Int /\ seq_id \in Nat
      /\ f \in MappedFile
  BY <1>1, FileInWork, ChunkInWork
<1>4. /\ Offset_List' \in Seq(Pieces)
      /\ Mapped(f, Offset_List', j, j - 1)
      /\ LeadTo(f, Offset_List', j, req_offset + req_length)
  BY <1>1, <1>2, <1>3, PieceTaken
<1>5. TypesOK'
  <2>1. /\ j' \in Nat \ {0} /\ seq_id' \in Nat
    BY <1>2, <1>3
  <2>2. flag' \in BOOLEAN /\ walk' = "chunk"
    BY <1>2
  <2> QED BY <1>1, <1>4, <2>1, <2>2 DEF LbaInv, TypesOK
<1>6. AtWalk'
  BY <1>1, <1>2, <1>3 DEF LbaInv, AtWalk
<1>7. ListsOK'
  BY <1>1, WalkKeeps
<1>8. Covered(f, Offset_List', j)
  <2>1. req_offset + req_length = c.Offset + c.Length
    BY <1>1 DEF LbaInv, ChunkOK
  <2> QED BY <1>4, <2>1, LeadToEnd
<1>9. Mapped(f, Offset_List', j, j)
  <2>1. j - 1 \in Nat /\ (j - 1) + 1 = j
    BY <1>3
  <2> QED BY <1>4, <1>8, <2>1, MappedNext
<1>10. FitsInt(f) /\ Within(f) => seq_id' = j'
  BY <1>1, <1>2 DEF LbaInv, ListOK
<1>11. j' - 1 = j
  BY <1>2, <1>3
<1>12. ListOK'
  BY <1>1, <1>2, <1>9, <1>10, <1>11 DEF ListOK
<1>13. ChunkOK'
  BY <1>2 DEF ChunkOK
<1> QED BY <1>5, <1>6, <1>7, <1>12, <1>13 DEF LbaInv

(* If the numbers fit and the chunk ends within the file then its last      *)
(* piece is found before the extents are at an end.                         *)
LEMMA LbaEndOfExtents == LbaInv /\ EndOfExtents => LbaInv'
<1> SUFFICES ASSUME LbaInv, EndOfExtents PROVE LbaInv'
  OBVIOUS
<1> DEFINE f == files[i]
           c == f.chunks[j]
<1>1. /\ walk = "extent" /\ k > Len(f.extents) /\ walk' = "chunk" /\ j' = j + 1
      /\ UNCHANGED <<files, i, k, flag, req_offset, req_length, seq_id, Offset_List, Chunk_List>>
  BY DEF EndOfExtents
<1>2. /\ j \in 1 .. Len(f.chunks) /\ Len(f.chunks) \in Nat
      /\ k \in 1 .. Len(f.extents) + 1 /\ Len(f.extents) \in Nat
      /\ req_offset \in Int /\ req_length \in Int /\ flag \in BOOLEAN
      /\ c.Offset \in Nat /\ c.Length \in Nat \ {0}
      /\ f \in MappedFile
  BY <1>1, FileInWork, ChunkInWork
<1>3. TypesOK'
  <2>1. j' \in Nat \ {0}
    BY <1>1, <1>2
  <2> QED BY <1>1, <2>1 DEF LbaInv, TypesOK
<1>4. AtWalk'
  BY <1>1, <1>2 DEF LbaInv, AtWalk
<1>5. ListsOK'
  BY <1>1, WalkKeeps
<1>6. ~ (FitsInt(f) /\ Within(f))
  <2>1. SUFFICES ASSUME FitsInt(f), Within(f) PROVE FALSE
    OBVIOUS
  <2>2. k = Len(f.extents) + 1
    BY <1>1, <1>2
  <2>3. Place(f, k) = FileSize(f) /\ FileSize(f) \in Nat
    BY <1>2, <2>2, PlaceFacts
  <2>4. c.Offset + c.Length <= FileSize(f)
    BY <1>2, <2>1, FileFacts DEF Within
  <2>5. CASE flag
    <3>1. req_length > 0 /\ req_length <= FileSize(f) - Place(f, k)
      BY <1>1, <2>1, <2>4, <2>5 DEF LbaInv, ChunkOK
    <3> QED BY <1>2, <2>3, <3>1
  <2>6. CASE ~ flag
    <3>1. req_offset = c.Offset /\ Place(f, k) <= req_offset
      BY <1>1, <2>1, <2>6 DEF LbaInv, ChunkOK
    <3> QED BY <1>2, <2>3, <2>4, <3>1
  <2> QED BY <1>2, <2>5, <2>6
<1>7. Mapped(f, Offset_List, j, j)
  <2>1. \A d : d \in 1 .. j \/ d \in 1 .. j - 1 => d \in 1 .. j
    BY <1>2
  <2>2. Mapped(f, Offset_List, IF flag THEN j ELSE j - 1, j - 1)
    BY <1>1 DEF LbaInv, ListOK
  <2>3. \A p \in 1 .. Len(Offset_List) : Offset_List[p].chunk \in 1 .. j
    BY <2>1, <2>2 DEF Mapped
  <2> QED BY <1>6, <2>2, <2>3 DEF Mapped
<1>8. j' - 1 = j
  BY <1>1, <1>2
<1>9. ListOK'
  BY <1>1, <1>6, <1>7, <1>8 DEF ListOK
<1>10. ChunkOK'
  BY <1>1 DEF ChunkOK
<1> QED BY <1>3, <1>4, <1>5, <1>9, <1>10 DEF LbaInv

LEMMA LbaEndOfFile == LbaInv /\ EndOfFile => LbaInv'
<1> SUFFICES ASSUME LbaInv, EndOfFile PROVE LbaInv'
  OBVIOUS
<1> DEFINE f == files[i]
<1>1. /\ walk = "chunk" /\ j > Len(f.chunks) /\ walk' = "file" /\ i' = i + 1
      /\ Chunk_List' = Append(Chunk_List, Offset_List)
      /\ UNCHANGED <<files, j, k, flag, req_offset, req_length, seq_id, Offset_List>>
  BY DEF EndOfFile
<1>2. /\ j \in 1 .. Len(f.chunks) + 1 /\ Len(f.chunks) \in Nat
      /\ i \in 1 .. Len(files) /\ Len(files) \in Nat /\ Len(Chunk_List) = i - 1
  BY <1>1, FileInWork
<1>3. /\ Offset_List \in Seq(Pieces) /\ Chunk_List \in Seq(Seq(Pieces))
  BY DEF LbaInv, TypesOK
<1>4. /\ Chunk_List' \in Seq(Seq(Pieces))
      /\ Len(Chunk_List') = i
      /\ Chunk_List'[i] = Offset_List
      /\ \A n \in 1 .. i - 1 : Chunk_List'[n] = Chunk_List[n]
  <2>1. (i - 1) + 1 = i
    BY <1>2
  <2> QED BY <1>1, <1>2, <1>3, <2>1, AppendFacts
<1>5. TypesOK'
  <2>1. i' \in Nat \ {0}
    BY <1>1, <1>2
  <2> QED BY <1>1, <1>4, <2>1 DEF LbaInv, TypesOK
<1>6. AtWalk'
  BY <1>1, <1>2, <1>4 DEF AtWalk
<1>7. Mapped(f, Offset_List, Len(f.chunks), Len(f.chunks))
  <2>1. j - 1 = Len(f.chunks)
    BY <1>1, <1>2
  <2> QED BY <1>1, <2>1 DEF LbaInv, ListOK
<1>8. ListsOK'
  <2>1. \A n \in 1 .. i : n \in 1 .. i - 1 \/ n = i
    BY <1>2
  <2>2. ASSUME NEW n \in 1 .. i
        PROVE  Mapped(files[n], Chunk_List'[n], Len(files[n].chunks), Len(files[n].chunks))
    <3>1. CASE n \in 1 .. i - 1
      BY <1>2, <1>4, <3>1 DEF LbaInv, ListsOK
    <3>2. CASE n = i
      BY <1>4, <1>7, <3>2
    <3> QED BY <2>1, <3>1, <3>2
  <2> QED BY <1>1, <1>4, <2>2 DEF ListsOK
<1>9. ListOK' /\ ChunkOK'
  BY <1>1 DEF ListOK, ChunkOK
<1> QED BY <1>5, <1>6, <1>8, <1>9 DEF LbaInv

LEMMA LbaReturn == LbaInv /\ Return => LbaInv'
<1> SUFFICES ASSUME LbaInv, Return PROVE LbaInv'
  OBVIOUS
<1>1. /\ walk' = "returned"
      /\ UNCHANGED <<files, i, j, k, flag, req_offset, req_length, seq_id,
                     Offset_List, Chunk_List>>
  BY DEF Return
<1>2. TypesOK'
  BY <1>1 DEF LbaInv, TypesOK
<1>3. AtWalk'
  BY <1>1 DEF LbaInv, AtWalk
<1>4. ListsOK'
  BY <1>1 DEF LbaInv, ListsOK
<1>5. ListOK' /\ ChunkOK'
  BY <1>1 DEF ListOK, ChunkOK
<1> QED BY <1>2, <1>3, <1>4, <1>5 DEF LbaInv

LEMMA LbaStep == LbaInv /\ my_LBA2PBA => LbaInv'
<1>1. WalkExtent => SkipExtent \/ WholeExtent \/ LastPiece
  BY DEF WalkExtent
<1> QED BY <1>1, LbaBeginFile, LbaBeginChunk, LbaSkip, LbaWhole, LbaLast,
           LbaEndOfExtents, LbaEndOfFile, LbaReturn DEF my_LBA2PBA

(* What it gives: the two properties of the finished lists. *)
LEMMA LbaProperties == LbaInv => PiecesLocateBytes /\ PiecesAddUp
<1> SUFFICES ASSUME LbaInv PROVE PiecesLocateBytes /\ PiecesAddUp
  OBVIOUS
<1>1. DOMAIN Chunk_List = 1 .. Len(Chunk_List) /\ Chunk_List \in Seq(Seq(Pieces))
  BY LenProperties DEF LbaInv, TypesOK
<1>2. ASSUME NEW n \in DOMAIN Chunk_List
      PROVE  /\ Mapped(files[n], Chunk_List[n], Len(files[n].chunks), Len(files[n].chunks))
             /\ DOMAIN Chunk_List[n] = 1 .. Len(Chunk_List[n])
             /\ DOMAIN files[n].chunks = 1 .. Len(files[n].chunks)
  <2>1. Mapped(files[n], Chunk_List[n], Len(files[n].chunks), Len(files[n].chunks))
    BY <1>1 DEF LbaInv, ListsOK
  <2>2. DOMAIN Chunk_List[n] = 1 .. Len(Chunk_List[n])
    <3>1. Chunk_List[n] \in Seq(Pieces)
      BY <1>1, ElementOfSeq
    <3> QED BY <3>1, LenProperties
  <2>3. n \in 1 .. Len(files)
    BY <1>1, LenProperties DEF LbaInv, TypesOK, AtWalk
  <2>4. files[n] \in MappedFile
    BY <2>3, ElementOfSeq DEF LbaInv, TypesOK
  <2> QED BY <2>1, <2>2, <2>4, FileFacts
<1>3. PiecesLocateBytes
  BY <1>2 DEF PiecesLocateBytes, Mapped, Located
<1>4. PiecesAddUp
  BY <1>2 DEF PiecesAddUp, Mapped, Counted
<1> QED BY <1>3, <1>4
-----------------------------------------------------------------------------
(* The host's server: the inductive invariant. *)

Replies == [run : Nat, client : Nat, type : ScanTypes, id : Int]

StorageOK == storage \in [Known -> Seq(MappedFile)]

\* A request in work has yet to take a number.
RequestOK ==
    /\ request.client \in Nat
    /\ at \in {"generate", "translate", "schedule", "send", "advance"} => WorkID < requests

\* What was scheduled or answered in this run of the program has a number below the
\* counter, or the counter's if it is the request in work.
NumberOK(n, client_, stages) ==
    n < WorkID \/ (n = WorkID /\ at \in stages /\ client_ = request.client)

RepliesOK ==
    /\ replies \subseteq Replies
    /\ \A r \in replies :
          r.run <= run /\ (at # "down" /\ r.run = run => NumberOK(r.id, r.client, {"advance"}))

ScheduledOK ==
    \A w \in scheduled :
       /\ w.run \in Nat /\ w.work_id \in Nat /\ w.run <= run
       /\ at # "down" /\ w.run = run => NumberOK(w.work_id, w.client, {"send", "advance"})

\* The number is sent when the work has been scheduled.
SendOK ==
    at = "send" /\ request.type = "SCAN_N_FILTER" =>
       \E w \in scheduled : w.run = run /\ w.work_id = WorkID /\ w.client = request.client

NumbersOK == RepliesOK /\ ScheduledOK /\ SendOK

\* The thread works with the files of the table that was asked for.
FilesOK ==
    at \in {"translate", "schedule"} /\ request.table \in Known =>
       files = storage[request.table]

HostInv ==
    LbaInv /\ HostTypeOK /\ StorageOK /\ RequestOK /\ NumbersOK /\ FilesOK /\ RepliesNameWorks

LEMMA HostStart == HostInit => HostInv
<1> SUFFICES ASSUME HostInit PROVE HostInv
  OBVIOUS
<1>1. LbaInv
  BY LbaStart DEF HostInit
<1>2. HostTypeOK
  <2>1. /\ at = "down" /\ run = 0 /\ WorkID = 0 /\ requests = 0 /\ req_json = None
        /\ request.type = "SCAN" /\ request.table = None
    BY DEF HostInit, NoRequest
  <2> QED BY <2>1, BoundsAssumption DEF HostTypeOK, ScanTypes
<1>3. StorageOK
  BY StorageAssumption DEF HostInit, StorageOK
<1>4. RequestOK /\ FilesOK
  <2>1. at = "down" /\ request.client = 0
    BY DEF HostInit, NoRequest
  <2> QED BY <2>1 DEF RequestOK, FilesOK
<1>5. NumbersOK /\ RepliesNameWorks
  BY DEF HostInit, NumbersOK, RepliesOK, ScheduledOK, SendOK, RepliesNameWorks
<1> QED BY <1>1, <1>2, <1>3, <1>4, <1>5 DEF HostInv

(* The types and the numbers, as they are used. *)
LEMMA HostTypes ==
  ASSUME HostInv
  PROVE  /\ run \in Nat /\ requests \in Nat /\ WorkID \in Nat
         /\ MaxStarts \in Nat /\ MaxRequests \in Nat
BY BoundsAssumption DEF HostInv, HostTypeOK

LEMMA KnownFiles ==
  ASSUME HostInv, NEW t \in Known
  PROVE  storage[t] \in Seq(MappedFile)
BY DEF HostInv, StorageOK

LEMMA WalkKeepsFiles == my_LBA2PBA => UNCHANGED files
BY DEF my_LBA2PBA, BeginFile, BeginChunk, WalkExtent, EndOfExtents, EndOfFile, Return

(* Nothing is scheduled or answered before the thread comes to schedule. *)
LEMMA NumbersKept ==
  ASSUME HostInv, UNCHANGED <<storage, run, scheduled, replies>>,
         \/ at' = "down"
         \/ /\ at \in {"accept", "generate", "translate"}
            /\ at' \in {"accept", "generate", "translate", "schedule"}
            /\ WorkID' = WorkID
  PROVE  NumbersOK' /\ RepliesNameWorks'
<1>1. RepliesNameWorks'
  BY DEF HostInv, RepliesNameWorks
<1>2. SendOK'
  BY DEF SendOK
<1>3. RepliesOK'
  <2>1. ASSUME NEW r \in replies
        PROVE  r.run <= run /\ (at' # "down" /\ r.run = run => r.id < WorkID')
    BY <2>1 DEF HostInv, NumbersOK, RepliesOK, NumberOK
  <2> QED BY <2>1 DEF HostInv, NumbersOK, RepliesOK, NumberOK
<1>4. ScheduledOK'
  <2>1. ASSUME NEW w \in scheduled
        PROVE  /\ w.run \in Nat /\ w.work_id \in Nat /\ w.run <= run
               /\ at' # "down" /\ w.run = run => w.work_id < WorkID'
    BY <2>1 DEF HostInv, NumbersOK, ScheduledOK, NumberOK
  <2> QED BY <2>1 DEF ScheduledOK, NumberOK
<1> QED BY <1>1, <1>2, <1>3, <1>4 DEF NumbersOK

LEMMA HostMain == HostInv /\ main => HostInv'
<1> SUFFICES ASSUME HostInv, main PROVE HostInv'
  OBVIOUS
<1>1. /\ at' = "accept" /\ run < MaxStarts /\ run' = run + 1
      /\ UNCHANGED <<lbaVars, storage, WorkID, request, req_json, requests, scheduled, replies>>
  BY DEF main
<1>2. LbaInv'
  BY <1>1, LbaStutter DEF HostInv
<1>3. run \in Nat /\ requests \in Nat /\ MaxStarts \in Nat
  BY HostTypes
<1>4. HostTypeOK'
  BY <1>1, <1>3 DEF HostInv, HostTypeOK
<1>5. StorageOK' /\ RequestOK' /\ FilesOK' /\ SendOK'
  BY <1>1 DEF HostInv, StorageOK, RequestOK, FilesOK, SendOK
<1>6. RepliesOK'
  <2>1. ASSUME NEW r \in replies PROVE r.run <= run' /\ r.run # run'
    <3>1. r.run \in Nat /\ r.run <= run
      BY DEF HostInv, NumbersOK, RepliesOK, Replies
    <3> QED BY <1>1, <1>3, <3>1
  <2> QED BY <1>1, <2>1 DEF HostInv, NumbersOK, RepliesOK
<1>7. ScheduledOK'
  <2>1. ASSUME NEW w \in scheduled
        PROVE  w.run \in Nat /\ w.work_id \in Nat /\ w.run <= run' /\ w.run # run'
    <3>1. w.run \in Nat /\ w.work_id \in Nat /\ w.run <= run
      BY DEF HostInv, NumbersOK, ScheduledOK
    <3> QED BY <1>1, <1>3, <3>1
  <2> QED BY <1>1, <2>1 DEF ScheduledOK
<1>8. RepliesNameWorks'
  BY <1>1 DEF HostInv, RepliesNameWorks
<1> QED BY <1>2, <1>4, <1>5, <1>6, <1>7, <1>8 DEF HostInv, NumbersOK

(* The end of the program leaves what was scheduled and answered. *)
LEMMA HostEnd ==
  ASSUME HostInv, End, UNCHANGED <<storage, run, scheduled, replies>>,
         requests' \in 0 .. MaxRequests
  PROVE  HostInv'
<1>1. LbaInit'
  BY DEF End, Forget, LbaInit
<1>2. LbaInv'
  BY <1>1, LbaStart, PTL
<1>3. /\ at' = "down" /\ WorkID' = 0 /\ req_json' = None
      /\ request'.type = "SCAN" /\ request'.table = None /\ request'.client = 0
  BY DEF End, NoRequest
<1>4. HostTypeOK'
  <2>1. WorkID' \in 0 .. requests'
    BY <1>3, HostTypes
  <2> QED BY <1>3, <2>1 DEF HostInv, HostTypeOK, ScanTypes
<1>5. StorageOK' /\ RequestOK' /\ FilesOK'
  BY <1>3 DEF HostInv, StorageOK, RequestOK, FilesOK
<1>6. NumbersOK' /\ RepliesNameWorks'
  BY <1>3, NumbersKept
<1> QED BY <1>2, <1>4, <1>5, <1>6 DEF HostInv

LEMMA HostAccept ==
  ASSUME HostInv, at = "accept", requests < MaxRequests, requests' = requests + 1,
         at' \in {"accept", "generate"},
         UNCHANGED <<lbaVars, storage, run, WorkID, req_json, scheduled, replies>>,
         request'.type \in ScanTypes, request'.table \in Tables \cup {None},
         request'.client \in Nat
  PROVE  HostInv'
<1>1. LbaInv'
  BY LbaStutter DEF HostInv
<1>2. run \in Nat /\ requests \in Nat /\ MaxRequests \in Nat /\ WorkID \in Nat /\ WorkID <= requests
  BY HostTypes DEF HostInv, HostTypeOK
<1>3. requests' \in 0 .. MaxRequests /\ WorkID' \in 0 .. requests' /\ WorkID' < requests'
  BY <1>2
<1>4. HostTypeOK'
  BY <1>3 DEF HostInv, HostTypeOK
<1>5. StorageOK' /\ RequestOK' /\ FilesOK'
  BY <1>3 DEF HostInv, StorageOK, RequestOK, FilesOK
<1>6. NumbersOK' /\ RepliesNameWorks'
  BY NumbersKept
<1> QED BY <1>1, <1>4, <1>5, <1>6 DEF HostInv

(* The request is translated, with the files that are in storage. *)
LEMMA HostTranslates ==
  ASSUME HostInv, at \in {"generate", "translate"}, LbaInv',
         at' \in {"translate", "schedule"},
         req_json' \in Known \cup {None},
         UNCHANGED <<storage, run, WorkID, request, requests, scheduled, replies>>,
         request.table \in Known => files' = storage[request.table]
  PROVE  HostInv'
<1>1. HostTypeOK'
  BY DEF HostInv, HostTypeOK
<1>2. StorageOK' /\ FilesOK'
  BY DEF HostInv, StorageOK, FilesOK
<1>3. RequestOK'
  BY DEF HostInv, RequestOK
<1>4. NumbersOK' /\ RepliesNameWorks'
  BY NumbersKept
<1> QED BY <1>1, <1>2, <1>3, <1>4 DEF HostInv

LEMMA HostGenerate == HostInv /\ Generate => HostInv'
<1> SUFFICES ASSUME HostInv, Generate PROVE HostInv'
  OBVIOUS
<1>1. /\ at = "generate" /\ request.table \in Known /\ req_json' = request.table
      /\ Call(storage[request.table])
      /\ at' = "translate"
      /\ UNCHANGED <<storage, run, WorkID, request, requests, scheduled, replies>>
  BY DEF Generate
<1>2. LbaInv'
  BY <1>1, KnownFiles, LbaCall DEF HostInv
<1>3. files' = storage[request.table]
  BY <1>1 DEF Call
<1> QED BY <1>1, <1>2, <1>3, HostTranslates

LEMMA HostGoOn == HostInv /\ GoOnWithStale => HostInv'
<1> SUFFICES ASSUME HostInv, GoOnWithStale PROVE HostInv'
  OBVIOUS
<1>1. /\ at = "generate" /\ request.table \notin Known
      /\ UNCHANGED <<storage, run, requests, scheduled, replies>>
      /\ \/ End
         \/ /\ req_json # None /\ Call(storage[req_json]) /\ at' = "translate"
            /\ UNCHANGED <<WorkID, request, req_json>>
  BY DEF GoOnWithStale
<1>2. CASE End
  <2>1. requests' \in 0 .. MaxRequests
    BY <1>1 DEF HostInv, HostTypeOK
  <2> QED BY <1>1, <1>2, <2>1, HostEnd
<1>3. CASE /\ req_json # None /\ Call(storage[req_json]) /\ at' = "translate"
           /\ UNCHANGED <<WorkID, request, req_json>>
  <2>1. req_json \in Known
    BY <1>3 DEF HostInv, HostTypeOK
  <2>2. LbaInv'
    BY <1>3, <2>1, KnownFiles, LbaCall DEF HostInv
  <2> QED BY <1>1, <1>3, <2>1, <2>2, HostTranslates
<1> QED BY <1>1, <1>2, <1>3

LEMMA HostTranslate == HostInv /\ Translate => HostInv'
<1> SUFFICES ASSUME HostInv, Translate PROVE HostInv'
  OBVIOUS
<1>1. /\ at = "translate" /\ my_LBA2PBA
      /\ at' \in {"translate", "schedule"}
      /\ UNCHANGED <<storage, run, WorkID, request, req_json, requests, scheduled, replies>>
  BY DEF Translate
<1>2. LbaInv'
  BY <1>1, LbaStep DEF HostInv
<1>3. request.table \in Known => files' = storage[request.table]
  BY <1>1, WalkKeepsFiles DEF HostInv, FilesOK
<1>4. req_json' \in Known \cup {None}
  BY <1>1 DEF HostInv, HostTypeOK
<1> QED BY <1>1, <1>2, <1>3, <1>4, HostTranslates

LEMMA HostRefuse == HostInv /\ RefuseScan => HostInv'
<1> SUFFICES ASSUME HostInv, RefuseScan PROVE HostInv'
  OBVIOUS
<1> DEFINE new == [run |-> run, client |-> request.client, type |-> request.type, id |-> -1]
<1>1. /\ at = "generate" /\ at' = "accept" /\ request.type = "SCAN"
      /\ replies' = replies \cup {new} \/ replies' = replies
      /\ UNCHANGED <<lbaVars, storage, run, WorkID, request, req_json, requests, scheduled>>
  BY DEF RefuseScan, SendInt
<1>2. LbaInv'
  BY <1>1, LbaStutter DEF HostInv
<1>3. run \in Nat /\ WorkID \in Nat
  BY HostTypes
<1>4. HostTypeOK' /\ StorageOK'
  BY <1>1 DEF HostInv, HostTypeOK, StorageOK
<1>5. RequestOK' /\ FilesOK'
  BY <1>1 DEF HostInv, RequestOK, FilesOK
<1>6. new \in Replies
  BY <1>3 DEF HostInv, HostTypeOK, RequestOK, Replies
<1>7. new.run = run /\ new.id = -1 /\ new.type = "SCAN"
  BY <1>1
<1> HIDE DEF new
<1>8. RepliesOK'
  <2>1. new.run <= run /\ new.id < WorkID
    BY <1>3, <1>7
  <2>2. \A r \in replies : r.run <= run /\ (r.run = run => r.id < WorkID)
    BY <1>1 DEF HostInv, NumbersOK, RepliesOK, NumberOK
  <2>3. replies' \subseteq Replies
    BY <1>1, <1>6 DEF HostInv, NumbersOK, RepliesOK
  <2>4. \A r \in replies' : r.run <= run /\ (r.run = run => r.id < WorkID)
    BY <1>1, <2>1, <2>2
  <2> QED BY <1>1, <2>3, <2>4 DEF RepliesOK, NumberOK
<1>9. ScheduledOK' /\ SendOK'
  <2>1. ASSUME NEW w \in scheduled
        PROVE  /\ w.run \in Nat /\ w.work_id \in Nat /\ w.run <= run
               /\ w.run = run => w.work_id < WorkID
    BY <1>1, <2>1 DEF HostInv, NumbersOK, ScheduledOK, NumberOK
  <2> QED BY <1>1, <2>1 DEF ScheduledOK, NumberOK, SendOK
<1>10. RepliesNameWorks'
  <2>1. \A w \in scheduled : w.work_id # new.id
    BY <1>7 DEF HostInv, NumbersOK, ScheduledOK
  <2> QED BY <1>1, <1>7, <2>1 DEF HostInv, RepliesNameWorks
<1> QED BY <1>2, <1>4, <1>5, <1>8, <1>9, <1>10 DEF HostInv, NumbersOK

LEMMA HostSchedule == HostInv /\ Schedule => HostInv'
<1> SUFFICES ASSUME HostInv, Schedule PROVE HostInv'
  OBVIOUS
<1> DEFINE call == [run |-> run, client |-> request.client, work_id |-> WorkID,
                    table |-> request.table, files |-> files, blocks |-> Blockinfo]
<1>1. /\ at = "schedule" /\ at' = "send"
      /\ UNCHANGED <<lbaVars, storage, run, WorkID, request, req_json, requests, replies>>
  BY DEF Schedule
<1>2. \/ request.type = "SCAN" /\ scheduled' = scheduled
      \/ request.type # "SCAN" /\ scheduled' = scheduled \cup {call}
  <2>1. scheduled' = IF request.type = "SCAN" THEN scheduled ELSE scheduled \cup {call}
    BY DEF Schedule
  <2> HIDE DEF call
  <2> QED BY <2>1
<1>3. /\ call.run = run /\ call.client = request.client /\ call.work_id = WorkID
      /\ call.table = request.table /\ call.files = files
  OBVIOUS
<1> HIDE DEF call
<1>4. LbaInv'
  BY <1>1, LbaStutter DEF HostInv
<1>5. run \in Nat /\ WorkID \in Nat
  BY HostTypes
<1>6. HostTypeOK' /\ StorageOK'
  BY <1>1 DEF HostInv, HostTypeOK, StorageOK
<1>7. RequestOK' /\ FilesOK'
  BY <1>1 DEF HostInv, RequestOK, FilesOK
<1>8. \A r \in replies : r.run <= run /\ (r.run = run => r.id \in Int /\ r.id < WorkID)
  BY <1>1 DEF HostInv, NumbersOK, RepliesOK, NumberOK, Replies
<1>9. \A w \in scheduled :
         /\ w.run \in Nat /\ w.work_id \in Nat /\ w.run <= run
         /\ w.run = run => w.work_id < WorkID
  BY <1>1 DEF HostInv, NumbersOK, ScheduledOK, NumberOK
<1>10. RepliesOK'
  BY <1>1, <1>8 DEF HostInv, NumbersOK, RepliesOK, NumberOK
<1>11. ScheduledOK'
  <2>1. ASSUME NEW w \in scheduled'
        PROVE  /\ w.run \in Nat /\ w.work_id \in Nat /\ w.run <= run
               /\ w.run = run =>
                    w.work_id < WorkID \/ (w.work_id = WorkID /\ w.client = request.client)
    BY <1>2, <1>3, <1>5, <1>9
  <2> QED BY <1>1, <2>1 DEF ScheduledOK, NumberOK
<1>12. SendOK'
  BY <1>1, <1>2, <1>3 DEF SendOK
<1>13. ASSUME NEW w \in scheduled', NEW x \in scheduled', w.run = x.run, w.work_id = x.work_id
       PROVE  w.client = x.client
  <2>1. \A v \in scheduled : ~ (v.run = call.run /\ v.work_id = call.work_id)
    BY <1>3, <1>5, <1>9
  <2>2. (w \in scheduled \/ w = call) /\ (x \in scheduled \/ x = call)
    BY <1>2
  <2> QED BY <1>13, <2>1, <2>2 DEF HostInv, RepliesNameWorks
<1>14. ASSUME NEW r \in replies
       PROVE  /\ r.type = "SCAN_N_FILTER" =>
                   \E w \in scheduled' :
                      w.run = r.run /\ w.work_id = r.id /\ w.client = r.client
              /\ \A w \in scheduled' : w.run = r.run /\ w.work_id = r.id => w.client = r.client
  <2>1. ~ (call.run = r.run /\ call.work_id = r.id)
    BY <1>3, <1>5, <1>8
  <2>2. \A w \in scheduled' : w \in scheduled \/ w = call
    BY <1>2
  <2>3. \A w \in scheduled : w \in scheduled'
    BY <1>2
  <2> QED BY <2>1, <2>2, <2>3 DEF HostInv, RepliesNameWorks
<1>15. ASSUME NEW w \in scheduled', w.table \in Known PROVE w.files = storage[w.table]
  <2>1. request.table \in Known => files = storage[request.table]
    BY <1>1 DEF HostInv, FilesOK
  <2> QED BY <1>2, <1>3, <1>15, <2>1 DEF HostInv, RepliesNameWorks
<1>16. RepliesNameWorks'
  <2>1. \A r, s \in replies : r.run = s.run /\ r.id = s.id /\ r.id # -1 => r.client = s.client
    BY DEF HostInv, RepliesNameWorks
  <2> QED BY <1>1, <1>13, <1>14, <1>15, <2>1 DEF RepliesNameWorks
<1> QED BY <1>4, <1>6, <1>7, <1>10, <1>11, <1>12, <1>16 DEF HostInv, NumbersOK

LEMMA HostSend == HostInv /\ SendWorkID => HostInv'
<1> SUFFICES ASSUME HostInv, SendWorkID PROVE HostInv'
  OBVIOUS
<1> DEFINE new == [run |-> run, client |-> request.client, type |-> request.type, id |-> WorkID]
<1>1. /\ at = "send" /\ at' = "advance"
      /\ replies' = replies \cup {new} \/ replies' = replies
      /\ UNCHANGED <<lbaVars, storage, run, WorkID, request, req_json, requests, scheduled>>
  BY DEF SendWorkID, SendInt
<1>2. LbaInv'
  BY <1>1, LbaStutter DEF HostInv
<1>3. run \in Nat /\ WorkID \in Nat
  BY HostTypes
<1>4. HostTypeOK' /\ StorageOK'
  BY <1>1 DEF HostInv, HostTypeOK, StorageOK
<1>5. RequestOK' /\ FilesOK'
  BY <1>1 DEF HostInv, RequestOK, FilesOK
<1>6. new \in Replies
  BY <1>3 DEF HostInv, HostTypeOK, RequestOK, Replies
<1>7. /\ new.run = run /\ new.id = WorkID
      /\ new.client = request.client /\ new.type = request.type
  OBVIOUS
<1> HIDE DEF new
<1>8. \A r \in replies : r.run <= run /\ (r.run = run => r.id \in Int /\ r.id < WorkID)
  BY <1>1 DEF HostInv, NumbersOK, RepliesOK, NumberOK, Replies
<1>9. \A w \in scheduled :
         /\ w.run \in Nat /\ w.work_id \in Nat /\ w.run <= run
         /\ w.run = run =>
              w.work_id < WorkID \/ (w.work_id = WorkID /\ w.client = request.client)
  BY <1>1 DEF HostInv, NumbersOK, ScheduledOK, NumberOK
<1>10. RepliesOK'
  <2>1. replies' \subseteq Replies
    BY <1>1, <1>6 DEF HostInv, NumbersOK, RepliesOK
  <2>2. ASSUME NEW r \in replies'
        PROVE  r.run <= run /\ (r.run = run => r.id < WorkID \/
                                  (r.id = WorkID /\ r.client = request.client))
    BY <1>1, <1>3, <1>7, <1>8
  <2> QED BY <1>1, <2>1, <2>2 DEF RepliesOK, NumberOK
<1>11. ScheduledOK' /\ SendOK'
  BY <1>1, <1>9 DEF ScheduledOK, NumberOK, SendOK
<1>12. ASSUME NEW r \in replies', NEW s \in replies',
              r.run = s.run, r.id = s.id, r.id # -1
       PROVE  r.client = s.client
  <2>1. \A q \in replies : ~ (q.run = new.run /\ q.id = new.id)
    BY <1>3, <1>7, <1>8
  <2>2. (r \in replies \/ r = new) /\ (s \in replies \/ s = new)
    BY <1>1
  <2> QED BY <1>12, <2>1, <2>2 DEF HostInv, RepliesNameWorks
<1>13. ASSUME NEW r \in replies'
       PROVE  /\ r.type = "SCAN_N_FILTER" =>
                   \E w \in scheduled :
                      w.run = r.run /\ w.work_id = r.id /\ w.client = r.client
              /\ \A w \in scheduled : w.run = r.run /\ w.work_id = r.id => w.client = r.client
  <2>1. CASE r \in replies
    BY <2>1 DEF HostInv, RepliesNameWorks
  <2>2. CASE r = new
    <3>1. request.type = "SCAN_N_FILTER" =>
             \E w \in scheduled : w.run = run /\ w.work_id = WorkID /\ w.client = request.client
      BY <1>1 DEF HostInv, NumbersOK, SendOK
    <3>2. \A w \in scheduled : w.run = run /\ w.work_id = WorkID => w.client = request.client
      BY <1>3, <1>9
    <3> QED BY <1>7, <2>2, <3>1, <3>2
  <2> QED BY <1>1, <2>1, <2>2
<1>14. RepliesNameWorks'
  <2>1. /\ \A w, x \in scheduled : w.run = x.run /\ w.work_id = x.work_id => w.client = x.client
        /\ \A w \in scheduled : w.table \in Known => w.files = storage[w.table]
    BY DEF HostInv, RepliesNameWorks
  <2> QED BY <1>1, <1>12, <1>13, <2>1 DEF RepliesNameWorks
<1> QED BY <1>2, <1>4, <1>5, <1>10, <1>11, <1>14 DEF HostInv, NumbersOK

LEMMA HostAdvance == HostInv /\ Advance => HostInv'
<1> SUFFICES ASSUME HostInv, Advance PROVE HostInv'
  OBVIOUS
<1>1. /\ at = "advance" /\ at' = "accept" /\ WorkID' = WorkID + 1
      /\ UNCHANGED <<lbaVars, storage, run, request, req_json, requests, scheduled, replies>>
  BY DEF Advance, NextWorkID
<1>2. LbaInv'
  BY <1>1, LbaStutter DEF HostInv
<1>3. run \in Nat /\ WorkID \in Nat /\ requests \in Nat /\ WorkID < requests
  BY <1>1, HostTypes DEF HostInv, RequestOK
<1>4. HostTypeOK' /\ StorageOK'
  <2>1. WorkID' \in 0 .. requests'
    BY <1>1, <1>3
  <2> QED BY <1>1, <2>1 DEF HostInv, HostTypeOK, StorageOK
<1>5. RequestOK' /\ FilesOK'
  BY <1>1 DEF HostInv, RequestOK, FilesOK
<1>6. ASSUME NEW n \in Int, NEW c, NEW stages, NumberOK(n, c, stages) PROVE n < WorkID'
  BY <1>1, <1>3, <1>6 DEF NumberOK
<1>7. RepliesOK'
  <2>1. ASSUME NEW r \in replies PROVE r.run <= run /\ (r.run = run => r.id < WorkID')
    <3>1. r.id \in Int
      BY DEF HostInv, NumbersOK, RepliesOK, Replies
    <3> QED BY <1>1, <1>6, <3>1 DEF HostInv, NumbersOK, RepliesOK
  <2> QED BY <1>1, <2>1 DEF HostInv, NumbersOK, RepliesOK, NumberOK
<1>8. ScheduledOK' /\ SendOK'
  <2>1. ASSUME NEW w \in scheduled
        PROVE  /\ w.run \in Nat /\ w.work_id \in Nat /\ w.run <= run
               /\ w.run = run => w.work_id < WorkID'
    BY <1>1, <1>6 DEF HostInv, NumbersOK, ScheduledOK
  <2> QED BY <1>1, <2>1 DEF ScheduledOK, NumberOK, SendOK
<1>9. RepliesNameWorks'
  BY <1>1 DEF HostInv, RepliesNameWorks
<1> QED BY <1>2, <1>4, <1>5, <1>7, <1>8, <1>9 DEF HostInv, NumbersOK

LEMMA HostStep == HostInv /\ [HostNext]_hostVars => HostInv'
<1> SUFFICES ASSUME HostInv, [HostNext]_hostVars PROVE HostInv'
  OBVIOUS
<1>1. ASSUME NEW type \in ScanTypes, NEW table \in Tables, AcceptScan(type, table)
      PROVE  HostInv'
  <2>1. request'.type = type /\ request'.table = table /\ request'.client = requests + 1
    BY <1>1 DEF AcceptScan
  <2>2. requests + 1 \in Nat
    BY HostTypes
  <2>3. /\ at = "accept" /\ requests < MaxRequests /\ requests' = requests + 1
        /\ at' \in {"accept", "generate"}
        /\ UNCHANGED <<lbaVars, storage, run, WorkID, req_json, scheduled, replies>>
    BY <1>1 DEF AcceptScan
  <2> QED BY <2>1, <2>2, <2>3, HostAccept
<1>2. CASE AcceptOther
  <2>1. /\ at = "accept" /\ requests < MaxRequests /\ requests' = requests + 1
        /\ at' \in {"accept", "generate"} /\ request' = request
        /\ UNCHANGED <<lbaVars, storage, run, WorkID, req_json, scheduled, replies>>
    BY <1>2 DEF AcceptOther
  <2>2. request.type \in ScanTypes /\ request.table \in Tables \cup {None} /\ request.client \in Nat
    BY DEF HostInv, HostTypeOK, RequestOK
  <2> QED BY <2>1, <2>2, HostAccept
<1>3. CASE AcceptPart \/ HostEnds
  <2>1. End /\ UNCHANGED <<storage, run, scheduled, replies>>
    BY <1>3 DEF AcceptPart, HostEnds
  <2>2. requests' \in 0 .. MaxRequests
    BY <1>3, HostTypes DEF AcceptPart, HostEnds, HostInv, HostTypeOK
  <2> QED BY <2>1, <2>2, HostEnd
<1>4. CASE UNCHANGED hostVars
  <2>1. UNCHANGED <<lbaVars, at, run, storage, WorkID, request, req_json, requests, scheduled,
                    replies>>
    BY <1>4 DEF hostVars
  <2>2. LbaInv'
    BY <2>1, LbaStutter DEF HostInv
  <2>3. files' = files
    BY <2>1 DEF lbaVars
  <2>4. HostTypeOK' /\ StorageOK' /\ RequestOK' /\ FilesOK' /\ RepliesNameWorks'
    BY <2>1, <2>3 DEF HostInv, HostTypeOK, StorageOK, RequestOK, FilesOK, RepliesNameWorks
  <2>5. NumbersOK'
    BY <2>1 DEF HostInv, NumbersOK, RepliesOK, ScheduledOK, SendOK, NumberOK
  <2> QED BY <2>2, <2>4, <2>5 DEF HostInv
<1> QED BY <1>1, <1>2, <1>3, <1>4, HostMain, HostGenerate, HostRefuse, HostGoOn, HostTranslate,
           HostSchedule, HostSend, HostAdvance DEF HostNext

LEMMA HostAlways == HostSpec => []HostInv
BY HostStart, HostStep, PTL DEF HostSpec

(* The type invariant of the host's server. *)
THEOREM HostTypeCorrect == HostSpec => []HostTypeOK
<1>1. HostInv => HostTypeOK
  BY DEF HostInv
<1> QED BY <1>1, HostAlways, PTL

(* Within each run of the program a number names one work, for any number   *)
(* of requests and runs, also if replies are lost and whenever the program  *)
(* ends: the work of the client that got the number, scheduled with the     *)
(* files of its table if that is known (temp.cc, accept_connection).        *)
THEOREM NumbersCorrect == HostSpec => []RepliesNameWorks
<1>1. HostInv => RepliesNameWorks
  BY DEF HostInv
<1> QED BY <1>1, HostAlways, PTL

(* For every map of a file whose numbers fit an int (FitsInt), the pieces   *)
(* of the chunks that can be mapped are where the bytes are, in order       *)
(* (temp.cc, my_LBA2PBA).                                                   *)
THEOREM LocateCorrect == HostSpec => []PiecesLocateBytes
<1>1. HostInv => PiecesLocateBytes
  BY LbaProperties DEF HostInv
<1> QED BY <1>1, HostAlways, PTL

(* For every map of a file whose numbers fit an int, if all chunks end      *)
(* within the file then the pieces of each lead from its beginning to its   *)
(* end (temp.cc, my_LBA2PBA).                                               *)
THEOREM AddUpCorrect == HostSpec => []PiecesAddUp
<1>1. HostInv => PiecesAddUp
  BY LbaProperties DEF HostInv
<1> QED BY <1>1, HostAlways, PTL
=============================================================================
