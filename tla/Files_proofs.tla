------------------------------ MODULE Files_proofs ------------------------------
(***************************************************************************)
(* The file system and the descriptor tables keep their promises for every *)
(* set of images with the layout of fs.h, any names, commands and sizes of *)
(* reads, and any number of slots and descriptors.                         *)
(*                                                                         *)
(* The argument has three parts: what the loop of read_data copies is a    *)
(* stretch of the file's contents, taken block by block; a name that       *)
(* strncmp accepts is the name of the entry; and the invariant IInv says   *)
(* of each descriptor what has been read through it, of each running       *)
(* program what launched it, and of each free slot that its table is       *)
(* closed.                                                                 *)
(***************************************************************************)
EXTENDS Files, Recursion_proofs, TLAPS

-----------------------------------------------------------------------------
(* The inductive invariant *)

Types ==
  /\ image \in Images
  /\ current_pid \in Slots
  /\ fd_arr \in [Slots -> [Fds -> file_desc_t]]
  /\ argument \in [Slots -> Seq(STRING)]
  /\ got \in [Slots -> [Fds -> Seq(STRING)]]
  /\ command \in [Slots -> Seq(STRING)]
  /\ DOMAIN loaded = Slots

StandardOpen == \A p \in Live : {STDIN, STDOUT} \subseteq OpenFds(p)

\* The table of a slot that is not in use is closed.
FreeClosed == \A p \in Slots : p > current_pid => fd_arr[p] = AllClosed

\* The argument of a program is what execute kept of that of the command that
\* launched it.
LaunchedBy ==
  \A p \in Slots : p > 0 /\ p <= current_pid =>
    command[p] \in Commands /\ argument[p] = Kept(ArgumentOf(command[p]))

DirNames == [k \in DOMAIN image.dir_entries |-> Padded(image.dir_entries[k].filename)]

DirBytes == FlattenSeq(DirNames)

\* bytes are what has been read through a descriptor.
InOrder(fdesc, bytes) ==
  /\ fdesc.type = FTYPE_DIR =>
       fdesc.file_pos <= Len(DirBytes) /\ bytes = SubSeq(DirBytes, 1, fdesc.file_pos)
  /\ fdesc.type = FTYPE_FILE /\ fdesc.inode \in Inodes =>
       /\ fdesc.file_pos <= Len(Contents(fdesc.inode))
       /\ bytes = SubSeq(Contents(fdesc.inode), 1, fdesc.file_pos)

ReadInv ==
  \A p \in Slots, fd \in Fds :
    p <= current_pid /\ fd_arr[p][fd].open => InOrder(fd_arr[p][fd], got[p][fd])

\* bytes are the file of the program that a command names.
LoadedFor(cmd, bytes) ==
  \E k \in DOMAIN image.dir_entries :
    /\ image.dir_entries[k].filename = ProgramOf(cmd)
    /\ Healthy(image.dir_entries[k].inode_num) => bytes = Contents(image.dir_entries[k].inode_num)

LoadInv == \A p \in Slots : p > 0 /\ p <= current_pid => LoadedFor(command[p], loaded[p])

IInv ==
  /\ Types
  /\ StandardOpen
  /\ FreeClosed
  /\ LaunchedBy
  /\ ReadInv
  /\ LoadInv

LEMMA Sizes ==
  /\ BLOCK_SIZE \in Nat \ {0} /\ FILENAME_CHAR_LIMIT \in Nat \ {0}
  /\ MAX_NUM_FD \in Nat /\ MAX_NUM_FD >= 2 /\ PROCESS_NUM \in Nat /\ PROCESS_NUM > 0
  /\ NUL \in STRING
BY FilesAssumption

-----------------------------------------------------------------------------
(* What read_data copies *)

Node(inode) == image.nodes[inode + 1]

BlockOf(inode, j) == Node(inode).data_block[(j \div BLOCK_SIZE) + 1]

FileByte(inode, j) == image.blocks[BlockOf(inode, j) + 1][(j % BLOCK_SIZE) + 1]

\* Byte j belongs to the file and its block is in range.
Readable(inode, j) == j < Node(inode).length /\ BlockOf(inode, j) < Len(image.blocks)

\* An inode of the image that the boot loader put in memory.
IsFile(inode) == image \in Images /\ inode \in Inodes

LEMMA NodeFacts ==
  ASSUME NEW inode, IsFile(inode)
  PROVE  /\ inode \in Nat
         /\ Node(inode).length \in Nat
         /\ Node(inode).data_block \in Seq(Nat)
         /\ Node(inode).length <= BLOCK_SIZE * Len(Node(inode).data_block)
         /\ image.blocks \in Seq(Seq(STRING))
         /\ \A k \in 1..Len(image.blocks) : Len(image.blocks[k]) = BLOCK_SIZE
<1>1. /\ image.nodes \in Seq(node_t)
      /\ \A k \in 1..Len(image.nodes) :
           image.nodes[k].length <= BLOCK_SIZE * Len(image.nodes[k].data_block)
      /\ image.blocks \in Seq(Seq(STRING))
      /\ \A k \in 1..Len(image.blocks) : Len(image.blocks[k]) = BLOCK_SIZE
  BY ImagesAssumption, Zenon DEF IsFile
<1>2. inode \in Nat /\ inode + 1 \in 1..Len(image.nodes)
  BY <1>1 DEF IsFile, Inodes
<1>3. image.nodes[inode + 1] \in node_t
  BY <1>1, <1>2
<1> QED
  BY <1>1, <1>2, <1>3 DEF Node, node_t

LEMMA BlockFacts ==
  ASSUME NEW inode, IsFile(inode), NEW j \in Nat, j < Node(inode).length
  PROVE  /\ j \div BLOCK_SIZE \in 0..(Len(Node(inode).data_block) - 1)
         /\ BlockOf(inode, j) \in Nat
<1>1. PICK n \in Nat, m \in Nat :
           n = Len(Node(inode).data_block) /\ m = Node(inode).length /\ m <= BLOCK_SIZE * n
  BY NodeFacts
<1>2. BLOCK_SIZE \in Nat \ {0}
  BY Sizes
<1>3. j \div BLOCK_SIZE \in 0..(n - 1)
  BY <1>1, <1>2, DivBelow
<1> QED
  BY <1>1, <1>3, NodeFacts, SMTT(30) DEF BlockOf

\* c bytes are copied: readable ones until the count or the end of the file, or
\* none because of a byte of the file whose block is out of range.
Copies(inode, offset, count, c) ==
  /\ c = Error \/ c \in 0..count
  /\ read_data(inode, offset, count) =
       [cnt |-> c, data |-> [k \in 1..Max({c, 0}) |-> FileByte(inode, offset + k - 1)]]
  /\ c # Error => \A i \in 0..(c - 1) : Readable(inode, offset + i)
  /\ c # Error => c = count \/ offset + c >= Node(inode).length
  /\ c = Error =>
       \E j \in Nat : j < Node(inode).length /\ ~(BlockOf(inode, j) < Len(image.blocks))

\* This is what the loop of read_data does.
LEMMA ReadFacts ==
  ASSUME NEW inode, IsFile(inode), NEW offset \in Nat, NEW count \in Nat
  PROVE  \E c \in Int : Copies(inode, offset, count, c)
<1> DEFINE Ends(j) == j >= Node(inode).length
           Fails(j) == BlockOf(inode, j) >= Len(image.blocks)
           stops == {i \in 0..(count - 1) : Ends(offset + i) \/ Fails(offset + i)}
           c == IF stops = {} THEN count
                ELSE IF Ends(offset + Min(stops)) THEN Min(stops) ELSE Error
<1>1. inode \in Inodes
  BY DEF IsFile
<1>2. read_data(inode, offset, count) =
        [cnt |-> c, data |-> [k \in 1..Max({c, 0}) |-> FileByte(inode, offset + k - 1)]]
  BY <1>1, Zenon DEF read_data, CopyLoop, FileByte, BlockOf, Node, BadBlock
<1>3. stops # {} => Min(stops) \in stops /\ Min(stops) \in 0..(count - 1) /\ \A i \in stops : Min(stops) <= i
  <2>1. stops \subseteq Nat
    OBVIOUS
  <2> QED
    BY <2>1, MinFacts
<1>4. PICK N \in Nat, M \in Nat : N = Node(inode).length /\ M = Len(image.blocks)
  BY NodeFacts
<1>5. ASSUME NEW i \in 0..(count - 1), i \notin stops
      PROVE  Readable(inode, offset + i)
  <2>1. ~Ends(offset + i) /\ ~Fails(offset + i) /\ offset + i \in Nat
    BY <1>5
  <2>2. offset + i < Node(inode).length
    BY <1>4, <2>1
  <2>3. BlockOf(inode, offset + i) \in Nat
    BY <2>1, <2>2, BlockFacts
  <2> QED
    BY <1>4, <2>1, <2>2, <2>3 DEF Readable
<1> HIDE DEF stops
<1>6. CASE stops = {}
  <2>1. c = count /\ count # Error /\ count \in Int /\ count \in 0..count
    BY <1>6 DEF Error
  <2>2. \A i \in 0..(count - 1) : Readable(inode, offset + i)
    BY <1>5, <1>6
  <2> HIDE DEF c, Ends, Fails
  <2>9. Copies(inode, offset, count, count)
    BY <1>2, <2>1, <2>2 DEF Copies
  <2> QED
    BY <2>1, <2>9, Zenon
<1>7. CASE stops # {} /\ Ends(offset + Min(stops))
  <2>1. PICK m \in 0..(count - 1) : m = Min(stops) /\ c = m /\ offset + m >= Node(inode).length /\ \A i \in stops : m <= i
    BY <1>3, <1>7
  <2>2. \A i \in 0..(m - 1) : Readable(inode, offset + i)
    BY <1>5, <2>1
  <2>3. m # Error /\ m \in Int /\ m \in 0..count
    BY DEF Error
  <2> HIDE DEF c, Ends, Fails
  <2>9. Copies(inode, offset, count, m)
    BY <1>2, <2>1, <2>2, <2>3 DEF Copies
  <2> QED
    BY <2>3, <2>9, Zenon
<1>8. CASE stops # {} /\ ~Ends(offset + Min(stops))
  <2>1. PICK m \in 0..(count - 1) : m = Min(stops) /\ c = Error /\ ~Ends(offset + m) /\ m \in stops
    BY <1>3, <1>8
  <2>2. Fails(offset + m) /\ offset + m \in Nat
    BY <2>1 DEF stops
  <2>3. offset + m < Node(inode).length
    BY <1>4, <2>1, <2>2
  <2>4. BlockOf(inode, offset + m) \in Nat
    BY <2>2, <2>3, BlockFacts
  <2>5. ~(BlockOf(inode, offset + m) < Len(image.blocks))
    BY <1>4, <2>2, <2>4
  <2>6. Error \in Int
    BY DEF Error
  <2> HIDE DEF c, Ends, Fails
  <2>9. Copies(inode, offset, count, Error)
    BY <1>2, <2>1, <2>2, <2>3, <2>5, <2>6 DEF Copies
  <2> QED
    BY <2>6, <2>9, Zenon
<1> QED
  BY <1>6, <1>7, <1>8, Zenon

-----------------------------------------------------------------------------
(* The contents of a file *)

\* The first L bytes of the file, and no more of it can be read.
Holds(inode, L) ==
  /\ Contents(inode) \in Seq(STRING) /\ Len(Contents(inode)) = L
  /\ \A j \in Nat : j < L => Contents(inode)[j + 1] = FileByte(inode, j)
  /\ L <= Node(inode).length
  /\ L < Node(inode).length => ~Readable(inode, L)

LEMMA ContentsFacts ==
  ASSUME NEW inode, IsFile(inode)
  PROVE  \E L \in Nat : Holds(inode, L)
<1> DEFINE nb == Node(inode).data_block
           n == Len(nb)
           bad == {k \in DOMAIN nb : nb[k] >= Len(image.blocks)}
           good == Min(bad \cup {n + 1}) - 1
           pieces == [k \in 1..good |-> image.blocks[nb[k] + 1]]
           bytes == FlattenSeq(pieces)
           size == Node(inode).length
           L == Min({size, Len(bytes)})
<1>1. Contents(inode) = SubSeq(bytes, 1, L)
  BY Zenon DEF Contents, Node
<1>2. /\ nb \in Seq(Nat) /\ n \in Nat /\ DOMAIN nb = 1..n
      /\ size \in Nat /\ size <= BLOCK_SIZE * n
      /\ image.blocks \in Seq(Seq(STRING))
      /\ \A k \in 1..Len(image.blocks) : Len(image.blocks[k]) = BLOCK_SIZE
  BY NodeFacts
<1> HIDE DEF nb, n, size
<1>3. /\ good \in 0..n
      /\ good < n => good + 1 \in bad
      /\ \A k \in 1..good : k \in 1..n /\ k \notin bad
  <2> DEFINE T == bad \cup {n + 1}
  <2>1. T \subseteq Nat /\ T # {} /\ \A x \in T : x \in 1..(n + 1)
    BY <1>2
  <2> HIDE DEF T
  <2>2. Min(T) \in T /\ Min(T) \in Nat /\ \A y \in T : Min(T) <= y
    BY <2>1, MinFacts
  <2>3. PICK m \in 1..(n + 1) : m = Min(T) /\ good = m - 1
    BY <2>1, <2>2 DEF T
  <2> HIDE DEF good
  <2> USE DEF T
  <2>4. n \in Nat
    BY <1>2
  <2>5. m <= n => m \in bad
    BY <2>2, <2>3, <2>4
  <2>6. \A k \in bad : m <= k
    BY <2>2, <2>3
  <2> HIDE DEF T, bad
  <2> QED
    BY <2>3, <2>4, <2>5, <2>6
<1> HIDE DEF good
<1>4. ASSUME NEW k \in 1..good
      PROVE  nb[k] \in Nat /\ nb[k] + 1 \in 1..Len(image.blocks)
  <2>1. k \in DOMAIN nb /\ k \notin bad /\ nb[k] \in Nat /\ Len(image.blocks) \in Nat
    BY <1>2, <1>3
  <2> QED
    BY <2>1
<1>5. /\ bytes \in Seq(STRING) /\ Len(bytes) = BLOCK_SIZE * good
      /\ \A j \in Nat : j < BLOCK_SIZE * good => bytes[j + 1] = FileByte(inode, j)
  <2>1. CASE good = 0
    <3>1. pieces = <<>>
      BY <2>1
    <3>2. bytes = <<>>
      BY <3>1 DEF FlattenSeq
    <3>3. BLOCK_SIZE * good = 0
      BY <2>1, Sizes
    <3> HIDE DEF bytes
    <3> QED
      BY <3>2, <3>3
  <2>2. CASE good # 0
    <3>1. PICK g \in Nat \ {0} : g = good
      BY <1>3, <2>2
    <3>2. \A k \in 1..g : pieces[k] = image.blocks[nb[k] + 1] /\ pieces[k] \in Seq(STRING) /\ Len(pieces[k]) = BLOCK_SIZE
      BY <1>2, <1>4, <3>1, SMTT(30)
    <3>3. Len(pieces) = g
      BY <3>1
    <3> HIDE DEF pieces
    <3>4. Pieces(pieces, g, STRING)
      BY <3>2, <3>3 DEF Pieces
    <3>5. Len(pieces[g]) = BLOCK_SIZE /\ \A i \in 1..(g - 1) : Len(pieces[i]) = BLOCK_SIZE
      BY <3>2
    <3>6. /\ bytes \in Seq(STRING) /\ Len(bytes) = BLOCK_SIZE * (g - 1) + Len(pieces[g])
          /\ \A j \in Nat : j < Len(bytes) =>
               bytes[j + 1] = pieces[(j \div BLOCK_SIZE) + 1][(j % BLOCK_SIZE) + 1]
      <4>1. InBlocks(pieces, g, STRING, BLOCK_SIZE) /\ BLOCK_SIZE \in Nat \ {0}
        BY <3>4, <3>5, Sizes DEF InBlocks
      <4>2. Blockwise(bytes, pieces, g, STRING, BLOCK_SIZE)
        BY <4>1, FlattenBlocks
      <4> QED
        BY <4>2, Zenon DEF Blockwise
    <3> HIDE DEF bytes
    <3>7. Len(bytes) = BLOCK_SIZE * g
      BY <3>5, <3>6, Sizes
    <3>8. ASSUME NEW j \in Nat, j < BLOCK_SIZE * g
          PROVE  bytes[j + 1] = FileByte(inode, j)
      <4>1. PICK q \in Nat, r \in 0..(BLOCK_SIZE - 1) :
              j = BLOCK_SIZE * q + r /\ q = j \div BLOCK_SIZE /\ r = j % BLOCK_SIZE
        BY DivFacts, Sizes
      <4>2. BLOCK_SIZE * g \in Nat /\ BLOCK_SIZE \in Nat \ {0}
        BY Sizes
      <4>3. q \in 0..(g - 1)
        BY <3>8, <4>1, <4>2, DivBelow
      <4>4. q + 1 \in 1..g
        BY <4>3
      <4>5. bytes[j + 1] = image.blocks[nb[q + 1] + 1][r + 1]
        BY <3>2, <3>6, <3>7, <3>8, <4>1, <4>4, ZenonT(30)
      <4> QED
        BY <4>1, <4>5 DEF FileByte, BlockOf, nb
    <3> QED
      BY <3>1, <3>6, <3>7, <3>8
  <2> QED
    BY <2>1, <2>2
<1> HIDE DEF bytes, bad
<1>6. BLOCK_SIZE * good \in Nat
  BY <1>3, Sizes
<1>7. PICK b \in Nat : b = BLOCK_SIZE * good /\ b = Len(bytes)
  BY <1>5, <1>6
<1>8. L = IF size <= b THEN size ELSE b
  <2>1. size \in Int /\ b \in Int
    BY <1>2
  <2> QED
    BY <1>7, <2>1, MinOfTwo
<1>9. L \in Nat /\ L <= size /\ L <= b /\ (L < size => L = b)
  BY <1>2, <1>8
<1> HIDE DEF L
<1>10. /\ Contents(inode) \in Seq(STRING) /\ Len(Contents(inode)) = L
       /\ \A k \in 1..L : Contents(inode)[k] = bytes[k]
  BY <1>1, <1>5, <1>7, <1>9, Prefix
<1>11. \A j \in Nat : j < L => Contents(inode)[j + 1] = FileByte(inode, j)
  <2> SUFFICES ASSUME NEW j \in Nat, j < L
               PROVE  Contents(inode)[j + 1] = FileByte(inode, j)
    OBVIOUS
  <2>1. j + 1 \in 1..L /\ j < b
    BY <1>9
  <2> QED
    BY <1>5, <1>7, <1>10, <2>1
<1>12. L < size => ~Readable(inode, L)
  <2> SUFFICES ASSUME L < size
               PROVE  ~Readable(inode, L)
    OBVIOUS
  <2>1. L = BLOCK_SIZE * good /\ good \in Nat /\ BLOCK_SIZE \in Nat \ {0}
    BY <1>3, <1>7, <1>9, Sizes
  <2>2. L = BLOCK_SIZE * good + 0 /\ 0 \in 0..(BLOCK_SIZE - 1)
    BY <1>9, <2>1
  <2>3. L \div BLOCK_SIZE = good
    BY <1>9, <2>1, <2>2, DivUnique
  <2>4. good < n
    BY <1>2, <1>9, <2>1, <2>3, DivBelow
  <2>5. BlockOf(inode, L) = nb[good + 1]
    BY <2>3 DEF BlockOf, nb
  <2>6. nb[good + 1] \in Nat /\ nb[good + 1] >= Len(image.blocks) /\ Len(image.blocks) \in Nat
    BY <1>2, <1>3, <2>4 DEF bad
  <2> QED
    BY <2>5, <2>6 DEF Readable
<1> QED
  BY <1>9, <1>10, <1>11, <1>12 DEF Holds, size

\* data is the stretch of c bytes after the first pos bytes of a file of length L.
Stretch(data, inode, pos, c, L) ==
  /\ pos + c <= L
  /\ data \in Seq(STRING) /\ Len(data) = c
  /\ \A k \in 1..c : data[k] = Contents(inode)[pos + k]

\* A read at a position of the file copies the bytes that follow it there.
LEMMA ReadStretch ==
  ASSUME NEW inode, IsFile(inode), NEW pos \in Nat, NEW count \in Nat, NEW c \in Nat,
         NEW L \in Nat, Holds(inode, L), pos <= L, Copies(inode, pos, count, c)
  PROVE  Stretch(read_data(inode, pos, count).data, inode, pos, c, L)
<1> DEFINE data == read_data(inode, pos, count).data
<1>1. /\ c # Error
      /\ data = [k \in 1..c |-> FileByte(inode, pos + k - 1)]
      /\ \A i \in 0..(c - 1) : Readable(inode, pos + i)
  <2>1. c # Error /\ Max({c, 0}) = c
    BY MaxWithZero DEF Error
  <2> QED
    BY <2>1 DEF Copies
<1>2. pos + c <= L
  <2> SUFFICES ASSUME pos + c > L
               PROVE  FALSE
    OBVIOUS
  <2>1. L - pos \in 0..(c - 1) /\ pos + (L - pos) = L
    OBVIOUS
  <2>2. Readable(inode, L)
    BY <1>1, <2>1
  <2>3. L < Node(inode).length
    BY <2>2 DEF Readable
  <2> QED
    BY <2>2, <2>3 DEF Holds
<1> HIDE DEF data
<1>3. ASSUME NEW k \in 1..c
      PROVE  data[k] = Contents(inode)[pos + k] /\ data[k] \in STRING
  <2>1. pos + k - 1 \in Nat /\ pos + k - 1 < L /\ (pos + k - 1) + 1 = pos + k /\ pos + k \in 1..L
    BY <1>2
  <2>2. Contents(inode)[(pos + k - 1) + 1] = FileByte(inode, pos + k - 1)
    BY <2>1 DEF Holds
  <2>3. Contents(inode)[pos + k] \in STRING
    BY <2>1 DEF Holds
  <2> QED
    BY <1>1, <2>1, <2>2, <2>3
<1>4. data \in Seq(STRING) /\ Len(data) = c
  <2>1. data \in [1..c -> STRING]
    BY <1>1, <1>3
  <2> QED
    BY <2>1
<1> QED
  BY <1>2, <1>3, <1>4, Zenon DEF data, Stretch

-----------------------------------------------------------------------------
(* The directory *)

DirByte(j) ==
  Padded(image.dir_entries[(j \div FILENAME_CHAR_LIMIT) + 1].filename)[(j % FILENAME_CHAR_LIMIT) + 1]

LEMMA EntryFacts ==
  ASSUME image \in Images
  PROVE  /\ image.dir_entries \in Seq(dir_entry_t) /\ Len(image.dir_entries) \in Nat
         /\ DOMAIN image.dir_entries = 1..Len(image.dir_entries)
         /\ \A k \in 1..Len(image.dir_entries) :
              /\ image.dir_entries[k] \in dir_entry_t
              /\ image.dir_entries[k].filename \in Seq(STRING)
              /\ image.dir_entries[k].type \in Nat
              /\ image.dir_entries[k].inode_num \in Nat
<1>1. image.dir_entries \in Seq(dir_entry_t)
  BY ImagesAssumption, Zenon
<1>2. \A k \in 1..Len(image.dir_entries) : image.dir_entries[k] \in dir_entry_t
  BY <1>1
<1> QED
  BY <1>1, <1>2, SMTT(30) DEF dir_entry_t

\* A name fits its entry and has no terminator inside.
LEMMA EntryNames ==
  ASSUME image \in Images, NEW k \in 1..Len(image.dir_entries),
         NEW name, name = image.dir_entries[k].filename
  PROVE  /\ name \in Seq(STRING) /\ Len(name) \in Nat /\ Len(name) <= FILENAME_CHAR_LIMIT
         /\ \A i \in 1..Len(name) : name[i] # NUL
<1>1. /\ Len(image.dir_entries[k].filename) <= FILENAME_CHAR_LIMIT
      /\ \A i \in 1..Len(image.dir_entries[k].filename) : image.dir_entries[k].filename[i] # NUL
  BY ImagesAssumption, Zenon
<1>2. name \in Seq(STRING)
  BY EntryFacts
<1> QED
  BY <1>1, <1>2

LEMMA PaddedFacts ==
  ASSUME NEW name \in Seq(STRING)
  PROVE  /\ Padded(name) \in Seq(STRING) /\ Len(Padded(name)) = FILENAME_CHAR_LIMIT
         /\ \A k \in 1..FILENAME_CHAR_LIMIT :
              Padded(name)[k] = IF k <= Len(name) THEN name[k] ELSE NUL
<1>1. NUL \in STRING
  BY Sizes
<1>2. ASSUME NEW k \in 1..FILENAME_CHAR_LIMIT
      PROVE  (IF k <= Len(name) THEN name[k] ELSE NUL) \in STRING
  <2>1. k <= Len(name) => name[k] \in STRING
    BY Sizes
  <2> QED
    BY <1>1, <2>1
<1>3. Padded(name) \in [1..FILENAME_CHAR_LIMIT -> STRING]
  BY <1>2 DEF Padded
<1>4. Padded(name) \in Seq(STRING) /\ Len(Padded(name)) = FILENAME_CHAR_LIMIT
  BY <1>3, Sizes
<1> QED
  BY <1>4 DEF Padded

LEMMA DirFacts ==
  ASSUME image \in Images
  PROVE  /\ DirBytes \in Seq(STRING)
         /\ Len(DirBytes) = FILENAME_CHAR_LIMIT * Len(image.dir_entries)
         /\ \A j \in Nat : j < Len(DirBytes) => DirBytes[j + 1] = DirByte(j)
<1>1. PICK n \in Nat : n = Len(image.dir_entries) /\ DOMAIN image.dir_entries = 1..n
  BY EntryFacts
<1>2. PICK B \in Nat \ {0} : B = FILENAME_CHAR_LIMIT
  BY Sizes
<1>3. DirNames = [k \in 1..n |-> Padded(image.dir_entries[k].filename)]
  BY <1>1 DEF DirNames
<1>4. CASE n = 0
  <2>1. DirNames = <<>>
    BY <1>3, <1>4
  <2>2. DirBytes = <<>>
    BY <2>1 DEF DirBytes, FlattenSeq
  <2>3. FILENAME_CHAR_LIMIT * Len(image.dir_entries) = 0
    BY <1>1, <1>2, <1>4
  <2> QED
    BY <2>2, <2>3
<1>5. CASE n # 0
  <2>1. \A k \in 1..n : DirNames[k] = Padded(image.dir_entries[k].filename)
    BY <1>3
  <2>2. \A k \in 1..n : DirNames[k] \in Seq(STRING) /\ Len(DirNames[k]) = B
    <3> TAKE k \in 1..n
    <3>1. image.dir_entries[k].filename \in Seq(STRING)
      BY <1>1, EntryFacts
    <3> QED
      BY <1>2, <2>1, <3>1, PaddedFacts
  <2>3. Len(DirNames) = n
    BY <1>3
  <2>4. InBlocks(DirNames, n, STRING, B) /\ n \in Nat \ {0}
    BY <1>5, <2>2, <2>3 DEF InBlocks, Pieces
  <2>5. Blockwise(DirBytes, DirNames, n, STRING, B)
    BY <2>4, FlattenBlocks DEF DirBytes
  <2>6. /\ DirBytes \in Seq(STRING) /\ Len(DirBytes) = B * (n - 1) + Len(DirNames[n])
        /\ \A j \in Nat : j < Len(DirBytes) => DirBytes[j + 1] = DirNames[(j \div B) + 1][(j % B) + 1]
    BY <2>5, Zenon DEF Blockwise
  <2>7. Len(DirBytes) = B * n
    <3>1. Len(DirNames[n]) = B
      BY <1>5, <2>2
    <3>2. Len(DirBytes) = B * (n - 1) + B
      BY <2>6, <3>1, Zenon
    <3> QED
      BY <3>2
  <2>8. ASSUME NEW j \in Nat, j < Len(DirBytes)
        PROVE  DirBytes[j + 1] = DirByte(j)
    <3>1. B * n \in Nat /\ B * n <= B * n /\ j < B * n
      BY <2>7, <2>8
    <3>2. j \div B \in 0..(n - 1)
      BY <3>1, DivBelow
    <3>3. (j \div B) + 1 \in 1..n
      BY <3>2
    <3>4. DirBytes[j + 1] = DirNames[(j \div B) + 1][(j % B) + 1]
      BY <2>6, <2>8, Zenon
    <3>5. DirNames[(j \div B) + 1] = Padded(image.dir_entries[(j \div B) + 1].filename)
      BY <2>1, <3>3, Zenon
    <3> QED
      BY <1>2, <3>4, <3>5, Zenon DEF DirByte
  <2> QED
    BY <1>1, <1>2, <2>6, <2>7, <2>8
<1> QED
  BY <1>4, <1>5

\* A read of the directory at a position copies c of the bytes that follow it.
DirCopies(pos, count, c) ==
  LET r == read_dir_file(pos, count)
  IN  /\ r.cnt = c /\ pos + c <= Len(DirBytes)
      /\ r.data \in Seq(STRING) /\ Len(r.data) = c
      /\ \A k \in 1..c : r.data[k] = DirBytes[pos + k]

LEMMA DirReadFacts ==
  ASSUME image \in Images, NEW pos \in Nat, NEW count \in Nat, pos <= Len(DirBytes)
  PROVE  \E c \in Nat : DirCopies(pos, count, c)
<1> DEFINE B == FILENAME_CHAR_LIMIT
           Ends(j) == (j \div B) >= Len(image.dir_entries)
           stops == {i \in 0..(count - 1) : Ends(pos + i) \/ FALSE}
           c == IF stops = {} THEN count
                ELSE IF Ends(pos + Min(stops)) THEN Min(stops) ELSE Error
           r == read_dir_file(pos, count)
<1>1. r = [cnt |-> c, data |-> [k \in 1..c |-> DirByte(pos + k - 1)]]
  BY Zenon DEF read_dir_file, CopyLoop, DirByte
<1>2. PICK n \in Nat : n = Len(image.dir_entries)
  BY EntryFacts
<1>3. B \in Nat \ {0}
  BY Sizes
<1>4. c \in 0..count /\ \A i \in 0..(c - 1) : i \in 0..(count - 1) /\ i \notin stops
  <2>1. CASE stops = {}
    <3>1. c = count
      BY <2>1
    <3> HIDE DEF c, stops
    <3> QED
      BY <2>1, <3>1
  <2>2. CASE stops # {}
    <3>1. stops \subseteq Nat /\ stops \subseteq 0..(count - 1)
      OBVIOUS
    <3>2. Min(stops) \in stops /\ \A y \in stops : Min(stops) <= y
      BY <2>2, <3>1, MinFacts
    <3>3. Ends(pos + Min(stops))
      BY <3>2
    <3>4. PICK m \in 0..(count - 1) : m = Min(stops) /\ c = m /\ \A y \in stops : m <= y
      BY <2>2, <3>1, <3>2, <3>3
    <3> HIDE DEF c, stops, Ends
    <3> QED
      BY <3>4
  <2> QED
    BY <2>1, <2>2
<1> HIDE DEF c
<1>5. ASSUME NEW i \in 0..(c - 1)
      PROVE  pos + i < B * n
  <2>1. PICK j \in Nat : j = pos + i
    BY <1>4
  <2>2. PICK q \in Nat, s \in 0..(B - 1) : j = B * q + s /\ q = j \div B
    BY <1>3, DivFacts
  <2>3. q < n
    <3>1. ~Ends(pos + i)
      BY <1>4, <1>5
    <3> HIDE DEF stops, B
    <3>2. ~(q >= n)
      BY <1>2, <2>1, <2>2, <3>1
    <3> QED
      BY <3>2
  <2>4. B * q + s < B * n
    BY <1>3, <2>3
  <2> QED
    BY <2>1, <2>2, <2>4
<1> HIDE DEF stops, Ends, B, r
<1>6. PICK L \in Nat : L = B * n /\ L = Len(DirBytes)
  BY <1>2, DirFacts DEF B
<1>7. c \in Nat /\ pos + c <= L
  <2>1. c = 0 \/ c - 1 \in 0..(c - 1)
    BY <1>4
  <2>2. CASE c = 0
    BY <1>6, <2>2
  <2>3. CASE c - 1 \in 0..(c - 1)
    <3>1. pos + (c - 1) < L
      BY <1>5, <1>6, <2>3
    <3> QED
      BY <1>4, <3>1
  <2> QED
    BY <2>1, <2>2, <2>3
<1>8. ASSUME NEW k \in 1..c
      PROVE  r.data[k] = DirBytes[pos + k] /\ DirBytes[pos + k] \in STRING
  <2>1. pos + k - 1 \in Nat /\ pos + k - 1 < L /\ (pos + k - 1) + 1 = pos + k /\ pos + k \in 1..L
    BY <1>7
  <2>2. DirBytes[(pos + k - 1) + 1] = DirByte(pos + k - 1)
    BY <1>6, <2>1, DirFacts
  <2>3. DirBytes[pos + k] \in STRING
    BY <1>6, <2>1, DirFacts
  <2> QED
    BY <1>1, <2>1, <2>2, <2>3
<1>9. r.data \in Seq(STRING) /\ Len(r.data) = c /\ r.cnt = c
  <2>1. r.data \in [1..c -> STRING] /\ r.cnt = c
    <3>1. r.data = [k \in 1..c |-> DirByte(pos + k - 1)] /\ r.cnt = c
      BY <1>1
    <3>2. \A k \in 1..c : r.data[k] \in STRING
      BY <1>8
    <3> QED
      BY <3>1, <3>2
  <2> QED
    BY <1>7, <2>1
<1>10. DirCopies(pos, count, c)
  BY <1>6, <1>7, <1>8, <1>9 DEF DirCopies, r
<1> QED
  BY <1>7, <1>10

-----------------------------------------------------------------------------
(* Names *)

\* A sequence of characters without a terminator inside.
Clean(s) == s \in Seq(STRING) /\ \A k \in 1..Len(s) : s[k] # NUL

LEMMA CStringFacts ==
  ASSUME NEW s, Clean(s)
  PROVE  /\ Len(s) \in Nat /\ Len(CString(s)) = Len(s) + 1
         /\ \A k \in 1..Len(s) : CString(s)[k] = s[k]
         /\ CString(s)[Len(s) + 1] = NUL
         /\ strlen(CString(s)) = Len(s)
<1>1. PICK n \in Nat : n = Len(s)
  BY DEF Clean
<1>2. /\ Len(CString(s)) = n + 1 /\ DOMAIN CString(s) = 1..(n + 1)
      /\ \A k \in 1..n : CString(s)[k] = s[k]
      /\ CString(s)[n + 1] = NUL
  <2>1. PICK S, e : S = STRING /\ e = NUL
    OBVIOUS
  <2>2. s \in Seq(S) /\ e \in S
    BY <2>1, Sizes DEF Clean
  <2>3. PICK t : t = Append(s, e)
    OBVIOUS
  <2>4. t \in Seq(S) /\ Len(t) = n + 1 /\ t[n + 1] = e /\ \A k \in 1..n : t[k] = s[k]
    BY <1>1, <2>2, <2>3
  <2>5. DOMAIN t = 1..(n + 1)
    BY <2>4
  <2> QED
    BY <2>1, <2>3, <2>4, <2>5, Zenon DEF CString
<1> DEFINE T == {k \in DOMAIN CString(s) : CString(s)[k] = NUL}
<1>3. n + 1 \in T /\ T \subseteq Int /\ \A y \in T : n + 1 <= y
  <2>1. \A k \in 1..n : CString(s)[k] # NUL
    BY <1>1, <1>2 DEF Clean
  <2> QED
    BY <1>2, <2>1
<1>4. Min(T) = n + 1
  <2> HIDE DEF T
  <2> QED
    BY <1>3, MinIs
<1>5. strlen(CString(s)) = Min(T) - 1
  BY Zenon DEF strlen
<1> HIDE DEF T
<1> QED
  BY <1>1, <1>2, <1>4, <1>5

\* strncmp accepts no name but that of the entry, also where one is the beginning
\* of the other or the entry is full.
LEMMA SameName ==
  ASSUME NEW fn, Clean(fn), Len(fn) <= FILENAME_CHAR_LIMIT,
         NEW name, Clean(name), Len(name) <= FILENAME_CHAR_LIMIT,
         strncmp(Padded(fn), CString(name), FILENAME_CHAR_LIMIT)
  PROVE  fn = name
<1> DEFINE P == Padded(fn)
           C == CString(name)
           w == Min({FILENAME_CHAR_LIMIT, Len(C)})
           stops == {k \in 1..w : P[k] # C[k] \/ P[k] = NUL}
<1>1. PICK n \in Nat, f \in Nat, B \in Nat \ {0} :
           n = Len(name) /\ f = Len(fn) /\ B = FILENAME_CHAR_LIMIT
  BY Sizes DEF Clean
<1>2. n <= B /\ f <= B
  BY <1>1
<1>3. /\ Len(C) = n + 1 /\ C[n + 1] = NUL
      /\ \A k \in 1..n : C[k] = name[k] /\ C[k] # NUL
  BY <1>1, CStringFacts DEF Clean
<1>4. /\ \A k \in 1..f : P[k] = fn[k] /\ P[k] # NUL
      /\ \A k \in (f + 1)..B : P[k] = NUL
  <2>1. \A k \in 1..B : P[k] = IF k <= f THEN fn[k] ELSE NUL
    BY <1>1, PaddedFacts DEF Clean
  <2>2. \A k \in 1..f : k \in 1..B /\ k <= f /\ fn[k] # NUL
    BY <1>1, <1>2 DEF Clean
  <2>3. \A k \in (f + 1)..B : k \in 1..B /\ ~(k <= f)
    OBVIOUS
  <2> HIDE DEF P
  <2> QED
    BY <2>1, <2>2, <2>3
<1>5. w = IF B <= n + 1 THEN B ELSE n + 1
  BY <1>1, <1>3, MinOfTwo
<1>6. stops # {} => P[Min(stops)] = C[Min(stops)]
  BY Zenon DEF strncmp
<1>7. stops # {} => Min(stops) \in stops /\ \A y \in stops : Min(stops) <= y
  <2>1. stops \subseteq Nat
    BY <1>5
  <2> HIDE DEF stops
  <2> QED
    BY <2>1, MinFacts
<1> HIDE DEF P, C, w
\* Up to the end of the name the two agree, and the entry's name ends there.
<1>8. \A k \in 1..n : P[k] = C[k]
  <2>1. CASE stops = {}
    <3>1. n <= w
      BY <1>2, <1>5
    <3> QED
      BY <1>5, <2>1, <3>1
  <2>2. CASE stops # {}
    <3>1. PICK m \in 1..w : m = Min(stops) /\ P[m] = C[m] /\ P[m] = NUL /\ \A y \in stops : m <= y
      BY <1>6, <1>7, <2>2
    <3>2. m = n + 1
      <4>1. m \in Nat /\ 1 <= m /\ m <= n + 1
        BY <1>5, <3>1
      <4>2. m \notin 1..n
        BY <1>3, <3>1
      <4> QED
        BY <4>1, <4>2
    <3>3. \A k \in 1..n : k \in 1..w /\ ~(m <= k)
      BY <1>5, <3>1, <3>2
    <3>4. \A k \in 1..n : k \notin stops
      BY <3>1, <3>3, Zenon
    <3> QED
      BY <3>3, <3>4
  <2> QED
    BY <2>1, <2>2
<1>9. f = n
  <2>1. ~(f < n)
    <3> SUFFICES ASSUME f < n
                 PROVE  FALSE
      OBVIOUS
    <3>1. f + 1 \in (f + 1)..B /\ f + 1 \in 1..n
      BY <1>2
    <3> QED
      BY <1>3, <1>4, <1>8, <3>1
  <2>2. ~(n < f)
    <3> SUFFICES ASSUME n < f
                 PROVE  FALSE
      OBVIOUS
    <3>1. n + 1 \in 1..f /\ n + 1 \in 1..w /\ n + 1 = w
      BY <1>2, <1>5
    <3>2. P[n + 1] # NUL /\ C[n + 1] = NUL
      BY <1>3, <1>4, <3>1
    <3>3. n + 1 \in stops /\ stops # {}
      <4>1. P[n + 1] # C[n + 1]
        BY <3>2
      <4>2. n + 1 \in stops
        BY <3>1, <4>1
      <4> QED
        BY <4>2
    <3>4. PICK m \in 1..(n + 1) : m = Min(stops) /\ P[m] = C[m] /\ m \in stops
      BY <1>6, <1>7, <3>1, <3>3
    <3>5. P[m] = NUL
      BY <3>4
    <3>6. m \in 1..f
      BY <3>1, <3>4
    <3> QED
      BY <1>4, <3>5, <3>6
  <2> QED
    BY <2>1, <2>2
<1>10. \A k \in 1..n : fn[k] = name[k]
  BY <1>3, <1>4, <1>8, <1>9
<1> QED
  BY <1>1, <1>9, <1>10, SeqEqual DEF Clean

-----------------------------------------------------------------------------
(* Commands *)

LEMMA NonSpaceFacts ==
  ASSUME NEW cmd \in Seq(STRING), NEW i \in 1..(Len(cmd) + 1)
  PROVE  /\ NonSpace(cmd, i) \in i..(Len(cmd) + 1)
         /\ NonSpace(cmd, i) <= Len(cmd) => cmd[NonSpace(cmd, i)] # Space
         /\ \A k \in i..(NonSpace(cmd, i) - 1) : cmd[k] = Space
<1> DEFINE T == {k \in i..(Len(cmd) + 1) : k = Len(cmd) + 1 \/ cmd[k] # Space}
<1>1. NonSpace(cmd, i) = Min(T)
  BY Zenon DEF NonSpace, Skip
<1>2. PICK n \in Nat : n = Len(cmd)
  OBVIOUS
<1>3. T \subseteq Nat /\ T # {} /\ T \subseteq i..(n + 1)
  <2>1. n + 1 \in T
    BY <1>2
  <2> QED
    BY <1>2, <2>1
<1>4. PICK m : m = Min(T) /\ m \in T /\ m \in i..(n + 1) /\ \A y \in T : m <= y
  <2> HIDE DEF T
  <2> QED
    BY <1>3, MinFacts
<1>5. m <= n => cmd[m] # Space
  BY <1>2, <1>4
<1>6. \A k \in i..(m - 1) : cmd[k] = Space
  <2> TAKE k \in i..(m - 1)
  <2>1. k \in i..(n + 1) /\ ~(m <= k)
    BY <1>4
  <2>2. k \notin T
    BY <1>4, <2>1, Zenon
  <2> QED
    BY <1>2, <2>1, <2>2
<1> HIDE DEF T
<1> QED
  BY <1>1, <1>2, <1>4, <1>5, <1>6

LEMMA NextSpaceFacts ==
  ASSUME NEW cmd \in Seq(STRING), NEW i \in 1..(Len(cmd) + 1)
  PROVE  /\ NextSpace(cmd, i) \in i..(Len(cmd) + 1)
         /\ NextSpace(cmd, i) <= Len(cmd) => cmd[NextSpace(cmd, i)] = Space
         /\ \A k \in i..(NextSpace(cmd, i) - 1) : cmd[k] # Space
<1> DEFINE T == {k \in i..(Len(cmd) + 1) : k = Len(cmd) + 1 \/ cmd[k] = Space}
<1>1. NextSpace(cmd, i) = Min(T)
  BY Zenon DEF NextSpace, Skip
<1>2. PICK n \in Nat : n = Len(cmd)
  OBVIOUS
<1>3. T \subseteq Nat /\ T # {} /\ T \subseteq i..(n + 1)
  <2>1. n + 1 \in T
    BY <1>2
  <2> QED
    BY <1>2, <2>1
<1>4. PICK m : m = Min(T) /\ m \in T /\ m \in i..(n + 1) /\ \A y \in T : m <= y
  <2> HIDE DEF T
  <2> QED
    BY <1>3, MinFacts
<1>5. m <= n => cmd[m] = Space
  BY <1>2, <1>4
<1>6. \A k \in i..(m - 1) : cmd[k] # Space
  <2> TAKE k \in i..(m - 1)
  <2>1. k \in i..(n + 1) /\ ~(m <= k)
    BY <1>4
  <2>2. k \notin T
    BY <1>4, <2>1, Zenon
  <2> QED
    BY <1>2, <2>1, <2>2
<1> HIDE DEF T
<1> QED
  BY <1>1, <1>2, <1>4, <1>5, <1>6

\* A part of a command.
LEMMA Part ==
  ASSUME NEW S, NEW s \in Seq(S), NEW a \in 1..(Len(s) + 1), NEW b \in (a - 1)..Len(s)
  PROVE  /\ SubSeq(s, a, b) \in Seq(S) /\ Len(SubSeq(s, a, b)) = b - a + 1
         /\ \A k \in 1..(b - a + 1) : SubSeq(s, a, b)[k] = s[a + k - 1]
OBVIOUS

\* Where the parser of execute finds the program and the argument.
Splits(cmd, a, b, i) ==
  /\ a \in 1..(Len(cmd) + 1) /\ b \in a..(Len(cmd) + 1) /\ i \in b..(Len(cmd) + 1)
  /\ ProgramOf(cmd) = SubSeq(cmd, a, b - 1) /\ ArgumentOf(cmd) = SubSeq(cmd, i, Len(cmd))
  /\ a <= Len(cmd) => cmd[a] # Space
  /\ b <= Len(cmd) => cmd[b] = Space
  /\ i <= Len(cmd) => cmd[i] # Space
  /\ \A k \in 1..(a - 1) : cmd[k] = Space
  /\ \A k \in a..(b - 1) : cmd[k] # Space
  /\ \A k \in b..(i - 1) : cmd[k] = Space

LEMMA ParserFacts ==
  ASSUME NEW cmd \in Seq(STRING)
  PROVE  \E a, b, i \in Nat : Splits(cmd, a, b, i)
<1> DEFINE a == NonSpace(cmd, 1)
           b == NextSpace(cmd, a)
           i == NonSpace(cmd, b)
<1>0. PICK n \in Nat : n = Len(cmd)
  OBVIOUS
<1>1. /\ a \in 1..(n + 1) /\ (a <= n => cmd[a] # Space)
      /\ \A k \in 1..(a - 1) : cmd[k] = Space
  <2>1. 1 \in 1..(n + 1)
    OBVIOUS
  <2> QED
    BY <1>0, <2>1, NonSpaceFacts
<1> HIDE DEF a
<1>2. /\ b \in a..(n + 1) /\ (b <= n => cmd[b] = Space)
      /\ \A k \in a..(b - 1) : cmd[k] # Space
  BY <1>0, <1>1, NextSpaceFacts
<1> HIDE DEF b
<1>3. /\ i \in b..(n + 1) /\ (i <= n => cmd[i] # Space)
      /\ \A k \in b..(i - 1) : cmd[k] = Space
  <2>1. b \in 1..(n + 1)
    BY <1>1, <1>2
  <2> QED
    BY <1>0, <2>1, NonSpaceFacts
<1> HIDE DEF i
<1>4. ProgramOf(cmd) = SubSeq(cmd, a, b - 1) /\ ArgumentOf(cmd) = SubSeq(cmd, i, Len(cmd))
  BY Zenon DEF ProgramOf, ArgumentOf, a, b, i
<1>5. Splits(cmd, a, b, i)
  BY <1>0, <1>1, <1>2, <1>3, <1>4 DEF Splits
<1>6. a \in Nat /\ b \in Nat /\ i \in Nat
  BY <1>1, <1>2, <1>3
<1> QED
  BY <1>5, <1>6, Zenon

LEMMA CommandFacts ==
  ASSUME NEW cmd \in Commands
  PROVE  /\ Clean(cmd) /\ Clean(ProgramOf(cmd)) /\ ArgumentOf(cmd) \in Seq(STRING)
<1>1. cmd \in Seq(STRING) /\ \A k \in 1..Len(cmd) : cmd[k] # NUL
  BY FilesAssumption, Zenon
<1>2. PICK a, b, i \in Nat : Splits(cmd, a, b, i)
  BY <1>1, ParserFacts
<1>3. PICK n \in Nat : n = Len(cmd)
  BY <1>1
<1>4. /\ a \in 1..(n + 1) /\ b \in a..(n + 1) /\ i \in b..(n + 1)
      /\ ProgramOf(cmd) = SubSeq(cmd, a, b - 1) /\ ArgumentOf(cmd) = SubSeq(cmd, i, n)
  BY <1>2, <1>3, Zenon DEF Splits
<1>5. b - 1 \in (a - 1)..n /\ i \in 1..(n + 1) /\ n \in (i - 1)..n
  BY <1>4
<1>6. ArgumentOf(cmd) \in Seq(STRING)
  BY <1>1, <1>3, <1>4, <1>5, Part
<1>7. PICK p, c : p = ProgramOf(cmd) /\ c = b - 1
  OBVIOUS
<1>8. /\ p \in Seq(STRING) /\ Len(p) = c - a + 1
      /\ \A k \in 1..(c - a + 1) : p[k] = cmd[a + k - 1]
  BY <1>1, <1>3, <1>4, <1>5, <1>7, Part
<1>9. \A k \in 1..Len(p) : p[k] # NUL
  <2> TAKE k \in 1..Len(p)
  <2>1. k \in 1..(c - a + 1) /\ a + k - 1 \in 1..n
    BY <1>4, <1>5, <1>7, <1>8
  <2> QED
    BY <1>1, <1>3, <1>8, <2>1
<1> QED
  BY <1>1, <1>6, <1>7, <1>8, <1>9 DEF Clean

\* What execute keeps of an argument is a string, whether it fits or not.
LEMMA KeptType ==
  ASSUME NEW arg \in Seq(STRING)
  PROVE  Kept(arg) \in Seq(STRING)
<1>1. MAX_ARGS \in Nat \ {0} /\ FF \in STRING
  BY FilesAssumption
<1>2. NoFreq \in Seq(STRING) /\ Len(NoFreq) = 4
  <2>1. NoFreq \in [1..4 -> STRING]
    BY <1>1, Zenon DEF NoFreq
  <2>2. \A m \in Nat : \A f \in [1..m -> STRING] : f \in Seq(STRING) /\ Len(f) = m
    OBVIOUS
  <2>3. 4 \in Nat
    OBVIOUS
  <2> QED
    BY <2>1, <2>2, <2>3, Zenon
<1>3. CASE Len(arg) < MAX_ARGS
  BY <1>3 DEF Kept
<1>4. CASE Len(arg) >= MAX_ARGS
  <2>1. SubSeq(arg, 1, MAX_ARGS) \in Seq(STRING)
    BY <1>1, <1>4
  <2>2. SubSeq(arg, MAX_ARGS + Len(NoFreq) + 1, Len(arg)) \in Seq(STRING)
    BY <1>1, <1>2
  <2>3. Kept(arg) = SubSeq(arg, 1, MAX_ARGS) \o NoFreq \o SubSeq(arg, MAX_ARGS + Len(NoFreq) + 1, Len(arg))
    <3>1. ~(Len(arg) < MAX_ARGS)
      BY <1>1, <1>4
    <3> QED
      BY <3>1, Zenon DEF Kept
  <2> QED
    BY <1>2, <2>1, <2>2, <2>3
<1> QED
  BY <1>1, <1>3, <1>4

\* The argument, when there is one, begins with the first character that is no
\* space after the first run of characters that are none.
OwnArgument(cmd, arg) ==
  LET Inside(k) == cmd[k] # Space
      Before(i) == {k \in 1..(i - 1) : Inside(k)}
  IN  \E i \in 2..Len(cmd) :
        /\ arg = SubSeq(cmd, i, Len(cmd))
        /\ Inside(i) /\ ~Inside(i - 1)
        /\ Before(i) # {} /\ Before(i) = Min(Before(i))..Max(Before(i))

LEMMA ArgumentFacts ==
  ASSUME NEW cmd \in Seq(STRING), ArgumentOf(cmd) # <<>>
  PROVE  OwnArgument(cmd, ArgumentOf(cmd))
<1>1. PICK n \in Nat : n = Len(cmd)
  OBVIOUS
<1>2. PICK a, b, i \in Nat : Splits(cmd, a, b, i)
  BY ParserFacts
<1>3. /\ a \in 1..(n + 1) /\ b \in a..(n + 1) /\ i \in b..(n + 1)
      /\ ArgumentOf(cmd) = SubSeq(cmd, i, n)
      /\ (a <= n => cmd[a] # Space) /\ (b <= n => cmd[b] = Space) /\ (i <= n => cmd[i] # Space)
      /\ \A k \in 1..(a - 1) : cmd[k] = Space
      /\ \A k \in a..(b - 1) : cmd[k] # Space
      /\ \A k \in b..(i - 1) : cmd[k] = Space
  BY <1>1, <1>2, Zenon DEF Splits
<1>4. i <= n
  <2> SUFFICES ASSUME ~(i <= n)
               PROVE  FALSE
    OBVIOUS
  <2>1. i = n + 1
    BY <1>3
  <2>2. SubSeq(cmd, n + 1, n) = <<>>
    BY <1>1
  <2> QED
    BY <1>3, <2>1, <2>2
<1>5. b # i /\ b <= n
  BY <1>3, <1>4
<1>6. a # b
  BY <1>3, <1>5
<1>7. i \in 2..n /\ cmd[i] # Space /\ cmd[i - 1] = Space
  <2>1. i - 1 \in b..(i - 1) /\ i \in 2..n
    BY <1>3, <1>4, <1>5
  <2> QED
    BY <1>3, <1>4, <2>1
<1> DEFINE Before == {k \in 1..(i - 1) : cmd[k] # Space}
<1>8. Before = a..(b - 1)
  <2>1. ASSUME NEW k \in Before
        PROVE  k \in a..(b - 1)
    <3>1. k \in 1..(i - 1) /\ k \notin 1..(a - 1) /\ k \notin b..(i - 1)
      BY <1>3, <2>1
    <3> QED
      BY <1>3, <3>1
  <2>2. ASSUME NEW k \in a..(b - 1)
        PROVE  k \in Before
    <3>1. k \in 1..(i - 1) /\ cmd[k] # Space
      BY <1>3, <2>2
    <3> QED
      BY <3>1
  <2> QED
    BY <2>1, <2>2
<1>9. Min(Before) = a /\ Max(Before) = b - 1 /\ Before # {}
  <2>1. Before \subseteq Int /\ a \in Before /\ b - 1 \in Before
    BY <1>3, <1>6, <1>8
  <2>2. \A y \in Before : a <= y /\ b - 1 >= y
    BY <1>3, <1>8
  <2> HIDE DEF Before
  <2> QED
    BY <2>1, <2>2, MinIs, MaxIs
<1>10. Before = Min(Before)..Max(Before)
  <2> HIDE DEF Before
  <2> QED
    BY <1>8, <1>9, Zenon
<1>11. i \in 2..Len(cmd) /\ ArgumentOf(cmd) = SubSeq(cmd, i, Len(cmd))
  BY <1>1, <1>3, <1>7, Zenon
<1> QED
  BY <1>7, <1>9, <1>10, <1>11, Zenon DEF OwnArgument

-----------------------------------------------------------------------------
(* Whole files *)

LEMMA HealthyFacts ==
  ASSUME image \in Images, NEW inode, Healthy(inode)
  PROVE  /\ IsFile(inode) /\ Holds(inode, Node(inode).length)
         /\ \A pos, count \in Nat : \E c \in Nat : Copies(inode, pos, count, c)
<1>1. IsFile(inode)
  BY DEF Healthy, IsFile
<1>2. \A k \in DOMAIN Node(inode).data_block : Node(inode).data_block[k] < Len(image.blocks)
  BY DEF Healthy, Node
<1>3. ASSUME NEW j \in Nat, j < Node(inode).length
      PROVE  BlockOf(inode, j) < Len(image.blocks)
  <2>1. PICK q \in 0..(Len(Node(inode).data_block) - 1) : q = j \div BLOCK_SIZE
    BY <1>1, <1>3, BlockFacts
  <2>2. q + 1 \in DOMAIN Node(inode).data_block
    BY <1>1, NodeFacts
  <2>3. Node(inode).data_block[q + 1] < Len(image.blocks)
    BY <1>2, <2>2
  <2> QED
    BY <2>1, <2>3 DEF BlockOf
<1>4. PICK L \in Nat : Holds(inode, L)
  BY <1>1, ContentsFacts
<1>5. PICK N \in Nat : N = Node(inode).length
  BY <1>1, NodeFacts
<1>6. L = N
  <2>1. L <= N /\ (L < N => ~Readable(inode, L))
    BY <1>4, <1>5 DEF Holds
  <2>2. L < N => Readable(inode, L)
    BY <1>3, <1>5 DEF Readable
  <2> QED
    BY <2>1, <2>2
<1>7. ASSUME NEW pos \in Nat, NEW count \in Nat
      PROVE  \E c \in Nat : Copies(inode, pos, count, c)
  <2>1. PICK c \in Int : Copies(inode, pos, count, c)
    BY <1>1, ReadFacts
  <2>2. /\ c = Error \/ c \in 0..count
        /\ c = Error =>
             \E j \in Nat : j < Node(inode).length /\ ~(BlockOf(inode, j) < Len(image.blocks))
    BY <2>1, Zenon DEF Copies
  <2>3. c \in 0..count
    BY <1>3, <2>2, Zenon
  <2> QED
    BY <2>1, <2>3
<1> QED
  BY <1>1, <1>4, <1>5, <1>6, <1>7

\* A read of such a file is short only at its end.
LEMMA FullRead ==
  ASSUME image \in Images, NEW inode, Healthy(inode), NEW pos \in Nat, NEW count \in Nat,
         NEW N \in Nat, N = Node(inode).length, pos <= N,
         NEW c \in Nat, Copies(inode, pos, count, c)
  PROVE  c = IF count <= N - pos THEN count ELSE N - pos
<1>1. IsFile(inode) /\ Holds(inode, N)
  BY HealthyFacts
<1>2. pos + c <= N
  <2>1. Stretch(read_data(inode, pos, count).data, inode, pos, c, N)
    BY <1>1, ReadStretch
  <2> QED
    BY <2>1, Zenon DEF Stretch
<1>3. c # Error
  BY DEF Error
<1>4. c \in 0..count /\ (c = count \/ pos + c >= N)
  BY <1>3 DEF Copies
<1> QED
  BY <1>2, <1>4

\* Step i of program_load copies block i of such a file, or what the file has of
\* it; the step after the last full block is the first that is short.
LoadsBlock(inode, i, N, q) ==
  LET r == read_data(inode, i * BLOCK_SIZE, BLOCK_SIZE)
  IN  /\ r.cnt = IF i < q THEN BLOCK_SIZE ELSE N % BLOCK_SIZE
      /\ r.data \in Seq(STRING) /\ Len(r.data) = r.cnt
      /\ \A k \in 1..r.cnt : r.data[k] = Contents(inode)[i * BLOCK_SIZE + k]

LEMMA LoadStep ==
  ASSUME image \in Images, NEW inode, Healthy(inode), NEW N \in Nat, N = Node(inode).length,
         NEW q \in Nat, q = N \div BLOCK_SIZE, NEW i \in 0..q
  PROVE  LoadsBlock(inode, i, N, q)
<1>0. PICK r : r = read_data(inode, i * BLOCK_SIZE, BLOCK_SIZE)
  OBVIOUS
<1>1. PICK B \in Nat \ {0} : B = BLOCK_SIZE
  BY Sizes
<1>2. PICK s \in 0..(B - 1) : s = N % B /\ N = B * q + s
  <2>1. N % B \in 0..(B - 1) /\ N = B * (N \div B) + (N % B)
    BY DivFacts
  <2>2. q = N \div B
    BY <1>1
  <2> QED
    BY <2>1, <2>2, Zenon
<1>3. PICK pos \in Nat : pos = i * B
  OBVIOUS
<1>4. IF i < q THEN B <= N - pos ELSE N - pos = s
  <2>1. CASE i < q
    <3>1. PICK d \in Nat : q = i + 1 + d
      <4>1. q - i - 1 \in Nat /\ q = i + 1 + (q - i - 1)
        BY <2>1
      <4> QED
        BY <4>1
    <3>2. PICK e \in Nat : e = B * d
      OBVIOUS
    <3>2a. B * q = i * B + B + e
      BY <3>1, <3>2
    <3>3. B <= N - pos
      BY <1>2, <1>3, <3>2a
    <3> QED
      BY <2>1, <3>3
  <2>2. CASE ~(i < q)
    <3>1. i = q
      BY <2>2
    <3>2. PICK e \in Nat : e = B * q
      OBVIOUS
    <3>3. pos = e
      BY <1>3, <3>1, <3>2
    <3>4. N - pos = s
      <4>1. N = e + s
        BY <1>2, <3>2, Zenon
      <4> QED
        BY <3>3, <4>1
    <3> QED
      BY <2>2, <3>4
  <2> QED
    BY <2>1, <2>2
<1>5. pos <= N
  BY <1>2, <1>3, <1>4
<1>6. PICK c \in Nat : Copies(inode, pos, B, c)
  BY HealthyFacts
<1>7. c = IF B <= N - pos THEN B ELSE N - pos
  BY <1>5, <1>6, FullRead
<1>8. c = IF i < q THEN B ELSE s
  BY <1>2, <1>4, <1>7
<1>9. r = read_data(inode, pos, B)
  BY <1>0, <1>1, <1>3, Zenon
<1>10. r.cnt = c
  BY <1>6, <1>9 DEF Copies
<1>11. IsFile(inode) /\ Holds(inode, N)
  BY HealthyFacts
<1>12. /\ r.data \in Seq(STRING) /\ Len(r.data) = c
       /\ \A k \in 1..c : r.data[k] = Contents(inode)[pos + k]
  <2>1. B \in Nat
    OBVIOUS
  <2>2. Stretch(read_data(inode, pos, B).data, inode, pos, c, N)
    BY <1>5, <1>6, <1>11, <2>1, ReadStretch
  <2> QED
    BY <1>9, <2>2, Zenon DEF Stretch
<1>13. /\ r.cnt = IF i < q THEN BLOCK_SIZE ELSE N % BLOCK_SIZE
       /\ r.data \in Seq(STRING) /\ Len(r.data) = r.cnt
       /\ \A k \in 1..r.cnt : r.data[k] = Contents(inode)[i * BLOCK_SIZE + k]
  <2>1. r.cnt = IF i < q THEN BLOCK_SIZE ELSE N % BLOCK_SIZE
    BY <1>1, <1>2, <1>8, <1>10, Zenon
  <2> QED
    BY <1>1, <1>3, <1>10, <1>12, <2>1, Zenon
<1> QED
  BY <1>0, <1>13, Zenon DEF LoadsBlock

\* program_load writes the whole file.
LEMMA LoadFacts ==
  ASSUME image \in Images, NEW inode, Healthy(inode)
  PROVE  program_load(inode) = Contents(inode)
<1> DEFINE chunk(i) == read_data(inode, i * BLOCK_SIZE, BLOCK_SIZE)
           n == Len(Node(inode).data_block)
           T == {i \in 0..n : chunk(i).cnt # BLOCK_SIZE}
           seqs == [i \in 1..(Min(T) + 1) |-> chunk(i - 1).data]
           N == Node(inode).length
           q == N \div BLOCK_SIZE
<1>1. IsFile(inode) /\ Holds(inode, N) /\ inode \in Inodes
  BY HealthyFacts DEF IsFile
<1>2. program_load(inode) = FlattenSeq(seqs)
  BY <1>1, Zenon DEF program_load, Node
<1>3. n \in Nat /\ N \in Nat /\ N <= BLOCK_SIZE * n /\ BLOCK_SIZE \in Nat \ {0}
  BY <1>1, NodeFacts, Sizes
<1> HIDE DEF n, N
<1>4. /\ q \in Nat /\ N % BLOCK_SIZE \in 0..(BLOCK_SIZE - 1)
      /\ N = BLOCK_SIZE * q + (N % BLOCK_SIZE)
  BY <1>3, DivFacts
<1>5. q <= n
  <2>1. CASE N < BLOCK_SIZE * n
    BY <1>3, <2>1, DivBelow
  <2>2. CASE N = BLOCK_SIZE * n
    <3>1. N = BLOCK_SIZE * n + 0 /\ 0 \in 0..(BLOCK_SIZE - 1)
      BY <1>3, <2>2
    <3>2. q = n
      BY <1>3, <3>1, DivUnique
    <3> QED
      BY <1>3, <3>2
  <2> QED
    BY <1>3, <2>1, <2>2
<1>6. ASSUME NEW i \in 0..q
      PROVE  /\ chunk(i).cnt = IF i < q THEN BLOCK_SIZE ELSE N % BLOCK_SIZE
             /\ chunk(i).data \in Seq(STRING) /\ Len(chunk(i).data) = chunk(i).cnt
             /\ \A k \in 1..chunk(i).cnt : chunk(i).data[k] = Contents(inode)[i * BLOCK_SIZE + k]
  <2>1. N = Node(inode).length /\ q = N \div BLOCK_SIZE
    BY Zenon DEF N
  <2> HIDE DEF q
  <2>2. LoadsBlock(inode, i, N, q)
    BY <1>3, <1>4, <2>1, LoadStep
  <2> QED
    BY <2>2, Zenon DEF LoadsBlock
<1> HIDE DEF chunk, q
<1>7. Min(T) = q
  <2>1. q \in T
    <3>1. chunk(q).cnt = N % BLOCK_SIZE
      <4>1. q \in 0..q /\ ~(q < q)
        BY <1>4
      <4> QED
        BY <1>6, <4>1, Zenon
    <3>2. N % BLOCK_SIZE # BLOCK_SIZE
      BY <1>3, <1>4
    <3> QED
      BY <1>3, <1>4, <1>5, <3>1, <3>2
  <2>2. ASSUME NEW y \in T
        PROVE  q <= y
    <3>1. y \in Nat /\ chunk(y).cnt # BLOCK_SIZE
      BY <1>3, <2>2
    <3>2. ~(y < q)
      BY <1>4, <1>6, <3>1
    <3> QED
      BY <1>4, <3>1, <3>2
  <2>3. T \subseteq Int
    OBVIOUS
  <2> HIDE DEF T
  <2> QED
    BY <2>1, <2>2, <2>3, MinIs
<1> HIDE DEF T
<1>8. PICK m \in Nat \ {0} : m = q + 1 /\ m - 1 = q
  BY <1>4
<1>9. seqs = [i \in 1..m |-> chunk(i - 1).data]
  BY <1>7, <1>8
<1> HIDE DEF seqs
<1>10. /\ Len(seqs) = m
       /\ \A i \in 1..m :
            /\ seqs[i] \in Seq(STRING)
            /\ Len(seqs[i]) = IF i < m THEN BLOCK_SIZE ELSE N % BLOCK_SIZE
            /\ \A k \in 1..Len(seqs[i]) : seqs[i][k] = Contents(inode)[(i - 1) * BLOCK_SIZE + k]
  <2>1. Len(seqs) = m
    BY <1>9
  <2>2. ASSUME NEW i \in 1..m
        PROVE  /\ seqs[i] \in Seq(STRING)
               /\ Len(seqs[i]) = IF i < m THEN BLOCK_SIZE ELSE N % BLOCK_SIZE
               /\ \A k \in 1..Len(seqs[i]) : seqs[i][k] = Contents(inode)[(i - 1) * BLOCK_SIZE + k]
    <3>1. PICK h \in 0..q : h = i - 1 /\ (h < q <=> i < m)
      BY <1>4, <1>8
    <3>2. seqs[i] = chunk(h).data
      BY <1>9, <3>1
    <3>3. /\ chunk(h).cnt = IF h < q THEN BLOCK_SIZE ELSE N % BLOCK_SIZE
          /\ chunk(h).data \in Seq(STRING) /\ Len(chunk(h).data) = chunk(h).cnt
          /\ \A k \in 1..chunk(h).cnt : chunk(h).data[k] = Contents(inode)[h * BLOCK_SIZE + k]
      BY <1>6
    <3> QED
      BY <3>1, <3>2, <3>3, Zenon
  <2> QED
    BY <2>1, <2>2
<1>11. InBlocks(seqs, m, STRING, BLOCK_SIZE) /\ Len(seqs[m]) = N % BLOCK_SIZE
  <2>1. Len(seqs[m]) = N % BLOCK_SIZE /\ Len(seqs[m]) <= BLOCK_SIZE
    BY <1>3, <1>4, <1>10
  <2>2. \A i \in 1..(m - 1) : Len(seqs[i]) = BLOCK_SIZE
    <3> TAKE i \in 1..(m - 1)
    <3>1. i \in 1..m /\ i < m
      OBVIOUS
    <3> QED
      BY <1>10, <3>1
  <2>3. Pieces(seqs, m, STRING)
    BY <1>10, Zenon DEF Pieces
  <2> QED
    BY <2>1, <2>2, <2>3, Zenon DEF InBlocks
<1> DEFINE whole == FlattenSeq(seqs)
<1>12. Blockwise(whole, seqs, m, STRING, BLOCK_SIZE)
  BY <1>3, <1>11, FlattenBlocks
<1> HIDE DEF whole
<1>13. /\ whole \in Seq(STRING) /\ Len(whole) = N
       /\ \A j \in Nat : j < N =>
            whole[j + 1] = seqs[(j \div BLOCK_SIZE) + 1][(j % BLOCK_SIZE) + 1]
  <2>1. /\ whole \in Seq(STRING) /\ Len(whole) = BLOCK_SIZE * (m - 1) + Len(seqs[m])
        /\ \A j \in Nat : j < Len(whole) =>
             whole[j + 1] = seqs[(j \div BLOCK_SIZE) + 1][(j % BLOCK_SIZE) + 1]
    BY <1>12, Zenon DEF Blockwise
  <2>2. Len(whole) = N
    BY <1>4, <1>8, <1>11, <2>1, Zenon
  <2> QED
    BY <2>1, <2>2, Zenon
<1>14. ASSUME NEW j \in Nat, j < N
       PROVE  whole[j + 1] = Contents(inode)[j + 1]
  <2>1. PICK B \in Nat \ {0} : B = BLOCK_SIZE
    BY <1>3
  <2>2. PICK h \in Nat, s \in 0..(B - 1) : j = B * h + s /\ h = j \div B /\ s = j % B
    BY DivFacts
  <2>3. h <= q /\ (h = q => s < N % B)
    <3>1. PICK z \in Nat : z = N % B /\ N = B * q + z /\ z < B
      BY <1>4, <2>1
    <3>2. h <= q
      <4> SUFFICES ASSUME q < h
                   PROVE  FALSE
        BY <1>4
      <4>1. PICK d \in Nat : h = q + 1 + d
        <5>1. h - q - 1 \in Nat /\ h = q + 1 + (h - q - 1)
          BY <1>4
        <5> QED
          BY <5>1
      <4>2. B * h = B * q + B + B * d /\ B * d \in Nat /\ B * q \in Nat
        BY <1>4, <4>1
      <4> QED
        BY <1>14, <2>2, <3>1, <4>2
    <3>3. h = q => s < z
      BY <1>4, <1>14, <2>2, <3>1
    <3> QED
      BY <3>1, <3>2, <3>3
  <2>4. h + 1 \in 1..m /\ s + 1 \in 1..Len(seqs[h + 1])
    <3>1. h + 1 \in 1..m /\ (h + 1 < m <=> h < q)
      BY <1>4, <1>8, <2>3
    <3>2. Len(seqs[h + 1]) = IF h + 1 < m THEN B ELSE N % B
      BY <1>10, <2>1, <3>1
    <3>3. N % B \in Nat
      BY <1>4, <2>1
    <3> QED
      BY <1>4, <2>3, <3>1, <3>2, <3>3
  <2>5. seqs[h + 1][s + 1] = Contents(inode)[((h + 1) - 1) * BLOCK_SIZE + (s + 1)]
    BY <1>10, <2>4, Zenon
  <2>6. ((h + 1) - 1) * BLOCK_SIZE + (s + 1) = j + 1
    <3>1. ((h + 1) - 1) * B + (s + 1) = j + 1
      BY <2>2
    <3> QED
      BY <2>1, <3>1, Zenon
  <2>7. whole[j + 1] = seqs[h + 1][s + 1]
    BY <1>13, <1>14, <2>1, <2>2, Zenon
  <2> QED
    BY <2>5, <2>6, <2>7, Zenon
<1>15. whole = Contents(inode)
  <2>1. Contents(inode) \in Seq(STRING) /\ Len(Contents(inode)) = N
    BY <1>1, Zenon DEF Holds
  <2>2. ASSUME NEW k \in 1..N
        PROVE  whole[k] = Contents(inode)[k]
    <3>1. k - 1 \in Nat /\ k - 1 < N /\ (k - 1) + 1 = k
      BY <1>3
    <3> QED
      BY <1>14, <3>1
  <2> QED
    BY <1>13, <2>1, <2>2, SeqEqual
<1> QED
  BY <1>2, <1>15 DEF whole

-----------------------------------------------------------------------------
(* The parts of the invariant that depend on the image, which never changes *)

LEMMA SameImage ==
  ASSUME image' = image
  PROVE  /\ \A f, b : InOrder(f, b)' <=> InOrder(f, b)
         /\ \A c, b : LoadedFor(c, b)' <=> LoadedFor(c, b)
<1> DEFINE D(img) == FlattenSeq([k \in DOMAIN img.dir_entries |-> Padded(img.dir_entries[k].filename)])
           C(img, i) ==
             LET node == img.nodes[i + 1]
                 bad == {k \in DOMAIN node.data_block : node.data_block[k] >= Len(img.blocks)}
                 good == Min(bad \cup {Len(node.data_block) + 1}) - 1
                 bytes == FlattenSeq([k \in 1..good |-> img.blocks[node.data_block[k] + 1]])
             IN  SubSeq(bytes, 1, Min({node.length, Len(bytes)}))
           H(img, i) ==
             /\ i \in 0..(Len(img.nodes) - 1)
             /\ \A k \in DOMAIN img.nodes[i + 1].data_block :
                  img.nodes[i + 1].data_block[k] < Len(img.blocks)
<1>1. DirBytes = D(image) /\ DirBytes' = D(image')
  BY Zenon DEF DirBytes, DirNames
<1>2. \A i : Contents(i) = C(image, i) /\ Contents(i)' = C(image', i)
  BY Zenon DEF Contents
<1>3. \A i : Healthy(i) = H(image, i) /\ Healthy(i)' = H(image', i)
  BY Zenon DEF Healthy, Inodes
<1>4. Inodes' = Inodes
  BY Zenon DEF Inodes
<1> HIDE DEF D, C, H
<1>5. DirBytes' = DirBytes
  BY <1>1, Zenon
<1>6. \A i : Contents(i)' = Contents(i)
  BY <1>2, Zenon
<1>7. \A i : Healthy(i)' <=> Healthy(i)
  BY <1>3, Zenon
<1>8. ASSUME NEW f, NEW b
      PROVE  InOrder(f, b)' <=> InOrder(f, b)
  BY <1>4, <1>5, <1>6 DEF InOrder
<1>9. ASSUME NEW c, NEW b
      PROVE  LoadedFor(c, b)' <=> LoadedFor(c, b)
  BY <1>6, <1>7 DEF LoadedFor, ProgramOf
<1> QED
  BY <1>8, <1>9, Zenon

LEMMA StandardInOrder ==
  \A b : InOrder(Standard, b)
BY DEF InOrder, Standard, Closed, Error, FTYPE_DIR, FTYPE_FILE

\* What an open descriptor of a file or the directory has behind it.
LEMMA WholeFacts ==
  ASSUME image \in Images
  PROVE  /\ DirBytes \in Seq(STRING)
         /\ \A i \in Inodes : Contents(i) \in Seq(STRING)
<1>1. DirBytes \in Seq(STRING)
  BY DirFacts
<1>2. ASSUME NEW i \in Inodes
      PROVE  Contents(i) \in Seq(STRING)
  <2>1. PICK L \in Nat : Holds(i, L)
    BY ContentsFacts DEF IsFile
  <2> QED
    BY <2>1, Zenon DEF Holds
<1> QED
  BY <1>1, <1>2

LEMMA OpenInOrder ==
  ASSUME image \in Images, NEW f, f.file_pos = 0
  PROVE  InOrder(f, <<>>)
<1>1. \A w \in Seq(STRING) : 0 <= Len(w) /\ SubSeq(w, 1, 0) = <<>>
  OBVIOUS
<1> QED
  BY <1>1, WholeFacts, Zenon DEF InOrder

\* A read moves the position by what it returns.
ReadsOn(fdesc, bytes, r) ==
  /\ r.cnt \in Nat /\ r.data \in Seq(STRING)
  /\ InOrder([fdesc EXCEPT !.file_pos = @ + r.cnt], bytes \o r.data)

LEMMA ReadInOrder ==
  ASSUME image \in Images, NEW fdesc \in file_desc_t, fdesc.type \in {FTYPE_DIR, FTYPE_FILE},
         NEW bytes, InOrder(fdesc, bytes), NEW count \in Nat,
         Copied(fdesc, count).cnt # Error
  PROVE  ReadsOn(fdesc, bytes, Copied(fdesc, count))
<1>1. PICK pos \in Nat : pos = fdesc.file_pos
  BY DEF file_desc_t
<1>2. CASE fdesc.type = FTYPE_DIR
  <2>1. PICK w \in Seq(STRING) : w = DirBytes
    BY WholeFacts
  <2>2. PICK r : r = read_dir_file(pos, count) /\ r = Copied(fdesc, count)
    BY <1>1, <1>2 DEF Copied
  <2>3. pos <= Len(w) /\ bytes = SubSeq(w, 1, pos)
    BY <1>1, <1>2, <2>1 DEF InOrder
  <2>4. PICK c \in Nat : DirCopies(pos, count, c)
    BY <2>1, <2>3, DirReadFacts
  <2>5. /\ r.cnt = c /\ pos + c <= Len(w)
        /\ r.data \in Seq(STRING) /\ Len(r.data) = c
        /\ \A k \in 1..c : r.data[k] = w[pos + k]
    BY <2>1, <2>2, <2>4, Zenon DEF DirCopies
  <2>6. bytes \o r.data = SubSeq(w, 1, pos + c)
    BY <2>3, <2>5, PrefixGrows
  <2> DEFINE new == [fdesc EXCEPT !.file_pos = @ + r.cnt]
  <2>7. new.type = FTYPE_DIR /\ new.file_pos = pos + c
    BY <1>1, <1>2, <2>5 DEF file_desc_t
  <2>8. new.type # FTYPE_FILE
    BY <2>7 DEF FTYPE_DIR, FTYPE_FILE
  <2> HIDE DEF new
  <2>9. InOrder(new, bytes \o r.data)
    BY <2>1, <2>5, <2>6, <2>7, <2>8, Zenon DEF InOrder
  <2> QED
    BY <2>2, <2>5, <2>9, Zenon DEF ReadsOn, new
<1>3. CASE fdesc.type = FTYPE_FILE
  <2>0. fdesc.type # FTYPE_DIR
    BY <1>3 DEF FTYPE_DIR, FTYPE_FILE
  <2>1. PICK i : i = fdesc.inode
    OBVIOUS
  <2>2. PICK r : r = read_data(i, pos, count) /\ r = Copied(fdesc, count) /\ r.cnt # Error
    BY <1>1, <2>0, <2>1, Zenon DEF Copied
  <2>3. i \in Inodes /\ IsFile(i)
    <3>1. ASSUME i \notin Inodes
          PROVE  r.cnt = Error
      <4>1. PICK e : e = Error
        OBVIOUS
      <4>2. r = [cnt |-> e, data |-> <<>>]
        BY <2>2, <3>1, <4>1, Zenon DEF read_data
      <4>3. r.cnt = e
        BY <4>2
      <4> QED
        BY <4>1, <4>3, Zenon
    <3> QED
      BY <2>2, <3>1 DEF IsFile
  <2>4. PICK w \in Seq(STRING), L \in Nat : w = Contents(i) /\ L = Len(w) /\ Holds(i, L)
    <3>1. PICK L \in Nat : Holds(i, L)
      BY <2>3, ContentsFacts
    <3> QED
      BY <3>1, Zenon DEF Holds
  <2>5. pos <= L /\ bytes = SubSeq(w, 1, pos)
    BY <1>1, <1>3, <2>1, <2>3, <2>4, Zenon DEF InOrder
  <2>6. PICK c \in Int : Copies(i, pos, count, c)
    BY <2>3, ReadFacts
  <2>7. r.cnt = c /\ c \in Nat
    <3>0. PICK d : r = [cnt |-> c, data |-> d]
      BY <2>2, <2>6, Zenon DEF Copies
    <3>1. r.cnt = c /\ (c = Error \/ c \in 0..count)
      BY <2>6, <3>0 DEF Copies
    <3> QED
      BY <2>2, <3>1
  <2>8. /\ pos + c <= L
        /\ r.data \in Seq(STRING) /\ Len(r.data) = c
        /\ \A k \in 1..c : r.data[k] = w[pos + k]
    <3>1. Stretch(read_data(i, pos, count).data, i, pos, c, L)
      BY <2>3, <2>4, <2>5, <2>6, <2>7, ReadStretch, SMTT(30)
    <3> QED
      BY <2>2, <2>4, <3>1, Zenon DEF Stretch
  <2>9. bytes \o r.data = SubSeq(w, 1, pos + c)
    <3>1. PICK d \in Seq(STRING) : d = r.data
      BY <2>8
    <3>2. c \in Nat /\ pos + c <= Len(w) /\ Len(d) = c /\ \A k \in 1..c : d[k] = w[pos + k]
      BY <2>4, <2>7, <2>8, <3>1, Zenon
    <3>3. SubSeq(w, 1, pos) \o d = SubSeq(w, 1, pos + c)
      BY <3>2, PrefixGrows
    <3> QED
      BY <2>5, <3>1, <3>3, Zenon
  <2> DEFINE new == [fdesc EXCEPT !.file_pos = @ + r.cnt]
  <2>10. new.type # FTYPE_DIR /\ new.file_pos = pos + c /\ new.inode = i
    BY <1>1, <2>0, <2>1, <2>7 DEF file_desc_t
  <2> HIDE DEF new
  <2>11. InOrder(new, bytes \o r.data)
    BY <2>4, <2>8, <2>9, <2>10, Zenon DEF InOrder
  <2> QED
    BY <2>2, <2>7, <2>8, <2>11, Zenon DEF ReadsOn, new
<1> QED
  BY <1>2, <1>3

-----------------------------------------------------------------------------
(* The entry of a name *)

LEMMA MatchFacts ==
  ASSUME image \in Images, NEW name, Clean(name), Matches(name) # {}
  PROVE  \E k \in 1..Len(image.dir_entries) :
           /\ read_dentry_by_name(name) = image.dir_entries[k]
           /\ image.dir_entries[k].filename = name
           /\ image.dir_entries[k].inode_num \in Nat
<1>1. PICK n \in Nat : n = Len(image.dir_entries) /\ DOMAIN image.dir_entries = 1..n
  BY EntryFacts
<1>2. Matches(name) \subseteq 1..n
  BY <1>1 DEF Matches
<1>3. Matches(name) \subseteq Nat
  BY <1>2
<1>4. PICK k : k = Min(Matches(name)) /\ k \in Matches(name)
  BY <1>3, MinFacts
<1>5. k \in 1..n
  BY <1>2, <1>4
<1>6. /\ strlen(CString(name)) <= FILENAME_CHAR_LIMIT
      /\ strncmp(Padded(image.dir_entries[k].filename), CString(name), FILENAME_CHAR_LIMIT)
  BY <1>4, Zenon DEF Matches
<1>7. PICK fn : fn = image.dir_entries[k].filename
  OBVIOUS
<1>8. Clean(fn) /\ Len(fn) <= FILENAME_CHAR_LIMIT
  BY <1>1, <1>5, <1>7, EntryNames DEF Clean
<1>9. Len(name) <= FILENAME_CHAR_LIMIT
  BY <1>6, CStringFacts, Zenon
<1>10. fn = name
  BY <1>6, <1>7, <1>8, <1>9, SameName
<1>11. image.dir_entries[k].inode_num \in Nat
  BY <1>1, <1>5, EntryFacts
<1>12. read_dentry_by_name(name) = image.dir_entries[k]
  BY <1>4, Zenon DEF read_dentry_by_name
<1> QED
  BY <1>1, <1>5, <1>7, <1>10, <1>11, <1>12, Zenon

LEMMA LaunchFacts ==
  ASSUME image \in Images, NEW cmd \in Commands, Matches(ProgramOf(cmd)) # {}
  PROVE  LoadedFor(cmd, program_load(read_dentry_by_name(ProgramOf(cmd)).inode_num))
<1>1. PICK name : name = ProgramOf(cmd) /\ Clean(name)
  BY CommandFacts
<1>2. PICK k \in 1..Len(image.dir_entries) :
           /\ read_dentry_by_name(name) = image.dir_entries[k]
           /\ image.dir_entries[k].filename = name
           /\ image.dir_entries[k].inode_num \in Nat
  BY <1>1, MatchFacts
<1>3. PICK i : i = image.dir_entries[k].inode_num /\ i = read_dentry_by_name(name).inode_num
  BY <1>2
<1>4. Healthy(i) => program_load(i) = Contents(i)
  BY LoadFacts
<1>5. k \in DOMAIN image.dir_entries
  BY EntryFacts
<1> QED
  BY <1>1, <1>2, <1>3, <1>4, <1>5, Zenon DEF LoadedFor

-----------------------------------------------------------------------------
(* The invariant is inductive *)

LEMMA SlotFacts ==
  ASSUME Types
  PROVE  /\ current_pid \in Nat /\ \A p \in Slots : p \in Nat
         /\ Live = {p \in Slots : p <= current_pid}
         /\ STDIN \in Fds /\ STDOUT \in Fds /\ STDIN # STDOUT
BY Sizes DEF Types, Slots, Live, Fds, STDIN, STDOUT

LEMMA DescriptorFacts ==
  /\ Closed \in file_desc_t /\ Standard \in file_desc_t
  /\ Closed.open = FALSE /\ Standard.open = TRUE
  /\ AllClosed \in [Fds -> file_desc_t] /\ \A fd \in Fds : AllClosed[fd] = Closed
<1>1. Closed \in file_desc_t /\ Standard \in file_desc_t /\ Closed.open = FALSE /\ Standard.open = TRUE
  BY DEF Closed, Standard, file_desc_t
<1> QED
  BY <1>1 DEF AllClosed

LEMMA InitInv ==
  Init => IInv
<1> SUFFICES ASSUME Init
             PROVE  IInv
  OBVIOUS
<1>1. <<>> \in Seq(STRING)
  OBVIOUS
<1>2. 0 \in Slots /\ \A p \in Slots : p \in Nat
  BY Sizes DEF Slots
<1>3. Types
  BY <1>1, <1>2, DescriptorFacts DEF Types, Init
<1>4. \A p \in Slots : (p <= current_pid <=> p = 0) /\ (p > current_pid <=> p # 0)
  BY <1>2 DEF Init
<1>5. ASSUME NEW p \in Slots, NEW fd \in Fds
      PROVE  fd_arr[p][fd] = IF p = 0 /\ fd \in {STDIN, STDOUT} THEN Standard ELSE Closed
  BY DEF Init
<1>6. StandardOpen
  <2>1. Live = {0}
    BY <1>2, <1>3, <1>4, SlotFacts
  <2> QED
    BY <1>2, <1>3, <1>5, <2>1, SlotFacts, DescriptorFacts DEF StandardOpen, OpenFds
<1>7. FreeClosed
  <2> SUFFICES ASSUME NEW p \in Slots, p # 0
               PROVE  fd_arr[p] = AllClosed
    BY <1>4 DEF FreeClosed
  <2>1. fd_arr[p] = [fd \in Fds |-> Closed]
    BY DEF Init
  <2> QED
    BY <2>1 DEF AllClosed
<1>8. LaunchedBy /\ LoadInv
  BY <1>2, <1>4 DEF LaunchedBy, LoadInv
<1>9. ReadInv
  <2> SUFFICES ASSUME NEW p \in Slots, NEW fd \in Fds, fd_arr[p][fd].open
               PROVE  InOrder(fd_arr[p][fd], got[p][fd])
    BY DEF ReadInv
  <2>1. fd_arr[p][fd] = Standard
    BY <1>5, DescriptorFacts
  <2> QED
    BY <2>1, StandardInOrder, Zenon
<1> QED
  BY <1>3, <1>6, <1>7, <1>8, <1>9 DEF IInv

\* Only descriptors of the current process change: what is left to show of a step
\* of open, close or read, which puts d and bytes at one descriptor.
Puts(fd, d, bytes) ==
  /\ fd \in Fds /\ d \in file_desc_t /\ bytes \in Seq(STRING)
  /\ fd \in {STDIN, STDOUT} => d.open
  /\ d.open => InOrder(d, bytes)
  /\ fd_arr' = [fd_arr EXCEPT ![current_pid][fd] = d]
  /\ got' = [got EXCEPT ![current_pid][fd] = bytes]
  /\ UNCHANGED <<image, current_pid, argument, command, loaded>>

LEMMA PutsInv ==
  ASSUME IInv, NEW fd, NEW d, NEW bytes, Puts(fd, d, bytes)
  PROVE  IInv'
<1> DEFINE c == current_pid
<1>1. Types /\ StandardOpen /\ FreeClosed /\ LaunchedBy /\ ReadInv /\ LoadInv
  BY DEF IInv
<1>2. /\ fd \in Fds /\ d \in file_desc_t /\ bytes \in Seq(STRING)
      /\ image' = image /\ current_pid' = c /\ argument' = argument /\ command' = command /\ loaded' = loaded
      /\ c \in Slots /\ c \in Nat /\ \A p \in Slots : p \in Nat
      /\ Live = {p \in Slots : p <= c}
      /\ STDIN \in Fds /\ STDOUT \in Fds
  BY <1>1, SlotFacts DEF Puts, Types
<1>3. /\ \A p \in Slots : p # c => fd_arr'[p] = fd_arr[p] /\ got'[p] = got[p]
      /\ \A g \in Fds : g # fd => fd_arr'[c][g] = fd_arr[c][g] /\ got'[c][g] = got[c][g]
      /\ fd_arr'[c][fd] = d /\ got'[c][fd] = bytes
      /\ fd_arr' \in [Slots -> [Fds -> file_desc_t]]
      /\ got' \in [Slots -> [Fds -> Seq(STRING)]]
  <2>1. /\ fd_arr \in [Slots -> [Fds -> file_desc_t]] /\ got \in [Slots -> [Fds -> Seq(STRING)]]
        /\ fd_arr' = [fd_arr EXCEPT ![c][fd] = d] /\ got' = [got EXCEPT ![c][fd] = bytes]
    BY <1>1 DEF Types, Puts
  <2>2. /\ \A p \in Slots : p # c => fd_arr'[p] = fd_arr[p]
        /\ \A g \in Fds : g # fd => fd_arr'[c][g] = fd_arr[c][g]
        /\ fd_arr'[c][fd] = d /\ fd_arr' \in [Slots -> [Fds -> file_desc_t]]
    BY <1>2, <2>1
  <2>3. PICK B : B = Seq(STRING)
    OBVIOUS
  <2>4. /\ \A p \in Slots : p # c => got'[p] = got[p]
        /\ \A g \in Fds : g # fd => got'[c][g] = got[c][g]
        /\ got'[c][fd] = bytes /\ got' \in [Slots -> [Fds -> B]]
    BY <1>2, <2>1, <2>3
  <2> QED
    BY <2>2, <2>3, <2>4
<1> HIDE DEF c
<1>4. Types'
  BY <1>1, <1>2, <1>3 DEF Types
<1>5. Live' = Live
  BY <1>2 DEF Live, c
<1>6. StandardOpen'
  <2> SUFFICES ASSUME NEW p \in Live, NEW g \in {STDIN, STDOUT}
               PROVE  fd_arr'[p][g].open
    BY <1>2, <1>5 DEF StandardOpen, OpenFds
  <2>1. g \in Fds /\ p \in Slots /\ fd_arr[p][g].open
    BY <1>1, <1>2 DEF StandardOpen, OpenFds
  <2>2. CASE p = c /\ g = fd
    <3>1. d.open
      BY <2>2 DEF Puts
    <3> QED
      BY <1>3, <2>2, <3>1
  <2>3. CASE ~(p = c /\ g = fd)
    BY <1>2, <1>3, <2>1, <2>3
  <2> QED
    BY <2>2, <2>3
<1>7. FreeClosed'
  <2> SUFFICES ASSUME NEW p \in Slots, p > c
               PROVE  fd_arr'[p] = AllClosed
    BY <1>2 DEF FreeClosed, AllClosed
  <2>1. p # c /\ fd_arr[p] = AllClosed
    BY <1>1, <1>2 DEF FreeClosed, c
  <2> QED
    BY <1>3, <2>1
<1>8. LaunchedBy'
  BY <1>1, <1>2 DEF LaunchedBy, c
<1>9. ReadInv'
  <2> SUFFICES ASSUME NEW p \in Slots, NEW g \in Fds, p <= c, fd_arr'[p][g].open
               PROVE  InOrder(fd_arr[p][g], got[p][g])'
    BY <1>2 DEF ReadInv
  <2>1. PICK f, b : f = fd_arr'[p][g] /\ b = got'[p][g]
    OBVIOUS
  <2>2. InOrder(f, b)
    <3>1. CASE p = c /\ g = fd
      BY <1>3, <2>1, <3>1 DEF Puts
    <3>2. CASE ~(p = c /\ g = fd)
      <4>1. f = fd_arr[p][g] /\ b = got[p][g]
        BY <1>2, <1>3, <2>1, <3>2
      <4> QED
        BY <1>1, <2>1, <4>1 DEF ReadInv, c
    <3> QED
      BY <3>1, <3>2
  <2>3. InOrder(f, b)'
    BY <1>2, <2>2, SameImage
  <2> QED
    BY <2>1, <2>3 DEF InOrder
<1>10. LoadInv'
  <2> SUFFICES ASSUME NEW p \in Slots, p > 0, p <= c
               PROVE  LoadedFor(command[p], loaded[p])'
    BY <1>2 DEF LoadInv
  <2>1. PICK k, b : k = command[p] /\ b = loaded[p]
    OBVIOUS
  <2>2. LoadedFor(k, b)
    BY <1>1, <2>1 DEF LoadInv, c
  <2>3. LoadedFor(k, b)'
    BY <1>2, <2>2, SameImage
  <2>4. k = command'[p] /\ b = loaded'[p]
    BY <1>2, <2>1
  <2> QED
    BY <2>3, <2>4 DEF LoadedFor
<1> QED
  BY <1>4, <1>6, <1>7, <1>8, <1>9, <1>10 DEF IInv

LEMMA OpenStep ==
  ASSUME IInv, NEW name \in Names, open(name)
  PROVE  IInv'
<1> DEFINE fd == Min(Fds \ OpenFds(current_pid))
           dentry == read_dentry_by_name(name)
           d == [open |-> TRUE, type |-> dentry.type, inode |-> dentry.inode_num, file_pos |-> 0]
<1>1. Types /\ StandardOpen /\ image \in Images
  BY DEF IInv, Types
<1>2. /\ Matches(name) # {} /\ OpenFds(current_pid) # Fds
      /\ dentry.type \in {FTYPE_RTC, FTYPE_DIR, FTYPE_FILE}
      /\ fd_arr' = [fd_arr EXCEPT ![current_pid][fd] = d]
      /\ got' = [got EXCEPT ![current_pid][fd] = <<>>]
      /\ UNCHANGED <<image, current_pid, argument, command, loaded>>
  BY Zenon DEF open
<1>3. Clean(name)
  BY FilesAssumption, Zenon DEF Clean
<1>4. dentry.inode_num \in Nat
  <2>1. PICK k \in 1..Len(image.dir_entries) :
           dentry = image.dir_entries[k] /\ image.dir_entries[k].inode_num \in Nat
    BY <1>1, <1>2, <1>3, MatchFacts
  <2> QED
    BY <2>1, Zenon
<1> HIDE DEF dentry
<1>5. d \in file_desc_t /\ d.open /\ d.file_pos = 0
  BY <1>2, <1>4 DEF file_desc_t
<1>6. fd \in Fds
  <2>1. Fds \ OpenFds(current_pid) \subseteq Nat /\ Fds \ OpenFds(current_pid) # {}
    BY <1>2 DEF Fds, OpenFds
  <2> QED
    BY <2>1, MinFacts
<1>7. InOrder(d, <<>>)
  BY <1>1, <1>5, OpenInOrder
<1>8. <<>> \in Seq(STRING)
  OBVIOUS
<1> HIDE DEF d, fd
<1>9. Puts(fd, d, <<>>)
  BY <1>2, <1>5, <1>6, <1>7, <1>8, Zenon DEF Puts
<1> QED
  BY <1>9, PutsInv

LEMMA CloseStep ==
  ASSUME IInv, NEW fd \in Fds, close(fd)
  PROVE  IInv'
<1>1. <<>> \in Seq(STRING) /\ Closed \in file_desc_t /\ ~Closed.open
  BY DescriptorFacts
<1>2. Puts(fd, Closed, <<>>)
  BY <1>1, Zenon DEF Puts, close
<1> QED
  BY <1>2, PutsInv

LEMMA ReadStep ==
  ASSUME IInv, NEW fd \in Fds, NEW n \in Counts, read(fd, n)
  PROVE  IInv'
<1> DEFINE c == current_pid
           f == fd_arr[c][fd]
           b == got[c][fd]
           r == Copied(f, n)
           d == [f EXCEPT !.file_pos = @ + r.cnt]
<1>1. /\ f.open /\ f.type \in {FTYPE_DIR, FTYPE_FILE} /\ r.cnt # Error
      /\ fd_arr' = [fd_arr EXCEPT ![c][fd].file_pos = @ + r.cnt]
      /\ got' = [got EXCEPT ![c][fd] = @ \o r.data]
      /\ UNCHANGED <<image, current_pid, argument, command, loaded>>
  BY DEF read, OpenFds
<1>2. Types /\ ReadInv
  BY DEF IInv
<1>3. c \in Slots /\ c <= c /\ n \in Nat /\ image \in Images
  BY <1>2, FilesAssumption, SlotFacts DEF Types
<1>4. f \in file_desc_t /\ b \in Seq(STRING)
  BY <1>2, <1>3 DEF Types
<1>5. InOrder(f, b)
  BY <1>1, <1>2, <1>3 DEF ReadInv
<1>6. fd_arr' = [fd_arr EXCEPT ![c][fd] = d]
  BY <1>1, <1>2, <1>3 DEF Types
<1>7. got' = [got EXCEPT ![c][fd] = b \o r.data]
  <2> HIDE DEF r
  <2>1. got' = [got EXCEPT ![c][fd] = got[c][fd] \o r.data]
    BY <1>1, Zenon
  <2> QED
    BY <2>1, Zenon
<1> HIDE DEF f, b
<1>8. ReadsOn(f, b, r)
  BY <1>1, <1>3, <1>4, <1>5, ReadInOrder
<1> HIDE DEF r
<1>9. r.cnt \in Nat /\ r.data \in Seq(STRING) /\ InOrder(d, b \o r.data)
  BY <1>8, Zenon DEF ReadsOn
<1>10. d \in file_desc_t /\ d.open
  <2>1. f.open /\ f \in file_desc_t
    BY <1>1, <1>4
  <2>2. PICK m \in Nat : m = r.cnt
    BY <1>9
  <2>3. [f EXCEPT !.file_pos = @ + m] \in file_desc_t /\ [f EXCEPT !.file_pos = @ + m].open
    BY <2>1 DEF file_desc_t
  <2> QED
    BY <2>2, <2>3
<1>11. b \o r.data \in Seq(STRING)
  BY <1>4, <1>9
<1> HIDE DEF d
<1>12. Puts(fd, d, b \o r.data)
  BY <1>1, <1>6, <1>7, <1>9, <1>10, <1>11, Zenon DEF Puts
<1> QED
  BY <1>12, PutsInv

LEMMA RejectedStep ==
  ASSUME IInv, NEW cmd \in Commands, execute_rejected(cmd)
  PROVE  IInv'
<1>1. Types /\ StandardOpen /\ FreeClosed /\ LaunchedBy /\ ReadInv /\ LoadInv
  BY DEF IInv
<1>2. PICK c \in Slots : c = current_pid /\ c \in Nat /\ c + 1 \in Slots /\ \A p \in Slots : p \in Nat
  <2>1. current_pid \in Slots /\ current_pid \in Nat /\ \A p \in Slots : p \in Nat
    BY <1>1, SlotFacts DEF Types
  <2>2. current_pid + 1 < PROCESS_NUM
    BY DEF execute_rejected, Parsed
  <2>3. current_pid + 1 \in Slots
    BY <2>1, <2>2, Sizes DEF Slots
  <2> QED
    BY <2>1, <2>3, Zenon
<1>3. /\ argument' = [argument EXCEPT ![c + 1] = ArgumentOf(cmd)]
      /\ image' = image /\ current_pid' = c /\ fd_arr' = fd_arr
      /\ got' = got /\ command' = command /\ loaded' = loaded
  BY <1>2 DEF execute_rejected, Parsed, histories
<1>4. Types'
  BY <1>1, <1>2, <1>3, CommandFacts DEF Types
<1>5. StandardOpen' /\ FreeClosed'
  BY <1>1, <1>2, <1>3 DEF StandardOpen, FreeClosed, OpenFds, Live, AllClosed
<1>6. LaunchedBy'
  BY <1>1, <1>2, <1>3 DEF LaunchedBy, Types
<1>7. ReadInv'
  <2> SUFFICES ASSUME NEW p \in Slots, NEW g \in Fds, p <= c, fd_arr[p][g].open
               PROVE  InOrder(fd_arr[p][g], got[p][g])'
    BY <1>3 DEF ReadInv
  <2>1. PICK f, b : f = fd_arr[p][g] /\ b = got[p][g] /\ f = fd_arr'[p][g] /\ b = got'[p][g]
    BY <1>3
  <2>2. InOrder(f, b)
    BY <1>1, <1>2, <2>1 DEF ReadInv
  <2>3. InOrder(f, b)'
    BY <1>3, <2>2, SameImage
  <2> QED
    BY <2>1, <2>3 DEF InOrder
<1>8. LoadInv'
  <2> SUFFICES ASSUME NEW p \in Slots, p > 0, p <= c
               PROVE  LoadedFor(command[p], loaded[p])'
    BY <1>3 DEF LoadInv
  <2>1. PICK k, b : k = command[p] /\ b = loaded[p] /\ k = command'[p] /\ b = loaded'[p]
    BY <1>3
  <2>2. LoadedFor(k, b)
    BY <1>1, <1>2, <2>1 DEF LoadInv
  <2>3. LoadedFor(k, b)'
    BY <1>3, <2>2, SameImage
  <2> QED
    BY <2>1, <2>3 DEF LoadedFor
<1> QED
  BY <1>4, <1>5, <1>6, <1>7, <1>8 DEF IInv

LEMMA ExecuteStep ==
  ASSUME IInv, NEW cmd \in Commands, execute(cmd)
  PROVE  IInv'
<1>1. Types /\ StandardOpen /\ FreeClosed /\ LaunchedBy /\ ReadInv /\ LoadInv
  BY DEF IInv
<1>2. PICK c \in Slots, e \in Slots : c = current_pid /\ c \in Nat /\ e = c + 1 /\ \A p \in Slots : p \in Nat
  <2>1. current_pid \in Slots /\ current_pid \in Nat /\ \A p \in Slots : p \in Nat
    BY <1>1, SlotFacts DEF Types
  <2>2. current_pid + 1 < PROCESS_NUM
    BY DEF execute, Parsed
  <2>3. current_pid + 1 \in Slots
    BY <2>1, <2>2, Sizes DEF Slots
  <2> QED
    BY <2>1, <2>3, Zenon
<1>3. PICK l : l = program_load(read_dentry_by_name(ProgramOf(cmd)).inode_num)
  OBVIOUS
<1>4. /\ Matches(ProgramOf(cmd)) # {}
      /\ argument' = [argument EXCEPT ![e] = Kept(ArgumentOf(cmd))]
      /\ image' = image /\ current_pid' = e /\ got' = got
      /\ fd_arr' = [fd_arr EXCEPT ![e][STDIN] = Standard, ![e][STDOUT] = Standard]
      /\ command' = [command EXCEPT ![e] = cmd] /\ loaded' = [loaded EXCEPT ![e] = l]
  BY <1>2, <1>3 DEF execute, Parsed
<1>5. LoadedFor(cmd, l)
  BY <1>1, <1>3, <1>4, LaunchFacts DEF Types
<1>6. fd_arr[e] = AllClosed
  BY <1>1, <1>2 DEF FreeClosed
<1>7. /\ fd_arr' \in [Slots -> [Fds -> file_desc_t]]
      /\ \A p \in Slots : p # e => fd_arr'[p] = fd_arr[p]
      /\ fd_arr'[e] = [[fd_arr[e] EXCEPT ![STDIN] = Standard] EXCEPT ![STDOUT] = Standard]
  BY <1>1, <1>2, <1>4, DescriptorFacts, SlotFacts DEF Types
<1>8. \A g \in Fds : fd_arr'[e][g] = IF g \in {STDIN, STDOUT} THEN Standard ELSE Closed
  BY <1>1, <1>6, <1>7, DescriptorFacts, SlotFacts
<1>9. Types'
  <2>1. cmd \in Seq(STRING) /\ Kept(ArgumentOf(cmd)) \in Seq(STRING)
    BY CommandFacts, KeptType DEF Clean
  <2> QED
    BY <1>1, <1>2, <1>4, <1>7, <2>1 DEF Types
<1>10. StandardOpen'
  <2> SUFFICES ASSUME NEW p \in Slots, p <= e, NEW g \in {STDIN, STDOUT}
               PROVE  fd_arr'[p][g].open
    <3>1. Live' = {p \in Slots : p <= e}
      BY <1>2, <1>4, Sizes DEF Live, Slots
    <3>2. STDIN \in Fds /\ STDOUT \in Fds
      BY <1>1, SlotFacts
    <3> QED
      BY <3>1, <3>2 DEF StandardOpen, OpenFds
  <2>1. g \in Fds
    BY <1>1, SlotFacts
  <2>2. CASE p = e
    BY <1>8, <2>1, <2>2, DescriptorFacts
  <2>3. CASE p # e
    <3>1. p \in Live
      BY <1>1, <1>2, <2>3, SlotFacts
    <3> QED
      BY <1>1, <1>7, <2>3, <3>1 DEF StandardOpen, OpenFds
  <2> QED
    BY <2>2, <2>3
<1>11. FreeClosed'
  <2> SUFFICES ASSUME NEW p \in Slots, p > e
               PROVE  fd_arr'[p] = AllClosed
    BY <1>4 DEF FreeClosed, AllClosed
  <2>1. p # e /\ p > c
    BY <1>2
  <2> QED
    BY <1>1, <1>2, <1>7, <2>1 DEF FreeClosed
<1>12. LaunchedBy'
  <2> SUFFICES ASSUME NEW p \in Slots, p > 0, p <= e
               PROVE  command'[p] \in Commands /\ argument'[p] = Kept(ArgumentOf(command'[p]))
    BY <1>4 DEF LaunchedBy, Kept, NoFreq, ArgumentOf, NonSpace, NextSpace, Skip
  <2>1. CASE p = e
    BY <1>1, <1>4, <2>1 DEF Types
  <2>2. CASE p # e
    BY <1>1, <1>2, <1>4, <2>2 DEF Types, LaunchedBy
  <2> QED
    BY <2>1, <2>2
<1>13. ReadInv'
  <2> SUFFICES ASSUME NEW p \in Slots, NEW g \in Fds, p <= e, fd_arr'[p][g].open
               PROVE  InOrder(fd_arr[p][g], got[p][g])'
    BY <1>4 DEF ReadInv
  <2>1. PICK f, b : f = fd_arr'[p][g] /\ b = got'[p][g]
    OBVIOUS
  <2>2. InOrder(f, b)
    <3>1. CASE p = e
      <4>1. f = Standard
        BY <1>8, <2>1, <3>1, DescriptorFacts
      <4> QED
        BY <4>1, StandardInOrder, Zenon
    <3>2. CASE p # e
      <4>1. f = fd_arr[p][g] /\ b = got[p][g] /\ p <= c
        BY <1>2, <1>4, <1>7, <2>1, <3>2
      <4> QED
        BY <1>1, <1>2, <2>1, <4>1 DEF ReadInv
    <3> QED
      BY <3>1, <3>2
  <2>3. InOrder(f, b)'
    BY <1>4, <2>2, SameImage
  <2> QED
    BY <2>1, <2>3 DEF InOrder
<1>14. LoadInv'
  <2> SUFFICES ASSUME NEW p \in Slots, p > 0, p <= e
               PROVE  LoadedFor(command[p], loaded[p])'
    BY <1>4 DEF LoadInv
  <2>1. PICK k, b : k = command'[p] /\ b = loaded'[p]
    OBVIOUS
  <2>2. LoadedFor(k, b)
    <3>1. CASE p = e
      <4>1. k = cmd /\ b = l
        BY <1>1, <1>4, <2>1, <3>1 DEF Types
      <4> QED
        BY <1>5, <4>1, Zenon
    <3>2. CASE p # e
      <4>1. k = command[p] /\ b = loaded[p] /\ p <= c
        BY <1>1, <1>2, <1>4, <2>1, <3>2 DEF Types
      <4> QED
        BY <1>1, <1>2, <4>1 DEF LoadInv
    <3> QED
      BY <3>1, <3>2
  <2>3. LoadedFor(k, b)'
    BY <1>4, <2>2, SameImage
  <2> QED
    BY <2>1, <2>3 DEF LoadedFor
<1> QED
  BY <1>9, <1>10, <1>11, <1>12, <1>13, <1>14 DEF IInv

LEMMA HaltStep ==
  ASSUME IInv, halt32
  PROVE  IInv'
<1>1. Types /\ StandardOpen /\ FreeClosed /\ LaunchedBy /\ ReadInv /\ LoadInv
  BY DEF IInv
<1>2. PICK c \in Slots, e \in Slots : c = current_pid /\ c \in Nat /\ e = c - 1 /\ \A p \in Slots : p \in Nat
  <2>1. current_pid \in Slots /\ current_pid \in Nat /\ \A p \in Slots : p \in Nat
    BY <1>1, SlotFacts DEF Types
  <2>2. current_pid > 0
    BY DEF halt32
  <2>3. current_pid - 1 \in Slots
    BY <2>1, <2>2, Sizes DEF Slots
  <2> QED
    BY <2>1, <2>3, Zenon
<1>3. PICK none : none = [fd \in Fds |-> <<>>]
  OBVIOUS
<1>4. /\ fd_arr' = [fd_arr EXCEPT ![c] = AllClosed] /\ got' = [got EXCEPT ![c] = none]
      /\ image' = image /\ current_pid' = e /\ argument' = argument
      /\ command' = [command EXCEPT ![c] = <<>>] /\ loaded' = [loaded EXCEPT ![c] = <<>>]
  BY <1>2, <1>3 DEF halt32
<1>5. /\ \A p \in Slots : p # c => /\ fd_arr'[p] = fd_arr[p] /\ got'[p] = got[p]
                                   /\ command'[p] = command[p] /\ loaded'[p] = loaded[p]
      /\ fd_arr'[c] = AllClosed
  BY <1>1, <1>2, <1>4 DEF Types
<1>6. Types'
  <2>1. <<>> \in Seq(STRING) /\ none \in [Fds -> Seq(STRING)]
    BY <1>3
  <2> QED
    BY <1>1, <1>2, <1>4, <2>1, DescriptorFacts DEF Types
<1>7. \A p \in Slots : p <= e => p <= c /\ p # c
  BY <1>2
<1>8. StandardOpen'
  <2> SUFFICES ASSUME NEW p \in Slots, p <= e, NEW g \in {STDIN, STDOUT}
               PROVE  fd_arr'[p][g].open
    <3>1. Live' = {p \in Slots : p <= e}
      BY <1>2, <1>4, Sizes DEF Live, Slots
    <3>2. STDIN \in Fds /\ STDOUT \in Fds
      BY <1>1, SlotFacts
    <3> QED
      BY <3>1, <3>2 DEF StandardOpen, OpenFds
  <2>1. p \in Live
    BY <1>1, <1>2, <1>7, SlotFacts
  <2> QED
    BY <1>1, <1>5, <1>7, <2>1 DEF StandardOpen, OpenFds
<1>9. FreeClosed'
  <2> SUFFICES ASSUME NEW p \in Slots, p > e
               PROVE  fd_arr'[p] = AllClosed
    BY <1>4 DEF FreeClosed, AllClosed
  <2>1. p = c \/ (p # c /\ p > c)
    BY <1>2
  <2> QED
    BY <1>1, <1>2, <1>5, <2>1 DEF FreeClosed
<1>10. LaunchedBy'
  <2> SUFFICES ASSUME NEW p \in Slots, p > 0, p <= e
               PROVE  command'[p] \in Commands /\ argument'[p] = Kept(ArgumentOf(command'[p]))
    BY <1>4 DEF LaunchedBy, Kept, NoFreq, ArgumentOf, NonSpace, NextSpace, Skip
  <2> QED
    BY <1>1, <1>2, <1>4, <1>5, <1>7 DEF LaunchedBy
<1>11. ReadInv'
  <2> SUFFICES ASSUME NEW p \in Slots, NEW g \in Fds, p <= e, fd_arr'[p][g].open
               PROVE  InOrder(fd_arr[p][g], got[p][g])'
    BY <1>4 DEF ReadInv
  <2>1. PICK f, b : f = fd_arr'[p][g] /\ b = got'[p][g]
    OBVIOUS
  <2>2. f = fd_arr[p][g] /\ b = got[p][g] /\ p <= c
    BY <1>5, <1>7, <2>1
  <2>3. InOrder(f, b)
    BY <1>1, <1>2, <2>1, <2>2 DEF ReadInv
  <2>4. InOrder(f, b)'
    BY <1>4, <2>3, SameImage
  <2> QED
    BY <2>1, <2>4 DEF InOrder
<1>12. LoadInv'
  <2> SUFFICES ASSUME NEW p \in Slots, p > 0, p <= e
               PROVE  LoadedFor(command[p], loaded[p])'
    BY <1>4 DEF LoadInv
  <2>1. PICK k, b : k = command'[p] /\ b = loaded'[p] /\ k = command[p] /\ b = loaded[p]
    BY <1>5, <1>7
  <2>2. LoadedFor(k, b)
    BY <1>1, <1>2, <1>7, <2>1 DEF LoadInv
  <2>3. LoadedFor(k, b)'
    BY <1>4, <2>2, SameImage
  <2> QED
    BY <2>1, <2>3 DEF LoadedFor
<1> QED
  BY <1>6, <1>8, <1>9, <1>10, <1>11, <1>12 DEF IInv

LEMMA NextInv ==
  ASSUME IInv, [Next]_vars
  PROVE  IInv'
<1>1. CASE UNCHANGED vars
  <2>1. /\ image' = image /\ current_pid' = current_pid /\ fd_arr' = fd_arr /\ argument' = argument
        /\ got' = got /\ command' = command /\ loaded' = loaded
    BY <1>1 DEF vars, histories
  <2>2. Types /\ StandardOpen /\ FreeClosed /\ LaunchedBy /\ ReadInv /\ LoadInv
    BY DEF IInv
  <2>3. Types' /\ StandardOpen' /\ FreeClosed' /\ LaunchedBy'
    BY <2>1, <2>2 DEF Types, StandardOpen, FreeClosed, LaunchedBy, OpenFds, Live, AllClosed
  <2>4. ReadInv'
    <3> SUFFICES ASSUME NEW p \in Slots, NEW g \in Fds, p <= current_pid, fd_arr[p][g].open
                 PROVE  InOrder(fd_arr[p][g], got[p][g])'
      BY <2>1 DEF ReadInv
    <3>1. PICK f, b : f = fd_arr[p][g] /\ b = got[p][g] /\ f = fd_arr'[p][g] /\ b = got'[p][g]
      BY <2>1
    <3>2. InOrder(f, b)
      BY <2>2, <3>1 DEF ReadInv
    <3>3. InOrder(f, b)'
      BY <2>1, <3>2, SameImage
    <3> QED
      BY <3>1, <3>3 DEF InOrder
  <2>5. LoadInv'
    <3> SUFFICES ASSUME NEW p \in Slots, p > 0, p <= current_pid
                 PROVE  LoadedFor(command[p], loaded[p])'
      BY <2>1 DEF LoadInv
    <3>1. PICK k, b : k = command[p] /\ b = loaded[p] /\ k = command'[p] /\ b = loaded'[p]
      BY <2>1
    <3>2. LoadedFor(k, b)
      BY <2>2, <3>1 DEF LoadInv
    <3>3. LoadedFor(k, b)'
      BY <2>1, <3>2, SameImage
    <3> QED
      BY <3>1, <3>3 DEF LoadedFor
  <2> QED
    BY <2>3, <2>4, <2>5 DEF IInv
<1>2. CASE \E name \in Names : open(name)
  BY <1>2, OpenStep
<1>3. CASE \E fd \in Fds : close(fd) \/ \E n \in Counts : read(fd, n)
  BY <1>3, CloseStep, ReadStep
<1>4. CASE \E cmd \in Commands : execute_rejected(cmd) \/ execute(cmd)
  BY <1>4, RejectedStep, ExecuteStep
<1>5. CASE halt32
  BY <1>5, HaltStep
<1> QED
  BY <1>1, <1>2, <1>3, <1>4, <1>5, Zenon DEF Next

\* Every descriptor, every running program and every free slot is as IInv says.
THEOREM Invariance == Spec => []IInv
<1>1. Init => IInv
  BY InitInv
<1>2. IInv /\ [Next]_vars => IInv'
  BY NextInv
<1> QED
  BY <1>1, <1>2, PTL DEF Spec

-----------------------------------------------------------------------------
(* What follows from it *)

\* The variables keep their types, and every live process has its standard
\* descriptors open, which close refuses to close (syscall.c).
THEOREM TypeCorrect == Spec => []TypeOK
<1>1. IInv => TypeOK
  BY DEF IInv, Types, StandardOpen, TypeOK
<1> QED
  BY <1>1, Invariance, PTL

\* The reads of a descriptor return the file or the directory in order, each byte
\* once, for every image, all sizes of reads and all interleavings of programs
\* (fs.c:56-77, 127-140).
THEOREM OrderedReads == Spec => []ReadsInOrder
<1>1. ASSUME IInv
      PROVE  ReadsInOrder
  <2> SUFFICES ASSUME NEW p \in Live, NEW fd \in OpenFds(p)
               PROVE  LET fdesc == fd_arr[p][fd]
                          whole == IF fdesc.type = FTYPE_DIR THEN DirBytes ELSE Contents(fdesc.inode)
                      IN  fdesc.type = FTYPE_DIR \/ (fdesc.type = FTYPE_FILE /\ fdesc.inode \in Inodes) =>
                            /\ fdesc.file_pos <= Len(whole)
                            /\ got[p][fd] = SubSeq(whole, 1, fdesc.file_pos)
    BY Zenon DEF ReadsInOrder, DirBytes, DirNames
  <2>1. Types /\ ReadInv
    BY <1>1 DEF IInv
  <2>2. p \in Slots /\ p <= current_pid /\ fd \in Fds /\ fd_arr[p][fd].open
    BY <2>1, SlotFacts DEF OpenFds
  <2>3. InOrder(fd_arr[p][fd], got[p][fd])
    BY <2>1, <2>2 DEF ReadInv
  <2>4. FTYPE_DIR # FTYPE_FILE
    BY DEF FTYPE_DIR, FTYPE_FILE
  <2> QED
    BY <2>3, <2>4, Zenon DEF InOrder
<1> QED
  BY <1>1, Invariance, PTL

\* A read of a file whose blocks are in range is short only at its end, for every
\* size of the read (fs.c:237-271, 303).
THEOREM FullReads == Spec => []ReadsAreFull
<1>1. ASSUME IInv
      PROVE  ReadsAreFull
  <2> SUFFICES ASSUME NEW p \in Live, NEW fd \in OpenFds(p), NEW n \in Counts,
                      fd_arr[p][fd].type = FTYPE_FILE, Healthy(fd_arr[p][fd].inode)
               PROVE  Copied(fd_arr[p][fd], n).cnt =
                        Min({n, Len(Contents(fd_arr[p][fd].inode)) - fd_arr[p][fd].file_pos})
    BY Zenon DEF ReadsAreFull
  <2>0. PICK f : f = fd_arr[p][fd] /\ f.type = FTYPE_FILE /\ Healthy(f.inode)
    BY Zenon
  <2>1. Types /\ ReadInv /\ image \in Images
    BY <1>1 DEF IInv, Types
  <2>2. p \in Slots /\ p <= current_pid /\ fd \in Fds /\ f.open
    BY <2>0, <2>1, SlotFacts DEF OpenFds
  <2>3. InOrder(f, got[p][fd])
    BY <2>0, <2>1, <2>2 DEF ReadInv
  <2>4. PICK i : i = f.inode /\ Healthy(i) /\ i \in Inodes /\ IsFile(i) /\ Holds(i, Node(i).length)
    BY <2>0, <2>1, HealthyFacts DEF IsFile
  <2>5. PICK N \in Nat : N = Node(i).length /\ N = Len(Contents(i))
    BY <2>4, NodeFacts DEF Holds
  <2>6. PICK pos \in Nat : pos = f.file_pos
    BY <2>0, <2>1, <2>2 DEF Types, file_desc_t
  <2>7. pos <= N
    BY <2>0, <2>3, <2>4, <2>5, <2>6 DEF InOrder
  <2>8. n \in Nat
    BY FilesAssumption
  <2>9. PICK c \in Nat : Copies(i, pos, n, c)
    BY <2>1, <2>4, <2>8, HealthyFacts
  <2>10. c = IF n <= N - pos THEN n ELSE N - pos
    BY <2>1, <2>4, <2>5, <2>7, <2>8, <2>9, FullRead
  <2>11. Min({n, N - pos}) = c
    <3>1. N - pos \in Int /\ n \in Int
      BY <2>8
    <3> QED
      BY <2>10, <3>1, MinOfTwo
  <2>12. Copied(f, n).cnt = c
    <3>1. Copied(f, n) = read_data(i, pos, n)
      BY <2>0, <2>4, <2>6 DEF Copied, FTYPE_DIR, FTYPE_FILE
    <3>2. PICK d : read_data(i, pos, n) = [cnt |-> c, data |-> d]
      BY <2>9, Zenon DEF Copies
    <3>3. [cnt |-> c, data |-> d].cnt = c
      OBVIOUS
    <3> QED
      BY <3>1, <3>2, <3>3, Zenon
  <2> QED
    BY <2>0, <2>4, <2>5, <2>6, <2>11, <2>12, Zenon
<1> QED
  BY <1>1, Invariance, PTL

\* A running program is the one its command names, and all of its file is in
\* memory, however many blocks that takes (fs.c:286-309).
THEOREM WholeImages == Spec => []ImageWhole
<1>1. ASSUME IInv
      PROVE  ImageWhole
  <2> SUFFICES ASSUME NEW p \in Live \ {0}
               PROVE  LoadedFor(command[p], loaded[p])
    BY Zenon DEF ImageWhole, LoadedFor
  <2>1. Types /\ LoadInv
    BY <1>1 DEF IInv
  <2>2. p \in Slots /\ p > 0 /\ p <= current_pid
    BY <2>1, SlotFacts DEF Slots
  <2> QED
    BY <2>1, <2>2 DEF LoadInv
<1> QED
  BY <1>1, Invariance, PTL

\* getargs returns the rest of the command that launched this very program, from
\* its first character after the name that is no space, if it fits the array in
\* the PCB (syscall.c:116-141, 174, 314-334).
THEOREM OwnArguments == Spec => []ArgumentIsOwn
<1>1. ASSUME IInv
      PROVE  ArgumentIsOwn
  <2> SUFFICES ASSUME NEW p \in Live \ {0}, NEW n \in 0..(Len(command[p]) + 1),
                      Len(ArgumentOf(command[p])) < MAX_ARGS, getargs(p, n) # <<Error>>
               PROVE  OwnArgument(command[p], getargs(p, n))
    BY Zenon DEF ArgumentIsOwn, OwnArgument
  <2>1. Types /\ LaunchedBy
    BY <1>1 DEF IInv
  <2>2. p \in Slots /\ p > 0 /\ p <= current_pid
    BY <2>1, SlotFacts DEF Slots
  <2>3. PICK cmd \in Seq(STRING) : cmd = command[p] /\ argument[p] = ArgumentOf(cmd)
    BY <2>1, <2>2 DEF LaunchedBy, Kept, Types
  <2>4. getargs(p, n) = argument[p] /\ argument[p] # <<>>
    BY Zenon DEF getargs
  <2> QED
    BY <2>3, <2>4, ArgumentFacts, Zenon
<1> QED
  BY <1>1, Invariance, PTL

\* A program starts with the two standard descriptors and nothing else open,
\* whatever ran in its slot before (syscall.c:37-50, buglog.txt:161-164).
THEOREM FreshTables == Spec => FreshTable
<1>1. ASSUME IInv, [Next]_vars
      PROVE  [current_pid' > current_pid =>
                {fd \in Fds : fd_arr'[current_pid'][fd].open} = {STDIN, STDOUT}]_vars
  <2> SUFFICES ASSUME current_pid' > current_pid
               PROVE  {fd \in Fds : fd_arr'[current_pid'][fd].open} = {STDIN, STDOUT}
    OBVIOUS
  <2>1. Types /\ FreeClosed
    BY <1>1 DEF IInv
  <2>2. current_pid \in Nat /\ STDIN \in Fds /\ STDOUT \in Fds
    BY <2>1, SlotFacts
  <2>3. PICK cmd \in Commands : execute(cmd)
    <3>1. current_pid' # current_pid /\ current_pid' # current_pid - 1
      BY <2>2
    <3>2. /\ \A name \in Names : ~open(name)
          /\ \A fd \in Fds : ~close(fd) /\ \A n \in Counts : ~read(fd, n)
          /\ \A cmd \in Commands : ~execute_rejected(cmd)
          /\ ~halt32 /\ ~UNCHANGED vars
      BY <3>1, Zenon DEF vars, open, close, read, execute_rejected, halt32
    <3> QED
      BY <1>1, <3>2, Zenon DEF Next
  <2>4. PICK e \in Slots : e = current_pid + 1 /\ e = current_pid'
    BY <2>1, <2>2, <2>3, Sizes DEF execute, Parsed, Slots
  <2>5. fd_arr' = [fd_arr EXCEPT ![e][STDIN] = Standard, ![e][STDOUT] = Standard]
    BY <2>3, <2>4 DEF execute
  <2>6. fd_arr[e] = AllClosed
    BY <2>1, <2>2, <2>4 DEF FreeClosed
  <2>7. fd_arr'[e] = [[AllClosed EXCEPT ![STDIN] = Standard] EXCEPT ![STDOUT] = Standard]
    BY <2>1, <2>4, <2>5, <2>6 DEF Types
  <2>8. \A g \in Fds : fd_arr'[e][g] = IF g \in {STDIN, STDOUT} THEN Standard ELSE Closed
    BY <2>2, <2>7, DescriptorFacts
  <2>9. \A g \in Fds : fd_arr'[e][g].open <=> g \in {STDIN, STDOUT}
    BY <2>8, DescriptorFacts
  <2> QED
    BY <2>2, <2>4, <2>9
<1> QED
  BY <1>1, Invariance, PTL DEF Spec, FreshTable

\* No step of a program touches the descriptors, positions or argument of the
\* programs that wait for it (syscall.c:37-50).
THEOREM Undisturbed == Spec => LauncherUndisturbed
<1>1. ASSUME IInv, [Next]_vars
      PROVE  [\A p \in 0..(current_pid - 1) :
                fd_arr'[p] = fd_arr[p] /\ argument'[p] = argument[p]]_vars
  <2> SUFFICES ASSUME NEW p \in 0..(current_pid - 1), ~UNCHANGED vars
               PROVE  fd_arr'[p] = fd_arr[p] /\ argument'[p] = argument[p]
    OBVIOUS
  <2>1. Types
    BY <1>1 DEF IInv
  <2>2. p \in Slots /\ p # current_pid /\ p # current_pid + 1 /\ current_pid \in Slots
    BY <2>1, Sizes DEF Types, Slots
  <2>3. ASSUME NEW name \in Names, open(name)
        PROVE  fd_arr'[p] = fd_arr[p] /\ argument'[p] = argument[p]
    BY <2>1, <2>2, <2>3 DEF open, Types
  <2>4. ASSUME NEW fd \in Fds, close(fd) \/ \E n \in Counts : read(fd, n)
        PROVE  fd_arr'[p] = fd_arr[p] /\ argument'[p] = argument[p]
    BY <2>1, <2>2, <2>4 DEF close, read, Types
  <2>5. ASSUME NEW cmd \in Commands, execute_rejected(cmd) \/ execute(cmd)
        PROVE  fd_arr'[p] = fd_arr[p] /\ argument'[p] = argument[p]
    BY <2>1, <2>2, <2>5 DEF execute_rejected, execute, Parsed, Types
  <2>6. CASE halt32
    BY <2>1, <2>2, <2>6 DEF halt32, Types
  <2> QED
    BY <1>1, <2>3, <2>4, <2>5, <2>6, Zenon DEF Next
<1> QED
  BY <1>1, Invariance, PTL DEF Spec, LauncherUndisturbed

=============================================================================
