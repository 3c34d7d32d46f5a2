--------------------------------- MODULE Files ---------------------------------
(***************************************************************************)
(* The read-only file system (drivers/fs.c), the descriptor table of every *)
(* process, and the part of execute and halt32 that sets a process up and  *)
(* clears it away (syscall.c).                                             *)
(*                                                                         *)
(* The tables are private to a process and only the current process uses   *)
(* its own, so a call is one step; the slots are those of one terminal,    *)
(* where each program suspends its launcher.  Slot 0 is the base shell,    *)
(* which opens no file and whose restart changes nothing here.  Calls that *)
(* return -1 without changing anything (a null pointer, a closed or        *)
(* unknown descriptor, an unknown name, a full table, any write to a file) *)
(* are stuttering steps.  Terminal and Rtc are behind the descriptors of   *)
(* the other two kinds.  A program's name fits the buffer that execute      *)
(* copies it to; an argument need not fit its array.                        *)
(***************************************************************************)
EXTENDS Integers, Sequences, FiniteSetsExt, SequencesExt

CONSTANTS
  PROCESS_NUM,          \* slots for processes
  MAX_NUM_FD,           \* descriptors of a process
  FILENAME_CHAR_LIMIT,  \* bytes of a name in the directory
  BLOCK_SIZE,           \* bytes of a data block, and of one step of program_load
  MAX_ARGS,             \* bytes of the argument in a PCB, its terminator included
  ELF_HEADER,           \* the bytes a program starts with
  Images,               \* file system images
  Names,                \* names that programs open
  Counts,               \* sizes of their reads
  Commands              \* commands that they execute

STDIN == 0
STDOUT == 1
FTYPE_RTC == 0
FTYPE_DIR == 1
FTYPE_FILE == 2
Space == " "
NUL == "nul"
FF == "ff"
Error == -1

Fds == 0..(MAX_NUM_FD - 1)
Slots == 0..(PROCESS_NUM - 1)

\* A descriptor; which jump table it has is given by the type of its file.
file_desc_t ==
  [open : BOOLEAN, type : {Error, FTYPE_RTC, FTYPE_DIR, FTYPE_FILE},
   inode : Nat \cup {Error}, file_pos : Nat]

node_t == [length : Nat, data_block : Seq(Nat)]

dir_entry_t == [filename : Seq(STRING), type : Nat, inode_num : Nat]

ASSUME FilesAssumption ==
  /\ PROCESS_NUM \in Nat /\ PROCESS_NUM > 0
  /\ MAX_NUM_FD \in Nat /\ MAX_NUM_FD >= 2
  /\ FILENAME_CHAR_LIMIT \in Nat \ {0}
  /\ BLOCK_SIZE \in Nat \ {0}
  /\ MAX_ARGS \in Nat \ {0}
  /\ Counts \subseteq Nat
  /\ {NUL, FF} \subseteq STRING /\ ELF_HEADER \in Seq(STRING)
  /\ \A s \in Names \cup Commands : s \in Seq(STRING) /\ \A k \in 1..Len(s) : s[k] # NUL

\* An image has the layout of fs.h: names fit their entries, blocks are full, and
\* an inode lists blocks for its whole length.  The numbers of inodes and blocks
\* in it may be any.
ASSUME ImagesAssumption ==
  \A img \in Images :
    /\ img.dir_entries \in Seq(dir_entry_t)
    /\ \A k \in 1..Len(img.dir_entries) :
         LET name == img.dir_entries[k].filename
         IN  Len(name) <= FILENAME_CHAR_LIMIT /\ \A i \in 1..Len(name) : name[i] # NUL
    /\ img.nodes \in Seq(node_t)
    /\ \A k \in 1..Len(img.nodes) :
         img.nodes[k].length <= BLOCK_SIZE * Len(img.nodes[k].data_block)
    /\ img.blocks \in Seq(Seq(STRING))
    /\ \A k \in 1..Len(img.blocks) : Len(img.blocks[k]) = BLOCK_SIZE

VARIABLES
  image,        \* the image that the boot loader put in memory
  current_pid,  \* the process that runs; the slots below it are suspended
  fd_arr,       \* per slot: its descriptors
  argument,     \* per slot: the string at the argument of its PCB
  got,          \* history: what the reads of an open descriptor have returned
  command,      \* history: the command a slot was launched with
  loaded        \* history: what program_load wrote into the memory of a slot

histories == <<got, command, loaded>>
vars == <<image, current_pid, fd_arr, argument, histories>>

-----------------------------------------------------------------------------
(* The file system. *)

\* A name as the directory stores it: without a terminator if it is full.
Padded(name) == [k \in 1..FILENAME_CHAR_LIMIT |-> IF k <= Len(name) THEN name[k] ELSE NUL]

\* A name as a program passes it.
CString(name) == Append(name, NUL)

strlen(s) == Min({k \in DOMAIN s : s[k] = NUL}) - 1

\* strncmp returns 0: the bytes at the first place, of the first n, where the
\* strings differ or end are the same, or there is no such place.  The second
\* string is terminated, so that no byte after its end is looked at.
strncmp(s1, s2, n) ==
  LET stops == {k \in 1..Min({n, Len(s2)}) : s1[k] # s2[k] \/ s1[k] = NUL}
  IN  stops # {} => s1[Min(stops)] = s2[Min(stops)]

\* The entries that a name is compared with successfully; an entry that is full
\* has no terminator.
Matches(name) ==
  {k \in DOMAIN image.dir_entries :
     /\ strlen(CString(name)) <= FILENAME_CHAR_LIMIT
     /\ strncmp(Padded(image.dir_entries[k].filename), CString(name), FILENAME_CHAR_LIMIT)}

\* read_dentry_by_name takes the first of them.
read_dentry_by_name(name) == image.dir_entries[Min(Matches(name))]

\* The loops of read_data and read_dir_file: how many bytes are copied until
\* the end, the first bad byte, or the count is reached.
CopyLoop(offset, count, Ends(_), Fails(_)) ==
  LET stops == {i \in 0..(count - 1) : Ends(offset + i) \/ Fails(offset + i)}
  IN  IF stops = {} THEN count
      ELSE IF Ends(offset + Min(stops)) THEN Min(stops) ELSE Error

\* Variant: the last block of the image is taken for a bad one.
BadBlock_early(block) == block + 1 >= Len(image.blocks)

BadBlock(block) == block >= Len(image.blocks)

Inodes == 0..(Len(image.nodes) - 1)

\* read_data: the number of bytes and the bytes it copies from a file.
read_data(inode, offset, length) ==
  IF inode \notin Inodes THEN [cnt |-> Error, data |-> <<>>] ELSE
  LET node == image.nodes[inode + 1]
      Block(j) == node.data_block[(j \div BLOCK_SIZE) + 1]
      Byte(j) == image.blocks[Block(j) + 1][(j % BLOCK_SIZE) + 1]
      cnt == CopyLoop(offset, length, LAMBDA j : j >= node.length, LAMBDA j : BadBlock(Block(j)))
  IN  [cnt |-> cnt, data |-> [k \in 1..Max({cnt, 0}) |-> Byte(offset + k - 1)]]

\* read_dir_file: the directory as the sequence of its padded names.
read_dir_file(offset, count) ==
  LET Dir(j) == j \div FILENAME_CHAR_LIMIT
      Byte(j) == Padded(image.dir_entries[Dir(j) + 1].filename)[(j % FILENAME_CHAR_LIMIT) + 1]
      cnt == CopyLoop(offset, count, LAMBDA j : Dir(j) >= Len(image.dir_entries), LAMBDA j : FALSE)
  IN  [cnt |-> cnt, data |-> [k \in 1..cnt |-> Byte(offset + k - 1)]]

\* program_valid compares the header.  Of a file that is shorter than a header
\* the rest of the buffer is uninitialised and may happen to match.
HeaderMatches(inode) ==
  LET header == read_data(inode, 0, Len(ELF_HEADER)).data
  IN  \A k \in DOMAIN header : header[k] = ELF_HEADER[k]

HeaderComplete(inode) ==
  read_data(inode, 0, Len(ELF_HEADER)).cnt = Len(ELF_HEADER)

\* Variant: the first step is taken for the whole file.
program_load_once(inode) == read_data(inode, 0, BLOCK_SIZE).data

\* The steps that program_load takes until one is short or fails.
program_load(inode) ==
  LET chunk(i) == read_data(inode, i * BLOCK_SIZE, BLOCK_SIZE)
      steps == IF inode \in Inodes THEN Len(image.nodes[inode + 1].data_block) ELSE 0
      last == Min({i \in 0..steps : chunk(i).cnt # BLOCK_SIZE})
  IN  FlattenSeq([i \in 1..(last + 1) |-> chunk(i - 1).data])

-----------------------------------------------------------------------------
(* Descriptors. *)

\* The other fields of a closed descriptor are dead: open writes them all.
Closed == [open |-> FALSE, type |-> Error, inode |-> Error, file_pos |-> 0]

\* The standard descriptors have no file behind them.
Standard == [Closed EXCEPT !.open = TRUE]

OpenFds(p) == {fd \in Fds : fd_arr[p][fd].open}

Init ==
  /\ image \in Images
  /\ current_pid = 0
  /\ fd_arr = [p \in Slots |-> [fd \in Fds |->
                 IF p = 0 /\ fd \in {STDIN, STDOUT} THEN Standard ELSE Closed]]
  /\ argument = [p \in Slots |-> <<>>]
  /\ got = [p \in Slots |-> [fd \in Fds |-> <<>>]]
  /\ command = [p \in Slots |-> <<>>]
  /\ loaded = [p \in Slots |-> <<>>]

\* open takes the first free descriptor.
open(name) ==
  LET fd == Min(Fds \ OpenFds(current_pid))
      dentry == read_dentry_by_name(name)
  IN  /\ current_pid > 0
      /\ OpenFds(current_pid) # Fds
      /\ Matches(name) # {}
      /\ dentry.type \in {FTYPE_RTC, FTYPE_DIR, FTYPE_FILE}
      /\ fd_arr' = [fd_arr EXCEPT ![current_pid][fd] =
                      [open |-> TRUE, type |-> dentry.type, inode |-> dentry.inode_num,
                       file_pos |-> 0]]
      /\ got' = [got EXCEPT ![current_pid][fd] = <<>>]
      /\ UNCHANGED <<image, current_pid, argument, command, loaded>>

\* Variant: the standard descriptors can be closed.
close_any(fd) ==
  /\ fd \in OpenFds(current_pid)
  /\ fd_arr' = [fd_arr EXCEPT ![current_pid][fd] = Closed]
  /\ got' = [got EXCEPT ![current_pid][fd] = <<>>]
  /\ UNCHANGED <<image, current_pid, argument, command, loaded>>

close(fd) ==
  /\ fd \in OpenFds(current_pid) \ {STDIN, STDOUT}
  /\ fd_arr' = [fd_arr EXCEPT ![current_pid][fd] = Closed]
  /\ got' = [got EXCEPT ![current_pid][fd] = <<>>]
  /\ UNCHANGED <<image, current_pid, argument, command, loaded>>

\* What a read of an open descriptor copies.
Copied(fdesc, count) ==
  IF fdesc.type = FTYPE_DIR
  THEN read_dir_file(fdesc.file_pos, count)
  ELSE read_data(fdesc.inode, fdesc.file_pos, count)

\* Variant: the position advances by the size asked for.
read_by_count(fd, count) ==
  LET fdesc == fd_arr[current_pid][fd]
      copied == Copied(fdesc, count)
  IN  /\ fd \in OpenFds(current_pid)
      /\ fdesc.type \in {FTYPE_DIR, FTYPE_FILE}
      /\ copied.cnt # Error
      /\ fd_arr' = [fd_arr EXCEPT ![current_pid][fd].file_pos = @ + count]
      /\ got' = [got EXCEPT ![current_pid][fd] = @ \o copied.data]
      /\ UNCHANGED <<image, current_pid, argument, command, loaded>>

\* fs_read and directory_read; a read that fails leaves the position alone.
read(fd, count) ==
  LET fdesc == fd_arr[current_pid][fd]
      copied == Copied(fdesc, count)
  IN  /\ fd \in OpenFds(current_pid)
      /\ fdesc.type \in {FTYPE_DIR, FTYPE_FILE}
      /\ copied.cnt # Error
      /\ fd_arr' = [fd_arr EXCEPT ![current_pid][fd].file_pos = @ + copied.cnt]
      /\ got' = [got EXCEPT ![current_pid][fd] = @ \o copied.data]
      /\ UNCHANGED <<image, current_pid, argument, command, loaded>>

-----------------------------------------------------------------------------
(* Programs. *)

\* The first position from i on where the command ends or Is holds.
Skip(cmd, i, Is(_)) ==
  Min({k \in i..(Len(cmd) + 1) : k = Len(cmd) + 1 \/ Is(cmd[k])})

NonSpace(cmd, i) == Skip(cmd, i, LAMBDA c : c # Space)
NextSpace(cmd, i) == Skip(cmd, i, LAMBDA c : c = Space)

\* The parser of execute: leading spaces, the program, spaces, the argument.
ProgramOf(cmd) ==
  SubSeq(cmd, NonSpace(cmd, 1), NextSpace(cmd, NonSpace(cmd, 1)) - 1)

\* Variant: the argument starts right after the program.
ArgumentOf_with_space(cmd) ==
  SubSeq(cmd, NextSpace(cmd, NonSpace(cmd, 1)), Len(cmd))

ArgumentOf(cmd) ==
  SubSeq(cmd, NonSpace(cmd, NextSpace(cmd, NonSpace(cmd, 1))), Len(cmd))

\* getargs gives the whole argument or an error: the buffer must also hold the
\* terminator.
getargs(p, nbytes) ==
  IF argument[p] = <<>> \/ Len(argument[p]) >= nbytes THEN <<Error>> ELSE argument[p]

\* The four bytes of rtc_freq, which follow the argument in the PCB, after -1
\* was stored in them.
NoFreq == [k \in 1..4 |-> FF]

\* What execute leaves of an argument.  The copy has no bound: what does not fit
\* the array goes on into rtc_freq, whose four bytes execute overwrites, the
\* terminator too if it was there.  (The memory behind the PCB is taken to be
\* zero where the copy did not reach it.)
Kept(arg) ==
  IF Len(arg) < MAX_ARGS THEN arg
  ELSE SubSeq(arg, 1, MAX_ARGS) \o NoFreq \o SubSeq(arg, MAX_ARGS + Len(NoFreq) + 1, Len(arg))

\* execute has a free slot and has parsed the command into its PCB, where arg is
\* then the argument.
Parsed(arg) ==
  /\ current_pid + 1 < PROCESS_NUM
  /\ argument' = [argument EXCEPT ![current_pid + 1] = arg]

\* The command is rejected when there is no such program.
execute_rejected(cmd) ==
  /\ Parsed(ArgumentOf(cmd))
  /\ LET name == ProgramOf(cmd)
         inode == read_dentry_by_name(name).inode_num
     IN  Matches(name) # {} => ~(HeaderMatches(inode) /\ HeaderComplete(inode))
  /\ UNCHANGED <<image, current_pid, fd_arr, histories>>

\* The child gets its image and the two standard descriptors.
execute(cmd) ==
  LET child == current_pid + 1
      name == ProgramOf(cmd)
      inode == read_dentry_by_name(name).inode_num
  IN  /\ Parsed(Kept(ArgumentOf(cmd)))
      /\ Matches(name) # {}
      /\ HeaderMatches(inode)
      /\ current_pid' = child
      /\ fd_arr' = [fd_arr EXCEPT ![child][STDIN] = Standard, ![child][STDOUT] = Standard]
      /\ command' = [command EXCEPT ![child] = cmd]
      /\ loaded' = [loaded EXCEPT ![child] = program_load(inode)]
      /\ UNCHANGED <<image, got>>

\* What the loop of halt32 leaves of a table.
AllClosed == [fd \in Fds |-> Closed]

\* Variant: the parent is made current before the loop calls close.
halt32_parent_first ==
  /\ current_pid > 0
  /\ fd_arr' = [fd_arr EXCEPT ![current_pid - 1] = AllClosed]
  /\ current_pid' = current_pid - 1
  /\ got' = [got EXCEPT ![current_pid] = [fd \in Fds |-> <<>>]]
  /\ command' = [command EXCEPT ![current_pid] = <<>>]
  /\ loaded' = [loaded EXCEPT ![current_pid] = <<>>]
  /\ UNCHANGED <<image, argument>>

\* Variant: only the standard descriptors are closed.
halt32_leaks ==
  /\ current_pid > 0
  /\ fd_arr' = [fd_arr EXCEPT ![current_pid][STDIN] = Closed, ![current_pid][STDOUT] = Closed]
  /\ current_pid' = current_pid - 1
  /\ got' = [got EXCEPT ![current_pid] = [fd \in Fds |-> <<>>]]
  /\ command' = [command EXCEPT ![current_pid] = <<>>]
  /\ loaded' = [loaded EXCEPT ![current_pid] = <<>>]
  /\ UNCHANGED <<image, argument>>

\* halt32 of a program closes its descriptors and goes back to the parent.
halt32 ==
  /\ current_pid > 0
  /\ fd_arr' = [fd_arr EXCEPT ![current_pid] = AllClosed]
  /\ current_pid' = current_pid - 1
  /\ got' = [got EXCEPT ![current_pid] = [fd \in Fds |-> <<>>]]
  /\ command' = [command EXCEPT ![current_pid] = <<>>]
  /\ loaded' = [loaded EXCEPT ![current_pid] = <<>>]
  /\ UNCHANGED <<image, argument>>

-----------------------------------------------------------------------------

Next ==
  \/ \E name \in Names : open(name)
  \/ \E fd \in Fds : close(fd) \/ \E n \in Counts : read(fd, n)
  \/ \E cmd \in Commands : execute_rejected(cmd) \/ execute(cmd)
  \/ halt32

Spec == Init /\ [][Next]_vars

-----------------------------------------------------------------------------
(* Properties *)

\* The bytes of a file: its blocks one after the other, up to the first bad one
\* and to its length.
Contents(inode) ==
  LET node == image.nodes[inode + 1]
      bad == {k \in DOMAIN node.data_block : node.data_block[k] >= Len(image.blocks)}
      good == Min(bad \cup {Len(node.data_block) + 1}) - 1
      bytes == FlattenSeq([k \in 1..good |-> image.blocks[node.data_block[k] + 1]])
  IN  SubSeq(bytes, 1, Min({node.length, Len(bytes)}))

\* The file is there and none of its blocks is out of range.
Healthy(inode) ==
  /\ inode \in Inodes
  /\ \A k \in DOMAIN image.nodes[inode + 1].data_block :
       image.nodes[inode + 1].data_block[k] < Len(image.blocks)

Live == 0..current_pid

\* Every variable keeps its type, and the running process its standard descriptors.
TypeOK ==
  /\ current_pid \in Slots
  /\ fd_arr \in [Slots -> [Fds -> file_desc_t]]
  /\ \A p \in Live : {STDIN, STDOUT} \subseteq OpenFds(p)

\* A program starts with the standard descriptors and nothing else, whatever the
\* programs before it in its slot left open (buglog.txt:161-164).
FreshTable ==
  [][current_pid' > current_pid =>
       {fd \in Fds : fd_arr'[current_pid'][fd].open} = {STDIN, STDOUT}]_vars

\* A launcher finds its descriptors, positions and argument as it left them,
\* whatever its children did, their ends included (syscall.c:37-50).
LauncherUndisturbed ==
  [][\A p \in 0..(current_pid - 1) :
       fd_arr'[p] = fd_arr[p] /\ argument'[p] = argument[p]]_vars

\* The reads of a descriptor, of whatever sizes, return the bytes of its file or
\* directory in order, each exactly once, a read that fails on a bad block
\* nothing (fs.c:56-77, 127-140).
ReadsInOrder ==
  \A p \in Live : \A fd \in OpenFds(p) :
    LET fdesc == fd_arr[p][fd]
        whole == IF fdesc.type = FTYPE_DIR
                 THEN FlattenSeq([k \in DOMAIN image.dir_entries |-> Padded(image.dir_entries[k].filename)])
                 ELSE Contents(fdesc.inode)
    IN  fdesc.type = FTYPE_DIR \/ (fdesc.type = FTYPE_FILE /\ fdesc.inode \in Inodes) =>
          /\ fdesc.file_pos <= Len(whole)
          /\ got[p][fd] = SubSeq(whole, 1, fdesc.file_pos)

\* A read is short only at the end of the file, which the end of file test of
\* programs and the loop of program_load rely on (fs.c:237-271, 303).
ReadsAreFull ==
  \A p \in Live : \A fd \in OpenFds(p) : \A n \in Counts :
    LET fdesc == fd_arr[p][fd]
    IN  fdesc.type = FTYPE_FILE /\ Healthy(fdesc.inode) =>
          Copied(fdesc, n).cnt = Min({n, Len(Contents(fdesc.inode)) - fdesc.file_pos})

\* A running program has the whole file in memory (fs.c:286-309).
ImageWhole ==
  \A p \in Live \ {0} :
    \E k \in DOMAIN image.dir_entries :
      LET dentry == image.dir_entries[k]
      IN  /\ dentry.filename = ProgramOf(command[p])
          /\ Healthy(dentry.inode_num) => loaded[p] = Contents(dentry.inode_num)

\* What getargs returns is the rest of the command that launched this very
\* program, from the first character after the program's name that is no space,
\* if it fits the array of the PCB: a longer one runs into rtc_freq, and what
\* getargs returns is not the argument (syscall.c:116-141, 174, 314-334).
ArgumentIsOwn ==
  \A p \in Live \ {0} :
    LET cmd == command[p]
        Inside(k) == cmd[k] # Space
        Before(i) == {k \in 1..(i - 1) : Inside(k)}
    IN  Len(ArgumentOf(cmd)) < MAX_ARGS =>
        \A n \in 0..(Len(cmd) + 1) : getargs(p, n) # <<Error>> =>
          \E i \in 2..Len(cmd) :
            /\ getargs(p, n) = SubSeq(cmd, i, Len(cmd))
            /\ Inside(i) /\ ~Inside(i - 1)
            /\ Before(i) # {} /\ Before(i) = Min(Before(i))..Max(Before(i))
=============================================================================
