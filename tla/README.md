# A verification project for leanNix

leanNix is a small 32-bit operating system (`src/student-distrib`): three text
terminals with a shell each, six process slots, preemptive round-robin
scheduling by the timer, a read-only file system, a virtualised real-time clock
and ten system calls. System calls run with interrupts enabled, so what makes
the kernel hard to get right is what an interrupt finds half done. This project
models the kernel in TLA+, model-checks it with TLC, and proves the safety
properties of all its parts with TLAPS for every size of the system.

## 1. Inventory

| part | state | operations | interacts through |
|---|---|---|---|
| processes and scheduler (`syscall.c`, `schedule.c`, `process.c`, `pit.c`) | `process_queue`, PCBs, `current_pid`, `tss.esp0`, user page, kernel stacks | `execute`, `halt`, `sched`, timer tick, boot | every system call uses `current_pid`; `sched` restores pages and the clock's rate |
| terminal line discipline (`terminal.c`, `keyboard.c`) | `kb_buf`, `kb_pos`, `readWaiting`, `display_term` | key handlers, `terminal_read` | `readWaiting` is shared by the interrupt and the reader |
| screens (`terminal.c`, `page.c`) | video memory, backups, cursors, page table entries, TLB | `term_putc`, `show_terminal`, `term_clear`, `vidmap` | keys echo into a screen a program is writing |
| real-time clock (`rtc.c`) | chip rate, `current_rtc_freq`, `rtc_int_flag`, `rtc_freq` in the PCB | open, read, write, close, interrupt, restore in `sched` | one chip and one flag for all programs |
| file system and descriptors (`fs.c`, `syscall.c`) | image, `fd_arr`, `argument` | open, read, close, getargs, `program_valid`, `program_load` | descriptors are inherited by nobody and closed by `halt` |
| interrupts (`i8259.c`, `idt.c`, `interrupt_linkage.S`) | masks, lines in service, interrupt flag, handler frames | the three handlers, `send_eoi` | `sched` switches stacks inside the timer's handler |
| keyboard decoding (`keyboard.c`) | `caps`, `ctrl`, `alt`, `shiftL`, `shiftR`, `key_stat` | make and break codes of modifiers, table lookup | decides which line, screen or terminal operation a key is |
| boot (`kernel.c`) | masks, timer and clock set-up, paging on, the first shells | `entry` | its second half runs with interrupts enabled |
| exceptions, page layout, library, user programs | see section 8 | | |

What is hard: a tick between any two statements of `execute`, `sched` and the
clock's calls; a key between any two statements of `terminal_read` and
`term_putc`; a line typed before it is read; modifiers that come up in another
order than they went down; Enter racing the test before `hlt`; handlers that are switched away
from before they are done; cached values (`current_rtc_freq`, the TLB); a queue
search that falls through; buffers, descriptor tables and slots at their limit.
The list, line by line, is `hazards` in `PROJECT.json`, each with the properties
that would catch it.

## 2. Modules

| module | models | proved in |
|---|---|---|
| `Jobs` | the abstract promise of `execute` and `halt`: one stack of programs per terminal | |
| `Scheduler` | slots, queue, context switch, `execute` statement by statement | `Scheduler_proofs` |
| `Terminal` | from the key to the line a read returns | `Terminal_proofs` |
| `Keyboard` | modifier keys and the scan code table | `Console_proofs` |
| `Console` (`MCConsole`: keys, output) | `Keyboard`, line buffer and screen composed | `Console_proofs` |
| `Screen` | from boot and the character to the monitor | `Screen_proofs` |
| `Rtc` (`MCRtc`: depths) | the shared clock | `Rtc_proofs` |
| `Files` (`MCFiles`: images, names, commands) | files, descriptors, arguments, loader | `Files_proofs` |
| `Interrupts` | boot of the controllers, nested handlers, end of interrupt | `Interrupts_proofs` |

`Recursion_proofs` holds what the proofs about files and consoles share: induction
over a set of numbers, recursion, quotients, stretches of sequences.

Names follow the source: an action is named after the function it models, or
after the function and the part of it (`execute_map`, `putc_wrap`, `read_copy`).
A definition whose comment starts with "Variant" is a plausible bug of the
definition after it; each property has one that breaks it, listed under
`mutants`, to show that the property can fail.

**Scheduler.** `pc[p]` is the point reached by the code on process p's kernel
stack. `execute` is cut at every point where a tick makes a difference: slot
chosen (`alloc`), page mapped (`map`), image half loaded (`load`), loaded,
parent dequeued (`q1`), child queued (`q2`), frame saved (`based`), inside
`sched` (`picked`, `switched`). A saved frame is represented by the stack it is
on (`sched_bp`, `base_ptr`). `halt32` runs with interrupts disabled and is one
step. The program image has two halves so that a load can be interrupted.
`Jobs` is instantiated with a refinement mapping: the foreground of a terminal
is its scheduled process, or the launcher that is about to hand over.

**Terminal.** A key is one step because `keyboard_int` disables interrupts.
`terminal_read` is cut at every access to shared state, down to one byte of the
copy loop and to the gap between the test of the flag and `hlt`: at `hlt` the
instruction is still to come and an interrupt returns to it, with the flag
possibly cleared; at `halted` the processor has stopped and an interrupt leads to
the test. Enter on a full buffer stores its newline into `kb_pos`, the next field
of `terminal_t`: `kb_pos` is then the code of the newline (`LF`) or one past the
end, as the compiler orders the store and the increment (`Stored`). The history
variable `entered` records the line at Enter.

**Keyboard and Console.** `Keyboard` keeps what the driver believes of the
modifier keys beside which of them are really down (`held`, `locked`), and the
rows of `kb_map` by kind of key: a character is its key and which of the key's
two characters it is. `Console` extends it with the line buffers and the cells of
the screens, so that echo, Backspace, Tab, Ctrl-L, scrolling and the prompt of a
program meet. A key is one step, as in `Terminal`; a call of `term_putc` is one
step, whose inside is `Screen`'s; the return of a read is one step, whose inside
is `Terminal`'s. The buffer that `term_showbuf` prints is chosen when it is
called (`source`) and its length read again at every character, as in the code.
`prompt` is history: the prompt of this read has not been cleared away.

**Screen.** `Init` is the outcome of `term_init`; `init_pages` is an action,
before which an address is physical (`paging`). A cell holds a blank or a mark telling whose output it is. `addr`
and `arg` are the address and the cursor arguments that `term_putc` has computed
and not yet used. `reset_cursor` is one step for a key and one step per statement
for `term_putc`, which calls it with interrupts enabled: the two stores, the test
of `display_term` and the four `outb`, which select one of the two registers of
the cursor (`crtc_index`) and write a byte of the position to the one selected.
`page` and `tlb` are a page table entry and its cached copy;
`show_terminal` changes the first and not the second.

**Rtc.** `program` is the point between the driver's record of the rate and the
chip, `store` the one between the chip and the PCB, `mark` the one between the PCB
and the open descriptor, and `forget` the one between the closed descriptor and
the PCB. `heard` records which readers have had an interrupt since they began to read.

**Files.** Calls are atomic: a descriptor table is private to its process. The
two loops that copy bytes are given by the position where they stop. Names are
compared by `strlen` and `strncmp` on entries of fixed size, with and without a
terminating zero. An argument is copied without a bound: what does not fit the
array goes on into `rtc_freq`, which `execute` then overwrites (`Kept`). A shell's
line has at most 127 characters and its argument fits; a program can pass a
longer one. A program's name is taken to fit the kernel's buffer of 129 bytes,
and the memory behind the PCB to be zero where no copy reached it. For a file shorter than the executable header `program_valid` compares uninitialised
memory, so acceptance and rejection are both possible.

**Interrupts.** `frames[p]` are the handlers on p's kernel stack, each at the
point it has reached. `term_keyboardEnter` and `show_terminal` set the interrupt
flag before `keyboard_int` has sent its end of interrupt: a tick may switch away
from the unfinished handler. `halt32` drops the frames above the launcher's
`execute` call. A root shell that runs into an exception starts again with the
flag clear (`exception`, `masked`); inside its system calls `rtc_set_freq` may set the
flag (`call_sti`) until the call returns (`call_iret`), and `sched` passes the flag
of the moment to a process that it starts. `Init` is the state in which `entry` calls `i8259_init`; every
step of `entry` from there on is an action (`Boot`), on a stack of its own that
is left for good by the first `sched`, whether `entry` or a tick calls it.

How they fit together: `Terminal`, `Screen`, `Rtc` and `Files` take from
`Scheduler` that a process runs in its own context (`RunsInOwnContext`), that a
terminal has one foreground process (`OneForegroundPerTerminal`) and that it
gets the processor again (`RoundRobin`); `Scheduler` takes from `Interrupts`
that every tick is served; `Console` takes from `Screen` that text stays home and
from `Terminal` that a read returns the line in its buffer.

## 3. Where interrupts are let in

The kernel has windows in which an interrupt does break it. The models contain
these points; a constant of each instance says at which of them interrupts
arrive, so that the passing runs and the theorems state exactly the conditions
under which the code is right, and a run with one more point shows the defect.

* `Scheduler`, `TickPoints = {"based", "picked"}`: user code and the part of
  `execute` after the child is complete. A tick at `alloc` lets two terminals
  choose the same slot (`PidsAreUnique`); at `map` or `load` it remaps the page
  being loaded (`ImageIntact`, run `tick_in_load`); at `q1` nobody is left in
  the queue for that terminal; at `q2` the child may end before its frame is
  recorded (`HaltReturnsToLauncher`); at `switched` the launcher's frame is saved in
  the wrong PCB. Add the point to `TickPoints` to see the behaviour.
* `Console`, `KeyPoints = {"busy", "wait", "woken"}`: keys while the program runs,
  while its read waits and after the Enter that ends it. A key at `prompted`, between the prompt and the test of
  `kb_pos`, or at `show`, while `term_showbuf` runs, is printed by the interrupt
  and again by `term_showbuf` (`LineIsShown`). `BackgroundShow = TRUE`: a read on
  a terminal that is not displayed prints the displayed terminal's buffer
  (`LineIsShown`). `Typematic` with `CAPS_LOCK`: a held Caps Lock toggles on
  every repeat; `BACKSLASH` among the keys: Shift with Caps Lock has a backslash
  where it should have a bar (`TypedAsMeant` both).
* `Terminal`, `KeyPoints`: everything up to the Enter that ends a read. A key
  after it and before the copy is complete edits the line under the reader.
  `ReadDeliversLine` is about lines that fit the buffer with their newline; a longer
  one is the subject of `short_read`, and its read returns what a destroyed
  `kb_pos` makes of it.
* `Screen`, `KeyPoints = {"idle", "reset"}`: a key between the computation of
  an address and the store, or before the scroll, hits the wrong cell. A key inside
  `reset_cursor`, between its test of `display_term` and its `outb`, is followed by
  register writes for the old position, or for a terminal that is no longer
  displayed: `CursorIsShown` fails when `test` or a point of `Outb` is added, although
  terminal.c:332 says that the call "puts the cursor in location of next character
  to print". The other properties hold with these points too (`KeysOutsidePutc`).
  `BootSwitch = FALSE`: no terminal switch before `init_pages`, which would set
  the drawing pages back as if the first terminal were displayed
  (`PageFollowsScreen`).
* `Rtc`, `TickPoints`: everywhere but `program`. There, `sched` restores another
  rate in record and chip, the interrupted call then changes only the chip, and
  the record stays wrong (`RateIsRestored` fails when `program` is added).
  Between `rtc_freq` and the mark of the descriptor, in `open` and in `close`, a
  PCB has a rate and no descriptor; `RateOnlyWhileOpen` names these two points.
* `Files`: no interrupts, but `ArgumentIsOwn` is about arguments shorter than
  `MAX_ARGS`.
* `Interrupts`, `KeyInLaunch = FALSE`: no key in the few instructions of
  `execute` after `sched_queue_process`. With `TRUE`, a tick inside the handler
  of Enter leaves it on the stack of a launcher that `sched` does not pick; when
  the child ends, `halt_ret` drops the handler and its end of interrupt is never
  sent (`ServiceHasOwner` fails): the keyboard, and the clock below it, are dead.
  The same holds for a key between the `sti` of `entry` and its `sched`, when the
  frame left behind is on the boot stack. `EveryInterruptIsServed` has the premise
  that no process runs with its flag clear (`masked = {}`): after an exception in a
  root shell, which the run takes as well, interrupts may wait for ever, as
  `masked_shell` shows. `ServiceHasOwner` needs no such premise.

## 4. Runs

| run | result | what it shows |
|---|---|---|
| `sched_safety` | pass | contexts, queue, slots, images and frames stay consistent; `Scheduler` implements `Jobs` |
| `sched_live` | pass | round robin reaches every scheduled process once launches stop |
| `tick_in_load` | `ImageIntact` violated | a tick during `program_load` writes the child over its parent |
| `masked_shell` | `RoundRobin` violated | a root shell restarted after an exception keeps interrupts disabled |
| `line_discipline` | pass | each read returns its own line, once, if it fits the buffer; Enter always ends it |
| `short_read` | `NewlineFits` violated | after a read smaller than the line, Enter writes past the buffer |
| `console` | pass | a key types what it means, and what stands after the prompt is the line the read will get, whenever it was typed |
| `screens` | pass | text stays home, cursors stay on the screen and are shown, switching loses nothing |
| `stale_mapping` | `DrawingStaysHome` violated | after a switch a program draws through the cached mapping |
| `shared_clock` | pass | every program gets its own rate back; no read returns without an interrupt |
| `files` | pass | every descriptor delivers its file once and in order; names match only in full; an argument that fits arrives; nothing leaks between programs |
| `nested_interrupts` | pass | from boot on, every line in service has one handler that will end it; every interrupt is served while no restarted shell has interrupts disabled |

The findings behind the violated runs are quoted in `PROJECT.json`.

### Bounds

* `sched_safety`, `sched_live`: 5 slots, 2 terminals. Three launches deep on one
  terminal, or two and one, and all slots taken; two terminals are the fewest
  for which `sched` has somewhere to go. The theorems have no bound.
* `line_discipline`: two terminals, one character, a buffer of 2 (one character
  and the newline), reads of 1 and 3: reads smaller than and larger than the
  line, typing into a full buffer, and Enter on it, with `LF` 1 (10 in the code, whose
  buffer has 128). A key that finds `kb_pos` past the end is left out. The theorems
  have no bound. `short_read` uses a buffer of 3 and two characters.
* `console`: 3 by 2 cells and a buffer of 3, so that a prompt and a full line
  wrap and scroll; a program on the first terminal, and a second terminal that is
  typed on only, so that its buffer holds something else; one letter, which is
  also the L of Ctrl-L, and one symbol; both Shift keys together and the other
  modifiers singly.
* `screens`: three terminals, so that a switch has a terminal that takes no part
  in it; 2 by 2 cells, so that Backspace within and across lines, wrap and
  scroll all happen; only terminal 1's marks are told from blanks, which is
  enough for a property about one terminal's text at a time; bytes of two
  values (`BYTE`), so that the position of a cursor needs both registers.
* `shared_clock`: two terminals, two programs deep on one of them, rates 2 and
  4, two descriptors on the clock, which can be opened, closed and left by `halt32`
  with a tick between any two statements but one.
* `files`: 3 slots (shell, child, grandchild), 4 descriptors, blocks of 2 bytes,
  names of 2: a file that ends inside its third block, a name that fills its
  entry without a terminating zero, a proper prefix of it and a name it is a
  prefix of, a name that is too long, a bad block, a bad inode, a file shorter than
  the header, reads of 0, 3 and 4 bytes; an array of 6 for arguments, with one of 3
  characters and one that reaches past the PCB.
* `nested_interrupts`: 3 slots, 2 terminals, at most one unfinished handler of
  each device on one stack (`MaxNested`); with two, the safety part also passes.

### Fairness

* The timer keeps ticking and the controller latches a tick until the flag
  allows it: `SF(pit_int)` in `Scheduler`, `SF(Raise(PIT_IRQ))` and
  `SF(Deliver(i))` in `Interrupts`.
* `Terminal` and `Rtc` assume `SF(pit_int(t))` per terminal: each terminal gets
  the processor again and again, which is `RoundRobin` of `Scheduler`, true when
  launches stop. It is not true in general: `halt32` returns to the parent
  without searching the queue, so a shell that launches short-lived programs at
  the right moments can keep another slot waiting for ever.
* Kernel code that has the processor goes on; strong fairness where it can be
  interrupted again and again, since a time slice of 20 ms is far longer than
  the few instructions concerned.
* `Interrupts` assumes that boot comes to its end (`SF(Boot \/ execute_sched)`).
* No fairness on keys or programs: nobody has to type, read, launch or end.

## 5. Proofs

Each proof module states an inductive invariant `IInv`, proves `Init => IInv`
and one lemma per action that the action keeps it, and derives the theorems.

* `Scheduler_proofs`, for any number of slots and at least two terminals, with
  `TickPoints` within `based` and `picked`. The properties are not inductive: that
  `halt32` finds its launcher needs the whole life of a launch. `IInv` adds to
  the types: roots stay roots (`RootsInv`), what a child's slot contains at each
  point of the launch (`ChildInv`), where a launcher waits and for whom
  (`LauncherInv`), whose frame is saved where (`ContextInv`), which registers
  agree at which point (`CpuInv`), one foreground per terminal (`FrontInv`) and
  the images (`ImageInv`). Theorems: `TypeCorrect`, `OwnContext`, `UniqueForeground`,
  `SavedContext`, `UniquePids`, `ChildIsAlive`, `ImagesIntact`, `SwitchIsSafe`, `HaltReturns` and
  `Refinement` (`Scheduler` implements `Jobs`).
* `Terminal_proofs`, for any terminals, characters, buffer and read sizes, with
  `KeyPoints` up to the Enter that ends a read. `IInv` relates the buffer to the
  history: after Enter the buffer is the line entered, if that fits (`LineInv`), and
  what is copied is a prefix of the buffer (`CopyInv`). `RoomForNewline` needs in addition that
  reads are at least as large as the buffer: without it `short_read` is the
  counterexample. `FlagTheorem` (the flag is up only while a read waits) and
  `NewlineDelivered` (a read that empties the buffer ends in a newline, if Enter had
  room for it) follow
  from the same invariant and have no run of their own.
* `Rtc_proofs`, for any terminals, depths, rates and descriptors, without a tick
  at `program`. `IInv` adds what a call in progress has done so far, its descriptor not yet or no
  longer marked included (`CallInv`),
  when record and chip agree (`RecordInv`), and that the flag is up only if
  every reader in progress has heard an interrupt or will (`HeardInv`).
  `RecordCorrect` (but for a call at `program`, the record is the chip's rate) has
  no run of its own: `SwitchRestoresRate` and `RateIsRestored` say what it is for.

* `Screen_proofs`, for any terminals and any size of the screen, with no key between
  an address and its store or before the wrap, and no switch before `init_pages`
  (`KeysOutsidePutc`). The safety properties of `Screen` are inductive only together,
  and with what a call of `term_putc` in progress has computed: where its address
  points after every switch that may have come in between (`AddrInv`), by how much
  the cursor may be off the screen until the wrap (`CursorInv`), and what is true
  before the pages are set up (`BootInv`). All properties of the `screens` run
  follow. `CursorShown` needs that keys also stay out of `reset_cursor`
  (`KeysOutsideReset`), and an invariant of its own: only the displayed terminal's
  process is at the `outb`, and what it has written so far is its cursor (`ShownInv`).
* `Interrupts_proofs`, for any number of slots and terminals and any `MaxNested`,
  with `KeyInLaunch = FALSE`. That a line in service has one owner needs to be
  known of every stack: which handler may lie under which (`FrameInv`), which
  process waits for whom and with what on its stack (`ProcInv`, `LaunchInv`), what
  is masked or disabled at each step of boot (`BootInv`), and for each line how
  many handlers owe its end of interrupt (`ServiceInv`). A handler that is left
  behind by `sched` stays on a stack that runs again; one that `halt32` throws
  away owes nothing. Exceptions and the flag they leave clear are included.
  Theorems: `TypeCorrect`, `ServiceOwned`.
* `Files_proofs`, for any names, commands, sizes of reads, slots and descriptors,
  without a condition on interrupts. The images are any that have the layout of
  `fs.h` (`ImagesAssumption`): a name fits its entry, a length fits the blocks of
  its node, a block has its size. Three groups of lemmas carry it: what the loop
  of `read_data` copies is the stretch of the file that starts at the position
  (`ReadStretch`, block by block, with the quotients of `Recursion_proofs`); the
  comparison by `strncmp` accepts the entry's own name only (`SameName`); the loop
  of `program_load` writes the whole of a file whose blocks are in range
  (`LoadFacts`). `IInv`
  then says what has been read through each descriptor (`ReadInv`), what is in
  the memory of each program (`LoadInv`), which command launched it and what was kept
  of its argument (`LaunchedBy`),
  that standard descriptors are open and that a free slot's table is closed
  (`StandardOpen`, `FreeClosed`); without the last, `FreshTable` would not survive
  the reuse of a slot. Theorems for every property of the `files` run.
* `Console_proofs`, for any terminals, keys, programs, tab stops and any screen on
  which a prompt and a full line fit above the last row. `TypeCorrect` needs no
  condition: `BoundInv` says that the place for the newline is free until Enter
  has been pressed for a read. `KeysTyped` (`PlainKeys`: Caps Lock does not repeat,
  no backslash) rests on the agreement of the driver's flags and row with the
  keys that are held (`ShiftInv`, `CapsInv`). `LineShown` (`Orderly`: no key between
  the prompt and the end of `term_showbuf`, no read that finds a line on a terminal
  off the screen) rests on `ShownInv`: at each point of a read, how much of the
  line must stand before the cursor. Its lemmas say that `term_putc` extends the
  text before the cursor, scrolling included (`PutEnds`), that a string does the
  same character by character (`PutAllEnds`), and that Backspace undoes it
  (`BackEnds`). The conditions are necessary: TLC finds counterexamples without
  any one of them.

Each `IInv`, and each invariant under a condition, was also checked by TLC on the
constants of its run. Loops are modelled by recursive functions and by the folds
of the library; what they compute is proved by induction over a set of numbers
(`NatInduct`), which needs no operator as a parameter.

Only model-checked: the liveness properties (`RoundRobin`, `EnterEndsRead`,
`RateIsRestored`, `LoneReadReturns`, `EveryInterruptIsServed`), since the prover has
no fairness. Every invariant and every action property of a passing run has a theorem.

## 6. What the checks say about the code

Correct under the conditions of section 3: the whole of process switching,
launching and ending; the line discipline; the clock's rates; the reading side
of the file system; the end-of-interrupt protocol. Facts met on the way that no
property states: `rtc_close` forgets the rate even if another descriptor is
open; after `halt32` the parent's rate comes back only at the next tick;
`rtc_write` returns 0 on success; an interrupt of the clock can be taken by
another reader; `program_load` starts a program of which a block is missing;
`clear` at the start of `entry` runs before `term_init` has given the terminal
its video memory, and clears memory from address 0 instead of the screen; a tick
inside the first `sched`, after `current_pid` is set and before
`ret_to_user`, saves a frame on the boot stack as the first shell's own.

## 7. Plan

1. Done: `Scheduler`, `Jobs`, `Terminal`, `Keyboard`, `Console`, `Screen`, `Rtc`,
   `Files`, `Interrupts`, with boot where interrupts are on, and proofs of the
   safety properties of all of them.
2. Not planned any more: the line search of `grep` and the number formatting of
   the library. Both are sequential functions of their input and no part of the
   kernel's promises depends on them.
3. Possible next: which of the windows of section 3 are harmless to which of the
   properties, and the theorems under the weaker conditions.

## 8. Not modelled, and why

Before `i8259_init`, boot reads the multiboot information and loads the
descriptor tables in a straight line with interrupts disabled. The layout of page
entries is fixed by `init_pages`. Of the kernel library only `strlen` and
`strncmp` bear on a property; `printf` and the memory helpers are sequential and
keep no state. Scan codes with the prefix `E0` are not told apart by the driver;
the modelled keyboard sends the basic codes only. User programs are covered by
letting a program make any call at any time; what `grep`, `ls` and the others
compute is their own affair. Exceptions in the kernel end in an
endless loop. `set_handler` and `sigreturn` are stubs, `disable_irq` is never
called, negative sizes in `read` are left out, and so are the formats of printed
messages. The listed sources of every part are in `components` of
`PROJECT.json`.
