# SnakeOS in TLA+

A verification development kept beside SnakeOS, a small x86-64 kernel: a boot
loader of two stages, and a kernel that draws a prompt, echoes a line of text
and shows a clock, all of it driven by two interrupts. Paths are relative to the
root of the repository.

Everything is written from the source. The hardware the code talks to (the pair
of 8259A controllers, the PIT, the keyboard with its controller, the BIOS, the
processor's delivery of interrupts) is modelled from how the code uses it.

Check a module with `tlc -config X.cfg M`, a proof with `tlapm M.tla`.

## 1. Inventory

| part | source | state | operations |
|---|---|---|---|
| stage 0 | `boot/x86/stage0` | directory, FAT, load address | find and load two files, retry reads |
| stage 1 | `boot/x86/stage1` | memory map, A20, page tables, position of the next message | prepare and enter long mode |
| kernel entry | `boot/x86/kernel_entry.asm` | the position | print a message, call `kmain` |
| bring-up | `init/kmain.c` | the program counter of `kmain` | console, GDT, IDT, PIC, `sti`, timer, keyboard, prompt, idle |
| GDT | `arch/x86/gdt.c`, `gdt.asm` | descriptors, TSS | build and load |
| IDT, stubs | `arch/x86/idt.c`, `idt.asm` | the table; the interrupted registers on the stack | entry, split into exception and IRQ, `iretq` |
| exceptions, panic | `kernel/exception.c`, `panic.c` | none | print and stop |
| 8259A driver | `arch/x86/i8259.c` | the chips' registers | initialise, mask all, unmask, EOI |
| IRQ core | `kernel/irq.c` | `irq_table`, `irq_chip_active` | `irq_set_chip`, `irq_request`, `irq_handle` |
| spinlock | `kernel/spinlock.c` | `locked`, `irq_flags` | init, lock, unlock, the two panics |
| timer | `drivers/i8253.c`, `kernel/timer.c` | `tick`, the seconds hook | tick, seconds |
| i8042 | `drivers/i8042.c` | the controller's output buffer | read a byte |
| keyboard | `drivers/keyboard.c` | `shift`, `caps`, the lock | scancode to key event |
| terminal | `kernel/tty.c` | `buf`, `len`, `cursor` | insert, backspace, left, right, newline |
| console, VGA | `drivers/console.c`, `vga.c` | `row`, `col`, the screen | putc, scroll, cursor move, clock overlay |
| printing | `kernel/kprint.c` | none | formats, decimal and hexadecimal numbers |
| RAM map | `drivers/init_ram.c` | the map stage 1 left | print (does not compile at this commit) |
| cdev, circ_buf | `drivers/cdev.c`, `include/circ_buf.h` | registry; head and tail | no callers |

How they interact. The first stage loads two files and jumps into the second,
which jumps to the kernel image; the only thing handed over besides memory is the
line of the next message, in a variable, then in RAX, then in another variable.
`kmain` calls everything once, in order; afterwards the machine is event driven. A
key travels

    i8042 -> IRQ 1 -> stub -> irq_handle -> i8042_irq_handler
          -> keyboard_handle_scancode (lock) -> tty_handle_key -> console -> VGA

and a tick `PIT -> IRQ 0 -> stub -> irq_handle -> timer_handle_tick`, which once
a second draws the clock on the same screen. There is one processor and there are
no threads: concurrency is `kmain` against handlers, handlers against
each other (excluded only by the interrupt flag), and all of them against the
devices. Every handler ends with a *non-specific* EOI, whose meaning depends on
what is in service at that moment.

What is hard here: interrupts are enabled before the devices are set up, so every
line of `timer_init` and `keyboard_init`, and the printing of the prompt, may be
interrupted by code that shares the console and does not give every register
back; a request latched while its line is masked is delivered inside the unmask; a
spurious interrupt has a handler and an EOI but no in-service bit; the statics are
only zero if something zeroed them; the editing of a line must keep a buffer, a
screen and two cursors in step; modifiers are reconstructed from key edges;
addresses are cut into fields; a disk read may fail half way; the tables are built
in memory that holds anything. `PROJECT.json` lists each hazard at its line.

What makes each part correct:

- boot: what is loaded is the file, the map is complete, exactly the identity is
  mapped, a boot that halts says why, no message is lost;
- traps: a vector reaches its own stub, an IRQ returns where it came from, the
  report of an exception names the fault;
- interrupts: no handler nests, EOIs pair with what they retire, a live line has
  a handler, the lock is free whenever `kmain` runs, nothing stops the machine,
  no tick and no byte is lost, every raised line is served;
- keyboard: modifiers agree with the keys, characters with the modifiers;
- terminal: the buffer is a line editor, the row shows it, the cursors agree;
- console and printing: the screen is the tail of everything printed.

## 2. Modules

| module | models | variables |
|---|---|---|
| `Fat12` | the arithmetic of stage 0: directory, blocks, FAT entries | none |
| `Stage0` | stage 0 over `Fat12`, with failing reads | 7 |
| `Stage1`, `MCStage1` | stage 1 and the entry of the kernel | 18 |
| `Boot`, `MCBoot` | a whole boot: `Stage0`, then `Stage1` | theirs and `stage` |
| `Descriptors` | segment descriptors and gates, and how the processor reads them | none |
| `Traps`, `MCTraps` | the tables, vectors, stubs, the stack, exception reports | 12, and those of `Kprint` |
| `I8259` | both controllers, and their driver | none: operators on the registers `pic` |
| `Interrupts`, `MCInterrupts` | bring-up, delivery, handlers, lock, devices | 17 |
| `Keyboard`, `MCKeyboard` | keys, modifiers, translation | `kbd`; the physical keys `held`, `fake`; history `locks`, `mixed` |
| `Console` | the screen and its cursor | none: operators on `[row, col, cells]` |
| `Kprint` | `kprint` over `Console` | `con`, `calls`, and the history `paper` |
| `LineEditor` | abstract: what a line of text does | `before`, `after` |
| `Tty`, `MCTty` | the terminal over `Console` | `buf`, `len`, `cursor`, `con`, `wrapped` |
| `BootPrompt`, `MCBootPrompt` | `kmain` printing the prompt against the handlers of `Tty` | theirs, `kmain`'s registers, 2 of history |
| `InterruptsProofs`, `DeliveryProofs`, `KeyboardProofs`, `TtyProofs`, `TrapsProofs`, `Stage1Proofs`, `BootProofs` | theorems | |
| `ConsoleProofs` | lemmas about `Console`, for the two modules that print | |

An `MC` module only gives constants values that a cfg cannot write.

### Fat12, Stage0

A sector's contents are its block number, so memory is a map from sector-sized slots
to blocks, and a property can say which block is where. `disk` is what a formatting
tool made: which directory sector holds each file's record, the first clusters
and the FAT, with every chain ended; its FAT bytes are real bytes. `job` is what
`disk_read` was called for, which stands for the return address, and `rd` its
registers. Each BIOS call is a step, and a failing one may have moved any number
of sectors. Registers keep their width: `BYTE` values for AL and BL, so that a small
disk can exceed them. The comparison of names is whether the sector
with the record is in the buffer. `KeepsCount` says whether a failing BIOS leaves AL
alone; `BootBH` is what it may leave in BH.

### Stage1

Nothing runs beside stage 1, so what varies is the machine: the memory map
and how the BIOS ends it, EBX, the A20 line and whether port 0x92 opens it, the bytes of
the test, what the processor supports, and what was in the memory of the tables
(`Junk`). `tables` is that memory, a function from dwords, because the code writes only the
low dword of an entry and relies on the clearing for the rest. `Walk` is what the
processor makes of three indices. The loop that fills the table takes one step
per page.

`screen` has one message a line, named after the step that succeeded or the check
that failed. `line` is `PRINT_STRING_POSSITION` and then `CURRENT_VGA_POSITION` of the
kernel; `rax` is the register that carries it through the switch to long mode and the
jump. `kernel_image` is the entry: `objcopy` makes the image begin with the variable at
`kernel_entry.asm:8`, not with the label behind it, so eight zero bytes run as `add [rax], al`
before it. The 64-bit store into the 32-bit variable of stage 1
(`utils_long_mode.asm`) also writes over the first bytes of `start_long_mode`, which have
run by then; nothing reads them again.

### Boot

Nothing of stage 0 but the two files is used by stage 1, so its variables are put back
to one value at the jump, and what stage 1 finds is chosen there and not before. That
keeps the product of the two small and leaves every behaviour of both in.

### Descriptors, Traps

A descriptor is a record of numbers of their fields' width plus a set of flags.
`NIBBLE` is the number of values of four bits: the width of everything follows from
it. `stack` is the memory of the stack, its top last, with what the processor and the stub
push; a handler's `frame->rip` is read there. A vector goes through its gate and the code
segment the gate names to the stub that begins at that address (`StubBehind`); if there is
none the machine shuts down. An exception may come of any instruction of `kmain` or of an
IRQ's handler. `trap` records what was interrupted, and no step of the program looks at it.
Reports are printed through `Kprint`.

### I8259, Interrupts

`mpc` is the next step of `kmain`, reduced to the steps that change interrupt
state. `stack` holds one frame per active handler, the innermost first; a frame
has the number the stub passes (`irq`), the handler's next step (`at`), the
scancode it read (`key`), the interrupted flag (`rflags`) and whether an
in-service bit stands for it (`acked`). A handler is a chain of actions, so a device
may signal between any two of them:

    TakeInterrupt -> irq_handle -> timer_handle_tick ---------------------------+
                              \--> i8042_irq_handler -> spin_lock               |
                                   -> spin_unlock -> [tty_handle_key] ----------+-> irq_eoi -> iretq

`Executes` says the processor takes a pending interrupt before the next
instruction, as x86 does at instruction boundaries. The one instruction of delay
after `sti` is not modelled: every line is masked at that time.
`irq_request` is two actions, up to the table entry and the unmask, because
interrupts are on and what happens between them matters.

The devices: `TimerEdge`, `KeyEdge` and `OtherEdge` latch a request. A byte raises
line 1 only if the controller's buffer was empty, and reading a byte lets the next
one in with a new edge. `TakeSpurious` is an interrupt whose request vanished
before the acknowledge: the master answers with the vector of input 7. `sent`,
`fed`, `edges` and `due` are what the properties count with; the program does not
read them.

Parameters: `OtherRequests` and `OtherDevices` are drivers beyond the timer and the
keyboard (SnakeOS has none; `irq_request` is an interface for any line);
`BssZeroed` says whether the memory behind the statics is zero; `EarlyKeys`
whether a key may be struck before the PIC is initialised; `Paced` whether a device
waits for `kmain` to execute before it signals again.

### Keyboard

A key stands for its scancode; keys of one class behave alike, so a few of each
class are enough; a character is the key with the form it takes. `held` is
the physical keyboard. An extended key (`Arrow`) is sent with the prefix E0, which the driver
takes for the release of a dead key, and may be wrapped in a shift code nobody struck
(`fake`): a make with Num Lock on, or a break of the shift key that is down. `mixed` says
that two sources of shift codes have overlapped since none was pending.

### Console, Kprint

A console is one value and every call a function on it, so the terminal, the reports
and the prompt compose calls. `Scan` is one round of `kprint`'s loop over the format, and
`itoa_dec` and `itoa_hex` take off digits by division. `Kprint` compares what they print with an
unbounded roll of paper, on which the same calls write their numbers by positions (`Width`,
`Power`, `Positional`). `WellFormed` is what the calls of the source keep to and no compiler
checks: a directive has its argument, of its type, and `%d` is not given the least int.
Colours, the several consoles and the pointer checks are left out.

### LineEditor, Tty

A key is one step: its handler is not interrupted (`HandlersDontNest`, proved).
`DrawClock` is the timer's hook. The prompt may be on any row. A key
without effect stutters. `wrapped` records whether the line has reached
the edge since the last Enter.

### BootPrompt

`kmain` prints the first prompt with interrupts on, so `console_vga_putc` is broken up into the
loads and stores between which a handler makes a difference, as `gcc -O0` (`Makefile:7`)
compiles it. A handler is one step of `Tty`. What `kmain` held in a register the stub
does not give back (`idt.asm:28-54`), or in the red zone the build does not turn off, is
anything afterwards (`Clobber`). `disturbed` says that a handler ran during the printing and no
prompt has since been begun on a freshly cleared last row.

## 3. Runs

| run | asks | bound |
|---|---|---|
| `Boot` | a whole boot: both files loaded whole, the map, the pages, the messages, every boot ends (liveness) | 4 clusters, 2 directory sectors, 3 slots, BH up to 7; tables of 4 entries, 3 regions |
| `Stage1_count` | violation: the stored number of regions | 2 entries, 3 regions |
| `Traps` | every vector reaches its stub and comes back, reports, the screen | a nibble of 1 bit, ints of 5, 6 vectors, screen of 4 x 4, 2 calls |
| `Traps_registers` | violation: registers lost to the interrupted code | the same, no calls |
| `Interrupts_safety` | the safety of the interrupt path and the inductive invariant | 3 bytes, 3 devices, unpaced |
| `Interrupts_paced` | no tick or byte lost, every line served (liveness) | 3 bytes, 2 devices |
| `Interrupts_bss` | violation: a panic for a lock nobody took | 2 bytes |
| `Interrupts_slave` | violation: a line of the slave is never served | 1 byte |
| `Keyboard_typing` | modifiers and characters | both shifts, Caps Lock, an extended key, a key of each class |
| `Keyboard_shifts` | violation: the second shift key | 2 shifts, Caps Lock, a letter |
| `Tty_fits` | the prompt against handlers; refinement of `LineEditor`, alignment, the row, the other rows | 2 x 4, buffer of 3, prompt of 1, 2 handlers |
| `Tty_wrap` | violation: alignment past the edge | 2 x 5, buffer of 5 |

Why the bounds are enough.

*Boot.* Sectors of five bytes let an entry of the FAT straddle two of them, and the directory
of eight bytes needs the rounding; four clusters give two files that are
interleaved, backwards or of lengths one to three, sharing nothing or a tail; three slots
are the longest file that does not wrap (`WellFormed`). A track of three sectors
makes reads cross heads and cylinders. Page tables of four entries have a first, a last
and others; nothing in the code looks at their number but the loop, and the
theorems hold for any.

*Traps.* With a nibble of one bit an address has sixteen bits in fields of 4, 4 and 8, and a
limit five in 4 and 1; the stubs' addresses use the lower two fields in every combination and the
TSS's all of the first slot, while the theorems hold for any address. The vectors are both that print an address, with and without an
error code, one of each kind that does not, and both IRQs. Numbers of five bits have signs, one
and two digits and both letters and digits in base 16; a screen of four by four wraps and scrolls in
every report. One exception inside one IRQ is all the nesting there can be, since
exceptions do not return.

*Interrupts.* Three bytes fill the controller's buffer with one
behind it, and let one of them (`NoneKeys`) take the early return of the handler
between two that do not. The third line requested in `Interrupts_safety` is on the slave, and
the cascade is requested before it, after a number out of range: all paths of
`irq_request` and `i8259A_send_eoi` run. `tick` is counted modulo 3, enough to tell
"one behind" from "one ahead".

*Keyboard.* Each class of the translation table has a key, digits have one below and one at
the limit of what the table gets right.

*Terminal.* A screen of four columns leaves three for a buffer of three: lines shorter than the
row, exactly at the edge, a full buffer, and the clock's column all occur. Two characters tell every
position of a line apart from its neighbours. Two handlers can meet `kmain` at
the same character, or before and after a scroll.

Deadlock is checked except where a run may stop: `Interrupts_bss` (the machine panics),
`Traps` and `Traps_registers` (an exception halts), `Boot` and `Stage1_count` (they end in the kernel or
halt); that a boot stops nowhere else is `Ends`.

Fairness. `FairSpec` asks that the processor keeps executing (`WF` on the
actions of `kmain`, of interrupt delivery and of the handlers): it has nothing else
to do, and `hlt` ends at the next interrupt. Nothing is asked of the devices. `Paced`
is the code's real situation: the PIT ticks every 10 ms (`CLOCK_FREQUENCY`) and a
keyboard sends at most about a byte a millisecond, handlers take microseconds.
Without it the timer could occupy the processor for ever and ticks would be
lost, which is the hardware's nature: the safety run does without it. `BootSpec` has `WF` on
the whole step: the processor keeps executing and BIOS calls return.

### Disagreements between the code and what it says

- **Lock before its initialisation** (`Interrupts_bss`): `keyboard_init` unmasks
  the line, then initialises the lock, which is in a `.bss` no one clears.
- **Slave lines** (`Interrupts_slave`): `i8259A_unmask_irq` leaves the cascade input
  masked, so a line above 7 is not activated.
- **Registers of the stub** (`Traps_registers`): "preserve caller-saved regs we touch"
  (`idt.asm:34`), but `rsi` is overwritten first and only `rdi` and `rax` are pushed.
- **Wrapped lines** (`Tty_wrap`): the echo wraps to the next row and
  `console_move_cursor` does not come back.
- **Two shift keys** (`Keyboard_shifts`): one bool for both.
- **Number of regions** (`Stage1_count`): ECX is both the counter and an argument of
  the call.

Others seen while modelling, without a run of their own; each shows when a constant
of a passing run is changed, or in the definition named:

- The build keeps the red zone (`Makefile:7`): an interrupt inside a leaf function pushes
  its frame over that function's locals (`Clobber` of `BootPrompt`). With the lost registers,
  a prompt that is interrupted may be drawn anywhere; `CursorRecovers` and `SettledRow` bound the
  damage.
- User data is written to the slot of user code and slot 4 stays empty
  (`gdt.c:214`, `gdt_init` of `Traps`); nothing loads a user segment.
- For an exception with an error code the handler's frame is one word off, so the
  RIP printed is the error code (`exception.c:30`); `ReportNamesFault` says so.
- The least int prints as a minus sign alone (`kprint.c:27`). No call of the source prints it,
  and `WellFormed` keeps it out: let `Fitting` admit it, add it to `SomeCalls`, and
  `ScreenShowsOutput` fails.
- Caps Lock toggles again when its make code repeats (`keyboard.c:174`): add it to
  `Typematic` and `CapsTracksStrokes` fails.
- The pound sign takes two bytes, so Shift-4 and beyond are off by one
  (`keyboard.c:131`, `ShiftedDigits`), and Shift-3 types half a pound sign.
- `disk_read` sets AL once, before the loop of retries (`stage0/utils.asm:174`); a BIOS may
  leave the number of sectors moved in AL: set `KeepsCount` to FALSE and
  `ReadFinished` fails.
- `load_root_dir` sets BL and multiplies by BX (`:12`): with 8 or more in
  `BootBH` the directory read is too long and every boot ends with "Read failed". On the
  real disk the bound is 29, and the length 142 sectors instead of 14.
- The block of a cluster is cut to eight bits (`:107`): give the disk a cluster beyond
  and `JumpsToFiles` fails. On the real disk it is cluster 225.
- `get_memory_map` clears BX, the BIOS takes EBX (`stage1/utils_real_mode.asm:141`):
  let `EbxHigh` contain 1 and `MapComplete` fails.
- The kernel image is entered at a variable (`kernel_entry.asm:8`); it works because RAX
  holds the address of a screen cell that is written next (`MessagesStand`).

## 4. Proofs

Each theorem is for every value of the constants that meets their assumptions: any number of
devices and bytes, any disk and geometry, page tables, buffers and screens of any size, fields
and ints of any width, any formats. Every safety property a passing run checks is a theorem.

| module | theorem | from |
|---|---|---|
| `InterruptsProofs` | `TypeCorrect` | |
| | `Invariance`, `NeverHalts`, `NeverNested`, `EoiRetiresOwn`, `HandlerBeforeUnmask`, `MainResumes` | `BssZeroed` |
| `DeliveryProofs` | `KeysStayInOrder` | `BssZeroed` |
| | `TicksAreCounted` | `BssZeroed`, `Paced`, no other driver requests line 0 |
| `TrapsProofs` | `GateHoldsAddress`, `DescriptorHoldsBase`, `TrapsInvariance`, `EveryTrapItsStub`, `TablesHold`, `ReturnsRight` | |
| | `PrintInvariance`, `TrapsTypes`, `ScreenShows`, `ReportNames` | |
| `KeyboardProofs` | `TypeCorrect`, `ShiftAfterOverlap` | |
| | `CapsLockParity`, `CharactersAsHeld` | Caps Lock does not repeat |
| `TtyProofs` | `LineIsEdited`, `LineIsEditedAtBoot` | |
| | `TerminalTypes`, `CursorComesBack`, `CursorsAlign`, `RowIsLine`, `EditsTouchOneRow` | |
| `Stage1Proofs` | `Stage1Invariance`, `TypeCorrect`, `PagesAreIdentity`, `KernelEntered`, `HonestHalts`, `MessagesAreKept` | |
| | `WholeMap` | the high word of EBX is zero |
| `BootProofs` | `MarkerIsEntry`, `ChsNamesBlock`, `BootEntersKernel`, `BootTypes`, `MemoryIsRestored` | |
| | `BootWholeMap` | the high word of EBX is zero |
| | `Stage0Types` | `OperandsFit`: the operands of `disk_read` fit a byte |
| | `ReadsFinish` | `KeepsCount` |
| | `OnlyAbsentNotFound` | `KeepsCount`, `DirectoryCovered` |
| | `FilesAreLoaded` | `KeepsCount`, `FatCovers`, `ClustersInByte` |
| | `SmallBHCovers`, `FirstClustersReached` | the numbers of the real disk; BH below 29, clusters below 225 |

The assumptions on constants stand in the modules that declare them and are evaluated by
TLC in every run. Those with content: stubs have different addresses (`StubsAssumption`), vectors
with an error code are exceptions (`VectorsAssumption`), the digits and the words of the reports
are printable and the newline is not one of them (`CharsAssumption`, `ReportAssumption`,
`PrintableAssumption`), the calls of `kmain` are well-formed (`FormatsAssumption`).

**Interrupts.** None of the properties is inductive alone: that no panic happens needs the
lock to be free at `spin_lock`, which needs that no other handler holds it, which needs that
interrupts are off in handlers, which needs what `spin_unlock` restores to
be what `spin_lock` saved. `IInv`, also an invariant of `Interrupts_safety`, ties them together:

- `BootInv`: which stage has set up what; the interrupt flag is set exactly when
  no handler runs and `sti` has been executed;
- `TableInv`: an entry is empty or its line's handler, and filled before the line
  is unmasked;
- `StackInv`: at most one frame, of a legal line, at a step its line's handler has,
  which interrupted `kmain` with interrupts on;
- `LockInv`: the lock is held exactly between `spin_lock` and `spin_unlock`, and
  the saved flag is off;
- `ServiceInv`: the in-service bits of each chip are exactly those the running
  handler owes an EOI for, the cascade bit included.

The proof has one lemma per group of actions (`MainInv`, `TakeInv`, `HandlerInv`,
`DevicesInv`) and, below them, one step per action and conjunct; lemmas on
the registers (`UnmaskRegisters`, `EdgeRegisters`, `AcknowledgeRegisters`,
`EoiRegisters`) say what each operation of `I8259` leaves alone.

**Delivery.** `KeyInv` adds that the bytes in the buffer are consecutive, that a latched or
taken keyboard interrupt has a byte to read, and that the byte in a handler's hand is the last one
read and not yet fed on. `TickInv` adds that ticks and edges differ by the edge that is latched
or being counted, and by nothing else; pacing is what keeps them from being two.

**Traps.** `GateHoldsAddress` and `DescriptorHoldsBase` put the fields together again, for
any width, by lemmas on division (`DivDiv`, `DivBound`). `TrapsInv` says what the tables hold once
they are built, that at most an IRQ and an exception are active, and what the
stack holds under them; so the number the stub passes is its own vector's, and `iretq` pops what
was pushed for this trap. Vectors with an error code are exceptions, which do not return.

**Printing.** `ScreenShowsOutput` relates two computations, and the proof goes through both. *Digits:*
`PositionalMore` says that the notation of a number is that of its quotient by the base and one more
digit, so the loop of divisions writes it (`DigitsArePositional`); hence `DecimalAgrees`, `DirectiveAgrees`
and, along the rounds of the loop over a well-formed format, `TextAgrees`. *Screen:* `Shows(c, p)`
says that the console `c` is the window on the end of the paper `p`; `PutShows` keeps it through one
character, with `NewRowShows` for the line feed that scrolls, and `WriteShows` through a text. `PrintInv`
is that relation and `WordsHeld`: what registers and stack hold are words, and the word the handler of
an exception finds at `frame->rip` is the one on top of what the processor pushed. For `ReportNames`,
`Adds(s, w)` says that of a text `s` the word `w` reaches the paper, whatever rows it is broken into;
it holds of a line of a report (`DirectiveLine`, `PlainLine`) and of lines in a row (`AddsConcat`).

**Keyboard.** `ShiftInv` says where `kbd.shift` can come from: if nothing overlapped,
the shift keys that are down and the code the keyboard sent; and that an overlap
ends only when none is pending. With `CapsTracksStrokes` it gives `CharactersAsHeld`: what the two
modifiers are is what the tables of the translation are indexed by.

**Terminal.** The refinement mapping takes the two pieces of the buffer left and right of the
cursor. `BufInv` keeps `cursor <= len <= TTY_BUF_SIZE`; the lemmas `InsertedPieces` and
`DeletedPieces` say what the shifting loops make of the pieces. `LineIsEditedAtBoot` states it of
`PromptSpec`, where handlers interrupt `kmain`.

`SettleInv` adds the screen. `ScreenInv` says, for each step of `console_vga_putc`, whether row and column
may be off the screen there: whatever a handler or a lost register leaves, the tests that follow bring
them back, which is `CursorComesBack`. `Undisturbed` says what stands on the screen if no handler came in
between: nothing but the clock below the row of the cursor, during the printing the first characters of
the prompt with the steps of the next one (`Printing`), afterwards the line and its cursor as long as it
fits (`Agree`). Without the rows below being empty it would not be inductive: Enter
goes on to the next of them. `ConsoleProofs` has what a text that fits its row does to the console, and what an empty
rest of the screen keeps.

**Stage 1.** `Stage1Inv` consists of the types, of `TablesInv` (after
*n* rounds the two directory entries and *n* pages are there and all other dwords are zero,
which is why the clearing matters) and of `MachineInv` (what each check that was
passed has established). `Apart` says that no two entries share a place,
`BuiltIsIdentity` walks the finished tables. `MapInv` relates EBX to what is stored.
`ScreenInv` says that the position is the number of milestones passed, wherever it is kept.

**Boot.** `ReadInv` says that the slots of the sectors a read has moved hold the blocks
asked for, whatever earlier tries left there, and that a return to the caller means all of them.
`SearchInv`: what the search looks at is the whole directory, as long as it is in the buffer. `WidthInv`
bounds the operands of `disk_read`. `LoadInv` follows a chain: while a file is read, the clusters before the
one at hand lie in its slots in the order of the chain, and the entry of the FAT in the buffer is
the next one or the end (`MarkerFound`, from `MarkerIsEntry`). The second stage
starts in its own initial state (`StartInv`, `EnterInit`), so its theorems hold of the boot.

**Recursive functions.** The theorems about chains, texts and digits need facts about recursive
functions: `Chain`, `Written`, `Digits`, `Power`, `Scanned`, `Rolled` and the fold in `FlattenSeq`. Such
a function is a `CHOOSE`, so each has a lemma that one with its equations exists (`Recursion`,
`PowerPath`, `DigitsExist`, `ScannedExists`, `FlattenPath`) and one that unfolds it. The induction theorems of
the library take an operator as a parameter and cannot be applied; what is done instead is to form the
set of places at which a fact holds and to show that it has no least exception (`Along`, from
`NatLessThanWellFounded` and `WFMin`).

Only model-checked: liveness (`RaisedIsServed`, `EveryByteHandled`, `Ends`), which is beyond the prover.

## 5. Not modelled

- `drivers/init_ram.c` does not compile at this commit (lines 11-25); the map it would print is in
  `Stage1`.
- `drivers/cdev.c` and `include/circ_buf.h` have no callers: no state of the kernel depends on
  them, and a model would have to invent their use.
- `lib/util.c` and `include/util.h` are byte loops and port instructions, standing inside the operators
  that use them.
- The divisor written to the PIT and the digits of the clock: their arithmetic is a unit
  test's; what the clock does to the screen is `DrawClock`.
- Colours, the several consoles and `console_backspace` (no caller); `i8259A_mask_irq`
  and `i8259A`'s other operations without callers.
- The segment descriptors of stage 1 are constant data; the port numbers and delays of
  every driver.
- The test hook (`debugging/tests`, commented out) and the build.

What would extend it: the keyboard composed with the terminal, so that a line is stated
of the keys; the lines past the edge of the row, which no property but `AlwaysAligned` is about; and the
other findings of section 3 as theorems about what the code does instead.
