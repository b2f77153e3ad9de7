# A verification of the JOS lab 1 kernel

This directory models the JOS teaching kernel (`src/`) in TLA+, checks the
models with TLC and proves the theorems that matter most with TLAPS. It follows
the C code under `src/kern`, `src/lib` and `src/boot`; `PROJECT.json` says, for
every definition, which lines it stands for.

## 1. The system

JOS at this commit is what its first lab builds: a boot loader, a kernel that
sets up its stack and its console, tests a stack backtrace, and then runs an
interactive monitor for ever. There is one thread, and `cli` in `boot.S` is never
undone, so no interrupt handler ever runs: everything that happens to the kernel
from outside happens between two reads of a device port. That is where its
concurrency is: the devices go on while the kernel polls them.

| Part | State it keeps | Operations | Called by |
|---|---|---|---|
| keyboard decoder (`console.c` 212-372) | the static `shift` word: held modifiers, locks, the E0 escape bit | `kbd_proc_data`: one scan code byte | `kbd_intr` |
| console input (`console.c` 48-63, 376-425, 457-464) | `cons`: a circular buffer of 512 bytes and two indices; `serial_exists` | `serial_intr`, `kbd_intr`, `cons_intr`, `cons_getc`, `getchar` | `readline` |
| console output (`console.c` 65-76, 107-209, 427-455) | `crt_buf`, `crt_pos`; the devices' registers | `cons_putc`: `serial_putc`, `lpt_putc`, `cga_putc`; `cputchar` | `readline`, `cprintf` |
| line editor (`readline.c`) | a static buffer of 1024 bytes | `readline` | `monitor` |
| kernel monitor (`monitor.c`) | `argv`, pointers into `readline`'s buffer | `monitor`, `runcmd`, three commands | `i386_init`, `_panic` |
| stab lookup (`kdebug.c`) | none (a table from the linker) | `stab_binsearch`, `debuginfo_eip` | `mon_backtrace` |
| formatted output (`printfmt.c`, `printf.c`) | `sprintbuf` | `vprintfmt`, `printnum`, `vsnprintf`, `cprintf` | everybody |
| initialisation and panic (`init.c`) | `panicstr` | `i386_init`, `test_backtrace`, `_panic`, `_warn` | `entry.S`, `panic()`, `warn()` |
| boot loader (`boot/main.c`, `boot.S`) | the processor's mode and segments, address line 20; memory, the disk's registers | `boot.S`, `bootmain`, `readseg`, `readsect`, `waitdisk` | the firmware |
| start (`entry.S`, `entrypgdir.c`) | two constant page tables, the boot stack | `entry`, the clearing of the BSS | the boot loader |
| string routines (`string.c`) | none of their own; the processor's direction flag | `memset`, `memmove`, `strcpy` and its kin, `strtol` | everybody |
| headers, build and grading scripts | none | | |

How they interact: `monitor` calls `readline`, which takes characters from
`getchar` and echoes them with `cputchar`; `getchar` polls both input devices
through `cons_getc`. `runcmd` then works *inside* `readline`'s buffer, and
everything it prints goes through `vprintfmt` to `cputchar` and so to three devices.
`cga_putc` calls back into `cons_putc` for a tab. `mon_backtrace` reads the stack that
every call so far has left, and asks `debuginfo_eip` for each return address.
A panic calls `monitor` again, on top of whatever is in progress, `monitor` included.
Before any of this the boot loader takes the processor out of real mode, fills memory from the disk and `entry.S` moves the
running kernel to the addresses it was linked at.

What is hard to get right, and hardly reached by the six tests of `grade-lab1`,
which only look at the output of one boot:

* the decoder's state is spread over several calls, and the bytes it gets are
  chosen by the user's fingers (protocol sequences);
* the two polled devices and the buffer between them and the reader (interleaving,
  overrun, starvation);
* bounded waits on devices that may be stuck, and what is lost when they run out;
* arithmetic on one flat array that stands for lines and a cursor, at its ends;
* two representations of one line (buffer and screen) that must not drift apart, also
  when a panic takes both over half way through an edit;
* devices that are looked at only while somebody waits for a character;
* strings cut up in place while they are read;
* a binary search over a table of mixed types, with one special case too many, called
  three times on regions that it returned itself;
* a format parser whose flags live in loop variables and which can go back;
* a keyboard controller that takes its time over the two bytes that let address line
  20 through, and a change of mode that takes effect one register at a time;
* a loader that writes more than it was asked to, from a disk that works by itself;
* code that goes on running while the address space under it is changed;
* a walk over the stack, whose words were put there by every function in progress.

`PROJECT.json` "hazards" lists each with its line and the properties that cover it.

### What makes each part correct

* **keyboard**: the escape bit is set exactly between the two bytes of an extended
  key; a modifier never sticks and is dropped only by its own keys; a press yields
  its own key's character; only Ctrl-Alt-Del resets.
* **console input**: whatever the devices do, the buffer is a first-in first-out
  queue; nothing but characters comes out; nobody starves; what is lost is lost only
  by an overrun, a whole buffer at a time.
* **console output**: the screen is a grid of lines; the cursor shows where the next
  character goes; a port loses nothing unless its wait ran out; output always ends.
* **line editor**: the screen shows the line that the buffer holds, and that is
  what is returned, terminated; together with console input, every line is the edited
  text of what was typed, in order, and Return ends it.
* **monitor**: arguments are the words of the line; the first names the command
  that runs; every line is answered.
* **panic**: `panicstr` and the message told are those of the first panic; the monitor
  it calls works like the one it interrupted.
* **stab lookup**: the search stays in its region, ends, and brackets the address; what
  is reported is what the table says of the address.
* **formatted output**: the output is what the directives mean one by one; a buffer gets
  as much of it as it holds, and the count is of all of it; every format ends.
* **boot loader**: every instruction is found while the mode changes, no interrupt
  strikes, no address is folded; the segments are in memory whole when the kernel is entered, the
  headers are not overwritten before they are used, nothing else is written.
* **start**: only the segments are written, and one word for the firmware; each instruction is found where it is fetched; when C code uses its first
  variable, memory is as the linker has it and the stack is whole.
* **backtrace**: it shows the calls in progress, each once, and disturbs none.
* **string routines**: each does to memory what its contract says, whatever the
  alignment, overlap or limit, and leaves the direction flag clear.

## 2. The modules

| Module | Models | Composes |
|---|---|---|
| `Keyboard` | the tables and `kbd_proc_data`, over a keyboard with scan code set 1 | |
| `CharQueue` | abstract: the queue console input promises | |
| `ConsoleInput` | `cons_intr`, `serial_intr`, `kbd_intr`, `cons_getc`, `getchar` | instances `Keyboard`, implements `CharQueue` |
| `ConsoleLoss` | `ConsoleInput` and a count of characters stored and not returned | extends `ConsoleInput` |
| `CgaText` | `cga_putc` as an operator on screens | |
| `Terminal` | abstract: a grid of lines with a cursor | |
| `ConsoleOutput` | `cputchar`, `cons_putc`, the three devices | extends `CgaText`, implements `Terminal` |
| `Readline` | `readline`, its buffer, its echo | extends `CgaText` |
| `LineInput` | abstract: typed characters wait in a queue, and each in turn edits the line | |
| `ConsoleSession` | `readline` calling `getchar` for each character, devices that do not wait | extends `ConsoleInput`, instances `Readline`, implements `LineInput` |
| `Monitor` | `monitor`, `runcmd`, `mon_help` | extends `Readline` |
| `Panic` | `_panic`, `_warn`, at any point of `Monitor` | extends `Monitor` |
| `StabSearch` | `stab_binsearch`, loop by loop | |
| `Kdebug` | `debuginfo_eip` | extends `StabSearch` |
| `Powers` | powers of naturals, for what digits count | |
| `Printfmt` | `vprintfmt`, `printnum`, `vsnprintf`, `cprintf` | extends `Powers` |
| `BootSector` | `boot.S`, over the processor's segments and the keyboard controller | |
| `BootLoader` | `bootmain`, `readseg`, `readsect`, `waitdisk`, over a disk | extends `BootSector` |
| `KernelStart` | `entry.S`, the page tables, the clearing of the BSS | extends `BootLoader` |
| `Backtrace` | the calls on the boot stack, `test_backtrace`, `mon_backtrace` | |
| `MemoryOps` | `memset`, `memmove`, `memcpy` by their string instructions | |
| `Strings` | the functions on strings | extends `MemoryOps` |
| `Strtol` | `strtol`, and a call of any of `string.c`'s functions | extends `Strings`, `Powers` |
| `KeyboardProofs`, `ConsoleSessionProofs`, `ConsoleOutputProofs`, `MonitorProofs`, `KdebugProofs`, `KernelStartProofs`, `BacktraceProofs`, `LibProofs` | the theorems | extend their component; `MonitorProofs` extends `Panic`, and `LibProofs` extends `Strtol` and `Printfmt`, whose specifications the runs check |
| `MC...` | the constants TLC needs that a configuration cannot write | |

State and actions follow the code. A variable has its C name where there is one
(`shift`, `rpos`, `crt_pos` as `scr.pos`, `any_matches`); `pc` or `mon` says where
the one thread is. A step is one turn of a loop that can be interrupted by a
device, or one whole routine that cannot. Variables called "history" are read only
by properties. A definition `X_something` next to `X` is `X` with a plausible bug;
each property is shown to fail with one of them (`PROJECT.json` "mutants").

**Keyboard.** A physical key is its index in the tables of `console.c`. The external
part (`KeyEvent`, `KBDATAP`, `FinishEvent`) is a controller queue of presses,
repeats and releases in *any* order, also of keys already down or not down at all
(keys held across a reset, lost events): nothing assumes that presses and releases
alternate. `down` is what the events read so far say. `0x60` and `0xE0` are not
codes of keys in scan code set 1 (`KeysAssumption`).

**ConsoleInput.** `pc` walks `caller -> serial -> kbd -> grab`. A device action can
come between any two. `Burst` bounds the arrivals during *one* call of `cons_getc`,
because both polling loops run until their device has nothing: without it
`serial_intr` need not end, and with it we say what the code relies on, that a
poll is faster than a serial line at 9600 baud or a typist. An unread byte of the UART is
overwritten by the next one (the FIFO is off).

**ConsoleOutput.** One action per turn of the waiting loops, so that the UART can
send and the printer can become ready, or stop being so, between any two polls.
A device that never answers is a behaviour. A tab sets `spaces` to 5 and goes
through `cons_putc` for each, as the call inside `cga_putc` does, then the outer
call goes on with its scrolling test (`CgaTabReturn`).

**Readline and Monitor.** Characters are atoms; the screen is that of `CgaText`, one
character per step. `Monitor` has one action per step of `runcmd` over the buffer
that `Readline` filled. `help` prints the table of commands, as `mon_help` does; what
`kerninfo` and `backtrace` print is a constant here (`Backtrace` models the latter). That
the longest line and its prompt fit on the screen less one line (`ReadlineAssumption`) is
so in the kernel: 3 characters and 1023 in 24 lines of 80.

**ConsoleSession.** The step that returns from `getchar` (`GetcChar`) is the step in which
`readline` deals with the character (`Handle`), since no device is looked at in between. All
that is printed otherwise takes steps of its own, during which only the devices move: what they
send meanwhile stays in the UART and the keyboard controller, or is overwritten there.

**Panic.** `_panic` can be called in any state of `Monitor`, as often as the constant `Formats`
has elements, and starts `monitor` again with the same `buf`, screen and `panicstr`;
what was interrupted never goes on. `_warn` comes from inside a command. Their callers are
external.

**StabSearch.** One action per turn of each loop of `stab_binsearch`, for any call on
a region that is not empty and is sorted by the type searched for, which is
what the comment at `kdebug.c:16` says of the table.

**Kdebug.** `phase` says which of the three searches, or of the two loops after them, is
going on; a search is the steps of `StabSearch`. The tables are laid out as the compiler
and the assembler write them, an assembly file and a C file in either order. That every
region searched is sorted, which `StabSearch` takes for granted, is a property here; it rests on
the order the linker and the compilers put the entries in (`LayoutAssumption`). A name is
an offset in the string table; where in it the colon is, is left out.

**Printfmt.** One action per character of the format, so that the flags live on from one
to the next as the local variables do. `out` is all that has been given to `putch`. What a
format means is said without parsing: a call carries in `parts` the list of directives, each with the
text before it, and in `rest` the text after them all. `PrintfsAssumption` says that format
and arguments are what these make up: flags, width, precision, `l`s and conversion in this
order, the width and precision in decimal digits or as arguments, numbers of the type that C
requires for the conversion. Anything that is not a conversion is an unknown directive,
and the last one may be cut off by the end of the format. Widths of an `int` and a
`long long` are constants, and `%u`, `%x`, `%o` wrap
as `getuint` does. Out of the inputs: the least int for `%e`, which indexes
`error_string` outside (`printfmt.c:202`), and a width or precision in digits that is too large
for an `int`; and a negative argument for a width, which C takes as the flag `-` and this code
ignores. What a directive means (`Meaning`) has two sources. It is what K & R say, whom the comment
at `printfmt.c:86` quotes, for text, for the flags `-` and `0`, for the width of numbers and strings
and for the precision of strings. Elsewhere it follows this code, and `PrintsMeaning` says nothing about C there:
a number's precision is ignored (`%.3d`), a width for `%c`, `%%` and `%e` too (`%5c`), `#` hides what
is outside of ASCII's printable characters in a string and does nothing to a number (`%#x`), `0` fills the field of a string with zeros,
`%p` is `0x` and the number, and `%e` is an error's text.
Of the first kind four combinations are left out, where K & R say one thing and the code does
another: `PadsRight`, a number padded on the right
(see below); `SignInField`, a negative number or a pointer in a wider field (the sign or the
`0x` is printed before the padding and not counted); `MinusAndZero`, both of these flags (the later one wins here);
and `NoPrecision`, a precision of 0 in digits (`%.0s`, whose `0` is taken for a flag).

**BootSector.** One action per instruction that changes what the next one meets. A segment
register holds the whole segment it has loaded, so that loading the table, setting the mode bit
and loading a register differ, as they do in the processor. The controller takes any time over
a byte, and loses it when another is written before; `0xdf` counts only after `0xd1`. With line 20
held low every address is folded, for `BootLoader` too. After the second byte `boot.S` does not wait:
that the controller has seen it before `bootmain` loads anything above the line is not
the code's doing but the disk's slowness, and is assumed (`DiskDone` comes after it).

**BootLoader.** Bytes are named by their place in the image, so that memory says what was
loaded where. The disk is the external part: it may come up late, be busy at first, take
any time over a command, ignores one while it is not ready and has nothing to read while it is
busy. A sector's number goes through the four registers of a byte each; the disk does not count the
upper bits of the last (`TOP`), which `readsect` sets to `0xE0`. Images lay
segments out as `kernel.ld` does (`FileLaidOut`), no two sharing a sector: the comment at `main.c:84`
would not hold for a segment that begins in the sector an earlier one, higher in
memory, ends in. The wrap of `pa + count` at 2^32 is not modelled.

**KernelStart.** A fetch, read or write goes through the page directory that `cr3` gives
once paging is on; an instruction runs only if it is found where it is fetched. An access
that faults stops the model. What the link gives, that the kernel fits into the 4MB that are mapped and
that its stack, page directory and BSS lie apart in its segments, is `Linked`. The word that `entry.S:44`
stores at 0x472, for the firmware, is a byte at `WARMBOOT` with a value of its own (`Warm`); it is outside all segments,
and `RestOfMemoryKept` names it as the only write that is. Execution begins at the entry point that the header
in memory gives (`e_entry`), and nowhere sensible if the header has been overwritten.

**Backtrace.** The convention of calls (who pushes what) is external; the number of
words a function keeps for itself, and whether `runcmd` is compiled into `monitor`, are chosen
freely, since `mon_backtrace` must not depend on them. The five words printed for a
frame of fewer arguments may lie above the stack's top. The stack is assumed to have room for
the calls: of the kernel's 8192 words, `X` = 5 needs a few dozen unless functions keep more than a
thousand words each.

**MemoryOps, Strings, Strtol.** `rep movs` is stepped by unit, since its order is what an
overlap is about. Every behaviour is one call: `MemoryOps`, `Strings` and `Strtol` add
their functions to the same `call`, `mem` and `result`, and a program counter `pc` says which is
in progress. In `Strings` the functions that write go character by character; those that
only read are recursive functions, compared with definitions by sets of positions.
`Strtol` wraps at every digit, as the code does.

## 3. What is checked

| Run | Shows | Bounds |
|---|---|---|
| `keyboard` | the five properties of the decoder | 8 keys: both control keys, shift, alt, Delete, keypad ".", a letter, caps lock; 2 events queued. Each way a byte can be handled has at least one key, and each modifier that can be confused with another by its code has its twin |
| `console_session` | queue refinement; every line is the edited text of what was typed; the keyboard is not starved; Return ends the line | 3 slots (so the indices wrap and overrun), a letter and a backspace from the serial line, Enter from the keyboard, 2 arrivals per poll, lines of one character on a screen of 3x1, so that each character scrolls; any number of lines |
| `console_output` | terminal refinement with the cursor the registers show, both ports, termination | 3x2 screen, 1 poll, 2 calls (one may be a tab: 6 characters), every class of character |
| `monitor` | the line and the screen agree, what is returned is what was shown; words, commands, answer; the first panic is the one told | 3x3 screen with the cursor left in the middle, buffer of 6: lines wrap, scroll and fill up; 3 places in `argv`, two commands one of which is a prefix of the other, 2 calls of `readline` with `a`, `b` (from 0x80 up), space, backspace and Return; two panics anywhere and a warning |
| `kdebug` | each search brackets its address, its emptiness is honest, and its region is sorted; file, function, parameters; termination | 48 tables of two files and two functions with up to two parameters, with and without an included file; all 18 addresses, before, in, between and after the files, the last of which wraps when it is counted up |
| `printfmt` | meaning, buffer, termination | every number directive of 4 combinations of flags, 3 widths, 2 lengths, 4 conversions, 4 values; pointers; strings with 5 precisions, in digits or as arguments, also negative; errors, unknown and unfinished directives; alone and before a second directive; buffers of no byte, 1, 6 and 40, and the console |
| `kernel_start` | from the firmware's jump: line 20 through before anything is above it, no reset; segments whole, headers kept, nothing else written but the word at 0x472; code found, memory as linked, stack whole, no fault; termination | line 20 counts 32, between the boot sector's part of memory and the end of the image; interrupts on or off, the line low or high and the controller busy or not at the start; sectors of 2 bytes; text that begins and ends in the middle of a sector or not, an empty segment, data and BSS that end in the middle of one, headers at two offsets, one file that is not ELF; registers of 4 values, so that the sector's number takes several; pages of 8 bytes, 4 directory entries |
| `backtrace` | the calls shown, returns, messages, the graded output | `X` = 5 as in the kernel; 0 to 2 words of locals; any number of monitor commands |
| `strings` | copies, fills, direction flag (`MovesAsPromised`); string copies, results, comparisons, searches, the number read and where it ends (`StringsAsPromised`); termination | `memmove`, `memset`: all calls in 10 bytes, words of 2, an `int` above 255. Strings: all calls C allows in every memory of 5 bytes over two characters, one above 0x7f, and NUL. `strtol`: every string up to 4 of 9 characters in bases 0, 8, 10, 16; longs of 256 values, so that 4 digits overflow |

Small bounds are enough here because the code treats all values of a kind alike: a
buffer's size matters at its wrap and its limit only, a screen's at the ends of
its lines and its last line, a table's at the ends of the region and by the order of its
values.

**Fairness** is assumed of the one thread: the processor keeps executing
(`WF` of the kernel's own steps). Nothing is assumed of a device: it need never
answer, send or be ready, and nobody need type. A weaker assumption could prove
nothing, and the loop structure is what the liveness properties are about. The
exceptions are in `KernelStart`: the disk comes up and finishes what it was asked in the end, and
the keyboard controller takes the byte it was given. `waitdisk` and the two loops of `seta20`
have no bound, so the code itself relies on that.

`CHECK_DEADLOCK FALSE` stands where the model stops because its bound on calls is
used up, or the one call it is about has returned. `Keyboard`, `ConsoleSession` and
`Backtrace` never stop.

Three more runs check what a comment says, and TLC refutes it:

| Run | Comment | What the code does |
|---|---|---|
| `console_loss_doc` | `cons_getc` returns 0 "if none waiting" (`console.c:405`) | after an overrun it returns 0 with 512 characters lost |
| `stab_neighbour` | `stab_binsearch` "finds the single stab entry ... that contains that address" (`kdebug.c:20`) | if a match begins at the very next address, it returns that one; `BracketsAddress`, which excludes this case, holds |
| `kdebug_line` | "If found, set info->eip_line to the right line number" (`kdebug.c:179`) | it is set to the stab's offset or address |

### Other disagreements seen, without a run

The models do what the code does here too, and no property says otherwise:

* "Too many arguments (max 16)" (`monitor.c:122`) is printed for 16 arguments, since the
  last place of `argv` is the null pointer's.
* "if no attribute given, then use black on white" (`console.c:165`): a byte from
  0x80 up, sign-extended by `%s` (`printfmt.c:216`), has all attribute bits set.
* An address in no stab gives an empty region (`kdebug.c:32`): not if every match
  begins above it. Then the region is not empty and begins with no match.
* "If not found, return -1" (`kdebug.c:180`): without a line `debuginfo_eip` returns 0.
* "flag to pad on the right" (`printfmt.c:140`): a number is padded with minus signs
  on the left.
* "Space or zero padding and a field width are supported for the numeric formats only"
  (`printfmt.c:12`): `%s` has both too (`printfmt.c:213-222`), as K & R say; `Meaning` and
  `PrintsMeaning` are of the code.
* `%e` "prints a string describing the error" (`printfmt.c:16`): the last of the codes
  of `error.h` has none.
* `cprintf` returns the number of characters it has printed, by its kind: `*cnt++`
  (`printf.c:13`) moves the pointer and counts nothing, so it is always 0.
* "kern/monitor.c:143: monitor+106" (`monitor.c:69`): after the plus sign
  `mon_backtrace` prints the line again.

## 4. What is proved

Each theorem holds for every value of the constants that the named assumptions
allow (any buffer size above 1, any set of keys, any table).

* `KeyboardProofs`: `TypeCorrect`, `EscapeCorrect`, `ModifiersCorrect`,
  `ModifierDropCorrect`. The inductive invariant is the conjunction of the type
  invariant, `half` implying that the oldest event is an extended key's, the escape bit
  being equal to `half`, and every set modifier being carried by a held key. The
  escape part is needed for the modifier part: only if the byte is looked up in the
  right half of the table is the index `shiftcode` gets that of the key. From it also
  `CharCorrect` (`CharOfItsKey`: a character comes from the key just pressed, through one of the
  tables its modifiers choose) and `RebootCorrect` (`RebootNeedsCtrlAltDel`): `KEY_DEL` stands in the
  tables at the Delete key only, and both modifiers, being set, are carried by held keys.
* `ConsoleSessionProofs`: `TypeCorrect`, `GetcharCorrect`, and `QueueImplemented`:
  every step of `ConsoleInput` is a step of `CharQueue` or leaves its variables alone,
  under `queue <- Pending`. The invariant adds to the types that no slot between the
  indices holds 0. The lemmas say what storing and taking do to the contents of a
  circular array, with and without wrapping. `SessionIsInput` takes all three to
  `ConsoleSession`, and `SessionLines` proves `LinesAreTyped` of it, with `queue <- Pending`: each
  branch of `readline`'s loop edits the line as `LineInput`'s `Read` does with the character that
  `GetcChar` takes from the head of the queue (`HandleEdits`), and every other step leaves the line alone
  (`OtherSteps`). The invariant adds that no byte of the line is a NUL (so the string returned ends
  where the line does) and that `i` is 0 between two calls.
* `KdebugProofs`, on two levels. `SearchBrackets`: `stab_binsearch` alone returns the region
  around the address, in tables of any length, if the region is not empty and sorted by the type
  searched for. The invariant, while the search runs, says of each stab
  of the type: left of `l` it begins at or below the address, right of `r` above it;
  `region_left` is such a stab at or below, or there is none left of `l`; `region_right`
  follows `r`. The two backward scans add that the stabs they have passed are of other
  types. That no match begins at the next address is needed in one place: `addr`, counted
  up at an exact match, must not match again.
  `KdebugTypeCorrect`, `SearchesBracket` (`BracketsAddress`), `RegionsSorted`
  (`SearchesSortedRegions`), `InfoCorrect` (`InfoDescribesEip`): the same of each
  search that `debuginfo_eip` makes, and what it fills in. The invariant adds what each phase has
  been asked for and what the phases before it found: `lfile` begins the file around the address
  and the region ends where the next one begins; the function found, if any, lies in that file; the way
  back from the line to a file name passes no file entry; the parameters counted so far are those
  after the function. Sortedness of the three regions follows from `LayoutAssumption`: file
  entries are sorted, functions are sorted inside a file and none begins before it, parameters
  follow their function.

* `ConsoleOutputProofs`: `OutputTypeCorrect`, that `crt_pos` never leaves the screen and the two
  registers of the cursor can show it; `PortsCorrect` (`PortsKeepAll`); and `TerminalImplemented`
  (`ImplementsTerminal`), that every step puts one character on a grid of lines or
  leaves it alone. The first is an induction over types; its one hard step is `PutcScreen`. The second
  needs one fact more, that the character in `cons_putc`'s hands is the last one
  it was called with, until all three devices have it. The third reads a position as
  `line * width + column`, in one way only, since quotient and remainder are unique (`PlaceUnique`);
  `PutcMoves` says of each class of character what it does to both, the scroll included. A
  tab's spaces come from the invariant; that what was given without the
  tabs grows by what is put (`LessTabs`) is an induction over the length of the text.
* `MonitorProofs`, all of `PanicSpec`, with panics and warnings at any point: `MonitorTypeCorrect`,
  `ScreenCorrect` (`ScreenShowsLine`), `LineReturned` (`ReturnsWhatIsShown`), `FirstPanicCorrect`.
  The invariant has four parts for these. `Types` alone is not inductive: `runcmd`'s pointer stays in the
  buffer only because there is a NUL ahead of it, and what the error message prints of an argument
  ends only because each argument has a NUL behind it. `Cutting` says that, `Places` that `readline` is at work just when
  `monitor` waits for it, and `Editing` that what has been printed of the prompt and then
  the line stand before the cursor, and that no byte of the line is a NUL, which is where the NUL
  of `Cutting` comes from. The screen part rests on `PutcGlyph` and `PutcErase`:
  a text before the cursor grows by a glyph or loses its last one, across the end of a screen line
  and a scroll, as long as it fits on the screen less one line.
  `ArgumentsCorrect` (`ArgumentsAreWords`) and `CommandCorrect` (`CommandOfFirstWord`) need
  two more parts. `Divided` compares the buffer with the line as it was entered: behind the pointer its
  white space is NULs, ahead it is as it was, and `argv` has the words that start before the pointer (or
  under it, inside an argument), in order; `Idle`, that no command has run since the prompt. `StartsAre`
  says that there is one rising sequence only of the places where words start, so that the one
  in `argv` is it, and `WordIs` that the string at such a place ends where the word does.
* `LibProofs`, of the string routines: `MemoryCorrect` (`MovesAsPromised`), for blocks of any size, words of any
  width and every call, those of `Strings` and `Strtol` included, which leave the
  direction flag alone. The invariant (`Progress`): going up, what is below `edi` has been
  moved; going down, what is above; the rest is as it was, and what is still to be read is in the
  rest *because* the direction was chosen by `Overlaps`. Several units at a time add that a unit's
  bytes are all read before any is written.

  `StringsCorrect` (`StringsAsPromised`) and `StrtolTypeCorrect` (`StrtolTypeOK`) are for every
  memory that ends in a NUL and every call of the other functions that C allows. `StringIInv` has three parts
  that do the work.
  `Returned`: the functions that only look return in the step that calls them, so one lemma each
  (`strlenIs` to `strncmpIs`) compares their loop with the definition by sets of positions; `LoopExists` and
  `LoopReturns` say of every loop that counts up until a condition holds that it has a value and which,
  so no function needs an induction of its own.
  `Copying`: what is stored so far is the beginning of what was promised, all else is as before,
  and the source is still whole because the call keeps it clear of the destination, `strcat`'s old
  text included. For `strncpy` the source pointer waits at the NUL while it pads.
  `Reading`: in `strtol`, where `s` can be at each `pc`; while it reads digits,
  `val` times the base to the power of how many digits are left, plus what these mean, is the
  number, modulo the width of a long. Not equal to it, since the code lets `val` overflow at any
  digit; that two longs alike modulo that width are the same long then gives the result at the end. The number is
  defined by recursion on the digits; `Recursion` shows that there is such a function.

  Of formatted output: `BufferCorrect` (`BufferHoldsPrefix`) and `MeaningPrinted`
  (`PrintsMeaning`, with the meaning of section 2 and without the four combinations named there), for every format of any number of directives, every size of a buffer and every
  width of `int` and `long long`. The buffer's invariant (`BufferFilled`) is that `cnt` counts
  what has been printed, `pos` is that or the buffer's last byte, whichever is less, and the bytes before
  `pos` are the beginning of it. The other one (`Walk`) says where in the format `vprintfmt` is: in
  the text before a directive (`InText`), in the flags, the width, the precision or
  the ending of directive `k` (`InFlags` to `InEnding`), or in the text of an unknown one that it has gone
  back to (`InUnknown`). Each of these says that `fmt` is the length of what `parts` make up to
  there (`Offset`), that `ap` is the number of arguments they take (`Taken`) and
  that what has been printed is the meaning of all before (`Printed`); in a directive also that the flags,
  width and precision are those read of this directive so far, none being left of the one before (`ReadOf`). There is a lemma for each step
  from each place. `PieceOfAll` says that the text of a directive stands
  at its offset in the format; `AfterPercent` finds its own percent sign
  because none is between (`NoPercent`). `NumberEnds` tells a width from a precision by the sign of
  `width`, which is why `.` sets it to 0. That a conversion prints its meaning is
  `ConvertedIs`, by cases; for numbers it rests on `printnumIs`, that `printnum` prints the digits of
  `Numeral` behind as much padding as the width asks for: padded numerals satisfy `printnum`'s
  recursion, and by induction over the number nothing else does.

* `KernelStartProofs`: `MemoryKept` (`RestOfMemoryKept`), `HeadersKept` (`HeaderIntact`) and
  `LinkedMemory` (`MemoryAsLinked`), from the firmware's jump to the cleared BSS, for every sector and
  page size, base address, file laid out by the link and timing of the disk, the controller and
  interrupts. `MemoryKept` tells who wrote what by the value: offsets of the file are the
  loader's, `Zero` and `Spin` the kernel's, inside segments, `Warm` is at 0x472 only (`Marks`, `KeptStep`).
  The invariant (`LoadingInvariant`) says what the controller and the segment
  registers can be like at each instruction of `boot.S` (`Modes`); that line 20 is through when a sector
  is stored, since the disk answers after the controller (`A20Inv`); that the
  disk's answer is to the question asked last (`DiskInv`), which needs that a sector's number survives its
  way through the registers (`Registered`); that `readseg` has filled memory from the rounded beginning to
  `pa`, with the offset in step (`ReadInv`); that the first page and every segment loaded before are
  still whole (`PageInv`, `SegmentsInv`), since sectors are not shared; and what `entry.S` has set
  (`EntryInv`). `KernelAddress` says that the page tables map a kernel's address to
  `RELOC` of it, for reading and writing, as long as the directory is where `cr3` says; that it still is after the
  stack and the BSS have been written is the last step.
* `BacktraceProofs`: `BacktraceCorrect` (`BacktraceShowsCalls`), `CallsCorrect`
  (`CallsUndisturbed`), `GradedCorrect` (`GradedBacktrace`), for every `X`, every stack with room
  for the calls and every number of words that functions may keep. The invariant says which calls can
  be in progress and how much has been printed then (`Shape`), and where each has its frame
  (`Place`, counted from the stack's top), so that the frames lie one below the other (`Spaced`)
  and each holds the place of the next outer one, an address in the caller and the
  arguments (`Linked`). A call writes only below `%esp`, so it leaves the outer frames as
  they are (`StayLinked`); a return restores `%ebp` from the innermost (`ReturnStep`);
  `mon_backtrace` has printed the frames down the links from the innermost, and its variable `ebp` is
  the next link (`Walking`). That it stops needs that no frame is at address 0.

The assumptions are those named in the modules, about constants only: a prompt and commands that
consist of characters (`STRING`; TLAPS must be told that what is written is a string), a line
that fits on the screen, a stack with room for its calls, blocks with addresses that are natural numbers, memories of bytes with
a NUL at their end for the calls on strings, a `long` with an even number of values, of at least 16, and
bases below that number (the type `int` of `strtol`'s base is no wider than `long`), formats and
arguments made of directives (`PrintfsAssumption`), files laid out
by the link, base addresses that are multiples of a sector and of a page table, tables of stabs in the order the compiler, the assembler and the linker write them.

**Only model-checked**: all liveness (`KeyboardIsServed`, `EnterEndsLine`,
`OutputNeverHangs`, `LineIsAnswered`, `DebuginfoReturns`, `FormattingEnds`,
`KernelStarts`, `CallReturns`), which is beyond the proof
system. The library's induction theorems cannot be applied, as they take an operator; where
a recursive function needs induction (`LessTabs`, the loops of `string.c`, `printnum`, the text of all
directives together), it goes over a set of naturals
instead, which has a smallest member (from the well-foundedness of `<`).

**Not modelled**: the five addresses that `kerninfo` prints, which the linker chooses; the branch of
`readline` for a negative result of `getchar`, which has none; `snprintf` and `printfmt`, which
only collect their arguments for `vsnprintf` and `vprintfmt`; the C variants of `memset` and
`memmove` that the build leaves out; the headers of the processor and of C, whose constants and
one-instruction functions appear in the modules that use them; host tools, build and grading
scripts; `user/sendpage.c`, which is not built.

## 5. Plan

Done: the devices and everything that reads and writes them, alone and at work together, the
monitor with panics at any point of it, the stab lookup, formatted output, the boot from the firmware's
jump to C code, the backtrace and the string routines; proofs for all of them. Every
invariant and every action property that a run checks is a theorem. What could still be
added, most important first:

1. The wrap of `pa + count` at 2^32 in `readseg`, which a boot image with a segment at the very top of memory
   would meet.
2. A refinement: `vsnprintf` and `cprintf` as one abstract printer that appends the meaning of a
   directive in a step, with `Walk` as the refinement mapping's invariant.
3. What `kerninfo` and `backtrace` print, as steps of `Monitor` instead of a constant.
