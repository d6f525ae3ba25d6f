# Formal model of the EHBC firmware

TLA+ modules, TLC configurations and TLAPS proofs for the firmware of the
Extensible Home-Brew Computer: a single 68k processor, foreground code that
polls and blocks, and interrupt handlers that share ring buffers and device
state with it. File names below are relative to the root of the repository.

## The system

| Part | Source | State it keeps | Operations | Modelled by |
|---|---|---|---|---|
| ring buffer | `src/ringbuf.c` | `rptr`, `wptr`, `buf`, lock | push, pop, flush, getfree, unpop, external lock | `RingBuf`, `BoundedQueue` |
| spin lock, mask | `src/spinlock.c`, `arch/m68k/irq.S` | `flag`, `irq_level`, SR | lock, unlock | `RingBuf` |
| serial driver | `src/hw/mc68681.c` | 4 rings, `imr`, the DUART | write, read, flush, reset, set_param, handler | `Duart` |
| keyboard driver | `src/hw/ps2kbms.c` | `kbbuf`, `kbd_state` | handler, get_key_char, get_keystroke, flush | `Keyboard` |
| heap | `libehbcfw/src/mm.c` | block descriptors with buddy flags | init, alloc, free, realloc | `Mm` |
| PS/2 controller, mouse | `src/hw/ps2kbms.c` | control byte, packet under assembly | controller reset, probes, commands with retry, device resets, handler, get_status | `Ps2Controller` |
| floppy driver, DMA | `src/hw/floppy.c`, `arch/m68k/proto1/init.c` | `irq_done`, `track`, `recalib_status`; the FDC and the channel | reset, recalibrate, seek, read, handler | `Floppy`, `Chs` |
| FAT file system | `src/fs/fat.c` | two one-sector caches, cursors | mount, iterate, open, read, seek | `Fat`, `FileApi` |
| memory pool | `libehbcfw/src/mpool.c` | slot bitmap | alloc, realloc, free | no: nothing calls it |
| interrupt controller, vectors | `arch/m68k/proto1/{init,exception}.c` | routing, in-service levels | deliver, acknowledge | where a driver's handler is modelled |
| device list, system calls, exec, main | `src/device.c`, `arch/m68k/syscall.c`, `src/exec.c`, `src/main.c` | device table, one `jmp_buf` | dispatch, run, return | partly (the order of the start-up, in `Ps2Controller` and `Floppy`) |
| VGA console | `src/hw/vga.c` | cursor register, array of cells | write, move, scroll, clear | `Vga`, `Terminal` |

How they interact. The device interrupts go through the system control unit
(SCU), which assigns each a level and holds a level back until its handler
reads the level's acknowledge register; a handler is therefore never
interrupted by itself, but it is by higher levels, and the foreground is by any.
The serial and keyboard handlers push into or pop from rings that the foreground
pops and pushes; each ring call masks everything while it works. System calls
from a loaded program reach the same drivers through the device list. The FAT
code calls storage system calls, which reach the floppy driver, which waits for
its interrupt in a flag. Programs link the heap into themselves.

What is hard here: read-modify-write of `imr` from two contexts; the serial
handler called from the foreground and interrupted by itself; a mask level saved
outside the masked region; multi-byte key sequences in a queue that may drop;
the buddy flags of four levels that every free must undo; flags and caches set
before the operation they describe has succeeded; answers of two devices that come
late, or not at all, through one byte of buffer that an interrupt empties too; a
completion that is a flag and not a count; a DMA channel that outlives the call it
was set up for. `PROJECT.json` lists every such hazard at its line, with the
properties that cover it.

What makes each part correct, in a sentence: a ring is a FIFO queue whatever
interrupts it; a byte given to the serial driver is sent at most once and never left
waiting in its ring; a received byte is not reordered; a channel that is enabled can
be heard; a character arrives as it was typed and no modifier sticks; two
allocations never overlap and freed memory can be had again; a file read through
the shared caches has its own bytes, and a directory lists and finds its entries;
a device that was reset successfully is ready, and the start-up ends whatever is
plugged in; a floppy read stores the sectors asked for and nothing after it has
returned; the linear screen is a terminal of rows and columns.

## The modules

**`BoundedQueue`** is the abstract specification: clients invoke push, pop or
flush, the call takes effect in one step, the client gets the result.

**`RingBuf`** is `ringbuf.c` with `spinlock.c` and `irq.S` at the grain of the
memory accesses that matter. Context 0 is the foreground, context *l* the handler
of level *l*; `Interrupt(l)` nests a handler on whatever runs if *l* is above
`mask`, `Return(l)` is its `rte` (the SCU acknowledgement, the handler's last
instruction, is in the same step). A call goes through `SaveLevel`, `MaskAll`,
`TakeFlag`, the body in its steps, `DropFlag`, `Unmask`. One detail is taken
from the assembly: `get_irqmask_level` leaves the high word of d0 unchanged, the
lock stores the whole long, and `set_irqmask_level` takes the long's *first*
byte. What the unlock writes to SR is a piece of a stale register, so
`SaveLevel` chooses it from the constant `StaleLevels`. Nothing below depends on
the choice: it decides when interrupts come back, not whether calls exclude one
another.

**`RingBufProofs`** holds the theorems about it.

**`Duart`** is `mc68681.c`. The handler is a set of actions with a context
parameter, because `write_byte` calls it from the foreground while the interrupt
may run it too. Each access to a DUART register and each load and store of
`param->imr` is one step; a ring call is one step, which `RingBuf` justifies. A
byte written is a number in the order of the calls, a byte received a number in
the order of arrival. `on`, `busy` and `fifo` are the device: transmitter and
receiver enabled, the holding register, the receive FIFO. Definitions marked
`external` in the map are the device and the line. Bytes sent may overtake one
another: the foreground's run of the handler can be interrupted between its pop and
its write ("is it ok?", the comments at mc68681.c:259 and :272). `TxOnce` therefore speaks
of what is sent and how often, not of the order. In the same place a byte is written into a
holding register that the other run of the handler has just filled, and is lost: the model
does so, and no property says that every byte reaches the line. The peer may hold the
transmitter back by CTS, which `set_param` enables. A character with a line error is never
read out of the FIFO; each interrupt stores `ErrorByte` for it.

**`DuartProofs`** holds the theorems about it.

**`Keyboard`** is the interrupt path and `process_keystroke`, with a typist who
presses and releases keys and whose intentions (`held`, `locks`, `typed`) are
what the driver's answers are compared with. Three keys stand for the scan code table: a
letter, a digit, and one that comes as an E0 sequence and has one character. `process_keystroke`
applies caps lock to all of the table, so that with caps lock on the digit key gives `!` (line
553); the typist of the model knows that (`Meant`), as nothing in the repository says what caps
lock should do. Keys held down do not repeat their codes: a lock key that did would toggle its
bit at each (line 595). Right control and right alt are not among the keys: their
releases arrive as E0 9D and E0 B8, and the E0 branch of `process_keystroke` knows
only their presses (38 and 1D), so the modifier stays on until the left key goes up.

**`KeyboardProofs`** holds the theorems about it.

**`Mm`** is `mm.c`: the descriptor table with the flags of the four levels,
and the recursive search and release, which are written out level by level (`Search`
and `FreeIn` are one call each) because there are always four. `live` is what callers
were given and have not freed, as a bag, so that memory given out twice shows.

**`MmProofs`** holds the theorems about it, for chunks of one level.

**`Ps2Controller`** is the other half of `ps2kbms.c`: the reset of the i8042, the
probe and reset of either port as `add_device` runs them, `ps2_command` with its
bytes, acknowledgements, retries and time-outs, the handler of both interrupts,
and the two calls that take away what it stored. A read of the data register and a
byte written are one step each, so that the handler, a key or a movement of the mouse
may come between any two of them. A wait that polls finds what it waits for or, while
the buffer is empty, times out: no device is promised to be fast. Either device may be
absent, answer late, refuse a command once or lose it. A key that finds `kbbuf` full is
dropped (line 393). Three exceptions in the properties are what the code really does. A full
`kbbuf` excuses `KeysArrive`. `misled` marks a reset whose last attempt
failed and which goes on because `param[0]`, that of an earlier attempt or
uninitialised, looks right (line 464); `SuccessMeansReady` and `PacketsWhole` say nothing
of it. `Deaf` is what a failed reset of the mouse may
leave: a control byte that was not restored, or a byte in the buffer with the port shut,
behind which no key comes through. One branch has no caller and is left out, the answer to
GETID.

**`Ps2ControllerProofs`** holds the theorems about it.

**`Chs`** is `disk.c` and the rearrangement `floppy_read` calls the chs hack.

**`Floppy`** is `floppy.c` with the DMA set-up of `init.c`: the two resets of the
start-up, then reads. `fg` is where the foreground stands in the nest of calls: the
operation (`op`) of `floppy_prepare` or the read, the command (`cmd`) in progress, the
SENSE_IRQ still to come (`senses`) when `fdc_enable` runs first. Sending a command is
one step because only the controller's own answer could come in between; waiting for the
interrupt, the interrupt, the result and the DMA's completion are steps of their own. A
byte for which the status register shows the wrong direction (a refusal) and a sector
that cannot be read, before or after it was stored, lead into the error paths; so would a
result shorter or longer than expected (`Mismatch`), which never comes unless an
interrupt is taken for another's. `mem` is what the channel stored in each read's buffer,
`returned` what each read said, `specified` and `heads` what the controller and the drive
really know. The controller is out of reset when the model starts, as after power-up, and
starting the channel is taken to clear its completion flag. `shaken` and `flawed`
mark what the properties except: a command that failed on a calibrated drive, after which
the controller has lost its SPECIFY and nobody repeats it, and a read that met a bad
sector, whose status the driver ignores ("// return 1"). `ConfiguresNobody` is the reset
of drive 1 after that of drive 0 failed: CONFIGURE waits for a controller that is held in
reset.

**`FloppyProofs`** holds the theorems about it and, before them, those about `Chs`.

**`Terminal`** is the abstract specification of the console: a screen of rows and columns
and what each call does to it, so that a text goes on in the next row, the screen moves up
below the last, and the cursor goes where line ends, tabs and moves take it. **`Vga`** is
`vga.c`'s array of cells and linear cursor. `IsTerminal` is the refinement. `asked` is the
last call with its arguments; as both modules set it, no call of the driver can pass for
another one of the screen. Calls come with any arguments, from any cursor a register of 16 bits
can hold (`Short`), so that the model also does what `vga.c` does when it leaves the screen:
the cells behind the screen are part of it (`behind`), those in front of it are not.
`Terminal` says what a screen promises and is silent about the rest: writing while the cursor
is not on the screen, a string that does not fit on it, a tab in the last columns of the last
row, which takes the cursor off it (line 317), and scrolling by a negative amount, of which the
system call drops the sign (syscall.c:64), or by more rows than the area has. Every other call
leaves the cells behind the screen as they are. `vga_write_ansi_tty` ignores its `len` and
writes to the terminating 0, which is how its callers call it.

**`VgaProofs`** holds the theorems about it, the refinement among them.

**`FileApi`** is the abstract specification of an open file: its bytes and a
position, with read (whole blocks, as many as fit), seek and tell.

**`Fat`** is `fat.c` over one mounted volume. A cache is the sector it claims
(`lba`, as `databuf_lba` and `fatbuf_lba`) and the sector whose bytes it has
(`holds`): the two part when a transfer fails, because the code sets the first
before it reads and looks at no result. `Mount`, `FileRead`, `FileSeek` and
`FileTell` are one step each, as calls come one after the other. The calls that
walk a directory take one step per turn of `fat_dir_iter_next`'s outer loop, so
that whether they return is a question about the model and not about the
evaluation of an operator. `rows` of a volume is what a scan for entries finds in a sector,
of a directory or not, because after a failed read the scan runs over what `databuf` held
before: such a walk may return an entry that is none, and circles for ever if the bytes have
neither a match nor a zero at the start of an entry. `WalkEnds` excuses a walk while `databuf`
claims another sector than it holds. `Mount` looks for the signature in what `databuf` holds,
as the code does, so that FSINFO, which ends in it too, is taken for a boot sector when the
read of sector 0 fails after a FAT32 was mounted; the division by its sector size of 0
(line 506) stops the machine (`Trapped`). `files`, `cwd` and `iter` are the program's
`struct fat_file`, `struct fat_dir` and `struct fat_dir_iter`.
`FilesKeepPromise` is the refinement of `FileApi`: the sequence of bytes of a
handle is what `mkfs` put in its chain of clusters, computed without `fat.c`. The loops
over clusters, blocks and bytes are recursive functions, so that `Fat` can be proved about.

**`FatProofs`** holds the theorems about it, the refinement among them.

What `Fat` takes as given:

- A transfer that fails leaves memory as it was: the error returns of the driver
  that come before the DMA moves anything. Of the failures only those that show
  are taken, that is, those that change the step's result.
- Volumes are as `mkfs` makes them (`VolumesAssumption`). `Numbers`: one cluster is one
  sector, as on the floppies this machine has; `read_cluster` reads one sector whatever
  the cluster size. `RootAt`: the root directory is behind the FATs, or on a FAT32 in its
  chain. `Chained`: a cluster is in one place of one chain, on the medium and in the FAT,
  and is not one that the code takes for a mark: it takes all above FF4 (FAT12) or FFF4
  (FAT16) for one, and a full volume has a cluster with the next number. `Listed`: a
  directory fits into a sector, and an entry has the chain of its file. This goes for what
  a scan finds in other sectors as well: what looks like the entry of a directory is one, and
  no sector but the boot sector and FSINFO ends in the signature.
- Files, blocks and seek offsets are at most a quarter of the numbers of a word, 1 GB
  in the code (`Listed`, `CallsAssumption`), so that a negative offset can be told from
  a large one.
- The mask of line 630 skips every entry with one of the four attribute bits of a
  long name, so read-only, hidden and system files cannot be seen either, although the
  comment below it speaks of long names only. The volumes of the runs have no such
  files (`NoHidden`), and the theorems about directories say so. The test for a
  volume label at line 639 is never reached.
- The program mounts before it uses the volume, does not reopen the
  `struct fat_dir` of an iterator it goes on with, and opens as a directory only
  names of directories (`DirNames`). The names it opens are absent from one of the
  two directories.

`MCRingBuf`, `MCDuart`, `MCKeyboard`, `MCMm`, `MCPs2Controller`, `MCFloppy`, `MCVga` and
`MCFat` define the constants of the runs.
Definitions whose comment begins "A faulty variant" are not part of the
specifications: each is what a plausible mistake in the code would be, and
replacing the definition below it by the variant breaks a property of the run.

## The runs

| Run | Checks | Shows |
|---|---|---|
| `ring` | TypeOK, MutualExclusion, NeverSpins, RingIsQueue, CallsReturn | a ring of 3 slots (2 bytes), one handler: every interleaving is a FIFO queue, and every call returns |
| `duart` | TypeOK, TxWakeup, TxOnce, RxInOrder, RxListens, TxDrains | one channel, 2 bytes out, 4 in, rings of one byte that fill up, a FIFO of two that overruns, line errors, two configurations |
| `keyboard` | TypeOK, KeysAsTyped, ModifiersAgree, LocksAgree, CharDelivered | ten keys, two held together, a ring of 3 codes that overflows |
| `heap` | TypeOK, NoOverlap, NothingLeaks, ChunkIsFull, FreeTellsSize | two blocks, whole-block runs and smallest chunks, up to 8 allocations |
| `fat` | TypeOK, ListsDirectory, FilesKeepPromise, OpensByName, WalkEnds | a FAT12, a FAT16 and a FAT32 volume: mounts, walks, an iteration and a file that share the caches, one transfer that fails |
| `ps2` | TypeOK, CommandsUndisturbed, SuccessMeansReady, PacketsWhole, HandlerReturns, StartUpEnds, KeysArrive | both ports started with interrupts on, devices missing, late or refusing, a key and two movements at any moment |
| `floppy` | TypeOK, OwnInterrupt, Prepared, ReadsRight, NoStrayDma, CallsReturn | the resets and two reads of every address and length, two refusals and one bad sector anywhere |
| `vga` | IsTerminal | four calls of any kind, with any arguments, on a small screen |
| `duart_both` | RxListens (violated) | configuring the second channel silences the first |
| `heap_mixed` | ChunkIsFull (violated) | two chunk sizes: memory in use is marked free, and malloc hands it out again |
| `floppy_range` | RangeChecked (violated) | a read of the first address behind the medium goes to the controller |
| `fat_long` | WalkEnds (violated) | a directory of two sectors: the walk scans the first for ever |

Bounds, and why they are enough. A ring of three slots is the smallest with an
empty, a partial, a full and a wrapped state; the proofs cover every size and
every set of levels. In `duart` a ring holds one byte and two are written, so `write_byte`
waits for room. Four characters come in: one fills the ring, a second is dropped by the
full ring, or two fill the FIFO and another overruns it, and there is one more whose order is
then of interest. `MaxConfig` is 2: a channel that runs is reset and set up again, with good
or bad parameters, while bytes wait in both directions; in `duart_both` that is one call per
channel. Two keys held are both sides of a
modifier, or a modifier and a letter; the pause sequence is longer than the ring.
Eight live allocations with two blocks reach a tree with several entries of its
last level in use and a run that needs both blocks. `StaleLevels` is 0 and 7 in
`ring`: everything enabled, nothing enabled. In `fat` a sector has 8 bytes and
a directory entry one, which keeps every division of the code: file A's three
clusters are out of order on the disk, the FAT has several sectors, and on the
FAT12 an entry lies across two of them. `Fat12Below` and `Fat16Below` shrink with
the volumes. Reads of 4 end where a cluster ends, reads of 6 cross it; seeks go to
each origin, past the end and before the start. One failed transfer (`MaxFaults`)
leaves one dishonest cache, and every later call runs over it. The bytes of file A's first
cluster, and on two of the volumes those of the boot sector, have no end mark, so that walks
that circle are among the behaviours. A handle and an iterator are two users of each cache. In `ps2` two attempts (`Retries`, 100 in the
code) are a first and a last; the second meets the late answers of the first. `BufSize` 2
lets `i8042_flush` stop short of a buffer that fills again. Two movements are what a shifted
packet needs, and one refused or lost byte reaches every error path. A `kbbuf` of two codes
(`KbCap`) can be filled by late answers that the handler takes for keys, so that a code is dropped. In `floppy` two
cylinders of two sectors a side have a first and a last of everything, addresses 0 to 7
are the whole medium, reads of 1 to 3 sectors end before, at and behind a track's end; a
second read meets what a failed one left, and two refusals make both resets of the
start-up fail, or two reads. The screen of `vga` has 3 rows, so that
one is neither first nor last, and two tab stops. `SetCursorPos` goes to every place a cursor
of `Short` = 16 numbers has, 12 on the screen and 4 behind it, in one call; three more write,
end a line, tab or scroll from there. Areas are scrolled by every amount up to the screen's
height in both directions. The proofs cover every
size and every bound of all eight.

`heap` and the proofs about it keep to chunks of one level because with two the heap is not
correct (`heap_mixed`), and `duart` to one channel because with two it is not
(`duart_both`); `main.c` configures channel a alone. Deadlock is checked for
`ring`, `heap`, `heap_mixed` and `fat_long`. The others may stop:
the bounds on bytes, calls, keys and reads run out, or a blocking call waits for input
that need not come, or, in `keyboard`, a code was lost, or, in `fat`, the machine was
trapped in a mount.

Fairness. `ring`: strong fairness of each context's steps and of each handler's
return, because a context that is interrupted again and again still executes
instructions between interrupts, and weak fairness would let it be overtaken for
ever. `duart`: the CPU goes on (foreground in a call, handler), and the DUART
requests an interrupt as long as it has a reason. That it sends what is in its holding register
is not assumed, because the peer's CTS may forbid it; `TxDrains` is about the behaviours in
which it does, and says so itself. `keyboard`: the interrupt is served, and the foreground goes on while
there is a code. No caller or typist has to act. `fat`: the program runs on through the
call it is in (weak fairness of `Walk`); it need not make another. `ps2`: the
start-up goes on, as its waits are counted loops, and the handler is entered and goes
on; no device has to answer. `floppy`: the foreground polls, the controller ends
what it was told to do, and its interrupt is taken.

What the violations mean. `duart_both` and `floppy_range` contradict comments beside
the code that is wrong: the first clears the other channel's bits of the interrupt mask,
the second compares signed fields from above only, so that the error value -1 passes.
`heap_mixed` contradicts the truth table in `mm.h`: with `malloc(2000)` and then
`malloc(700)` three times the last address is that of the second. `fat_long` contradicts
the comment on the loop that is to fetch the current block: the index that would move to
the next block is compared with the number of entries, so it never moves, and a directory
whose first block has no end mark cannot be walked. `fat` keeps to directories of one
block and `floppy` to addresses on the medium. All four are quoted under "findings".

## The proofs

`RingBufProofs` proves, for every ring size of at least 2, every set of
interrupt levels 1 to 6, every assignment of calls to contexts and every set of
stale levels:

- `TypeCorrect`: `Spec => []TypeOK`;
- `Invariance`: `Spec => []IInv`, the inductive invariant;
- `Exclusion`: `Spec => []MutualExclusion`;
- `LockNeverWaits`: `Spec => []NeverSpins`;
- `Refinement`: `Spec => RingIsQueue`, that is, `Spec` implements `BoundedQueue`.

Mutual exclusion is not inductive. That nobody else is in the critical section
when a context masks everything follows from how the others got where they are:
a context that is not running was interrupted, which happened at a point where
the mask was below 7, and so not inside the masked part of a call. `IInv` says
that: whoever stands between masking and unmasking is the running context, the
mask is then 7, and the flag is held exactly between taking and dropping it. It
is preserved by `Interrupt` because no level is above 7, and by `Return` because
a handler returns from outside a call. `Unmask` may set any mask, as it is the
last step of the call. Given exclusion, the refinement is a matter of queue
arithmetic: lemmas say what the pointer steps do to `Contents` (append at the
write pointer, drop at the read pointer), each of the steps of a call maps to a
stutter, an effect or a response, and the QED step combines them.

The assumptions used are those named in `RingBuf` (`SizeAssumption`,
`LevelsAssumption`, `OpsAssumption`, `NoDataAssumption`), which TLC evaluates in
`ring`.

`FloppyProofs` proves first, of the conversions, for every geometry with positive numbers:

- `LbaBeyond`: an address behind the medium becomes -1 in every field;
- `ChsRoundTrip`: `chs_to_lba` undoes `lba_to_chs`, except that it refuses the last
  sector of every track (it compares with `>=`; nothing calls it);
- `HackIsMedium`: with two heads and an even number of cylinders the rearranged address
  is the sector with the linear address's number in the medium's own order. This is the
  fact a wrong halving or a swapped head would break.

They rest on division with remainder, of which the solver knows only the definition:
`DivMod`, `DivBound` and `DivNext` add the bounds, `Halves` the parity.

Then it proves of the driver, for every number of cylinders and sectors, every
length and number of reads, and any number of refusals and bad sectors, provided the
addresses asked for are on the medium (`OnDisk`; `floppy_range` shows what happens
otherwise):

- `TypesHold`: `Spec => []TypeOK`;
- `InterruptsAreOwn`: `Spec => []OwnInterrupt`;
- `ReadsAreRight`: `Spec => []ReadsRight`;
- `StaysAway`: `Spec => NoStrayDma`;
- `ReadsArePrepared`: `Spec => []Prepared`.

The invariant `IInv` has seven parts. `Types` bounds the records. `Control` ties the
command in progress to the operation it belongs to. `CallAsAsked` says that the arguments
in `fg` are those of the current call, its address rearranged and its length cut when the
read command is next. `Bus` says who may be waiting for whom: the controller carries
something out, or comes out of reset, only while the foreground waits, and what it carries
out is the foreground's command; hence an interrupt is always awaited and there is never a
second. `Transfer` says what is in the current read's buffer: nothing until its command has
been sent, then the sectors from the address asked for up to the one the controller is at,
with exactly the rest left in the channel. It needs `Bus`, since only a read command stores,
and `HackIsMedium`, since what is stored is what lies at the rearranged address. When the
channel is empty `Transfer` becomes what `ReadsRight` says of the call that returns. A bad
sector takes its read out of the invariant. The channel a failed read leaves running is
harmless because nothing stores before `ArmDma` has given it the next read's buffer; that is
`Armed` in `Transfer`, from which `StaysAway` follows.

The steps of the driver are grouped by what they have in common before they are gone
through one by one: `Ends` for a command that ends, `StepOn` for the next command of an
operation, `StepTowards` for the way into the next operation, `StepReturn` for a read that
returns, `StepFail` for the error paths.

`ReadsArePrepared` has an invariant of its own, `Drive`, because it is about what the
driver believes of the drive: `recalib_status` and `track[0]` are notes made when a command
was answered. `Stages` says which notes exist at which stage of `floppy_prepare`. `Noted`
says what they are worth as long as nothing has failed since the drive was calibrated: the
heads are on the track noted, except between the moment a seek has moved them and the moment
its SENSE_IRQ is answered, when they are on the track asked for; and the timing has been
specified, except on the way to it.

`DuartProofs` proves, for rings and FIFOs of every size and any number of bytes,
characters, reconfigurations and calls:

- `TypeCorrect`, `SentOnce`, `ReceivedInOrder`: `Spec => []TypeOK`, `[]TxOnce` and
  `[]RxInOrder`, for one channel and for two;
- `ByteIsFetched`, `ReceiverUnmasked`: `Spec => []TxWakeup` and `[]RxListens`, for one
  channel, which is what `main.c` uses. `duart_both` shows that the second fails of two.

The first three follow from `IInv`. Its part `Bytes` says that every byte written is in at
most one place (the ring, the hands of one of the two runs of the handler, the line) and the
two runs never hold the same one. `Chars` does the same for order: what was read, the ring,
the handler's character and the FIFO are one ascending row. It holds until the first
`write_byte`, since only that makes the foreground take characters in as well, and two takers
may swap them. The other two need `One`. `Wakes` goes through the places where the foreground
can be while the transmit interrupt is masked and says why no byte is stranded there: either the
foreground has yet to unmask it, or it is itself in the handler that `write_byte` calls and
about to fetch the byte. `Listens` says that whoever holds an old copy of the mask in a
register holds one with the receiver's bit, so storing it masks no receiver that is enabled.

`KeyboardProofs` proves, for a ring of every size, any keys, any number of them held together
and any calls:

- `Invariance`: `Spec => []Inv`, the inductive invariant;
- `TypeCorrect`, `CharactersAsTyped`, `LocksFollow`: `Spec => []TypeOK`, `[]KeysAsTyped` and
  `[]LocksAgree`;
- `ModifiersFollow`: `Spec => []ModifiersAgree`, for keyboards without a right control and a
  right alt key. With them the property is false, as the description of `Keyboard` says.

What `kbd_state` and the next character are now depends on all codes that are still on their
way, so the invariant cannot relate the driver's state to the typist's directly. `Arrives` does
it through the future: there is a run of `process_keystroke` over the codes in `kbbuf` and on the
wire, from where it stands, that ends between two sequences, having returned exactly the
characters typed, with flags that agree with the keys held down (`Agree`). Pressing a key
extends the run at its end, because the keys in `Agree` change just as the key's codes change the
flags (`AgreeDown`, `AgreeUp`, `ReadsDown`, `ReadsUp`). Reading a code takes the run's first step
off. A code that is dropped ends the promise (`lost`). The run is a function from the number of
codes read to states and not a recursive definition, so joining and cutting runs (`GoesThrough`,
`GoesOne`) needs no induction.

`Ps2ControllerProofs` proves, for any number of retries, any size of `i8042_flush`'s limit and
any number of keys, movements and faults:

- `Invariance`: `Spec => []IInv`, the inductive invariant;
- `TypeCorrect`, `Undisturbed`, `ResetsAreHonest`, `PacketsAreMovements`, `NoByteIsStuck`:
  `Spec => []TypeOK`, `[]CommandsUndisturbed`, `[]SuccessMeansReady`, `[]PacketsWhole` and
  `[]HandlerReturns`.

`IInv` has five parts. `Control` says where the foreground can be, with which counts. `Masks` is
about the two control bytes, `i8042_ctr` and the one in force in the controller: an interrupt is in
force only for a port that is started and open in `i8042_ctr`, none is while a command runs, and
while one is, a port that is shut in `i8042_ctr` is shut in the controller. From this follow
`Undisturbed` and `NoByteIsStuck`. `Sync` is about answers. `Stream` is what a port has yet to
say, from the byte in the buffer on. At every place of `ps2_command` it holds at most what is left
of the answers to the command in progress, in order; hence an acknowledgement that is read is this
command's, and after it the device did what it was told (`Obeyed`). The keyboard may have keys
behind that; the mouse says nothing unasked before the last command of its reset (`MouseOff`). A
reset marked `misled` is excepted. `Packets` continues this past the start-up: what is in the
packet under assembly and still to come from the mouse are whole movements, later than those
already handed out. This proof showed that the model had not restarted the counter of `i8042_flush`
at each call, as its loop does; the model was corrected.

`VgaProofs` proves, for screens of every size, all areas on them and calls with any arguments:

- `VgaIsTerminal`: `Spec => IsTerminal`, that is, `Vga` implements `Terminal`, call by call;
- `TypeCorrect`: `Spec => []TypeOK`: the cursor stays a number of 16 bits, and every cell it can
  reach holds a character and an attribute. No run checks it.

The lemmas at the beginning are about places: row and column determine the place and the place
them (`PlaceOf`, `PartsOf`), and a place behind the screen is in no row of it (`Below`). `ScrollMoves`
restates `vga_scroll_area` without its loop bounds: a cell outside the area stays, one inside takes
the cell *n* rows on if that is inside too, and is emptied otherwise. `ScrollShown` makes this the
abstract screen's scrolling, `NextRowStep` covers the three ways of going on in the next row (line
feed, tab, the last column), and one lemma for each call maps it to its abstract step.

`MmProofs` proves, for any number of blocks, any bound on the allocations alive and any sizes
asked for, provided those small enough for a chunk are all given one of the same level
(`OneLevel`; `heap_mixed` shows what happens otherwise):

- `Invariance`: `Spec => []Inv`, the inductive invariant;
- `TypeCorrect`, `NothingOverlaps`, `NothingIsLost`, `ChunksAreFull`: `Spec => []TypeOK`,
  `[]NoOverlap`, `[]NothingLeaks` and `[]ChunkIsFull`;
- `FreeIsHonest`: `Spec => FreeTellsSize`.

None of the four is inductive: that two allocations do not overlap says nothing about the flags by
which the next one is chosen. `Inv` says that the flags stand for the allocations in use
(`Owned`) and for nothing else (`Accounted`), and that every block is free, whole or divided. A
divided one has a `Tree`: at the level given out the flags are the chunks taken, above it a half
is divided when something is under it and full when all under it is. The lemmas go along the
recursion. A search below an entry that is not full finds a place, or everything there is taken
(`TakeSound`, `UpSound`, `AllocSound`); what it stores is a `Tree` again. A release clears one chunk and, upwards from it,
what no longer holds (`FreeHere`, `FreeUp`, `FreeSound`); the root is empty exactly when the
block has no chunk left (`EmptyTree`, `NothingTaken`). With one level the wrong index of line 67 does not
corrupt anything, for a reason the proof had to find: `Take` looks for the right half of entry
*i* in entry *i* / 2, and the search comes to *i* only when nothing is left to find in the
entries before it. So either both halves are full there, and the right half of *i* is passed over
although it is free, or the left one alone is, as it is in *i* by then, and the flags stored over
those of *i* are the same. The entries that never give out their right half are 1 and 4 to 7
(`Lame`): of the 16 chunks of 256 bytes in a block, 5 stay unused for good.

`FatProofs` proves, for any volumes that satisfy `VolumesAssumption`, any number of handles, any
sizes of sectors and entries, any blocks and offsets and any number of transfers that fail:

- `TypeCorrect`: `Spec => []TypeOK`;
- `KeepsFilePromise`: `Spec => FilesKeepPromise`, that is, the handles implement `FileApi`;
- `FindsByName`, `ListsEveryFile`: `Spec => OpensByName` and `Spec => []ListsDirectory`, on volumes
  without read-only, hidden and system files (`NothingHidden`; line 630 skips those).

What `fat.c` computes it computes in loops: along a chain of clusters, over the parts of a block,
over the blocks of a read. A first group of lemmas makes these loops available. `Induct` is
induction over the numbers for one set at a time (it follows from the least element of a set), and
`Recursion` and `Iterates` say that each recursive function exists and satisfies its equation.

A second group says what is on the disk. `Located` places every cluster of a chain on the medium,
and `EntryFollows`, `Bytes12` and `HopRight` say that what `fat.c` puts together from a FAT sector,
on a FAT12 from bytes of two of them, is the next cluster of the chain. `Followed` takes this along
the whole chain, provided the FAT's cache is what it claims to be (`Held`) and nothing fails.

A read is then followed from the inside out: `ChunkRight` for the part of a block in one cluster,
`ChunkKeeps` for the step to the next, `BlockKeeps` for a block, `ReadDone` for the call. With the
arithmetic of a seek in words without sign (`Wraps`, `Seeks`) each call maps to its abstract step or
to a stutter. A call in which a sector failed, or that met a cache a failure had left, keeps to the
part of the promise that is independent of the data: whole blocks, and where the file is after them.

`Types` is the inductive invariant behind all of it. Two more are about the calls that walk.
`WalkTurns` and `Scanned` say what one turn of the loop finds in a block. `Searching` says that no
entry passed over so far had the name looked for, and `Listing` that what was returned is what the
directory shows up to the iterator. Both are claimed as long as no sector failed in a call of the
walk; files read and moved in between do not matter, although they use the same caches. A block
without an end mark is walked for ever, as `fat_long` shows, so the theorems speak of the walks that
return.

The assumptions used are in every case the named ones of the modules, which the runs evaluate, and
those written in a theorem's statement.

Only model-checked: every liveness property (`CallsReturn` of both modules that have one,
`TxDrains`, `CharDelivered`, `WalkEnds`, `StartUpEnds`, `KeysArrive`), as the prover does not
handle fairness.

## Not modelled, and why

- `ringbuf8_lock`, `ringbuf8_unlock`, `ringbuf8_unpop`: no callers. The first two
  would hang (unlock locks again), the third corrupts a full ring.
- `fat_file_get_type` and the other getters of an entry: no state. The long-name
  code is not in the build.
- `main.c` goes on after a mount that failed; the program of `Fat` uses a volume only once
  a mount has succeeded. The loading loop belongs with program loading.
- The bytes `mm_realloc` copies, and where the heap lies in memory.
- Baud rates, parity and the other fields of the serial mode registers.
- The memory pool of the library: nothing calls it. `mpool_alloc` returns the last free
  slots when they are fewer than asked for.
- The floppy's write path, the tables of other media and commands to drives 1 to 3 other
  than a reset: no callers.
- The real-time clock: registers read one by one without a look at the update bit, with
  no state of the driver's own; a time read while the clock ticks over may be wrong.
- Program loading: `main` runs once from top to bottom. The last of the 51 reads of
  BOOT.BIN (line 148) asks for the wrong number of bytes.
- Graphics modes, fonts and palettes of the VGA: register tables.
- Formatting, the C library, the configuration utility, the monitor, the splash
  screen, register dumps, start-up assembly: sequential code without state shared
  between actors. One thing there concerns the heap: `crtbegin.S` line 30 pushes the
  arguments of `mm_init` in the wrong order, so that the heap starts at the constant
  524288 and has the address of `__heap_start` for its size; `Mm` starts from any heap.
- The examples. A BASIC interpreter from elsewhere, copied into `examples/basic`, is
  about two thirds of all lines in the repository; the C library, headers and register
  tables are most of the rest. What is left, the drivers, the file system, the heap and
  the primitives under them, is what the modules cover.
- The ATA driver identifies a disk and has no data path.

## Plan

In order, the most valuable first.

1. `RingBuf`, `BoundedQueue`, `Duart`, `Keyboard`, `Mm`, `Fat`, `FileApi`,
   `Ps2Controller`, `Floppy`, `Chs`, `Vga`, `Terminal` with their runs, and the proofs
   about all of them (done).
2. `Scu`: routing, in-service levels and the acknowledgements of every handler
   in `exception.c`; every level is released.
