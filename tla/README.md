# A verification model of the real-time computer emulator

The repository emulates a PC: an i386 processor that executes guest code, and the
devices around it, several of which run on threads of their own. These TLA+ modules
model the parts of it where those threads meet, and the processor itself, from the C++ in
`src/src` (and from the BIOS and the `small_os` sample in `src/src/bios`, `src/samples`,
which are the guests that exercise the devices). TLC checks them on small instances; TLAPS
proves the theorems of the `*Proofs` modules for every value of the constants.

## The system

| part | state it keeps | what changes it | threads |
|---|---|---|---|
| main loop (`main.cpp`) | `halt` | one clock cycle: poll interrupts, dispatch one, execute one instruction | CPU |
| interrupt system (`interrupts_system`) | queue of interrupt numbers | `chk_irq`, `queue_interrupt`, `hundle_interrupt` | CPU |
| interrupt controllers (`pic`, master and slave) | initialization words, `imr`, `irr`, `isr` | `poll_next_irq`, `get_next_intr_num`, writes to two ports | CPU |
| device requests (`device_interrupt_caller`) | `intr_req` | set by the device's thread, cleared by the poll | all |
| PS/2 controller, keyboard, mouse | status register, output buffer, 32 bytes of RAM, current command | port reads and writes; window callbacks | CPU, UI |
| floppy controller | command queue, data register with `sra.INT`, position of each drive, its image file | port reads and writes; the worker thread executing commands | CPU, worker |
| BIOS disk service (`disk.asm`) | registers, the sector buffer | `int 0x13` | guest |
| interval timer (`pit`) | mode, access mode, counts | port writes; one thread per started channel | CPU, timers |
| video adapter (`vga`, `crt`, `seq`, `gc`, `attr`, `dac`) | planes, index registers, `refresh` | port and memory writes; `need_refresh` and the drawing | CPU, UI |
| window | `ui_alive`, focus, the mouse | GLFW events, the draw loop | UI |
| paging, segmentation, tasks | the translation cache, segment caches | every memory access; `mov cr3` and far jumps | CPU |
| decoder, handlers, flags | registers | every instruction | CPU |

They interact by calls on the CPU thread (a guest `in` or `out` runs the device's
handler), and by shared fields without locks between threads: `intr_req`, the PS/2 status
byte, `sra.INT` and `curr_command`, `refresh`, `timer.def`. Only the floppy's command queue
has a mutex.

What is hard, and what makes each part correct:

* *Interrupts*: a request is polled, marked, queued, dispatched and acknowledged in five
  places. It must not be lost or served twice, no line may stay in service with nobody
  left to acknowledge it, and a sleeping processor must be woken.
* *PS/2*: both threads read, modify and write the same status byte, and neither may store
  an old copy of it over the other's bit; a read must start on one unread byte, and should
  return that one; no thread may wait for itself. The code does not always keep to this
  (`Ps2Overtaken`, `Ps2Stuck`, and the findings).
* *Floppy*: every byte crosses between two threads through one register; the position is
  kept twice. The sector read must be the sector asked for.
* *Timer*: a 16-bit period is written in two halves under one flip-flop while a thread
  uses it.
* *Display*: the flag is cleared before the drawing; the last write must reach the screen.
* *Paging*: the cache is never invalidated; a page is found by its number, in any table.
* *Interrupts and tasks inside the processor*: what an interrupt pushes, on which stack and
  how wide, `iret` must pop; what a task switch stores, the switch back must load.
* *Decoding*: a wrong length shifts everything after it.
* *Arithmetic*: flags at the limits of each width.

`PROJECT.json` lists the hazards one by one with the line each is at.

## Modules

| module | models | variables correspond to |
|---|---|---|
| `Pic` | one controller: operators on a record | `imr`, `irr`, `isr` as sets of lines, the words as bytes, `init_icw_cnt` |
| `Interrupts` | the cycle of `main.cpp`, both controllers, the queue, the guest's handlers | `que`, `halt`, `flagIF` by name; `frames` stands for the guest's stack of saved flags; `req` for `intr_req` |
| `Ps2` | controller, keyboard and mouse, two threads | `sr`, `outBuf`, `ram`, `curr`, `irq`; `pc`, `tmp` are the threads' places and registers; `label` is what the guest relies on, `put`, `got` and `overtaken` are history |
| `FloppyGeometry` | positions on a disk, `advance_pos`, the offset of `seek` | `floppy_driver_t` |
| `Fdd` | worker and disk service | `queue`, `int`, `dreg`, `msr`, `pos`, `image`, `filePos`; `cpc`, `bx`, `di`, `mem` for the guest |
| `Pit` | the timer's ports, its threads, its destructor | `rl`, `sc` for `cwr`, `rLobyte`, and `mode`, `count`, `def`, `running` of each channel; `wpc` is a thread's place; `turn` and `want` are what the guest believes and wants |
| `Flags` | flag updates and conditions as operators on words of `W` bits | `flags_reg` |
| `Alu` | the arithmetic instructions at each size, on an accumulator and an upper half | `reg`, `fl` by name; `cmp`, `chain`, `exact` remember what the registers and flags should still mean |
| `IoBus` | the ports that belong to the adapter | |
| `Vga` | the adapter: operators on its registers and planes, and the picture they mean | `mor`, register files by name |
| `Display` | the guest that draws, the window and its thread, start and end | `refresh`, `count`, `alive` (`ui_alive`), `planes`, the registers; `main`, `ui`, `cpc` are the threads' places, `image` the window's buffer; `dirty` and `last` are history |
| `Memory` | registers, segments, paging, RAM: operators on the machine | a record `m`: `gp`, `ip`, `fl`, `sel`, `cache` of segments, `dt` of tables, `cr`, `tlb` (the cached page entries), `a20`, `ram`, `halt`, and `fault` for the first exception |
| `Decode` | tables of opcodes, prefixes, operands | `x86_instr_t` |
| `Cpu` | the main loop with one action per handler | `m`; `instr` (`x86_instr_t`); `que`; `pc` is the place in the loop; `guest`, `irqs` the program and the device; `frames` and `left` are history |
| `DataChannel` | abstract: a one-place channel | refined by `Fdd` (`HandOff`) |
| `MC*` | constants for TLC | |
| `InterruptsProofs`, `Ps2Proofs`, `FddProofs`, `PitProofs`, `AluProofs`, `DisplayProofs`, `MemoryProofs`, `CpuProofs` | theorems | |

The grain of the steps is the code's: a step ends wherever another thread could observe
the difference. A cycle of the CPU is three steps in `Interrupts`, because within each a
device can only set its flag, and setting it in the middle has the effect of setting it
before or after. `Cpu` has the same three and the prefixes and repetitions of an
instruction one by one, with one device that raises its line. The status byte of `Ps2` is loaded and stored in two steps, because the
build does not optimize and a bit-field assignment is a load and a store. The hand-off of
`Fdd` separates loading the byte from clearing the bit, and storing it from setting it. A
store to video memory in `Display` is a step for each plane and one for the flag; the
window's thread takes one for each decision and for each byte it reads.

Operators whose comment starts with *Slip* (`TakeRequestNoAeoi`, `CanWriteAlways`, ...) are
not part of any specification. Each is a plausible mistake in the definition it stands
before; putting it in that definition's place makes a run fail, which shows that the
property has something to say about the code.

### Abstractions

* A guest is constrained only where it must be to mean something. In `Interrupts` it boots
  with one of the shipped initializations, then does `cli`, `sti`, `hlt`, `int n` as it
  likes; a handler runs at least one instruction before `iret`. It halts only with
  interrupts on and outside handlers. Reading the mask register and writing it back, in
  the boot scripts, is one write of the resulting value.
* A hardware interrupt's descriptor checks, stack and address are not in `Interrupts`; what
  is kept is the flag that gates set and `iret` restores.
* A scancode is its number in the order of sending, so that two bytes differ.
* `Ps2` has a guest that sets the controller up with interrupts off and then reads one
  byte in each handler, as the sample's `irq_keyboard` and `irq_mouse` do. The interrupt
  controllers between them are left out: a request is delivered at any later time.
* `Fdd` has a disk in drive 0. The BIOS does not initialize the interrupt controllers
  (`call init_pic` is commented out in `startup.asm`), so the interrupt request of the
  controller has no effect there. `DRV_BSY` and the registers nothing reads are left out.
* `Pit` has 16-bit counts as pairs of bytes. Its guest selects a channel and an access
  mode and then uses that channel, because the code has one flip-flop for all of them; it
  gives up a half-written count only with a new command, and does not select channel 3,
  which indexes past the array (`pit.cpp:109`). The byte a read returns is not kept. In
  modes without ticks, a thread's short sleep is part of its next test. Closing the window
  leads straight to the destructor.
* `Alu` has words of one width for the three operand sizes: where the handlers of two
  sizes differ, they are told apart by `size`, and what the width itself does is a matter
  of `W`. An operand that is not a register is any word. Its guest shifts by more than
  nothing and by less than the size; other counts are undefined in C++, and so is a product
  of signed 32-bit numbers that does not fit, which the build may cut or not. Left out:
  parity, the stack, string moves, conversions between sizes, `imul` of two 32-bit
  registers. `cmp` is forgotten by instructions that change the flags for a reason of
  their own, `chain` by any that is not the next half of the same addition. A half that
  loses the carry, because its immediate is all ones and the carry is set, stays in `chain`,
  marked `ones`.
* `Display` has planes, characters and colours of a few values. Its guest is a sequence
  of port and memory accesses: `vga_configure` and then a program. It selects registers
  that exist. A pixel is handed to the graphics library with the picture. `stop_ui`, which
  main calls for a C++ exception that is not one of the processor's, is left out.
* `Cpu` runs guests given as bytes, each of which its author can say the end of. A word of
  32 bits keeps its lower 24 (bit 31 of `cr0` is bit 23), a page has 32 bytes and a table 8
  entries: sizes are parameters of `Memory`. A guest changes no page entry after its
  first use. The device raises its line at any moment, as often as the guest says, and
  whenever the processor is asleep. Ports answer all bytes of a wide access alike.
* The handlers that `Alu` models are not repeated in `Cpu`, except addition, subtraction and
  comparison: it leaves out shifts, products, divisions, logic, `setcc`, `cwd`, and the
  conditions on parity. Not in either: `imul` of two 32-bit registers or of an immediate,
  `xchg` with `ax`, shifts by zero. Those are decoded and no handler takes them.
* Where C++ leaves the order of arguments open (`select_segment` and `calc_modrm`), the
  model has the order of the build's compiler, from the right.
* Ending the emulator (`DEBUG_ERROR`) is a place no step leaves.

## Runs

| run | expects | shows | bounds |
|---|---|---|---|
| `IntGates` | pass | interrupt gates: in-service register, EOIs, no lost request, the top line served | the machine's wiring (lines 0, 1, 6, slave on 2, mouse on 4), both initializations, at most 4 interrupts nested and queued when a device raises |
| `IntNested` | pass | trap gates or real mode: no stuck line, nothing left marked | nesting up to 3, manual EOI |
| `IntLost` | violation of `PollMarksLine` | a request lost with nested handlers | as `IntNested` |
| `Ps2Quiet` | pass | if the user is quiet during the set-up: a read starts on one unread byte and returns it, or the one stored meanwhile; the controller expects what the guest sends; no old copy of the status byte is stored; callbacks end and bytes are answered | 5 bytes sent, 4 set-up programs covering every command |
| `Ps2Overtaken` | violation of `EachByteOnce` | a byte is lost and the next one read twice, if that is stored between the two statements of `read_out_buff` | 3 bytes, the sample's set-up, a quiet user |
| `Ps2Stuck` | violation of `CpuNeverStuck` | a key during the set-up blocks the CPU thread | 2 bytes, the sample's set-up |
| `FddBios` | pass | sectors, positions, hand-off, completion | 2 tracks, 2 heads, 2 sectors of 4 bytes; 9 guest programs with every command, a change of track, head and sector in both directions, an invalid sector, a missing disk |
| `FddSigned` | violation of `WholeSector` | signed comparison of addresses | as `FddBios`, words of 6 bits |
| `PitPrograms` | pass | the period is the one written, at most one stale tick, requests continue, the destructor ends | 2 channels, bytes of two values, modes 0 and 2, latch, high byte and low/high access, any order of accesses |
| `DisplayRefresh` | pass | a byte written is on the screen in the end; the four address computations agree; nothing ends the process after the set-up | planes of 8 bytes, 2 by 4 pixels; text with scrolling, a change to graphics, a change of the palette; the window may be closed at any time |
| `CpuGuests` | pass | handlers give back the context they interrupted, tasks theirs; the decoder never loses its step; cached pages are current and stay as they are; every guest ends with the registers it should | four guests that between them fire every handler modelled: real mode, paging, two tasks, ring 3; one device interrupt at any instruction |
| `AluWords` | pass | conditions after comparisons, additions by halves (with the case that loses the carry told apart), products and quotients | words of 3 bits, every value, every instruction at every size |

The bounds are enough for the cases that matter: three nested interrupts are what it takes
to have one in service, one refused and one accepted; five bytes are a key and a packet
with one more behind it; two of each level of the disk make every level wrap. Two
timer channels are one that is accessed and one whose half-done access it disturbs. Two
pixels a line and two lines make a cell, its neighbour, and a row to scroll into.

A guest of `CpuGuests` is a test of the handlers, and what the run adds to it is the interrupt
before every one of its instructions, the returns it must survive, and the decoder's step,
the cache and the widths in every state in between. The guests use what the repository's own
do (`startup.asm`, `small_os/os.asm`), and what the code offers besides: two pages
on one frame, an entry added to a table in use, an expand-down segment, far calls through
memory, a local descriptor table, a task entered by a jump and left by `iret` with NT,
ring 3 with interrupts of both kinds of gate.

Words of three bits have a sign bit, a bit below it that is
not the lowest, and a shift that is neither by one nor to the end; the proofs lift the
width.

Deadlock is checked in the interrupt runs and in `CpuGuests`, where the CPU never stops. It is
not in `DisplayRefresh` (the user may close the window), in the
`Ps2` runs (the user may stop typing) nor in the `Fdd` runs (the guest's program ends, and
an invalid position ends the emulator), nor in `PitPrograms` (it ends with the
destructor) nor in `AluWords` (a division by zero ends the emulator).

### Fairness

* `Interrupts`: weak fairness of the CPU thread's step. Its loop has no other exit than the
  closing of the window. Devices owe nothing.
* `Ps2`: weak fairness of the CPU thread and of a callback that has been entered. No
  fairness for the user.
* `Fdd`: weak fairness of the worker and of the CPU thread: both loop for ever.
* `Display`: weak fairness of the CPU's thread and of the window's: neither waits for a lock.
  None for the user, who may close the window or not.
* `Cpu`: the main loop is a loop without an exit, so that it always takes another step. The
  device's interrupt is strongly fair: a timer interrupts for ever, and a guest that
  sleeps with interrupts on is woken. Since no state is a deadlock, `[]<><<Next>>_vars` is weak
  fairness of `Next` and spares TLC the computation of `ENABLED`.
* `Pit`: weak fairness of each channel's thread (its loop runs until `running` is cleared
  and every sleep ends), of the CPU's poll and of the destructor's steps. None for the
  guest's accesses or the closing of the window.

### Findings

* `poll_next_irq` consumes a device's request before it decides to refuse it (`IntLost`).
* `write_out_buff` called from the CPU thread waits for the CPU thread (`Ps2Stuck`).
* `read_out_buff` marks the buffer empty before it fetches the byte: the window's thread
  can store the next one in between, which is then read in place of the first, and again by the
  handler of its own interrupt (`Ps2Overtaken`).
* `disk.asm` compares addresses with `jl` (`FddSigned`).
* Read in `pit` without a run of their own: reading a low byte returns the high one
  (`pit.cpp:37`); a read after a latch command returns 0; mode 6 is documented as mode 2
  (`pit.hpp:31`) but its thread never ticks.
* Read in the PS/2 controller, and what `Ps2Quiet` assumes away: `OBF` and `ST6` are fields of
  one byte (`ps2_controller.cpp:71`, `:121`), so that the window's thread, marking the buffer
  full in a copy it loaded earlier, undoes the `ST6` of a command under way, and its second
  byte is taken for the first of another. With `QuietInit` FALSE `InSync` fails, in this way
  among others.
* Read in the handlers, modelled as they are: `adc` and `sbb` add the carry to an immediate
  before the flags are computed (`instr_handlers.cpp:573`), so that ones and a carry are nothing
  and the carry out is lost, which `ChainExact` states as its exception; at 16 bits `and` and `test` set the flags of
  an addition (`instr_handlers.cpp:1550`); `xor`, `sal` and `sar` set none; `setcc` writes
  the 32-bit register; `inc` and `dec` change the carry; an addition that comes to 2^W is not zero; `mul` puts one bit of the upper
  half in the carry; the 32-bit products lose their upper half.
* Read in the processor, modelled as they are:
  * *Interrupts.* Entering a handler from ring 3 loads and uses the inner stack before CS
    changes (`cpu_i386.cpp:400`), so its descriptor must let ring 3 in. NT is not
    cleared. An interrupt accepted while `hlt` executes is dispatched, and the processor
    still sleeps until another.
  * *Returns.* `iret` with NT pops three words before it stores the task, and then sets CS to
    the one it popped (`instr_handlers.cpp:64`). A far call outward pushes ESP after SS, so
    the return leaves ESP four too low. Far calls and returns are of 32 bits
    always.
  * *Tasks.* Segments are loaded before the LDTR (`helper_funcs.cpp:352`), so a task that was
    left with a segment of its local table cannot go on. Neither a task switch nor
    `mov cr3` drops the cached pages. An entry that is not present is cached too. The number of a
    control register is compared with the bytes of an array of pointers
    (`control_reg.hpp:81`): `CpuTypes` covers a guest that names one of 5 to 7.
  * *Accesses.* Only the first byte of an access is checked and translated; the range of RAM
    is checked for four bytes whatever the size (`ram.hpp:42`). A scaled index drops ESP as
    a base and counts it as an index. Offsets of 16 bits do not wrap. Far pointers and
    tables of 16 bits are read at the bare offset, without a segment.
  * *Decoding.* The prefix of CS acts as that of SS (`instr_decoder.cpp:19`). A 16-bit
    displacement is read with four bytes. `xchg` with `ax` has an immediate in the tables.
    Conditional jumps of 16 bits move the whole of EIP. Wide ports in an immediate are
    extended by the sign.
  * *Strings.* The count is decremented before it is tested; comparisons step by one at
    every size and read ES for both operands unless told otherwise; `rep movsw` stops when
    ZF is set.
* Read in the adapter: writes to ports, palette and registers do not ask for a redraw; the
  font is stored before the CRT is programmed, and a redraw then divides by zero
  (`vga.cpp:62`); `refresh` and `ui_alive` are not initialized; the check of an index compares
  it with a size in bytes; reads in graphics mode return plane 0; with `REFRESH_RATE` above 1
  the last writes would not be drawn.
* Read in the floppy driver: `seek` is relative and the position is believed, not asked for: a
  read past the end of an image shorter than the disk moves the believed position and not the
  file, and shifts all later transfers (`floppy_disk_driver.cpp:141`). A transfer that reaches the last byte of the disk leaves the
  driver at the first sector and the file at its end (`floppy_disk_driver.cpp:115`), so that the
  next seek lands a disk's size behind; `FddProofs` assumes a guest that does not.

## Proofs

In `InterruptsProofs`, `TypeOK` is inductive as it stands, from the named assumptions on
the constants. `IrrConsumed` (the master's request register is empty between polls) holds
because the poll marks at most one line and the same step takes it; it is inductive together
with `TypeOK`. `HaltWakeable` is not: a step of the queue could set up a state where the next
one breaks it. `HaltInv` strengthens it with two facts about the cycle: a halted processor is
at the poll or at the exit from `chk_irq`, never at an instruction, and outside handlers the
queue is empty between cycles. `HaltSafe` follows from it.

The other five theorems are of a *well-formed guest* (`WellFormed`, a condition on the
constants). Its initialization takes no interrupt before it has ended and leaves the two
controllers told how they are wired, each device with a number of its own that is not
`SLAVE_INTR`. A handler acknowledges its line once on each controller it came through, and
sends no other command. That is what the shipped initializations and handlers do; a guest
that does not acknowledge, or does it twice, has no right to the properties. What an
initialization leaves behind is the end of a labelling of its instructions (`Boots`), so
that nothing is recursive. `MCInterrupts` gives the labellings for both shipped programs,
and TLC evaluates the condition in every run of the module (`MCWellFormed`).

* `GuestInv` says that the rest of the initialization can still be labelled from the state
  it is in (`BootInv`), that the set-up holds once it has ended (`SetUpInv`), which lines can
  be marked (`LineInv`), and for each queued interrupt and each frame whose number it has
  and what its handler has still to send (`WorkInv`). `VectorsSafe` follows from it alone:
  the number of the slave's device is found after `SLAVE_INTR` because the master's cascade
  line is the only one that names the slave.
* `StuckSafe` holds however handlers nest, if all EOIs are non-specific (`NonSpecific`; the
  shipped handlers' are): an EOI then clears *some* line, and the number of lines in service never
  exceeds that of the EOIs owed by the queue and by the frames (`QueueOwed`, `FramesOwed`).
* `IsrSafe`, `EoiSafe` and `RequestsSafe` hold if all gates clear IF. `GateInv` says why:
  interrupts are off from the acceptance of a hardware interrupt until the return of the
  handler that owes its EOI (`OffInv`), so at most one is queued, behind at most one `int n`
  (`QueueInv`), and none is when a handler owes an EOI (`OwingInv`). With at most one line in service on a
  controller, the first line is the handler's own, and a poll never meets a line in service
  that would make it drop a request. `IntLost` is what happens without the assumption.

`Ps2Proofs` proves `TypeOK` for any set-up and any user. `ReadsSafe` and `SyncSafe` assume a user
who is quiet during the set-up (`QuietInit`; `Ps2Stuck` shows why) and a *well-formed*
set-up: it reads when there is a byte for it, has the controller fill the buffer when there
is none, sends the second byte of each command, and enables interrupts last. `Labels`
states that with a label for each access, as above, and TLC evaluates it for all the programs of
`Ps2Quiet`. `ReadsSafe`: a read starts when one byte is in the buffer that no read has
returned or started on, and returns that byte, unless the window's thread stores another one
before the second statement of `read_out_buff`; then it returns the other, and the next read
does so again. `SyncSafe`: before each access of the set-up, and ever after it, the
controller expects the second byte of the command the guest has begun and of no other, and
has the configuration byte the guest gave it; during the set-up the buffer and the requests
hold what the next access relies on; and the copy of the status byte a thread has loaded is
the status byte when it stores it. The invariant has three parts. `TurnInv`: whose turn it is
at the unlocked buffer: a thread that has seen it empty keeps it until it has stored and raised
its line, because the other can only empty it once the line is up. `BufferInv` counts: bytes
written, with the one whose mark is set, are bytes read, with the one whose mark is gone, and
the one in the buffer; and it says which byte each read has returned or will return, from the
record of those that were `overtaken`. `ScriptInv`: the controller is where `label` says.

`FddProofs` begins with arithmetic: that positions map into the disk, that `advance_pos` is
the successor modulo the disk's size, that the offset of `seek` is a difference of positions.
The products of three constants are not linear, so they are named and moved by lemmas.
Then it proves `TypeOK` for every geometry the bit fields allow, and then all that `FddBios`
checks but completion, for every disk, image and interleaving, and every
*well-formed guest*. `HandOffImplemented` and `SeekExact` come first and ask for no
well-formed guest: each shows what follows from another property of the run, for any
program, and a short image shows why that property must be asked for. The others state
no more than they need of four conditions on the programs (`Fdd.tla`); TLC evaluates them
for the programs of `MCFdd`, of which two never have the worker seek:

* `BuffersFit`: a sector of the disk is as long as a transfer of the service's size code,
  no request is of zero sectors, and no buffer crosses the middle of the segment, where
  `jl` takes the end for a place behind the index (`FddSigned`).
* `SeeksImplied`: the guest configures the worker to seek first, as the BIOS does, and
  never the other way round. Without it a transfer starts where the last one ended.
* `InsideImage`: the image holds the whole disk (see the findings), and no transfer reaches the
  disk's last byte. After that byte `advance_pos` believes the head to be at the first
  (`AdvanceIsNextByte`), the file is at its end, and the next seek is off by the size of the disk.
* `WholeTracks`: a track is asked for by its first sector, one at a time.

The invariant, `FddInv`, is built in layers, each inductive relative to those before it:

* `PlaceInv` relates the service's loops to its index: what is left of a sector is the
  distance of two signed words, and the buffers of the sectors to come still fit.
  `WholeSectorSafe` follows.
* `ProtocolInv` says what is under way between the threads: nothing (`Quiet`), a
  command of which some bytes are in the queue and some in the worker's hand
  (`Waiting`), or a transfer (`Serving`), in which the bytes the guest still expects are
  those the worker still owes and the one in the register. The queue is described as a
  word over whole commands (`Whole`), labelled as the boot scripts are, so that nothing
  is recursive. `OverwriteSafe` and `HandOffSafe` follow: between transfers nothing is in
  the register, and only then can the worker meet a command it does not know.
* `SeekingInv` and `PositionInv` place the head: between commands the file is at the start
  of the sector the driver believes in; during a transfer it is where the driver
  believes, as far behind the start of the sector asked for as bytes were moved, and
  inside the disk. `PositionSafe` and `SeekSafe` follow.
* `DiskInv` relates the image to the disk as the guest wrote it. They agree but for a window of
  `Pending` bytes before `Edge`, the next byte the guest will write, and those bytes are the last of
  the queue, in order (`Holds`). Each write moves the window's upper end, each `fwrite` its lower one.
  `WriteSafe` follows, because the status of a write is complete only when the window is
  empty.
* `MemInv` follows a byte that is read: on the disk at the place the worker has reached,
  in its hand, in the register, and in the guest's buffer at the place it belongs.
  `SectorSafe` follows, with `ExitInv`: a bad position ends the emulator before the
  guest has its first byte.

`PitProofs` proves `TypeOK` for any number of channels and any bytes, and that the period
of a channel is at every moment the one the guest wrote (`PeriodAsWritten`). Alone that is
not inductive: a latch copies the count over the period, and a write lands in the half the
flip-flop selects. `PeriodInv` adds that the count is the period too, and that once a
channel is selected for low/high access the flip-flop is in step with the guest's turn.
`StaleSafe` needs to know that a thread which has ticked once with old values has read both
again, so that what it holds is what the channel asks for (`UpToDate`). `DestructorSafe`: the
channels behind the one the destructor waits for have no thread, and a thread it waits
for has been told to end.

`AluProofs` lifts `AluWords` to words of any number of bits. `CutOnce` says what `%` does
to a number at most one word off, and everything about carries, borrows and signs follows
from it. `SubTells` is the heart of `Comparisons`: after a subtraction the carry orders the
operands as unsigned and sign against overflow orders them as signed. `Chains` needs the
products of a word and the modulus distributed by hand (`LowerHalf`, `UpperSum`,
`UpperDifference`). It does not say that no carry is lost: where the upper half met an immediate of
ones and a carry, what is beyond the registers is one, and the flag is clear. That case is
`OnesNothing` (the half changes nothing) and `OnesSum` (it should have come to one).
`MulDiv` shows that a product's upper half is a word (`ProductFits`, `SignedProductFits`)
and that the division rounds towards zero (`RoundsToZero`). The three properties are
inductive with `TypeOK` (`ChainExact` once it is said that only an upper half is marked
`ones`, `ChainInv`), because each element of the history is made in one step and
forgotten by any step that could falsify it.

`DisplayProofs` proves that no write is missed (`WritesReachTheScreen`) for any memory, any
guest and any interleaving. Alone `NothingMissed` is not inductive: the picture may be right by
accident. `DisplayInv` says instead what is owed: while the flag is down and no store is
on its way, each pixel drawn in this round was computed from what is in memory now;
the steps that break this either raise the flag in the same breath (`cpc`) or are recorded by
`dirty`. `WindowEndsFirst` is the order of the end: main destroys the adapter only after the
window's thread has done its last step, also when `ui_alive` happens to be set at power-up.
`DisplayTypes` is the range of every value: `TypeOK` leaves open where the window reads
the attribute of a cell, so `TypeInv` adds that it is the place of the character, already
found to be inside the plane (the registers it came from may have changed since). The font
may be read anywhere: the index made of it is a half of the attribute whatever it holds.
`ShownAsWritten` is `AsWritten` for any guest. `StoredInv` also speaks of the moments
between two planes of one byte: a place a byte is on its way to (`Held`) need not hold it
yet, any other holds what was last written to its address. That is inductive because a byte
of the text or the graphics set-up goes to one place (`TextStores`, `GraphicsStores`) and two
addresses of the area never share one (`TextPlacesDiffer`, `GraphicsPlacesDiffer`). The
proof needs the register that selects the plane of a read to be 0 or 1 in the text set-up:
the guests leave it at 0, and one that does not reads back other bytes than it wrote.

`MemoryProofs` is about the operators of `Memory`, for any state of the processor's registers,
segments, cache and RAM. `TranslationsStay`: an access drops and replaces no cached
translation, and the one it may add is the table's entry of that moment; whether a
translation is still current depends on nothing but what the guest does to its tables.
`PushedIsPopped`: what a push leaves, the pop of the same size takes away, stack pointer and
all. The pointer's arithmetic is undone at both sizes (`Pointer`, `LowerPointer`), bytes
add up to their word (`RamHolds`), and the pop reads where the push wrote because the
push has cached the page (`Translated`, `PhysicalStays`), so that it does so even where
the word went into the page table itself. It assumes that neither raises an exception
and that the word lies in RAM. The module also says of each access and each instruction's
operator what machine it leaves: `Holding(T)` are the machines of the right type that hold at
least the translations `T`, and every operator maps it to itself. Types and kept
translations are thus one argument, not two.

`CpuProofs` proves two properties of every guest, whatever its bytes, tables and device do;
of the constants it needs no more than their types (`SizeAssumption`, `GuestsAssumption`).

* `CpuTypes`: `TypeOK` is not inductive, because it leaves `instr` open, and an instruction
  whose operand or size is not one the decoder produces would index a register that is
  not there. `Typed` adds that the instruction is one of `Instruction`, which binds opcode
  and size to the handlers that rely on them, that nothing has a handler before it is
  decoded, and that the queue holds interrupts that exist. There is a lemma for each group of handlers (`MovesKeep`,
  `StackKeeps`, `TransfersKeep`, `SystemKeeps`, `StringsKeep`), and one for the places of the
  loop (`LoopKeeps`).
* `CpuTranslations`: no step drops or replaces a cached translation (`TranslationsKept`), not
  a load of `cr3`, a change of tasks or an exception half-way either. This is why a
  guest must leave its tables alone after their first use (`TranslationCurrent`). It falls out of the same lemmas, with `T` the translations before the step.
* `InterruptReturns`: in real mode, `iret` gives back every register, segment, flag and the
  instruction pointer that an interrupt found, and raises nothing. Its assumptions are on
  the moment of the interrupt: the three words of the stack lie in RAM; and on the handler
  (`Handled`): it gives back the registers and the segments it used, leaves `cr0`, the A20 gate and the
  three words alone, and raises nothing. It may change `cs`, the lower halves of `eip` and
  the flags, and the rest of memory. The words are two or
  four bytes apart modulo 2^16, so they do not overlap (`Apart`), though `sp` may wrap and the A20 gate
  may fold their addresses; each push keeps those before it (`OtherWord`), and each pop finds
  its own (`ThreePopped`). This is `ContextRestored` of the run, for one interrupt, any
  size of the machine and any state of the stack.

Model-checked only: everything about liveness (`TopServed`, `UiNeverStuck`,
`EveryByteAnswered`, `GuestDone`, `RequestsContinue`, `DestructorEnds`, `EventuallyShown`,
`GuestFinishes`), which this prover does not reach; that nothing faults after the set-up
(`OnlyBootFaults`), which is true of `vga_configure` and not of every guest; and of `Cpu`, `InStep`,
`TranslationCurrent` and `ContextRestored`, which are of programs given byte by byte, with a guest that
keeps its tables and its stack in order.

## Not modelled, and what is left of the plan

In the order in which it would be worth doing:

1. `InterruptReturns` in protected mode. It needs that no two words of the stack are in
   one place of RAM, which paging does not ensure, and the descriptors of both stacks.
2. `Ps2` with `Interrupts`, so that a lost request is seen by the keyboard.
3. `Fdd` for a guest that initializes the controllers, where the handler of its line would
   read the data register against `disk.asm`; the unlocked test of the queue's emptiness,
   which is atomic in `Fdd`.
4. The rest of the instructions: those that no module executes are listed under
   Abstractions.
5. A second initialization of `Pic`, and the read-back and fourth channel of `Pit`.

Not planned: drawing by the library, file loading, the terminal, fonts, the BIOS keyboard
service (its body is a stub) and the sample programs that only draw text.
