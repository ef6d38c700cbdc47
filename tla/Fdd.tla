---------------------------------- MODULE Fdd ----------------------------------
(***************************************************************************)
(* The floppy disk controller (floppy_disk_driver.cpp): its worker thread, *)
(* and the CPU thread running the BIOS disk service (bios/disk/disk.asm).  *)
(*                                                                         *)
(* The CPU enqueues the bytes of a command; the worker dequeues and        *)
(* executes it, and hands every data and status byte back through one      *)
(* register, curr_command, guarded by the bit sra.INT.  The PIC is not yet *)
(* initialized when the BIOS reads the disk (init_pic is not called), so   *)
(* the controller's interrupt requests have no effect.                     *)
(*                                                                         *)
(* A disk in drive 0, none in the others.                                  *)
(***************************************************************************)
EXTENDS FloppyGeometry, Sequences

CONSTANTS
  Unit,          \* bytes transferred for size code 0 (128)
  Half,          \* a word of the guest: 0..(2 * Half - 1) (0x8000)
  Image,         \* the bytes of the image file
  Programs,      \* the requests of the guest: sequences of Request
  InitProgress   \* what the progress field may hold when a disk is inserted

Byte == 0..255
Word == 0..(2 * Half - 1)
SizeCode == 2

\* al, dl, ch, dh, cl and bx of the service; eis is an argument of configure.
Request ==
  [op : {"configure", "unknown", "read", "write", "track"}, count : Byte, slot : 0..3,
   track : Byte, head : Byte, sector : Byte, addr : Word, eis : BOOLEAN]

\* The bounds on the geometry are the widths of the bit fields of floppy_driver_t.
ASSUME FddAssumption ==
  /\ NoTracks <= 128 /\ NoHeads <= 2 /\ NoSectors <= 31
  /\ Unit \in Nat \ {0} /\ Half \in Nat \ {0}
  /\ Image \in Seq(Byte)
  /\ Programs \in SUBSET Seq(Request)
  /\ InitProgress \in SUBSET Nat

VARIABLES
  image, filePos,        \* the file of drive 0 and its position
  pos,                   \* where the driver believes its head to be
  eis,                   \* conf.EIS: commands seek before they transfer
  msr,                   \* main status register
  int, dreg,             \* sra.INT and curr_command
  queue,                 \* command_q
  intrReq,               \* intr_req
  wpc, cmd, left, out,   \* the worker: command bytes, bytes to transfer, byte in hand
  cpc, program, req,     \* the CPU: its place, requests to come, current request
  toSend, al, bx, di, mem,
  disk,                  \* history: the disk's contents as the guest wrote them
  sent, received         \* history: bytes handed over through curr_command

worker == <<wpc, cmd, left, out, image, filePos, pos, eis, msr, intrReq>>
cpu == <<cpc, program, req, toSend, al, bx, di, mem, disk>>
vars == <<worker, cpu, int, dreg, queue, sent, received>>

NoStatus == 7          \* status bytes after each transfer
Commands == {2, 5, 6, 19}

\* As Position, but insert_disk leaves progress unset.
DrivePosition ==
  [track : 0..(NoTracks - 1), head : 0..(NoHeads - 1), sector : 1..NoSectors,
   progress : Nat]

TypeOK ==
  /\ image \in Seq(Byte) /\ filePos \in Nat
  /\ pos \in DrivePosition
  /\ eis \in BOOLEAN /\ msr \in [RQM : BOOLEAN, DIO : BOOLEAN, CMD_BSY : BOOLEAN]
  /\ int \in BOOLEAN /\ dreg \in Byte /\ queue \in Seq(Byte) /\ intrReq \in BOOLEAN
  /\ wpc \in {"idle", "args", "seek", "transfer", "store", "raise", "exit"}
  /\ cmd \in Seq(Byte) /\ left \in Int /\ out \in Byte
  /\ cpc \in {"next", "send", "busy", "read", "write", "status"}
  /\ program \in Seq(Request) /\ req \in Request
  /\ toSend \in Seq(Byte)
  /\ al \in {<<>>} \cup {<<v>> : v \in Byte}
  /\ bx \in Word /\ di \in Word /\ mem \in [Word -> Byte]
  /\ disk \in [0..(DiskSize - 1) -> Byte]
  /\ sent \in Seq(Byte) /\ received \in Seq(Byte)

\* The contents of the disk: an image shorter than the disk reads as zeros.
Contents(file) == [o \in 0..(DiskSize - 1) |-> IF o < Len(file) THEN file[o + 1] ELSE 0]

Idle == [op |-> "unknown", count |-> 1, slot |-> 0, track |-> 0, head |-> 0,
         sector |-> 1, addr |-> 0, eis |-> FALSE]

\* The constructor and insert_disk, which leaves progress unset.
Init ==
  /\ image = Image /\ filePos = 0
  /\ \E p \in InitProgress : pos = [track |-> 0, head |-> 0, sector |-> 1, progress |-> p]
  /\ eis = FALSE
  /\ msr = [RQM |-> FALSE, DIO |-> FALSE, CMD_BSY |-> FALSE]
  /\ int = FALSE /\ dreg = 0 /\ queue = <<>> /\ intrReq = FALSE
  /\ wpc = "idle" /\ cmd = <<>> /\ left = 0 /\ out = 0
  /\ cpc = "next" /\ program \in Programs /\ req = Idle
  /\ toSend = <<>> /\ al = <<>> /\ bx = 0 /\ di = 0
  /\ mem = [a \in Word |-> (128 + a) % 256]
  /\ disk = Contents(Image)
  /\ sent = <<>> /\ received = <<>>

-----------------------------------------------------------------------------
(* The worker thread.                                                       *)

Slot == cmd[2] % 4

\* Slip: one argument too many expected.
ArgumentsNine(c) == IF c = 19 THEN 3 ELSE 9

\* sizeof cmd, after the command byte.
Arguments(c) == IF c = 19 THEN 3 ELSE 8

\* An unknown command only overwrites curr_command.
DequeueCommand ==
  /\ wpc = "idle" /\ queue # <<>>
  /\ queue' = Tail(queue)
  /\ LET c == Head(queue)
     IN  \/ /\ c \notin Commands
            /\ dreg' = 128
            /\ UNCHANGED worker
         \/ /\ c \in Commands
            /\ msr' = IF c = 19 THEN [msr EXCEPT !.CMD_BSY = TRUE]
                      ELSE [RQM |-> TRUE, DIO |-> c = 5, CMD_BSY |-> TRUE]
            /\ cmd' = <<c>>
            /\ wpc' = "args"
            /\ UNCHANGED <<dreg, left, out, image, filePos, pos, eis, intrReq>>
  /\ UNCHANGED <<int, sent, received, cpu>>

DequeueArgument ==
  /\ wpc = "args" /\ queue # <<>>
  /\ queue' = Tail(queue)
  /\ cmd' = Append(cmd, Head(queue))
  /\ wpc' = IF Len(cmd) = Arguments(cmd[1]) THEN "seek" ELSE "args"
  /\ UNCHANGED <<left, out, image, filePos, pos, eis, msr, intrReq, int, dreg,
                 sent, received, cpu>>

\* fdd_configure sets EIS, bit 6 of its second argument.
Configure ==
  /\ wpc = "seek" /\ cmd[1] = 19
  /\ eis' = ((cmd[3] \div 64) % 2 = 1)
  /\ msr' = [msr EXCEPT !.CMD_BSY = FALSE]
  /\ wpc' = "idle"
  /\ UNCHANGED <<cmd, left, out, image, filePos, pos, intrReq, int, dreg, queue,
                 sent, received, cpu>>

TargetSector == IF cmd[1] = 2 THEN 1 ELSE cmd[5]

\* Slip: one byte too many.
TransferSizeOneMore == (2^cmd[6]) * Unit * (IF cmd[1] = 2 THEN NoSectors ELSE 1) + 1

TransferSize == (2^cmd[6]) * Unit * (IF cmd[1] = 2 THEN NoSectors ELSE 1)

\* Slip: SEEK_SET for SEEK_CUR.
MovedTo(offset) == IF offset >= 0 THEN offset ELSE filePos

\* fseek(offset, SEEK_CUR): a position before the start of the file is refused.
MovedBy(offset) == IF filePos + offset >= 0 THEN filePos + offset ELSE filePos

\* The implied seek of a transfer.  A position out of range, or a drive without
\* a disk, ends the emulator (DEBUG_ERROR).
Seek ==
  /\ wpc = "seek" /\ cmd[1] # 19
  /\ left' = TransferSize
  /\ \/ /\ ~eis
        /\ wpc' = "transfer"
        /\ UNCHANGED <<pos, filePos>>
     \/ /\ eis
        /\ Slot = 0 /\ InRange(cmd[3], cmd[4], TargetSector)
        /\ pos' = At(cmd[3], cmd[4], TargetSector)
        /\ filePos' = MovedBy(SeekOffset(pos, cmd[3], cmd[4], TargetSector))
        /\ wpc' = "transfer"
     \/ /\ eis
        /\ ~(Slot = 0 /\ InRange(cmd[3], cmd[4], TargetSector))
        /\ wpc' = "exit"
        /\ UNCHANGED <<pos, filePos>>
  /\ UNCHANGED <<cmd, out, image, eis, msr, intrReq, int, dreg, queue, sent,
                 received, cpu>>

NotReady ==
  /\ wpc = "transfer" /\ left > 0 /\ Slot # 0
  /\ wpc' = "exit"
  /\ UNCHANGED <<cmd, left, out, image, filePos, pos, eis, msr, intrReq, int, dreg,
                 queue, sent, received, cpu>>

\* fread gives 0 at the end of the file, and does not move its position.
ReadFromDrive ==
  /\ wpc = "transfer" /\ left > 0 /\ Slot = 0 /\ cmd[1] # 5
  /\ out' = IF filePos < Len(image) THEN image[filePos + 1] ELSE 0
  /\ filePos' = IF filePos < Len(image) THEN filePos + 1 ELSE filePos
  /\ pos' = AdvancePos(pos)
  /\ wpc' = "store"
  /\ UNCHANGED <<cmd, left, image, eis, msr, intrReq, int, dreg, queue, sent,
                 received, cpu>>

\* Slip: written one byte too early.
WrittenBefore(file, at, v) ==
  [i \in 1..(IF at < Len(file) THEN Len(file) ELSE at + 1) |->
     IF i = at THEN v ELSE IF i <= Len(file) THEN file[i] ELSE 0]

\* fwrite extends the file when its position is at or after the end.
Written(file, at, v) ==
  [i \in 1..(IF at < Len(file) THEN Len(file) ELSE at + 1) |->
     IF i = at + 1 THEN v ELSE IF i <= Len(file) THEN file[i] ELSE 0]

WriteToDrive ==
  /\ wpc = "transfer" /\ left > 0 /\ Slot = 0 /\ cmd[1] = 5
  /\ queue # <<>>
  /\ queue' = Tail(queue)
  /\ image' = Written(image, filePos, Head(queue))
  /\ filePos' = filePos + 1
  /\ pos' = AdvancePos(pos)
  /\ intrReq' = TRUE
  /\ left' = left - 1
  /\ UNCHANGED <<wpc, cmd, out, eis, msr, int, dreg, sent, received, cpu>>

\* The status bytes; left counts them down from 0.  st0, st1 and st2 are never
\* set, and the BIOS ignores all seven: they read as 0.
SendStatus ==
  /\ wpc = "transfer" /\ left \in (1 - NoStatus)..0
  /\ out' = <<0, 0, 0, pos.track, pos.head, pos.sector, cmd[6]>>[1 - left]
  /\ wpc' = "store"
  /\ UNCHANGED <<cmd, left, image, filePos, pos, eis, msr, intrReq, int, dreg,
                 queue, sent, received, cpu>>

\* Slip: no wait for INT to clear.
MayStoreAlways == TRUE

\* write_datareg: wait until the last byte was read, store the next, set INT.
MayStore == ~int

StoreData ==
  /\ wpc = "store"
  /\ MayStore
  /\ dreg' = out
  /\ wpc' = "raise"
  /\ UNCHANGED <<cmd, left, out, image, filePos, pos, eis, msr, intrReq, int,
                 queue, sent, received, cpu>>

RaiseInt ==
  /\ wpc = "raise"
  /\ int' = TRUE
  /\ sent' = Append(sent, out)
  /\ intrReq' = (intrReq \/ left > 0)
  /\ left' = left - 1
  /\ wpc' = "transfer"
  /\ UNCHANGED <<cmd, out, image, filePos, pos, eis, msr, dreg, queue, received, cpu>>

EndCommand ==
  /\ wpc = "transfer" /\ left = -NoStatus
  /\ msr' = [msr EXCEPT !.RQM = FALSE, !.CMD_BSY = FALSE]
  /\ wpc' = "idle"
  /\ UNCHANGED <<cmd, left, out, image, filePos, pos, eis, intrReq, int, dreg,
                 queue, sent, received, cpu>>

Worker ==
  \/ DequeueCommand \/ DequeueArgument \/ Configure \/ Seek \/ NotReady
  \/ ReadFromDrive \/ WriteToDrive \/ SendStatus \/ StoreData \/ RaiseInt \/ EndCommand

-----------------------------------------------------------------------------
(* The CPU thread: bsv_disk and the routines it calls.                      *)

Running == wpc # "exit"

CommandBytes(r) ==
  CASE r.op = "configure" -> <<19, 0, IF r.eis THEN 64 ELSE 0, 0>>
    [] r.op = "unknown" -> <<15>>
    [] OTHER -> <<CASE r.op = "read" -> 6 [] r.op = "write" -> 5 [] r.op = "track" -> 2,
                  r.slot, r.track, r.head, r.sector, SizeCode, 18, 0, 255>>

RequestSize(r) == SectorSz * (IF r.op = "track" THEN NoSectors ELSE 1)

\* bx after r, one past the last byte it transfers.
EndAddress(r, start) ==
  (start + RequestSize(r)) % (2 * Half)

\* jl compares words as signed numbers.
Signed(w) == IF w < Half THEN w ELSE w - 2 * Half
Less(v, w) == Signed(v) < Signed(w)

StartRequest ==
  /\ Running /\ cpc = "next" /\ program # <<>>
  /\ req' = Head(program)
  /\ program' = Tail(program)
  /\ toSend' = CommandBytes(Head(program))
  /\ bx' = Head(program).addr
  /\ di' = EndAddress(Head(program), Head(program).addr)
  /\ cpc' = "send"
  /\ UNCHANGED <<al, mem, disk, worker, int, dreg, queue, sent, received>>

\* out to the data port: command_q.enqueue, whose queue has no maximum.
SendByte ==
  /\ Running /\ cpc = "send" /\ toSend # <<>>
  /\ queue' = Append(queue, Head(toSend))
  /\ toSend' = Tail(toSend)
  /\ cpc' = IF Len(toSend) > 1 THEN "send"
            ELSE CASE req.op \in {"configure", "unknown"} -> "next"
                   [] req.op = "write" -> "write"
                   [] OTHER -> "busy"
  /\ UNCHANGED <<program, req, al, bx, di, mem, disk, worker, int, dreg, sent, received>>

BusyWait ==
  /\ Running /\ cpc = "busy"
  /\ msr.RQM
  /\ cpc' = "read"
  /\ UNCHANGED <<program, req, toSend, al, bx, di, mem, disk, worker, int, dreg,
                 queue, sent, received>>

WriteByte ==
  /\ Running /\ cpc = "write"
  /\ queue' = Append(queue, mem[bx])
  /\ bx' = (bx + 1) % (2 * Half)
  /\ cpc' = IF Less(bx', di) THEN "write" ELSE "status"
  /\ disk' = [disk EXCEPT ![Linear(At(req.track, req.head, req.sector))
                             + ((bx - di + SectorSz) % (2 * Half))] = mem[bx]]
  /\ toSend' = <<>>
  /\ UNCHANGED <<program, req, al, di, mem, worker, int, dreg, sent, received>>

\* read_datareg: wait for INT, load the byte, clear INT.
LoadData ==
  /\ Running /\ cpc \in {"read", "status"} /\ al = <<>>
  /\ int
  /\ al' = <<dreg>>
  /\ UNCHANGED <<cpc, program, req, toSend, bx, di, mem, disk, worker, int, dreg,
                 queue, sent, received>>

\* After the byte of a sector: the next one, until bx reaches di.
StoreByte ==
  /\ mem' = [mem EXCEPT ![bx] = al[1]]
  /\ bx' = (bx + 1) % (2 * Half)
  /\ cpc' = IF Less(bx', di) THEN "read" ELSE "status"
  /\ UNCHANGED <<program, req, toSend, di>>

\* After the seventh status byte: the next sector, until the count is 0.  toSend
\* holds the status bytes read so far until then.
NextSector ==
  /\ UNCHANGED mem
  /\ IF Len(toSend) + 1 < NoStatus
     THEN /\ toSend' = Append(toSend, al[1])
          /\ UNCHANGED <<cpc, program, req, bx, di>>
     ELSE LET r == [req EXCEPT !.sector = (@ + 1) % 256, !.count = (@ - 1) % 256]
          IN  /\ req' = r
              /\ toSend' = IF r.count = 0 THEN <<>> ELSE CommandBytes(r)
              /\ cpc' = IF r.count = 0 THEN "next" ELSE "send"
              /\ di' = EndAddress(r, bx)
              /\ UNCHANGED <<program, bx>>

ClearInt ==
  /\ Running /\ al # <<>>
  /\ int' = FALSE
  /\ received' = Append(received, al[1])
  /\ al' = <<>>
  /\ IF cpc = "read" THEN StoreByte ELSE NextSector
  /\ UNCHANGED <<disk, worker, dreg, queue, sent>>

Cpu ==
  \/ StartRequest \/ SendByte \/ BusyWait \/ WriteByte \/ LoadData \/ ClearInt

Next == Worker \/ Cpu

Spec == Init /\ [][Next]_vars

\* Both threads keep running.
FairSpec == Spec /\ WF_vars(Worker) /\ WF_vars(Cpu)

-----------------------------------------------------------------------------
(* Well-formed guests.                                                      *)

Transfers == {"read", "write", "track"}
Asked(P) == UNION {{p[i] : i \in DOMAIN p} : p \in P}

\* The service expects as many bytes as the worker transfers, and counts them up
\* to an end address that no comparison of signed words takes for one behind it.
Fits(r) ==
  r.op \in Transfers => r.count > 0 /\ Signed(r.addr) + r.count * RequestSize(r) < Half
BuffersFit(P) == SectorSz = Unit * 2^SizeCode /\ \A r \in Asked(P) : Fits(r)

\* The guest starts, as the BIOS does, by having commands seek, and leaves it so.
SeeksImplied(P) ==
  /\ \A p \in P : p # <<>> => p[1].op = "configure"
  /\ \A r \in Asked(P) : r.op = "configure" => r.eis

\* The sectors a request names one after the other, and where each transfer starts.
Sectors(r) == {(r.sector + i) % 256 : i \in 0..(r.count - 1)}
Target(r) == IF r.op = "track" THEN 1 ELSE r.sector
Start(r) == Linear(At(r.track, r.head, Target(r)))

\* No transfer reaches the last byte of the disk, after which the driver believes
\* its head at the first; and the image holds the whole disk.
StaysInside(r) == InRange(r.track, r.head, Target(r)) => Start(r) + RequestSize(r) < DiskSize
Clear(r) ==
  r.op \in Transfers => \A s \in Sectors(r) : StaysInside([r EXCEPT !.sector = s])
InsideImage(P) == Len(Image) >= DiskSize /\ \A r \in Asked(P) : Clear(r)

\* A track is asked for by its first sector, and one at a time.
WholeTracks(P) == \A r \in Asked(P) : r.op = "track" => r.sector = 1 /\ r.count = 1

-----------------------------------------------------------------------------
(* Properties.                                                             *)

\* The register is a one-place buffer between the threads: see DataChannel.
Channel == INSTANCE DataChannel WITH Values <- Byte
HandOff == Channel!Spec

\* The bytes of the disk that a request covers, and where it left them in memory.
OnDisk(r) ==
  [i \in 0..(RequestSize(r) - 1) |-> disk[Linear(At(r.track, r.head, r.sector)) + i]]
InMemory(r) ==
  [i \in 0..(RequestSize(r) - 1) |-> mem[(di - RequestSize(r) + i) % (2 * Half)]]

\* A sector (or track) read is the one asked for, as the image held it or the
\* guest last wrote it: each byte once, in order, from the right place.
SectorCorrect ==
  eis /\ req.op \in {"read", "track"} /\ cpc = "status" => InMemory(req) = OnDisk(req)

\* Between commands the file's position is the start of the sector the driver
\* believes to be on: the next seek, which is relative, counts from there.
PositionTracksFile ==
  wpc = "idle" /\ eis => filePos = Linear(At(pos.track, pos.head, pos.sector))

\* A command the worker does not know overwrites the data register: never while
\* a byte in it waits to be read.  And nothing is left in the register, or in the
\* queue, when the service returns and the worker has caught up: the next request
\* starts clean.
NothingOverwritten ==
  wpc = "idle" =>
    /\ queue # <<>> /\ Head(queue) \notin Commands => ~int
    /\ queue = <<>> /\ cpc = "next" => ~int /\ Len(sent) = Len(received)

\* What the service has written is in the image file.
WritesReachImage ==
  cpc = "next" /\ wpc = "idle" /\ queue = <<>> /\ eis => Contents(image) = disk

\* The guest gets through its program, unless a bad position ends the emulator.
GuestDone == <>(wpc = "exit" \/ (cpc = "next" /\ program = <<>>))

\* "change the associated position of the driver to specific position" (seek,
\* floppy_disk_driver.hpp): a seek leaves the drive's file at that position.
SeekReachesPosition ==
  [][wpc = "seek" /\ wpc' = "transfer" /\ eis => filePos' = Linear(pos')]_vars

\* "if didn't reached the last index, read another one" (disk.asm): the loop
\* that reads a sector ends when the index reaches the end address.
WholeSector == [][cpc = "read" /\ cpc' = "status" => bx' = di]_vars
=============================================================================
