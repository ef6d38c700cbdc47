---------------------------------- MODULE Ps2 ----------------------------------
(***************************************************************************)
(* The PS/2 controller with its keyboard and mouse (ps2_controller/), as   *)
(* two threads use it without a lock: the UI thread, whose window          *)
(* callbacks send scancodes, and the CPU thread, whose guest reads and     *)
(* writes ports 0x60 and 0x64.                                             *)
(*                                                                         *)
(* The status register is one byte of bit fields, and the build does not   *)
(* optimize, so each assignment to a field loads the byte, changes one bit *)
(* and stores it back: two steps between which the other thread may run.   *)
(* Every other access is one step.                                         *)
(*                                                                         *)
(* The guest runs one of Scripts (the controller set-up, with interrupts   *)
(* off, as init_key_mouse of the small_os sample does), then only answers  *)
(* interrupts, reading one byte in each handler as the sample's            *)
(* irq_keyboard and irq_mouse do.                                          *)
(***************************************************************************)
EXTENDS Integers, Sequences

CONSTANTS
  Scripts,        \* the guest's set-up programs: sequences of port accesses
  GarbageBytes,   \* what the uninitialized controller_ram may hold
  QuietInit,      \* TRUE: no key or mouse event during the set-up
  MaxBytes        \* bound: bytes the devices send

Byte == 0..255
Bit(v, i) == (v \div 2^i) % 2 = 1
WithBit(v, i, b) == v + (IF b = Bit(v, i) THEN 0 ELSE IF b THEN 2^i ELSE -(2^i))

Devices == {"keyboard", "mouse"}
Threads == {"ui", "cpu"}
RamCells == 0..31
None == -1
Controller == "controller"    \* write_out_buff called for READ_RAM, for no device

PortOp == [op : {"command", "data"}, v : Byte] \cup [op : {"read", "sti"}]

ASSUME Ps2Assumption ==
  /\ Scripts \in SUBSET Seq(PortOp)
  /\ GarbageBytes \in SUBSET Byte
  /\ QuietInit \in BOOLEAN /\ MaxBytes \in Nat

-----------------------------------------------------------------------------
(* What the guest may rely on between two of its port accesses: the first   *)
(* byte of a command whose second it still owes, the configuration byte,    *)
(* and whom the byte in the output buffer is for: the guest's next read, or *)
(* a device's handler.                                                      *)

Label == [code : {None} \cup Byte, ccb : Byte,
          held : {"none", "polled"} \cup Devices]

StartLabel(g) == [code |-> None, ccb |-> g, held |-> "none"]

\* The device that answers the second byte v of the command l.code, if any does.
Answering(l, v) ==
  CASE l.code = 210 /\ ~Bit(l.ccb, 4) -> "keyboard"
    [] l.code = 211 /\ ~Bit(l.ccb, 5) -> "mouse"
    [] l.code = 212 /\ v = 244 -> "mouse"
    [] OTHER -> "none"

HeldFor(ccb, dev) == IF Bit(ccb, IF dev = "keyboard" THEN 0 ELSE 1) THEN dev ELSE "polled"

\* The access makes the controller put a byte in the buffer.
Fills(l, o) ==
  \/ l.code = None /\ o.op = "command" /\ o.v \in 32..63
  \/ l.code # None /\ o.op = "data" /\ Answering(l, o.v) # "none"

AfterFirst(l, o) ==
  IF o.op = "command" /\ o.v \in {167, 168, 173, 174}
    THEN [l EXCEPT !.ccb = WithBit(@, IF o.v \in {173, 174} THEN 4 ELSE 5, o.v \in {168, 174})]
  ELSE IF Fills(l, o) THEN [l EXCEPT !.held = "polled"]
  ELSE [l EXCEPT !.code = o.v]

AfterSecond(l, o) ==
  IF o.op = "command" THEN [l EXCEPT !.code = None]
  ELSE IF Fills(l, o)
    THEN [l EXCEPT !.code = None, !.held = HeldFor(l.ccb, Answering(l, o.v))]
  ELSE [l EXCEPT !.code = None, !.ccb = IF l.code = 96 THEN o.v ELSE @]

LabelAfter(l, o) ==
  CASE o.op = "sti" -> l
    [] o.op = "read" -> [l EXCEPT !.held = "none"]
    [] OTHER -> IF l.code = None THEN AfterFirst(l, o) ELSE AfterSecond(l, o)

-----------------------------------------------------------------------------

VARIABLES
  sr,        \* the fields OBF, F1 and ST6 of the status register
  outBuf,    \* output_buff: a scancode is its number in the order of sending
  ram,       \* controller_ram; its first cell is the configuration byte ccb
  curr,      \* curr_command
  a20,       \* mem->a20_gate.is_enabled
  irq,       \* intr_req of the two devices
  pc,        \* where each thread is
  tmp,       \* the copy of sr a thread has loaded and not yet stored, if any
  sending,   \* what each thread is passing to write_out_buff, and for whom
  packet,    \* bytes of the UI's current event still to send
  script,    \* what is left of the guest's set-up
  in,        \* the guest's port access in progress
  sent,      \* number of bytes the UI has tried to send
  label,     \* history: what the guest relies on
  put, got,  \* history: the bytes stored in outBuf, the bytes read from it
  overtaken  \* history: the reads between whose two statements a byte was stored

vars == <<sr, outBuf, ram, curr, a20, irq, pc, tmp, sending, packet, script,
          in, label, sent, put, got, overtaken>>
guest == <<ram, curr, a20, script, in, label>>
hist == <<put, got, overtaken>>

\* The fields of the status register that the code uses.
Status == [OBF : BOOLEAN, F1 : BOOLEAN, ST6 : BOOLEAN]

\* The read-modify-writes of the status register, and where each returns.
Updates == {"mark", "empty", "port", "two", "one"}
Places == {"idle", "check", "wait", "put", "irq", "exec", "data"} \cup Updates

TypeOK ==
  /\ sr \in Status
  /\ outBuf \in Int /\ ram \in [RamCells -> Byte] /\ curr \in Byte
  /\ a20 \in BOOLEAN /\ irq \in [Devices -> BOOLEAN]
  /\ pc \in [Threads -> Places]
  /\ tmp \in [Threads -> {<<>>} \cup {<<s>> : s \in Status}]
  /\ sending \in [Threads -> [dev : Devices \cup {Controller}, byte : Int]]
  /\ packet \in Nat /\ script \in Seq(PortOp) /\ in \in PortOp
  /\ sent \in 0..MaxBytes
  /\ label \in Label
  /\ put \in Seq(Int) /\ got \in Seq(Int) /\ overtaken \in SUBSET Nat

EmptyStatus == [OBF |-> FALSE, F1 |-> FALSE, ST6 |-> FALSE]
Reading == [op |-> "read"]

Init ==
  /\ sr = EmptyStatus
  /\ outBuf = None
  /\ \E g \in GarbageBytes : ram = [c \in RamCells |-> g] /\ label = StartLabel(g)
  /\ curr = 0
  /\ a20 = FALSE
  /\ irq = [d \in Devices |-> FALSE]
  /\ pc = [t \in Threads |-> "idle"]
  /\ tmp = [t \in Threads |-> <<>>]
  /\ sending = [t \in Threads |-> [dev |-> Controller, byte |-> None]]
  /\ packet = 0
  /\ script \in Scripts
  /\ in = Reading
  /\ sent = 0
  /\ put = <<>> /\ got = <<>> /\ overtaken = {}

\* Slip: the clock-disable bits read as the interrupt bits.
InterruptsAllowedWrongBits(dev) == Bit(ram[0], IF dev = "keyboard" THEN 4 ELSE 5)

\* ccb: device interrupts allowed (KIE, MIE), device clocks disabled (KE, ME).
InterruptsAllowed(dev) == Bit(ram[0], IF dev = "keyboard" THEN 0 ELSE 1)
Disabled(dev) == Bit(ram[0], IF dev = "keyboard" THEN 4 ELSE 5)

Goto(t, place) == pc' = [pc EXCEPT ![t] = place]

-----------------------------------------------------------------------------
(* A field assignment: load the byte, then store it with the field changed. *)

\* Slip: ST6 not reset after the second byte.
ChangedKeepST6(s, u) ==
  CASE u = "mark"  -> [s EXCEPT !.OBF = TRUE]
    [] u = "empty" -> [s EXCEPT !.OBF = FALSE]
    [] u = "port"  -> [s EXCEPT !.F1 = (in.op = "command")]
    [] u \in {"two", "one"} -> [s EXCEPT !.ST6 = TRUE]

Changed(s, u) ==
  CASE u = "mark"  -> [s EXCEPT !.OBF = TRUE]
    [] u = "empty" -> [s EXCEPT !.OBF = FALSE]
    [] u = "port"  -> [s EXCEPT !.F1 = (in.op = "command")]
    [] u = "two"   -> [s EXCEPT !.ST6 = TRUE]
    [] u = "one"   -> [s EXCEPT !.ST6 = FALSE]

Returns(u) ==
  CASE u = "mark" -> "put" [] u = "empty" -> "data" [] u = "port" -> "exec"
    [] OTHER -> "idle"

Load(t, u) ==
  /\ pc[t] = u /\ tmp[t] = <<>>
  /\ tmp' = [tmp EXCEPT ![t] = <<sr>>]
  /\ UNCHANGED <<sr, outBuf, irq, pc, sending, packet, sent, hist, guest>>

Store(t, u) ==
  /\ pc[t] = u /\ tmp[t] # <<>>
  /\ sr' = Changed(Head(tmp[t]), u)
  /\ tmp' = [tmp EXCEPT ![t] = <<>>]
  /\ Goto(t, Returns(u))
  /\ UNCHANGED <<outBuf, irq, sending, packet, sent, hist, guest>>

-----------------------------------------------------------------------------
(* write_out_buff, called by both threads, and what its callers do next.    *)

\* Slip: no wait for the last byte to be read.
CanWriteAlways(t) == TRUE

\* The loop on sr.OBF; it spins while another byte has not been read.
CanWrite(t) == ~sr.OBF

WaitEmpty(t) ==
  /\ pc[t] = "wait"
  /\ CanWrite(t)
  /\ Goto(t, "mark")
  /\ UNCHANGED <<sr, outBuf, irq, tmp, sending, packet, sent, hist, guest>>

PutByte(t) ==
  /\ pc[t] = "put"
  /\ outBuf' = sending[t].byte
  /\ put' = Append(put, sending[t].byte)
  /\ overtaken' = overtaken \cup (IF pc["cpu"] = "data" THEN {Len(got) + 1} ELSE {})
  /\ Goto(t, "irq")
  /\ UNCHANGED <<sr, irq, tmp, sending, packet, sent, got, guest>>

\* Slip: one byte too many in a packet.
AfterSendOneMore(t) ==
  IF t = "ui" THEN "check"
  ELSE IF sending[t].dev = Controller THEN "idle" ELSE "one"

\* intr_req = true if ccb allows it.  The UI goes on with its packet; the CPU
\* ends the command it is executing (one byte: READ_RAM, no device; two: ST6=0).
AfterSend(t) ==
  IF t = "ui" THEN IF packet > 0 THEN "check" ELSE "idle"
  ELSE IF sending[t].dev = Controller THEN "idle" ELSE "one"

RequestIrq(t) ==
  /\ pc[t] = "irq"
  /\ irq' = [d \in Devices |-> irq[d] \/ (d = sending[t].dev /\ InterruptsAllowed(d))]
  /\ Goto(t, AfterSend(t))
  /\ UNCHANGED <<sr, outBuf, tmp, sending, packet, sent, hist, guest>>

-----------------------------------------------------------------------------
(* The UI thread: keyboard_callback sends one byte, the mouse callbacks a   *)
(* packet of three (send_packet_scancode).                                  *)

UiEvent(dev) ==
  LET n == IF dev = "keyboard" THEN 1 ELSE 3
  IN  /\ pc["ui"] = "idle"
      /\ QuietInit => script = <<>>
      /\ sent + n <= MaxBytes
      /\ packet' = n
      /\ sending' = [sending EXCEPT !["ui"] = [dev |-> dev, byte |-> None]]
      /\ Goto("ui", "check")
      /\ UNCHANGED <<sr, outBuf, irq, tmp, sent, hist, guest>>

\* send_scancode drops the byte when the device is disabled.
SendScancode ==
  /\ pc["ui"] = "check"
  /\ packet' = packet - 1
  /\ sent' = sent + 1
  /\ sending' = [sending EXCEPT !["ui"].byte = sent + 1]
  /\ Goto("ui", IF ~Disabled(sending["ui"].dev) THEN "wait"
                ELSE IF packet > 1 THEN "check" ELSE "idle")
  /\ UNCHANGED <<sr, outBuf, irq, tmp, hist, guest>>

-----------------------------------------------------------------------------
(* The CPU thread.                                                          *)

\* The next port access of the set-up, or the sti that ends it.
Fetch ==
  /\ pc["cpu"] = "idle"
  /\ script # <<>>
  /\ in' = Head(script)
  /\ script' = Tail(script)
  /\ label' = LabelAfter(label, Head(script))
  /\ Goto("cpu", CASE Head(script).op = "read" -> "empty"
                    [] Head(script).op = "sti" -> "idle"
                    [] OTHER -> "port")
  /\ UNCHANGED <<sr, outBuf, ram, curr, a20, irq, tmp, sending, packet, sent, hist>>

\* chk_intr_req takes the request; the handler reads port 0x60 once.
TakeInterrupt(dev) ==
  /\ pc["cpu"] = "idle"
  /\ script = <<>>
  /\ irq[dev]
  /\ irq' = [irq EXCEPT ![dev] = FALSE]
  /\ in' = Reading
  /\ Goto("cpu", "empty")
  /\ UNCHANGED <<sr, outBuf, ram, curr, a20, tmp, sending, packet, script, label, sent, hist>>

\* read_out_buff returns the buffer after it has marked it empty.
ReadByte ==
  /\ pc["cpu"] = "data"
  /\ got' = Append(got, outBuf)
  /\ Goto("cpu", "idle")
  /\ UNCHANGED <<sr, outBuf, irq, tmp, sending, packet, sent, put, overtaken, guest>>

\* exec_command on the byte in.v: the enable and disable commands and READ_RAM
\* are complete, any other byte is the first of two.
FirstByte ==
  /\ pc["cpu"] = "exec"
  /\ ~sr.ST6
  /\ LET v == in.v
     IN  \/ /\ sr.F1 /\ v \in {167, 168, 173, 174}          \* 0xa7 0xa8 0xad 0xae
            /\ ram' = [ram EXCEPT ![0] =
                         WithBit(@, IF v \in {173, 174} THEN 4 ELSE 5, v \in {168, 174})]
            /\ Goto("cpu", "idle")
            /\ UNCHANGED <<sending, curr>>
         \/ /\ sr.F1 /\ v \in 32..63
            /\ sending' = [sending EXCEPT !["cpu"] = [dev |-> Controller, byte |-> ram[v - 32]]]
            /\ Goto("cpu", "wait")
            /\ UNCHANGED <<ram, curr>>
         \/ /\ ~(sr.F1 /\ v \in (32..63) \cup {167, 168, 173, 174})
            /\ curr' = v
            /\ Goto("cpu", "two")
            /\ UNCHANGED <<ram, sending>>
  /\ UNCHANGED <<sr, outBuf, a20, irq, tmp, packet, script, in, label, sent, hist>>

\* The second byte of a command: it is executed only if it came from the data
\* port, and forgotten otherwise.
Sends(dev, byte) ==
  /\ sending' = [sending EXCEPT !["cpu"] = [dev |-> dev, byte |-> byte]]
  /\ Goto("cpu", "wait")
  /\ UNCHANGED <<ram, a20>>

SecondByte ==
  /\ pc["cpu"] = "exec"
  /\ sr.ST6
  /\ LET v == in.v
         code == IF sr.F1 THEN None ELSE curr
     IN  \/ code = 210 /\ ~Disabled("keyboard") /\ Sends("keyboard", v)   \* 0xd2
         \/ code = 211 /\ ~Disabled("mouse") /\ Sends("mouse", v)         \* 0xd3
         \/ code = 212 /\ v = 244 /\ Sends("mouse", 250)                  \* 0xd4: ACK
         \/ /\ ~(\/ code = 210 /\ ~Disabled("keyboard")
                 \/ code = 211 /\ ~Disabled("mouse")
                 \/ code = 212 /\ v = 244)
            /\ a20' = IF code = 209 THEN Bit(v, 1) ELSE a20               \* 0xd1
            /\ ram' = IF code \in 96..127 THEN [ram EXCEPT ![code - 96] = v] ELSE ram
            /\ Goto("cpu", "one")
            /\ UNCHANGED sending
  /\ UNCHANGED <<sr, outBuf, curr, irq, tmp, packet, script, in, label, sent, hist>>

-----------------------------------------------------------------------------

WriteOutBuff(t) ==
  \/ WaitEmpty(t) \/ PutByte(t) \/ RequestIrq(t)
  \/ \E u \in Updates : Load(t, u) \/ Store(t, u)

Ui == WriteOutBuff("ui") \/ SendScancode \/ \E dev \in Devices : UiEvent(dev)

Cpu ==
  \/ WriteOutBuff("cpu") \/ Fetch \/ ReadByte \/ FirstByte \/ SecondByte
  \/ \E dev \in Devices : TakeInterrupt(dev)

Next == Ui \/ Cpu

Spec == Init /\ [][Next]_vars

\* Each thread keeps running; the user need not touch the keyboard or the mouse,
\* so the callbacks are fair only once they have been called.
UiCallback == WriteOutBuff("ui") \/ SendScancode
FairSpec == Spec /\ WF_vars(UiCallback) /\ WF_vars(Cpu)

-----------------------------------------------------------------------------
(* Well-formed set-up programs.                                             *)

\* The guest reads when there is a byte for it to read, and lets the controller
\* put a byte in the buffer when there is none.
Legal(l, o) == (o.op = "read" => l.held = "polled") /\ (Fills(l, o) => l.held = "none")

\* lab labels the program s: each access is legal, no command is left half sent,
\* and interrupts are enabled last.
Labels(s, lab) ==
  /\ lab \in [1..(Len(s) + 1) -> Label]
  /\ \A i \in 1..Len(s) : Legal(lab[i], s[i]) /\ lab[i + 1] = LabelAfter(lab[i], s[i])
  /\ lab[Len(s) + 1].code = None
  /\ s # <<>> => s[Len(s)].op = "sti"

\* The program s may be run from label l, and each set-up program from the start.
Accepted(s, l) == \E lab : Labels(s, lab) /\ lab[1] = l
WellFormed == \A s \in Scripts, g \in GarbageBytes : Accepted(s, StartLabel(g))

-----------------------------------------------------------------------------
(* Properties.                                                             *)

\* A read returns the next byte stored and starts when that byte, and no other, is
\* waiting: nothing is read twice and nothing is lost, but where the other thread
\* stores a byte between the two statements of read_out_buff.  Then the read
\* returns that one, the byte before is lost, and the next read returns it again.
\* A buffer marked empty holds nothing, save in the windows of the two threads.
ReturnedByte(i) == IF i \in overtaken THEN i + 1 ELSE i
ReadsAreCurrent ==
  /\ \A i \in DOMAIN got : ReturnedByte(i) <= Len(put) /\ got[i] = put[ReturnedByte(i)]
  /\ pc["cpu"] = "empty" => sr.OBF /\ Len(put) = Len(got) + 1 /\ outBuf = put[Len(put)]
  /\ pc["cpu"] # "data" /\ pc["ui"] # "put" /\ ~sr.OBF => Len(got) = Len(put)

\* The controller is where the guest believes it to be, before every access of its
\* set-up and ever after: it expects the second byte of the command the guest
\* has begun and of no other, and is configured as it was told.  Before every
\* access of the set-up the buffer and the requests hold what the guest is to
\* have, and nothing else.  And no thread is about to store a copy of the status
\* byte that the other has changed since: neither undoes the other's bit.
Expects(l) == (sr.ST6 <=> l.code # None) /\ (l.code # None => curr = l.code)
Holds(h) == (sr.OBF <=> h # "none") /\ \A d \in Devices : irq[d] <=> d = h
InSync ==
  /\ pc["cpu"] = "idle" => Expects(label) /\ ram[0] = label.ccb
  /\ pc["cpu"] = "idle" /\ script # <<>> => Holds(label.held)
  /\ \A t \in Threads : tmp[t] # <<>> => Head(tmp[t]) = sr

\* "mark the output buffer as empty", "the return its value" (read_out_buff): the
\* value is that of the byte whose mark was taken, so that the n-th read returns
\* the n-th byte stored.
EachByteOnce == \A i \in DOMAIN got : got[i] = put[i]

\* A callback that waits for the buffer gets it: the window does not freeze.
UiNeverStuck == pc["ui"] = "wait" ~> pc["ui"] # "wait"

\* Every byte stored in the buffer is eventually followed by a read.
EveryByteAnswered ==
  \A n \in 1..(MaxBytes + 1) : Len(put) = n ~> Len(got) >= n

\* "wait until the output buffer is empty" (write_out_buff): the wait ends, on
\* the CPU thread too, which is the only one that could empty the buffer.
CpuNeverStuck == pc["cpu"] = "wait" ~> pc["cpu"] # "wait"
=============================================================================
