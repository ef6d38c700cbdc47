------------------------------- MODULE Interrupts -------------------------------
(***************************************************************************)
(* The interrupt path of the machine: devices on their own threads raise   *)
(* their intr_req flag; once per clock cycle the CPU thread runs           *)
(* interrupts_system::chk_irq, which polls the master controller and       *)
(* through it the slave, and queues the number of an accepted interrupt;   *)
(* hundle_interrupt dispatches the head of the queue; then one guest       *)
(* instruction runs (the loop of main.cpp).                                *)
(*                                                                         *)
(* A cycle is three steps of pc: "poll", "handle", "exec".  Within one of  *)
(* them a device can only set a flag: setting it in the middle of chk_irq  *)
(* has the effect of setting it just before or just after, so each is      *)
(* atomic.                                                                 *)
(*                                                                         *)
(* The guest is constrained only as far as it must be to mean something:   *)
(* it first runs one of BootScripts (the controllers' initialization the   *)
(* repository ships), then interleaves cli/sti, hlt and int n as it likes, *)
(* and its handler for vector n runs Handler[n] before iret: its writes to  *)
(* the controllers, and steps of work of its own.                          *)
(***************************************************************************)
EXTENDS Pic, Sequences

CONSTANTS
  MasterDevs, SlaveDevs,   \* lines with a device, on each controller
  Cascade,                 \* the master's line the slave is connected to
  PowerOnBytes,            \* what uninitialized registers may hold
  BootScripts,             \* the guest's initialization programs
  Handler,                 \* for each vector, what runs before iret
  SoftVectors,             \* the n of the guest's int n
  GateClearsIF,            \* interrupt gates (TRUE), or trap gates and real mode
  MaxDepth                 \* bound: handlers nested and queued when a device raises

Pics == {"m", "s"}
Devs == [m |-> MasterDevs, s |-> SlaveDevs]

PortWrite == [op : {"command", "data"}, pic : Pics, v : Byte]
BootOp == PortWrite \cup [op : {"cli", "sti"}]
HandlerOp == PortWrite \cup [op : {"work"}]

ASSUME DevsAssumption ==
  /\ MasterDevs \in SUBSET Lines /\ SlaveDevs \in SUBSET Lines
  /\ Cascade \in Lines \ MasterDevs
  /\ PowerOnBytes \in SUBSET Byte
  /\ BootScripts \in SUBSET Seq(BootOp)
  /\ Handler \in [Byte -> Seq(HandlerOp)]
  /\ SoftVectors \in SUBSET Byte
  /\ GateClearsIF \in BOOLEAN /\ MaxDepth \in Nat

VARIABLES
  pic,      \* the two controllers' registers
  req,      \* the lines whose device has intr_req set, per controller
  flagIF,   \* regs.flags_reg.interrupt
  halt,     \* processor.halt
  que,      \* interrupts_system.que, head first
  frames,   \* guest handlers in progress, innermost last
  boot,     \* what is left of the guest's initialization
  pc        \* where the CPU thread is in its cycle; "exit" is DEBUG_ERROR

vars == <<pic, req, flagIF, halt, que, frames, boot, pc>>

Interrupt == [id : Byte, hard : BOOLEAN]
Frame == [id : Byte, flagIF : BOOLEAN, todo : Seq(HandlerOp)]

TypeOK ==
  /\ pic \in [Pics -> PicState]
  /\ req \in [Pics -> SUBSET Lines]
  /\ flagIF \in BOOLEAN
  /\ halt \in BOOLEAN
  /\ que \in Seq(Interrupt)
  /\ frames \in Seq(Frame)
  /\ boot \in Seq(BootOp)
  /\ pc \in {"poll", "handle", "exec", "exit"}

Init ==
  /\ \E g \in PowerOnBytes : pic = [p \in Pics |-> PowerOn(g)]
  /\ req = [p \in Pics |-> {}]
  /\ flagIF = TRUE
  /\ halt = FALSE
  /\ que = <<>>
  /\ frames = <<>>
  /\ boot \in BootScripts
  /\ pc = "poll"

-----------------------------------------------------------------------------
(* Devices.                                                                *)

\* A device thread sets intr_req; setting it again changes nothing.
Raise(p, line) ==
  /\ line \in Devs[p] \ req[p]
  /\ Len(frames) + Len(que) < MaxDepth
  /\ req' = [req EXCEPT ![p] = @ \cup {line}]
  /\ UNCHANGED <<pic, flagIF, halt, que, frames, boot, pc>>

-----------------------------------------------------------------------------
(* chk_irq.                                                                *)

\* The scan of the master reaches the slave: no unmasked raised line before it.
PollsSlave ==
  /\ pic["m"].cnt = Finished
  /\ Cascade \notin pic["m"].imr
  /\ \A d \in req["m"] \ pic["m"].imr : Cascade < d

SlavePolled == IF PollsSlave THEN Polled(pic["s"], req["s"]) ELSE {}
SlaveAccepted == {i \in SlavePolled : ~Blocked(pic["s"], i)}

MasterRaised == req["m"] \cup {l \in {Cascade} : SlaveAccepted # {}}
MasterPolled == Polled(pic["m"], MasterRaised)
MasterAccepted == Accepted(pic["m"], MasterRaised)

\* Slip: every request cleared, not only the one polled.
PollRequestsAll == [p \in Pics |-> {}]

\* Every chk_intr_req that answers true clears the device's flag.
PollRequests ==
  [p \in Pics |-> req[p] \ (IF p = "m" THEN MasterPolled ELSE SlavePolled)]

AfterPoll ==
  [p \in Pics |-> MarkRequest(pic[p], IF p = "m" THEN MasterAccepted
                                                 ELSE SlaveAccepted)]

MasterVector ==
  LET m == AfterPoll["m"]
  IN  IF FromSlave(m) THEN SlaveIntr ELSE DeviceVector(m)

\* What chk_irq queues; the slave is asked when the master answers SLAVE_INTR,
\* which is also the value of a device's vector 0xff.
NextVector == IF MasterVector = SlaveIntr THEN DeviceVector(AfterPoll["s"])
                                          ELSE MasterVector

\* Slip: a halted CPU executes on.
AfterNoIrqAwake == "handle"

\* A halted CPU sleeps for the rest of its cycle.
AfterNoIrq == IF halt THEN "poll" ELSE "handle"

ChkIrqFalse ==
  /\ pc = "poll"
  /\ IF flagIF
       THEN /\ MasterAccepted = {}
            /\ pic' = AfterPoll
            /\ req' = PollRequests
       ELSE UNCHANGED <<pic, req>>
  /\ pc' = AfterNoIrq
  /\ UNCHANGED <<flagIF, halt, que, frames, boot>>

ChkIrqTrue ==
  /\ pc = "poll"
  /\ flagIF
  /\ MasterAccepted # {}
  /\ req' = PollRequests
  /\ pic' = [AfterPoll EXCEPT
               !["m"] = TakeRequest(@),
               !["s"] = IF MasterVector = SlaveIntr THEN TakeRequest(@) ELSE @]
  /\ IF MasterVector = SlaveIntr
          /\ Misconnected(AfterPoll["s"], AfterPoll["m"])
       THEN /\ pc' = "exit"
            /\ UNCHANGED <<que, halt>>
       ELSE /\ que' = Append(que, [id |-> NextVector, hard |-> TRUE])
            /\ halt' = FALSE
            /\ pc' = "handle"
  /\ UNCHANGED <<flagIF, frames, boot>>

-----------------------------------------------------------------------------
(* hundle_interrupt: save_regs pushes the flags, then the handler is       *)
(* entered, with interrupts off when the gate is an interrupt gate.        *)

\* Slip: an interrupt gate that leaves interrupts on.
HandlerIFKept == flagIF

HandlerIF == flagIF /\ ~GateClearsIF

HundleInterrupt ==
  /\ pc = "handle"
  /\ IF que = <<>>
       THEN UNCHANGED <<que, frames, flagIF>>
       ELSE /\ que' = Tail(que)
            /\ frames' = Append(frames, [id     |-> Head(que).id,
                                         flagIF |-> flagIF,
                                         todo   |-> Handler[Head(que).id]])
            /\ flagIF' = HandlerIF
  /\ pc' = "exec"
  /\ UNCHANGED <<pic, req, halt, boot>>

-----------------------------------------------------------------------------
(* The guest's instructions.                                               *)

\* write_byte_to_port.  The byte that ends the initialization also runs
\* chk_intr_req on every connected line: a device forgets its request, and the
\* slave, on the master's cascade line, polls its own devices.
Drains(w) == w.op = "data" /\ EndsInit(pic[w.pic])

OutPort(w) ==
  /\ pic' = [q \in Pics |->
       IF q = w.pic
         THEN IF w.op = "command" THEN SendCommand(pic[q], w.v)
                                  ELSE SendData(pic[q], w.v)
       ELSE IF q = "s" /\ Drains(w)
         THEN LET polled == Polled(pic[q], req[q])
              IN  MarkRequest(pic[q], {i \in polled : ~Blocked(pic[q], i)})
       ELSE pic[q]]
  /\ req' = [q \in Pics |->
       IF ~Drains(w) THEN req[q]
       ELSE IF q = w.pic THEN {}
       ELSE IF q = "s" THEN req[q] \ Polled(pic[q], req[q])
       ELSE req[q]]

InMain == pc = "exec" /\ frames = <<>>

\* The guest's initialization, instruction by instruction.
Boot ==
  /\ InMain
  /\ boot # <<>>
  /\ boot' = Tail(boot)
  /\ LET op == Head(boot)
     IN  IF op \in PortWrite
           THEN OutPort(op) /\ UNCHANGED flagIF
           ELSE flagIF' = (op.op = "sti") /\ UNCHANGED <<pic, req>>
  /\ pc' = "poll"
  /\ UNCHANGED <<halt, que, frames>>

Ready == InMain /\ boot = <<>>

\* Some instruction that has no effect here.
Nop ==
  /\ Ready
  /\ flagIF
  /\ pc' = "poll"
  /\ UNCHANGED <<pic, req, flagIF, halt, que, frames, boot>>

Cli ==
  /\ Ready
  /\ flagIF
  /\ flagIF' = FALSE
  /\ pc' = "poll"
  /\ UNCHANGED <<pic, req, halt, que, frames, boot>>

\* The guest's critical sections are one instruction long.
Sti ==
  /\ Ready
  /\ ~flagIF
  /\ flagIF' = TRUE
  /\ pc' = "poll"
  /\ UNCHANGED <<pic, req, halt, que, frames, boot>>

\* The guest halts only where an interrupt can wake it, and not in a handler.
Hlt ==
  /\ Ready
  /\ flagIF
  /\ halt' = TRUE
  /\ pc' = "poll"
  /\ UNCHANGED <<pic, req, flagIF, que, frames, boot>>

IntImm8(n) ==
  /\ Ready
  /\ flagIF
  /\ que' = Append(que, [id |-> n, hard |-> FALSE])
  /\ pc' = "poll"
  /\ UNCHANGED <<pic, req, flagIF, halt, frames, boot>>

Depth == Len(frames)
Top == frames[Depth]
InHandler == pc = "exec" /\ frames # <<>>

HandlerStep ==
  /\ InHandler
  /\ Top.todo # <<>>
  /\ IF Head(Top.todo) \in PortWrite
       THEN OutPort(Head(Top.todo))
       ELSE UNCHANGED <<pic, req>>
  /\ frames' = [frames EXCEPT ![Depth].todo = Tail(@)]
  /\ pc' = "poll"
  /\ UNCHANGED <<flagIF, halt, que, boot>>

Iret ==
  /\ InHandler
  /\ Top.todo = <<>>
  /\ flagIF' = Top.flagIF
  /\ frames' = SubSeq(frames, 1, Depth - 1)
  /\ pc' = "poll"
  /\ UNCHANGED <<pic, req, halt, que, boot>>

-----------------------------------------------------------------------------

ChkIrq == ChkIrqFalse \/ ChkIrqTrue

Exec ==
  \/ Boot \/ Nop \/ Cli \/ Sti \/ Hlt
  \/ \E n \in SoftVectors : IntImm8(n)
  \/ HandlerStep \/ Iret

Cpu == ChkIrq \/ HundleInterrupt \/ Exec

Next == Cpu \/ \E p \in Pics : \E line \in Lines : Raise(p, line)

Spec == Init /\ [][Next]_vars

\* The CPU thread runs its loop for ever; devices owe nothing.
FairSpec == Spec /\ WF_vars(Cpu)

-----------------------------------------------------------------------------
(* Well-formed guests.  P stands for the two controllers' registers.       *)

Vector(p, line) == (VectorBase(p) + line) % 256

\* The lines of controller p that interrupt number n occupies.
VectorLines(P, p, n) ==
  {l \in Devs[p] : n = Vector(P[p], l)}
    \cup {l \in {Cascade} : p = "m" /\ \E d \in SlaveDevs : n = Vector(P["s"], d)}

\* The controllers are told how they are wired, and each device has a number of
\* its own, which is not the one that means "the slave raised it".
Wired(P) ==
  /\ P["m"].cnt = Finished /\ P["s"].cnt = Finished
  /\ ~SNGL(P["m"]) /\ SlaveOnLine(P["m"], Cascade) /\ SlaveOnLine(P["m"], SlaveId(P["s"]))
  /\ \A d \in MasterDevs : ~SlaveOnLine(P["m"], d) /\ Vector(P["m"], d) # SlaveIntr
  /\ \A p \in Pics, q \in Pics : \A d \in Devs[p], e \in Devs[q] :
       Vector(P[p], d) = Vector(P[q], e) => p = q /\ d = e

\* The EOIs a handler has still to send to controller p.
Commands(todo, p) ==
  {i \in DOMAIN todo : todo[i] \in [op : {"command"}, pic : {p}, v : Byte]}

Acknowledgement(v, line) ==
  EndOfInterrupt(v) /\ (SpecificLine(v) => v % 8 = line)

\* The numbers of the devices' interrupts.
Numbers(P) == UNION {{Vector(P[p], d) : d \in Devs[p]} : p \in Pics}

\* A handler acknowledges its line once on each controller it came through, and
\* sends no other command; int n runs a handler of its own, of some length.
Acknowledges(P) ==
  /\ \A p \in Pics, n \in Numbers(P) \cup SoftVectors :
       IF VectorLines(P, p, n) = {}
       THEN Commands(Handler[n], p) = {}
       ELSE \E i \in DOMAIN Handler[n] :
              /\ Commands(Handler[n], p) = {i}
              /\ \A l \in VectorLines(P, p, n) : Acknowledgement(Handler[n][i].v, l)
  /\ \A n \in SoftVectors : Handler[n] # <<>> /\ n \notin Numbers(P)

\* What an instruction of the initialization does to the controllers and the flag.
BootAfter(b, op) ==
  CASE op.op \in {"cli", "sti"} -> [b EXCEPT !.flagIF = (op.op = "sti")]
    [] op.op = "command" -> [b EXCEPT !.pic[op.pic] = SendCommand(@, op.v)]
    [] op.op = "data" -> [b EXCEPT !.pic[op.pic] = SendData(@, op.v)]

\* No interrupt is taken during the initialization, and the slave is not started
\* before the master has polled it for the last time.
BootLegal(b, op) ==
  /\ b.flagIF => b.pic["m"].cnt # Finished
  /\ op.op = "data" /\ op.pic = "m" /\ EndsInit(b.pic["m"]) => b.pic["s"].cnt # Finished

\* lab[i] is the state in which the guest executes the i-th instruction of s.
Boots(s, lab) ==
  /\ lab \in [1..(Len(s) + 1) -> [pic : [Pics -> PicState], flagIF : BOOLEAN]]
  /\ \A i \in 1..Len(s) : BootLegal(lab[i], s[i]) /\ lab[i + 1] = BootAfter(lab[i], s[i])
  /\ Wired(lab[Len(s) + 1].pic) /\ Acknowledges(lab[Len(s) + 1].pic)

BootsFrom(s, b) == \E lab : Boots(s, lab) /\ lab[1] = b
PoweredOn(g) == [pic |-> [p \in Pics |-> PowerOn(g)], flagIF |-> TRUE]
WellFormed == \A s \in BootScripts, g \in PowerOnBytes : BootsFrom(s, PoweredOn(g))

\* Every EOI of the handlers is a non-specific one.
NonSpecific ==
  \A n \in Byte, p \in Pics : \A i \in Commands(Handler[n], p) :
    EndOfInterrupt(Handler[n][i].v) /\ ~SpecificLine(Handler[n][i].v)

-----------------------------------------------------------------------------
(* What a reader of the interrupt path may rely on.                        *)

\* The line of controller p that interrupt number n occupies: its own, or the
\* cascade line of the master when the slave's device raised it.
LinesOf(p, n) == VectorLines(pic, p, n)

\* The lines whose interrupt is queued, or in a handler that still owes its EOI.
Queued(p) == UNION {LinesOf(p, que[i].id) : i \in {j \in DOMAIN que : que[j].hard}}
OwesEoi(f, p) == Commands(f.todo, p) # {}
InService(p) ==
  Queued(p) \cup UNION {LinesOf(p, frames[i].id) :
                          i \in {j \in DOMAIN frames : OwesEoi(frames[j], p)}}

\* With interrupt gates the in-service register (poll_next_irq, get_next_intr_num
\* and the EOI of send_command) names exactly the interrupts accepted and not yet
\* acknowledged by their handlers; in automatic-EOI mode it stays empty.
IsrMatchesHandlers ==
  \A p \in Pics : pic[p].isr = IF AEOI(pic[p]) THEN {} ELSE InService(p)

\* An EOI clears no line but the one whose handler sends it, although a
\* non-specific EOI (send_command) picks the first line of the isr.
EoiClearsOwnLine ==
  [][\A p \in Pics : HandlerStep => pic[p].isr \ pic'[p].isr \subseteq LinesOf(p, Top.id)]_vars

\* A line is in service only together with an EOI that is still to come; a handler
\* has at most one per controller to send.
EoisOwed(p) ==
  Cardinality({i \in DOMAIN que : que[i].hard /\ LinesOf(p, que[i].id) # {}})
    + Cardinality({i \in DOMAIN frames : OwesEoi(frames[i], p)})
EveryLineOwed == \A p \in Pics : Cardinality(pic[p].isr) <= EoisOwed(p)

\* get_next_intr_num consumes the mark poll_next_irq made: between two chk_irq
\* the master has no marked line that no later poll would look at.
MasterIrrConsumed == pic["m"].irr = {}

\* No line stays marked, blocking itself and those below it, with nobody left to
\* clear it: none in the master's irr (get_next_intr_num), and none in an isr
\* once every accepted interrupt has been handled (send_command).
NoStuckLine == MasterIrrConsumed /\ EveryLineOwed

\* A request chk_irq takes from a device is queued in the same step, as the
\* interrupt of that device's line; only the end of the controllers'
\* initialization may drop one.
DroppedByInit == InMain /\ boot # <<>>
NoRequestLost ==
  [][\A p \in Pics : \A l \in req[p] \ req'[p] :
       \/ DroppedByInit
       \/ que' = Append(que, [id |-> Vector(pic[p], l), hard |-> TRUE])]_vars

\* The comment of poll_next_irq (pic.hpp): if some device generates an interrupt,
\* return true and mark its line in the irr.  A request that was taken from the
\* device is then either still marked, or already queued.
PollMarksLine ==
  [][ChkIrq => \A p \in Pics : \A l \in req[p] \ req'[p] :
                 l \in pic'[p].irr \/ que' # que]_vars

\* A queued hardware interrupt number belongs to a connected device: neither
\* SLAVE_INTR nor the -1 of an empty irr ever reaches the queue.
KnownVectors ==
  \A i \in DOMAIN que : que[i].hard => que[i].id \in Numbers(pic)

\* The CPU never sleeps on undelivered work: when halted it has nothing queued,
\* it is in no handler, and interrupts are on, so that chk_irq can wake it.
HaltWakeable == halt => que = <<>> /\ frames = <<>> /\ flagIF

\* The highest line's request is served, from wherever the guest is: running,
\* halted, in a critical section, or in another handler.
TopLine == Min(MasterDevs)
TopRaised == boot = <<>> /\ TopLine \in req["m"] \ pic["m"].imr
TopHandled == \E i \in DOMAIN frames : TopLine \in LinesOf("m", frames[i].id)
TopServed == TopRaised ~> TopHandled
=============================================================================
