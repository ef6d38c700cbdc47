---------------------------- MODULE InterruptsProofs ----------------------------
(***************************************************************************)
(* Theorems about Interrupts for every wiring, boot program, handler set   *)
(* and nesting discipline that DevsAssumption admits.                      *)
(***************************************************************************)
EXTENDS Interrupts, FiniteSetTheorems, SequenceTheorems, TLAPS

-----------------------------------------------------------------------------
(* The operators of Pic.                                                   *)

(* The scans of poll_next_irq, get_next_intr_num and send_command end on a  *)
(* line of the register they scan, whenever one of its bits is set.         *)
LEMMA MinLine ==
  ASSUME NEW S \in SUBSET Lines, S # {}
  PROVE  Min(S) \in S /\ \A j \in S : Min(S) <= j
<1>1. SUFFICES \E i \in S : \A j \in S : i <= j
  BY DEF Min
<1>2. S \subseteq 0..7
  BY NLinesAssumption DEF Lines
<1>3. CASE 0 \in S
  BY <1>2, <1>3
<1>4. CASE 0 \notin S /\ 1 \in S
  BY <1>2, <1>4
<1>5. CASE S \subseteq 2..7 /\ 2 \in S
  BY <1>5
<1>6. CASE S \subseteq 3..7 /\ 3 \in S
  BY <1>6
<1>7. CASE S \subseteq 4..7 /\ 4 \in S
  BY <1>7
<1>8. CASE S \subseteq 5..7 /\ 5 \in S
  BY <1>8
<1>9. CASE S \subseteq 6..7 /\ 6 \in S
  BY <1>9
<1>10. CASE S \subseteq 7..7
  <2>1. \A i \in S : i = 7
    BY <1>10
  <2> QED
    BY <2>1
<1> QED
  BY <1>2, <1>3, <1>4, <1>5, <1>6, <1>7, <1>8, <1>9, <1>10

(* poll_next_irq takes the request of at most one line, a connected one.    *)
LEMMA PolledLines ==
  ASSUME NEW p \in PicState, NEW raised \in SUBSET Lines
  PROVE  /\ Polled(p, raised) \in SUBSET raised
         /\ \A i, j \in Polled(p, raised) : i = j
         /\ Accepted(p, raised) \in SUBSET Polled(p, raised)
<1>1. CASE raised \ p.imr = {}
  BY <1>1 DEF Polled, Accepted
<1>2. CASE raised \ p.imr # {}
  <2>1. Min(raised \ p.imr) \in raised
    BY <1>2, MinLine
  <2> QED
    BY <2>1 DEF Polled, Accepted
<1> QED
  BY <1>1, <1>2

(* Marking and taking a request keep a controller's registers well-typed,   *)
(* and taking the only marked line leaves none marked.                      *)
LEMMA MarkType ==
  ASSUME NEW p \in PicState, NEW A \in SUBSET Lines
  PROVE  MarkRequest(p, A) \in PicState
BY DEF MarkRequest, PicState

LEMMA TakeType ==
  ASSUME NEW p \in PicState
  PROVE  /\ TakeRequest(p) \in PicState
         /\ (\A i, j \in p.irr : i = j) => TakeRequest(p).irr = {}
<1>1. CASE p.irr = {}
  BY <1>1 DEF TakeRequest
<1>2. CASE p.irr # {}
  <2>1. NextLine(p) \in p.irr
    BY <1>2, MinLine DEF NextLine, PicState
  <2>2. TakeRequest(p) = [p EXCEPT !.isr = IF AEOI(p) THEN @ ELSE @ \cup {NextLine(p)},
                                   !.irr = @ \ {NextLine(p)}]
    BY <1>2 DEF TakeRequest
  <2> DEFINE isr == IF AEOI(p) THEN p.isr ELSE p.isr \cup {NextLine(p)}
             irr == p.irr \ {NextLine(p)}
  <2>3. isr \in SUBSET Lines /\ irr \in SUBSET Lines
    BY <2>1 DEF PicState
  <2>4. TakeRequest(p) = [p EXCEPT !.isr = isr, !.irr = irr]
    BY <2>2
  <2>5. (\A i, j \in p.irr : i = j) => irr = {}
    BY <2>1
  <2> HIDE DEF isr, irr
  <2>6. TakeRequest(p) \in PicState /\ TakeRequest(p).irr = irr
    BY <2>3, <2>4 DEF PicState
  <2> QED
    BY <2>5, <2>6
<1> QED
  BY <1>1, <1>2

(* A byte written to either port keeps the registers well-typed, and no     *)
(* write touches the marked requests.                                       *)
LEMMA PortType ==
  ASSUME NEW p \in PicState, NEW v \in Byte
  PROVE  /\ SendCommand(p, v) \in PicState
         /\ SendData(p, v) \in PicState
         /\ SendCommand(p, v).irr = p.irr
         /\ SendData(p, v).irr = p.irr
<1>1. SendCommand(p, v) \in PicState /\ SendCommand(p, v).irr = p.irr
  <2>1. CASE p.cnt = NotStarted
    BY <2>1 DEF SendCommand, PicState
  <2>2. CASE p.cnt # NotStarted
    BY <2>2 DEF SendCommand, PicState
  <2> QED
    BY <2>1, <2>2
<1>2. LineSet(v) \in SUBSET Lines
  BY DEF LineSet
<1>3. SendData(p, v) \in PicState /\ SendData(p, v).irr = p.irr
  <2>1. p.cnt \in {2, 3, 4} => NextCnt(p) \in {Finished, 3, 4}
    BY DEF NextCnt, EndsInit
  <2>2. CASE p.cnt = 2
    BY <2>1, <2>2 DEF SendData, PicState
  <2>3. CASE p.cnt = 3
    BY <2>1, <2>3 DEF SendData, PicState
  <2>4. CASE p.cnt = 4
    BY <2>1, <2>4 DEF SendData, PicState
  <2>5. CASE p.cnt \notin {2, 3, 4}
    BY <1>2, <2>5 DEF SendData, PicState
  <2> QED
    BY <2>2, <2>3, <2>4, <2>5
<1> QED
  BY <1>1, <1>3

(* The interrupt number of a taken request fits the queue's uint8_t.        *)
LEMMA VectorType ==
  ASSUME NEW p \in PicState
  PROVE  DeviceVector(p) \in Byte
<1>1. CASE p.irr = {}
  BY <1>1 DEF DeviceVector, SlaveIntr, Byte
<1>2. CASE p.irr # {}
  <2>1. NextLine(p) \in 0..7
    BY <1>2, MinLine, NLinesAssumption DEF NextLine, PicState, Lines
  <2>2. VectorBase(p) \in Int
    <3>1. p.icw1 \in Int /\ p.icw2 \in Int
      BY DEF PicState, Byte
    <3> QED
      BY <3>1 DEF VectorBase
  <2> QED
    BY <1>2, <2>1, <2>2 DEF DeviceVector, Byte
<1> QED
  BY <1>1, <1>2

-----------------------------------------------------------------------------
(* Type correctness.                                                       *)

(* What the scan of chk_irq takes and marks, on both controllers.           *)
LEMMA PollLines ==
  ASSUME TypeOK
  PROVE  /\ SlavePolled \in SUBSET Lines /\ SlaveAccepted \in SUBSET Lines
         /\ MasterPolled \in SUBSET Lines /\ MasterAccepted \in SUBSET Lines
         /\ \A i, j \in MasterAccepted : i = j
         /\ AfterPoll \in [Pics -> PicState]
         /\ PollRequests \in [Pics -> SUBSET Lines]
<1>1. /\ pic["m"] \in PicState /\ pic["s"] \in PicState
      /\ req["m"] \in SUBSET Lines /\ req["s"] \in SUBSET Lines
  BY DEF TypeOK, Pics
<1>2. SlavePolled \in SUBSET Lines /\ SlaveAccepted \in SUBSET Lines
  BY <1>1, PolledLines DEF SlavePolled, SlaveAccepted
<1>3. MasterRaised \in SUBSET Lines
  BY <1>1, DevsAssumption DEF MasterRaised
<1>4. /\ MasterPolled \in SUBSET Lines /\ MasterAccepted \in SUBSET Lines
      /\ \A i, j \in MasterAccepted : i = j
  BY <1>1, <1>3, PolledLines DEF MasterPolled, MasterAccepted
<1>5. AfterPoll \in [Pics -> PicState]
  BY <1>1, <1>2, <1>4, MarkType DEF AfterPoll, Pics
<1>6. PollRequests \in [Pics -> SUBSET Lines]
  BY <1>1 DEF PollRequests, Pics
<1> QED
  BY <1>2, <1>4, <1>5, <1>6

LEMMA OutPortType ==
  ASSUME TypeOK, NEW w \in PortWrite, OutPort(w)
  PROVE  /\ pic' \in [Pics -> PicState]
         /\ req' \in [Pics -> SUBSET Lines]
         /\ pic'["m"].irr = pic["m"].irr
<1>1. w.pic \in Pics /\ w.v \in Byte
  BY DEF PortWrite
<1>2. \A q \in Pics : /\ pic[q] \in PicState
                      /\ req[q] \in SUBSET Lines
  BY DEF TypeOK
<1>3. \A q \in Pics : /\ SendCommand(pic[q], w.v) \in PicState
                      /\ SendCommand(pic[q], w.v).irr = pic[q].irr
                      /\ SendData(pic[q], w.v) \in PicState
                      /\ SendData(pic[q], w.v).irr = pic[q].irr
  BY <1>1, <1>2, PortType
<1>4. \A q \in Pics :
        LET polled == Polled(pic[q], req[q])
        IN  MarkRequest(pic[q], {i \in polled : ~Blocked(pic[q], i)}) \in PicState
  <2> TAKE q \in Pics
  <2>1. Polled(pic[q], req[q]) \in SUBSET Lines
    BY <1>2, PolledLines
  <2> QED
    BY <1>2, <2>1, MarkType
<1>5. pic' \in [Pics -> PicState]
  BY <1>2, <1>3, <1>4 DEF OutPort
<1>6. req' \in [Pics -> SUBSET Lines]
  BY <1>2 DEF OutPort
<1>7. pic'["m"].irr = pic["m"].irr
  BY <1>3 DEF OutPort, Pics
<1> QED
  BY <1>5, <1>6, <1>7

LEMMA InitType == Init => TypeOK
<1> SUFFICES ASSUME Init PROVE TypeOK
  OBVIOUS
<1>1. \A g \in Byte : PowerOn(g) \in PicState
  BY DEF PowerOn, PicState, LineSet
<1>2. pic \in [Pics -> PicState]
  <2>1. PICK g \in PowerOnBytes : pic = [p \in Pics |-> PowerOn(g)]
    BY DEF Init
  <2> QED
    BY <1>1, <2>1, DevsAssumption
<1>3. boot \in Seq(BootOp)
  BY DevsAssumption DEF Init
<1>4. que \in Seq(Interrupt) /\ frames \in Seq(Frame)
  BY EmptySeq DEF Init
<1> QED
  BY <1>2, <1>3, <1>4 DEF Init, TypeOK

LEMMA NextType == TypeOK /\ [Next]_vars => TypeOK'
<1> SUFFICES ASSUME TypeOK, [Next]_vars PROVE TypeOK'
  OBVIOUS
<1>1. ASSUME NEW p \in Pics, NEW line \in Lines, Raise(p, line)
      PROVE  TypeOK'
  BY <1>1 DEF Raise, TypeOK
<1>2. CASE ChkIrqFalse
  <2>1. pic' \in [Pics -> PicState] /\ req' \in [Pics -> SUBSET Lines]
    BY <1>2, PollLines DEF ChkIrqFalse, TypeOK
  <2>2. pc' \in {"poll", "handle"}
    BY <1>2 DEF ChkIrqFalse, AfterNoIrq
  <2> QED
    BY <1>2, <2>1, <2>2 DEF ChkIrqFalse, TypeOK
<1>3. CASE ChkIrqTrue
  <2>1. AfterPoll["m"] \in PicState /\ AfterPoll["s"] \in PicState
    BY PollLines DEF Pics
  <2>2. pic' \in [Pics -> PicState]
    BY <1>3, <2>1, PollLines, TakeType DEF ChkIrqTrue, Pics
  <2>3. req' \in [Pics -> SUBSET Lines]
    BY <1>3, PollLines DEF ChkIrqTrue
  <2>4. NextVector \in Byte
    BY <2>1, VectorType DEF NextVector, MasterVector, SlaveIntr, Byte
  <2>5. que' \in Seq(Interrupt)
    <3> DEFINE intr == [id |-> NextVector, hard |-> TRUE]
    <3>1. intr \in Interrupt
      BY <2>4 DEF Interrupt
    <3>2. que' = que \/ que' = Append(que, intr)
      BY <1>3 DEF ChkIrqTrue
    <3> HIDE DEF intr
    <3>3. que \in Seq(Interrupt)
      BY DEF TypeOK
    <3>4. Append(que, intr) \in Seq(Interrupt)
      BY <3>1, <3>3, AppendProperties
    <3> QED
      BY <3>2, <3>3, <3>4
  <2>6. pc' \in {"handle", "exit"} /\ halt' \in BOOLEAN
    BY <1>3 DEF ChkIrqTrue, TypeOK
  <2> QED
    BY <1>3, <2>2, <2>3, <2>5, <2>6 DEF ChkIrqTrue, TypeOK
<1>4. CASE HundleInterrupt
  <2>1. CASE que = <<>>
    BY <1>4, <2>1 DEF HundleInterrupt, TypeOK
  <2>2. CASE que # <<>>
    <3>1. Head(que) \in Interrupt /\ Tail(que) \in Seq(Interrupt)
      BY <2>2 DEF TypeOK
    <3>2. Handler[Head(que).id] \in Seq(HandlerOp)
      BY <3>1, DevsAssumption DEF Interrupt
    <3>3. frames' \in Seq(Frame)
      <4> DEFINE f == [id |-> Head(que).id, flagIF |-> flagIF,
                       todo |-> Handler[Head(que).id]]
      <4>1. f \in Frame
        BY <3>1, <3>2 DEF Frame, Interrupt, TypeOK
      <4>2. frames' = Append(frames, f)
        BY <1>4, <2>2 DEF HundleInterrupt
      <4> QED
        BY <4>1, <4>2, AppendProperties DEF TypeOK
    <3>4. flagIF' \in BOOLEAN
      BY <1>4, <2>2 DEF HundleInterrupt, HandlerIF
    <3> QED
      BY <1>4, <2>2, <3>1, <3>3, <3>4 DEF HundleInterrupt, TypeOK
  <2> QED
    BY <2>1, <2>2
<1>5. CASE Boot
  <2>1. Head(boot) \in BootOp /\ boot' \in Seq(BootOp)
    BY <1>5 DEF Boot, TypeOK
  <2>2. /\ pic' \in [Pics -> PicState]
        /\ req' \in [Pics -> SUBSET Lines]
        /\ flagIF' \in BOOLEAN
    BY <1>5, <2>1, OutPortType DEF Boot, TypeOK
  <2> QED
    BY <1>5, <2>1, <2>2 DEF Boot, TypeOK
<1>6. CASE Nop \/ Cli \/ Sti \/ Hlt
  BY <1>6 DEF Nop, Cli, Sti, Hlt, TypeOK
<1>7. ASSUME NEW n \in SoftVectors, IntImm8(n)
      PROVE  TypeOK'
  <2>1. [id |-> n, hard |-> FALSE] \in Interrupt
    BY DevsAssumption DEF Interrupt
  <2> QED
    BY <1>7, <2>1 DEF IntImm8, TypeOK
<1>8. CASE HandlerStep
  <2>1. frames # <<>> /\ Depth \in 1..Len(frames)
    BY <1>8 DEF HandlerStep, InHandler, Depth, TypeOK
  <2>2. Top \in Frame /\ Tail(Top.todo) \in Seq(HandlerOp)
    <3>1. Top \in Frame
      BY <2>1 DEF Top, TypeOK
    <3>2. Top.todo \in Seq(HandlerOp) /\ Top.todo # <<>>
      BY <1>8, <3>1 DEF HandlerStep, Frame
    <3> QED
      BY <3>1, <3>2, HeadTailProperties
  <2>3. [Top EXCEPT !.todo = Tail(@)] \in Frame
    BY <2>2 DEF Frame
  <2>4. frames' = [frames EXCEPT ![Depth] = [Top EXCEPT !.todo = Tail(@)]]
    BY <1>8 DEF HandlerStep, Top
  <2>5. frames' \in Seq(Frame)
    BY <2>1, <2>3, <2>4, ExceptSeq DEF TypeOK
  <2>6. pic' \in [Pics -> PicState] /\ req' \in [Pics -> SUBSET Lines]
    BY <1>8, OutPortType DEF HandlerStep, TypeOK
  <2> QED
    BY <1>8, <2>5, <2>6 DEF HandlerStep, TypeOK
<1>9. CASE Iret
  <2>1. frames # <<>> /\ Depth \in 1..Len(frames)
    BY <1>9 DEF Iret, InHandler, Depth, TypeOK
  <2>2. Top \in Frame
    BY <2>1 DEF Top, TypeOK
  <2>3. frames' \in Seq(Frame)
    BY <1>9, <2>1, SubSeqProperties DEF Iret, Depth, TypeOK
  <2> QED
    BY <1>9, <2>2, <2>3 DEF Iret, Frame, TypeOK
<1>10. CASE UNCHANGED vars
  BY <1>10 DEF vars, TypeOK
<1> QED
  BY <1>1, <1>2, <1>3, <1>4, <1>5, <1>6, <1>7, <1>8, <1>9, <1>10
     DEF Next, Cpu, ChkIrq, Exec

(* Every state the interrupt path reaches is well-typed: in particular the  *)
(* initialization counter stays within the words it counts, and no index    *)
(* leaves the lines' range.                                                 *)
THEOREM TypeCorrect == Spec => []TypeOK
BY InitType, NextType, PTL DEF Spec

-----------------------------------------------------------------------------
(* Nothing stays marked in the master's irr.                               *)

LEMMA MasterIrrStep ==
  TypeOK /\ MasterIrrConsumed /\ [Next]_vars => MasterIrrConsumed'
<1> SUFFICES ASSUME TypeOK, MasterIrrConsumed, [Next]_vars
             PROVE  MasterIrrConsumed'
  OBVIOUS
<1> USE DEF MasterIrrConsumed
<1>1. /\ AfterPoll["m"] \in PicState
      /\ AfterPoll["m"].irr = MasterAccepted
  BY PollLines DEF AfterPoll, MarkRequest, TypeOK, Pics, PicState
<1>2. CASE ChkIrqFalse
  BY <1>1, <1>2 DEF ChkIrqFalse
<1>3. CASE ChkIrqTrue
  <2>1. pic'["m"] = TakeRequest(AfterPoll["m"])
    BY <1>3, PollLines DEF ChkIrqTrue, Pics
  <2> QED
    BY <1>1, <2>1, PollLines, TakeType
<1>4. CASE Boot
  <2>1. Head(boot) \in BootOp
    BY <1>4 DEF Boot, TypeOK
  <2> QED
    BY <1>4, <2>1, OutPortType DEF Boot
<1>5. CASE HandlerStep
  BY <1>5, OutPortType DEF HandlerStep
<1>6. CASE UNCHANGED pic
  BY <1>6
<1> QED
  BY <1>2, <1>3, <1>4, <1>5, <1>6
     DEF Next, Cpu, ChkIrq, Exec, Raise, HundleInterrupt, Nop, Cli, Sti, Hlt,
         IntImm8, Iret, vars

(* Between two chk_irq the master has no request marked and forgotten: what *)
(* poll_next_irq marks, get_next_intr_num takes.                            *)
THEOREM IrrConsumed == Spec => []MasterIrrConsumed
<1>1. Init => MasterIrrConsumed
  BY DEF Init, MasterIrrConsumed, PowerOn, Pics
<1> QED
  BY <1>1, MasterIrrStep, TypeCorrect, PTL DEF Spec

-----------------------------------------------------------------------------
(* A halted CPU can be woken.                                              *)

(* HaltWakeable alone is not inductive: hlt must be known to run only when  *)
(* the queue is empty.  It is, because hundle_interrupt has emptied it by   *)
(* the time an instruction runs outside every handler: dispatching would    *)
(* have entered one.                                                        *)
HaltInv ==
  /\ HaltWakeable
  /\ halt => pc \in {"poll", "exit"}
  /\ InMain => que = <<>>

LEMMA HaltStep == TypeOK /\ HaltInv /\ [Next]_vars => HaltInv'
<1> SUFFICES ASSUME TypeOK, HaltInv, [Next]_vars
             PROVE  HaltInv'
  OBVIOUS
<1> USE DEF HaltInv, HaltWakeable, InMain
<1>1. ASSUME NEW p \in Pics, NEW line \in Lines, Raise(p, line)
      PROVE  HaltInv'
  BY <1>1 DEF Raise
<1>2. CASE ChkIrqFalse
  BY <1>2 DEF ChkIrqFalse, AfterNoIrq, TypeOK
<1>3. CASE ChkIrqTrue
  BY <1>3 DEF ChkIrqTrue, TypeOK
<1>4. CASE HundleInterrupt
  <2>1. CASE que = <<>>
    BY <1>4, <2>1 DEF HundleInterrupt
  <2>2. CASE que # <<>>
    <3>1. ~halt
      BY <2>2
    <3>2. frames' # <<>>
      BY <1>4, <2>2, AppendProperties DEF HundleInterrupt, TypeOK
    <3> QED
      BY <1>4, <3>1, <3>2 DEF HundleInterrupt
  <2> QED
    BY <2>1, <2>2
<1>5. CASE Boot
  BY <1>5 DEF Boot
<1>6. CASE Nop \/ Cli \/ Sti \/ Hlt
  BY <1>6 DEF Nop, Cli, Sti, Hlt, Ready
<1>7. ASSUME NEW n \in SoftVectors, IntImm8(n)
      PROVE  HaltInv'
  BY <1>7 DEF IntImm8, Ready
<1>8. CASE HandlerStep
  BY <1>8 DEF HandlerStep, InHandler
<1>9. CASE Iret
  BY <1>9 DEF Iret, InHandler
<1>10. CASE UNCHANGED vars
  BY <1>10 DEF vars
<1> QED
  BY <1>1, <1>2, <1>3, <1>4, <1>5, <1>6, <1>7, <1>8, <1>9, <1>10
     DEF Next, Cpu, ChkIrq, Exec

(* The CPU never sleeps on undelivered work, whatever the wiring, the guest *)
(* and the nesting: no queued interrupt waits for a wake-up that only       *)
(* another interrupt could give.                                            *)
THEOREM HaltSafe == Spec => []HaltWakeable
<1>1. Init => HaltInv
  BY DEF Init, HaltInv, HaltWakeable, InMain
<1>2. HaltInv => HaltWakeable
  BY DEF HaltInv
<1> QED
  BY <1>1, <1>2, HaltStep, TypeCorrect, PTL DEF Spec

-----------------------------------------------------------------------------
(* Well-formed guests: what stays true of the controllers' set-up.         *)

SameSetUp(P, Q) ==
  \A p \in Pics : /\ Q[p].cnt = P[p].cnt
                  /\ Q[p].icw1 = P[p].icw1 /\ Q[p].icw2 = P[p].icw2
                  /\ Q[p].icw3 = P[p].icw3 /\ Q[p].icw4 = P[p].icw4

(* Which number a line has, and whether the set-up is a legal one, is        *)
(* decided by the initialization words alone.                               *)
LEMMA SetUpDecides ==
  ASSUME NEW P, NEW Q, SameSetUp(P, Q)
  PROVE  /\ \A p \in Pics : AEOI(Q[p]) = AEOI(P[p])
         /\ \A p \in Pics : \A l : Vector(Q[p], l) = Vector(P[p], l)
         /\ \A p \in Pics : \A n : VectorLines(Q, p, n) = VectorLines(P, p, n)
         /\ Numbers(Q) = Numbers(P)
         /\ Wired(P) => Wired(Q)
         /\ Acknowledges(P) => Acknowledges(Q)
<1>1. \A p \in Pics : /\ AEOI(Q[p]) = AEOI(P[p]) /\ SNGL(Q[p]) = SNGL(P[p])
                      /\ SlaveId(Q[p]) = SlaveId(P[p])
                      /\ \A l : SlaveOnLine(Q[p], l) = SlaveOnLine(P[p], l)
                      /\ VectorBase(Q[p]) = VectorBase(P[p])
  BY DEF SameSetUp, AEOI, SNGL, SlaveId, SlaveOnLine, VectorBase, PM
<1>2. \A p \in Pics : \A l : Vector(Q[p], l) = Vector(P[p], l)
  BY <1>1 DEF Vector
<1>3. "m" \in Pics /\ "s" \in Pics
  BY DEF Pics
<1>4. \A p \in Pics : \A n : VectorLines(Q, p, n) = VectorLines(P, p, n)
  BY <1>2, <1>3 DEF VectorLines
<1>5. Numbers(Q) = Numbers(P)
  <2>1. \A p \in Pics : {Vector(Q[p], d) : d \in Devs[p]} = {Vector(P[p], d) : d \in Devs[p]}
    BY <1>2
  <2> QED
    BY <2>1 DEF Numbers
<1>6. Wired(P) => Wired(Q)
  BY <1>1, <1>2, <1>3 DEF Wired, SameSetUp
<1>7. Acknowledges(P) => Acknowledges(Q)
  BY <1>4, <1>5 DEF Acknowledges
<1> QED
  BY <1>1, <1>2, <1>4, <1>5, <1>6, <1>7

(* Once the initialization is finished no byte of the guest changes it, and *)
(* a write to one controller leaves the other alone.                        *)
LEMMA FinishedPorts ==
  ASSUME NEW p \in PicState, p.cnt = Finished, NEW v
  PROVE  /\ SendCommand(p, v) = [p EXCEPT !.isr = @ \ EoiLines(p, v)]
         /\ SendData(p, v) = [p EXCEPT !.imr = LineSet(v)]
         /\ ~EndsInit(p)
BY DEF SendCommand, SendData, EndsInit, Finished, NotStarted

LEMMA FinishedOutPort ==
  ASSUME TypeOK, NEW w \in PortWrite, OutPort(w),
         pic["m"].cnt = Finished, pic["s"].cnt = Finished
  PROVE  /\ req' = req
         /\ \A q \in Pics : pic'[q] =
              IF q # w.pic THEN pic[q]
              ELSE IF w.op = "command"
                   THEN [pic[q] EXCEPT !.isr = @ \ EoiLines(pic[q], w.v)]
                   ELSE [pic[q] EXCEPT !.imr = LineSet(w.v)]
         /\ SameSetUp(pic, pic')
<1>1. \A q \in Pics : pic[q] \in PicState /\ pic[q].cnt = Finished
  BY DEF TypeOK, Pics
<1>2. w.pic \in Pics
  BY DEF PortWrite
<1>3. ~Drains(w)
  BY <1>1, <1>2, FinishedPorts DEF Drains
<1>4. req' = req
  BY <1>3 DEF OutPort, TypeOK
<1>5. \A q \in Pics : pic'[q] =
        IF q # w.pic THEN pic[q]
        ELSE IF w.op = "command"
             THEN [pic[q] EXCEPT !.isr = @ \ EoiLines(pic[q], w.v)]
             ELSE [pic[q] EXCEPT !.imr = LineSet(w.v)]
  BY <1>1, <1>3, FinishedPorts DEF OutPort
<1>6. SameSetUp(pic, pic')
  BY <1>1, <1>5 DEF SameSetUp, PicState
<1> QED
  BY <1>4, <1>5, <1>6

-----------------------------------------------------------------------------
(* Well-formed guests: the initialization.                                 *)

BootState == [pic : [Pics -> PicState], flagIF : BOOLEAN]
Here == [pic |-> pic, flagIF |-> flagIF]

(* One instruction of the initialization, seen on its labels.               *)
LEMMA BootTail ==
  ASSUME NEW s \in Seq(BootOp), s # <<>>, NEW b, BootsFrom(s, b)
  PROVE  /\ BootLegal(b, Head(s))
         /\ BootsFrom(Tail(s), BootAfter(b, Head(s)))
<1>1. PICK lab : Boots(s, lab) /\ lab[1] = b
  BY DEF BootsFrom
<1> DEFINE rest == [i \in 1..(Len(s) - 1 + 1) |-> lab[i + 1]]
<1>2. /\ Len(s) \in Nat /\ Len(s) >= 1 /\ Head(s) = s[1]
      /\ Len(Tail(s)) = Len(s) - 1
      /\ \A i \in 1..(Len(s) - 1) : Tail(s)[i] = s[i + 1]
  OBVIOUS
<1>3. lab \in [1..(Len(s) + 1) -> BootState]
  BY <1>1 DEF Boots, BootState
<1>4. \A i \in 1..Len(s) : BootLegal(lab[i], s[i]) /\ lab[i + 1] = BootAfter(lab[i], s[i])
  BY <1>1 DEF Boots
<1>5. BootLegal(b, Head(s)) /\ lab[2] = BootAfter(b, Head(s))
  <2>1. 1 \in 1..Len(s) /\ 1 + 1 = 2
    BY <1>2
  <2> QED
    BY <1>1, <1>2, <1>4, <2>1
<1>6. Boots(Tail(s), rest)
  <2>1. rest \in [1..(Len(Tail(s)) + 1) -> BootState]
    BY <1>2, <1>3
  <2>2. ASSUME NEW i \in 1..Len(Tail(s))
        PROVE  /\ BootLegal(rest[i], Tail(s)[i])
               /\ rest[i + 1] = BootAfter(rest[i], Tail(s)[i])
    <3>1. /\ i + 1 \in 1..Len(s) /\ Tail(s)[i] = s[i + 1]
          /\ rest[i] = lab[i + 1] /\ rest[i + 1] = lab[(i + 1) + 1]
      BY <1>2
    <3> QED
      BY <1>4, <3>1
  <2>3. rest[Len(Tail(s)) + 1] = lab[Len(s) + 1]
    BY <1>2
  <2> HIDE DEF rest
  <2>4. Wired(rest[Len(Tail(s)) + 1].pic) /\ Acknowledges(rest[Len(Tail(s)) + 1].pic)
    BY <1>1, <2>3 DEF Boots
  <2> QED
    BY <2>1, <2>2, <2>4 DEF Boots, BootState
<1>7. rest[1] = lab[2]
  BY <1>2
<1> QED
  BY <1>5, <1>6, <1>7 DEF BootsFrom

(* The labels of a finished initialization.                                 *)
LEMMA BootEnd ==
  ASSUME NEW b, BootsFrom(<<>>, b)
  PROVE  Wired(b.pic) /\ Acknowledges(b.pic)
<1>1. PICK lab : Boots(<<>>, lab) /\ lab[1] = b
  BY DEF BootsFrom
<1>2. Len(<<>>) + 1 = 1
  OBVIOUS
<1> QED
  BY <1>1, <1>2 DEF Boots

-----------------------------------------------------------------------------
(* Well-formed guests: the inductive invariant.                            *)

\* P stands for the registers.  What a handler of interrupt n still has to
\* send: nothing to a controller it did not come through, at most its own EOI
\* to the others.
Pending(P, n, todo, p) ==
  \/ Commands(todo, p) = {}
  \/ /\ VectorLines(P, p, n) # {}
     /\ \E i \in DOMAIN todo :
          /\ Commands(todo, p) = {i}
          /\ \A l \in VectorLines(P, p, n) : Acknowledgement(todo[i].v, l)

BootInv ==
  boot # <<>> =>
    /\ que = <<>> /\ frames = <<>>
    /\ BootsFrom(boot, Here)
    /\ \A p \in Pics : pic[p].irr = {} /\ pic[p].isr = {}

SetUpInv == boot = <<>> => Wired(pic) /\ Acknowledges(pic)

LineInv ==
  /\ \A p \in Pics : req[p] \subseteq Devs[p]
  /\ pic["m"].irr = {} /\ pic["s"].irr \subseteq SlaveDevs

WorkInv ==
  /\ \A i \in DOMAIN que :
       que[i].id \in IF que[i].hard THEN Numbers(pic) ELSE SoftVectors
  /\ \A i \in DOMAIN frames :
       /\ frames[i].id \in Numbers(pic) \cup SoftVectors
       /\ \A p \in Pics : Pending(pic, frames[i].id, frames[i].todo, p)

GuestInv == BootInv /\ SetUpInv /\ LineInv /\ WorkInv

(* The lines interrupt number n occupies are those it came through: the     *)
(* device's own, and the cascade line for the slave's.                      *)
LEMMA OwnLines ==
  ASSUME NEW P, Wired(P), NEW p \in Pics, NEW l \in Devs[p]
  PROVE  LET n == Vector(P[p], l)
         IN  /\ VectorLines(P, "m", n) = IF p = "m" THEN {l} ELSE {Cascade}
             /\ VectorLines(P, "s", n) = IF p = "s" THEN {l} ELSE {}
             /\ n \in Numbers(P)
<1> DEFINE n == Vector(P[p], l)
<1>1. \A q \in Pics : \A e \in Devs[q] : n = Vector(P[q], e) => q = p /\ e = l
  BY DEF Wired
<1>2. Devs["m"] = MasterDevs /\ Devs["s"] = SlaveDevs /\ "m" \in Pics /\ "s" \in Pics
  BY DEF Devs, Pics
<1>3. n \in Numbers(P)
  BY DEF Numbers
<1>4. CASE p = "m"
  <2>1. ~ \E d \in SlaveDevs : n = Vector(P["s"], d)
    BY <1>1, <1>2, <1>4
  <2>2. {e \in MasterDevs : n = Vector(P["m"], e)} = {l}
    BY <1>1, <1>2, <1>4
  <2>3. {e \in SlaveDevs : n = Vector(P["s"], e)} = {}
    BY <2>1
  <2> QED
    BY <1>2, <1>3, <1>4, <2>1, <2>2, <2>3 DEF VectorLines
<1>5. CASE p = "s"
  <2>1. {e \in MasterDevs : n = Vector(P["m"], e)} = {}
    BY <1>1, <1>2, <1>5
  <2>2. {e \in SlaveDevs : n = Vector(P["s"], e)} = {l}
    BY <1>1, <1>2, <1>5
  <2>3. \E d \in SlaveDevs : n = Vector(P["s"], d)
    BY <1>2, <1>5
  <2> QED
    BY <1>2, <1>3, <1>5, <2>1, <2>2, <2>3 DEF VectorLines
<1> QED
  BY <1>4, <1>5 DEF Pics

LEMMA OwnLine ==
  ASSUME NEW P, Wired(P), NEW p \in Pics, NEW l \in Devs[p], NEW q \in Pics
  PROVE  VectorLines(P, q, Vector(P[p], l)) =
           IF q = p THEN {l} ELSE IF q = "m" THEN {Cascade} ELSE {}
<1> DEFINE n == Vector(P[p], l)
<1>1. /\ VectorLines(P, "m", n) = IF p = "m" THEN {l} ELSE {Cascade}
      /\ VectorLines(P, "s", n) = IF p = "s" THEN {l} ELSE {}
  BY OwnLines
<1> HIDE DEF n
<1>2. VectorLines(P, q, n) =
        IF q = p THEN {l} ELSE IF q = "m" THEN {Cascade} ELSE {}
  BY <1>1 DEF Pics
<1> QED
  BY <1>2 DEF n

(* Where the requests poll_next_irq takes and marks come from.              *)
LEMMA ScanLines ==
  ASSUME TypeOK, LineInv
  PROVE  /\ SlavePolled \subseteq req["s"] /\ SlaveAccepted \subseteq SlavePolled
         /\ \A i, j \in SlavePolled : i = j
         /\ MasterPolled \subseteq req["m"] \cup {l \in {Cascade} : SlaveAccepted # {}}
         /\ MasterAccepted \subseteq MasterPolled
         /\ \A i, j \in MasterPolled : i = j
<1>1. /\ pic["m"] \in PicState /\ pic["s"] \in PicState
      /\ req["m"] \in SUBSET Lines /\ req["s"] \in SUBSET Lines
  BY DEF TypeOK, Pics
<1>2. /\ SlavePolled \subseteq req["s"] /\ SlaveAccepted \subseteq SlavePolled
      /\ \A i, j \in SlavePolled : i = j
  BY <1>1, PolledLines DEF SlavePolled, SlaveAccepted
<1>3. MasterRaised \in SUBSET Lines
  BY <1>1, DevsAssumption DEF MasterRaised
<1>4. /\ MasterPolled \subseteq MasterRaised /\ MasterAccepted \subseteq MasterPolled
      /\ \A i, j \in MasterPolled : i = j
  BY <1>1, <1>3, PolledLines DEF MasterPolled, MasterAccepted
<1> QED
  BY <1>2, <1>4 DEF MasterRaised

(* Marking a request touches no other register; taking it moves it to the   *)
(* isr, unless EOIs are automatic.                                          *)
LEMMA MarkFields ==
  ASSUME NEW p \in PicState, NEW A \in SUBSET Lines
  PROVE  LET r == MarkRequest(p, A)
         IN  /\ r.cnt = p.cnt /\ r.icw1 = p.icw1 /\ r.icw2 = p.icw2
             /\ r.icw3 = p.icw3 /\ r.icw4 = p.icw4
             /\ r.isr = p.isr /\ r.imr = p.imr /\ r.irr = p.irr \cup A
             /\ A = {} => r = p
<1>1. A = {} => p.irr \cup A = p.irr
  OBVIOUS
<1> QED
  BY <1>1 DEF MarkRequest, PicState

LEMMA TakeFields ==
  ASSUME NEW p \in PicState, p.irr # {}
  PROVE  LET r == TakeRequest(p)
         IN  /\ r.cnt = p.cnt /\ r.icw1 = p.icw1 /\ r.icw2 = p.icw2
             /\ r.icw3 = p.icw3 /\ r.icw4 = p.icw4
             /\ r.isr = IF AEOI(p) THEN p.isr ELSE p.isr \cup {NextLine(p)}
             /\ r.irr = p.irr \ {NextLine(p)}
             /\ NextLine(p) \in p.irr
<1>1. NextLine(p) \in p.irr
  BY MinLine DEF NextLine, PicState
<1> DEFINE isr == IF AEOI(p) THEN p.isr ELSE p.isr \cup {NextLine(p)}
           irr == p.irr \ {NextLine(p)}
<1>2. TakeRequest(p) = [p EXCEPT !.isr = isr, !.irr = irr]
  BY DEF TakeRequest
<1> HIDE DEF isr, irr
<1>3. LET r == TakeRequest(p)
      IN  /\ r.cnt = p.cnt /\ r.icw1 = p.icw1 /\ r.icw2 = p.icw2
          /\ r.icw3 = p.icw3 /\ r.icw4 = p.icw4 /\ r.isr = isr /\ r.irr = irr
  BY <1>2 DEF PicState
<1> QED
  BY <1>1, <1>3 DEF isr, irr

-----------------------------------------------------------------------------
(* Well-formed guests: the interrupt chk_irq accepts.                      *)

(* An accepted interrupt is that of line l of controller p.                 *)
Accepts(p, l) ==
  /\ que' = Append(que, [id |-> Vector(pic[p], l), hard |-> TRUE])
  /\ pc' = "handle"
  /\ SameSetUp(pic, pic')
  /\ \A q \in Pics :
       pic'[q].isr = IF AEOI(pic[q]) THEN pic[q].isr
                     ELSE pic[q].isr \cup VectorLines(pic, q, Vector(pic[p], l))
  /\ pic'["m"].irr = {}
  /\ pic'["s"].irr = IF p = "s" THEN (pic["s"].irr \cup SlaveAccepted) \ {l}
                                ELSE pic["s"].irr \cup SlaveAccepted
  /\ p = "m" => l \in MasterAccepted
  /\ p = "s" => MasterAccepted = {Cascade} /\ l \in pic["s"].irr \cup SlaveAccepted

(* Neither SLAVE_INTR nor the -1 of an empty irr reaches the queue, and the *)
(* slave's DEBUG_ERROR is not reached: the number queued is that of a       *)
(* device, and both controllers keep count of it.                           *)
LEMMA AcceptedDevice ==
  ASSUME TypeOK, LineInv, Wired(pic), ChkIrqTrue
  PROVE  \E p \in Pics : \E l \in Devs[p] : Accepts(p, l)
<1> DEFINE m == AfterPoll["m"]
           s == AfterPoll["s"]
<1>1. /\ pic["m"] \in PicState /\ pic["s"] \in PicState
      /\ pic["m"].irr = {} /\ pic["s"].irr \subseteq SlaveDevs
      /\ req["m"] \subseteq MasterDevs /\ req["s"] \subseteq SlaveDevs
      /\ "m" \in Pics /\ "s" \in Pics
  BY DEF TypeOK, LineInv, Pics, Devs
<1>2. /\ SlaveAccepted \in SUBSET Lines /\ MasterAccepted \in SUBSET Lines
      /\ SlaveAccepted \subseteq SlaveDevs
      /\ \A i, j \in MasterAccepted : i = j
      /\ MasterAccepted \subseteq MasterDevs \cup {l \in {Cascade} : SlaveAccepted # {}}
  BY <1>1, PollLines, ScanLines
<1>3. /\ m = MarkRequest(pic["m"], MasterAccepted)
      /\ s = MarkRequest(pic["s"], SlaveAccepted)
      /\ m \in PicState /\ s \in PicState
  BY <1>1, PollLines DEF AfterPoll
<1> HIDE DEF m, s
<1>4. /\ m.icw1 = pic["m"].icw1 /\ m.icw2 = pic["m"].icw2 /\ m.icw3 = pic["m"].icw3
      /\ m.icw4 = pic["m"].icw4 /\ m.cnt = pic["m"].cnt
      /\ m.isr = pic["m"].isr /\ m.irr = MasterAccepted
  <2>1. pic["m"].irr \cup MasterAccepted = MasterAccepted
    BY <1>1
  <2>2. m.irr = pic["m"].irr \cup MasterAccepted
    BY <1>1, <1>2, <1>3, MarkFields
  <2>3. /\ m.icw1 = pic["m"].icw1 /\ m.icw2 = pic["m"].icw2 /\ m.icw3 = pic["m"].icw3
        /\ m.icw4 = pic["m"].icw4 /\ m.cnt = pic["m"].cnt /\ m.isr = pic["m"].isr
    BY <1>1, <1>2, <1>3, MarkFields
  <2> QED
    BY <2>1, <2>2, <2>3
<1>5. /\ s.icw1 = pic["s"].icw1 /\ s.icw2 = pic["s"].icw2 /\ s.icw3 = pic["s"].icw3
      /\ s.icw4 = pic["s"].icw4 /\ s.cnt = pic["s"].cnt
      /\ s.isr = pic["s"].isr /\ s.irr = pic["s"].irr \cup SlaveAccepted
  BY <1>1, <1>2, <1>3, MarkFields
<1>6. /\ SNGL(m) = SNGL(pic["m"]) /\ SlaveId(s) = SlaveId(pic["s"])
      /\ \A l : SlaveOnLine(m, l) = SlaveOnLine(pic["m"], l)
      /\ VectorBase(m) = VectorBase(pic["m"]) /\ VectorBase(s) = VectorBase(pic["s"])
      /\ AEOI(m) = AEOI(pic["m"]) /\ AEOI(s) = AEOI(pic["s"])
  BY <1>4, <1>5 DEF SNGL, SlaveId, SlaveOnLine, VectorBase, AEOI, PM
<1>7. MasterAccepted # {} /\ m.irr # {}
  BY <1>4 DEF ChkIrqTrue
<1>8. PICK a \in MasterAccepted : MasterAccepted = {a} /\ a = NextLine(m)
  <2>1. NextLine(m) \in m.irr
    BY <1>3, <1>7, TakeFields
  <2> QED
    BY <1>2, <1>4, <2>1
<1>9. ~Misconnected(s, m)
  BY <1>6 DEF Misconnected, Wired
<1>10. /\ pic' = [AfterPoll EXCEPT
                    !["m"] = TakeRequest(@),
                    !["s"] = IF MasterVector = SlaveIntr THEN TakeRequest(@) ELSE @]
       /\ que' = Append(que, [id |-> NextVector, hard |-> TRUE])
       /\ pc' = "handle"
  BY <1>9 DEF ChkIrqTrue, m, s
<1>11. /\ pic'["m"] = TakeRequest(m)
       /\ pic'["s"] = IF MasterVector = SlaveIntr THEN TakeRequest(s) ELSE s
  BY <1>1, <1>10, PollLines DEF m, s
<1>12. /\ pic'["m"].cnt = pic["m"].cnt /\ pic'["m"].icw1 = pic["m"].icw1
       /\ pic'["m"].icw2 = pic["m"].icw2 /\ pic'["m"].icw3 = pic["m"].icw3
       /\ pic'["m"].icw4 = pic["m"].icw4 /\ pic'["m"].irr = {}
       /\ pic'["m"].isr = IF AEOI(pic["m"]) THEN pic["m"].isr
                          ELSE pic["m"].isr \cup {a}
  <2>1. m.irr \ {a} = {}
    BY <1>4, <1>8
  <2> QED
    BY <1>3, <1>4, <1>6, <1>7, <1>8, <1>11, <2>1, TakeFields
<1>13. CASE a \in MasterDevs
  <2>1. MasterVector = Vector(pic["m"], a) /\ MasterVector # SlaveIntr
    BY <1>6, <1>7, <1>8, <1>13 DEF MasterVector, FromSlave, DeviceVector, Vector, Wired, m
  <2>2. pic'["s"] = s /\ NextVector = Vector(pic["m"], a)
    BY <1>11, <2>1 DEF NextVector
  <2>3. SameSetUp(pic, pic')
    BY <1>5, <1>12, <2>2 DEF SameSetUp, Pics
  <2>4. a \in Devs["m"]
    BY <1>13 DEF Devs
  <2>5. /\ VectorLines(pic, "m", Vector(pic["m"], a)) = {a}
        /\ VectorLines(pic, "s", Vector(pic["m"], a)) = {}
    BY <1>1, <2>4, OwnLines
  <2>6. Accepts("m", a)
    BY <1>5, <1>8, <1>10, <1>12, <2>2, <2>3, <2>5 DEF Accepts, Pics
  <2> QED
    BY <1>1, <2>4, <2>6
<1>14. CASE a \notin MasterDevs
  <2>1. a = Cascade /\ SlaveAccepted # {}
    BY <1>2, <1>14
  <2>2. MasterVector = SlaveIntr
    BY <1>6, <1>7, <1>8, <2>1 DEF MasterVector, FromSlave, Wired, m
  <2>3. s.irr # {} /\ s.irr \subseteq SlaveDevs
    BY <1>1, <1>2, <1>5, <2>1
  <2> DEFINE l == NextLine(s)
  <2>4. l \in SlaveDevs /\ l \in Devs["s"]
    BY <1>3, <2>3, TakeFields DEF Devs
  <2>5. NextVector = Vector(pic["s"], l)
    BY <1>6, <2>2, <2>3 DEF NextVector, DeviceVector, Vector, s
  <2>10. pic'["s"] = TakeRequest(s)
    BY <1>11, <2>2
  <2>11. LET r == TakeRequest(s)
         IN  /\ r.cnt = s.cnt /\ r.icw1 = s.icw1 /\ r.icw2 = s.icw2
             /\ r.icw3 = s.icw3 /\ r.icw4 = s.icw4
             /\ r.isr = IF AEOI(s) THEN s.isr ELSE s.isr \cup {l}
             /\ r.irr = s.irr \ {l}
    BY <1>3, <2>3, TakeFields
  <2> HIDE DEF l
  <2>6. /\ pic'["s"].cnt = pic["s"].cnt /\ pic'["s"].icw1 = pic["s"].icw1
        /\ pic'["s"].icw2 = pic["s"].icw2 /\ pic'["s"].icw3 = pic["s"].icw3
        /\ pic'["s"].icw4 = pic["s"].icw4
        /\ pic'["s"].irr = (pic["s"].irr \cup SlaveAccepted) \ {l}
        /\ pic'["s"].isr = IF AEOI(pic["s"]) THEN pic["s"].isr
                           ELSE pic["s"].isr \cup {l}
    BY <1>5, <1>6, <2>10, <2>11
  <2>7. SameSetUp(pic, pic')
    BY <1>12, <2>6 DEF SameSetUp, Pics
  <2>8. /\ VectorLines(pic, "m", Vector(pic["s"], l)) = {Cascade}
        /\ VectorLines(pic, "s", Vector(pic["s"], l)) = {l}
    <3>1. \A q \in Pics : VectorLines(pic, q, Vector(pic["s"], l)) =
            IF q = "s" THEN {l} ELSE IF q = "m" THEN {Cascade} ELSE {}
      BY <1>1, <2>4, OwnLine
    <3> QED
      BY <1>1, <3>1
  <2>9. l \in pic["s"].irr \cup SlaveAccepted
    BY <1>3, <1>5, <2>3, TakeFields DEF l
  <2>12. Accepts("s", l)
    BY <1>8, <1>10, <1>12, <2>1, <2>5, <2>6, <2>7, <2>8, <2>9 DEF Accepts, Pics
  <2> QED
    BY <1>1, <2>4, <2>12
<1> QED
  BY <1>13, <1>14

-----------------------------------------------------------------------------
(* Well-formed guests: the invariant holds.                                *)

(* What a handler has left to send after its next instruction.              *)
LEMMA TailCommands ==
  ASSUME NEW todo \in Seq(HandlerOp), todo # <<>>, NEW p \in Pics
  PROVE  /\ \A i : i \in Commands(Tail(todo), p) <=>
                     i \in 1..(Len(todo) - 1) /\ i + 1 \in Commands(todo, p)
         /\ 1 \in Commands(todo, p) <=> Head(todo).op = "command" /\ Head(todo).pic = p
<1>1. /\ Len(todo) \in Nat /\ Len(todo) >= 1 /\ Head(todo) = todo[1]
      /\ DOMAIN todo = 1..Len(todo) /\ DOMAIN Tail(todo) = 1..(Len(todo) - 1)
      /\ \A i \in 1..(Len(todo) - 1) : Tail(todo)[i] = todo[i + 1] /\ i + 1 \in 1..Len(todo)
      /\ todo[1] \in HandlerOp
  OBVIOUS
<1>2. \A i : i \in Commands(Tail(todo), p) <=>
               i \in 1..(Len(todo) - 1) /\ i + 1 \in Commands(todo, p)
  BY <1>1 DEF Commands
<1>3. 1 \in Commands(todo, p) <=> todo[1] \in [op : {"command"}, pic : {p}, v : Byte]
  BY <1>1 DEF Commands
<1>4. todo[1] \in [op : {"command"}, pic : {p}, v : Byte]
        <=> todo[1].op = "command" /\ todo[1].pic = p
  <2>1. CASE todo[1] \in PortWrite
    BY <2>1 DEF PortWrite
  <2>2. CASE todo[1] \in [op : {"work"}]
    BY <2>2
  <2> QED
    BY <1>1, <2>1, <2>2 DEF HandlerOp
<1> QED
  BY <1>1, <1>2, <1>3, <1>4

LEMMA TailPending ==
  ASSUME NEW P, NEW n, NEW todo \in Seq(HandlerOp), todo # <<>>, NEW p \in Pics,
         Pending(P, n, todo, p)
  PROVE  /\ Pending(P, n, Tail(todo), p)
         /\ 1 \in Commands(todo, p) => Commands(Tail(todo), p) = {}
         /\ 1 \notin Commands(todo, p) =>
              (Commands(Tail(todo), p) = {} <=> Commands(todo, p) = {})
<1>1. /\ DOMAIN todo = 1..Len(todo) /\ Len(todo) \in Nat /\ Len(todo) >= 1
      /\ DOMAIN Tail(todo) = 1..(Len(todo) - 1)
      /\ \A i \in 1..(Len(todo) - 1) : Tail(todo)[i] = todo[i + 1]
  OBVIOUS
<1>2. \A i : i \in Commands(Tail(todo), p) <=>
               i \in 1..(Len(todo) - 1) /\ i + 1 \in Commands(todo, p)
  BY TailCommands
<1>3. CASE Commands(todo, p) = {}
  <2>1. Commands(Tail(todo), p) = {}
    BY <1>2, <1>3
  <2> QED
    BY <1>3, <2>1 DEF Pending
<1>4. CASE Commands(todo, p) # {}
  <2>1. VectorLines(P, p, n) # {}
    BY <1>4 DEF Pending
  <2>2. PICK i \in DOMAIN todo :
          /\ Commands(todo, p) = {i}
          /\ \A l \in VectorLines(P, p, n) : Acknowledgement(todo[i].v, l)
    BY <1>4 DEF Pending
  <2>3. CASE i = 1
    <3>1. Commands(Tail(todo), p) = {}
      <4>1. ASSUME NEW j, j \in Commands(Tail(todo), p) PROVE FALSE
        BY <1>2, <2>2, <2>3, <4>1
      <4> QED
        BY <4>1
    <3> QED
      BY <2>2, <2>3, <3>1 DEF Pending
  <2>4. CASE i # 1
    <3>1. i - 1 \in 1..(Len(todo) - 1) /\ (i - 1) + 1 = i
      BY <1>1, <2>4
    <3>2. Commands(Tail(todo), p) = {i - 1}
      <4>1. i - 1 \in Commands(Tail(todo), p)
        BY <1>2, <2>2, <3>1
      <4>2. ASSUME NEW j, j \in Commands(Tail(todo), p) PROVE j = i - 1
        <5>1. j \in 1..(Len(todo) - 1) /\ j + 1 = i
          BY <1>2, <2>2, <4>2
        <5> QED
          BY <5>1
      <4> QED
        BY <4>1, <4>2
    <3>3. i - 1 \in DOMAIN Tail(todo) /\ Tail(todo)[i - 1] = todo[i]
      BY <1>1, <3>1
    <3>4. Pending(P, n, Tail(todo), p)
      BY <2>1, <2>2, <3>2, <3>3 DEF Pending
    <3> QED
      BY <2>2, <2>4, <3>2, <3>4
  <2> QED
    BY <2>3, <2>4
<1> QED
  BY <1>3, <1>4

(* No interrupt is accepted during the initialization, and chk_irq takes no *)
(* request then.                                                            *)
LEMMA BootPoll ==
  ASSUME TypeOK, BootInv, boot # <<>>, flagIF
  PROVE  MasterAccepted = {} /\ AfterPoll = pic /\ PollRequests = req
<1>1. /\ pic["m"] \in PicState /\ pic["s"] \in PicState /\ pic \in [Pics -> PicState]
      /\ req \in [Pics -> SUBSET Lines] /\ boot \in Seq(BootOp)
  BY DEF TypeOK, Pics
<1>2. BootLegal(Here, Head(boot))
  BY <1>1, BootTail DEF BootInv
<1>3. pic["m"].cnt # Finished
  BY <1>2 DEF BootLegal, Here
<1>4. MasterPolled = {} /\ SlavePolled = {}
  BY <1>3 DEF MasterPolled, SlavePolled, PollsSlave, Polled
<1>5. MasterAccepted = {} /\ SlaveAccepted = {}
  BY <1>4 DEF MasterAccepted, MasterPolled, SlaveAccepted, Accepted
<1>6. \A p \in Pics : AfterPoll[p] = pic[p] /\ PollRequests[p] = req[p]
  BY <1>1, <1>4, <1>5, MarkFields DEF AfterPoll, PollRequests, Pics
<1>7. AfterPoll = pic /\ PollRequests = req
  <2>1. AfterPoll \in [Pics -> PicState] /\ PollRequests \in [Pics -> SUBSET Lines]
    BY PollLines
  <2> QED
    BY <1>1, <1>6, <2>1
<1> QED
  BY <1>5, <1>7

(* The byte that ends the master's initialization drains no request of a    *)
(* slave that is not started yet.                                           *)
LEMMA BootOutPort ==
  ASSUME TypeOK, NEW w \in PortWrite, OutPort(w), BootLegal(Here, w)
  PROVE  /\ pic' = BootAfter(Here, w).pic
         /\ \A q \in Pics : req'[q] \subseteq req[q]
<1>1. /\ pic["m"] \in PicState /\ pic["s"] \in PicState /\ pic \in [Pics -> PicState]
      /\ w.pic \in Pics /\ w.v \in Byte /\ w.op \in {"command", "data"}
  BY DEF TypeOK, Pics, PortWrite
<1>2. Drains(w) /\ w.pic = "m" => Polled(pic["s"], req["s"]) = {}
  BY DEF Drains, BootLegal, Here, Polled
<1>3. Drains(w) /\ w.pic = "m"
        => MarkRequest(pic["s"], {i \in Polled(pic["s"], req["s"]) : ~Blocked(pic["s"], i)})
             = pic["s"]
  <2>1. MarkRequest(pic["s"], {}) = pic["s"]
    BY <1>1, MarkFields
  <2>2. Polled(pic["s"], req["s"]) = {}
          => {i \in Polled(pic["s"], req["s"]) : ~Blocked(pic["s"], i)} = {}
    OBVIOUS
  <2> QED
    BY <1>2, <2>1, <2>2
<1>4. pic' = [q \in Pics |->
        IF q = w.pic THEN IF w.op = "command" THEN SendCommand(pic[q], w.v)
                                              ELSE SendData(pic[q], w.v)
        ELSE pic[q]]
  <2>1. \A q \in Pics : q # w.pic /\ q = "s" => w.pic = "m"
    BY <1>1 DEF Pics
  <2> QED
    BY <1>3, <2>1 DEF OutPort
<1>5. BootAfter(Here, w).pic = [pic EXCEPT ![w.pic] =
        IF w.op = "command" THEN SendCommand(@, w.v) ELSE SendData(@, w.v)]
  <2>1. CASE w.op = "command"
    BY <2>1 DEF BootAfter, Here
  <2>2. CASE w.op = "data"
    BY <2>2 DEF BootAfter, Here
  <2> QED
    BY <1>1, <2>1, <2>2
<1>6. pic' = BootAfter(Here, w).pic
  BY <1>1, <1>4, <1>5
<1>7. \A q \in Pics : req'[q] \subseteq req[q]
  BY DEF OutPort
<1> QED
  BY <1>6, <1>7

LEMMA GuestInit == WellFormed /\ Init => GuestInv
<1> SUFFICES ASSUME WellFormed, Init PROVE GuestInv
  OBVIOUS
<1>1. PICK g \in PowerOnBytes : pic = [p \in Pics |-> PowerOn(g)]
  BY DEF Init
<1>2. boot \in BootScripts /\ BootsFrom(boot, Here)
  <2>1. Here = PoweredOn(g)
    BY <1>1 DEF Here, PoweredOn, Init
  <2> QED
    BY <2>1 DEF WellFormed, Init
<1>3. \A p \in Pics : pic[p].irr = {} /\ pic[p].isr = {}
  BY <1>1 DEF PowerOn
<1>4. BootInv
  BY <1>2, <1>3 DEF BootInv, Init
<1>5. SetUpInv
  <2>1. Here.pic = pic
    BY DEF Here
  <2> QED
    BY <1>2, <2>1, BootEnd DEF SetUpInv
<1>6. LineInv /\ WorkInv
  BY <1>3 DEF LineInv, WorkInv, Init, Pics
<1> QED
  BY <1>4, <1>5, <1>6 DEF GuestInv

(* After the initialization a step that leaves the initialization words     *)
(* alone keeps the set-up, and the work queued and in handlers.             *)
LEMMA SetUpKept ==
  ASSUME GuestInv, boot = <<>>, boot' = boot, SameSetUp(pic, pic')
  PROVE  /\ BootInv' /\ SetUpInv'
         /\ que' = que /\ frames' = frames => WorkInv'
         /\ Numbers(pic') = Numbers(pic)
         /\ \A n : \A p \in Pics : VectorLines(pic', p, n) = VectorLines(pic, p, n)
<1>1. PICK P : P = pic'
  OBVIOUS
<1>2. SameSetUp(pic, P)
  BY <1>1
<1>3. /\ Numbers(P) = Numbers(pic) /\ Wired(P) /\ Acknowledges(P)
      /\ \A n : \A p \in Pics : VectorLines(P, p, n) = VectorLines(pic, p, n)
  BY <1>2, SetUpDecides DEF GuestInv, SetUpInv
<1>4. que' = que /\ frames' = frames => WorkInv'
  BY <1>1, <1>3 DEF GuestInv, WorkInv, Pending
<1> QED
  BY <1>1, <1>3, <1>4 DEF BootInv, SetUpInv

LEMMA SameSetUpRefl == SameSetUp(pic, pic)
BY DEF SameSetUp

(* A poll that accepts nothing.                                             *)
LEMMA GuestIdle == TypeOK /\ GuestInv /\ ChkIrqFalse => GuestInv' /\ SameSetUp(pic, pic')
<1> SUFFICES ASSUME TypeOK, GuestInv, ChkIrqFalse PROVE GuestInv' /\ SameSetUp(pic, pic')
  OBVIOUS
<1>1. CASE pic' = pic /\ req' = req
  <2>1. SameSetUp(pic, pic')
    BY <1>1, SameSetUpRefl
  <2>2. LineInv' /\ WorkInv' /\ BootInv' /\ SetUpInv'
    BY <1>1 DEF GuestInv, LineInv, WorkInv, BootInv, SetUpInv, ChkIrqFalse, Here
  <2> QED
    BY <2>1, <2>2 DEF GuestInv
<1>2. CASE ~(pic' = pic /\ req' = req)
  <2>1. flagIF /\ MasterAccepted = {} /\ pic' = AfterPoll /\ req' = PollRequests
    BY <1>2 DEF ChkIrqFalse
  <2>2. boot = <<>>
    BY <1>2, <2>1, BootPoll DEF GuestInv
  <2>3. /\ pic["m"] \in PicState /\ pic["s"] \in PicState
        /\ SlaveAccepted \in SUBSET Lines /\ SlaveAccepted \subseteq SlaveDevs
    BY PollLines, ScanLines DEF TypeOK, Pics, GuestInv, LineInv, Devs
  <2>4. /\ pic'["m"] = MarkRequest(pic["m"], {})
        /\ pic'["s"] = MarkRequest(pic["s"], SlaveAccepted)
    BY <2>1 DEF AfterPoll, Pics
  <2>5. SameSetUp(pic, pic')
    BY <2>3, <2>4, MarkFields DEF SameSetUp, Pics
  <2>6. BootInv' /\ SetUpInv' /\ WorkInv'
    BY <2>2, <2>5, SetUpKept DEF ChkIrqFalse
  <2>7. \A p \in Pics : req'[p] \subseteq req[p]
    BY <2>1 DEF PollRequests
  <2>8. pic'["m"].irr = pic["m"].irr
    BY <2>3, <2>4, MarkFields
  <2>9. pic'["s"].irr = pic["s"].irr \cup SlaveAccepted
    BY <2>3, <2>4, MarkFields
  <2>10. LineInv'
    BY <2>3, <2>7, <2>8, <2>9 DEF GuestInv, LineInv
  <2> QED
    BY <2>5, <2>6, <2>10 DEF GuestInv
<1> QED
  BY <1>1, <1>2

(* A poll that accepts an interrupt, on a guest that is past its            *)
(* initialization.                                                          *)
LEMMA GuestAccept ==
  ASSUME TypeOK, GuestInv, ChkIrqTrue
  PROVE  /\ boot = <<>> /\ Wired(pic) /\ GuestInv'
         /\ \E p \in Pics : \E l \in Devs[p] : Accepts(p, l)
<1>1. boot = <<>>
  BY BootPoll DEF GuestInv, ChkIrqTrue
<1>2. Wired(pic) /\ LineInv
  BY <1>1 DEF GuestInv, SetUpInv
<1>3. PICK p \in Pics : \E l \in Devs[p] : Accepts(p, l)
  BY <1>2, AcceptedDevice
<1>4. PICK l \in Devs[p] : Accepts(p, l)
  BY <1>3
<1>5. boot' = <<>> /\ frames' = frames /\ req' = PollRequests
  BY <1>1 DEF ChkIrqTrue
<1>6. /\ BootInv' /\ SetUpInv' /\ Numbers(pic') = Numbers(pic)
      /\ \A n : \A q \in Pics : VectorLines(pic', q, n) = VectorLines(pic, q, n)
  BY <1>1, <1>4, <1>5, SetUpKept DEF Accepts
<1>7. LineInv'
  <2>1. SlaveAccepted \subseteq SlaveDevs
    BY ScanLines, <1>2 DEF LineInv, Devs, Pics
  <2>2. pic'["s"].irr \subseteq SlaveDevs
    BY <1>2, <1>4, <2>1 DEF Accepts, LineInv
  <2>3. \A q \in Pics : req'[q] \subseteq req[q]
    BY <1>5 DEF PollRequests
  <2> QED
    BY <1>2, <1>4, <2>2, <2>3 DEF Accepts, LineInv
<1>8. WorkInv'
  <2> DEFINE n == Vector(pic[p], l)
             intr == [id |-> n, hard |-> TRUE]
  <2>1. n \in Numbers(pic)
    BY <1>2, OwnLines
  <2>2. que' = Append(que, intr) /\ intr.id = n /\ intr.hard
    BY <1>4 DEF Accepts
  <2> HIDE DEF n, intr
  <2>3. ASSUME NEW i \in DOMAIN que'
        PROVE  que'[i].id \in IF que'[i].hard THEN Numbers(pic) ELSE SoftVectors
    <3>1. CASE i \in DOMAIN que
      <4>1. que'[i] = que[i]
        BY <2>2, <3>1 DEF TypeOK
      <4> QED
        BY <3>1, <4>1 DEF GuestInv, WorkInv
    <3>2. CASE i \notin DOMAIN que
      <4>1. que'[i] = intr
        <5>1. que \in Seq(Interrupt) /\ Len(que) \in Nat /\ DOMAIN que = 1..Len(que)
          BY DEF TypeOK
        <5>2. DOMAIN que' = 1..(Len(que) + 1) /\ que'[Len(que) + 1] = intr
          BY <2>2, <5>1
        <5>3. i = Len(que) + 1
          BY <3>2, <5>1, <5>2
        <5> QED
          BY <5>2, <5>3
      <4> QED
        BY <2>1, <2>2, <4>1
    <3> QED
      BY <3>1, <3>2
  <2>4. \A k \in DOMAIN frames :
          /\ frames[k].id \in Numbers(pic') \cup SoftVectors
          /\ \A q \in Pics : Pending(pic', frames[k].id, frames[k].todo, q)
    BY <1>6 DEF GuestInv, WorkInv, Pending
  <2> QED
    BY <1>5, <1>6, <2>3, <2>4 DEF WorkInv
<1> QED
  BY <1>1, <1>2, <1>3, <1>6, <1>7, <1>8 DEF GuestInv

(* A handler sends an EOI to exactly the controllers its interrupt came     *)
(* through.                                                                 *)
LEMMA HandlerPending ==
  ASSUME Acknowledges(pic), NEW n \in Numbers(pic) \cup SoftVectors, NEW p \in Pics
  PROVE  /\ Pending(pic, n, Handler[n], p)
         /\ VectorLines(pic, p, n) # {} <=> Commands(Handler[n], p) # {}
<1>1. CASE VectorLines(pic, p, n) = {}
  BY <1>1 DEF Acknowledges, Pending
<1>2. CASE VectorLines(pic, p, n) # {}
  <2>1. PICK i \in DOMAIN Handler[n] :
          /\ Commands(Handler[n], p) = {i}
          /\ \A l \in VectorLines(pic, p, n) : Acknowledgement(Handler[n][i].v, l)
    BY <1>2 DEF Acknowledges
  <2> QED
    BY <1>2, <2>1 DEF Pending
<1> QED
  BY <1>1, <1>2

(* hundle_interrupt enters the handler of the head of the queue.            *)
Entered == [id |-> Head(que).id, flagIF |-> flagIF, todo |-> Handler[Head(que).id]]

LEMMA GuestHandle ==
  ASSUME TypeOK, GuestInv, HundleInterrupt, que # <<>>
  PROVE  /\ boot = <<>> /\ Wired(pic) /\ Acknowledges(pic)
         /\ que' = Tail(que) /\ frames' = Append(frames, Entered)
         /\ Head(que).id \in IF Head(que).hard THEN Numbers(pic) ELSE SoftVectors
         /\ GuestInv'
<1>1. boot = <<>> /\ Wired(pic) /\ Acknowledges(pic)
  BY DEF GuestInv, BootInv, SetUpInv
<1>2. que' = Tail(que) /\ frames' = Append(frames, Entered)
  BY DEF HundleInterrupt, Entered
<1>3. /\ Len(que) \in Nat /\ DOMAIN que = 1..Len(que) /\ Len(que) >= 1 /\ Head(que) = que[1]
      /\ DOMAIN Tail(que) = 1..(Len(que) - 1)
      /\ \A i \in 1..(Len(que) - 1) : Tail(que)[i] = que[i + 1] /\ i + 1 \in 1..Len(que)
  BY DEF TypeOK
<1>4. Head(que).id \in IF Head(que).hard THEN Numbers(pic) ELSE SoftVectors
  BY <1>3 DEF GuestInv, WorkInv
<1>5. UNCHANGED <<pic, req, boot>>
  BY DEF HundleInterrupt
<1>6. BootInv' /\ SetUpInv' /\ LineInv'
  BY <1>1, <1>5 DEF BootInv, SetUpInv, LineInv, GuestInv
<1>7. \A i \in DOMAIN que' :
        que'[i].id \in IF que'[i].hard THEN Numbers(pic) ELSE SoftVectors
  BY <1>2, <1>3 DEF GuestInv, WorkInv
<1>8. ASSUME NEW i \in DOMAIN frames'
      PROVE  /\ frames'[i].id \in Numbers(pic) \cup SoftVectors
             /\ \A p \in Pics : Pending(pic, frames'[i].id, frames'[i].todo, p)
  <2>1. /\ Len(frames) \in Nat /\ DOMAIN frames = 1..Len(frames)
        /\ DOMAIN frames' = 1..(Len(frames) + 1)
        /\ frames'[Len(frames) + 1] = Entered
        /\ \A j \in 1..Len(frames) : frames'[j] = frames[j]
    BY <1>2 DEF TypeOK
  <2>2. CASE i \in DOMAIN frames
    BY <2>1, <2>2 DEF GuestInv, WorkInv
  <2>3. CASE i \notin DOMAIN frames
    <3>1. frames'[i] = Entered
      BY <2>1, <2>3
    <3>2. Entered.id = Head(que).id /\ Entered.todo = Handler[Head(que).id]
      BY DEF Entered
    <3> QED
      BY <1>1, <1>4, <3>1, <3>2, HandlerPending
  <2> QED
    BY <2>2, <2>3
<1>9. WorkInv'
  BY <1>5, <1>7, <1>8 DEF WorkInv
<1> QED
  BY <1>1, <1>2, <1>4, <1>6, <1>9 DEF GuestInv

(* An instruction of the initialization.                                    *)
LEMMA GuestBoot ==
  ASSUME TypeOK, GuestInv, Boot
  PROVE  /\ GuestInv' /\ que = <<>> /\ frames = <<>>
         /\ \A p \in Pics : pic[p].isr = {} /\ pic'[p].irr = {} /\ pic'[p].isr = {}
<1> DEFINE op == Head(boot)
<1>1. /\ boot \in Seq(BootOp) /\ boot # <<>> /\ boot' = Tail(boot) /\ op \in BootOp
      /\ que = <<>> /\ frames = <<>> /\ que' = <<>> /\ frames' = <<>>
      /\ BootsFrom(boot, Here) /\ pic \in [Pics -> PicState]
      /\ \A p \in Pics : pic[p].irr = {} /\ pic[p].isr = {}
  BY DEF TypeOK, GuestInv, BootInv, Boot
<1>2. BootLegal(Here, op) /\ BootsFrom(boot', BootAfter(Here, op))
  BY <1>1, BootTail
<1> HIDE DEF op
<1>3. /\ Here' = BootAfter(Here, op)
      /\ \A p \in Pics : req'[p] \subseteq req[p]
      /\ \A p \in Pics : pic'[p].irr = {} /\ pic'[p].isr = {}
  <2>1. CASE op \in PortWrite
    <3>1. OutPort(op) /\ flagIF' = flagIF
      BY <2>1 DEF Boot, op
    <3>2. /\ pic' = BootAfter(Here, op).pic
          /\ \A q \in Pics : req'[q] \subseteq req[q]
      BY <1>2, <2>1, <3>1, BootOutPort
    <3>3. op.pic \in Pics /\ op.v \in Byte /\ op.op \in {"command", "data"}
      BY <2>1 DEF PortWrite
    <3>4. BootAfter(Here, op) =
            [pic |-> [pic EXCEPT ![op.pic] = IF op.op = "command" THEN SendCommand(@, op.v)
                                             ELSE SendData(@, op.v)],
             flagIF |-> flagIF]
      BY <3>3 DEF BootAfter, Here
    <3>5. Here' = BootAfter(Here, op)
      BY <3>1, <3>2, <3>4 DEF Here
    <3>6. SendCommand(pic[op.pic], op.v).isr = {}
      BY <1>1, <3>3 DEF SendCommand, PicState
    <3>7. SendData(pic[op.pic], op.v).isr = {}
      BY <1>1, <3>3 DEF SendData, PicState
    <3>8. /\ SendCommand(pic[op.pic], op.v).irr = {}
          /\ SendData(pic[op.pic], op.v).irr = {}
      <4>1. PICK c : c = pic[op.pic]
        OBVIOUS
      <4>2. c \in PicState /\ c.irr = {}
        BY <1>1, <3>3, <4>1
      <4>3. SendCommand(c, op.v).irr = {} /\ SendData(c, op.v).irr = {}
        BY <3>3, <4>2, PortType
      <4>. QED
        BY <4>1, <4>3
    <3>9. ASSUME NEW p \in Pics
          PROVE  pic'[p].irr = {} /\ pic'[p].isr = {}
      <4>1. pic'[p] = IF p # op.pic THEN pic[p]
                      ELSE IF op.op = "command" THEN SendCommand(pic[p], op.v)
                      ELSE SendData(pic[p], op.v)
        <5>1. pic' = [pic EXCEPT ![op.pic] = IF op.op = "command" THEN SendCommand(@, op.v)
                                             ELSE SendData(@, op.v)]
          BY <3>2, <3>4
        <5>2. pic \in [Pics -> PicState]
          BY <1>1
        <5>. QED
          BY <5>1, <5>2
      <4>2. pic[p].irr = {} /\ pic[p].isr = {}
        BY <1>1
      <4>. QED
        BY <3>6, <3>7, <3>8, <4>1, <4>2
    <3> QED
      BY <3>2, <3>5, <3>9
  <2>2. CASE op \notin PortWrite
    <3>1. op.op \in {"cli", "sti"}
      BY <1>1, <2>2 DEF BootOp
    <3>2. flagIF' = (op.op = "sti") /\ pic' = pic /\ req' = req
      BY <2>2 DEF Boot, op
    <3>3. BootAfter(Here, op) = [pic |-> pic, flagIF |-> (op.op = "sti")]
      BY <3>1 DEF BootAfter, Here
    <3> QED
      BY <1>1, <3>2, <3>3 DEF Here
  <2> QED
    BY <2>1, <2>2
<1>4. BootInv'
  BY <1>1, <1>2, <1>3 DEF BootInv
<1>5. SetUpInv'
  <2> SUFFICES ASSUME boot' = <<>> PROVE Wired(pic') /\ Acknowledges(pic')
    BY DEF SetUpInv
  <2>1. PICK b : b = Here'
    OBVIOUS
  <2>2. b.pic = pic'
    BY <2>1 DEF Here
  <2>3. BootsFrom(<<>>, b)
    BY <1>2, <1>3, <2>1
  <2> QED
    BY <2>2, <2>3, BootEnd
<1>6. LineInv'
  BY <1>3 DEF LineInv, GuestInv, Pics
<1>7. WorkInv'
  BY <1>1 DEF WorkInv
<1> QED
  BY <1>1, <1>3, <1>4, <1>5, <1>6, <1>7 DEF GuestInv

(* An instruction of a handler: at most the EOI of one controller.          *)
LEMMA GuestWork ==
  ASSUME TypeOK, GuestInv, HandlerStep
  PROVE  /\ boot = <<>> /\ Wired(pic)
         /\ Depth \in DOMAIN frames /\ DOMAIN frames = 1..Depth
         /\ Top.todo \in Seq(HandlerOp) /\ Top.todo # <<>>
         /\ que' = que /\ req' = req /\ SameSetUp(pic, pic')
         /\ DOMAIN frames' = DOMAIN frames
         /\ \A i \in DOMAIN frames : i # Depth => frames'[i] = frames[i]
         /\ /\ frames'[Depth].id = Top.id /\ frames'[Depth].flagIF = Top.flagIF
            /\ frames'[Depth].todo = Tail(Top.todo)
         /\ \A p \in Pics : Pending(pic, Top.id, Top.todo, p)
         /\ \A p \in Pics :
              /\ pic'[p].irr = pic[p].irr
              /\ pic'[p].isr = IF 1 \in Commands(Top.todo, p)
                               THEN pic[p].isr \ EoiLines(pic[p], Head(Top.todo).v)
                               ELSE pic[p].isr
         /\ GuestInv'
<1>1. /\ boot = <<>> /\ Wired(pic) /\ pic \in [Pics -> PicState]
      /\ pic["m"].cnt = Finished /\ pic["s"].cnt = Finished
  BY DEF HandlerStep, InHandler, GuestInv, BootInv, SetUpInv, Wired, TypeOK
<1>2. Depth \in DOMAIN frames /\ DOMAIN frames = 1..Depth /\ Len(frames) = Depth
  BY DEF HandlerStep, InHandler, Depth, TypeOK
<1>3. Top \in Frame /\ Top.todo \in Seq(HandlerOp) /\ Top.todo # <<>>
  <2>1. Top \in Frame
    BY <1>2 DEF Top, TypeOK
  <2> QED
    BY <2>1 DEF Frame, HandlerStep
<1>4. /\ que' = que /\ boot' = boot
      /\ frames' = [frames EXCEPT ![Depth].todo = Tail(@)]
  BY DEF HandlerStep
<1>5. /\ DOMAIN frames' = DOMAIN frames
      /\ \A i \in DOMAIN frames : i # Depth => frames'[i] = frames[i]
      /\ frames'[Depth] = [Top EXCEPT !.todo = Tail(Top.todo)]
  BY <1>2, <1>4 DEF Top, TypeOK
<1>6. /\ frames'[Depth].id = Top.id /\ frames'[Depth].flagIF = Top.flagIF
      /\ frames'[Depth].todo = Tail(Top.todo)
  BY <1>3, <1>5 DEF Frame
<1>7. \A p \in Pics : Pending(pic, Top.id, Top.todo, p)
  BY <1>2 DEF GuestInv, WorkInv, Top
<1> DEFINE op == Head(Top.todo)
<1>8. op \in HandlerOp
  BY <1>3
<1>9. \A p \in Pics : 1 \in Commands(Top.todo, p) <=> op.op = "command" /\ op.pic = p
  BY <1>3, TailCommands
<1>10. /\ req' = req /\ SameSetUp(pic, pic')
       /\ \A p \in Pics :
            /\ pic'[p].irr = pic[p].irr
            /\ pic'[p].isr = IF 1 \in Commands(Top.todo, p)
                             THEN pic[p].isr \ EoiLines(pic[p], op.v)
                             ELSE pic[p].isr
  <2>1. CASE op \in PortWrite
    <3>1. OutPort(op)
      BY <2>1 DEF HandlerStep
    <3> HIDE DEF op
    <3>2. /\ req' = req /\ SameSetUp(pic, pic')
          /\ \A q \in Pics : pic'[q] =
               IF q # op.pic THEN pic[q]
               ELSE IF op.op = "command"
                    THEN [pic[q] EXCEPT !.isr = @ \ EoiLines(pic[q], op.v)]
                    ELSE [pic[q] EXCEPT !.imr = LineSet(op.v)]
      BY <1>1, <2>1, <3>1, FinishedOutPort
    <3>3. \A p \in Pics : pic[p] \in PicState
      BY <1>1
    <3>4. ASSUME NEW p \in Pics
          PROVE  /\ pic'[p].irr = pic[p].irr
                 /\ pic'[p].isr = IF 1 \in Commands(Top.todo, p)
                                  THEN pic[p].isr \ EoiLines(pic[p], op.v)
                                  ELSE pic[p].isr
      <4>1. CASE p # op.pic
        BY <1>9, <3>2, <4>1
      <4>2. CASE p = op.pic /\ op.op = "command"
        <5>1. pic'[p] = [pic[p] EXCEPT !.isr = @ \ EoiLines(pic[p], op.v)]
          BY <3>2, <4>2
        <5>2. pic'[p].irr = pic[p].irr /\ pic'[p].isr = pic[p].isr \ EoiLines(pic[p], op.v)
          BY <3>3, <5>1 DEF PicState
        <5> QED
          BY <1>9, <4>2, <5>2
      <4>3. CASE p = op.pic /\ op.op # "command"
        BY <1>9, <3>2, <3>3, <4>3 DEF PicState
      <4> QED
        BY <4>1, <4>2, <4>3
    <3> QED
      BY <3>2, <3>4
  <2>2. CASE op \notin PortWrite
    <3>1. pic' = pic /\ req' = req
      BY <2>2 DEF HandlerStep
    <3> HIDE DEF op
    <3>2. op.op = "work"
      BY <1>8, <2>2 DEF HandlerOp
    <3> QED
      BY <1>9, <3>1, <3>2, SameSetUpRefl
  <2> QED
    BY <2>1, <2>2
<1>11. /\ BootInv' /\ SetUpInv' /\ Numbers(pic') = Numbers(pic)
       /\ \A n : \A p \in Pics : VectorLines(pic', p, n) = VectorLines(pic, p, n)
  BY <1>1, <1>4, <1>10, SetUpKept
<1>12. LineInv'
  BY <1>10 DEF GuestInv, LineInv, Pics
<1>13. ASSUME NEW i \in DOMAIN frames'
       PROVE  /\ frames'[i].id \in Numbers(pic) \cup SoftVectors
              /\ \A p \in Pics : Pending(pic, frames'[i].id, frames'[i].todo, p)
  <2>1. CASE i = Depth
    <3>1. \A p \in Pics : Pending(pic, Top.id, Tail(Top.todo), p)
      BY <1>3, <1>7, TailPending
    <3>2. Top.id \in Numbers(pic) \cup SoftVectors
      BY <1>2 DEF GuestInv, WorkInv, Top
    <3> QED
      BY <1>6, <2>1, <3>1, <3>2
  <2>2. CASE i # Depth
    BY <1>5, <2>2 DEF GuestInv, WorkInv
  <2> QED
    BY <2>1, <2>2
<1>14. WorkInv'
  <2>1. ASSUME NEW i \in DOMAIN frames'
        PROVE  /\ frames'[i].id \in Numbers(pic') \cup SoftVectors
               /\ \A p \in Pics : Pending(pic', frames'[i].id, frames'[i].todo, p)
    BY <1>11, <1>13 DEF Pending
  <2> QED
    BY <1>4, <1>11, <2>1 DEF GuestInv, WorkInv
<1> QED
  BY <1>1, <1>2, <1>3, <1>4, <1>5, <1>6, <1>7, <1>10, <1>11, <1>12, <1>14 DEF GuestInv

(* The end of a handler.                                                    *)
LEMMA GuestIret ==
  ASSUME TypeOK, GuestInv, Iret
  PROVE  /\ boot = <<>> /\ pic' = pic /\ req' = req /\ que' = que
         /\ Depth \in DOMAIN frames /\ DOMAIN frames = 1..Depth /\ Depth \in Nat
         /\ Top.todo = <<>> /\ flagIF' = Top.flagIF
         /\ DOMAIN frames' = 1..(Depth - 1)
         /\ \A i \in DOMAIN frames' : frames'[i] = frames[i]
         /\ GuestInv'
<1>1. /\ boot = <<>> /\ pic' = pic /\ req' = req /\ que' = que /\ boot' = boot
      /\ Top.todo = <<>> /\ flagIF' = Top.flagIF
  BY DEF Iret, InHandler, GuestInv, BootInv
<1>2. /\ Depth \in DOMAIN frames /\ DOMAIN frames = 1..Depth
      /\ Len(frames) = Depth /\ Depth \in Nat
  BY DEF Iret, InHandler, Depth, TypeOK
<1>3. /\ DOMAIN frames' = 1..(Depth - 1)
      /\ \A i \in DOMAIN frames' : frames'[i] = frames[i] /\ i \in DOMAIN frames
  <2>1. frames' = SubSeq(frames, 1, Depth - 1) /\ frames \in Seq(Frame)
    BY DEF Iret, TypeOK
  <2> QED
    BY <1>2, <2>1
<1>4. BootInv' /\ SetUpInv' /\ LineInv'
  BY <1>1 DEF GuestInv, BootInv, SetUpInv, LineInv
<1>5. WorkInv'
  BY <1>1, <1>3 DEF GuestInv, WorkInv
<1> QED
  BY <1>1, <1>2, <1>3, <1>4, <1>5 DEF GuestInv

LEMMA GuestMain ==
  TypeOK /\ GuestInv /\ (Nop \/ Cli \/ Sti \/ Hlt) => GuestInv'
<1> SUFFICES ASSUME TypeOK, GuestInv, Nop \/ Cli \/ Sti \/ Hlt PROVE GuestInv'
  OBVIOUS
<1>1. boot = <<>> /\ UNCHANGED <<pic, req, que, frames, boot>>
  BY DEF Nop, Cli, Sti, Hlt, Ready
<1> QED
  BY <1>1 DEF GuestInv, BootInv, SetUpInv, LineInv, WorkInv

LEMMA GuestSoft ==
  ASSUME TypeOK, GuestInv, NEW n \in SoftVectors, IntImm8(n)
  PROVE  /\ boot = <<>> /\ UNCHANGED <<pic, req, flagIF, frames, boot>>
         /\ que' = Append(que, [id |-> n, hard |-> FALSE])
         /\ GuestInv'
<1>1. /\ boot = <<>> /\ UNCHANGED <<pic, req, flagIF, frames, boot>>
      /\ que' = Append(que, [id |-> n, hard |-> FALSE])
  BY DEF IntImm8, Ready
<1>2. \A i \in DOMAIN que' :
        que'[i].id \in IF que'[i].hard THEN Numbers(pic) ELSE SoftVectors
  <2> TAKE i \in DOMAIN que'
  <2>1. /\ Len(que) \in Nat /\ DOMAIN que = 1..Len(que)
        /\ DOMAIN que' = 1..(Len(que) + 1)
        /\ que'[Len(que) + 1] = [id |-> n, hard |-> FALSE]
        /\ \A j \in DOMAIN que : que'[j] = que[j]
    BY <1>1 DEF TypeOK
  <2>2. CASE i \in DOMAIN que
    BY <2>1, <2>2 DEF GuestInv, WorkInv
  <2>3. CASE i \notin DOMAIN que
    <3>1. que'[i] = [id |-> n, hard |-> FALSE]
      BY <2>1, <2>3
    <3> QED
      BY <3>1
  <2> QED
    BY <2>2, <2>3
<1>3. WorkInv'
  BY <1>1, <1>2 DEF GuestInv, WorkInv
<1>4. BootInv' /\ SetUpInv' /\ LineInv'
  BY <1>1 DEF GuestInv, BootInv, SetUpInv, LineInv
<1> QED
  BY <1>1, <1>3, <1>4 DEF GuestInv

LEMMA GuestRaise ==
  ASSUME GuestInv, NEW p \in Pics, NEW line \in Lines, Raise(p, line), TypeOK
  PROVE  GuestInv'
<1>1. UNCHANGED <<pic, flagIF, que, frames, boot>>
  BY DEF Raise
<1>2. \A q \in Pics : req'[q] \subseteq Devs[q]
  BY DEF Raise, GuestInv, LineInv, TypeOK
<1> QED
  BY <1>1, <1>2 DEF GuestInv, BootInv, SetUpInv, LineInv, WorkInv, Here

LEMMA GuestStep == TypeOK /\ GuestInv /\ [Next]_vars => GuestInv'
<1> SUFFICES ASSUME TypeOK, GuestInv, [Next]_vars PROVE GuestInv'
  OBVIOUS
<1>1. CASE HundleInterrupt /\ que = <<>>
  BY <1>1 DEF HundleInterrupt, GuestInv, BootInv, SetUpInv, LineInv, WorkInv, Here
<1>2. CASE UNCHANGED vars
  BY <1>2 DEF vars, GuestInv, BootInv, SetUpInv, LineInv, WorkInv, Here
<1> QED
  BY <1>1, <1>2, GuestRaise, GuestIdle, GuestAccept, GuestHandle, GuestBoot, GuestMain,
     GuestSoft, GuestWork, GuestIret
     DEF Next, Cpu, ChkIrq, Exec

(* For every wiring and every well-formed guest, whatever the nesting: a     *)
(* queued hardware interrupt number is that of a connected device.  Neither *)
(* SLAVE_INTR nor the -1 of an empty irr reaches the guest as a vector.     *)
THEOREM VectorsSafe == WellFormed /\ Spec => []KnownVectors
<1> SUFFICES ASSUME WellFormed PROVE Spec => []KnownVectors
  OBVIOUS
<1>1. GuestInv => KnownVectors
  BY DEF GuestInv, WorkInv, KnownVectors
<1>2. Init => GuestInv
  BY GuestInit
<1> QED
  BY <1>1, <1>2, GuestStep, TypeCorrect, PTL DEF Spec

-----------------------------------------------------------------------------
(* No line stays in service.                                               *)

\* The accepted interrupts not yet dispatched, and the handlers, that have an
\* EOI of controller p to send.
QueOwed(p) == {i \in DOMAIN que : que[i].hard /\ LinesOf(p, que[i].id) # {}}
FramesOwed(p) == {i \in DOMAIN frames : OwesEoi(frames[i], p)}

(* Moving up by one does not change how many are in a queue.                *)
LEMMA ShiftedCount ==
  ASSUME NEW n \in Nat, NEW S \in SUBSET (1..n), NEW T,
         \A i : i \in T <=> i \in 1..(n - 1) /\ i + 1 \in S
  PROVE  IsFiniteSet(T) /\ Cardinality(T) = Cardinality(S \ {1})
<1> DEFINE f == [i \in S \ {1} |-> i - 1]
<1>1. f \in Bijection(S \ {1}, T)
  <2>1. \A i \in S \ {1} : i - 1 \in T
    BY SMT
  <2>2. \A i \in T : i + 1 \in S \ {1} /\ f[i + 1] = i
    BY SMT
  <2>3. f \in [S \ {1} -> T]
    BY <2>1
  <2>4. \A a, b \in S \ {1} : f[a] = f[b] => a = b
    BY SMT
  <2> HIDE DEF f
  <2> QED
    BY <2>2, <2>3, <2>4 DEF Bijection, Injection, Surjection, IsInjective
<1>2. IsFiniteSet(S \ {1})
  <2>1. IsFiniteSet(1..n)
    BY FS_Interval
  <2>2. S \ {1} \in SUBSET (1..n)
    OBVIOUS
  <2> QED
    BY <2>1, <2>2, FS_Subset
<1> QED
  BY <1>1, <1>2, FS_Bijection DEF ExistsBijection

LEMMA CountType ==
  ASSUME NEW n \in Nat, NEW S \in SUBSET (1..n)
  PROVE  IsFiniteSet(S) /\ Cardinality(S) \in Nat
<1>1. IsFiniteSet(1..n)
  BY FS_Interval
<1>2. IsFiniteSet(S)
  BY <1>1, FS_Subset
<1> QED
  BY <1>2, FS_CardinalityType

LEMMA OwedFinite ==
  ASSUME TypeOK, NEW p \in Pics
  PROVE  /\ IsFiniteSet(QueOwed(p)) /\ Cardinality(QueOwed(p)) \in Nat
         /\ IsFiniteSet(FramesOwed(p)) /\ Cardinality(FramesOwed(p)) \in Nat
         /\ IsFiniteSet(pic[p].isr) /\ Cardinality(pic[p].isr) \in Nat
         /\ EoisOwed(p) = Cardinality(QueOwed(p)) + Cardinality(FramesOwed(p))
<1>1. /\ QueOwed(p) \subseteq 1..Len(que) /\ Len(que) \in Nat
      /\ FramesOwed(p) \subseteq 1..Len(frames) /\ Len(frames) \in Nat
  BY DEF QueOwed, FramesOwed, TypeOK
<1>2. IsFiniteSet(QueOwed(p)) /\ IsFiniteSet(FramesOwed(p))
  <2>1. IsFiniteSet(1..Len(que)) /\ IsFiniteSet(1..Len(frames))
    BY <1>1, FS_Interval
  <2> QED
    BY <1>1, <2>1, FS_Subset
<1>3. IsFiniteSet(pic[p].isr)
  <2>1. pic[p].isr \in SUBSET (0..(NLines - 1))
    BY DEF TypeOK, PicState, Lines
  <2>2. IsFiniteSet(0..(NLines - 1))
    BY NLinesAssumption, FS_Interval
  <2> QED
    BY <2>1, <2>2, FS_Subset
<1>4. EoisOwed(p) = Cardinality(QueOwed(p)) + Cardinality(FramesOwed(p))
  BY DEF EoisOwed, QueOwed, FramesOwed
<1> QED
  BY <1>2, <1>3, <1>4, FS_CardinalityType

(* An accepted interrupt adds the EOI its handler will send, and at most    *)
(* one line to the isr.                                                     *)
LEMMA StuckAccept ==
  ASSUME TypeOK, TypeOK', GuestInv, ChkIrqTrue, NEW p \in Pics,
         Cardinality(pic[p].isr) <= EoisOwed(p)
  PROVE  Cardinality(pic'[p].isr) <= EoisOwed(p)'
<1>1. boot = <<>> /\ Wired(pic) /\ \E q \in Pics : \E l \in Devs[q] : Accepts(q, l)
  BY GuestAccept
<1>2. PICK q \in Pics : \E l \in Devs[q] : Accepts(q, l)
  BY <1>1
<1>3. PICK l \in Devs[q] : Accepts(q, l)
  BY <1>2
<1>4. PICK n : n = Vector(pic[q], l)
  OBVIOUS
<1>5. VectorLines(pic, p, n) = {} \/ \E x : VectorLines(pic, p, n) = {x}
  BY <1>1, <1>4, OwnLine
<1>6. \A k : LinesOf(p, k)' = LinesOf(p, k)
  <2>1. boot' = boot
    BY DEF ChkIrqTrue
  <2> QED
    BY <1>1, <1>3, <2>1, SetUpKept DEF Accepts, LinesOf
<1>7. /\ Len(que) \in Nat /\ DOMAIN que = 1..Len(que)
      /\ DOMAIN que' = 1..(Len(que) + 1)
      /\ \A i \in DOMAIN que : que'[i] = que[i]
      /\ que'[Len(que) + 1] = [id |-> n, hard |-> TRUE]
  BY <1>3, <1>4 DEF TypeOK, Accepts
<1>8. FramesOwed(p)' = FramesOwed(p)
  <2>1. frames' = frames
    BY DEF ChkIrqTrue
  <2> QED
    BY <2>1 DEF FramesOwed, OwesEoi
<1>9. QueOwed(p)' = IF VectorLines(pic, p, n) = {} THEN QueOwed(p)
                    ELSE QueOwed(p) \cup {Len(que) + 1}
  <2>1. LinesOf(p, n) = VectorLines(pic, p, n)
    BY DEF LinesOf
  <2>2. \A i : i \in QueOwed(p)' <=>
                 i \in DOMAIN que' /\ que'[i].hard /\ LinesOf(p, que'[i].id) # {}
    BY <1>6 DEF QueOwed
  <2>3. \A i : i \in QueOwed(p)' <=>
                 \/ i \in QueOwed(p)
                 \/ i = Len(que) + 1 /\ VectorLines(pic, p, n) # {}
    <3>5. \A i : i \in QueOwed(p) <=>
                   i \in DOMAIN que /\ que[i].hard /\ LinesOf(p, que[i].id) # {}
      BY DEF QueOwed
    <3>6. que'[Len(que) + 1].hard /\ que'[Len(que) + 1].id = n
      BY <1>7
    <3>1. \A i \in DOMAIN que : i \in QueOwed(p)' <=> i \in QueOwed(p)
      <4> TAKE i \in DOMAIN que
      <4>1. que'[i] = que[i] /\ i \in DOMAIN que'
        BY <1>7
      <4> QED
        BY <2>2, <3>5, <4>1, Zenon
    <3>2. Len(que) + 1 \in QueOwed(p)' <=> VectorLines(pic, p, n) # {}
      <4>1. Len(que) + 1 \in DOMAIN que'
        BY <1>7
      <4> QED
        BY <2>1, <2>2, <3>6, <4>1, Zenon
    <3>3. \A i : i \in QueOwed(p)' => i \in DOMAIN que \/ i = Len(que) + 1
      BY <1>7, <2>2
    <3>4. \A i : i \in QueOwed(p) => i \in DOMAIN que
      BY DEF QueOwed
    <3> QED
      BY <3>1, <3>2, <3>3, <3>4
  <2> QED
    BY <2>3
<1>10. Len(que) + 1 \notin QueOwed(p)
  BY <1>7 DEF QueOwed
<1>11. pic'[p].isr \subseteq pic[p].isr \cup VectorLines(pic, p, n)
  BY <1>3, <1>4 DEF Accepts
<1>12. CASE VectorLines(pic, p, n) = {}
  <2>1. pic'[p].isr \in SUBSET pic[p].isr
    BY <1>11, <1>12
  <2>2. Cardinality(pic'[p].isr) <= Cardinality(pic[p].isr)
    BY <2>1, OwedFinite, FS_Subset
  <2>3. EoisOwed(p)' = EoisOwed(p)
    <3>1. EoisOwed(p)' = Cardinality(QueOwed(p)') + Cardinality(FramesOwed(p)')
      BY DEF EoisOwed, QueOwed, FramesOwed
    <3> QED
      BY <1>8, <1>9, <1>12, <3>1, OwedFinite
  <2> QED
    BY <2>2, <2>3, OwedFinite, FS_CardinalityType, FS_Subset, <2>1
<1>13. CASE VectorLines(pic, p, n) # {}
  <2>1. PICK x : VectorLines(pic, p, n) = {x}
    BY <1>5, <1>13
  <2>2. /\ IsFiniteSet(pic[p].isr \cup {x})
        /\ Cardinality(pic[p].isr \cup {x}) <= Cardinality(pic[p].isr) + 1
        /\ Cardinality(pic[p].isr \cup {x}) \in Nat
    <3>1. IsFiniteSet(pic[p].isr) /\ Cardinality(pic[p].isr) \in Nat
      BY OwedFinite
    <3> DEFINE S == pic[p].isr
               A == S \cup {x}
    <3> HIDE DEF S
    <3>2. /\ IsFiniteSet(A)
          /\ Cardinality(A) = IF x \in S THEN Cardinality(S) ELSE Cardinality(S) + 1
      BY <3>1, FS_AddElement DEF S
    <3>3. Cardinality(S) \in Nat
      BY <3>1 DEF S
    <3> HIDE DEF A
    <3>4. Cardinality(A) <= Cardinality(S) + 1 /\ Cardinality(A) \in Nat
      BY <3>2, <3>3
    <3> QED
      BY <3>2, <3>4 DEF A, S
  <2>3. pic'[p].isr \in SUBSET (pic[p].isr \cup {x})
    BY <1>11, <2>1
  <2>4. /\ Cardinality(pic'[p].isr) <= Cardinality(pic[p].isr \cup {x})
        /\ Cardinality(pic'[p].isr) \in Nat
    BY <2>2, <2>3, FS_Subset, FS_CardinalityType
  <2>5. EoisOwed(p)' = EoisOwed(p) + 1
    <3>1. EoisOwed(p)' = Cardinality(QueOwed(p)') + Cardinality(FramesOwed(p)')
      BY DEF EoisOwed, QueOwed, FramesOwed
    <3>2. Cardinality(QueOwed(p)') = Cardinality(QueOwed(p)) + 1
      BY <1>9, <1>10, <1>13, OwedFinite, FS_AddElement
    <3> QED
      BY <1>8, <3>1, <3>2, OwedFinite
  <2> QED
    BY <2>2, <2>4, <2>5, OwedFinite
<1> QED
  BY <1>12, <1>13

(* Dispatching an interrupt moves the EOI from the queue to its handler.    *)
LEMMA StuckHandle ==
  ASSUME TypeOK, TypeOK', GuestInv, HundleInterrupt, NEW p \in Pics,
         Cardinality(pic[p].isr) <= EoisOwed(p)
  PROVE  Cardinality(pic'[p].isr) <= EoisOwed(p)'
<1>1. pic' = pic
  BY DEF HundleInterrupt
<1>2. \A k : LinesOf(p, k)' = LinesOf(p, k)
  BY <1>1 DEF LinesOf, VectorLines
<1>3. CASE que = <<>>
  <2>1. que' = que /\ frames' = frames
    BY <1>3 DEF HundleInterrupt
  <2>2. EoisOwed(p)' = EoisOwed(p)
    BY <1>1, <2>1 DEF EoisOwed, OwesEoi, LinesOf
  <2> QED
    BY <1>1, <2>2
<1>4. CASE que # <<>>
  <2>1. /\ Acknowledges(pic) /\ que' = Tail(que) /\ frames' = Append(frames, Entered)
        /\ Head(que).id \in Numbers(pic) \cup SoftVectors
    BY <1>4, GuestHandle
  <2>2. /\ Len(que) \in Nat /\ DOMAIN que = 1..Len(que) /\ Len(que) >= 1
        /\ Head(que) = que[1] /\ DOMAIN que' = 1..(Len(que) - 1)
        /\ \A i \in 1..(Len(que) - 1) : que'[i] = que[i + 1] /\ i + 1 \in 1..Len(que)
    BY <1>4, <2>1 DEF TypeOK
  <2>3. /\ Len(frames) \in Nat /\ DOMAIN frames = 1..Len(frames)
        /\ DOMAIN frames' = 1..(Len(frames) + 1)
        /\ \A i \in DOMAIN frames : frames'[i] = frames[i]
        /\ frames'[Len(frames) + 1] = Entered
    BY <2>1 DEF TypeOK
  <2>4. OwesEoi(Entered, p) <=> LinesOf(p, que[1].id) # {}
    <3>1. Entered.todo = Handler[Head(que).id]
      BY DEF Entered
    <3> QED
      BY <2>1, <2>2, <3>1, HandlerPending DEF OwesEoi, LinesOf
  <2>5. \A i : i \in QueOwed(p) <=>
                 i \in DOMAIN que /\ que[i].hard /\ LinesOf(p, que[i].id) # {}
    BY DEF QueOwed
  <2>6. \A i : i \in QueOwed(p)' <=>
                 i \in DOMAIN que' /\ que'[i].hard /\ LinesOf(p, que'[i].id) # {}
    BY <1>2 DEF QueOwed
  <2>7. \A i : i \in QueOwed(p)' <=> i \in 1..(Len(que) - 1) /\ i + 1 \in QueOwed(p)
    <3> TAKE i
    <3>1. CASE i \in 1..(Len(que) - 1)
      <4>1. /\ que'[i] = que[i + 1] /\ i \in DOMAIN que' /\ i + 1 \in DOMAIN que
        BY <2>2, <3>1
      <4> QED
        BY <2>5, <2>6, <3>1, <4>1, Zenon
    <3>2. CASE i \notin 1..(Len(que) - 1)
      BY <2>2, <2>6, <3>2
    <3> QED
      BY <3>1, <3>2
  <2>8. Cardinality(QueOwed(p)') = Cardinality(QueOwed(p) \ {1})
    <3>1. PICK S : S = QueOwed(p)
      OBVIOUS
    <3>2. PICK T : T = QueOwed(p)'
      OBVIOUS
    <3>3. S \in SUBSET (1..Len(que))
      BY <2>2, <2>5, <3>1
    <3>4. \A i : i \in T <=> i \in 1..(Len(que) - 1) /\ i + 1 \in S
      BY <2>7, <3>1, <3>2
    <3>5. Cardinality(T) = Cardinality(S \ {1})
      BY <2>2, <3>3, <3>4, ShiftedCount
    <3> QED
      BY <3>1, <3>2, <3>5
  <2>9. FramesOwed(p)' = IF OwesEoi(Entered, p) THEN FramesOwed(p) \cup {Len(frames) + 1}
                         ELSE FramesOwed(p)
    <3>1. \A i : i \in FramesOwed(p)' <=> i \in DOMAIN frames' /\ OwesEoi(frames'[i], p)
      BY DEF FramesOwed, OwesEoi
    <3>2. \A i : i \in FramesOwed(p) <=> i \in DOMAIN frames /\ OwesEoi(frames[i], p)
      BY DEF FramesOwed
    <3>3. \A i : i \in DOMAIN frames' <=> i \in DOMAIN frames \/ i = Len(frames) + 1
      BY <2>3
    <3>4. \A i : i \in FramesOwed(p)' <=>
                   \/ i \in FramesOwed(p)
                   \/ i = Len(frames) + 1 /\ OwesEoi(Entered, p)
      <4> TAKE i
      <4>1. CASE i \in DOMAIN frames
        <5>1. frames'[i] = frames[i] /\ i # Len(frames) + 1
          BY <2>3, <4>1
        <5> QED
          BY <3>1, <3>2, <3>3, <4>1, <5>1, Zenon
      <4>2. CASE i \notin DOMAIN frames
        BY <2>3, <3>1, <3>2, <3>3, <4>2, Zenon
      <4> QED
        BY <4>1, <4>2
    <3> QED
      BY <3>4
  <2>10. Len(frames) + 1 \notin FramesOwed(p)
    BY <2>3 DEF FramesOwed
  <2>11. /\ IsFiniteSet(QueOwed(p)) /\ IsFiniteSet(FramesOwed(p))
         /\ Cardinality(QueOwed(p)) \in Nat /\ Cardinality(FramesOwed(p)) \in Nat
         /\ EoisOwed(p) = Cardinality(QueOwed(p)) + Cardinality(FramesOwed(p))
    BY OwedFinite
  <2>12. EoisOwed(p)' = Cardinality(QueOwed(p)') + Cardinality(FramesOwed(p)')
    BY DEF EoisOwed, QueOwed, FramesOwed
  <2>13. CASE 1 \in QueOwed(p)
    <3>1. OwesEoi(Entered, p)
      BY <2>4, <2>5, <2>13
    <3>2. Cardinality(QueOwed(p)') = Cardinality(QueOwed(p)) - 1
      BY <2>8, <2>11, <2>13, FS_RemoveElement
    <3>3. Cardinality(FramesOwed(p)') = Cardinality(FramesOwed(p)) + 1
      BY <2>9, <2>10, <2>11, <3>1, FS_AddElement
    <3> QED
      BY <1>1, <2>11, <2>12, <3>2, <3>3
  <2>14. CASE 1 \notin QueOwed(p)
    <3>1. Cardinality(QueOwed(p)') = Cardinality(QueOwed(p))
      BY <2>8, <2>11, <2>14, FS_RemoveElement
    <3>2. \/ Cardinality(FramesOwed(p)') = Cardinality(FramesOwed(p)) + 1
          \/ Cardinality(FramesOwed(p)') = Cardinality(FramesOwed(p))
      BY <2>9, <2>10, <2>11, FS_AddElement
    <3>3. Cardinality(pic[p].isr) \in Nat
      BY OwedFinite
    <3> QED
      BY <1>1, <2>11, <2>12, <3>1, <3>2, <3>3
  <2> QED
    BY <2>13, <2>14
<1> QED
  BY <1>3, <1>4

(* A non-specific EOI clears a line whenever one is in service.             *)
LEMMA NonSpecificClears ==
  ASSUME NEW r \in PicState, NEW v, EndOfInterrupt(v), ~SpecificLine(v), r.isr # {}
  PROVE  \E x \in r.isr : EoiLines(r, v) = {x}
<1>1. Min(r.isr) \in r.isr
  BY MinLine DEF PicState
<1> QED
  BY <1>1 DEF EoiLines

\* Every EOI a handler in progress has still to send is a non-specific one.
Plain(todo) ==
  \A p \in Pics : \A i \in Commands(todo, p) :
    EndOfInterrupt(todo[i].v) /\ ~SpecificLine(todo[i].v)
PlainInv == \A i \in DOMAIN frames : Plain(frames[i].todo)

LEMMA PlainTail ==
  ASSUME NEW todo \in Seq(HandlerOp), todo # <<>>, Plain(todo)
  PROVE  Plain(Tail(todo))
<1>1. SUFFICES ASSUME NEW p \in Pics, NEW i \in Commands(Tail(todo), p)
               PROVE  /\ EndOfInterrupt(Tail(todo)[i].v)
                      /\ ~SpecificLine(Tail(todo)[i].v)
  BY DEF Plain
<1>2. i \in 1..(Len(todo) - 1) /\ i + 1 \in Commands(todo, p)
  BY TailCommands
<1>3. Tail(todo)[i] = todo[i + 1]
  BY <1>2
<1> QED
  BY <1>2, <1>3 DEF Plain

LEMMA PlainStep ==
  NonSpecific /\ TypeOK /\ GuestInv /\ PlainInv /\ [Next]_vars => PlainInv'
<1> SUFFICES ASSUME NonSpecific, TypeOK, GuestInv, PlainInv, [Next]_vars PROVE PlainInv'
  OBVIOUS
<1>1. CASE HundleInterrupt /\ que # <<>>
  <2>1. frames' = Append(frames, Entered)
    BY <1>1, GuestHandle
  <2>2. Plain(Entered.todo)
    <3>1. Head(que) \in Interrupt
      BY <1>1 DEF TypeOK
    <3>2. Head(que).id \in Byte /\ Entered.todo = Handler[Head(que).id]
      BY <3>1 DEF Interrupt, Entered
    <3> QED
      BY <3>2 DEF NonSpecific, Plain
  <2>3. ASSUME NEW i \in DOMAIN frames'
        PROVE  frames'[i] = Entered \/ (i \in DOMAIN frames /\ frames'[i] = frames[i])
    BY <2>1, <2>3 DEF TypeOK
  <2> QED
    BY <2>2, <2>3 DEF PlainInv
<1>2. CASE HandlerStep
  <2>1. /\ Top.todo \in Seq(HandlerOp) /\ Top.todo # <<>> /\ Depth \in DOMAIN frames
        /\ DOMAIN frames' = DOMAIN frames
        /\ \A i \in DOMAIN frames : i # Depth => frames'[i] = frames[i]
        /\ frames'[Depth].todo = Tail(Top.todo)
    BY <1>2, GuestWork
  <2>2. Plain(Tail(Top.todo))
    BY <2>1, PlainTail DEF PlainInv, Top
  <2> QED
    BY <2>1, <2>2 DEF PlainInv
<1>3. CASE Iret
  <2>1. /\ DOMAIN frames' = 1..(Depth - 1) /\ DOMAIN frames = 1..Depth /\ Depth \in Nat
        /\ \A i \in DOMAIN frames' : frames'[i] = frames[i]
    BY <1>3, GuestIret
  <2>2. \A i \in DOMAIN frames' : i \in DOMAIN frames
    BY <2>1
  <2> QED
    BY <2>1, <2>2 DEF PlainInv
<1>4. CASE UNCHANGED frames
  BY <1>4 DEF PlainInv
<1> QED
  BY <1>1, <1>2, <1>3, <1>4
     DEF Next, Cpu, ChkIrq, Exec, Raise, ChkIrqFalse, ChkIrqTrue, HundleInterrupt, Boot,
         Nop, Cli, Sti, Hlt, IntImm8, vars

(* The EOI of a handler takes a line out of service.                        *)
LEMMA StuckWork ==
  ASSUME PlainInv, TypeOK, TypeOK', GuestInv, HandlerStep, NEW p \in Pics,
         Cardinality(pic[p].isr) <= EoisOwed(p)
  PROVE  Cardinality(pic'[p].isr) <= EoisOwed(p)'
<1>1. /\ Depth \in DOMAIN frames /\ DOMAIN frames = 1..Depth
      /\ Top.todo \in Seq(HandlerOp) /\ Top.todo # <<>>
      /\ que' = que /\ DOMAIN frames' = DOMAIN frames
      /\ \A i \in DOMAIN frames : i # Depth => frames'[i] = frames[i]
      /\ frames'[Depth].todo = Tail(Top.todo)
      /\ Pending(pic, Top.id, Top.todo, p)
      /\ pic'[p].isr = IF 1 \in Commands(Top.todo, p)
                       THEN pic[p].isr \ EoiLines(pic[p], Head(Top.todo).v)
                       ELSE pic[p].isr
  BY GuestWork
<1>2. \A k : LinesOf(p, k)' = LinesOf(p, k)
  <2>1. boot = <<>> /\ SameSetUp(pic, pic')
    BY GuestWork
  <2>2. boot' = boot
    BY DEF HandlerStep
  <2> QED
    BY <2>1, <2>2, SetUpKept DEF LinesOf
<1>3. QueOwed(p)' = QueOwed(p)
  BY <1>1, <1>2 DEF QueOwed
<1>4. /\ IsFiniteSet(QueOwed(p)) /\ IsFiniteSet(FramesOwed(p)) /\ IsFiniteSet(pic[p].isr)
      /\ Cardinality(QueOwed(p)) \in Nat /\ Cardinality(FramesOwed(p)) \in Nat
      /\ Cardinality(pic[p].isr) \in Nat
      /\ EoisOwed(p) = Cardinality(QueOwed(p)) + Cardinality(FramesOwed(p))
  BY OwedFinite
<1>5. EoisOwed(p)' = Cardinality(QueOwed(p)') + Cardinality(FramesOwed(p)')
  BY DEF EoisOwed, QueOwed, FramesOwed
<1>6. \A i : i \in FramesOwed(p) <=> i \in DOMAIN frames /\ Commands(frames[i].todo, p) # {}
  BY DEF FramesOwed, OwesEoi
<1>7. \A i : i \in FramesOwed(p)' <=> i \in DOMAIN frames' /\ Commands(frames'[i].todo, p) # {}
  BY DEF FramesOwed, OwesEoi
<1>8. CASE 1 \in Commands(Top.todo, p)
  <2>1. Commands(Tail(Top.todo), p) = {}
    BY <1>1, <1>8, TailPending
  <2>2. FramesOwed(p)' = FramesOwed(p) \ {Depth}
    <3>1. \A i : i \in FramesOwed(p)' <=> i \in FramesOwed(p) /\ i # Depth
      <4> TAKE i
      <4>1. CASE i = Depth
        BY <1>1, <1>7, <2>1, <4>1
      <4>2. CASE i # Depth /\ i \in DOMAIN frames
        <5>1. frames'[i] = frames[i]
          BY <1>1, <4>2
        <5> QED
          BY <1>1, <1>6, <1>7, <4>2, <5>1, Zenon
      <4>3. CASE i \notin DOMAIN frames
        BY <1>1, <1>6, <1>7, <4>3, Zenon
      <4> QED
        BY <4>1, <4>2, <4>3
    <3> QED
      BY <3>1
  <2>3. Depth \in FramesOwed(p)
    BY <1>1, <1>6, <1>8 DEF Top
  <2>4. Cardinality(FramesOwed(p)') = Cardinality(FramesOwed(p)) - 1
    BY <1>4, <2>2, <2>3, FS_RemoveElement
  <2>5. EoisOwed(p)' = EoisOwed(p) - 1 /\ EoisOwed(p) - 1 >= 0
    <3>1. Cardinality(FramesOwed(p)) # 0
      BY <1>4, <2>3, FS_EmptySet
    <3> QED
      BY <1>3, <1>4, <1>5, <2>4, <3>1
  <2> DEFINE v == Head(Top.todo).v
  <2>6. EndOfInterrupt(v) /\ ~SpecificLine(v)
    <3>1. Top.todo[1] = Head(Top.todo)
      BY <1>1
    <3> QED
      BY <1>1, <1>8, <3>1 DEF PlainInv, Plain, Top
  <2>7. CASE pic[p].isr = {}
    <3>1. pic'[p].isr = {}
      BY <1>1, <1>8, <2>7
    <3>2. Cardinality(pic'[p].isr) = 0
      BY <3>1, FS_EmptySet
    <3> QED
      BY <2>5, <3>2
  <2>8. CASE pic[p].isr # {}
    <3>1. pic[p] \in PicState
      BY DEF TypeOK
    <3>2. PICK x \in pic[p].isr : EoiLines(pic[p], v) = {x}
      BY <2>6, <2>8, <3>1, NonSpecificClears
    <3>3. pic'[p].isr = pic[p].isr \ {x}
      BY <1>1, <1>8, <3>2
    <3>4. Cardinality(pic'[p].isr) = Cardinality(pic[p].isr) - 1
      <4>1. Cardinality(pic[p].isr \ {x}) = Cardinality(pic[p].isr) - 1
        BY <1>4, <3>2, FS_RemoveElement
      <4> QED
        BY <3>3, <4>1
    <3> QED
      BY <1>4, <2>5, <3>4
  <2> QED
    BY <2>7, <2>8
<1>9. CASE 1 \notin Commands(Top.todo, p)
  <2>1. Commands(Tail(Top.todo), p) = {} <=> Commands(Top.todo, p) = {}
    BY <1>1, <1>9, TailPending
  <2>2. FramesOwed(p)' = FramesOwed(p)
    <3>1. \A i : i \in FramesOwed(p)' <=> i \in FramesOwed(p)
      <4> TAKE i
      <4>1. CASE i = Depth
        BY <1>1, <1>6, <1>7, <2>1, <4>1 DEF Top
      <4>2. CASE i # Depth /\ i \in DOMAIN frames
        <5>1. frames'[i] = frames[i]
          BY <1>1, <4>2
        <5> QED
          BY <1>1, <1>6, <1>7, <4>2, <5>1, Zenon
      <4>3. CASE i \notin DOMAIN frames
        BY <1>1, <1>6, <1>7, <4>3, Zenon
      <4> QED
        BY <4>1, <4>2, <4>3
    <3> QED
      BY <3>1
  <2> QED
    BY <1>1, <1>3, <1>4, <1>5, <1>9, <2>2
<1> QED
  BY <1>8, <1>9

LEMMA StuckStep ==
  /\ TypeOK /\ TypeOK' /\ GuestInv /\ PlainInv /\ EveryLineOwed /\ [Next]_vars
  => EveryLineOwed'
<1> SUFFICES ASSUME TypeOK, TypeOK', GuestInv, PlainInv, EveryLineOwed, [Next]_vars,
                    NEW p \in Pics
             PROVE  Cardinality(pic'[p].isr) <= EoisOwed(p)'
  BY DEF EveryLineOwed
<1>1. Cardinality(pic[p].isr) <= EoisOwed(p)
  BY DEF EveryLineOwed
<1>2. ASSUME boot = <<>>, boot' = boot, SameSetUp(pic, pic'), pic'[p].isr = pic[p].isr,
             que' = que, frames' = frames
      PROVE  Cardinality(pic'[p].isr) <= EoisOwed(p)'
  <2>1. \A k : LinesOf(p, k)' = LinesOf(p, k)
    BY <1>2, SetUpKept DEF LinesOf
  <2>2. EoisOwed(p)' = EoisOwed(p)
    <3>1. QueOwed(p)' = QueOwed(p)
      BY <1>2, <2>1 DEF QueOwed
    <3>2. FramesOwed(p)' = FramesOwed(p)
      BY <1>2 DEF FramesOwed, OwesEoi
    <3>3. EoisOwed(p)' = Cardinality(QueOwed(p)') + Cardinality(FramesOwed(p)')
      BY DEF EoisOwed, QueOwed, FramesOwed
    <3> QED
      BY <3>1, <3>2, <3>3, OwedFinite
  <2> QED
    BY <1>1, <1>2, <2>2
<1>3. CASE pic'[p].isr = {}
  <2>1. Cardinality(QueOwed(p)') \in Nat
    <3>1. QueOwed(p)' \in SUBSET (1..Len(que')) /\ Len(que') \in Nat
      BY DEF QueOwed, TypeOK
    <3> QED
      BY <3>1, CountType
  <2>2. Cardinality(FramesOwed(p)') \in Nat
    <3>1. FramesOwed(p)' \in SUBSET (1..Len(frames')) /\ Len(frames') \in Nat
      BY DEF FramesOwed, TypeOK
    <3> QED
      BY <3>1, CountType
  <2>3. EoisOwed(p)' = Cardinality(QueOwed(p)') + Cardinality(FramesOwed(p)')
    BY DEF EoisOwed, QueOwed, FramesOwed
  <2>4. Cardinality(pic'[p].isr) = 0
    BY <1>3, FS_EmptySet
  <2> QED
    BY <2>1, <2>2, <2>3, <2>4
<1>4. CASE Boot
  BY <1>3, <1>4, GuestBoot
<1>5. CASE boot # <<>> /\ pic' = pic
  BY <1>3, <1>5 DEF GuestInv, BootInv
<1>6. CASE ChkIrqFalse /\ boot = <<>>
  <2>1. pic' = pic \/ pic' = AfterPoll
    BY <1>6 DEF ChkIrqFalse
  <2>2. pic'[p].isr = pic[p].isr
    <3>1. /\ pic[p] \in PicState /\ SlaveAccepted \in SUBSET Lines
          /\ MasterAccepted \in SUBSET Lines
      BY PollLines DEF TypeOK
    <3>2. AfterPoll[p].isr = pic[p].isr
      BY <3>1, MarkFields DEF AfterPoll
    <3> QED
      BY <2>1, <3>2
  <2>3. SameSetUp(pic, pic')
    BY <1>6, GuestIdle
  <2> QED
    BY <1>2, <1>6, <2>2, <2>3 DEF ChkIrqFalse
<1>7. CASE ChkIrqFalse /\ boot # <<>>
  <2>1. pic' = pic
    BY <1>7, BootPoll DEF ChkIrqFalse, GuestInv
  <2> QED
    BY <1>5, <1>7, <2>1
<1>8. CASE boot = <<>> /\ UNCHANGED <<pic, que, frames, boot>>
  BY <1>2, <1>8, SameSetUpRefl
<1>9. ASSUME NEW n \in SoftVectors, IntImm8(n)
      PROVE  Cardinality(pic'[p].isr) <= EoisOwed(p)'
  <2>1. /\ boot = <<>> /\ pic' = pic /\ frames' = frames
        /\ que' = Append(que, [id |-> n, hard |-> FALSE])
    BY <1>9, GuestSoft
  <2>2. QueOwed(p)' = QueOwed(p)
    <3>1. /\ DOMAIN que = 1..Len(que) /\ DOMAIN que' = 1..(Len(que) + 1)
          /\ Len(que) \in Nat /\ ~que'[Len(que) + 1].hard
          /\ \A i \in DOMAIN que : que'[i] = que[i]
      BY <2>1 DEF TypeOK
    <3>2. \A i : i \in QueOwed(p) <=>
                   i \in DOMAIN que /\ que[i].hard /\ LinesOf(p, que[i].id) # {}
      BY DEF QueOwed
    <3>3. \A i : i \in QueOwed(p)' <=>
                   i \in DOMAIN que' /\ que'[i].hard /\ LinesOf(p, que'[i].id) # {}
      BY <2>1 DEF QueOwed, LinesOf
    <3>4. \A i : i \in QueOwed(p)' <=> i \in QueOwed(p)
      <4> TAKE i
      <4>1. CASE i \in DOMAIN que
        <5>1. que'[i] = que[i] /\ i \in DOMAIN que'
          BY <3>1, <4>1
        <5> QED
          BY <3>2, <3>3, <4>1, <5>1, Zenon
      <4>2. CASE i \notin DOMAIN que
        <5>1. i \in DOMAIN que' => ~que'[i].hard
          BY <3>1, <4>2
        <5> QED
          BY <3>2, <3>3, <4>2, <5>1, Zenon
      <4> QED
        BY <4>1, <4>2
    <3> QED
      BY <3>4
  <2>3. FramesOwed(p)' = FramesOwed(p)
    BY <2>1 DEF FramesOwed, OwesEoi
  <2>4. EoisOwed(p)' = Cardinality(QueOwed(p)') + Cardinality(FramesOwed(p)')
    BY DEF EoisOwed, QueOwed, FramesOwed
  <2>5. EoisOwed(p)' = EoisOwed(p)
    BY <2>2, <2>3, <2>4, OwedFinite
  <2> QED
    BY <1>1, <2>1, <2>5
<1>10. CASE Iret
  <2>1. /\ boot = <<>> /\ pic' = pic /\ que' = que
        /\ DOMAIN frames = 1..Depth /\ Depth \in Nat
        /\ Top.todo = <<>>
        /\ DOMAIN frames' = 1..(Depth - 1)
        /\ \A i \in DOMAIN frames' : frames'[i] = frames[i]
    BY <1>10, GuestIret
  <2>2. QueOwed(p)' = QueOwed(p)
    BY <2>1 DEF QueOwed, LinesOf
  <2>3. FramesOwed(p)' = FramesOwed(p)
    <3>1. Commands(Top.todo, p) = {}
      BY <2>1 DEF Commands
    <3>2. \A i : i \in FramesOwed(p)'
                   <=> i \in DOMAIN frames' /\ Commands(frames'[i].todo, p) # {}
      BY DEF FramesOwed, OwesEoi
    <3>3. \A i : i \in FramesOwed(p) <=> i \in DOMAIN frames /\ Commands(frames[i].todo, p) # {}
      BY DEF FramesOwed, OwesEoi
    <3>4. \A i : i \in FramesOwed(p)' <=> i \in FramesOwed(p)
      <4> TAKE i
      <4>1. CASE i \in DOMAIN frames'
        <5>1. frames'[i] = frames[i] /\ i \in DOMAIN frames
          BY <2>1, <4>1
        <5> QED
          BY <3>2, <3>3, <4>1, <5>1, Zenon
      <4>2. CASE i \notin DOMAIN frames'
        <5>1. i \in DOMAIN frames => i = Depth
          BY <2>1, <4>2
        <5>2. i \in DOMAIN frames => Commands(frames[i].todo, p) = {}
          BY <3>1, <5>1 DEF Top
        <5> QED
          BY <3>2, <3>3, <4>2, <5>2, Zenon
      <4> QED
        BY <4>1, <4>2
    <3> QED
      BY <3>4
  <2>4. EoisOwed(p)' = Cardinality(QueOwed(p)') + Cardinality(FramesOwed(p)')
    BY DEF EoisOwed, QueOwed, FramesOwed
  <2>5. EoisOwed(p)' = EoisOwed(p)
    BY <2>2, <2>3, <2>4, OwedFinite
  <2> QED
    BY <1>1, <2>1, <2>5
<1>11. CASE Nop \/ Cli \/ Sti \/ Hlt
  <2>1. boot = <<>> /\ UNCHANGED <<pic, que, frames, boot>>
    BY <1>11 DEF Nop, Cli, Sti, Hlt, Ready
  <2> QED
    BY <1>8, <2>1
<1>12. CASE \E q \in Pics : \E line \in Lines : Raise(q, line)
  <2>1. UNCHANGED <<pic, que, frames, boot>>
    BY <1>12 DEF Raise
  <2> QED
    BY <1>5, <1>8, <2>1
<1>13. CASE UNCHANGED vars
  <2>1. UNCHANGED <<pic, que, frames, boot>>
    BY <1>13 DEF vars
  <2> QED
    BY <1>5, <1>8, <2>1
<1>14. CASE ChkIrqTrue
  BY <1>1, <1>14, StuckAccept
<1>15. CASE HundleInterrupt
  BY <1>1, <1>15, StuckHandle
<1>16. CASE HandlerStep
  BY <1>1, <1>16, StuckWork
<1> QED
  BY <1>4, <1>6, <1>7, <1>9, <1>10, <1>11, <1>12, <1>13, <1>14, <1>15, <1>16
     DEF Next, Cpu, ChkIrq, Exec

(* With non-specific EOIs no line stays in service once every accepted      *)
(* interrupt has been handled, however the handlers nest: interrupt gates   *)
(* or not, the lines marked in an isr never outnumber the EOIs still to     *)
(* come.                                                                    *)
THEOREM StuckSafe == WellFormed /\ NonSpecific /\ Spec => []NoStuckLine
<1> SUFFICES ASSUME WellFormed, NonSpecific PROVE Spec => []NoStuckLine
  OBVIOUS
<1>1. Init => GuestInv
  BY GuestInit
<1>2. Init => PlainInv
  BY DEF Init, PlainInv
<1>3. Init => EveryLineOwed
  <2> SUFFICES ASSUME Init, NEW p \in Pics
               PROVE  Cardinality(pic[p].isr) <= EoisOwed(p)
    BY DEF EveryLineOwed
  <2>1. pic[p].isr = {}
    BY DEF Init, PowerOn
  <2>2. Cardinality(pic[p].isr) = 0
    BY <2>1, FS_EmptySet
  <2> QED
    BY <2>2, InitType, OwedFinite
<1>4. TypeOK /\ GuestInv /\ PlainInv /\ [Next]_vars => PlainInv'
  BY PlainStep
<1>5. EveryLineOwed /\ MasterIrrConsumed => NoStuckLine
  BY DEF NoStuckLine
<1> QED
  BY <1>1, <1>2, <1>3, <1>4, <1>5, GuestStep, StuckStep, TypeCorrect, IrrConsumed, PTL DEF Spec

-----------------------------------------------------------------------------
(* Interrupt gates: the inductive invariant.                               *)

\* With interrupt gates at most one hardware interrupt is anywhere between its
\* acceptance and its EOI: chk_irq accepts one only with interrupts on, and they
\* stay off from then until the handler that owes the EOI returns.  An int n may
\* be queued just before it, and its handler then runs just after its own entry.
OffInv ==
  /\ flagIF => frames = <<>>
  /\ \A i \in DOMAIN frames : i # 1 => ~frames[i].flagIF

QueueInv ==
  /\ \A i \in DOMAIN que : ~que[i].hard => i = 1 /\ flagIF /\ pc \in {"poll", "handle"}
  /\ \A i, j \in DOMAIN que : que[i].hard /\ que[j].hard => i = j
  /\ \A i \in DOMAIN que : que[i].hard => pc = "handle" \/ ~flagIF
  /\ pc = "exec" /\ que # <<>> => frames # <<>> /\ Top.todo # <<>>

OwingInv ==
  \A i \in DOMAIN frames : \A p \in Pics :
    OwesEoi(frames[i], p) => i = Depth /\ \A j \in DOMAIN que : ~que[j].hard

GateInv == OffInv /\ QueueInv /\ OwingInv /\ pic["s"].irr = {} /\ IsrMatchesHandlers

LEMMA InServiceIs ==
  ASSUME NEW p
  PROVE  \A l : l \in InService(p) <=>
           \/ \E i \in DOMAIN que : que[i].hard /\ l \in LinesOf(p, que[i].id)
           \/ \E i \in DOMAIN frames : OwesEoi(frames[i], p) /\ l \in LinesOf(p, frames[i].id)
<1>1. \A l : l \in Queued(p) <=>
               \E i \in DOMAIN que : que[i].hard /\ l \in LinesOf(p, que[i].id)
  BY DEF Queued
<1>2. \A l : l \in UNION {LinesOf(p, frames[i].id) :
                            i \in {j \in DOMAIN frames : OwesEoi(frames[j], p)}} <=>
               \E i \in DOMAIN frames : OwesEoi(frames[i], p) /\ l \in LinesOf(p, frames[i].id)
  OBVIOUS
<1> QED
  BY <1>1, <1>2 DEF InService

(* With interrupts on nothing is in service.                                *)
LEMMA NoneInService ==
  ASSUME GateInv, flagIF, pc # "handle"
  PROVE  /\ frames = <<>>
         /\ \A i \in DOMAIN que : ~que[i].hard
         /\ \A p \in Pics : InService(p) = {} /\ pic[p].isr = {}
<1>1. frames = <<>> /\ \A i \in DOMAIN que : ~que[i].hard
  BY DEF GateInv, OffInv, QueueInv
<1>2. \A p \in Pics : InService(p) = {}
  BY <1>1, InServiceIs
<1> QED
  BY <1>1, <1>2 DEF GateInv, IsrMatchesHandlers

(* While nothing is in service no line is blocked: what is polled is        *)
(* accepted, and a request taken from the slave is the one the master       *)
(* accepts.                                                                 *)
LEMMA NothingBlocked ==
  ASSUME TypeOK, LineInv, Wired(pic), \A p \in Pics : pic[p].isr = {}
  PROVE  /\ SlaveAccepted = SlavePolled /\ MasterAccepted = MasterPolled
         /\ SlavePolled # {} => MasterPolled = {Cascade}
<1>1. /\ pic["m"] \in PicState /\ pic["s"] \in PicState
      /\ req["m"] \in SUBSET Lines /\ req["s"] \in SUBSET Lines
      /\ pic["m"].isr = {} /\ pic["s"].isr = {}
  BY DEF TypeOK, Pics
<1>2. SlaveAccepted = SlavePolled
  BY <1>1 DEF SlaveAccepted, Blocked
<1>3. MasterAccepted = MasterPolled
  BY <1>1 DEF MasterAccepted, MasterPolled, Accepted, Blocked
<1>4. ASSUME SlavePolled # {} PROVE MasterPolled = {Cascade}
  <2> DEFINE S == MasterRaised \ pic["m"].imr
  <2>1. /\ Cascade \notin pic["m"].imr /\ pic["m"].cnt = Finished
        /\ \A d \in req["m"] \ pic["m"].imr : Cascade < d
    BY <1>4 DEF SlavePolled, PollsSlave
  <2>2. MasterRaised = req["m"] \cup {Cascade}
    BY <1>2, <1>4 DEF MasterRaised
  <2>3. Cascade \in S /\ \A d \in S : d = Cascade \/ Cascade < d
    BY <2>1, <2>2
  <2>4. S \in SUBSET Lines
    BY <1>1, <2>2, DevsAssumption
  <2>5. MasterPolled = {Min(S)}
    BY <2>1, <2>3 DEF MasterPolled, Polled
  <2> HIDE DEF S
  <2>6. Min(S) \in S /\ Min(S) <= Cascade
    <3>1. Min(S) \in S /\ \A j \in S : Min(S) <= j
      <4>1. S # {}
        BY <2>3
      <4> QED
        BY <2>4, <4>1, MinLine, Zenon
    <3> QED
      BY <2>3, <3>1
  <2>7. Min(S) = Cascade
    <3>1. Min(S) \in Int /\ Cascade \in Int
      <4>1. Min(S) \in Lines /\ Cascade \in Lines
        BY <2>3, <2>4, <2>6
      <4> QED
        BY <4>1 DEF Lines
    <3> QED
      BY <2>3, <2>6, <3>1
  <2> QED
    BY <2>5, <2>7
<1> QED
  BY <1>2, <1>3, <1>4

(* chk_irq that accepts nothing takes nothing.                              *)
LEMMA GateIdleTakes ==
  ASSUME TypeOK, GuestInv, GateInv, ChkIrqFalse
  PROVE  pic' = pic /\ req' = req
<1>1. CASE ~flagIF
  BY <1>1 DEF ChkIrqFalse
<1>2. CASE flagIF /\ boot # <<>>
  BY <1>2, BootPoll DEF GuestInv, ChkIrqFalse
<1>3. CASE flagIF /\ boot = <<>>
  <2>1. /\ MasterAccepted = {} /\ pic' = AfterPoll /\ req' = PollRequests
        /\ pc = "poll"
    BY <1>3 DEF ChkIrqFalse
  <2>2. /\ SlaveAccepted = SlavePolled /\ MasterAccepted = MasterPolled
        /\ SlavePolled # {} => MasterPolled = {Cascade}
    <3>1. \A p \in Pics : pic[p].isr = {}
      BY <1>3, <2>1, NoneInService
    <3>2. LineInv /\ Wired(pic)
      BY <1>3 DEF GuestInv, SetUpInv
    <3> QED
      BY <3>1, <3>2, NothingBlocked
  <2>3. SlaveAccepted = {} /\ SlavePolled = {} /\ MasterPolled = {}
    BY <2>1, <2>2
  <2>4. /\ pic \in [Pics -> PicState] /\ req \in [Pics -> SUBSET Lines]
        /\ "m" \in Pics /\ "s" \in Pics
    BY DEF TypeOK, Pics
  <2>5. \A p \in Pics : AfterPoll[p] = pic[p]
    BY <2>1, <2>3, <2>4, MarkFields DEF AfterPoll
  <2>6. \A p \in Pics : PollRequests[p] = req[p]
    BY <2>3, <2>4 DEF PollRequests
  <2> QED
    BY <2>1, <2>4, <2>5, <2>6, PollLines
<1> QED
  BY <1>1, <1>2, <1>3

(* chk_irq that accepts an interrupt takes the request of its line alone.   *)
LEMMA GateAcceptTakes ==
  ASSUME TypeOK, GuestInv, GateInv, ChkIrqTrue
  PROVE  \E p \in Pics : \E l \in Devs[p] :
           /\ Accepts(p, l)
           /\ \A q \in Pics : req[q] \ req'[q] \subseteq IF q = p THEN {l} ELSE {}
           /\ pic'["s"].irr = {}
<1>1. boot = <<>> /\ Wired(pic) /\ \E p \in Pics : \E l \in Devs[p] : Accepts(p, l)
  BY GuestAccept
<1>2. PICK p \in Pics : \E l \in Devs[p] : Accepts(p, l)
  BY <1>1
<1>3. PICK l \in Devs[p] : Accepts(p, l)
  BY <1>2
<1>4. /\ SlaveAccepted = SlavePolled /\ MasterAccepted = MasterPolled
      /\ SlavePolled # {} => MasterPolled = {Cascade}
  <2>1. \A q \in Pics : pic[q].isr = {}
    BY NoneInService DEF ChkIrqTrue
  <2> QED
    BY <1>1, <2>1, NothingBlocked DEF GuestInv
<1>5. /\ req' = PollRequests /\ pic["s"].irr = {}
      /\ "m" \in Pics /\ "s" \in Pics
  BY DEF ChkIrqTrue, GateInv, Pics
<1>6. /\ req["m"] \ req'["m"] \subseteq MasterPolled
      /\ req["s"] \ req'["s"] \subseteq SlavePolled
  BY <1>5 DEF PollRequests
<1>7. req["m"] \subseteq MasterDevs /\ Cascade \notin MasterDevs
  BY DevsAssumption DEF GuestInv, LineInv, Devs, Pics
<1>8. CASE p = "m"
  <2>1. l \in MasterAccepted /\ l # Cascade
    BY <1>3, <1>7, <1>8 DEF Accepts, Devs
  <2>2. SlavePolled = {} /\ SlaveAccepted = {}
    BY <1>4, <2>1
  <2>3. MasterPolled \subseteq {l}
    BY <1>4, <2>1, PollLines
  <2>4. \A q \in Pics : req[q] \ req'[q] \subseteq IF q = p THEN {l} ELSE {}
    BY <1>6, <1>8, <2>2, <2>3 DEF Pics
  <2>5. pic'["s"].irr = {}
    BY <1>3, <1>5, <1>8, <2>2 DEF Accepts
  <2> QED
    BY <1>3, <2>4, <2>5
<1>9. CASE p = "s"
  <2>1. MasterPolled = {Cascade} /\ l \in SlaveAccepted
    BY <1>3, <1>4, <1>5, <1>9 DEF Accepts
  <2>2. SlavePolled \subseteq {l}
    BY <1>4, <2>1, ScanLines DEF GuestInv
  <2>3. req["m"] \ req'["m"] = {}
    BY <1>6, <1>7, <2>1
  <2>4. \A q \in Pics : req[q] \ req'[q] \subseteq IF q = p THEN {l} ELSE {}
    BY <1>6, <1>9, <2>2, <2>3 DEF Pics
  <2>5. pic'["s"].irr = {}
    BY <1>3, <1>4, <1>5, <1>9, <2>2 DEF Accepts
  <2> QED
    BY <1>3, <2>4, <2>5
<1> QED
  BY <1>8, <1>9 DEF Pics

-----------------------------------------------------------------------------
(* Interrupt gates: the invariant holds.                                   *)

(* Steps that leave the queue, the handlers and the isr alone.              *)
LEMMA SameService ==
  ASSUME \A p \in Pics : \A n : VectorLines(pic', p, n) = VectorLines(pic, p, n),
         que' = que, frames' = frames
  PROVE  \A p \in Pics : InService(p)' = InService(p)
<1> TAKE p \in Pics
<1>1. \A n : LinesOf(p, n)' = LinesOf(p, n)
  BY DEF LinesOf
<1>2. Queued(p)' = Queued(p)
  BY <1>1 DEF Queued
<1> QED
  BY <1>1, <1>2 DEF InService, OwesEoi

LEMMA GateIdle ==
  ASSUME TypeOK, GuestInv, GateInv, ChkIrqFalse
  PROVE  GateInv'
<1>1. pic' = pic /\ UNCHANGED <<flagIF, halt, que, frames, boot>>
  BY GateIdleTakes DEF ChkIrqFalse
<1>2. pc' \in {"poll", "handle"} /\ pc = "poll"
  BY DEF ChkIrqFalse, AfterNoIrq
<1>3. OffInv' /\ OwingInv' /\ pic'["s"].irr = {}
  BY <1>1 DEF GateInv, OffInv, OwingInv, OwesEoi, Depth
<1>4. QueueInv'
  BY <1>1, <1>2 DEF GateInv, QueueInv
<1>5. IsrMatchesHandlers'
  BY <1>1, SameService DEF GateInv, IsrMatchesHandlers
<1> QED
  BY <1>3, <1>4, <1>5 DEF GateInv

LEMMA GateAccept ==
  ASSUME TypeOK, GuestInv, GateInv, ChkIrqTrue
  PROVE  GateInv'
<1>1. /\ flagIF /\ flagIF' = flagIF /\ frames' = frames /\ pc = "poll" /\ pc # "handle"
  BY DEF ChkIrqTrue
<1>2. /\ frames = <<>> /\ \A i \in DOMAIN que : ~que[i].hard
      /\ \A q \in Pics : InService(q) = {} /\ pic[q].isr = {}
  BY <1>1, NoneInService
<1>3. PICK p \in Pics : \E l \in Devs[p] : Accepts(p, l) /\ pic'["s"].irr = {}
  BY GateAcceptTakes
<1>4. PICK l \in Devs[p] : Accepts(p, l) /\ pic'["s"].irr = {}
  BY <1>3
<1>5. PICK n : n = Vector(pic[p], l)
  OBVIOUS
<1>6. /\ Len(que) \in Nat /\ DOMAIN que = 1..Len(que)
      /\ DOMAIN que' = 1..(Len(que) + 1)
      /\ \A i \in DOMAIN que : que'[i] = que[i]
      /\ que'[Len(que) + 1] = [id |-> n, hard |-> TRUE] /\ pc' = "handle"
  BY <1>4, <1>5 DEF TypeOK, Accepts
<1>7. \A i \in DOMAIN que' : que'[i].hard <=> i = Len(que) + 1
  BY <1>2, <1>6
<1>8. OffInv' /\ OwingInv'
  BY <1>1, <1>2 DEF OffInv, OwingInv
<1>9. QueueInv'
  <2>1. \A i \in DOMAIN que' : ~que'[i].hard => i \in DOMAIN que /\ ~que[i].hard
    BY <1>6, <1>7
  <2>2. \A i \in DOMAIN que' : ~que'[i].hard => i = 1 /\ flagIF' /\ pc' \in {"poll", "handle"}
    BY <1>1, <1>6, <2>1 DEF GateInv, QueueInv
  <2>3. \A i, j \in DOMAIN que' : que'[i].hard /\ que'[j].hard => i = j
    BY <1>7
  <2> QED
    BY <1>6, <2>2, <2>3 DEF QueueInv
<1>10. IsrMatchesHandlers'
  <2> SUFFICES ASSUME NEW q \in Pics
               PROVE  pic'[q].isr = IF AEOI(pic'[q]) THEN {} ELSE InService(q)'
    BY DEF IsrMatchesHandlers
  <2>1. /\ AEOI(pic'[q]) = AEOI(pic[q])
        /\ \A k : VectorLines(pic', q, k) = VectorLines(pic, q, k)
    <3>1. PICK P : P = pic'
      OBVIOUS
    <3>2. SameSetUp(pic, P)
      BY <1>4, <3>1 DEF Accepts
    <3> QED
      BY <3>1, <3>2, SetUpDecides
  <2>2. InService(q)' = VectorLines(pic, q, n)
    <3>1. \A x : x \in InService(q)' <=>
            \/ \E i \in DOMAIN que' : que'[i].hard /\ x \in VectorLines(pic', q, que'[i].id)
            \/ \E i \in DOMAIN frames' : OwesEoi(frames'[i], q)
                                         /\ x \in VectorLines(pic', q, frames'[i].id)
      <4>1. \A x : x \in Queued(q)' <=>
              \E i \in DOMAIN que' : que'[i].hard /\ x \in VectorLines(pic', q, que'[i].id)
        BY DEF Queued, LinesOf
      <4> QED
        BY <4>1 DEF InService, LinesOf, OwesEoi
    <3>2. Len(que) + 1 \in DOMAIN que' /\ que'[Len(que) + 1].id = n
      BY <1>6
    <3>3. DOMAIN frames' = {}
      BY <1>1, <1>2
    <3>4. \A x : x \in InService(q)' <=> x \in VectorLines(pic, q, n)
      BY <1>7, <2>1, <3>1, <3>2, <3>3
    <3> QED
      BY <3>4
  <2>3. pic'[q].isr = IF AEOI(pic[q]) THEN {} ELSE VectorLines(pic, q, n)
    BY <1>2, <1>4, <1>5 DEF Accepts
  <2> QED
    BY <2>1, <2>2, <2>3
<1> QED
  BY <1>4, <1>8, <1>9, <1>10 DEF GateInv

LEMMA InServiceNext ==
  ASSUME NEW p
  PROVE  \A x : x \in InService(p)' <=>
           \/ \E i \in DOMAIN que' : que'[i].hard /\ x \in VectorLines(pic', p, que'[i].id)
           \/ \E i \in DOMAIN frames' : OwesEoi(frames'[i], p)
                                        /\ x \in VectorLines(pic', p, frames'[i].id)
<1>1. \A x : x \in Queued(p)' <=>
        \E i \in DOMAIN que' : que'[i].hard /\ x \in VectorLines(pic', p, que'[i].id)
  BY DEF Queued, LinesOf
<1> QED
  BY <1>1 DEF InService, LinesOf, OwesEoi

(* int n runs a handler that owes nobody an EOI.                            *)
LEMMA SoftLines ==
  ASSUME Acknowledges(pic), NEW n \in SoftVectors, NEW p \in Pics
  PROVE  VectorLines(pic, p, n) = {} /\ Commands(Handler[n], p) = {} /\ Handler[n] # <<>>
<1>1. n \notin Numbers(pic) /\ Handler[n] # <<>>
  BY DEF Acknowledges
<1>2. VectorLines(pic, p, n) = {}
  <2>1. \A q \in Pics : \A d \in Devs[q] : n # Vector(pic[q], d)
    BY <1>1 DEF Numbers
  <2>2. {l \in Devs[p] : n = Vector(pic[p], l)} = {}
    BY <2>1
  <2>3. ~ \E d \in SlaveDevs : n = Vector(pic["s"], d)
    BY <2>1 DEF Devs, Pics
  <2> QED
    BY <2>2, <2>3 DEF VectorLines
<1> QED
  BY <1>1, <1>2, HandlerPending

LEMMA GateHandle ==
  ASSUME GateClearsIF, TypeOK, GuestInv, GateInv, HundleInterrupt, que # <<>>
  PROVE  GateInv'
<1>1. /\ Acknowledges(pic) /\ que' = Tail(que) /\ frames' = Append(frames, Entered)
      /\ Head(que).id \in IF Head(que).hard THEN Numbers(pic) ELSE SoftVectors
  BY GuestHandle
<1>2. pic' = pic /\ pc' = "exec" /\ ~flagIF'
  BY DEF HundleInterrupt, HandlerIF
<1>3. /\ Len(que) \in Nat /\ DOMAIN que = 1..Len(que) /\ Len(que) >= 1
      /\ Head(que) = que[1] /\ DOMAIN que' = 1..(Len(que) - 1) /\ 1 \in DOMAIN que
      /\ \A i \in DOMAIN que' : que'[i] = que[i + 1] /\ i + 1 \in DOMAIN que /\ i + 1 # 1
      /\ \A i \in DOMAIN que : i # 1 => i - 1 \in DOMAIN que' /\ que'[i - 1] = que[i]
  BY <1>1 DEF TypeOK
<1>4. /\ Len(frames) \in Nat /\ DOMAIN frames = 1..Len(frames)
      /\ Len(frames') = Len(frames) + 1
      /\ DOMAIN frames' = 1..(Len(frames) + 1)
      /\ \A i \in DOMAIN frames : frames'[i] = frames[i]
      /\ frames'[Len(frames) + 1] = Entered /\ frames' # <<>>
  <2>1. frames \in Seq(Frame) /\ Len(frames) \in Nat
    BY DEF TypeOK
  <2>2. Len(frames') = Len(frames) + 1 /\ DOMAIN frames' = 1..(Len(frames) + 1)
    BY <1>1, <2>1
  <2>3. frames' # <<>>
    BY <2>1, <2>2
  <2> QED
    BY <1>1, <2>1, <2>2, <2>3
<1>5. /\ Entered.id = que[1].id /\ Entered.todo = Handler[que[1].id]
      /\ Entered.flagIF = flagIF
  BY <1>3 DEF Entered
<1>6. ~que[1].hard => \A p \in Pics : /\ VectorLines(pic, p, que[1].id) = {}
                                      /\ Commands(Entered.todo, p) = {}
                                      /\ Entered.todo # <<>>
  BY <1>1, <1>3, <1>5, SoftLines
<1>7. \A p \in Pics : OwesEoi(Entered, p) <=> VectorLines(pic, p, que[1].id) # {}
  <2>1. que[1].id \in Numbers(pic) \cup SoftVectors
    BY <1>1, <1>3
  <2> QED
    BY <1>1, <1>5, <2>1, HandlerPending DEF OwesEoi
<1>8. OffInv'
  <2>1. ASSUME NEW i \in DOMAIN frames', i # 1
        PROVE  ~frames'[i].flagIF
    <3>1. CASE i \in DOMAIN frames
      BY <1>4, <2>1, <3>1 DEF GateInv, OffInv
    <3>2. CASE i \notin DOMAIN frames
      <4>1. i = Len(frames) + 1 /\ frames # <<>>
        BY <1>4, <2>1, <3>2
      <4> QED
        BY <1>4, <1>5, <4>1 DEF GateInv, OffInv
    <3> QED
      BY <3>1, <3>2
  <2> QED
    BY <1>2, <2>1 DEF OffInv
<1>9. \A i \in DOMAIN que' : que'[i].hard
  BY <1>3 DEF GateInv, QueueInv
<1>10. \A i \in DOMAIN que' : ~que[1].hard
  BY <1>3, <1>9 DEF GateInv, QueueInv
<1>11. QueueInv'
  <2>1. \A i, j \in DOMAIN que' : i = j
    BY <1>3, <1>9 DEF GateInv, QueueInv
  <2>2. que' # <<>> => Top'.todo # <<>>
    <3>1. Top' = Entered
      BY <1>4 DEF Top, Depth
    <3>2. que' # <<>> => 1 \in DOMAIN que'
      BY <1>1, <1>3
    <3>3. "m" \in Pics
      BY DEF Pics
    <3> QED
      BY <1>6, <1>10, <3>1, <3>2, <3>3
  <2> QED
    BY <1>2, <1>4, <1>9, <2>1, <2>2 DEF QueueInv
<1>12. OwingInv'
  <2> SUFFICES ASSUME NEW i \in DOMAIN frames', NEW p \in Pics, OwesEoi(frames'[i], p)
               PROVE  i = Depth' /\ \A j \in DOMAIN que' : ~que'[j].hard
    BY DEF OwingInv, OwesEoi
  <2>1. CASE i \in DOMAIN frames
    <3>1. frames # <<>> /\ \A j \in DOMAIN que : ~que[j].hard
      BY <1>4, <2>1 DEF GateInv, OwingInv
    <3>2. ~que[1].hard /\ flagIF
      BY <1>3, <3>1 DEF GateInv, QueueInv
    <3> QED
      BY <3>1, <3>2 DEF GateInv, OffInv
  <2>2. CASE i \notin DOMAIN frames
    <3>1. i = Len(frames) + 1 /\ i = Depth'
      BY <1>4, <2>2 DEF Depth
    <3>2. OwesEoi(Entered, p)
      BY <1>4, <3>1
    <3>3. que[1].hard
      BY <1>6, <1>7, <3>2
    <3> QED
      BY <1>10, <3>1, <3>3
  <2> QED
    BY <2>1, <2>2
<1>13. IsrMatchesHandlers'
  <2> SUFFICES ASSUME NEW p \in Pics PROVE InService(p)' = InService(p)
    BY <1>2 DEF GateInv, IsrMatchesHandlers
  <2>1. \A x : x \in InService(p) <=>
          \/ \E i \in DOMAIN que : que[i].hard /\ x \in VectorLines(pic, p, que[i].id)
          \/ \E i \in DOMAIN frames : OwesEoi(frames[i], p)
                                      /\ x \in VectorLines(pic, p, frames[i].id)
    BY InServiceIs DEF LinesOf
  <2>2. \A x : x \in InService(p)' <=>
          \/ \E i \in DOMAIN que' : que'[i].hard /\ x \in VectorLines(pic, p, que'[i].id)
          \/ \E i \in DOMAIN frames' : OwesEoi(frames'[i], p)
                                       /\ x \in VectorLines(pic, p, frames'[i].id)
    BY <1>2, InServiceNext
  <2>3. \A x : x \in InService(p)' <=>
          \/ \E i \in DOMAIN que' : que'[i].hard /\ x \in VectorLines(pic, p, que'[i].id)
          \/ \E i \in DOMAIN frames : OwesEoi(frames[i], p)
                                      /\ x \in VectorLines(pic, p, frames[i].id)
          \/ x \in VectorLines(pic, p, que[1].id)
    <3> TAKE x
    <3>1. (\E i \in DOMAIN frames' : OwesEoi(frames'[i], p)
                                     /\ x \in VectorLines(pic, p, frames'[i].id))
          <=> \/ \E i \in DOMAIN frames : OwesEoi(frames[i], p)
                                          /\ x \in VectorLines(pic, p, frames[i].id)
              \/ OwesEoi(Entered, p) /\ x \in VectorLines(pic, p, Entered.id)
      <4>1. \A i \in DOMAIN frames' : i \in DOMAIN frames \/ i = Len(frames) + 1
        BY <1>4
      <4>2. Len(frames) + 1 \in DOMAIN frames' /\ \A i \in DOMAIN frames : i \in DOMAIN frames'
        BY <1>4
      <4> QED
        BY <1>4, <4>1, <4>2, Zenon
    <3>2. OwesEoi(Entered, p) /\ x \in VectorLines(pic, p, Entered.id)
            <=> x \in VectorLines(pic, p, que[1].id)
      BY <1>5, <1>7
    <3> QED
      BY <2>2, <3>1, <3>2
  <2>4. \A x : (\E i \in DOMAIN que : que[i].hard /\ x \in VectorLines(pic, p, que[i].id)) <=>
          \/ \E i \in DOMAIN que' : que'[i].hard /\ x \in VectorLines(pic, p, que'[i].id)
          \/ x \in VectorLines(pic, p, que[1].id)
    <3> TAKE x
    <3>1. x \in VectorLines(pic, p, que[1].id) => que[1].hard
      BY <1>6
    <3>2. ASSUME NEW i \in DOMAIN que, que[i].hard, x \in VectorLines(pic, p, que[i].id)
          PROVE  \/ \E j \in DOMAIN que' : que'[j].hard /\ x \in VectorLines(pic, p, que'[j].id)
                 \/ x \in VectorLines(pic, p, que[1].id)
      BY <1>3, <3>2
    <3>3. ASSUME NEW i \in DOMAIN que', que'[i].hard, x \in VectorLines(pic, p, que'[i].id)
          PROVE  \E j \in DOMAIN que : que[j].hard /\ x \in VectorLines(pic, p, que[j].id)
      BY <1>3, <3>3
    <3> QED
      BY <1>3, <3>1, <3>2, <3>3, Zenon
  <2>5. \A x : x \in InService(p)' <=> x \in InService(p)
    BY <2>1, <2>3, <2>4, Zenon
  <2> QED
    BY <2>5
<1> QED
  BY <1>2, <1>8, <1>11, <1>12, <1>13 DEF GateInv

(* The EOI of a handler, specific or not, takes out of service the line its *)
(* interrupt came through, which is the only one there.                     *)
LEMMA OwnEoi ==
  ASSUME TypeOK, GuestInv, GateInv, HandlerStep, NEW p \in Pics, 1 \in Commands(Top.todo, p)
  PROVE  /\ InService(p) = LinesOf(p, Top.id)
         /\ pic'[p].isr = {}
<1>1. /\ Depth \in DOMAIN frames /\ DOMAIN frames = 1..Depth
      /\ Top.todo \in Seq(HandlerOp) /\ Top.todo # <<>> /\ boot = <<>> /\ Wired(pic)
      /\ Pending(pic, Top.id, Top.todo, p)
      /\ pic'[p].isr = pic[p].isr \ EoiLines(pic[p], Head(Top.todo).v)
  BY GuestWork
<1>2. OwesEoi(frames[Depth], p)
  BY DEF OwesEoi, Top
<1>3. /\ \A j \in DOMAIN que : ~que[j].hard
      /\ \A i \in DOMAIN frames : OwesEoi(frames[i], p) => i = Depth
  BY <1>1, <1>2 DEF GateInv, OwingInv
<1>4. InService(p) = LinesOf(p, Top.id)
  <2>1. \A x : x \in InService(p) <=> x \in LinesOf(p, Top.id)
    BY <1>1, <1>2, <1>3, InServiceIs DEF Top
  <2> QED
    BY <2>1
<1>5. PICK x \in Lines : VectorLines(pic, p, Top.id) = {x}
  <2>1. VectorLines(pic, p, Top.id) # {}
    BY <1>1 DEF Pending
  <2>2. Top.id \in Numbers(pic)
    <3>1. Top.id \in Numbers(pic) \cup SoftVectors
      BY <1>1 DEF GuestInv, WorkInv, Top
    <3>2. Acknowledges(pic)
      BY <1>1 DEF GuestInv, SetUpInv
    <3> QED
      BY <2>1, <3>1, <3>2, SoftLines
  <2>3. PICK q \in Pics : \E l \in Devs[q] : Top.id = Vector(pic[q], l)
    BY <2>2 DEF Numbers
  <2>4. PICK l \in Devs[q] : Top.id = Vector(pic[q], l)
    BY <2>3
  <2>5. VectorLines(pic, p, Top.id) = {l} \/ VectorLines(pic, p, Top.id) = {Cascade}
    <3>1. VectorLines(pic, p, Vector(pic[q], l)) =
            IF p = q THEN {l} ELSE IF p = "m" THEN {Cascade} ELSE {}
      BY <1>1, OwnLine
    <3> QED
      BY <2>1, <2>4, <3>1
  <2>6. l \in Lines /\ Cascade \in Lines
    BY <2>4, DevsAssumption DEF Devs, Pics
  <2> QED
    BY <2>5, <2>6
<1>6. Acknowledgement(Head(Top.todo).v, x)
  <2>1. Top.todo[1] = Head(Top.todo)
    BY <1>1
  <2> QED
    BY <1>1, <1>5, <2>1 DEF Pending
<1>7. pic'[p].isr = {}
  <2>1. CASE AEOI(pic[p])
    BY <1>1, <2>1 DEF GateInv, IsrMatchesHandlers
  <2>2. CASE ~AEOI(pic[p])
    <3>1. pic[p].isr = {x}
      BY <1>4, <1>5, <2>2 DEF GateInv, IsrMatchesHandlers, LinesOf
    <3>2. Min({x}) = x
      BY <1>5, MinLine
    <3>3. EoiLines(pic[p], Head(Top.todo).v) = {x}
      BY <1>5, <1>6, <3>1, <3>2 DEF EoiLines, Acknowledgement
    <3> QED
      BY <1>1, <3>1, <3>3
  <2> QED
    BY <2>1, <2>2
<1> QED
  BY <1>4, <1>7

LEMMA GateWork ==
  ASSUME TypeOK, GuestInv, GateInv, HandlerStep
  PROVE  GateInv'
<1>1. /\ boot = <<>> /\ Wired(pic)
      /\ Depth \in DOMAIN frames /\ DOMAIN frames = 1..Depth
      /\ Top.todo \in Seq(HandlerOp) /\ Top.todo # <<>>
      /\ que' = que /\ SameSetUp(pic, pic')
      /\ DOMAIN frames' = DOMAIN frames
      /\ \A i \in DOMAIN frames : i # Depth => frames'[i] = frames[i]
      /\ frames'[Depth].id = Top.id /\ frames'[Depth].flagIF = Top.flagIF
      /\ frames'[Depth].todo = Tail(Top.todo)
      /\ \A p \in Pics : Pending(pic, Top.id, Top.todo, p)
  BY GuestWork
<1>2. \A p \in Pics :
        /\ pic'[p].irr = pic[p].irr
        /\ pic'[p].isr = IF 1 \in Commands(Top.todo, p)
                         THEN pic[p].isr \ EoiLines(pic[p], Head(Top.todo).v)
                         ELSE pic[p].isr
  BY GuestWork
<1>3. frames # <<>> /\ ~flagIF /\ flagIF' = flagIF /\ pc' = "poll" /\ pc = "exec"
  BY DEF HandlerStep, InHandler, GateInv, OffInv
<1>4. Depth' = Depth
  <2>1. frames' = [frames EXCEPT ![Depth].todo = Tail(@)]
    BY DEF HandlerStep
  <2> QED
    BY <2>1 DEF Depth, TypeOK
<1>5. \A p \in Pics : \A i \in DOMAIN frames :
        OwesEoi(frames'[i], p) <=>
          OwesEoi(frames[i], p) /\ ~(i = Depth /\ 1 \in Commands(Top.todo, p))
  <2> TAKE p \in Pics
  <2> TAKE i \in DOMAIN frames
  <2>1. CASE i # Depth
    BY <1>1, <2>1
  <2>2. CASE i = Depth
    <3>1. /\ 1 \in Commands(Top.todo, p) => Commands(Tail(Top.todo), p) = {}
          /\ 1 \notin Commands(Top.todo, p) =>
               (Commands(Tail(Top.todo), p) = {} <=> Commands(Top.todo, p) = {})
      BY <1>1, TailPending
    <3> QED
      BY <1>1, <2>2, <3>1 DEF OwesEoi, Top
  <2> QED
    BY <2>1, <2>2
<1>6. OffInv'
  <2>1. \A i \in DOMAIN frames : i # 1 => ~frames'[i].flagIF
    BY <1>1 DEF GateInv, OffInv, Top
  <2> QED
    BY <1>1, <1>3, <2>1 DEF OffInv
<1>7. QueueInv'
  BY <1>1, <1>3 DEF GateInv, QueueInv
<1>8. OwingInv'
  BY <1>1, <1>4, <1>5 DEF GateInv, OwingInv, OwesEoi
<1>9. IsrMatchesHandlers'
  <2> SUFFICES ASSUME NEW p \in Pics
               PROVE  pic'[p].isr = IF AEOI(pic'[p]) THEN {} ELSE InService(p)'
    BY DEF IsrMatchesHandlers
  <2>1. /\ AEOI(pic'[p]) = AEOI(pic[p])
        /\ \A k : VectorLines(pic', p, k) = VectorLines(pic, p, k)
    <3>1. PICK P : P = pic'
      OBVIOUS
    <3>2. SameSetUp(pic, P)
      BY <1>1, <3>1
    <3> QED
      BY <3>1, <3>2, SetUpDecides
  <2>2. \A x : x \in InService(p) <=>
          \/ \E i \in DOMAIN que : que[i].hard /\ x \in VectorLines(pic, p, que[i].id)
          \/ \E i \in DOMAIN frames : OwesEoi(frames[i], p)
                                      /\ x \in VectorLines(pic, p, frames[i].id)
    BY InServiceIs DEF LinesOf
  <2>3. \A i \in DOMAIN frames : frames'[i].id = frames[i].id
    BY <1>1 DEF Top
  <2>4. \A x : x \in InService(p)' <=>
          \/ \E i \in DOMAIN que : que[i].hard /\ x \in VectorLines(pic, p, que[i].id)
          \/ \E i \in DOMAIN frames : OwesEoi(frames'[i], p)
                                      /\ x \in VectorLines(pic, p, frames[i].id)
    BY <1>1, <2>1, <2>3, InServiceNext
  <2>5. CASE 1 \in Commands(Top.todo, p)
    <3>1. pic'[p].isr = {}
      BY <2>5, OwnEoi
    <3>2. OwesEoi(frames[Depth], p)
      BY <2>5 DEF OwesEoi, Top
    <3>3. /\ \A j \in DOMAIN que : ~que[j].hard
          /\ \A i \in DOMAIN frames : OwesEoi(frames[i], p) => i = Depth
      BY <1>1, <3>2 DEF GateInv, OwingInv
    <3>4. \A i \in DOMAIN frames : ~OwesEoi(frames'[i], p)
      BY <1>5, <2>5, <3>3
    <3>5. InService(p)' = {}
      BY <2>4, <3>3, <3>4
    <3> QED
      BY <3>1, <3>5
  <2>6. CASE 1 \notin Commands(Top.todo, p)
    <3>1. \A x : x \in InService(p)' <=> x \in InService(p)
      BY <1>5, <2>2, <2>4, <2>6
    <3>2. InService(p)' = InService(p)
      BY <3>1
    <3> QED
      BY <1>2, <2>1, <2>6, <3>2 DEF GateInv, IsrMatchesHandlers
  <2> QED
    BY <2>5, <2>6
<1>10. pic'["s"].irr = {}
  BY <1>2 DEF GateInv, Pics
<1> QED
  BY <1>6, <1>7, <1>8, <1>9, <1>10 DEF GateInv

LEMMA GateIret ==
  ASSUME TypeOK, GuestInv, GateInv, Iret
  PROVE  GateInv'
<1>1. /\ pic' = pic /\ que' = que
      /\ Depth \in DOMAIN frames /\ DOMAIN frames = 1..Depth /\ Depth \in Nat
      /\ Top.todo = <<>> /\ flagIF' = Top.flagIF
      /\ DOMAIN frames' = 1..(Depth - 1)
      /\ \A i \in DOMAIN frames' : frames'[i] = frames[i] /\ i \in DOMAIN frames /\ i # Depth
  BY GuestIret
<1>2. pc = "exec" /\ pc' = "poll" /\ que = <<>>
  BY <1>1 DEF Iret, InHandler, GateInv, QueueInv
<1>3. \A i \in DOMAIN frames : \A p \in Pics : ~OwesEoi(frames[i], p)
  <2>1. \A p \in Pics : Commands(Top.todo, p) = {}
    BY <1>1 DEF Commands
  <2>2. \A p \in Pics : ~OwesEoi(frames[Depth], p)
    BY <2>1 DEF OwesEoi, Top
  <2> QED
    BY <2>2 DEF GateInv, OwingInv
<1>4. OffInv'
  <2>1. flagIF' => frames' = <<>>
    <3>1. flagIF' => Depth = 1
      BY <1>1 DEF GateInv, OffInv, Top
    <3>2. Depth = 1 => frames' = <<>>
      BY DEF Iret, Depth
    <3> QED
      BY <3>1, <3>2
  <2> QED
    BY <1>1, <2>1 DEF GateInv, OffInv
<1>5. QueueInv'
  BY <1>1, <1>2 DEF QueueInv
<1>6. OwingInv'
  BY <1>1, <1>3 DEF OwingInv, OwesEoi
<1>7. IsrMatchesHandlers'
  <2> SUFFICES ASSUME NEW p \in Pics PROVE InService(p)' = InService(p)
    BY <1>1 DEF GateInv, IsrMatchesHandlers
  <2>1. \A i \in DOMAIN frames' : ~OwesEoi(frames'[i], p)
    BY <1>1, <1>3
  <2>2. DOMAIN que = {} /\ DOMAIN que' = {}
    BY <1>1, <1>2
  <2>3. \A x : x \notin InService(p)
    BY <1>3, <2>2, InServiceIs
  <2>4. \A x : x \notin InService(p)'
    BY <2>1, <2>2, InServiceNext
  <2> QED
    BY <2>3, <2>4
<1> QED
  BY <1>1, <1>4, <1>5, <1>6, <1>7 DEF GateInv

\* An instruction outside every handler, when nothing is queued.
LEMMA GateMain ==
  ASSUME TypeOK, GuestInv, GateInv, Nop \/ Cli \/ Sti \/ Hlt
  PROVE  GateInv'
<1>1. frames = <<>> /\ pc = "exec" /\ pc' = "poll" /\ UNCHANGED <<pic, que, frames>>
  BY DEF Nop, Cli, Sti, Hlt, Ready, InMain
<1>2. que = <<>>
  BY <1>1 DEF GateInv, QueueInv
<1>3. OffInv' /\ QueueInv' /\ OwingInv'
  BY <1>1, <1>2 DEF OffInv, QueueInv, OwingInv
<1>4. IsrMatchesHandlers'
  BY <1>1, SameService DEF GateInv, IsrMatchesHandlers
<1> QED
  BY <1>1, <1>3, <1>4 DEF GateInv

LEMMA GateSoft ==
  ASSUME TypeOK, GuestInv, GateInv, NEW n \in SoftVectors, IntImm8(n)
  PROVE  GateInv'
<1>1. /\ frames = <<>> /\ pc = "exec" /\ pc' = "poll" /\ flagIF
      /\ UNCHANGED <<pic, frames, flagIF>>
      /\ que' = Append(que, [id |-> n, hard |-> FALSE])
  BY DEF IntImm8, Ready, InMain
<1>2. que = <<>>
  BY <1>1 DEF GateInv, QueueInv
<1>3. DOMAIN que' = {1} /\ que'[1] = [id |-> n, hard |-> FALSE]
  BY <1>1, <1>2
<1>4. \A i \in DOMAIN que' : i = 1 /\ ~que'[i].hard
  BY <1>3
<1>5. OffInv' /\ OwingInv'
  BY <1>1 DEF OffInv, OwingInv
<1>6. QueueInv'
  BY <1>1, <1>4 DEF QueueInv
<1>7. IsrMatchesHandlers'
  <2> SUFFICES ASSUME NEW p \in Pics PROVE InService(p)' = InService(p)
    BY <1>1 DEF GateInv, IsrMatchesHandlers
  <2>1. DOMAIN que = {} /\ DOMAIN frames = {} /\ DOMAIN frames' = {}
    BY <1>1, <1>2
  <2>2. \A x : x \notin InService(p)
    BY <2>1, InServiceIs
  <2>3. \A x : x \notin InService(p)'
    BY <1>4, <2>1, InServiceNext
  <2> QED
    BY <2>2, <2>3
<1> QED
  BY <1>1, <1>5, <1>6, <1>7 DEF GateInv

LEMMA GateBoot ==
  ASSUME TypeOK, GuestInv, Boot, GateInv
  PROVE  GateInv'
<1>1. /\ que = <<>> /\ frames = <<>> /\ que' = que /\ frames' = frames
      /\ \A p \in Pics : pic'[p].irr = {} /\ pic'[p].isr = {}
  BY GuestBoot DEF Boot
<1>2. OffInv' /\ QueueInv' /\ OwingInv' /\ pic'["s"].irr = {}
  BY <1>1 DEF OffInv, QueueInv, OwingInv, Pics
<1>3. \A p \in Pics : InService(p)' = {}
  <2>1. DOMAIN que' = {} /\ DOMAIN frames' = {}
    BY <1>1
  <2> QED
    BY <2>1, InServiceNext
<1>4. IsrMatchesHandlers'
  BY <1>1, <1>3 DEF IsrMatchesHandlers
<1> QED
  BY <1>2, <1>4 DEF GateInv

LEMMA GateInit == Init => GateInv
<1> SUFFICES ASSUME Init PROVE GateInv
  OBVIOUS
<1>1. que = <<>> /\ frames = <<>> /\ \A p \in Pics : pic[p].irr = {} /\ pic[p].isr = {}
  BY DEF Init, PowerOn
<1>2. OffInv /\ QueueInv /\ OwingInv /\ pic["s"].irr = {}
  BY <1>1 DEF OffInv, QueueInv, OwingInv, Pics
<1>3. \A p \in Pics : InService(p) = {}
  <2>1. DOMAIN que = {} /\ DOMAIN frames = {}
    BY <1>1
  <2> QED
    BY <2>1, InServiceIs
<1> QED
  BY <1>1, <1>2, <1>3 DEF GateInv, IsrMatchesHandlers

LEMMA GateStep == GateClearsIF /\ TypeOK /\ GuestInv /\ GateInv /\ [Next]_vars => GateInv'
<1> SUFFICES ASSUME GateClearsIF, TypeOK, GuestInv, GateInv, [Next]_vars PROVE GateInv'
  OBVIOUS
<1>1. ASSUME UNCHANGED <<pic, flagIF, que, frames>>, pc' = pc
      PROVE  GateInv'
  <2>1. OffInv' /\ QueueInv' /\ OwingInv' /\ pic'["s"].irr = {}
    BY <1>1 DEF GateInv, OffInv, QueueInv, OwingInv, OwesEoi, Depth, Top
  <2>2. IsrMatchesHandlers'
    BY <1>1, SameService DEF GateInv, IsrMatchesHandlers
  <2> QED
    BY <2>1, <2>2 DEF GateInv
<1>2. CASE HundleInterrupt /\ que = <<>>
  <2>1. UNCHANGED <<pic, flagIF, que, frames>> /\ pc = "handle" /\ pc' = "exec"
    BY <1>2 DEF HundleInterrupt
  <2>2. OffInv' /\ QueueInv' /\ OwingInv' /\ pic'["s"].irr = {}
    BY <1>2, <2>1 DEF GateInv, OffInv, QueueInv, OwingInv, OwesEoi, Depth
  <2>3. IsrMatchesHandlers'
    BY <2>1, SameService DEF GateInv, IsrMatchesHandlers
  <2> QED
    BY <2>2, <2>3 DEF GateInv
<1>3. CASE \E p \in Pics : \E line \in Lines : Raise(p, line)
  BY <1>1, <1>3 DEF Raise
<1>4. CASE UNCHANGED vars
  BY <1>1, <1>4 DEF vars
<1> QED
  BY <1>2, <1>3, <1>4, GateIdle, GateAccept, GateHandle, GateBoot, GateMain, GateSoft,
     GateWork, GateIret
     DEF Next, Cpu, ChkIrq, Exec

LEMMA GateInvariant == WellFormed /\ GateClearsIF /\ Spec => [](TypeOK /\ GuestInv /\ GateInv)
<1> SUFFICES ASSUME WellFormed, GateClearsIF
             PROVE  Spec => [](TypeOK /\ GuestInv /\ GateInv)
  OBVIOUS
<1>1. Init => GuestInv
  BY GuestInit
<1>2. TypeOK /\ GuestInv /\ GateInv /\ [Next]_vars => GateInv'
  BY GateStep
<1> QED
  BY <1>1, <1>2, GateInit, GuestStep, TypeCorrect, PTL DEF Spec

(* With interrupt gates, for every wiring, vector assignment, mask and       *)
(* well-formed guest: the in-service register names exactly the interrupts  *)
(* accepted and not yet acknowledged by their handlers.                     *)
THEOREM IsrSafe == WellFormed /\ GateClearsIF /\ Spec => []IsrMatchesHandlers
<1>1. GateInv => IsrMatchesHandlers
  BY DEF GateInv
<1> QED
  BY <1>1, GateInvariant, PTL

(* With interrupt gates no EOI, specific or not, clears another line than    *)
(* that of the handler which sends it.                                      *)
THEOREM EoiSafe == WellFormed /\ GateClearsIF /\ Spec => EoiClearsOwnLine
<1>1. ASSUME TypeOK, GuestInv, GateInv, HandlerStep, NEW p \in Pics
      PROVE  pic[p].isr \ pic'[p].isr \subseteq LinesOf(p, Top.id)
  <2>1. pic'[p].isr = IF 1 \in Commands(Top.todo, p)
                      THEN pic[p].isr \ EoiLines(pic[p], Head(Top.todo).v)
                      ELSE pic[p].isr
    BY <1>1, GuestWork
  <2>2. CASE 1 \in Commands(Top.todo, p)
    BY <1>1, <2>2, OwnEoi DEF GateInv, IsrMatchesHandlers
  <2>3. CASE 1 \notin Commands(Top.todo, p)
    BY <2>1, <2>3
  <2> QED
    BY <2>2, <2>3
<1>2. TypeOK /\ GuestInv /\ GateInv
        => [\A p \in Pics : HandlerStep =>
              pic[p].isr \ pic'[p].isr \subseteq LinesOf(p, Top.id)]_vars
  BY <1>1
<1> QED
  BY <1>2, GateInvariant, PTL DEF EoiClearsOwnLine

(* With interrupt gates no request is lost: chk_irq takes none from a device *)
(* without queueing that device's interrupt in the same step.               *)
THEOREM RequestsSafe == WellFormed /\ GateClearsIF /\ Spec => NoRequestLost
<1>1. ASSUME TypeOK, GuestInv, GateInv, [Next]_vars, NEW p \in Pics,
             NEW l \in req[p] \ req'[p], ~DroppedByInit
      PROVE  que' = Append(que, [id |-> Vector(pic[p], l), hard |-> TRUE])
  <2>1. CASE ChkIrqTrue
    <3>1. PICK q \in Pics : \E d \in Devs[q] :
            /\ Accepts(q, d)
            /\ \A r \in Pics : req[r] \ req'[r] \subseteq IF r = q THEN {d} ELSE {}
      BY <1>1, <2>1, GateAcceptTakes
    <3>2. PICK d \in Devs[q] :
            /\ Accepts(q, d)
            /\ \A r \in Pics : req[r] \ req'[r] \subseteq IF r = q THEN {d} ELSE {}
      BY <3>1
    <3>3. p = q /\ l = d
      BY <3>2
    <3> QED
      BY <3>2, <3>3 DEF Accepts
  <2>2. CASE ChkIrqFalse
    BY <1>1, <2>2, GateIdleTakes
  <2>3. CASE HandlerStep
    BY <1>1, <2>3, GuestWork
  <2>4. CASE \E q \in Pics : \E line \in Lines : Raise(q, line)
    BY <2>4 DEF Raise, TypeOK
  <2>5. CASE UNCHANGED req
    BY <2>5
  <2>6. CASE Boot
    BY <1>1, <2>6 DEF Boot, DroppedByInit
  <2> QED
    BY <1>1, <2>1, <2>2, <2>3, <2>4, <2>5, <2>6
       DEF Next, Cpu, ChkIrq, Exec, HundleInterrupt, Nop, Cli, Sti, Hlt, IntImm8, Iret, vars
<1>2. TypeOK /\ GuestInv /\ GateInv /\ [Next]_vars
        => [\A p \in Pics : \A l \in req[p] \ req'[p] :
              \/ DroppedByInit
              \/ que' = Append(que, [id |-> Vector(pic[p], l), hard |-> TRUE])]_vars
  BY <1>1
<1> QED
  BY <1>2, GateInvariant, PTL DEF NoRequestLost, Spec
=============================================================================
