------------------------------- MODULE Ps2Proofs -------------------------------
(***************************************************************************)
(* Proofs about Ps2, for every set-up program, every content of the        *)
(* uninitialized RAM and any number of bytes: its types; and, when the     *)
(* set-up programs are well formed and no event comes during the set-up,   *)
(* that the reads return the bytes in their order, but where one is        *)
(* overtaken, and that the controller is where the guest believes it.      *)
(***************************************************************************)
EXTENDS Ps2, TLAPS

-----------------------------------------------------------------------------
(* Bytes, port accesses and bits.                                          *)

LEMMA PortOps ==
  ASSUME NEW o \in PortOp
  PROVE  /\ o.op \in {"command", "data", "read", "sti"}
         /\ o.op \in {"command", "data"} => o.v \in Byte
  BY DEF PortOp

LEMMA FirstOp ==
  ASSUME NEW s \in Seq(PortOp), s # <<>>
  PROVE  Head(s) \in PortOp /\ Tail(s) \in Seq(PortOp)
  OBVIOUS

LEMMA WithBitType ==
  ASSUME NEW v \in Byte, NEW i \in {4, 5}, NEW b \in BOOLEAN
  PROVE  WithBit(v, i, b) \in Byte
<1>1. 2^4 = 16 /\ 2^5 = 32
  OBVIOUS
<1>2. CASE i = 4
  BY <1>1, <1>2 DEF WithBit, Bit, Byte
<1>3. CASE i = 5
  BY <1>1, <1>3 DEF WithBit, Bit, Byte
<1>. QED
  BY <1>2, <1>3

\* An access takes the guest from what it may rely on to what it may rely on.
LEMMA LabelAfterType ==
  ASSUME NEW l \in Label, NEW o \in PortOp
  PROVE  LabelAfter(l, o) \in Label
<1>1. /\ o.op \in {"command", "data", "read", "sti"}
      /\ o.op \in {"command", "data"} => o.v \in Byte
  BY PortOps
<1>2. CASE o.op \in {"read", "sti"}
  BY <1>2 DEF LabelAfter, Label
<1>3. CASE o.op \in {"command", "data"} /\ l.code = None
  <2>1. LabelAfter(l, o) = AfterFirst(l, o) /\ o.v \in Byte
    BY <1>1, <1>3 DEF LabelAfter
  <2>2. ASSUME NEW i \in {4, 5}, NEW b \in BOOLEAN
        PROVE  [l EXCEPT !.ccb = WithBit(@, i, b)] \in Label
    <3>1. WithBit(l.ccb, i, b) \in Byte
      BY WithBitType DEF Label
    <3>. QED
      BY <3>1 DEF Label
  <2>3. AfterFirst(l, o) \in Label
    <3>. DEFINE i == IF o.v \in {173, 174} THEN 4 ELSE 5
                b == o.v \in {168, 174}
    <3>1. [l EXCEPT !.ccb = WithBit(@, i, b)] \in Label
      <4>1. i \in {4, 5} /\ b \in BOOLEAN
        OBVIOUS
      <4>. HIDE DEF i, b
      <4>. QED
        BY <4>1, <2>2
    <3>2. [l EXCEPT !.held = "polled"] \in Label /\ [l EXCEPT !.code = o.v] \in Label
      BY <2>1 DEF Label
    <3>3. AfterFirst(l, o) \in {[l EXCEPT !.ccb = WithBit(@, i, b)],
                               [l EXCEPT !.held = "polled"], [l EXCEPT !.code = o.v]}
      BY DEF AfterFirst
    <3>. HIDE DEF i, b
    <3>. QED
      BY <3>1, <3>2, <3>3
  <2>. QED
    BY <2>1, <2>3
<1>4. CASE o.op \in {"command", "data"} /\ l.code # None
  <2>1. LabelAfter(l, o) = AfterSecond(l, o) /\ o.v \in Byte
    BY <1>1, <1>4 DEF LabelAfter
  <2>2. Fills(l, o) => HeldFor(l.ccb, Answering(l, o.v)) \in {"polled"} \cup Devices
    BY <1>4 DEF Fills, HeldFor, Answering, Devices
  <2>3. AfterSecond(l, o) \in Label
    BY <2>1, <2>2 DEF AfterSecond, Label
  <2>. QED
    BY <2>1, <2>3
<1>. QED
  BY <1>1, <1>2, <1>3, <1>4

LEMMA StartLabelType ==
  ASSUME NEW g \in Byte
  PROVE  StartLabel(g) \in Label
  BY DEF StartLabel, Label

LEMMA ChangedType ==
  ASSUME NEW s \in Status, NEW u \in Updates
  PROVE  Changed(s, u) \in Status
  BY DEF Changed, Status, Updates

LEMMA ReturnsType ==
  ASSUME NEW u \in Updates
  PROVE  Returns(u) \in {"put", "data", "exec", "idle"} /\ (Returns(u) = "exec" => u = "port")
  BY DEF Returns, Updates

-----------------------------------------------------------------------------
(* Types.  A byte reaches exec_command only from a write to a port, and a  *)
(* packet is sent to its end.                                              *)

FlowInv ==
  /\ pc["cpu"] \in {"port", "exec"} => in.op \in {"command", "data"}
  /\ pc["ui"] = "check" => packet > 0
  /\ sent + packet <= MaxBytes

TypeInv == TypeOK /\ FlowInv

LEMMA InitTypes == Init => TypeInv
<1> SUFFICES ASSUME Init PROVE TypeInv
  OBVIOUS
<1>1. Reading \in PortOp /\ EmptyStatus \in Status
  BY DEF Reading, PortOp, EmptyStatus, Status
<1>2. ram \in [RamCells -> Byte] /\ script \in Seq(PortOp)
  BY Ps2Assumption DEF Init
<1>3. sending \in [Threads -> [dev : Devices \cup {Controller}, byte : Int]]
  BY DEF Init, None
<1>4. /\ outBuf \in Int /\ curr \in Byte /\ packet \in Nat /\ sent \in 0..MaxBytes
      /\ sent + packet <= MaxBytes
  BY Ps2Assumption DEF Init, None, Byte
<1>8. tmp \in [Threads -> {<<>>} \cup {<<c>> : c \in Status}]
  <2>1. <<>> \in {<<>>} \cup {<<c>> : c \in Status}
    OBVIOUS
  <2>. QED
    BY <2>1, Zenon DEF Init
<1>5. pc = [t \in Threads |-> "idle"] /\ pc \in [Threads -> Places]
  <2>1. pc = [t \in Threads |-> "idle"]
    BY Zenon DEF Init
  <2>2. "idle" \in Places
    BY DEF Places
  <2>. QED
    BY <2>1, <2>2, Zenon
<1>9. /\ irq \in [Devices -> BOOLEAN] /\ a20 \in BOOLEAN
      /\ put \in Seq(Int) /\ got \in Seq(Int) /\ overtaken \in SUBSET Nat
  <2>1. <<>> \in Seq(Int) /\ FALSE \in BOOLEAN /\ {} \in SUBSET Nat
    OBVIOUS
  <2>. QED
    BY <2>1, Zenon DEF Init
<1>6. pc["cpu"] = "idle" /\ pc["ui"] = "idle"
  BY <1>5 DEF Threads
<1>7. sr \in Status /\ in \in PortOp
  BY <1>1 DEF Init
<1>10. label \in Label
  BY Ps2Assumption, StartLabelType DEF Init
<1>. QED
  BY <1>2, <1>3, <1>4, <1>5, <1>6, <1>7, <1>8, <1>9, <1>10 DEF TypeInv, TypeOK, FlowInv

\* Moving one thread leaves the other where it is.
LEMMA Moved ==
  ASSUME TypeOK, NEW t \in Threads, NEW p \in Places, Goto(t, p)
  PROVE  /\ pc' \in [Threads -> Places] /\ pc'[t] = p
         /\ \A u \in Threads : u # t => pc'[u] = pc[u]
         /\ t = "ui" => pc'["cpu"] = pc["cpu"]
         /\ t = "cpu" => pc'["ui"] = pc["ui"]
  BY DEF TypeOK, Goto, Threads

LEMMA LoadTypes ==
  ASSUME TypeInv, NEW t \in Threads, NEW u \in Updates, Load(t, u)
  PROVE  TypeInv'
<1>1. tmp' \in [Threads -> {<<>>} \cup {<<c>> : c \in Status}]
  BY DEF Load, TypeInv, TypeOK
<1>. QED
  BY <1>1 DEF Load, TypeInv, TypeOK, FlowInv, guest, hist

LEMMA StoreTypes ==
  ASSUME TypeInv, NEW t \in Threads, NEW u \in Updates, Store(t, u)
  PROVE  TypeInv'
<1>1. tmp[t] \in {<<c>> : c \in Status}
  BY DEF Store, TypeInv, TypeOK
<1>2. sr' \in Status
  BY <1>1, ChangedType DEF Store
<1>3. tmp' \in [Threads -> {<<>>} \cup {<<c>> : c \in Status}]
  BY DEF Store, TypeInv, TypeOK
<1>4. Returns(u) \in Places /\ Goto(t, Returns(u)) /\ pc[t] = u
  BY ReturnsType DEF Store, Places
<1>5. pc' \in [Threads -> Places] /\ pc'[t] = Returns(u)
  BY <1>4, Moved DEF TypeInv
<1>6. pc'["ui"] # "check" \/ pc'["ui"] = pc["ui"]
  BY <1>4, <1>5, Moved, ReturnsType DEF TypeInv, Threads
<1>7. pc'["cpu"] \in {"port", "exec"} => pc["cpu"] \in {"port", "exec"}
  BY <1>4, <1>5, Moved, ReturnsType DEF TypeInv, Threads
<1>. QED
  BY <1>2, <1>3, <1>5, <1>6, <1>7 DEF Store, TypeInv, TypeOK, FlowInv, guest, hist

LEMMA BufferTypes ==
  ASSUME TypeInv, NEW t \in Threads, WaitEmpty(t) \/ PutByte(t) \/ RequestIrq(t)
  PROVE  TypeInv'
<1>1. AfterSend(t) \in Places /\ (t = "ui" /\ AfterSend(t) = "check" => packet > 0)
      /\ (t = "cpu" => AfterSend(t) \notin {"port", "exec"})
  BY DEF AfterSend, Places, Updates
<1>2. CASE WaitEmpty(t)
  <2>1. Goto(t, "mark") /\ "mark" \in Places
    BY <1>2 DEF WaitEmpty, Places, Updates
  <2>2. /\ pc' \in [Threads -> Places]
        /\ pc'["cpu"] \in {"port", "exec"} => pc'["cpu"] = pc["cpu"]
        /\ pc'["ui"] = "check" => pc'["ui"] = pc["ui"]
    BY <2>1, Moved DEF TypeInv, Threads
  <2>. QED
    BY <1>2, <2>2 DEF WaitEmpty, TypeInv, TypeOK, FlowInv, guest, hist
<1>3. CASE PutByte(t)
  <2>1. Goto(t, "irq") /\ "irq" \in Places
    BY <1>3 DEF PutByte, Places
  <2>2. /\ pc' \in [Threads -> Places]
        /\ pc'["cpu"] \in {"port", "exec"} => pc'["cpu"] = pc["cpu"]
        /\ pc'["ui"] = "check" => pc'["ui"] = pc["ui"]
    BY <2>1, Moved DEF TypeInv, Threads
  <2>3. sending[t].byte \in Int
    BY DEF TypeInv, TypeOK
  <2>4. outBuf' \in Int /\ put' \in Seq(Int) /\ overtaken' \in SUBSET Nat
    <3>1. Len(got) + 1 \in Nat
      BY DEF TypeInv, TypeOK
    <3>. QED
      BY <1>3, <2>3, <3>1 DEF PutByte, TypeInv, TypeOK
  <2>. QED
    BY <1>3, <2>2, <2>4 DEF PutByte, TypeInv, TypeOK, FlowInv, guest, hist
<1>4. CASE RequestIrq(t)
  <2>1. irq' \in [Devices -> BOOLEAN]
    BY <1>4 DEF RequestIrq, TypeInv, TypeOK, InterruptsAllowed, Bit
  <2>2. Goto(t, AfterSend(t))
    BY <1>4 DEF RequestIrq
  <2>3. /\ pc' \in [Threads -> Places]
        /\ pc'["cpu"] \in {"port", "exec"} => pc'["cpu"] = pc["cpu"]
        /\ pc'["ui"] = "check" => pc'["ui"] = pc["ui"] \/ packet > 0
    BY <1>1, <2>2, Moved DEF TypeInv, Threads
  <2>. QED
    BY <1>4, <2>1, <2>3 DEF RequestIrq, TypeInv, TypeOK, FlowInv, guest, hist
<1>. QED
  BY <1>2, <1>3, <1>4

LEMMA SendingType ==
  ASSUME NEW D, NEW f \in [Threads -> [dev : D, byte : Int]], NEW t \in Threads,
         NEW b \in Int
  PROVE  /\ [f EXCEPT ![t].byte = b] \in [Threads -> [dev : D, byte : Int]]
         /\ \A d \in D :
              [f EXCEPT ![t] = [dev |-> d, byte |-> b]] \in [Threads -> [dev : D, byte : Int]]
<1>1. f[t] \in [dev : D, byte : Int]
  OBVIOUS
<1>2. [f[t] EXCEPT !.byte = b] \in [dev : D, byte : Int]
  BY <1>1
<1>3. \A d \in D : [dev |-> d, byte |-> b] \in [dev : D, byte : Int]
  OBVIOUS
<1>. QED
  BY <1>2, <1>3

LEMMA UiTypes ==
  ASSUME TypeInv, SendScancode \/ \E dev \in Devices : UiEvent(dev)
  PROVE  TypeInv'
<1>1. ASSUME NEW dev \in Devices, UiEvent(dev)
      PROVE  TypeInv'
  <2>1. Goto("ui", "check") /\ "check" \in Places /\ "ui" \in Threads
    BY <1>1 DEF UiEvent, Places, Threads
  <2>2. pc' \in [Threads -> Places] /\ pc'["cpu"] = pc["cpu"]
    BY <2>1, Moved DEF TypeInv
  <2>3. sending' \in [Threads -> [dev : Devices \cup {Controller}, byte : Int]]
    <3>1. /\ sending \in [Threads -> [dev : Devices \cup {Controller}, byte : Int]]
          /\ sending' = [sending EXCEPT !["ui"] = [dev |-> dev, byte |-> None]]
          /\ None \in Int /\ dev \in Devices \cup {Controller} /\ "ui" \in Threads
      BY <1>1 DEF UiEvent, TypeInv, TypeOK, None, Threads
    <3>. QED
      BY <3>1, SendingType
  <2>4. packet' \in {1, 3} /\ sent + packet' <= MaxBytes
    BY <1>1 DEF UiEvent
  <2>. QED
    BY <1>1, <2>2, <2>3, <2>4 DEF UiEvent, TypeInv, TypeOK, FlowInv, guest, hist
<1>2. CASE SendScancode
  <2>1. PICK p \in {"wait", "check", "idle"} : Goto("ui", p) /\ (p = "check" => packet > 1)
    BY <1>2 DEF SendScancode
  <2>2. p \in Places /\ "ui" \in Threads
    BY DEF Places, Threads
  <2>3. pc' \in [Threads -> Places] /\ pc'["cpu"] = pc["cpu"] /\ pc'["ui"] = p
    BY <2>1, <2>2, Moved DEF TypeInv
  <2>4. packet > 0 /\ packet \in Nat /\ sent \in 0..MaxBytes /\ sent + packet <= MaxBytes
        /\ MaxBytes \in Nat
    BY <1>2, Ps2Assumption DEF SendScancode, TypeInv, TypeOK, FlowInv
  <2>5. packet' \in Nat /\ sent' \in 0..MaxBytes /\ sent' + packet' <= MaxBytes
    BY <1>2, <2>4 DEF SendScancode
  <2>6. sending' \in [Threads -> [dev : Devices \cup {Controller}, byte : Int]]
    <3>1. /\ sending \in [Threads -> [dev : Devices \cup {Controller}, byte : Int]]
          /\ sending' = [sending EXCEPT !["ui"].byte = sent + 1]
          /\ sent + 1 \in Int
      BY <1>2, <2>4 DEF SendScancode, TypeInv, TypeOK
    <3>. QED
      BY <3>1, SendingType
  <2>7. p = "check" => packet' > 0
    BY <1>2, <2>1, <2>4 DEF SendScancode
  <2>. QED
    BY <1>2, <2>3, <2>5, <2>6, <2>7 DEF SendScancode, TypeInv, TypeOK, FlowInv, guest, hist
<1>. QED
  BY <1>1, <1>2

\* The CPU goes from p1 to p2 and the UI stays: what CPU steps share.
LEMMA CpuMoved ==
  ASSUME TypeOK, NEW p \in Places, Goto("cpu", p)
  PROVE  pc' \in [Threads -> Places] /\ pc'["cpu"] = p /\ pc'["ui"] = pc["ui"]
  BY Moved DEF Threads

LEMMA FetchTypes ==
  ASSUME TypeInv, Fetch \/ (\E dev \in Devices : TakeInterrupt(dev)) \/ ReadByte
  PROVE  TypeInv'
<1>1. CASE Fetch
  <2>1. Head(script) \in PortOp /\ in' = Head(script) /\ script' \in Seq(PortOp)
    BY <1>1, FirstOp DEF Fetch, TypeInv, TypeOK
  <2>2. PICK p \in {"empty", "idle", "port"} :
          Goto("cpu", p) /\ (p = "port" => Head(script).op \notin {"read", "sti"})
    BY <1>1 DEF Fetch
  <2>3. pc' \in [Threads -> Places] /\ pc'["cpu"] = p /\ pc'["ui"] = pc["ui"]
    BY <2>2, CpuMoved DEF TypeInv, Places, Updates
  <2>4. p \in {"port", "exec"} => in'.op \in {"command", "data"}
    BY <2>1, <2>2, PortOps
  <2>5. label' \in Label
    BY <1>1, <2>1, LabelAfterType DEF Fetch, TypeInv, TypeOK
  <2>. QED
    BY <1>1, <2>1, <2>3, <2>4, <2>5 DEF Fetch, TypeInv, TypeOK, FlowInv, hist
<1>2. ASSUME NEW dev \in Devices, TakeInterrupt(dev)
      PROVE  TypeInv'
  <2>1. pc' \in [Threads -> Places] /\ pc'["cpu"] = "empty" /\ pc'["ui"] = pc["ui"]
    BY <1>2, CpuMoved DEF TakeInterrupt, TypeInv, Places, Updates
  <2>2. irq' \in [Devices -> BOOLEAN] /\ in' \in PortOp
    BY <1>2 DEF TakeInterrupt, TypeInv, TypeOK, PortOp, Reading
  <2>. QED
    BY <1>2, <2>1, <2>2 DEF TakeInterrupt, TypeInv, TypeOK, FlowInv, hist
<1>3. CASE ReadByte
  <2>1. pc' \in [Threads -> Places] /\ pc'["cpu"] = "idle" /\ pc'["ui"] = pc["ui"]
    BY <1>3, CpuMoved DEF ReadByte, TypeInv, Places
  <2>2. got' \in Seq(Int)
    BY <1>3 DEF ReadByte, TypeInv, TypeOK
  <2>. QED
    BY <1>3, <2>1, <2>2 DEF ReadByte, TypeInv, TypeOK, FlowInv, guest, hist
<1>. QED
  BY <1>1, <1>2, <1>3

\* What exec_command does with the first byte of a command.
FirstCases(v) ==
  \/ /\ v \in {167, 168, 173, 174}
     /\ ram' = [ram EXCEPT ![0] =
                  WithBit(@, IF v \in {173, 174} THEN 4 ELSE 5, v \in {168, 174})]
     /\ Goto("cpu", "idle") /\ UNCHANGED <<sending, curr>>
  \/ /\ v \in 32..63
     /\ sending' = [sending EXCEPT !["cpu"] = [dev |-> Controller, byte |-> ram[v - 32]]]
     /\ Goto("cpu", "wait") /\ UNCHANGED <<ram, curr>>
  \/ /\ curr' = v /\ Goto("cpu", "two") /\ UNCHANGED <<ram, sending>>

LEMMA FirstTypes ==
  ASSUME TypeInv, FirstByte
  PROVE  TypeInv'
<1>. DEFINE v == in.v
<1>1. v \in Byte /\ FirstCases(v)
  BY PortOps DEF FirstByte, FirstCases, TypeInv, TypeOK, FlowInv
<1>2. /\ UNCHANGED <<sr, outBuf, a20, irq, tmp, packet, script, in, label, sent, hist>>
      /\ ram \in [RamCells -> Byte] /\ curr \in Byte
      /\ sending \in [Threads -> [dev : Devices \cup {Controller}, byte : Int]]
  BY DEF FirstByte, TypeInv, TypeOK
<1>3. PICK p \in {"idle", "wait", "two"} : Goto("cpu", p)
  BY <1>1 DEF FirstCases
<1>4. pc' \in [Threads -> Places] /\ pc'["cpu"] = p /\ pc'["ui"] = pc["ui"]
  BY <1>3, CpuMoved DEF TypeInv, Places, Updates
<1>. HIDE DEF v
<1>5. ram' \in [RamCells -> Byte] /\ curr' \in Byte
  <2>. DEFINE i == IF v \in {173, 174} THEN 4 ELSE 5
              b == v \in {168, 174}
  <2>1. ram[0] \in Byte /\ i \in {4, 5} /\ b \in BOOLEAN
    BY <1>2 DEF RamCells
  <2>2. WithBit(ram[0], i, b) \in Byte
    <3>. HIDE DEF i, b
    <3>. QED
      BY <2>1, WithBitType
  <2>3. ram' = [ram EXCEPT ![0] = WithBit(ram[0], i, b)] \/ ram' = ram
    BY <1>1 DEF FirstCases
  <2>. HIDE DEF i, b
  <2>4. ram' \in [RamCells -> Byte]
    BY <1>2, <2>2, <2>3
  <2>. QED
    BY <1>1, <1>2, <2>4 DEF FirstCases
<1>6. sending' \in [Threads -> [dev : Devices \cup {Controller}, byte : Int]]
  <2>1. CASE v \in 32..63 /\ sending' = [sending EXCEPT !["cpu"] =
                                            [dev |-> Controller, byte |-> ram[v - 32]]]
    <3>1. ram[v - 32] \in Int /\ "cpu" \in Threads /\ Controller \in Devices \cup {Controller}
      BY <2>1, <1>2 DEF RamCells, Byte, Threads
    <3>. QED
      BY <3>1, <2>1, <1>2, SendingType
  <2>. QED
    BY <1>1, <1>2, <2>1 DEF FirstCases
<1>. QED
  BY <1>2, <1>4, <1>5, <1>6 DEF TypeInv, TypeOK, FlowInv, hist

LEMMA SecondTypes ==
  ASSUME TypeInv, SecondByte
  PROVE  TypeInv'
<1>. DEFINE v == in.v
<1>1. v \in Byte
  BY PortOps DEF SecondByte, TypeInv, TypeOK, FlowInv
<1>2. PICK p \in {"wait", "one"} : Goto("cpu", p)
  BY DEF SecondByte, Sends
<1>3. pc' \in [Threads -> Places] /\ pc'["cpu"] = p /\ pc'["ui"] = pc["ui"]
  BY <1>2, CpuMoved DEF TypeInv, Places, Updates
<1>4. \/ /\ \E d \in Devices, b \in Byte : Sends(d, b)
      \/ /\ \E c \in Byte \cup {None} :
              ram' = IF c \in 96..127 THEN [ram EXCEPT ![c - 96] = v] ELSE ram
         /\ a20' = Bit(v, 1) \/ a20' = a20
         /\ UNCHANGED sending
  <2>1. curr \in Byte /\ 250 \in Byte
    BY DEF TypeInv, TypeOK, Byte
  <2>. HIDE DEF v
  <2>. QED
    BY <1>1, <2>1 DEF SecondByte, Devices, v
<1>5. sending' \in [Threads -> [dev : Devices \cup {Controller}, byte : Int]]
  <2>1. ASSUME NEW d \in Devices, NEW b \in Byte,
               sending' = [sending EXCEPT !["cpu"] = [dev |-> d, byte |-> b]]
        PROVE  sending' \in [Threads -> [dev : Devices \cup {Controller}, byte : Int]]
    <3>1. b \in Int /\ d \in Devices \cup {Controller} /\ "cpu" \in Threads
      BY DEF Byte, Threads
    <3>. QED
      BY <2>1, <3>1, SendingType DEF TypeInv, TypeOK
  <2>. QED
    BY <1>4, <2>1 DEF Sends, TypeInv, TypeOK
<1>6. ram' \in [RamCells -> Byte] /\ a20' \in BOOLEAN
  BY <1>1, <1>4 DEF Sends, TypeInv, TypeOK, RamCells, Bit
<1>. QED
  BY <1>3, <1>5, <1>6 DEF SecondByte, TypeInv, TypeOK, FlowInv, hist

LEMMA StepTypes == TypeInv /\ [Next]_vars => TypeInv'
<1> SUFFICES ASSUME TypeInv, [Next]_vars PROVE TypeInv'
  OBVIOUS
<1>1. CASE UNCHANGED vars
  BY <1>1 DEF vars, TypeInv, TypeOK, FlowInv
<1>2. ASSUME NEW t \in Threads, WriteOutBuff(t)
      PROVE  TypeInv'
  BY <1>2, LoadTypes, StoreTypes, BufferTypes DEF WriteOutBuff
<1>. QED
  BY <1>1, <1>2, UiTypes, FetchTypes, FirstTypes, SecondTypes DEF Next, Ui, Cpu, Threads

\* The controller keeps its types whatever set-up program the guest runs: no
\* byte is executed that did not come from a port, no bit assignment leaves the
\* status byte, and no packet runs past its end.
THEOREM Ps2Types == Spec => []TypeOK
<1>1. TypeInv => TypeOK
  BY DEF TypeInv
<1>. QED
  BY <1>1, InitTypes, StepTypes, PTL DEF Spec

-----------------------------------------------------------------------------
(* Well-formed set-up programs: what a program's first access leaves.      *)

LEMMA AfterAccess ==
  ASSUME NEW s \in Seq(PortOp), s # <<>>, NEW l, Accepted(s, l)
  PROVE  /\ l \in Label /\ Legal(l, Head(s))
         /\ LabelAfter(l, Head(s)) \in Label
         /\ Accepted(Tail(s), LabelAfter(l, Head(s)))
         /\ Tail(s) = <<>> => Head(s).op = "sti"
<1>1. PICK lab : Labels(s, lab) /\ lab[1] = l
  BY DEF Accepted
<1>. DEFINE n == Len(s)
            rest == [i \in 1..n |-> lab[i + 1]]
<1>2. n \in Nat \ {0} /\ Head(s) = s[1] /\ Len(Tail(s)) = n - 1
      /\ (\A i \in 1..(n - 1) : Tail(s)[i] = s[i + 1]) /\ Tail(s) \in Seq(PortOp)
  OBVIOUS
<1>3. /\ lab \in [1..(n + 1) -> Label]
      /\ \A i \in 1..n : Legal(lab[i], s[i]) /\ lab[i + 1] = LabelAfter(lab[i], s[i])
      /\ lab[n + 1].code = None /\ s[n].op = "sti"
  BY <1>1 DEF Labels
<1>4. l \in Label /\ Legal(l, s[1]) /\ lab[2] = LabelAfter(l, s[1]) /\ lab[2] \in Label
  BY <1>1, <1>2, <1>3
<1>5. Labels(Tail(s), rest)
  <2>1. rest \in [1..((n - 1) + 1) -> Label]
    BY <1>2, <1>3
  <2>2. ASSUME NEW i \in 1..(n - 1)
        PROVE  Legal(rest[i], Tail(s)[i]) /\ rest[i + 1] = LabelAfter(rest[i], Tail(s)[i])
    <3>1. /\ i + 1 \in 1..n /\ i \in 1..n
          /\ rest[i] = lab[i + 1] /\ rest[i + 1] = lab[(i + 1) + 1]
      BY <1>2
    <3>. QED
      BY <1>2, <1>3, <3>1
  <2>3. rest[(n - 1) + 1].code = None
    BY <1>2, <1>3
  <2>4. Tail(s) # <<>> => Tail(s)[n - 1].op = "sti"
    BY <1>2, <1>3
  <2>. QED
    BY <1>2, <2>1, <2>2, <2>3, <2>4 DEF Labels
<1>6. rest[1] = lab[2]
  BY <1>2
<1>7. Accepted(Tail(s), LabelAfter(l, Head(s)))
  BY <1>2, <1>4, <1>5, <1>6 DEF Accepted
<1>8. Tail(s) = <<>> => Head(s).op = "sti"
  BY <1>2, <1>3
<1>. QED
  BY <1>2, <1>4, <1>7, <1>8

LEMMA AtEnd ==
  ASSUME NEW l, Accepted(<<>>, l)
  PROVE  l \in Label /\ l.code = None
  BY DEF Accepted, Labels

-----------------------------------------------------------------------------
(* The two threads.  A request is pending only while its byte is in the    *)
(* buffer, and the CPU reads only what was requested (or, in the set-up,   *)
(* what it knows to be there): so while one thread has a copy of the       *)
(* status register the other assigns none of its bits, and every copy that *)
(* is stored is the register as it is.                                     *)

Free == \A d \in Devices : ~irq[d]

\* Where a thread is between finding the buffer empty and requesting.
Filling == {"mark", "put", "irq"}

UiPlaces == {"idle", "check", "wait"} \cup Filling
SetupPlaces == {"port", "exec", "two", "one", "wait"} \cup Filling

TurnInv ==
  /\ pc["ui"] \in UiPlaces
  /\ \A t \in Threads :
       /\ tmp[t] = <<>> \/ (tmp[t] = <<sr>> /\ pc[t] \in Updates)
       /\ pc[t] = "mark" => ~sr.OBF
       /\ pc[t] \in {"put", "irq"} => sr.OBF
       /\ pc[t] \in Filling => Free
  /\ pc["cpu"] = "empty" => sr.OBF /\ Free /\ pc["ui"] \notin Filling
  /\ ~Free => sr.OBF
  /\ \A d \in Devices, e \in Devices : irq[d] /\ irq[e] => d = e

\* The bytes stored, counting the one whose mark is in place, are those read,
\* counting the one whose mark is gone, and the one in the buffer.
Count(b) == IF b THEN 1 ELSE 0
Reads(g, p, o) ==
  \A i \in 1..Len(g) :
    \E j \in 1..Len(p) : j = (IF i \in o THEN i + 1 ELSE i) /\ g[i] = p[j]

BufferInv ==
  /\ Len(put) + Count("put" \in {pc["ui"], pc["cpu"]})
       = Len(got) + Count(pc["cpu"] = "data") + Count(sr.OBF)
  /\ put # <<>> => outBuf = put[Len(put)]
  /\ Reads(got, put, overtaken)
  /\ overtaken \subseteq 1..(Len(got) + Count(pc["cpu"] = "data"))
  /\ pc["cpu"] = "data" => (Len(got) + 1 \in overtaken <=> Len(put) = Len(got) + 2)

-----------------------------------------------------------------------------
(* The set-up.  The controller is where the label of the program says.     *)

Settled(l) == ram[0] = l.ccb /\ Holds(l.held) /\ Expects(l)

\* The byte the CPU is about to put is for whom the label says.
Pending(h) ==
  LET dev == sending["cpu"].dev
  IN  /\ Free
      /\ h = IF dev = Controller THEN "polled" ELSE HeldFor(ram[0], dev)
      /\ dev = Controller => ~sr.ST6

\* The label l is the one after the access in progress.
At(l) ==
  LET p == pc["cpu"]
  IN  /\ p \in {"port", "exec"} =>
           \E k \in Label : Settled(k) /\ Legal(k, in) /\ l = LabelAfter(k, in)
      /\ p = "exec" => (sr.F1 <=> in.op = "command")
      /\ p \notin {"port", "exec"} => ram[0] = l.ccb
      /\ p \in {"idle", "data", "empty"} => Expects(l)
      /\ p \in {"idle", "data", "two", "one"} => Holds(l.held)
      /\ p \in {"data", "empty"} => l.held = "none"
      /\ p = "two" => l.code = curr
      /\ p \in {"one", "wait"} \cup Filling => l.code = None
      /\ p \in {"wait"} \cup Filling => Pending(l.held)
      /\ p = "wait" => ~sr.OBF

ScriptInv ==
  /\ script = <<>> =>
       /\ ~sr.ST6 /\ pc["cpu"] \in {"idle", "empty", "data"}
       /\ label.code = None /\ ram[0] = label.ccb
  /\ script # <<>> =>
       /\ pc["ui"] = "idle" /\ pc["cpu"] \in {"idle", "empty", "data"} \cup SetupPlaces
       /\ Accepted(script, label) /\ At(label)

Inv == TypeInv /\ TurnInv /\ BufferInv /\ ScriptInv

LEMMA ReadsKept ==
  ASSUME NEW g \in Seq(Int), NEW p \in Seq(Int), NEW v \in Int, NEW o, NEW q,
         Reads(g, p, o), \A i \in 1..Len(g) : i \in q <=> i \in o
  PROVE  Reads(g, Append(p, v), q)
<1>1. Len(Append(p, v)) = Len(p) + 1 /\ \A j \in 1..Len(p) : Append(p, v)[j] = p[j]
  OBVIOUS
<1>2. 1..Len(p) \subseteq 1..Len(Append(p, v))
  BY <1>1
<1>. QED
  BY <1>1, <1>2, Zenon DEF Reads

LEMMA ReadsMore ==
  ASSUME NEW g \in Seq(Int), NEW p \in Seq(Int), NEW o, Reads(g, p, o), p # <<>>,
         Len(p) = IF Len(g) + 1 \in o THEN Len(g) + 2 ELSE Len(g) + 1
  PROVE  Reads(Append(g, p[Len(p)]), p, o)
<1>. DEFINE h == Append(g, p[Len(p)])
<1>1. Len(h) = Len(g) + 1 /\ h[Len(g) + 1] = p[Len(p)] /\ \A i \in 1..Len(g) : h[i] = g[i]
  OBVIOUS
<1>2. Len(p) \in 1..Len(p)
  OBVIOUS
<1>3. ASSUME NEW i \in 1..Len(h)
      PROVE  \E j \in 1..Len(p) : j = (IF i \in o THEN i + 1 ELSE i) /\ h[i] = p[j]
  <2>1. CASE i \in 1..Len(g)
    BY <1>1, <2>1 DEF Reads
  <2>2. CASE i = Len(g) + 1
    BY <1>1, <1>2, <2>2
  <2>. QED
    BY <1>1, <1>3, <2>1, <2>2
<1>. QED
  BY <1>3 DEF Reads

\* Where the other thread is when one of them is at work on the register.
LEMMA Apart ==
  ASSUME Inv
  PROVE  /\ pc["ui"] # "idle" =>
              script = <<>> /\ ~sr.ST6 /\ pc["cpu"] \in {"idle", "empty", "data"}
         /\ pc["ui"] \in Filling => pc["cpu"] \in {"idle", "data"}
         /\ pc["cpu"] \in SetupPlaces => pc["ui"] = "idle" /\ script # <<>>
         /\ pc["cpu"] = "empty" => pc["ui"] \notin Filling
<1>1. {"idle", "empty", "data"} \cap SetupPlaces = {} /\ "idle" \notin Filling
  BY DEF SetupPlaces, Filling
<1>2. pc["ui"] # "idle" => script = <<>> /\ ~sr.ST6 /\ pc["cpu"] \in {"idle", "empty", "data"}
  BY DEF Inv, ScriptInv
<1>3. pc["cpu"] = "empty" => pc["ui"] \notin Filling
  BY DEF Inv, TurnInv
<1>. QED
  BY <1>1, <1>2, <1>3 DEF Inv, ScriptInv

LEMMA InitInv == WellFormed /\ Init => Inv
<1> SUFFICES ASSUME WellFormed, Init PROVE Inv
  OBVIOUS
<1>1. PICK g \in GarbageBytes : ram = [c \in RamCells |-> g] /\ label = StartLabel(g)
  BY DEF Init
<1>2. /\ pc["ui"] = "idle" /\ pc["cpu"] = "idle" /\ Free
      /\ \A t \in Threads : tmp[t] = <<>> /\ pc[t] = "idle"
  BY DEF Init, Threads, Free
<1>3. /\ ~sr.OBF /\ ~sr.ST6 /\ put = <<>> /\ got = <<>> /\ overtaken = {}
      /\ script \in Scripts
  BY DEF Init, EmptyStatus
<1>4. TurnInv
  BY <1>2, <1>3 DEF TurnInv, UiPlaces, Free, Filling
<1>5. BufferInv
  BY <1>2, <1>3 DEF BufferInv, Count, Reads
<1>6. Accepted(script, StartLabel(g)) /\ StartLabel(g) \in Label /\ g \in Byte
  BY <1>3, Ps2Assumption DEF WellFormed, StartLabel, Label
<1>7. At(StartLabel(g))
  <2>1. ram[0] = g
    BY <1>1 DEF RamCells
  <2>2. \A d \in Devices : d # "none"
    BY DEF Devices
  <2>. QED
    BY <1>2, <1>3, <2>1, <2>2 DEF At, StartLabel, Holds, Expects, Free, Filling
<1>8. ScriptInv
  <2>1. label.code = None /\ ram[0] = label.ccb
    BY <1>1 DEF StartLabel, RamCells
  <2>. QED
    BY <1>1, <1>2, <1>3, <1>6, <1>7, <2>1 DEF ScriptInv
<1>. QED
  BY <1>4, <1>5, <1>8, InitTypes DEF Inv

-----------------------------------------------------------------------------
(* The steps of the UI, which come after the set-up.                       *)

LEMMA UiScript ==
  ASSUME Inv, script = <<>>, pc'["cpu"] = pc["cpu"], sr'.ST6 = sr.ST6,
         UNCHANGED <<script, label, ram>>
  PROVE  ScriptInv'
  BY DEF Inv, ScriptInv

\* What the types say of the two threads.
LEMMA Two ==
  ASSUME Inv
  PROVE  /\ Threads = {"ui", "cpu"} /\ pc \in [Threads -> Places]
         /\ tmp \in [Threads -> {<<>>} \cup {<<c>> : c \in Status}]
         /\ sr \in Status /\ put \in Seq(Int) /\ got \in Seq(Int) /\ outBuf \in Int
         /\ irq \in [Devices -> BOOLEAN] /\ TypeOK
  BY DEF Inv, TypeInv, TypeOK, Threads

\* A thread that has a copy is at an assignment, and the other has none.
LEMMA OneCopy ==
  ASSUME Inv, NEW t \in Threads, NEW u \in Updates, pc[t] = u
  PROVE  \A o \in Threads : o # t => tmp[o] = <<>>
<1>1. {"idle", "check", "wait", "put", "irq", "data", "exec"} \cap Updates = {}
  BY DEF Updates
<1>2. CASE t = "ui"
  <2>1. u = "mark"
    BY <1>1, <1>2 DEF Inv, TurnInv, UiPlaces, Filling
  <2>2. pc["cpu"] \notin Updates
    BY <1>1, <1>2, <2>1, Apart DEF Filling
  <2>. QED
    BY <1>2, <2>2, Two DEF Inv, TurnInv
<1>3. CASE t = "cpu"
  <2>1. pc["ui"] \notin Updates
    <3>1. CASE u = "empty"
      BY <1>1, <1>3, <3>1, Apart DEF Inv, TurnInv, UiPlaces, Filling
    <3>2. CASE u # "empty"
      BY <1>1, <1>3, <3>2, Apart DEF SetupPlaces, Filling, Updates
    <3>. QED
      BY <3>1, <3>2
  <2>. QED
    BY <1>3, <2>1, Two DEF Inv, TurnInv
<1>. QED
  BY <1>2, <1>3, Two

LEMMA LoadInv ==
  ASSUME Inv, NEW t \in Threads, NEW u \in Updates, Load(t, u)
  PROVE  TurnInv' /\ BufferInv' /\ ScriptInv'
<1>1. UNCHANGED <<sr, outBuf, irq, pc, sending, hist, ram, curr, in, script, label>>
  BY DEF Load, guest
<1>2. ASSUME NEW o \in Threads
      PROVE  tmp'[o] = tmp[o] \/ (tmp'[o] = <<sr>> /\ pc[o] \in Updates)
  BY <1>2, Two DEF Load
<1>3. TurnInv'
  BY <1>1, <1>2 DEF Inv, TurnInv, Free
<1>4. BufferInv'
  BY <1>1 DEF Inv, BufferInv, hist
<1>5. ScriptInv'
  BY <1>1 DEF Inv, ScriptInv, At, Settled, Holds, Expects, Pending, Free
<1>. QED
  BY <1>3, <1>4, <1>5

LEMMA UiStoreInv ==
  ASSUME Inv, NEW u \in Updates, Store("ui", u)
  PROVE  TurnInv' /\ BufferInv' /\ ScriptInv'
<1>1. pc["ui"] = u /\ u = "mark"
  BY DEF Store, Inv, TurnInv, UiPlaces, Filling, Updates
<1>2. tmp["ui"] = <<sr>>
  BY Two DEF Store, Inv, TurnInv
<1>3. sr' = [sr EXCEPT !.OBF = TRUE] /\ Goto("ui", "put")
  BY <1>1, <1>2 DEF Store, Changed, Returns
<1>4. /\ pc' \in [Threads -> Places] /\ pc'["ui"] = "put" /\ pc'["cpu"] = pc["cpu"]
  BY <1>3, Two, Moved DEF Places
<1>5. pc["cpu"] \in {"idle", "data"} /\ script = <<>> /\ Free /\ ~sr.OBF
  BY <1>1, Two, Apart DEF Filling, Inv, TurnInv
<1>6. tmp'["ui"] = <<>> /\ tmp'["cpu"] = <<>>
  BY <1>1, Two, OneCopy DEF Store
<1>7. sr'.OBF /\ sr'.ST6 = sr.ST6 /\ UNCHANGED <<irq, outBuf, hist, script, label, ram>>
  BY <1>3, Two DEF Store, Status, guest
<1>8. TurnInv'
  BY <1>4, <1>5, <1>6, <1>7, Two DEF TurnInv, UiPlaces, Filling, Free
<1>9. BufferInv'
  BY <1>1, <1>4, <1>5, <1>7, Two DEF Inv, BufferInv, Count, hist
<1>. QED
  BY <1>4, <1>5, <1>7, <1>8, <1>9, UiScript

LEMMA UiBufferInv ==
  ASSUME Inv, WaitEmpty("ui") \/ PutByte("ui") \/ RequestIrq("ui")
  PROVE  TurnInv' /\ BufferInv' /\ ScriptInv'
<1>0. "ui" \in Threads /\ script = <<>> /\ UNCHANGED <<sr, script, tmp, label, ram>>
      /\ pc["cpu"] \in {"idle", "empty", "data"}
  BY Two, Apart DEF WaitEmpty, PutByte, RequestIrq, guest
<1>1. CASE WaitEmpty("ui")
  <2>1. ~sr.OBF /\ UNCHANGED <<irq, outBuf, hist>> /\ pc["ui"] = "wait"
    BY <1>1 DEF WaitEmpty, CanWrite
  <2>2. /\ pc' \in [Threads -> Places] /\ pc'["ui"] = "mark" /\ pc'["cpu"] = pc["cpu"]
    BY <1>1, Two, Moved DEF WaitEmpty, Places, Updates
  <2>3. Free /\ pc["cpu"] # "empty" /\ tmp["ui"] = <<>>
    BY <1>0, <2>1 DEF Inv, TurnInv, Updates
  <2>4. TurnInv'
    BY <1>0, <2>1, <2>2, <2>3, Two DEF Inv, TurnInv, UiPlaces, Filling, Free
  <2>5. BufferInv'
    BY <1>0, <2>1, <2>2 DEF Inv, BufferInv, hist
  <2>. QED
    BY <1>0, <2>2, <2>4, <2>5, UiScript
<1>2. CASE PutByte("ui")
  <2>. DEFINE b == sending["ui"].byte
  <2>1. /\ pc["ui"] = "put" /\ outBuf' = b /\ put' = Append(put, b) /\ b \in Int
        /\ UNCHANGED <<irq, got>>
        /\ overtaken' = overtaken \cup (IF pc["cpu"] = "data" THEN {Len(got) + 1} ELSE {})
    BY <1>2, Two DEF PutByte, TypeOK
  <2>2. /\ pc' \in [Threads -> Places] /\ pc'["ui"] = "irq" /\ pc'["cpu"] = pc["cpu"]
    BY <1>2, Two, Moved DEF PutByte, Places
  <2>3. Free /\ pc["cpu"] # "empty" /\ tmp["ui"] = <<>> /\ sr.OBF
    BY <1>0, <2>1 DEF Inv, TurnInv, Updates, Filling
  <2>4. TurnInv'
    BY <1>0, <2>1, <2>2, <2>3, Two DEF Inv, TurnInv, UiPlaces, Filling, Free
  <2>. HIDE DEF b
  <2>5. Reads(got', put', overtaken')
    <3>1. \A i \in 1..Len(got) : i \in overtaken' <=> i \in overtaken
      BY <2>1, Two
    <3>2. Reads(got, put, overtaken)
      BY DEF Inv, BufferInv
    <3>. QED
      BY <2>1, <3>1, <3>2, Two, ReadsKept
  <2>6. Len(put') = Len(put) + 1 /\ put'[Len(put')] = b
    BY <2>1, Two
  <2>7. BufferInv'
    <3>1. "put" \in {pc["ui"], pc["cpu"]} /\ "put" \notin {pc'["ui"], pc'["cpu"]}
      BY <1>0, <2>1, <2>2
    <3>2. Len(put) + 1 = Len(got) + Count(pc["cpu"] = "data") + Count(sr.OBF)
      BY <3>1 DEF Inv, BufferInv, Count
    <3>3. Len(put') + 0 = Len(got') + Count(pc'["cpu"] = "data") + Count(sr'.OBF)
      <4>1. Len(put) \in Nat
        BY Two
      <4>. QED
        BY <4>1, <1>0, <2>1, <2>2, <2>6, <3>2
    <3>4. overtaken' \subseteq 1..(Len(got') + Count(pc'["cpu"] = "data"))
      <4>1. overtaken \subseteq 1..(Len(got) + Count(pc["cpu"] = "data"))
        BY DEF Inv, BufferInv
      <4>2. CASE pc["cpu"] = "data"
        <5>1. Len(got) \in Nat /\ got' = got /\ overtaken' = overtaken \cup {Len(got) + 1}
          BY <2>1, <4>2, Two
        <5>2. overtaken \subseteq 1..(Len(got) + 1) /\ Count(pc'["cpu"] = "data") = 1
          BY <2>2, <4>1, <4>2 DEF Count
        <5>3. 1..(Len(got) + 1) = 1..(Len(got') + Count(pc'["cpu"] = "data"))
          BY <5>1, <5>2
        <5>4. Len(got) + 1 \in 1..(Len(got) + 1)
          BY <5>1
        <5>. QED
          BY <5>1, <5>2, <5>3, <5>4, Zenon
      <4>3. CASE pc["cpu"] # "data"
        BY <2>1, <2>2, <4>1, <4>3, Two DEF Count
      <4>. QED
        BY <4>2, <4>3
    <3>5. pc'["cpu"] = "data" => Len(got') + 1 \in overtaken' /\ Len(put') = Len(got') + 2
      BY <2>1, <2>2, <2>3, <2>6, <3>2, Two DEF Count
    <3>. QED
      BY <2>1, <2>5, <2>6, <3>1, <3>3, <3>4, <3>5 DEF BufferInv, Count
  <2>. QED
    BY <1>0, <2>2, <2>4, <2>7, UiScript
<1>3. CASE RequestIrq("ui")
  <2>. DEFINE dev == sending["ui"].dev
  <2>1. /\ pc["ui"] = "irq" /\ UNCHANGED <<outBuf, hist>>
        /\ \A d \in Devices : irq'[d] <=> irq[d] \/ (d = dev /\ InterruptsAllowed(d))
    BY <1>3, Two DEF RequestIrq
  <2>2. /\ pc' \in [Threads -> Places] /\ pc'["ui"] \in {"check", "idle"}
        /\ pc'["cpu"] = pc["cpu"]
    BY <1>3, Two, Moved DEF RequestIrq, Places, AfterSend
  <2>3. Free /\ pc["cpu"] # "empty" /\ tmp["ui"] = <<>> /\ sr.OBF
    BY <1>0, <2>1 DEF Inv, TurnInv, Updates, Filling
  <2>4. \A d \in Devices : irq'[d] => d = dev
    BY <2>1, <2>3 DEF Free
  <2>5. TurnInv'
    BY <1>0, <2>2, <2>3, <2>4, Two DEF Inv, TurnInv, UiPlaces, Filling, Free
  <2>6. BufferInv'
    BY <1>0, <2>1, <2>2 DEF Inv, BufferInv, hist
  <2>. QED
    BY <1>0, <2>2, <2>5, <2>6, UiScript
<1>. QED
  BY <1>1, <1>2, <1>3

LEMMA UiCallbackInv ==
  ASSUME QuietInit, Inv, SendScancode \/ \E dev \in Devices : UiEvent(dev)
  PROVE  TurnInv' /\ BufferInv' /\ ScriptInv'
<1>1. /\ UNCHANGED <<sr, script, tmp, irq, outBuf, hist, label, ram>> /\ script = <<>>
      /\ pc["ui"] \in {"idle", "check"}
  BY Apart DEF SendScancode, UiEvent, guest
<1>2. /\ pc' \in [Threads -> Places] /\ pc'["ui"] \in {"idle", "check", "wait"}
      /\ pc'["cpu"] = pc["cpu"]
  <2>1. PICK p \in {"idle", "check", "wait"} : Goto("ui", p)
    BY DEF SendScancode, UiEvent
  <2>2. p \in Places
    BY DEF Places
  <2>. QED
    BY <2>1, <2>2, Two, Moved
<1>3. tmp["ui"] = <<>>
  BY <1>1, Two DEF Inv, TurnInv, Updates
<1>4. TurnInv'
  BY <1>1, <1>2, <1>3, Two DEF Inv, TurnInv, UiPlaces, Filling, Free
<1>5. BufferInv'
  BY <1>1, <1>2 DEF Inv, BufferInv, hist
<1>. QED
  BY <1>1, <1>2, <1>4, <1>5, UiScript

-----------------------------------------------------------------------------
(* The steps of the CPU that change the data path.                         *)

LEMMA NoDevice == "none" \notin Devices /\ "polled" \notin Devices /\ Controller \notin Devices
  BY DEF Devices, Controller

LEMMA CpuStoreInv ==
  ASSUME Inv, NEW u \in Updates, Store("cpu", u)
  PROVE  TurnInv' /\ BufferInv' /\ ScriptInv'
<1>1. pc["cpu"] = u /\ tmp["cpu"] = <<sr>> /\ Goto("cpu", Returns(u))
      /\ UNCHANGED <<outBuf, irq, sending, hist, ram, curr, script, in, label>>
  BY Two DEF Store, Inv, TurnInv, guest
<1>2. sr' = Changed(sr, u) /\ tmp'["ui"] = <<>> /\ tmp'["cpu"] = <<>>
  BY <1>1, Two, OneCopy DEF Store
<1>3. pc' \in [Threads -> Places] /\ pc'["cpu"] = Returns(u) /\ pc'["ui"] = pc["ui"]
  BY <1>1, Two, CpuMoved, ReturnsType DEF Places
<1>4. pc["ui"] \notin Filling /\ (u # "empty" => pc["ui"] = "idle" /\ script # <<>>)
  <2>1. u # "empty" => u \in SetupPlaces
    BY DEF SetupPlaces, Filling, Updates
  <2>. QED
    BY <1>1, <2>1, Apart DEF Filling
<1>5. CASE u = "mark"
  <2>1. sr' = [sr EXCEPT !.OBF = TRUE] /\ Returns(u) = "put"
    BY <1>2, <1>5 DEF Changed, Returns
  <2>2. sr'.OBF /\ sr'.ST6 = sr.ST6 /\ ~sr.OBF /\ Free /\ Free'
    BY <1>1, <1>5, <2>1, Two DEF Status, Inv, TurnInv, Filling, Free
  <2>3. TurnInv'
    BY <1>1, <1>2, <1>3, <1>4, <1>5, <2>1, <2>2, Two DEF Inv, TurnInv, UiPlaces, Filling, Free
  <2>4. BufferInv'
    BY <1>1, <1>3, <1>4, <1>5, <2>1, <2>2, Two DEF Inv, BufferInv, Count, hist
  <2>5. ScriptInv'
    <3>1. PICK l \in Label : l = label /\ Accepted(script, l) /\ At(l)
      BY <1>4, <1>5, Two DEF Inv, ScriptInv, TypeOK
    <3>2. At(l)'
      BY <1>1, <1>3, <1>5, <2>1, <2>2, <3>1 DEF At, Pending, Free, Filling
    <3>. QED
      BY <1>1, <1>3, <1>4, <1>5, <2>1, <3>1, <3>2 DEF ScriptInv, SetupPlaces, Filling
  <2>. QED
    BY <2>3, <2>4, <2>5
<1>6. CASE u = "empty"
  <2>1. sr' = [sr EXCEPT !.OBF = FALSE] /\ Returns(u) = "data"
    BY <1>2, <1>6 DEF Changed, Returns
  <2>2. ~sr'.OBF /\ sr'.ST6 = sr.ST6 /\ sr.OBF /\ Free /\ Free'
    BY <1>1, <1>6, <2>1, Two DEF Status, Inv, TurnInv, Free
  <2>3. TurnInv'
    BY <1>1, <1>2, <1>3, <1>4, <1>6, <2>1, <2>2, Two DEF Inv, TurnInv, UiPlaces, Filling, Free
  <2>4. BufferInv'
    <3>1. "put" \notin {pc["ui"], pc["cpu"]} /\ pc["cpu"] = "empty"
      BY <1>1, <1>4, <1>6 DEF Filling
    <3>2. Len(put) = Len(got) + 1 /\ overtaken \subseteq 1..Len(got)
      BY <2>2, <3>1, Two DEF Inv, BufferInv, Count
    <3>3. "put" \notin {pc'["ui"], pc'["cpu"]} /\ pc'["cpu"] = "data"
      BY <1>3, <2>1, <3>1
    <3>4. UNCHANGED <<put, got, overtaken, outBuf>>
      BY <1>1 DEF hist
    <3>5. (put # <<>> => outBuf = put[Len(put)]) /\ Reads(got, put, overtaken)
      BY DEF Inv, BufferInv
    <3>. QED
      BY <2>2, <3>2, <3>3, <3>4, <3>5, Two DEF BufferInv, Count
  <2>5. ScriptInv'
    <3>1. ASSUME NEW l, At(l) PROVE At(l)'
      BY <1>1, <1>3, <1>6, <2>1, <2>2, <3>1, NoDevice DEF At, Holds, Expects, Free, Filling
    <3>. QED
      BY <1>1, <1>3, <1>6, <2>1, <2>2, <3>1 DEF Inv, ScriptInv
  <2>. QED
    BY <2>3, <2>4, <2>5
<1>7. CASE u \in {"port", "two", "one"}
  <2>1. /\ sr'.OBF = sr.OBF
        /\ u = "port" => sr'.ST6 = sr.ST6 /\ (sr'.F1 <=> in.op = "command")
        /\ u = "two" => sr'.ST6
        /\ u = "one" => ~sr'.ST6
    BY <1>2, <1>7, Two DEF Changed, Status
  <2>2. Returns(u) = IF u = "port" THEN "exec" ELSE "idle"
    BY <1>7 DEF Returns
  <2>3. TurnInv'
    BY <1>1, <1>2, <1>3, <1>4, <1>7, <2>1, <2>2, Two DEF Inv, TurnInv, UiPlaces, Filling, Free
  <2>4. BufferInv'
    BY <1>1, <1>3, <1>4, <1>7, <2>1, <2>2, Two DEF Inv, BufferInv, Count, hist
  <2>5. PICK l \in Label : l = label /\ Accepted(script, l) /\ At(l)
    BY <1>4, <1>7, Two DEF Inv, ScriptInv, TypeOK
  <2>6. At(l)'
    <3>1. CASE u = "port"
      <4>1. PICK k \in Label : Settled(k) /\ Legal(k, in) /\ l = LabelAfter(k, in)
        BY <1>1, <2>5, <3>1 DEF At
      <4>2. Settled(k)'
        BY <1>1, <2>1, <3>1, <4>1 DEF Settled, Holds, Expects
      <4>. QED
        BY <1>1, <1>3, <2>1, <2>2, <3>1, <4>1, <4>2 DEF At, Filling
    <3>2. CASE u = "two"
      <4>1. l.code = curr /\ curr \in Byte /\ Holds(l.held)' /\ ram'[0] = l.ccb
        BY <1>1, <2>1, <2>5, <3>2, Two DEF At, Holds, TypeOK, Filling
      <4>2. Expects(l)'
        BY <1>1, <2>1, <3>2, <4>1 DEF Expects, None, Byte
      <4>. QED
        BY <1>3, <2>2, <3>2, <4>1, <4>2 DEF At, Filling
    <3>3. CASE u = "one"
      <4>1. l.code = None /\ Holds(l.held)' /\ ram'[0] = l.ccb
        BY <1>1, <2>1, <2>5, <3>3 DEF At, Holds, Filling
      <4>2. Expects(l)'
        BY <2>1, <3>3, <4>1 DEF Expects
      <4>. QED
        BY <1>3, <2>2, <3>3, <4>1, <4>2 DEF At, Filling
    <3>. QED
      BY <1>7, <3>1, <3>2, <3>3
  <2>7. ScriptInv'
    BY <1>1, <1>3, <1>4, <1>7, <2>2, <2>5, <2>6 DEF ScriptInv, SetupPlaces
  <2>. QED
    BY <2>3, <2>4, <2>7
<1>. QED
  BY <1>5, <1>6, <1>7 DEF Updates

LEMMA CpuBufferInv ==
  ASSUME Inv, WaitEmpty("cpu") \/ PutByte("cpu") \/ RequestIrq("cpu")
  PROVE  TurnInv' /\ BufferInv' /\ ScriptInv'
<1>1. pc["cpu"] \in {"wait", "put", "irq"} /\ pc["ui"] = "idle" /\ script # <<>>
      /\ UNCHANGED <<sr, script, tmp, sending, ram, curr, in, label, got>> /\ "cpu" \in Threads
  BY Two, Apart DEF WaitEmpty, PutByte, RequestIrq, SetupPlaces, Filling, guest, hist
<1>2. PICK l \in Label : l = label /\ Accepted(script, l) /\ At(l)
  BY <1>1, Two DEF Inv, ScriptInv, TypeOK
<1>3. l.code = None /\ Pending(l.held) /\ ram[0] = l.ccb /\ Free
  BY <1>1, <1>2 DEF At, Filling, Pending
<1>4. tmp["cpu"] = <<>> /\ tmp["ui"] = <<>>
  BY <1>1, Two DEF Inv, TurnInv, Updates
<1>5. CASE WaitEmpty("cpu")
  <2>1. ~sr.OBF /\ UNCHANGED <<irq, outBuf, hist>> /\ pc["cpu"] = "wait"
    BY <1>5 DEF WaitEmpty, CanWrite
  <2>2. pc' \in [Threads -> Places] /\ pc'["cpu"] = "mark" /\ pc'["ui"] = pc["ui"]
    BY <1>5, Two, CpuMoved DEF WaitEmpty, Places, Updates
  <2>3. TurnInv'
    BY <1>1, <1>3, <1>4, <2>1, <2>2, Two DEF Inv, TurnInv, UiPlaces, Filling, Free
  <2>4. BufferInv'
    BY <1>1, <2>1, <2>2 DEF Inv, BufferInv, hist
  <2>5. At(l)'
    BY <1>1, <1>3, <2>1, <2>2 DEF At, Pending, Free, Filling
  <2>. QED
    BY <1>1, <1>2, <2>2, <2>3, <2>4, <2>5 DEF ScriptInv, SetupPlaces, Filling
<1>6. CASE PutByte("cpu")
  <2>. DEFINE b == sending["cpu"].byte
  <2>1. /\ pc["cpu"] = "put" /\ outBuf' = b /\ put' = Append(put, b) /\ b \in Int
        /\ irq' = irq /\ overtaken' = overtaken
    BY <1>1, <1>6, Two DEF PutByte, TypeOK
  <2>2. pc' \in [Threads -> Places] /\ pc'["cpu"] = "irq" /\ pc'["ui"] = pc["ui"]
    BY <1>6, Two, CpuMoved DEF PutByte, Places
  <2>3. sr.OBF
    BY <1>1, <2>1 DEF Inv, TurnInv
  <2>4. TurnInv'
    BY <1>1, <1>3, <1>4, <2>1, <2>2, <2>3, Two DEF Inv, TurnInv, UiPlaces, Filling, Free
  <2>. HIDE DEF b
  <2>5. Reads(got', put', overtaken')
    BY <1>1, <2>1, Two, ReadsKept DEF Inv, BufferInv
  <2>6. Len(put') = Len(put) + 1 /\ put'[Len(put')] = b
    BY <2>1, Two
  <2>7. BufferInv'
    <3>1. "put" \in {pc["ui"], pc["cpu"]} /\ "put" \notin {pc'["ui"], pc'["cpu"]}
      BY <1>1, <2>1, <2>2
    <3>2. Len(put) + 1 = Len(got) + Count(pc["cpu"] = "data") + Count(sr.OBF)
      BY <3>1 DEF Inv, BufferInv, Count
    <3>3. Len(put') + 0 = Len(got') + Count(pc'["cpu"] = "data") + Count(sr'.OBF)
      <4>1. Len(put) \in Nat
        BY Two
      <4>2. Count(pc'["cpu"] = "data") = Count(pc["cpu"] = "data")
        BY <2>1, <2>2 DEF Count
      <4>. QED
        BY <4>1, <4>2, <1>1, <2>6, <3>2
    <3>4. overtaken' \subseteq 1..(Len(got') + Count(pc'["cpu"] = "data"))
      BY <1>1, <2>1, <2>2 DEF Inv, BufferInv, Count
    <3>. QED
      BY <2>1, <2>2, <2>5, <2>6, <3>1, <3>3, <3>4 DEF BufferInv, Count
  <2>8. At(l)'
    BY <1>1, <1>3, <2>1, <2>2 DEF At, Pending, Free, Filling
  <2>. QED
    BY <1>1, <1>2, <2>2, <2>4, <2>7, <2>8 DEF ScriptInv, SetupPlaces, Filling
<1>7. CASE RequestIrq("cpu")
  <2>. DEFINE dev == sending["cpu"].dev
  <2>1. /\ pc["cpu"] = "irq" /\ UNCHANGED <<outBuf, hist>>
        /\ \A d \in Devices : irq'[d] <=> irq[d] \/ (d = dev /\ InterruptsAllowed(d))
    BY <1>7, Two DEF RequestIrq
  <2>2. /\ pc' \in [Threads -> Places]
        /\ pc'["cpu"] = (IF dev = Controller THEN "idle" ELSE "one")
        /\ pc'["ui"] = pc["ui"]
    BY <1>7, Two, CpuMoved DEF RequestIrq, Places, AfterSend, Updates
  <2>3. sr.OBF
    BY <1>1, <2>1 DEF Inv, TurnInv
  <2>4. \A d \in Devices : irq'[d] <=> d = dev /\ InterruptsAllowed(d)
    BY <1>3, <2>1 DEF Free
  <2>5. TurnInv'
    BY <1>1, <1>4, <2>2, <2>3, <2>4, Two DEF Inv, TurnInv, UiPlaces, Filling, Free
  <2>6. BufferInv'
    BY <1>1, <2>1, <2>2 DEF Inv, BufferInv, Count, hist
  <2>7. Holds(l.held)'
    <3>1. CASE dev = Controller
      BY <1>1, <1>3, <2>3, <2>4, <3>1, NoDevice DEF Pending, Holds
    <3>2. CASE dev # Controller
      <4>1. dev \in Devices /\ l.held = HeldFor(ram[0], dev)
        BY <1>3, <3>2, Two DEF Pending, TypeOK
      <4>2. l.held = IF InterruptsAllowed(dev) THEN dev ELSE "polled"
        BY <4>1 DEF HeldFor, InterruptsAllowed
      <4>. HIDE DEF dev
      <4>. QED
        BY <1>1, <2>3, <2>4, <4>1, <4>2, NoDevice DEF Holds
    <3>. QED
      BY <3>1, <3>2
  <2>8. At(l)'
    <3>1. CASE dev = Controller
      BY <1>1, <1>3, <2>2, <2>7, <3>1 DEF At, Pending, Filling, Expects
    <3>2. CASE dev # Controller
      BY <1>1, <1>3, <2>2, <2>7, <3>2 DEF At, Filling
    <3>. QED
      BY <3>1, <3>2
  <2>. QED
    BY <1>1, <1>2, <2>2, <2>5, <2>6, <2>8 DEF ScriptInv, SetupPlaces, Filling
<1>. QED
  BY <1>5, <1>6, <1>7

LEMMA TakeInterruptInv ==
  ASSUME Inv, NEW dev \in Devices, TakeInterrupt(dev)
  PROVE  TurnInv' /\ BufferInv' /\ ScriptInv'
<1>1. /\ pc["cpu"] = "idle" /\ script = <<>> /\ irq[dev]
      /\ UNCHANGED <<sr, tmp, outBuf, hist, script, label, ram>>
      /\ \A d \in Devices : irq'[d] <=> irq[d] /\ d # dev
  BY Two DEF TakeInterrupt
<1>2. pc' \in [Threads -> Places] /\ pc'["cpu"] = "empty" /\ pc'["ui"] = pc["ui"]
  BY Two, CpuMoved DEF TakeInterrupt, Places, Updates
<1>3. ~Free /\ sr.OBF /\ pc["ui"] \notin Filling
  BY <1>1, Two DEF Inv, TurnInv, Free
<1>4. \A d \in Devices : ~irq'[d]
  BY <1>1 DEF Inv, TurnInv
<1>5. TurnInv'
  BY <1>1, <1>2, <1>3, <1>4, Two DEF Inv, TurnInv, UiPlaces, Filling, Free, Updates
<1>6. BufferInv'
  BY <1>1, <1>2 DEF Inv, BufferInv, Count, hist
<1>. QED
  BY <1>1, <1>2, <1>5, <1>6 DEF Inv, ScriptInv

LEMMA ReadByteInv ==
  ASSUME Inv, ReadByte
  PROVE  TurnInv' /\ BufferInv' /\ ScriptInv'
<1>1. /\ pc["cpu"] = "data" /\ got' = Append(got, outBuf)
      /\ UNCHANGED <<sr, tmp, outBuf, put, overtaken, irq, script, ram, curr, sending, in, label>>
  BY DEF ReadByte, guest
<1>2. pc' \in [Threads -> Places] /\ pc'["cpu"] = "idle" /\ pc'["ui"] = pc["ui"]
  BY Two, CpuMoved DEF ReadByte, Places
<1>3. TurnInv'
  BY <1>1, <1>2, Two DEF Inv, TurnInv, Filling, Free, Updates
<1>4. pc["ui"] = "put" => sr.OBF
  BY Two DEF Inv, TurnInv
<1>5. Len(put) + Count(pc["ui"] = "put") = Len(got) + 1 + Count(sr.OBF)
  BY <1>1 DEF Inv, BufferInv, Count
<1>6. /\ Len(put) = (IF Len(got) + 1 \in overtaken THEN Len(got) + 2 ELSE Len(got) + 1)
      /\ put # <<>>
  <2>1. Len(put) \in {Len(got) + 1, Len(got) + 2}
    BY <1>4, <1>5, Two DEF Count
  <2>2. Len(got) + 1 \in overtaken <=> Len(put) = Len(got) + 2
    BY <1>1 DEF Inv, BufferInv
  <2>. QED
    BY <2>1, <2>2, Two
<1>7. outBuf = put[Len(put)]
  BY <1>6 DEF Inv, BufferInv
<1>8. Reads(got', put', overtaken')
  BY <1>1, <1>6, <1>7, Two, ReadsMore DEF Inv, BufferInv
<1>9. Len(got') = Len(got) + 1
  BY <1>1, Two
<1>10. BufferInv'
  <2>1. Len(put') + Count("put" \in {pc'["ui"], pc'["cpu"]}) = Len(got') + 0 + Count(sr'.OBF)
    BY <1>1, <1>2, <1>5, <1>9, Two DEF Count
  <2>2. overtaken' \subseteq 1..(Len(got') + 0)
    BY <1>1, <1>9, Two DEF Inv, BufferInv, Count
  <2>. QED
    BY <1>1, <1>2, <1>7, <1>8, <2>1, <2>2 DEF BufferInv, Count
<1>11. ScriptInv'
  <2>1. ASSUME NEW l, At(l) PROVE At(l)'
    BY <1>1, <1>2, <2>1 DEF At, Holds, Expects, Filling
  <2>. QED
    BY <1>1, <1>2, <2>1 DEF Inv, ScriptInv
<1>. QED
  BY <1>3, <1>10, <1>11

-----------------------------------------------------------------------------
(* The steps of the CPU that follow the set-up program.                    *)

\* A step of the CPU that is no step of the data path.
LEMMA CpuPlain ==
  ASSUME Inv, pc["ui"] = "idle", pc["cpu"] \in {"idle", "exec"},
         UNCHANGED <<sr, tmp, outBuf, hist, irq>>,
         NEW p \in {"idle", "port", "two", "one", "wait", "empty"}, Goto("cpu", p),
         p = "empty" => sr.OBF /\ Free
  PROVE  /\ TurnInv' /\ BufferInv'
         /\ pc' \in [Threads -> Places] /\ pc'["cpu"] = p /\ pc'["ui"] = "idle"
<1>1. pc' \in [Threads -> Places] /\ pc'["cpu"] = p /\ pc'["ui"] = "idle"
  BY Two, CpuMoved DEF Places, Updates
<1>2. tmp["cpu"] = <<>> /\ tmp["ui"] = <<>>
  BY Two DEF Inv, TurnInv, Updates
<1>3. TurnInv'
  BY <1>1, <1>2, Two DEF Inv, TurnInv, UiPlaces, Filling, Free
<1>4. BufferInv'
  BY <1>1 DEF Inv, BufferInv, Count, hist
<1>. QED
  BY <1>1, <1>3, <1>4

LEMMA FetchInv ==
  ASSUME Inv, Fetch
  PROVE  TurnInv' /\ BufferInv' /\ ScriptInv'
<1>o. PICK o : o = Head(script)
  OBVIOUS
<1>1. /\ pc["cpu"] = "idle" /\ script # <<>> /\ pc["ui"] = "idle"
      /\ in' = o /\ script' = Tail(script) /\ script \in Seq(PortOp)
      /\ label' = LabelAfter(label, o)
      /\ UNCHANGED <<sr, outBuf, ram, curr, irq, tmp, sending, hist>>
  BY <1>o, Two DEF Fetch, Inv, ScriptInv, TypeOK
<1>2. PICK l \in Label : l = label /\ Accepted(script, l) /\ At(l)
  BY <1>1, Two DEF Inv, ScriptInv, TypeOK
<1>m. PICK m : m = LabelAfter(l, o) /\ m = label'
  BY <1>1, <1>2
<1>3. /\ Legal(l, o) /\ m \in Label /\ Accepted(Tail(script), m)
      /\ Tail(script) = <<>> => o.op = "sti"
  BY <1>o, <1>1, <1>2, <1>m, AfterAccess
<1>4. Settled(l)
  BY <1>1, <1>2 DEF At, Settled, Filling
<1>5. o.op \in {"command", "data", "read", "sti"}
  BY <1>o, <1>1, FirstOp, PortOps
<1>6. CASE o.op = "read"
  <2>1. Goto("cpu", "empty")
    BY <1>o, <1>6 DEF Fetch
  <2>2. l.held = "polled" /\ m = [l EXCEPT !.held = "none"]
    BY <1>3, <1>6, <1>m DEF Legal, LabelAfter
  <2>3. sr.OBF /\ Free
    BY <1>4, <2>2, NoDevice DEF Settled, Holds, Free
  <2>4. TurnInv' /\ BufferInv' /\ pc'["cpu"] = "empty" /\ pc'["ui"] = "idle"
    BY <1>1, <2>1, <2>3, CpuPlain
  <2>5. m.ccb = l.ccb /\ m.code = l.code /\ m.held = "none"
    BY <2>2 DEF Label
  <2>6. At(m)'
    BY <1>1, <1>4, <2>4, <2>5 DEF At, Settled, Expects, Filling
  <2>7. script' # <<>>
    BY <1>1, <1>3, <1>6
  <2>. QED
    BY <1>1, <1>3, <1>m, <2>4, <2>6, <2>7 DEF ScriptInv
<1>7. CASE o.op = "sti"
  <2>1. Goto("cpu", "idle")
    BY <1>o, <1>7 DEF Fetch
  <2>2. m = l
    BY <1>7, <1>m DEF LabelAfter
  <2>3. TurnInv' /\ BufferInv' /\ pc'["cpu"] = "idle" /\ pc'["ui"] = "idle"
    BY <1>1, <2>1, CpuPlain
  <2>4. At(m)'
    BY <1>1, <1>2, <2>2, <2>3 DEF At, Settled, Holds, Expects, Filling
  <2>5. script' = <<>> => ~sr'.ST6 /\ label'.code = None /\ ram'[0] = label'.ccb
    <3>1. script' = <<>> => m.code = None
      BY <1>1, <1>3, AtEnd
    <3>. QED
      BY <1>1, <1>4, <1>m, <2>2, <3>1 DEF Settled, Expects
  <2>. QED
    BY <1>1, <1>3, <1>m, <2>3, <2>4, <2>5 DEF ScriptInv
<1>8. CASE o.op \in {"command", "data"}
  <2>1. Goto("cpu", "port")
    BY <1>o, <1>8 DEF Fetch
  <2>2. TurnInv' /\ BufferInv' /\ pc'["cpu"] = "port" /\ pc'["ui"] = "idle"
    BY <1>1, <2>1, CpuPlain
  <2>3. Settled(l)'
    BY <1>1, <1>4 DEF Settled, Holds, Expects
  <2>4. At(m)'
    BY <1>1, <1>2, <1>3, <1>m, <2>2, <2>3 DEF At, Filling
  <2>5. script' # <<>>
    BY <1>1, <1>3, <1>8
  <2>. QED
    BY <1>1, <1>3, <1>m, <2>2, <2>4, <2>5 DEF ScriptInv, SetupPlaces
<1>. QED
  BY <1>5, <1>6, <1>7, <1>8

\* What is known when a byte reaches exec_command.
LEMMA AtExec ==
  ASSUME Inv, pc["cpu"] = "exec"
  PROVE  /\ pc["ui"] = "idle" /\ script # <<>>
         /\ in.op \in {"command", "data"} /\ in.v \in Byte
         /\ \E k \in Label, l \in Label :
              /\ l = label /\ Accepted(script, l) /\ l = LabelAfter(k, in) /\ Legal(k, in)
              /\ Settled(k) /\ (sr.F1 <=> in.op = "command")
<1>1. pc["ui"] = "idle" /\ script # <<>>
  BY Apart DEF SetupPlaces
<1>2. in.op \in {"command", "data"} /\ in.v \in Byte
  BY PortOps DEF Inv, TypeInv, TypeOK, FlowInv
<1>3. PICK l \in Label : l = label /\ Accepted(script, l) /\ At(l)
  BY <1>1, Two DEF Inv, ScriptInv, TypeOK
<1>4. sr.F1 <=> in.op = "command"
  BY <1>3 DEF At
<1>5. PICK k \in Label : Settled(k) /\ Legal(k, in) /\ l = LabelAfter(k, in)
  BY <1>3 DEF At
<1>. QED
  BY <1>1, <1>2, <1>3, <1>4, <1>5

LEMMA FirstByteInv ==
  ASSUME Inv, FirstByte
  PROVE  TurnInv' /\ BufferInv' /\ ScriptInv'
<1>. DEFINE v == in.v
<1>1. /\ pc["cpu"] = "exec" /\ ~sr.ST6
      /\ UNCHANGED <<sr, tmp, outBuf, hist, irq, script, in, label>>
  BY DEF FirstByte
<1>2. pc["ui"] = "idle" /\ script # <<>> /\ in.op \in {"command", "data"} /\ v \in Byte
  BY <1>1, AtExec
<1>3. PICK k \in Label, l \in Label :
        /\ l = label /\ Accepted(script, l) /\ l = LabelAfter(k, in) /\ Legal(k, in)
        /\ Settled(k) /\ (sr.F1 <=> in.op = "command")
  BY <1>1, AtExec
<1>4. k.code = None /\ ram[0] = k.ccb /\ Holds(k.held) /\ l = AfterFirst(k, in)
  BY <1>1, <1>2, <1>3 DEF Settled, Expects, LabelAfter
<1>. DEFINE bit == IF v \in {173, 174} THEN 4 ELSE 5
            on == v \in {168, 174}
<1>5. CASE /\ sr.F1 /\ v \in {167, 168, 173, 174}
           /\ ram' = [ram EXCEPT ![0] = WithBit(@, bit, on)]
           /\ Goto("cpu", "idle") /\ UNCHANGED <<sending, curr>>
  <2>1. l = [k EXCEPT !.ccb = WithBit(@, bit, on)]
    BY <1>3, <1>4, <1>5 DEF AfterFirst
  <2>. HIDE DEF bit, on, v
  <2>2. l.code = None /\ l.held = k.held /\ ram'[0] = l.ccb
    BY <1>4, <1>5, <2>1, Two DEF Label, TypeOK, RamCells
  <2>3. TurnInv' /\ BufferInv' /\ pc'["cpu"] = "idle" /\ pc'["ui"] = "idle"
    BY <1>1, <1>2, <1>5, CpuPlain
  <2>4. At(l)'
    BY <1>1, <1>4, <2>2, <2>3 DEF At, Holds, Expects, Filling
  <2>. QED
    BY <1>1, <1>2, <1>3, <2>3, <2>4 DEF ScriptInv
<1>6. CASE /\ sr.F1 /\ v \in 32..63
           /\ sending' = [sending EXCEPT !["cpu"] = [dev |-> Controller, byte |-> ram[v - 32]]]
           /\ Goto("cpu", "wait") /\ UNCHANGED <<ram, curr>>
  <2>1. Fills(k, in)
    BY <1>3, <1>4, <1>6 DEF Fills
  <2>2. k.held = "none" /\ l = [k EXCEPT !.held = "polled"]
    BY <1>3, <1>4, <1>6, <2>1 DEF AfterFirst, Legal
  <2>3. l.code = None /\ l.held = "polled" /\ l.ccb = k.ccb
    BY <1>4, <2>2 DEF Label
  <2>4. ~sr.OBF /\ Free
    BY <1>4, <2>2, NoDevice DEF Holds, Free
  <2>5. sending'["cpu"].dev = Controller
    BY <1>6, Two DEF TypeOK
  <2>6. TurnInv' /\ BufferInv' /\ pc'["cpu"] = "wait" /\ pc'["ui"] = "idle"
    BY <1>1, <1>2, <1>6, CpuPlain
  <2>7. At(l)'
    BY <1>1, <1>4, <1>6, <2>3, <2>4, <2>5, <2>6 DEF At, Pending, Free, Filling
  <2>. QED
    BY <1>1, <1>2, <1>3, <2>6, <2>7 DEF ScriptInv, SetupPlaces
<1>7. CASE /\ ~(sr.F1 /\ v \in (32..63) \cup {167, 168, 173, 174})
           /\ curr' = v /\ Goto("cpu", "two") /\ UNCHANGED <<ram, sending>>
  <2>1. l = [k EXCEPT !.code = v]
    BY <1>3, <1>4, <1>7 DEF AfterFirst, Fills
  <2>2. l.code = v /\ l.held = k.held /\ l.ccb = k.ccb
    BY <2>1 DEF Label
  <2>3. TurnInv' /\ BufferInv' /\ pc'["cpu"] = "two" /\ pc'["ui"] = "idle"
    BY <1>1, <1>2, <1>7, CpuPlain
  <2>4. At(l)'
    BY <1>1, <1>4, <1>7, <2>2, <2>3 DEF At, Holds, Filling
  <2>. QED
    BY <1>1, <1>2, <1>3, <2>3, <2>4 DEF ScriptInv, SetupPlaces
<1>. QED
  BY <1>5, <1>6, <1>7 DEF FirstByte

LEMMA SecondByteInv ==
  ASSUME Inv, SecondByte
  PROVE  TurnInv' /\ BufferInv' /\ ScriptInv'
<1>v. PICK v : v = in.v
  OBVIOUS
<1>1. /\ pc["cpu"] = "exec" /\ sr.ST6
      /\ UNCHANGED <<sr, tmp, outBuf, hist, irq, script, in, curr, label>>
  BY DEF SecondByte
<1>2. pc["ui"] = "idle" /\ script # <<>> /\ in.op \in {"command", "data"} /\ v \in Byte
  BY <1>v, <1>1, AtExec
<1>3. PICK k \in Label, l \in Label :
        /\ l = label /\ Accepted(script, l) /\ l = LabelAfter(k, in) /\ Legal(k, in)
        /\ Settled(k) /\ (sr.F1 <=> in.op = "command")
  BY <1>1, AtExec
<1>4. /\ k.code # None /\ curr = k.code /\ ram[0] = k.ccb /\ Holds(k.held)
      /\ l = AfterSecond(k, in) /\ k.code \in Byte
  BY <1>1, <1>2, <1>3 DEF Settled, Expects, LabelAfter, Label
<1>c. PICK code : code = IF sr.F1 THEN None ELSE k.code
  OBVIOUS
<1>5. \/ code = 210 /\ ~Disabled("keyboard") /\ Sends("keyboard", v)
      \/ code = 211 /\ ~Disabled("mouse") /\ Sends("mouse", v)
      \/ code = 212 /\ v = 244 /\ Sends("mouse", 250)
      \/ /\ ~(\/ code = 210 /\ ~Disabled("keyboard")
              \/ code = 211 /\ ~Disabled("mouse")
              \/ code = 212 /\ v = 244)
         /\ ram' = IF code \in 96..127 THEN [ram EXCEPT ![code - 96] = v] ELSE ram
         /\ Goto("cpu", "one") /\ UNCHANGED sending
  BY <1>v, <1>c, <1>4 DEF SecondByte
<1>6. (Disabled("keyboard") <=> Bit(k.ccb, 4)) /\ (Disabled("mouse") <=> Bit(k.ccb, 5))
  BY <1>4 DEF Disabled
<1>7. ASSUME NEW dev \in Devices, NEW b \in Byte, Sends(dev, b),
             ~sr.F1, Answering(k, v) = dev
      PROVE  TurnInv' /\ BufferInv' /\ ScriptInv'
  <2>1. in.op = "data" /\ Fills(k, in)
    BY <1>v, <1>2, <1>3, <1>4, <1>7, NoDevice DEF Fills
  <2>2. k.held = "none" /\ l = [k EXCEPT !.code = None, !.held = HeldFor(k.ccb, dev)]
    BY <1>v, <1>3, <1>4, <1>7, <2>1 DEF AfterSecond, Legal
  <2>3. l.code = None /\ l.held = HeldFor(k.ccb, dev) /\ l.ccb = k.ccb
    BY <2>2 DEF Label
  <2>4. ~sr.OBF /\ Free
    BY <1>4, <2>2, NoDevice DEF Holds, Free
  <2>5. sending'["cpu"].dev = dev /\ ram' = ram /\ dev # Controller
    BY <1>7, Two, NoDevice DEF Sends, TypeOK
  <2>6. TurnInv' /\ BufferInv' /\ pc'["cpu"] = "wait" /\ pc'["ui"] = "idle"
    BY <1>1, <1>2, <1>7, CpuPlain DEF Sends
  <2>7. At(l)'
    BY <1>1, <1>4, <2>3, <2>4, <2>5, <2>6 DEF At, Pending, Free, Filling
  <2>. QED
    BY <1>1, <1>2, <1>3, <2>6, <2>7 DEF ScriptInv, SetupPlaces
<1>8. ASSUME ~sr.F1
      PROVE  /\ code = k.code
             /\ code = 210 /\ ~Disabled("keyboard") => Answering(k, v) = "keyboard"
             /\ code = 211 /\ ~Disabled("mouse") => Answering(k, v) = "mouse"
             /\ code = 212 /\ v = 244 => Answering(k, v) = "mouse"
             /\ ~(\/ code = 210 /\ ~Disabled("keyboard")
                  \/ code = 211 /\ ~Disabled("mouse")
                  \/ code = 212 /\ v = 244) => Answering(k, v) = "none"
  BY <1>c, <1>6, <1>8 DEF Answering
<1>9. code = None => sr.F1 /\ code \notin 96..127 /\ code # 210 /\ code # 211 /\ code # 212
  BY <1>c, <1>4 DEF None
<1>10. sr.F1 => code = None
  BY <1>c
<1>11. CASE /\ ~(\/ code = 210 /\ ~Disabled("keyboard")
                 \/ code = 211 /\ ~Disabled("mouse")
                 \/ code = 212 /\ v = 244)
            /\ ram' = IF code \in 96..127 THEN [ram EXCEPT ![code - 96] = v] ELSE ram
            /\ Goto("cpu", "one") /\ UNCHANGED sending
  <2>1. TurnInv' /\ BufferInv' /\ pc'["cpu"] = "one" /\ pc'["ui"] = "idle"
    BY <1>1, <1>2, <1>11, CpuPlain
  <2>2. l.code = None /\ l.held = k.held /\ ram'[0] = l.ccb
    <3>1. CASE sr.F1
      <4>1. l = [k EXCEPT !.code = None] /\ ram' = ram
        BY <1>3, <1>4, <1>9, <1>10, <1>11, <3>1 DEF AfterSecond
      <4>. QED
        BY <1>4, <4>1 DEF Label
    <3>2. CASE ~sr.F1
      <4>1. in.op = "data" /\ ~Fills(k, in)
        BY <1>v, <1>2, <1>3, <1>4, <1>8, <1>11, <3>2 DEF Fills
      <4>2. l = [k EXCEPT !.code = None, !.ccb = IF k.code = 96 THEN v ELSE @]
        BY <1>v, <1>4, <4>1 DEF AfterSecond
      <4>3. ram'[0] = IF k.code = 96 THEN v ELSE k.ccb
        <5>1. ram \in [RamCells -> Byte] /\ 0 \in RamCells /\ code = k.code
          BY <1>8, <3>2, Two DEF TypeOK, RamCells
        <5>2. CASE k.code = 96
          <6>1. ram' = [ram EXCEPT ![0] = v]
            BY <1>11, <5>1, <5>2
          <6>. QED
            BY <5>1, <5>2, <6>1
        <5>3. CASE k.code # 96
          <6>1. ram'[0] = ram[0]
            BY <1>4, <1>11, <5>1, <5>3 DEF Byte
          <6>. QED
            BY <1>4, <5>3, <6>1
        <5>. QED
          BY <5>2, <5>3
      <4>. QED
        BY <4>2, <4>3 DEF Label
    <3>. QED
      BY <3>1, <3>2
  <2>3. At(l)'
    BY <1>1, <1>4, <2>1, <2>2 DEF At, Holds, Filling
  <2>. QED
    BY <1>1, <1>2, <1>3, <2>1, <2>3 DEF ScriptInv, SetupPlaces
<1>12. 250 \in Byte /\ "keyboard" \in Devices /\ "mouse" \in Devices
  BY DEF Byte, Devices
<1>. QED
  BY <1>2, <1>5, <1>7, <1>8, <1>9, <1>10, <1>11, <1>12

-----------------------------------------------------------------------------
(* The theorems.                                                           *)

LEMMA StepInv == QuietInit /\ Inv /\ [Next]_vars => Inv'
<1> SUFFICES ASSUME QuietInit, Inv, [Next]_vars PROVE Inv'
  OBVIOUS
<1>1. TypeInv'
  BY StepTypes DEF Inv
<1>2. CASE UNCHANGED vars
  BY <1>1, <1>2 DEF vars, Inv, TurnInv, BufferInv, ScriptInv, At, Settled, Holds, Expects,
                    Pending, Free
<1>3. CASE WriteOutBuff("ui")
  BY <1>1, <1>3, LoadInv, UiStoreInv, UiBufferInv, Two DEF Inv, WriteOutBuff
<1>4. CASE WriteOutBuff("cpu")
  BY <1>1, <1>4, LoadInv, CpuStoreInv, CpuBufferInv, Two DEF Inv, WriteOutBuff
<1>5. CASE SendScancode \/ \E dev \in Devices : UiEvent(dev)
  BY <1>1, <1>5, UiCallbackInv DEF Inv
<1>6. CASE \/ Fetch \/ ReadByte \/ FirstByte \/ SecondByte
           \/ \E dev \in Devices : TakeInterrupt(dev)
  BY <1>1, <1>6, FetchInv, ReadByteInv, FirstByteInv, SecondByteInv, TakeInterruptInv DEF Inv
<1>. QED
  BY <1>2, <1>3, <1>4, <1>5, <1>6 DEF Next, Ui, Cpu

LEMMA InvCurrent == Inv => ReadsAreCurrent /\ InSync
<1> SUFFICES ASSUME Inv PROVE ReadsAreCurrent /\ InSync
  OBVIOUS
<1>1. "put" \in {pc["ui"], pc["cpu"]} => sr.OBF
  BY Two DEF Inv, TurnInv
<1>2. Len(put) + Count("put" \in {pc["ui"], pc["cpu"]})
        = Len(got) + Count(pc["cpu"] = "data") + Count(sr.OBF)
  BY DEF Inv, BufferInv
<1>3. ASSUME NEW i \in DOMAIN got
      PROVE  ReturnedByte(i) <= Len(put) /\ got[i] = put[ReturnedByte(i)]
  <2>1. i \in 1..Len(got) /\ Len(put) \in Nat
    BY <1>3, Two
  <2>2. PICK j \in 1..Len(put) : j = (IF i \in overtaken THEN i + 1 ELSE i) /\ got[i] = put[j]
    BY <2>1 DEF Inv, BufferInv, Reads
  <2>. QED
    BY <2>1, <2>2 DEF ReturnedByte
<1>4. pc["cpu"] = "empty" => sr.OBF /\ pc["ui"] # "put"
  BY DEF Inv, TurnInv, Filling
<1>5. pc["cpu"] = "empty" => Len(put) = Len(got) + 1 /\ outBuf = put[Len(put)]
  <2>1. pc["cpu"] = "empty" => Len(put) = Len(got) + 1
    BY <1>2, <1>4, Two DEF Count
  <2>2. put # <<>> => outBuf = put[Len(put)]
    BY DEF Inv, BufferInv
  <2>. QED
    BY <2>1, <2>2, Two
<1>6. pc["cpu"] # "data" /\ pc["ui"] # "put" /\ ~sr.OBF => Len(got) = Len(put)
  BY <1>1, <1>2, Two DEF Count
<1>7. ReadsAreCurrent
  BY <1>3, <1>4, <1>5, <1>6 DEF ReadsAreCurrent
<1>8. InSync
  <2>1. \A t \in Threads : tmp[t] # <<>> => Head(tmp[t]) = sr
    BY DEF Inv, TurnInv
  <2>2. ASSUME pc["cpu"] = "idle", script = <<>>
        PROVE  Expects(label) /\ ram[0] = label.ccb
    BY <2>2 DEF Inv, ScriptInv, Expects
  <2>3. ASSUME pc["cpu"] = "idle", script # <<>>
        PROVE  Expects(label) /\ ram[0] = label.ccb /\ Holds(label.held)
    <3>1. At(label)
      BY <2>3 DEF Inv, ScriptInv
    <3>. QED
      BY <2>3, <3>1 DEF At, Filling
  <2>. QED
    BY <2>1, <2>2, <2>3 DEF InSync
<1>. QED
  BY <1>7, <1>8

\* Every read starts when exactly one byte is unread, the one in the buffer, and
\* returns it, unless the window thread stores the next byte between the two
\* statements of read_out_buff: those reads, and no others, return the next byte
\* in its place.  For every well-formed set-up program run with no event during
\* it, every content of the RAM and any number of bytes.
THEOREM ReadsSafe == QuietInit /\ WellFormed /\ Spec => []ReadsAreCurrent
<1> SUFFICES ASSUME QuietInit, WellFormed PROVE Spec => []ReadsAreCurrent
  OBVIOUS
<1>1. Init => Inv
  BY InitInv
<1>2. Inv /\ [Next]_vars => Inv'
  BY StepInv
<1>. QED
  BY <1>1, <1>2, InvCurrent, PTL DEF Spec

\* Before each access of a well-formed set-up, and whenever the CPU is between two
\* reads after it, the controller expects what the guest is about to send: the
\* second byte of the command it has begun or the first of a new one, under the
\* configuration it was told.  During the set-up the buffer and the requests are
\* as the guest knows them.  At no moment does a thread hold a copy of the status
\* byte that is out of date, so no store of one undoes the other thread's.
THEOREM SyncSafe == QuietInit /\ WellFormed /\ Spec => []InSync
<1> SUFFICES ASSUME QuietInit, WellFormed PROVE Spec => []InSync
  OBVIOUS
<1>1. Init => Inv
  BY InitInv
<1>2. Inv /\ [Next]_vars => Inv'
  BY StepInv
<1>. QED
  BY <1>1, <1>2, InvCurrent, PTL DEF Spec
================================================================================
