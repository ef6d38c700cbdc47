---------------------------------- MODULE Pit ----------------------------------
(***************************************************************************)
(* The programmable interval timer (pit/pit.cpp): the channels, one        *)
(* mode/command register and one byte flip-flop shared by all of them, and *)
(* for every channel that was ever selected a thread (pit::worker) that    *)
(* sleeps and raises the one request of the device.                        *)
(*                                                                         *)
(* A port access is one step: a worker shares only mode, def and running   *)
(* with it, reads each in a step of its own, and an access assigns each    *)
(* of them once.  The 16-bit count and def are the pairs of their bytes.   *)
(*                                                                         *)
(* The guest selects a channel and an access mode, then reads or writes    *)
(* that channel, and leaves a low/high pair half done only by a new        *)
(* command: the code does not keep the channels' accesses apart            *)
(* (pit.cpp:66).  It does not select channel 3, which indexes past the     *)
(* array (pit.cpp:109).                                                    *)
(***************************************************************************)
EXTENDS Integers

CONSTANTS
  NTimers,     \* NO_INTERNAL_TIMERS
  Byte,        \* the values of a byte
  Ones,        \* 0xff
  Modes,       \* the values of cwr.MODE the guest writes
  Accesses     \* the values of cwr.RL the guest writes

\* A channel is selected by two bits.
ASSUME PitAssumption ==
  /\ NTimers \in 1..4
  /\ Ones \in Byte
  /\ Modes \subseteq 0..7
  /\ Accesses \subseteq 0..3

Timers == 0..(NTimers - 1)
RateGenerator == 2
Latch == 0
LoByte == 1
HiByte == 2
LoHi == 3
Half == {"lo", "hi"}
Word == [Half -> Byte]

VARIABLES
  rl, sc,      \* cwr.RL and cwr.SC (cwr.MODE is used only by the access that writes it)
  rLobyte,     \* r_lobyte
  mode, count, def, running,  \* timers[c]
  wpc,         \* the thread of channel c: "none" until it is started
  intrReq,     \* intr_req
  cpu,         \* "guest", then the destructor: "stop" or "join" a channel, "done"
  dtor,        \* the channel the destructor is at
  turn,        \* the guest's own idea of the half it accesses next, and how
  want,        \* the period the guest has written to channel c
  slept,       \* the period the thread of c sleeps, while it sleeps
  stale        \* ticks of c since it was last programmed that are not what it asks for

port == <<rl, sc, rLobyte>>
timer == <<mode, count, def>>
ghost == <<turn, want>>
dtorVars == <<cpu, dtor, running>>
vars == <<port, timer, running, wpc, intrReq, cpu, dtor, ghost, slept, stale>>

TypeOK ==
  /\ rl \in 0..3 /\ sc \in 0..3 /\ rLobyte \in BOOLEAN
  /\ mode \in [Timers -> 0..7]
  /\ count \in [Timers -> Word] /\ def \in [Timers -> Word]
  /\ running \in [Timers -> BOOLEAN]
  /\ wpc \in [Timers -> {"none", "loop", "mode", "def", "sleep", "ended"}]
  /\ intrReq \in BOOLEAN
  /\ cpu \in {"guest", "stop", "join", "done"}
  /\ dtor \in Timers
  /\ turn \in [half : Half, op : {"any", "read", "write"}]
  /\ want \in [Timers -> Word]
  /\ slept \in [Timers -> Word]
  /\ stale \in [Timers -> 0..2]

AllOnes == [h \in Half |-> Ones]
FirstHalf == [half |-> "lo", op |-> "any"]
Joinable(c) == wpc[c] # "none"

\* The constructor leaves cwr and r_lobyte uninitialized.
Init ==
  /\ rl \in 0..3 /\ sc \in 0..3 /\ rLobyte \in BOOLEAN
  /\ mode = [c \in Timers |-> 0]
  /\ count = [c \in Timers |-> AllOnes]
  /\ def = [c \in Timers |-> AllOnes]
  /\ running = [c \in Timers |-> FALSE]
  /\ wpc = [c \in Timers |-> "none"]
  /\ intrReq = FALSE
  /\ cpu = "guest" /\ dtor = 0
  /\ turn = FirstHalf
  /\ want = [c \in Timers |-> AllOnes]
  /\ slept = [c \in Timers |-> AllOnes]
  /\ stale = [c \in Timers |-> 0]

-----------------------------------------------------------------------------
(* Port accesses.                                                          *)

\* Slip: the flip-flop stays where the last access left it.
FlipFlopKept(r) == rLobyte

\* Selecting low/high access starts at the low byte.
FlipFlop(r) == IF r = LoHi THEN TRUE ELSE rLobyte

\* The period after a command: latching copies the count over it.
Latched(c, r) == IF r = Latch THEN count[c] ELSE def[c]

\* A write to the mode/command register that selects channel c.
Command(c, m, r) ==
  /\ cpu = "guest"
  /\ rl' = r /\ sc' = c
  /\ rLobyte' = FlipFlop(r)
  /\ mode' = [mode EXCEPT ![c] = m]
  /\ def' = [def EXCEPT ![c] = Latched(c, r)]
  /\ running' = [running EXCEPT ![c] = @ \/ ~Joinable(c)]
  /\ wpc' = [wpc EXCEPT ![c] = IF Joinable(c) THEN @ ELSE "loop"]
  /\ turn' = FirstHalf
  /\ stale' = [stale EXCEPT ![c] = 0]
  /\ UNCHANGED <<count, intrReq, cpu, dtor, want, slept>>

\* The half an access reaches: r_lobyte is negated first, then tested.
Reached ==
  CASE rl = LoByte -> "lo"
    [] rl = HiByte -> "hi"
    [] rl = LoHi -> IF rLobyte THEN "lo" ELSE "hi"

Toggled == IF rl = LoHi THEN ~rLobyte ELSE rLobyte

\* What the guest means by its access: which half, and whether it is due.
Meant ==
  CASE rl = LoByte -> "lo"
    [] rl = HiByte -> "hi"
    [] rl = LoHi -> turn.half

Due(op) == rl = LoHi => turn.op \in {"any", op}
TurnAfter(op) ==
  IF rl = LoHi /\ turn.half = "lo" THEN [half |-> "hi", op |-> op] ELSE FirstHalf

WriteData(v) ==
  LET c == sc IN
  /\ cpu = "guest" /\ c \in Timers /\ Joinable(c) /\ rl # Latch /\ Due("write")
  /\ count' = [count EXCEPT ![c][Reached] = v]
  /\ def' = [def EXCEPT ![c] = count'[c]]
  /\ rLobyte' = Toggled
  /\ want' = [want EXCEPT ![c][Meant] = v]
  /\ turn' = TurnAfter("write")
  /\ stale' = [stale EXCEPT ![c] = 0]
  /\ UNCHANGED <<rl, sc, mode, running, wpc, intrReq, cpu, dtor, slept>>

\* A read changes the flip-flop; the byte it returns is not kept.  After a
\* latch command a read returns 0 and changes nothing.
ReadData ==
  /\ cpu = "guest" /\ sc \in Timers /\ Joinable(sc) /\ Due("read")
  /\ rLobyte' = Toggled
  /\ turn' = TurnAfter("read")
  /\ UNCHANGED <<rl, sc, timer, running, wpc, intrReq, cpu, dtor, want, slept, stale>>

\* The CPU's poll takes the request (chk_intr_req).
Poll ==
  /\ cpu = "guest" /\ intrReq
  /\ intrReq' = FALSE
  /\ UNCHANGED <<port, timer, running, wpc, cpu, dtor, ghost, slept, stale>>

-----------------------------------------------------------------------------
(* The thread of channel c.                                                *)

Continue(c, to) == wpc' = [wpc EXCEPT ![c] = to]

LoopTest(c) ==
  /\ wpc[c] = "loop"
  /\ Continue(c, IF running[c] THEN "mode" ELSE "ended")
  /\ UNCHANGED <<port, timer, dtorVars, intrReq, ghost, slept, stale>>

\* Slip: another of the modes.
GeneratesNext(m) == m = RateGenerator + 1

Generates(m) == m = RateGenerator

\* In the other modes the thread sleeps a while and tests again.
ReadMode(c) ==
  /\ wpc[c] = "mode"
  /\ Continue(c, IF Generates(mode[c]) THEN "def" ELSE "loop")
  /\ UNCHANGED <<port, timer, dtorVars, intrReq, ghost, slept, stale>>

ReadDef(c) ==
  /\ wpc[c] = "def"
  /\ Continue(c, "sleep")
  /\ slept' = [slept EXCEPT ![c] = def[c]]
  /\ UNCHANGED <<port, timer, dtorVars, intrReq, ghost, stale>>

\* The sleep was the one the channel now asks for.
Wanted(c) == mode[c] = RateGenerator /\ slept[c] = def[c]

\* Slip: the thread sleeps again without looking at the channel.
AfterTickAgain == "sleep"

AfterTick == "loop"

\* The sleep is over.
Tick(c) ==
  /\ wpc[c] = "sleep"
  /\ intrReq' = TRUE
  /\ Continue(c, AfterTick)
  /\ stale' = [stale EXCEPT ![c] = IF Wanted(c) THEN @ ELSE IF @ = 0 THEN 1 ELSE 2]
  /\ slept' = [slept EXCEPT ![c] = IF AfterTick = "sleep" THEN @ ELSE AllOnes]
  /\ UNCHANGED <<port, timer, dtorVars, ghost>>

Worker(c) == LoopTest(c) \/ ReadMode(c) \/ ReadDef(c) \/ Tick(c)

-----------------------------------------------------------------------------
(* pit::~pit, run by the CPU thread when the window has been closed.       *)

Close ==
  /\ cpu = "guest" /\ cpu' = "stop"
  /\ UNCHANGED <<port, timer, running, wpc, intrReq, dtor, ghost, slept, stale>>

\* Slip: the loop runs one channel too far.
NextChannelPast == IF dtor < NTimers
                     THEN cpu' = "stop" /\ dtor' = dtor + 1
                     ELSE cpu' = "done" /\ dtor' = dtor

NextChannel == IF dtor + 1 \in Timers
                 THEN cpu' = "stop" /\ dtor' = dtor + 1
                 ELSE cpu' = "done" /\ dtor' = dtor

\* Slip: the flag is left set, the join is reached first.
StoppedLate(c) == running

Stopped(c) == [running EXCEPT ![c] = FALSE]

Stop ==
  /\ cpu = "stop"
  /\ IF Joinable(dtor) THEN /\ running' = Stopped(dtor)
                            /\ cpu' = "join" /\ dtor' = dtor
                       ELSE NextChannel /\ UNCHANGED running
  /\ UNCHANGED <<port, timer, wpc, intrReq, ghost, slept, stale>>

Join ==
  /\ cpu = "join" /\ wpc[dtor] = "ended"
  /\ NextChannel
  /\ UNCHANGED <<port, timer, running, wpc, intrReq, ghost, slept, stale>>

Guest == \/ \E c \in Timers, m \in Modes, r \in Accesses : Command(c, m, r)
         \/ \E v \in Byte : WriteData(v)
         \/ ReadData
         \/ Close

Next == Guest \/ Poll \/ (\E c \in Timers : Worker(c)) \/ Stop \/ Join

\* The threads and the main loop run for ever and each sleep ends; the guest
\* and the user owe nothing.
Fairness == /\ \A c \in Timers : WF_vars(Worker(c))
            /\ WF_vars(Poll) /\ WF_vars(Stop) /\ WF_vars(Join)

Spec == Init /\ [][Next]_vars /\ Fairness

-----------------------------------------------------------------------------
(* Properties.                                                             *)

\* The period of a channel is the one the guest wrote, byte for byte, at
\* every moment: whatever was read, latched, abandoned or written to another
\* channel before, a new low/high command brings the shared flip-flop back
\* into step with the guest.
PeriodAsWritten == \A c \in Timers : def[c] = want[c]

\* After a channel is programmed, the thread that slept through it may tick
\* once with what it had read before, and not twice.
OneStaleTick == \A c \in Timers : stale[c] <= 1

\* A channel left in rate generator mode keeps interrupting: the request is
\* raised again and again, each time after the CPU has taken it.
Generating(c) == cpu = "guest" /\ mode[c] = RateGenerator /\ Joinable(c)
RequestsContinue ==
  \A c \in Timers : (<>[]Generating(c)) => ([]<>intrReq /\ []<>~intrReq)

\* The destructor ends: it stops each thread before it waits for it, and the
\* threads of the channels still to come do not keep it.
DestructorEnds == (cpu = "stop") ~> (cpu = "done")
================================================================================
