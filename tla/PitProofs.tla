------------------------------- MODULE PitProofs -------------------------------
(***************************************************************************)
(* Proofs about Pit, for any number of channels and any set of bytes: its  *)
(* types, and that the period of each channel is the one the guest wrote.  *)
(***************************************************************************)
EXTENDS Pit, TLAPS

-----------------------------------------------------------------------------
(* A 16-bit value one half of which is replaced.                           *)

LEMMA ReplaceHalf ==
  ASSUME NEW f \in [Timers -> Word], NEW c \in Timers, NEW h \in Half, NEW v \in Byte
  PROVE  /\ [f EXCEPT ![c][h] = v] \in [Timers -> Word]
         /\ [f EXCEPT ![c][h] = v][c] \in Word
  BY DEF Word

LEMMA ReachedHalf ==
  ASSUME TypeOK, rl # Latch
  PROVE  Reached \in Half /\ Meant \in Half
<1>1. rl \in {LoByte, HiByte, LoHi} /\ turn.half \in Half
  BY DEF TypeOK, Latch, LoByte, HiByte, LoHi
<1>. QED
  BY <1>1 DEF Reached, Meant, Half, LoByte, HiByte, LoHi

-----------------------------------------------------------------------------
(* Types.                                                                  *)

LEMMA AllOnesType == AllOnes \in Word
  BY PitAssumption DEF AllOnes, Word

LEMMA TimersType == Timers \subseteq 0..3 /\ 0 \in Timers
  BY PitAssumption DEF Timers

LEMMA InitTypes == Init => TypeOK
<1>1. FirstHalf \in [half : Half, op : {"any", "read", "write"}]
  BY DEF FirstHalf, Half
<1>2. ASSUME Init
      PROVE  /\ count \in [Timers -> Word] /\ def \in [Timers -> Word]
             /\ want \in [Timers -> Word] /\ slept \in [Timers -> Word]
  BY <1>2, AllOnesType DEF Init
<1>3. ASSUME Init
      PROVE  /\ mode \in [Timers -> 0..7] /\ stale \in [Timers -> 0..2]
             /\ running \in [Timers -> BOOLEAN]
             /\ wpc \in [Timers -> {"none", "loop", "mode", "def", "sleep", "ended"}]
             /\ dtor \in Timers /\ rl \in 0..3 /\ sc \in 0..3
  BY <1>3, TimersType DEF Init
<1>4. ASSUME Init
      PROVE  /\ cpu = "guest" /\ turn = FirstHalf
             /\ rLobyte \in BOOLEAN /\ intrReq \in BOOLEAN
  BY <1>4, Zenon DEF Init
<1>. QED
  BY <1>1, <1>2, <1>3, <1>4, Zenon DEF TypeOK

LEMMA StepTypes == TypeOK /\ [Next]_vars => TypeOK'
<1> SUFFICES ASSUME TypeOK, [Next]_vars PROVE TypeOK'
  OBVIOUS
<1> USE DEF TypeOK, FirstHalf, Half
<1>1. ASSUME NEW c \in Timers, NEW m \in Modes, NEW r \in Accesses, Command(c, m, r)
      PROVE  TypeOK'
  <2>1. sc' \in 0..3 /\ rl' \in 0..3 /\ m \in 0..7
    BY <1>1, TimersType, PitAssumption DEF Command
  <2>2. def' \in [Timers -> Word] /\ running' \in [Timers -> BOOLEAN]
    BY <1>1 DEF Command, Latched
  <2>3. rLobyte' \in BOOLEAN /\ mode' \in [Timers -> 0..7]
    BY <1>1, <2>1 DEF Command, FlipFlop
  <2>4. wpc' \in [Timers -> {"none", "loop", "mode", "def", "sleep", "ended"}]
    BY <1>1 DEF Command
  <2>. QED
    BY <1>1, <2>1, <2>2, <2>3, <2>4 DEF Command
<1>2. ASSUME NEW v \in Byte, WriteData(v)
      PROVE  TypeOK'
  <2>1. sc \in Timers /\ rl # Latch
    BY <1>2 DEF WriteData
  <2>2. Reached \in Half /\ Meant \in Half
    BY <2>1, ReachedHalf
  <2>3. count' \in [Timers -> Word] /\ want' \in [Timers -> Word]
    BY <1>2, <2>1, <2>2, ReplaceHalf DEF WriteData
  <2>4. def' \in [Timers -> Word]
    BY <1>2, <2>1, <2>3 DEF WriteData
  <2>5. turn' \in [half : Half, op : {"any", "read", "write"}]
    BY <1>2 DEF WriteData, TurnAfter
  <2>6. rLobyte' \in BOOLEAN
    BY <1>2, Zenon DEF WriteData, Toggled
  <2>7. stale' \in [Timers -> 0..2]
    BY <1>2 DEF WriteData
  <2>. QED
    BY <1>2, <2>3, <2>4, <2>5, <2>6, <2>7 DEF WriteData
<1>3. CASE ReadData
  BY <1>3 DEF ReadData, Toggled, TurnAfter, timer
<1>4. CASE Close \/ Poll
  BY <1>4 DEF Close, Poll, port, timer, ghost
<1>5. ASSUME NEW c \in Timers, LoopTest(c) \/ ReadMode(c)
      PROVE  TypeOK'
  BY <1>5 DEF LoopTest, ReadMode, Continue, port, timer, ghost, dtorVars
<1>6. ASSUME NEW c \in Timers, ReadDef(c)
      PROVE  TypeOK'
  BY <1>6 DEF ReadDef, Continue, port, timer, ghost, dtorVars
<1>7. ASSUME NEW c \in Timers, Tick(c)
      PROVE  TypeOK'
  <2>1. slept' \in [Timers -> Word] /\ stale' \in [Timers -> 0..2]
    BY <1>7, AllOnesType DEF Tick
  <2>. QED
    BY <1>7, <2>1 DEF Tick, AfterTick, Continue, port, timer, ghost, dtorVars
<1>8. CASE Stop \/ Join
  BY <1>8 DEF Stop, Join, Stopped, NextChannel, port, timer, ghost
<1>9. CASE UNCHANGED vars
  BY <1>9 DEF vars, port, timer, ghost
<1>. QED
  BY <1>1, <1>2, <1>3, <1>4, <1>5, <1>6, <1>7, <1>8, <1>9 DEF Next, Guest, Worker

\* The state of the timer keeps its types, whatever the guest programs.
THEOREM PitTypes == Spec => []TypeOK
  BY InitTypes, StepTypes, PTL DEF Spec

-----------------------------------------------------------------------------
(* Periods.  The flip-flop is in step with the guest once a channel has    *)
(* been selected; the count and the period are then the guest's bytes.     *)

PeriodInv ==
  /\ count = want /\ def = want
  /\ sc \in Timers /\ Joinable(sc) /\ rl = LoHi => (rLobyte <=> turn.half = "lo")

LEMMA InitPeriod == Init => PeriodInv
  BY DEF Init, PeriodInv, Joinable

LEMMA CommandPeriod ==
  ASSUME TypeOK, PeriodInv, NEW c \in Timers, NEW m \in Modes, NEW r \in Accesses,
         Command(c, m, r)
  PROVE  PeriodInv'
<1>1. def' = def
  BY DEF TypeOK, PeriodInv, Command, Latched
<1>2. turn'.half = "lo" /\ rl' = r /\ (r = LoHi => rLobyte')
  BY DEF Command, FirstHalf, FlipFlop
<1>. QED
  BY <1>1, <1>2 DEF PeriodInv, Command

LEMMA InStep ==
  ASSUME TypeOK, PeriodInv, sc \in Timers, Joinable(sc), rl # Latch
  PROVE  /\ Reached = Meant
         /\ rl = LoHi => (Toggled <=> turn.half = "hi")
<1>1. rl \in {LoByte, HiByte, LoHi} /\ turn.half \in {"lo", "hi"} /\ rLobyte \in BOOLEAN
  BY DEF TypeOK, Latch, LoByte, HiByte, LoHi, Half
<1>2. CASE rl = LoByte
  BY <1>2 DEF Reached, Meant, LoByte, LoHi
<1>3. CASE rl = HiByte
  BY <1>3 DEF Reached, Meant, LoByte, HiByte, LoHi
<1>4. CASE rl = LoHi
  <2>1. Reached = (IF rLobyte THEN "lo" ELSE "hi") /\ Meant = turn.half
    BY <1>4 DEF Reached, Meant, LoByte, HiByte, LoHi
  <2>2. rLobyte <=> turn.half = "lo"
    BY <1>4 DEF PeriodInv
  <2>3. Toggled = ~rLobyte
    BY <1>4 DEF Toggled
  <2>. QED
    BY <1>1, <2>1, <2>2, <2>3
<1>. QED
  BY <1>1, <1>2, <1>3, <1>4

\* What either access does to the flip-flop, the guest does to its turn.
LEMMA TurnInStep ==
  ASSUME TypeOK, PeriodInv, NEW op \in {"read", "write"}, sc \in Timers, Joinable(sc),
         rl = LoHi, rLobyte' = Toggled, turn' = TurnAfter(op)
  PROVE  rLobyte' <=> turn'.half = "lo"
<1>1. turn.half \in {"lo", "hi"}
  BY DEF TypeOK, Half
<1>2. rLobyte' <=> turn.half = "hi"
  BY InStep DEF LoHi, Latch
<1>3. turn'.half = IF turn.half = "lo" THEN "hi" ELSE "lo"
  BY DEF TurnAfter, FirstHalf
<1>. QED
  BY <1>1, <1>2, <1>3

LEMMA WritePeriod ==
  ASSUME TypeOK, PeriodInv, NEW v \in Byte, WriteData(v)
  PROVE  PeriodInv'
<1>1. sc \in Timers /\ Joinable(sc) /\ rl # Latch /\ UNCHANGED <<sc, rl, wpc>>
  BY DEF WriteData
<1>2. count' = want'
  BY <1>1, InStep DEF WriteData, PeriodInv
<1>3. def' = count'
  <2>1. count' = [count EXCEPT ![sc][Reached] = v] /\ def' = [def EXCEPT ![sc] = count'[sc]]
    BY DEF WriteData
  <2>2. count \in [Timers -> Word] /\ def = count
    BY DEF TypeOK, PeriodInv
  <2>. QED
    BY <1>1, <2>1, <2>2
<1>4. rl' = LoHi => (rLobyte' <=> turn'.half = "lo")
  BY <1>1, TurnInStep DEF WriteData
<1>. QED
  BY <1>1, <1>2, <1>3, <1>4 DEF PeriodInv

LEMMA ReadPeriod ==
  ASSUME TypeOK, PeriodInv, ReadData
  PROVE  PeriodInv'
<1>1. sc \in Timers /\ Joinable(sc) /\ UNCHANGED <<sc, rl, count, def, want, wpc>>
  BY DEF ReadData, timer
<1>2. rl' = LoHi => (rLobyte' <=> turn'.half = "lo")
  BY <1>1, TurnInStep DEF ReadData
<1>. QED
  BY <1>1, <1>2 DEF PeriodInv

\* A thread is started by a command and by nothing else.
LEMMA ThreadPeriod ==
  ASSUME TypeOK, PeriodInv, NEW c \in Timers, Worker(c)
  PROVE  PeriodInv'
<1>1. UNCHANGED <<rl, sc, rLobyte, count, def, want, turn>>
  BY DEF Worker, LoopTest, ReadMode, ReadDef, Tick, port, timer, ghost
<1>2. sc \in Timers /\ Joinable(sc)' => Joinable(sc)
  BY DEF TypeOK, Worker, LoopTest, ReadMode, ReadDef, Tick, Continue, port, Joinable
<1>. QED
  BY <1>1, <1>2 DEF PeriodInv

LEMMA StepPeriod == TypeOK /\ PeriodInv /\ [Next]_vars => PeriodInv'
<1> SUFFICES ASSUME TypeOK, PeriodInv, [Next]_vars PROVE PeriodInv'
  OBVIOUS
<1>1. CASE Close \/ Poll \/ Stop \/ Join \/ UNCHANGED vars
  <2>1. UNCHANGED <<rl, sc, rLobyte, count, def, want, turn, wpc>>
    BY <1>1 DEF Close, Poll, Stop, Join, vars, port, timer, ghost
  <2>. QED
    BY <2>1 DEF PeriodInv, Joinable
<1>. QED
  BY <1>1, CommandPeriod, WritePeriod, ReadPeriod, ThreadPeriod DEF Next, Guest

\* The thread of a channel never sleeps for a mixture of two programmings
\* other than the one the guest itself has half written: def is at every
\* moment what the guest has written to that channel.
THEOREM PeriodSafe == Spec => []PeriodAsWritten
<1>1. PeriodInv => PeriodAsWritten
  BY DEF PeriodInv, PeriodAsWritten
<1>. QED
  BY <1>1, InitTypes, StepTypes, InitPeriod, StepPeriod, PTL DEF Spec

-----------------------------------------------------------------------------
(* Stale ticks.  A channel that has ticked once with what it had read      *)
(* before it was programmed has read the mode and the period again: what   *)
(* its thread holds from then on is what the channel asks for.             *)

UpToDate(c) ==
  /\ wpc[c] = "def" => mode[c] = RateGenerator
  /\ wpc[c] = "sleep" => Wanted(c)

StaleInv == \A c \in Timers : stale[c] = 0 \/ (stale[c] = 1 /\ UpToDate(c))

LEMMA InitStale == Init => StaleInv
  BY DEF Init, StaleInv

LEMMA CommandStale ==
  ASSUME TypeOK, StaleInv, NEW c \in Timers, NEW m \in Modes, NEW r \in Accesses,
         Command(c, m, r)
  PROVE  StaleInv'
<1> SUFFICES ASSUME NEW d \in Timers
             PROVE  stale'[d] = 0 \/ (stale'[d] = 1 /\ UpToDate(d)')
  BY DEF StaleInv
<1>1. CASE d = c
  BY <1>1 DEF Command, TypeOK
<1>2. CASE d # c
  <2>1. /\ stale'[d] = stale[d] /\ wpc'[d] = wpc[d] /\ mode'[d] = mode[d]
        /\ def'[d] = def[d] /\ slept' = slept
    BY <1>2 DEF Command, TypeOK
  <2>. QED
    BY <2>1 DEF StaleInv, UpToDate, Wanted
<1>. QED
  BY <1>1, <1>2

LEMMA WriteStale ==
  ASSUME TypeOK, StaleInv, NEW v \in Byte, WriteData(v)
  PROVE  StaleInv'
<1> SUFFICES ASSUME NEW d \in Timers
             PROVE  stale'[d] = 0 \/ (stale'[d] = 1 /\ UpToDate(d)')
  BY DEF StaleInv
<1>1. CASE d = sc
  BY <1>1 DEF WriteData, TypeOK
<1>2. CASE d # sc
  <2>1. /\ stale'[d] = stale[d] /\ def'[d] = def[d]
        /\ UNCHANGED <<wpc, mode, slept>>
    BY <1>2 DEF WriteData, TypeOK
  <2>. QED
    BY <2>1 DEF StaleInv, UpToDate, Wanted
<1>. QED
  BY <1>1, <1>2

\* A thread reads the mode, then the period, before it sleeps again.
LEMMA ThreadStale ==
  ASSUME TypeOK, StaleInv, NEW c \in Timers, Worker(c)
  PROVE  StaleInv'
<1> SUFFICES ASSUME NEW d \in Timers
             PROVE  stale'[d] = 0 \/ (stale'[d] = 1 /\ UpToDate(d)')
  BY DEF StaleInv
<1>1. UNCHANGED <<mode, def>>
  BY DEF Worker, LoopTest, ReadMode, ReadDef, Tick, timer
<1>2. CASE d # c
  <2>1. stale'[d] = stale[d] /\ wpc'[d] = wpc[d] /\ slept'[d] = slept[d]
    BY <1>2 DEF Worker, LoopTest, ReadMode, ReadDef, Tick, Continue, TypeOK
  <2>. QED
    BY <1>1, <2>1 DEF StaleInv, UpToDate, Wanted
<1>3. CASE d = c /\ LoopTest(c)
  BY <1>3 DEF LoopTest, Continue, TypeOK, StaleInv, UpToDate
<1>4. CASE d = c /\ ReadMode(c)
  <2>1. wpc'[d] = IF Generates(mode[d]) THEN "def" ELSE "loop"
    BY <1>4 DEF ReadMode, Continue, TypeOK
  <2>2. stale'[d] = stale[d]
    BY <1>4 DEF ReadMode
  <2>. QED
    BY <1>1, <2>1, <2>2 DEF StaleInv, UpToDate, Generates
<1>5. CASE d = c /\ ReadDef(c)
  <2>1. wpc'[d] = "sleep" /\ slept'[d] = def[d] /\ stale'[d] = stale[d] /\ wpc[d] = "def"
    BY <1>5 DEF ReadDef, Continue, TypeOK
  <2>. QED
    BY <1>1, <2>1 DEF StaleInv, UpToDate, Wanted
<1>6. CASE d = c /\ Tick(c)
  <2>1. wpc'[d] = "loop" /\ wpc[d] = "sleep"
    BY <1>6 DEF Tick, Continue, AfterTick, TypeOK
  <2>2. stale'[d] = IF Wanted(d) THEN stale[d] ELSE IF stale[d] = 0 THEN 1 ELSE 2
    BY <1>6 DEF Tick, TypeOK
  <2>. QED
    BY <2>1, <2>2 DEF StaleInv, UpToDate
<1>. QED
  BY <1>2, <1>3, <1>4, <1>5, <1>6 DEF Worker

LEMMA StepStale == TypeOK /\ StaleInv /\ [Next]_vars => StaleInv'
<1> SUFFICES ASSUME TypeOK, StaleInv, [Next]_vars PROVE StaleInv'
  OBVIOUS
<1>1. CASE ReadData \/ Close \/ Poll \/ Stop \/ Join \/ UNCHANGED vars
  <2>1. UNCHANGED <<stale, wpc, mode, def, slept>>
    BY <1>1 DEF ReadData, Close, Poll, Stop, Join, vars, timer
  <2>. QED
    BY <2>1 DEF StaleInv, UpToDate, Wanted
<1>. QED
  BY <1>1, CommandStale, WriteStale, ThreadStale DEF Next, Guest

\* However the thread of a channel and the guest that programs it interleave,
\* the request is raised at most once for a mode or a period the guest has
\* replaced: pit::worker reads both again before it sleeps again.
THEOREM StaleSafe == Spec => []OneStaleTick
<1>1. TypeOK /\ StaleInv => OneStaleTick
  BY DEF TypeOK, StaleInv, OneStaleTick
<1>. QED
  BY <1>1, InitTypes, StepTypes, InitStale, StepStale, PTL DEF Spec

-----------------------------------------------------------------------------
(* The destructor.  It joins a thread only after it has stopped it, and    *)
(* the channels behind it have ended: when it is done no thread runs.      *)

Behind(c) == cpu = "done" \/ (cpu \in {"stop", "join"} /\ c < dtor)

ThreadInv ==
  /\ cpu = "guest" => dtor = 0
  /\ cpu = "join" => ~running[dtor]
  /\ \A c \in Timers : Behind(c) => wpc[c] \in {"none", "ended"}

LEMMA InitThreads == Init => ThreadInv
  BY DEF Init, ThreadInv, Behind, Timers

LEMMA WorkerThreads ==
  ASSUME TypeOK, ThreadInv, NEW c \in Timers, Worker(c)
  PROVE  ThreadInv'
<1>1. UNCHANGED <<cpu, dtor, running>>
  BY DEF Worker, LoopTest, ReadMode, ReadDef, Tick, dtorVars
<1>2. wpc[c] \notin {"none", "ended"} /\ \A d \in Timers : d # c => wpc'[d] = wpc[d]
  BY DEF Worker, LoopTest, ReadMode, ReadDef, Tick, Continue, TypeOK
<1>. QED
  BY <1>1, <1>2 DEF ThreadInv, Behind

\* The destructor goes on to the next channel when this one's thread has ended.
LEMMA NextThreads ==
  ASSUME TypeOK, ThreadInv, cpu \in {"stop", "join"}, wpc[dtor] \in {"none", "ended"},
         NextChannel, UNCHANGED <<wpc, running>>
  PROVE  ThreadInv'
<1>1. dtor \in 0..(NTimers - 1) /\ NTimers \in 1..4
  BY PitAssumption DEF TypeOK, Timers
<1>2. ASSUME NEW d \in Timers, Behind(d)' PROVE Behind(d) \/ d = dtor
  BY <1>1, <1>2 DEF NextChannel, Behind, Timers
<1>3. cpu' \notin {"join", "guest"}
  BY DEF NextChannel
<1>. QED
  BY <1>2, <1>3 DEF ThreadInv

LEMMA StepThreads == TypeOK /\ ThreadInv /\ [Next]_vars => ThreadInv'
<1> SUFFICES ASSUME TypeOK, ThreadInv, [Next]_vars PROVE ThreadInv'
  OBVIOUS
<1>1. CASE Guest \/ Poll
  <2>1. cpu = "guest" /\ dtor' = dtor /\ (cpu' = "guest" \/ (cpu' = "stop" /\ Close))
    BY <1>1 DEF Guest, Command, WriteData, ReadData, Close, Poll
  <2>2. dtor' = 0 /\ cpu' \notin {"join", "done"}
    BY <2>1 DEF ThreadInv
  <2>3. ASSUME NEW d \in Timers PROVE ~Behind(d)'
    BY <2>2, <2>3, TimersType DEF Behind
  <2>. QED
    BY <2>2, <2>3 DEF ThreadInv
<1>2. CASE Stop
  <2>1. CASE Joinable(dtor)
    BY <1>2, <2>1 DEF Stop, Stopped, ThreadInv, Behind, TypeOK
  <2>2. CASE ~Joinable(dtor)
    BY <1>2, <2>2, NextThreads DEF Stop, Joinable
  <2>. QED
    BY <2>1, <2>2
<1>3. CASE Join
  BY <1>3, NextThreads DEF Join
<1>4. CASE UNCHANGED vars
  BY <1>4 DEF vars, ThreadInv, Behind
<1>. QED
  BY <1>1, <1>2, <1>3, <1>4, WorkerThreads DEF Next

\* When pit::~pit has ended no thread of a channel runs, and it waits for a
\* thread only after it has cleared the flag the thread tests: no member of
\* the device is destroyed under a thread that uses it.
NoThreadLeft ==
  /\ cpu = "done" => \A c \in Timers : wpc[c] \in {"none", "ended"}
  /\ cpu = "join" => ~running[dtor]

\* The destructor leaves no thread behind, however many channels were used.
THEOREM DestructorSafe == Spec => []NoThreadLeft
<1>1. ThreadInv => NoThreadLeft
  BY DEF ThreadInv, Behind, NoThreadLeft
<1>. QED
  BY <1>1, InitTypes, StepTypes, InitThreads, StepThreads, PTL DEF Spec
================================================================================
