------------------------------- MODULE FddProofs -------------------------------
(***************************************************************************)
(* Proofs about FloppyGeometry and Fdd, for every geometry and image.  The *)
(* arithmetic that the relative seeks rely on comes first.  For every guest*)
(* program: the types, the hand-over through the data register as an       *)
(* implementation of DataChannel, and when a relative seek is exact.  For  *)
(* every well-formed one: no byte is overwritten, a sector's loop ends at  *)
(* its end, the driver knows where its head is, what is written reaches    *)
(* the image and what is read is what the disk holds.                      *)
(***************************************************************************)
EXTENDS Fdd, SequenceTheorems, TLAPS

-----------------------------------------------------------------------------
(* Positions.                                                               *)

\* Multiplication is not linear for the provers: the two facts used of it.
LEMMA DistributePlus ==
  ASSUME NEW a \in Int, NEW b \in Int, NEW n \in Int
  PROVE  (a + b) * n = a * n + b * n
  BY SMTT(20)

LEMMA ProductType ==
  ASSUME NEW a \in Int, NEW n \in Int
  PROVE  a * n \in Int
  OBVIOUS

LEMMA ProductPos ==
  ASSUME NEW a \in Nat, NEW n \in Nat
  PROVE  a * n \in Nat
  BY SMTT(20)

LEMMA Products ==
  ASSUME NEW a \in Int, NEW b \in Int, NEW n \in Nat, a <= b
  PROVE  a * n <= b * n
<1>1. b - a \in Nat
  OBVIOUS
<1>2. (b - a) * n \in Nat
  BY <1>1, ProductPos
<1>3. b * n = (a + (b - a)) * n
  OBVIOUS
<1>4. (a + (b - a)) * n = a * n + (b - a) * n
  BY <1>1, DistributePlus
<1>. QED
  BY <1>2, <1>3, <1>4, ProductType

LEMMA Next1 ==
  ASSUME NEW a \in Int, NEW n \in Int
  PROVE  (a + 1) * n = a * n + n
  BY DistributePlus

\* The last position of the disk.
LastPosition ==
  [track |-> NoTracks - 1, head |-> NoHeads - 1, sector |-> NoSectors,
   progress |-> SectorSz - 1]

\* A position is an offset inside the disk.
THEOREM LinearInDisk ==
  ASSUME NEW p \in Position
  PROVE  Linear(p) \in 0..(DiskSize - 1)
<1>1. /\ p.track \in 0..(NoTracks - 1) /\ p.head \in 0..(NoHeads - 1)
      /\ p.sector \in 1..NoSectors /\ p.progress \in 0..(SectorSz - 1)
      /\ NoTracks \in Nat /\ NoHeads \in Nat /\ NoSectors \in Nat /\ SectorSz \in Nat
  BY GeometryAssumption DEF Position
<1> DEFINE m == p.track * NoHeads + p.head
           k == m * NoSectors + (p.sector - 1)
<1>2. m \in Nat /\ m + 1 <= NoTracks * NoHeads /\ NoTracks * NoHeads \in Nat
  <2>1. p.track * NoHeads \in Nat
    BY <1>1, ProductPos
  <2>2. (p.track + 1) * NoHeads <= NoTracks * NoHeads
    BY <1>1, Products
  <2>3. (p.track + 1) * NoHeads = p.track * NoHeads + NoHeads
    BY <1>1, Next1
  <2>4. NoTracks * NoHeads \in Nat
    BY <1>1, ProductPos
  <2>. QED
    BY <1>1, <2>1, <2>2, <2>3, <2>4
<1> HIDE DEF m
<1>3. /\ k \in Nat /\ k + 1 <= (NoTracks * NoHeads) * NoSectors
      /\ (NoTracks * NoHeads) * NoSectors \in Nat
  <2>1. m * NoSectors \in Nat /\ (NoTracks * NoHeads) * NoSectors \in Nat
    BY <1>1, <1>2, ProductPos
  <2>2. (m + 1) * NoSectors <= (NoTracks * NoHeads) * NoSectors
    BY <1>1, <1>2, Products
  <2>3. (m + 1) * NoSectors = m * NoSectors + NoSectors
    BY <1>1, <1>2, Next1
  <2>. QED
    BY <1>1, <2>1, <2>2, <2>3
<1> HIDE DEF k
<1>4. k * SectorSz \in Nat /\ ((NoTracks * NoHeads) * NoSectors) * SectorSz \in Nat
  BY <1>1, <1>3, ProductPos
<1>5. (k + 1) * SectorSz <= ((NoTracks * NoHeads) * NoSectors) * SectorSz
  BY <1>1, <1>3, Products
<1>6. (k + 1) * SectorSz = k * SectorSz + SectorSz
  BY <1>1, <1>3, Next1
<1>7. DiskSize = ((NoTracks * NoHeads) * NoSectors) * SectorSz
  BY <1>1, SMTT(20) DEF DiskSize
<1>8. Linear(p) = k * SectorSz + p.progress
  BY DEF Linear, k, m
<1>. QED
  BY <1>1, <1>4, <1>5, <1>6, <1>7, <1>8

\* advance_pos moves to the next offset, and from the last position, which no
\* offset follows, to the first.
THEOREM AdvanceIsNextByte ==
  ASSUME NEW p \in Position
  PROVE  /\ AdvancePos(p) \in Position
         /\ Linear(AdvancePos(p)) = IF p = LastPosition THEN 0 ELSE Linear(p) + 1
<1>1. /\ p.track \in 0..(NoTracks - 1) /\ p.head \in 0..(NoHeads - 1)
      /\ p.sector \in 1..NoSectors /\ p.progress \in 0..(SectorSz - 1)
      /\ NoTracks \in Nat \ {0} /\ NoHeads \in Nat \ {0}
      /\ NoSectors \in Nat \ {0} /\ SectorSz \in Nat \ {0}
      /\ p = [track |-> p.track, head |-> p.head, sector |-> p.sector,
              progress |-> p.progress]
  BY GeometryAssumption DEF Position
<1> DEFINE m == p.track * NoHeads + p.head
           k == m * NoSectors + (p.sector - 1)
<1>2. m \in Int /\ k \in Int
  BY <1>1, ProductType
<1>3. Linear(p) = k * SectorSz + p.progress
  BY DEF Linear
<1>4. CASE p.progress < SectorSz - 1
  <2>1. AdvancePos(p) = [p EXCEPT !.progress = p.progress + 1]
    BY <1>4 DEF AdvancePos
  <2>2. Linear(AdvancePos(p)) = k * SectorSz + (p.progress + 1)
    BY <1>1, <2>1 DEF Linear
  <2>3. p # LastPosition
    BY <1>1, <1>4 DEF LastPosition
  <2>. QED
    BY <1>1, <1>2, <1>3, <1>4, <2>1, <2>2, <2>3, ProductType DEF Position
<1>5. CASE p.progress = SectorSz - 1 /\ p.sector < NoSectors
  <2>1. AdvancePos(p) = [p EXCEPT !.progress = 0, !.sector = p.sector + 1]
    BY <1>1, <1>5 DEF AdvancePos
  <2>2. AdvancePos(p).track = p.track /\ AdvancePos(p).head = p.head
        /\ AdvancePos(p).sector = p.sector + 1 /\ AdvancePos(p).progress = 0
    BY <1>1, <2>1
  <2>3. Linear(AdvancePos(p)) = (m * NoSectors + ((p.sector + 1) - 1)) * SectorSz + 0
    BY <2>2 DEF Linear
  <2>4. m * NoSectors + ((p.sector + 1) - 1) = k + 1
    BY <1>1, <1>2, ProductType
  <2>5. (k + 1) * SectorSz = k * SectorSz + SectorSz
    BY <1>1, <1>2, Next1
  <2>6. p # LastPosition
    BY <1>1, <1>5 DEF LastPosition
  <2>7. AdvancePos(p) \in Position
    <3>1. AdvancePos(p)
            = [track |-> p.track, head |-> p.head, sector |-> p.sector + 1, progress |-> 0]
      BY <1>1, <2>1
    <3>2. p.sector + 1 \in 1..NoSectors /\ 0 \in 0..(SectorSz - 1)
      BY <1>1, <1>5
    <3>. QED
      BY <1>1, <3>1, <3>2 DEF Position
  <2>. HIDE DEF k, m
  <2>. QED
    BY <1>1, <1>2, <1>3, <1>5, <2>3, <2>4, <2>5, <2>6, <2>7, ProductType
<1>6. CASE /\ p.progress = SectorSz - 1 /\ p.sector = NoSectors
           /\ p.head < NoHeads - 1
  <2>1. AdvancePos(p) = [p EXCEPT !.progress = 0, !.sector = 1, !.head = p.head + 1]
    BY <1>1, <1>6 DEF AdvancePos
  <2>2. AdvancePos(p).track = p.track /\ AdvancePos(p).head = p.head + 1
        /\ AdvancePos(p).sector = 1 /\ AdvancePos(p).progress = 0
    BY <1>1, <2>1
  <2>3. Linear(AdvancePos(p))
          = ((p.track * NoHeads + (p.head + 1)) * NoSectors + (1 - 1)) * SectorSz + 0
    BY <2>2 DEF Linear
  <2>4. p.track * NoHeads + (p.head + 1) = m + 1
    BY <1>1, ProductType
  <2>5. (m + 1) * NoSectors + (1 - 1) = k + 1
    BY <1>1, <1>2, <1>6, Next1, ProductType
  <2>6. (k + 1) * SectorSz = k * SectorSz + SectorSz
    BY <1>1, <1>2, Next1
  <2>7. p # LastPosition
    BY <1>1, <1>6 DEF LastPosition
  <2>8. AdvancePos(p) \in Position
    <3>1. AdvancePos(p)
            = [track |-> p.track, head |-> p.head + 1, sector |-> 1, progress |-> 0]
      BY <1>1, <2>1
    <3>2. p.head + 1 \in 0..(NoHeads - 1) /\ 1 \in 1..NoSectors
          /\ 0 \in 0..(SectorSz - 1)
      BY <1>1, <1>6
    <3>. QED
      BY <1>1, <3>1, <3>2 DEF Position
  <2>. HIDE DEF k, m
  <2>. QED
    BY <1>1, <1>2, <1>3, <1>6, <2>3, <2>4, <2>5, <2>6, <2>7, <2>8, ProductType
<1>7. CASE /\ p.progress = SectorSz - 1 /\ p.sector = NoSectors
           /\ p.head = NoHeads - 1 /\ p.track < NoTracks - 1
  <2>1. AdvancePos(p) = [track |-> p.track + 1, head |-> 0, sector |-> 1, progress |-> 0]
    BY <1>1, <1>7 DEF AdvancePos
  <2>2. Linear(AdvancePos(p))
          = (((p.track + 1) * NoHeads + 0) * NoSectors + (1 - 1)) * SectorSz + 0
    BY <2>1 DEF Linear
  <2>3. (p.track + 1) * NoHeads + 0 = m + 1
    BY <1>1, <1>7, Next1, ProductType
  <2>4. (m + 1) * NoSectors + (1 - 1) = k + 1
    BY <1>1, <1>2, <1>7, Next1, ProductType
  <2>5. (k + 1) * SectorSz = k * SectorSz + SectorSz
    BY <1>1, <1>2, Next1
  <2>6. p # LastPosition
    BY <1>1, <1>7 DEF LastPosition
  <2>7. AdvancePos(p) \in Position
    BY <1>1, <1>7, <2>1 DEF Position
  <2>. HIDE DEF k, m
  <2>. QED
    BY <1>1, <1>2, <1>3, <1>7, <2>2, <2>3, <2>4, <2>5, <2>6, <2>7, ProductType
<1>8. CASE /\ p.progress = SectorSz - 1 /\ p.sector = NoSectors
           /\ p.head = NoHeads - 1 /\ p.track = NoTracks - 1
  <2>1. AdvancePos(p) = At(0, 0, 1) /\ p = LastPosition
    BY <1>1, <1>8 DEF AdvancePos, LastPosition
  <2>2. Linear(At(0, 0, 1)) = ((0 * NoHeads + 0) * NoSectors + (1 - 1)) * SectorSz + 0
    BY DEF Linear, At
  <2>3. 0 * NoHeads = 0 /\ 0 * NoSectors = 0 /\ 0 * SectorSz = 0
    BY <1>1
  <2>. QED
    BY <1>1, <2>1, <2>2, <2>3 DEF At, Position
<1>. QED
  BY <1>1, <1>4, <1>5, <1>6, <1>7, <1>8

\* The distance seek computes is the one from the start of the sector it is on to
\* the start of the sector it goes to.
THEOREM SeekOffsetIsDistance ==
  ASSUME NEW p, p.track \in Int, p.head \in Int, p.sector \in Int,
         NEW t \in Int, NEW h \in Int, NEW s \in Int
  PROVE  Linear(At(p.track, p.head, p.sector)) + SeekOffset(p, t, h, s)
           = Linear(At(t, h, s))
<1> DEFINE a == p.track  b == p.head  c == p.sector
<1>1. /\ a \in Int /\ b \in Int /\ c \in Int
      /\ NoHeads \in Int /\ NoSectors \in Int /\ SectorSz \in Int
  BY GeometryAssumption
<1>2. /\ Linear(At(a, b, c)) = ((a * NoHeads + b) * NoSectors + (c - 1)) * SectorSz + 0
      /\ Linear(At(t, h, s)) = ((t * NoHeads + h) * NoSectors + (s - 1)) * SectorSz + 0
  BY DEF Linear, At
<1>3. SeekOffset(p, t, h, s)
        = (s - c) * SectorSz + (h - b) * SectorSz * NoSectors
            + (t - a) * SectorSz * NoSectors * NoHeads
  BY DEF SeekOffset
<1> HIDE DEF a, b, c
<1>4. (((a * NoHeads + b) * NoSectors + (c - 1)) * SectorSz + 0)
        + ((s - c) * SectorSz + (h - b) * SectorSz * NoSectors
             + (t - a) * SectorSz * NoSectors * NoHeads)
      = ((t * NoHeads + h) * NoSectors + (s - 1)) * SectorSz + 0
  BY <1>1, SMTT(60)
<1>5. Linear(At(a, b, c)) + SeekOffset(p, t, h, s) = Linear(At(t, h, s))
  BY <1>2, <1>3, <1>4
<1>. QED
  BY <1>5 DEF a, b, c

\* The offset of the last position is the last one.
LEMMA LastOffset == Linear(LastPosition) = DiskSize - 1
<1>1. /\ NoTracks \in Nat \ {0} /\ NoHeads \in Nat \ {0}
      /\ NoSectors \in Nat \ {0} /\ SectorSz \in Nat \ {0}
  BY GeometryAssumption
<1>2. PICK m \in Int : m = (NoTracks - 1) * NoHeads + (NoHeads - 1)
  BY <1>1, ProductType
<1>3. m + 1 = NoTracks * NoHeads
  <2>1. ((NoTracks - 1) + 1) * NoHeads = (NoTracks - 1) * NoHeads + NoHeads
    BY <1>1, Next1
  <2>2. (NoTracks - 1) * NoHeads \in Int /\ (NoTracks - 1) + 1 = NoTracks
    BY <1>1, ProductType
  <2>. QED
    BY <1>1, <1>2, <2>1, <2>2
<1>4. PICK k \in Int : k = m * NoSectors + (NoSectors - 1)
  BY <1>1, ProductType
<1>5. k + 1 = (NoTracks * NoHeads) * NoSectors
  <2>1. (m + 1) * NoSectors = m * NoSectors + NoSectors /\ m * NoSectors \in Int
    BY <1>1, Next1, ProductType
  <2>2. k + 1 = (m + 1) * NoSectors
    BY <1>1, <1>4, <2>1
  <2>. QED
    BY <1>3, <2>2, Zenon
<1>6. (k + 1) * SectorSz = k * SectorSz + SectorSz /\ k * SectorSz \in Int
  BY <1>1, Next1, ProductType
<1>7. DiskSize = ((NoTracks * NoHeads) * NoSectors) * SectorSz
  BY <1>1, SMTT(20) DEF DiskSize
<1>8. DiskSize = k * SectorSz + SectorSz
  BY <1>5, <1>6, <1>7, Zenon
<1>9. Linear(LastPosition) = k * SectorSz + (SectorSz - 1)
  BY <1>2, <1>4, Zenon DEF Linear, LastPosition
<1>. QED
  BY <1>1, <1>6, <1>8, <1>9

\* Before the last offset, advance_pos moves to the next one.
LEMMA AdvanceInside ==
  ASSUME NEW p \in Position, Linear(p) < DiskSize - 1
  PROVE  AdvancePos(p) \in Position /\ Linear(AdvancePos(p)) = Linear(p) + 1
<1>1. p # LastPosition
  <2>1. SUFFICES ASSUME p = LastPosition PROVE FALSE
    OBVIOUS
  <2>2. Linear(p) = DiskSize - 1 /\ Linear(p) \in Int
    BY <2>1, LastOffset, LinearInDisk
  <2>. QED
    BY <2>2
<1>. QED
  BY <1>1, AdvanceIsNextByte

\* The offset of a whole number of sectors is the start of one.
LEMMA SectorStart ==
  ASSUME NEW a \in Int, NEW b \in Int, NEW r \in 0..(SectorSz - 1),
         a * SectorSz + r = b * SectorSz
  PROVE  r = 0
<1>1. SectorSz \in Nat \ {0} /\ a * SectorSz \in Int /\ b * SectorSz \in Int
  BY GeometryAssumption, ProductType
<1>2. CASE a < b
  <2>1. a + 1 \in Int /\ a + 1 <= b
    BY <1>2
  <2>2. (a + 1) * SectorSz <= b * SectorSz
    BY <1>1, <2>1, Products
  <2>3. (a + 1) * SectorSz = a * SectorSz + SectorSz
    BY <1>1, Next1
  <2>. QED
    BY <1>1, <2>2, <2>3
<1>3. CASE b < a
  <2>1. b + 1 \in Int /\ b + 1 <= a
    BY <1>3
  <2>2. (b + 1) * SectorSz <= a * SectorSz
    BY <1>1, <2>1, Products
  <2>3. (b + 1) * SectorSz = b * SectorSz + SectorSz
    BY <1>1, Next1
  <2>. QED
    BY <1>1, <2>2, <2>3
<1>. QED
  BY <1>1, <1>2, <1>3

-----------------------------------------------------------------------------
(* Types of the operators.                                                  *)

LEMMA AdvanceType ==
  ASSUME NEW p \in DrivePosition
  PROVE  AdvancePos(p) \in DrivePosition
<1>1. /\ p.track \in 0..(NoTracks - 1) /\ p.head \in 0..(NoHeads - 1)
      /\ p.sector \in 1..NoSectors /\ p.progress \in Nat
      /\ p = [track |-> p.track, head |-> p.head, sector |-> p.sector,
              progress |-> p.progress]
      /\ NoTracks \in Nat \ {0} /\ NoHeads \in Nat \ {0}
      /\ NoSectors \in Nat \ {0} /\ SectorSz \in Nat \ {0}
  BY GeometryAssumption DEF DrivePosition
<1> DEFINE q == AdvancePos(p)
<1>2. CASE p.progress < SectorSz - 1
  <2>1. q = [track |-> p.track, head |-> p.head, sector |-> p.sector,
             progress |-> p.progress + 1]
    BY <1>1, <1>2 DEF AdvancePos
  <2>. QED
    BY <1>1, <2>1 DEF DrivePosition
<1>3. CASE ~(p.progress < SectorSz - 1) /\ p.sector < NoSectors
  <2>1. q = [track |-> p.track, head |-> p.head, sector |-> p.sector + 1, progress |-> 0]
    BY <1>1, <1>3 DEF AdvancePos
  <2>2. p.sector + 1 \in 1..NoSectors
    BY <1>1, <1>3
  <2>. QED
    BY <1>1, <2>1, <2>2 DEF DrivePosition
<1>4. CASE ~(p.progress < SectorSz - 1) /\ ~(p.sector < NoSectors)
  <2>1. CASE p.head < NoHeads - 1
    <3>1. q = [track |-> p.track, head |-> p.head + 1, sector |-> 1, progress |-> 0]
      BY <1>1, <1>4, <2>1 DEF AdvancePos
    <3>2. p.head + 1 \in 0..(NoHeads - 1) /\ 1 \in 1..NoSectors
      BY <1>1, <2>1
    <3>. QED
      BY <1>1, <3>1, <3>2 DEF DrivePosition
  <2>2. CASE ~(p.head < NoHeads - 1)
    <3>1. \/ /\ q = [track |-> p.track + 1, head |-> 0, sector |-> 1, progress |-> 0]
             /\ p.track + 1 \in 0..(NoTracks - 1)
          \/ q = [track |-> 0, head |-> 0, sector |-> 1, progress |-> 0]
      BY <1>1, <1>4, <2>2 DEF AdvancePos, At
    <3>2. 0 \in 0..(NoTracks - 1) /\ 0 \in 0..(NoHeads - 1) /\ 1 \in 1..NoSectors
      BY <1>1
    <3>. QED
      BY <3>1, <3>2 DEF DrivePosition
  <2>. QED
    BY <2>1, <2>2
<1>. QED
  BY <1>1, <1>2, <1>3, <1>4

LEMMA AtType ==
  ASSUME NEW t, NEW h, NEW s, InRange(t, h, s)
  PROVE  At(t, h, s) \in DrivePosition
BY GeometryAssumption DEF DrivePosition, InRange, At

LEMMA OffsetType ==
  ASSUME NEW p \in DrivePosition, NEW t \in Int, NEW h \in Int, NEW s \in Int
  PROVE  SeekOffset(p, t, h, s) \in Int
<1>1. p.sector \in Int /\ p.head \in Int /\ p.track \in Int
  BY GeometryAssumption DEF DrivePosition
<1>. QED
  BY <1>1, GeometryAssumption DEF SeekOffset

LEMMA WrittenType ==
  ASSUME NEW file \in Seq(Byte), NEW at \in Nat, NEW v \in Byte
  PROVE  Written(file, at, v) \in Seq(Byte)
<1> DEFINE n == IF at < Len(file) THEN Len(file) ELSE at + 1
<1>1. n \in Nat
  OBVIOUS
<1>2. \A i \in 1..Len(file) : file[i] \in Byte
  BY ElementOfSeq
<1>3. Written(file, at, v)
        = [i \in 1..n |-> IF i = at + 1 THEN v ELSE IF i <= Len(file) THEN file[i] ELSE 0]
  BY DEF Written
<1>4. \A i \in 1..n :
        (IF i = at + 1 THEN v ELSE IF i <= Len(file) THEN file[i] ELSE 0) \in Byte
  <2>1. Len(file) \in Nat /\ 0 \in Byte
    BY LenProperties DEF Byte
  <2>. HIDE DEF Byte
  <2>. QED
    BY <1>1, <1>2, <2>1
<1>5. Written(file, at, v) \in [1..n -> Byte]
  BY <1>3, <1>4, Zenon
<1>. QED
  BY <1>1, <1>5, SeqDef

LEMMA ContentsType ==
  ASSUME NEW file \in Seq(Byte)
  PROVE  Contents(file) \in [0..(DiskSize - 1) -> Byte]
<1>1. DiskSize \in Int
  BY GeometryAssumption DEF DiskSize
<1>2. Len(file) \in Nat /\ 0 \in Byte /\ \A i \in 1..Len(file) : file[i] \in Byte
  BY ElementOfSeq, LenProperties DEF Byte
<1>3. \A o \in 0..(DiskSize - 1) :
        (IF o < Len(file) THEN file[o + 1] ELSE 0) \in Byte
  BY <1>1, <1>2
<1>. QED
  BY <1>3 DEF Contents

LEMMA CommandType ==
  ASSUME NEW r \in Request
  PROVE  CommandBytes(r) \in Seq(Byte)
<1>1. /\ r.slot \in Byte /\ r.track \in Byte /\ r.head \in Byte /\ r.sector \in Byte
      /\ r.op \in {"configure", "unknown", "read", "write", "track"}
  BY DEF Request, Byte
<1>2. CASE r.op = "configure"
  BY <1>2 DEF CommandBytes, Byte
<1>3. CASE r.op = "unknown"
  BY <1>3 DEF CommandBytes, Byte
<1>4. CASE r.op \in {"read", "write", "track"}
  <2> DEFINE c == CASE r.op = "read" -> 6 [] r.op = "write" -> 5 [] r.op = "track" -> 2
  <2>1. c \in Byte
    BY <1>4 DEF Byte
  <2>2. CommandBytes(r) = <<c, r.slot, r.track, r.head, r.sector, SizeCode, 18, 0, 255>>
    BY <1>4 DEF CommandBytes
  <2> HIDE DEF c
  <2>. QED
    BY <1>1, <2>1, <2>2 DEF Byte, SizeCode
<1>. QED
  BY <1>1, <1>2, <1>3, <1>4

LEMMA EndType ==
  ASSUME NEW r \in Request, NEW a \in Word
  PROVE  EndAddress(r, a) \in Word
<1>1. RequestSize(r) \in Int
  BY GeometryAssumption DEF RequestSize
<1>2. Half \in Nat \ {0} /\ a \in Int
  BY FddAssumption DEF Word
<1>. QED
  BY <1>1, <1>2 DEF EndAddress, Word

LEMMA StatusBytes ==
  ASSUME NEW p \in DrivePosition
  PROVE  p.track \in Byte /\ p.head \in Byte /\ p.sector \in Byte
<1>1. /\ p.track \in 0..(NoTracks - 1) /\ p.head \in 0..(NoHeads - 1)
      /\ p.sector \in 1..NoSectors
  BY DEF DrivePosition
<1>2. /\ NoTracks \in Nat /\ NoHeads \in Nat /\ NoSectors \in Nat
      /\ NoTracks <= 128 /\ NoHeads <= 2 /\ NoSectors <= 31
  BY GeometryAssumption, FddAssumption
<1>. QED
  BY <1>1, <1>2 DEF Byte

LEMMA StatusByte ==
  ASSUME NEW a \in Byte, NEW b \in Byte, NEW c \in Byte, NEW d \in Byte, NEW i \in 1..7
  PROVE  <<0, 0, 0, a, b, c, d>>[i] \in Byte
BY DEF Byte

LEMMA CommandElements ==
  ASSUME NEW c \in Seq(Byte), Len(c) = 9
  PROVE  \A i \in 1..9 : c[i] \in Byte /\ c[i] \in Nat
<1>1. \A i \in 1..9 : c[i] \in Byte
  BY ElementOfSeq
<1>2. \A v \in Byte : v \in Nat
  BY DEF Byte
<1>. QED
  BY <1>1, <1>2

LEMMA NextRequestType ==
  ASSUME NEW r \in Request
  PROVE  [r EXCEPT !.sector = (@ + 1) % 256, !.count = (@ - 1) % 256] \in Request
<1>1. r.sector \in 0..255 /\ r.count \in 0..255
  BY DEF Request, Byte
<1>2. (r.sector + 1) % 256 \in Byte /\ (r.count - 1) % 256 \in Byte
  BY <1>1 DEF Byte
<1>3. \A v, w \in Byte : [r EXCEPT !.sector = v, !.count = w] \in Request
  BY DEF Request
<1>. QED
  BY <1>2, <1>3

LEMMA StatusRegister ==
  ASSUME NEW m \in [RQM : BOOLEAN, DIO : BOOLEAN, CMD_BSY : BOOLEAN], NEW c
  PROVE  /\ [m EXCEPT !.CMD_BSY = TRUE] \in [RQM : BOOLEAN, DIO : BOOLEAN, CMD_BSY : BOOLEAN]
         /\ [RQM |-> TRUE, DIO |-> c = 5, CMD_BSY |-> TRUE]
              \in [RQM : BOOLEAN, DIO : BOOLEAN, CMD_BSY : BOOLEAN]
OBVIOUS

LEMMA NextWord ==
  ASSUME NEW a \in Word
  PROVE  (a + 1) % (2 * Half) \in Word
BY FddAssumption DEF Word

-----------------------------------------------------------------------------
(* Type correctness needs the length of the command the worker is reading.  *)

CommandInv ==
  /\ wpc = "args" => Len(cmd) \in 1..Arguments(cmd[1])
  /\ wpc \in {"seek", "transfer", "store", "raise"} => Len(cmd) = Arguments(cmd[1]) + 1
  /\ wpc \in {"transfer", "store", "raise"} => cmd[1] # 19

TypeInv == TypeOK /\ CommandInv

LEMMA InitTypes == Init => TypeInv
<1> SUFFICES ASSUME Init PROVE TypeInv
  OBVIOUS
<1>1. pos \in DrivePosition
  BY FddAssumption, GeometryAssumption DEF Init, DrivePosition, At
<1>2. disk \in [0..(DiskSize - 1) -> Byte] /\ image \in Seq(Byte)
  BY FddAssumption, ContentsType DEF Init
<1>3. mem \in [Word -> Byte] /\ bx \in Word /\ di \in Word
  <2>1. \A a \in Word : (128 + a) % 256 \in Byte
    BY DEF Word, Byte
  <2>2. 0 \in Word
    BY FddAssumption DEF Word
  <2>. QED
    BY <2>1, <2>2 DEF Init
<1>4. req \in Request /\ program \in Seq(Request)
  <2>1. 0 \in Word
    BY FddAssumption DEF Word
  <2>2. Idle \in Request
    BY <2>1 DEF Idle, Request, Byte
  <2>. QED
    BY <2>2, FddAssumption DEF Init
<1>5. CommandInv
  BY DEF Init, CommandInv
<1>6. /\ filePos \in Nat /\ eis \in BOOLEAN /\ int \in BOOLEAN /\ intrReq \in BOOLEAN
      /\ msr \in [RQM : BOOLEAN, DIO : BOOLEAN, CMD_BSY : BOOLEAN]
      /\ dreg \in Byte /\ out \in Byte /\ left \in Int
      /\ wpc = "idle" /\ cpc = "next" /\ al = <<>>
  <2>1. 0 \in Byte /\ 0 \in Nat /\ 0 \in Int
    BY DEF Byte
  <2>2. filePos = 0 /\ dreg = 0 /\ out = 0 /\ left = 0
    BY DEF Init
  <2>3. eis = FALSE /\ int = FALSE /\ intrReq = FALSE
        /\ msr = [RQM |-> FALSE, DIO |-> FALSE, CMD_BSY |-> FALSE]
        /\ wpc = "idle" /\ cpc = "next" /\ al = <<>>
    BY DEF Init
  <2>. QED
    BY <2>1, <2>2, <2>3
<1>7. /\ queue \in Seq(Byte) /\ cmd \in Seq(Byte) /\ toSend \in Seq(Byte)
      /\ sent \in Seq(Byte) /\ received \in Seq(Byte)
  BY EmptySeq DEF Init
<1>. QED
  BY <1>1, <1>2, <1>3, <1>4, <1>5, <1>6, <1>7 DEF TypeInv, TypeOK

LEMMA WorkerTypes == TypeInv /\ Worker => TypeInv'
<1> SUFFICES ASSUME TypeInv, Worker PROVE TypeInv'
  OBVIOUS
<1> USE DEF TypeInv, TypeOK, CommandInv, worker, cpu
<1>1. CASE DequeueCommand
  <2> DEFINE c == Head(queue)
  <2>1. c \in Byte /\ queue' \in Seq(Byte)
    BY <1>1, HeadTailProperties DEF DequeueCommand
  <2>2. CASE c \notin Commands
    <3>1. dreg' \in Byte
      BY <1>1, <2>2 DEF DequeueCommand, Byte
    <3>. QED
      BY <1>1, <2>1, <2>2, <3>1 DEF DequeueCommand
  <2>3. CASE c \in Commands
    <3>1. msr' \in [RQM : BOOLEAN, DIO : BOOLEAN, CMD_BSY : BOOLEAN]
      <4>1. \/ msr' = [msr EXCEPT !.CMD_BSY = TRUE]
            \/ msr' = [RQM |-> TRUE, DIO |-> (c = 5), CMD_BSY |-> TRUE]
        BY <1>1, <2>3, Zenon DEF DequeueCommand
      <4>2. msr \in [RQM : BOOLEAN, DIO : BOOLEAN, CMD_BSY : BOOLEAN]
        BY Zenon
      <4>. HIDE DEF TypeInv, TypeOK, CommandInv, c
      <4>3. [msr EXCEPT !.CMD_BSY = TRUE] \in [RQM : BOOLEAN, DIO : BOOLEAN, CMD_BSY : BOOLEAN]
            /\ [RQM |-> TRUE, DIO |-> c = 5, CMD_BSY |-> TRUE]
                 \in [RQM : BOOLEAN, DIO : BOOLEAN, CMD_BSY : BOOLEAN]
        BY <4>2, StatusRegister, Zenon
      <4>. QED
        BY <4>1, <4>3, Zenon
    <3>2. /\ cmd' = <<c>> /\ wpc' = "args"
          /\ UNCHANGED <<dreg, left, out, image, filePos, pos, eis, intrReq, int, sent,
                         received, cpu>>
      BY <1>1, <2>3 DEF DequeueCommand
    <3>3. cmd' \in Seq(Byte) /\ Len(cmd') = 1 /\ 1 \in 1..Arguments(cmd'[1])
      BY <2>1, <3>2 DEF Arguments
    <3>. QED
      BY <2>1, <3>1, <3>2, <3>3
  <2>. QED
    BY <2>2, <2>3
<1>2. CASE DequeueArgument
  <2>1. Head(queue) \in Byte /\ queue' \in Seq(Byte) /\ Len(cmd) \in 1..Arguments(cmd[1])
    BY <1>2, HeadTailProperties DEF DequeueArgument
  <2>2. /\ cmd' \in Seq(Byte) /\ Len(cmd') = Len(cmd) + 1 /\ cmd'[1] = cmd[1]
    BY <1>2, <2>1 DEF DequeueArgument
  <2>3. /\ wpc' = "args" => Len(cmd') \in 1..Arguments(cmd'[1])
        /\ wpc' = "seek" => Len(cmd') = Arguments(cmd'[1]) + 1
        /\ wpc' \in {"args", "seek"}
    <3>1. Arguments(cmd[1]) \in Nat /\ Len(cmd) \in Nat
      BY LenProperties DEF Arguments
    <3>2. wpc' = IF Len(cmd) = Arguments(cmd[1]) THEN "seek" ELSE "args"
      BY <1>2 DEF DequeueArgument
    <3>. QED
      BY <2>1, <2>2, <3>1, <3>2
  <2>. QED
    BY <1>2, <2>1, <2>2, <2>3 DEF DequeueArgument
<1>3. CASE Configure
  BY <1>3 DEF Configure
<1>4. CASE Seek
  <2>1. Len(cmd) = 9 /\ cmd[1] # 19
    BY <1>4 DEF Seek, Arguments
  <2>2. left' \in Int
    <3>1. 2^cmd[6] \in Int
      <4>1. cmd[6] \in Nat
        BY <2>1, CommandElements
      <4>. QED
        BY <4>1
    <3>. HIDE DEF TypeInv
    <3>. QED
      BY <1>4, <3>1, GeometryAssumption, FddAssumption DEF Seek, TransferSize
  <2>3. pos' \in DrivePosition /\ filePos' \in Nat
    <3>1. CASE UNCHANGED <<pos, filePos>>
      BY <3>1
    <3>2. CASE /\ InRange(cmd[3], cmd[4], TargetSector)
               /\ pos' = At(cmd[3], cmd[4], TargetSector)
               /\ filePos' = MovedBy(SeekOffset(pos, cmd[3], cmd[4], TargetSector))
      <4>1. cmd[3] \in Int /\ cmd[4] \in Int /\ TargetSector \in Int
        <5>1. cmd[3] \in Nat /\ cmd[4] \in Nat /\ cmd[5] \in Nat
          BY <2>1, CommandElements
        <5>. QED
          BY <5>1 DEF TargetSector
      <4>2. SeekOffset(pos, cmd[3], cmd[4], TargetSector) \in Int
        BY <4>1, OffsetType
      <4>. QED
        BY <3>2, <4>2, AtType DEF MovedBy
    <3>. QED
      BY <1>4, <3>1, <3>2 DEF Seek
  <2>4. /\ wpc' \in {"transfer", "exit"}
        /\ UNCHANGED <<cmd, out, image, eis, msr, intrReq, int, dreg, queue, sent,
                       received, cpu>>
    BY <1>4 DEF Seek
  <2>. QED
    BY <2>1, <2>2, <2>3, <2>4 DEF Arguments
<1>5. CASE NotReady
  BY <1>5 DEF NotReady
<1>6. CASE ReadFromDrive
  <2>1. out' \in Byte /\ filePos' \in Nat
    <3>1. 0 \in Byte /\ (filePos < Len(image) => image[filePos + 1] \in Byte)
      <4>1. filePos < Len(image) => filePos + 1 \in 1..Len(image)
        BY LenProperties
      <4>. QED
        BY <4>1, ElementOfSeq DEF Byte
    <3>. QED
      BY <1>6, <3>1 DEF ReadFromDrive
  <2>2. pos' \in DrivePosition
    BY <1>6, AdvanceType DEF ReadFromDrive
  <2>3. /\ wpc = "transfer" /\ wpc' = "store"
        /\ UNCHANGED <<cmd, left, image, eis, msr, intrReq, int, dreg, queue, sent,
                       received, cpu>>
    BY <1>6 DEF ReadFromDrive
  <2>. QED
    BY <2>1, <2>2, <2>3
<1>7. CASE WriteToDrive
  <2>1. Head(queue) \in Byte /\ queue' \in Seq(Byte)
    BY <1>7, HeadTailProperties DEF WriteToDrive
  <2>2. image' \in Seq(Byte)
    BY <1>7, <2>1, WrittenType DEF WriteToDrive
  <2>3. pos' \in DrivePosition
    BY <1>7, AdvanceType DEF WriteToDrive
  <2>4. /\ filePos' = filePos + 1 /\ intrReq' = TRUE /\ left' = left - 1
        /\ UNCHANGED <<wpc, cmd, out, eis, msr, int, dreg, sent, received, cpu>>
    BY <1>7 DEF WriteToDrive
  <2>. QED
    BY <2>1, <2>2, <2>3, <2>4
<1>8. CASE SendStatus
  <2>1. cmd[6] \in Byte
    <3>1. Len(cmd) = 9
      BY <1>8 DEF SendStatus, Arguments
    <3>. QED
      BY <3>1, CommandElements
  <2>2. pos.track \in Byte /\ pos.head \in Byte /\ pos.sector \in Byte
    BY StatusBytes
  <2>3. 1 - left \in 1..7
    BY <1>8 DEF SendStatus, NoStatus
  <2>4. out' \in Byte
    <3>2. out' = <<0, 0, 0, pos.track, pos.head, pos.sector, cmd[6]>>[1 - left]
      BY <1>8 DEF SendStatus
    <3>. QED
      BY <2>1, <2>2, <2>3, <3>2, StatusByte
  <2>5. /\ wpc = "transfer" /\ wpc' = "store"
        /\ UNCHANGED <<cmd, left, image, filePos, pos, eis, msr, intrReq, int, dreg,
                       queue, sent, received, cpu>>
    BY <1>8 DEF SendStatus
  <2>. QED
    BY <2>4, <2>5
<1>9. CASE StoreData
  BY <1>9 DEF StoreData
<1>10. CASE RaiseInt
  BY <1>10 DEF RaiseInt
<1>11. CASE EndCommand
  BY <1>11 DEF EndCommand
<1>. QED
  BY <1>1, <1>2, <1>3, <1>4, <1>5, <1>6, <1>7, <1>8, <1>9, <1>10, <1>11 DEF Worker

LEMMA CpuTypes == TypeInv /\ Cpu => TypeInv'
<1> SUFFICES ASSUME TypeInv, Cpu PROVE TypeInv'
  OBVIOUS
<1> USE DEF TypeInv, TypeOK, CommandInv, worker, cpu
<1>1. CASE StartRequest
  <2>1. req' \in Request /\ program' \in Seq(Request)
    BY <1>1, HeadTailProperties DEF StartRequest
  <2>2. toSend' \in Seq(Byte) /\ bx' \in Word /\ di' \in Word
    <3>1. req'.addr \in Word
      BY <2>1 DEF Request
    <3>. QED
      BY <1>1, <2>1, <3>1, CommandType, EndType DEF StartRequest
  <2>3. cpc' = "send"
        /\ UNCHANGED <<al, mem, disk, worker, int, dreg, queue, sent, received>>
    BY <1>1 DEF StartRequest
  <2>. QED
    BY <2>1, <2>2, <2>3
<1>2. CASE SendByte
  BY <1>2 DEF SendByte
<1>3. CASE BusyWait
  BY <1>3 DEF BusyWait
<1>4. CASE WriteByte
  <2>1. queue' \in Seq(Byte)
    BY <1>4 DEF WriteByte
  <2>2. bx' \in Word
    BY <1>4, NextWord DEF WriteByte
  <2>3. disk' \in [0..(DiskSize - 1) -> Byte]
    <3>1. mem[bx] \in Byte
      OBVIOUS
    <3>2. \A o, v : v \in Byte => [disk EXCEPT ![o] = v] \in [0..(DiskSize - 1) -> Byte]
      OBVIOUS
    <3>. QED
      BY <1>4, <3>1, <3>2 DEF WriteByte
  <2>4. /\ cpc' \in {"write", "status"} /\ toSend' = <<>>
        /\ UNCHANGED <<program, req, al, di, mem, worker, int, dreg, sent, received>>
    BY <1>4 DEF WriteByte
  <2>. QED
    BY <2>1, <2>2, <2>3, <2>4, EmptySeq
<1>5. CASE LoadData
  BY <1>5 DEF LoadData
<1>6. CASE ClearInt
  <2>1. al[1] \in Byte /\ received' \in Seq(Byte) /\ int' = FALSE /\ al' = <<>>
        /\ UNCHANGED <<disk, worker, dreg, queue, sent>>
    BY <1>6 DEF ClearInt
  <2>2. CASE cpc = "read"
    <3>1. mem' \in [Word -> Byte] /\ bx' \in Word
      BY <1>6, <2>1, <2>2, NextWord DEF ClearInt, StoreByte
    <3>2. cpc' \in {"read", "status"} /\ UNCHANGED <<program, req, toSend, di>>
      BY <1>6, <2>2 DEF ClearInt, StoreByte
    <3>3. TypeOK'
      <4>1. /\ image' \in Seq(Byte) /\ filePos' \in Nat /\ pos' \in DrivePosition
            /\ eis' \in BOOLEAN /\ cmd' \in Seq(Byte) /\ left' \in Int /\ out' \in Byte
            /\ msr' \in [RQM : BOOLEAN, DIO : BOOLEAN, CMD_BSY : BOOLEAN]
            /\ wpc' \in {"idle", "args", "seek", "transfer", "store", "raise", "exit"}
            /\ intrReq' \in BOOLEAN
        BY <2>1
      <4>2. /\ int' \in BOOLEAN /\ dreg' \in Byte /\ queue' \in Seq(Byte)
            /\ al' \in {<<>>} \cup {<<v>> : v \in Byte}
            /\ disk' \in [0..(DiskSize - 1) -> Byte]
            /\ sent' \in Seq(Byte) /\ received' \in Seq(Byte)
        BY <2>1
      <4>3. /\ di' \in Word /\ toSend' \in Seq(Byte)
            /\ cpc' \in {"next", "send", "busy", "read", "write", "status"}
            /\ program' \in Seq(Request) /\ req' \in Request
        BY <3>2
      <4>. QED
        BY <3>1, <4>1, <4>2, <4>3, Zenon
    <3>. QED
      BY <2>1, <3>3
  <2>3. CASE cpc # "read" /\ Len(toSend) + 1 < NoStatus
    <3>1. toSend' \in Seq(Byte)
      <4>1. toSend' = Append(toSend, al[1])
        BY <1>6, <2>3 DEF ClearInt, NextSector
      <4>. QED
        BY <2>1, <4>1
    <3>2. UNCHANGED <<mem, cpc, program, req, bx, di>>
      BY <1>6, <2>3 DEF ClearInt, NextSector
    <3>3. CommandInv'
      BY <2>1
    <3>4. TypeOK'
      <4>1. /\ image' \in Seq(Byte) /\ filePos' \in Nat /\ pos' \in DrivePosition
            /\ eis' \in BOOLEAN /\ cmd' \in Seq(Byte) /\ left' \in Int /\ out' \in Byte
            /\ msr' \in [RQM : BOOLEAN, DIO : BOOLEAN, CMD_BSY : BOOLEAN]
            /\ wpc' \in {"idle", "args", "seek", "transfer", "store", "raise", "exit"}
            /\ intrReq' \in BOOLEAN
        BY <2>1
      <4>2. /\ int' \in BOOLEAN /\ dreg' \in Byte /\ queue' \in Seq(Byte)
            /\ al' \in {<<>>} \cup {<<v>> : v \in Byte}
            /\ disk' \in [0..(DiskSize - 1) -> Byte]
            /\ sent' \in Seq(Byte) /\ received' \in Seq(Byte)
        BY <2>1
      <4>3. /\ mem' \in [Word -> Byte] /\ bx' \in Word /\ di' \in Word
            /\ cpc' \in {"next", "send", "busy", "read", "write", "status"}
            /\ program' \in Seq(Request) /\ req' \in Request
        BY <3>2
      <4>. QED
        BY <3>1, <4>1, <4>2, <4>3, Zenon
    <3>. QED
      BY <3>3, <3>4
  <2>4. CASE cpc # "read" /\ ~(Len(toSend) + 1 < NoStatus)
    <3> DEFINE r == [req EXCEPT !.sector = (@ + 1) % 256, !.count = (@ - 1) % 256]
    <3>1. r \in Request
      BY NextRequestType
    <3>2. /\ req' = r /\ di' = EndAddress(r, bx) /\ UNCHANGED <<mem, program, bx>>
          /\ toSend' = IF r.count = 0 THEN <<>> ELSE CommandBytes(r)
          /\ cpc' \in {"next", "send"}
      BY <1>6, <2>4 DEF ClearInt, NextSector
    <3> HIDE DEF r
    <3>3. toSend' \in Seq(Byte) /\ di' \in Word
      BY <3>1, <3>2, CommandType, EndType, EmptySeq
    <3>4. TypeOK'
      <4>1. /\ image' \in Seq(Byte) /\ filePos' \in Nat /\ pos' \in DrivePosition
            /\ eis' \in BOOLEAN /\ cmd' \in Seq(Byte) /\ left' \in Int /\ out' \in Byte
            /\ msr' \in [RQM : BOOLEAN, DIO : BOOLEAN, CMD_BSY : BOOLEAN]
            /\ wpc' \in {"idle", "args", "seek", "transfer", "store", "raise", "exit"}
            /\ intrReq' \in BOOLEAN
        BY <2>1
      <4>2. /\ int' \in BOOLEAN /\ dreg' \in Byte /\ queue' \in Seq(Byte)
            /\ al' \in {<<>>} \cup {<<v>> : v \in Byte}
            /\ disk' \in [0..(DiskSize - 1) -> Byte]
            /\ sent' \in Seq(Byte) /\ received' \in Seq(Byte)
        BY <2>1
      <4>3. /\ mem' \in [Word -> Byte] /\ bx' \in Word /\ program' \in Seq(Request)
            /\ cpc' \in {"next", "send", "busy", "read", "write", "status"}
            /\ req' \in Request
        BY <3>1, <3>2
      <4>. QED
        BY <3>3, <4>1, <4>2, <4>3, Zenon
    <3>. QED
      BY <2>1, <3>4
  <2>. QED
    BY <2>2, <2>3, <2>4
<1>. QED
  BY <1>1, <1>2, <1>3, <1>4, <1>5, <1>6 DEF Cpu

\* Every variable keeps its type, and the worker reads exactly the bytes of the
\* command it has dequeued before it executes it.
THEOREM FddTypes == Spec => []TypeOK
<1>1. TypeInv /\ [Next]_vars => TypeInv'
  <2> SUFFICES ASSUME TypeInv, [Next]_vars PROVE TypeInv'
    OBVIOUS
  <2>1. CASE UNCHANGED vars
    BY <2>1 DEF TypeInv, TypeOK, CommandInv, vars, worker, cpu
  <2>. QED
    BY <2>1, WorkerTypes, CpuTypes DEF Next
<1>2. TypeInv => TypeOK
  BY DEF TypeInv
<1>. QED
  BY <1>1, <1>2, InitTypes, PTL DEF Spec

-----------------------------------------------------------------------------
(* The data register implements a one-place channel.                        *)

\* While INT is set the register holds the one byte that was sent and not
\* received; the CPU's copy is that byte, and the worker has stored the byte it
\* is about to announce.
HandInv ==
  /\ IF int THEN sent = Append(received, dreg) ELSE sent = received
  /\ al # <<>> => int /\ al = <<dreg>>
  /\ wpc = "raise" => ~int /\ dreg = out

LEMMA InitHand == Init => HandInv /\ Channel!Init
<1> SUFFICES ASSUME Init PROVE HandInv /\ Channel!Init
  OBVIOUS
<1>1. int = FALSE /\ sent = <<>> /\ received = <<>> /\ al = <<>> /\ wpc = "idle"
  BY DEF Init
<1>. QED
  BY <1>1 DEF HandInv, Channel!Init

LEMMA WorkerHand ==
  ASSUME TypeInv, HandInv, NothingOverwritten, Worker
  PROVE  HandInv' /\ [Channel!Next]_<<sent, received>>
<1>1. CASE DequeueCommand
  <2>1. Head(queue) \notin Commands => ~int
    BY <1>1 DEF DequeueCommand, NothingOverwritten
  <2>2. UNCHANGED <<int, sent, received, al>> /\ wpc' # "raise"
        /\ (Head(queue) \in Commands => dreg' = dreg)
    BY <1>1 DEF DequeueCommand, cpu, worker
  <2>. QED
    BY <2>1, <2>2 DEF HandInv
<1>2. CASE RaiseInt
  <2>1. /\ int' = TRUE /\ sent' = Append(sent, out) /\ wpc = "raise"
        /\ UNCHANGED <<received, dreg, out, al>> /\ wpc' = "transfer"
    BY <1>2 DEF RaiseInt, cpu
  <2>2. ~int /\ dreg = out /\ sent = received /\ al = <<>>
    BY <2>1 DEF HandInv
  <2>3. HandInv'
    BY <2>1, <2>2 DEF HandInv
  <2>4. Channel!Put
    BY <2>1, <2>2 DEF Channel!Put, TypeInv, TypeOK
  <2>. QED
    BY <2>3, <2>4 DEF Channel!Next
<1>3. CASE StoreData
  <2>1. /\ ~int /\ dreg' = out /\ UNCHANGED <<out, int, sent, received, al>>
    BY <1>3 DEF StoreData, MayStore, cpu
  <2>. QED
    BY <2>1 DEF HandInv
<1>4. CASE \/ DequeueArgument \/ Configure \/ Seek \/ NotReady
           \/ ReadFromDrive \/ WriteToDrive \/ SendStatus \/ EndCommand
  <2>1. UNCHANGED <<int, dreg, sent, received, al>> /\ wpc' # "raise"
    BY <1>4 DEF DequeueArgument, Configure, Seek, NotReady, ReadFromDrive, WriteToDrive,
                SendStatus, EndCommand, cpu
  <2>. QED
    BY <2>1 DEF HandInv
<1>. QED
  BY <1>1, <1>2, <1>3, <1>4 DEF Worker

LEMMA CpuHand ==
  ASSUME TypeInv, HandInv, Cpu
  PROVE  HandInv' /\ [Channel!Next]_<<sent, received>>
<1>1. CASE LoadData
  <2>1. int /\ al' = <<dreg>> /\ UNCHANGED <<int, dreg, sent, received, wpc, out>>
    BY <1>1 DEF LoadData, worker
  <2>. QED
    BY <2>1 DEF HandInv
<1>2. CASE ClearInt
  <2>1. /\ al # <<>> /\ int' = FALSE /\ received' = Append(received, al[1]) /\ al' = <<>>
        /\ UNCHANGED <<dreg, sent, wpc, out>>
    BY <1>2 DEF ClearInt, worker
  <2>2. int /\ al[1] = dreg /\ sent = Append(received, dreg)
    BY <2>1 DEF HandInv
  <2>3. HandInv'
    BY <2>1, <2>2 DEF HandInv
  <2>4. Channel!Get
    <3>1. received \in Seq(Byte) /\ dreg \in Byte
      BY DEF TypeInv, TypeOK
    <3>2. Len(sent) = Len(received) + 1 /\ sent[Len(received) + 1] = dreg
      BY <2>2, <3>1
    <3>3. Len(received) \in Nat
      BY <3>1, LenProperties
    <3>. QED
      BY <2>1, <2>2, <3>2, <3>3 DEF Channel!Get
  <2>. QED
    BY <2>3, <2>4 DEF Channel!Next
<1>3. CASE StartRequest \/ SendByte \/ BusyWait \/ WriteByte
  <2>1. UNCHANGED <<int, dreg, sent, received, al, wpc, out>>
    BY <1>3 DEF StartRequest, SendByte, BusyWait, WriteByte, worker
  <2>. QED
    BY <2>1 DEF HandInv
<1>. QED
  BY <1>1, <1>2, <1>3 DEF Cpu

\* As long as no unknown command reaches the worker while a byte waits to be read,
\* every byte the worker hands over is received once and in order: write_datareg
\* and read_datareg implement DataChannel.
THEOREM HandOffImplemented == Spec /\ []NothingOverwritten => HandOff
<1>1. TypeInv /\ HandInv /\ NothingOverwritten /\ [Next]_vars
        => (TypeInv /\ HandInv)' /\ [Channel!Next]_<<sent, received>>
  <2> SUFFICES ASSUME TypeInv, HandInv, NothingOverwritten, [Next]_vars
               PROVE  (TypeInv /\ HandInv)' /\ [Channel!Next]_<<sent, received>>
    OBVIOUS
  <2>1. CASE UNCHANGED vars
    BY <2>1 DEF TypeInv, TypeOK, CommandInv, HandInv, vars, worker, cpu
  <2>. QED
    BY <2>1, WorkerTypes, CpuTypes, WorkerHand, CpuHand DEF Next
<1>. QED
  BY <1>1, InitTypes, InitHand, PTL DEF Spec, HandOff, Channel!Spec

-----------------------------------------------------------------------------
(* When the relative seek is exact.                                         *)

\* From the start of a command to its seek the drive does not move.
SeekInv ==
  wpc \in {"idle", "args", "seek"} /\ eis
    => filePos = Linear(At(pos.track, pos.head, pos.sector))

LEMMA SeekInvStep ==
  ASSUME TypeInv, SeekInv, PositionTracksFile', [Next]_vars
  PROVE  SeekInv'
<1>1. CASE Configure \/ EndCommand
  <2>1. wpc' = "idle"
    BY <1>1 DEF Configure, EndCommand
  <2>. QED
    BY <2>1 DEF SeekInv, PositionTracksFile
<1>2. CASE DequeueCommand \/ DequeueArgument
  <2>1. wpc \in {"idle", "args", "seek"} /\ UNCHANGED <<eis, filePos, pos>>
    BY <1>2 DEF DequeueCommand, DequeueArgument, worker
  <2>. QED
    BY <2>1 DEF SeekInv
<1>3. CASE \/ Seek \/ NotReady \/ ReadFromDrive \/ WriteToDrive \/ SendStatus
           \/ StoreData \/ RaiseInt
  <2>1. wpc' \in {"transfer", "exit", "store", "raise"}
    BY <1>3 DEF Seek, NotReady, ReadFromDrive, WriteToDrive, SendStatus, StoreData, RaiseInt
  <2>. QED
    BY <2>1 DEF SeekInv
<1>4. CASE Cpu \/ UNCHANGED vars
  <2>1. UNCHANGED <<wpc, eis, filePos, pos>>
    BY <1>4 DEF Cpu, StartRequest, SendByte, BusyWait, WriteByte, LoadData, ClearInt,
                vars, worker
  <2>. QED
    BY <2>1 DEF SeekInv
<1>. QED
  BY <1>1, <1>2, <1>3, <1>4 DEF Next, Worker

LEMMA SeekStep ==
  ASSUME TypeInv, SeekInv, [Next]_vars, wpc = "seek", wpc' = "transfer", eis
  PROVE  filePos' = Linear(pos')
<1>1. Seek
  BY DEF Next, Worker, Cpu, DequeueCommand, DequeueArgument, Configure, NotReady,
         ReadFromDrive, WriteToDrive, SendStatus, StoreData, RaiseInt, EndCommand,
         StartRequest, SendByte, BusyWait, WriteByte, LoadData, ClearInt, vars, worker
<1>2. /\ InRange(cmd[3], cmd[4], TargetSector)
      /\ pos' = At(cmd[3], cmd[4], TargetSector)
      /\ filePos' = MovedBy(SeekOffset(pos, cmd[3], cmd[4], TargetSector))
  BY <1>1 DEF Seek
<1>3. /\ cmd[3] \in Int /\ cmd[4] \in Int /\ TargetSector \in Int
      /\ pos' \in Position
  BY <1>2, GeometryAssumption DEF InRange, At, Position
<1>4. pos.track \in Int /\ pos.head \in Int /\ pos.sector \in Int
  BY GeometryAssumption DEF TypeInv, TypeOK, DrivePosition
<1>5. filePos + SeekOffset(pos, cmd[3], cmd[4], TargetSector) = Linear(pos')
  BY <1>2, <1>3, <1>4, SeekOffsetIsDistance DEF SeekInv
<1>6. Linear(pos') >= 0
  BY <1>3, LinearInDisk, GeometryAssumption DEF DiskSize
<1>. QED
  BY <1>2, <1>5, <1>6 DEF MovedBy

\* seek moves the file to the sector it is asked for, whatever the geometry and
\* the program, provided that every command leaves the file where the driver
\* believes it to be (which the wrap at the last byte, or a short image, breaks).
THEOREM SeekExact == Spec /\ []PositionTracksFile => SeekReachesPosition
<1>1. Init /\ PositionTracksFile => SeekInv
  <2> SUFFICES ASSUME Init PROVE ~eis
    BY DEF SeekInv
  <2>. QED
    BY DEF Init
<1>2. TypeInv /\ SeekInv /\ PositionTracksFile' /\ [Next]_vars => (TypeInv /\ SeekInv)'
  <2> SUFFICES ASSUME TypeInv, SeekInv, PositionTracksFile', [Next]_vars
               PROVE  (TypeInv /\ SeekInv)'
    OBVIOUS
  <2>1. CASE UNCHANGED vars
    BY <2>1, SeekInvStep DEF TypeInv, TypeOK, CommandInv, vars, worker, cpu
  <2>. QED
    BY <2>1, WorkerTypes, CpuTypes, SeekInvStep DEF Next
<1>3. TypeInv /\ SeekInv /\ [Next]_vars
        => [wpc = "seek" /\ wpc' = "transfer" /\ eis => filePos' = Linear(pos')]_vars
  BY SeekStep
<1>. QED
  BY <1>1, <1>2, <1>3, InitTypes, PTL DEF Spec, SeekReachesPosition

-----------------------------------------------------------------------------
(* Commands without an answer.  The guest may send them ahead of the        *)
(* worker, so that several stand in the queue.                              *)

\* The guest is assumed to have the worker seek.
Seeking == SeeksImplied(Programs)

\* s is a row of whole commands without an answer; lab[i] is the place of the
\* i-th byte in its command.
LabelsWhole(s, lab) ==
  /\ lab \in [1..(Len(s) + 1) -> 0..3]
  /\ lab[1] = 0 /\ lab[Len(s) + 1] = 0
  /\ \A i \in 1..Len(s) :
       \/ lab[i] = 0 /\ s[i] \notin Commands /\ lab[i + 1] = 0
       \/ lab[i] = 0 /\ s[i] = 19 /\ lab[i + 1] = 1
       \/ lab[i] = 1 /\ lab[i + 1] = 2
       \/ lab[i] = 2 /\ lab[i + 1] = 3 /\ (Seeking => s[i] = 64)
       \/ lab[i] = 3 /\ lab[i + 1] = 0
Whole(s) == \E lab : LabelsWhole(s, lab)

LEMMA WholeEmpty == Whole(<<>>)
<1>1. LabelsWhole(<<>>, [i \in 1..1 |-> 0])
  BY DEF LabelsWhole
<1>. QED
  BY <1>1 DEF Whole

\* The rest of such a row, from the start of a command.
LEMMA WholeRest ==
  ASSUME NEW s \in Seq(Byte), NEW lab, LabelsWhole(s, lab),
         NEW n \in 0..Len(s), lab[n + 1] = 0
  PROVE  Whole(SubSeq(s, n + 1, Len(s)))
<1> DEFINE t == SubSeq(s, n + 1, Len(s))
           l == [i \in 1..(Len(t) + 1) |-> lab[n + i]]
<1>1. Len(s) \in Nat /\ \A i \in 1..Len(s) : s[i] \in Byte
  BY LenProperties, ElementOfSeq
<1>2. /\ Len(t) = Len(s) - n
      /\ \A i \in 1..(Len(s) - n) : t[i] = s[n + i]
  BY <1>1, SubSeqProperties
<1>3. Len(t) \in Nat /\ \A i \in 1..(Len(t) + 1) : n + i \in 1..(Len(s) + 1)
  <2> HIDE DEF t
  <2>1. Len(t) \in Nat /\ n + (Len(t) + 1) = Len(s) + 1
    BY <1>1, <1>2
  <2>. QED
    BY <1>1, <2>1
<1>4. l \in [1..(Len(t) + 1) -> 0..3]
  BY <1>3 DEF LabelsWhole
<1>5. l[1] = 0 /\ l[Len(t) + 1] = 0
  <2>1. n + (Len(t) + 1) = Len(s) + 1 /\ lab[Len(s) + 1] = 0
    BY <1>1, <1>2 DEF LabelsWhole
  <2>2. 1 \in 1..(Len(t) + 1) /\ Len(t) + 1 \in 1..(Len(t) + 1)
    BY <1>3
  <2>3. l[1] = lab[n + 1] /\ l[Len(t) + 1] = lab[n + (Len(t) + 1)]
    BY <2>2
  <2>. QED
    BY <2>1, <2>3
<1>6. ASSUME NEW i \in 1..Len(t)
      PROVE  /\ l[i] = lab[n + i] /\ l[i + 1] = lab[(n + i) + 1] /\ t[i] = s[n + i]
             /\ n + i \in 1..Len(s)
  <2>1. i \in 1..(Len(t) + 1) /\ i + 1 \in 1..(Len(t) + 1) /\ n + (i + 1) = (n + i) + 1
    BY <1>3
  <2>2. l[i] = lab[n + i] /\ l[i + 1] = lab[n + (i + 1)]
    BY <2>1
  <2>3. t[i] = s[n + i] /\ n + i \in 1..Len(s)
    BY <1>1, <1>2
  <2>. QED
    BY <2>1, <2>2, <2>3
<1>7. \A i \in 1..Len(t) :
        \/ l[i] = 0 /\ t[i] \notin Commands /\ l[i + 1] = 0
        \/ l[i] = 0 /\ t[i] = 19 /\ l[i + 1] = 1
        \/ l[i] = 1 /\ l[i + 1] = 2
        \/ l[i] = 2 /\ l[i + 1] = 3 /\ (Seeking => t[i] = 64)
        \/ l[i] = 3 /\ l[i + 1] = 0
  <2> TAKE i \in 1..Len(t)
  <2> HIDE DEF l, t
  <2>1. PICK k \in 1..Len(s) :
          k = n + i /\ l[i] = lab[k] /\ l[i + 1] = lab[k + 1] /\ t[i] = s[k]
    BY <1>6
  <2>. QED
    BY <2>1 DEF LabelsWhole
<1>8. LabelsWhole(t, l)
  <2> HIDE DEF l, t
  <2>. QED
    BY <1>4, <1>5, <1>7 DEF LabelsWhole
<1>. QED
  BY <1>8 DEF Whole

LEMMA WholeUnknown ==
  ASSUME NEW s \in Seq(Byte), Whole(s), s # <<>>, Head(s) \notin Commands
  PROVE  Whole(Tail(s))
<1>1. PICK lab : LabelsWhole(s, lab)
  BY DEF Whole
<1>2. Len(s) \in Nat \ {0} /\ Head(s) = s[1]
  BY EmptySeq
<1>3. lab[2] = 0
  <2>1. lab[1] = 0 /\ 1 \in 1..Len(s) /\ s[1] # 19
    BY <1>1, <1>2 DEF LabelsWhole, Commands
  <2>. QED
    BY <1>1, <2>1 DEF LabelsWhole
<1>4. 1 \in 0..Len(s) /\ lab[1 + 1] = 0
  BY <1>2, <1>3
<1>5. Whole(SubSeq(s, 1 + 1, Len(s)))
  BY <1>1, <1>4, WholeRest
<1>6. Tail(s) = SubSeq(s, 1 + 1, Len(s))
  BY TailIsSubSeq
<1>. QED
  BY <1>5, <1>6

LEMMA WholeKnown ==
  ASSUME NEW s \in Seq(Byte), Whole(s), s # <<>>, Head(s) \in Commands
  PROVE  /\ s[1] = 19 /\ Len(s) >= 4 /\ (Seeking => s[3] = 64)
         /\ Whole(SubSeq(s, 5, Len(s)))
<1>1. PICK lab : LabelsWhole(s, lab)
  BY DEF Whole
<1>2. Len(s) \in Nat \ {0} /\ Head(s) = s[1]
  BY EmptySeq
<1>3. s[1] = 19 /\ lab[2] = 1
  BY <1>1, <1>2 DEF LabelsWhole
<1>4. Len(s) >= 2 /\ lab[3] = 2
  BY <1>1, <1>2, <1>3 DEF LabelsWhole
<1>5. Len(s) >= 3 /\ lab[4] = 3 /\ (Seeking => s[3] = 64)
  BY <1>1, <1>2, <1>4 DEF LabelsWhole
<1>6. Len(s) >= 4 /\ lab[5] = 0
  BY <1>1, <1>2, <1>5 DEF LabelsWhole
<1>7. Whole(SubSeq(s, 4 + 1, Len(s)))
  BY <1>1, <1>2, <1>6, WholeRest
<1>. QED
  BY <1>3, <1>5, <1>6, <1>7

LEMMA WholeMore ==
  ASSUME NEW s \in Seq(Byte), Whole(s), NEW r \in Request,
         r.op \in {"configure", "unknown"}, Seeking /\ r.op = "configure" => r.eis
  PROVE  Whole(s \o CommandBytes(r))
<1> DEFINE c == CommandBytes(r)
           t == s \o c
<1>1. PICK lab : LabelsWhole(s, lab)
  BY DEF Whole
<1>2. Len(s) \in Nat
  BY LenProperties
<1>3. CASE r.op = "configure"
  <2> DEFINE b == IF r.eis THEN 64 ELSE 0
             l == [i \in 1..(Len(s) + 5) |->
                    IF i <= Len(s) THEN lab[i]
                    ELSE IF i = Len(s) + 5 THEN 0 ELSE i - Len(s) - 1]
  <2>1. c = <<19, 0, b, 0>> /\ c \in Seq(Byte) /\ Len(c) = 4
    BY <1>3 DEF CommandBytes, Byte
  <2>2. /\ Len(t) = Len(s) + 4
        /\ \A i \in 1..Len(s) : t[i] = s[i]
        /\ t[Len(s) + 1] = 19 /\ t[Len(s) + 3] = b
    <3>1. /\ Len(t) = Len(s) + 4
          /\ \A i \in 1..(Len(s) + 4) : t[i] = IF i <= Len(s) THEN s[i] ELSE c[i - Len(s)]
      BY <2>1, ConcatProperties
    <3>2. c[1] = 19 /\ c[3] = b
      BY <2>1
    <3>. HIDE DEF c, t
    <3>. QED
      BY <1>2, <3>1, <3>2
  <2>3. Seeking => b = 64
    BY <1>3
  <2>4. /\ l \in [1..(Len(s) + 5) -> 0..3] /\ l[1] = 0 /\ l[Len(s) + 5] = 0
        /\ \A i \in 1..(Len(s) + 1) : l[i] = lab[i]
        /\ l[Len(s) + 1] = 0 /\ l[Len(s) + 2] = 1 /\ l[Len(s) + 3] = 2 /\ l[Len(s) + 4] = 3
    <3>1. /\ \A i \in 1..Len(s) : lab[i] \in 0..3
          /\ lab[1] = 0 /\ lab[Len(s) + 1] = 0
      BY <1>1, <1>2 DEF LabelsWhole
    <3>2. l[Len(s) + 1] = 0 /\ l[Len(s) + 2] = 1 /\ l[Len(s) + 3] = 2
          /\ l[Len(s) + 4] = 3 /\ l[Len(s) + 5] = 0
      BY <1>2
    <3>3. \A i \in 1..Len(s) : l[i] = lab[i]
      BY <1>2
    <3>4. \A i \in 1..(Len(s) + 5) : l[i] \in 0..3
      <4> SUFFICES ASSUME NEW i \in 1..(Len(s) + 5) PROVE l[i] \in 0..3
        OBVIOUS
      <4>1. CASE i \in 1..Len(s)
        BY <3>1, <3>3, <4>1
      <4>2. CASE i \in {Len(s) + 1, Len(s) + 2, Len(s) + 3, Len(s) + 4, Len(s) + 5}
        BY <3>2, <4>2
      <4>. QED
        BY <1>2, <4>1, <4>2
    <3>5. l \in [1..(Len(s) + 5) -> 0..3]
      BY <3>4
    <3>6. l[1] = 0
      BY <1>2, <3>1, <3>2, <3>3
    <3>. HIDE DEF l
    <3>. QED
      BY <1>2, <3>1, <3>2, <3>3, <3>5, <3>6
  <2>5. ASSUME NEW i \in 1..(Len(s) + 4)
        PROVE  \/ l[i] = 0 /\ t[i] \notin Commands /\ l[i + 1] = 0
               \/ l[i] = 0 /\ t[i] = 19 /\ l[i + 1] = 1
               \/ l[i] = 1 /\ l[i + 1] = 2
               \/ l[i] = 2 /\ l[i + 1] = 3 /\ (Seeking => t[i] = 64)
               \/ l[i] = 3 /\ l[i + 1] = 0
    <3> HIDE DEF l, t, b
    <3>1. CASE i \in 1..Len(s)
      <4>1. i \in 1..(Len(s) + 1) /\ i + 1 \in 1..(Len(s) + 1)
        BY <1>2, <3>1
      <4>2. l[i] = lab[i] /\ l[i + 1] = lab[i + 1] /\ t[i] = s[i]
        BY <2>2, <2>4, <3>1, <4>1
      <4>. QED
        BY <1>1, <3>1, <4>2 DEF LabelsWhole
    <3>2. CASE i \in {Len(s) + 1, Len(s) + 2, Len(s) + 3, Len(s) + 4}
      BY <1>2, <2>2, <2>3, <2>4, <3>2
    <3>. QED
      BY <1>2, <3>1, <3>2
  <2>6. LabelsWhole(t, l)
    <3> HIDE DEF l, t
    <3>1. Len(t) + 1 = Len(s) + 5
      BY <1>2, <2>2
    <3>. QED
      BY <2>2, <2>4, <2>5, <3>1 DEF LabelsWhole
  <2>. QED
    BY <2>6 DEF Whole
<1>4. CASE r.op = "unknown"
  <2> DEFINE l == [i \in 1..(Len(s) + 2) |-> IF i <= Len(s) THEN lab[i] ELSE 0]
  <2>1. c = <<15>> /\ c \in Seq(Byte) /\ Len(c) = 1 /\ c[1] = 15
    BY <1>4 DEF CommandBytes, Byte
  <2>2. Len(t) = Len(s) + 1 /\ t[Len(s) + 1] = 15 /\ \A i \in 1..Len(s) : t[i] = s[i]
    <3>1. /\ Len(t) = Len(s) + 1
          /\ \A i \in 1..(Len(s) + 1) : t[i] = IF i <= Len(s) THEN s[i] ELSE c[i - Len(s)]
      BY <2>1, ConcatProperties
    <3>. HIDE DEF c, t
    <3>. QED
      BY <1>2, <2>1, <3>1
  <2>4. /\ l \in [1..(Len(s) + 2) -> 0..3] /\ l[1] = 0 /\ l[Len(s) + 2] = 0
        /\ \A i \in 1..(Len(s) + 1) : l[i] = lab[i]
        /\ l[Len(s) + 1] = 0
    BY <1>1, <1>2 DEF LabelsWhole
  <2>5. ASSUME NEW i \in 1..(Len(s) + 1)
        PROVE  \/ l[i] = 0 /\ t[i] \notin Commands /\ l[i + 1] = 0
               \/ l[i] = 0 /\ t[i] = 19 /\ l[i + 1] = 1
               \/ l[i] = 1 /\ l[i + 1] = 2
               \/ l[i] = 2 /\ l[i + 1] = 3 /\ (Seeking => t[i] = 64)
               \/ l[i] = 3 /\ l[i + 1] = 0
    <3> HIDE DEF l, t
    <3>1. CASE i \in 1..Len(s)
      <4>1. i \in 1..(Len(s) + 1) /\ i + 1 \in 1..(Len(s) + 1)
        BY <1>2, <3>1
      <4>2. l[i] = lab[i] /\ l[i + 1] = lab[i + 1] /\ t[i] = s[i]
        BY <2>2, <2>4, <3>1, <4>1
      <4>. QED
        BY <1>1, <3>1, <4>2 DEF LabelsWhole
    <3>2. CASE i = Len(s) + 1
      BY <1>2, <2>2, <2>4, <3>2 DEF Commands
    <3>. QED
      BY <1>2, <3>1, <3>2
  <2>6. LabelsWhole(t, l)
    <3> HIDE DEF l, t
    <3>1. Len(t) + 1 = Len(s) + 2
      BY <1>2, <2>2
    <3>. QED
      BY <2>2, <2>4, <2>5, <3>1 DEF LabelsWhole
  <2>. QED
    BY <2>6 DEF Whole
<1>. QED
  BY <1>3, <1>4

-----------------------------------------------------------------------------
(* Addresses as signed words.                                               *)

LEMMA CutAddress ==
  ASSUME NEW n \in Int, n >= 0, n < 4 * Half
  PROVE  n % (2 * Half) = IF n < 2 * Half THEN n ELSE n - 2 * Half
<1> DEFINE m == 2 * Half
<1>1. m \in Nat \ {0} /\ n < 2 * m
  BY FddAssumption
<1>. HIDE DEF m
<1>2. n % m = IF n < m THEN n ELSE n - m
  <2>1. CASE n < m
    BY <1>1, <2>1, SMT
  <2>2. CASE n >= m
    BY <1>1, <2>2, SMT
  <2>. QED
    BY <1>1, <2>1, <2>2
<1>. QED
  BY <1>2 DEF m

LEMMA SignedType ==
  ASSUME NEW w \in Word
  PROVE  Signed(w) \in Int /\ Signed(w) >= -Half /\ Signed(w) < Half
BY FddAssumption DEF Word, Signed

LEMMA SignedOne ==
  ASSUME NEW v \in Word, NEW w \in Word, Signed(v) = Signed(w)
  PROVE  v = w
BY FddAssumption DEF Word, Signed

LEMMA SignedAdd ==
  ASSUME NEW w \in Word, NEW k \in Nat, Signed(w) + k < Half
  PROVE  (w + k) % (2 * Half) \in Word /\ Signed((w + k) % (2 * Half)) = Signed(w) + k
<1>1. Half \in Nat \ {0} /\ w \in 0..(2 * Half - 1)
  BY FddAssumption DEF Word
<1>2. w + k \in Int /\ w + k >= 0 /\ w + k < 4 * Half
  BY <1>1 DEF Signed
<1>3. PICK x \in Int : x = w + k
  BY <1>2
<1>4. PICK n : n = x % (2 * Half)
  OBVIOUS
<1>5. n = IF x < 2 * Half THEN x ELSE x - 2 * Half
  BY <1>2, <1>3, <1>4, CutAddress
<1>6. n \in Word /\ Signed(n) = Signed(w) + k
  BY <1>1, <1>2, <1>3, <1>5 DEF Word, Signed
<1>. QED
  BY <1>3, <1>4, <1>6

LEMMA SizeType ==
  ASSUME NEW r
  PROVE  RequestSize(r) \in Nat \ {0}
<1>1. SectorSz \in Nat \ {0} /\ NoSectors \in Nat \ {0}
  BY GeometryAssumption
<1>2. SectorSz * NoSectors \in Nat \ {0}
  BY <1>1, SMTT(20)
<1>. QED
  BY <1>1, <1>2 DEF RequestSize

-----------------------------------------------------------------------------
(* The service's place in its loops.                                        *)

\* A request to transfer is in progress.
Engaged == cpc \in {"busy", "read", "write", "status"} \/ (cpc = "send" /\ req.op \in Transfers)

\* What the sector or track in hand has still to move between memory and the port.
Left == Signed(di) - Signed(bx)
Size == RequestSize(req)

\* From address d on there is room for the sectors after this one.
Room(r, d) == r.count \in 1..255 /\ Signed(d) + (r.count - 1) * RequestSize(r) < Half

\* What the guest is assumed of holds for the rest of the request too.
Owing(r) ==
  /\ InsideImage(Programs) => Clear(r)
  /\ WholeTracks(Programs) /\ r.op = "track" => r.sector = 1 /\ r.count = 1

PlaceInv ==
  /\ \A i \in 1..Len(program) : program[i] \in Asked(Programs)
  /\ cpc = "send" => toSend # <<>>
  /\ cpc \in {"next", "busy", "read", "write"} => toSend = <<>>
  /\ al # <<>> => cpc \in {"read", "status"}
  /\ Engaged =>
       /\ req.op \in Transfers /\ Room(req, di) /\ Owing(req)
       /\ cpc \in {"send", "busy"} => Left = Size
       /\ cpc \in {"read", "write"} => Left \in 1..Size
       /\ cpc = "status" => bx = di /\ Len(toSend) \in 0..6
       /\ cpc = "write" => req.op = "write"
       /\ cpc \in {"busy", "read"} => req.op # "write"

LEMMA PlaceInit == Init => PlaceInv
<1> SUFFICES ASSUME Init PROVE PlaceInv
  OBVIOUS
<1>1. program \in Programs /\ cpc = "next" /\ toSend = <<>> /\ al = <<>>
  BY DEF Init
<1>2. program \in Seq(Request)
  BY <1>1, FddAssumption
<1>3. \A i \in 1..Len(program) : program[i] \in Asked(Programs)
  BY <1>1, <1>2, LenProperties DEF Asked
<1>. QED
  BY <1>1, <1>3 DEF PlaceInv, Engaged

LEMMA WorkerLeavesCpu == Worker => UNCHANGED cpu
BY DEF Worker, DequeueCommand, DequeueArgument, Configure, Seek, NotReady, ReadFromDrive,
       WriteToDrive, SendStatus, StoreData, RaiseInt, EndCommand

LEMMA CommandNotEmpty ==
  ASSUME NEW r \in Request
  PROVE  CommandBytes(r) # <<>>
BY DEF CommandBytes, Request

\* The first sector of a request, at the address the guest gave.
LEMMA RoomFirst ==
  ASSUME NEW r \in Request, r.op \in Transfers, Fits(r)
  PROVE  LET d == EndAddress(r, r.addr)
         IN  d \in Word /\ Signed(d) - Signed(r.addr) = RequestSize(r) /\ Room(r, d)
<1> DEFINE k == RequestSize(r)  a == r.addr  n == r.count
<1>1. a \in Word /\ n \in 1..255 /\ k \in Nat \ {0}
  BY SizeType DEF Request, Byte, Fits
<1>2. Signed(a) \in Int /\ Signed(a) + n * k < Half /\ Half \in Nat
  BY <1>1, SignedType, FddAssumption DEF Fits
<1>3. n * k = k + (n - 1) * k /\ (n - 1) * k \in Nat
  <2>1. n - 1 \in Nat /\ n = (n - 1) + 1
    BY <1>1
  <2>2. ((n - 1) + 1) * k = (n - 1) * k + k
    BY <1>1, <2>1, Next1
  <2>3. (n - 1) * k \in Nat
    BY <1>1, <2>1, ProductPos
  <2>. QED
    BY <1>1, <2>1, <2>2, <2>3
<1> HIDE DEF k, a, n
<1> DEFINE p == (n - 1) * k  q == n * k
<1>4. q = k + p /\ p \in Nat /\ Signed(a) + q < Half
  BY <1>2, <1>3
<1> HIDE DEF p, q
<1>5. Signed(a) + k < Half
  BY <1>1, <1>2, <1>4
<1>6. (a + k) % (2 * Half) \in Word /\ Signed((a + k) % (2 * Half)) = Signed(a) + k
  BY <1>1, <1>5, SignedAdd
<1>7. (Signed(a) + k) + p < Half
  BY <1>1, <1>2, <1>4
<1>. QED
  BY <1>1, <1>2, <1>6, <1>7 DEF EndAddress, Room, k, a, n, p

\* The next sector, from where the last one ended.
LEMMA RoomNext ==
  ASSUME NEW r, NEW d \in Word, Room(r, d), r.count # 1,
         NEW t, t.op = r.op, t.count = r.count - 1
  PROVE  LET e == EndAddress(t, d)
         IN  e \in Word /\ Signed(e) - Signed(d) = RequestSize(t) /\ Room(t, e)
<1> DEFINE k == RequestSize(r)  n == r.count
<1>1. n \in 2..255 /\ k \in Nat \ {0}
  BY SizeType DEF Room
<1>2. RequestSize(t) = k
  BY DEF RequestSize
<1>3. Signed(d) \in Int /\ Half \in Nat /\ Signed(d) + (n - 1) * k < Half
  BY SignedType, FddAssumption DEF Room
<1>4. (n - 1) * k = k + (n - 2) * k /\ (n - 2) * k \in Nat
  <2>1. n - 2 \in Nat /\ n - 1 = (n - 2) + 1
    BY <1>1
  <2>2. ((n - 2) + 1) * k = (n - 2) * k + k
    BY <1>1, <2>1, Next1
  <2>3. (n - 2) * k \in Nat
    BY <1>1, <2>1, ProductPos
  <2>. QED
    BY <1>1, <2>1, <2>2, <2>3
<1>5. t.count - 1 = n - 2 /\ t.count \in 1..255
  BY <1>1
<1> HIDE DEF k, n
<1> DEFINE p == (n - 2) * k  q == (n - 1) * k
<1>6. q = k + p /\ p \in Nat /\ Signed(d) + q < Half
  BY <1>3, <1>4
<1> HIDE DEF p, q
<1>7. Signed(d) + k < Half /\ (Signed(d) + k) + p < Half
  BY <1>1, <1>3, <1>6
<1>8. (d + k) % (2 * Half) \in Word /\ Signed((d + k) % (2 * Half)) = Signed(d) + k
  BY <1>1, <1>7, SignedAdd
<1>. QED
  BY <1>1, <1>2, <1>3, <1>5, <1>7, <1>8 DEF EndAddress, Room, p

\* The sectors still to come are among those the request named.
LEMMA OwingNext ==
  ASSUME NEW r \in Request, r.op \in Transfers, r.count \in 2..255, Owing(r)
  PROVE  Owing([r EXCEPT !.sector = (@ + 1) % 256, !.count = (@ - 1) % 256])
<1> DEFINE t == [r EXCEPT !.sector = (@ + 1) % 256, !.count = (@ - 1) % 256]
<1>1. /\ r.sector \in 0..255 /\ t.op = r.op /\ t.sector = (r.sector + 1) % 256
      /\ t.count = r.count - 1
  BY DEF Request, Byte
<1>2. Sectors(t) \subseteq Sectors(r)
  <2> SUFFICES ASSUME NEW i \in 0..(t.count - 1) PROVE (t.sector + i) % 256 \in Sectors(r)
    BY DEF Sectors
  <2>1. i + 1 \in 0..(r.count - 1) /\ i \in 0..255
    BY <1>1
  <2>2. (((r.sector + 1) % 256) + i) % 256 = (r.sector + (i + 1)) % 256
    BY <1>1, <2>1
  <2> HIDE DEF t
  <2>. QED
    BY <1>1, <2>1, <2>2 DEF Sectors
<1>3. \A s : [t EXCEPT !.sector = s].track = [r EXCEPT !.sector = s].track
          /\ [t EXCEPT !.sector = s].head = [r EXCEPT !.sector = s].head
          /\ [t EXCEPT !.sector = s].op = [r EXCEPT !.sector = s].op
          /\ [t EXCEPT !.sector = s].sector = [r EXCEPT !.sector = s].sector
  BY DEF Request
<1>4. ASSUME NEW s, StaysInside([r EXCEPT !.sector = s])
      PROVE  StaysInside([t EXCEPT !.sector = s])
  <2> DEFINE u == [r EXCEPT !.sector = s]  v == [t EXCEPT !.sector = s]
  <2>1. v.track = u.track /\ v.head = u.head /\ v.op = u.op /\ v.sector = u.sector
    BY <1>3
  <2> HIDE DEF u, v
  <2>2. Target(v) = Target(u) /\ RequestSize(v) = RequestSize(u) /\ Start(v) = Start(u)
    BY <2>1 DEF Target, RequestSize, Start
  <2>3. StaysInside(u) => StaysInside(v)
    BY <2>1, <2>2 DEF StaysInside
  <2>. QED
    BY <1>4, <2>3 DEF u, v
<1>5. Clear(r) => Clear(t)
  BY <1>1, <1>2, <1>4 DEF Clear
<1>6. r.count # 1
  OBVIOUS
<1> HIDE DEF t
<1>7. Owing(t)
  BY <1>1, <1>5, <1>6 DEF Owing
<1>. QED
  BY <1>7 DEF t

\* The address counts up to the end address, which a comparison of signed words
\* finds when it gets there.
LEMMA NextAddress ==
  ASSUME NEW b \in Word, NEW d \in Word, Signed(d) - Signed(b) >= 1
  PROVE  LET c == (b + 1) % (2 * Half)
         IN  /\ c \in Word
             /\ Signed(d) - Signed(c) = Signed(d) - Signed(b) - 1
             /\ Less(c, d) <=> Signed(d) - Signed(b) # 1
             /\ Signed(d) - Signed(b) = 1 => c = d
<1>1. /\ Signed(b) \in Int /\ Signed(d) \in Int /\ Signed(d) < Half
      /\ Half \in Nat
  BY SignedType, FddAssumption
<1>2. Signed(b) + 1 < Half
  BY <1>1
<1>3. PICK c : c = (b + 1) % (2 * Half)
  OBVIOUS
<1>4. c \in Word /\ Signed(c) = Signed(b) + 1
  BY <1>2, <1>3, SignedAdd
<1>5. Signed(d) - Signed(b) = 1 => c = d
  <2>1. Signed(d) - Signed(b) = 1 => Signed(c) = Signed(d)
    BY <1>1, <1>4
  <2>. QED
    BY <1>4, <2>1, SignedOne
<1>6. Less(c, d) <=> Signed(d) - Signed(b) # 1
  BY <1>1, <1>4 DEF Less
<1>7. Signed(d) - Signed(c) = Signed(d) - Signed(b) - 1
  BY <1>1, <1>4
<1>. QED
  BY <1>3, <1>4, <1>5, <1>6, <1>7

LEMMA StartPlace ==
  ASSUME BuffersFit(Programs), TypeInv, PlaceInv, StartRequest
  PROVE  PlaceInv'
<1>1. /\ cpc = "next" /\ program # <<>> /\ program \in Seq(Request)
      /\ req' = Head(program) /\ program' = Tail(program)
      /\ toSend' = CommandBytes(req') /\ cpc' = "send" /\ al' = al
      /\ bx' = req'.addr /\ di' = EndAddress(req', req'.addr)
  BY DEF StartRequest, TypeInv, TypeOK
<1>2. Len(program) \in Nat \ {0} /\ req' = program[1] /\ req' \in Request
  BY <1>1, EmptySeq, ElementOfSeq
<1>3. req' \in Asked(Programs)
  BY <1>2 DEF PlaceInv
<1>4. \A i \in 1..Len(program') : program'[i] \in Asked(Programs)
  <2>1. Len(program') = Len(program) - 1 /\ \A i \in 1..Len(program') : program'[i] = program[i + 1]
    BY <1>1, HeadTailProperties
  <2>2. \A i \in 1..Len(program') : i + 1 \in 1..Len(program)
    BY <1>2, <2>1
  <2>. QED
    BY <2>1, <2>2 DEF PlaceInv
<1>5. Fits(req') /\ Owing(req')
  <2>1. Fits(req')
    BY <1>3 DEF BuffersFit
  <2>. QED
    BY <1>3, <2>1 DEF InsideImage, WholeTracks, Owing
<1>6. ASSUME req'.op \in Transfers
      PROVE  Room(req', di') /\ Signed(di') - Signed(bx') = RequestSize(req')
  BY <1>1, <1>2, <1>5, <1>6, RoomFirst
<1>7. toSend' # <<>> /\ al' = <<>>
  BY <1>1, <1>2, CommandNotEmpty DEF PlaceInv
<1>8. Engaged' => req'.op \in Transfers
  BY <1>1 DEF Engaged
<1>. QED
  BY <1>1, <1>4, <1>5, <1>6, <1>7, <1>8 DEF PlaceInv, Left, Size

LEMMA SendPlace ==
  ASSUME TypeInv, PlaceInv, SendByte
  PROVE  PlaceInv'
<1>1. /\ cpc = "send" /\ toSend # <<>> /\ toSend \in Seq(Byte)
      /\ toSend' = Tail(toSend) /\ al' = <<>>
      /\ cpc' = IF Len(toSend) > 1 THEN "send"
                ELSE CASE req.op \in {"configure", "unknown"} -> "next"
                       [] req.op = "write" -> "write"
                       [] OTHER -> "busy"
      /\ UNCHANGED <<program, req, bx, di>>
  <2>1. toSend \in Seq(Byte)
    BY DEF TypeInv, TypeOK
  <2>2. cpc = "send" /\ al = <<>>
    BY DEF SendByte, PlaceInv
  <2>. QED
    BY <2>1, <2>2 DEF SendByte
<1>2. Len(toSend) \in Nat \ {0} /\ Len(toSend') = Len(toSend) - 1 /\ toSend' \in Seq(Byte)
  BY <1>1, EmptySeq, HeadTailProperties
<1>3. toSend' = <<>> <=> Len(toSend) = 1
  <2>1. Len(toSend') = 0 <=> toSend' = <<>>
    BY <1>2, EmptySeq
  <2>. QED
    BY <1>2, <2>1
<1>4. req.op \in Transfers \cup {"configure", "unknown"}
  <2>1. req \in Request
    BY DEF TypeInv, TypeOK
  <2>. QED
    BY <2>1 DEF Request, Transfers
<1>5. /\ cpc' = "send" => Len(toSend) # 1
      /\ cpc' # "send" => Len(toSend) = 1
      /\ cpc' \in {"send", "next", "write", "busy"}
      /\ cpc' = "write" => req.op = "write"
      /\ cpc' = "busy" => req.op # "write"
      /\ cpc' \in {"write", "busy"} => req.op \in Transfers
  BY <1>1, <1>2, <1>4
<1>6. Engaged' => Engaged
  BY <1>1, <1>5 DEF Engaged
<1>7. Left' = Left /\ Size' = Size /\ Size \in Nat \ {0}
  BY <1>1, SizeType DEF Left, Size
<1>8. Engaged' => /\ req'.op \in Transfers /\ Room(req', di') /\ Owing(req') /\ Left' = Size'
  BY <1>1, <1>6, <1>7 DEF PlaceInv
<1>. QED
  BY <1>1, <1>3, <1>5, <1>7, <1>8 DEF PlaceInv

LEMMA BusyPlace ==
  ASSUME TypeInv, PlaceInv, BusyWait
  PROVE  PlaceInv'
<1>1. /\ cpc = "busy" /\ cpc' = "read"
      /\ UNCHANGED <<program, req, toSend, al, bx, di>>
  BY DEF BusyWait
<1>2. Left' = Left /\ Size' = Size /\ Size \in 1..Size
  BY <1>1, SizeType DEF Left, Size
<1>3. Engaged /\ toSend = <<>> /\ al = <<>>
  BY <1>1 DEF Engaged, PlaceInv
<1>. QED
  BY <1>1, <1>2, <1>3 DEF PlaceInv

LEMMA WritePlace ==
  ASSUME TypeInv, PlaceInv, WriteByte
  PROVE  PlaceInv'
<1>1. /\ cpc = "write" /\ cpc' = IF Less(bx', di) THEN "write" ELSE "status"
      /\ toSend' = <<>> /\ bx' = (bx + 1) % (2 * Half)
      /\ UNCHANGED <<program, req, al, di>>
  BY DEF WriteByte
<1>2. Engaged /\ al = <<>> /\ bx \in Word /\ di \in Word
  BY <1>1 DEF Engaged, PlaceInv, TypeInv, TypeOK
<1>3. Left \in 1..Size /\ Size \in Nat /\ req.op = "write"
  BY <1>1, <1>2, SizeType DEF PlaceInv, Size
<1>4. /\ Left' = Left - 1
      /\ Less(bx', di) <=> Left # 1
      /\ Left = 1 => bx' = di
  BY <1>1, <1>2, <1>3, NextAddress DEF Left
<1>5. cpc' = "write" => Left' \in 1..Size
  BY <1>1, <1>3, <1>4
<1>6. Size' = Size /\ Len(<<>>) = 0
  BY <1>1 DEF Size
<1>. QED
  BY <1>1, <1>2, <1>3, <1>4, <1>5, <1>6 DEF PlaceInv

LEMMA LoadPlace ==
  ASSUME TypeInv, PlaceInv, LoadData
  PROVE  PlaceInv'
BY DEF LoadData, PlaceInv, Engaged, Left, Size

LEMMA StorePlace ==
  ASSUME TypeInv, PlaceInv, ClearInt, cpc = "read"
  PROVE  /\ PlaceInv'
         /\ Left' = Left - 1 /\ toSend' = toSend
         /\ cpc' = IF Left = 1 THEN "status" ELSE "read"
<1>1. /\ cpc' = IF Less(bx', di) THEN "read" ELSE "status"
      /\ al' = <<>> /\ bx' = (bx + 1) % (2 * Half)
      /\ UNCHANGED <<program, req, toSend, di>>
  BY DEF ClearInt, StoreByte
<1>2. Engaged /\ toSend = <<>> /\ bx \in Word /\ di \in Word
  BY DEF Engaged, PlaceInv, TypeInv, TypeOK
<1>3. Left \in 1..Size /\ Size \in Nat /\ req.op # "write"
  BY <1>2, SizeType DEF PlaceInv, Size
<1>4. /\ Left' = Left - 1
      /\ Less(bx', di) <=> Left # 1
      /\ Left = 1 => bx' = di
  BY <1>1, <1>2, <1>3, NextAddress DEF Left
<1>5. cpc' = "read" => Left' \in 1..Size
  BY <1>1, <1>3, <1>4
<1>6. Size' = Size /\ Len(<<>>) = 0
  BY <1>1 DEF Size
<1>7. PlaceInv'
  BY <1>1, <1>2, <1>3, <1>4, <1>5, <1>6 DEF PlaceInv
<1>. QED
  BY <1>1, <1>4, <1>7

LEMMA NextPlace ==
  ASSUME TypeInv, PlaceInv, ClearInt, cpc # "read"
  PROVE  /\ PlaceInv' /\ cpc = "status"
         /\ \/ /\ Len(toSend) < 6 /\ Len(toSend') = Len(toSend) + 1
               /\ UNCHANGED <<cpc, req, bx, di>>
            \/ /\ Len(toSend) = 6
               /\ cpc' = "next" /\ toSend' = <<>>
            \/ /\ Len(toSend) = 6 /\ req'.op = req.op
               /\ cpc' = "send" /\ toSend' = CommandBytes(req')
<1>1. cpc = "status" /\ al # <<>> /\ NextSector /\ al' = <<>>
  BY DEF ClearInt, PlaceInv
<1>2. /\ Engaged /\ bx \in Word /\ di \in Word /\ bx = di
      /\ req.op \in Transfers /\ Room(req, di) /\ Owing(req) /\ req \in Request
      /\ toSend \in Seq(Byte)
  BY <1>1 DEF Engaged, PlaceInv, TypeInv, TypeOK
<1> DEFINE r == [req EXCEPT !.sector = (@ + 1) % 256, !.count = (@ - 1) % 256]
<1>3. Len(toSend) \in 0..6
  BY <1>1, <1>2 DEF PlaceInv
<1>4. r.op = req.op
  BY <1>2 DEF Request
<1>5. CASE Len(toSend) < 6
  <2>1. toSend' = Append(toSend, al[1]) /\ UNCHANGED <<cpc, program, req, bx, di>>
    BY <1>1, <1>2, <1>5 DEF NextSector, NoStatus
  <2>2. Len(toSend') = Len(toSend) + 1
    BY <1>2, <2>1, AppendProperties
  <2>3. Engaged' /\ Left' = Left /\ Size' = Size /\ Len(toSend') \in 0..6
    BY <1>2, <1>5, <1>3, <2>1, <2>2 DEF Engaged, Left, Size
  <2>4. PlaceInv'
    BY <1>1, <1>2, <2>1, <2>3 DEF PlaceInv
  <2>. QED
    BY <1>1, <1>5, <2>1, <2>2, <2>4
<1>6. CASE Len(toSend) = 6 /\ r.count = 0
  <2>1. cpc' = "next" /\ toSend' = <<>> /\ UNCHANGED program
    BY <1>1, <1>6 DEF NextSector, NoStatus
  <2>2. ~Engaged'
    BY <2>1 DEF Engaged
  <2>. QED
    BY <1>1, <1>6, <2>1, <2>2 DEF PlaceInv
<1>7. CASE Len(toSend) = 6 /\ r.count # 0
  <2>1. /\ cpc' = "send" /\ req' = r /\ toSend' = CommandBytes(r)
        /\ di' = EndAddress(r, bx) /\ UNCHANGED <<program, bx>>
    BY <1>1, <1>7 DEF NextSector, NoStatus
  <2>2. r \in Request
    BY <1>2, NextRequestType
  <2>3. req.count # 1 /\ req.count \in 2..255
    BY <1>2, <1>7 DEF Room, Request
  <2>4. /\ Signed(di') - Signed(bx) = RequestSize(r) /\ Room(r, di')
    <3>1. (req.count - 1) % 256 = req.count - 1
      BY <2>3
    <3>2. r.count = req.count - 1
      BY <1>2, <3>1 DEF Request
    <3>. HIDE DEF r
    <3>3. /\ Signed(EndAddress(r, di)) - Signed(di) = RequestSize(r)
          /\ Room(r, EndAddress(r, di))
      BY <1>2, <1>4, <2>3, <3>2, RoomNext
    <3>. QED
      BY <1>2, <2>1, <3>3
  <2>5. Owing(r)
    BY <1>2, <2>3, OwingNext
  <2>6. toSend' # <<>>
    BY <2>1, <2>2, CommandNotEmpty
  <2> HIDE DEF r
  <2>7. Left' = Size'
    BY <2>1, <2>4 DEF Left, Size
  <2>8. PlaceInv'
    BY <1>1, <1>2, <1>4, <2>1, <2>4, <2>5, <2>6, <2>7 DEF PlaceInv
  <2>. QED
    BY <1>1, <1>7, <1>4, <2>1, <2>8
<1>. HIDE DEF r
<1>8. Len(toSend) < 6 \/ Len(toSend) = 6
  <2>1. Len(toSend) \in Nat
    BY <1>2, LenProperties
  <2>. QED
    BY <1>3, <2>1
<1>. QED
  BY <1>5, <1>6, <1>7, <1>8

LEMMA PlaceStep ==
  ASSUME BuffersFit(Programs), TypeInv, PlaceInv, [Next]_vars
  PROVE  PlaceInv'
<1>1. CASE Worker \/ UNCHANGED vars
  <2>1. UNCHANGED cpu
    BY <1>1, WorkerLeavesCpu DEF vars
  <2>. QED
    BY <2>1 DEF cpu, PlaceInv, Engaged, Left, Size
<1>2. CASE Cpu
  BY <1>2, StartPlace, SendPlace, BusyPlace, WritePlace, LoadPlace, StorePlace, NextPlace
     DEF Cpu
<1>. QED
  BY <1>1, <1>2 DEF Next

\* The loops of the service end at the address they were given, not beyond it.
THEOREM WholeSectorSafe == BuffersFit(Programs) /\ Spec => WholeSector
<1>. SUFFICES ASSUME BuffersFit(Programs) PROVE Spec => WholeSector
  OBVIOUS
<1>1. Init => TypeInv /\ PlaceInv
  BY InitTypes, PlaceInit
<1>2. TypeInv /\ PlaceInv /\ [Next]_vars => (TypeInv /\ PlaceInv)'
  <2>1. TypeInv /\ UNCHANGED vars => TypeInv'
    BY DEF TypeInv, TypeOK, CommandInv, vars, worker, cpu
  <2>. QED
    BY <2>1, WorkerTypes, CpuTypes, PlaceStep DEF Next
<1>3. TypeInv /\ PlaceInv /\ [Next]_vars
        => [cpc = "read" /\ cpc' = "status" => bx' = di]_vars
  <2>. SUFFICES ASSUME TypeInv, PlaceInv, Next, cpc = "read", cpc' = "status"
                PROVE  bx' = di
    OBVIOUS
  <2>1. ClearInt
    BY WorkerLeavesCpu DEF Next, Cpu, StartRequest, SendByte, BusyWait, WriteByte,
                           LoadData, cpu
  <2>2. PlaceInv' /\ di' = di
    BY <2>1, StorePlace DEF ClearInt, StoreByte
  <2>. QED
    BY <2>2 DEF PlaceInv, Engaged
<1>. QED
  BY <1>1, <1>2, <1>3, PTL DEF Spec, WholeSector

-----------------------------------------------------------------------------
(* Rows of bytes.                                                           *)

LEMMA ConcatHead ==
  ASSUME NEW s \in Seq(Byte), NEW t \in Seq(Byte), s # <<>>
  PROVE  /\ s \o t # <<>> /\ Head(s \o t) = Head(s)
         /\ Tail(s \o t) = Tail(s) \o t
<1>1. /\ Len(s) \in Nat \ {0} /\ Len(t) \in Nat
  BY EmptySeq, LenProperties
<1>2. /\ s \o t \in Seq(Byte) /\ Len(s \o t) = Len(s) + Len(t)
      /\ \A i \in 1..(Len(s) + Len(t)) :
           (s \o t)[i] = IF i <= Len(s) THEN s[i] ELSE t[i - Len(s)]
  BY ConcatProperties
<1>3. s \o t # <<>>
  BY <1>1, <1>2, EmptySeq
<1>4. Head(s \o t) = Head(s)
  BY <1>1, <1>2, <1>3
<1>5. /\ Tail(s) \in Seq(Byte) /\ Len(Tail(s)) = Len(s) - 1
      /\ \A i \in 1..Len(Tail(s)) : Tail(s)[i] = s[i + 1]
  BY HeadTailProperties
<1>6. /\ Tail(s \o t) \in Seq(Byte) /\ Len(Tail(s \o t)) = Len(s \o t) - 1
      /\ \A i \in 1..Len(Tail(s \o t)) : Tail(s \o t)[i] = (s \o t)[i + 1]
  BY <1>2, <1>3, HeadTailProperties
<1>7. /\ Tail(s) \o t \in Seq(Byte) /\ Len(Tail(s) \o t) = Len(Tail(s)) + Len(t)
      /\ \A i \in 1..(Len(Tail(s)) + Len(t)) :
           (Tail(s) \o t)[i]
             = IF i <= Len(Tail(s)) THEN Tail(s)[i] ELSE t[i - Len(Tail(s))]
  BY <1>5, ConcatProperties
<1>8. Len(Tail(s \o t)) = Len(Tail(s) \o t)
  BY <1>1, <1>2, <1>5, <1>6, <1>7
<1>9. ASSUME NEW i \in 1..Len(Tail(s \o t))
      PROVE  Tail(s \o t)[i] = (Tail(s) \o t)[i]
  <2>1. /\ i \in 1..(Len(Tail(s)) + Len(t)) /\ i + 1 \in 1..(Len(s) + Len(t))
        /\ Len(Tail(s)) = Len(s) - 1 /\ i \in Nat
    BY <1>1, <1>2, <1>5, <1>6
  <2>2. Tail(s \o t)[i] = IF i + 1 <= Len(s) THEN s[i + 1] ELSE t[(i + 1) - Len(s)]
    BY <1>2, <1>6, <2>1
  <2>3. (Tail(s) \o t)[i] = IF i <= Len(s) - 1 THEN Tail(s)[i] ELSE t[i - (Len(s) - 1)]
    BY <1>7, <2>1
  <2>4. i <= Len(s) - 1 => Tail(s)[i] = s[i + 1]
    BY <1>1, <1>5, <2>1
  <2>5. (i <= Len(s) - 1 <=> i + 1 <= Len(s)) /\ (i + 1) - Len(s) = i - (Len(s) - 1)
    BY <1>1, <2>1
  <2>. QED
    BY <2>2, <2>3, <2>4, <2>5
<1>10. Tail(s \o t) = Tail(s) \o t
  BY <1>6, <1>7, <1>8, <1>9, SeqEqual
<1>. QED
  BY <1>3, <1>4, <1>10

\* A row is cut in one way at a given place.
LEMMA ConcatSplit ==
  ASSUME NEW s \in Seq(Byte), NEW t \in Seq(Byte), NEW u \in Seq(Byte), NEW v \in Seq(Byte),
         s \o t = u \o v, Len(s) = Len(u)
  PROVE  s = u /\ t = v
<1>1. Len(s) \in Nat /\ Len(t) \in Nat /\ Len(v) \in Nat
  BY LenProperties
<1>2. /\ Len(s \o t) = Len(s) + Len(t)
      /\ \A i \in 1..(Len(s) + Len(t)) :
           (s \o t)[i] = IF i <= Len(s) THEN s[i] ELSE t[i - Len(s)]
      /\ Len(s \o t) = Len(s) + Len(v)
      /\ \A i \in 1..(Len(s) + Len(v)) :
           (s \o t)[i] = IF i <= Len(s) THEN u[i] ELSE v[i - Len(s)]
  <2>1. /\ Len(s \o t) = Len(s) + Len(t)
        /\ \A i \in 1..(Len(s) + Len(t)) :
             (s \o t)[i] = IF i <= Len(s) THEN s[i] ELSE t[i - Len(s)]
    BY ConcatProperties
  <2>2. /\ Len(u \o v) = Len(u) + Len(v)
        /\ \A i \in 1..(Len(u) + Len(v)) :
             (u \o v)[i] = IF i <= Len(u) THEN u[i] ELSE v[i - Len(u)]
    BY ConcatProperties
  <2>. QED
    BY <2>1, <2>2, Zenon
<1>3. Len(t) = Len(v)
  BY <1>1, <1>2
<1>4. \A i \in 1..Len(s) : s[i] = u[i]
  <2> SUFFICES ASSUME NEW i \in 1..Len(s) PROVE s[i] = u[i]
    OBVIOUS
  <2>1. i \in 1..(Len(s) + Len(t)) /\ i \in 1..(Len(s) + Len(v)) /\ i <= Len(s)
    BY <1>1
  <2>. QED
    BY <1>2, <2>1
<1>5. \A i \in 1..Len(t) : t[i] = v[i]
  <2> SUFFICES ASSUME NEW i \in 1..Len(t) PROVE t[i] = v[i]
    OBVIOUS
  <2>1. /\ Len(s) + i \in 1..(Len(s) + Len(t)) /\ Len(s) + i \in 1..(Len(s) + Len(v))
        /\ ~(Len(s) + i <= Len(s)) /\ (Len(s) + i) - Len(s) = i
    BY <1>1, <1>3
  <2>2. (s \o t)[Len(s) + i] = t[i] /\ (s \o t)[Len(s) + i] = v[i]
    BY <1>2, <2>1
  <2>. QED
    BY <2>2
<1>. QED
  BY <1>3, <1>4, <1>5, SeqEqual

LEMMA ConcatFirst ==
  ASSUME NEW s \in Seq(Byte), NEW t \in Seq(Byte), NEW i \in 1..Len(s)
  PROVE  (s \o t)[i] = s[i]
<1>1. Len(s) \in Nat /\ Len(t) \in Nat
  BY LenProperties
<1>2. i \in 1..(Len(s) + Len(t)) /\ i <= Len(s)
  BY <1>1
<1>. QED
  BY <1>2, ConcatProperties

LEMMA ConcatOrder ==
  \A x, y, z \in Seq(Byte) : (x \o y) \o z = x \o (y \o z)
BY ConcatAssociative

LEMMA MoveOne ==
  ASSUME NEW c \in Seq(Byte), NEW q \in Seq(Byte), q # <<>>
  PROVE  Append(c, Head(q)) \o Tail(q) = c \o q
<1>1. Head(q) \in Byte /\ Tail(q) \in Seq(Byte) /\ Len(q) \in Nat \ {0}
  BY EmptySeq, HeadTailProperties
<1>2. <<Head(q)>> \in Seq(Byte)
  BY <1>1
<1>3. q = <<Head(q)>> \o Tail(q)
  <2>1. q = SubSeq(q, 1, Len(q)) /\ 1 \in 1..Len(q) /\ Len(q) \in 1..Len(q)
    BY <1>1, SubSeqFull
  <2>2. q = <<q[1]>> \o SubSeq(q, 1 + 1, Len(q))
    BY <2>1, SubSeqRecursiveFirst
  <2>3. Tail(q) = SubSeq(q, 2, Len(q)) /\ Head(q) = q[1]
    BY <1>1, TailIsSubSeq
  <2>. QED
    BY <2>2, <2>3
<1>4. Append(c, Head(q)) = c \o <<Head(q)>>
  BY <1>1, AppendIsConcat
<1>. QED
  BY <1>1, <1>2, <1>3, <1>4, ConcatAssociative

-----------------------------------------------------------------------------
(* The command in hand and those to come.                                   *)

\* The bytes the worker has still to execute: of the command it is taking, in
\* the queue, and about to be sent.
Rest == IF wpc = "args" THEN cmd \o queue ELSE queue
Coming == Rest \o (IF cpc = "send" THEN toSend ELSE <<>>)

\* b comes after commands without an answer.
Ahead(b) == \E a \in Seq(Byte) : Whole(a) /\ Coming = a \o b

\* The worker owes nothing: it waits for a command, takes one, configures, or is
\* about to end the last transfer.
Free ==
  /\ ~int
  /\ \/ wpc = "idle"
     \/ wpc = "args" /\ cmd[1] \in Commands
     \/ wpc = "seek" /\ cmd[1] = 19 /\ (Seeking => cmd[3] = 64)
     \/ wpc = "transfer" /\ left = -NoStatus

LEMMA ComingType ==
  ASSUME TypeInv
  PROVE  Rest \in Seq(Byte) /\ Coming \in Seq(Byte)
<1>1. cmd \in Seq(Byte) /\ queue \in Seq(Byte) /\ toSend \in Seq(Byte) /\ <<>> \in Seq(Byte)
  BY EmptySeq DEF TypeInv, TypeOK
<1>2. cmd \o queue \in Seq(Byte)
  BY <1>1, ConcatProperties
<1>3. Rest \in Seq(Byte)
  BY <1>1, <1>2 DEF Rest
<1>. QED
  BY <1>1, <1>3, ConcatProperties DEF Coming

LEMMA DequeueAhead ==
  ASSUME TypeInv, DequeueCommand, NEW b \in Seq(Byte), b = <<>> \/ Head(b) \in Commands,
         Ahead(b), Free
  PROVE  Ahead(b)' /\ Free'
<1>1. /\ wpc = "idle" /\ queue # <<>> /\ queue' = Tail(queue) /\ queue \in Seq(Byte)
      /\ UNCHANGED <<int, cpc, toSend>>
  BY DEF DequeueCommand, cpu, TypeInv, TypeOK
<1>2. PICK s \in Seq(Byte) : s = IF cpc = "send" THEN toSend ELSE <<>>
  BY EmptySeq DEF TypeInv, TypeOK
<1>3. Coming = queue \o s
  BY <1>1, <1>2 DEF Coming, Rest
<1>4. PICK a \in Seq(Byte) : Whole(a) /\ Coming = a \o b
  BY DEF Ahead
<1>5. /\ Tail(queue) \in Seq(Byte) /\ Coming # <<>> /\ Head(Coming) = Head(queue)
      /\ Tail(Coming) = Tail(queue) \o s
  BY <1>1, <1>3, HeadTailProperties, ConcatHead
<1>6. CASE Head(queue) \notin Commands
  <2>1. wpc' = wpc
    BY <1>1, <1>6 DEF DequeueCommand, worker
  <2>2. Coming' = Tail(Coming)
    BY <1>1, <1>2, <1>5, <2>1 DEF Coming, Rest
  <2>3. a # <<>>
    <3>1. SUFFICES ASSUME a = <<>> PROVE FALSE
      OBVIOUS
    <3>2. Coming = b
      BY <1>4, <3>1, ConcatEmptySeq
    <3>. QED
      BY <1>5, <1>6, <3>2
  <2>4. Head(a) \notin Commands /\ Tail(Coming) = Tail(a) \o b
    BY <1>4, <1>5, <1>6, <2>3, ConcatHead
  <2>5. Tail(a) \in Seq(Byte) /\ Whole(Tail(a))
    BY <1>4, <2>3, <2>4, WholeUnknown, HeadTailProperties
  <2>. QED
    BY <1>1, <2>1, <2>2, <2>4, <2>5 DEF Ahead, Free
<1>7. CASE Head(queue) \in Commands
  <2>1. wpc' = "args" /\ cmd' = <<Head(queue)>>
    BY <1>1, <1>7 DEF DequeueCommand, worker
  <2>2. Coming' = Coming
    <3>1. <<>> \in Seq(Byte) /\ Append(<<>>, Head(queue)) = <<Head(queue)>>
      BY EmptySeq
    <3>2. <<Head(queue)>> \o Tail(queue) = queue
      BY <1>1, <3>1, MoveOne, ConcatEmptySeq
    <3>. QED
      BY <1>1, <1>2, <1>3, <2>1, <3>2 DEF Coming, Rest
  <2>3. cmd'[1] \in Commands
    BY <1>7, <2>1
  <2>. QED
    BY <1>1, <1>4, <2>1, <2>2, <2>3 DEF Ahead, Free
<1>. QED
  BY <1>6, <1>7

\* The same row, cut in two places.
CutTwice(a, b, c, r) ==
  /\ a \in Seq(Byte) /\ b \in Seq(Byte) /\ c \in Seq(Byte) /\ r \in Seq(Byte)
  /\ c \o r = a \o b

\* The row begins with a command of four bytes.
LEMMA ConfigureFirst ==
  ASSUME NEW a, NEW b, NEW c, NEW r, CutTwice(a, b, c, r), Len(a) >= 4, Len(c) = 4
  PROVE  SubSeq(a, 5, Len(a)) \in Seq(Byte) /\ r = SubSeq(a, 5, Len(a)) \o b
<1>0. a \in Seq(Byte) /\ b \in Seq(Byte) /\ c \in Seq(Byte) /\ r \in Seq(Byte)
  BY DEF CutTwice
<1>1. Len(a) \in Nat /\ \A i \in 1..Len(a) : a[i] \in Byte
  BY <1>0, LenProperties, ElementOfSeq
<1>2. PICK f \in Seq(Byte) : f = SubSeq(a, 1, 4) /\ Len(f) = 4
  <2>1. \A i \in 1..4 : a[i] \in Byte
    BY <1>1
  <2>2. SubSeq(a, 1, 4) \in Seq(Byte) /\ Len(SubSeq(a, 1, 4)) = 4
    BY <2>1, SubSeqProperties
  <2>. QED
    BY <2>2
<1>3. PICK g \in Seq(Byte) : g = SubSeq(a, 5, Len(a))
  <2>1. \A i \in 5..Len(a) : a[i] \in Byte
    BY <1>1
  <2>2. SubSeq(a, 5, Len(a)) \in Seq(Byte)
    BY <1>1, <2>1, SubSeqProperties
  <2>. QED
    BY <2>2
<1>4. a = f \o g
  <2>1. /\ 1 \in 1..(Len(a) + 1) /\ 4 \in (1 - 1)..Len(a) /\ Len(a) \in 4..Len(a)
    BY <1>1
  <2>2. SubSeq(a, 1, 4) \o SubSeq(a, 4 + 1, Len(a)) = SubSeq(a, 1, Len(a))
    BY <1>0, <2>1, ConcatAdjacentSubSeq
  <2>. QED
    BY <1>0, <1>2, <1>3, <2>2, SubSeqFull
<1>5. PICK h \in Seq(Byte) : h = g \o b
  BY <1>0, ConcatProperties
<1>6. c \o r = f \o h
  <2>1. (f \o g) \o b = f \o (g \o b)
    <3>1. b \in Seq(Byte)
      BY DEF CutTwice
    <3>. QED
      BY <3>1, ConcatOrder
  <2>2. c \o r = a \o b
    BY DEF CutTwice
  <2>. QED
    BY <1>4, <1>5, <2>1, <2>2, Zenon
<1>7. r = h
  <2>1. c \in Seq(Byte) /\ r \in Seq(Byte) /\ Len(c) = Len(f)
    BY <1>2 DEF CutTwice
  <2>. QED
    BY <2>1, <1>6, ConcatSplit
<1>. QED
  BY <1>3, <1>5, <1>7, Zenon

\* e is the command of a transfer, followed by the data d; or there is none.
Answered(e, d) ==
  \/ e = <<>> /\ d = <<>>
  \/ Len(e) = 9 /\ Head(e) \in Commands \ {19}

\* The last argument of a command makes it complete: one without an answer, or
\* the transfer e that all the others came before.
LEMMA ArgumentAhead ==
  ASSUME TypeInv, DequeueArgument, Free, NEW e \in Seq(Byte), NEW d \in Seq(Byte),
         Answered(e, d), Ahead(e \o d)
  PROVE  \/ Ahead(e \o d)' /\ Free'
         \/ wpc' = "seek" /\ cmd' = e /\ Coming' = d
<1>1. /\ wpc = "args" /\ queue # <<>> /\ queue' = Tail(queue)
      /\ cmd' = Append(cmd, Head(queue)) /\ cmd \in Seq(Byte) /\ queue \in Seq(Byte)
      /\ wpc' = IF Len(cmd) = Arguments(cmd[1]) THEN "seek" ELSE "args"
      /\ UNCHANGED <<int, cpc, toSend>>
      /\ Len(cmd) \in 1..Arguments(cmd[1]) /\ cmd[1] \in Commands /\ ~int
  BY DEF DequeueArgument, cpu, TypeInv, TypeOK, CommandInv, Free
<1>2. PICK s \in Seq(Byte) : s = IF cpc = "send" THEN toSend ELSE <<>>
  BY EmptySeq DEF TypeInv, TypeOK
<1>3. Coming = (cmd \o queue) \o s
  BY <1>1, <1>2 DEF Coming, Rest
<1>4. /\ Head(queue) \in Byte /\ queue' \in Seq(Byte) /\ cmd' \in Seq(Byte)
      /\ Len(cmd') = Len(cmd) + 1 /\ cmd'[1] = cmd[1] /\ Len(cmd) \in Nat \ {0}
  <2>1. Head(queue) \in Byte /\ Tail(queue) \in Seq(Byte)
    BY <1>1, HeadTailProperties
  <2>2. Len(cmd) \in Nat
    BY <1>1, LenProperties
  <2>3. Len(cmd) \in Nat \ {0} /\ 1 \in 1..Len(cmd)
    BY <1>1, <2>2 DEF Arguments
  <2>. QED
    BY <1>1, <2>1, <2>3, AppendProperties
<1>5. Coming = (cmd' \o queue') \o s
  BY <1>1, <1>3, MoveOne
<1>6. CASE wpc' = "args"
  <2>1. Coming' = Coming
    BY <1>1, <1>2, <1>5, <1>6 DEF Coming, Rest
  <2>. QED
    BY <1>1, <1>4, <1>6, <2>1 DEF Ahead, Free
<1>7. CASE wpc' # "args"
  <2>1. wpc' = "seek" /\ Len(cmd') = Arguments(cmd[1]) + 1
    BY <1>1, <1>4, <1>7
  <2>2. Coming' = queue' \o s /\ queue' \o s \in Seq(Byte)
    BY <1>1, <1>2, <1>4, <2>1, ConcatProperties DEF Coming, Rest
  <2>3. Coming = cmd' \o Coming'
    <3>1. cmd' \in Seq(Byte) /\ queue' \in Seq(Byte)
      BY <1>4
    <3>2. PICK x \in Seq(Byte), y \in Seq(Byte) : x = cmd' /\ y = queue'
      BY <3>1
    <3>3. (x \o y) \o s = x \o (y \o s)
      BY ConcatOrder
    <3>4. (cmd' \o queue') \o s = cmd' \o (queue' \o s)
      BY <3>2, <3>3
    <3>. QED
      BY <1>5, <2>2, <3>4, Zenon
  <2>4. PICK a \in Seq(Byte) : Whole(a) /\ Coming = a \o (e \o d)
    BY DEF Ahead
  <2>5. PICK b \in Seq(Byte) : b = e \o d
    BY ConcatProperties
  <2>6. PICK c \in Seq(Byte), r \in Seq(Byte) : c = cmd' /\ r = Coming'
    BY <1>4, <2>2
  <2>7. /\ c \o r = a \o b /\ Len(c) = Arguments(cmd[1]) + 1 /\ c[1] = cmd[1]
        /\ \A i \in 1..Len(c) : Coming[i] = c[i]
    <3>1. \A i \in 1..Len(c) : (c \o r)[i] = c[i]
      BY ConcatFirst
    <3>. QED
      BY <1>4, <2>1, <2>3, <2>4, <2>5, <2>6, <3>1
  <2>8. CASE a # <<>>
    <3>1. /\ \A i \in 1..Len(a) : Coming[i] = a[i]
          /\ Len(a) \in Nat \ {0} /\ Head(a) = a[1]
      BY <2>4, <2>5, <2>8, EmptySeq, ConcatFirst
    <3>2. Head(a) = cmd[1]
      <4>1. 1 \in 1..Len(a) /\ 1 \in 1..Len(c)
        BY <1>4, <2>6, <3>1
      <4>. QED
        BY <2>7, <3>1, <4>1
    <3>3. /\ a[1] = 19 /\ Len(a) >= 4 /\ (Seeking => a[3] = 64)
          /\ Whole(SubSeq(a, 5, Len(a)))
      BY <1>1, <2>4, <2>8, <3>2, WholeKnown
    <3>4. Len(c) = 4 /\ cmd[1] = 19
      BY <2>7, <3>1, <3>2, <3>3 DEF Arguments
    <3>5. CutTwice(a, b, c, r)
      BY <2>7 DEF CutTwice
    <3>6. SubSeq(a, 5, Len(a)) \in Seq(Byte) /\ r = SubSeq(a, 5, Len(a)) \o b
      BY <3>3, <3>4, <3>5, ConfigureFirst
    <3>7. Seeking => cmd'[3] = 64
      <4>1. 3 \in 1..Len(a) /\ 3 \in 1..Len(c)
        BY <3>1, <3>3, <3>4
      <4>. QED
        BY <2>6, <2>7, <3>1, <3>3, <4>1
    <3>8. Ahead(e \o d)'
      BY <2>5, <2>6, <3>3, <3>6, Zenon DEF Ahead
    <3>. QED
      BY <1>1, <1>4, <2>1, <3>4, <3>7, <3>8 DEF Free
  <2>9. CASE a = <<>>
    <3>1. a \o b = b
      BY <2>9, ConcatEmptySeq
    <3>2. e # <<>>
      <4>1. SUFFICES ASSUME e = <<>> PROVE FALSE
        OBVIOUS
      <4>2. b = <<>> /\ Len(c) # 0
        BY <1>1, <2>5, <2>7, <4>1, EmptySeq, ConcatEmptySeq DEF Answered, Arguments
      <4>3. c = <<>>
        BY <2>7, <3>1, <4>2, ConcatEqualIffEmpty
      <4>. QED
        BY <4>2, <4>3, EmptySeq
    <3>3. Len(e) = 9 /\ e[1] \in Commands \ {19}
      BY <3>2 DEF Answered
    <3>4. cmd[1] = e[1]
      <4>1. 1 \in 1..Len(e) /\ 1 \in 1..Len(c)
        BY <2>7, <3>3 DEF Arguments
      <4>2. (e \o d)[1] = e[1]
        BY <4>1, ConcatFirst
      <4>3. Coming[1] = (e \o d)[1]
        BY <2>4, <2>5, <3>1
      <4>. QED
        BY <2>7, <4>1, <4>2, <4>3
    <3>5. Len(c) = Len(e) /\ c \o r = e \o d
      BY <2>5, <2>7, <3>1, <3>3, <3>4 DEF Arguments
    <3>6. c = e /\ r = d
      BY <3>5, ConcatSplit
    <3>. QED
      BY <2>1, <2>6, <3>6
  <2>. QED
    BY <2>8, <2>9
<1>. QED
  BY <1>6, <1>7

-----------------------------------------------------------------------------
(* The two threads agree on what is owed.                                   *)

\* The bytes the guest will still take for the transfer in hand, and for a whole
\* one; and those the worker will still hand over.
Expect ==
  IF cpc = "status" THEN NoStatus - Len(toSend)
  ELSE IF req.op = "write" THEN NoStatus ELSE Left + NoStatus
Full == IF req.op = "write" THEN NoStatus ELSE Size + NoStatus
Owed ==
  IF wpc = "seek" THEN Full
  ELSE IF wpc = "idle" THEN 0
  ELSE IF req.op = "write" /\ left > 0 THEN NoStatus ELSE left + NoStatus

\* No request to transfer is in progress; or its command is on its way, with the
\* data written so far behind it; or the worker has taken the command and the two
\* are transferring the bytes.
Quiet == ~Engaged /\ Free /\ Ahead(<<>>)
Waiting ==
  /\ Engaged /\ Free /\ Expect = Full
  /\ \E d \in Seq(Byte) :
       /\ Ahead(CommandBytes(req) \o d)
       /\ Len(d) = IF req.op = "write" THEN Size - Left ELSE 0
Serving ==
  /\ Engaged /\ cpc # "send"
  /\ wpc \in {"idle", "seek", "transfer", "store", "raise"}
  /\ cmd = CommandBytes(req)
  /\ Expect = Owed + (IF int THEN 1 ELSE 0)
  /\ wpc \in {"transfer", "store", "raise"} => left \in (-NoStatus)..Size
  /\ wpc \in {"store", "raise"} => left > -NoStatus /\ (req.op = "write" => left <= 0)
  /\ req.op # "write" => queue = <<>>
  /\ req.op = "write" =>
       Len(queue) + Left = IF wpc = "seek" THEN Size
                           ELSE IF wpc # "idle" /\ left > 0 THEN left ELSE 0
ProtocolInv == wpc # "exit" => Quiet \/ Waiting \/ Serving

LEMMA TransferCommand ==
  ASSUME NEW r \in Request, r.op \in Transfers
  PROVE  LET c == CommandBytes(r)
         IN  /\ c \in Seq(Byte) /\ Len(c) = 9 /\ Head(c) = c[1]
             /\ c[1] = (CASE r.op = "read" -> 6 [] r.op = "write" -> 5 [] r.op = "track" -> 2)
             /\ c[1] \in Commands \ {19}
             /\ c[2] = r.slot /\ c[3] = r.track /\ c[4] = r.head /\ c[5] = r.sector
             /\ c[6] = SizeCode
             /\ \A d : Answered(c, d)
<1> DEFINE b == CASE r.op = "read" -> 6 [] r.op = "write" -> 5 [] r.op = "track" -> 2
<1>1. CommandBytes(r) = <<b, r.slot, r.track, r.head, r.sector, SizeCode, 18, 0, 255>>
  BY DEF CommandBytes, Transfers
<1>2. PICK c : c = CommandBytes(r)
  OBVIOUS
<1>3. c \in Seq(Byte)
  BY <1>2, CommandType
<1>4. b \in Commands \ {19}
  BY DEF Commands, Transfers
<1>. HIDE DEF b
<1>5. /\ Len(c) = 9 /\ Head(c) = c[1] /\ c[1] = b /\ c[2] = r.slot /\ c[3] = r.track
      /\ c[4] = r.head /\ c[5] = r.sector /\ c[6] = SizeCode
  BY <1>1, <1>2
<1>6. \A d : Answered(c, d)
  BY <1>4, <1>5 DEF Answered
<1>. QED
  BY <1>2, <1>3, <1>4, <1>5, <1>6 DEF b

\* While the worker owes nothing it takes commands, configures, or ends one.
LEMMA FreeWorker ==
  ASSUME TypeInv, Free, Worker
  PROVE  DequeueCommand \/ DequeueArgument \/ ((Configure \/ EndCommand) /\ Free' /\ Coming' = Coming)
<1>1. ~(Seek \/ NotReady \/ ReadFromDrive \/ WriteToDrive \/ SendStatus \/ StoreData \/ RaiseInt)
  BY DEF Free, Seek, NotReady, ReadFromDrive, WriteToDrive, SendStatus, StoreData, RaiseInt,
         NoStatus
<1>2. ASSUME Configure \/ EndCommand
      PROVE  Free' /\ Coming' = Coming
  <2>1. wpc \in {"seek", "transfer"} /\ wpc' = "idle" /\ UNCHANGED <<int, queue, cpc, toSend>>
    BY <1>2 DEF Configure, EndCommand, cpu
  <2>. QED
    BY <2>1 DEF Free, Coming, Rest
<1>. QED
  BY <1>1, <1>2 DEF Worker

LEMMA QuietWorker ==
  ASSUME TypeInv, Quiet, Worker
  PROVE  Quiet'
<1>1. <<>> \in Seq(Byte) /\ Free /\ Ahead(<<>>) /\ <<>> \o <<>> = <<>>
  BY EmptySeq, ConcatEmptySeq DEF Quiet
<1>2. ~Engaged'
  BY WorkerLeavesCpu DEF Quiet, Engaged, cpu
<1>3. CASE DequeueCommand
  BY <1>1, <1>2, <1>3, DequeueAhead DEF Quiet
<1>4. CASE DequeueArgument
  <2>1. Answered(<<>>, <<>>) /\ Ahead(<<>> \o <<>>)
    BY <1>1 DEF Answered
  <2>2. cmd' # <<>>
    <3>1. cmd' = Append(cmd, Head(queue)) /\ Head(queue) \in Byte /\ cmd \in Seq(Byte)
      BY <1>4, HeadTailProperties DEF DequeueArgument, TypeInv, TypeOK
    <3>. QED
      BY <3>1, AppendProperties
  <2>3. Ahead(<<>> \o <<>>)' /\ Free'
    BY <1>1, <1>4, <2>1, <2>2, ArgumentAhead
  <2>. QED
    BY <1>1, <1>2, <2>3 DEF Quiet
<1>5. CASE (Configure \/ EndCommand) /\ Free' /\ Coming' = Coming
  BY <1>1, <1>2, <1>5 DEF Quiet, Ahead
<1>. QED
  BY <1>1, <1>3, <1>4, <1>5, FreeWorker

LEMMA WaitingWorker ==
  ASSUME TypeInv, PlaceInv, Waiting, Worker
  PROVE  Waiting' \/ Serving'
<1>1. /\ Free /\ Engaged /\ Expect = Full /\ req \in Request /\ req.op \in Transfers
  BY DEF Waiting, PlaceInv, TypeInv, TypeOK
<1>2. UNCHANGED cpu
  BY WorkerLeavesCpu
<1>3. UNCHANGED <<Engaged, Expect, Full, Left, Size, req, cpc, toSend>>
  BY <1>2 DEF cpu, Engaged, Expect, Full, Left, Size
<1>4. PICK c \in Seq(Byte) : c = CommandBytes(req)
  BY <1>1, CommandType
<1>5. PICK d \in Seq(Byte) :
        Ahead(c \o d) /\ Len(d) = IF req.op = "write" THEN Size - Left ELSE 0
  BY <1>4 DEF Waiting
<1>6. Head(c) \in Commands /\ Answered(c, d) /\ c # <<>>
  <2>1. Head(c) \in Commands /\ Answered(c, d) /\ Len(c) = 9
    BY <1>1, <1>4, TransferCommand
  <2>2. Len(c) # Len(<<>>)
    BY <2>1
  <2>. QED
    BY <2>1, <2>2, Zenon
<1>7. ASSUME Ahead(c \o d)', Free'
      PROVE  Waiting'
  BY <1>1, <1>3, <1>4, <1>5, <1>7 DEF Waiting
<1>8. CASE DequeueCommand
  <2>1. PICK b \in Seq(Byte) : b = c \o d
    BY ConcatProperties
  <2>2. Head(b) \in Commands
    BY <1>6, <2>1, ConcatHead
  <2>. QED
    BY <1>1, <1>5, <1>7, <1>8, <2>1, <2>2, DequeueAhead
<1>9. CASE DequeueArgument
  <2>1. \/ Ahead(c \o d)' /\ Free'
        \/ wpc' = "seek" /\ cmd' = c /\ Coming' = d
    BY <1>1, <1>5, <1>6, <1>9, ArgumentAhead
  <2>2. ASSUME wpc' = "seek", cmd' = c, Coming' = d
        PROVE  Serving'
    <3>1. queue' \in Seq(Byte) /\ int' = int /\ ~int
      BY <1>1, <1>9, HeadTailProperties DEF DequeueArgument, TypeInv, TypeOK, Free
    <3>2. cpc # "send"
      <4>1. SUFFICES ASSUME cpc = "send" PROVE FALSE
        OBVIOUS
      <4>2. Left = Size /\ toSend # <<>> /\ Size \in Nat
        BY <1>1, <4>1, SizeType DEF PlaceInv, Size
      <4>3. d = <<>>
        BY <1>5, <4>2, EmptySeq
      <4>4. Coming' = queue' \o toSend /\ toSend \in Seq(Byte)
        BY <1>3, <2>2, <4>1 DEF Coming, Rest, TypeInv, TypeOK
      <4>5. \A x, y \in Seq(Byte) : x \o y = <<>> => y = <<>>
        BY ConcatEqualIffEmpty
      <4>. QED
        BY <2>2, <3>1, <4>2, <4>3, <4>4, <4>5, Zenon
    <3>3. queue' = d
      BY <1>3, <2>2, <3>1, <3>2, ConcatEmptySeq DEF Coming, Rest
    <3>4. req.op # "write" => queue' = <<>>
      BY <1>5, <3>3, EmptySeq
    <3>5. req.op = "write" => Len(queue') + Left = Size
      <4>1. Left \in Int /\ Size \in Nat
        BY SizeType, SignedType DEF Left, Size, TypeInv, TypeOK
      <4>. QED
        BY <1>5, <3>3, <4>1
    <3>6. Owed' = Full /\ Full \in Int
      BY <1>3, <2>2, SizeType DEF Owed, Full, Size, NoStatus
    <3>. QED
      BY <1>1, <1>3, <1>4, <2>2, <3>1, <3>2, <3>4, <3>5, <3>6 DEF Serving
  <2>. QED
    BY <1>7, <2>1, <2>2
<1>10. CASE (Configure \/ EndCommand) /\ Free' /\ Coming' = Coming
  <2>1. Ahead(c \o d)'
    BY <1>5, <1>10 DEF Ahead
  <2>. QED
    BY <1>7, <1>10, <2>1
<1>. QED
  BY <1>1, <1>8, <1>9, <1>10, FreeWorker

LEMMA SizeServed ==
  ASSUME BuffersFit(Programs), req \in Request, req.op \in Transfers, cmd = CommandBytes(req)
  PROVE  TransferSize = Size
<1>1. cmd[6] = SizeCode /\ (cmd[1] = 2 <=> req.op = "track")
  <2>1. cmd[6] = SizeCode
        /\ cmd[1] = (CASE req.op = "read" -> 6 [] req.op = "write" -> 5 [] req.op = "track" -> 2)
    BY TransferCommand
  <2>. QED
    BY <2>1 DEF Transfers
<1>2. PICK x \in Int : x = 2^SizeCode
  <2>1. SizeCode \in Nat
    BY DEF SizeCode
  <2>. QED
    BY <2>1
<1>3. SectorSz = Unit * x /\ Unit \in Int
  BY <1>2, FddAssumption DEF BuffersFit
<1>4. x * Unit = SectorSz
  BY <1>3
<1>5. (2^cmd[6]) * Unit = SectorSz
  BY <1>1, <1>2, <1>4, Zenon
<1>6. (IF cmd[1] = 2 THEN NoSectors ELSE 1) = (IF req.op = "track" THEN NoSectors ELSE 1)
  BY <1>1
<1>. QED
  BY <1>5, <1>6, Zenon DEF TransferSize, Size, RequestSize

\* What is left of a transfer, while the two threads are at it.
LEMMA ServingTypes ==
  ASSUME TypeInv, PlaceInv, Serving
  PROVE  /\ Left \in 0..Size /\ Size \in Nat \ {0} /\ Expect \in Nat \ {0}
         /\ req.op \in Transfers /\ req \in Request /\ Len(queue) \in Nat
         /\ cmd[1] \in Commands \ {19} /\ (cmd[1] = 5 <=> req.op = "write")
<1>1. /\ Engaged /\ cpc \in {"busy", "read", "write", "status"} /\ req \in Request
      /\ queue \in Seq(Byte)
  BY DEF Serving, Engaged, TypeInv, TypeOK
<1>2. req.op \in Transfers /\ Size \in Nat \ {0} /\ Len(queue) \in Nat
  BY <1>1, SizeType DEF PlaceInv, Size
<1>3. Left \in 0..Size
  <2>1. CASE cpc \in {"busy", "read", "write"}
    BY <1>1, <1>2, <2>1 DEF PlaceInv
  <2>2. CASE cpc = "status"
    <3>1. bx = di /\ Signed(di) \in Int
      BY <1>1, <2>2, SignedType DEF PlaceInv, TypeInv, TypeOK
    <3>. QED
      BY <1>2, <3>1 DEF Left
  <2>. QED
    BY <1>1, <2>1, <2>2
<1>4. Expect \in Nat \ {0}
  <2>1. CASE cpc = "status"
    <3>1. Len(toSend) \in 0..6
      BY <1>1, <2>1 DEF PlaceInv
    <3>2. PICK n \in 0..6 : n = Len(toSend)
      BY <3>1
    <3>3. Expect = 7 - n
      BY <2>1, <3>2 DEF Expect, NoStatus
    <3>. QED
      BY <3>3
  <2>2. CASE cpc # "status"
    BY <1>2, <1>3, <2>2 DEF Expect, NoStatus
  <2>. QED
    BY <2>1, <2>2
<1>5. cmd[1] \in Commands \ {19} /\ (cmd[1] = 5 <=> req.op = "write")
  <2>1. /\ cmd[1] = (CASE req.op = "read" -> 6 [] req.op = "write" -> 5 [] req.op = "track" -> 2)
        /\ cmd[1] \in Commands \ {19}
    BY <1>1, <1>2, TransferCommand DEF Serving
  <2>. QED
    BY <1>2, <2>1 DEF Transfers
<1>. QED
  BY <1>1, <1>2, <1>3, <1>4, <1>5

LEMMA ServingWorker ==
  ASSUME BuffersFit(Programs), TypeInv, HandInv, PlaceInv, Serving, Worker
  PROVE  Serving' \/ wpc' = "exit"
<1>1. /\ Left \in 0..Size /\ Size \in Nat \ {0} /\ Expect \in Nat \ {0}
      /\ req.op \in Transfers /\ req \in Request /\ Len(queue) \in Nat
      /\ cmd[1] \in Commands \ {19} /\ (cmd[1] = 5 <=> req.op = "write")
  BY ServingTypes
<1>2. UNCHANGED cpu
  BY WorkerLeavesCpu
<1>3. UNCHANGED <<Engaged, Expect, Full, Left, Size, req, cpc, toSend>>
  BY <1>2 DEF cpu, Engaged, Expect, Full, Left, Size
<1>4. /\ Engaged /\ cpc # "send" /\ cmd = CommandBytes(req)
      /\ wpc \in {"idle", "seek", "transfer", "store", "raise"}
      /\ Expect = Owed + (IF int THEN 1 ELSE 0)
      /\ wpc \in {"transfer", "store", "raise"} => left \in (-7)..Size
      /\ wpc \in {"store", "raise"} => left > -7 /\ (req.op = "write" => left <= 0)
      /\ req.op # "write" => queue = <<>>
      /\ req.op = "write" =>
           Len(queue) + Left = IF wpc = "seek" THEN Size
                               ELSE IF wpc # "idle" /\ left > 0 THEN left ELSE 0
  BY DEF Serving, NoStatus
<1>5. int \in BOOLEAN /\ left \in Int /\ queue \in Seq(Byte)
  BY DEF TypeInv, TypeOK
<1>6. ~DequeueCommand
  <2>1. SUFFICES ASSUME DequeueCommand PROVE FALSE
    OBVIOUS
  <2>2. wpc = "idle" /\ queue # <<>>
    BY <2>1 DEF DequeueCommand
  <2>3. Len(queue) = 0
    BY <1>1, <1>4, <2>2
  <2>. QED
    BY <1>5, <2>2, <2>3, EmptySeq
<1>7. ~DequeueArgument /\ ~Configure
  BY <1>1, <1>4 DEF DequeueArgument, Configure
<1>8. CASE Seek
  <2>1. /\ wpc = "seek" /\ left' = TransferSize /\ wpc' \in {"transfer", "exit"}
        /\ UNCHANGED <<cmd, int, queue>>
    BY <1>8 DEF Seek
  <2>2. left' = Size
    BY <1>1, <1>4, <2>1, SizeServed
  <2>3. Owed = Full /\ Full = IF req.op = "write" THEN 7 ELSE Size + 7
    BY <2>1 DEF Owed, Full, NoStatus
  <2>4. wpc' = "transfer" => Owed' = Owed
    BY <1>1, <1>3, <2>1, <2>2, <2>3 DEF Owed, NoStatus
  <2>5. left' \in (-7)..Size
    BY <1>1, <2>2
  <2>. QED
    BY <1>1, <1>3, <1>4, <2>1, <2>2, <2>4, <2>5 DEF Serving, NoStatus
<1>9. CASE NotReady
  BY <1>9 DEF NotReady
<1>10. CASE ReadFromDrive \/ SendStatus
  <2>1. /\ wpc = "transfer" /\ wpc' = "store" /\ UNCHANGED <<cmd, int, queue, left>>
        /\ left > -7 /\ (req.op = "write" => left <= 0)
    <3>1. CASE ReadFromDrive
      BY <1>1, <1>5, <3>1 DEF ReadFromDrive
    <3>2. CASE SendStatus
      BY <1>5, <3>2 DEF SendStatus, NoStatus
    <3>. QED
      BY <1>10, <3>1, <3>2
  <2>2. Owed' = Owed
    BY <1>3, <2>1 DEF Owed
  <2>. QED
    BY <1>3, <1>4, <2>1, <2>2 DEF Serving, NoStatus
<1>11. CASE WriteToDrive
  <2>1. /\ wpc = "transfer" /\ left > 0 /\ req.op = "write" /\ queue # <<>>
        /\ queue' = Tail(queue) /\ left' = left - 1 /\ UNCHANGED <<wpc, cmd, int>>
    BY <1>1, <1>11 DEF WriteToDrive
  <2>2. Len(queue') = Len(queue) - 1 /\ Len(queue) + Left = left
    BY <1>4, <1>5, <2>1, HeadTailProperties
  <2>3. Len(queue') + Left = left'
    BY <1>1, <1>5, <2>1, <2>2
  <2>4. Owed = 7 /\ Owed' = 7
    BY <1>3, <1>5, <2>1 DEF Owed, NoStatus
  <2>5. left' \in (-7)..Size /\ left' >= 0
    BY <1>1, <1>4, <1>5, <2>1
  <2>6. Len(queue') + Left = IF left' > 0 THEN left' ELSE 0
    BY <1>5, <2>3, <2>5
  <2>. QED
    BY <1>3, <1>4, <2>1, <2>4, <2>5, <2>6 DEF Serving, NoStatus
<1>12. CASE StoreData
  <2>1. wpc = "store" /\ wpc' = "raise" /\ UNCHANGED <<cmd, int, queue, left>>
    BY <1>12 DEF StoreData
  <2>2. Owed' = Owed
    BY <1>3, <2>1 DEF Owed
  <2>. QED
    BY <1>3, <1>4, <2>1, <2>2 DEF Serving, NoStatus
<1>13. CASE RaiseInt
  <2>1. /\ wpc = "raise" /\ wpc' = "transfer" /\ int' = TRUE /\ ~int /\ left' = left - 1
        /\ UNCHANGED <<cmd, queue>>
    BY <1>13 DEF RaiseInt, HandInv
  <2>2. left \in (-7)..Size /\ left > -7 /\ (req.op = "write" => left <= 0)
    BY <1>4, <2>1
  <2>3. left' \in (-7)..Size /\ (req.op = "write" => ~(left > 0) /\ ~(left' > 0))
    BY <1>1, <1>5, <2>1, <2>2
  <2>4. Owed = left + 7 /\ Owed' = left + 6
    BY <1>3, <1>5, <2>1, <2>3 DEF Owed, NoStatus
  <2>5. Expect = Owed' + 1
    BY <1>4, <1>5, <2>1, <2>4
  <2>. QED
    BY <1>3, <1>4, <2>1, <2>3, <2>5 DEF Serving, NoStatus
<1>14. CASE EndCommand
  <2>1. wpc = "transfer" /\ left = -7 /\ wpc' = "idle" /\ UNCHANGED <<cmd, int, queue>>
    BY <1>14 DEF EndCommand, NoStatus
  <2>2. Owed = 0 /\ Owed' = 0
    BY <1>3, <2>1 DEF Owed, NoStatus
  <2>. QED
    BY <1>3, <1>4, <2>1, <2>2 DEF Serving, NoStatus
<1>. QED
  BY <1>6, <1>7, <1>8, <1>9, <1>10, <1>11, <1>12, <1>13, <1>14 DEF Worker

LEMMA AppendConcat ==
  ASSUME NEW c \in Seq(Byte), NEW q \in Seq(Byte), NEW v \in Byte
  PROVE  c \o Append(q, v) = Append(c \o q, v)
<1>1. PICK w \in Seq(Byte) : w = <<v>>
  <2>1. <<v>> \in Seq(Byte)
    OBVIOUS
  <2>. QED
    BY <2>1
<1>2. PICK s \in Seq(Byte) : s = c \o q
  BY ConcatProperties
<1>3. Append(q, v) = q \o w /\ Append(s, v) = s \o w
  BY <1>1, AppendIsConcat
<1>4. (c \o q) \o w = c \o (q \o w)
  BY ConcatOrder, Zenon
<1>. QED
  BY <1>2, <1>3, <1>4, Zenon

LEMMA RestGrows ==
  ASSUME TypeInv, NEW v \in Byte, queue' = Append(queue, v), UNCHANGED <<wpc, cmd>>
  PROVE  Rest' = Append(Rest, v)
<1>1. cmd \in Seq(Byte) /\ queue \in Seq(Byte)
  BY DEF TypeInv, TypeOK
<1>2. cmd \o Append(queue, v) = Append(cmd \o queue, v)
  BY <1>1, AppendConcat
<1>. QED
  BY <1>2 DEF Rest

LEMMA StartProtocol ==
  ASSUME BuffersFit(Programs), TypeInv, TypeInv', PlaceInv, PlaceInv', Quiet, StartRequest
  PROVE  Quiet' \/ Waiting'
<1>1. /\ cpc = "next" /\ program # <<>> /\ program \in Seq(Request)
      /\ req' = Head(program) /\ toSend' = CommandBytes(req') /\ cpc' = "send"
      /\ req' \in Request /\ UNCHANGED <<wpc, cmd, left, int, queue>>
  BY DEF StartRequest, TypeInv, TypeOK, worker
<1>2. Free' /\ Rest' = Rest
  BY <1>1 DEF Quiet, Free, Rest
<1>3. PICK r \in Seq(Byte) : r = Rest
  BY ComingType
<1>4. Coming = r \o <<>> /\ Coming' = r \o CommandBytes(req')
  BY <1>1, <1>2, <1>3 DEF Coming
<1>5. Whole(r)
  <2>1. PICK a \in Seq(Byte) : Whole(a) /\ Coming = a \o <<>>
    BY DEF Quiet, Ahead
  <2>2. a = r
    BY <1>4, <2>1, ConcatEmptySeq
  <2>. QED
    BY <2>1, <2>2
<1>6. PICK c \in Seq(Byte) : c = CommandBytes(req')
  BY <1>1, CommandType
<1>7. CASE req'.op \in Transfers
  <2>1. Engaged'
    BY <1>1, <1>7 DEF Engaged
  <2>2. Left' = Size' /\ Size' \in Nat \ {0}
    <3>1. Left' = Size'
      BY <1>1, <2>1 DEF PlaceInv
    <3>. QED
      BY <3>1, SizeType DEF Size
  <2>3. Expect' = Full'
    BY <1>1, <2>2 DEF Expect, Full
  <2>4. Ahead(c \o <<>>)'
    BY <1>4, <1>5, <1>6, ConcatEmptySeq DEF Ahead
  <2>5. <<>> \in Seq(Byte) /\ Len(<<>>) = IF req'.op = "write" THEN Size' - Left' ELSE 0
    <3>1. Size' - Left' = 0
      <4>1. PICK n \in Nat : n = Size'
        BY <2>2
      <4>2. n - n = 0
        OBVIOUS
      <4>. QED
        BY <2>2, <4>1, <4>2, Zenon
    <3>2. <<>> \in Seq(Byte) /\ Len(<<>>) = 0
      BY EmptySeq
    <3>. QED
      BY <3>1, <3>2
  <2>. QED
    BY <1>2, <1>6, <2>1, <2>3, <2>4, <2>5 DEF Waiting
<1>8. CASE req'.op \notin Transfers
  <2>1. ~Engaged'
    BY <1>1, <1>8 DEF Engaged
  <2>2. req'.op \in {"configure", "unknown"}
    BY <1>1, <1>8 DEF Request, Transfers
  <2>3. Seeking /\ req'.op = "configure" => req'.eis
    <3>1. Len(program) \in Nat \ {0} /\ req' = program[1]
      BY <1>1, EmptySeq
    <3>2. req' \in Asked(Programs)
      BY <3>1 DEF PlaceInv
    <3>. QED
      BY <3>2 DEF Seeking, SeeksImplied
  <2>4. Whole(r \o CommandBytes(req'))
    BY <1>1, <1>5, <2>2, <2>3, WholeMore
  <2>5. PICK s \in Seq(Byte) : s = r \o c
    BY ConcatProperties
  <2>6. s \o <<>> = s /\ Whole(s) /\ Coming' = s
    BY <1>4, <1>6, <2>4, <2>5, ConcatEmptySeq
  <2>7. Ahead(<<>>)'
    BY <2>6 DEF Ahead
  <2>. QED
    BY <1>2, <2>1, <2>7 DEF Quiet
<1>. QED
  BY <1>7, <1>8

LEMMA SendProtocol ==
  ASSUME TypeInv, PlaceInv, Quiet \/ Waiting \/ Serving, SendByte
  PROVE  (Quiet \/ Waiting)'
<1>1. /\ cpc = "send" /\ toSend # <<>> /\ toSend \in Seq(Byte) /\ toSend' = Tail(toSend)
      /\ queue' = Append(queue, Head(toSend))
      /\ cpc' = IF Len(toSend) > 1 THEN "send"
                ELSE CASE req.op \in {"configure", "unknown"} -> "next"
                       [] req.op = "write" -> "write"
                       [] OTHER -> "busy"
      /\ UNCHANGED <<wpc, cmd, left, int, req, bx, di>>
      /\ req.op \in Transfers \cup {"configure", "unknown"}
  BY DEF SendByte, TypeInv, TypeOK, worker, Request, Transfers
<1>2. /\ Head(toSend) \in Byte /\ Tail(toSend) \in Seq(Byte)
      /\ Len(toSend) \in Nat \ {0} /\ Len(Tail(toSend)) = Len(toSend) - 1
  BY <1>1, EmptySeq, HeadTailProperties
<1>3. Rest' = Append(Rest, Head(toSend))
  BY <1>1, <1>2, RestGrows
<1>4. Coming' = Rest' \o toSend'
  <2>1. CASE Len(toSend) > 1
    BY <1>1, <2>1 DEF Coming
  <2>2. CASE Len(toSend) = 1
    <3>1. toSend' = <<>>
      BY <1>1, <1>2, <2>2, EmptySeq
    <3>2. cpc' # "send"
      BY <1>1, <2>2
    <3>. QED
      BY <3>1, <3>2 DEF Coming
  <2>. QED
    BY <1>2, <2>1, <2>2
<1>5. Coming = Rest \o toSend
  BY <1>1 DEF Coming
<1>6. Coming' = Coming
  <2>1. Rest \in Seq(Byte)
    BY ComingType
  <2>. QED
    BY <1>1, <1>3, <1>4, <1>5, <2>1, MoveOne
<1>7. Free' = Free /\ \A b : Ahead(b) => Ahead(b)'
  BY <1>1, <1>6 DEF Free, Ahead
<1>8. UNCHANGED <<Left, Size, Full>>
  BY <1>1 DEF Left, Size, Full
<1>9. CASE Quiet
  <2>1. ~Engaged'
    BY <1>1, <1>9 DEF Quiet, Engaged
  <2>. QED
    BY <1>7, <1>9, <2>1 DEF Quiet
<1>10. CASE Waiting
  <2>1. Engaged' /\ Expect' = Expect
    <3>1. req.op \in Transfers
      BY <1>1, <1>10 DEF Waiting, Engaged
    <3>2. cpc' \in {"send", "write", "busy"}
      BY <1>1, <3>1 DEF Transfers
    <3>. QED
      BY <1>1, <1>8, <3>1, <3>2 DEF Engaged, Expect
  <2>. QED
    BY <1>1, <1>7, <1>8, <1>10, <2>1 DEF Waiting
<1>. QED
  BY <1>1, <1>9, <1>10 DEF Serving

LEMMA BusyProtocol ==
  ASSUME Quiet \/ Waiting \/ Serving, BusyWait \/ LoadData
  PROVE  (Quiet \/ Waiting \/ Serving)'
<1>1. /\ UNCHANGED <<wpc, cmd, left, int, req, bx, di, queue, toSend>>
      /\ \/ cpc = "busy" /\ cpc' = "read"
         \/ cpc' = cpc
  BY DEF BusyWait, LoadData, worker
<1>2. UNCHANGED <<Engaged, Expect, Full, Left, Size, Rest, Coming, Free, Owed>>
  <2>1. UNCHANGED <<Left, Size, Full, Rest, Free, Owed>>
    BY <1>1 DEF Left, Size, Full, Rest, Free, Owed
  <2>2. UNCHANGED Engaged
    BY <1>1 DEF Engaged
  <2>3. UNCHANGED Expect
    BY <1>1, <2>1 DEF Expect
  <2>4. UNCHANGED Coming
    BY <1>1, <2>1 DEF Coming
  <2>. QED
    BY <2>1, <2>2, <2>3, <2>4
<1>3. CASE Quiet
  BY <1>2, <1>3 DEF Quiet, Ahead
<1>4. CASE Waiting
  BY <1>1, <1>2, <1>4 DEF Waiting, Ahead
<1>5. CASE Serving
  BY <1>1, <1>2, <1>5 DEF Serving
<1>. QED
  BY <1>3, <1>4, <1>5

LEMMA WriteProtocol ==
  ASSUME TypeInv, PlaceInv, Waiting \/ Serving, WriteByte
  PROVE  (Waiting \/ Serving)'
<1>1. /\ cpc = "write" /\ cpc' \in {"write", "status"} /\ toSend' = <<>>
      /\ queue' = Append(queue, mem[bx]) /\ bx' = (bx + 1) % (2 * Half)
      /\ UNCHANGED <<req, di, wpc, cmd, left, int>>
  BY DEF WriteByte, worker
<1>2. /\ Engaged /\ req \in Request /\ req.op = "write" /\ bx \in Word /\ di \in Word
      /\ Left \in 1..Size /\ Size \in Nat
      /\ queue \in Seq(Byte) /\ Len(queue) \in Nat
  BY <1>1, SizeType, LenProperties DEF Engaged, PlaceInv, TypeInv, TypeOK, Size
<1>3. PICK v \in Byte : v = mem[bx]
  BY <1>2 DEF TypeInv, TypeOK
<1>4. Left' = Left - 1
  BY <1>1, <1>2, NextAddress DEF Left
<1>5. Engaged' /\ Size' = Size
  BY <1>1 DEF Engaged, Size
<1>6. Expect = 7 /\ Expect' = 7 /\ Full' = Full
  <2>1. Len(<<>>) = 0
    OBVIOUS
  <2>. QED
    BY <1>1, <1>2, <2>1 DEF Expect, Full, NoStatus
<1>7. CASE Waiting
  <2>1. PICK c \in Seq(Byte) : c = CommandBytes(req)
    BY <1>2, CommandType
  <2>2. PICK d \in Seq(Byte) : Ahead(c \o d) /\ Len(d) = Size - Left
    BY <1>2, <1>7, <2>1 DEF Waiting
  <2>3. PICK a \in Seq(Byte) : Whole(a) /\ Coming = a \o (c \o d)
    BY <2>2 DEF Ahead
  <2>4. PICK s \in Seq(Byte) : s = c \o d
    BY ConcatProperties
  <2>5. Append(s, v) = c \o Append(d, v) /\ Append(s, v) \in Seq(Byte)
    BY <2>4, AppendConcat, AppendProperties
  <2>6. a \o Append(s, v) = Append(a \o s, v)
    BY AppendConcat
  <2>7. Coming' = Append(Coming, v)
    <3>1. PICK r \in Seq(Byte) : r = Rest
      BY ComingType
    <3>2. Rest' = Append(r, v) /\ Append(r, v) \in Seq(Byte)
      BY <1>1, <1>3, <3>1, RestGrows, AppendProperties
    <3>3. Coming = r \o <<>> /\ Coming' = Append(r, v) \o <<>>
      BY <1>1, <3>1, <3>2 DEF Coming
    <3>4. \A x \in Seq(Byte) : x \o <<>> = x
      BY ConcatEmptySeq
    <3>. QED
      BY <3>2, <3>3, <3>4, Zenon
  <2>8. Coming' = a \o (c \o Append(d, v))
    BY <2>3, <2>4, <2>5, <2>6, <2>7, Zenon
  <2>9. Append(d, v) \in Seq(Byte) /\ Len(Append(d, v)) = Size - Left + 1
    BY <2>2, AppendProperties
  <2>10. Ahead(c \o Append(d, v))'
    BY <2>3, <2>8 DEF Ahead
  <2>11. Free' /\ Len(Append(d, v)) = Size' - Left'
    BY <1>1, <1>2, <1>4, <1>5, <1>7, <2>9 DEF Waiting, Free
  <2>. QED
    BY <1>1, <1>2, <1>5, <1>6, <1>7, <2>1, <2>9, <2>10, <2>11 DEF Waiting
<1>8. CASE Serving
  <2>1. Len(queue') = Len(queue) + 1
    BY <1>1, <1>2, <1>3, AppendProperties
  <2>2. Len(queue') + Left' = Len(queue) + Left
    <3>1. Left \in Int
      BY <1>2
    <3>. QED
      BY <1>2, <1>4, <2>1, <3>1
  <2>3. Owed' = Owed
    BY <1>1, <1>6 DEF Owed
  <2>. QED
    BY <1>1, <1>2, <1>5, <1>6, <1>8, <2>2, <2>3 DEF Serving
<1>. QED
  BY <1>7, <1>8

\* Only a transfer in hand has the guest take a byte; the last one ends it.
LEMMA ClearProtocol ==
  ASSUME TypeInv, TypeInv', HandInv, PlaceInv, PlaceInv', Quiet \/ Waiting \/ Serving, ClearInt
  PROVE  (Quiet \/ Waiting \/ Serving)'
<1>1. /\ int /\ int' = FALSE /\ al # <<>> /\ UNCHANGED <<wpc, cmd, left, queue>>
  BY DEF ClearInt, HandInv, worker
<1>2. Serving
  BY <1>1 DEF Quiet, Waiting, Free
<1>3. /\ Left \in 0..Size /\ Size \in Nat \ {0} /\ Expect \in Nat \ {0}
      /\ req.op \in Transfers /\ req \in Request /\ Len(queue) \in Nat
      /\ queue \in Seq(Byte)
  BY <1>2, ServingTypes DEF TypeInv, TypeOK
<1>4. Expect = Owed + 1 /\ Owed \in Int
  <2>1. Expect = Owed + 1
    BY <1>1, <1>2 DEF Serving
  <2>2. left \in Int /\ Full \in Int
    BY <1>3 DEF TypeInv, TypeOK, Full, NoStatus
  <2>. QED
    BY <2>1, <2>2 DEF Owed, NoStatus
<1>5. ASSUME req' = req, req.op = "write" => Left' = Left, cpc' \in {"read", "status"},
             Expect' = Expect - 1
      PROVE  Serving'
  <2>1. UNCHANGED <<Size, Full, Owed>>
    BY <1>1, <1>5 DEF Size, Full, Owed
  <2>2. Engaged' /\ Expect' = Owed'
    BY <1>4, <1>5, <2>1 DEF Engaged
  <2>. QED
    BY <1>1, <1>2, <1>5, <2>1, <2>2 DEF Serving
<1>6. CASE cpc = "read"
  <2>1. /\ Left' = Left - 1 /\ toSend' = toSend /\ req' = req
        /\ cpc' = IF Left = 1 THEN "status" ELSE "read"
    BY <1>6, StorePlace DEF ClearInt, StoreByte
  <2>2. toSend = <<>> /\ req.op # "write"
    BY <1>6 DEF PlaceInv, Engaged
  <2>3. Expect' = Expect - 1
    <3>1. Expect = Left + 7
      BY <1>6, <2>2 DEF Expect, NoStatus
    <3>2. CASE Left = 1
      <4>1. Expect' = 7 - Len(<<>>) /\ Len(<<>>) = 0
        BY <2>1, <2>2, <3>2 DEF Expect, NoStatus
      <4>. QED
        BY <3>1, <3>2, <4>1
    <3>3. CASE Left # 1
      <4>1. Expect' = Left' + 7
        BY <2>1, <2>2, <3>3 DEF Expect, NoStatus
      <4>. QED
        BY <1>3, <2>1, <3>1, <4>1
    <3>. QED
      BY <3>2, <3>3
  <2>. QED
    BY <1>5, <2>1, <2>2, <2>3
<1>7. ASSUME cpc = "status", Len(toSend) = 6
      PROVE  Free' /\ Rest' = <<>>
  <2>1. Owed = 0
    BY <1>4, <1>7 DEF Expect, NoStatus
  <2>2. wpc = "idle" \/ (wpc = "transfer" /\ left = -7)
    <3>1. /\ wpc \in {"transfer", "store", "raise"} => left \in (-7)..Size
          /\ wpc \in {"store", "raise"} => left > -7
          /\ wpc \in {"idle", "seek", "transfer", "store", "raise"}
      BY <1>2 DEF Serving, NoStatus
    <3>2. wpc # "seek"
      BY <1>3, <2>1 DEF Owed, Full, NoStatus
    <3>3. wpc # "idle" => left = -7
      <4>1. left \in Int
        BY DEF TypeInv, TypeOK
      <4>. QED
        BY <2>1, <3>2, <4>1 DEF Owed, NoStatus
    <3>. QED
      BY <3>1, <3>2, <3>3
  <2>3. queue = <<>>
    <3>1. Left = 0
      <4>1. bx = di /\ Signed(di) \in Int
        BY <1>2, <1>7, SignedType DEF PlaceInv, Serving, TypeInv, TypeOK
      <4>. QED
        BY <4>1 DEF Left
    <3>2. req.op = "write" => Len(queue) = 0
      BY <1>2, <1>3, <2>2, <3>1 DEF Serving
    <3>. QED
      BY <1>2, <1>3, <3>2, EmptySeq DEF Serving
  <2>. QED
    BY <1>1, <2>2, <2>3 DEF Free, Rest, NoStatus
<1>8. CASE cpc # "read"
  <2>1. /\ cpc = "status"
        /\ \/ /\ Len(toSend) < 6 /\ Len(toSend') = Len(toSend) + 1
              /\ UNCHANGED <<cpc, req, bx, di>>
           \/ /\ Len(toSend) = 6
              /\ cpc' = "next" /\ toSend' = <<>>
           \/ /\ Len(toSend) = 6 /\ req'.op = req.op
              /\ cpc' = "send" /\ toSend' = CommandBytes(req')
    BY <1>8, NextPlace
  <2>2. <<>> \in Seq(Byte) /\ <<>> \o <<>> = <<>>
    BY EmptySeq, ConcatEmptySeq
  <2>3. CASE Len(toSend') = Len(toSend) + 1 /\ UNCHANGED <<cpc, req, bx, di>>
    <3>1. Left' = Left
      BY <2>3 DEF Left
    <3>2. Len(toSend) \in Nat
      BY LenProperties DEF TypeInv, TypeOK
    <3>3. Expect' = Expect - 1
      BY <2>1, <2>3, <3>2 DEF Expect, NoStatus
    <3>. QED
      BY <1>5, <2>1, <2>3, <3>1, <3>3
  <2>4. CASE Len(toSend) = 6 /\ cpc' = "next"
    <3>1. Free' /\ Rest' = <<>> /\ ~Engaged'
      BY <1>7, <2>1, <2>4 DEF Engaged
    <3>2. Coming' = <<>>
      BY <2>2, <2>4, <3>1 DEF Coming
    <3>3. Ahead(<<>>)'
      BY <2>2, <3>2, WholeEmpty DEF Ahead
    <3>. QED
      BY <3>1, <3>3 DEF Quiet
  <2>5. CASE /\ Len(toSend) = 6 /\ req'.op = req.op
             /\ cpc' = "send" /\ toSend' = CommandBytes(req')
    <3>1. Free' /\ Rest' = <<>> /\ Engaged'
      BY <1>3, <1>7, <2>1, <2>5 DEF Engaged
    <3>2. PICK c \in Seq(Byte) : c = CommandBytes(req')
      BY CommandType DEF TypeInv, TypeOK
    <3>3. Coming' = <<>> \o c /\ c \o <<>> = c
      BY <2>5, <3>1, <3>2, ConcatEmptySeq DEF Coming
    <3>4. Ahead(c \o <<>>)'
      BY <2>2, <3>3, WholeEmpty DEF Ahead
    <3>5. Left' = Size' /\ Size' \in Nat \ {0}
      <4>1. Left' = Size'
        BY <2>5, <3>1 DEF PlaceInv
      <4>. QED
        BY <4>1, SizeType DEF Size
    <3>6. Expect' = Full'
      BY <2>5, <3>5 DEF Expect, Full
    <3>7. Len(<<>>) = IF req'.op = "write" THEN Size' - Left' ELSE 0
      <4>1. Size' - Left' = 0
        <5>1. PICK n \in Nat : n = Size'
          BY <3>5
        <5>2. n - n = 0
          OBVIOUS
        <5>. QED
          BY <3>5, <5>1, <5>2, Zenon
      <4>2. Len(<<>>) = 0
        BY EmptySeq
      <4>. QED
        BY <4>1, <4>2
    <3>. QED
      BY <2>2, <3>1, <3>2, <3>4, <3>6, <3>7 DEF Waiting
  <2>. QED
    BY <2>1, <2>3, <2>4, <2>5
<1>. QED
  BY <1>6, <1>8

LEMMA ProtocolInit == Init => ProtocolInv
<1> SUFFICES ASSUME Init PROVE Quiet
  BY DEF ProtocolInv
<1>1. /\ wpc = "idle" /\ cpc = "next" /\ int = FALSE /\ queue = <<>>
  BY DEF Init
<1>2. <<>> \in Seq(Byte) /\ <<>> \o <<>> = <<>>
  BY EmptySeq, ConcatEmptySeq
<1>3. ~Engaged /\ Free
  BY <1>1 DEF Engaged, Free
<1>4. Coming = <<>>
  BY <1>1, <1>2 DEF Coming, Rest
<1>. QED
  BY <1>2, <1>3, <1>4, WholeEmpty DEF Quiet, Ahead

LEMMA ProtocolStep ==
  ASSUME BuffersFit(Programs), TypeInv, TypeInv', HandInv, PlaceInv, PlaceInv', ProtocolInv,
         [Next]_vars
  PROVE  ProtocolInv'
<1>1. CASE UNCHANGED vars
  <2>1. UNCHANGED <<Engaged, Expect, Full, Owed, Left, Size, Free, Coming>>
    BY <1>1 DEF vars, worker, cpu, Engaged, Expect, Full, Owed, Left, Size, Free, Coming, Rest
  <2>2. UNCHANGED <<wpc, cpc, req, cmd, int, left, queue>>
    BY <1>1 DEF vars, worker, cpu
  <2>3. UNCHANGED <<Quiet, Waiting, Serving>>
    BY <2>1, <2>2 DEF Quiet, Waiting, Serving, Ahead
  <2>. QED
    BY <2>2, <2>3 DEF ProtocolInv
<1>2. CASE Worker
  <2>1. wpc # "exit"
    BY <1>2 DEF Worker, DequeueCommand, DequeueArgument, Configure, Seek, NotReady,
                ReadFromDrive, WriteToDrive, SendStatus, StoreData, RaiseInt, EndCommand
  <2>. QED
    BY <1>2, <2>1, QuietWorker, WaitingWorker, ServingWorker DEF ProtocolInv
<1>3. CASE Cpu
  <2>1. wpc # "exit" \/ wpc' = "exit"
    BY <1>3 DEF Cpu, StartRequest, SendByte, BusyWait, WriteByte, LoadData, ClearInt, worker
  <2>2. ASSUME Quiet \/ Waiting \/ Serving
        PROVE  (Quiet \/ Waiting \/ Serving)'
    <3>1. CASE StartRequest
      <4>1. ~Engaged
        BY <3>1 DEF StartRequest, Engaged
      <4>2. Quiet
        BY <2>2, <4>1 DEF Waiting, Serving
      <4>. QED
        BY <3>1, <4>2, StartProtocol
    <3>2. CASE WriteByte
      <4>1. Engaged
        BY <3>2 DEF WriteByte, Engaged
      <4>2. Waiting \/ Serving
        BY <2>2, <4>1 DEF Quiet
      <4>. QED
        BY <3>2, <4>2, WriteProtocol
    <3>. QED
      BY <1>3, <2>2, <3>1, <3>2, SendProtocol, BusyProtocol, ClearProtocol DEF Cpu
  <2>. QED
    BY <2>1, <2>2 DEF ProtocolInv
<1>. QED
  BY <1>1, <1>2, <1>3 DEF Next

LEMMA ProtocolSafe ==
  ASSUME TypeInv, HandInv, PlaceInv, ProtocolInv
  PROVE  NothingOverwritten
<1>. SUFFICES ASSUME wpc = "idle"
              PROVE  /\ queue # <<>> /\ Head(queue) \notin Commands => ~int
                     /\ queue = <<>> /\ cpc = "next" => ~int /\ Len(sent) = Len(received)
  BY DEF NothingOverwritten
<1>1. Quiet \/ Waiting \/ Serving
  BY DEF ProtocolInv
<1>2. ASSUME queue # <<>>
      PROVE  ~int
  <2>1. CASE Serving
    <3>1. Len(queue) = 0 /\ queue \in Seq(Byte)
      <4>1. Left \in 0..Size /\ Size \in Nat /\ Len(queue) \in Nat /\ queue \in Seq(Byte)
        BY <2>1, ServingTypes DEF TypeInv, TypeOK
      <4>2. CASE req.op = "write"
        <5>1. Len(queue) + Left = 0
          BY <2>1, <4>2 DEF Serving
        <5>. QED
          BY <4>1, <5>1
      <4>3. CASE req.op # "write"
        BY <2>1, <4>1, <4>3, EmptySeq DEF Serving
      <4>. QED
        BY <4>2, <4>3
    <3>. QED
      BY <1>2, <3>1, EmptySeq
  <2>. QED
    BY <1>1, <2>1 DEF Quiet, Waiting, Free
<1>3. ASSUME cpc = "next"
      PROVE  ~int
  BY <1>1, <1>3 DEF Quiet, Waiting, Serving, Free, Engaged
<1>4. ~int => Len(sent) = Len(received)
  BY DEF HandInv
<1>. QED
  BY <1>2, <1>3, <1>4

HandshakeInv == TypeInv /\ HandInv /\ PlaceInv /\ ProtocolInv

LEMMA HandshakeInit == Init => HandshakeInv
BY InitTypes, InitHand, PlaceInit, ProtocolInit DEF HandshakeInv

LEMMA HandshakeStep ==
  ASSUME BuffersFit(Programs), HandshakeInv, [Next]_vars
  PROVE  HandshakeInv' /\ [Channel!Next]_<<sent, received>>
<1>1. TypeInv /\ HandInv /\ PlaceInv /\ ProtocolInv /\ NothingOverwritten
  BY ProtocolSafe DEF HandshakeInv
<1>2. TypeInv' /\ HandInv' /\ [Channel!Next]_<<sent, received>>
  <2>1. CASE UNCHANGED vars
    BY <1>1, <2>1 DEF TypeInv, TypeOK, CommandInv, HandInv, vars, worker, cpu
  <2>2. CASE Next
    BY <1>1, <2>2, WorkerTypes, CpuTypes, WorkerHand, CpuHand DEF Next
  <2>. QED
    BY <2>1, <2>2
<1>3. PlaceInv'
  BY <1>1, PlaceStep
<1>4. ProtocolInv'
  BY <1>1, <1>2, <1>3, ProtocolStep
<1>. QED
  BY <1>2, <1>3, <1>4 DEF HandshakeInv

\* A command that the worker does not know never overwrites a byte the guest still
\* has to read, and every transfer leaves the register and the queue empty:
\* whatever the interleaving, if the buffers of the requests fit.
THEOREM OverwriteSafe == BuffersFit(Programs) /\ Spec => []NothingOverwritten
<1>. SUFFICES ASSUME BuffersFit(Programs) PROVE Spec => []NothingOverwritten
  OBVIOUS
<1>1. HandshakeInv /\ [Next]_vars => HandshakeInv'
  BY HandshakeStep
<1>2. HandshakeInv => NothingOverwritten
  BY ProtocolSafe DEF HandshakeInv
<1>. QED
  BY <1>1, <1>2, HandshakeInit, PTL DEF Spec

\* So every byte the worker hands over is received once and in order:
\* write_datareg and read_datareg implement DataChannel.
THEOREM HandOffSafe == BuffersFit(Programs) /\ Spec => HandOff
<1>. SUFFICES ASSUME BuffersFit(Programs) PROVE Spec => HandOff
  OBVIOUS
<1>1. HandshakeInv /\ [Next]_vars => HandshakeInv' /\ [Channel!Next]_<<sent, received>>
  BY HandshakeStep
<1>. QED
  BY <1>1, HandshakeInit, InitHand, PTL DEF Spec, HandOff, Channel!Spec

-----------------------------------------------------------------------------
(* Where the drive stands, for a guest that has the worker seek.            *)

\* Until the worker seeks, the next command it executes enables it to.
Enabling ==
  \/ wpc \in {"args", "seek"} /\ cmd[1] = 19
  \/ wpc = "idle" /\ queue # <<>> /\ Head(queue) = 19
  \/ wpc = "idle" /\ queue = <<>> /\ cpc = "send" /\ Head(toSend) = 19
  \/ wpc = "idle" /\ queue = <<>> /\ cpc = "next"
     /\ (program # <<>> => program[1].op = "configure")
SeekingInv == eis \/ Enabling

LEMMA SeekingInit == Seeking /\ Init => SeekingInv
<1> SUFFICES ASSUME Seeking, Init PROVE SeekingInv
  OBVIOUS
<1>1. wpc = "idle" /\ queue = <<>> /\ cpc = "next" /\ program \in Programs
  BY DEF Init
<1>2. program # <<>> => program[1].op = "configure"
  BY <1>1, Zenon DEF Seeking, SeeksImplied
<1>. QED
  BY <1>1, <1>2 DEF SeekingInv, Enabling

\* A guest that seeks only configures the worker to.
LEMMA ConfigureEnables ==
  ASSUME Seeking, TypeInv, PlaceInv, ProtocolInv, Configure
  PROVE  eis'
<1>1. wpc = "seek" /\ cmd[1] = 19 /\ eis' = ((cmd[3] \div 64) % 2 = 1)
  BY DEF Configure
<1>2. ~Serving
  BY <1>1, ServingTypes
<1>3. cmd[3] = 64
  BY <1>1, <1>2 DEF ProtocolInv, Quiet, Waiting, Free
<1>4. (64 \div 64) % 2 = 1
  OBVIOUS
<1>. QED
  BY <1>1, <1>3, <1>4, Zenon

LEMMA SeekingWorker ==
  ASSUME Seeking, TypeInv, PlaceInv, ProtocolInv, SeekingInv, Worker
  PROVE  SeekingInv'
<1>1. CASE Configure
  BY <1>1, ConfigureEnables DEF SeekingInv
<1>2. CASE ~Configure /\ eis
  <2>1. eis' = eis
    BY <1>2 DEF Worker, DequeueCommand, DequeueArgument, Seek, NotReady, ReadFromDrive,
                WriteToDrive, SendStatus, StoreData, RaiseInt, EndCommand, worker
  <2>. QED
    BY <1>2, <2>1 DEF SeekingInv
<1>3. CASE ~Configure /\ ~eis
  <2>1. Enabling
    BY <1>3 DEF SeekingInv
  <2>2. DequeueCommand \/ DequeueArgument
    BY <1>3, <2>1 DEF Worker, Enabling, Seek, NotReady, ReadFromDrive, WriteToDrive,
                      SendStatus, StoreData, RaiseInt, EndCommand
  <2>3. CASE DequeueCommand
    <3>1. Head(queue) = 19 /\ 19 \in Commands
      BY <2>1, <2>3 DEF DequeueCommand, Enabling, Commands
    <3>2. wpc' = "args" /\ cmd' = <<19>>
      BY <2>3, <3>1 DEF DequeueCommand
    <3>3. cmd'[1] = 19
      BY <3>2
    <3>. QED
      BY <3>2, <3>3 DEF SeekingInv, Enabling
  <2>4. CASE DequeueArgument
    <3>1. wpc = "args" /\ cmd[1] = 19 /\ queue # <<>> /\ wpc' \in {"args", "seek"}
          /\ cmd' = Append(cmd, Head(queue))
      BY <2>1, <2>4 DEF DequeueArgument, Enabling
    <3>2. cmd \in Seq(Byte) /\ queue \in Seq(Byte) /\ Len(cmd) \in 1..Arguments(cmd[1])
      BY <3>1 DEF TypeInv, TypeOK, CommandInv
    <3>3. Head(queue) \in Byte
      BY <3>1, <3>2, HeadTailProperties
    <3>4. cmd'[1] = cmd[1]
      <4>1. 1 \in 1..Len(cmd)
        BY <3>1, <3>2 DEF Arguments
      <4>. QED
        BY <3>1, <3>2, <3>3, <4>1, AppendProperties
    <3>. QED
      BY <3>1, <3>4 DEF SeekingInv, Enabling
  <2>. QED
    BY <2>2, <2>3, <2>4
<1>. QED
  BY <1>1, <1>2, <1>3

LEMMA SeekingCpu ==
  ASSUME Seeking, TypeInv, PlaceInv, SeekingInv, Cpu
  PROVE  SeekingInv'
<1>1. UNCHANGED <<eis, wpc, cmd>>
  BY DEF Cpu, StartRequest, SendByte, BusyWait, WriteByte, LoadData, ClearInt, worker
<1>2. CASE eis \/ wpc \in {"args", "seek"}
  BY <1>1, <1>2 DEF SeekingInv, Enabling
<1>3. CASE wpc = "idle" /\ queue # <<>> /\ Head(queue) = 19
  <2>1. queue' # <<>> /\ Head(queue') = 19
    <3>1. queue \in Seq(Byte)
      BY DEF TypeInv, TypeOK
    <3>2. \A v \in Byte : Append(queue, v) # <<>> /\ Head(Append(queue, v)) = Head(queue)
      BY <1>3, <3>1, AppendProperties, EmptySeq
    <3>3. CASE SendByte
      <4>1. queue' = Append(queue, Head(toSend)) /\ Head(toSend) \in Byte
        BY <3>3, HeadTailProperties DEF SendByte, TypeInv, TypeOK
      <4>. QED
        BY <1>3, <3>2, <4>1
    <3>4. CASE WriteByte
      <4>1. queue' = Append(queue, mem[bx]) /\ mem[bx] \in Byte
        BY <3>4 DEF WriteByte, TypeInv, TypeOK
      <4>. QED
        BY <1>3, <3>2, <4>1
    <3>5. CASE ~SendByte /\ ~WriteByte
      <4>1. queue' = queue
        BY <3>5 DEF Cpu, StartRequest, BusyWait, LoadData, ClearInt
      <4>. QED
        BY <1>3, <4>1
    <3>. QED
      BY <3>3, <3>4, <3>5
  <2>. QED
    BY <1>1, <1>3, <2>1 DEF SeekingInv, Enabling
<1>4. CASE wpc = "idle" /\ queue = <<>> /\ cpc = "send" /\ Head(toSend) = 19
  <2>1. SendByte
    BY <1>4 DEF Cpu, StartRequest, BusyWait, WriteByte, LoadData, ClearInt, PlaceInv
  <2>2. queue' = Append(<<>>, 19)
    BY <1>4, <2>1 DEF SendByte
  <2>3. queue' # <<>> /\ Head(queue') = 19
    BY <2>2
  <2>. QED
    BY <1>1, <1>4, <2>3 DEF SeekingInv, Enabling
<1>5. CASE /\ wpc = "idle" /\ queue = <<>> /\ cpc = "next"
           /\ program # <<>> => program[1].op = "configure"
  <2>1. StartRequest
    BY <1>5 DEF Cpu, SendByte, BusyWait, WriteByte, LoadData, ClearInt, PlaceInv
  <2>2. program # <<>> /\ toSend' = CommandBytes(Head(program)) /\ cpc' = "send"
        /\ queue' = queue
    BY <2>1 DEF StartRequest
  <2>3. Head(program).op = "configure"
    <3>1. program \in Seq(Request)
      BY DEF TypeInv, TypeOK
    <3>2. Head(program) = program[1]
      BY <2>2, <3>1, HeadTailProperties
    <3>. QED
      BY <1>5, <2>2, <3>2
  <2>4. Head(toSend') = 19
    <3>1. toSend' = <<19, 0, IF Head(program).eis THEN 64 ELSE 0, 0>>
      BY <2>2, <2>3 DEF CommandBytes
    <3>. QED
      BY <3>1
  <2>. QED
    BY <1>1, <1>5, <2>2, <2>4 DEF SeekingInv, Enabling
<1>. QED
  BY <1>2, <1>3, <1>4, <1>5 DEF SeekingInv, Enabling

\* The bytes of the command in hand that the drive has moved past.
Transferring == wpc \in {"transfer", "store", "raise"}
CommandStart == Linear(At(cmd[3], cmd[4], TargetSector))
Moved ==
  IF left <= 0 THEN TransferSize
  ELSE TransferSize - left + (IF wpc = "transfer" THEN 0 ELSE 1)

\* Between transfers the file is at the start of the sector the driver believes to
\* be on; during one it is at the byte the driver believes to be at, as many after
\* the start of the sector asked for as were transferred, inside the disk.
PositionInv ==
  /\ Len(image) >= DiskSize
  /\ wpc \in {"idle", "args", "seek"} => filePos = Linear(At(pos.track, pos.head, pos.sector))
  /\ Transferring =>
       /\ Slot = 0 /\ InRange(cmd[3], cmd[4], TargetSector) /\ pos \in Position
       /\ TransferSize \in {SectorSz, SectorSz * NoSectors}
       /\ CommandStart + TransferSize < DiskSize
       /\ filePos = Linear(pos) /\ filePos = CommandStart + Moved

LEMMA PositionInit == InsideImage(Programs) /\ Init => PositionInv
<1> SUFFICES ASSUME InsideImage(Programs), Init PROVE PositionInv
  OBVIOUS
<1>1. wpc = "idle" /\ image = Image /\ filePos = 0
      /\ pos.track = 0 /\ pos.head = 0 /\ pos.sector = 1
  BY DEF Init
<1>2. Linear(At(0, 0, 1)) = ((0 * NoHeads + 0) * NoSectors + (1 - 1)) * SectorSz + 0
  BY DEF Linear, At
<1>3. Linear(At(0, 0, 1)) = 0
  <2>1. 0 * NoHeads = 0 /\ 0 * NoSectors = 0 /\ 0 * SectorSz = 0
    BY GeometryAssumption
  <2>. QED
    BY <1>2, <2>1
<1>4. Len(image) >= DiskSize
  BY <1>1, Zenon DEF InsideImage
<1>. QED
  BY <1>1, <1>3, <1>4 DEF PositionInv, Transferring

\* What the transfer of a command covers, seen from the request it serves.
LEMMA ServedCommand ==
  ASSUME BuffersFit(Programs), TypeInv, PlaceInv, Serving
  PROVE  /\ cmd[2] = req.slot /\ cmd[3] = req.track /\ cmd[4] = req.head
         /\ TargetSector = Target(req) /\ CommandStart = Start(req)
         /\ TransferSize = Size /\ Size \in Nat \ {0} /\ req \in Request
<1>1. req \in Request /\ req.op \in Transfers /\ Size \in Nat \ {0} /\ cmd = CommandBytes(req)
  BY ServingTypes DEF Serving
<1>2. /\ cmd[2] = req.slot /\ cmd[3] = req.track /\ cmd[4] = req.head /\ cmd[5] = req.sector
      /\ cmd[1] = (CASE req.op = "read" -> 6 [] req.op = "write" -> 5 [] req.op = "track" -> 2)
  BY <1>1, TransferCommand
<1>3. cmd[1] = 2 <=> req.op = "track"
  BY <1>1, <1>2 DEF Transfers
<1>4. TargetSector = Target(req)
  BY <1>2, <1>3 DEF TargetSector, Target
<1>5. CommandStart = Start(req)
  BY <1>2, <1>4, Zenon DEF CommandStart, Start
<1>6. TransferSize = Size
  BY <1>1, SizeServed
<1>. QED
  BY <1>1, <1>2, <1>4, <1>5, <1>6

\* A request that is clear stays inside the disk with its own sector.
LEMMA ClearTransfer ==
  ASSUME NEW r \in Request, r.op \in Transfers, r.count \in 1..255, Clear(r),
         InRange(r.track, r.head, Target(r))
  PROVE  Start(r) + RequestSize(r) < DiskSize
<1>1. r.sector \in 0..255
  BY DEF Request, Byte
<1>2. r.sector \in Sectors(r)
  <2>1. 0 \in 0..(r.count - 1) /\ (r.sector + 0) % 256 = r.sector
    BY <1>1
  <2>. QED
    BY <2>1 DEF Sectors
<1>3. StaysInside([r EXCEPT !.sector = r.sector])
  BY <1>2, Zenon DEF Clear
<1>4. [r EXCEPT !.sector = r.sector] = r
  BY DEF Request
<1>5. StaysInside(r)
  BY <1>3, <1>4, Zenon
<1>. QED
  BY <1>5, Zenon DEF StaysInside

LEMMA CommandKept ==
  ASSUME cmd' = cmd
  PROVE  /\ CommandStart' = CommandStart /\ TransferSize' = TransferSize
         /\ TargetSector' = TargetSector /\ Slot' = Slot
BY DEF CommandStart, TransferSize, TargetSector, Slot

\* Types of what the invariant speaks of.
LEMMA TransferTypes ==
  ASSUME TypeInv, PositionInv, Transferring
  PROVE  /\ CommandStart \in Nat /\ TransferSize \in Nat \ {0} /\ DiskSize \in Nat
         /\ left \in Int /\ filePos \in Nat /\ Len(image) \in Nat /\ image \in Seq(Byte)
         /\ pos \in Position /\ Linear(pos) \in 0..(DiskSize - 1)
         /\ filePos = Linear(pos) /\ filePos = CommandStart + Moved
         /\ CommandStart + TransferSize < DiskSize /\ Len(image) >= DiskSize
<1>1. pos \in Position /\ Linear(pos) \in 0..(DiskSize - 1)
  BY LinearInDisk DEF PositionInv
<1>2. DiskSize \in Nat
  <2>1. NoTracks \in Nat /\ NoHeads \in Nat /\ NoSectors \in Nat /\ SectorSz \in Nat
    BY GeometryAssumption
  <2>2. SectorSz * NoSectors \in Nat
    BY <2>1, ProductPos
  <2>3. SectorSz * NoSectors * NoHeads \in Nat
    BY <2>1, <2>2, ProductPos
  <2>. QED
    BY <2>1, <2>3, ProductPos DEF DiskSize
<1>3. TransferSize \in Nat \ {0}
  <2>1. SectorSz \in Nat \ {0} /\ NoSectors \in Nat \ {0}
    BY GeometryAssumption
  <2>2. SectorSz * NoSectors \in Nat \ {0}
    BY <2>1, SMTT(20)
  <2>. QED
    BY <2>1, <2>2 DEF PositionInv
<1>4. CommandStart \in Nat
  <2>1. At(cmd[3], cmd[4], TargetSector) \in Position
    BY GeometryAssumption DEF PositionInv, InRange, At, Position
  <2>2. Linear(At(cmd[3], cmd[4], TargetSector)) \in 0..(DiskSize - 1)
    BY <2>1, LinearInDisk
  <2>. QED
    BY <1>2, <2>2 DEF CommandStart
<1>5. left \in Int /\ filePos \in Nat /\ image \in Seq(Byte) /\ Len(image) \in Nat
  BY LenProperties DEF TypeInv, TypeOK
<1>. QED
  BY <1>1, <1>2, <1>3, <1>4, <1>5 DEF PositionInv

LEMMA SeekPosition ==
  ASSUME BuffersFit(Programs), InsideImage(Programs), TypeInv, PlaceInv, ProtocolInv,
         SeekingInv, PositionInv, Seek
  PROVE  PositionInv'
<1>1. /\ wpc = "seek" /\ cmd[1] # 19 /\ wpc' \in {"transfer", "exit"}
      /\ UNCHANGED <<cmd, image>> /\ left' = TransferSize /\ Len(image) >= DiskSize
  BY DEF Seek, PositionInv
<1>2. eis
  BY <1>1 DEF SeekingInv, Enabling
<1>3. Serving
  BY <1>1 DEF ProtocolInv, Quiet, Waiting, Free
<1>4. CASE wpc' = "exit"
  BY <1>1, <1>4 DEF PositionInv, Transferring
<1>5. CASE wpc' = "transfer"
  <2>1. /\ Slot = 0 /\ InRange(cmd[3], cmd[4], TargetSector)
        /\ pos' = At(cmd[3], cmd[4], TargetSector)
    BY <1>2, <1>5 DEF Seek
  <2>2. pos' \in Position
    BY <2>1, GeometryAssumption DEF InRange, At, Position
  <2>3. filePos' = Linear(pos')
    <3>1. SeekInv
      BY DEF SeekInv, PositionInv
    <3>2. [Next]_vars
      BY DEF Next, Worker
    <3>. QED
      BY <1>1, <1>2, <1>5, <3>1, <3>2, SeekStep
  <2>4. Linear(pos') = CommandStart /\ CommandStart \in Int
    <3>1. Linear(pos') \in 0..(DiskSize - 1)
      BY <2>2, LinearInDisk
    <3>2. Linear(pos') = CommandStart
      BY <2>1, Zenon DEF CommandStart
    <3>. QED
      BY <3>1, <3>2
  <2>5. /\ cmd[3] = req.track /\ cmd[4] = req.head
        /\ TargetSector = Target(req) /\ CommandStart = Start(req)
        /\ TransferSize = Size /\ Size \in Nat \ {0} /\ req \in Request
    BY <1>3, ServedCommand
  <2>6. CommandStart + TransferSize < DiskSize
    <3>1. req.op \in Transfers /\ req.count \in 1..255 /\ Clear(req)
      BY <1>3 DEF Serving, PlaceInv, Room, Owing
    <3>2. Start(req) + RequestSize(req) < DiskSize
      BY <2>1, <2>5, <3>1, ClearTransfer
    <3>. QED
      BY <2>5, <3>2 DEF Size
  <2>7. TransferSize \in {SectorSz, SectorSz * NoSectors}
    <3>1. Size \in {SectorSz, SectorSz * NoSectors}
      BY GeometryAssumption DEF Size, RequestSize
    <3>. QED
      BY <2>5, <3>1
  <2>8. filePos' = CommandStart + Moved'
    <3>1. Moved' = 0
      BY <1>1, <1>5, <2>5, CommandKept DEF Moved
    <3>. QED
      BY <2>3, <2>4, <3>1
  <2>. QED
    BY <1>1, <1>5, <2>1, <2>2, <2>3, <2>6, <2>7, <2>8, CommandKept
       DEF PositionInv, Transferring
<1>. QED
  BY <1>1, <1>4, <1>5

LEMMA ReadPosition ==
  ASSUME TypeInv, PositionInv, ReadFromDrive
  PROVE  PositionInv'
<1>1. /\ wpc = "transfer" /\ left > 0 /\ wpc' = "store" /\ pos' = AdvancePos(pos)
      /\ filePos' = IF filePos < Len(image) THEN filePos + 1 ELSE filePos
      /\ UNCHANGED <<cmd, left, image>> /\ Transferring
  BY DEF ReadFromDrive, Transferring
<1>2. /\ CommandStart \in Nat /\ TransferSize \in Nat \ {0} /\ DiskSize \in Nat
      /\ left \in Int /\ filePos \in Nat /\ Len(image) \in Nat
      /\ pos \in Position /\ Linear(pos) \in 0..(DiskSize - 1)
      /\ filePos = Linear(pos) /\ filePos = CommandStart + Moved
      /\ CommandStart + TransferSize < DiskSize /\ Len(image) >= DiskSize
  BY <1>1, TransferTypes
<1>3. Moved = TransferSize - left
  BY <1>1, <1>2 DEF Moved
<1>4. pos' \in Position /\ Linear(pos') = filePos + 1
  <2>1. Linear(pos) < DiskSize - 1
    BY <1>1, <1>2, <1>3
  <2>. QED
    BY <1>1, <1>2, <2>1, AdvanceInside
<1>5. filePos' = filePos + 1
  BY <1>1, <1>2
<1>6. Moved' = TransferSize - left + 1
  BY <1>1, <1>2, CommandKept DEF Moved
<1>7. filePos' = CommandStart + Moved'
  BY <1>1, <1>2, <1>3, <1>5, <1>6
<1>. QED
  BY <1>1, <1>4, <1>5, <1>7, CommandKept DEF PositionInv, Transferring

\* The image only grows.
LEMMA WrittenLength ==
  ASSUME NEW f \in Seq(Byte), NEW at \in Nat, NEW v \in Byte
  PROVE  Len(Written(f, at, v)) >= Len(f)
<1>1. Len(f) \in Nat
  BY LenProperties
<1>2. PICK n \in Nat : n = (IF at < Len(f) THEN Len(f) ELSE at + 1)
  BY <1>1
<1>3. Len(Written(f, at, v)) = n
  <2>1. Written(f, at, v) = [i \in 1..n |-> IF i = at + 1 THEN v ELSE IF i <= Len(f) THEN f[i] ELSE 0]
    BY <1>2, Zenon DEF Written
  <2>2. DOMAIN Written(f, at, v) = 1..n
    BY <2>1
  <2>3. Written(f, at, v) \in Seq(Byte)
    BY WrittenType
  <2>. QED
    BY <1>2, <2>2, <2>3, LenProperties
<1>. QED
  BY <1>1, <1>2, <1>3

LEMMA WritePosition ==
  ASSUME TypeInv, PositionInv, WriteToDrive
  PROVE  PositionInv'
<1>1. /\ wpc = "transfer" /\ left > 0 /\ wpc' = wpc /\ pos' = AdvancePos(pos)
      /\ filePos' = filePos + 1 /\ left' = left - 1
      /\ image' = Written(image, filePos, Head(queue)) /\ queue # <<>>
      /\ UNCHANGED cmd /\ Transferring
  BY DEF WriteToDrive, Transferring
<1>2. /\ CommandStart \in Nat /\ TransferSize \in Nat \ {0} /\ DiskSize \in Nat
      /\ left \in Int /\ filePos \in Nat /\ Len(image) \in Nat /\ image \in Seq(Byte)
      /\ pos \in Position /\ Linear(pos) \in 0..(DiskSize - 1)
      /\ filePos = Linear(pos) /\ filePos = CommandStart + Moved
      /\ CommandStart + TransferSize < DiskSize /\ Len(image) >= DiskSize
  BY <1>1, TransferTypes
<1>3. Moved = TransferSize - left
  BY <1>1, <1>2 DEF Moved
<1>4. pos' \in Position /\ Linear(pos') = filePos + 1
  <2>1. Linear(pos) < DiskSize - 1
    BY <1>1, <1>2, <1>3
  <2>. QED
    BY <1>1, <1>2, <2>1, AdvanceInside
<1>5. Len(image') >= DiskSize
  <2>1. Head(queue) \in Byte
    BY <1>1, HeadTailProperties DEF TypeInv, TypeOK
  <2>2. Len(image') >= Len(image)
    BY <1>1, <1>2, <2>1, WrittenLength
  <2>3. Written(image, filePos, Head(queue)) \in Seq(Byte)
    BY <1>2, <2>1, WrittenType
  <2>4. Len(image') \in Nat
    BY <1>1, <2>3, LenProperties
  <2>. QED
    BY <1>2, <2>2, <2>4
<1>6. Moved' = TransferSize - left + 1
  BY <1>1, <1>2, CommandKept DEF Moved
<1>7. filePos' = CommandStart + Moved'
  BY <1>1, <1>2, <1>3, <1>6
<1>. QED
  BY <1>1, <1>4, <1>5, <1>7, CommandKept DEF PositionInv, Transferring

LEMMA HandOverPosition ==
  ASSUME TypeInv, PositionInv, SendStatus \/ StoreData \/ RaiseInt
  PROVE  PositionInv'
<1>1. /\ Transferring /\ Transferring' /\ UNCHANGED <<cmd, image, pos, filePos>>
  BY DEF SendStatus, StoreData, RaiseInt, Transferring
<1>2. TransferSize \in Nat \ {0} /\ left \in Int
  BY <1>1, TransferTypes
<1>3. Moved' = Moved
  <2>1. CASE SendStatus \/ StoreData
    <3>1. /\ left' = left
          /\ (wpc = "transfer" /\ left <= 0) \/ (wpc = "store" /\ wpc' = "raise")
      BY <1>2, <2>1 DEF SendStatus, StoreData, NoStatus
    <3>. QED
      BY <1>1, <3>1, CommandKept DEF Moved
  <2>2. CASE RaiseInt
    <3>1. left' = left - 1 /\ wpc = "raise" /\ wpc' = "transfer"
      BY <2>2 DEF RaiseInt
    <3>. QED
      BY <1>1, <1>2, <3>1, CommandKept DEF Moved
  <2>. QED
    BY <2>1, <2>2
<1>. QED
  BY <1>1, <1>3, CommandKept DEF PositionInv, Transferring

\* Having moved whole sectors from the start of one, the drive is at the start of
\* another: a command ends with the progress at 0.
LEMMA EndPosition ==
  ASSUME TypeInv, PositionInv, EndCommand
  PROVE  PositionInv'
<1>1. /\ wpc = "transfer" /\ left = -NoStatus /\ wpc' = "idle" /\ Transferring
      /\ UNCHANGED <<cmd, image, pos, filePos>>
  BY DEF EndCommand, Transferring
<1>2. pos \in Position /\ filePos = Linear(pos) /\ filePos = CommandStart + TransferSize
      /\ InRange(cmd[3], cmd[4], TargetSector)
      /\ TransferSize \in {SectorSz, SectorSz * NoSectors} /\ Len(image) >= DiskSize
  <2>1. Moved = TransferSize
    BY <1>1 DEF Moved, NoStatus
  <2>. QED
    BY <1>1, <2>1 DEF PositionInv
<1>3. /\ NoHeads \in Int /\ NoSectors \in Int /\ SectorSz \in Int
      /\ pos.track \in Int /\ pos.head \in Int /\ pos.sector \in Int
      /\ pos.progress \in 0..(SectorSz - 1)
  BY <1>2, GeometryAssumption DEF Position
<1>4. PICK a \in Int : filePos = a * SectorSz + pos.progress
  <2>1. (pos.track * NoHeads + pos.head) * NoSectors + (pos.sector - 1) \in Int
    BY <1>3, ProductType
  <2>. QED
    BY <1>2, <2>1, Zenon DEF Linear
<1>5. PICK b \in Int : CommandStart = b * SectorSz
  <2>1. cmd[3] \in Int /\ cmd[4] \in Int /\ TargetSector \in Int
    BY <1>2, GeometryAssumption DEF InRange
  <2>2. PICK b \in Int : b = (cmd[3] * NoHeads + cmd[4]) * NoSectors + (TargetSector - 1)
    BY <1>3, <2>1, ProductType
  <2>3. CommandStart = b * SectorSz + 0
    BY <2>2, Zenon DEF CommandStart, Linear, At
  <2>4. b * SectorSz \in Int
    BY <1>3, ProductType
  <2>. QED
    BY <2>3, <2>4
<1>6. PICK n \in Int : TransferSize = n * SectorSz
  <2>1. SectorSz = 1 * SectorSz /\ SectorSz * NoSectors = NoSectors * SectorSz
    BY <1>3
  <2>2. TransferSize = 1 * SectorSz \/ TransferSize = NoSectors * SectorSz
    BY <1>2, <2>1
  <2>3. 1 \in Int
    OBVIOUS
  <2>. QED
    BY <1>3, <2>2, <2>3, Zenon
<1>7. filePos = (b + n) * SectorSz
  <2>1. (b + n) * SectorSz = b * SectorSz + n * SectorSz
    BY <1>3, DistributePlus
  <2>. QED
    BY <1>2, <1>5, <1>6, <2>1, Zenon
<1>8. pos.progress = 0
  <2>1. b + n \in Int /\ a * SectorSz + pos.progress = (b + n) * SectorSz
    BY <1>4, <1>7
  <2>. QED
    BY <1>3, <2>1, SectorStart
<1>9. pos = At(pos.track, pos.head, pos.sector)
  BY <1>2, <1>8 DEF Position, At
<1>. QED
  BY <1>1, <1>2, <1>9 DEF PositionInv, Transferring

LEMMA PositionStep ==
  ASSUME BuffersFit(Programs), InsideImage(Programs), TypeInv, PlaceInv, ProtocolInv,
         SeekingInv, PositionInv, [Next]_vars
  PROVE  PositionInv'
<1>1. CASE DequeueCommand \/ DequeueArgument \/ Configure
  <2>1. /\ wpc \in {"idle", "args", "seek"} /\ wpc' \in {"idle", "args", "seek"}
        /\ UNCHANGED <<image, filePos, pos>>
    BY <1>1 DEF DequeueCommand, DequeueArgument, Configure, worker
  <2>. QED
    BY <2>1 DEF PositionInv, Transferring
<1>2. CASE NotReady
  <2>1. wpc' = "exit" /\ UNCHANGED image
    BY <1>2 DEF NotReady
  <2>. QED
    BY <2>1 DEF PositionInv, Transferring
<1>3. CASE Cpu \/ UNCHANGED vars
  <2>1. UNCHANGED <<wpc, cmd, left, image, filePos, pos>>
    BY <1>3 DEF Cpu, StartRequest, SendByte, BusyWait, WriteByte, LoadData, ClearInt,
                vars, worker
  <2>2. Moved' = Moved
    BY <2>1, CommandKept DEF Moved
  <2>. QED
    BY <2>1, <2>2, CommandKept DEF PositionInv, Transferring
<1>. QED
  BY <1>1, <1>2, <1>3, SeekPosition, ReadPosition, WritePosition, HandOverPosition,
     EndPosition DEF Next, Worker

\* The geometry and the protocol together: where the threads and the drive are.
DriveInv == HandshakeInv /\ SeekingInv /\ PositionInv

LEMMA DriveInit == Seeking /\ InsideImage(Programs) /\ Init => DriveInv
BY HandshakeInit, SeekingInit, PositionInit DEF DriveInv

LEMMA DriveStep ==
  ASSUME BuffersFit(Programs), Seeking, InsideImage(Programs), DriveInv, [Next]_vars
  PROVE  DriveInv'
<1>1. HandshakeInv' /\ TypeInv /\ PlaceInv /\ ProtocolInv /\ SeekingInv /\ PositionInv
  BY HandshakeStep DEF DriveInv, HandshakeInv
<1>2. SeekingInv'
  <2>1. CASE UNCHANGED vars
    BY <1>1, <2>1 DEF SeekingInv, Enabling, vars, worker, cpu
  <2>. QED
    BY <1>1, <2>1, SeekingWorker, SeekingCpu DEF Next
<1>3. PositionInv'
  BY <1>1, PositionStep
<1>. QED
  BY <1>1, <1>2, <1>3 DEF DriveInv

\* Between commands the file stands at the start of the sector the driver believes
\* to be on, so that the next relative seek counts from the right place: for every
\* guest that has the worker seek and stays inside the disk and the image.
THEOREM PositionSafe ==
  BuffersFit(Programs) /\ SeeksImplied(Programs) /\ InsideImage(Programs) /\ Spec
    => []PositionTracksFile
<1>. SUFFICES ASSUME BuffersFit(Programs), Seeking, InsideImage(Programs)
              PROVE  Spec => []PositionTracksFile
  BY DEF Seeking
<1>1. DriveInv /\ [Next]_vars => DriveInv'
  BY DriveStep
<1>2. Init => DriveInv
  BY DriveInit
<1>3. DriveInv => PositionTracksFile
  BY DEF DriveInv, PositionInv, PositionTracksFile
<1>. QED
  BY <1>1, <1>2, <1>3, PTL DEF Spec

\* And so seek leaves the file at the position it was asked for.
THEOREM SeekSafe ==
  BuffersFit(Programs) /\ SeeksImplied(Programs) /\ InsideImage(Programs) /\ Spec
    => SeekReachesPosition
BY PositionSafe, SeekExact, PTL

-----------------------------------------------------------------------------
(* Addresses of a buffer, from its end.                                     *)

LEMMA CutBelow ==
  ASSUME NEW n \in Int, n > -(2 * Half), n < 2 * Half
  PROVE  n % (2 * Half) = IF n < 0 THEN n + 2 * Half ELSE n
<1> DEFINE m == 2 * Half
<1>1. m \in Nat \ {0} /\ n < m /\ n > -m
  BY FddAssumption
<1>. HIDE DEF m
<1>2. n % m = IF n < 0 THEN n + m ELSE n
  <2>1. CASE n < 0
    BY <1>1, <2>1, SMT
  <2>2. CASE n >= 0
    BY <1>1, <2>2, SMT
  <2>. QED
    BY <1>1, <2>1, <2>2
<1>. QED
  BY <1>2 DEF m

\* b stands before d as a signed word does, or the segment's end is between them.
LEMMA WordDistance ==
  ASSUME NEW b \in Word, NEW d \in Word
  PROVE  /\ Half \in Nat \ {0} /\ b \in 0..(2 * Half - 1) /\ d \in 0..(2 * Half - 1)
         /\ Signed(d) - Signed(b) \in {d - b, d - b + 2 * Half, d - b - 2 * Half}
BY FddAssumption DEF Word, Signed

\* The bytes of a buffer of n that ends at d, k of them from b on to its end.
LEMMA FromTheStart ==
  ASSUME NEW b \in Word, NEW d \in Word, NEW n \in 1..(2 * Half - 1),
         NEW k \in 1..n, Signed(d) - Signed(b) = k
  PROVE  (b - d + n) % (2 * Half) = n - k
<1>1. /\ Half \in Nat \ {0} /\ b \in 0..(2 * Half - 1) /\ d \in 0..(2 * Half - 1)
      /\ k \in {d - b, d - b + 2 * Half, d - b - 2 * Half}
  BY WordDistance
<1>2. PICK x \in Int : x = b - d + n
  BY <1>1
<1>3. x \in {n - k, n - k + 2 * Half, n - k - 2 * Half} /\ n - k \in 0..(2 * Half - 1)
  BY <1>1, <1>2
<1>4. CASE x < 2 * Half
  <2>1. x > -(2 * Half)
    BY <1>1, <1>2
  <2>2. x % (2 * Half) = IF x < 0 THEN x + 2 * Half ELSE x
    BY <1>4, <2>1, CutBelow
  <2>3. (IF x < 0 THEN x + 2 * Half ELSE x) = n - k
    BY <1>1, <1>3, <1>4
  <2>. QED
    BY <1>2, <2>2, <2>3
<1>5. CASE x >= 2 * Half
  <2>1. x < 4 * Half
    BY <1>1, <1>2
  <2>2. x % (2 * Half) = IF x < 2 * Half THEN x ELSE x - 2 * Half
    BY <1>1, <1>5, <2>1, CutAddress
  <2>3. (IF x < 2 * Half THEN x ELSE x - 2 * Half) = n - k
    BY <1>1, <1>3, <1>5
  <2>. QED
    BY <1>2, <2>2, <2>3
<1>. QED
  BY <1>1, <1>4, <1>5

LEMMA FromTheEnd ==
  ASSUME NEW b \in Word, NEW d \in Word, NEW n \in 1..(2 * Half - 1),
         NEW k \in 1..n, Signed(d) - Signed(b) = k
  PROVE  /\ (d - n + (n - k)) % (2 * Half) = b
         /\ \A i \in 0..(n - k - 1) : (d - n + i) % (2 * Half) # b
<1>1. /\ Half \in Nat \ {0} /\ b \in 0..(2 * Half - 1) /\ d \in 0..(2 * Half - 1)
      /\ k \in {d - b, d - b + 2 * Half, d - b - 2 * Half}
  BY WordDistance
<1>2. ASSUME NEW i \in 0..(n - k)
      PROVE  (d - n + i) % (2 * Half) = b <=> i = n - k
  <2>1. PICK x \in Int : x = d - n + i
    BY <1>1
  <2>2. x > -(2 * Half) /\ x < 2 * Half
    BY <1>1, <2>1
  <2>3. x % (2 * Half) = IF x < 0 THEN x + 2 * Half ELSE x
    BY <2>2, CutBelow
  <2>4. (IF x < 0 THEN x + 2 * Half ELSE x) = b <=> i = n - k
    BY <1>1, <2>1, <2>2
  <2>. QED
    BY <2>1, <2>3, <2>4
<1>3. n - k \in 0..(n - k) /\ \A i \in 0..(n - k - 1) : i \in 0..(n - k) /\ i # n - k
  BY <1>1
<1>. QED
  BY <1>2, <1>3

-----------------------------------------------------------------------------
(* A disk, a file, and the last k bytes of a queue on the way to offset e.  *)

Holds(d, f, q, e, k) ==
  \A o \in 0..(DiskSize - 1) :
    d[o] = IF o \in (e - k)..(e - 1) THEN q[Len(q) + 1 - (e - o)] ELSE f[o + 1]

LEMMA HoldsNone ==
  ASSUME NEW d, NEW f, NEW q, NEW e \in Int
  PROVE  Holds(d, f, q, e, 0) <=> \A o \in 0..(DiskSize - 1) : d[o] = f[o + 1]
<1>1. \A o : o \notin (e - 0)..(e - 1)
  OBVIOUS
<1>. QED
  BY <1>1, Zenon DEF Holds

\* Taking a byte that is not one of them.
LEMMA HoldsTail ==
  ASSUME NEW d, NEW f, NEW q \in Seq(Byte), NEW e \in Int, NEW k \in Nat, k < Len(q),
         Holds(d, f, q, e, k)
  PROVE  Holds(d, f, Tail(q), e, k)
<1>1. /\ Len(q) \in Nat \ {0} /\ Len(Tail(q)) = Len(q) - 1
      /\ \A i \in 1..(Len(q) - 1) : Tail(q)[i] = q[i + 1]
  BY HeadTailProperties, LenProperties, EmptySeq
<1>2. ASSUME NEW o \in (e - k)..(e - 1)
      PROVE  Tail(q)[Len(Tail(q)) + 1 - (e - o)] = q[Len(q) + 1 - (e - o)]
  <2>1. PICK i : i = Len(q) - (e - o)
    OBVIOUS
  <2>2. i \in 1..(Len(q) - 1)
    BY <1>1, <2>1
  <2>3. Len(Tail(q)) + 1 - (e - o) = i /\ Len(q) + 1 - (e - o) = i + 1
    BY <1>1, <2>1, <2>2
  <2>. QED
    BY <1>1, <2>2, <2>3
<1>. QED
  BY <1>2, Zenon DEF Holds

\* Sending one more.
LEMMA HoldsAppend ==
  ASSUME NEW d, NEW f, NEW q \in Seq(Byte), NEW e \in Int, NEW k \in Nat, k <= Len(q),
         Holds(d, f, q, e, k), NEW v \in Byte,
         NEW c, \A o \in 0..(DiskSize - 1) : c[o] = IF o = e THEN v ELSE d[o]
  PROVE  Holds(c, f, Append(q, v), e + 1, k + 1)
<1> DEFINE p == Append(q, v)
<1>1. /\ Len(q) \in Nat /\ Len(p) = Len(q) + 1 /\ p[Len(q) + 1] = v
      /\ \A i \in 1..Len(q) : p[i] = q[i]
  BY AppendProperties, LenProperties
<1> HIDE DEF p
<1>2. ASSUME NEW o \in 0..(DiskSize - 1)
      PROVE  c[o] = IF o \in ((e + 1) - (k + 1))..((e + 1) - 1)
                    THEN p[Len(p) + 1 - ((e + 1) - o)] ELSE f[o + 1]
  <2>1. CASE o = e
    <3>1. o \in ((e + 1) - (k + 1))..((e + 1) - 1) /\ Len(p) + 1 - ((e + 1) - o) = Len(q) + 1
      BY <1>1, <2>1
    <3>. QED
      BY <1>1, <2>1, <3>1
  <2>2. CASE o \in (e - k)..(e - 1)
    <3>0. PICK i : i = Len(q) + 1 - (e - o)
      OBVIOUS
    <3>1. i \in 1..Len(q)
      BY <1>1, <2>2, <3>0
    <3>2. o \in ((e + 1) - (k + 1))..((e + 1) - 1) /\ Len(p) + 1 - ((e + 1) - o) = i /\ o # e
      BY <1>1, <2>2, <3>0, <3>1
    <3>3. d[o] = q[i]
      BY <2>2, <3>0 DEF Holds
    <3>. QED
      BY <1>1, <3>2, <3>3
  <2>3. CASE o # e /\ o \notin (e - k)..(e - 1)
    <3>1. o \notin ((e + 1) - (k + 1))..((e + 1) - 1)
      BY <2>3
    <3>. QED
      BY <2>3, <3>1 DEF Holds
  <2>. QED
    BY <2>1, <2>2, <2>3
<1>. QED
  BY <1>2 DEF Holds, p

LEMMA DiskSizeType == DiskSize \in Nat
<1>1. NoTracks \in Nat /\ NoHeads \in Nat /\ NoSectors \in Nat /\ SectorSz \in Nat
  BY GeometryAssumption
<1>2. SectorSz * NoSectors \in Nat
  BY <1>1, ProductPos
<1>3. SectorSz * NoSectors * NoHeads \in Nat
  BY <1>1, <1>2, ProductPos
<1>. QED
  BY <1>1, <1>3, ProductPos DEF DiskSize

\* Writing the first of them to the file, when the queue holds nothing else.
LEMMA HoldsWritten ==
  ASSUME NEW d, NEW f \in Seq(Byte), NEW q \in Seq(Byte), NEW e \in Int, q # <<>>,
         Holds(d, f, q, e, Len(q)), NEW a \in 0..(DiskSize - 1), a = e - Len(q),
         DiskSize <= Len(f)
  PROVE  Holds(d, Written(f, a, Head(q)), Tail(q), e, Len(Tail(q)))
<1> DEFINE t == Tail(q)  w == Written(f, a, Head(q))
<1>1. /\ Len(q) \in Nat \ {0} /\ Len(t) = Len(q) - 1 /\ Head(q) = q[1]
      /\ \A i \in 1..(Len(q) - 1) : t[i] = q[i + 1]
  BY HeadTailProperties, LenProperties, EmptySeq
<1>2. /\ Len(f) \in Nat /\ DiskSize \in Nat
      /\ \A i \in 1..Len(f) : w[i] = IF i = a + 1 THEN q[1] ELSE f[i]
  <2>1. Len(f) \in Nat /\ DiskSize \in Nat
    BY LenProperties, DiskSizeType
  <2>2. a < Len(f)
    BY <2>1
  <2>3. w = [i \in 1..Len(f) |-> IF i = a + 1 THEN q[1] ELSE IF i <= Len(f) THEN f[i] ELSE 0]
    BY <1>1, <2>2 DEF Written
  <2>4. ASSUME NEW i \in 1..Len(f)
        PROVE  w[i] = IF i = a + 1 THEN q[1] ELSE f[i]
    BY <2>1, <2>3
  <2>. QED
    BY <2>1, <2>4
<1> HIDE DEF t, w
<1>3. ASSUME NEW o \in 0..(DiskSize - 1)
      PROVE  d[o] = IF o \in (e - Len(t))..(e - 1) THEN t[Len(t) + 1 - (e - o)] ELSE w[o + 1]
  <2>0. o + 1 \in 1..Len(f)
    BY <1>2
  <2>1. CASE o = a
    <3>1. o \in (e - Len(q))..(e - 1) /\ o \notin (e - Len(t))..(e - 1)
          /\ Len(q) + 1 - (e - o) = 1
      BY <1>1, <2>1
    <3>2. d[o] = q[1]
      BY <3>1 DEF Holds
    <3>3. w[o + 1] = q[1]
      BY <1>2, <2>0, <2>1
    <3>. QED
      BY <3>1, <3>2, <3>3, Zenon
  <2>2. CASE o \in (a + 1)..(e - 1)
    <3>0. PICK i : i = Len(q) - (e - o)
      OBVIOUS
    <3>1. i \in 1..(Len(q) - 1)
      BY <1>1, <2>2, <3>0
    <3>2. /\ o \in (e - Len(q))..(e - 1) /\ o \in (e - Len(t))..(e - 1)
          /\ Len(q) + 1 - (e - o) = i + 1 /\ Len(t) + 1 - (e - o) = i
      BY <1>1, <2>2, <3>0, <3>1
    <3>3. d[o] = q[i + 1]
      BY <3>2 DEF Holds
    <3>4. t[Len(t) + 1 - (e - o)] = q[i + 1]
      BY <1>1, <3>1, <3>2
    <3>. QED
      BY <3>2, <3>3, <3>4, Zenon
  <2>3. CASE o \notin a..(e - 1)
    <3>1. o \notin (e - Len(q))..(e - 1) /\ o \notin (e - Len(t))..(e - 1) /\ o + 1 # a + 1
      BY <1>1, <2>3
    <3>2. d[o] = f[o + 1]
      BY <3>1 DEF Holds
    <3>3. w[o + 1] = f[o + 1]
      BY <1>2, <2>0, <3>1
    <3>. QED
      BY <3>1, <3>2, <3>3, Zenon
  <2>4. o = a \/ o \in (a + 1)..(e - 1) \/ o \notin a..(e - 1)
    OBVIOUS
  <2>. QED
    BY <2>1, <2>2, <2>3, <2>4, Zenon
<1>. QED
  BY <1>3 DEF Holds, t, w

-----------------------------------------------------------------------------
(* What the disk holds, and what is on the way to it.                       *)

Writing == Engaged /\ req.op = "write"

\* The drive holds a disk, and the sector is on it.
Reachable(r) == r.slot = 0 /\ InRange(r.track, r.head, Target(r))

\* The offset of the byte the guest writes or reads next, and the bytes it wrote
\* that the drive has not taken: all of them while their command is on its way.
Edge == Start(req) + Size - Left
Pending == IF Free THEN Size - Left ELSE Len(queue)

\* The image is the disk as the guest wrote it, but for the bytes on their way.
Stored == \A o \in 0..(DiskSize - 1) : disk[o] = image[o + 1]
OnTheWay == Writing /\ Reachable(req) => Holds(disk, image, queue, Edge, Pending)
Reached == Engaged /\ ~Free /\ wpc # "seek" => Reachable(req)
DiskInv == wpc # "exit" => (~Writing => Stored) /\ OnTheWay /\ Reached

\* A buffer is smaller than the segment.
SizeInv == Engaged => Size < 2 * Half

\* The worker owes nothing, or it is serving the request.
LEMMA FreeOrServing ==
  ASSUME TypeInv, PlaceInv, ProtocolInv, wpc # "exit"
  PROVE  /\ Free => ~Serving /\ (Quiet \/ Waiting)
         /\ ~Free => Serving
<1>1. ASSUME Serving
      PROVE  ~Free
  <2>1. Expect \in Nat \ {0} /\ cmd[1] # 19 /\ (cmd[1] = 5 <=> req.op = "write")
    BY <1>1, ServingTypes
  <2>2. Expect = Owed + (IF int THEN 1 ELSE 0)
    BY <1>1 DEF Serving
  <2>3. SUFFICES ASSUME Free PROVE FALSE
    OBVIOUS
  <2>4. ~int /\ (wpc = "idle" \/ (wpc = "transfer" /\ left = -NoStatus))
    BY <1>1, <2>1, <2>3 DEF Free, Serving
  <2>5. Owed = 0
    BY <2>4 DEF Owed, NoStatus
  <2>. QED
    BY <2>1, <2>2, <2>4, <2>5
<1>. QED
  BY <1>1 DEF ProtocolInv, Quiet, Waiting

LEMMA JoinLength ==
  \A x, y \in Seq(Byte) :
    x \o y \in Seq(Byte) /\ Len(x \o y) = Len(x) + Len(y) /\ Len(x) \in Nat /\ Len(y) \in Nat
BY ConcatProperties, LenProperties

\* While the command is on its way, or being taken, the data is behind it.
LEMMA DataBehind ==
  ASSUME TypeInv, PlaceInv, Waiting, Writing
  PROVE  Size - Left \in Nat /\ (Size - Left = 0 \/ Size - Left < Len(queue))
<1>1. /\ Engaged /\ req.op = "write" /\ req \in Request /\ Size \in Nat \ {0}
      /\ cpc \in {"send", "busy", "read", "write", "status"}
      /\ queue \in Seq(Byte) /\ cmd \in Seq(Byte) /\ Len(queue) \in Nat /\ Len(cmd) \in Nat
  BY SizeType, LenProperties DEF Writing, Engaged, TypeInv, TypeOK, Size
<1>2. CASE cpc = "send"
  BY <1>1, <1>2 DEF PlaceInv
<1>3. CASE cpc # "send"
  <2>1. PICK d \in Seq(Byte) : Ahead(CommandBytes(req) \o d) /\ Len(d) = Size - Left
    BY <1>1 DEF Waiting
  <2>2. CommandBytes(req) \in Seq(Byte) /\ Len(CommandBytes(req)) = 9 /\ req.op \in Transfers
    BY <1>1, TransferCommand DEF Transfers
  <2>3. PICK c \in Seq(Byte) : c = CommandBytes(req) \o d /\ Len(c) = 9 + Len(d)
    <3>1. /\ CommandBytes(req) \o d \in Seq(Byte)
          /\ Len(CommandBytes(req) \o d) = Len(CommandBytes(req)) + Len(d)
      BY <2>2, JoinLength, Zenon
    <3>. QED
      BY <2>2, <3>1
  <2>4. PICK a \in Seq(Byte) : Coming = a \o c
    BY <2>1, <2>3 DEF Ahead
  <2>5. Len(Coming) = Len(a) + (9 + Len(d)) /\ Len(a) \in Nat /\ Len(d) \in Nat
    <3>1. Len(a \o c) = Len(a) + Len(c) /\ Len(a) \in Nat /\ Len(d) \in Nat
      BY JoinLength, Zenon
    <3>. QED
      BY <2>3, <2>4, <3>1
  <2>6. Rest \in Seq(Byte) /\ Coming = Rest
    BY <1>3, ComingType, ConcatEmptySeq DEF Coming
  <2>7. Len(Rest) <= Len(queue) + 8
    <3>1. CASE wpc = "args"
      <4>1. Len(cmd) <= 8
        BY <1>1, <3>1 DEF TypeInv, CommandInv, Arguments
      <4>2. Len(Rest) = Len(cmd) + Len(queue)
        BY <1>1, <3>1, ConcatProperties DEF Rest
      <4>. QED
        BY <1>1, <4>1, <4>2
    <3>2. CASE wpc # "args"
      BY <1>1, <3>2 DEF Rest
    <3>. QED
      BY <3>1, <3>2
  <2>. QED
    BY <1>1, <2>1, <2>5, <2>6, <2>7
<1>. QED
  BY <1>2, <1>3

\* Where a request starts, if its sector is on the disk.
LEMMA StartType ==
  ASSUME NEW r, InRange(r.track, r.head, Target(r))
  PROVE  Start(r) \in 0..(DiskSize - 1)
<1>1. At(r.track, r.head, Target(r)) \in Position
  BY GeometryAssumption DEF InRange, At, Position
<1>. QED
  BY <1>1, LinearInDisk DEF Start

LEMMA WorkerFrame ==
  ASSUME Worker
  PROVE  /\ UNCHANGED <<cpc, req, disk, mem, bx, di, al, toSend, Left, Size, Edge>>
         /\ (Engaged' <=> Engaged) /\ (Writing' <=> Writing)
         /\ wpc # "exit"
<1>1. UNCHANGED <<cpc, req, disk, mem, bx, di, al, toSend>>
  BY WorkerLeavesCpu DEF cpu
<1>2. UNCHANGED <<Left, Size>> /\ (Engaged' <=> Engaged) /\ Start(req)' = Start(req)
  BY <1>1 DEF Left, Size, Engaged
<1>3. UNCHANGED Edge /\ (Writing' <=> Writing)
  BY <1>1, <1>2 DEF Edge, Writing
<1>4. wpc # "exit"
  BY DEF Worker, DequeueCommand, DequeueArgument, Configure, Seek, NotReady, ReadFromDrive,
         WriteToDrive, SendStatus, StoreData, RaiseInt, EndCommand
<1>. QED
  BY <1>1, <1>2, <1>3, <1>4

\* The steps of the worker that leave the queue and the image, and do not seek.
LEMMA HandOverDisk ==
  ASSUME TypeInv, DiskInv, Worker,
         SendStatus \/ StoreData \/ RaiseInt \/ ReadFromDrive \/ EndCommand
  PROVE  DiskInv'
<1>1. /\ UNCHANGED <<queue, image>> /\ wpc # "seek" /\ (Free' <=> Free)
      /\ UNCHANGED <<req, disk, Left, Size, Edge>>
      /\ (Engaged' <=> Engaged) /\ (Writing' <=> Writing) /\ wpc # "exit"
  <2>1. CASE SendStatus \/ StoreData \/ RaiseInt \/ ReadFromDrive
    <3>1. /\ UNCHANGED <<queue, image>> /\ wpc \in {"transfer", "store", "raise"}
          /\ wpc = "transfer" => left > -NoStatus
          /\ wpc' \in {"store", "raise"} \/ int'
      <4>1. left \in Int
        BY DEF TypeInv, TypeOK
      <4>. QED
        BY <2>1, <4>1 DEF SendStatus, StoreData, RaiseInt, ReadFromDrive, NoStatus
    <3>2. ~Free /\ ~Free'
      BY <3>1 DEF Free, NoStatus
    <3>. QED
      BY <3>1, <3>2, WorkerFrame
  <2>2. CASE EndCommand
    <3>1. /\ UNCHANGED <<queue, image, int>> /\ wpc = "transfer" /\ left = -NoStatus
          /\ wpc' = "idle"
      BY <2>2 DEF EndCommand
    <3>2. Free' <=> Free
      BY <3>1 DEF Free
    <3>. QED
      BY <3>1, <3>2, WorkerFrame
  <2>. QED
    BY <2>1, <2>2
<1>2. Pending' = Pending
  BY <1>1 DEF Pending
<1>3. Stored' <=> Stored
  BY <1>1 DEF Stored
<1>4. Reachable(req)' <=> Reachable(req)
  BY <1>1 DEF Reachable
<1>5. Holds(disk, image, queue, Edge, Pending)' <=> Holds(disk, image, queue, Edge, Pending)
  BY <1>1, <1>2 DEF Holds
<1>. QED
  BY <1>1, <1>3, <1>4, <1>5 DEF DiskInv, OnTheWay, Reached

LEMMA SeekDisk ==
  ASSUME BuffersFit(Programs), TypeInv, PlaceInv, ProtocolInv, SeekingInv, DiskInv, Worker,
         Seek \/ Configure \/ NotReady
  PROVE  DiskInv'
<1>1. /\ UNCHANGED <<req, disk, Left, Size, Edge>>
      /\ (Engaged' <=> Engaged) /\ (Writing' <=> Writing) /\ wpc # "exit"
      /\ UNCHANGED <<queue, image, int, cmd>>
  BY WorkerFrame DEF Seek, Configure, NotReady
<1>2. /\ Stored' <=> Stored
      /\ Reachable(req)' <=> Reachable(req)
      /\ \A k : Holds(disk', image', queue', Edge', k) <=> Holds(disk, image, queue, Edge, k)
  BY <1>1 DEF Stored, Reachable, Holds
<1>3. CASE wpc' = "exit"
  BY <1>3 DEF DiskInv
<1>4. CASE wpc' # "exit" /\ Configure
  <2>1. Free
    <3>1. ~Serving
      BY <1>4, ServingTypes DEF Configure
    <3>. QED
      BY <1>1, <3>1, FreeOrServing
  <2>2. Free'
    BY <1>1, <1>4, <2>1 DEF Free, Configure
  <2>3. Pending' = Pending
    BY <1>1, <2>1, <2>2 DEF Pending
  <2>. QED
    BY <1>1, <1>2, <2>2, <2>3 DEF DiskInv, OnTheWay, Reached
<1>5. CASE wpc' # "exit" /\ Seek
  <2>1. wpc = "seek" /\ cmd[1] # 19 /\ eis
    BY <1>5 DEF Seek, SeekingInv, Enabling
  <2>2. ~Free /\ Serving
    <3>1. ~Free
      BY <2>1 DEF Free
    <3>. QED
      BY <1>1, <3>1, FreeOrServing
  <2>3. /\ cmd[2] = req.slot /\ cmd[3] = req.track /\ cmd[4] = req.head
        /\ TargetSector = Target(req)
        /\ TransferSize = Size /\ Size \in Nat \ {0} /\ req \in Request
    BY <2>2, ServedCommand
  <2>4. wpc' = "transfer" /\ left' = TransferSize /\ Slot = 0
        /\ InRange(cmd[3], cmd[4], TargetSector)
    BY <1>5, <2>1 DEF Seek
  <2>5. ~Free'
    BY <2>3, <2>4 DEF Free, NoStatus
  <2>6. Reachable(req)
    <3>1. req.slot \in 0..3
      BY <2>3 DEF Request
    <3>2. req.slot = 0
      BY <2>3, <2>4, <3>1 DEF Slot
    <3>. QED
      BY <2>3, <2>4, <3>2 DEF Reachable
  <2>7. Pending' = Pending
    BY <1>1, <2>2, <2>5 DEF Pending
  <2>. QED
    BY <1>1, <1>2, <2>6, <2>7 DEF DiskInv, OnTheWay, Reached
<1>6. CASE NotReady
  BY <1>3, <1>6 DEF NotReady
<1>. QED
  BY <1>3, <1>4, <1>5, <1>6

LEMMA WriteDisk ==
  ASSUME BuffersFit(Programs), TypeInv, PlaceInv, ProtocolInv, PositionInv, DiskInv, Worker,
         WriteToDrive
  PROVE  DiskInv'
<1>1. /\ wpc = "transfer" /\ left > 0 /\ cmd[1] = 5 /\ queue # <<>> /\ queue' = Tail(queue)
      /\ image' = Written(image, filePos, Head(queue)) /\ wpc' = wpc /\ left' = left - 1
      /\ queue \in Seq(Byte) /\ left \in Int /\ Transferring
  BY DEF WriteToDrive, TypeInv, TypeOK, Transferring
<1>2. /\ UNCHANGED <<req, disk, Left, Size, Edge>> /\ (Engaged' <=> Engaged)
      /\ (Writing' <=> Writing)
  BY WorkerFrame
<1>3. ~Free /\ ~Free'
  BY <1>1 DEF Free, NoStatus
<1>4. Serving
  BY <1>1, <1>3, FreeOrServing
<1>5. /\ Engaged /\ req.op = "write" /\ Left \in Nat /\ Size \in Nat /\ Len(queue) \in Nat
      /\ Len(queue) + Left = left
  BY <1>1, <1>4, ServingTypes DEF Serving
<1>6. Reachable(req) /\ Holds(disk, image, queue, Edge, Len(queue))
  BY <1>1, <1>3, <1>5 DEF DiskInv, OnTheWay, Reached, Writing, Pending
<1>7. /\ filePos = Linear(pos) /\ filePos \in 0..(DiskSize - 1) /\ Len(image) >= DiskSize
      /\ filePos = CommandStart + Moved /\ image \in Seq(Byte) /\ CommandStart \in Nat
      /\ Len(image) \in Nat /\ DiskSize \in Nat
  BY <1>1, TransferTypes
<1>8. filePos = Edge - Len(queue) /\ Edge \in Int
  <2>1. CommandStart = Start(req) /\ TransferSize = Size
    BY <1>4, ServedCommand
  <2>2. Moved = Size - left
    BY <1>1, <1>5, <2>1 DEF Moved
  <2>. QED
    BY <1>5, <1>7, <2>1, <2>2 DEF Edge
<1>9. Holds(disk, Written(image, filePos, Head(queue)), Tail(queue), Edge, Len(Tail(queue)))
  <2>1. DiskSize <= Len(image)
    BY <1>7
  <2>. QED
    BY <1>1, <1>6, <1>7, <1>8, <2>1, HoldsWritten
<1>10. Holds(disk, image, queue, Edge, Pending)'
  BY <1>1, <1>2, <1>3, <1>9 DEF Pending, Holds
<1>11. Reachable(req)'
  BY <1>2, <1>6 DEF Reachable
<1>. QED
  BY <1>2, <1>5, <1>10, <1>11 DEF DiskInv, OnTheWay, Reached, Writing

\* Nothing is in the queue behind a transfer that ended.
LEMMA ServedQueue ==
  ASSUME TypeInv, PlaceInv, Serving, wpc = "idle"
  PROVE  queue = <<>>
<1>1. Left \in 0..Size /\ Size \in Nat /\ Len(queue) \in Nat /\ queue \in Seq(Byte)
  BY ServingTypes DEF TypeInv, TypeOK
<1>2. CASE req.op = "write"
  <2>1. Len(queue) + Left = 0
    BY <1>2 DEF Serving
  <2>2. Len(queue) = 0
    BY <1>1, <2>1
  <2>. QED
    BY <1>1, <2>2, EmptySeq
<1>. QED
  BY <1>2 DEF Serving

LEMMA DequeueDisk ==
  ASSUME TypeInv, PlaceInv, ProtocolInv, TypeInv', PlaceInv', ProtocolInv', PositionInv,
         DiskInv, Worker, DequeueCommand \/ DequeueArgument
  PROVE  DiskInv'
<1>1. /\ queue # <<>> /\ queue' = Tail(queue) /\ queue \in Seq(Byte)
      /\ wpc \in {"idle", "args"} /\ wpc' \in {"idle", "args", "seek"}
      /\ UNCHANGED <<image, int>>
  BY DEF DequeueCommand, DequeueArgument, TypeInv, TypeOK, worker
<1>2. /\ UNCHANGED <<req, disk, Left, Size, Edge>> /\ (Engaged' <=> Engaged)
      /\ (Writing' <=> Writing)
  BY WorkerFrame
<1>3. Free
  <2>1. CASE Serving
    <3>1. wpc = "idle"
      BY <1>1, <2>1 DEF Serving
    <3>. QED
      BY <1>1, <2>1, <3>1, ServedQueue
  <2>. QED
    BY <1>1, <2>1, FreeOrServing
<1>4. /\ Stored' <=> Stored
      /\ Reachable(req)' <=> Reachable(req)
      /\ \A k : Holds(disk', image', queue', Edge', k) <=> Holds(disk, image, Tail(queue), Edge, k)
  <2>1. disk' = disk /\ image' = image /\ queue' = Tail(queue) /\ Edge' = Edge /\ req' = req
    BY <1>1, <1>2
  <2>2. (Stored' <=> Stored) /\ (Reachable(req)' <=> Reachable(req))
    BY <2>1 DEF Stored, Reachable
  <2>3. \A k : Holds(disk', image', queue', Edge', k)
               <=> Holds(disk, image, Tail(queue), Edge, k)
    BY <2>1, Zenon
  <2>. QED
    BY <2>2, <2>3, Zenon
<1>5. ASSUME ~Free'
      PROVE  Serving' /\ wpc' = "seek"
  <2>1. Serving'
    BY <1>1, <1>5 DEF ProtocolInv, Quiet, Waiting
  <2>2. wpc' # "idle"
    <3>1. ~int'
      BY <1>1, <1>3 DEF Free
    <3>. QED
      BY <1>5, <3>1 DEF Free
  <2>. QED
    BY <1>1, <2>1, <2>2 DEF Serving
<1>6. ASSUME Writing
      PROVE  Pending' = Pending /\ Pending \in Nat /\ Pending < Len(queue)
  <2>1. Waiting
    BY <1>1, <1>3, <1>6, FreeOrServing DEF Quiet, Writing
  <2>2. Size - Left \in Nat /\ Size - Left < Len(queue)
    <3>1. Len(queue) \in Nat \ {0}
      BY <1>1, EmptySeq
    <3>. QED
      BY <1>6, <2>1, <3>1, DataBehind
  <2>3. CASE Free'
    BY <1>2, <1>3, <2>2, <2>3 DEF Pending
  <2>4. CASE ~Free'
    <3>1. Len(queue') + Left' = Size'
      BY <1>2, <1>5, <1>6, <2>4 DEF Serving, Writing
    <3>2. Len(queue') \in Nat /\ Left \in Int /\ Size \in Int
      <4>1. queue' \in Seq(Byte)
        BY DEF TypeInv, TypeOK
      <4>2. bx \in Word /\ di \in Word
        BY DEF TypeInv, TypeOK
      <4>. QED
        BY <4>1, <4>2, LenProperties, SignedType, SizeType DEF Left, Size
    <3>. QED
      BY <1>2, <1>3, <2>2, <2>4, <3>1, <3>2 DEF Pending
  <2>. QED
    BY <2>3, <2>4
<1>7. ASSUME Writing, Reachable(req)
      PROVE  Holds(disk, image, queue, Edge, Pending)'
  <2>1. Holds(disk, image, queue, Edge, Pending)
    BY <1>1, <1>7 DEF DiskInv, OnTheWay
  <2>2. Edge \in Int
    <3>1. req \in Request /\ bx \in Word /\ di \in Word
      BY DEF TypeInv, TypeOK
    <3>2. Start(req) \in Int
      BY <1>7, <3>1, StartType DEF Reachable
    <3>. QED
      BY <3>1, <3>2, SignedType, SizeType DEF Edge, Left, Size
  <2>3. Holds(disk, image, Tail(queue), Edge, Pending)
    BY <1>1, <1>6, <1>7, <2>1, <2>2, HoldsTail
  <2>. QED
    BY <1>4, <1>6, <1>7, <2>3
<1>8. Reached'
  BY <1>5 DEF Reached
<1>. QED
  BY <1>1, <1>2, <1>4, <1>7, <1>8 DEF DiskInv, OnTheWay

LEMMA CpuFrame ==
  ASSUME Cpu
  PROVE  wpc # "exit" /\ UNCHANGED <<wpc, cmd, left, out, image>>
BY DEF Cpu, StartRequest, SendByte, BusyWait, WriteByte, LoadData, ClearInt, Running, worker

LEMMA SizeStep ==
  ASSUME TypeInv, PlaceInv, TypeInv', PlaceInv', SizeInv, [Next]_vars
  PROVE  SizeInv'
<1>1. SUFFICES ASSUME Engaged' PROVE Size' < 2 * Half
  BY DEF SizeInv
<1>2. CASE cpc' = "send"
  <2>1. Left' = Size' /\ bx' \in Word /\ di' \in Word
    BY <1>1, <1>2 DEF PlaceInv, TypeInv, TypeOK
  <2>2. Signed(di') \in Int /\ Signed(bx') \in Int /\ Signed(di') < Half /\ Signed(bx') >= -Half
        /\ Half \in Nat
    BY <2>1, SignedType, FddAssumption
  <2>. QED
    BY <2>1, <2>2 DEF Left
<1>3. CASE cpc' # "send"
  <2>1. req' = req /\ Engaged
    <3>1. CASE Worker \/ UNCHANGED vars
      <4>1. UNCHANGED <<cpc, req>>
        BY <3>1, WorkerLeavesCpu DEF vars, cpu
      <4>. QED
        BY <1>1, <4>1 DEF Engaged
    <3>2. CASE SendByte
      <4>1. req' = req /\ cpc = "send"
        BY <3>2 DEF SendByte
      <4>2. req'.op \in Transfers
        BY <1>1 DEF PlaceInv
      <4>. QED
        BY <4>1, <4>2 DEF Engaged
    <3>3. CASE BusyWait \/ WriteByte \/ LoadData
      BY <3>3 DEF BusyWait, WriteByte, LoadData, Engaged
    <3>4. CASE ClearInt /\ cpc = "read"
      BY <3>4 DEF ClearInt, StoreByte, Engaged
    <3>5. CASE ClearInt /\ cpc # "read"
      <4>1. cpc = "status" /\ (req' = req \/ cpc' \in {"next", "send"})
        BY <3>5, NextPlace
      <4>. QED
        BY <1>1, <1>3, <4>1 DEF Engaged
    <3>6. CASE StartRequest
      BY <1>3, <3>6 DEF StartRequest
    <3>. QED
      BY <3>1, <3>2, <3>3, <3>4, <3>5, <3>6 DEF Next, Cpu
  <2>. QED
    BY <2>1 DEF SizeInv, Size
<1>. QED
  BY <1>2, <1>3

LEMMA EdgeType ==
  ASSUME TypeInv, Reachable(req)
  PROVE  Edge \in Int /\ Left \in Int /\ Size \in Nat \ {0} /\ Start(req) \in 0..(DiskSize - 1)
<1>1. bx \in Word /\ di \in Word
  BY DEF TypeInv, TypeOK
<1>2. Start(req) \in 0..(DiskSize - 1)
  BY StartType DEF Reachable
<1>3. Left \in Int /\ Size \in Nat \ {0}
  BY <1>1, SignedType, SizeType DEF Left, Size
<1>. QED
  BY <1>2, <1>3 DEF Edge

\* Before the first byte, and when no request is in progress, all is stored.
LEMMA NoneOnTheWay ==
  ASSUME TypeInv, Reachable(req), Pending = 0
  PROVE  Holds(disk, image, queue, Edge, Pending) <=> Stored
BY EdgeType, HoldsNone DEF Stored

\* A command that is about to be sent has nothing on its way.
LEMMA FreshDisk ==
  ASSUME TypeInv', PlaceInv', Free', Stored', cpc' = "send"
  PROVE  DiskInv'
<1>1. ASSUME Writing', Reachable(req)'
      PROVE  Holds(disk, image, queue, Edge, Pending)'
  <2>1. Left' = Size'
    BY <1>1 DEF PlaceInv, Writing
  <2>2. Edge' \in Int /\ Size' \in Nat
    <3>1. bx' \in Word /\ di' \in Word
      BY DEF TypeInv, TypeOK
    <3>2. Start(req') \in 0..(DiskSize - 1)
      BY <1>1, StartType DEF Reachable
    <3>3. Left' \in Int /\ Size' \in Nat
      BY <3>1, SignedType, SizeType DEF Left, Size
    <3>. QED
      BY <3>2, <3>3 DEF Edge
  <2>3. Pending' = 0
    <3>1. Pending' = Size' - Left'
      BY Zenon DEF Pending
    <3>2. \A x \in Nat : x - x = 0
      OBVIOUS
    <3>. QED
      BY <2>1, <2>2, <3>1, <3>2, Zenon
  <2>4. Holds(disk', image', queue', Edge', 0)
    BY <2>2, HoldsNone DEF Stored
  <2>. QED
    BY <2>3, <2>4
<1>. QED
  BY <1>1 DEF DiskInv, OnTheWay, Reached

LEMMA StartDisk ==
  ASSUME TypeInv, PlaceInv, ProtocolInv, TypeInv', PlaceInv', DiskInv, StartRequest
  PROVE  DiskInv'
<1>1. /\ ~Engaged /\ cpc' = "send" /\ wpc # "exit"
      /\ UNCHANGED <<wpc, cmd, left, int, image, disk, queue>>
  BY DEF StartRequest, Engaged, Running, worker
<1>2. Free
  BY <1>1, FreeOrServing DEF Serving
<1>3. Free'
  BY <1>1, <1>2 DEF Free
<1>4. Stored'
  BY <1>1 DEF DiskInv, Writing, Stored
<1>. QED
  BY <1>1, <1>3, <1>4, FreshDisk

LEMMA SendDisk ==
  ASSUME TypeInv, PlaceInv, ProtocolInv, DiskInv, SendByte
  PROVE  DiskInv'
<1>1. /\ cpc = "send" /\ wpc # "exit" /\ cpc' \in {"send", "next", "write", "busy"}
      /\ req.op = "write" => cpc' \in {"send", "write"}
      /\ UNCHANGED <<wpc, cmd, left, int, image, disk, req, bx, di>>
  BY DEF SendByte, Running, worker
<1>2. Free
  BY <1>1, FreeOrServing DEF Serving
<1>3. Free'
  BY <1>1, <1>2 DEF Free
<1>4. /\ UNCHANGED <<Left, Size, Edge>> /\ (Stored' <=> Stored) /\ (Reachable(req)' <=> Reachable(req))
      /\ (Writing' <=> Writing)
  <2>1. UNCHANGED <<Left, Size, Edge>>
    BY <1>1 DEF Left, Size, Edge
  <2>2. (Stored' <=> Stored) /\ (Reachable(req)' <=> Reachable(req))
    BY <1>1 DEF Stored, Reachable
  <2>3. Writing' <=> Writing
    BY <1>1 DEF Writing, Engaged, Transfers
  <2>. QED
    BY <2>1, <2>2, <2>3
<1>5. ASSUME Writing, Reachable(req)
      PROVE  Holds(disk, image, queue, Edge, Pending)'
  <2>1. Left = Size /\ Size \in Nat /\ Edge \in Int
    BY <1>1, <1>5, EdgeType DEF PlaceInv, Writing
  <2>2. Pending = 0 /\ Pending' = 0
    BY <1>2, <1>3, <1>4, <2>1 DEF Pending
  <2>3. Stored
    BY <1>1, <1>5, <2>2, NoneOnTheWay DEF DiskInv, OnTheWay
  <2>4. Holds(disk', image', queue', Edge', 0)
    BY <1>4, <2>1, <2>3, HoldsNone DEF Stored
  <2>. QED
    BY <2>2, <2>4
<1>. QED
  BY <1>1, <1>3, <1>4, <1>5 DEF DiskInv, OnTheWay, Reached

\* The guest writes a byte: the disk as it sees it has one byte more on its way.
LEMMA PutDisk ==
  ASSUME InsideImage(Programs), TypeInv, PlaceInv, ProtocolInv, SizeInv, DiskInv, WriteByte
  PROVE  DiskInv'
<1>1. /\ cpc = "write" /\ cpc' \in {"write", "status"} /\ wpc # "exit"
      /\ queue' = Append(queue, mem[bx]) /\ bx' = (bx + 1) % (2 * Half)
      /\ UNCHANGED <<req, di, wpc, cmd, left, int, image>>
  BY DEF WriteByte, Running, worker
<1>2. /\ Engaged /\ req \in Request /\ req.op = "write" /\ bx \in Word /\ di \in Word
      /\ Left \in 1..Size /\ Room(req, di) /\ Owing(req)
      /\ queue \in Seq(Byte) /\ Len(queue) \in Nat /\ disk \in [0..(DiskSize - 1) -> Byte]
  BY <1>1, LenProperties DEF Engaged, PlaceInv, TypeInv, TypeOK
<1>3. /\ Size = SectorSz /\ Size \in 1..(2 * Half - 1) /\ Target(req) = req.sector
      /\ Size \in Nat /\ Left \in Int
  <2>1. Size = SectorSz * 1 /\ SectorSz \in Nat \ {0} /\ Half \in Nat \ {0}
    BY <1>2, GeometryAssumption, FddAssumption DEF Size, RequestSize
  <2>2. Size < 2 * Half
    BY <1>2 DEF SizeInv
  <2>. QED
    BY <1>2, <2>1, <2>2 DEF Target
<1>4. PICK v \in Byte : v = mem[bx]
  BY <1>2 DEF TypeInv, TypeOK
<1>5. /\ Left' = Left - 1 /\ Size' = Size /\ Engaged' /\ Writing /\ Writing'
      /\ (Free' <=> Free)
  <2>1. Left' = Left - 1
    BY <1>1, <1>2, <1>3, NextAddress DEF Left
  <2>2. Size' = Size /\ Engaged' /\ Writing /\ Writing'
    BY <1>1, <1>2 DEF Size, Engaged, Writing
  <2>3. Free' <=> Free
    BY <1>1 DEF Free
  <2>. QED
    BY <2>1, <2>2, <2>3
<1>6. ASSUME Reachable(req)
      PROVE  Holds(disk, image, queue, Edge, Pending)'
  <2>1. /\ Edge \in Int /\ Start(req) \in 0..(DiskSize - 1)
        /\ Holds(disk, image, queue, Edge, Pending)
    BY <1>1, <1>5, <1>6, EdgeType DEF DiskInv, OnTheWay
  <2>2. Start(req) + Size < DiskSize
    <3>1. Clear(req) /\ req.op \in Transfers /\ req.count \in 1..255
      BY <1>2 DEF Owing, Room, Transfers
    <3>2. InRange(req.track, req.head, Target(req))
      BY <1>6 DEF Reachable
    <3>. QED
      BY <1>2, <3>1, <3>2, ClearTransfer DEF Size
  <2>3. Edge = Start(req) + (Size - Left) /\ Edge \in 0..(DiskSize - 1) /\ Edge' = Edge + 1
    <3>1. Start(req)' = Start(req)
      BY <1>1
    <3>2. Start(req) \in Int
      BY <2>1
    <3>3. Edge' = Start(req) + Size - (Left - 1)
      BY <1>5, <3>1 DEF Edge
    <3>4. DiskSize \in Nat
      BY DiskSizeType
    <3>. QED
      BY <1>2, <1>3, <2>1, <2>2, <3>2, <3>3, <3>4 DEF Edge
  <2>4. Linear(At(req.track, req.head, req.sector)) + ((bx - di + SectorSz) % (2 * Half)) = Edge
    <3>1. (bx - di + Size) % (2 * Half) = Size - Left
      BY <1>2, <1>3, FromTheStart DEF Left
    <3>2. Start(req) = Linear(At(req.track, req.head, req.sector))
      BY <1>3 DEF Start
    <3>. QED
      BY <1>3, <2>3, <3>1, <3>2
  <2>5. \A o \in 0..(DiskSize - 1) : disk'[o] = IF o = Edge THEN v ELSE disk[o]
    <3>1. disk' = [disk EXCEPT ![Edge] = v]
      <4>1. disk' = [disk EXCEPT ![Linear(At(req.track, req.head, req.sector))
                                  + ((bx - di + SectorSz) % (2 * Half))] = mem[bx]]
        BY DEF WriteByte
      <4>. QED
        BY <1>4, <2>4, <4>1, Zenon
    <3>. QED
      BY <1>2, <3>1
  <2>6. Pending \in Nat /\ Pending <= Len(queue) /\ Pending' = Pending + 1
    <3>1. CASE Free
      <4>1. Waiting
        BY <1>1, <1>2, <3>1, FreeOrServing DEF Quiet
      <4>2. Size - Left \in Nat /\ Size - Left <= Len(queue)
        BY <1>2, <1>5, <4>1, DataBehind
      <4>3. Pending' = Size' - Left'
        BY <1>5, <3>1 DEF Pending
      <4>4. Pending = Size - Left
        BY <3>1 DEF Pending
      <4>. QED
        BY <1>2, <1>3, <1>5, <4>2, <4>3, <4>4
    <3>2. CASE ~Free
      <4>1. Len(queue') = Len(queue) + 1
        BY <1>1, <1>2, <1>4, AppendProperties
      <4>2. Pending = Len(queue) /\ Pending' = Len(queue')
        BY <1>5, <3>2 DEF Pending
      <4>. QED
        BY <1>2, <4>1, <4>2
    <3>. QED
      BY <3>1, <3>2
  <2>7. Holds(disk', image, Append(queue, v), Edge + 1, Pending + 1)
    BY <1>2, <2>1, <2>5, <2>6, HoldsAppend
  <2>8. /\ queue' = Append(queue, v) /\ image' = image /\ Edge' = Edge + 1
        /\ Pending' = Pending + 1
    BY <1>1, <1>4, <2>3, <2>6
  <2>. QED
    BY <2>7, <2>8, Zenon
<1>7. Reachable(req)' <=> Reachable(req)
  BY <1>1 DEF Reachable
<1>. QED
  BY <1>1, <1>2, <1>5, <1>6, <1>7 DEF DiskInv, OnTheWay, Reached

\* When the guest takes the last status byte the worker has nothing left to send.
LEMMA LastStatus ==
  ASSUME TypeInv, PlaceInv, Serving, int, cpc = "status", Len(toSend) = 6
  PROVE  wpc = "idle" \/ (wpc = "transfer" /\ left = -NoStatus)
<1>1. Size \in Nat \ {0} /\ left \in Int
  BY ServingTypes DEF TypeInv, TypeOK
<1>2. Full \in Int /\ Full # 0 /\ Owed \in Int
  <2>1. Full \in Int /\ Full # 0
    BY <1>1 DEF Full, NoStatus
  <2>. QED
    BY <1>1, <2>1 DEF Owed, NoStatus
<1>3. Owed = 0
  <2>1. Expect = Owed + 1
    BY DEF Serving
  <2>. QED
    BY <1>2, <2>1 DEF Expect, NoStatus
<1>4. /\ wpc \in {"transfer", "store", "raise"} => left \in (-7)..Size
      /\ wpc \in {"store", "raise"} => left > -7
      /\ wpc \in {"idle", "seek", "transfer", "store", "raise"}
  BY DEF Serving, NoStatus
<1>5. wpc # "seek"
  BY <1>2, <1>3 DEF Owed
<1>6. wpc # "idle" => left = -7
  BY <1>1, <1>3, <1>5 DEF Owed, NoStatus
<1>. QED
  BY <1>1, <1>4, <1>5, <1>6 DEF NoStatus

\* The guest takes a byte: of a write only the status is taken, and the last byte
\* of it only when the drive has written everything.
LEMMA ClearDisk ==
  ASSUME TypeInv, HandInv, PlaceInv, ProtocolInv, TypeInv', PlaceInv', DiskInv, ClearInt
  PROVE  DiskInv'
<1>1. /\ int /\ ~int' /\ al # <<>> /\ wpc # "exit"
      /\ UNCHANGED <<wpc, cmd, left, queue, image, disk>>
  BY DEF ClearInt, HandInv, Running, worker
<1>2. ~Free /\ (Stored' <=> Stored)
  BY <1>1 DEF Free, Stored
<1>3. /\ Serving /\ Engaged /\ Left \in 0..Size /\ Size \in Nat \ {0}
      /\ req.op \in Transfers /\ Len(queue) \in Nat /\ cmd[1] # 19
  BY <1>1, <1>2, FreeOrServing, ServingTypes DEF Serving
<1>4. Expect = Owed + 1 /\ Owed \in Int /\ left \in Int
  <2>1. Expect = Owed + 1
    BY <1>1, <1>3 DEF Serving
  <2>2. left \in Int /\ Full \in Int
    BY <1>3 DEF TypeInv, TypeOK, Full, NoStatus
  <2>. QED
    BY <2>1, <2>2 DEF Owed, NoStatus
<1>5. wpc # "seek" => Reachable(req)
  BY <1>1, <1>2, <1>3 DEF DiskInv, Reached
<1>6. CASE cpc = "read"
  <2>1. req' = req /\ ~Writing /\ ~Writing'
    BY <1>1, <1>3, <1>6 DEF ClearInt, StoreByte, PlaceInv, Writing
  <2>2. Reachable(req)' <=> Reachable(req)
    BY <2>1 DEF Reachable
  <2>. QED
    BY <1>1, <1>2, <1>5, <2>1, <2>2 DEF DiskInv, OnTheWay, Reached
<1>7. CASE Len(toSend) < 6 /\ cpc = "status" /\ UNCHANGED <<cpc, req, bx, di>>
  <2>1. ~Free'
    <3>1. Owed # 0
      <4>1. Len(toSend) \in Nat /\ Expect = 7 - Len(toSend)
        BY <1>7, LenProperties DEF TypeInv, TypeOK, Expect, NoStatus
      <4>. QED
        BY <1>4, <1>7, <4>1
    <3>2. wpc # "idle" /\ wpc # "args" /\ ~(wpc = "transfer" /\ left = -NoStatus)
      BY <1>3, <3>1 DEF Serving, Owed, NoStatus
    <3>. QED
      BY <1>1, <1>3, <3>2 DEF Free
  <2>2. /\ UNCHANGED <<Left, Size, Edge>> /\ (Engaged' <=> Engaged) /\ (Writing' <=> Writing)
        /\ (Reachable(req)' <=> Reachable(req))
    <3>1. UNCHANGED <<Left, Size, Edge>>
      BY <1>7 DEF Left, Size, Edge
    <3>2. (Engaged' <=> Engaged) /\ (Reachable(req)' <=> Reachable(req))
      BY <1>7 DEF Engaged, Reachable
    <3>3. Writing' <=> Writing
      BY <1>7, <3>2 DEF Writing
    <3>. QED
      BY <3>1, <3>2, <3>3
  <2>3. Pending' = Pending
    BY <1>1, <1>2, <2>1 DEF Pending
  <2>4. Holds(disk, image, queue, Edge, Pending)' <=> Holds(disk, image, queue, Edge, Pending)
    BY <1>1, <2>2, <2>3 DEF Holds
  <2>. QED
    BY <1>1, <1>2, <1>5, <2>2, <2>4 DEF DiskInv, OnTheWay, Reached
<1>8. CASE Len(toSend) = 6 /\ cpc = "status" /\ cpc' \in {"next", "send"}
  <2>2. wpc = "idle" \/ (wpc = "transfer" /\ left = -NoStatus)
    BY <1>1, <1>3, <1>8, LastStatus
  <2>3. Free'
    BY <1>1, <2>2 DEF Free
  <2>4. Writing => Pending = 0
    <3>1. bx = di /\ Signed(di) \in Int
      BY <1>3, <1>8, SignedType DEF PlaceInv, TypeInv, TypeOK
    <3>2. Left = 0
      BY <3>1 DEF Left
    <3>3. req.op = "write" => Len(queue) = 0
      BY <1>3, <2>2, <3>2 DEF Serving, NoStatus
    <3>. QED
      BY <1>2, <3>3 DEF Writing, Pending
  <2>5. Stored
    <3>1. CASE Writing
      <4>1. Reachable(req)
        BY <1>5, <2>2
      <4>2. Holds(disk, image, queue, Edge, Pending)
        BY <1>1, <3>1, <4>1 DEF DiskInv, OnTheWay
      <4>. QED
        BY <2>4, <3>1, <4>1, <4>2, NoneOnTheWay
    <3>2. CASE ~Writing
      BY <1>1, <3>2 DEF DiskInv
    <3>. QED
      BY <3>1, <3>2
  <2>6. CASE cpc' = "send"
    BY <1>2, <2>3, <2>5, <2>6, FreshDisk
  <2>7. CASE cpc' = "next"
    <3>1. ~Engaged' /\ ~Writing'
      BY <2>7 DEF Engaged, Writing
    <3>. QED
      BY <1>2, <2>5, <3>1 DEF DiskInv, OnTheWay, Reached
  <2>. QED
    BY <1>8, <2>6, <2>7
<1>. QED
  BY <1>6, <1>7, <1>8, NextPlace

\* The other steps of the guest leave the disk, the image and the queue.
LEMMA WaitDisk ==
  ASSUME TypeInv, PlaceInv, DiskInv, BusyWait \/ LoadData
  PROVE  DiskInv'
<1>1. /\ UNCHANGED <<wpc, cmd, left, int, queue, image, disk, req, bx, di>>
      /\ (Engaged' <=> Engaged)
      /\ wpc # "exit"
  BY DEF BusyWait, LoadData, Running, Engaged, worker
<1>2. /\ UNCHANGED <<Left, Size, Edge>> /\ (Stored' <=> Stored) /\ (Free' <=> Free)
  BY <1>1 DEF Left, Size, Edge, Stored, Free
<1>3. Pending' = Pending /\ (Writing' <=> Writing) /\ (Reachable(req)' <=> Reachable(req))
  BY <1>1, <1>2 DEF Pending, Writing, Reachable
<1>4. Holds(disk, image, queue, Edge, Pending)' <=> Holds(disk, image, queue, Edge, Pending)
  BY <1>1, <1>2, <1>3 DEF Holds
<1>. QED
  BY <1>1, <1>2, <1>3, <1>4 DEF DiskInv, OnTheWay, Reached

LEMMA SizeInit == Init => SizeInv
BY DEF Init, SizeInv, Engaged

LEMMA DiskInit == InsideImage(Programs) /\ Init => DiskInv
<1> SUFFICES ASSUME InsideImage(Programs), Init PROVE DiskInv
  OBVIOUS
<1>1. cpc = "next" /\ wpc = "idle" /\ int = FALSE /\ image = Image /\ disk = Contents(Image)
  BY DEF Init
<1>2. ~Engaged /\ Free
  BY <1>1 DEF Engaged, Free
<1>3. Len(Image) >= DiskSize /\ DiskSize \in Nat /\ Len(Image) \in Nat
  BY FddAssumption, DiskSizeType, LenProperties DEF InsideImage
<1>4. Stored
  BY <1>1, <1>3 DEF Stored, Contents
<1>. QED
  BY <1>2, <1>4 DEF DiskInv, OnTheWay, Reached, Writing

\* The drive and what it holds.
StoreInv == DriveInv /\ SizeInv /\ DiskInv

LEMMA StoreStep ==
  ASSUME BuffersFit(Programs), Seeking, InsideImage(Programs), StoreInv, [Next]_vars
  PROVE  StoreInv'
<1>1. /\ TypeInv /\ HandInv /\ PlaceInv /\ ProtocolInv /\ SeekingInv /\ PositionInv
      /\ SizeInv /\ DiskInv
  BY DEF StoreInv, DriveInv, HandshakeInv
<1>2. DriveInv'
  BY DriveStep DEF StoreInv
<1>3. TypeInv' /\ PlaceInv' /\ ProtocolInv'
  BY <1>2 DEF DriveInv, HandshakeInv
<1>4. SizeInv'
  BY <1>1, <1>3, SizeStep
<1>5. DiskInv'
  <2>1. CASE UNCHANGED vars
    BY <1>1, <2>1 DEF DiskInv, OnTheWay, Reached, Stored, Holds, Reachable, Writing, Engaged,
                      Edge, Pending, Left, Size, Free, vars, worker, cpu
  <2>2. CASE Worker
    BY <1>1, <1>3, <2>2, HandOverDisk, SeekDisk, WriteDisk, DequeueDisk DEF Worker
  <2>3. CASE Cpu
    BY <1>1, <1>3, <2>3, StartDisk, SendDisk, PutDisk, ClearDisk, WaitDisk DEF Cpu
  <2>. QED
    BY <2>1, <2>2, <2>3 DEF Next
<1>. QED
  BY <1>2, <1>4, <1>5 DEF StoreInv

LEMMA StoreInit == Seeking /\ InsideImage(Programs) /\ Init => StoreInv
BY DriveInit, SizeInit, DiskInit DEF StoreInv

\* What the service has written is in the image file, each byte at its place: for
\* every guest that has the worker seek and stays inside the disk and the image.
THEOREM WriteSafe ==
  BuffersFit(Programs) /\ SeeksImplied(Programs) /\ InsideImage(Programs) /\ Spec
    => []WritesReachImage
<1>. SUFFICES ASSUME BuffersFit(Programs), Seeking, InsideImage(Programs)
              PROVE  Spec => []WritesReachImage
  BY DEF Seeking
<1>1. StoreInv /\ [Next]_vars => StoreInv'
  BY StoreStep
<1>2. Init => StoreInv
  BY StoreInit
<1>3. StoreInv => WritesReachImage
  <2> SUFFICES ASSUME StoreInv, cpc = "next", wpc = "idle" PROVE Contents(image) = disk
    BY DEF WritesReachImage
  <2>1. /\ Stored /\ disk \in [0..(DiskSize - 1) -> Byte] /\ Len(image) >= DiskSize
        /\ Len(image) \in Nat /\ DiskSize \in Nat
    BY DiskSizeType, LenProperties
       DEF StoreInv, DriveInv, HandshakeInv, PositionInv, DiskInv, Writing, Engaged,
           TypeInv, TypeOK
  <2>2. \A o \in 0..(DiskSize - 1) : (IF o < Len(image) THEN image[o + 1] ELSE 0) = disk[o]
    BY <2>1 DEF Stored
  <2>. QED
    BY <2>1, <2>2 DEF Contents
<1>. QED
  BY <1>1, <1>2, <1>3, PTL DEF Spec

-----------------------------------------------------------------------------
(* What a read leaves in the guest's memory.                                *)

Reading == Engaged /\ req.op # "write" /\ Reachable(req)

\* A byte of the sector is where the guest put it in its buffer, in the register
\* until the guest takes it, or in the worker's hand.
InPlace == \A i \in 0..(Size - Left - 1) : mem[(di - Size + i) % (2 * Half)] = disk[Start(req) + i]
InRegister == int /\ Left > 0 => dreg = disk[Edge]
InHand == wpc \in {"store", "raise"} /\ left > 0 => out = disk[Start(req) + Size - left]
MemInv == wpc # "exit" /\ Reading => InPlace /\ InRegister /\ InHand

\* A bad position ends the emulator before the guest has a byte of the sector.
ExitInv == wpc = "exit" /\ Engaged /\ req.op # "write" => cpc # "status"

LEMMA AddressType ==
  ASSUME NEW n \in Int
  PROVE  n % (2 * Half) \in Word
<1> DEFINE m == 2 * Half
<1>1. m \in Nat \ {0}
  BY FddAssumption
<1>. HIDE DEF m
<1>2. n % m \in 0..(m - 1)
  BY <1>1
<1>. QED
  BY <1>2 DEF m, Word

LEMMA WorkerReading ==
  ASSUME Worker
  PROVE  (Reading' <=> Reading) /\ (InPlace' <=> InPlace)
<1>1. /\ UNCHANGED <<req, disk, mem, di, Left, Size, Edge>> /\ (Engaged' <=> Engaged)
  BY WorkerFrame
<1>2. Reading' <=> Reading
  BY <1>1 DEF Reading, Reachable
<1>3. InPlace' <=> InPlace
  BY <1>1 DEF InPlace
<1>. QED
  BY <1>2, <1>3

\* The byte the worker reads is the one at its place on the disk.
LEMMA ReadMem ==
  ASSUME BuffersFit(Programs), TypeInv, PlaceInv, ProtocolInv, PositionInv, DiskInv, MemInv,
         Worker, ReadFromDrive
  PROVE  MemInv'
<1>1. /\ wpc = "transfer" /\ left > 0 /\ left \in Int /\ cmd[1] # 5 /\ wpc' = "store"
      /\ out' = IF filePos < Len(image) THEN image[filePos + 1] ELSE 0
      /\ UNCHANGED <<left, int, dreg>>
  BY DEF ReadFromDrive, TypeInv, TypeOK
<1>2. ~Free /\ Transferring
  BY <1>1 DEF Free, Transferring, NoStatus
<1>3. Serving
  BY <1>1, <1>2, FreeOrServing
<1>4. ~Writing
  BY <1>1, <1>3, ServingTypes DEF Writing
<1>5. /\ filePos = Linear(pos) /\ filePos \in 0..(DiskSize - 1) /\ Len(image) >= DiskSize
      /\ filePos = CommandStart + Moved /\ CommandStart \in Nat
      /\ Len(image) \in Nat /\ DiskSize \in Nat
  BY <1>2, TransferTypes
<1>6. CommandStart = Start(req) /\ TransferSize = Size /\ Size \in Nat
  BY <1>3, ServedCommand
<1>7. filePos = Start(req) + Size - left
  <2>1. Moved = Size - left
    BY <1>1, <1>6 DEF Moved
  <2>. QED
    BY <1>1, <1>5, <1>6, <2>1
<1>8. out' = disk[filePos]
  <2>1. disk[filePos] = image[filePos + 1]
    BY <1>1, <1>4, <1>5 DEF DiskInv, Stored
  <2>. QED
    BY <1>1, <1>5, <2>1
<1>9. UNCHANGED <<req, disk, Size, Left, Edge>>
  BY WorkerFrame
<1>10. InHand'
  <2>1. out' = disk'[Start(req') + Size' - left']
    BY <1>1, <1>7, <1>8, <1>9
  <2>. QED
    BY <2>1 DEF InHand
<1>11. InRegister' <=> InRegister
  BY <1>1, <1>9 DEF InRegister
<1>. QED
  BY <1>1, <1>10, <1>11, WorkerReading DEF MemInv

\* The byte it announces is the one the guest takes next.
LEMMA RaiseMem ==
  ASSUME TypeInv, HandInv, PlaceInv, ProtocolInv, MemInv, Worker, RaiseInt
  PROVE  MemInv'
<1>1. /\ wpc = "raise" /\ wpc' = "transfer" /\ dreg' = dreg /\ ~int /\ dreg = out
      /\ left \in Int
  BY DEF RaiseInt, HandInv, TypeInv, TypeOK
<1>2. Serving
  BY <1>1, FreeOrServing DEF Free
<1>3. UNCHANGED <<req, disk, Size, Left, Edge>>
  BY WorkerFrame
<1>4. ASSUME Reading, Left > 0
      PROVE  dreg = disk[Edge]
  <2>1. req.op # "write" /\ Left \in 0..Size /\ Size \in Nat
    BY <1>2, <1>4, ServingTypes DEF Reading
  <2>2. cpc # "status"
    <3>1. cpc = "status" => Left = 0
      <4>1. cpc = "status" => bx = di
        BY <1>4 DEF Reading, PlaceInv
      <4>2. di \in Word
        BY DEF TypeInv, TypeOK
      <4>. QED
        BY <4>1, <4>2, SignedType DEF Left
    <3>. QED
      BY <1>4, <3>1
  <2>3. Left + 7 = left + 7
    <3>1. Expect = Left + 7
      BY <2>1, <2>2 DEF Expect, NoStatus
    <3>2. Owed = left + 7
      BY <1>1, <2>1 DEF Owed, NoStatus
    <3>3. Expect = Owed + 0
      BY <1>1, <1>2 DEF Serving
    <3>. QED
      BY <1>1, <2>1, <3>1, <3>2, <3>3
  <2>4. left = Left
    BY <1>1, <2>1, <2>3
  <2>5. out = disk[Start(req) + Size - left]
    BY <1>1, <1>4, <2>4 DEF MemInv, InHand
  <2>. QED
    BY <1>1, <2>4, <2>5 DEF Edge
<1>5. Reading => InRegister'
  BY <1>1, <1>3, <1>4 DEF InRegister
<1>6. InHand'
  BY <1>1 DEF InHand
<1>. QED
  BY <1>1, <1>5, <1>6, WorkerReading DEF MemInv

LEMMA WorkerMem ==
  ASSUME BuffersFit(Programs), TypeInv, HandInv, PlaceInv, ProtocolInv, NothingOverwritten,
         PositionInv, DiskInv, MemInv, Worker
  PROVE  MemInv'
<1>1. UNCHANGED <<req, disk, Size, Left, Edge>>
  BY WorkerFrame
<1>2. (Reading' <=> Reading) /\ (InPlace' <=> InPlace) /\ wpc # "exit"
  BY WorkerReading, WorkerFrame
<1>3. CASE DequeueCommand
  <2>1. wpc = "idle" /\ wpc' \in {"idle", "args"} /\ int' = int /\ queue # <<>>
        /\ (dreg' # dreg => Head(queue) \notin Commands)
    BY <1>3 DEF DequeueCommand, worker
  <2>2. dreg' # dreg => ~int'
    BY <2>1 DEF NothingOverwritten
  <2>3. InRegister => InRegister'
    BY <1>1, <2>1, <2>2 DEF InRegister
  <2>4. InHand'
    BY <2>1 DEF InHand
  <2>. QED
    BY <1>2, <2>3, <2>4 DEF MemInv
<1>4. CASE DequeueArgument \/ Configure \/ Seek \/ NotReady \/ WriteToDrive \/ EndCommand
  <2>1. wpc' \notin {"store", "raise"} /\ UNCHANGED <<int, dreg>>
    BY <1>4 DEF DequeueArgument, Configure, Seek, NotReady, WriteToDrive, EndCommand
  <2>2. InRegister => InRegister'
    BY <1>1, <2>1 DEF InRegister
  <2>3. InHand'
    BY <2>1 DEF InHand
  <2>. QED
    BY <1>2, <2>2, <2>3 DEF MemInv
<1>5. CASE SendStatus
  <2>1. left' <= 0 /\ left' \in Int /\ UNCHANGED <<int, dreg>>
    BY <1>5 DEF SendStatus
  <2>2. InRegister => InRegister'
    BY <1>1, <2>1 DEF InRegister
  <2>3. InHand'
    BY <2>1 DEF InHand
  <2>. QED
    BY <1>2, <2>2, <2>3 DEF MemInv
<1>6. CASE StoreData
  <2>1. wpc = "store" /\ ~int' /\ UNCHANGED <<left, out>>
    BY <1>6 DEF StoreData, MayStore
  <2>2. InRegister'
    BY <2>1 DEF InRegister
  <2>3. InHand => InHand'
    BY <1>1, <2>1 DEF InHand
  <2>. QED
    BY <1>2, <2>2, <2>3 DEF MemInv
<1>. QED
  BY <1>3, <1>4, <1>5, <1>6, ReadMem, RaiseMem DEF Worker

\* Before a command is taken the guest has none of its sector, and no byte is on
\* its way.
LEMMA FreshMem ==
  ASSUME TypeInv', Free', Engaged' => Left' = Size'
  PROVE  MemInv'
<1> SUFFICES ASSUME Reading' PROVE InPlace' /\ InRegister' /\ InHand'
  BY DEF MemInv
<1>1. Left' = Size' /\ Size' \in Nat
  BY SizeType DEF Reading, Size
<1>2. InPlace'
  <2>1. \A x \in Nat : 0..(x - x - 1) = {}
    OBVIOUS
  <2>2. 0..(Size' - Left' - 1) = {}
    BY <1>1, <2>1, Zenon
  <2>. QED
    BY <2>2 DEF InPlace
<1>3. ~int' /\ wpc' \notin {"store", "raise"}
  BY DEF Free
<1>. QED
  BY <1>2, <1>3 DEF InRegister, InHand

LEMMA StoreMem ==
  ASSUME TypeInv, HandInv, PlaceInv, SizeInv, MemInv, ClearInt, cpc = "read"
  PROVE  MemInv'
<1>1. /\ mem' = [mem EXCEPT ![bx] = al[1]] /\ req' = req /\ di' = di /\ int /\ ~int'
      /\ al[1] = dreg /\ wpc # "exit" /\ Engaged /\ bx \in Word /\ di \in Word
      /\ mem \in [Word -> Byte]
      /\ UNCHANGED <<wpc, left, out, dreg, disk>>
  BY DEF ClearInt, StoreByte, HandInv, Running, Engaged, worker, TypeInv, TypeOK
<1>2. /\ Left \in 1..Size /\ Size \in 1..(2 * Half - 1) /\ Left \in Int /\ Size \in Int
  <2>1. Left \in 1..Size /\ Size \in Nat \ {0} /\ Size < 2 * Half
    BY <1>1, SizeType DEF PlaceInv, SizeInv, Size
  <2>2. Half \in Nat
    BY FddAssumption
  <2>. QED
    BY <2>1, <2>2
<1>3. Left' = Left - 1 /\ Size' = Size /\ Start(req)' = Start(req)
  BY <1>1, StorePlace DEF Size
<1>4. SUFFICES ASSUME Reading' PROVE InPlace' /\ InRegister' /\ InHand'
  BY DEF MemInv
<1>5. Reading
  BY <1>1, <1>4 DEF Reading, Reachable
<1>6. InPlace /\ InRegister /\ InHand
  BY <1>1, <1>5 DEF MemInv
<1>7. dreg = disk[Start(req) + (Size - Left)]
  <2>1. Start(req) \in Int
    BY <1>5, EdgeType DEF Reading
  <2>2. Edge = Start(req) + (Size - Left)
    BY <1>2, <2>1 DEF Edge
  <2>. QED
    BY <1>1, <1>2, <1>6, <2>2 DEF InRegister
<1>8. ASSUME NEW i \in 0..(Size - Left)
      PROVE  mem'[(di - Size + i) % (2 * Half)] = disk[Start(req) + i]
  <2>1. (di - Size + i) % (2 * Half) \in Word
    <3>1. di - Size + i \in Int
      BY <1>1, <1>2, FddAssumption DEF Word
    <3>. QED
      BY <3>1, AddressType
  <2>2. PICK a \in Word : a = (di - Size + i) % (2 * Half)
    BY <2>1
  <2>3. mem'[a] = IF a = bx THEN dreg ELSE mem[a]
    BY <1>1, <2>2
  <2>4. CASE i = Size - Left
    <3>1. (di - Size + (Size - Left)) % (2 * Half) = bx
      BY <1>1, <1>2, FromTheEnd DEF Left
    <3>2. a = bx
      BY <2>2, <2>4, <3>1
    <3>. QED
      BY <1>7, <2>2, <2>3, <2>4, <3>2
  <2>5. CASE i \in 0..(Size - Left - 1)
    <3>1. \A j \in 0..(Size - Left - 1) : (di - Size + j) % (2 * Half) # bx
      BY <1>1, <1>2, FromTheEnd DEF Left
    <3>2. a # bx
      BY <2>2, <2>5, <3>1
    <3>3. mem[a] = disk[Start(req) + i]
      BY <1>6, <2>2, <2>5 DEF InPlace
    <3>. QED
      BY <2>2, <2>3, <3>2, <3>3
  <2>6. i = Size - Left \/ i \in 0..(Size - Left - 1)
    BY <1>2
  <2>. QED
    BY <2>4, <2>5, <2>6
<1>9. InPlace'
  <2>1. Size' - Left' - 1 = Size - Left
    BY <1>2, <1>3
  <2>2. \A i \in 0..(Size' - Left' - 1) :
          mem'[(di' - Size' + i) % (2 * Half)] = disk'[Start(req)' + i]
    BY <1>1, <1>3, <1>8, <2>1
  <2>. QED
    BY <2>2 DEF InPlace
<1>10. InHand'
  BY <1>1, <1>3, <1>6 DEF InHand
<1>. QED
  BY <1>1, <1>9, <1>10 DEF InRegister

LEMMA CpuMem ==
  ASSUME TypeInv, HandInv, PlaceInv, ProtocolInv, TypeInv', PlaceInv', SizeInv, MemInv, Cpu
  PROVE  MemInv'
<1>1. /\ wpc # "exit" /\ UNCHANGED <<wpc, cmd, left, out>>
  BY CpuFrame
<1>2. CASE StartRequest \/ SendByte
  <2>1. int' = int
    BY <1>2 DEF StartRequest, SendByte
  <2>2. Free
    <3>1. ~Serving
      BY <1>2 DEF Serving, Engaged, StartRequest, SendByte
    <3>. QED
      BY <1>1, <3>1, FreeOrServing
  <2>3. Free'
    BY <1>1, <2>1, <2>2 DEF Free
  <2>4. Engaged' => Left' = Size'
    <3>1. CASE StartRequest
      <4>1. cpc' = "send"
        BY <3>1 DEF StartRequest
      <4>. QED
        BY <4>1 DEF PlaceInv
    <3>2. CASE SendByte
      <4>1. /\ cpc = "send" /\ UNCHANGED <<req, bx, di>>
            /\ (Engaged' => req.op \in Transfers)
        <5>1. cpc = "send" /\ UNCHANGED <<req, bx, di>>
          BY <3>2 DEF SendByte
        <5>2. Engaged' => req'.op \in Transfers
          BY DEF PlaceInv
        <5>. QED
          BY <5>1, <5>2
      <4>2. Left' = Left /\ Size' = Size
        BY <4>1 DEF Left, Size
      <4>. QED
        BY <4>1, <4>2 DEF PlaceInv, Engaged
    <3>. QED
      BY <1>2, <3>1, <3>2
  <2>. QED
    BY <2>3, <2>4, FreshMem
<1>3. CASE BusyWait \/ LoadData
  <2>1. UNCHANGED <<req, bx, di, mem, disk, int, dreg>> /\ (Engaged' <=> Engaged)
    BY <1>3 DEF BusyWait, LoadData, Engaged
  <2>2. UNCHANGED <<Left, Size, Edge>> /\ (Reading' <=> Reading)
    BY <2>1 DEF Left, Size, Edge, Reading, Reachable
  <2>3. (InPlace' <=> InPlace) /\ (InRegister' <=> InRegister) /\ (InHand' <=> InHand)
    BY <1>1, <2>1, <2>2 DEF InPlace, InRegister, InHand
  <2>. QED
    BY <1>1, <2>2, <2>3 DEF MemInv
<1>4. CASE WriteByte
  <2>1. req'.op = "write"
    BY <1>4 DEF WriteByte, PlaceInv, Engaged
  <2>. QED
    BY <2>1 DEF MemInv, Reading
<1>5. CASE ClearInt /\ cpc = "read"
  BY <1>5, StoreMem
<1>6. CASE ClearInt /\ cpc # "read"
  <2>1. int /\ ~int' /\ UNCHANGED <<mem, disk>>
    BY <1>6 DEF ClearInt, HandInv, NextSector
  <2>2. Serving
    BY <1>1, <2>1, FreeOrServing DEF Free
  <2>3. /\ cpc = "status"
        /\ \/ UNCHANGED <<cpc, req, bx, di>>
           \/ Len(toSend) = 6 /\ cpc' = "next"
           \/ Len(toSend) = 6 /\ cpc' = "send"
    BY <1>6, NextPlace
  <2>4. CASE UNCHANGED <<cpc, req, bx, di>>
    <3>1. UNCHANGED <<Left, Size, Edge>> /\ (Reading' <=> Reading)
      BY <2>4 DEF Left, Size, Edge, Reading, Reachable, Engaged
    <3>2. (InPlace' <=> InPlace) /\ InRegister' /\ (InHand' <=> InHand)
      BY <1>1, <2>1, <2>4, <3>1 DEF InPlace, InRegister, InHand
    <3>. QED
      BY <1>1, <3>1, <3>2 DEF MemInv
  <2>5. CASE Len(toSend) = 6 /\ cpc' \in {"next", "send"}
    <3>1. wpc = "idle" \/ (wpc = "transfer" /\ left = -NoStatus)
      BY <2>1, <2>2, <2>3, <2>5, LastStatus
    <3>2. Free'
      BY <1>1, <2>1, <3>1 DEF Free
    <3>3. Engaged' => Left' = Size'
      BY <2>5 DEF Engaged, PlaceInv
    <3>. QED
      BY <3>2, <3>3, FreshMem
  <2>. QED
    BY <2>3, <2>4, <2>5
<1>. QED
  BY <1>2, <1>3, <1>4, <1>5, <1>6 DEF Cpu

\* The emulator only ends at a seek, before a byte was handed over.
LEMMA ExitStep ==
  ASSUME TypeInv, PlaceInv, ProtocolInv, SeekingInv, PositionInv, ExitInv, [Next]_vars
  PROVE  ExitInv'
<1>1. CASE UNCHANGED vars
  BY <1>1 DEF ExitInv, Engaged, vars, worker, cpu
<1>2. CASE Cpu
  BY <1>2, CpuFrame DEF ExitInv
<1>3. CASE Worker /\ wpc' = "exit"
  <2>1. wpc = "seek" /\ cmd[1] # 19
    <3>1. ~NotReady
      BY DEF NotReady, PositionInv, Transferring
    <3>. QED
      BY <1>3, <3>1 DEF Worker, DequeueCommand, DequeueArgument, Configure, Seek, ReadFromDrive,
                        WriteToDrive, SendStatus, StoreData, RaiseInt, EndCommand, worker
  <2>2. Serving
    <3>1. ~Free
      BY <2>1 DEF Free
    <3>. QED
      BY <2>1, <3>1, FreeOrServing
  <2>3. Engaged /\ Size \in Nat \ {0} /\ Expect = Owed + (IF int THEN 1 ELSE 0)
    BY <2>2, ServingTypes DEF Serving
  <2>4. req.op # "write" => cpc # "status"
    <3>1. SUFFICES ASSUME req.op # "write", cpc = "status" PROVE FALSE
      OBVIOUS
    <3>2. Owed = Size + 7
      BY <2>1, <3>1 DEF Owed, Full, NoStatus
    <3>3. Expect \in 1..7
      <4>1. Len(toSend) \in 0..6
        BY <2>3, <3>1 DEF PlaceInv
      <4>2. PICK n \in 0..6 : n = Len(toSend)
        BY <4>1
      <4>3. Expect = 7 - n
        BY <3>1, <4>2 DEF Expect, NoStatus
      <4>. QED
        BY <4>3
    <3>. QED
      BY <2>3, <3>2, <3>3
  <2>5. UNCHANGED <<cpc, req>>
    BY <1>3, WorkerFrame
  <2>. QED
    BY <2>4, <2>5 DEF ExitInv
<1>4. CASE wpc' # "exit"
  BY <1>4 DEF ExitInv
<1>. QED
  BY <1>1, <1>2, <1>3, <1>4 DEF Next

\* All that holds of the controller and its guest.
FddInv == StoreInv /\ MemInv /\ ExitInv

LEMMA FddInit == Seeking /\ InsideImage(Programs) /\ Init => FddInv
<1> SUFFICES ASSUME Seeking, InsideImage(Programs), Init PROVE MemInv /\ ExitInv
  BY StoreInit DEF FddInv
<1>1. ~Engaged
  BY DEF Init, Engaged
<1>. QED
  BY <1>1 DEF MemInv, Reading, ExitInv

LEMMA FddStep ==
  ASSUME BuffersFit(Programs), Seeking, InsideImage(Programs), FddInv, [Next]_vars
  PROVE  FddInv'
<1>1. /\ TypeInv /\ HandInv /\ PlaceInv /\ ProtocolInv /\ SeekingInv /\ PositionInv
      /\ SizeInv /\ DiskInv /\ MemInv /\ ExitInv
  BY DEF FddInv, StoreInv, DriveInv, HandshakeInv
<1>2. StoreInv'
  BY StoreStep DEF FddInv
<1>3. TypeInv' /\ PlaceInv'
  BY <1>2 DEF StoreInv, DriveInv, HandshakeInv
<1>4. ExitInv'
  BY <1>1, ExitStep
<1>5. MemInv'
  <2>1. CASE UNCHANGED vars
    BY <1>1, <2>1 DEF MemInv, Reading, Reachable, InPlace, InRegister, InHand, Engaged,
                      Edge, Left, Size, vars, worker, cpu
  <2>2. CASE Worker
    BY <1>1, <2>2, ProtocolSafe, WorkerMem
  <2>3. CASE Cpu
    BY <1>1, <1>3, <2>3, CpuMem
  <2>. QED
    BY <2>1, <2>2, <2>3 DEF Next
<1>. QED
  BY <1>2, <1>4, <1>5 DEF FddInv

\* When the service has read a sector or a track, and only the status is still to
\* come, the guest's buffer holds it as the disk does.
LEMMA SectorRead ==
  ASSUME WholeTracks(Programs), FddInv, req.op \in {"read", "track"}, cpc = "status"
  PROVE  InMemory(req) = OnDisk(req)
<1>1. /\ TypeInv /\ PlaceInv /\ ProtocolInv /\ DiskInv /\ MemInv /\ ExitInv
  BY DEF FddInv, StoreInv, DriveInv, HandshakeInv
<1>2. Engaged /\ wpc # "exit" /\ Size \in Nat \ {0} /\ Expect \in 1..7
  <2>1. Engaged /\ Size \in Nat \ {0}
    BY SizeType DEF Engaged, Size
  <2>2. wpc # "exit"
    BY <1>1, <2>1 DEF ExitInv
  <2>3. PICK n \in 0..6 : n = Len(toSend)
    BY <1>1, <2>1 DEF PlaceInv
  <2>4. Expect = 7 - n
    BY <2>3 DEF Expect, NoStatus
  <2>. QED
    BY <2>1, <2>2, <2>4
<1>3. Full = Size + 7
  BY DEF Full, NoStatus
<1>4. Serving
  <2>1. Expect # Full
    BY <1>2, <1>3
  <2>. QED
    BY <1>1, <1>2, <2>1 DEF ProtocolInv, Quiet, Waiting
<1>5. wpc # "seek"
  <2>1. SUFFICES ASSUME wpc = "seek" PROVE FALSE
    OBVIOUS
  <2>2. Expect = Full + (IF int THEN 1 ELSE 0)
    BY <1>4, <2>1 DEF Serving, Owed
  <2>. QED
    BY <1>2, <1>3, <2>2
<1>6. Reachable(req)
  BY <1>1, <1>2, <1>4, <1>5, FreeOrServing DEF DiskInv, Reached
<1>7. InPlace /\ Left = 0
  <2>1. InPlace
    BY <1>1, <1>2, <1>6 DEF MemInv, Reading
  <2>2. bx = di /\ di \in Word
    BY <1>1, <1>2 DEF PlaceInv, TypeInv, TypeOK
  <2>. QED
    BY <2>1, <2>2, SignedType DEF Left
<1>8. Start(req) = Linear(At(req.track, req.head, req.sector))
  <2>1. req.op = "track" => req.sector = 1
    BY <1>1, <1>2 DEF PlaceInv, Owing
  <2>2. Target(req) = req.sector
    BY <2>1 DEF Target
  <2>. QED
    BY <2>2 DEF Start
<1>9. \A i \in 0..(Size - 1) :
        mem[(di - Size + i) % (2 * Half)] = disk[Linear(At(req.track, req.head, req.sector)) + i]
  <2>1. Size - Left - 1 = Size - 1
    BY <1>2, <1>7
  <2>. QED
    BY <1>7, <1>8, <2>1 DEF InPlace
<1>. QED
  BY <1>9, Zenon DEF InMemory, OnDisk, Size

\* Each sector or track the service reads is the one asked for, as the image held
\* it or the guest last wrote it: for every guest that has the worker seek, asks
\* for whole tracks, and stays inside the disk and the image.
THEOREM SectorSafe ==
  /\ BuffersFit(Programs) /\ SeeksImplied(Programs)
  /\ InsideImage(Programs) /\ WholeTracks(Programs) /\ Spec
  => []SectorCorrect
<1>. SUFFICES ASSUME BuffersFit(Programs), Seeking, InsideImage(Programs), WholeTracks(Programs)
              PROVE  Spec => []SectorCorrect
  BY DEF Seeking
<1>1. FddInv /\ [Next]_vars => FddInv'
  BY FddStep
<1>2. Init => FddInv
  BY FddInit
<1>3. FddInv => SectorCorrect
  BY SectorRead DEF SectorCorrect
<1>. QED
  BY <1>1, <1>2, <1>3, PTL DEF Spec
=============================================================================
