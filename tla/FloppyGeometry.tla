----------------------------- MODULE FloppyGeometry -----------------------------
(***************************************************************************)
(* Positions on a floppy disk (floppy_driver_t.h): the hierarchy track,    *)
(* head, sector, progress, how a byte transferred advances it              *)
(* (advance_pos), and the distance seek computes between two positions.    *)
(***************************************************************************)
EXTENDS Integers

CONSTANTS NoTracks, NoHeads, NoSectors, SectorSz

ASSUME GeometryAssumption ==
  /\ NoTracks \in Nat \ {0} /\ NoHeads \in Nat \ {0}
  /\ NoSectors \in Nat \ {0} /\ SectorSz \in Nat \ {0}

Position ==
  [track : 0..(NoTracks - 1), head : 0..(NoHeads - 1), sector : 1..NoSectors,
   progress : 0..(SectorSz - 1)]

DiskSize == SectorSz * NoSectors * NoHeads * NoTracks

\* The offset in the image file of a position.
Linear(p) ==
  ((p.track * NoHeads + p.head) * NoSectors + (p.sector - 1)) * SectorSz + p.progress

\* The start of a sector.
At(track, head, sector) ==
  [track |-> track, head |-> head, sector |-> sector, progress |-> 0]

\* Slip: an off-by-one at the last sector of a head.
AdvancePosPastSector(p) ==
  IF p.progress < SectorSz - 1 THEN [p EXCEPT !.progress = @ + 1]
  ELSE [p EXCEPT !.progress = 0, !.sector = @ + 1]

\* The position after one more byte: the lowest level that is not at its end
\* moves by one, and the levels below it restart.
AdvancePos(p) ==
  IF p.progress < SectorSz - 1 THEN [p EXCEPT !.progress = @ + 1]
  ELSE IF p.sector < NoSectors THEN [p EXCEPT !.progress = 0, !.sector = @ + 1]
  ELSE IF p.head < NoHeads - 1
    THEN [p EXCEPT !.progress = 0, !.sector = 1, !.head = @ + 1]
  ELSE IF p.track < NoTracks - 1
    THEN [track |-> p.track + 1, head |-> 0, sector |-> 1, progress |-> 0]
  ELSE At(0, 0, 1)

\* Slip: a head counted as one sector.
SeekOffsetShortHead(p, track, head, sector) ==
  (sector - p.sector) * SectorSz + (head - p.head) * SectorSz
    + (track - p.track) * SectorSz * NoSectors * NoHeads

\* What seek passes to fseek(SEEK_CUR): it looks at the sector it believes to be
\* on, not at the progress inside it.
SeekOffset(p, track, head, sector) ==
  (sector - p.sector) * SectorSz
    + (head - p.head) * SectorSz * NoSectors
    + (track - p.track) * SectorSz * NoSectors * NoHeads

InRange(track, head, sector) ==
  track \in 0..(NoTracks - 1) /\ head \in 0..(NoHeads - 1) /\ sector \in 1..NoSectors
=============================================================================
