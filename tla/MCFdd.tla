--------------------------------- MODULE MCFdd ---------------------------------
(***************************************************************************)
(* A small disk for Fdd, and the guest's programs.  Each starts, as the    *)
(* BIOS does, by configuring the implied seek.                             *)
(***************************************************************************)
EXTENDS Fdd

Op(op, count, t, h, s, addr) ==
  [Idle EXCEPT !.op = op, !.count = count, !.track = t, !.head = h, !.sector = s,
               !.addr = addr]

EnableSeek == [Idle EXCEPT !.op = "configure", !.eis = TRUE]

FullImage == [i \in 1..DiskSize |-> i]

\* Boot: the first sector, then several in a row, across heads and tracks.
Boot == <<EnableSeek, Op("read", 1, 0, 0, 1, 4), Op("read", 2, 1, 0, 1, 16)>>
Backwards == <<EnableSeek, Op("read", 1, 1, 0, 2, 0), Op("read", 1, 0, 1, 1, 4),
               Op("read", 1, 0, 0, 1, 8)>>
Rewrite == <<EnableSeek, Op("write", 2, 0, 0, 1, 8), Op("read", 1, 0, 0, 2, 0),
             Op("write", 1, 1, 0, 1, 0), Op("read", 1, 1, 0, 1, 4)>>
WholeTrack == <<EnableSeek, Op("track", 1, 0, 1, 1, 0), Op("read", 1, 0, 1, 2, 16)>>
Unknown == <<EnableSeek, Idle, Op("read", 1, 0, 1, 1, 0), Idle, Op("read", 1, 0, 0, 2, 0)>>
Sequential == <<Op("read", 2, 1, 1, 1, 0)>>
PastTheTrack == <<EnableSeek, Op("read", 2, 0, 0, 2, 0)>>
NoDisk == <<EnableSeek, [Op("read", 1, 0, 0, 1, 0) EXCEPT !.slot = 1]>>
NoDiskSequential == <<[Op("write", 1, 0, 0, 1, 0) EXCEPT !.slot = 2]>>

MCPrograms ==
  {Boot, Backwards, Rewrite, WholeTrack, Unknown, Sequential, PastTheTrack, NoDisk,
   NoDiskSequential}

\* A buffer that ends at the middle of the segment.
AcrossHalf == {<<EnableSeek, Op("read", 1, 0, 0, 1, Half - SectorSz)>>}

\* The programs are well formed, but for those that do not seek.
ASSUME MCBuffersFit == BuffersFit(MCPrograms)
ASSUME MCSeeking ==
  LET P == MCPrograms \ {Sequential, NoDiskSequential}
  IN  SeeksImplied(P) /\ WholeTracks(P) /\ \A r \in Asked(P) : Clear(r)
ASSUME MCWholeImage == Len(FullImage) >= DiskSize
=============================================================================
