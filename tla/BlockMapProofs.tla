--------------------------- MODULE BlockMapProofs ---------------------------
(***************************************************************************)
(* Theorems about BlockMap: the lists of extents are what the code takes   *)
(* them for, they implement the three maps of MapLayers, the frames on     *)
(* file agree with the maps, and a read of a block gives what was written  *)
(* last.                                                                   *)
(***************************************************************************)
EXTENDS BlockMap, SequenceTheorems, WellFoundedInduction, TLAPS

-----------------------------------------------------------------------------
(* The invariant *)

Extents ==
    {e \in [vol : Nat, jnl : Nat, n : Nat] :
        e.vol >= 1 /\ e.jnl >= 2 /\ e.n >= 1 /\ LastBlock(e) <= Width}
Apart(a, b) == LastBlock(a) < b.vol \/ LastBlock(b) < a.vol
Sorted(list) == \A i, k \in 1 .. Len(list) : i < k => LastBlock(list[i]) < list[k].vol
ListOK(list) == list \in Seq(Extents) /\ Sorted(list)

\* Where an extent maps a block; a list that it may be inserted into.
At(e, v) == IF Covers(e, v) THEN e.jnl + (v - e.vol) ELSE 0
CanQueue(list, e) == e = None \/ (e \in Extents /\ \A k \in 1 .. Len(list) : Apart(list[k], e))

\* The replacement a block has in the session, that of the extent under way included.
Current(v) == IF MapOf(open)[v] # 0 THEN MapOf(open)[v] ELSE At(pbm, v)

RequestOK ==
    \/ request = NoRequest
    \/ /\ request \in [first : VolumeBlocks, at : VolumeBlocks, left : Nat \ {0}]
       /\ request.first <= request.at /\ request.at + request.left - 1 <= Width

PbmOK ==
    /\ CanQueue(open, pbm)
    /\ pbm # None => /\ request # NoRequest
                     /\ LastBlock(pbm) = request.at - 1 /\ request.first <= pbm.vol

CountersOK ==
    /\ buffer_size \in BufferSizes /\ clock \in 0 .. MaxWrites
    /\ open_current_frame \in Nat /\ open_current_free \in Nat
    /\ next_free_frame \in 2 .. JournalSize
    /\ next_free_frame + open_current_free <= JournalSize
    /\ free_records \in Nat /\ dirty \in Nat /\ buffer_sector_start \in Nat
    /\ open_remapped \in BOOLEAN /\ flushing \in BOOLEAN
    /\ Buffered => dirty <= buffer_size

Pending == IF pbm = None THEN 0 ELSE 1

\* The lists, the request and the extent it is building.
ListInv ==
    /\ CountersOK /\ RequestOK /\ PbmOK
    /\ ListOK(open) /\ ListOK(flushed) /\ ListOK(restoring)
    /\ Len(open) + Len(flushed) + Len(restoring) + Pending + free_records <= MapRecords
    /\ flushing => request = NoRequest
    /\ todo \in Seq(Extents) /\ (~flushing => todo = <<>>)

\* A flush makes room for the extents it moves.
FlushInv ==
    flushing =>
        \A v \in VolumeBlocks :
            /\ (\E i \in 1 .. Len(todo) : Covers(todo[i], v)) => MapOf(open)[v] # 0
            /\ MapOf(open)[v] # 0 /\ MapOf(flushed)[v] # 0
                  => \E i \in 1 .. Len(todo) : Covers(todo[i], v)

\* No journal block replaces two blocks of a session, or blocks of the open
\* session and of an older one.
JournalInv ==
    \A v \in VolumeBlocks :
        /\ Current(v) < next_free_frame
        /\ MapOf(flushed)[v] < next_free_frame /\ MapOf(restoring)[v] < next_free_frame
        /\ Current(v) # 0 => \A w \in VolumeBlocks :
              /\ v # w => Current(v) # Current(w)
              /\ Current(v) \notin {MapOf(flushed)[w], MapOf(restoring)[w]}

MapInv == ListInv /\ FlushInv /\ JournalInv

\* No write fails while the buffer holds blocks (see ReadsGiveTheLatest).
Roomy == ~Buffered \/ MapRecords >= JournalSize - 2

\* The index buffer ends where the next block will go, and is empty when nothing is open.
BufferInv ==
    /\ ~Buffered \/ flushing => dirty = 0
    /\ ~open_remapped /\ flushed_start_record # 0 => dirty = 0
    /\ open_current_frame = 0 => dirty = 0 /\ open_current_free = 0
    /\ dirty > 0 =>
          /\ next_free_frame = buffer_sector_start + dirty
          /\ \A v \in VolumeBlocks :
                /\ MapOf(flushed)[v] # 0 => MapOf(flushed)[v] < buffer_sector_start
                /\ MapOf(restoring)[v] # 0 => MapOf(restoring)[v] < buffer_sector_start
    /\ MapRecords + 2 <= free_records + next_free_frame

\* What a read of a block gives, the extent under way included.
ShownAt(v) ==
    IF Current(v) # 0 THEN Current(v)
    ELSE IF MapOf(flushed)[v] # 0 THEN MapOf(flushed)[v]
    ELSE MapOf(restoring)[v]
Shown(v) == IF ShownAt(v) = 0 THEN volume[v] ELSE JournalValue(ShownAt(v))
Done(v) == request # NoRequest /\ request.first <= v /\ v < request.at

\* A read gives what the write under way, or the last one that succeeded, wrote.
ReadsInv ==
    /\ journal \in [JournalBlocks -> Nat] /\ buffer \in [JournalBlocks -> Nat]
    /\ volume \in [VolumeBlocks -> Nat] /\ view \in [VolumeBlocks -> Nat]
    /\ \A v \in VolumeBlocks :
          /\ Done(v) => Shown(v) = clock
          /\ view[v] # Unknown => Shown(v) = view[v]

\* The journal from here on belongs to the open session.
OpenFrom ==
    IF flushed_start_record # 0 THEN flushed_last_block + 1
    ELSE IF open_start_record # 0 THEN open_start_record ELSE next_free_frame
Dead == open_current_free = 0 /\ JournalSize - next_free_frame < 2
Fresh ==
    /\ open = <<>> /\ pbm = None
    /\ \A j \in JournalBlocks : j >= OpenFrom => index[j] = 0

\* What a write has gone through is mapped, and nobody counts on its blocks.
WrittenInv ==
    \A v \in VolumeBlocks :
       /\ Done(v) => Current(v) # 0
       /\ request # NoRequest /\ request.first <= v /\ v < request.at + request.left
             => view[v] = Unknown

\* The open frame has no more blocks than the buffer has room for.
RoomInv ==
    /\ Buffered /\ dirty > 0 => dirty + open_current_free <= buffer_size
    /\ Buffered /\ dirty = 0 /\ ~flushing => open_current_free = 0
    /\ open_start_record = 0 => open_current_free = 0

RecordsInv ==
    /\ index \in [JournalBlocks -> Nat]
    /\ open_start_record \in Nat /\ flushed_start_record \in Nat /\ flushed_last_block \in Nat
    /\ open_start_record < next_free_frame /\ flushed_start_record <= flushed_last_block
    /\ flushed_last_block < next_free_frame
    /\ \A j \in JournalBlocks : j >= next_free_frame => index[j] = 0
    /\ open_remapped => open_start_record # 0
    /\ flushing => /\ open_remapped /\ flushed_start_record # 0
                   /\ flushed_last_block = next_free_frame - 1
    /\ flushed_start_record = 0 => flushed = <<>>
    /\ open_remapped \/ Dead \/ Fresh

\* The frames of the open session know what its map knows.
OpenIndexInv ==
    open_remapped /\ ~flushing =>
        \A v \in VolumeBlocks :
           /\ Current(v) # 0 =>
                 /\ Current(v) >= OpenFrom /\ index[Current(v)] = v
                 /\ \A j \in JournalBlocks : index[j] = v => j <= Current(v)
           /\ view[v] # Unknown /\ Current(v) = 0 =>
                 \A j \in JournalBlocks : j >= OpenFrom => index[j] # v

\* And those of the sessions before know what the flushed map knows.
FlushedIndexInv ==
    flushed_start_record # 0 =>
        \A v \in VolumeBlocks :
           /\ flushing /\ view[v] # Unknown =>
                 FlushedLayer[v] = Replay(flushed_start_record, flushed_last_block)[v]
           /\ ~flushing /\ view[v] # Unknown /\ Current(v) = 0 =>
                 MapOf(flushed)[v] = Replay(flushed_start_record, flushed_last_block)[v]

IndexInv == WrittenInv /\ RoomInv /\ RecordsInv /\ OpenIndexInv /\ FlushedIndexInv

-----------------------------------------------------------------------------
(* Lists of extents *)

LEMMA SumKept ==
    ASSUME NEW o \in Nat, NEW f \in Nat, NEW r \in Nat, NEW p \in Nat, NEW s \in Nat,
           NEW oo \in Nat, NEW pp \in Nat, NEW ss \in Nat, NEW m \in Nat,
           o + f + r + p + s <= m, oo + pp + ss <= o + p + s
    PROVE  oo + f + r + pp + ss <= m
  OBVIOUS

LEMMA LeastIs ==
    ASSUME NEW S \in SUBSET Nat, S # {}
    PROVE  Least(S) \in S /\ \A k \in S : Least(S) <= k
<1>1. \E n \in S : \A k \in S : ~ (<<k, n>> \in OpToRel(<, Nat))
  BY WFMin, NatLessThanWellFounded, Zenon
<1>2. ASSUME NEW n \in S, NEW k \in S, k < n
      PROVE  <<k, n>> \in OpToRel(<, Nat)
  BY <1>2, SMT DEF OpToRel
<1>3. \E n \in S : \A k \in S : n <= k
  <2>1. PICK n \in S : \A k \in S : ~(k < n)
    BY <1>1, <1>2, Zenon
  <2> QED
    BY <2>1
<1> QED
  BY <1>3, Zenon DEF Least

LEMMA ExtentIs ==
    ASSUME NEW e \in Extents
    PROVE  /\ e = Extent(e.vol, e.jnl, e.n) /\ e # None
           /\ e.vol \in Nat /\ e.jnl \in Nat /\ e.n \in Nat
           /\ e.vol >= 1 /\ e.jnl >= 2 /\ e.n >= 1 /\ LastBlock(e) <= Width
           /\ LastBlock(e) = e.vol + e.n - 1 /\ LastBlock(e) \in Nat /\ e.vol <= LastBlock(e)
           /\ e.vol \in VolumeBlocks /\ LastBlock(e) \in VolumeBlocks
  BY BlockMapAssumption DEF Extents, Extent, None, LastBlock, VolumeBlocks

LEMMA MakeExtent ==
    ASSUME NEW v \in Nat, NEW j \in Nat, NEW n \in Nat,
           v >= 1, j >= 2, n >= 1, v + n - 1 <= Width
    PROVE  /\ Extent(v, j, n) \in Extents /\ LastBlock(Extent(v, j, n)) = v + n - 1
           /\ Extent(v, j, n).vol = v /\ Extent(v, j, n).jnl = j /\ Extent(v, j, n).n = n
  BY DEF Extents, Extent, LastBlock

LEMMA NoneCovers == \A v \in Nat : ~Covers(None, v)
  BY DEF None, Extent, Covers, LastBlock

\* The extents of a list.
LEMMA ListIs ==
    ASSUME NEW list, ListOK(list)
    PROVE  /\ Len(list) \in Nat
           /\ \A i \in 1 .. Len(list) : list[i] \in Extents
           /\ \A i, k \in 1 .. Len(list) : i < k => LastBlock(list[i]) < list[k].vol
  BY LenProperties, ElementOfSeq DEF ListOK, Sorted

\* Only one extent of a list has a block.
LEMMA OneCovers ==
    ASSUME NEW list, ListOK(list), NEW v \in Nat,
           NEW i \in 1 .. Len(list), Covers(list[i], v),
           NEW k \in 1 .. Len(list), Covers(list[k], v)
    PROVE  i = k
<1>1. Len(list) \in Nat /\ list[i] \in Extents /\ list[k] \in Extents
  BY ListIs
<1>2. ~(i < k) /\ ~(k < i)
  <2>1. i < k => LastBlock(list[i]) < list[k].vol
    BY ListIs
  <2>2. k < i => LastBlock(list[k]) < list[i].vol
    BY ListIs
  <2>3. /\ list[i].vol \in Nat /\ list[k].vol \in Nat /\ LastBlock(list[i]) \in Nat
        /\ LastBlock(list[k]) \in Nat
    BY <1>1, ExtentIs
  <2> QED
    BY <2>1, <2>2, <2>3 DEF Covers
<1> QED
  BY <1>1, <1>2

LEMMA MapAt ==
    ASSUME NEW list, ListOK(list), NEW v \in VolumeBlocks,
           NEW i \in 1 .. Len(list), Covers(list[i], v)
    PROVE  MapOf(list)[v] = list[i].jnl + (v - list[i].vol)
<1> DEFINE at == {k \in 1 .. Len(list) : Covers(list[k], v)}
<1>1. v \in Nat
  BY BlockMapAssumption DEF VolumeBlocks
<1>2. at = {i}
  BY <1>1, OneCovers
<1>3. Least(at) = i
  <2>1. at \in SUBSET Nat
    BY ListIs
  <2> QED
    BY <1>2, <2>1, LeastIs
<1>4. MapOf(list)[v] = IF at = {} THEN 0 ELSE list[Least(at)].jnl + (v - list[Least(at)].vol)
  BY DEF MapOf
<1> QED
  BY <1>2, <1>3, <1>4

LEMMA MapNowhere ==
    ASSUME NEW list, NEW v \in VolumeBlocks,
           \A i \in 1 .. Len(list) : ~Covers(list[i], v)
    PROVE  MapOf(list)[v] = 0
  BY DEF MapOf

LEMMA MapCovered ==
    ASSUME NEW list, ListOK(list), NEW v \in VolumeBlocks
    PROVE  /\ MapOf(list)[v] \in Nat
           /\ MapOf(list)[v] # 0 <=> \E i \in 1 .. Len(list) : Covers(list[i], v)
           /\ MapOf(list)[v] # 0 => MapOf(list)[v] >= 2
<1>1. v \in Nat
  BY BlockMapAssumption DEF VolumeBlocks
<1>2. ASSUME NEW i \in 1 .. Len(list), Covers(list[i], v)
      PROVE  MapOf(list)[v] \in Nat /\ MapOf(list)[v] >= 2
  <2>1. MapOf(list)[v] = list[i].jnl + (v - list[i].vol)
    BY <1>2, MapAt
  <2>2. list[i] \in Extents
    BY ListIs
  <2>3. /\ list[i].vol \in Nat /\ list[i].jnl \in Nat /\ list[i].jnl >= 2 /\ list[i].vol <= v
    BY <1>2, <2>2, ExtentIs DEF Covers
  <2> QED
    BY <1>1, <2>1, <2>3
<1>3. (\A i \in 1 .. Len(list) : ~Covers(list[i], v)) => MapOf(list)[v] = 0
  BY MapNowhere
<1> QED
  BY <1>2, <1>3

LEMMA EmptyList == ListOK(<<>>) /\ Len(<<>>) = 0 /\ \A v \in VolumeBlocks : MapOf(<<>>)[v] = 0
<1>1. ListOK(<<>>) /\ Len(<<>>) = 0
  BY EmptySeq DEF ListOK, Sorted
<1> QED
  BY <1>1, MapNowhere

\* Where fs_insert_map_record puts an extent.
LEMMA InsertIs ==
    ASSUME NEW list, ListOK(list), NEW e \in Extents,
           \A k \in 1 .. Len(list) : Apart(list[k], e)
    PROVE  \E i \in 1 .. Len(list) + 1 :
              /\ Insert(list, e) \in Seq(Extents) /\ Len(Insert(list, e)) = Len(list) + 1
              /\ \A k \in 1 .. Len(list) + 1 :
                    Insert(list, e)[k] = IF k < i THEN list[k] ELSE IF k = i THEN e ELSE list[k - 1]
              /\ \A k \in 1 .. Len(list) :
                    IF k < i THEN LastBlock(list[k]) < e.vol ELSE LastBlock(e) < list[k].vol
<1> DEFINE behind == {k \in 1 .. Len(list) : LastBlock(e) < list[k].vol}
           i == IF behind = {} THEN Len(list) + 1 ELSE Least(behind)
           front == SubSeq(list, 1, i - 1)
           back == SubSeq(list, i, Len(list))
<1>1. Len(list) \in Nat /\ list \in Seq(Extents) /\ \A k \in 1 .. Len(list) : list[k] \in Extents
  BY ListIs DEF ListOK
<1>2. i \in 1 .. Len(list) + 1 /\ (\A k \in 1 .. Len(list) : k < i => ~(LastBlock(e) < list[k].vol))
      /\ (i <= Len(list) => LastBlock(e) < list[i].vol)
  <2>1. behind \in SUBSET Nat
    BY <1>1
  <2>2. CASE behind = {}
    BY <1>1, <2>2
  <2>3. CASE behind # {}
    <3>1. Least(behind) \in behind /\ \A k \in behind : Least(behind) <= k
      BY <2>1, <2>3, LeastIs
    <3>2. PICK m : m = Least(behind)
      OBVIOUS
    <3>3. i = m
      BY <2>3, <3>2
    <3>4. m \in 1 .. Len(list) /\ LastBlock(e) < list[m].vol
      BY <3>1, <3>2
    <3>5. \A k \in 1 .. Len(list) : LastBlock(e) < list[k].vol => m <= k
      BY <3>1, <3>2
    <3> HIDE DEF i
    <3> QED
      BY <1>1, <3>3, <3>4, <3>5
  <2> QED
    BY <2>2, <2>3
<1>4. Insert(list, e) = front \o <<e>> \o back
  BY Zenon DEF Insert, InsertAt
<1> HIDE DEF i
<1>3. ASSUME NEW k \in 1 .. Len(list)
      PROVE  IF k < i THEN LastBlock(list[k]) < e.vol ELSE LastBlock(e) < list[k].vol
  <2>1. CASE k < i
    BY <1>2, <2>1 DEF Apart
  <2>2. CASE ~(k < i)
    <3>1. i \in 1 .. Len(list) /\ LastBlock(e) < list[i].vol
      BY <1>1, <1>2, <2>2
    <3>2. k = i \/ i < k
      BY <1>1, <1>2, <2>2
    <3>3. i < k => LastBlock(list[i]) < list[k].vol
      BY <3>1, ListIs
    <3>4. list[i].vol <= LastBlock(list[i]) /\ list[i].vol \in Nat /\ LastBlock(list[i]) \in Nat
          /\ list[k].vol \in Nat /\ LastBlock(e) \in Nat
      BY <1>1, <3>1, ExtentIs
    <3> QED
      BY <2>2, <3>1, <3>2, <3>3, <3>4
  <2> QED
    BY <2>1, <2>2
<1>5. /\ front \in Seq(Extents) /\ Len(front) = i - 1 /\ \A k \in 1 .. i - 1 : front[k] = list[k]
  BY <1>1, <1>2, SubSeqProperties
<1>6. /\ back \in Seq(Extents) /\ Len(back) = Len(list) - i + 1
      /\ \A k \in 1 .. Len(list) - i + 1 : back[k] = list[i + k - 1]
  BY <1>1, <1>2, SubSeqProperties
<1>7. <<e>> \in Seq(Extents) /\ Len(<<e>>) = 1 /\ <<e>>[1] = e
  OBVIOUS
<1> HIDE DEF front, back
<1>8. /\ front \o <<e>> \in Seq(Extents) /\ Len(front \o <<e>>) = i
      /\ \A k \in 1 .. i : (front \o <<e>>)[k] = IF k < i THEN list[k] ELSE e
  <2>1. /\ front \o <<e>> \in Seq(Extents) /\ Len(front \o <<e>>) = Len(front) + Len(<<e>>)
        /\ \A k \in 1 .. Len(front) + Len(<<e>>) :
              (front \o <<e>>)[k] = IF k <= Len(front) THEN front[k] ELSE <<e>>[k - Len(front)]
    BY <1>5, <1>7, ConcatProperties
  <2>2. Len(front) = i - 1 /\ i \in Nat
    BY <1>2, <1>5
  <2>3. /\ Len(front \o <<e>>) = i
        /\ \A k \in 1 .. i : (front \o <<e>>)[k] = IF k < i THEN front[k] ELSE <<e>>[1]
    BY <1>7, <2>1, <2>2
  <2> QED
    BY <1>5, <1>7, <2>1, <2>2, <2>3
<1>9. PICK f : f = front \o <<e>>
  OBVIOUS
<1> HIDE DEF front, back
<1>10. /\ f \o back \in Seq(Extents) /\ Len(f \o back) = Len(f) + Len(back)
       /\ \A k \in 1 .. Len(f) + Len(back) :
             (f \o back)[k] = IF k <= Len(f) THEN f[k] ELSE back[k - Len(f)]
  <2>1. f \in Seq(Extents) /\ back \in Seq(Extents)
    BY <1>6, <1>8, <1>9
  <2> QED
    BY <2>1, ConcatProperties
<1>11. Insert(list, e) = f \o back
  BY <1>4, <1>9
<1>12. Len(f) = i /\ Len(f \o back) = Len(list) + 1
  <2>1. Len(f) = i
    BY <1>8, <1>9
  <2> QED
    BY <1>1, <1>2, <1>6, <1>10, <2>1
<1>13. ASSUME NEW k \in 1 .. Len(list) + 1
       PROVE  (f \o back)[k] = IF k < i THEN list[k] ELSE IF k = i THEN e ELSE list[k - 1]
  <2>1. (f \o back)[k] = IF k <= i THEN f[k] ELSE back[k - i]
    BY <1>1, <1>2, <1>6, <1>10, <1>12
  <2>2. k <= i => f[k] = IF k < i THEN list[k] ELSE e
    <3>1. \A m \in 1 .. i : f[m] = IF m < i THEN list[m] ELSE e
      BY <1>8, <1>9, Zenon
    <3>2. k <= i => k \in 1 .. i
      BY <1>2
    <3> QED
      BY <3>1, <3>2
  <2>3. k > i => back[k - i] = list[k - 1]
    BY <1>1, <1>2, <1>6
  <2> QED
    BY <1>2, <2>1, <2>2, <2>3
<1> QED
  BY <1>2, <1>3, <1>10, <1>11, <1>12, <1>13

LEMMA InsertOK ==
    ASSUME NEW list, ListOK(list), NEW e \in Extents,
           \A k \in 1 .. Len(list) : Apart(list[k], e)
    PROVE  /\ ListOK(Insert(list, e)) /\ Len(Insert(list, e)) = Len(list) + 1
           /\ \A k \in 1 .. Len(Insert(list, e)) :
                 Insert(list, e)[k] = e \/ \E m \in 1 .. Len(list) : Insert(list, e)[k] = list[m]
           /\ \A v \in VolumeBlocks : MapOf(Insert(list, e))[v] =
                 IF Covers(e, v) THEN e.jnl + (v - e.vol) ELSE MapOf(list)[v]
<1>1. PICK i \in 1 .. Len(list) + 1 :
         /\ Insert(list, e) \in Seq(Extents) /\ Len(Insert(list, e)) = Len(list) + 1
         /\ \A k \in 1 .. Len(list) + 1 :
               Insert(list, e)[k] = IF k < i THEN list[k] ELSE IF k = i THEN e ELSE list[k - 1]
         /\ \A k \in 1 .. Len(list) :
               IF k < i THEN LastBlock(list[k]) < e.vol ELSE LastBlock(e) < list[k].vol
  BY InsertIs
<1>2. PICK s : s = Insert(list, e)
  OBVIOUS
<1>3. Len(list) \in Nat /\ \A k \in 1 .. Len(list) : list[k] \in Extents
  BY ListIs
<1>4. ASSUME NEW k \in 1 .. Len(list) + 1
      PROVE  s[k] = e \/ \E m \in 1 .. Len(list) : s[k] = list[m]
  <2>1. s[k] = IF k < i THEN list[k] ELSE IF k = i THEN e ELSE list[k - 1]
    BY <1>1, <1>2
  <2>2. k < i => k \in 1 .. Len(list)
    BY <1>3
  <2>3. ~(k < i) /\ k # i => k - 1 \in 1 .. Len(list)
    BY <1>3
  <2> QED
    BY <2>1, <2>2, <2>3
<1>5. Sorted(s)
  <2>1. ASSUME NEW k \in 1 .. Len(list) + 1, NEW m \in 1 .. Len(list) + 1, k < m
        PROVE  LastBlock(s[k]) < s[m].vol
    <3>1. s[k] = IF k < i THEN list[k] ELSE IF k = i THEN e ELSE list[k - 1]
      BY <1>1, <1>2
    <3>2. s[m] = IF m < i THEN list[m] ELSE IF m = i THEN e ELSE list[m - 1]
      BY <1>1, <1>2
    <3>3. CASE m = i
      <4>1. k < i /\ k \in 1 .. Len(list)
        BY <1>3, <2>1, <3>3
      <4> QED
        BY <1>1, <3>1, <3>2, <3>3, <4>1
    <3>4. CASE k = i
      <4>1. m > i /\ m - 1 \in 1 .. Len(list) /\ ~(m - 1 < i)
        BY <1>3, <2>1, <3>4
      <4> QED
        BY <1>1, <3>1, <3>2, <3>4, <4>1
    <3>5. CASE k # i /\ m # i
      <4>1. PICK a, b : a = (IF k < i THEN k ELSE k - 1) /\ b = (IF m < i THEN m ELSE m - 1)
        OBVIOUS
      <4>2. a \in 1 .. Len(list) /\ b \in 1 .. Len(list) /\ a < b
        BY <1>3, <2>1, <3>5, <4>1
      <4>3. s[k] = list[a] /\ s[m] = list[b]
        BY <3>1, <3>2, <3>5, <4>1
      <4> QED
        BY <4>2, <4>3, ListIs
    <3> QED
      BY <3>3, <3>4, <3>5
  <2> QED
    BY <1>1, <1>2, <2>1 DEF Sorted
<1>6. ListOK(s) /\ Len(s) = Len(list) + 1
  BY <1>1, <1>2, <1>5 DEF ListOK
<1>7. ASSUME NEW v \in VolumeBlocks
      PROVE  MapOf(s)[v] = IF Covers(e, v) THEN e.jnl + (v - e.vol) ELSE MapOf(list)[v]
  <2>1. CASE Covers(e, v)
    <3>1. i \in 1 .. Len(s) /\ s[i] = e
      BY <1>1, <1>2, <1>6
    <3> QED
      BY <1>6, <2>1, <3>1, MapAt
  <2>2. CASE ~Covers(e, v) /\ \E m \in 1 .. Len(list) : Covers(list[m], v)
    <3>1. PICK m \in 1 .. Len(list) : Covers(list[m], v)
      BY <2>2
    <3>2. PICK k : k = IF m < i THEN m ELSE m + 1
      OBVIOUS
    <3>3. k \in 1 .. Len(s)
      BY <1>3, <1>6, <3>2
    <3>4. s[k] = list[m]
      <4>1. s[k] = IF k < i THEN list[k] ELSE IF k = i THEN e ELSE list[k - 1]
        BY <1>1, <1>2, <1>6, <3>3
      <4>2. CASE m < i
        BY <3>2, <4>1, <4>2
      <4>3. CASE ~(m < i)
        <5>1. k = m + 1 /\ ~(k < i) /\ k # i /\ k - 1 = m
          BY <1>3, <3>2, <4>3
        <5> QED
          BY <4>1, <5>1
      <4> QED
        BY <4>2, <4>3
    <3>5. MapOf(s)[v] = s[k].jnl + (v - s[k].vol)
      BY <1>6, <3>1, <3>3, <3>4, MapAt
    <3>6. MapOf(list)[v] = list[m].jnl + (v - list[m].vol)
      BY <3>1, MapAt
    <3> QED
      BY <2>2, <3>4, <3>5, <3>6
  <2>3. CASE ~Covers(e, v) /\ ~\E m \in 1 .. Len(list) : Covers(list[m], v)
    <3>1. \A k \in 1 .. Len(s) : ~Covers(s[k], v)
      BY <1>4, <1>6, <2>3
    <3> QED
      BY <2>3, <3>1, MapNowhere
  <2> QED
    BY <2>1, <2>2, <2>3
<1> QED
  BY <1>2, <1>4, <1>6, <1>7

\* A list without one of its extents.
LEMMA WithoutIs ==
    ASSUME NEW list, ListOK(list), NEW i \in 1 .. Len(list),
           NEW s \in Seq(Extents), Len(s) = Len(list) - 1,
           \A k \in 1 .. Len(s) : s[k] = IF k < i THEN list[k] ELSE list[k + 1]
    PROVE  /\ ListOK(s)
           /\ \A k \in 1 .. Len(s) : \E m \in 1 .. Len(list) : s[k] = list[m]
           /\ \A v \in VolumeBlocks :
                 MapOf(s)[v] = IF Covers(list[i], v) THEN 0 ELSE MapOf(list)[v]
<1>1. Len(list) \in Nat
  BY ListIs
<1>2. ASSUME NEW k \in 1 .. Len(s)
      PROVE  \E m \in 1 .. Len(list) : s[k] = list[m] /\ m = (IF k < i THEN k ELSE k + 1)
  BY <1>1
<1>3. ListOK(s)
  <2>1. ASSUME NEW k \in 1 .. Len(s), NEW m \in 1 .. Len(s), k < m
        PROVE  LastBlock(s[k]) < s[m].vol
    <3>1. PICK a \in 1 .. Len(list) : s[k] = list[a] /\ a = (IF k < i THEN k ELSE k + 1)
      BY <1>2
    <3>2. PICK b \in 1 .. Len(list) : s[m] = list[b] /\ b = (IF m < i THEN m ELSE m + 1)
      BY <1>2
    <3>3. a < b
      BY <1>1, <2>1, <3>1, <3>2
    <3> QED
      BY <3>1, <3>2, <3>3, ListIs
  <2> QED
    BY <2>1 DEF ListOK, Sorted
<1>4. ASSUME NEW v \in VolumeBlocks
      PROVE  MapOf(s)[v] = IF Covers(list[i], v) THEN 0 ELSE MapOf(list)[v]
  <2>1. v \in Nat
    BY BlockMapAssumption DEF VolumeBlocks
  <2>2. CASE Covers(list[i], v)
    <3>1. ASSUME NEW k \in 1 .. Len(s) PROVE ~Covers(s[k], v)
      <4>1. PICK a \in 1 .. Len(list) : s[k] = list[a] /\ a = (IF k < i THEN k ELSE k + 1)
        BY <1>2
      <4>2. a # i
        BY <1>1, <4>1
      <4> QED
        BY <2>1, <2>2, <4>1, <4>2, OneCovers
    <3> QED
      BY <2>2, <3>1, MapNowhere
  <2>3. CASE ~Covers(list[i], v) /\ \E a \in 1 .. Len(list) : Covers(list[a], v)
    <3>1. PICK a \in 1 .. Len(list) : Covers(list[a], v)
      BY <2>3
    <3>2. PICK k : k = IF a < i THEN a ELSE a - 1
      OBVIOUS
    <3>3. a # i
      BY <2>3, <3>1
    <3>4. k \in 1 .. Len(s) /\ a = (IF k < i THEN k ELSE k + 1)
      BY <1>1, <3>2, <3>3
    <3>5. s[k] = list[a]
      BY <3>4
    <3>6. MapOf(s)[v] = s[k].jnl + (v - s[k].vol)
      BY <1>3, <3>1, <3>4, <3>5, MapAt
    <3>7. MapOf(list)[v] = list[a].jnl + (v - list[a].vol)
      BY <3>1, MapAt
    <3> QED
      BY <2>3, <3>5, <3>6, <3>7
  <2>4. CASE ~Covers(list[i], v) /\ ~\E a \in 1 .. Len(list) : Covers(list[a], v)
    <3>1. \A k \in 1 .. Len(s) : ~Covers(s[k], v)
      BY <1>2, <2>4
    <3> QED
      BY <2>4, <3>1, MapNowhere
  <2> QED
    BY <2>2, <2>3, <2>4
<1> QED
  BY <1>2, <1>3, <1>4

LEMMA RemoveOK ==
    ASSUME NEW list, ListOK(list), NEW i \in 1 .. Len(list)
    PROVE  /\ ListOK(RemoveAt(list, i)) /\ Len(RemoveAt(list, i)) = Len(list) - 1
           /\ \A v \in VolumeBlocks : MapOf(RemoveAt(list, i))[v] =
                 IF Covers(list[i], v) THEN 0 ELSE MapOf(list)[v]
<1> DEFINE front == SubSeq(list, 1, i - 1)
           back == SubSeq(list, i + 1, Len(list))
<1>1. Len(list) \in Nat /\ list \in Seq(Extents) /\ \A k \in 1 .. Len(list) : list[k] \in Extents
  BY ListIs DEF ListOK
<1>2. /\ front \in Seq(Extents) /\ Len(front) = i - 1 /\ \A k \in 1 .. i - 1 : front[k] = list[k]
  BY <1>1, SubSeqProperties
<1>3. /\ back \in Seq(Extents) /\ Len(back) = Len(list) - i
      /\ \A k \in 1 .. Len(list) - i : back[k] = list[i + k]
  BY <1>1, SubSeqProperties
<1>4. RemoveAt(list, i) = front \o back
  BY DEF RemoveAt
<1> HIDE DEF front, back
<1>5. /\ front \o back \in Seq(Extents) /\ Len(front \o back) = Len(front) + Len(back)
      /\ \A k \in 1 .. Len(front) + Len(back) :
            (front \o back)[k] = IF k <= Len(front) THEN front[k] ELSE back[k - Len(front)]
  BY <1>2, <1>3, ConcatProperties
<1>6. PICK s : s = front \o back
  OBVIOUS
<1>7. s \in Seq(Extents) /\ Len(s) = Len(list) - 1
  BY <1>1, <1>2, <1>3, <1>5, <1>6
<1>8. ASSUME NEW k \in 1 .. Len(s) PROVE s[k] = IF k < i THEN list[k] ELSE list[k + 1]
  <2>1. s[k] = IF k <= i - 1 THEN front[k] ELSE back[k - (i - 1)]
    BY <1>1, <1>2, <1>3, <1>5, <1>6, <1>7
  <2>2. k <= i - 1 => front[k] = list[k]
    BY <1>1, <1>2, <1>7
  <2>3. ~(k <= i - 1) => back[k - (i - 1)] = list[k + 1]
    BY <1>1, <1>3, <1>7
  <2> QED
    BY <1>1, <1>7, <2>1, <2>2, <2>3
<1>9. s = RemoveAt(list, i)
  BY <1>4, <1>6
<1>10. /\ ListOK(s)
       /\ \A v \in VolumeBlocks : MapOf(s)[v] = IF Covers(list[i], v) THEN 0 ELSE MapOf(list)[v]
  BY <1>7, <1>8, WithoutIs
<1> QED
  BY <1>7, <1>9, <1>10

LEMMA TailOK ==
    ASSUME NEW list, ListOK(list), list # <<>>
    PROVE  /\ ListOK(Tail(list)) /\ Len(Tail(list)) = Len(list) - 1
           /\ Len(list) \in Nat /\ Len(list) > 0 /\ Head(list) = list[1]
           /\ \A k \in 1 .. Len(Tail(list)) : Tail(list)[k] = list[k + 1]
           /\ \A k \in 1 .. Len(Tail(list)) : \E m \in 1 .. Len(list) : Tail(list)[k] = list[m]
           /\ \A v \in VolumeBlocks : MapOf(Tail(list))[v] =
                 IF Covers(list[1], v) THEN 0 ELSE MapOf(list)[v]
<1>1. list \in Seq(Extents)
  BY DEF ListOK
<1>2. Len(list) \in Nat /\ Len(list) > 0 /\ Head(list) = list[1]
  BY <1>1, LenProperties, EmptySeq
<1>3. /\ Tail(list) \in Seq(Extents) /\ Len(Tail(list)) = Len(list) - 1
      /\ \A k \in 1 .. Len(Tail(list)) : Tail(list)[k] = list[k + 1]
  BY <1>1, HeadTailProperties
<1>4. PICK s : s = Tail(list)
  OBVIOUS
<1>5. /\ s \in Seq(Extents) /\ Len(s) = Len(list) - 1 /\ 1 \in 1 .. Len(list)
      /\ \A k \in 1 .. Len(s) : s[k] = IF k < 1 THEN list[k] ELSE list[k + 1]
  BY <1>2, <1>3, <1>4
<1>6. /\ ListOK(s)
      /\ \A k \in 1 .. Len(s) : \E m \in 1 .. Len(list) : s[k] = list[m]
      /\ \A v \in VolumeBlocks : MapOf(s)[v] = IF Covers(list[1], v) THEN 0 ELSE MapOf(list)[v]
  BY <1>5, WithoutIs
<1> QED
  BY <1>2, <1>3, <1>4, <1>6

\* An extent that is cut or made longer in its place.
LEMMA ReplaceOK ==
    ASSUME NEW list, ListOK(list), NEW i \in 1 .. Len(list), NEW x \in Extents,
           list[i].vol <= x.vol, x.vol <= LastBlock(list[i]),
           \A k \in 1 .. Len(list) : k # i => Apart(list[k], x),
           NEW s \in Seq(Extents), Len(s) = Len(list),
           \A k \in 1 .. Len(list) : s[k] = IF k = i THEN x ELSE list[k]
    PROVE  /\ ListOK(s)
           /\ \A v \in VolumeBlocks : MapOf(s)[v] =
                 IF Covers(x, v) THEN x.jnl + (v - x.vol)
                 ELSE IF Covers(list[i], v) THEN 0 ELSE MapOf(list)[v]
<1>2. Len(list) \in Nat /\ list \in Seq(Extents) /\ \A k \in 1 .. Len(list) : list[k] \in Extents
  BY ListIs DEF ListOK
<1>3. /\ s \in Seq(Extents) /\ Len(s) = Len(list)
      /\ \A k \in 1 .. Len(list) : s[k] = IF k = i THEN x ELSE list[k]
  OBVIOUS
<1>4. ListOK(s)
  <2>1. ASSUME NEW k \in 1 .. Len(list), NEW m \in 1 .. Len(list), k < m
        PROVE  LastBlock(s[k]) < s[m].vol
    <3>1. /\ list[k].vol \in Nat /\ list[m].vol \in Nat /\ LastBlock(list[k]) \in Nat
          /\ LastBlock(list[m]) \in Nat /\ x.vol \in Nat /\ LastBlock(x) \in Nat
          /\ list[i].vol \in Nat /\ LastBlock(list[i]) \in Nat
      BY <1>2, ExtentIs
    <3>2. LastBlock(list[k]) < list[m].vol
      BY <2>1, ListIs
    <3>3. s[k] = (IF k = i THEN x ELSE list[k]) /\ s[m] = (IF m = i THEN x ELSE list[m])
      BY <1>3
    <3>4. CASE k = i
      <4>1. Apart(list[m], x) /\ m # i
        BY <2>1, <3>4
      <4>2. list[m].vol <= LastBlock(list[m])
        BY <1>2, ExtentIs
      <4> QED
        BY <3>1, <3>2, <3>3, <3>4, <4>1, <4>2 DEF Apart
    <3>5. CASE m = i
      BY <2>1, <3>1, <3>2, <3>3, <3>5
    <3>6. CASE k # i /\ m # i
      BY <3>2, <3>3, <3>6
    <3> QED
      BY <3>4, <3>5, <3>6
  <2> QED
    BY <1>3, <2>1 DEF ListOK, Sorted
<1>5. ASSUME NEW v \in VolumeBlocks
      PROVE  MapOf(s)[v] = IF Covers(x, v) THEN x.jnl + (v - x.vol)
                           ELSE IF Covers(list[i], v) THEN 0 ELSE MapOf(list)[v]
  <2>1. v \in Nat
    BY BlockMapAssumption DEF VolumeBlocks
  <2>2. CASE Covers(x, v)
    <3>1. i \in 1 .. Len(s) /\ s[i] = x
      BY <1>3
    <3> QED
      BY <1>4, <2>2, <3>1, MapAt
  <2>3. CASE ~Covers(x, v) /\ Covers(list[i], v)
    <3>1. ASSUME NEW k \in 1 .. Len(s) PROVE ~Covers(s[k], v)
      <4>1. CASE k = i
        BY <1>3, <2>3, <4>1
      <4>2. CASE k # i
        BY <1>3, <2>1, <2>3, <4>2, OneCovers
      <4> QED
        BY <4>1, <4>2
    <3> QED
      BY <2>3, <3>1, MapNowhere
  <2>4. CASE ~Covers(x, v) /\ ~Covers(list[i], v) /\ \E k \in 1 .. Len(list) : Covers(list[k], v)
    <3>1. PICK k \in 1 .. Len(list) : Covers(list[k], v)
      BY <2>4
    <3>2. k \in 1 .. Len(s) /\ s[k] = list[k]
      BY <1>3, <2>4, <3>1
    <3> QED
      BY <1>4, <2>4, <3>1, <3>2, MapAt
  <2>5. CASE ~Covers(x, v) /\ ~Covers(list[i], v) /\ ~\E k \in 1 .. Len(list) : Covers(list[k], v)
    <3>1. \A k \in 1 .. Len(s) : ~Covers(s[k], v)
      BY <1>3, <2>5
    <3> QED
      BY <2>5, <3>1, MapNowhere
  <2> QED
    BY <2>2, <2>3, <2>4, <2>5
<1> QED
  BY <1>4, <1>5

-----------------------------------------------------------------------------
(* fs_scan_map_cache *)

ScanResult(list, v, n, hit) ==
    /\ hit.mapped \in BOOLEAN /\ hit.n \in 1 .. n
    /\ hit.adjacent \in 0 .. Len(list)
    /\ hit.adjacent # 0 => LastBlock(list[hit.adjacent]) + 1 = v
    /\ hit.mapped <=> MapOf(list)[v] # 0
    /\ hit.jnl \in Nat /\ \A w \in v .. v + hit.n - 1 :
          /\ w \in VolumeBlocks
          /\ MapOf(list)[w] = IF hit.mapped THEN hit.jnl + (w - v) ELSE 0

LEMMA ScanIs ==
    ASSUME NEW list, ListOK(list), NEW v \in VolumeBlocks, NEW n \in Nat, n >= 1, v + n - 1 <= Width
    PROVE  ScanResult(list, v, n, Scan(list, v, n))
<1> DEFINE stops == {k \in 1 .. Len(list) : list[k].vol > v \/ Covers(list[k], v)}
           i == IF stops = {} THEN Len(list) + 1 ELSE Least(stops)
           adjacent == IF i > 1 /\ LastBlock(list[i - 1]) + 1 = v THEN i - 1 ELSE 0
           missed == [mapped |-> FALSE, jnl |-> v, n |-> n, adjacent |-> adjacent]
           found == [mapped |-> TRUE, jnl |-> list[i].jnl + (v - list[i].vol),
                     n |-> Smaller(LastBlock(list[i]) - v + 1, n), adjacent |-> adjacent]
           before == [mapped |-> FALSE, jnl |-> v,
                      n |-> Smaller(list[i].vol - v, n), adjacent |-> adjacent]
<1>1. /\ Len(list) \in Nat /\ v \in Nat /\ v >= 1
      /\ \A w \in v .. v + n - 1 : w \in VolumeBlocks
  BY BlockMapAssumption, ListIs DEF VolumeBlocks
<1>2. \A k \in 1 .. Len(list) :
         /\ list[k].vol \in Nat /\ LastBlock(list[k]) \in Nat /\ list[k].jnl \in Nat
         /\ list[k].vol >= 1 /\ list[k].vol <= LastBlock(list[k]) /\ list[k] \in Extents
  BY ListIs, ExtentIs
<1>3. Scan(list, v, n) = CASE stops = {} -> missed
                           [] stops # {} /\ Covers(list[i], v) -> found
                           [] OTHER -> before
  BY DEF Scan
<1>4. /\ i \in 1 .. Len(list) + 1
      /\ stops # {} => /\ i \in 1 .. Len(list)
                       /\ list[i].vol > v \/ Covers(list[i], v)
      /\ \A k \in 1 .. Len(list) : k < i => list[k].vol <= v /\ ~Covers(list[k], v)
      /\ stops = {} => i = Len(list) + 1
  <2>1. CASE stops = {}
    <3>1. i = Len(list) + 1
      BY <2>1
    <3>2. \A k \in 1 .. Len(list) : ~(list[k].vol > v \/ Covers(list[k], v))
      BY <2>1
    <3> HIDE DEF i, stops
    <3> QED
      BY <1>1, <1>2, <2>1, <3>1, <3>2
  <2>2. CASE stops # {}
    <3>1. i = Least(stops)
      BY <2>2
    <3>2. stops \in SUBSET Nat
      BY <1>1
    <3>3. Least(stops) \in stops /\ \A k \in stops : Least(stops) <= k
      BY <2>2, <3>2, LeastIs
    <3> HIDE DEF i
    <3>4. i \in 1 .. Len(list) /\ (list[i].vol > v \/ Covers(list[i], v))
      BY <3>1, <3>3
    <3>5. ASSUME NEW k \in 1 .. Len(list), list[k].vol > v \/ Covers(list[k], v)
          PROVE  i <= k
      BY <3>1, <3>3, <3>5
    <3>6. ASSUME NEW k \in 1 .. Len(list), k < i PROVE list[k].vol <= v /\ ~Covers(list[k], v)
      <4>1. ~(list[k].vol > v \/ Covers(list[k], v))
        BY <1>1, <3>4, <3>5, <3>6
      <4> QED
        BY <1>1, <1>2, <4>1
    <3> QED
      BY <1>1, <2>2, <3>4, <3>6
  <2> QED
    BY <2>1, <2>2
<1> HIDE DEF stops, i
<1>5. \A k \in 1 .. Len(list) : k < i => LastBlock(list[k]) < v
  BY <1>1, <1>2, <1>4 DEF Covers
<1>6. adjacent \in 0 .. Len(list) /\ (adjacent # 0 => LastBlock(list[adjacent]) + 1 = v)
  BY <1>1, <1>4
<1> HIDE DEF adjacent
<1>7. CASE stops = {}
  <2>1. Scan(list, v, n) = missed
    BY <1>3, <1>7
  <2>2. ASSUME NEW w \in v .. v + n - 1 PROVE MapOf(list)[w] = 0
    <3>1. ASSUME NEW k \in 1 .. Len(list) PROVE ~Covers(list[k], w)
      <4>1. k < i
        BY <1>1, <1>4, <1>7
      <4> QED
        BY <1>1, <1>2, <1>5, <4>1 DEF Covers
    <3> QED
      BY <1>1, <3>1, MapNowhere
  <2>3. v \in v .. v + n - 1
    BY <1>1
  <2>4. MapOf(list)[v] = 0
    BY <2>2, <2>3
  <2> QED
    BY <1>1, <1>6, <2>1, <2>2, <2>4 DEF ScanResult
<1>8. CASE stops # {} /\ Covers(list[i], v)
  <2>1. Scan(list, v, n) = found
    BY <1>3, <1>8
  <2>2. PICK m : m = Smaller(LastBlock(list[i]) - v + 1, n)
    OBVIOUS
  <2>3. m \in 1 .. n /\ v + m - 1 <= LastBlock(list[i]) /\ list[i].vol <= v
    BY <1>1, <1>2, <1>4, <1>8, <2>2 DEF Smaller, Covers
  <2>4. ASSUME NEW w \in v .. v + m - 1
        PROVE  w \in VolumeBlocks /\ MapOf(list)[w] = list[i].jnl + (v - list[i].vol) + (w - v)
    <3>1. Covers(list[i], w) /\ w \in VolumeBlocks
      BY <1>1, <1>2, <1>4, <1>8, <2>3 DEF Covers
    <3>2. MapOf(list)[w] = list[i].jnl + (w - list[i].vol)
      BY <1>4, <1>8, <3>1, MapAt
    <3> QED
      BY <1>1, <1>2, <1>4, <1>8, <3>1, <3>2
  <2>5. MapOf(list)[v] # 0
    BY <1>4, <1>8, MapCovered
  <2>6. list[i].jnl + (v - list[i].vol) \in Nat
    BY <1>1, <1>2, <1>4, <1>8, <2>3
  <2>7. \A w \in v .. v + m - 1 : w \in VolumeBlocks
           /\ MapOf(list)[w] = found.jnl + (w - v)
    BY <2>4
  <2>8. found.n = m /\ found.mapped = TRUE /\ found.adjacent = adjacent /\ found.jnl \in Nat
    BY <2>2, <2>6
  <2> HIDE DEF found
  <2> QED
    BY <1>6, <2>1, <2>3, <2>5, <2>7, <2>8 DEF ScanResult
<1>9. CASE stops # {} /\ ~Covers(list[i], v)
  <2>1. Scan(list, v, n) = before
    BY <1>3, <1>9
  <2>2. PICK m : m = Smaller(list[i].vol - v, n)
    OBVIOUS
  <2>3. i \in 1 .. Len(list) /\ list[i].vol > v
    BY <1>4, <1>9
  <2>4. m \in 1 .. n /\ v + m - 1 < list[i].vol
    <3>1. list[i].vol \in Nat /\ v \in Nat /\ n \in Nat /\ n >= 1
      BY <1>1, <1>2, <2>3
    <3>2. m = IF list[i].vol - v < n THEN list[i].vol - v ELSE n
      BY <2>2, Zenon DEF Smaller
    <3> QED
      BY <2>3, <3>1, <3>2
  <2>5. ASSUME NEW w \in v .. v + m - 1
        PROVE  w \in VolumeBlocks /\ MapOf(list)[w] = 0
    <3>1. w \in VolumeBlocks /\ w \in Nat
      BY <1>1, <2>4
    <3>2. ASSUME NEW k \in 1 .. Len(list) PROVE ~Covers(list[k], w)
      <4>1. CASE k < i
        BY <1>1, <1>2, <1>5, <4>1 DEF Covers
      <4>2. CASE ~(k < i)
        <5>1. k = i \/ i < k
          BY <1>1, <2>3, <4>2
        <5>2. i < k => LastBlock(list[i]) < list[k].vol
          BY <2>3, ListIs
        <5> QED
          BY <1>1, <1>2, <2>3, <2>4, <5>1, <5>2 DEF Covers
      <4> QED
        BY <4>1, <4>2
    <3> QED
      BY <3>1, <3>2, MapNowhere
  <2>6. v \in v .. v + m - 1
    BY <1>1, <2>4
  <2>7. before.n = m /\ before.mapped = FALSE /\ before.adjacent = adjacent /\ before.jnl = v
    BY <2>2
  <2> HIDE DEF before
  <2> QED
    BY <1>1, <1>6, <2>1, <2>4, <2>5, <2>6, <2>7 DEF ScanResult
<1> QED
  BY <1>7, <1>8, <1>9

-----------------------------------------------------------------------------
(* The queue of a write *)

LEMMA ApartIs ==
    ASSUME NEW a \in Extents, NEW b \in Extents
    PROVE  Apart(a, b) <=> ~\E v \in VolumeBlocks : Covers(a, v) /\ Covers(b, v)
<1>1. /\ a.vol \in VolumeBlocks /\ b.vol \in VolumeBlocks /\ a.vol \in Nat /\ b.vol \in Nat
      /\ LastBlock(a) \in Nat /\ LastBlock(b) \in Nat
      /\ a.vol <= LastBlock(a) /\ b.vol <= LastBlock(b)
  BY ExtentIs
<1>2. ASSUME ~Apart(a, b) PROVE \E v \in VolumeBlocks : Covers(a, v) /\ Covers(b, v)
  <2>1. a.vol <= LastBlock(b) /\ b.vol <= LastBlock(a)
    BY <1>1, <1>2 DEF Apart
  <2>2. CASE a.vol <= b.vol
    <3>1. Covers(a, b.vol) /\ Covers(b, b.vol)
      BY <1>1, <2>1, <2>2 DEF Covers
    <3> QED
      BY <1>1, <3>1
  <2>3. CASE b.vol <= a.vol
    <3>1. Covers(a, a.vol) /\ Covers(b, a.vol)
      BY <1>1, <2>1, <2>3 DEF Covers
    <3> QED
      BY <1>1, <3>1
  <2> QED
    BY <1>1, <2>2, <2>3
<1>3. ASSUME Apart(a, b), NEW v \in VolumeBlocks, Covers(a, v), Covers(b, v) PROVE FALSE
  <2>1. v \in Nat
    BY BlockMapAssumption DEF VolumeBlocks
  <2> QED
    BY <1>1, <1>3, <2>1 DEF Apart, Covers
<1> QED
  BY <1>2, <1>3

LEMMA UnmappedApart ==
    ASSUME NEW list, ListOK(list), NEW e \in Extents,
           \A v \in VolumeBlocks : Covers(e, v) => MapOf(list)[v] = 0
    PROVE  \A k \in 1 .. Len(list) : Apart(list[k], e)
<1>1. \A k \in 1 .. Len(list) : list[k] \in Extents
  BY ListIs
<1>2. ASSUME NEW k \in 1 .. Len(list), NEW v \in VolumeBlocks, Covers(list[k], v), Covers(e, v)
      PROVE  FALSE
  BY <1>2, MapCovered
<1> QED
  BY <1>1, <1>2, ApartIs

LEMMA ApartUnmapped ==
    ASSUME NEW list, ListOK(list), NEW e, CanQueue(list, e), NEW v \in VolumeBlocks
    PROVE  At(e, v) \in Nat /\ (At(e, v) # 0 <=> Covers(e, v)) /\ (At(e, v) # 0 => MapOf(list)[v] = 0)
<1>1. v \in Nat
  BY BlockMapAssumption DEF VolumeBlocks
<1>2. CASE e = None
  BY <1>1, <1>2, NoneCovers DEF At
<1>3. CASE e \in Extents /\ \A k \in 1 .. Len(list) : Apart(list[k], e)
  <2>1. Covers(e, v) => At(e, v) \in Nat /\ At(e, v) # 0
    <3>1. e.vol \in Nat /\ e.jnl \in Nat /\ e.jnl >= 2
      BY <1>3, ExtentIs
    <3> QED
      BY <1>1, <3>1 DEF At, Covers
  <2>2. ~Covers(e, v) => At(e, v) = 0
    BY DEF At
  <2>3. ASSUME Covers(e, v), MapOf(list)[v] # 0 PROVE FALSE
    <3>1. PICK k \in 1 .. Len(list) : Covers(list[k], v)
      BY <2>3, MapCovered
    <3>2. list[k] \in Extents /\ Apart(list[k], e)
      BY <1>3, ListIs
    <3> QED
      BY <1>3, <2>3, <3>1, <3>2, ApartIs
  <2> QED
    BY <2>1, <2>2, <2>3
<1> QED
  BY <1>2, <1>3 DEF CanQueue

LEMMA QueueOK ==
    ASSUME NEW list, ListOK(list), NEW e, CanQueue(list, e)
    PROVE  /\ ListOK(Queue(list, e))
           /\ Len(Queue(list, e)) = Len(list) + (IF e = None THEN 0 ELSE 1)
           /\ \A v \in VolumeBlocks : MapOf(Queue(list, e))[v] =
                 IF MapOf(list)[v] # 0 THEN MapOf(list)[v] ELSE At(e, v)
<1>1. Len(list) \in Nat
  BY ListIs
<1>2. CASE e = None
  <2>1. Queue(list, e) = list
    BY <1>2 DEF Queue
  <2>2. \A v \in VolumeBlocks : At(e, v) = 0
    <3>1. \A v \in VolumeBlocks : v \in Nat
      BY BlockMapAssumption DEF VolumeBlocks
    <3> QED
      BY <1>2, <3>1, NoneCovers DEF At
  <2> QED
    BY <1>1, <1>2, <2>1, <2>2
<1>3. CASE e # None /\ e \in Extents /\ \A k \in 1 .. Len(list) : Apart(list[k], e)
  <2>1. PICK s : s = Insert(list, e)
    OBVIOUS
  <2>2. Queue(list, e) = s
    BY <1>3, <2>1 DEF Queue
  <2>3. /\ ListOK(s) /\ Len(s) = Len(list) + 1
        /\ \A v \in VolumeBlocks : MapOf(s)[v] =
              IF Covers(e, v) THEN e.jnl + (v - e.vol) ELSE MapOf(list)[v]
    BY <1>3, <2>1, InsertOK
  <2>4. ASSUME NEW v \in VolumeBlocks
        PROVE  MapOf(s)[v] = IF MapOf(list)[v] # 0 THEN MapOf(list)[v] ELSE At(e, v)
    <3>1. (At(e, v) # 0 <=> Covers(e, v)) /\ (At(e, v) # 0 => MapOf(list)[v] = 0)
      BY ApartUnmapped
    <3>2. MapOf(s)[v] = IF Covers(e, v) THEN At(e, v) ELSE MapOf(list)[v]
      BY <2>3 DEF At
    <3> QED
      BY <3>1, <3>2
  <2> QED
    BY <1>3, <2>2, <2>3, <2>4
<1> QED
  BY <1>2, <1>3 DEF CanQueue

\* A step of a write, whatever it does with the extent it is building.
LEMMA AdvanceOK ==
    ASSUME RequestOK, request # NoRequest, NEW n \in 1 .. request.left,
           NEW list, ListOK(list), NEW e, CanQueue(list, e),
           e # None => LastBlock(e) = request.at + n - 1 /\ request.first <= e.vol,
           Advance(n, list, e)
    PROVE  /\ RequestOK' /\ PbmOK' /\ ListOK(open')
           /\ Len(open') + Pending' = Len(list) + (IF e = None THEN 0 ELSE 1)
           /\ \A v \in VolumeBlocks :
                 /\ Current(v)' = IF MapOf(list)[v] # 0 THEN MapOf(list)[v] ELSE At(e, v)
                 /\ MapOf(list)[v] # 0 => MapOf(open')[v] = MapOf(list)[v]
<1>1. /\ request \in [first : VolumeBlocks, at : VolumeBlocks, left : Nat \ {0}]
      /\ request.first <= request.at /\ request.at + request.left - 1 <= Width
  BY DEF RequestOK
<1>2. /\ request.first \in Nat /\ request.at \in Nat /\ request.left \in Nat /\ request.at >= 1
      /\ Len(list) \in Nat
  BY <1>1, BlockMapAssumption, ListIs DEF VolumeBlocks
<1>3. CASE n < request.left
  <2>1. /\ request' = [request EXCEPT !.at = @ + n, !.left = @ - n]
        /\ open' = list /\ pbm' = e
    BY <1>3 DEF Advance
  <2>2. /\ request' \in [first : VolumeBlocks, at : VolumeBlocks, left : Nat \ {0}]
        /\ request'.first = request.first /\ request'.at = request.at + n
        /\ request'.left = request.left - n
    <3>1. request.at + n \in VolumeBlocks /\ request.left - n \in Nat \ {0}
      BY <1>1, <1>2, <1>3, BlockMapAssumption DEF VolumeBlocks
    <3> QED
      BY <1>1, <2>1, <3>1
  <2>3. RequestOK'
    <3>1. /\ request.first <= request.at + n
          /\ request.at + n + (request.left - n) - 1 <= Width
      BY <1>1, <1>2, <1>3, BlockMapAssumption
    <3>2. /\ request'.first <= request'.at
          /\ request'.at + request'.left - 1 <= Width
      BY <2>2, <3>1
    <3> QED
      BY <2>2, <3>2, Zenon DEF RequestOK
  <2>4. request' # NoRequest
    BY <2>2 DEF NoRequest
  <2>5. CanQueue(open', pbm')
    BY <2>1
  <2>6. pbm' # None => LastBlock(pbm') = request'.at - 1 /\ request'.first <= pbm'.vol
    BY <1>2, <2>1, <2>2
  <2>7. PbmOK'
    BY <2>4, <2>5, <2>6 DEF PbmOK
  <2> QED
    BY <2>1, <2>3, <2>7 DEF Pending, Current
<1>4. CASE ~(n < request.left)
  <2>1. request' = NoRequest /\ open' = Queue(list, e) /\ pbm' = None
    BY <1>4 DEF Advance
  <2>2. PbmOK' /\ RequestOK' /\ Pending' = 0
    BY <2>1 DEF PbmOK, RequestOK, Pending, CanQueue
  <2>3. /\ ListOK(open') /\ Len(open') = Len(list) + (IF e = None THEN 0 ELSE 1)
        /\ \A v \in VolumeBlocks : MapOf(open')[v] =
              IF MapOf(list)[v] # 0 THEN MapOf(list)[v] ELSE At(e, v)
    BY <2>1, QueueOK
  <2>4. \A v \in VolumeBlocks : At(pbm', v) = 0
    <3>1. \A v \in VolumeBlocks : v \in Nat
      BY BlockMapAssumption DEF VolumeBlocks
    <3> QED
      BY <2>1, <3>1, NoneCovers DEF At
  <2>5. ASSUME NEW v \in VolumeBlocks PROVE Current(v)' = MapOf(open')[v]
    BY <2>4 DEF Current
  <2>6. Len(open') \in Nat
    BY <2>3, ListIs
  <2> QED
    BY <2>2, <2>3, <2>5, <2>6
<1> QED
  BY <1>3, <1>4

\* A call that fails queues the extent it was building, or loses it.
LEMMA GiveUpOK ==
    ASSUME NEW list, ListOK(list), GiveUp(list)
    PROVE  /\ RequestOK' /\ PbmOK' /\ ListOK(open') /\ Pending' = 0 /\ Len(open') = Len(list)
           /\ \A v \in VolumeBlocks :
                 MapOf(open')[v] = MapOf(list)[v] /\ Current(v)' = MapOf(list)[v]
<1>1. request' = NoRequest /\ open' = list /\ pbm' = None
  BY DEF GiveUp
<1>2. \A v \in VolumeBlocks : At(pbm', v) = 0
  <2>1. \A v \in VolumeBlocks : v \in Nat
    BY BlockMapAssumption DEF VolumeBlocks
  <2> QED
    BY <1>1, <2>1, NoneCovers DEF At
<1>3. PbmOK' /\ RequestOK' /\ Pending' = 0
  BY <1>1 DEF PbmOK, RequestOK, Pending, CanQueue
<1> QED
  BY <1>1, <1>2, <1>3 DEF Current

-----------------------------------------------------------------------------
(* The steps of a write *)

Hit == Scan(open, request.at, request.left)
StepLength == Smaller(RoomLeft, BufferLeft(Hit.n))
Joins(v, j) == Hit.adjacent # 0 /\ Grows(open[Hit.adjacent], v, j)
Fails ==
    /\ ~Grows(pbm, request.at, FirstBlock) /\ ~Joins(request.at, FirstBlock)
    /\ free_records = 0

\* The blocks of a step, and what it makes of the lists.
InStep(w) == request.at <= w /\ w < request.at + StepLength
StepDone(failed, more) ==
    /\ RequestOK' /\ PbmOK' /\ ListOK(open')
    /\ Len(open') + Pending' = Len(open) + Pending + more
    /\ \A w \in VolumeBlocks :
          /\ Current(w)' = IF ~failed /\ InStep(w) THEN FirstBlock + (w - request.at)
                           ELSE Current(w)
          /\ MapOf(open)[w] # 0 => MapOf(open')[w] = MapOf(open)[w]

LEMMA RequestIs ==
    ASSUME RequestOK, request.left > 0
    PROVE  /\ request # NoRequest
           /\ request \in [first : VolumeBlocks, at : VolumeBlocks, left : Nat \ {0}]
           /\ request.first \in VolumeBlocks /\ request.at \in VolumeBlocks
           /\ request.first \in Nat /\ request.at \in Nat /\ request.left \in Nat
           /\ request.first >= 1 /\ request.left >= 1
           /\ request.first <= request.at /\ request.at + request.left - 1 <= Width
<1>1. request # NoRequest
  BY DEF NoRequest
<1> QED
  BY <1>1, BlockMapAssumption DEF RequestOK, VolumeBlocks

LEMMA HitIs ==
    ASSUME ListInv, request.left > 0
    PROVE  ScanResult(open, request.at, request.left, Hit)
<1>1. RequestOK /\ ListOK(open)
  BY DEF ListInv
<1> QED
  BY <1>1, RequestIs, ScanIs DEF Hit

LEMMA MappedLengthIs ==
    ASSUME CountersOK, NEW j \in Nat, NEW n \in Nat, n >= 1
    PROVE  MappedLength(j, n) \in 0 .. n
<1>1. /\ dirty \in Nat /\ buffer_sector_start \in Nat /\ buffer_size \in Nat
      /\ Buffered => dirty <= buffer_size
  BY BlockMapAssumption DEF CountersOK
<1> QED
  BY <1>1 DEF MappedLength, InBuffer, Smaller

LEMMA StepLengthIs ==
    ASSUME CountersOK, ~AtEnd, NEW n \in Nat, n >= 1
    PROVE  /\ Smaller(RoomLeft, BufferLeft(n)) \in 1 .. n
           /\ Smaller(RoomLeft, BufferLeft(n)) <= RoomLeft
           /\ RoomLeft \in Nat /\ FirstBlock \in Nat /\ FirstBlock >= 2
           /\ FirstBlock >= next_free_frame /\ FirstBlock + RoomLeft <= JournalSize
           /\ Buffered => /\ RoomLeft <= buffer_size - 1
                             \/ (~NeedsFrame /\ RoomLeft = open_current_free)
                          /\ Smaller(RoomLeft, BufferLeft(n)) <=
                                buffer_size - (IF dirty >= buffer_size THEN 1 ELSE dirty)
<1>1. /\ dirty \in Nat /\ buffer_size \in Nat /\ buffer_size >= 1 /\ FrameMax \in Nat /\ FrameMax >= 1
      /\ next_free_frame \in 2 .. JournalSize /\ open_current_free \in Nat
      /\ next_free_frame + open_current_free <= JournalSize /\ JournalSize \in Nat
      /\ Buffered => buffer_size > 2 /\ dirty <= buffer_size
  BY BlockMapAssumption DEF CountersOK, Buffered
<1>2. CASE NeedsFrame
  <2>1. BlocksLeft \in Nat /\ BlocksLeft >= 2 /\ BlocksLeft = JournalSize - next_free_frame
    BY <1>1, <1>2 DEF AtEnd, BlocksLeft
  <2>2. PICK limit : limit = IF Buffered THEN Smaller(buffer_size - 1, FrameMax) ELSE FrameMax
    OBVIOUS
  <2>3. /\ RoomLeft = IF BlocksLeft > limit THEN limit ELSE BlocksLeft - 1
        /\ FirstBlock = next_free_frame + 1
    BY <1>2, <2>2, Zenon DEF RoomLeft, FirstBlock, RoomInFrame, FrameLimit
  <2>4. RoomLeft \in Nat /\ RoomLeft >= 1 /\ RoomLeft <= BlocksLeft - 1
        /\ (Buffered => RoomLeft <= buffer_size - 1)
    BY <1>1, <2>1, <2>2, <2>3 DEF Smaller
  <2>5. /\ Smaller(RoomLeft, BufferLeft(n)) \in 1 .. n /\ Smaller(RoomLeft, BufferLeft(n)) <= RoomLeft
        /\ Buffered => Smaller(RoomLeft, BufferLeft(n)) <=
                          buffer_size - (IF dirty >= buffer_size THEN 1 ELSE dirty)
    BY <1>1, <2>4 DEF BufferLeft, Smaller
  <2>6. FirstBlock \in Nat /\ FirstBlock >= 2 /\ FirstBlock >= next_free_frame
        /\ FirstBlock + RoomLeft <= JournalSize
    BY <1>1, <2>1, <2>3, <2>4
  <2> QED
    BY <2>4, <2>5, <2>6
<1>3. CASE ~NeedsFrame
  <2>1. RoomLeft = open_current_free /\ FirstBlock = next_free_frame
    BY <1>3 DEF RoomLeft, FirstBlock
  <2>2. RoomLeft \in Nat /\ RoomLeft >= 1 /\ (Buffered => dirty < buffer_size)
    BY <1>1, <1>3, <2>1 DEF NeedsFrame
  <2>3. /\ Smaller(RoomLeft, BufferLeft(n)) \in 1 .. n /\ Smaller(RoomLeft, BufferLeft(n)) <= RoomLeft
        /\ Buffered => Smaller(RoomLeft, BufferLeft(n)) <=
                          buffer_size - (IF dirty >= buffer_size THEN 1 ELSE dirty)
    BY <1>1, <2>2 DEF BufferLeft, Smaller
  <2> QED
    BY <1>1, <1>3, <2>1, <2>2, <2>3
<1> QED
  BY <1>2, <1>3

\* What a write leaves alone.
LEMMA WriteMappedOK ==
    ASSUME ListInv, WriteMapped, UNCHANGED buffer_size
    PROVE  /\ ListInv'
           /\ \A v \in VolumeBlocks :
                 /\ Current(v)' = Current(v)
                 /\ MapOf(open)[v] # 0 => MapOf(open')[v] = MapOf(open)[v]
<1> DEFINE n == MappedLength(Hit.jnl, Hit.n)
           list == Queue(open, pbm)
<1>1. /\ CountersOK /\ RequestOK /\ PbmOK /\ ListOK(open)
      /\ Len(open) + Len(flushed) + Len(restoring) + Pending + free_records <= MapRecords
  BY DEF ListInv
<1>2. /\ request.left > 0 /\ Hit.mapped
      /\ GiveUp(list) \/ (n # 0 /\ Advance(n, list, None))
      /\ UNCHANGED <<flushed, restoring, free_records, todo, flushing, frameVars, regionVars,
                     dirty, buffer_sector_start, index, volume, clock>>
  <2>1. /\ request.left > 0 /\ Hit.mapped
        /\ IF n = 0 THEN GiveUp(list) /\ UNCHANGED <<buffer, journal>>
           ELSE /\ Advance(n, list, None)
                /\ IF InBuffer(Hit.jnl)
                   THEN buffer' = Put(buffer, Hit.jnl, n) /\ UNCHANGED journal
                   ELSE journal' = Put(journal, Hit.jnl, n) /\ UNCHANGED buffer
        /\ UNCHANGED <<flushed, restoring, free_records, todo, flushing, frameVars, regionVars,
                       dirty, buffer_sector_start, index, volume, clock>>
    BY Zenon DEF WriteMapped, Hit
  <2> HIDE DEF n, list
  <2> QED
    BY <2>1
<1>3. n \in 0 .. Hit.n /\ Hit.n \in 1 .. request.left
  <2>1. Hit.n \in 1 .. request.left /\ Hit.jnl \in Nat
    BY <1>2, HitIs DEF ScanResult
  <2>2. Hit.n \in Nat /\ Hit.n >= 1
    BY <1>1, <1>2, <2>1, RequestIs
  <2> QED
    BY <1>1, <2>1, <2>2, MappedLengthIs
<1>4. /\ ListOK(list) /\ Len(list) = Len(open) + Pending
      /\ \A v \in VolumeBlocks : MapOf(list)[v] = Current(v)
  <2>1. CanQueue(open, pbm)
    BY <1>1 DEF PbmOK
  <2> QED
    BY <1>1, <2>1, QueueOK DEF Current, Pending
<1> HIDE DEF n, list
<1>5. /\ RequestOK' /\ PbmOK' /\ ListOK(open') /\ Len(open') + Pending' = Len(list)
      /\ \A v \in VolumeBlocks : /\ Current(v)' = MapOf(list)[v]
                                 /\ MapOf(list)[v] # 0 => MapOf(open')[v] = MapOf(list)[v]
  <2>0. Len(list) \in Nat
    BY <1>4, ListIs
  <2>1. CASE GiveUp(list)
    BY <1>4, <2>0, <2>1, GiveUpOK
  <2>2. CASE n # 0 /\ Advance(n, list, None)
    <3>1. n \in 1 .. request.left /\ request # NoRequest
      BY <1>1, <1>2, <1>3, <2>2, RequestIs
    <3>2. \A v \in VolumeBlocks : At(None, v) = 0
      <4>1. \A v \in VolumeBlocks : v \in Nat
        BY BlockMapAssumption DEF VolumeBlocks
      <4> QED
        BY <4>1, NoneCovers DEF At
    <3>3. CanQueue(list, None)
      BY DEF CanQueue
    <3>4. /\ RequestOK' /\ PbmOK' /\ ListOK(open')
          /\ Len(open') + Pending' = Len(list) + (IF None = None THEN 0 ELSE 1)
          /\ \A v \in VolumeBlocks :
                /\ Current(v)' = IF MapOf(list)[v] # 0 THEN MapOf(list)[v] ELSE At(None, v)
                /\ MapOf(list)[v] # 0 => MapOf(open')[v] = MapOf(list)[v]
      BY <1>1, <1>4, <2>2, <3>1, <3>3, AdvanceOK
    <3>5. \A v \in VolumeBlocks : Current(v)' = MapOf(list)[v]
      BY <3>2, <3>4
    <3> QED
      BY <2>0, <3>4, <3>5
  <2> QED
    BY <1>2, <2>1, <2>2
<1>6. CountersOK'
  BY <1>1, <1>2 DEF CountersOK, frameVars, Buffered
<1>7. ListInv'
  <2>1. flushing => FALSE
    BY <1>1, <1>2, RequestIs DEF ListInv
  <2>2. todo' \in Seq(Extents) /\ (~flushing' => todo' = <<>>) /\ ~flushing'
    BY <1>2, <2>1 DEF ListInv
  <2>3. ListOK(flushed') /\ ListOK(restoring') /\ flushed' = flushed /\ restoring' = restoring
    BY <1>2 DEF ListInv
  <2>4. Len(open') + Len(flushed') + Len(restoring') + Pending' + free_records' <= MapRecords
    <3>1. Len(open) \in Nat /\ Len(open') \in Nat /\ Len(flushed) \in Nat /\ Len(restoring) \in Nat
      BY <1>1, <1>5, ListIs DEF ListInv
    <3>2. Pending \in Nat /\ Pending' \in Nat /\ free_records \in Nat /\ MapRecords \in Nat
      BY <1>1, BlockMapAssumption DEF Pending, CountersOK
    <3>3. free_records' = free_records
      BY <1>2
    <3>4. Len(flushed') = Len(flushed) /\ Len(restoring') = Len(restoring)
      BY <2>3, Zenon
    <3>5. Len(open') + Pending' <= Len(open) + Pending
      BY <1>4, <1>5, <3>1, <3>2
    <3>6. Len(open) + Len(flushed) + Len(restoring) + Pending + free_records <= MapRecords
      BY <1>1, Zenon DEF ListInv
    <3>7. Len(open') + Pending' + free_records' <= Len(open) + Pending + free_records
      BY <3>1, <3>2, <3>3, <3>5
    <3>8. Len(open') + Len(flushed) + Len(restoring) + Pending' + free_records' <= MapRecords
      BY <3>1, <3>2, <3>3, <3>6, <3>7, SumKept
    <3> QED
      BY <3>4, <3>8, Zenon
  <2> QED
    BY <1>5, <1>6, <2>2, <2>3, <2>4 DEF ListInv
<1>8. ASSUME NEW v \in VolumeBlocks
      PROVE  Current(v)' = Current(v) /\ (MapOf(open)[v] # 0 => MapOf(open')[v] = MapOf(open)[v])
  <2>1. MapOf(open)[v] # 0 => Current(v) = MapOf(open)[v]
    BY DEF Current
  <2> QED
    BY <1>4, <1>5, <2>1
<1> QED
  BY <1>7, <1>8

LEMMA LongerIs ==
    ASSUME NEW e \in Extents, NEW n \in Nat, n >= 1, LastBlock(e) + n <= Width
    PROVE  /\ Longer(e, n) \in Extents /\ Longer(e, n).vol = e.vol /\ Longer(e, n).jnl = e.jnl
           /\ LastBlock(Longer(e, n)) = LastBlock(e) + n
           /\ \A w \in VolumeBlocks : At(Longer(e, n), w) =
                 IF LastBlock(e) < w /\ w <= LastBlock(e) + n
                 THEN e.jnl + e.n + (w - (LastBlock(e) + 1)) ELSE At(e, w)
           /\ \A w \in VolumeBlocks : Covers(Longer(e, n), w) <=>
                 Covers(e, w) \/ (LastBlock(e) < w /\ w <= LastBlock(e) + n)
<1>1. /\ e \in [vol : Nat, jnl : Nat, n : Nat] /\ e.vol >= 1 /\ e.jnl >= 2 /\ e.n >= 1
      /\ e.vol \in Nat /\ e.jnl \in Nat /\ e.n \in Nat /\ LastBlock(e) = e.vol + e.n - 1
  BY DEF Extents, LastBlock
<1>2. PICK x : x = Longer(e, n)
  OBVIOUS
<1>3. /\ x \in [vol : Nat, jnl : Nat, n : Nat]
      /\ x.vol = e.vol /\ x.jnl = e.jnl /\ x.n = e.n + n
  BY <1>1, <1>2 DEF Longer
<1>4. LastBlock(x) = LastBlock(e) + n
  BY <1>1, <1>3 DEF LastBlock
<1>5. x \in Extents
  BY <1>1, <1>3, <1>4 DEF Extents
<1>6. ASSUME NEW w \in VolumeBlocks
      PROVE  /\ Covers(x, w) <=> Covers(e, w) \/ (LastBlock(e) < w /\ w <= LastBlock(e) + n)
             /\ At(x, w) = IF LastBlock(e) < w /\ w <= LastBlock(e) + n
                           THEN e.jnl + e.n + (w - (LastBlock(e) + 1)) ELSE At(e, w)
  <2>1. w \in Nat
    BY BlockMapAssumption DEF VolumeBlocks
  <2>2. Covers(x, w) <=> Covers(e, w) \/ (LastBlock(e) < w /\ w <= LastBlock(e) + n)
    BY <1>1, <1>3, <1>4, <2>1 DEF Covers
  <2>3. At(x, w) = IF Covers(x, w) THEN e.jnl + (w - e.vol) ELSE 0
    BY <1>3 DEF At
  <2>4. At(e, w) = IF Covers(e, w) THEN e.jnl + (w - e.vol) ELSE 0
    BY DEF At
  <2>5. Covers(e, w) => ~(LastBlock(e) < w)
    BY <1>1, <2>1 DEF Covers
  <2>6. e.jnl + (w - e.vol) = e.jnl + e.n + (w - (LastBlock(e) + 1))
    BY <1>1, <2>1
  <2> QED
    BY <2>2, <2>3, <2>4, <2>5, <2>6
<1> QED
  BY <1>2, <1>3, <1>4, <1>5, <1>6

\* An extent of the list that grows over blocks nothing maps.
LEMMA GrowOK ==
    ASSUME NEW list, ListOK(list), NEW i \in 1 .. Len(list), NEW n \in Nat, n >= 1,
           LastBlock(list[i]) + n <= Width,
           \A w \in VolumeBlocks :
              LastBlock(list[i]) < w /\ w <= LastBlock(list[i]) + n => MapOf(list)[w] = 0,
           NEW s \in Seq(Extents), Len(s) = Len(list),
           \A k \in 1 .. Len(list) : s[k] = IF k = i THEN Longer(list[i], n) ELSE list[k],
           NEW v, v = LastBlock(list[i]) + 1
    PROVE  /\ ListOK(s) /\ Len(s) = Len(list)
           /\ \A w \in VolumeBlocks : MapOf(s)[w] =
                 IF v <= w /\ w < v + n THEN list[i].jnl + list[i].n + (w - v)
                 ELSE MapOf(list)[w]
<1>1. PICK x : x = Longer(list[i], n)
  OBVIOUS
<1>2. /\ s \in Seq(Extents) /\ Len(s) = Len(list)
      /\ \A k \in 1 .. Len(list) : s[k] = IF k = i THEN x ELSE list[k]
  BY <1>1
<1>4. /\ list[i] \in Extents /\ LastBlock(list[i]) \in Nat /\ list[i].vol \in Nat
      /\ list[i].vol <= LastBlock(list[i])
  BY ListIs, ExtentIs
<1>5. /\ x \in Extents /\ x.vol = list[i].vol /\ x.jnl = list[i].jnl
      /\ LastBlock(x) = LastBlock(list[i]) + n
      /\ \A w \in VolumeBlocks : At(x, w) =
            IF LastBlock(list[i]) < w /\ w <= LastBlock(list[i]) + n
            THEN list[i].jnl + list[i].n + (w - (LastBlock(list[i]) + 1)) ELSE At(list[i], w)
      /\ \A w \in VolumeBlocks : Covers(x, w) <=>
            Covers(list[i], w) \/ (LastBlock(list[i]) < w /\ w <= LastBlock(list[i]) + n)
  BY <1>1, <1>4, LongerIs
<1>6. ASSUME NEW k \in 1 .. Len(list), k # i PROVE Apart(list[k], x)
  <2>1. ASSUME NEW w \in VolumeBlocks, Covers(list[k], w), Covers(x, w) PROVE FALSE
    <3>1. CASE Covers(list[i], w)
      <4>1. w \in Nat
        BY BlockMapAssumption DEF VolumeBlocks
      <4> QED
        BY <1>6, <2>1, <3>1, <4>1, OneCovers
    <3>2. CASE LastBlock(list[i]) < w /\ w <= LastBlock(list[i]) + n
      BY <2>1, <3>2, MapCovered
    <3> QED
      BY <1>5, <2>1, <3>1, <3>2
  <2>2. list[k] \in Extents
    BY ListIs
  <2> QED
    BY <1>5, <2>1, <2>2, ApartIs
<1>7. /\ ListOK(s) /\ Len(s) = Len(list)
      /\ \A w \in VolumeBlocks : MapOf(s)[w] =
            IF Covers(x, w) THEN x.jnl + (w - x.vol)
            ELSE IF Covers(list[i], w) THEN 0 ELSE MapOf(list)[w]
  <2>1. x \in Extents /\ list[i].vol <= x.vol /\ x.vol <= LastBlock(list[i])
    BY <1>4, <1>5
  <2>3. \A k \in 1 .. Len(list) : k # i => Apart(list[k], x)
    BY <1>6
  <2>5. /\ ListOK(s)
        /\ \A v1 \in VolumeBlocks : MapOf(s)[v1] =
              IF Covers(x, v1) THEN x.jnl + (v1 - x.vol)
              ELSE IF Covers(list[i], v1) THEN 0 ELSE MapOf(list)[v1]
    BY <1>2, <2>1, <2>3, ReplaceOK, ZenonT(30)
  <2> QED
    BY <1>2, <2>5
<1>8. v = LastBlock(list[i]) + 1
  OBVIOUS
<1>9. ASSUME NEW w \in VolumeBlocks
      PROVE  MapOf(s)[w] = IF v <= w /\ w < v + n THEN list[i].jnl + list[i].n + (w - v)
                           ELSE MapOf(list)[w]
  <2>1. w \in Nat
    BY BlockMapAssumption DEF VolumeBlocks
  <2>2. v <= w /\ w < v + n <=> LastBlock(list[i]) < w /\ w <= LastBlock(list[i]) + n
    BY <1>4, <1>8, <2>1
  <2>3. MapOf(s)[w] = IF Covers(x, w) THEN At(x, w)
                      ELSE IF Covers(list[i], w) THEN 0 ELSE MapOf(list)[w]
    BY <1>7 DEF At
  <2>4. CASE v <= w /\ w < v + n
    BY <1>5, <1>8, <2>2, <2>3, <2>4
  <2>5. CASE ~(v <= w /\ w < v + n) /\ Covers(list[i], w)
    <3>1. MapOf(list)[w] = At(list[i], w)
      BY <2>5, MapAt DEF At
    <3> QED
      BY <1>5, <2>2, <2>3, <2>5, <3>1
  <2>6. CASE ~(v <= w /\ w < v + n) /\ ~Covers(list[i], w)
    BY <1>5, <2>2, <2>3, <2>6
  <2> QED
    BY <2>4, <2>5, <2>6
<1> QED
  BY <1>7, <1>9

\* The blocks a step writes are in no extent, and the journal blocks it takes
\* lie behind all that are in use.
LEMMA StepIs ==
    ASSUME ListInv, request.left > 0, ~Hit.mapped, ~AtEnd
    PROVE  /\ StepLength \in 1 .. request.left /\ StepLength \in Nat /\ StepLength >= 1
           /\ StepLength <= Hit.n /\ StepLength <= RoomLeft /\ RoomLeft \in Nat
           /\ FirstBlock \in Nat /\ FirstBlock >= 2 /\ FirstBlock >= next_free_frame
           /\ FirstBlock + RoomLeft <= JournalSize
           /\ request.at + StepLength - 1 <= Width
           /\ \A w \in VolumeBlocks : InStep(w) =>
                 Current(w) = 0 /\ MapOf(open)[w] = 0 /\ At(pbm, w) = 0
           /\ Hit.adjacent \in 0 .. Len(open)
           /\ Hit.adjacent # 0 => LastBlock(open[Hit.adjacent]) + 1 = request.at
<1>1. /\ CountersOK /\ RequestOK /\ PbmOK /\ ListOK(open)
  BY DEF ListInv
<1>2. /\ request.at \in Nat /\ request.left \in Nat /\ request.left >= 1 /\ request.at >= 1
      /\ request.at + request.left - 1 <= Width
  BY <1>1, BlockMapAssumption, RequestIs DEF VolumeBlocks
<1>3. ScanResult(open, request.at, request.left, Hit)
  BY HitIs
<1>4. Hit.n \in 1 .. request.left /\ Hit.n \in Nat /\ Hit.n >= 1
  BY <1>2, <1>3 DEF ScanResult
<1>5. /\ StepLength \in 1 .. Hit.n /\ StepLength <= RoomLeft
      /\ RoomLeft \in Nat /\ FirstBlock \in Nat /\ FirstBlock >= 2
      /\ FirstBlock >= next_free_frame /\ FirstBlock + RoomLeft <= JournalSize
  BY <1>1, <1>4, StepLengthIs DEF StepLength
<1>6. /\ StepLength \in 1 .. request.left /\ StepLength \in Nat /\ StepLength >= 1
      /\ StepLength <= Hit.n /\ request.at + StepLength - 1 <= Width
  <2>1. PICK m, h, v, left : m = StepLength /\ h = Hit.n /\ v = request.at /\ left = request.left
    OBVIOUS
  <2>2. /\ m \in 1 .. h /\ h \in 1 .. left /\ left \in Nat /\ v \in Nat /\ v + left - 1 <= Width
        /\ Width \in Nat
    BY <1>2, <1>4, <1>5, <2>1, BlockMapAssumption
  <2>3. m \in 1 .. left /\ m \in Nat /\ m >= 1 /\ m <= h /\ v + m - 1 <= Width
    BY <2>2
  <2> QED
    BY <2>1, <2>3
<1>7. ASSUME NEW w \in VolumeBlocks, InStep(w)
      PROVE  Current(w) = 0 /\ MapOf(open)[w] = 0 /\ At(pbm, w) = 0
  <2>1. w \in Nat /\ request.at <= w /\ w < request.at + StepLength
    BY <1>7, BlockMapAssumption DEF VolumeBlocks, InStep
  <2>2. w \in request.at .. request.at + Hit.n - 1
    BY <1>2, <1>4, <1>6, <2>1
  <2>3. MapOf(open)[w] = 0
    BY <1>3, <2>2 DEF ScanResult
  <2>4. ~Covers(pbm, w)
    <3>1. CASE pbm = None
      BY <2>1, <3>1, NoneCovers
    <3>2. CASE pbm # None
      <4>1. LastBlock(pbm) = request.at - 1
        BY <1>1, <3>2 DEF PbmOK
      <4> QED
        BY <1>2, <2>1, <4>1 DEF Covers
    <3> QED
      BY <3>1, <3>2
  <2> QED
    BY <2>3, <2>4 DEF Current, At
<1>8. /\ Hit.adjacent \in 0 .. Len(open)
      /\ Hit.adjacent # 0 => LastBlock(open[Hit.adjacent]) + 1 = request.at
  BY <1>3 DEF ScanResult
<1> QED
  BY <1>5, <1>6, <1>7, <1>8

\* The extent that is being built goes on.
LEMMA GoesOnOK ==
    ASSUME ListInv, request.left > 0, ~Hit.mapped, ~AtEnd, Grows(pbm, request.at, FirstBlock),
           Advance(StepLength, open, Longer(pbm, StepLength))
    PROVE  StepDone(FALSE, 0)
<1>1. RequestOK /\ ListOK(open) /\ CanQueue(open, pbm) /\ request # NoRequest
      /\ (pbm # None => LastBlock(pbm) = request.at - 1 /\ request.first <= pbm.vol)
  BY RequestIs DEF ListInv, PbmOK
<1>2. PICK n, j, at : n = StepLength /\ j = FirstBlock /\ at = request.at
  OBVIOUS
<1>3. /\ n \in 1 .. request.left /\ n \in Nat /\ n >= 1 /\ at + n - 1 <= Width /\ j \in Nat
      /\ \A w \in VolumeBlocks : InStep(w) => Current(w) = 0 /\ MapOf(open)[w] = 0
  BY <1>2, StepIs
<1>4. at \in Nat /\ at >= 1 /\ request.left \in Nat
  BY <1>1, <1>2, RequestIs
<1>5. pbm # None /\ pbm.jnl + pbm.n = j
  BY <1>2 DEF Grows
<1>6. pbm \in Extents /\ LastBlock(pbm) = at - 1 /\ request.first <= pbm.vol
  BY <1>1, <1>2, <1>5 DEF CanQueue
<1>7. PICK x : x = Longer(pbm, n)
  OBVIOUS
<1>8. /\ x \in Extents /\ x.vol = pbm.vol /\ LastBlock(x) = at + n - 1
      /\ \A w \in VolumeBlocks : At(x, w) =
            IF at <= w /\ w < at + n THEN j + (w - at) ELSE At(pbm, w)
      /\ \A w \in VolumeBlocks : Covers(x, w) <=> Covers(pbm, w) \/ (at <= w /\ w < at + n)
  <2>1. LastBlock(pbm) + n <= Width /\ \A w \in VolumeBlocks : w \in Nat
    BY <1>3, <1>4, <1>6, BlockMapAssumption DEF VolumeBlocks
  <2>2. /\ x \in Extents /\ x.vol = pbm.vol
        /\ LastBlock(x) = LastBlock(pbm) + n
        /\ \A w \in VolumeBlocks : At(x, w) =
              IF LastBlock(pbm) < w /\ w <= LastBlock(pbm) + n
              THEN pbm.jnl + pbm.n + (w - (LastBlock(pbm) + 1)) ELSE At(pbm, w)
        /\ \A w \in VolumeBlocks : Covers(x, w) <=>
              Covers(pbm, w) \/ (LastBlock(pbm) < w /\ w <= LastBlock(pbm) + n)
    BY <1>3, <1>6, <1>7, <2>1, LongerIs
  <2>3. \A w \in VolumeBlocks :
           /\ LastBlock(pbm) < w /\ w <= LastBlock(pbm) + n <=> at <= w /\ w < at + n
           /\ w - (LastBlock(pbm) + 1) = w - at
    BY <1>3, <1>4, <1>6, <2>1
  <2>4. LastBlock(x) = at + n - 1
    BY <1>3, <1>4, <1>6, <2>2
  <2> QED
    BY <1>5, <2>2, <2>3, <2>4
<1>9. CanQueue(open, x)
  <2>1. ASSUME NEW w \in VolumeBlocks, Covers(x, w) PROVE MapOf(open)[w] = 0
    <3>1. CASE Covers(pbm, w)
      BY <1>1, <3>1, ApartUnmapped
    <3>2. CASE at <= w /\ w < at + n
      BY <1>2, <1>3, <3>2 DEF InStep
    <3> QED
      BY <1>8, <2>1, <3>1, <3>2
  <2> QED
    BY <1>1, <1>8, <2>1, UnmappedApart DEF CanQueue
<1>10. x # None
  BY <1>8, ExtentIs
<1>11. /\ RequestOK' /\ PbmOK' /\ ListOK(open') /\ Len(open') + Pending' = Len(open) + 1
       /\ \A w \in VolumeBlocks :
             /\ Current(w)' = IF MapOf(open)[w] # 0 THEN MapOf(open)[w] ELSE At(x, w)
             /\ MapOf(open)[w] # 0 => MapOf(open')[w] = MapOf(open)[w]
  <2>1. Advance(n, open, x)
    BY <1>2, <1>7
  <2>2. LastBlock(x) = request.at + n - 1 /\ request.first <= x.vol
    BY <1>2, <1>6, <1>8
  <2> QED
    BY <1>1, <1>3, <1>9, <1>10, <2>1, <2>2, AdvanceOK
<1>12. ASSUME NEW w \in VolumeBlocks
       PROVE  Current(w)' = IF InStep(w) THEN FirstBlock + (w - request.at) ELSE Current(w)
  <2>1. InStep(w) <=> at <= w /\ w < at + n
    BY <1>2 DEF InStep
  <2>2. InStep(w) => MapOf(open)[w] = 0
    BY <1>3
  <2> QED
    BY <1>2, <1>8, <1>11, <2>1, <2>2 DEF Current
<1>13. Len(open') + Pending' = Len(open) + Pending + 0
  <2>1. Pending = 1 /\ Len(open) \in Nat
    BY <1>1, <1>5, ListIs DEF Pending
  <2> QED
    BY <1>11, <2>1
<1> QED
  BY <1>11, <1>12, <1>13, Zenon DEF StepDone

\* An extent of the list goes on; no extent is being built then.
LEMMA JoinsOK ==
    ASSUME ListInv, request.left > 0, ~Hit.mapped, ~AtEnd, Joins(request.at, FirstBlock),
           NEW s \in Seq(Extents), Len(s) = Len(open),
           \A k \in 1 .. Len(open) :
              s[k] = IF k = Hit.adjacent THEN Longer(open[k], StepLength) ELSE open[k],
           Advance(StepLength, Queue(s, pbm), None)
    PROVE  StepDone(FALSE, 0)
<1>1. RequestOK /\ ListOK(open) /\ CanQueue(open, pbm) /\ request # NoRequest
      /\ (pbm # None => LastBlock(pbm) = request.at - 1)
  BY RequestIs DEF ListInv, PbmOK
<1>2. PICK n, j, at, i : n = StepLength /\ j = FirstBlock /\ at = request.at /\ i = Hit.adjacent
  OBVIOUS
<1>3. /\ n \in 1 .. request.left /\ n \in Nat /\ n >= 1 /\ at + n - 1 <= Width /\ j \in Nat
      /\ \A w \in VolumeBlocks : InStep(w) => Current(w) = 0 /\ MapOf(open)[w] = 0
      /\ i \in 0 .. Len(open) /\ (i # 0 => LastBlock(open[i]) + 1 = at)
  BY <1>2, StepIs
<1>4. at \in Nat /\ at >= 1 /\ request.left \in Nat
  BY <1>1, <1>2, RequestIs
<1>5. i # 0 /\ open[i].jnl + open[i].n = j
  BY <1>2 DEF Joins, Grows
<1>6. Len(open) \in Nat /\ i \in 1 .. Len(open) /\ open[i] \in Extents /\ LastBlock(open[i]) + 1 = at
  BY <1>1, <1>3, <1>5, ListIs
<1>7. LastBlock(open[i]) = at - 1 /\ LastBlock(open[i]) \in VolumeBlocks /\ LastBlock(open[i]) \in Nat
      /\ open[i].vol <= LastBlock(open[i]) /\ LastBlock(open[i]) + n <= Width
  BY <1>3, <1>4, <1>6, ExtentIs, BlockMapAssumption
<1>8. pbm = None
  <2>1. SUFFICES ASSUME pbm # None PROVE FALSE
    OBVIOUS
  <2>2. pbm \in Extents /\ LastBlock(pbm) = at - 1 /\ Apart(open[i], pbm)
    BY <1>1, <1>2, <1>6, <2>1 DEF CanQueue
  <2>3. pbm.vol <= LastBlock(pbm) /\ pbm.vol \in Nat
    BY <2>2, ExtentIs
  <2>4. Covers(pbm, at - 1) /\ Covers(open[i], at - 1) /\ at - 1 \in VolumeBlocks
    BY <1>4, <1>7, <2>2, <2>3 DEF Covers
  <2> QED
    BY <1>6, <2>2, <2>4, ApartIs
<1>9. /\ ListOK(s) /\ Len(s) = Len(open)
      /\ \A w \in VolumeBlocks : MapOf(s)[w] =
            IF at <= w /\ w < at + n THEN j + (w - at) ELSE MapOf(open)[w]
  <2>1. ASSUME NEW w \in VolumeBlocks, LastBlock(open[i]) < w, w <= LastBlock(open[i]) + n
        PROVE  MapOf(open)[w] = 0
    <3>1. w \in Nat
      BY BlockMapAssumption DEF VolumeBlocks
    <3>2. at <= w /\ w < at + n
      BY <1>3, <1>4, <1>7, <2>1, <3>1
    <3> QED
      BY <1>2, <1>3, <3>2 DEF InStep
  <2>2. /\ s \in Seq(Extents) /\ Len(s) = Len(open)
        /\ \A k \in 1 .. Len(open) : s[k] = IF k = i THEN Longer(open[i], n) ELSE open[k]
    BY <1>2
  <2>3. /\ ListOK(s) /\ Len(s) = Len(open)
        /\ \A w \in VolumeBlocks : MapOf(s)[w] =
              IF at <= w /\ w < at + n THEN open[i].jnl + open[i].n + (w - at)
              ELSE MapOf(open)[w]
    <3>1. /\ \A w \in VolumeBlocks :
                LastBlock(open[i]) < w /\ w <= LastBlock(open[i]) + n => MapOf(open)[w] = 0
          /\ at = LastBlock(open[i]) + 1
      BY <1>6, <2>1
    <3> QED
      <4>1. /\ s \in Seq(Extents) /\ Len(s) = Len(open)
            /\ \A k \in 1 .. Len(open) : s[k] = IF k = i THEN Longer(open[i], n) ELSE open[k]
        BY <2>2
      <4>2. /\ ListOK(open) /\ i \in 1 .. Len(open) /\ n \in Nat /\ n >= 1
            /\ LastBlock(open[i]) + n <= Width
        BY <1>1, <1>3, <1>6, <1>7
      <4>3. PICK list : list = open
        OBVIOUS
      <4> QED
        BY <3>1, <4>1, <4>2, GrowOK, SMTT(30)
  <2> QED
    BY <1>5, <2>3
<1>10. /\ RequestOK' /\ PbmOK' /\ ListOK(open') /\ Len(open') + Pending' = Len(s)
       /\ \A w \in VolumeBlocks :
             /\ Current(w)' = IF MapOf(s)[w] # 0 THEN MapOf(s)[w] ELSE At(None, w)
             /\ MapOf(s)[w] # 0 => MapOf(open')[w] = MapOf(s)[w]
  <2>1. Advance(n, s, None) /\ CanQueue(s, None)
    BY <1>2, <1>8, Zenon DEF Queue, CanQueue
  <2>2. /\ RequestOK' /\ PbmOK' /\ ListOK(open')
        /\ Len(open') + Pending' = Len(s) + (IF None = None THEN 0 ELSE 1)
        /\ \A w \in VolumeBlocks :
             /\ Current(w)' = IF MapOf(s)[w] # 0 THEN MapOf(s)[w] ELSE At(None, w)
             /\ MapOf(s)[w] # 0 => MapOf(open')[w] = MapOf(s)[w]
    BY <1>1, <1>3, <1>9, <2>1, AdvanceOK
  <2>3. Len(s) + (IF None = None THEN 0 ELSE 1) = Len(s)
    BY <1>6, <1>9
  <2> QED
    BY <2>2, <2>3
<1>11. ASSUME NEW w \in VolumeBlocks
       PROVE  /\ Current(w)' = IF InStep(w) THEN FirstBlock + (w - request.at) ELSE Current(w)
              /\ MapOf(open)[w] # 0 => MapOf(open')[w] = MapOf(open)[w]
  <2>1. w \in Nat
    BY BlockMapAssumption DEF VolumeBlocks
  <2>2. InStep(w) <=> at <= w /\ w < at + n
    BY <1>2 DEF InStep
  <2>3. InStep(w) => MapOf(open)[w] = 0
    BY <1>3
  <2>4. Current(w) = MapOf(open)[w]
    BY <1>8, <2>1, NoneCovers DEF Current, At
  <2>5. At(None, w) = 0
    BY <2>1, NoneCovers DEF At
  <2>6. MapOf(s)[w] = IF InStep(w) THEN FirstBlock + (w - request.at) ELSE MapOf(open)[w]
    BY <1>2, <1>9, <2>2
  <2>7. Current(w)' = MapOf(s)[w]
    BY <1>10, <2>5
  <2>8. MapOf(open)[w] # 0 => MapOf(s)[w] = MapOf(open)[w]
    BY <2>3, <2>6
  <2> QED
    BY <1>10, <2>4, <2>6, <2>7, <2>8
<1>12. Len(open') + Pending' = Len(open) + Pending + 0
  <2>1. Pending = 0
    BY <1>8 DEF Pending
  <2> QED
    BY <1>6, <1>9, <1>10, <2>1
<1> QED
  BY <1>10, <1>11, <1>12, Zenon DEF StepDone

\* Neither goes on: a new extent, if there is a record for it.
LEMMA BeginsOK ==
    ASSUME ListInv, request.left > 0, ~Hit.mapped, ~AtEnd,
           Advance(StepLength, Queue(open, pbm), Extent(request.at, FirstBlock, StepLength))
    PROVE  StepDone(FALSE, 1)
<1>1. RequestOK /\ ListOK(open) /\ CanQueue(open, pbm) /\ request # NoRequest
  BY RequestIs DEF ListInv, PbmOK
<1>2. PICK n, j, at : n = StepLength /\ j = FirstBlock /\ at = request.at
  OBVIOUS
<1>3. /\ n \in 1 .. request.left /\ n \in Nat /\ n >= 1 /\ at + n - 1 <= Width /\ j \in Nat /\ j >= 2
      /\ \A w \in VolumeBlocks : InStep(w) => Current(w) = 0 /\ MapOf(open)[w] = 0
  BY <1>2, StepIs
<1>4. at \in Nat /\ at >= 1 /\ request.left \in Nat /\ request.first <= request.at
  BY <1>1, <1>2, RequestIs
<1>5. PICK s, x : s = Queue(open, pbm) /\ x = Extent(at, j, n)
  OBVIOUS
<1>6. /\ ListOK(s) /\ Len(s) = Len(open) + Pending
      /\ \A w \in VolumeBlocks : MapOf(s)[w] = Current(w)
  BY <1>1, <1>5, QueueOK DEF Current, Pending
<1>7. /\ x \in Extents /\ LastBlock(x) = at + n - 1 /\ x.vol = at /\ x.jnl = j
  BY <1>3, <1>4, <1>5, MakeExtent
<1>8. ASSUME NEW w \in VolumeBlocks
      PROVE  /\ Covers(x, w) <=> InStep(w)
             /\ At(x, w) = IF InStep(w) THEN j + (w - at) ELSE 0
  <2>1. w \in Nat
    BY BlockMapAssumption DEF VolumeBlocks
  <2>2. Covers(x, w) <=> InStep(w)
    BY <1>2, <1>3, <1>4, <1>7, <2>1 DEF Covers, InStep
  <2> QED
    BY <1>7, <2>2 DEF At
<1>9. CanQueue(s, x) /\ x # None
  <2>1. \A w \in VolumeBlocks : Covers(x, w) => MapOf(s)[w] = 0
    BY <1>3, <1>6, <1>8
  <2> QED
    BY <1>6, <1>7, <2>1, UnmappedApart, ExtentIs DEF CanQueue
<1>10. /\ RequestOK' /\ PbmOK' /\ ListOK(open') /\ Len(open') + Pending' = Len(s) + 1
       /\ \A w \in VolumeBlocks :
             /\ Current(w)' = IF MapOf(s)[w] # 0 THEN MapOf(s)[w] ELSE At(x, w)
             /\ MapOf(s)[w] # 0 => MapOf(open')[w] = MapOf(s)[w]
  <2>1. Advance(n, s, x) /\ LastBlock(x) = request.at + n - 1 /\ request.first <= x.vol
    BY <1>2, <1>4, <1>5, <1>7
  <2> QED
    BY <1>1, <1>3, <1>6, <1>9, <2>1, AdvanceOK
<1>11. ASSUME NEW w \in VolumeBlocks
       PROVE  /\ Current(w)' = IF InStep(w) THEN FirstBlock + (w - request.at) ELSE Current(w)
              /\ MapOf(open)[w] # 0 => MapOf(open')[w] = MapOf(open)[w]
  <2>1. InStep(w) => Current(w) = 0
    BY <1>3
  <2>2. Current(w)' = IF Current(w) # 0 THEN Current(w) ELSE At(x, w)
    BY <1>6, <1>10
  <2>3. MapOf(open)[w] # 0 => Current(w) = MapOf(open)[w]
    BY DEF Current
  <2> QED
    BY <1>2, <1>6, <1>8, <1>10, <2>1, <2>2, <2>3
<1> QED
  BY <1>6, <1>10, <1>11, Zenon DEF StepDone

LEMMA FailsOK ==
    ASSUME ListInv, GiveUp(Queue(open, pbm))
    PROVE  StepDone(TRUE, 0)
<1>1. ListOK(open) /\ CanQueue(open, pbm)
  BY DEF ListInv, PbmOK
<1>2. PICK s : s = Queue(open, pbm)
  OBVIOUS
<1>3. /\ ListOK(s) /\ Len(s) = Len(open) + Pending
      /\ \A w \in VolumeBlocks : MapOf(s)[w] = Current(w)
  BY <1>1, <1>2, QueueOK DEF Current, Pending
<1>4. /\ RequestOK' /\ PbmOK' /\ ListOK(open') /\ Pending' = 0 /\ Len(open') = Len(s)
      /\ \A w \in VolumeBlocks :
            MapOf(open')[w] = MapOf(s)[w] /\ Current(w)' = MapOf(s)[w]
  BY <1>2, <1>3, GiveUpOK
<1>5. Len(open) \in Nat /\ Pending \in Nat
  BY <1>1, ListIs DEF Pending
<1>6. Len(open') + Pending' = Len(open) + Pending + 0
  BY <1>3, <1>4, <1>5
<1>7. ASSUME NEW w \in VolumeBlocks
      PROVE  Current(w)' = Current(w) /\ (MapOf(open)[w] # 0 => MapOf(open')[w] = MapOf(open)[w])
  <2>1. MapOf(open)[w] # 0 => Current(w) = MapOf(open)[w]
    BY DEF Current
  <2> QED
    BY <1>3, <1>4, <2>1
<1> QED
  BY <1>4, <1>6, <1>7, Zenon DEF StepDone

\* What a step does with its extent, and with the frame and the buffer.
LEMMA UnmappedIs ==
    ASSUME WriteUnmapped
    PROVE  /\ request.left > 0 /\ ~Hit.mapped /\ ~AtEnd
           /\ \/ /\ Grows(pbm, request.at, FirstBlock) /\ ~Fails
                 /\ Advance(StepLength, open, Longer(pbm, StepLength))
                 /\ free_records' = free_records
              \/ /\ Joins(request.at, FirstBlock) /\ ~Fails
                 /\ Advance(StepLength,
                       Queue([open EXCEPT ![Hit.adjacent] = Longer(@, StepLength)], pbm), None)
                 /\ free_records' = free_records
              \/ /\ Fails /\ GiveUp(Queue(open, pbm)) /\ free_records' = free_records
              \/ /\ ~Fails /\ free_records # 0 /\ free_records' = free_records - 1
                 /\ Advance(StepLength, Queue(open, pbm),
                            Extent(request.at, FirstBlock, StepLength))
           /\ open_current_free' = RoomLeft - StepLength
           /\ next_free_frame' = FirstBlock + StepLength
           /\ open_current_frame' = IF NeedsFrame THEN next_free_frame ELSE open_current_frame
           /\ open_remapped' = TRUE
           /\ open_start_record' = IF open_start_record = 0 THEN open_current_frame'
                                   ELSE open_start_record
           /\ index' = [k \in JournalBlocks |-> IF k \in FirstBlock .. FirstBlock + StepLength - 1
                                                THEN request.at + (k - FirstBlock) ELSE index[k]]
           /\ LET closed == IF NeedsFrame THEN Written ELSE journal
              IN  journal' = IF Fails \/ Buffered THEN closed ELSE Put(closed, FirstBlock, StepLength)
           /\ IF ~Buffered THEN UNCHANGED bufferVars
              ELSE /\ buffer_sector_start' = IF NeedsFrame THEN next_free_frame ELSE buffer_sector_start
                   /\ dirty' = (IF NeedsFrame THEN 1 ELSE dirty) + (IF Fails THEN 0 ELSE StepLength)
                   /\ buffer' = IF Fails THEN buffer ELSE Put(buffer, FirstBlock, StepLength)
           /\ UNCHANGED <<flushed, restoring, todo, flushing, given_back, flushed_start_record,
                          flushed_last_block, volume, clock>>
<1> DEFINE goesOn == Grows(pbm, request.at, FirstBlock)
           joins == Joins(request.at, FirstBlock)
           longer == Queue([open EXCEPT ![Hit.adjacent] = Longer(@, StepLength)], pbm)
           queued == Queue(open, pbm)
           closed == IF NeedsFrame THEN Written ELSE journal
<1>1. /\ request.left > 0 /\ ~Hit.mapped /\ ~AtEnd
      /\ open_current_frame' = IF NeedsFrame THEN next_free_frame ELSE open_current_frame
      /\ open_current_free' = RoomLeft - StepLength
      /\ next_free_frame' = FirstBlock + StepLength
      /\ open_remapped' = TRUE
      /\ open_start_record' = IF open_start_record = 0 THEN open_current_frame'
                              ELSE open_start_record
      /\ index' = [k \in JournalBlocks |-> IF k \in FirstBlock .. FirstBlock + StepLength - 1
                                           THEN request.at + (k - FirstBlock) ELSE index[k]]
      /\ UNCHANGED <<flushed, restoring, todo, flushing, given_back, flushed_start_record,
                     flushed_last_block, volume, clock>>
  BY Zenon DEF WriteUnmapped, Hit, StepLength
<1>2. /\ CASE goesOn -> Advance(StepLength, open, Longer(pbm, StepLength))
           [] ~goesOn /\ joins -> Advance(StepLength, longer, None)
           [] Fails -> GiveUp(queued)
           [] OTHER -> Advance(StepLength, queued, Extent(request.at, FirstBlock, StepLength))
      /\ free_records' = IF goesOn \/ joins \/ Fails THEN free_records ELSE free_records - 1
  BY Zenon DEF WriteUnmapped, Hit, StepLength, Joins, Fails
<1>3. /\ journal' = IF Fails \/ Buffered THEN closed ELSE Put(closed, FirstBlock, StepLength)
      /\ IF ~Buffered THEN UNCHANGED bufferVars
         ELSE /\ buffer_sector_start' = IF NeedsFrame THEN next_free_frame ELSE buffer_sector_start
              /\ dirty' = (IF NeedsFrame THEN 1 ELSE dirty) + (IF Fails THEN 0 ELSE StepLength)
              /\ buffer' = IF Fails THEN buffer ELSE Put(buffer, FirstBlock, StepLength)
  BY Zenon DEF WriteUnmapped, Hit, StepLength, Joins, Fails
<1>4. Fails <=> ~goesOn /\ ~joins /\ free_records = 0
  BY Zenon DEF Fails
<1>5. \/ /\ goesOn /\ ~Fails /\ free_records' = free_records
         /\ Advance(StepLength, open, Longer(pbm, StepLength))
      \/ /\ joins /\ ~Fails /\ free_records' = free_records
         /\ Advance(StepLength, longer, None)
      \/ /\ Fails /\ GiveUp(queued) /\ free_records' = free_records
      \/ /\ ~Fails /\ free_records # 0 /\ free_records' = free_records - 1
         /\ Advance(StepLength, queued, Extent(request.at, FirstBlock, StepLength))
  <2> HIDE DEF goesOn, joins, longer, queued
  <2> QED
    BY <1>2, <1>4
<1> QED
  BY <1>1, <1>3, <1>5, Zenon

LEMMA ExceptIs ==
    ASSUME NEW list \in Seq(Extents), NEW i \in 1 .. Len(list), NEW x \in Extents,
           NEW s, s = [list EXCEPT ![i] = x]
    PROVE  /\ s \in Seq(Extents) /\ Len(s) = Len(list)
           /\ \A k \in 1 .. Len(list) : s[k] = IF k = i THEN x ELSE list[k]
  BY ExceptSeq

\* A step of a write over blocks that are not mapped.
LEMMA WriteUnmappedOK ==
    ASSUME ListInv, WriteUnmapped, UNCHANGED buffer_size
    PROVE  ListInv' /\ (StepDone(Fails, 0) \/ StepDone(Fails, 1))
<1>1. /\ request.left > 0 /\ ~Hit.mapped /\ ~AtEnd
      /\ \/ /\ Grows(pbm, request.at, FirstBlock) /\ ~Fails
            /\ Advance(StepLength, open, Longer(pbm, StepLength))
            /\ free_records' = free_records
         \/ /\ Joins(request.at, FirstBlock) /\ ~Fails
            /\ Advance(StepLength,
                  Queue([open EXCEPT ![Hit.adjacent] = Longer(@, StepLength)], pbm), None)
            /\ free_records' = free_records
         \/ /\ Fails /\ GiveUp(Queue(open, pbm)) /\ free_records' = free_records
         \/ /\ ~Fails /\ free_records # 0 /\ free_records' = free_records - 1
            /\ Advance(StepLength, Queue(open, pbm), Extent(request.at, FirstBlock, StepLength))
      /\ open_current_free' = RoomLeft - StepLength
      /\ next_free_frame' = FirstBlock + StepLength
      /\ open_current_frame' = IF NeedsFrame THEN next_free_frame ELSE open_current_frame
      /\ open_remapped' = TRUE
      /\ IF ~Buffered THEN UNCHANGED bufferVars
         ELSE /\ buffer_sector_start' = IF NeedsFrame THEN next_free_frame ELSE buffer_sector_start
              /\ dirty' = (IF NeedsFrame THEN 1 ELSE dirty) + (IF Fails THEN 0 ELSE StepLength)
      /\ UNCHANGED <<flushed, restoring, todo, flushing, clock>>
  BY UnmappedIs, Zenon
<1>2. /\ CountersOK /\ RequestOK /\ ListOK(open) /\ ListOK(flushed) /\ ListOK(restoring)
      /\ Len(open) + Len(flushed) + Len(restoring) + Pending + free_records <= MapRecords
      /\ (flushing => request = NoRequest)
      /\ todo \in Seq(Extents) /\ (~flushing => todo = <<>>)
  BY DEF ListInv
<1>3. /\ StepLength \in Nat /\ StepLength >= 1 /\ StepLength <= RoomLeft /\ RoomLeft \in Nat
      /\ FirstBlock \in Nat /\ FirstBlock >= 2 /\ FirstBlock + RoomLeft <= JournalSize
      /\ StepLength <= Hit.n
  BY <1>1, StepIs
<1>4. \/ StepDone(FALSE, 0) /\ ~Fails /\ free_records' = free_records
      \/ StepDone(TRUE, 0) /\ Fails /\ free_records' = free_records
      \/ StepDone(FALSE, 1) /\ ~Fails /\ free_records # 0 /\ free_records' = free_records - 1
  <2>1. CASE /\ Grows(pbm, request.at, FirstBlock) /\ ~Fails
             /\ Advance(StepLength, open, Longer(pbm, StepLength))
             /\ free_records' = free_records
    BY <1>1, <2>1, GoesOnOK
  <2>2. CASE /\ Joins(request.at, FirstBlock) /\ ~Fails
             /\ Advance(StepLength,
                   Queue([open EXCEPT ![Hit.adjacent] = Longer(@, StepLength)], pbm), None)
             /\ free_records' = free_records
    <3>1. PICK i, x : i = Hit.adjacent /\ x = Longer(open[i], StepLength)
      OBVIOUS
    <3>2. PICK s : s = [open EXCEPT ![i] = x]
      OBVIOUS
    <3>3. s = [open EXCEPT ![Hit.adjacent] = Longer(@, StepLength)]
      BY <3>1, <3>2
    <3>4. /\ i \in 1 .. Len(open) /\ open[i] \in Extents /\ LastBlock(open[i]) + 1 = request.at
          /\ open \in Seq(Extents)
      <4>1. i # 0 /\ i \in 0 .. Len(open) /\ LastBlock(open[i]) + 1 = request.at
        BY <1>1, <2>2, <3>1, StepIs DEF Joins
      <4> QED
        BY <1>2, <4>1, ListIs DEF ListOK
    <3>5. x \in Extents
      <4>1. request.at + StepLength - 1 <= Width /\ request.at \in Nat /\ LastBlock(open[i]) \in Nat
        BY <1>1, <1>2, <3>4, StepIs, RequestIs, ExtentIs
      <4>2. LastBlock(open[i]) + StepLength <= Width
        BY <1>3, <3>4, <4>1, BlockMapAssumption
      <4> QED
        BY <1>3, <3>1, <3>4, <4>2, LongerIs
    <3>6. PICK list : list = open
      OBVIOUS
    <3>7. /\ s \in Seq(Extents) /\ Len(s) = Len(open)
          /\ \A k \in 1 .. Len(open) : s[k] = IF k = i THEN x ELSE open[k]
      BY <3>2, <3>4, <3>5, ExceptIs
    <3>8. \A k \in 1 .. Len(open) :
             s[k] = IF k = Hit.adjacent THEN Longer(open[k], StepLength) ELSE open[k]
      BY <3>1, <3>7
    <3>9. Advance(StepLength, Queue(s, pbm), None)
      BY <2>2, <3>3, Zenon
    <3> QED
      BY <1>1, <2>2, <3>7, <3>8, <3>9, JoinsOK
  <2>3. CASE Fails /\ GiveUp(Queue(open, pbm)) /\ free_records' = free_records
    BY <2>3, FailsOK
  <2>4. CASE /\ ~Fails /\ free_records # 0 /\ free_records' = free_records - 1
             /\ Advance(StepLength, Queue(open, pbm), Extent(request.at, FirstBlock, StepLength))
    BY <1>1, <2>4, BeginsOK
  <2> QED
    BY <1>1, <2>1, <2>2, <2>3, <2>4
<1>5. PICK more \in {0, 1} : /\ StepDone(Fails, more) /\ free_records' = free_records - more
                             /\ free_records' \in Nat
  <2>1. free_records \in Nat
    BY <1>2 DEF CountersOK
  <2>2. CASE StepDone(FALSE, 0) /\ ~Fails /\ free_records' = free_records
    <3>1. StepDone(Fails, 0)
      BY <2>2, Zenon DEF StepDone
    <3> QED
      BY <2>1, <2>2, <3>1
  <2>3. CASE StepDone(TRUE, 0) /\ Fails /\ free_records' = free_records
    <3>1. StepDone(Fails, 0)
      BY <2>3, Zenon DEF StepDone
    <3>2. free_records' = free_records - 0 /\ free_records' \in Nat
      BY <2>1, <2>3
    <3> QED
      BY <3>1, <3>2, Zenon
  <2>4. CASE StepDone(FALSE, 1) /\ ~Fails /\ free_records # 0 /\ free_records' = free_records - 1
    <3>1. StepDone(Fails, 1)
      BY <2>4, Zenon DEF StepDone
    <3> QED
      BY <2>1, <2>4, <3>1
  <2> QED
    BY <1>4, <2>2, <2>3, <2>4
<1>6. /\ RequestOK' /\ PbmOK' /\ ListOK(open') /\ Len(open') + Pending' = Len(open) + Pending + more
  BY <1>5, Zenon DEF StepDone
<1>7. CountersOK'
  <2>1. /\ open_current_free' \in Nat /\ next_free_frame' \in 2 .. JournalSize
        /\ next_free_frame' + open_current_free' <= JournalSize
    BY <1>1, <1>3, BlockMapAssumption
  <2>2. open_current_frame' \in Nat /\ free_records' \in Nat
    BY <1>1, <1>2, <1>5 DEF CountersOK
  <2>3. (Buffered => Buffered') /\ (Buffered' => Buffered)
    BY DEF Buffered
  <2>4. dirty' \in Nat /\ buffer_sector_start' \in Nat /\ (Buffered => dirty' <= buffer_size)
    <3>1. CASE ~Buffered
      BY <1>1, <1>2, <3>1 DEF CountersOK, bufferVars
    <3>2. CASE Buffered
      <4>1. Hit.n \in Nat /\ Hit.n >= 1
        BY <1>1, <1>2, HitIs, RequestIs DEF ScanResult
      <4>2. StepLength <= buffer_size - (IF dirty >= buffer_size THEN 1 ELSE dirty)
        BY <1>1, <1>2, <3>2, <4>1, StepLengthIs DEF StepLength
      <4>3. NeedsFrame => RoomLeft <= buffer_size - 1
        BY <1>1, <1>2, <3>2, <4>1, StepLengthIs
      <4>5. buffer_size \in Nat /\ dirty \in Nat /\ next_free_frame \in Nat
            /\ buffer_sector_start \in Nat /\ buffer_size >= 1 /\ dirty <= buffer_size
        BY <1>2, <3>2, BlockMapAssumption DEF CountersOK
      <4>4. ~NeedsFrame => dirty < buffer_size
        BY <3>2, <4>5 DEF NeedsFrame
      <4> QED
        BY <1>1, <1>3, <3>2, <4>2, <4>3, <4>4, <4>5
    <3> QED
      BY <3>1, <3>2
  <2> QED
    BY <1>1, <1>2, <2>1, <2>2, <2>3, <2>4 DEF CountersOK
<1>8. Len(open') + Len(flushed') + Len(restoring') + Pending' + free_records' <= MapRecords
  <2>1. /\ Len(open) \in Nat /\ Len(open') \in Nat /\ Len(flushed) \in Nat /\ Len(restoring) \in Nat
        /\ free_records \in Nat
    BY <1>2, <1>6, ListIs DEF CountersOK
  <2>2. Pending \in Nat /\ Pending' \in Nat
    BY DEF Pending
  <2>3. Len(flushed') = Len(flushed) /\ Len(restoring') = Len(restoring)
    <3>1. flushed' = flushed /\ restoring' = restoring
      BY <1>1, Zenon
    <3> QED
      BY <3>1, Zenon
  <2>4. Len(open') + Pending' = Len(open) + Pending + more
    BY <1>6, Zenon
  <2>5. free_records' = free_records - more
    BY <1>5, Zenon
  <2>6. Len(open) + Len(flushed) + Len(restoring) + Pending + free_records <= MapRecords
    BY <1>2, Zenon
  <2>7. MapRecords \in Nat /\ free_records' \in Nat
    BY <1>5, BlockMapAssumption
  <2>8. Len(open') + Pending' + free_records' <= Len(open) + Pending + free_records
    <3>1. more \in Nat
      OBVIOUS
    <3> QED
      BY <2>1, <2>2, <2>4, <2>5, <2>7, <3>1
  <2>9. Len(open') + Len(flushed) + Len(restoring) + Pending' + free_records' <= MapRecords
    BY <2>1, <2>2, <2>6, <2>7, <2>8, SumKept
  <2> QED
    BY <2>3, <2>9, Zenon
<1>9. ListInv'
  <2>1. ~flushing'
    BY <1>1, <1>2, RequestIs
  <2> QED
    BY <1>1, <1>2, <1>6, <1>7, <1>8, <2>1 DEF ListInv
<1> QED
  BY <1>5, <1>9

-----------------------------------------------------------------------------
(* The invariant, step by step *)

LEMMA ListParts ==
    ASSUME ListInv
    PROVE  /\ CountersOK /\ RequestOK /\ PbmOK
           /\ ListOK(open) /\ ListOK(flushed) /\ ListOK(restoring)
           /\ Len(open) \in Nat /\ Len(flushed) \in Nat /\ Len(restoring) \in Nat
           /\ Pending \in Nat /\ free_records \in Nat
           /\ Len(open) + Len(flushed) + Len(restoring) + Pending + free_records <= MapRecords
           /\ (flushing => request = NoRequest)
           /\ todo \in Seq(Extents) /\ (~flushing => todo = <<>>)
           /\ (request = NoRequest => pbm = None /\ Pending = 0)
           /\ (request.left > 0 => ~flushing)
<1>1. /\ CountersOK /\ RequestOK /\ PbmOK
      /\ ListOK(open) /\ ListOK(flushed) /\ ListOK(restoring)
      /\ Len(open) + Len(flushed) + Len(restoring) + Pending + free_records <= MapRecords
      /\ (flushing => request = NoRequest)
      /\ todo \in Seq(Extents) /\ (~flushing => todo = <<>>)
  BY DEF ListInv
<1>2. Len(open) \in Nat /\ Len(flushed) \in Nat /\ Len(restoring) \in Nat
  BY <1>1, ListIs
<1>3. Pending \in Nat /\ free_records \in Nat /\ (request = NoRequest => pbm = None /\ Pending = 0)
  BY <1>1 DEF Pending, CountersOK, PbmOK
<1>4. request.left > 0 => ~flushing
  BY <1>1, RequestIs
<1> QED
  BY <1>1, <1>2, <1>3, <1>4

LEMMA CountersAre ==
    ASSUME ListInv
    PROVE  /\ JournalSize \in Nat /\ next_free_frame \in Nat
           /\ next_free_frame >= 2 /\ next_free_frame <= JournalSize
           /\ dirty \in Nat /\ buffer_sector_start \in Nat /\ clock \in Nat
           /\ buffer_size \in Nat /\ buffer_size >= 1 /\ (Buffered => dirty <= buffer_size)
           /\ open_current_free \in Nat
<1>1. CountersOK
  BY ListParts
<1>2. /\ next_free_frame \in 2 .. JournalSize /\ clock \in 0 .. MaxWrites
      /\ dirty \in Nat /\ buffer_sector_start \in Nat
      /\ buffer_size \in BufferSizes /\ (Buffered => dirty <= buffer_size)
      /\ open_current_free \in Nat
  BY <1>1, Zenon DEF CountersOK
<1> QED
  BY <1>2, BlockMapAssumption

LEMMA HitBounds ==
    ASSUME ListInv, request.left > 0
    PROVE  /\ Hit.jnl \in Nat /\ Hit.n \in Nat /\ Hit.n \in 1 .. request.left /\ Hit.n >= 1
           /\ request.at \in Nat /\ request.left \in Nat
<1>1. Hit.jnl \in Nat /\ Hit.n \in 1 .. request.left
  BY HitIs DEF ScanResult
<1>2. request.at \in Nat /\ request.left \in Nat
  BY RequestIs, ListParts
<1> QED
  BY <1>1, <1>2

\* A block's replacement in the session, and those of the older ones, are journal blocks.
LEMMA CurrentIs ==
    ASSUME ListInv, NEW v \in VolumeBlocks
    PROVE  /\ Current(v) \in Nat
           /\ MapOf(open)[v] \in Nat /\ MapOf(flushed)[v] \in Nat /\ MapOf(restoring)[v] \in Nat
           /\ MapOf(open)[v] # 0 => Current(v) = MapOf(open)[v]
           /\ pbm = None => Current(v) = MapOf(open)[v]
<1>1. ListOK(open) /\ ListOK(flushed) /\ ListOK(restoring) /\ CanQueue(open, pbm)
  BY DEF ListInv, PbmOK
<1>2. At(pbm, v) \in Nat
  BY <1>1, ApartUnmapped
<1>3. pbm = None => At(pbm, v) = 0
  <2>1. v \in Nat
    BY BlockMapAssumption DEF VolumeBlocks
  <2> QED
    BY <2>1, NoneCovers DEF At
<1>4. MapOf(open)[v] \in Nat /\ MapOf(flushed)[v] \in Nat /\ MapOf(restoring)[v] \in Nat
  BY <1>1, MapCovered
<1> QED
  BY <1>2, <1>3, <1>4 DEF Current

LEMMA InitOK == ASSUME BlockMapInit PROVE MapInv
<1>1. /\ buffer_size \in BufferSizes
      /\ open = <<>> /\ flushed = <<>> /\ restoring = <<>>
      /\ free_records = MapRecords /\ pbm = None
      /\ request = NoRequest /\ todo = <<>> /\ flushing = FALSE
      /\ open_current_frame = 1 /\ next_free_frame = 2
      /\ open_current_free = RoomInFrame(JournalSize - 1, TRUE)
      /\ open_remapped = FALSE
      /\ dirty = (IF Buffered THEN 2 ELSE 0) /\ buffer_sector_start = 0
      /\ clock = 0
  BY Zenon DEF BlockMapInit
<1>2. open_current_free \in Nat /\ open_current_free <= JournalSize - 2
  <2>1. PICK limit : limit = IF Buffered THEN Smaller(buffer_size - 2, FrameMax) ELSE FrameMax
    OBVIOUS
  <2>2. open_current_free = IF JournalSize - 1 > limit THEN limit ELSE JournalSize - 1 - 1
    BY <1>1, <2>1, Zenon DEF RoomInFrame, FrameLimit
  <2>3. buffer_size \in Nat /\ (Buffered => buffer_size > 2)
    BY <1>1, BlockMapAssumption DEF Buffered
  <2>4. limit \in Nat
    BY <2>1, <2>3, BlockMapAssumption DEF Smaller
  <2> QED
    BY <2>2, <2>4, BlockMapAssumption
<1>3. CountersOK
  <2>1. Buffered => buffer_size \in Nat /\ buffer_size > 2
    BY <1>1, BlockMapAssumption DEF Buffered
  <2>2. dirty \in Nat /\ (Buffered => dirty <= buffer_size)
    BY <1>1, <2>1
  <2>3. /\ clock \in 0 .. MaxWrites /\ open_current_frame \in Nat /\ open_current_free \in Nat
        /\ next_free_frame \in 2 .. JournalSize
        /\ next_free_frame + open_current_free <= JournalSize
        /\ free_records \in Nat /\ buffer_sector_start \in Nat
    <3>1. /\ clock = 0 /\ open_current_frame = 1 /\ next_free_frame = 2
          /\ free_records = MapRecords /\ buffer_sector_start = 0
      BY <1>1, Zenon
    <3> QED
      BY <1>2, <3>1, BlockMapAssumption
  <2>4. open_remapped \in BOOLEAN /\ flushing \in BOOLEAN /\ buffer_size \in BufferSizes
    BY <1>1, Zenon
  <2> QED
    BY <2>2, <2>3, <2>4, Zenon DEF CountersOK
<1>4. RequestOK /\ PbmOK /\ Pending = 0
  BY <1>1 DEF RequestOK, PbmOK, CanQueue, Pending
<1>5. ListInv
  BY <1>1, <1>3, <1>4, EmptyList, EmptySeq, BlockMapAssumption DEF ListInv
<1>6. JournalInv
  <2>1. ASSUME NEW v \in VolumeBlocks
        PROVE  Current(v) = 0 /\ MapOf(flushed)[v] = 0 /\ MapOf(restoring)[v] = 0
    BY <1>1, <1>5, CurrentIs, EmptyList
  <2> QED
    BY <1>1, <2>1 DEF JournalInv
<1> QED
  BY <1>1, <1>5, <1>6 DEF MapInv, FlushInv

\* The journal blocks stay apart when the maps only lose blocks.
LEMMA JournalKept ==
    ASSUME MapInv, ListInv', next_free_frame' = next_free_frame,
           \A v \in VolumeBlocks :
              /\ Current(v)' \in {Current(v), 0}
              /\ MapOf(flushed')[v] \in {MapOf(flushed)[v], 0}
              /\ MapOf(restoring')[v] \in {MapOf(restoring)[v], MapOf(flushed)[v], 0}
    PROVE  JournalInv'
<1>1. next_free_frame \in Nat /\ next_free_frame > 0 /\ next_free_frame' = next_free_frame
  BY DEF MapInv, ListInv, CountersOK
<1>2. JournalInv
  BY DEF MapInv
<1>3. ASSUME NEW v \in VolumeBlocks
      PROVE  /\ Current(v)' < next_free_frame'
             /\ MapOf(flushed')[v] < next_free_frame' /\ MapOf(restoring')[v] < next_free_frame'
             /\ Current(v)' # 0 => \A w \in VolumeBlocks :
                   /\ v # w => Current(v)' # Current(w)'
                   /\ Current(v)' \notin {MapOf(flushed')[w], MapOf(restoring')[w]}
  <2>1. /\ Current(v) < next_free_frame
        /\ MapOf(flushed)[v] < next_free_frame /\ MapOf(restoring)[v] < next_free_frame
        /\ Current(v) # 0 => \A w \in VolumeBlocks :
              /\ v # w => Current(v) # Current(w)
              /\ Current(v) \notin {MapOf(flushed)[w], MapOf(restoring)[w]}
    BY <1>2 DEF JournalInv
  <2>2. ASSUME Current(v)' # 0, NEW w \in VolumeBlocks
        PROVE  /\ v # w => Current(v)' # Current(w)'
               /\ Current(v)' \notin {MapOf(flushed')[w], MapOf(restoring')[w]}
    <3>1. Current(v)' = Current(v) /\ Current(v) # 0
      BY <2>2
    <3> QED
      BY <2>1, <2>2, <3>1
  <2>3. Current(v)' < next_free_frame' /\ MapOf(flushed')[v] < next_free_frame'
        /\ MapOf(restoring')[v] < next_free_frame'
    BY <1>1, <2>1
  <2> QED
    BY <2>2, <2>3
<1> QED
  BY <1>3 DEF JournalInv

LEMMA WriteCallOK ==
    ASSUME MapInv, WriteCall, UNCHANGED buffer_size
    PROVE  MapInv'
<1>1. /\ request = NoRequest /\ ~flushing /\ clock < MaxWrites /\ clock' = clock + 1
      /\ \E first \in VolumeBlocks : \E n \in 1 .. Width - first + 1 :
            request' = [first |-> first, at |-> first, left |-> n]
      /\ UNCHANGED <<listVars, todo, flushing, frameVars, bufferVars>>
  BY Zenon DEF WriteCall, Idle
<1>2. ListInv
  BY DEF MapInv
<1>3. pbm = None
  BY <1>1, <1>2, ListParts
<1>4. RequestOK' /\ request' # NoRequest
  <2>0. PICK first \in VolumeBlocks :
           \E n \in 1 .. Width - first + 1 :
              request' = [first |-> first, at |-> first, left |-> n]
    BY <1>1
  <2>1. PICK n \in 1 .. Width - first + 1 :
           request' = [first |-> first, at |-> first, left |-> n]
    BY <2>0
  <2>2. n \in Nat \ {0} /\ first + n - 1 <= Width /\ first \in Nat /\ first >= 1
    BY <2>1, BlockMapAssumption DEF VolumeBlocks
  <2>3. request' \in [first : VolumeBlocks, at : VolumeBlocks, left : Nat \ {0}]
        /\ request'.first <= request'.at /\ request'.at + request'.left - 1 <= Width
    BY <2>1, <2>2
  <2>4. request'.left # 0
    BY <2>1, <2>2
  <2> QED
    BY <2>3, <2>4 DEF RequestOK, NoRequest
<1>5. PbmOK'
  BY <1>1, <1>3 DEF PbmOK, CanQueue, listVars
<1>6. CountersOK'
  <2>1. CountersOK
    BY <1>2 DEF ListInv
  <2> QED
    BY <1>1, <2>1, BlockMapAssumption DEF CountersOK, frameVars, bufferVars, listVars, Buffered
<1>7. ListInv'
  BY <1>1, <1>2, <1>4, <1>5, <1>6 DEF ListInv, listVars, Pending
<1>8. JournalInv'
  BY <1>1, <1>3 DEF MapInv, JournalInv, Current, listVars, frameVars
<1> QED
  BY <1>1, <1>7, <1>8 DEF MapInv, FlushInv

LEMMA WriteFullOK ==
    ASSUME MapInv, WriteFull, UNCHANGED buffer_size
    PROVE  MapInv' /\ open' = open
<1>1. /\ request.left > 0 /\ GiveUp(open)
      /\ open_current_frame' = 0 /\ open_remapped' = FALSE
      /\ dirty' = 0 \/ dirty' = dirty
      /\ UNCHANGED <<flushed, restoring, free_records, todo, flushing, open_current_free,
                     next_free_frame, buffer_sector_start, clock>>
  <2>1. /\ request.left > 0 /\ GiveUp(open)
        /\ open_current_frame' = 0 /\ open_remapped' = FALSE
        /\ IF open_current_frame # 0 THEN journal' = Written /\ dirty' = 0
           ELSE UNCHANGED <<journal, dirty>>
        /\ UNCHANGED <<flushed, restoring, free_records, todo, flushing, open_current_free,
                       next_free_frame, buffer_sector_start, clock>>
    BY Zenon DEF WriteFull
  <2> QED
    BY <2>1
<1>2. ListInv
  BY DEF MapInv
<1>3. /\ RequestOK' /\ PbmOK' /\ ListOK(open') /\ Pending' = 0 /\ open' = open
      /\ \A v \in VolumeBlocks : Current(v)' = MapOf(open)[v]
  BY <1>1, <1>2, GiveUpOK, ListParts DEF GiveUp
<1>4. CountersOK'
  <2>1. CountersOK
    BY <1>2, ListParts
  <2>2. open_remapped' \in BOOLEAN
    BY <1>1, Zenon
  <2>3. dirty' \in Nat /\ (Buffered => dirty' <= buffer_size)
    BY <1>1, <2>1, BlockMapAssumption DEF CountersOK
  <2>4. Buffered' => Buffered
    BY DEF Buffered
  <2> QED
    BY <1>1, <2>1, <2>2, <2>3, <2>4 DEF CountersOK
<1>5. ~flushing'
  BY <1>1, <1>2, ListParts
<1>6. Len(open') + Len(flushed') + Len(restoring') + Pending' + free_records' <= MapRecords
  <2>1. /\ Len(open) \in Nat /\ Len(flushed) \in Nat /\ Len(restoring) \in Nat
        /\ Pending \in Nat /\ free_records \in Nat
        /\ Len(open) + Len(flushed) + Len(restoring) + Pending + free_records <= MapRecords
    BY <1>2, ListParts
  <2> QED
    BY <1>1, <1>3, <2>1, BlockMapAssumption
<1>7. ListInv'
  BY <1>1, <1>2, <1>3, <1>4, <1>5, <1>6 DEF ListInv
<1>8. ASSUME NEW v \in VolumeBlocks PROVE Current(v)' \in {Current(v), 0}
  BY <1>2, <1>3, CurrentIs
<1>9. JournalInv'
  BY <1>1, <1>7, <1>8, JournalKept
<1> QED
  BY <1>3, <1>5, <1>7, <1>9 DEF MapInv, FlushInv

LEMMA WriteMappedKeeps ==
    ASSUME MapInv, WriteMapped, UNCHANGED buffer_size
    PROVE  MapInv'
<1>1. /\ request.left > 0 /\ UNCHANGED <<flushed, restoring, flushing, next_free_frame>>
  BY Zenon DEF WriteMapped, frameVars
<1>2. ListInv
  BY DEF MapInv
<1>3. ListInv' /\ \A v \in VolumeBlocks : Current(v)' = Current(v)
  BY <1>2, WriteMappedOK
<1>4. ~flushing'
  BY <1>1, <1>2, ListParts
<1>5. JournalInv'
  BY <1>1, <1>3, JournalKept
<1> QED
  BY <1>3, <1>4, <1>5 DEF MapInv, FlushInv

LEMMA WriteUnmappedKeeps ==
    ASSUME MapInv, WriteUnmapped, UNCHANGED buffer_size
    PROVE  MapInv'
<1>1. /\ request.left > 0 /\ ~Hit.mapped /\ ~AtEnd /\ next_free_frame' = FirstBlock + StepLength
      /\ UNCHANGED <<flushed, restoring, flushing>>
  BY UnmappedIs, Zenon
<1>2. ListInv /\ JournalInv
  BY DEF MapInv
<1>3. ListInv' /\ (StepDone(Fails, 0) \/ StepDone(Fails, 1))
  BY <1>1, <1>2, WriteUnmappedOK
<1>4. ~flushing'
  BY <1>1, <1>2, ListParts
<1>5. PICK n, j, at : n = StepLength /\ j = FirstBlock /\ at = request.at
  OBVIOUS
<1>6. /\ n \in Nat /\ n >= 1 /\ j \in Nat /\ j >= 2 /\ j >= next_free_frame /\ at \in Nat
      /\ next_free_frame \in Nat /\ next_free_frame' = j + n
  <2>1. StepLength \in Nat /\ StepLength >= 1 /\ FirstBlock \in Nat /\ FirstBlock >= 2
        /\ FirstBlock >= next_free_frame
    BY <1>1, <1>2, StepIs
  <2>2. request.at \in Nat /\ next_free_frame \in Nat
    BY <1>1, <1>2, ListParts, RequestIs DEF CountersOK
  <2> QED
    BY <1>1, <1>5, <2>1, <2>2
<1>7. ASSUME NEW v \in VolumeBlocks
      PROVE  \/ Current(v)' = Current(v)
             \/ /\ at <= v /\ v < at + n /\ v \in Nat
                /\ Current(v)' = j + (v - at)
                /\ Current(v)' >= j /\ Current(v)' < j + n /\ Current(v)' \in Nat
  <2>1. Current(v)' = IF ~Fails /\ InStep(v) THEN FirstBlock + (v - request.at) ELSE Current(v)
    BY <1>3, Zenon DEF StepDone
  <2>2. v \in Nat
    BY BlockMapAssumption DEF VolumeBlocks
  <2>3. InStep(v) <=> at <= v /\ v < at + n
    BY <1>5 DEF InStep
  <2> QED
    BY <1>5, <1>6, <2>1, <2>2, <2>3
<1>8. ASSUME NEW v \in VolumeBlocks
      PROVE  /\ Current(v)' < next_free_frame'
             /\ MapOf(flushed')[v] < next_free_frame' /\ MapOf(restoring')[v] < next_free_frame'
             /\ Current(v)' # 0 => \A w \in VolumeBlocks :
                   /\ v # w => Current(v)' # Current(w)'
                   /\ Current(v)' \notin {MapOf(flushed')[w], MapOf(restoring')[w]}
  <2>1. \A w \in VolumeBlocks :
           /\ Current(w) \in Nat /\ Current(w) < next_free_frame
           /\ MapOf(flushed)[w] \in Nat /\ MapOf(flushed)[w] < next_free_frame
           /\ MapOf(restoring)[w] \in Nat /\ MapOf(restoring)[w] < next_free_frame
    BY <1>2, CurrentIs DEF JournalInv
  <2>2. Current(v) # 0 => \A w \in VolumeBlocks :
              /\ v # w => Current(v) # Current(w)
              /\ Current(v) \notin {MapOf(flushed)[w], MapOf(restoring)[w]}
    BY <1>2 DEF JournalInv
  <2>3. ASSUME Current(v)' # 0, NEW w \in VolumeBlocks
        PROVE  /\ v # w => Current(v)' # Current(w)'
               /\ Current(v)' \notin {MapOf(flushed)[w], MapOf(restoring)[w]}
    <3>1. PICK a, b, x, y : a = Current(v) /\ b = Current(w) /\ x = Current(v)' /\ y = Current(w)'
      OBVIOUS
    <3>2. PICK f, r : f = MapOf(flushed)[w] /\ r = MapOf(restoring)[w]
      OBVIOUS
    <3>3. /\ a \in Nat /\ a < next_free_frame /\ b \in Nat /\ b < next_free_frame
          /\ f \in Nat /\ f < next_free_frame /\ r \in Nat /\ r < next_free_frame
          /\ a # 0 => (v # w => a # b) /\ a # f /\ a # r
      BY <2>1, <2>2, <3>1, <3>2
    <3>4. x # 0 /\ (x = a \/ (at <= v /\ v < at + n /\ v \in Nat /\ x = j + (v - at) /\ x >= j))
      BY <1>7, <2>3, <3>1
    <3>5. y = b \/ (at <= w /\ w < at + n /\ w \in Nat /\ y = j + (w - at) /\ y >= j)
      BY <1>7, <3>1
    <3>6. (v # w => x # y) /\ x # f /\ x # r
      BY <1>6, <3>3, <3>4, <3>5
    <3> QED
      BY <3>1, <3>2, <3>6
  <2>4. Current(v)' < next_free_frame'
    BY <1>6, <1>7, <2>1
  <2>5. MapOf(flushed)[v] < next_free_frame' /\ MapOf(restoring)[v] < next_free_frame'
    BY <1>6, <2>1
  <2> QED
    BY <1>1, <2>3, <2>4, <2>5
<1>9. JournalInv'
  BY <1>8 DEF JournalInv
<1> QED
  BY <1>3, <1>4, <1>9 DEF MapInv, FlushInv

LEMMA FlushCallOK ==
    ASSUME MapInv, FlushCall, UNCHANGED buffer_size
    PROVE  MapInv'
<1>1. /\ request = NoRequest /\ ~flushing /\ flushing' = TRUE /\ todo' = open /\ dirty' = 0
      /\ UNCHANGED <<listVars, request, frameVars, buffer_sector_start, clock>>
  BY Zenon DEF FlushCall, Idle
<1>2. ListInv
  BY DEF MapInv
<1>3. CountersOK'
  <2>1. CountersOK
    BY <1>2 DEF ListInv
  <2>2. flushing' \in BOOLEAN
    BY <1>1, Zenon
  <2>3. dirty' \in Nat /\ (Buffered => dirty' <= buffer_size)
    BY <1>1, <2>1, BlockMapAssumption DEF CountersOK
  <2>4. Buffered' => Buffered
    BY DEF Buffered
  <2> QED
    BY <1>1, <2>1, <2>2, <2>3, <2>4 DEF CountersOK, frameVars, listVars
<1>4. RequestOK' /\ PbmOK'
  BY <1>1, <1>2 DEF ListInv, RequestOK, PbmOK, listVars
<1>5. ListInv'
  BY <1>1, <1>2, <1>3, <1>4 DEF ListInv, listVars, Pending, ListOK
<1>6. FlushInv'
  <2>1. ASSUME NEW v \in VolumeBlocks
        PROVE  (\E i \in 1 .. Len(open) : Covers(open[i], v)) <=> MapOf(open)[v] # 0
    BY <1>2, ListParts, MapCovered
  <2> QED
    BY <1>1, <2>1 DEF FlushInv, listVars
<1>7. JournalInv'
  BY <1>1 DEF MapInv, JournalInv, Current, listVars, frameVars
<1> QED
  BY <1>5, <1>6, <1>7 DEF MapInv

\* What an old extent keeps of its blocks when another takes some of them.
LEMMA KeepersAre ==
    ASSUME NEW old \in Extents, NEW e \in Extents,
           e.vol <= LastBlock(old), old.vol <= LastBlock(e),
           NEW x, x = Keepers(old, e)
    PROVE  /\ x # None => /\ x \in Extents /\ old.vol <= x.vol /\ LastBlock(x) <= LastBlock(old)
                          /\ x.vol <= LastBlock(old)
                          /\ x.jnl = old.jnl + (x.vol - old.vol)
           /\ \A v \in VolumeBlocks : Covers(old, v) => Covers(x, v) \/ Covers(e, v)
           /\ x = None \/ x \in Extents
<1>1. /\ old.vol \in Nat /\ old.n \in Nat /\ old.jnl \in Nat /\ old.vol >= 1 /\ old.jnl >= 2
      /\ LastBlock(old) = old.vol + old.n - 1 /\ LastBlock(old) <= Width
      /\ LastBlock(old) \in Nat /\ old.vol <= LastBlock(old)
      /\ e.vol \in Nat /\ e.n \in Nat /\ LastBlock(e) \in Nat /\ e.vol <= LastBlock(e)
      /\ e.vol >= 1
  BY ExtentIs
<1>2. PICK first, last :
         /\ first = (IF e.vol <= old.vol THEN LastBlock(e) + 1 ELSE old.vol)
         /\ last = (IF LastBlock(e) >= LastBlock(old) THEN e.vol - 1 ELSE LastBlock(old))
  OBVIOUS
<1>3. x = IF last < first THEN None
          ELSE Extent(first, old.jnl + (first - old.vol), last - first + 1)
  BY <1>2, Zenon DEF Keepers
<1>4. /\ first \in Nat /\ old.vol <= first /\ last \in Nat /\ last <= LastBlock(old)
  BY <1>1, <1>2
<1>5. ASSUME NEW v \in VolumeBlocks, Covers(old, v), ~Covers(e, v)
      PROVE  first <= v /\ v <= last /\ v \in Nat
  <2>1. v \in Nat
    BY BlockMapAssumption DEF VolumeBlocks
  <2> QED
    BY <1>1, <1>2, <1>5, <2>1 DEF Covers
<1>6. CASE last < first
  <2>1. \A v \in VolumeBlocks : Covers(old, v) => Covers(e, v)
    BY <1>4, <1>5, <1>6
  <2> QED
    BY <1>3, <1>6, <2>1
<1>7. CASE ~(last < first)
  <2>1. PICK j, n : j = old.jnl + (first - old.vol) /\ n = last - first + 1
    OBVIOUS
  <2>2. j \in Nat /\ j >= 2 /\ n \in Nat /\ n >= 1 /\ first + n - 1 = last /\ first >= 1 /\ last <= Width
    BY <1>1, <1>4, <1>7, <2>1, BlockMapAssumption
  <2>3. x = Extent(first, j, n)
    BY <1>3, <1>7, <2>1
  <2>4. /\ x \in Extents /\ LastBlock(x) = last /\ x.vol = first /\ x.jnl = j
    <3>1. first \in Nat /\ first + n - 1 <= Width
      BY <1>4, <2>2, BlockMapAssumption
    <3>2. /\ Extent(first, j, n) \in Extents /\ LastBlock(Extent(first, j, n)) = first + n - 1
          /\ Extent(first, j, n).vol = first /\ Extent(first, j, n).jnl = j
      BY <2>2, <3>1, MakeExtent
    <3> QED
      BY <2>2, <2>3, <3>2
  <2>5. \A v \in VolumeBlocks : Covers(old, v) => Covers(x, v) \/ Covers(e, v)
    BY <1>5, <2>4 DEF Covers
  <2>6. x.vol <= LastBlock(old)
    BY <1>1, <1>4, <1>7, <2>4
  <2> QED
    BY <1>4, <2>1, <2>4, <2>5, <2>6
<1> QED
  BY <1>6, <1>7

\* One round of making room: the flushed map loses blocks that the open map has.
LEMMA MakeRoomOK ==
    ASSUME MapInv, MakeRoom, UNCHANGED buffer_size
    PROVE  /\ MapInv' /\ flushing /\ flushing'
           /\ UNCHANGED <<open, restoring>>
           /\ \A v \in VolumeBlocks :
                 \/ MapOf(flushed')[v] = MapOf(flushed)[v]
                 \/ MapOf(flushed')[v] = 0 /\ MapOf(open)[v] # 0
<1> DEFINE at == Overlaps(flushed, Head(todo))
           i == Least(at)
           left == Keepers(flushed[i], Head(todo))
<1>1. /\ flushing /\ todo # <<>>
      /\ IF at = {} THEN todo' = Tail(todo) /\ UNCHANGED <<flushed, free_records>>
         ELSE /\ IF left = None
                 THEN flushed' = RemoveAt(flushed, i) /\ free_records' = free_records + 1
                 ELSE flushed' = [flushed EXCEPT ![i] = left] /\ UNCHANGED free_records
              /\ UNCHANGED todo
      /\ UNCHANGED <<open, restoring, pbm, request, flushing, frameVars, regionVars, bufferVars,
                     dataVars, clock>>
  BY Zenon DEF MakeRoom
<1>2. ListInv /\ FlushInv
  BY DEF MapInv
<1>3. /\ CountersOK /\ RequestOK /\ PbmOK /\ ListOK(open) /\ ListOK(flushed) /\ ListOK(restoring)
      /\ Len(open) \in Nat /\ Len(flushed) \in Nat /\ Len(restoring) \in Nat
      /\ Pending \in Nat /\ free_records \in Nat
      /\ Len(open) + Len(flushed) + Len(restoring) + Pending + free_records <= MapRecords
      /\ request = NoRequest /\ todo \in Seq(Extents) /\ pbm = None
  BY <1>1, <1>2, ListParts
<1>4. PICK e : e = Head(todo)
  OBVIOUS
<1>5. /\ Len(todo) \in Nat /\ Len(todo) >= 1 /\ e = todo[1] /\ e \in Extents
      /\ Tail(todo) \in Seq(Extents) /\ Len(Tail(todo)) = Len(todo) - 1
      /\ \A k \in 1 .. Len(Tail(todo)) : Tail(todo)[k] = todo[k + 1]
  <2>1. Len(todo) \in Nat /\ Len(todo) >= 1 /\ Head(todo) = todo[1]
    BY <1>1, <1>3, LenProperties, EmptySeq
  <2>2. todo[1] \in Extents
    BY <1>3, <2>1, ElementOfSeq
  <2> QED
    BY <1>1, <1>3, <1>4, <2>1, <2>2, HeadTailProperties
<1>6. \A v \in VolumeBlocks :
         /\ (\E k \in 1 .. Len(todo) : Covers(todo[k], v)) => MapOf(open)[v] # 0
         /\ MapOf(open)[v] # 0 /\ MapOf(flushed)[v] # 0
               => \E k \in 1 .. Len(todo) : Covers(todo[k], v)
  BY <1>1, <1>2 DEF FlushInv
<1>7. \A v \in VolumeBlocks : Covers(e, v) => MapOf(open)[v] # 0
  <2>1. 1 \in 1 .. Len(todo)
    BY <1>5
  <2> QED
    BY <1>5, <1>6, <2>1
<1>8. at = {k \in 1 .. Len(flushed) : e.vol <= LastBlock(flushed[k])
                                        /\ flushed[k].vol <= LastBlock(e)}
  BY <1>4 DEF Overlaps
<1> HIDE DEF at
<1>9. CASE at = {}
  <2>1. todo' = Tail(todo) /\ UNCHANGED <<flushed, free_records>>
    BY <1>1, <1>9
  <2>2. FlushInv'
    <3>1. ASSUME NEW v \in VolumeBlocks, NEW k \in 1 .. Len(Tail(todo)), Covers(Tail(todo)[k], v)
          PROVE  MapOf(open)[v] # 0
      <4>1. k + 1 \in 1 .. Len(todo) /\ Covers(todo[k + 1], v)
        BY <1>5, <3>1
      <4> QED
        BY <1>6, <4>1
    <3>2. ASSUME NEW v \in VolumeBlocks, MapOf(open)[v] # 0, MapOf(flushed)[v] # 0
          PROVE  \E k \in 1 .. Len(Tail(todo)) : Covers(Tail(todo)[k], v)
      <4>1. PICK k \in 1 .. Len(todo) : Covers(todo[k], v)
        BY <1>6, <3>2
      <4>2. PICK m \in 1 .. Len(flushed) : Covers(flushed[m], v)
        BY <1>3, <3>2, MapCovered
      <4>3. k # 1
        <5>1. SUFFICES ASSUME k = 1 PROVE FALSE
          OBVIOUS
        <5>2. Covers(e, v)
          BY <1>5, <4>1, <5>1
        <5>3. v \in Nat /\ flushed[m] \in Extents
          BY <1>3, ListIs, BlockMapAssumption DEF VolumeBlocks
        <5>4. e.vol <= LastBlock(flushed[m]) /\ flushed[m].vol <= LastBlock(e)
          <6>1. /\ flushed[m].vol \in Nat /\ LastBlock(flushed[m]) \in Nat
                /\ e.vol \in Nat /\ LastBlock(e) \in Nat
            BY <1>5, <5>3, ExtentIs
          <6> QED
            BY <4>2, <5>2, <5>3, <6>1 DEF Covers
        <5> QED
          BY <1>8, <1>9, <5>4
      <4>4. k - 1 \in 1 .. Len(Tail(todo)) /\ Tail(todo)[k - 1] = todo[k]
        <5>1. k - 1 \in 1 .. Len(Tail(todo)) /\ k - 1 + 1 = k
          BY <1>5, <4>3
        <5> QED
          BY <1>5, <5>1
      <4> QED
        BY <4>1, <4>4
    <3> QED
      BY <1>1, <2>1, <3>1, <3>2 DEF FlushInv
  <2>3. ListInv'
    <3>1. CountersOK' /\ RequestOK' /\ PbmOK' /\ Pending' = Pending
      BY <1>1, <1>3, <2>1 DEF CountersOK, RequestOK, PbmOK, Pending, frameVars, bufferVars, Buffered
    <3> QED
      BY <1>1, <1>3, <1>5, <2>1, <3>1 DEF ListInv
  <2>4. \A v \in VolumeBlocks : Current(v)' = Current(v)
    BY <1>1 DEF Current
  <2>5. JournalInv'
    BY <1>1, <2>1, <2>3, <2>4, JournalKept DEF frameVars
  <2> QED
    BY <1>1, <2>1, <2>2, <2>3, <2>5 DEF MapInv
<1>10. CASE at # {}
  <2>1. PICK m : m = i
    OBVIOUS
  <2>2. m \in at
    <3>1. at \in SUBSET Nat
      BY <1>3, <1>8
    <3> QED
      BY <1>10, <2>1, <3>1, LeastIs
  <2>3. /\ m \in 1 .. Len(flushed) /\ flushed[m] \in Extents
        /\ e.vol <= LastBlock(flushed[m]) /\ flushed[m].vol <= LastBlock(e)
    BY <1>3, <1>8, <2>2, ListIs
  <2>4. PICK x : x = Keepers(flushed[m], e)
    OBVIOUS
  <2>5. /\ x # None => /\ x \in Extents /\ flushed[m].vol <= x.vol
                       /\ LastBlock(x) <= LastBlock(flushed[m]) /\ x.vol <= LastBlock(flushed[m])
                       /\ x.jnl = flushed[m].jnl + (x.vol - flushed[m].vol)
        /\ \A v \in VolumeBlocks : Covers(flushed[m], v) => Covers(x, v) \/ Covers(e, v)
    BY <1>5, <2>3, <2>4, KeepersAre
  <2>6. /\ IF x = None
           THEN flushed' = RemoveAt(flushed, m) /\ free_records' = free_records + 1
           ELSE flushed' = [flushed EXCEPT ![m] = x] /\ UNCHANGED free_records
        /\ UNCHANGED todo
    BY <1>1, <1>4, <1>10, <2>1, <2>4, Zenon
  <2>7. /\ ListOK(flushed') /\ Len(flushed') \in Nat /\ free_records' \in Nat
        /\ Len(flushed') + free_records' = Len(flushed) + free_records
        /\ \A v \in VolumeBlocks : MapOf(flushed')[v] =
              IF Covers(flushed[m], v) /\ ~Covers(x, v) THEN 0 ELSE MapOf(flushed)[v]
    <3>1. CASE x = None
      <4>1. flushed' = RemoveAt(flushed, m) /\ free_records' = free_records + 1
        BY <2>6, <3>1
      <4>2. /\ ListOK(RemoveAt(flushed, m)) /\ Len(RemoveAt(flushed, m)) = Len(flushed) - 1
            /\ \A v \in VolumeBlocks : MapOf(RemoveAt(flushed, m))[v] =
                  IF Covers(flushed[m], v) THEN 0 ELSE MapOf(flushed)[v]
        BY <1>3, <2>3, RemoveOK
      <4>3. \A v \in VolumeBlocks : ~Covers(x, v)
        <5>1. \A v \in VolumeBlocks : v \in Nat
          BY BlockMapAssumption DEF VolumeBlocks
        <5> QED
          BY <3>1, <5>1, NoneCovers
      <4>4. Len(flushed) - 1 \in Nat
        BY <1>3, <2>3
      <4> QED
        BY <1>3, <4>1, <4>2, <4>3, <4>4
    <3>2. CASE x # None
      <4>1. PICK s : s = [flushed EXCEPT ![m] = x]
        OBVIOUS
      <4>2. flushed' = s /\ free_records' = free_records
        BY <2>6, <3>2, <4>1
      <4>3. x \in Extents /\ flushed[m].vol <= x.vol /\ x.vol <= LastBlock(flushed[m])
            /\ LastBlock(x) <= LastBlock(flushed[m]) /\ x.jnl = flushed[m].jnl + (x.vol - flushed[m].vol)
        BY <2>5, <3>2
      <4>4. flushed \in Seq(Extents)
        BY <1>3 DEF ListOK
      <4>5. /\ s \in Seq(Extents) /\ Len(s) = Len(flushed)
            /\ \A k \in 1 .. Len(flushed) : s[k] = IF k = m THEN x ELSE flushed[k]
        BY <2>3, <4>1, <4>3, <4>4, ExceptIs
      <4>6. ASSUME NEW w \in VolumeBlocks, Covers(x, w) PROVE Covers(flushed[m], w)
        <5>1. /\ w \in Nat /\ x.vol \in Nat /\ LastBlock(x) \in Nat /\ flushed[m].vol \in Nat
              /\ LastBlock(flushed[m]) \in Nat
          BY <2>3, <4>3, ExtentIs, BlockMapAssumption DEF VolumeBlocks
        <5> QED
          BY <4>3, <4>6, <5>1 DEF Covers
      <4>7. ASSUME NEW k \in 1 .. Len(flushed), k # m PROVE Apart(flushed[k], x)
        <5>1. ASSUME NEW w \in VolumeBlocks, Covers(flushed[k], w), Covers(x, w) PROVE FALSE
          <6>1. w \in Nat /\ Covers(flushed[m], w)
            BY <4>6, <5>1, BlockMapAssumption DEF VolumeBlocks
          <6> QED
            BY <1>3, <2>3, <4>7, <5>1, <6>1, OneCovers
        <5>2. flushed[k] \in Extents
          BY <1>3, ListIs
        <5> QED
          BY <4>3, <5>1, <5>2, ApartIs
      <4>8. /\ ListOK(s)
            /\ \A v \in VolumeBlocks : MapOf(s)[v] =
                  IF Covers(x, v) THEN x.jnl + (v - x.vol)
                  ELSE IF Covers(flushed[m], v) THEN 0 ELSE MapOf(flushed)[v]
        BY <1>3, <2>3, <4>3, <4>5, <4>7, ReplaceOK, ZenonT(30)
      <4>9. ASSUME NEW v \in VolumeBlocks, Covers(x, v)
            PROVE  x.jnl + (v - x.vol) = MapOf(flushed)[v]
        <5>1. MapOf(flushed)[v] = flushed[m].jnl + (v - flushed[m].vol)
          BY <1>3, <2>3, <4>6, <4>9, MapAt
        <5>2. /\ v \in Nat /\ x.vol \in Nat /\ flushed[m].vol \in Nat /\ flushed[m].jnl \in Nat
          BY <2>3, <4>3, ExtentIs, BlockMapAssumption DEF VolumeBlocks
        <5> QED
          BY <4>3, <5>1, <5>2
      <4>10. \A v \in VolumeBlocks : MapOf(s)[v] =
                IF Covers(flushed[m], v) /\ ~Covers(x, v) THEN 0 ELSE MapOf(flushed)[v]
        BY <4>8, <4>9
      <4> QED
        BY <1>3, <4>2, <4>5, <4>8, <4>10
    <3> QED
      BY <3>1, <3>2
  <2>8. ASSUME NEW v \in VolumeBlocks
        PROVE  \/ MapOf(flushed')[v] = MapOf(flushed)[v]
               \/ MapOf(flushed')[v] = 0 /\ MapOf(open)[v] # 0
    <3>1. Covers(flushed[m], v) /\ ~Covers(x, v) => MapOf(open)[v] # 0
      BY <1>7, <2>5
    <3> QED
      BY <2>7, <3>1
  <2>9. ListInv'
    <3>1. CountersOK' /\ RequestOK' /\ PbmOK' /\ Pending' = Pending
      BY <1>1, <1>3, <2>7 DEF CountersOK, RequestOK, PbmOK, Pending, frameVars, bufferVars, Buffered
    <3>2. Len(open') + Len(flushed') + Len(restoring') + Pending' + free_records' <= MapRecords
      <4>1. open' = open /\ restoring' = restoring
        BY <1>1
      <4> QED
        BY <1>3, <2>7, <3>1, <4>1, BlockMapAssumption
    <3> QED
      BY <1>1, <1>3, <2>6, <2>7, <3>1, <3>2 DEF ListInv
  <2>10. FlushInv'
    BY <1>1, <1>6, <2>6, <2>8 DEF FlushInv
  <2>11. \A v \in VolumeBlocks : Current(v)' = Current(v)
    BY <1>1 DEF Current
  <2>12. JournalInv'
    BY <1>1, <2>8, <2>9, <2>11, JournalKept DEF frameVars
  <2> QED
    BY <1>1, <2>8, <2>9, <2>10, <2>12 DEF MapInv
<1> QED
  BY <1>9, <1>10

LEMMA MoveExtentOK ==
    ASSUME MapInv, MoveExtent, UNCHANGED buffer_size
    PROVE  /\ MapInv' /\ flushing /\ flushing'
           /\ UNCHANGED restoring
           /\ \A v \in VolumeBlocks :
                 (IF MapOf(open')[v] # 0 THEN MapOf(open')[v] ELSE MapOf(flushed')[v])
                    = (IF MapOf(open)[v] # 0 THEN MapOf(open)[v] ELSE MapOf(flushed)[v])
<1>1. /\ flushing /\ todo = <<>> /\ open # <<>>
      /\ flushed' = Insert(flushed, Head(open)) /\ open' = Tail(open)
      /\ UNCHANGED <<restoring, free_records, pbm, request, todo, flushing, frameVars, regionVars,
                     bufferVars, dataVars, clock>>
  BY Zenon DEF MoveExtent
<1>2. ListInv /\ FlushInv /\ JournalInv
  BY DEF MapInv
<1>3. /\ CountersOK /\ RequestOK /\ PbmOK /\ ListOK(open) /\ ListOK(flushed) /\ ListOK(restoring)
      /\ Len(open) \in Nat /\ Len(flushed) \in Nat /\ Len(restoring) \in Nat
      /\ Pending \in Nat /\ free_records \in Nat
      /\ Len(open) + Len(flushed) + Len(restoring) + Pending + free_records <= MapRecords
      /\ request = NoRequest /\ pbm = None
  BY <1>1, <1>2, ListParts
<1>4. \A v \in VolumeBlocks : MapOf(open)[v] # 0 => MapOf(flushed)[v] = 0
  <2>1. \A v \in VolumeBlocks : MapOf(open)[v] # 0 /\ MapOf(flushed)[v] # 0
               => \E k \in 1 .. Len(todo) : Covers(todo[k], v)
    BY <1>1, <1>2 DEF FlushInv
  <2>2. Len(todo) = 0
    BY <1>1, EmptySeq
  <2> QED
    BY <2>1, <2>2
<1>5. PICK e, s, t : e = open[1] /\ s = Insert(flushed, e) /\ t = Tail(open)
  OBVIOUS
<1>6. /\ ListOK(t) /\ Len(t) = Len(open) - 1 /\ Len(open) > 0 /\ Head(open) = e
      /\ \A v \in VolumeBlocks : MapOf(t)[v] = IF Covers(e, v) THEN 0 ELSE MapOf(open)[v]
  BY <1>1, <1>3, <1>5, TailOK
<1>7. 1 \in 1 .. Len(open) /\ e \in Extents
  BY <1>3, <1>5, <1>6, ListIs
<1>8. \A v \in VolumeBlocks : Covers(e, v) =>
         /\ MapOf(open)[v] = e.jnl + (v - e.vol) /\ MapOf(open)[v] # 0 /\ MapOf(flushed)[v] = 0
  BY <1>3, <1>4, <1>5, <1>7, MapAt, MapCovered
<1>9. /\ ListOK(s) /\ Len(s) = Len(flushed) + 1
      /\ \A v \in VolumeBlocks : MapOf(s)[v] =
            IF Covers(e, v) THEN e.jnl + (v - e.vol) ELSE MapOf(flushed)[v]
  <2>1. \A k \in 1 .. Len(flushed) : Apart(flushed[k], e)
    BY <1>3, <1>7, <1>8, UnmappedApart
  <2> QED
    BY <1>3, <1>5, <1>7, <2>1, InsertOK
<1>10. flushed' = s /\ open' = t
  BY <1>1, <1>5, <1>6
<1>11. ASSUME NEW v \in VolumeBlocks
       PROVE  /\ MapOf(open')[v] = IF Covers(e, v) THEN 0 ELSE MapOf(open)[v]
              /\ MapOf(flushed')[v] = IF Covers(e, v) THEN MapOf(open)[v] ELSE MapOf(flushed)[v]
              /\ Covers(e, v) => MapOf(open)[v] # 0 /\ MapOf(flushed)[v] = 0
  BY <1>6, <1>8, <1>9, <1>10
<1>12. ListInv'
  <2>1. CountersOK' /\ RequestOK' /\ PbmOK' /\ Pending' = Pending
    BY <1>1, <1>3 DEF CountersOK, RequestOK, PbmOK, CanQueue, Pending, frameVars, bufferVars, Buffered
  <2>2. Len(open') + Len(flushed') + Len(restoring') + Pending' + free_records' <= MapRecords
    <3>1. restoring' = restoring /\ free_records' = free_records
      BY <1>1
    <3> QED
      BY <1>3, <1>6, <1>9, <1>10, <2>1, <3>1, BlockMapAssumption
  <2>3. todo' = <<>> /\ todo' \in Seq(Extents)
    BY <1>1, EmptySeq
  <2> QED
    BY <1>1, <1>3, <1>6, <1>9, <1>10, <2>1, <2>2, <2>3 DEF ListInv
<1>13. FlushInv'
  <2>1. ASSUME NEW v \in VolumeBlocks
        PROVE  ~(MapOf(open')[v] # 0 /\ MapOf(flushed')[v] # 0)
    BY <1>4, <1>11
  <2>2. Len(todo') = 0
    BY <1>1, EmptySeq
  <2> QED
    BY <2>1, <2>2 DEF FlushInv
<1>14. ASSUME NEW v \in VolumeBlocks
       PROVE  Current(v) = MapOf(open)[v] /\ Current(v)' = MapOf(open')[v]
  <2>1. Current(v) = MapOf(open)[v]
    BY <1>2, <1>3, CurrentIs
  <2>2. At(pbm', v) = 0
    <3>1. v \in Nat
      BY BlockMapAssumption DEF VolumeBlocks
    <3> QED
      BY <1>1, <1>3, <3>1, NoneCovers DEF At
  <2> QED
    BY <2>1, <2>2 DEF Current
<1>15. JournalInv'
  <2>1. next_free_frame' = next_free_frame /\ next_free_frame \in Nat /\ next_free_frame > 0
    BY <1>1, <1>3 DEF frameVars, CountersOK
  <2>2. ASSUME NEW v \in VolumeBlocks
        PROVE  /\ MapOf(open)[v] < next_free_frame
               /\ MapOf(flushed)[v] < next_free_frame /\ MapOf(restoring)[v] < next_free_frame
               /\ MapOf(open)[v] # 0 => \A w \in VolumeBlocks :
                     /\ v # w => MapOf(open)[v] # MapOf(open)[w]
                     /\ MapOf(open)[v] \notin {MapOf(flushed)[w], MapOf(restoring)[w]}
    BY <1>2, <1>14 DEF JournalInv
  <2>3. ASSUME NEW v \in VolumeBlocks
        PROVE  /\ MapOf(open')[v] < next_free_frame'
               /\ MapOf(flushed')[v] < next_free_frame' /\ MapOf(restoring')[v] < next_free_frame'
               /\ MapOf(open')[v] # 0 => \A w \in VolumeBlocks :
                     /\ v # w => MapOf(open')[v] # MapOf(open')[w]
                     /\ MapOf(open')[v] \notin {MapOf(flushed')[w], MapOf(restoring')[w]}
    <3>1. restoring' = restoring
      BY <1>1
    <3>2. /\ MapOf(open')[v] < next_free_frame'
          /\ MapOf(flushed')[v] < next_free_frame' /\ MapOf(restoring')[v] < next_free_frame'
      BY <1>11, <2>1, <2>2, <3>1
    <3>3. ASSUME MapOf(open')[v] # 0, NEW w \in VolumeBlocks
          PROVE  /\ v # w => MapOf(open')[v] # MapOf(open')[w]
                 /\ MapOf(open')[v] \notin {MapOf(flushed')[w], MapOf(restoring')[w]}
      <4>1. ~Covers(e, v) /\ MapOf(open')[v] = MapOf(open)[v] /\ MapOf(open)[v] # 0
        BY <1>11, <3>3
      <4>2. /\ v # w => MapOf(open)[v] # MapOf(open)[w]
            /\ MapOf(open)[v] \notin {MapOf(flushed)[w], MapOf(restoring)[w]}
        BY <2>2, <4>1
      <4>3. CASE Covers(e, w)
        <5>1. v # w
          BY <4>1, <4>3
        <5> QED
          BY <1>11, <3>1, <3>3, <4>1, <4>2, <4>3, <5>1
      <4>4. CASE ~Covers(e, w)
        BY <1>11, <3>1, <4>1, <4>2, <4>4
      <4> QED
        BY <4>3, <4>4
    <3> QED
      BY <3>2, <3>3
  <2> QED
    BY <1>14, <2>3 DEF JournalInv
<1> QED
  BY <1>1, <1>11, <1>12, <1>13, <1>15 DEF MapInv

LEMMA FlushEndOK ==
    ASSUME MapInv, FlushEnd, UNCHANGED buffer_size
    PROVE  MapInv' /\ flushing /\ ~flushing' /\ UNCHANGED <<open, flushed, restoring>> /\ open = <<>>
<1>1. /\ flushing /\ todo = <<>> /\ open = <<>> /\ flushing' = FALSE
      /\ open_current_frame' = 0 /\ open_current_free' = 0 /\ open_remapped' = FALSE
      /\ dirty' = 0 /\ buffer_sector_start' = 0
      /\ UNCHANGED <<open, flushed, restoring, free_records, pbm, request, todo, next_free_frame,
                     given_back, regionVars, buffer, dataVars, clock>>
  BY Zenon DEF FlushEnd
<1>2. ListInv
  BY DEF MapInv
<1>3. CountersOK /\ RequestOK /\ PbmOK
  BY <1>2, ListParts
<1>4. CountersOK'
  <2>1. open_remapped' \in BOOLEAN /\ flushing' \in BOOLEAN
    BY <1>1, Zenon
  <2>2. /\ next_free_frame' + open_current_free' <= JournalSize
        /\ dirty' \in Nat /\ buffer_sector_start' \in Nat /\ open_current_frame' \in Nat
        /\ open_current_free' \in Nat /\ (Buffered' => dirty' <= buffer_size')
    BY <1>1, <1>3, BlockMapAssumption DEF CountersOK
  <2> QED
    BY <1>1, <1>3, <2>1, <2>2 DEF CountersOK
<1>5. ListInv'
  BY <1>1, <1>2, <1>3, <1>4 DEF ListInv, RequestOK, PbmOK, Pending
<1>6. \A v \in VolumeBlocks : Current(v)' = Current(v)
  BY <1>1 DEF Current
<1>7. JournalInv'
  BY <1>1, <1>5, <1>6, JournalKept
<1> QED
  BY <1>1, <1>5, <1>7 DEF MapInv, FlushInv

LEMMA RestoreStartOK ==
    ASSUME MapInv, RestoreStart, UNCHANGED buffer_size
    PROVE  /\ MapInv' /\ ~flushing /\ ~flushing' /\ UNCHANGED open
           /\ restoring = <<>> /\ restoring' = flushed /\ flushed' = <<>>
<1>1. /\ request = NoRequest /\ ~flushing /\ ~open_remapped /\ restoring = <<>>
      /\ restoring' = flushed /\ flushed' = <<>>
      /\ open_current_frame' = 0 /\ open_current_free' = 0 /\ buffer_sector_start' = 0
      /\ UNCHANGED <<open, free_records, pbm, request, todo, flushing, next_free_frame,
                     given_back, open_remapped, dirty, buffer, dataVars, clock>>
  BY Zenon DEF RestoreStart, Idle
<1>2. ListInv
  BY DEF MapInv
<1>3. /\ CountersOK /\ RequestOK /\ PbmOK /\ ListOK(flushed)
      /\ Len(open) \in Nat /\ Len(flushed) \in Nat
      /\ Pending \in Nat /\ free_records \in Nat
      /\ Len(open) + Len(flushed) + Len(restoring) + Pending + free_records <= MapRecords
  BY <1>2, ListParts
<1>4. CountersOK'
  <2>1. /\ next_free_frame' + open_current_free' <= JournalSize
        /\ buffer_sector_start' \in Nat /\ open_current_frame' \in Nat
        /\ open_current_free' \in Nat
    BY <1>1, <1>3, BlockMapAssumption DEF CountersOK
  <2>2. Buffered' => Buffered
    BY DEF Buffered
  <2> QED
    BY <1>1, <1>3, <2>1, <2>2 DEF CountersOK
<1>5. ListInv'
  <2>1. RequestOK' /\ PbmOK' /\ Pending' = Pending
    BY <1>1, <1>3 DEF RequestOK, PbmOK, Pending
  <2>2. Len(open') + Len(flushed') + Len(restoring') + Pending' + free_records' <= MapRecords
    <3>1. Len(open') = Len(open) /\ Len(flushed') = 0 /\ Len(restoring') = Len(flushed)
          /\ Len(restoring) = 0 /\ free_records' = free_records
      BY <1>1, EmptyList
    <3> QED
      BY <1>3, <2>1, <3>1, BlockMapAssumption
  <2> QED
    BY <1>1, <1>2, <1>3, <1>4, <2>1, <2>2, EmptyList DEF ListInv
<1>6. ASSUME NEW v \in VolumeBlocks
      PROVE  /\ Current(v)' = Current(v) /\ MapOf(flushed')[v] = 0
             /\ MapOf(restoring')[v] = MapOf(flushed)[v]
  <2>1. Current(v)' = Current(v)
    BY <1>1 DEF Current
  <2> QED
    BY <1>1, <2>1, EmptyList
<1>7. JournalInv'
  BY <1>1, <1>5, <1>6, JournalKept
<1> QED
  BY <1>1, <1>5, <1>7 DEF MapInv, FlushInv

LEMMA RestoreEndOK ==
    ASSUME MapInv, RestoreEnd, UNCHANGED buffer_size
    PROVE  /\ MapInv' /\ ~flushing /\ ~flushing' /\ UNCHANGED <<open, flushed>>
           /\ restoring' = <<>>
<1>1. /\ request = NoRequest /\ ~flushing /\ restoring' = <<>>
      /\ free_records' = free_records + Len(restoring)
      /\ UNCHANGED <<open, flushed, pbm, request, todo, flushing, open_current_frame,
                     open_current_free, next_free_frame, open_remapped, regionVars, bufferVars,
                     journal, index, view, clock>>
  BY Zenon DEF RestoreEnd, Idle
<1>2. ListInv
  BY DEF MapInv
<1>3. /\ CountersOK /\ RequestOK /\ PbmOK
      /\ Len(open) \in Nat /\ Len(flushed) \in Nat /\ Len(restoring) \in Nat
      /\ Pending \in Nat /\ free_records \in Nat
      /\ Len(open) + Len(flushed) + Len(restoring) + Pending + free_records <= MapRecords
  BY <1>2, ListParts
<1>4. CountersOK'
  <2>1. free_records' \in Nat
    BY <1>1, <1>3
  <2>2. Buffered' => Buffered
    BY DEF Buffered
  <2> QED
    BY <1>1, <1>3, <2>1, <2>2 DEF CountersOK, bufferVars
<1>5. ListInv'
  <2>1. RequestOK' /\ PbmOK' /\ Pending' = Pending
    BY <1>1, <1>3 DEF RequestOK, PbmOK, Pending
  <2>2. Len(open') + Len(flushed') + Len(restoring') + Pending' + free_records' <= MapRecords
    <3>1. Len(open') = Len(open) /\ Len(flushed') = Len(flushed) /\ Len(restoring') = 0
      BY <1>1, EmptyList
    <3> QED
      BY <1>1, <1>3, <2>1, <3>1, BlockMapAssumption
  <2> QED
    BY <1>1, <1>2, <1>3, <1>4, <2>1, <2>2, EmptyList DEF ListInv
<1>6. ASSUME NEW v \in VolumeBlocks
      PROVE  /\ Current(v)' = Current(v) /\ MapOf(flushed')[v] = MapOf(flushed)[v]
             /\ MapOf(restoring')[v] = 0
  <2>1. Current(v)' = Current(v)
    BY <1>1 DEF Current
  <2> QED
    BY <1>1, <2>1, EmptyList
<1>7. JournalInv'
  BY <1>1, <1>5, <1>6, JournalKept
<1> QED
  BY <1>1, <1>5, <1>7 DEF MapInv, FlushInv

LEMMA StutterOK == ASSUME MapInv, UNCHANGED mapVars PROVE MapInv'
<1>1. /\ UNCHANGED <<open, flushed, restoring, free_records, pbm, request, todo, flushing>>
      /\ UNCHANGED <<open_current_frame, open_current_free, next_free_frame, open_remapped>>
      /\ UNCHANGED <<dirty, buffer_sector_start, buffer_size, clock>>
  BY Zenon DEF mapVars, listVars, frameVars, bufferVars
<1>2. ListInv' /\ FlushInv' /\ JournalInv'
  BY <1>1 DEF MapInv, ListInv, FlushInv, JournalInv, Current, CountersOK, RequestOK, PbmOK, Pending, Buffered
<1> QED
  BY <1>2 DEF MapInv

LEMMA MapStep == ASSUME MapInv, [BlockMapNext]_mapVars PROVE MapInv'
<1>1. CASE BlockMapNext
  <2>1. UNCHANGED buffer_size
    BY <1>1, Zenon DEF BlockMapNext
  <2>2. \/ WriteCall \/ WriteMapped \/ WriteUnmapped \/ WriteFull
        \/ FlushCall \/ MakeRoom \/ MoveExtent \/ FlushEnd \/ RestoreStart \/ RestoreEnd
    BY <1>1, Zenon DEF BlockMapNext
  <2> QED
    BY <2>1, <2>2, WriteCallOK, WriteMappedKeeps, WriteUnmappedKeeps, WriteFullOK, FlushCallOK,
       MakeRoomOK, MoveExtentOK, FlushEndOK, RestoreStartOK, RestoreEndOK, Zenon
<1>2. CASE UNCHANGED mapVars
  BY <1>2, StutterOK
<1> QED
  BY <1>1, <1>2

LEMMA MapInvariant == BlockMapSpec => []MapInv
<1>1. BlockMapInit => MapInv
  BY InitOK
<1>2. MapInv /\ [BlockMapNext]_mapVars => MapInv'
  BY MapStep
<1> QED
  BY <1>1, <1>2, PTL DEF BlockMapSpec

-----------------------------------------------------------------------------
(* What fs_scan_map_cache relies on *)

LEMMA ListInOrder == ASSUME NEW list, ListOK(list) PROVE InOrder(list)
<1>1. /\ Len(list) \in Nat
      /\ \A i \in 1 .. Len(list) : list[i] \in Extents
      /\ \A i, k \in 1 .. Len(list) : i < k => LastBlock(list[i]) < list[k].vol
  BY ListIs
<1>2. \A i \in 1 .. Len(list) : list[i].n > 0 /\ list[i].vol >= 1 /\ LastBlock(list[i]) <= Width
  BY <1>1, ExtentIs
<1>3. ASSUME NEW i \in 1 .. Len(list) - 1
      PROVE  LastBlock(list[i]) < list[i + 1].vol
  <2>1. i \in 1 .. Len(list) /\ i + 1 \in 1 .. Len(list) /\ i < i + 1
    BY <1>1
  <2> QED
    BY <1>1, <2>1
<1> QED
  BY <1>2, <1>3 DEF InOrder

\* At every moment, also in the middle of a write, of a flush or of a restore, the
\* lists are in volume order, no block is in two extents of a list, and no map
\* record is in use twice (fs_insert_map_record, fs_invalidate_flushed_blocks).
THEOREM ExtentsInOrder == BlockMapSpec => []ListsInOrder
<1>1. MapInv => ListsInOrder
  <2>1. SUFFICES ASSUME MapInv PROVE ListsInOrder
    OBVIOUS
  <2>2. /\ ListOK(open) /\ ListOK(flushed) /\ ListOK(restoring)
        /\ Len(open) \in Nat /\ Len(flushed) \in Nat /\ Len(restoring) \in Nat
        /\ Pending \in Nat /\ free_records \in Nat
        /\ Len(open) + Len(flushed) + Len(restoring) + Pending + free_records <= MapRecords
    BY <2>1, ListParts DEF MapInv
  <2>3. Len(open) + Len(flushed) + Len(restoring) + free_records <= MapRecords
    BY <2>2, BlockMapAssumption
  <2> QED
    BY <2>2, <2>3, ListInOrder DEF ListsInOrder
<1> QED
  BY <1>1, MapInvariant, PTL

-----------------------------------------------------------------------------
(* The three maps the lists stand for *)

Layer(f) == f = [v \in VolumeBlocks |-> f[v]]

LEMMA SameLayer ==
    ASSUME NEW f, NEW g, Layer(f), Layer(g), \A v \in VolumeBlocks : f[v] = g[v]
    PROVE  f = g
  BY DEF Layer

LEMMA MapLayer == \A list : Layer(MapOf(list))
  BY DEF MapOf, Layer

LEMMA LayersAre ==
    /\ Layer(OpenLayer) /\ Layer(FlushedLayer)
    /\ \A v \in VolumeBlocks :
          /\ flushing => OpenLayer[v] = 0
          /\ flushing => FlushedLayer[v] =
                IF MapOf(open)[v] # 0 THEN MapOf(open)[v] ELSE MapOf(flushed)[v]
    /\ ~flushing => OpenLayer = MapOf(open) /\ FlushedLayer = MapOf(flushed)
<1>1. Layer(OpenLayer)
  BY MapLayer DEF OpenLayer, Layer
<1>2. Layer(FlushedLayer)
  BY DEF FlushedLayer, Layer
<1>3. ~flushing => OpenLayer = MapOf(open)
  BY DEF OpenLayer
<1>4. ASSUME NEW v \in VolumeBlocks
      PROVE  FlushedLayer[v] = IF flushing /\ MapOf(open)[v] # 0 THEN MapOf(open)[v]
                               ELSE MapOf(flushed)[v]
  BY DEF FlushedLayer
<1>5. ~flushing => FlushedLayer = MapOf(flushed)
  <2>1. SUFFICES ASSUME ~flushing PROVE FlushedLayer = MapOf(flushed)
    OBVIOUS
  <2>2. \A v \in VolumeBlocks : FlushedLayer[v] = MapOf(flushed)[v]
    BY <1>4, <2>1
  <2> QED
    BY <1>2, <2>2, MapLayer, SameLayer
<1>6. ASSUME NEW v \in VolumeBlocks, flushing PROVE OpenLayer[v] = 0
  BY <1>6 DEF OpenLayer
<1> QED
  BY <1>1, <1>2, <1>3, <1>4, <1>5, <1>6

LEMMA LayersAreNext ==
    /\ Layer(OpenLayer') /\ Layer(FlushedLayer')
    /\ \A v \in VolumeBlocks :
          /\ flushing' => OpenLayer'[v] = 0
          /\ flushing' => FlushedLayer'[v] =
                IF MapOf(open')[v] # 0 THEN MapOf(open')[v] ELSE MapOf(flushed')[v]
    /\ ~flushing' => OpenLayer' = MapOf(open') /\ FlushedLayer' = MapOf(flushed')
<1>1. (/\ Layer(OpenLayer) /\ Layer(FlushedLayer)
       /\ \A v \in VolumeBlocks :
             /\ flushing => OpenLayer[v] = 0
             /\ flushing => FlushedLayer[v] =
                   IF MapOf(open)[v] # 0 THEN MapOf(open)[v] ELSE MapOf(flushed)[v]
       /\ ~flushing => OpenLayer = MapOf(open) /\ FlushedLayer = MapOf(flushed))'
  BY LayersAre, PTL
<1> QED
  BY <1>1

LEMMA InitImplements == ASSUME BlockMapInit PROVE Layers!LayersInit
<1>1. open = <<>> /\ flushed = <<>> /\ restoring = <<>> /\ flushing = FALSE
  BY Zenon DEF BlockMapInit
<1>2. MapOf(<<>>) = [v \in VolumeBlocks |-> 0]
  <2>1. Layer(MapOf(<<>>)) /\ Layer([v \in VolumeBlocks |-> 0])
    BY MapLayer DEF Layer
  <2>2. \A v \in VolumeBlocks : MapOf(<<>>)[v] = [w \in VolumeBlocks |-> 0][v]
    BY EmptyList
  <2> QED
    BY <2>1, <2>2, SameLayer
<1>3. OpenLayer = MapOf(<<>>) /\ FlushedLayer = MapOf(<<>>) /\ MapOf(restoring) = MapOf(<<>>)
  BY <1>1, LayersAre
<1> QED
  BY <1>2, <1>3, Zenon DEF Layers!LayersInit, Layers!Nowhere

\* A step of a write is a Write of MapLayers.
LEMMA WriteImplements ==
    ASSUME MapInv, MapInv', ~flushing, ~flushing', flushed' = flushed, restoring' = restoring,
           \A v \in VolumeBlocks : MapOf(open)[v] # 0 => MapOf(open')[v] = MapOf(open)[v]
    PROVE  Layers!Write
<1>1. ListInv /\ ListInv' /\ JournalInv'
  BY DEF MapInv
<1>2. /\ OpenLayer = MapOf(open) /\ FlushedLayer = MapOf(flushed)
      /\ OpenLayer' = MapOf(open') /\ FlushedLayer' = MapOf(flushed')
  BY LayersAre, LayersAreNext
<1>3. next_free_frame' \in Nat /\ next_free_frame' <= JournalSize
  BY <1>1, BlockMapAssumption DEF ListInv, CountersOK
<1>4. ASSUME NEW v \in VolumeBlocks, MapOf(open')[v] # 0
      PROVE  /\ MapOf(open')[v] = Current(v)' /\ MapOf(open')[v] \in JournalBlocks
             /\ \A w \in VolumeBlocks :
                   /\ v # w => MapOf(open')[v] # MapOf(open')[w]
                   /\ MapOf(open')[v] # MapOf(flushed)[w] /\ MapOf(open')[v] # MapOf(restoring)[w]
  <2>1. \A w \in VolumeBlocks : MapOf(open')[w] # 0 => Current(w)' = MapOf(open')[w]
    BY DEF Current
  <2>2. /\ Current(v)' # 0 /\ Current(v)' < next_free_frame'
        /\ \A w \in VolumeBlocks :
              /\ v # w => Current(v)' # Current(w)'
              /\ Current(v)' \notin {MapOf(flushed')[w], MapOf(restoring')[w]}
    BY <1>1, <1>4, <2>1 DEF JournalInv
  <2>3. MapOf(open')[v] \in Nat
    <3>1. ListOK(open')
      BY <1>1 DEF ListInv
    <3> QED
      BY <3>1, MapCovered
  <2>4. Current(v)' \in JournalBlocks
    BY <1>3, <1>4, <2>1, <2>2, <2>3, BlockMapAssumption DEF JournalBlocks
  <2>5. ASSUME NEW w \in VolumeBlocks, v # w PROVE MapOf(open')[v] # MapOf(open')[w]
    BY <1>4, <2>1, <2>2, <2>5
  <2> QED
    BY <1>4, <2>1, <2>2, <2>4, <2>5
<1>5. MapOf(open') \in [VolumeBlocks -> JournalBlocks \union {0}]
  <2>1. \A v \in VolumeBlocks : MapOf(open')[v] \in JournalBlocks \union {0}
    BY <1>4
  <2>2. Layer(MapOf(open'))
    BY MapLayer
  <2> QED
    BY <2>1, <2>2 DEF Layer
<1>6. ASSUME NEW v \in VolumeBlocks, MapOf(open)[v] = 0, MapOf(open')[v] # 0
      PROVE  MapOf(open')[v] \notin {MapOf(open)[w] : w \in VolumeBlocks}
                \union {MapOf(flushed)[w] : w \in VolumeBlocks}
                \union {MapOf(restoring)[w] : w \in VolumeBlocks}
  <2>1. ASSUME NEW w \in VolumeBlocks
        PROVE  /\ MapOf(open')[v] # MapOf(open)[w]
               /\ MapOf(open')[v] # MapOf(flushed)[w] /\ MapOf(open')[v] # MapOf(restoring)[w]
    <3>1. MapOf(open)[w] # 0 => w # v /\ MapOf(open')[w] = MapOf(open)[w]
      BY <1>6
    <3> QED
      BY <1>4, <1>6, <3>1
  <2> QED
    BY <2>1
<1>7. /\ MapOf(open') \in [VolumeBlocks -> JournalBlocks \union {0}]
      /\ \A v \in VolumeBlocks :
            IF MapOf(open)[v] # 0 THEN MapOf(open')[v] = MapOf(open)[v]
            ELSE MapOf(open')[v] = 0
                 \/ MapOf(open')[v] \notin {MapOf(open)[w] : w \in VolumeBlocks}
                       \union {MapOf(flushed)[w] : w \in VolumeBlocks}
                       \union {MapOf(restoring)[w] : w \in VolumeBlocks}
      /\ \A v, w \in VolumeBlocks : v # w /\ MapOf(open')[v] # 0 => MapOf(open')[v] # MapOf(open')[w]
      /\ MapOf(flushed') = MapOf(flushed) /\ MapOf(restoring') = MapOf(restoring)
  <2>1. MapOf(flushed') = MapOf(flushed) /\ MapOf(restoring') = MapOf(restoring)
    OBVIOUS
  <2> QED
    BY <1>4, <1>5, <1>6, <2>1
<1> QED
  BY <1>2, <1>7, Zenon DEF Layers!Write, Layers!InUse

\* The other steps of a session leave the three maps alone.
LEMMA StutterImplements ==
    ASSUME /\ OpenLayer' = OpenLayer /\ FlushedLayer' = FlushedLayer
           /\ MapOf(restoring') = MapOf(restoring)
    PROVE  UNCHANGED Layers!layerVars
  BY Zenon DEF Layers!layerVars

LEMMA LayersStep ==
    ASSUME MapInv, MapInv', [BlockMapNext]_mapVars
    PROVE  [Layers!LayersNext]_Layers!layerVars
<1>1. ListInv /\ FlushInv /\ ListInv'
  BY DEF MapInv
<1>2. CASE BlockMapNext
  <2>0. UNCHANGED buffer_size
    BY <1>2, Zenon DEF BlockMapNext
  <2>1. CASE WriteCall
    <3>1. ~flushing /\ flushing' = flushing /\ UNCHANGED <<open, flushed, restoring>>
      BY <2>1, Zenon DEF WriteCall, Idle, listVars
    <3>2. OpenLayer' = OpenLayer /\ FlushedLayer' = FlushedLayer
      BY <3>1, LayersAre, LayersAreNext
    <3>3. MapOf(restoring') = MapOf(restoring)
      BY <3>1
    <3> QED
      BY <3>2, <3>3, StutterImplements
  <2>2. CASE WriteMapped
    <3>1. request.left > 0 /\ UNCHANGED <<flushed, restoring, flushing>>
      BY <2>2, Zenon DEF WriteMapped
    <3>2. ~flushing /\ ~flushing'
      BY <1>1, <3>1, ListParts
    <3>3. \A v \in VolumeBlocks : MapOf(open)[v] # 0 => MapOf(open')[v] = MapOf(open)[v]
      BY <1>1, <2>0, <2>2, WriteMappedOK
    <3> QED
      BY <3>1, <3>2, <3>3, WriteImplements DEF Layers!LayersNext
  <2>3. CASE WriteUnmapped
    <3>1. request.left > 0 /\ UNCHANGED <<flushed, restoring, flushing>>
      BY <2>3, Zenon DEF WriteUnmapped
    <3>2. ~flushing /\ ~flushing'
      BY <1>1, <3>1, ListParts
    <3>3. StepDone(Fails, 0) \/ StepDone(Fails, 1)
      BY <1>1, <2>0, <2>3, WriteUnmappedOK
    <3>4. \A v \in VolumeBlocks : MapOf(open)[v] # 0 => MapOf(open')[v] = MapOf(open)[v]
      BY <3>3, Zenon DEF StepDone
    <3> QED
      BY <3>1, <3>2, <3>4, WriteImplements DEF Layers!LayersNext
  <2>4. CASE WriteFull
    <3>1. request.left > 0 /\ UNCHANGED <<flushed, restoring, flushing>>
      BY <2>4, Zenon DEF WriteFull
    <3>2. ~flushing /\ ~flushing' /\ open' = open
      BY <1>1, <2>0, <2>4, <3>1, ListParts, WriteFullOK
    <3>3. OpenLayer' = OpenLayer /\ FlushedLayer' = FlushedLayer
      BY <3>1, <3>2, LayersAre, LayersAreNext
    <3>4. MapOf(restoring') = MapOf(restoring)
      BY <3>1
    <3> QED
      BY <3>3, <3>4, StutterImplements
  <2>5. CASE FlushCall
    <3>1. /\ ~flushing /\ flushing' /\ UNCHANGED <<open, flushed, restoring>>
      BY <2>5, Zenon DEF FlushCall, Idle, listVars
    <3>2. OpenLayer = MapOf(open) /\ FlushedLayer = MapOf(flushed)
      BY <3>1, LayersAre
    <3>3. FlushedLayer' = [v \in VolumeBlocks |-> IF OpenLayer[v] # 0 THEN OpenLayer[v]
                                                  ELSE FlushedLayer[v]]
      <4>1. PICK f : f = [v \in VolumeBlocks |-> IF OpenLayer[v] # 0 THEN OpenLayer[v]
                                                 ELSE FlushedLayer[v]]
        OBVIOUS
      <4>2. Layer(f) /\ \A v \in VolumeBlocks : f[v] = IF OpenLayer[v] # 0 THEN OpenLayer[v]
                                                       ELSE FlushedLayer[v]
        BY <4>1 DEF Layer
      <4>3. \A v \in VolumeBlocks : FlushedLayer'[v] = f[v]
        BY <3>1, <3>2, <4>2, LayersAreNext
      <4> QED
        BY <4>1, <4>2, <4>3, LayersAreNext, SameLayer
    <3>4. OpenLayer' = [v \in VolumeBlocks |-> 0]
      <4>1. Layer([v \in VolumeBlocks |-> 0])
        BY DEF Layer
      <4>2. \A v \in VolumeBlocks : OpenLayer'[v] = [w \in VolumeBlocks |-> 0][v]
        BY <3>1, LayersAreNext
      <4> QED
        BY <4>1, <4>2, LayersAreNext, SameLayer
    <3>5. MapOf(restoring)' = MapOf(restoring)
      BY <3>1
    <3>6. Layers!Flush
      BY <3>3, <3>4, <3>5, Zenon DEF Layers!Flush, Layers!Nowhere
    <3> QED
      BY <3>6, Zenon DEF Layers!LayersNext
  <2>6. CASE MakeRoom
    <3>1. /\ flushing /\ flushing' /\ UNCHANGED <<open, restoring>>
          /\ \A v \in VolumeBlocks :
                \/ MapOf(flushed')[v] = MapOf(flushed)[v]
                \/ MapOf(flushed')[v] = 0 /\ MapOf(open)[v] # 0
      BY <2>0, <2>6, MakeRoomOK
    <3>2. \A v \in VolumeBlocks : OpenLayer'[v] = OpenLayer[v] /\ FlushedLayer'[v] = FlushedLayer[v]
      BY <3>1, LayersAre, LayersAreNext
    <3>3. OpenLayer' = OpenLayer /\ FlushedLayer' = FlushedLayer
      BY <3>2, LayersAre, LayersAreNext, SameLayer
    <3>4. MapOf(restoring') = MapOf(restoring)
      BY <3>1
    <3> QED
      BY <3>3, <3>4, StutterImplements
  <2>7. CASE MoveExtent
    <3>1. /\ flushing /\ flushing' /\ UNCHANGED restoring
          /\ \A v \in VolumeBlocks :
                (IF MapOf(open')[v] # 0 THEN MapOf(open')[v] ELSE MapOf(flushed')[v])
                   = (IF MapOf(open)[v] # 0 THEN MapOf(open)[v] ELSE MapOf(flushed)[v])
      BY <2>0, <2>7, MoveExtentOK
    <3>2. \A v \in VolumeBlocks : OpenLayer'[v] = OpenLayer[v] /\ FlushedLayer'[v] = FlushedLayer[v]
      BY <3>1, LayersAre, LayersAreNext
    <3>3. OpenLayer' = OpenLayer /\ FlushedLayer' = FlushedLayer
      BY <3>2, LayersAre, LayersAreNext, SameLayer
    <3>4. MapOf(restoring') = MapOf(restoring)
      BY <3>1
    <3> QED
      BY <3>3, <3>4, StutterImplements
  <2>8. CASE FlushEnd
    <3>1. flushing /\ ~flushing' /\ UNCHANGED <<open, flushed, restoring>> /\ open = <<>>
      BY <2>0, <2>8, FlushEndOK
    <3>2. ASSUME NEW v \in VolumeBlocks
          PROVE  OpenLayer'[v] = OpenLayer[v] /\ FlushedLayer'[v] = FlushedLayer[v]
      <4>1. MapOf(open)[v] = 0 /\ MapOf(open')[v] = 0
        BY <3>1, EmptyList
      <4> QED
        BY <3>1, <4>1, LayersAre, LayersAreNext
    <3>3. OpenLayer' = OpenLayer /\ FlushedLayer' = FlushedLayer
      BY <3>2, LayersAre, LayersAreNext, SameLayer
    <3>4. MapOf(restoring') = MapOf(restoring)
      BY <3>1
    <3> QED
      BY <3>3, <3>4, StutterImplements
  <2>9. CASE RestoreStart
    <3>1. /\ ~flushing /\ ~flushing' /\ UNCHANGED open
          /\ restoring = <<>> /\ restoring' = flushed /\ flushed' = <<>>
      BY <2>0, <2>9, RestoreStartOK
    <3>2. MapOf(<<>>) = [v \in VolumeBlocks |-> 0]
      <4>1. Layer(MapOf(<<>>)) /\ Layer([v \in VolumeBlocks |-> 0])
        BY MapLayer DEF Layer
      <4>2. \A v \in VolumeBlocks : MapOf(<<>>)[v] = [w \in VolumeBlocks |-> 0][v]
        BY EmptyList
      <4> QED
        BY <4>1, <4>2, SameLayer
    <3>3. /\ OpenLayer' = OpenLayer /\ FlushedLayer' = [v \in VolumeBlocks |-> 0]
          /\ MapOf(restoring)' = FlushedLayer /\ MapOf(restoring) = [v \in VolumeBlocks |-> 0]
      BY <3>1, <3>2, LayersAre, LayersAreNext
    <3>4. Layers!RestoreStart
      BY <3>3, Zenon DEF Layers!RestoreStart, Layers!Nowhere
    <3> QED
      BY <3>4, Zenon DEF Layers!LayersNext
  <2>10. CASE RestoreEnd
    <3>1. /\ ~flushing /\ ~flushing' /\ UNCHANGED <<open, flushed>> /\ restoring' = <<>>
      BY <2>0, <2>10, RestoreEndOK
    <3>2. MapOf(<<>>) = [v \in VolumeBlocks |-> 0]
      <4>1. Layer(MapOf(<<>>)) /\ Layer([v \in VolumeBlocks |-> 0])
        BY MapLayer DEF Layer
      <4>2. \A v \in VolumeBlocks : MapOf(<<>>)[v] = [w \in VolumeBlocks |-> 0][v]
        BY EmptyList
      <4> QED
        BY <4>1, <4>2, SameLayer
    <3>3. /\ OpenLayer' = OpenLayer /\ FlushedLayer' = FlushedLayer
          /\ MapOf(restoring)' = [v \in VolumeBlocks |-> 0]
      BY <3>1, <3>2, LayersAre, LayersAreNext
    <3>4. Layers!RestoreEnd
      BY <3>3, Zenon DEF Layers!RestoreEnd, Layers!Nowhere
    <3> QED
      BY <3>4, Zenon DEF Layers!LayersNext
  <2>11. \/ WriteCall \/ WriteMapped \/ WriteUnmapped \/ WriteFull
         \/ FlushCall \/ MakeRoom \/ MoveExtent \/ FlushEnd \/ RestoreStart \/ RestoreEnd
    BY <1>2, Zenon DEF BlockMapNext
  <2> QED
    BY <2>1, <2>2, <2>3, <2>4, <2>5, <2>6, <2>7, <2>8, <2>9, <2>10, <2>11, Zenon
<1>3. CASE UNCHANGED mapVars
  <2>1. flushing' = flushing /\ UNCHANGED <<open, flushed, restoring>>
    BY <1>3, Zenon DEF mapVars, listVars
  <2>2. ASSUME NEW v \in VolumeBlocks
        PROVE  OpenLayer'[v] = OpenLayer[v] /\ FlushedLayer'[v] = FlushedLayer[v]
    BY <2>1, LayersAre, LayersAreNext
  <2>3. OpenLayer' = OpenLayer /\ FlushedLayer' = FlushedLayer
    BY <2>2, LayersAre, LayersAreNext, SameLayer
  <2>4. MapOf(restoring') = MapOf(restoring)
    BY <2>1
  <2> QED
    BY <2>3, <2>4, StutterImplements
<1> QED
  BY <1>2, <1>3

\* The lists of extents implement the three maps: whatever extents a write is cut
\* into and whatever a flush has to take away, an observer of the maps sees writes,
\* flushes and restores (fs_devio_write, fs_flush_current_session,
\* fs_restore_from_session_start).
THEOREM ListsImplementLayers == BlockMapSpec => ImplementsLayers
<1>1. BlockMapInit => Layers!LayersInit
  BY InitImplements
<1>2. MapInv /\ MapInv' /\ [BlockMapNext]_mapVars => [Layers!LayersNext]_Layers!layerVars
  BY LayersStep
<1> QED
  BY <1>1, <1>2, MapInvariant, PTL DEF BlockMapSpec, ImplementsLayers, Layers!LayersSpec

-----------------------------------------------------------------------------
(* What the frames on file say *)

\* What a step does to the request and to what has been written.
ViewStep(n) ==
    \A v \in VolumeBlocks :
       /\ Done(v)' => Done(v) \/ (request.at <= v /\ v < request.at + n)
       /\ request' # NoRequest /\ request'.first <= v /\ v < request'.at + request'.left
             => request.first <= v /\ v < request.at + request.left /\ view'[v] = view[v]
       /\ \/ view'[v] = view[v]
          \/ view'[v] = clock /\ (Done(v) \/ (request.at <= v /\ v < request.at + n))

LEMMA AdvanceView ==
    ASSUME RequestOK, request # NoRequest, NEW n \in 1 .. request.left,
           NEW list, NEW e, Advance(n, list, e)
    PROVE  ViewStep(n)
<1>1. /\ request \in [first : VolumeBlocks, at : VolumeBlocks, left : Nat \ {0}]
      /\ request.first <= request.at
  BY DEF RequestOK
<1>2. /\ request.first \in Nat /\ request.at \in Nat /\ request.left \in Nat /\ n \in Nat /\ n >= 1
      /\ \A v \in VolumeBlocks : v \in Nat
  BY <1>1, BlockMapAssumption DEF VolumeBlocks
<1>3. CASE n < request.left
  <2>1. request' = [request EXCEPT !.at = @ + n, !.left = @ - n] /\ view' = view
    BY <1>3 DEF Advance
  <2>2. /\ request'.first = request.first /\ request'.at = request.at + n
        /\ request'.left = request.left - n
    BY <1>1, <2>1
  <2>3. ASSUME NEW v \in VolumeBlocks, Done(v)'
        PROVE  Done(v) \/ (request.at <= v /\ v < request.at + n)
    BY <1>2, <2>2, <2>3 DEF Done
  <2>4. ASSUME NEW v \in VolumeBlocks, request'.first <= v, v < request'.at + request'.left
        PROVE  request.first <= v /\ v < request.at + request.left
    BY <1>2, <2>2, <2>4
  <2> QED
    BY <2>1, <2>3, <2>4 DEF ViewStep
<1>4. CASE ~(n < request.left)
  <2>1. /\ request' = NoRequest
        /\ view' = [v \in VolumeBlocks |->
                       IF v \in request.first .. request.at + n - 1 THEN clock ELSE view[v]]
    BY <1>4, Zenon DEF Advance
  <2>2. ASSUME NEW v \in VolumeBlocks, v \in request.first .. request.at + n - 1
        PROVE  Done(v) \/ (request.at <= v /\ v < request.at + n)
    BY <1>2, <2>2 DEF Done
  <2>3. \A v \in VolumeBlocks : ~Done(v)'
    BY <2>1 DEF Done
  <2> QED
    BY <2>1, <2>2, <2>3 DEF ViewStep
<1> QED
  BY <1>3, <1>4

LEMMA NoRequestView ==
    ASSUME request' = NoRequest, view' = view
    PROVE  \A n : ViewStep(n)
  BY DEF ViewStep, Done

\* A write goes on with what it has written, or fails.
LEMMA WriteMappedView ==
    ASSUME ListInv, WriteMapped
    PROVE  \E n \in 0 .. Hit.n : ViewStep(n)
<1> DEFINE n == MappedLength(Hit.jnl, Hit.n)
<1>1. /\ request.left > 0 /\ Hit.mapped
      /\ GiveUp(Queue(open, pbm)) \/ (n # 0 /\ Advance(n, Queue(open, pbm), None))
  <2>1. /\ request.left > 0 /\ Hit.mapped
        /\ IF n = 0 THEN GiveUp(Queue(open, pbm)) /\ UNCHANGED <<buffer, journal>>
           ELSE /\ Advance(n, Queue(open, pbm), None)
                /\ IF InBuffer(Hit.jnl)
                   THEN buffer' = Put(buffer, Hit.jnl, n) /\ UNCHANGED journal
                   ELSE journal' = Put(journal, Hit.jnl, n) /\ UNCHANGED buffer
    BY Zenon DEF WriteMapped, Hit
  <2> HIDE DEF n
  <2> QED
    BY <2>1
<1>2. CountersOK /\ RequestOK
  BY ListParts
<1>3. Hit.n \in 1 .. request.left /\ Hit.jnl \in Nat /\ request.left \in Nat
  BY <1>1, <1>2, HitIs, RequestIs DEF ScanResult
<1>4. n \in 0 .. Hit.n
  BY <1>2, <1>3, MappedLengthIs
<1> HIDE DEF n
<1>5. CASE GiveUp(Queue(open, pbm))
  <2>1. ViewStep(n)
    BY <1>5, NoRequestView DEF GiveUp
  <2> QED
    BY <1>4, <2>1
<1>6. CASE n # 0 /\ Advance(n, Queue(open, pbm), None)
  <2>1. request # NoRequest /\ n \in 1 .. request.left
    BY <1>1, <1>2, <1>3, <1>4, <1>6, RequestIs
  <2>2. ViewStep(n)
    BY <1>2, <1>6, <2>1, AdvanceView
  <2> QED
    BY <1>4, <2>2
<1> QED
  BY <1>1, <1>5, <1>6

LEMMA WriteUnmappedView ==
    ASSUME ListInv, WriteUnmapped
    PROVE  /\ Fails => request' = NoRequest /\ view' = view
           /\ ~Fails => ViewStep(StepLength)
<1>1. /\ request.left > 0 /\ ~Hit.mapped /\ ~AtEnd
      /\ \/ ~Fails /\ \E list, e : Advance(StepLength, list, e)
         \/ Fails /\ GiveUp(Queue(open, pbm))
  BY UnmappedIs, Zenon
<1>2. RequestOK /\ request # NoRequest /\ StepLength \in 1 .. request.left
  BY <1>1, ListParts, RequestIs, StepIs
<1>3. CASE ~Fails /\ \E list, e : Advance(StepLength, list, e)
  BY <1>2, <1>3, AdvanceView
<1>4. CASE Fails /\ GiveUp(Queue(open, pbm))
  BY <1>4 DEF GiveUp
<1> QED
  BY <1>1, <1>3, <1>4

LEMMA IdleView ==
    ASSUME request = NoRequest, request' = NoRequest
    PROVE  WrittenInv'
  BY DEF WrittenInv, Done

LEMMA WrittenStep ==
    ASSUME MapInv, WrittenInv, BlockMapNext
    PROVE  WrittenInv'
<1>1. UNCHANGED buffer_size
  BY Zenon DEF BlockMapNext
<1>2. ListInv
  BY DEF MapInv
<1>3. \A v \in VolumeBlocks :
         /\ Done(v) => Current(v) # 0
         /\ request # NoRequest /\ request.first <= v /\ v < request.at + request.left
               => view[v] = Unknown
  BY DEF WrittenInv
<1>4. CASE WriteCall
  <2>1. \E first \in VolumeBlocks : \E n \in 1 .. Width - first + 1 :
           /\ request' = [first |-> first, at |-> first, left |-> n]
           /\ view' = [v \in VolumeBlocks |->
                          IF v \in first .. first + n - 1 THEN Unknown ELSE view[v]]
    BY <1>4, Zenon DEF WriteCall
  <2>2. PICK first \in VolumeBlocks :
           \E n \in 1 .. Width - first + 1 :
              /\ request' = [first |-> first, at |-> first, left |-> n]
              /\ view' = [v \in VolumeBlocks |->
                             IF v \in first .. first + n - 1 THEN Unknown ELSE view[v]]
    BY <2>1
  <2>3. PICK n \in 1 .. Width - first + 1 :
           /\ request' = [first |-> first, at |-> first, left |-> n]
           /\ view' = [v \in VolumeBlocks |->
                          IF v \in first .. first + n - 1 THEN Unknown ELSE view[v]]
    BY <2>2
  <2>4. request'.first = first /\ request'.at = first /\ request'.left = n
    BY <2>3
  <2>5. first \in Nat /\ n \in Nat /\ \A v \in VolumeBlocks : v \in Nat
    BY <2>3, BlockMapAssumption DEF VolumeBlocks
  <2>6. ASSUME NEW v \in VolumeBlocks PROVE ~Done(v)'
    BY <2>4, <2>5 DEF Done
  <2>7. ASSUME NEW v \in VolumeBlocks, request'.first <= v, v < request'.at + request'.left
        PROVE  view'[v] = Unknown
    BY <2>3, <2>4, <2>5, <2>7
  <2> QED
    BY <2>6, <2>7 DEF WrittenInv
<1>5. CASE WriteMapped
  <2>1. PICK n \in 0 .. Hit.n : ViewStep(n)
    BY <1>2, <1>5, WriteMappedView
  <2>2. request.left > 0 /\ Hit.mapped
    BY <1>5, Zenon DEF WriteMapped, Hit
  <2>3. /\ request.at \in Nat /\ Hit.n \in Nat
        /\ \A w \in request.at .. request.at + Hit.n - 1 : MapOf(open)[w] # 0
    <3>1. ScanResult(open, request.at, request.left, Hit) /\ request.left \in Nat
          /\ request.at \in Nat /\ request.at >= 1
      BY <1>2, <2>2, HitIs, RequestIs, ListParts
    <3>2. Hit.n \in 1 .. request.left
      BY <3>1 DEF ScanResult
    <3>3. ASSUME NEW w \in request.at .. request.at + Hit.n - 1 PROVE MapOf(open)[w] # 0
      <4>1. w \in VolumeBlocks /\ MapOf(open)[w] = Hit.jnl + (w - request.at)
        BY <2>2, <3>1 DEF ScanResult
      <4>2. MapOf(open)[request.at] # 0 /\ MapOf(open)[request.at] = Hit.jnl
        <5>1. request.at \in request.at .. request.at + Hit.n - 1
          BY <3>1, <3>2
        <5>2. MapOf(open)[request.at] = Hit.jnl + (request.at - request.at) /\ Hit.jnl \in Nat
          BY <2>2, <3>1, <5>1 DEF ScanResult
        <5>3. MapOf(open)[request.at] # 0
          BY <2>2, <3>1 DEF ScanResult
        <5> QED
          BY <3>1, <5>2, <5>3
      <4>3. Hit.jnl \in Nat /\ w \in Nat /\ w >= request.at
        BY <3>1, <3>2 DEF ScanResult
      <4> QED
        BY <3>1, <4>1, <4>2, <4>3
    <3> QED
      BY <3>1, <3>2, <3>3
  <2>4. \A v \in VolumeBlocks : Current(v)' = Current(v)
    BY <1>1, <1>2, <1>5, WriteMappedOK
  <2>5. ASSUME NEW v \in VolumeBlocks, Done(v)' PROVE Current(v)' # 0
    <3>1. CASE Done(v)
      BY <1>3, <2>4, <3>1
    <3>2. CASE request.at <= v /\ v < request.at + n
      <4>1. v \in Nat
        BY BlockMapAssumption DEF VolumeBlocks
      <4>2. v \in request.at .. request.at + Hit.n - 1
        BY <2>3, <3>2, <4>1
      <4> QED
        BY <1>2, <2>3, <2>4, <4>2, CurrentIs
    <3> QED
      BY <2>1, <2>5, <3>1, <3>2 DEF ViewStep
  <2>6. ASSUME NEW v \in VolumeBlocks, request' # NoRequest, request'.first <= v,
               v < request'.at + request'.left
        PROVE  view'[v] = Unknown
    <3>1. request.first <= v /\ v < request.at + request.left /\ view'[v] = view[v]
      BY <2>1, <2>6 DEF ViewStep
    <3>2. request # NoRequest
      BY <1>2, <2>2, ListParts, RequestIs
    <3> QED
      BY <1>3, <3>1, <3>2
  <2> QED
    BY <2>5, <2>6 DEF WrittenInv
<1>6. CASE WriteUnmapped
  <2>1. request.left > 0 /\ ~Hit.mapped /\ ~AtEnd
    BY <1>6, UnmappedIs, Zenon
  <2>2. request # NoRequest
    BY <1>2, <2>1, ListParts, RequestIs
  <2>3. CASE Fails
    <3>1. request' = NoRequest
      BY <1>2, <1>6, <2>3, WriteUnmappedView
    <3> QED
      BY <3>1 DEF WrittenInv, Done
  <2>4. CASE ~Fails
    <3>1. ViewStep(StepLength)
      BY <1>2, <1>6, <2>4, WriteUnmappedView
    <3>2. StepDone(Fails, 0) \/ StepDone(Fails, 1)
      BY <1>1, <1>2, <1>6, WriteUnmappedOK
    <3>3. \A v \in VolumeBlocks : Current(v)' = IF InStep(v) THEN FirstBlock + (v - request.at)
                                                ELSE Current(v)
      BY <2>4, <3>2, Zenon DEF StepDone
    <3>4. /\ FirstBlock \in Nat /\ FirstBlock >= 2 /\ request.at \in Nat
          /\ \A v \in VolumeBlocks : v \in Nat
      BY <1>2, <2>1, ListParts, RequestIs, StepIs, BlockMapAssumption DEF VolumeBlocks
    <3>5. ASSUME NEW v \in VolumeBlocks, Done(v)' PROVE Current(v)' # 0
      <4>1. Done(v) \/ InStep(v)
        BY <3>1, <3>5 DEF ViewStep, InStep
      <4>2. InStep(v) => request.at <= v
        BY DEF InStep
      <4>3. InStep(v) => FirstBlock + (v - request.at) # 0
        BY <3>4, <4>2
      <4> QED
        BY <1>3, <3>3, <4>1, <4>3
    <3>6. ASSUME NEW v \in VolumeBlocks, request' # NoRequest, request'.first <= v,
                 v < request'.at + request'.left
          PROVE  view'[v] = Unknown
      <4>1. request.first <= v /\ v < request.at + request.left /\ view'[v] = view[v]
        BY <3>1, <3>6 DEF ViewStep
      <4> QED
        BY <1>3, <2>2, <4>1
    <3> QED
      BY <3>5, <3>6 DEF WrittenInv
  <2> QED
    BY <2>3, <2>4
<1>7. CASE WriteFull
  <2>1. request' = NoRequest
    BY <1>7, Zenon DEF WriteFull, GiveUp
  <2> QED
    BY <2>1 DEF WrittenInv, Done
<1>8. CASE FlushCall \/ RestoreStart \/ RestoreEnd
  <2>1. request = NoRequest /\ request' = request
    BY <1>8, Zenon DEF FlushCall, RestoreStart, RestoreEnd, Idle
  <2> QED
    BY <2>1, IdleView
<1>9. CASE MakeRoom \/ MoveExtent \/ FlushEnd
  <2>1. flushing /\ request' = request
    BY <1>9, Zenon DEF MakeRoom, MoveExtent, FlushEnd
  <2> QED
    BY <1>2, <2>1, ListParts, IdleView
<1> QED
  BY <1>4, <1>5, <1>6, <1>7, <1>8, <1>9, Zenon DEF BlockMapNext

LEMMA RoomStep ==
    ASSUME MapInv, RoomInv, BlockMapNext
    PROVE  RoomInv'
<1>1. UNCHANGED buffer_size
  BY Zenon DEF BlockMapNext
<1>2. ListInv /\ CountersOK
  BY DEF MapInv, ListInv
<1>3. /\ Buffered /\ dirty > 0 => dirty + open_current_free <= buffer_size
      /\ Buffered /\ dirty = 0 /\ ~flushing => open_current_free = 0
      /\ open_start_record = 0 => open_current_free = 0
  BY DEF RoomInv
<1>4. /\ dirty \in Nat /\ open_current_free \in Nat /\ buffer_size \in Nat
      /\ Buffered => dirty <= buffer_size /\ buffer_size > 2
  BY <1>2, BlockMapAssumption DEF CountersOK, Buffered
<1>5. (Buffered' => Buffered) /\ (Buffered => Buffered')
  BY <1>1 DEF Buffered
<1>6. CASE WriteCall \/ WriteMapped
  <2>1. UNCHANGED <<dirty, open_current_free, flushing, open_start_record>>
    BY <1>6, Zenon DEF WriteCall, WriteMapped, bufferVars, frameVars, regionVars
  <2> QED
    BY <1>1, <1>3, <1>5, <2>1 DEF RoomInv
<1>7. CASE WriteUnmapped
  <2>1. /\ request.left > 0 /\ ~Hit.mapped /\ ~AtEnd
        /\ open_current_free' = RoomLeft - StepLength
        /\ open_current_frame' = IF NeedsFrame THEN next_free_frame ELSE open_current_frame
        /\ open_start_record' = IF open_start_record = 0 THEN open_current_frame'
                                ELSE open_start_record
        /\ IF ~Buffered THEN UNCHANGED bufferVars
           ELSE dirty' = (IF NeedsFrame THEN 1 ELSE dirty) + (IF Fails THEN 0 ELSE StepLength)
    BY <1>7, UnmappedIs, Zenon
  <2>2. StepLength \in Nat /\ StepLength >= 1 /\ StepLength <= RoomLeft /\ RoomLeft \in Nat
    BY <1>2, <2>1, StepIs
  <2>3. open_start_record' # 0
    <3>1. open_start_record = 0 => NeedsFrame
      BY <1>3 DEF NeedsFrame
    <3>2. next_free_frame # 0
      BY <1>2 DEF CountersOK
    <3> QED
      BY <2>1, <3>1, <3>2
  <2>4. CASE ~Buffered
    BY <1>5, <2>3, <2>4 DEF RoomInv
  <2>5. CASE Buffered /\ NeedsFrame
    <3>1. RoomLeft <= buffer_size - 1
      <4>1. Hit.n \in Nat /\ Hit.n >= 1
        BY <1>2, <2>1, HitBounds
      <4> QED
        BY <1>2, <2>1, <2>5, <4>1, StepLengthIs
    <3>2. dirty' = 1 + (IF Fails THEN 0 ELSE StepLength)
      BY <2>1, <2>5
    <3>3. dirty' + open_current_free' <= buffer_size /\ dirty' > 0
      BY <1>4, <2>1, <2>2, <3>1, <3>2
    <3>4. ~(dirty' = 0)
      BY <2>2, <3>2
    <3> QED
      BY <1>1, <2>3, <3>3, <3>4 DEF RoomInv
  <2>6. CASE Buffered /\ ~NeedsFrame
    <3>1. /\ RoomLeft = open_current_free /\ open_current_free # 0
          /\ dirty' = dirty + (IF Fails THEN 0 ELSE StepLength)
      BY <2>1, <2>6 DEF RoomLeft, NeedsFrame
    <3>2. ~flushing
      BY <1>2, <2>1, ListParts
    <3>3. dirty > 0
      BY <1>3, <1>4, <2>6, <3>1, <3>2
    <3>4. dirty' + open_current_free' <= buffer_size /\ ~(dirty' = 0)
      BY <1>3, <1>4, <2>1, <2>2, <2>6, <3>1, <3>3
    <3> QED
      BY <1>1, <2>3, <3>4 DEF RoomInv
  <2> QED
    BY <2>4, <2>5, <2>6
<1>8. CASE WriteFull
  <2>1. /\ NeedsFrame /\ UNCHANGED <<open_current_free, open_start_record, flushing>>
        /\ dirty' = 0 \/ dirty' = dirty
    <3>1. /\ UNCHANGED <<open_current_free, open_start_record, flushing>> /\ Full
          /\ IF open_current_frame # 0 THEN journal' = Written /\ dirty' = 0
             ELSE UNCHANGED <<journal, dirty>>
      BY <1>8, Zenon DEF WriteFull, regionVars
    <3> QED
      BY <3>1 DEF Full, AtEnd
  <2>2. open_current_free = 0
    BY <1>3, <1>4, <2>1 DEF NeedsFrame
  <2>3. Buffered' /\ dirty' > 0 => dirty' + open_current_free' <= buffer_size'
    BY <1>1, <1>4, <1>5, <2>1, <2>2
  <2> QED
    BY <2>1, <2>2, <2>3 DEF RoomInv
<1>9. CASE FlushCall
  <2>1. flushing' /\ dirty' = 0 /\ UNCHANGED <<open_current_free, open_start_record>>
    BY <1>9, Zenon DEF FlushCall, frameVars
  <2> QED
    BY <1>3, <2>1 DEF RoomInv
<1>10. CASE MakeRoom \/ MoveExtent \/ RestoreEnd
  <2>1. UNCHANGED <<dirty, open_current_free, flushing, open_start_record>>
    BY <1>10, Zenon DEF MakeRoom, MoveExtent, RestoreEnd, bufferVars, frameVars, regionVars
  <2> QED
    BY <1>1, <1>3, <1>5, <2>1 DEF RoomInv
<1>11. CASE FlushEnd \/ RestoreStart
  <2>1. open_current_free' = 0 /\ (dirty' = 0 \/ dirty' = dirty)
    BY <1>11, Zenon DEF FlushEnd, RestoreStart
  <2>2. Buffered' /\ dirty' > 0 => dirty' + open_current_free' <= buffer_size'
    BY <1>1, <1>4, <1>5, <2>1
  <2> QED
    BY <2>1, <2>2 DEF RoomInv
<1> QED
  BY <1>6, <1>7, <1>8, <1>9, <1>10, <1>11, Zenon DEF BlockMapNext

LEMMA OpenFromIs ==
    ASSUME CountersOK, RecordsInv
    PROVE  /\ OpenFrom \in Nat /\ OpenFrom <= next_free_frame
           /\ flushed_start_record # 0 => flushed_last_block < OpenFrom
  BY DEF CountersOK, RecordsInv, OpenFrom

\* Where the blocks of the open session begin does not change while it writes.
LEMMA OpenFromKept ==
    ASSUME MapInv, RoomInv, RecordsInv, WriteUnmapped
    PROVE  OpenFrom' = OpenFrom
<1>1. /\ open_current_frame' = IF NeedsFrame THEN next_free_frame ELSE open_current_frame
      /\ open_start_record' = IF open_start_record = 0 THEN open_current_frame'
                              ELSE open_start_record
      /\ UNCHANGED <<flushed_start_record, flushed_last_block>>
  BY UnmappedIs, Zenon
<1>2. open_start_record = 0 => NeedsFrame
  BY DEF RoomInv, NeedsFrame
<1>3. next_free_frame # 0
  BY DEF MapInv, ListInv, CountersOK
<1>4. CASE open_start_record = 0
  BY <1>1, <1>2, <1>3, <1>4 DEF OpenFrom
<1>5. CASE open_start_record # 0
  BY <1>1, <1>5 DEF OpenFrom
<1> QED
  BY <1>4, <1>5

LEMMA RecordsStep ==
    ASSUME MapInv, MapInv', RoomInv, RecordsInv, BlockMapNext
    PROVE  RecordsInv'
<1>1. ListInv /\ CountersOK /\ CountersOK'
  BY DEF MapInv, ListInv
<1>2. /\ index \in [JournalBlocks -> Nat]
      /\ open_start_record \in Nat /\ flushed_start_record \in Nat /\ flushed_last_block \in Nat
      /\ open_start_record < next_free_frame /\ flushed_start_record <= flushed_last_block
      /\ flushed_last_block < next_free_frame
      /\ \A j \in JournalBlocks : j >= next_free_frame => index[j] = 0
      /\ open_remapped => open_start_record # 0
      /\ flushing => /\ open_remapped /\ flushed_start_record # 0
                     /\ flushed_last_block = next_free_frame - 1
      /\ flushed_start_record = 0 => flushed = <<>>
      /\ open_remapped \/ Dead \/ Fresh
  BY DEF RecordsInv
<1>3. next_free_frame \in Nat /\ next_free_frame >= 2 /\ OpenFrom \in Nat /\ OpenFrom <= next_free_frame
  BY <1>1, OpenFromIs DEF CountersOK
<1>4. CASE WriteCall
  <2>1. /\ UNCHANGED <<open, flushed, pbm, flushing, next_free_frame, open_current_free, open_remapped>>
        /\ UNCHANGED <<open_start_record, flushed_start_record, flushed_last_block, index>>
    BY <1>4, Zenon DEF WriteCall, listVars, frameVars, regionVars
  <2> QED
    BY <2>1 DEF RecordsInv, Dead, Fresh, OpenFrom
<1>5. CASE WriteMapped
  <2>1. /\ request.left > 0 /\ Hit.mapped
        /\ UNCHANGED <<flushed, flushing, next_free_frame, open_current_free, open_remapped>>
        /\ UNCHANGED <<open_start_record, flushed_start_record, flushed_last_block, index>>
    BY <1>5, Zenon DEF WriteMapped, Hit, frameVars, regionVars
  <2>2. ~Fresh
    <3>1. ScanResult(open, request.at, request.left, Hit) /\ request.at \in VolumeBlocks
      BY <1>1, <2>1, HitIs, RequestIs, ListParts
    <3>2. MapOf(open)[request.at] # 0
      BY <2>1, <3>1 DEF ScanResult
    <3> QED
      BY <3>1, <3>2, EmptyList DEF Fresh
  <2>3. open_remapped' \/ Dead'
    BY <1>2, <2>1, <2>2 DEF Dead
  <2> QED
    BY <1>2, <2>1, <2>3 DEF RecordsInv
<1>6. CASE WriteUnmapped
  <2>1. /\ request.left > 0 /\ ~Hit.mapped /\ ~AtEnd
        /\ open_current_frame' = IF NeedsFrame THEN next_free_frame ELSE open_current_frame
        /\ open_start_record' = IF open_start_record = 0 THEN open_current_frame'
                                ELSE open_start_record
        /\ next_free_frame' = FirstBlock + StepLength
        /\ open_remapped' = TRUE
        /\ index' = [k \in JournalBlocks |-> IF k \in FirstBlock .. FirstBlock + StepLength - 1
                                             THEN request.at + (k - FirstBlock) ELSE index[k]]
        /\ UNCHANGED <<flushed, flushing, flushed_start_record, flushed_last_block>>
    BY <1>6, UnmappedIs, Zenon
  <2>2. PICK n, j, at : n = StepLength /\ j = FirstBlock /\ at = request.at
    OBVIOUS
  <2>3. n \in Nat /\ n >= 1 /\ j \in Nat /\ j >= next_free_frame /\ at \in Nat
    BY <1>1, <2>1, <2>2, StepIs, RequestIs, ListParts
  <2>4. next_free_frame' = j + n
        /\ index' = [k \in JournalBlocks |-> IF k \in j .. j + n - 1 THEN at + (k - j) ELSE index[k]]
    BY <2>1, <2>2
  <2>5. \A k \in JournalBlocks : k \in Nat
    BY BlockMapAssumption DEF JournalBlocks
  <2>6. index' \in [JournalBlocks -> Nat]
    <3>1. ASSUME NEW k \in JournalBlocks, k \in j .. j + n - 1 PROVE at + (k - j) \in Nat
      BY <2>3, <2>5, <3>1
    <3> QED
      BY <1>2, <2>4, <3>1
  <2>7. ASSUME NEW k \in JournalBlocks, k >= next_free_frame' PROVE index'[k] = 0
    <3>1. ~(k \in j .. j + n - 1) /\ k >= next_free_frame
      BY <1>3, <2>3, <2>4, <2>5, <2>7
    <3> QED
      BY <1>2, <2>4, <3>1
  <2>8. open_start_record' \in Nat /\ open_start_record' # 0 /\ open_start_record' < next_free_frame'
    <3>1. open_start_record = 0 => NeedsFrame
      BY DEF RoomInv, NeedsFrame
    <3>2. open_start_record' = IF open_start_record = 0 THEN next_free_frame ELSE open_start_record
      BY <2>1, <3>1
    <3> QED
      BY <1>2, <1>3, <2>3, <2>4, <3>2
  <2>9. flushed_last_block' < next_free_frame'
    BY <1>2, <1>3, <2>1, <2>3, <2>4
  <2>10. ~flushing'
    BY <1>1, <2>1, ListParts
  <2> QED
    BY <1>2, <2>1, <2>6, <2>7, <2>8, <2>9, <2>10 DEF RecordsInv
<1>7. CASE WriteFull
  <2>1. /\ request.left > 0 /\ open_remapped' = FALSE /\ Full
        /\ UNCHANGED <<flushed, flushing, next_free_frame, open_current_free>>
        /\ UNCHANGED <<open_start_record, flushed_start_record, flushed_last_block, index>>
    BY <1>7, Zenon DEF WriteFull, regionVars
  <2>2. Dead'
    <3>1. NeedsFrame /\ JournalSize - next_free_frame < 2
      BY <2>1 DEF Full, AtEnd, BlocksLeft
    <3>2. /\ dirty \in Nat /\ open_current_free \in Nat /\ buffer_size \in Nat
          /\ Buffered => buffer_size > 2
      BY <1>1, BlockMapAssumption DEF CountersOK, Buffered
    <3>3. open_current_free = 0
      BY <3>1, <3>2 DEF RoomInv, NeedsFrame
    <3> QED
      BY <2>1, <3>1, <3>3 DEF Dead
  <2>3. ~flushing'
    BY <1>1, <2>1, ListParts
  <2> QED
    BY <1>2, <2>1, <2>2, <2>3 DEF RecordsInv
<1>8. CASE FlushCall
  <2>1. /\ open_remapped /\ flushing' = TRUE
        /\ flushed_start_record' = IF flushed_start_record = 0 THEN open_start_record
                                   ELSE flushed_start_record
        /\ flushed_last_block' = FlushedTo
        /\ UNCHANGED <<open, flushed, pbm, next_free_frame, open_current_free, open_remapped,
                       open_start_record, index>>
    BY <1>8, Zenon DEF FlushCall, listVars, frameVars
  <2>2. flushed_last_block' = next_free_frame - 1
    BY <2>1 DEF FlushedTo
  <2>3. /\ flushed_start_record' \in Nat /\ flushed_last_block' \in Nat /\ flushed_start_record' # 0
        /\ flushed_start_record' <= flushed_last_block' /\ flushed_last_block' < next_free_frame'
    BY <1>2, <1>3, <2>1, <2>2
  <2> QED
    BY <1>2, <2>1, <2>2, <2>3 DEF RecordsInv
<1>9. CASE MakeRoom \/ MoveExtent
  <2>1. /\ flushing
        /\ UNCHANGED <<flushing, next_free_frame, open_current_free, open_remapped>>
        /\ UNCHANGED <<open_start_record, flushed_start_record, flushed_last_block, index>>
    BY <1>9, Zenon DEF MakeRoom, MoveExtent, frameVars, regionVars, dataVars
  <2> QED
    BY <1>2, <2>1 DEF RecordsInv
<1>10. CASE FlushEnd
  <2>1. /\ flushing /\ open = <<>> /\ flushing' = FALSE /\ open_remapped' = FALSE
        /\ UNCHANGED <<open, flushed, pbm, next_free_frame>>
        /\ UNCHANGED <<open_start_record, flushed_start_record, flushed_last_block, index>>
    BY <1>10, Zenon DEF FlushEnd, regionVars, dataVars
  <2>2. pbm = None
    BY <1>1, <2>1, ListParts
  <2>3. OpenFrom' = next_free_frame
    BY <1>2, <1>3, <2>1 DEF OpenFrom
  <2>4. Fresh'
    BY <1>2, <2>1, <2>2, <2>3 DEF Fresh
  <2> QED
    BY <1>2, <2>1, <2>4 DEF RecordsInv
<1>11. CASE RestoreStart
  <2>1. /\ ~flushing /\ ~open_remapped /\ flushed' = <<>> /\ open_current_free' = 0
        /\ open_start_record' = 0 /\ flushed_start_record' = 0 /\ flushed_last_block' = 0
        /\ UNCHANGED <<open, pbm, flushing, next_free_frame, open_remapped, index>>
    BY <1>11, Zenon DEF RestoreStart, Idle, dataVars
  <2>2. OpenFrom' = next_free_frame
    BY <2>1 DEF OpenFrom
  <2>3. Dead' \/ Fresh'
    BY <1>2, <2>1, <2>2 DEF Dead, Fresh
  <2> QED
    BY <1>2, <1>3, <2>1, <2>3 DEF RecordsInv
<1>12. CASE RestoreEnd
  <2>1. /\ UNCHANGED <<open, flushed, pbm, flushing, next_free_frame, open_current_free, open_remapped>>
        /\ UNCHANGED <<open_start_record, flushed_start_record, flushed_last_block, index>>
    BY <1>12, Zenon DEF RestoreEnd, regionVars
  <2> QED
    BY <2>1 DEF RecordsInv, Dead, Fresh, OpenFrom
<1> QED
  BY <1>4, <1>5, <1>6, <1>7, <1>8, <1>9, <1>10, <1>11, <1>12, Zenon DEF BlockMapNext

LEMMA MappedRange ==
    ASSUME ListInv, request.left > 0, Hit.mapped,
           NEW v \in VolumeBlocks, request.at <= v, v < request.at + Hit.n
    PROVE  /\ MapOf(open)[v] # 0 /\ MapOf(open)[v] = Hit.jnl + (v - request.at)
           /\ Current(v) = MapOf(open)[v]
<1>1. ScanResult(open, request.at, request.left, Hit) /\ request.left \in Nat
      /\ request.at \in Nat /\ request.at >= 1 /\ v \in Nat
  BY HitIs, RequestIs, ListParts, BlockMapAssumption DEF VolumeBlocks
<1>2. Hit.n \in 1 .. request.left /\ Hit.jnl \in Nat /\ MapOf(open)[request.at] # 0
  BY <1>1 DEF ScanResult
<1>3. v \in request.at .. request.at + Hit.n - 1 /\ request.at \in request.at .. request.at + Hit.n - 1
  BY <1>1, <1>2
<1>4. /\ MapOf(open)[v] = Hit.jnl + (v - request.at)
      /\ MapOf(open)[request.at] = Hit.jnl + (request.at - request.at)
  BY <1>1, <1>3 DEF ScanResult
<1>5. MapOf(open)[v] # 0
  BY <1>1, <1>2, <1>4
<1> QED
  BY <1>4, <1>5, CurrentIs

\* A block with no replacement in the session has the contents it had.
LEMMA ViewNext ==
    ASSUME MapInv, WrittenInv, BlockMapNext, ~flushing,
           NEW v \in VolumeBlocks, view'[v] # Unknown, Current(v)' = 0
    PROVE  Current(v) = 0 /\ view[v] # Unknown /\ view'[v] = view[v]
<1>1. UNCHANGED buffer_size
  BY Zenon DEF BlockMapNext
<1>2. ListInv /\ v \in Nat
  BY BlockMapAssumption DEF MapInv, VolumeBlocks
<1>3. /\ Done(v) => Current(v) # 0
      /\ request # NoRequest /\ request.first <= v /\ v < request.at + request.left
            => view[v] = Unknown
  BY DEF WrittenInv
<1>4. CASE WriteCall
  <2>1. /\ UNCHANGED <<open, pbm>>
        /\ \E first \in VolumeBlocks : \E n \in 1 .. Width - first + 1 :
              view' = [w \in VolumeBlocks |->
                          IF w \in first .. first + n - 1 THEN Unknown ELSE view[w]]
    BY <1>4, Zenon DEF WriteCall, listVars
  <2>2. Current(v)' = Current(v)
    BY <2>1 DEF Current
  <2>3. view'[v] = Unknown \/ view'[v] = view[v]
    BY <2>1
  <2> QED
    BY <2>2, <2>3
<1>5. CASE WriteMapped
  <2>1. PICK n \in 0 .. Hit.n : ViewStep(n)
    BY <1>2, <1>5, WriteMappedView
  <2>2. request.left > 0 /\ Hit.mapped
    BY <1>5, Zenon DEF WriteMapped, Hit
  <2>3. Current(v) = 0
    BY <1>1, <1>2, <1>5, WriteMappedOK
  <2>4. ~(request.at <= v /\ v < request.at + n)
    <3>1. SUFFICES ASSUME request.at <= v, v < request.at + n PROVE FALSE
      OBVIOUS
    <3>2. Hit.n \in Nat /\ request.at \in Nat
      <4>1. ScanResult(open, request.at, request.left, Hit) /\ request.left \in Nat
            /\ request.at \in Nat
        BY <1>2, <2>2, HitIs, RequestIs, ListParts
      <4> QED
        BY <4>1 DEF ScanResult
    <3>3. v < request.at + Hit.n
      BY <1>2, <3>1, <3>2
    <3> QED
      BY <1>2, <2>2, <2>3, <3>1, <3>3, MappedRange
  <2>5. view'[v] = view[v]
    BY <1>3, <2>1, <2>3, <2>4 DEF ViewStep
  <2> QED
    BY <2>3, <2>5
<1>6. CASE WriteUnmapped
  <2>1. request.left > 0 /\ ~Hit.mapped /\ ~AtEnd
    BY <1>6, UnmappedIs, Zenon
  <2>2. StepDone(Fails, 0) \/ StepDone(Fails, 1)
    BY <1>1, <1>2, <1>6, WriteUnmappedOK
  <2>3. Current(v)' = IF ~Fails /\ InStep(v) THEN FirstBlock + (v - request.at) ELSE Current(v)
    BY <2>2, Zenon DEF StepDone
  <2>4. CASE Fails
    <3>1. view' = view
      BY <1>2, <1>6, <2>4, WriteUnmappedView
    <3> QED
      BY <2>3, <2>4, <3>1
  <2>5. CASE ~Fails
    <3>1. ViewStep(StepLength)
      BY <1>2, <1>6, <2>5, WriteUnmappedView
    <3>2. ~InStep(v)
      <4>1. SUFFICES ASSUME InStep(v) PROVE FALSE
        OBVIOUS
      <4>2. FirstBlock \in Nat /\ FirstBlock >= 2 /\ request.at \in Nat /\ request.at <= v
        BY <1>2, <2>1, <4>1, StepIs, RequestIs, ListParts DEF InStep
      <4> QED
        BY <1>2, <2>3, <2>5, <4>1, <4>2
    <3>3. Current(v) = 0
      BY <2>3, <3>2
    <3>4. view'[v] = view[v]
      BY <1>3, <3>1, <3>2, <3>3 DEF ViewStep, InStep
    <3> QED
      BY <3>3, <3>4
  <2> QED
    BY <2>4, <2>5
<1>7. CASE WriteFull
  <2>1. request.left > 0 /\ open' = open /\ pbm' = None /\ view' = view
    BY <1>7, Zenon DEF WriteFull, GiveUp
  <2>2. MapOf(open)[v] = 0
    BY <2>1 DEF Current
  <2>3. ~Covers(pbm, v)
    <3>1. SUFFICES ASSUME Covers(pbm, v) PROVE FALSE
      OBVIOUS
    <3>2. RequestOK /\ PbmOK /\ request # NoRequest
      BY <1>2, <2>1, ListParts, RequestIs
    <3>3. pbm # None
      BY <1>2, <3>1, NoneCovers
    <3>4. LastBlock(pbm) = request.at - 1 /\ request.first <= pbm.vol /\ pbm \in Extents
      BY <3>2, <3>3 DEF PbmOK, CanQueue
    <3>5. pbm.vol \in Nat /\ request.first \in Nat /\ request.at \in Nat /\ request.left \in Nat
      BY <2>1, <3>2, <3>4, ExtentIs, RequestIs
    <3>6. request.first <= v /\ v < request.at + request.left
      BY <1>2, <2>1, <3>1, <3>4, <3>5 DEF Covers
    <3> QED
      BY <1>3, <2>1, <3>2, <3>6
  <2>4. Current(v) = 0
    BY <2>2, <2>3 DEF Current, At
  <2> QED
    BY <2>1, <2>4
<1>8. CASE FlushCall \/ RestoreStart \/ RestoreEnd
  <2>1. UNCHANGED <<open, pbm, view>>
    BY <1>8, Zenon DEF FlushCall, RestoreStart, RestoreEnd, listVars, dataVars
  <2> QED
    BY <2>1 DEF Current
<1>9. CASE MakeRoom \/ MoveExtent \/ FlushEnd
  BY <1>9, Zenon DEF MakeRoom, MoveExtent, FlushEnd
<1> QED
  BY <1>4, <1>5, <1>6, <1>7, <1>8, <1>9, Zenon DEF BlockMapNext

LEMMA OpenIndexStep ==
    ASSUME MapInv, MapInv', IndexInv, RecordsInv', BlockMapNext
    PROVE  OpenIndexInv'
<1>1. UNCHANGED buffer_size
  BY Zenon DEF BlockMapNext
<1>2. ListInv /\ CountersOK /\ JournalInv /\ WrittenInv /\ RoomInv /\ RecordsInv /\ OpenIndexInv
  BY DEF MapInv, ListInv, IndexInv
<1>3. OpenFrom \in Nat /\ OpenFrom <= next_free_frame /\ next_free_frame \in Nat
  BY <1>2, OpenFromIs DEF CountersOK
<1>4. open_remapped /\ ~flushing =>
        \A v \in VolumeBlocks :
           /\ Current(v) # 0 =>
                 /\ Current(v) >= OpenFrom /\ index[Current(v)] = v
                 /\ \A j \in JournalBlocks : index[j] = v => j <= Current(v)
           /\ view[v] # Unknown /\ Current(v) = 0 =>
                 \A j \in JournalBlocks : j >= OpenFrom => index[j] # v
  BY <1>2 DEF OpenIndexInv
<1>5. CASE WriteCall \/ WriteMapped
  <2>1. /\ UNCHANGED <<open_remapped, flushing, index, next_free_frame>>
        /\ UNCHANGED <<open_start_record, flushed_start_record, flushed_last_block>>
    BY <1>5, Zenon DEF WriteCall, WriteMapped, frameVars, regionVars
  <2>2. OpenFrom' = OpenFrom
    BY <2>1 DEF OpenFrom
  <2>3. \A v \in VolumeBlocks : Current(v)' = Current(v)
    <3>1. CASE WriteCall
      <4>1. UNCHANGED <<open, pbm>>
        BY <3>1, Zenon DEF WriteCall, listVars
      <4> QED
        BY <4>1 DEF Current
    <3>2. CASE WriteMapped
      BY <1>1, <1>2, <3>2, WriteMappedOK
    <3> QED
      BY <1>5, <3>1, <3>2
  <2>4. SUFFICES ASSUME open_remapped, ~flushing, NEW v \in VolumeBlocks
                 PROVE  /\ Current(v)' # 0 =>
                              /\ Current(v)' >= OpenFrom /\ index[Current(v)'] = v
                              /\ \A j \in JournalBlocks : index[j] = v => j <= Current(v)'
                        /\ view'[v] # Unknown /\ Current(v)' = 0 =>
                              \A j \in JournalBlocks : j >= OpenFrom => index[j] # v
    BY <2>1, <2>2 DEF OpenIndexInv
  <2>5. view'[v] # Unknown /\ Current(v)' = 0 => view[v] # Unknown /\ Current(v) = 0
    BY <1>2, <2>4, ViewNext
  <2> QED
    BY <1>4, <2>3, <2>4, <2>5
<1>6. CASE WriteUnmapped
  <2>1. /\ request.left > 0 /\ ~Hit.mapped /\ ~AtEnd
        /\ index' = [k \in JournalBlocks |-> IF k \in FirstBlock .. FirstBlock + StepLength - 1
                                             THEN request.at + (k - FirstBlock) ELSE index[k]]
        /\ UNCHANGED <<flushed, flushing, flushed_start_record, flushed_last_block>>
    BY <1>6, UnmappedIs, Zenon
  <2>2. ~flushing /\ ~Dead
    <3>1. ~flushing
      BY <1>2, <2>1, ListParts
    <3>2. Dead => AtEnd
      BY DEF Dead, AtEnd, NeedsFrame, BlocksLeft
    <3> QED
      BY <2>1, <3>1, <3>2
  <2>3. OpenFrom' = OpenFrom
    BY <1>2, <1>6, OpenFromKept
  <2>4. PICK n, f, at : n = StepLength /\ f = FirstBlock /\ at = request.at
    OBVIOUS
  <2>5. /\ n \in Nat /\ n >= 1 /\ f \in Nat /\ f >= next_free_frame /\ at \in Nat /\ f >= 2 /\ at >= 1
        /\ f + n <= JournalSize /\ \A w \in VolumeBlocks : InStep(w) => Current(w) = 0
    <3>1. /\ StepLength \in Nat /\ StepLength >= 1 /\ FirstBlock \in Nat /\ FirstBlock >= next_free_frame
          /\ FirstBlock >= 2 /\ StepLength <= RoomLeft /\ RoomLeft \in Nat
          /\ FirstBlock + RoomLeft <= JournalSize
          /\ \A w \in VolumeBlocks : InStep(w) => Current(w) = 0
      BY <1>2, <2>1, StepIs
    <3>2. request.at \in Nat /\ request.at >= 1
      BY <1>2, <2>1, RequestIs, ListParts, BlockMapAssumption DEF VolumeBlocks
    <3> QED
      BY <2>4, <3>1, <3>2, BlockMapAssumption
  <2>6. index' = [k \in JournalBlocks |-> IF k \in f .. f + n - 1 THEN at + (k - f) ELSE index[k]]
    BY <2>1, <2>4
  <2>7. \A k \in JournalBlocks : k \in Nat
    BY BlockMapAssumption DEF JournalBlocks
  <2>8. \A k \in JournalBlocks : k >= next_free_frame => index[k] = 0
    BY <1>2 DEF RecordsInv
  <2>9. StepDone(Fails, 0) \/ StepDone(Fails, 1)
    BY <1>1, <1>2, <1>6, WriteUnmappedOK
  <2>10. SUFFICES ASSUME NEW v \in VolumeBlocks
                  PROVE  /\ Current(v)' # 0 =>
                              /\ Current(v)' >= OpenFrom /\ index'[Current(v)'] = v
                              /\ \A j \in JournalBlocks : index'[j] = v => j <= Current(v)'
                         /\ view'[v] # Unknown /\ Current(v)' = 0 =>
                              \A j \in JournalBlocks : j >= OpenFrom => index'[j] # v
    BY <2>3 DEF OpenIndexInv
  <2>11. Current(v)' = IF ~Fails /\ InStep(v) THEN f + (v - at) ELSE Current(v)
    BY <2>4, <2>9, Zenon DEF StepDone
  <2>12. v \in Nat /\ v >= 1 /\ (InStep(v) <=> at <= v /\ v < at + n)
    BY <2>4, BlockMapAssumption DEF InStep, VolumeBlocks
  <2>13. ASSUME NEW j \in JournalBlocks, index'[j] = v
         PROVE  \/ InStep(v) /\ j = f + (v - at)
                \/ index[j] = v /\ j < next_free_frame
    <3>1. CASE j \in f .. f + n - 1
      BY <2>5, <2>6, <2>7, <2>12, <2>13, <3>1
    <3>2. CASE ~(j \in f .. f + n - 1)
      <4>1. index[j] = v
        BY <2>6, <2>13, <3>2
      <4> QED
        BY <1>3, <2>7, <2>8, <2>12, <4>1
    <3> QED
      BY <3>1, <3>2
  <2>14. CASE ~Fails /\ InStep(v)
    <3>1. Current(v)' = f + (v - at) /\ Current(v)' \in f .. f + n - 1 /\ Current(v)' # 0
      BY <2>5, <2>11, <2>12, <2>14
    <3>2. Current(v)' \in JournalBlocks
      BY <2>5, <2>11, <2>12, <2>14, BlockMapAssumption DEF JournalBlocks
    <3>3. index'[Current(v)'] = v
      BY <2>5, <2>6, <2>12, <3>1, <3>2
    <3>4. Current(v)' >= OpenFrom
      BY <1>3, <2>5, <2>12, <2>14, <3>1
    <3>5. ASSUME NEW j \in JournalBlocks, index'[j] = v PROVE j <= Current(v)'
      BY <1>3, <2>5, <2>7, <2>12, <2>13, <2>14, <3>1, <3>5
    <3> QED
      BY <3>1, <3>3, <3>4, <3>5
  <2>15. CASE ~(~Fails /\ InStep(v)) /\ Current(v) # 0
    <3>1. Current(v)' = Current(v) /\ ~InStep(v)
      BY <2>5, <2>11, <2>15
    <3>2. open_remapped
      <4>1. ~Fresh
        <5>1. SUFFICES ASSUME open = <<>>, pbm = None PROVE FALSE
          BY DEF Fresh
        <5> QED
          BY <1>2, <2>15, <5>1, CurrentIs, EmptyList
      <4> QED
        BY <1>2, <2>2, <4>1 DEF RecordsInv
    <3>3. /\ Current(v) >= OpenFrom /\ index[Current(v)] = v
          /\ \A j \in JournalBlocks : index[j] = v => j <= Current(v)
      BY <1>4, <2>2, <2>15, <3>2
    <3>4. Current(v) \in JournalBlocks /\ Current(v) < next_free_frame
      <4>1. Current(v) \in Nat /\ Current(v) < next_free_frame /\ next_free_frame <= JournalSize
        BY <1>2, CurrentIs DEF JournalInv, CountersOK
      <4> QED
        BY <1>3, <2>15, <4>1, BlockMapAssumption DEF JournalBlocks
    <3>5. index'[Current(v)] = v
      BY <1>3, <2>5, <2>6, <2>7, <3>3, <3>4
    <3>6. ASSUME NEW j \in JournalBlocks, index'[j] = v PROVE j <= Current(v)
      BY <2>13, <3>1, <3>3, <3>6
    <3> QED
      BY <2>15, <3>1, <3>3, <3>5, <3>6
  <2>16. CASE ~(~Fails /\ InStep(v)) /\ Current(v) = 0
    <3>1. Current(v)' = 0
      BY <2>11, <2>16
    <3>2. ASSUME view'[v] # Unknown, NEW j \in JournalBlocks, j >= OpenFrom, index'[j] = v
          PROVE  FALSE
      <4>1. view[v] # Unknown /\ view'[v] = view[v]
        BY <1>2, <2>2, <3>1, <3>2, ViewNext
      <4>2. ~InStep(v)
        <5>1. SUFFICES ASSUME InStep(v) PROVE FALSE
          OBVIOUS
        <5>2. request # NoRequest /\ request.first <= request.at /\ request.first \in Nat
              /\ request.left \in Nat /\ request.left >= 1
          BY <1>2, <2>1, ListParts, RequestIs
        <5>3. StepLength \in 1 .. request.left
          BY <1>2, <2>1, StepIs
        <5>4. request.first <= v /\ v < request.at + request.left
          BY <2>4, <2>5, <2>12, <5>1, <5>2, <5>3
        <5> QED
          BY <1>2, <4>1, <5>2, <5>4 DEF WrittenInv
      <4>3. index[j] = v
        BY <2>13, <3>2, <4>2
      <4>4. CASE open_remapped
        BY <1>4, <2>2, <2>16, <3>2, <4>1, <4>3, <4>4
      <4>5. CASE Fresh
        BY <2>12, <3>2, <4>3, <4>5 DEF Fresh
      <4> QED
        BY <1>2, <2>2, <4>4, <4>5 DEF RecordsInv
    <3> QED
      BY <3>1, <3>2
  <2> QED
    BY <2>14, <2>15, <2>16
<1>7. CASE WriteFull \/ FlushEnd
  <2>1. open_remapped' = FALSE
    BY <1>7, Zenon DEF WriteFull, FlushEnd
  <2> QED
    BY <2>1 DEF OpenIndexInv
<1>8. CASE FlushCall \/ MakeRoom \/ MoveExtent
  <2>1. CASE FlushCall
    <3>1. flushing' = TRUE
      BY <2>1, Zenon DEF FlushCall
    <3> QED
      BY <3>1 DEF OpenIndexInv
  <2>2. CASE MakeRoom \/ MoveExtent
    <3>1. flushing /\ flushing' = flushing
      BY <2>2, Zenon DEF MakeRoom, MoveExtent
    <3> QED
      BY <3>1 DEF OpenIndexInv
  <2> QED
    BY <1>8, <2>1, <2>2
<1>9. CASE RestoreStart
  <2>1. ~open_remapped /\ open_remapped' = open_remapped
    BY <1>9, Zenon DEF RestoreStart
  <2> QED
    BY <2>1 DEF OpenIndexInv
<1>10. CASE RestoreEnd
  <2>1. /\ UNCHANGED <<open, pbm, open_remapped, flushing, index, next_free_frame, view>>
        /\ UNCHANGED <<open_start_record, flushed_start_record, flushed_last_block>>
    BY <1>10, Zenon DEF RestoreEnd, regionVars
  <2> QED
    BY <1>4, <2>1 DEF OpenIndexInv, OpenFrom, Current
<1> QED
  BY <1>5, <1>6, <1>7, <1>8, <1>9, <1>10, Zenon DEF BlockMapNext

\* The index records of a block among those of the frames flushed, and the last of them.
Records(v) ==
    {j \in JournalBlocks : flushed_start_record <= j /\ j <= flushed_last_block /\ index[j] = v}
LastRecord(S) == IF S = {} THEN 0 ELSE CHOOSE j \in S : \A k \in S : k <= j

LEMMA ReplayIs ==
    \A v \in VolumeBlocks :
        Replay(flushed_start_record, flushed_last_block)[v] = LastRecord(Records(v))
  BY DEF Replay, Records, LastRecord

LEMMA ReplayIsNext ==
    \A v \in VolumeBlocks :
        (Replay(flushed_start_record, flushed_last_block)[v])' = LastRecord(Records(v)')
<1>1. (\A v \in VolumeBlocks :
          Replay(flushed_start_record, flushed_last_block)[v] = LastRecord(Records(v)))'
  BY ReplayIs, PTL
<1> QED
  BY <1>1 DEF LastRecord

LEMMA LastIs ==
    ASSUME NEW S \in SUBSET Nat, NEW j \in S, \A k \in S : k <= j
    PROVE  LastRecord(S) = j
<1>1. \E i \in S : \A k \in S : k <= i
  OBVIOUS
<1>2. LastRecord(S) \in S /\ \A k \in S : k <= LastRecord(S)
  BY <1>1 DEF LastRecord
<1>3. LastRecord(S) \in Nat /\ j \in Nat /\ LastRecord(S) <= j /\ j <= LastRecord(S)
  BY <1>2
<1> QED
  BY <1>3

LEMMA FlushedAre ==
    ASSUME FlushedIndexInv, flushed_start_record # 0, NEW v \in VolumeBlocks, view[v] # Unknown
    PROVE  /\ flushing => FlushedLayer[v] = LastRecord(Records(v))
           /\ ~flushing /\ Current(v) = 0 => MapOf(flushed)[v] = LastRecord(Records(v))
  BY ReplayIs DEF FlushedIndexInv

\* A flush: the open session becomes part of what is flushed.
LEMMA FlushedByCall ==
    ASSUME MapInv, IndexInv, RecordsInv', FlushCall
    PROVE  FlushedIndexInv'
<1>1. /\ open_remapped /\ ~flushing /\ request = NoRequest /\ flushing' = TRUE
      /\ flushed_start_record' = IF flushed_start_record = 0 THEN open_start_record
                                 ELSE flushed_start_record
      /\ flushed_last_block' = FlushedTo
      /\ UNCHANGED <<open, flushed, pbm, next_free_frame, open_start_record, index, view>>
  BY Zenon DEF FlushCall, Idle, listVars, frameVars, dataVars
<1>2. ListInv /\ CountersOK /\ JournalInv /\ RecordsInv /\ OpenIndexInv /\ FlushedIndexInv
  BY DEF MapInv, ListInv, IndexInv
<1>3. /\ next_free_frame \in Nat /\ next_free_frame >= 2 /\ OpenFrom \in Nat
      /\ flushed_last_block' = next_free_frame - 1
      /\ flushed_start_record' \in Nat /\ flushed_start_record' # 0
  BY <1>1, <1>2, OpenFromIs DEF CountersOK, RecordsInv, FlushedTo
<1>4. /\ \A j \in JournalBlocks : j \in Nat
      /\ \A j \in JournalBlocks : j >= next_free_frame => index[j] = 0
  BY <1>2, BlockMapAssumption DEF RecordsInv, JournalBlocks
<1>5. flushed_start_record' <= OpenFrom
  BY <1>1, <1>2 DEF RecordsInv, OpenFrom
<1>6. SUFFICES ASSUME NEW v \in VolumeBlocks, view[v] # Unknown
               PROVE  FlushedLayer'[v] = LastRecord(Records(v)')
  BY <1>1, ReplayIsNext DEF FlushedIndexInv
<1>7. v \in Nat /\ v >= 1
  BY BlockMapAssumption DEF VolumeBlocks
<1>8. FlushedLayer'[v] = IF MapOf(open)[v] # 0 THEN MapOf(open)[v] ELSE MapOf(flushed)[v]
  BY <1>1, LayersAreNext
<1>9. pbm = None /\ Current(v) = MapOf(open)[v]
  <2>1. pbm = None
    BY <1>1, <1>2, ListParts DEF PbmOK
  <2> QED
    BY <1>2, <2>1, CurrentIs
<1>10. Records(v)' = {j \in JournalBlocks : flushed_start_record' <= j /\ j <= next_free_frame - 1
                                            /\ index[j] = v}
  BY <1>1, <1>3 DEF Records
<1>11. /\ Current(v) # 0 =>
             /\ Current(v) >= OpenFrom /\ index[Current(v)] = v
             /\ \A j \in JournalBlocks : index[j] = v => j <= Current(v)
       /\ Current(v) = 0 => \A j \in JournalBlocks : j >= OpenFrom => index[j] # v
  BY <1>1, <1>2, <1>6 DEF OpenIndexInv
<1>12. CASE Current(v) # 0
  <2>1. Current(v) \in Nat /\ Current(v) < next_free_frame /\ next_free_frame <= JournalSize
    BY <1>2, CurrentIs DEF JournalInv, CountersOK
  <2>2. Current(v) \in JournalBlocks
    BY <1>3, <1>12, <2>1, BlockMapAssumption DEF JournalBlocks
  <2>3. Current(v) \in Records(v)' /\ \A k \in Records(v)' : k <= Current(v)
    BY <1>3, <1>5, <1>10, <1>11, <1>12, <2>1, <2>2
  <2>4. Records(v)' \in SUBSET Nat
    BY <1>4, <1>10
  <2>5. LastRecord(Records(v)') = Current(v)
    BY <2>3, <2>4, LastIs
  <2> QED
    BY <1>8, <1>9, <1>12, <2>5
<1>13. CASE Current(v) = 0 /\ flushed_start_record # 0
  <2>1. MapOf(flushed)[v] = LastRecord(Records(v))
    BY <1>1, <1>2, <1>6, <1>13, FlushedAre
  <2>2. Records(v)' = Records(v)
    <3>1. flushed_start_record' = flushed_start_record /\ OpenFrom = flushed_last_block + 1
          /\ flushed_last_block \in Nat /\ flushed_last_block < next_free_frame
      BY <1>1, <1>2, <1>13 DEF OpenFrom, RecordsInv
    <3>2. ASSUME NEW j \in JournalBlocks, index[j] = v
          PROVE  j <= next_free_frame - 1 <=> j <= flushed_last_block
      BY <1>3, <1>4, <1>7, <1>11, <1>13, <3>1, <3>2
    <3> QED
      BY <1>10, <3>1, <3>2 DEF Records
  <2> QED
    BY <1>8, <1>9, <1>13, <2>1, <2>2
<1>14. CASE Current(v) = 0 /\ flushed_start_record = 0
  <2>1. MapOf(flushed)[v] = 0
    BY <1>2, <1>14, EmptyList DEF RecordsInv
  <2>2. flushed_start_record' = OpenFrom
    BY <1>1, <1>2, <1>14 DEF RecordsInv, OpenFrom
  <2>3. Records(v)' = {}
    BY <1>10, <1>11, <1>14, <2>2
  <2> QED
    BY <1>8, <1>9, <1>14, <2>1, <2>3 DEF LastRecord
<1> QED
  BY <1>12, <1>13, <1>14

\* Records that a write adds lie behind what is flushed.
LEMMA FlushedByWrite ==
    ASSUME MapInv, IndexInv, WriteUnmapped, BlockMapNext
    PROVE  FlushedIndexInv'
<1>1. /\ request.left > 0 /\ ~Hit.mapped /\ ~AtEnd
      /\ index' = [k \in JournalBlocks |-> IF k \in FirstBlock .. FirstBlock + StepLength - 1
                                           THEN request.at + (k - FirstBlock) ELSE index[k]]
      /\ UNCHANGED <<flushed, flushing, flushed_start_record, flushed_last_block>>
  BY UnmappedIs, Zenon
<1>2. ListInv /\ CountersOK /\ WrittenInv /\ RecordsInv /\ FlushedIndexInv
  BY DEF MapInv, ListInv, IndexInv
<1>3. ~flushing /\ FirstBlock \in Nat /\ FirstBlock >= next_free_frame
  BY <1>1, <1>2, StepIs, ListParts
<1>4. SUFFICES ASSUME flushed_start_record # 0, NEW v \in VolumeBlocks, view'[v] # Unknown,
                      Current(v)' = 0
               PROVE  MapOf(flushed)[v] = LastRecord(Records(v)')
  BY <1>1, <1>3, ReplayIsNext DEF FlushedIndexInv
<1>5. view[v] # Unknown /\ Current(v) = 0
  BY <1>2, <1>3, <1>4, ViewNext
<1>6. MapOf(flushed)[v] = LastRecord(Records(v))
  BY <1>2, <1>3, <1>4, <1>5, FlushedAre
<1>7. Records(v)' = Records(v)
  <2>1. flushed_last_block \in Nat /\ flushed_last_block < next_free_frame /\ next_free_frame \in Nat
        /\ \A j \in JournalBlocks : j \in Nat
    BY <1>2, BlockMapAssumption DEF RecordsInv, CountersOK, JournalBlocks
  <2>2. ASSUME NEW j \in JournalBlocks, j <= flushed_last_block PROVE index'[j] = index[j]
    <3>1. ~(j \in FirstBlock .. FirstBlock + StepLength - 1)
      BY <1>3, <2>1, <2>2
    <3> QED
      BY <1>1, <3>1
  <2> QED
    BY <1>1, <2>2 DEF Records
<1> QED
  BY <1>6, <1>7

LEMMA FlushedIndexStep ==
    ASSUME MapInv, IndexInv, RecordsInv', BlockMapNext
    PROVE  FlushedIndexInv'
<1>1. UNCHANGED buffer_size
  BY Zenon DEF BlockMapNext
<1>2. ListInv /\ CountersOK /\ WrittenInv /\ RecordsInv /\ FlushedIndexInv
  BY DEF MapInv, ListInv, IndexInv
<1>3. CASE WriteCall \/ WriteMapped \/ WriteFull \/ RestoreEnd
  <2>1. ~flushing
    <3>1. WriteMapped \/ WriteFull => request.left > 0
      BY Zenon DEF WriteMapped, WriteFull
    <3>2. WriteCall \/ RestoreEnd => ~flushing
      BY Zenon DEF WriteCall, RestoreEnd, Idle
    <3> QED
      BY <1>2, <1>3, <3>1, <3>2, ListParts
  <2>2. UNCHANGED <<flushed, flushing, flushed_start_record, flushed_last_block, index>>
    BY <1>3, Zenon DEF WriteCall, WriteMapped, WriteFull, RestoreEnd, listVars, regionVars
  <2>3. SUFFICES ASSUME flushed_start_record # 0, NEW v \in VolumeBlocks, view'[v] # Unknown,
                        Current(v)' = 0
                 PROVE  MapOf(flushed)[v] = LastRecord(Records(v)')
    BY <2>1, <2>2, ReplayIsNext DEF FlushedIndexInv
  <2>4. view[v] # Unknown /\ Current(v) = 0
    BY <1>2, <2>1, <2>3, ViewNext
  <2>5. MapOf(flushed)[v] = LastRecord(Records(v))
    BY <1>2, <2>1, <2>3, <2>4, FlushedAre
  <2>6. Records(v)' = Records(v)
    BY <2>2 DEF Records
  <2> QED
    BY <2>5, <2>6
<1>4. CASE WriteUnmapped
  BY <1>4, FlushedByWrite
<1>5. CASE FlushCall
  BY <1>5, FlushedByCall
<1>6. CASE MakeRoom \/ MoveExtent
  <2>1. /\ flushing' = flushing
        /\ UNCHANGED <<flushed_start_record, flushed_last_block, index, view>>
    BY <1>6, Zenon DEF MakeRoom, MoveExtent, regionVars, dataVars
  <2>2. flushing /\ \A v \in VolumeBlocks : FlushedLayer'[v] = FlushedLayer[v]
    <3>1. CASE MakeRoom
      <4>1. /\ flushing /\ flushing' /\ UNCHANGED open
            /\ \A v \in VolumeBlocks :
                  \/ MapOf(flushed')[v] = MapOf(flushed)[v]
                  \/ MapOf(flushed')[v] = 0 /\ MapOf(open)[v] # 0
        BY <1>1, <3>1, MakeRoomOK
      <4> QED
        BY <4>1, LayersAre, LayersAreNext
    <3>2. CASE MoveExtent
      <4>1. /\ flushing /\ flushing'
            /\ \A v \in VolumeBlocks :
                  (IF MapOf(open')[v] # 0 THEN MapOf(open')[v] ELSE MapOf(flushed')[v])
                     = (IF MapOf(open)[v] # 0 THEN MapOf(open)[v] ELSE MapOf(flushed)[v])
        BY <1>1, <3>2, MoveExtentOK
      <4> QED
        BY <4>1, LayersAre, LayersAreNext
    <3> QED
      BY <1>6, <3>1, <3>2
  <2>3. SUFFICES ASSUME flushed_start_record # 0, NEW v \in VolumeBlocks, view[v] # Unknown
                 PROVE  FlushedLayer'[v] = LastRecord(Records(v)')
    BY <2>1, <2>2, ReplayIsNext DEF FlushedIndexInv
  <2>4. FlushedLayer[v] = LastRecord(Records(v))
    BY <1>2, <2>2, <2>3, FlushedAre
  <2>5. Records(v)' = Records(v)
    BY <2>1 DEF Records
  <2> QED
    BY <2>2, <2>4, <2>5
<1>7. CASE FlushEnd
  <2>1. flushing /\ ~flushing' /\ UNCHANGED <<open, flushed, restoring>> /\ open = <<>>
    BY <1>1, <1>7, FlushEndOK
  <2>2. UNCHANGED <<flushed_start_record, flushed_last_block, index, view>>
    BY <1>7, Zenon DEF FlushEnd, regionVars, dataVars
  <2>3. SUFFICES ASSUME flushed_start_record # 0, NEW v \in VolumeBlocks, view[v] # Unknown
                 PROVE  MapOf(flushed)[v] = LastRecord(Records(v)')
    BY <2>1, <2>2, ReplayIsNext DEF FlushedIndexInv
  <2>4. FlushedLayer[v] = LastRecord(Records(v))
    BY <1>2, <2>1, <2>3, FlushedAre
  <2>5. FlushedLayer[v] = MapOf(flushed)[v]
    BY <2>1, LayersAre, EmptyList
  <2>6. Records(v)' = Records(v)
    BY <2>2 DEF Records
  <2> QED
    BY <2>4, <2>5, <2>6
<1>8. CASE RestoreStart
  <2>1. flushed_start_record' = 0
    BY <1>8, Zenon DEF RestoreStart
  <2> QED
    BY <2>1 DEF FlushedIndexInv
<1> QED
  BY <1>3, <1>4, <1>5, <1>6, <1>7, <1>8, Zenon DEF BlockMapNext

LEMMA IndexInitOK == ASSUME BlockMapInit PROVE IndexInv
<1>1. /\ open = <<>> /\ flushed = <<>> /\ pbm = None /\ request = NoRequest /\ flushing = FALSE
      /\ next_free_frame = 2 /\ open_current_free = RoomInFrame(JournalSize - 1, TRUE)
      /\ open_remapped = FALSE /\ open_start_record = 1
      /\ flushed_start_record = 0 /\ flushed_last_block = 0
      /\ dirty = (IF Buffered THEN 2 ELSE 0) /\ buffer_size \in BufferSizes
      /\ index = [j \in JournalBlocks |-> 0]
  BY Zenon DEF BlockMapInit
<1>2. WrittenInv
  BY <1>1 DEF WrittenInv, Done
<1>3. RoomInv
  <2>1. buffer_size \in Nat /\ (Buffered => buffer_size > 2) /\ FrameMax \in Nat /\ FrameMax > 0
        /\ JournalSize \in Nat
    BY <1>1, BlockMapAssumption DEF Buffered
  <2>2. Buffered => FrameLimit(TRUE) \in Nat /\ FrameLimit(TRUE) <= buffer_size - 2
    BY <2>1, Zenon, SMT DEF FrameLimit, Smaller
  <2>3. Buffered => open_current_free \in Int /\ open_current_free <= buffer_size - 2
    <3>1. PICK limit : limit = FrameLimit(TRUE)
      OBVIOUS
    <3>2. open_current_free = IF JournalSize - 1 > limit THEN limit ELSE JournalSize - 1 - 1
      BY <1>1, <3>1, Zenon DEF RoomInFrame
    <3>3. Buffered => limit \in Nat /\ limit <= buffer_size - 2
      BY <2>2, <3>1, Zenon
    <3> QED
      BY <2>1, <3>2, <3>3
  <2>4. open_start_record = 1 /\ (Buffered => dirty = 2)
    BY <1>1, Zenon
  <2> QED
    BY <2>1, <2>3, <2>4 DEF RoomInv
<1>4. RecordsInv
  <2>1. Fresh
    BY <1>1 DEF Fresh
  <2> QED
    BY <1>1, <2>1 DEF RecordsInv
<1>5. OpenIndexInv /\ FlushedIndexInv
  BY <1>1 DEF OpenIndexInv, FlushedIndexInv
<1> QED
  BY <1>2, <1>3, <1>4, <1>5 DEF IndexInv

LEMMA IndexStutter == ASSUME IndexInv, UNCHANGED mapVars PROVE IndexInv'
<1>1. /\ UNCHANGED <<open, flushed, pbm, request, flushing>>
      /\ UNCHANGED <<open_current_free, next_free_frame, open_remapped>>
      /\ UNCHANGED <<open_start_record, flushed_start_record, flushed_last_block>>
      /\ UNCHANGED <<dirty, buffer_size, index, view>>
  BY Zenon DEF mapVars, listVars, frameVars, regionVars, bufferVars, dataVars
<1>2. WrittenInv' /\ RoomInv' /\ RecordsInv' /\ OpenIndexInv'
  BY <1>1 DEF IndexInv, WrittenInv, RoomInv, RecordsInv, OpenIndexInv, Done, Current, Buffered,
              OpenFrom, Dead, Fresh
<1>3. FlushedIndexInv'
  BY <1>1 DEF IndexInv, FlushedIndexInv, Current, FlushedLayer, Replay
<1> QED
  BY <1>2, <1>3 DEF IndexInv

LEMMA IndexInvariant == BlockMapSpec => [](MapInv /\ IndexInv)
<1>1. BlockMapInit => MapInv /\ IndexInv
  BY InitOK, IndexInitOK
<1>2. ASSUME MapInv, IndexInv, [BlockMapNext]_mapVars PROVE MapInv' /\ IndexInv'
  <2>1. MapInv'
    BY <1>2, MapStep
  <2>2. CASE BlockMapNext
    <3>1. WrittenInv' /\ RoomInv'
      BY <1>2, <2>2, WrittenStep, RoomStep DEF IndexInv
    <3>2. RecordsInv'
      BY <1>2, <2>1, <2>2, RecordsStep DEF IndexInv
    <3>3. OpenIndexInv' /\ FlushedIndexInv'
      BY <1>2, <2>1, <2>2, <3>2, OpenIndexStep, FlushedIndexStep
    <3> QED
      BY <2>1, <3>1, <3>2, <3>3 DEF IndexInv
  <2>3. CASE UNCHANGED mapVars
    BY <1>2, <2>1, <2>3, IndexStutter
  <2> QED
    BY <1>2, <2>2, <2>3
<1> QED
  BY <1>1, <1>2, PTL DEF BlockMapSpec

\* What a mount would make of the frames flushed (fs_restore_from_file reading the index
\* of each) is what the flushed map says, for every block whose last write succeeded
\* before the flush: a crash between a flush and its restore changes nothing.
THEOREM FramesTellTheMap == BlockMapSpec => []FileAgreesWithMaps
<1>1. ASSUME MapInv, IndexInv PROVE FileAgreesWithMaps
  <2>1. SUFFICES ASSUME Idle, flushed_start_record # 0, NEW v \in VolumeBlocks,
                        view[v] # Unknown, MapOf(open)[v] = 0
                 PROVE  MapOf(flushed)[v] = Replay(flushed_start_record, flushed_last_block)[v]
    BY Zenon DEF FileAgreesWithMaps
  <2>2. ListInv /\ FlushedIndexInv /\ ~flushing /\ request = NoRequest
    BY <1>1, <2>1 DEF MapInv, IndexInv, Idle
  <2>3. pbm = None
    BY <2>2, ListParts DEF PbmOK
  <2>4. Current(v) = 0
    BY <2>1, <2>2, <2>3, CurrentIs
  <2> QED
    BY <2>1, <2>2, <2>4 DEF FlushedIndexInv
<1> QED
  BY <1>1, IndexInvariant, PTL

-----------------------------------------------------------------------------
(* What a read gives *)

LEMMA NoFailure ==
    ASSUME Roomy, ListInv, BufferInv, Fails, request.left > 0, ~Hit.mapped, ~AtEnd
    PROVE  ~Buffered
<1>1. next_free_frame \in Nat /\ next_free_frame + 1 <= JournalSize
  <2>1. /\ StepLength \in Nat /\ StepLength >= 1 /\ StepLength <= RoomLeft /\ RoomLeft \in Nat
        /\ FirstBlock \in Nat /\ FirstBlock >= next_free_frame
        /\ FirstBlock + RoomLeft <= JournalSize
    BY StepIs
  <2>2. next_free_frame \in Nat /\ JournalSize \in Nat
    BY CountersAre
  <2> QED
    BY <2>1, <2>2
<1>2. CASE ~Buffered
  BY <1>2
<1>3. CASE MapRecords >= JournalSize - 2
  <2>1. free_records = 0
    BY Zenon DEF Fails
  <2>2. MapRecords + 2 <= free_records + next_free_frame
    BY DEF BufferInv
  <2>3. MapRecords \in Nat /\ JournalSize \in Nat
    BY BlockMapAssumption
  <2> QED
    BY <1>1, <1>3, <2>1, <2>2, <2>3
<1> QED
  BY <1>2, <1>3 DEF Roomy

\* A write into new blocks does what it should to the buffer.
LEMMA UnmappedBuffer ==
    ASSUME Roomy, ListInv, RoomInv, BufferInv, WriteUnmapped, UNCHANGED buffer_size, Buffered
    PROVE  /\ ~Fails
           /\ NeedsFrame \/ dirty > 0
           /\ journal' = IF NeedsFrame THEN Written ELSE journal
           /\ buffer' = Put(buffer, FirstBlock, StepLength)
           /\ buffer_sector_start' = IF NeedsFrame THEN next_free_frame ELSE buffer_sector_start
           /\ dirty' = (IF NeedsFrame THEN 1 ELSE dirty) + StepLength
           /\ next_free_frame' = buffer_sector_start' + dirty' /\ dirty' > 0
           /\ FirstBlock = IF NeedsFrame THEN next_free_frame + 1 ELSE next_free_frame
<1>1. /\ request.left > 0 /\ ~Hit.mapped /\ ~AtEnd
      /\ next_free_frame' = FirstBlock + StepLength
      /\ journal' = (IF Fails \/ Buffered THEN (IF NeedsFrame THEN Written ELSE journal)
                     ELSE Put(IF NeedsFrame THEN Written ELSE journal, FirstBlock, StepLength))
      /\ buffer_sector_start' = IF NeedsFrame THEN next_free_frame ELSE buffer_sector_start
      /\ dirty' = (IF NeedsFrame THEN 1 ELSE dirty) + (IF Fails THEN 0 ELSE StepLength)
      /\ buffer' = IF Fails THEN buffer ELSE Put(buffer, FirstBlock, StepLength)
  BY UnmappedIs, Zenon
<1>2. ~Fails
  BY <1>1, NoFailure
<1>3. /\ StepLength \in Nat /\ StepLength >= 1 /\ next_free_frame \in Nat /\ dirty \in Nat
      /\ buffer_sector_start \in Nat /\ ~flushing
  BY <1>1, StepIs, CountersAre, ListParts
<1>4. NeedsFrame \/ dirty > 0
  BY <1>3 DEF RoomInv, NeedsFrame
<1>5. FirstBlock = IF NeedsFrame THEN next_free_frame + 1 ELSE next_free_frame
  BY DEF FirstBlock
<1>6. dirty' = (IF NeedsFrame THEN 1 ELSE dirty) + StepLength
      /\ buffer' = Put(buffer, FirstBlock, StepLength)
  BY <1>1, <1>2, Zenon
<1>7. journal' = IF NeedsFrame THEN Written ELSE journal
  BY <1>1, Zenon
<1>8. next_free_frame' = buffer_sector_start' + dirty' /\ dirty' > 0
  <2>1. CASE NeedsFrame
    BY <1>1, <1>3, <1>5, <1>6, <2>1
  <2>2. CASE ~NeedsFrame
    BY <1>1, <1>3, <1>4, <1>5, <1>6, <2>2 DEF BufferInv
  <2> QED
    BY <2>1, <2>2
<1> QED
  BY <1>1, <1>2, <1>4, <1>5, <1>6, <1>7, <1>8

LEMMA BufferStep ==
    ASSUME Roomy, MapInv, RoomInv, RecordsInv, BufferInv, BlockMapNext
    PROVE  BufferInv'
<1>1. UNCHANGED buffer_size
  BY Zenon DEF BlockMapNext
<1>2. ListInv /\ CountersOK /\ JournalInv
  BY DEF MapInv, ListInv
<1>3. /\ next_free_frame \in Nat /\ next_free_frame >= 2 /\ dirty \in Nat /\ free_records \in Nat
      /\ open_current_free \in Nat /\ buffer_size \in Nat /\ MapRecords \in Nat
      /\ buffer_sector_start \in Nat
      /\ Len(restoring) \in Nat
  BY <1>2, CountersAre, ListParts, BlockMapAssumption
<1>4. (Buffered' => Buffered) /\ (Buffered => Buffered')
  BY <1>1 DEF Buffered
<1>5. /\ ~Buffered \/ flushing => dirty = 0
      /\ ~open_remapped /\ flushed_start_record # 0 => dirty = 0
      /\ open_current_frame = 0 => dirty = 0 /\ open_current_free = 0
      /\ MapRecords + 2 <= free_records + next_free_frame
      /\ dirty > 0 => next_free_frame = buffer_sector_start + dirty
      /\ \A v \in VolumeBlocks :
            dirty > 0 => /\ MapOf(flushed)[v] # 0 => MapOf(flushed)[v] < buffer_sector_start
                         /\ MapOf(restoring)[v] # 0 => MapOf(restoring)[v] < buffer_sector_start
  BY DEF BufferInv
<1>6. CASE WriteCall \/ WriteMapped
  <2>1. /\ UNCHANGED <<dirty, buffer_sector_start, flushed, restoring, free_records, flushing>>
        /\ UNCHANGED <<open_current_frame, open_current_free, next_free_frame, open_remapped>>
        /\ UNCHANGED flushed_start_record
    BY <1>6, Zenon DEF WriteCall, WriteMapped, listVars, bufferVars, frameVars, regionVars
  <2> QED
    BY <1>4, <2>1 DEF BufferInv
<1>7. CASE WriteUnmapped
  <2>1. /\ request.left > 0 /\ ~Hit.mapped /\ ~AtEnd
        /\ next_free_frame' = FirstBlock + StepLength
        /\ open_current_frame' = IF NeedsFrame THEN next_free_frame ELSE open_current_frame
        /\ open_remapped' = TRUE
        /\ free_records' = free_records \/ (free_records # 0 /\ free_records' = free_records - 1)
        /\ ~Buffered => dirty' = dirty
        /\ UNCHANGED <<flushed, restoring, flushing>>
    <3>1. free_records' = free_records \/ (free_records # 0 /\ free_records' = free_records - 1)
      BY <1>7, UnmappedIs, Zenon
    <3>2. ~Buffered => dirty' = dirty
      BY <1>7, UnmappedIs, Zenon DEF bufferVars
    <3> QED
      BY <1>7, <3>1, <3>2, UnmappedIs, Zenon
  <2>2. StepLength \in Nat /\ StepLength >= 1 /\ FirstBlock \in Nat /\ FirstBlock >= next_free_frame
    BY <1>2, <2>1, StepIs
  <2>3. ~flushing
    BY <1>2, <2>1, ListParts
  <2>4. MapRecords + 2 <= free_records' + next_free_frame'
    BY <1>3, <1>5, <2>1, <2>2
  <2>5. open_current_frame' # 0
    <3>1. open_current_frame = 0 => NeedsFrame
      BY <1>5 DEF NeedsFrame
    <3> QED
      BY <1>3, <2>1, <3>1
  <2>6. CASE ~Buffered
    BY <1>4, <1>5, <2>1, <2>4, <2>5, <2>6 DEF BufferInv
  <2>7. CASE Buffered
    <3>1. /\ NeedsFrame \/ dirty > 0
          /\ buffer_sector_start' = IF NeedsFrame THEN next_free_frame ELSE buffer_sector_start
          /\ next_free_frame' = buffer_sector_start' + dirty'
      BY <1>1, <1>2, <1>7, <2>7, UnmappedBuffer
    <3>2. ASSUME NEW v \in VolumeBlocks
          PROVE  /\ MapOf(flushed)[v] # 0 => MapOf(flushed)[v] < buffer_sector_start'
                 /\ MapOf(restoring)[v] # 0 => MapOf(restoring)[v] < buffer_sector_start'
      BY <1>2, <1>5, <3>1 DEF JournalInv
    <3> QED
      BY <1>4, <2>1, <2>3, <2>4, <2>5, <2>7, <3>1, <3>2 DEF BufferInv
  <2> QED
    BY <2>6, <2>7
<1>8. CASE WriteFull
  <2>1. /\ NeedsFrame /\ open_current_frame' = 0 /\ request.left > 0
        /\ open_current_frame # 0 => dirty' = 0
        /\ open_current_frame = 0 => dirty' = dirty
        /\ UNCHANGED <<flushed, restoring, free_records, flushing, open_current_free, next_free_frame>>
    BY <1>8, Zenon DEF WriteFull, Full, AtEnd
  <2>2. dirty' = 0
    BY <1>5, <2>1
  <2>3. open_current_free' = 0
    BY <1>3, <2>1 DEF RoomInv, NeedsFrame, Buffered
  <2> QED
    BY <1>5, <2>1, <2>2, <2>3 DEF BufferInv
<1>9. CASE FlushCall
  <2>1. dirty' = 0 /\ UNCHANGED <<free_records, next_free_frame, open_current_frame, open_current_free>>
    BY <1>9, Zenon DEF FlushCall, listVars, frameVars
  <2> QED
    BY <1>5, <2>1 DEF BufferInv
<1>10. CASE MakeRoom \/ MoveExtent
  <2>1. /\ flushing /\ UNCHANGED <<dirty, next_free_frame, open_current_frame, open_current_free>>
        /\ free_records' = free_records \/ free_records' = free_records + 1
    <3>1. CASE MakeRoom
      BY <3>1, Zenon DEF MakeRoom, bufferVars, frameVars
    <3>2. CASE MoveExtent
      BY <3>2, Zenon DEF MoveExtent, bufferVars, frameVars
    <3> QED
      BY <1>10, <3>1, <3>2
  <2>2. dirty' = 0 /\ MapRecords + 2 <= free_records' + next_free_frame'
    BY <1>3, <1>5, <2>1
  <2> QED
    BY <1>5, <2>1, <2>2 DEF BufferInv
<1>11. CASE FlushEnd
  <2>1. dirty' = 0 /\ open_current_free' = 0 /\ UNCHANGED <<free_records, next_free_frame>>
    BY <1>11, Zenon DEF FlushEnd
  <2> QED
    BY <1>5, <2>1 DEF BufferInv
<1>12. CASE RestoreStart
  <2>1. /\ ~open_remapped /\ flushed_start_record # 0 /\ dirty' = dirty /\ open_current_free' = 0
        /\ UNCHANGED <<free_records, next_free_frame>>
    BY <1>12, Zenon DEF RestoreStart
  <2> QED
    BY <1>5, <2>1 DEF BufferInv
<1>13. CASE RestoreEnd
  <2>1. /\ UNCHANGED <<dirty, buffer_sector_start, flushed, flushing, flushed_start_record>>
        /\ UNCHANGED <<open_current_frame, open_current_free, next_free_frame, open_remapped>>
        /\ free_records' = free_records + Len(restoring) /\ restoring' = <<>>
    BY <1>13, Zenon DEF RestoreEnd, bufferVars, regionVars
  <2>2. \A v \in VolumeBlocks : MapOf(restoring')[v] = 0
    BY <2>1, EmptyList
  <2>3. MapRecords + 2 <= free_records' + next_free_frame'
    BY <1>3, <1>5, <2>1
  <2> QED
    BY <1>4, <1>5, <2>1, <2>2, <2>3 DEF BufferInv
<1> QED
  BY <1>6, <1>7, <1>8, <1>9, <1>10, <1>11, <1>12, <1>13, Zenon DEF BlockMapNext

\* The journal block a read of block v goes to.
LEMMA ShownAtIs ==
    ASSUME ListInv, JournalInv, NEW v \in VolumeBlocks
    PROVE  /\ ShownAt(v) \in Nat /\ ShownAt(v) < next_free_frame
           /\ ShownAt(v) # 0 => ShownAt(v) \in JournalBlocks
           /\ Current(v) # 0 => ShownAt(v) = Current(v)
           /\ Current(v) = 0 => ShownAt(v) \in {0, MapOf(flushed)[v], MapOf(restoring)[v]}
<1>1. /\ Current(v) \in Nat /\ MapOf(flushed)[v] \in Nat /\ MapOf(restoring)[v] \in Nat
      /\ Current(v) < next_free_frame /\ MapOf(flushed)[v] < next_free_frame
      /\ MapOf(restoring)[v] < next_free_frame
  BY CurrentIs DEF JournalInv
<1>2. next_free_frame \in Nat /\ next_free_frame <= JournalSize /\ JournalSize \in Nat
  BY CountersAre
<1>3. ShownAt(v) \in Nat /\ ShownAt(v) < next_free_frame
  BY <1>1 DEF ShownAt
<1> QED
  BY <1>1, <1>2, <1>3 DEF ShownAt, JournalBlocks

LEMMA ShownIs ==
    \A v, a : ShownAt(v) = a => Shown(v) = IF a = 0 THEN volume[v] ELSE JournalValue(a)
  BY DEF Shown

LEMMA ShownIsNext ==
    \A v, a : ShownAt(v)' = a => Shown(v)' = IF a = 0 THEN volume'[v] ELSE JournalValue(a)'
<1>1. (\A v, a : ShownAt(v) = a => Shown(v) = IF a = 0 THEN volume[v] ELSE JournalValue(a))'
  BY ShownIs, PTL
<1> QED
  BY <1>1

LEMMA SameShown ==
    ASSUME ListInv, JournalInv, NEW v \in VolumeBlocks, ShownAt(v)' = ShownAt(v),
           volume'[v] = volume[v], \A j \in JournalBlocks : JournalValue(j)' = JournalValue(j)
    PROVE  Shown(v)' = Shown(v)
<1>1. PICK a : a = ShownAt(v)
  OBVIOUS
<1>2. /\ Shown(v) = IF a = 0 THEN volume[v] ELSE JournalValue(a)
      /\ Shown(v)' = IF a = 0 THEN volume'[v] ELSE JournalValue(a)'
  BY <1>1, ShownIs, ShownIsNext
<1>3. a # 0 => a \in JournalBlocks
  BY <1>1, ShownAtIs
<1> QED
  BY <1>2, <1>3

\* Closing a frame does not change what the journal blocks hold.
LEMMA WrittenAway ==
    ASSUME journal' = Written, dirty' = 0
    PROVE  \A j \in JournalBlocks : JournalValue(j)' = JournalValue(j)
<1>1. ASSUME NEW j \in JournalBlocks PROVE JournalValue(j)' = Written[j]
  <2>1. ~InBuffer(j)'
    BY DEF InBuffer
  <2> QED
    BY <2>1 DEF JournalValue
<1> QED
  BY <1>1 DEF Written

LEMMA SameValues ==
    ASSUME UNCHANGED <<journal, buffer, dirty, buffer_sector_start, buffer_size>>
    PROVE  \A j \in JournalBlocks : JournalValue(j)' = JournalValue(j)
  BY DEF JournalValue, InBuffer, Buffered

LEMMA EmptyBuffer ==
    ASSUME journal' = journal, dirty = 0, dirty' = 0
    PROVE  \A j \in JournalBlocks : JournalValue(j)' = JournalValue(j)
  BY DEF JournalValue, InBuffer

ValuesOK ==
    /\ journal \in [JournalBlocks -> Nat] /\ buffer \in [JournalBlocks -> Nat]
    /\ volume \in [VolumeBlocks -> Nat] /\ view \in [VolumeBlocks -> Nat]

LEMMA ValuesAre ==
    ASSUME ValuesOK, clock \in Nat
    PROVE  /\ Written \in [JournalBlocks -> Nat]
           /\ \A j, n : \A f \in [JournalBlocks -> Nat] : Put(f, j, n) \in [JournalBlocks -> Nat]
  BY DEF ValuesOK, Written, JournalValue, Put

LEMMA PutIs ==
    ASSUME NEW f, NEW j, NEW n, NEW k \in JournalBlocks
    PROVE  Put(f, j, n)[k] = IF k \in j .. j + n - 1 THEN clock ELSE f[k]
  BY DEF Put

\* The step of a write into blocks that have a replacement.
LEMMA MappedIs ==
    ASSUME ListInv, WriteMapped
    PROVE  \E n \in 0 .. Hit.n :
              /\ n = MappedLength(Hit.jnl, Hit.n)
              /\ IF n = 0 THEN request' = NoRequest /\ UNCHANGED <<view, buffer, journal>>
                 ELSE /\ ViewStep(n)
                      /\ IF InBuffer(Hit.jnl)
                         THEN buffer' = Put(buffer, Hit.jnl, n) /\ UNCHANGED journal
                         ELSE journal' = Put(journal, Hit.jnl, n) /\ UNCHANGED buffer
<1> DEFINE n == MappedLength(Hit.jnl, Hit.n)
<1>1. /\ request.left > 0 /\ Hit.mapped
      /\ IF n = 0 THEN GiveUp(Queue(open, pbm)) /\ UNCHANGED <<buffer, journal>>
         ELSE /\ Advance(n, Queue(open, pbm), None)
              /\ IF InBuffer(Hit.jnl)
                 THEN buffer' = Put(buffer, Hit.jnl, n) /\ UNCHANGED journal
                 ELSE journal' = Put(journal, Hit.jnl, n) /\ UNCHANGED buffer
  BY Zenon DEF WriteMapped, Hit
<1>2. CountersOK /\ RequestOK
  BY ListParts
<1>3. Hit.n \in 1 .. request.left /\ Hit.jnl \in Nat /\ request.left \in Nat
  BY <1>1, <1>2, HitIs, RequestIs DEF ScanResult
<1>4. n \in 0 .. Hit.n
  BY <1>2, <1>3, MappedLengthIs
<1>5. PICK m : m = n
  OBVIOUS
<1> HIDE DEF n
<1>6. CASE m = 0
  BY <1>1, <1>4, <1>5, <1>6, Zenon DEF GiveUp, n
<1>7. CASE m # 0
  <2>1. request # NoRequest /\ n \in 1 .. request.left
    BY <1>1, <1>2, <1>3, <1>4, <1>5, <1>7, RequestIs
  <2>2. ViewStep(n)
    BY <1>1, <1>2, <1>5, <1>7, <2>1, AdvanceView
  <2> QED
    BY <1>1, <1>4, <1>5, <1>7, <2>2, Zenon DEF n
<1> QED
  BY <1>6, <1>7

LEMMA MappedValues ==
    ASSUME MapInv, BufferInv, WriteMapped, UNCHANGED buffer_size, NEW n \in 0 .. Hit.n,
           n = MappedLength(Hit.jnl, Hit.n), n # 0,
           IF InBuffer(Hit.jnl)
           THEN buffer' = Put(buffer, Hit.jnl, n) /\ UNCHANGED journal
           ELSE journal' = Put(journal, Hit.jnl, n) /\ UNCHANGED buffer
    PROVE  \A j \in JournalBlocks :
              j < next_free_frame =>
                 JournalValue(j)' = IF Hit.jnl <= j /\ j < Hit.jnl + n THEN clock
                                    ELSE JournalValue(j)
<1>1. UNCHANGED <<dirty, buffer_sector_start>>
  BY Zenon DEF WriteMapped, bufferVars
<1>2. request.left > 0 /\ ListInv
  BY Zenon DEF WriteMapped, MapInv
<1>3. /\ Hit.jnl \in Nat /\ n \in Nat /\ dirty \in Nat /\ buffer_sector_start \in Nat
      /\ next_free_frame \in Nat /\ Hit.n \in Nat
  <2>1. Hit.jnl \in Nat /\ Hit.n \in Nat
    BY <1>2, HitBounds
  <2> QED
    BY <1>2, <2>1, CountersAre
<1>4. \A j \in JournalBlocks : j \in Nat /\ InBuffer(j)' = InBuffer(j)
  BY <1>1, BlockMapAssumption DEF InBuffer, Buffered, JournalBlocks
<1>5. dirty > 0 => next_free_frame = buffer_sector_start + dirty
  BY DEF BufferInv
<1>6. SUFFICES ASSUME NEW j \in JournalBlocks, j < next_free_frame
               PROVE  JournalValue(j)' = IF Hit.jnl <= j /\ j < Hit.jnl + n THEN clock
                                         ELSE JournalValue(j)
  OBVIOUS
<1>7. JournalValue(j)' = IF InBuffer(j) THEN buffer'[j] ELSE journal'[j]
  BY <1>4, <1>6 DEF JournalValue
<1>8. JournalValue(j) = IF InBuffer(j) THEN buffer[j] ELSE journal[j]
  BY DEF JournalValue
<1>9. /\ Put(buffer, Hit.jnl, n)[j] = IF j \in Hit.jnl .. Hit.jnl + n - 1 THEN clock ELSE buffer[j]
      /\ Put(journal, Hit.jnl, n)[j] = IF j \in Hit.jnl .. Hit.jnl + n - 1 THEN clock ELSE journal[j]
      /\ j \in Hit.jnl .. Hit.jnl + n - 1 <=> Hit.jnl <= j /\ j < Hit.jnl + n
  BY <1>3, <1>4, <1>6, PutIs
<1>10. Hit.jnl <= j /\ j < Hit.jnl + n => (InBuffer(j) <=> InBuffer(Hit.jnl))
  <2>1. SUFFICES ASSUME Hit.jnl <= j, j < Hit.jnl + n
                 PROVE  InBuffer(j) <=> InBuffer(Hit.jnl)
    OBVIOUS
  <2>2. CASE Buffered /\ dirty > 0 /\ Hit.jnl < buffer_sector_start
    <3>1. n <= buffer_sector_start - Hit.jnl
      BY <1>3, <2>2 DEF MappedLength, Smaller
    <3> QED
      BY <1>3, <1>4, <2>1, <2>2, <3>1 DEF InBuffer
  <2>3. CASE ~(Buffered /\ dirty > 0 /\ Hit.jnl < buffer_sector_start)
    BY <1>3, <1>4, <1>5, <1>6, <2>1, <2>3 DEF InBuffer
  <2> QED
    BY <2>2, <2>3
<1>11. CASE InBuffer(Hit.jnl)
  BY <1>7, <1>8, <1>9, <1>10, <1>11
<1>12. CASE ~InBuffer(Hit.jnl)
  BY <1>7, <1>8, <1>9, <1>10, <1>12
<1> QED
  BY <1>11, <1>12

LEMMA UnmappedValues ==
    ASSUME Roomy, ListInv, RoomInv, BufferInv, WriteUnmapped, UNCHANGED buffer_size
    PROVE  \A j \in JournalBlocks :
              /\ j < next_free_frame => JournalValue(j)' = JournalValue(j)
              /\ ~Fails /\ FirstBlock <= j /\ j < FirstBlock + StepLength
                    => JournalValue(j)' = clock
<1>1. /\ request.left > 0 /\ ~Hit.mapped /\ ~AtEnd
      /\ journal' = (IF Fails \/ Buffered THEN (IF NeedsFrame THEN Written ELSE journal)
                     ELSE Put(IF NeedsFrame THEN Written ELSE journal, FirstBlock, StepLength))
      /\ ~Buffered => UNCHANGED bufferVars
  BY UnmappedIs, Zenon
<1>2. PICK f, n : f = FirstBlock /\ n = StepLength
  OBVIOUS
<1>3. /\ n \in Nat /\ n >= 1 /\ f \in Nat /\ f >= next_free_frame /\ next_free_frame \in Nat
      /\ dirty \in Nat /\ buffer_sector_start \in Nat
      /\ \A j \in JournalBlocks : j \in Nat
  <2>1. StepLength \in Nat /\ StepLength >= 1 /\ FirstBlock \in Nat /\ FirstBlock >= next_free_frame
    BY <1>1, StepIs
  <2>2. next_free_frame \in Nat /\ dirty \in Nat /\ buffer_sector_start \in Nat
    BY CountersAre
  <2>3. \A j \in JournalBlocks : j \in Nat
    BY BlockMapAssumption DEF JournalBlocks
  <2> QED
    BY <1>2, <2>1, <2>2, <2>3
<1>4. SUFFICES ASSUME NEW j \in JournalBlocks
               PROVE  /\ j < next_free_frame => JournalValue(j)' = JournalValue(j)
                      /\ ~Fails /\ f <= j /\ j < f + n => JournalValue(j)' = clock
  BY <1>2
<1>5. JournalValue(j) = IF InBuffer(j) THEN buffer[j] ELSE journal[j]
  BY DEF JournalValue
<1>6. JournalValue(j)' = IF InBuffer(j)' THEN buffer'[j] ELSE journal'[j]
  BY DEF JournalValue
<1>7. Written[j] = JournalValue(j)
  BY DEF Written
<1>8. j \in f .. f + n - 1 <=> f <= j /\ j < f + n
  BY <1>3
<1>9. CASE ~Buffered
  <2>1. ~InBuffer(j) /\ ~InBuffer(j)'
    BY <1>9 DEF InBuffer, Buffered
  <2>2. PICK closed : closed = IF NeedsFrame THEN Written ELSE journal
    OBVIOUS
  <2>3. closed[j] = JournalValue(j)
    BY <1>5, <1>7, <2>1, <2>2
  <2>4. journal' = IF Fails THEN closed ELSE Put(closed, f, n)
    BY <1>1, <1>2, <1>9, <2>2, Zenon
  <2>5. Put(closed, f, n)[j] = IF j \in f .. f + n - 1 THEN clock ELSE closed[j]
    BY PutIs
  <2> QED
    BY <1>3, <1>6, <1>8, <2>1, <2>3, <2>4, <2>5
<1>10. CASE Buffered
  <2>1. /\ NeedsFrame \/ dirty > 0
        /\ journal' = IF NeedsFrame THEN Written ELSE journal
        /\ buffer' = Put(buffer, f, n)
        /\ buffer_sector_start' = IF NeedsFrame THEN next_free_frame ELSE buffer_sector_start
        /\ dirty' = (IF NeedsFrame THEN 1 ELSE dirty) + n
        /\ next_free_frame' = buffer_sector_start' + dirty' /\ dirty' > 0
        /\ f = IF NeedsFrame THEN next_free_frame + 1 ELSE next_free_frame
    BY <1>2, <1>10, UnmappedBuffer
  <2>2. Put(buffer, f, n)[j] = IF j \in f .. f + n - 1 THEN clock ELSE buffer[j]
    BY PutIs
  <2>3. Buffered'
    BY <1>10 DEF Buffered
  <2>4. InBuffer(j)' <=> buffer_sector_start' <= j /\ j <= buffer_sector_start' + dirty' - 1
    BY <2>1, <2>3 DEF InBuffer
  <2>5. CASE NeedsFrame
    BY <1>3, <1>6, <1>7, <1>8, <2>1, <2>2, <2>4, <2>5
  <2>6. CASE ~NeedsFrame
    <3>1. dirty > 0 /\ next_free_frame = buffer_sector_start + dirty
      BY <2>1, <2>6 DEF BufferInv
    <3>2. InBuffer(j) <=> buffer_sector_start <= j /\ j <= buffer_sector_start + dirty - 1
      BY <1>10, <3>1 DEF InBuffer
    <3> QED
      BY <1>3, <1>5, <1>6, <1>8, <2>1, <2>2, <2>4, <2>6, <3>1, <3>2
  <2> QED
    BY <2>5, <2>6
<1> QED
  BY <1>9, <1>10

LEMMA ReadsAre ==
    ASSUME ReadsInv
    PROVE  /\ ValuesOK
           /\ \A v \in VolumeBlocks : /\ Done(v) => Shown(v) = clock
                                      /\ view[v] # Unknown => Shown(v) = view[v]
  BY DEF ReadsInv, ValuesOK

\* A write of n blocks.
LEMMA WriteReads ==
    ASSUME ListInv, WrittenInv, ReadsInv, ValuesOK', clock' = clock, request.left > 0,
           NEW n \in 1 .. request.left, ViewStep(n),
           \A v \in VolumeBlocks :
              Shown(v)' = IF request.at <= v /\ v < request.at + n THEN clock ELSE Shown(v)
    PROVE  ReadsInv'
<1>1. /\ request # NoRequest /\ request.first \in Nat /\ request.at \in Nat
      /\ request.left \in Nat /\ request.first <= request.at
  BY RequestIs, ListParts
<1>2. ASSUME NEW v \in VolumeBlocks, Done(v)' PROVE Shown(v)' = clock'
  BY <1>2, ReadsAre DEF ViewStep
<1>3. ASSUME NEW v \in VolumeBlocks, view'[v] # Unknown PROVE Shown(v)' = view'[v]
  <2>1. CASE view'[v] = view[v]
    <3>1. v \in Nat
      BY BlockMapAssumption DEF VolumeBlocks
    <3>2. ~(request.at <= v /\ v < request.at + n)
      <4>1. SUFFICES ASSUME request.at <= v, v < request.at + n PROVE FALSE
        OBVIOUS
      <4>2. request.first <= v /\ v < request.at + request.left
        BY <1>1, <3>1, <4>1
      <4> QED
        BY <1>1, <1>3, <2>1, <4>2 DEF WrittenInv
    <3> QED
      BY <1>3, <2>1, <3>2, ReadsAre
  <2>2. CASE view'[v] = clock /\ (Done(v) \/ (request.at <= v /\ v < request.at + n))
    BY <2>2, ReadsAre
  <2> QED
    BY <2>1, <2>2 DEF ViewStep
<1> QED
  BY <1>2, <1>3 DEF ReadsInv, ValuesOK

\* A step that writes nothing, or a write that fails.
LEMMA QuietReads ==
    ASSUME ReadsInv, ValuesOK', view' = view, request' = NoRequest,
           \A v \in VolumeBlocks : view[v] # Unknown => Shown(v)' = Shown(v)
    PROVE  ReadsInv'
  BY ReadsAre DEF ReadsInv, ValuesOK, Done

LEMMA WriteMappedReads ==
    ASSUME MapInv, WrittenInv, BufferInv, ReadsInv, WriteMapped, UNCHANGED buffer_size
    PROVE  ReadsInv'
<1>1. ListInv /\ JournalInv /\ request.left > 0 /\ Hit.mapped
  BY Zenon DEF MapInv, WriteMapped, Hit
<1>2. UNCHANGED <<flushed, restoring, volume, clock, dirty, buffer_sector_start>>
  BY Zenon DEF WriteMapped, bufferVars
<1>3. PICK n \in 0 .. Hit.n :
         /\ n = MappedLength(Hit.jnl, Hit.n)
         /\ IF n = 0 THEN request' = NoRequest /\ UNCHANGED <<view, buffer, journal>>
            ELSE /\ ViewStep(n)
                 /\ IF InBuffer(Hit.jnl)
                    THEN buffer' = Put(buffer, Hit.jnl, n) /\ UNCHANGED journal
                    ELSE journal' = Put(journal, Hit.jnl, n) /\ UNCHANGED buffer
  BY <1>1, MappedIs
<1>4. ScanResult(open, request.at, request.left, Hit)
  BY <1>1, HitIs
<1>5. /\ Hit.jnl \in Nat /\ Hit.n \in 1 .. request.left /\ n \in Nat /\ n <= Hit.n
      /\ request.at \in Nat /\ request.left \in Nat /\ next_free_frame \in Nat /\ clock \in Nat
  BY <1>1, <1>3, HitBounds, CountersAre
<1>6. \A v \in VolumeBlocks : ShownAt(v)' = ShownAt(v)
  <2>1. \A v \in VolumeBlocks : Current(v)' = Current(v)
    BY <1>1, WriteMappedOK
  <2> QED
    BY <1>2, <2>1 DEF ShownAt
<1>7. CASE n = 0
  <2>1. request' = NoRequest /\ UNCHANGED <<view, buffer, journal>>
    BY <1>3, <1>7
  <2>2. \A j \in JournalBlocks : JournalValue(j)' = JournalValue(j)
    BY <1>2, <2>1, SameValues
  <2>3. \A v \in VolumeBlocks : Shown(v)' = Shown(v)
    BY <1>1, <1>2, <1>6, <2>2, SameShown
  <2>4. ValuesOK'
    BY <1>2, <2>1, ReadsAre DEF ValuesOK
  <2> QED
    BY <2>1, <2>3, <2>4, QuietReads
<1>8. CASE n # 0
  <2>1. /\ ViewStep(n)
        /\ IF InBuffer(Hit.jnl)
           THEN buffer' = Put(buffer, Hit.jnl, n) /\ UNCHANGED journal
           ELSE journal' = Put(journal, Hit.jnl, n) /\ UNCHANGED buffer
    BY <1>3, <1>8
  <2>2. \A j \in JournalBlocks :
           j < next_free_frame =>
              JournalValue(j)' = IF Hit.jnl <= j /\ j < Hit.jnl + n THEN clock ELSE JournalValue(j)
    BY <1>3, <1>8, <2>1, MappedValues
  <2>3. ValuesOK'
    <3>1. ValuesOK
      BY ReadsAre
    <3>2. journal' \in [JournalBlocks -> Nat] /\ buffer' \in [JournalBlocks -> Nat]
      BY <1>5, <2>1, <3>1, ValuesAre DEF ValuesOK
    <3>3. view' \in [VolumeBlocks -> Nat]
      <4>1. WriteMapped => \/ view' = view
                           \/ view' = [v \in VolumeBlocks |->
                                 IF v \in request.first .. request.at + n - 1 THEN clock ELSE view[v]]
        BY <1>3, Zenon DEF WriteMapped, Hit, Advance, GiveUp
      <4> QED
        BY <1>5, <3>1, <4>1 DEF ValuesOK
    <3> QED
      BY <1>2, <3>1, <3>2, <3>3 DEF ValuesOK
  <2>4. ASSUME NEW v \in VolumeBlocks
        PROVE  Shown(v)' = IF request.at <= v /\ v < request.at + n THEN clock ELSE Shown(v)
    <3>1. PICK a : a = ShownAt(v)
      OBVIOUS
    <3>2. /\ Shown(v) = IF a = 0 THEN volume[v] ELSE JournalValue(a)
          /\ Shown(v)' = IF a = 0 THEN volume[v] ELSE JournalValue(a)'
      BY <1>2, <1>6, <3>1, ShownIs, ShownIsNext
    <3>3. /\ a \in Nat /\ a < next_free_frame /\ (a # 0 => a \in JournalBlocks)
          /\ Current(v) # 0 => a = Current(v)
          /\ Current(v) = 0 => a \in {0, MapOf(flushed)[v], MapOf(restoring)[v]}
      BY <1>1, <3>1, ShownAtIs
    <3>4. v \in Nat
      BY BlockMapAssumption DEF VolumeBlocks
    <3>5. CASE request.at <= v /\ v < request.at + n
      <4>1. Current(v) # 0 /\ Current(v) = Hit.jnl + (v - request.at)
        <5>1. v < request.at + Hit.n
          BY <1>5, <3>4, <3>5
        <5> QED
          BY <1>1, <3>5, <5>1, MappedRange
      <4> QED
        BY <1>5, <2>2, <3>2, <3>3, <3>4, <3>5, <4>1
    <3>6. CASE ~(request.at <= v /\ v < request.at + n)
      <4>1. a # 0 => ~(Hit.jnl <= a /\ a < Hit.jnl + n)
        <5>1. SUFFICES ASSUME a # 0, Hit.jnl <= a, a < Hit.jnl + n PROVE FALSE
          OBVIOUS
        <5>2. PICK w : w = request.at + (a - Hit.jnl)
          OBVIOUS
        <5>3. /\ w \in request.at .. request.at + Hit.n - 1 /\ w \in Nat /\ w # v
              /\ request.at <= w /\ w < request.at + Hit.n /\ Hit.jnl + (w - request.at) = a
          BY <1>5, <3>3, <3>4, <3>6, <5>1, <5>2
        <5>4. w \in VolumeBlocks
          BY <1>1, <1>4, <5>3 DEF ScanResult
        <5>5. Current(w) = a
          BY <1>1, <5>3, <5>4, MappedRange
        <5> QED
          BY <1>1, <3>3, <5>1, <5>3, <5>4, <5>5 DEF JournalInv
      <4> QED
        BY <2>2, <3>2, <3>3, <3>6, <4>1
    <3> QED
      BY <3>5, <3>6
  <2>5. n \in 1 .. request.left
    BY <1>5, <1>8
  <2> QED
    BY <1>1, <1>2, <2>1, <2>3, <2>4, <2>5, WriteReads
<1> QED
  BY <1>7, <1>8

LEMMA WriteUnmappedReads ==
    ASSUME Roomy, MapInv, WrittenInv, RoomInv, BufferInv, ReadsInv, WriteUnmapped,
           UNCHANGED buffer_size
    PROVE  ReadsInv'
<1>1. ListInv /\ JournalInv
  BY DEF MapInv
<1>2. /\ request.left > 0 /\ ~Hit.mapped /\ ~AtEnd
      /\ journal' = (IF Fails \/ Buffered THEN (IF NeedsFrame THEN Written ELSE journal)
                     ELSE Put(IF NeedsFrame THEN Written ELSE journal, FirstBlock, StepLength))
      /\ buffer' = buffer \/ buffer' = Put(buffer, FirstBlock, StepLength)
      /\ UNCHANGED <<flushed, restoring, volume, clock>>
  <2>1. buffer' = buffer \/ buffer' = Put(buffer, FirstBlock, StepLength)
    <3>1. IF ~Buffered THEN UNCHANGED bufferVars
          ELSE buffer' = IF Fails THEN buffer ELSE Put(buffer, FirstBlock, StepLength)
      BY UnmappedIs, Zenon
    <3> QED
      BY <3>1 DEF bufferVars
  <2> QED
    BY <2>1, UnmappedIs, Zenon
<1>3. PICK f, n, at : f = FirstBlock /\ n = StepLength /\ at = request.at
  OBVIOUS
<1>4. /\ n \in Nat /\ n \in 1 .. request.left /\ f \in Nat /\ f >= 2 /\ at \in Nat
      /\ f + n <= JournalSize /\ JournalSize \in Nat /\ clock \in Nat
  <2>1. /\ StepLength \in 1 .. request.left /\ StepLength \in Nat /\ StepLength <= RoomLeft
        /\ RoomLeft \in Nat /\ FirstBlock \in Nat /\ FirstBlock >= 2
        /\ FirstBlock + RoomLeft <= JournalSize
    BY <1>1, <1>2, StepIs
  <2>2. request.at \in Nat /\ clock \in Nat /\ JournalSize \in Nat
    BY <1>1, <1>2, RequestIs, ListParts, BlockMapAssumption DEF CountersOK
  <2> QED
    BY <1>3, <2>1, <2>2
<1>5. \A j \in JournalBlocks :
         /\ j < next_free_frame => JournalValue(j)' = JournalValue(j)
         /\ ~Fails /\ f <= j /\ j < f + n => JournalValue(j)' = clock
  BY <1>1, <1>3, UnmappedValues
<1>6. StepDone(Fails, 0) \/ StepDone(Fails, 1)
  BY <1>1, WriteUnmappedOK
<1>7. \A v \in VolumeBlocks :
         Current(v)' = IF ~Fails /\ at <= v /\ v < at + n THEN f + (v - at) ELSE Current(v)
  BY <1>3, <1>6, Zenon DEF StepDone, InStep
<1>8. ASSUME NEW v \in VolumeBlocks
      PROVE  Shown(v)' = IF ~Fails /\ at <= v /\ v < at + n THEN clock ELSE Shown(v)
  <2>1. v \in Nat
    BY BlockMapAssumption DEF VolumeBlocks
  <2>2. CASE ~Fails /\ at <= v /\ v < at + n
    <3>1. PICK a : a = f + (v - at)
      OBVIOUS
    <3>2. a \in JournalBlocks /\ a # 0 /\ f <= a /\ a < f + n
      BY <1>4, <2>1, <2>2, <3>1 DEF JournalBlocks
    <3>3. Current(v)' = a
      BY <1>7, <2>2, <3>1
    <3>4. ShownAt(v)' = a
      BY <3>2, <3>3 DEF ShownAt
    <3> QED
      BY <1>5, <2>2, <3>2, <3>4, ShownIsNext
  <2>3. CASE ~(~Fails /\ at <= v /\ v < at + n)
    <3>1. ShownAt(v)' = ShownAt(v)
      BY <1>2, <1>7, <2>3 DEF ShownAt
    <3>2. PICK a : a = ShownAt(v)
      OBVIOUS
    <3>3. /\ Shown(v) = IF a = 0 THEN volume[v] ELSE JournalValue(a)
          /\ Shown(v)' = IF a = 0 THEN volume[v] ELSE JournalValue(a)'
      BY <1>2, <3>1, <3>2, ShownIs, ShownIsNext
    <3>4. a < next_free_frame /\ (a # 0 => a \in JournalBlocks)
      BY <1>1, <3>2, ShownAtIs
    <3> QED
      BY <1>5, <2>3, <3>3, <3>4
  <2> QED
    BY <2>2, <2>3
<1>9. /\ journal' \in [JournalBlocks -> Nat] /\ buffer' \in [JournalBlocks -> Nat]
      /\ volume' \in [VolumeBlocks -> Nat] /\ view \in [VolumeBlocks -> Nat]
  <2>1. ValuesOK
    BY ReadsAre
  <2>2. PICK closed : closed = IF NeedsFrame THEN Written ELSE journal
    OBVIOUS
  <2>3. closed \in [JournalBlocks -> Nat]
    BY <1>4, <2>1, <2>2, ValuesAre DEF ValuesOK
  <2>4. journal' = closed \/ journal' = Put(closed, FirstBlock, StepLength)
    BY <1>2, <2>2, Zenon
  <2> QED
    BY <1>2, <1>4, <2>1, <2>3, <2>4, ValuesAre DEF ValuesOK
<1>10. CASE Fails
  <2>1. request' = NoRequest /\ view' = view
    BY <1>1, <1>10, WriteUnmappedView
  <2>2. ValuesOK'
    BY <1>9, <2>1 DEF ValuesOK
  <2> QED
    BY <1>8, <1>10, <2>1, <2>2, QuietReads
<1>11. CASE ~Fails
  <2>1. ViewStep(n)
    BY <1>1, <1>3, <1>11, WriteUnmappedView
  <2>2. view' \in [VolumeBlocks -> Nat]
    <3>1. \E list, e : Advance(StepLength, list, e)
      BY <1>11, UnmappedIs, Zenon
    <3>2. \/ view' = view
          \/ view' = [v \in VolumeBlocks |->
                IF v \in request.first .. request.at + StepLength - 1 THEN clock ELSE view[v]]
      BY <3>1, Zenon DEF Advance
    <3> QED
      BY <1>4, <1>9, <3>2
  <2>3. ValuesOK'
    BY <1>9, <2>2 DEF ValuesOK
  <2> QED
    BY <1>1, <1>2, <1>3, <1>4, <1>8, <1>11, <2>1, <2>3, WriteReads
<1> QED
  BY <1>10, <1>11

LEMMA WriteCallReads ==
    ASSUME MapInv, ReadsInv, WriteCall, UNCHANGED buffer_size
    PROVE  ReadsInv'
<1>1. UNCHANGED <<open, flushed, restoring, pbm, dirty, buffer_sector_start, buffer, journal, volume>>
  BY Zenon DEF WriteCall, listVars, bufferVars
<1>2. ListInv /\ JournalInv
  BY DEF MapInv
<1>3. PICK first \in VolumeBlocks :
         \E n \in 1 .. Width - first + 1 :
            /\ request' = [first |-> first, at |-> first, left |-> n]
            /\ view' = [v \in VolumeBlocks |->
                           IF v \in first .. first + n - 1 THEN Unknown ELSE view[v]]
  BY Zenon DEF WriteCall
<1>4. PICK n \in 1 .. Width - first + 1 :
         /\ request' = [first |-> first, at |-> first, left |-> n]
         /\ view' = [v \in VolumeBlocks |->
                        IF v \in first .. first + n - 1 THEN Unknown ELSE view[v]]
  BY <1>3
<1>5. \A v \in VolumeBlocks : Shown(v)' = Shown(v)
  <2>1. \A j \in JournalBlocks : JournalValue(j)' = JournalValue(j)
    BY <1>1, SameValues
  <2>2. \A v \in VolumeBlocks : ShownAt(v)' = ShownAt(v)
    BY <1>1 DEF ShownAt, Current
  <2> QED
    BY <1>1, <1>2, <2>1, <2>2, SameShown
<1>6. ASSUME NEW v \in VolumeBlocks PROVE ~Done(v)'
  <2>1. v \in Nat /\ first \in Nat /\ request'.first = first /\ request'.at = first
    BY <1>4, BlockMapAssumption DEF VolumeBlocks
  <2> QED
    BY <2>1 DEF Done
<1>7. ASSUME NEW v \in VolumeBlocks, view'[v] # Unknown PROVE Shown(v)' = view'[v]
  <2>1. view'[v] = view[v]
    BY <1>4, <1>7
  <2> QED
    BY <1>5, <1>7, <2>1, ReadsAre
<1>8. ValuesOK'
  <2>1. view' \in [VolumeBlocks -> Nat]
    BY <1>4, ReadsAre DEF ValuesOK, Unknown
  <2> QED
    BY <1>1, <2>1, ReadsAre DEF ValuesOK
<1> QED
  BY <1>6, <1>7, <1>8 DEF ReadsInv, ValuesOK

LEMMA WriteFullReads ==
    ASSUME MapInv, WrittenInv, BufferInv, ReadsInv, WriteFull, UNCHANGED buffer_size
    PROVE  ReadsInv'
<1>1. /\ request.left > 0 /\ open' = open /\ pbm' = None /\ request' = NoRequest /\ view' = view
      /\ IF open_current_frame # 0 THEN journal' = Written /\ dirty' = 0
         ELSE UNCHANGED <<journal, dirty>>
      /\ UNCHANGED <<flushed, restoring, volume, buffer, buffer_sector_start>>
  BY Zenon DEF WriteFull, GiveUp
<1>2. ListInv /\ JournalInv /\ RequestOK /\ PbmOK /\ clock \in Nat
  BY ListParts DEF MapInv, CountersOK
<1>3. \A j \in JournalBlocks : JournalValue(j)' = JournalValue(j)
  BY <1>1, WrittenAway, SameValues
<1>4. ASSUME NEW v \in VolumeBlocks, view[v] # Unknown PROVE Shown(v)' = Shown(v)
  <2>1. v \in Nat
    BY BlockMapAssumption DEF VolumeBlocks
  <2>2. ~Covers(pbm, v)
    <3>1. SUFFICES ASSUME Covers(pbm, v) PROVE FALSE
      OBVIOUS
    <3>2. request # NoRequest /\ pbm # None
      BY <1>1, <1>2, <2>1, <3>1, RequestIs, NoneCovers
    <3>3. LastBlock(pbm) = request.at - 1 /\ request.first <= pbm.vol /\ pbm \in Extents
      BY <1>2, <3>2 DEF PbmOK, CanQueue
    <3>4. pbm.vol \in Nat /\ request.first \in Nat /\ request.at \in Nat /\ request.left \in Nat
      BY <1>1, <1>2, <3>3, ExtentIs, RequestIs
    <3>5. request.first <= v /\ v < request.at + request.left
      BY <1>1, <2>1, <3>1, <3>3, <3>4 DEF Covers
    <3> QED
      BY <1>4, <3>2, <3>5 DEF WrittenInv
  <2>3. ~Covers(None, v)
    BY <2>1, NoneCovers
  <2>4. Current(v)' = Current(v)
    BY <1>1, <2>2, <2>3 DEF Current, At
  <2>5. ShownAt(v)' = ShownAt(v)
    BY <1>1, <2>4 DEF ShownAt
  <2> QED
    BY <1>1, <1>2, <1>3, <2>5, SameShown
<1>5. ValuesOK'
  <2>1. ValuesOK /\ (journal' = journal \/ journal' = Written)
    BY <1>1, ReadsAre
  <2> QED
    BY <1>1, <1>2, <2>1, ValuesAre DEF ValuesOK
<1> QED
  BY <1>1, <1>4, <1>5, QuietReads

LEMMA FlushReads ==
    ASSUME MapInv, BufferInv, ReadsInv, FlushCall \/ MakeRoom \/ MoveExtent \/ FlushEnd,
           UNCHANGED buffer_size
    PROVE  ReadsInv'
<1>1. ListInv /\ JournalInv /\ clock \in Nat
  BY ListParts DEF MapInv, CountersOK
<1>2. CASE FlushCall
  <2>1. /\ journal' = Written /\ dirty' = 0 /\ request = NoRequest /\ request' = request
        /\ UNCHANGED <<open, flushed, restoring, pbm, buffer, volume, view>>
    BY <1>2, Zenon DEF FlushCall, Idle, listVars
  <2>2. \A v \in VolumeBlocks : ShownAt(v)' = ShownAt(v)
    BY <2>1 DEF ShownAt, Current
  <2>3. \A v \in VolumeBlocks : Shown(v)' = Shown(v)
    BY <1>1, <2>1, <2>2, WrittenAway, SameShown
  <2>4. ValuesOK'
    BY <1>1, <2>1, ReadsAre, ValuesAre DEF ValuesOK
  <2> QED
    BY <2>1, <2>3, <2>4, QuietReads
<1>3. CASE MakeRoom \/ MoveExtent \/ FlushEnd
  <2>1. /\ flushing /\ request' = request /\ UNCHANGED <<pbm, restoring>>
        /\ UNCHANGED <<journal, buffer, volume, view>>
        /\ dirty' = dirty \/ dirty' = 0
    BY <1>3, Zenon DEF MakeRoom, MoveExtent, FlushEnd, bufferVars, dataVars
  <2>2. dirty = 0 /\ dirty' = 0 /\ request = NoRequest
    BY <1>1, <2>1, ListParts DEF BufferInv
  <2>3. pbm = None
    BY <1>1, <2>2, ListParts DEF PbmOK
  <2>4. ASSUME NEW v \in VolumeBlocks PROVE ShownAt(v)' = ShownAt(v)
    <3>1. (IF MapOf(open')[v] # 0 THEN MapOf(open')[v] ELSE MapOf(flushed')[v])
             = (IF MapOf(open)[v] # 0 THEN MapOf(open)[v] ELSE MapOf(flushed)[v])
      <4>1. CASE MakeRoom
        BY <4>1, MakeRoomOK
      <4>2. CASE MoveExtent
        BY <4>2, MoveExtentOK
      <4>3. CASE FlushEnd
        BY <4>3, FlushEndOK
      <4> QED
        BY <1>3, <4>1, <4>2, <4>3
    <3>2. At(None, v) = 0
      <4>1. v \in Nat
        BY BlockMapAssumption DEF VolumeBlocks
      <4> QED
        BY <4>1, NoneCovers DEF At
    <3>3. Current(v) = MapOf(open)[v] /\ Current(v)' = MapOf(open')[v]
      BY <2>1, <2>3, <3>2 DEF Current
    <3> QED
      BY <2>1, <3>1, <3>3 DEF ShownAt
  <2>5. \A v \in VolumeBlocks : Shown(v)' = Shown(v)
    BY <1>1, <2>1, <2>2, <2>4, EmptyBuffer, SameShown
  <2>6. ValuesOK'
    BY <2>1, ReadsAre DEF ValuesOK
  <2> QED
    BY <2>1, <2>2, <2>5, <2>6, QuietReads
<1> QED
  BY <1>2, <1>3

LEMMA RestoreReads ==
    ASSUME MapInv, BufferInv, ReadsInv, RestoreStart \/ RestoreEnd, UNCHANGED buffer_size
    PROVE  ReadsInv'
<1>1. ListInv /\ JournalInv
  BY DEF MapInv
<1>2. CASE RestoreStart
  <2>1. /\ request = NoRequest /\ request' = request /\ ~open_remapped /\ flushed_start_record # 0
        /\ dirty' = dirty /\ UNCHANGED <<open, pbm, buffer, journal, volume, view>>
    BY <1>2, Zenon DEF RestoreStart, Idle, dataVars
  <2>2. restoring = <<>> /\ restoring' = flushed /\ flushed' = <<>>
    BY <1>2, RestoreStartOK
  <2>3. dirty = 0 /\ dirty' = 0
    BY <2>1 DEF BufferInv
  <2>4. \A v \in VolumeBlocks : ShownAt(v)' = ShownAt(v)
    <3>1. \A v \in VolumeBlocks : MapOf(<<>>)[v] = 0
      BY EmptyList
    <3>2. \A v \in VolumeBlocks : Current(v)' = Current(v)
      BY <2>1 DEF Current
    <3> QED
      BY <2>2, <3>1, <3>2 DEF ShownAt
  <2>5. \A v \in VolumeBlocks : Shown(v)' = Shown(v)
    BY <1>1, <2>1, <2>3, <2>4, EmptyBuffer, SameShown
  <2>6. ValuesOK'
    BY <2>1, ReadsAre DEF ValuesOK
  <2> QED
    BY <2>1, <2>5, <2>6, QuietReads
<1>3. CASE RestoreEnd
  <2>1. /\ request = NoRequest /\ request' = request /\ restoring' = <<>>
        /\ volume' = [v \in VolumeBlocks |-> IF MapOf(restoring)[v] # 0
                                             THEN journal[MapOf(restoring)[v]] ELSE volume[v]]
        /\ UNCHANGED <<open, flushed, pbm, dirty, buffer_sector_start, buffer, journal, view>>
    BY <1>3, Zenon DEF RestoreEnd, Idle, bufferVars
  <2>2. \A j \in JournalBlocks : JournalValue(j)' = JournalValue(j)
    BY <2>1, SameValues
  <2>3. ASSUME NEW v \in VolumeBlocks PROVE Shown(v)' = Shown(v)
    <3>1. PICK a : a = ShownAt(v)
      OBVIOUS
    <3>2. Shown(v) = IF a = 0 THEN volume[v] ELSE JournalValue(a)
      BY <3>1, ShownIs
    <3>3. a \in Nat /\ (a # 0 => a \in JournalBlocks)
      BY <1>1, <3>1, ShownAtIs
    <3>4. Current(v)' = Current(v) /\ MapOf(restoring')[v] = 0
      BY <2>1, EmptyList DEF Current
    <3>5. CASE Current(v) = 0 /\ MapOf(flushed)[v] = 0
      <4>1. a = MapOf(restoring)[v]
        BY <3>1, <3>5 DEF ShownAt
      <4>2. ShownAt(v)' = 0
        BY <2>1, <3>4, <3>5 DEF ShownAt
      <4>3. Shown(v)' = IF a # 0 THEN journal[a] ELSE volume[v]
        BY <2>1, <4>1, <4>2, ShownIsNext
      <4>4. a # 0 => JournalValue(a) = journal[a]
        <5>1. a # 0 /\ dirty > 0 => a < buffer_sector_start
          BY <4>1 DEF BufferInv
        <5>2. buffer_sector_start \in Nat
          BY <1>1, CountersAre
        <5>3. a # 0 => ~InBuffer(a)
          BY <3>3, <5>1, <5>2 DEF InBuffer
        <5> QED
          BY <5>3 DEF JournalValue
      <4> QED
        BY <3>2, <4>3, <4>4
    <3>6. CASE ~(Current(v) = 0 /\ MapOf(flushed)[v] = 0)
      <4>1. ShownAt(v)' = a /\ a # 0
        BY <2>1, <3>1, <3>4, <3>6 DEF ShownAt
      <4> QED
        BY <2>2, <3>2, <3>3, <4>1, ShownIsNext
    <3> QED
      BY <3>5, <3>6
  <2>4. ValuesOK'
    <3>1. ValuesOK
      BY ReadsAre
    <3>2. \A v \in VolumeBlocks : MapOf(restoring)[v] # 0 => MapOf(restoring)[v] \in JournalBlocks
      <4>1. next_free_frame \in Nat /\ next_free_frame <= JournalSize /\ JournalSize \in Nat
        BY <1>1, CountersAre
      <4> QED
        BY <1>1, <4>1, CurrentIs DEF JournalInv, JournalBlocks
    <3>3. volume' \in [VolumeBlocks -> Nat]
      BY <2>1, <3>1, <3>2 DEF ValuesOK
    <3> QED
      BY <2>1, <3>1, <3>3 DEF ValuesOK
  <2> QED
    BY <2>1, <2>3, <2>4, QuietReads
<1> QED
  BY <1>2, <1>3

LEMMA ReadsInit == ASSUME BlockMapInit PROVE BufferInv /\ ReadsInv
<1>1. /\ open = <<>> /\ flushed = <<>> /\ restoring = <<>> /\ pbm = None /\ request = NoRequest
      /\ flushing = FALSE /\ next_free_frame = 2 /\ open_current_frame = 1
      /\ flushed_start_record = 0 /\ free_records = MapRecords
      /\ dirty = (IF Buffered THEN 2 ELSE 0) /\ buffer_sector_start = 0
      /\ buffer = [j \in JournalBlocks |-> Rubbish] /\ journal = [j \in JournalBlocks |-> Rubbish]
      /\ volume = [v \in VolumeBlocks |-> Original] /\ view = volume
  BY Zenon DEF BlockMapInit
<1>2. MapRecords \in Nat /\ MaxWrites \in Nat /\ \A v \in VolumeBlocks : MapOf(<<>>)[v] = 0
  BY BlockMapAssumption, EmptyList
<1>3. BufferInv
  <2>1. ~Buffered => dirty = 0
    BY <1>1
  <2>2. dirty > 0 => dirty = 2
    BY <1>1
  <2> QED
    BY <1>1, <1>2, <2>1, <2>2 DEF BufferInv
<1>4. ValuesOK
  BY <1>1, <1>2 DEF ValuesOK, Rubbish, Original
<1>5. ASSUME NEW v \in VolumeBlocks PROVE Shown(v) = view[v]
  <2>1. v \in Nat
    BY BlockMapAssumption DEF VolumeBlocks
  <2>2. ShownAt(v) = 0
    BY <1>1, <1>2, <2>1, NoneCovers DEF ShownAt, Current, At
  <2> QED
    BY <1>1, <2>2, ShownIs
<1>6. \A v \in VolumeBlocks : ~Done(v)
  BY <1>1 DEF Done
<1> QED
  BY <1>3, <1>4, <1>5, <1>6 DEF ReadsInv, ValuesOK

LEMMA ReadsStutter == ASSUME BufferInv, ReadsInv, UNCHANGED mapVars PROVE BufferInv' /\ ReadsInv'
<1>1. /\ UNCHANGED <<open, flushed, restoring, free_records, pbm, request, flushing>>
      /\ UNCHANGED <<open_current_frame, open_current_free, next_free_frame, open_remapped>>
      /\ UNCHANGED <<flushed_start_record, dirty, buffer_sector_start, buffer, buffer_size>>
      /\ UNCHANGED <<journal, volume, view, clock>>
  BY Zenon DEF mapVars, listVars, frameVars, regionVars, bufferVars, dataVars
<1>2. BufferInv'
  BY <1>1 DEF BufferInv, Buffered
<1>3. ReadsInv'
  BY <1>1 DEF ReadsInv, Done, Shown, ShownAt, Current, JournalValue, InBuffer, Buffered
<1> QED
  BY <1>2, <1>3

LEMMA ReadsStep ==
    ASSUME Roomy, MapInv, IndexInv, BufferInv, ReadsInv, BlockMapNext
    PROVE  BufferInv' /\ ReadsInv'
<1>1. UNCHANGED buffer_size
  BY Zenon DEF BlockMapNext
<1>2. WrittenInv /\ RoomInv /\ RecordsInv
  BY DEF IndexInv
<1>3. BufferInv'
  BY <1>2, BufferStep
<1>4. ReadsInv'
  <2>1. \/ WriteCall \/ WriteMapped \/ WriteUnmapped \/ WriteFull
        \/ (FlushCall \/ MakeRoom \/ MoveExtent \/ FlushEnd)
        \/ (RestoreStart \/ RestoreEnd)
    BY Zenon DEF BlockMapNext
  <2> QED
    BY <1>1, <1>2, <2>1, WriteCallReads, WriteMappedReads, WriteUnmappedReads, WriteFullReads,
       FlushReads, RestoreReads, Zenon
<1> QED
  BY <1>3, <1>4

LEMMA ReadsInvariant ==
    BlockMapSpec => [](Roomy => MapInv /\ IndexInv /\ BufferInv /\ ReadsInv)
<1>1. BlockMapInit => MapInv /\ IndexInv /\ BufferInv /\ ReadsInv
  BY InitOK, IndexInitOK, ReadsInit
<1>2. ASSUME Roomy, MapInv, MapInv', IndexInv, BufferInv, ReadsInv, [BlockMapNext]_mapVars
      PROVE  BufferInv' /\ ReadsInv'
  <2>1. CASE BlockMapNext
    BY <1>2, <2>1, ReadsStep
  <2>2. CASE UNCHANGED mapVars
    BY <1>2, <2>2, ReadsStutter
  <2> QED
    BY <1>2, <2>1, <2>2
<1>3. [BlockMapNext]_mapVars /\ Roomy' => Roomy
  <2>1. [BlockMapNext]_mapVars => buffer_size' = buffer_size
    BY Zenon DEF BlockMapNext, mapVars
  <2> QED
    BY <2>1 DEF Roomy, Buffered
<1> DEFINE P == MapInv /\ IndexInv
           Q == Roomy => BufferInv /\ ReadsInv
<1>4. BlockMapInit => Q
  BY <1>1
<1>5. P /\ P' /\ Q /\ [BlockMapNext]_mapVars => Q'
  BY <1>2, <1>3
<1>6. P /\ Q => (Roomy => MapInv /\ IndexInv /\ BufferInv /\ ReadsInv)
  OBVIOUS
<1>7. BlockMapSpec => []P
  BY IndexInvariant
<1> HIDE DEF P, Q
<1> QED
  BY <1>4, <1>5, <1>6, <1>7, PTL DEF BlockMapSpec

\* A read of one block takes one round of the loop of fs_devio_read.
LEMMA ReadOne ==
    ASSUME NEW v \in Nat, Lookup(v, 1).n = 1
    PROVE  Read(v, 1)[1] = IF Lookup(v, 1).mapped THEN JournalValue(Lookup(v, 1).jnl + 1 - 1)
                           ELSE volume[v + 1 - 1]
<1> DEFINE chunk(w, m) == LET hit == Lookup(w, m)
                          IN  [i \in 1 .. hit.n |-> IF hit.mapped THEN JournalValue(hit.jnl + i - 1)
                                                    ELSE volume[w + i - 1]]
           body(g, m) == IF m = 0 THEN <<>>
                         ELSE LET c == chunk(v + 1 - m, m) IN c \o g[m - Len(c)]
           IsRest(g) == g = [m \in 0 .. 1 |-> body(g, m)]
<1>1. Read(v, 1) = (CHOOSE g : IsRest(g))[1]
  BY Zenon DEF Read
<1> DEFINE hit == Lookup(v, 1)
           value == IF hit.mapped THEN JournalValue(hit.jnl + 1 - 1) ELSE volume[v + 1 - 1]
<1>2. PICK c : c = chunk(v, 1)
  OBVIOUS
<1>3. c = [i \in 1 .. 1 |-> IF hit.mapped THEN JournalValue(hit.jnl + i - 1)
                            ELSE volume[v + i - 1]]
  BY <1>2
<1>4. c \in [1 .. 1 -> {value}] /\ c[1] = value
  <2>1. ASSUME NEW i \in 1 .. 1 PROVE c[i] = value
    <3>1. i = 1
      OBVIOUS
    <3> QED
      BY <1>3, <3>1, Zenon
  <2> HIDE DEF value, hit
  <2>2. DOMAIN c = 1 .. 1 /\ c = [i \in 1 .. 1 |-> c[i]]
    BY <1>3
  <2> QED
    BY <2>1, <2>2
<1>5. c \in Seq({value}) /\ Len(c) = 1
  <2> HIDE DEF value
  <2>1. c \in Seq({value})
    <3>1. PICK S : S = {value}
      OBVIOUS
    <3>2. c \in [1 .. 1 -> S] /\ 1 \in Nat
      BY <1>4, <3>1, Zenon
    <3>3. c \in UNION {[1 .. n -> S] : n \in Nat}
      BY <3>2
    <3> QED
      BY <3>1, <3>3, SeqDef, Zenon
  <2> QED
    BY <1>4, <2>1, LenProperties
<1>6. c \o <<>> = c
  BY <1>5, ConcatEmptySeq
<1>7. chunk(v + 1 - 1, 1) = c
  <2>1. v + 1 - 1 = v
    OBVIOUS
  <2> QED
    BY <1>2, <2>1, Zenon
<1> HIDE DEF chunk, value
<1>8. \A g : body(g, 0) = <<>> /\ body(g, 1) = c \o g[1 - Len(c)]
  <2>1. \A g : body(g, 0) = <<>>
    OBVIOUS
  <2>2. \A g : body(g, 1) = c \o g[1 - Len(c)]
    BY <1>7
  <2> QED
    BY <2>1, <2>2
<1>9. \A g : body(g, 1) = c \o g[0]
  <2>1. 1 - Len(c) = 0
    BY <1>5
  <2> QED
    BY <1>8, <2>1, Zenon
<1>10. \A g : body(g, 0) = <<>>
  BY <1>8, Zenon
<1> HIDE DEF body
<1>11. \E g : IsRest(g)
  <2> DEFINE g == [m \in 0 .. 1 |-> IF m = 0 THEN <<>> ELSE c]
  <2>1. g[0] = <<>>
    OBVIOUS
  <2>2. ASSUME NEW m \in 0 .. 1 PROVE (IF m = 0 THEN <<>> ELSE c) = body(g, m)
    <3>1. m = 0 \/ m = 1
      OBVIOUS
    <3> HIDE DEF g
    <3> QED
      BY <1>6, <1>9, <1>10, <2>1, <3>1
  <2>3. g = [m \in 0 .. 1 |-> body(g, m)]
    BY <2>2, Zenon
  <2> QED
    BY <2>3
<1>12. PICK r : r = CHOOSE g : IsRest(g)
  OBVIOUS
<1>13. IsRest(r)
  BY <1>11, <1>12, Zenon
<1>14. r[0] = body(r, 0) /\ r[1] = body(r, 1)
  <2>1. \A m \in 0 .. 1 : r[m] = body(r, m)
    BY <1>13, Zenon
  <2> QED
    BY <2>1
<1>15. r[1] = c
  BY <1>6, <1>9, <1>10, <1>14, Zenon
<1> QED
  BY <1>1, <1>4, <1>12, <1>15, Zenon DEF value

LEMMA LookupIs ==
    ASSUME ListInv, pbm = None, NEW v \in VolumeBlocks
    PROVE  /\ Lookup(v, 1).n = 1
           /\ Lookup(v, 1).mapped <=> ShownAt(v) # 0
           /\ ShownAt(v) # 0 => Lookup(v, 1).jnl = ShownAt(v)
<1> DEFINE o == Scan(open, v, 1)
           f == Scan(flushed, v, 1)
           r == Scan(restoring, v, 1)
<1>1. v \in Nat /\ v >= 1 /\ v + 1 - 1 <= Width /\ Width \in Nat
  BY BlockMapAssumption DEF VolumeBlocks
<1>2. /\ ScanResult(open, v, 1, o) /\ ScanResult(flushed, v, 1, f)
      /\ ScanResult(restoring, v, 1, r)
  BY <1>1, ListParts, ScanIs
<1>3. Lookup(v, 1) = IF o.mapped THEN o ELSE IF f.mapped THEN f ELSE IF r.mapped THEN r
                     ELSE [o EXCEPT !.n = Smaller(@, Smaller(f.n, r.n))]
  BY Zenon DEF Lookup
<1>4. o = [mapped |-> o.mapped, jnl |-> o.jnl, n |-> o.n, adjacent |-> o.adjacent]
  BY DEF Scan
<1> HIDE DEF o, f, r
<1>5. /\ o.n = 1 /\ f.n = 1 /\ r.n = 1
      /\ o.mapped \in BOOLEAN /\ f.mapped \in BOOLEAN /\ r.mapped \in BOOLEAN
      /\ o.mapped <=> MapOf(open)[v] # 0
      /\ f.mapped <=> MapOf(flushed)[v] # 0
      /\ r.mapped <=> MapOf(restoring)[v] # 0
  BY <1>2 DEF ScanResult
<1>6. /\ o.mapped => o.jnl = MapOf(open)[v]
      /\ f.mapped => f.jnl = MapOf(flushed)[v]
      /\ r.mapped => r.jnl = MapOf(restoring)[v]
  <2>1. v \in v .. v + 1 - 1 /\ \A x \in Nat : x + (v - v) = x
    BY <1>1
  <2> QED
    BY <1>2, <1>5, <2>1 DEF ScanResult
<1>7. Current(v) = MapOf(open)[v]
  BY CurrentIs
<1>8. CASE o.mapped \/ f.mapped \/ r.mapped
  BY <1>3, <1>5, <1>6, <1>7, <1>8 DEF ShownAt
<1>9. CASE ~(o.mapped \/ f.mapped \/ r.mapped)
  <2>1. Lookup(v, 1) = [o EXCEPT !.n = Smaller(o.n, Smaller(f.n, r.n))]
    BY <1>3, <1>9
  <2>2. Lookup(v, 1).n = Smaller(o.n, Smaller(f.n, r.n)) /\ Lookup(v, 1).mapped = o.mapped
    BY <1>4, <2>1
  <2>3. Lookup(v, 1).n = 1
    BY <1>5, <2>2 DEF Smaller
  <2> QED
    BY <1>5, <1>7, <1>9, <2>2, <2>3 DEF ShownAt
<1> QED
  BY <1>8, <1>9

\* A read of a block returns what the last write that succeeded wrote, wherever the block
\* is: in the index buffer, in the journal by way of one of the three maps, or on the
\* volume (fs_devio_read, fs_check_mapped_read).  With a buffer of more than two sectors
\* this needs a map record for every block of the journal: a write that fails for want of
\* a record (PEFSMAPFULL) has moved next_free_frame and not the end of the buffer.
THEOREM ReadsGiveTheLatest ==
    BlockMapSpec => [](~Buffered \/ MapRecords >= JournalSize - 2 => BlockReadsLatest)
<1>1. ASSUME MapInv, ReadsInv PROVE BlockReadsLatest
  <2>1. SUFFICES ASSUME Idle, NEW v \in VolumeBlocks, view[v] # Unknown
                 PROVE  Read(v, 1)[1] = view[v]
    BY Zenon DEF BlockReadsLatest
  <2>2. ListInv /\ JournalInv /\ request = NoRequest
    BY <1>1, <2>1 DEF MapInv, Idle
  <2>3. pbm = None
    BY <2>2, ListParts DEF PbmOK
  <2>4. /\ Lookup(v, 1).n = 1
        /\ Lookup(v, 1).mapped <=> ShownAt(v) # 0
        /\ ShownAt(v) # 0 => Lookup(v, 1).jnl = ShownAt(v)
    BY <2>2, <2>3, LookupIs
  <2>5. v \in Nat /\ v + 1 - 1 = v /\ \A a \in Nat : a + 1 - 1 = a
    BY BlockMapAssumption DEF VolumeBlocks
  <2>6. Read(v, 1)[1] = IF Lookup(v, 1).mapped THEN JournalValue(Lookup(v, 1).jnl + 1 - 1)
                        ELSE volume[v + 1 - 1]
    BY <2>4, <2>5, ReadOne
  <2>7. Read(v, 1)[1] = IF ShownAt(v) # 0 THEN JournalValue(ShownAt(v)) ELSE volume[v]
    <3>1. ShownAt(v) \in Nat
      BY <2>2, ShownAtIs
    <3>2. ShownAt(v) # 0 => Lookup(v, 1).jnl + 1 - 1 = ShownAt(v)
      BY <2>4, <2>5, <3>1
    <3> QED
      BY <2>4, <2>5, <2>6, <3>2, Zenon
  <2> QED
    BY <1>1, <2>1, <2>7, ReadsAre, ShownIs
<1>2. (Roomy => MapInv /\ IndexInv /\ BufferInv /\ ReadsInv)
         => (~Buffered \/ MapRecords >= JournalSize - 2 => BlockReadsLatest)
  BY <1>1 DEF Roomy
<1> QED
  BY <1>2, ReadsInvariant, PTL
=============================================================================
