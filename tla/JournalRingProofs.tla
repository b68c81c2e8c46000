-------------------------- MODULE JournalRingProofs --------------------------
(***************************************************************************)
(* Safety of the journal's space management for every journal size, frame  *)
(* size, buffer size and both builds.  The inductive invariant is RingInv. *)
(***************************************************************************)
EXTENDS JournalRing, TLAPS

\* A frame that starts in a room of at least two blocks holds at least one
\* block and stays inside that room.
LEMMA NewFrameRoom ==
    ASSUME NEW room \in Nat, room >= 2, NEW first \in BOOLEAN
    PROVE  FreeInNewFrame(room, first) \in 1 .. room - 1
  BY RingAssumption DEF FreeInNewFrame, FrameLimit

\* What fits with a counter fits with a smaller one.
LEMMA LessCounter ==
    ASSUME NEW less \in Int, NEW more \in Int, NEW k \in Nat, NEW m \in Int,
           less <= more, more + k <= m
    PROVE  less + k <= m
  OBVIOUS

\* The first frame of a journal has room for a block and ends inside the file.
LEMMA FirstFreeRange == FirstFree \in 1 .. FileSize - 2
  BY RingAssumption DEF FirstFree, FreeInNewFrame, FrameLimit

\* Distances stay on the ring.
LEMMA DistanceRange ==
    ASSUME RingTypeOK, NEW b \in Blocks
    PROVE  Distance(b) \in 0 .. FileSize - 2
  BY RingAssumption DEF RingTypeOK, CountersOK, Distance, RingDistance, Blocks

\* Where the next frame goes: the header and the blocks behind it, together
\* with the empty frame in front of them, lie inside the free run.
LEMMA NewFramePlace ==
    ASSUME RingTypeOK, ~OpenFrameFails, frames_free <= FileSize - 1
    PROVE  /\ NewFrame \in Blocks
           /\ Room \in Nat /\ Room >= 2 /\ NewFrame + Room <= FileSize
           /\ FreeAfterNull \in 2 .. frames_free
  BY RingAssumption
  DEF RingTypeOK, CountersOK, OpenFrameFails, FreeAfterNull, NewFrame, Room, Wraps, NeedsNullFrame,
      BlocksToEnd, Blocks

\* The frame that starts a session leaves the ring in order.
LEMMA StartInv ==
    ASSUME next_free_frame = 2, frames_free = FileSize - 2, wrapped = FALSE,
           session_start_record = 1, open_start_record = 1, open_current_frame = 1,
           open_current_used = 0, open_current_free = FirstFree, open_remapped = FALSE,
           flushed_start_record = 0, flushed_terminal_record = 0, flushed_last_block = 0,
           restoring_start_record = 0, restoring_terminal_record = 0,
           restoring_last_block = 0,
           holds = [b \in Blocks |-> IF b = 1 THEN "open" ELSE "free"], written = {}
    PROVE  RingInv
<1>1. FirstFree \in 1 .. FileSize - 2
  BY FirstFreeRange
<1>2. RingTypeOK
  <2>1. holds \in [Blocks -> Labels]
    BY DEF Labels
  <2>2. CountersOK
    BY <1>1, RingAssumption DEF CountersOK
  <2> QED
    BY <2>1, <2>2, Zenon DEF RingTypeOK
<1>3. OpenFrameFits
  BY <1>1, RingAssumption DEF OpenFrameFits
<1>4. Accounting
  BY RingAssumption DEF Accounting, FilledFrom, Held, Distance, RingDistance
<1>5. RegionsInOrder
  BY RingAssumption DEF RegionsInOrder, FilledFrom, Distance, RingDistance, Blocks
<1> QED
  BY <1>2, <1>3, <1>4, <1>5 DEF RingInv

LEMMA InitInv == RingInit => RingInv
  BY StartInv DEF RingInit

LEMMA StartJournalingInv == StartJournaling => RingInv'
<1> SUFFICES ASSUME StartJournaling PROVE RingInv'
  OBVIOUS
<1>1. FirstFree \in 1 .. FileSize - 2
  BY FirstFreeRange
<1>2. RingTypeOK'
  <2>1. holds' \in [Blocks -> Labels]
    BY DEF StartJournaling, Labels
  <2>2. CountersOK'
    BY <1>1, RingAssumption DEF StartJournaling, CountersOK
  <2> QED
    BY <2>1, <2>2, Zenon DEF StartJournaling, RingTypeOK
<1>3. OpenFrameFits'
  BY <1>1, RingAssumption DEF StartJournaling, OpenFrameFits
<1>4. Accounting'
  BY RingAssumption DEF StartJournaling, Accounting, FilledFrom, Held, Distance, RingDistance
<1>5. RegionsInOrder'
  BY RingAssumption DEF StartJournaling, RegionsInOrder, FilledFrom, Distance, RingDistance, Blocks
<1> QED
  BY <1>2, <1>3, <1>4, <1>5 DEF RingInv

-----------------------------------------------------------------------------
\* The two facts a step needs of the state it leaves: live blocks are at
\* least frames_free away, so the blocks in front of them may be taken.
LEMMA LiveIsFar ==
    ASSUME RingInv, NEW b \in Blocks, holds[b] \in Live
    PROVE  Distance(b) >= frames_free
<1>1. Held \in Int /\ Held >= 0
  BY RingAssumption DEF RingInv, RingTypeOK, CountersOK, Held, RegionSize, OpenFrameFits
<1>2. CASE holds[b] = "restoring"
  BY <1>2 DEF RingInv, RegionsInOrder
<1>3. CASE holds[b] \in {"open", "flushed"}
  <2>1. FilledFrom \in Blocks /\ Distance(b) >= Distance(FilledFrom)
    BY <1>3, RingAssumption DEF RingInv, RingTypeOK, CountersOK, RegionsInOrder, FilledFrom, Blocks
  <2>2. frames_free + Held <= Distance(FilledFrom)
    BY <2>1 DEF RingInv, Accounting, Blocks
  <2> QED
    BY <2>1, <2>2, <1>1, DistanceRange DEF RingInv, RingTypeOK, CountersOK
<1> QED
  BY <1>2, <1>3 DEF Live

\* FreeRunIsDead is a consequence of RingInv.
LEMMA InvFreeRun == RingInv => FreeRunIsDead
<1> SUFFICES ASSUME RingInv, NEW b \in Blocks, Distance(b) < frames_free, holds[b] \in Live
             PROVE  FALSE
  BY DEF FreeRunIsDead
<1>1. Distance(b) >= frames_free
  BY LiveIsFar
<1> QED
  BY <1>1, DistanceRange DEF RingInv, RingTypeOK, CountersOK

-----------------------------------------------------------------------------
(* One lemma for each action of RingNext. *)

LEMMA AllocInFrameInv ==
    ASSUME RingInv, NEW n \in Nat, AllocInFrame(n)
    PROVE  RingInv' /\ \A b \in written' : holds[b] \notin Live
<1> USE RingAssumption
<1>1. /\ CountersOK /\ OpenFrameFits /\ Accounting /\ RegionsInOrder
      /\ wrapped \in BOOLEAN /\ holds \in [Blocks -> Labels]
  BY DEF RingInv, RingTypeOK
<1>2. /\ n \in 1 .. open_current_free /\ n <= frames_free
      /\ open_current_frame # 0 /\ open_start_record # 0
      /\ next_free_frame + n <= FileSize
  BY <1>1 DEF AllocInFrame, OpenFrameFits, CountersOK
<1>3. \A b \in written' : b \in Blocks /\ Distance(b) < frames_free
  BY <1>1, <1>2 DEF AllocInFrame, Distance, RingDistance, Blocks, CountersOK
<1>4. \A b \in written' : holds[b] \notin Live
  BY <1>1, <1>3, LiveIsFar, DistanceRange DEF RingInv, RingTypeOK, CountersOK
<1>5. RingTypeOK'
  <2>1. CountersOK'
    BY <1>1, <1>2 DEF AllocInFrame, CountersOK, flushedVars, restoringVars, OpenFrameFits
  <2>2. holds' \in [Blocks -> Labels] /\ written' \in SUBSET Blocks
    BY <1>1, <1>3 DEF AllocInFrame, Labels
  <2> QED
    BY <1>1, <2>1, <2>2, Zenon DEF AllocInFrame, RingTypeOK
<1>6. OpenFrameFits'
  BY <1>1, <1>2 DEF AllocInFrame, OpenFrameFits, CountersOK, flushedVars, restoringVars
<1>7. FilledFrom' = FilledFrom /\ Held' = Held /\ FilledFrom \in Blocks
      /\ Held \in Nat
  BY <1>1, <1>2 DEF AllocInFrame, FilledFrom, Held, RegionSize, flushedVars, restoringVars,
      CountersOK, Blocks, OpenFrameFits
<1>8. \A b \in Blocks : Distance(b) >= n => Distance(b)' = Distance(b) - n
  BY <1>1, <1>2 DEF AllocInFrame, Distance, RingDistance, Blocks, CountersOK
<1>9. \A b \in written' : Distance(b)' \in Nat /\ Distance(b)' >= FileSize - 1 - n
  BY <1>1, <1>2 DEF AllocInFrame, Distance, RingDistance, Blocks, CountersOK
<1>10. frames_free + Held <= Distance(FilledFrom) /\ Distance(FilledFrom) \in 0 .. FileSize - 2
  BY <1>1, <1>7, DistanceRange DEF Accounting, Blocks, RingInv
<1>11. Distance(FilledFrom)' = Distance(FilledFrom) - n
  BY <1>1, <1>2, <1>7, <1>8, <1>10 DEF CountersOK
<1>12. Accounting'
  BY <1>1, <1>2, <1>7, <1>10, <1>11 DEF AllocInFrame, Accounting, CountersOK, Blocks
<1>13. RegionsInOrder'
  <2>1. ASSUME NEW b \in Blocks, holds'[b] \in {"open", "flushed"}
        PROVE  FilledFrom' # 0 /\ Distance(b)' >= Distance(FilledFrom)'
    <3>1. CASE b \in written'
      BY <3>1, <1>2, <1>7, <1>9, <1>10, <1>11 DEF Blocks
    <3>2. CASE b \notin written'
      <4>1. holds'[b] = holds[b]
        BY <3>2 DEF AllocInFrame
      <4>2. Distance(b) >= Distance(FilledFrom) /\ Distance(b) \in Int
        BY <4>1, <2>1, <1>1, DistanceRange DEF RegionsInOrder, RingInv
      <4> QED
        BY <4>2, <1>1, <1>2, <1>7, <1>8, <1>10, <1>11 DEF CountersOK, Blocks
    <3> QED
      BY <3>1, <3>2
  <2>2. ASSUME NEW b \in Blocks, holds'[b] = "restoring"
        PROVE  restoring_start_record' # 0 /\ Distance(b)' >= frames_free'
    <3>1. holds[b] = "restoring" /\ restoring_start_record' = restoring_start_record
      BY <2>2 DEF AllocInFrame, restoringVars
    <3>2. restoring_start_record # 0 /\ Distance(b) >= frames_free /\ Distance(b) \in Int
      BY <3>1, <1>1, DistanceRange DEF RegionsInOrder, RingInv
    <3> QED
      BY <3>1, <3>2, <1>1, <1>2, <1>8 DEF AllocInFrame, CountersOK
  <2>3. ASSUME flushed_start_record' # 0
        PROVE  flushed_last_block' # 0
               /\ Distance(flushed_last_block)' >= Distance(flushed_start_record)'
    <3>1. /\ flushed_start_record' = flushed_start_record
          /\ flushed_last_block' = flushed_last_block
          /\ flushed_start_record # 0 /\ FilledFrom = flushed_start_record
      BY <2>3 DEF AllocInFrame, flushedVars, FilledFrom
    <3>2. /\ flushed_last_block \in Blocks
          /\ Distance(flushed_last_block) >= Distance(flushed_start_record)
      BY <3>1, <1>1 DEF RegionsInOrder, Blocks, CountersOK
    <3>3. Distance(flushed_last_block) \in Int
      BY <3>2, DistanceRange DEF RingInv
    <3>4. /\ Distance(flushed_last_block)' = Distance(flushed_last_block) - n
          /\ Distance(flushed_start_record)' = Distance(flushed_start_record) - n
      BY <3>1, <3>2, <3>3, <1>1, <1>2, <1>7, <1>8, <1>10 DEF Distance, RingDistance, CountersOK
    <3> QED
      BY <3>1, <3>2, <3>3, <3>4, <1>2, <1>7, <1>10 DEF Blocks
  <2> QED
    BY <2>1, <2>2, <2>3 DEF RegionsInOrder
<1> QED
  BY <1>4, <1>5, <1>6, <1>12, <1>13 DEF RingInv

LEMMA AllocInNewFrameInv ==
    ASSUME RingInv, NEW n \in Nat, AllocInNewFrame(n)
    PROVE  RingInv' /\ \A b \in written' : holds[b] \notin Live
<1> USE RingAssumption
<1> DEFINE cost == frames_free - frames_free'
           After(b) == RingDistance(next_free_frame', b)
<1>1. /\ CountersOK /\ OpenFrameFits /\ Accounting /\ RegionsInOrder
      /\ wrapped \in BOOLEAN /\ open_remapped \in BOOLEAN /\ holds \in [Blocks -> Labels]
  BY DEF RingInv, RingTypeOK
<1>2. /\ NewFrame \in Blocks
      /\ Room \in Nat /\ Room >= 2 /\ NewFrame + Room <= FileSize
      /\ FreeAfterNull \in 2 .. frames_free
  BY <1>1, NewFramePlace DEF AllocInNewFrame, CountersOK, RingInv
<1>3. RoomInNewFrame \in 1 .. Room - 1
  BY <1>2, NewFrameRoom DEF RoomInNewFrame
<1>4. /\ n \in 0 .. RoomInNewFrame
      /\ IF n = 0 THEN FreeAfterNull - 1 < RoomInNewFrame ELSE n <= FreeAfterNull - 1
      /\ open_start_record' = StartWithNewFrame
      /\ open_current_frame' = NewFrame
      /\ open_current_used' = n
      /\ open_current_free' = RoomInNewFrame - n
      /\ next_free_frame' = NewFrame + 1 + n
      /\ frames_free' = FreeAfterNull - 1 - n
      /\ written' = NullBlocks \union (NewFrame .. NewFrame + n)
      /\ holds' = [b \in Blocks |-> IF b \in NullBlocks THEN "null"
                                    ELSE IF b \in written' THEN "open" ELSE holds[b]]
      /\ UNCHANGED <<flushed_start_record, flushed_terminal_record, flushed_last_block,
                     restoring_start_record, restoring_terminal_record, restoring_last_block>>
  BY Zenon DEF AllocInNewFrame, flushedVars, restoringVars
<1>5. /\ n <= FreeAfterNull - 1
      /\ NewFrame + n <= FileSize - 1
      /\ cost \in 1 .. frames_free
  BY <1>1, <1>2, <1>3, <1>4 DEF Blocks, CountersOK
<1>6. \A b \in written' : b \in Blocks /\ Distance(b) < frames_free
  BY <1>1, <1>2, <1>3, <1>4, <1>5
  DEF Distance, RingDistance, Blocks, CountersOK, NullBlocks, NewFrame, Wraps,
      NeedsNullFrame, BlocksToEnd, FreeAfterNull
<1>7. \A b \in written' : holds[b] \notin Live
  BY <1>1, <1>6, LiveIsFar, DistanceRange DEF RingInv, CountersOK
<1>8. \A b \in Blocks : Distance(b) >= cost => After(b) = Distance(b) - cost
  BY <1>1, <1>2, <1>4, <1>5
  DEF Distance, RingDistance, Blocks, CountersOK, NewFrame, Wraps, NeedsNullFrame, BlocksToEnd, FreeAfterNull
<1>9. \A b \in NewFrame .. NewFrame + n :
         After(b) = FileSize - 2 - n + (b - NewFrame)
  BY <1>1, <1>2, <1>4, <1>5 DEF RingDistance, Blocks, CountersOK
<1>10. After(NewFrame) = FileSize - 2 - n
  BY <1>2, <1>4, <1>9 DEF Blocks
<1>11. RingTypeOK'
  <2>1. session_start_record' \in 1 .. FileSize - 1
    <3>1. session_start_record' \in {session_start_record, SessionStartNow}
      BY Zenon DEF AllocInNewFrame
    <3> QED
      BY <3>1, <1>1, <1>2 DEF SessionStartNow, StartWithNewFrame, CountersOK, Blocks
  <2>2. CountersOK'
    BY <1>1, <1>2, <1>3, <1>4, <1>5, <2>1 DEF CountersOK, StartWithNewFrame, Blocks
  <2>3. holds' \in [Blocks -> Labels] /\ written' \in SUBSET Blocks
    BY <1>1, <1>4, <1>6 DEF Labels
  <2>4. wrapped' \in BOOLEAN /\ open_remapped' \in BOOLEAN
    BY <1>1, Zenon DEF AllocInNewFrame
  <2> QED
    BY <2>2, <2>3, <2>4 DEF RingTypeOK
<1>12. OpenFrameFits'
  BY <1>1, <1>2, <1>3, <1>4, <1>5
  DEF OpenFrameFits, CountersOK, Blocks, StartWithNewFrame
<1>13. /\ Held' = Held /\ Held \in Nat
       /\ FilledFrom \in 0 .. FileSize - 1
       /\ FilledFrom' = IF FilledFrom = 0 THEN NewFrame ELSE FilledFrom
  BY <1>1, <1>2, <1>4 DEF FilledFrom, Held, RegionSize, CountersOK, Blocks, OpenFrameFits,
     StartWithNewFrame
<1> HIDE DEF cost, After
<1>14. /\ FilledFrom' \in Blocks
       /\ After(FilledFrom') \in Nat
       /\ After(FilledFrom') <= FileSize - 2 - n
       /\ frames_free' + Held' <= After(FilledFrom')
  <2>1. CASE FilledFrom = 0
    <3>1. frames_free + Held <= FileSize - 1
      BY <2>1, <1>1 DEF Accounting
    <3> QED
      BY <2>1, <3>1, <1>1, <1>2, <1>4, <1>5, <1>10, <1>13 DEF CountersOK, Blocks
  <2>2. CASE FilledFrom # 0
    <3>1. /\ FilledFrom \in Blocks /\ frames_free + Held <= Distance(FilledFrom)
          /\ Distance(FilledFrom) \in 0 .. FileSize - 2
      BY <2>2, <1>1, <1>13, DistanceRange DEF Accounting, Blocks, RingInv
    <3>2. After(FilledFrom') = Distance(FilledFrom) - cost
      BY <2>2, <3>1, <1>5, <1>8, <1>13, <1>1 DEF CountersOK
    <3>3. cost >= 1 + n
      BY <1>5, <1>1, <1>2, <1>4 DEF cost, CountersOK
    <3> QED
      BY <2>2, <3>1, <3>2, <3>3, <1>1, <1>2, <1>4, <1>5, <1>13 DEF cost, CountersOK, Blocks
  <2> QED
    BY <2>1, <2>2
<1>15. Accounting'
  BY <1>14, <1>5, <1>13 DEF Accounting, Blocks, Distance, After
<1>16. RegionsInOrder'
  <2>1. ASSUME NEW b \in Blocks, holds'[b] \in {"open", "flushed"}
        PROVE  FilledFrom' # 0 /\ After(b) >= After(FilledFrom')
    <3>1. CASE b \in NewFrame .. NewFrame + n
      BY <3>1, <1>2, <1>4, <1>9, <1>14 DEF Blocks
    <3>2. CASE b \notin NewFrame .. NewFrame + n
      <4>1. holds'[b] = holds[b]
        BY <3>2, <2>1, <1>4
      <4>2. /\ FilledFrom \in Blocks /\ FilledFrom' = FilledFrom
            /\ Distance(b) >= Distance(FilledFrom) /\ Distance(b) \in Int
        BY <4>1, <2>1, <1>1, <1>13, DistanceRange DEF RegionsInOrder, RingInv, Blocks
      <4>3. frames_free + Held <= Distance(FilledFrom) /\ Distance(FilledFrom) \in Int
        BY <4>2, <1>1, DistanceRange DEF Accounting, RingInv, Blocks
      <4>4. /\ After(b) = Distance(b) - cost
            /\ After(FilledFrom') = Distance(FilledFrom) - cost
        BY <4>2, <4>3, <1>1, <1>5, <1>8, <1>13 DEF CountersOK
      <4> QED
        BY <4>2, <4>3, <4>4, <1>5, <1>14 DEF Blocks
    <3> QED
      BY <3>1, <3>2
  <2>2. ASSUME NEW b \in Blocks, holds'[b] = "restoring"
        PROVE  restoring_start_record' # 0 /\ After(b) >= frames_free'
    <3>1. holds[b] = "restoring" /\ restoring_start_record' = restoring_start_record
      BY <2>2, <1>4
    <3>2. restoring_start_record # 0 /\ Distance(b) >= frames_free /\ Distance(b) \in Int
      BY <3>1, <1>1, DistanceRange DEF RegionsInOrder, RingInv
    <3>3. After(b) = Distance(b) - cost
      BY <3>2, <1>1, <1>5, <1>8 DEF CountersOK
    <3> QED
      BY <3>1, <3>2, <3>3, <1>1, <1>2, <1>4, <1>5 DEF cost, CountersOK
  <2>3. ASSUME flushed_start_record' # 0
        PROVE  flushed_last_block' # 0
               /\ After(flushed_last_block') >= After(flushed_start_record')
    <3>1. /\ flushed_start_record' = flushed_start_record
          /\ flushed_last_block' = flushed_last_block
          /\ flushed_start_record # 0 /\ FilledFrom = flushed_start_record
      BY <2>3, <1>4 DEF FilledFrom
    <3>2. /\ flushed_last_block \in Blocks /\ flushed_start_record \in Blocks
          /\ Distance(flushed_last_block) >= Distance(flushed_start_record)
          /\ frames_free + Held <= Distance(flushed_start_record)
      BY <3>1, <1>1 DEF RegionsInOrder, Accounting, Blocks, CountersOK
    <3>3. Distance(flushed_last_block) \in Int /\ Distance(flushed_start_record) \in Int
      BY <3>2, DistanceRange DEF RingInv
    <3>4. /\ After(flushed_last_block') = Distance(flushed_last_block) - cost
          /\ After(flushed_start_record') = Distance(flushed_start_record) - cost
      BY <3>1, <3>2, <3>3, <1>1, <1>5, <1>8, <1>13 DEF CountersOK
    <3> QED
      BY <3>1, <3>2, <3>3, <3>4, <1>5 DEF Blocks
  <2> QED
    BY <2>1, <2>2, <2>3 DEF RegionsInOrder, Distance, After
<1> QED
  BY <1>7, <1>11, <1>12, <1>15, <1>16 DEF RingInv

LEMMA JournalFullInv ==
    ASSUME RingInv, JournalFull
    PROVE  RingInv' /\ \A b \in written' : holds[b] \notin Live
<1> USE RingAssumption
<1>1. /\ CountersOK /\ OpenFrameFits /\ Accounting /\ RegionsInOrder
      /\ wrapped \in BOOLEAN /\ holds \in [Blocks -> Labels]
  BY DEF RingInv, RingTypeOK
<1>2. /\ open_current_frame' = 0 /\ open_current_free = 0
      /\ UNCHANGED <<next_free_frame, session_start_record, open_start_record,
                     open_current_used, open_current_free,
                     flushed_start_record, flushed_terminal_record, flushed_last_block,
                     restoring_start_record, restoring_terminal_record, restoring_last_block>>
  BY Zenon DEF JournalFull, flushedVars, restoringVars
\* All that changes in the ring is the counter, downwards, and a dead block.
<1>3. /\ frames_free' \in 0 .. frames_free
      /\ \A b \in written' : b \in Blocks /\ Distance(b) < frames_free
      /\ holds' \in [Blocks -> Labels]
      /\ \A b \in Blocks : holds'[b] \in Live => holds[b] = holds'[b]
  <2>1. CASE frames_free >= 2
    <3>1. /\ frames_free' = FreeAfterNull /\ written' = NullBlocks
          /\ holds' = [b \in Blocks |-> IF b \in written' THEN "null" ELSE holds[b]]
      BY <2>1, Zenon DEF JournalFull
    <3>2. /\ FreeAfterNull \in 0 .. frames_free
          /\ \A b \in NullBlocks : b \in Blocks /\ Distance(b) < frames_free
      BY <2>1, <1>1 DEF FreeAfterNull, NeedsNullFrame, NullBlocks, BlocksToEnd, Distance,
         RingDistance, CountersOK, Blocks
    <3> QED
      BY <3>1, <3>2, <1>1 DEF Labels, Live
  <2>2. CASE ~(frames_free >= 2)
    BY <2>2, <1>1 DEF JournalFull, CountersOK
  <2> QED
    BY <2>1, <2>2
<1>4. \A b \in written' : holds[b] \notin Live
  BY <1>1, <1>3, LiveIsFar, DistanceRange DEF RingInv, CountersOK
<1>5. RingTypeOK'
  <2>1. CountersOK'
    BY <1>1, <1>2, <1>3 DEF CountersOK
  <2>2. written' \in SUBSET Blocks
    BY <1>3
  <2> QED
    BY <1>1, <1>3, <2>1, <2>2, Zenon DEF JournalFull, RingTypeOK
<1>6. OpenFrameFits'
  BY <1>1, <1>2 DEF OpenFrameFits, JournalFull
<1>7. /\ FilledFrom' = FilledFrom /\ Held' = Held
      /\ Held \in Nat /\ FilledFrom \in 0 .. FileSize - 1
      /\ \A b : Distance(b)' = Distance(b)
  BY <1>1, <1>2 DEF FilledFrom, Held, RegionSize, CountersOK, OpenFrameFits, Distance,
     RingDistance
<1>8. Accounting'
  <2>1. FilledFrom # 0 => Distance(FilledFrom) \in Int
    BY <1>7, DistanceRange DEF RingInv, Blocks
  <2>2. frames_free' \in Int /\ frames_free \in Int /\ frames_free' <= frames_free
    BY <1>1, <1>3 DEF CountersOK
  <2>3. \A m \in Int : frames_free + Held <= m => frames_free' + Held <= m
    BY <2>2, <1>7, LessCounter
  <2>4. /\ FilledFrom = 0 => frames_free' + Held <= FileSize - 1
        /\ FilledFrom # 0 => frames_free' + Held <= Distance(FilledFrom)
    BY <1>1, <2>1, <2>3 DEF Accounting
  <2> QED
    BY <1>2, <1>7, <2>4 DEF Accounting, Distance
<1>9. RegionsInOrder'
  <2>1. \A b \in Blocks : Distance(b) \in Int
    BY DistanceRange DEF RingInv
  <2>2. \A b \in Blocks : holds'[b] \in {"open", "flushed"} =>
           FilledFrom # 0 /\ Distance(b) >= Distance(FilledFrom)
    BY <1>1, <1>3 DEF RegionsInOrder, Live
  <2>3. \A b \in Blocks : holds'[b] = "restoring" =>
           restoring_start_record # 0 /\ Distance(b) >= frames_free'
    BY <1>1, <1>3, <2>1 DEF RegionsInOrder, Live, CountersOK
  <2> QED
    BY <1>1, <1>2, <1>7, <2>2, <2>3 DEF RegionsInOrder, Distance
<1> QED
  BY <1>4, <1>5, <1>6, <1>8, <1>9 DEF RingInv

LEMMA FlushInv ==
    ASSUME RingInv, Flush
    PROVE  RingInv'
<1> USE RingAssumption
<1>1. /\ CountersOK /\ OpenFrameFits /\ Accounting /\ RegionsInOrder
      /\ wrapped \in BOOLEAN /\ holds \in [Blocks -> Labels]
  BY DEF RingInv, RingTypeOK
<1>2. /\ flushed_start_record' = FlushStart
      /\ flushed_terminal_record' = open_current_frame
      /\ flushed_last_block' = open_current_frame + open_current_used
      /\ open_current_frame' = 0 /\ open_current_used' = 0 /\ open_current_free' = 0
      /\ holds' = [b \in Blocks |-> IF holds[b] = "open" THEN "flushed" ELSE holds[b]]
      /\ UNCHANGED <<next_free_frame, frames_free, session_start_record, open_start_record,
                     restoring_start_record, restoring_terminal_record, restoring_last_block>>
  BY Zenon DEF Flush, cursors, restoringVars
<1>3. /\ open_current_frame # 0 /\ open_start_record # 0
      /\ open_current_frame + open_current_used = next_free_frame - 1
  BY <1>1 DEF Flush, OpenFrameFits, CountersOK
<1>4. FlushStart = FilledFrom /\ FilledFrom \in Blocks /\ FilledFrom' = FilledFrom
  BY <1>1, <1>2, <1>3 DEF FlushStart, FilledFrom, CountersOK, Blocks
<1>5. RingTypeOK'
  <2>1. CountersOK'
    BY <1>1, <1>2, <1>3, <1>4 DEF CountersOK, Blocks
  <2>2. holds' \in [Blocks -> Labels]
    BY <1>1, <1>2 DEF Labels
  <2> QED
    BY <1>1, <2>1, <2>2, Zenon DEF Flush, cursors, RingTypeOK
<1>6. OpenFrameFits'
  BY <1>1, <1>2 DEF OpenFrameFits, Flush
<1>7. Accounting'
  <2>1. Held' = Held
    BY <1>2 DEF Held, RegionSize
  <2> QED
    BY <1>1, <1>2, <1>4, <2>1 DEF Accounting, Distance, Blocks
<1>8. RegionsInOrder'
  <2>1. \A b \in Blocks : holds'[b] \in {"open", "flushed"} =>
           FilledFrom' # 0 /\ Distance(b) >= Distance(FilledFrom)
    BY <1>1, <1>2, <1>4 DEF RegionsInOrder, Blocks
  <2>2. \A b \in Blocks : holds'[b] = "restoring" =>
           restoring_start_record' # 0 /\ Distance(b) >= frames_free'
    BY <1>1, <1>2 DEF RegionsInOrder
  <2>3. /\ flushed_last_block' # 0
        /\ Distance(flushed_last_block') >= Distance(flushed_start_record')
    BY <1>1, <1>2, <1>3, <1>4 DEF Distance, RingDistance, CountersOK, Blocks
  <2> QED
    BY <1>2, <1>4, <2>1, <2>2, <2>3 DEF RegionsInOrder, Distance
<1> QED
  BY <1>5, <1>6, <1>7, <1>8 DEF RingInv

\* A region that starts at first and ends at last is no longer than what lies
\* between first and the cursor.
LEMMA RegionFits ==
    ASSUME CountersOK, NEW first \in Blocks, NEW last \in Blocks,
           Distance(last) >= Distance(first)
    PROVE  RegionSize(first, last) \in 1 .. FileSize - 1 - Distance(first)
  BY RingAssumption DEF CountersOK, RegionSize, Distance, RingDistance, Blocks

LEMMA RestoreStartInv ==
    ASSUME RingInv, RestoreStart
    PROVE  RingInv'
<1> USE RingAssumption
<1>1. /\ CountersOK /\ OpenFrameFits /\ Accounting /\ RegionsInOrder
      /\ wrapped \in BOOLEAN /\ holds \in [Blocks -> Labels]
  BY DEF RingInv, RingTypeOK
<1>2. /\ restoring_start_record = 0
      /\ open_start_record' = 0 /\ open_current_frame' = 0
      /\ open_current_used' = 0 /\ open_current_free' = 0
      /\ flushed_start_record' = 0 /\ flushed_terminal_record' = 0
      /\ flushed_last_block' = 0
      /\ UNCHANGED <<next_free_frame, frames_free, session_start_record>>
  BY Zenon DEF RestoreStart, cursors
<1>3. /\ FilledFrom \in Blocks
      /\ restoring_start_record' = FilledFrom
      /\ restoring_last_block' \in Blocks
      /\ restoring_terminal_record' \in 0 .. FileSize - 1
      /\ Distance(restoring_last_block') >= Distance(FilledFrom)
  <2>1. CASE open_remapped
    <3>1. /\ restoring_start_record' = FlushStart
          /\ restoring_terminal_record' = open_current_frame
          /\ restoring_last_block' = open_current_frame + open_current_used
      BY <2>1, Zenon DEF RestoreStart
    <3>2. /\ open_current_frame # 0 /\ open_start_record # 0
          /\ open_current_frame + open_current_used = next_free_frame - 1
      BY <2>1, <1>1 DEF OpenFrameFits, CountersOK
    <3> QED
      BY <3>1, <3>2, <1>1 DEF FlushStart, FilledFrom, CountersOK, Blocks, Distance, RingDistance
  <2>2. CASE ~open_remapped
    <3>1. /\ flushed_start_record # 0
          /\ restoring_start_record' = flushed_start_record
          /\ restoring_terminal_record' = flushed_terminal_record
          /\ restoring_last_block' = flushed_last_block
      BY <2>2, Zenon DEF RestoreStart
    <3> QED
      BY <3>1, <1>1 DEF FilledFrom, RegionsInOrder, CountersOK, Blocks
  <2> QED
    BY <2>1, <2>2, Zenon
<1>4. \A b \in Blocks :
         /\ holds'[b] \in Labels
         /\ holds'[b] \notin {"open", "flushed"}
         /\ holds'[b] = "restoring" => holds[b] \in {"open", "flushed", "restoring"}
  BY <1>1, Zenon DEF RestoreStart, Labels
<1>5. RingTypeOK'
  <2>1. CountersOK'
    BY <1>1, <1>2, <1>3 DEF CountersOK, Blocks
  <2>2. holds' \in [Blocks -> Labels]
    BY <1>4 DEF RestoreStart
  <2> QED
    BY <1>1, <2>1, <2>2, Zenon DEF RestoreStart, cursors, RingTypeOK
<1>6. OpenFrameFits'
  BY <1>2, <1>3 DEF OpenFrameFits, RestoreStart, Blocks
<1>7. frames_free <= Distance(FilledFrom) /\ Distance(FilledFrom) \in 0 .. FileSize - 2
  BY <1>1, <1>2, <1>3, DistanceRange DEF Accounting, Held, Blocks, CountersOK, RingInv
<1>8. Accounting'
  <2>1. RegionSize(FilledFrom, restoring_last_block') \in 1 .. FileSize - 1 - Distance(FilledFrom)
    BY <1>1, <1>3, RegionFits
  <2>2. Held' = RegionSize(FilledFrom, restoring_last_block') /\ FilledFrom' = 0
    BY <1>2, <1>3 DEF Held, RegionSize, FilledFrom, Blocks
  <2> QED
    BY <1>1, <1>2, <1>7, <2>1, <2>2 DEF Accounting, CountersOK
<1>9. RegionsInOrder'
  <2>1. ASSUME NEW b \in Blocks, holds'[b] = "restoring"
        PROVE  restoring_start_record' # 0 /\ Distance(b) >= frames_free
    <3>1. Distance(b) >= Distance(FilledFrom)
      BY <2>1, <1>1, <1>2, <1>4 DEF RegionsInOrder
    <3> QED
      BY <3>1, <1>1, <1>3, <1>7, DistanceRange DEF Blocks, CountersOK, RingInv
  <2> QED
    BY <1>2, <1>4, <2>1 DEF RegionsInOrder, Distance
<1> QED
  BY <1>5, <1>6, <1>8, <1>9 DEF RingInv

\* The end of a restore, with its blocks given back (returned) or, after an
\* error, lost.
LEMMA RestoreEndInv ==
    ASSUME RingInv, NEW returned \in {0, Held}, NEW label \in {"free", "lost"},
           restoring_start_record # 0,
           frames_free' = frames_free + returned,
           restoring_start_record' = 0, restoring_terminal_record' = 0,
           holds' = [b \in Blocks |-> IF holds[b] = "restoring" THEN label ELSE holds[b]],
           written' = {},
           UNCHANGED <<next_free_frame, wrapped, session_start_record, restoring_last_block,
                       openVars, flushedVars>>
    PROVE  RingInv'
<1> USE RingAssumption
<1>1. /\ CountersOK /\ OpenFrameFits /\ Accounting /\ RegionsInOrder
      /\ wrapped \in BOOLEAN /\ open_remapped \in BOOLEAN /\ holds \in [Blocks -> Labels]
  BY DEF RingInv, RingTypeOK
<1>2. /\ UNCHANGED <<open_start_record, open_current_frame, open_current_used, open_current_free,
                     flushed_start_record, flushed_terminal_record, flushed_last_block>>
      /\ open_remapped' = open_remapped
  BY Zenon DEF openVars, flushedVars
<1>3. /\ FilledFrom' = FilledFrom /\ FilledFrom \in 0 .. FileSize - 1
      /\ Held' = 0 /\ Held \in Nat /\ returned \in 0 .. Held
  BY <1>1, <1>2 DEF FilledFrom, Held, RegionSize, CountersOK, OpenFrameFits
<1>4. FilledFrom # 0 => Distance(FilledFrom) \in 0 .. FileSize - 2
  BY <1>3, DistanceRange DEF RingInv, Blocks
<1>5. Accounting' /\ frames_free' \in 0 .. FileSize - 1
  BY <1>1, <1>3, <1>4 DEF Accounting, CountersOK, Distance
<1>6. RingTypeOK'
  <2>1. CountersOK'
    BY <1>1, <1>2, <1>5 DEF CountersOK
  <2>2. holds' \in [Blocks -> Labels]
    BY <1>1 DEF Labels
  <2> QED
    BY <1>1, <1>2, <2>1, <2>2, Zenon DEF RingTypeOK
<1>7. OpenFrameFits'
  BY <1>1, <1>2 DEF OpenFrameFits
<1>8. RegionsInOrder'
  <2>1. \A b \in Blocks : holds'[b] \in {"open", "flushed"} =>
           FilledFrom # 0 /\ Distance(b) >= Distance(FilledFrom)
    BY <1>1 DEF RegionsInOrder
  <2>2. \A b \in Blocks : holds'[b] # "restoring"
    OBVIOUS
  <2> QED
    BY <1>1, <1>2, <1>3, <2>1, <2>2 DEF RegionsInOrder, Distance
<1> QED
  BY <1>5, <1>6, <1>7, <1>8 DEF RingInv

LEMMA RestoreCompleteInv == RingInv /\ RestoreComplete => RingInv'
  BY RestoreEndInv DEF RestoreComplete, Held

LEMMA RestoreFailsInv == RingInv /\ RestoreFails => RingInv'
<1> SUFFICES ASSUME RingInv, RestoreFails PROVE RingInv'
  OBVIOUS
<1>1. frames_free' = frames_free + 0
  BY RingAssumption DEF RestoreFails, cursors, RingInv, RingTypeOK, CountersOK
<1> QED
  BY <1>1, RestoreEndInv DEF RestoreFails, cursors

-----------------------------------------------------------------------------
LEMMA StepInv ==
    ASSUME RingInv, RingNext
    PROVE  RingInv' /\ \A b \in written' : holds[b] \notin Live
<1>1. CASE StartJournaling
  BY <1>1, StartJournalingInv DEF StartJournaling
<1>2. CASE Alloc
  <2>1. CASE \E n \in 0 .. FileSize : AllocInFrame(n) \/ AllocInNewFrame(n)
    <3>1. PICK n \in 0 .. FileSize : AllocInFrame(n) \/ AllocInNewFrame(n)
      BY <2>1
    <3>2. n \in Nat
      BY <3>1, RingAssumption
    <3> QED
      BY <3>1, <3>2, AllocInFrameInv, AllocInNewFrameInv
  <2>2. CASE JournalFull
    BY <2>2, JournalFullInv
  <2> QED
    BY <1>2, <2>1, <2>2 DEF Alloc
<1>3. CASE Flush
  BY <1>3, FlushInv DEF Flush
<1>4. CASE RestoreStart
  BY <1>4, RestoreStartInv DEF RestoreStart
<1>5. CASE RestoreComplete
  BY <1>5, RestoreCompleteInv DEF RestoreComplete
<1>6. CASE RestoreFails
  BY <1>6, RestoreFailsInv DEF RestoreFails
<1> QED
  BY <1>1, <1>2, <1>3, <1>4, <1>5, <1>6 DEF RingNext

LEMMA StutterInv == RingInv /\ UNCHANGED ringVars => RingInv'
  BY DEF ringVars, cursors, openVars, flushedVars, restoringVars, RingInv, RingTypeOK,
     CountersOK, OpenFrameFits, Accounting, RegionsInOrder, FilledFrom, Held, RegionSize,
     Distance, RingDistance

\* The inductive invariant holds in every state of every journal.
THEOREM RingInvariant == RingSpec => []RingInv
<1>1. RingInv /\ [RingNext]_ringVars => RingInv'
  BY StepInv, StutterInv
<1> QED
  BY <1>1, InitInv, PTL DEF RingSpec

\* Every counter and record number of the journal stays in its range.
THEOREM RingTypeCorrect == RingSpec => []RingTypeOK
<1>1. RingInv => RingTypeOK
  BY DEF RingInv
<1> QED
  BY <1>1, RingInvariant, PTL

\* frames_free never counts a block that is still needed.
THEOREM FreeRunCorrect == RingSpec => []FreeRunIsDead
  BY RingInvariant, InvFreeRun, PTL

\* No allocation lands on a block of a live session.
THEOREM NoLiveBlockOverwritten == RingSpec => NoLiveOverwrite
<1>1. RingInv /\ [RingNext]_ringVars => [\A b \in written' : holds[b] \notin Live]_ringVars
  BY StepInv
<1> QED
  BY <1>1, RingInvariant, PTL DEF RingSpec, NoLiveOverwrite

-----------------------------------------------------------------------------
(* The start record in the master.  A build without asynchronous restores   *)
(* writes nothing between the start of a restore and its end.               *)

\* Where the start record may lie: never on the last block of the file, in
\* which only an empty frame is written; on the first block until the journal
\* wraps; and in the room of the frame being filled only if it is the first
\* frame that is still needed, which no allocation reaches.
StartRecords == {session_start_record, open_start_record, flushed_start_record}

StartAhead ==
    /\ \A r \in StartRecords : r <= FileSize - 2
    /\ ~wrapped => session_start_record = 1
    /\ session_start_record \in next_free_frame .. next_free_frame + open_current_free - 1 =>
           session_start_record = FilledFrom
    /\ restoring_start_record # 0 => open_start_record = 0 /\ FilledFrom = 0 /\ open_current_frame = 0
    /\ SessionStartBeforeLive

\* Moving the cursor over blocks before b brings b nearer by their number.
LEMMA CursorMoves ==
    ASSUME RingTypeOK, NEW b \in Blocks, NEW k \in Nat, NEW cursor \in 2 .. FileSize,
           \/ cursor = next_free_frame + k
           \/ cursor = next_free_frame + k - (FileSize - 1),
           k <= Distance(b)
    PROVE  RingDistance(cursor, b) = Distance(b) - k
  BY RingAssumption DEF RingTypeOK, CountersOK, Distance, RingDistance, Blocks

LEMMA AllocInFrameStart ==
    ASSUME RingInv, StartAhead, NEW n \in Nat, AllocInFrame(n), restoring_start_record = 0
    PROVE  StartAhead'
<1> USE RingAssumption
<1>1. /\ RingTypeOK /\ CountersOK /\ OpenFrameFits /\ Accounting
  BY DEF RingInv, RingTypeOK
<1>2. /\ n \in 1 .. open_current_free /\ n <= frames_free
      /\ open_current_free' = open_current_free - n
      /\ next_free_frame' = next_free_frame + n
      /\ UNCHANGED <<wrapped, session_start_record, open_start_record, open_current_frame,
                     flushed_start_record, restoring_start_record>>
  BY DEF AllocInFrame, flushedVars, restoringVars
<1>3. /\ next_free_frame + open_current_free <= FileSize /\ open_start_record # 0
      /\ FilledFrom \in Blocks /\ OldestFrame = FilledFrom
  BY <1>1, <1>2 DEF OpenFrameFits, CountersOK, FilledFrom, OldestFrame, Blocks
<1>4. /\ Held = 0 /\ frames_free <= Distance(FilledFrom)
      /\ Distance(FilledFrom) \in 0 .. FileSize - 2
      /\ session_start_record \in Blocks /\ Distance(session_start_record) \in 0 .. FileSize - 2
  BY <1>1, <1>3, DistanceRange DEF Accounting, Held, CountersOK, Blocks
\* The frame does not reach the start record.
<1>5. Distance(session_start_record) >= n
  <2>1. CASE session_start_record = FilledFrom
    BY <2>1, <1>1, <1>2, <1>4 DEF CountersOK
  <2>2. CASE session_start_record # FilledFrom
    BY <2>2, <1>1, <1>2, <1>3, <1>4 DEF StartAhead, Distance, RingDistance, CountersOK, Blocks
  <2> QED
    BY <2>1, <2>2
<1>6. /\ Distance(session_start_record)' = Distance(session_start_record) - n
      /\ Distance(FilledFrom)' = Distance(FilledFrom) - n
      /\ FilledFrom' = FilledFrom /\ OldestFrame' = OldestFrame
  <2>1. next_free_frame' \in 2 .. FileSize
    BY <1>1, <1>2, <1>3 DEF CountersOK
  <2>2. FilledFrom' = FilledFrom /\ OldestFrame' = OldestFrame
    BY <1>2 DEF FilledFrom, OldestFrame
  <2>3. /\ RingDistance(next_free_frame', session_start_record) = Distance(session_start_record) - n
        /\ RingDistance(next_free_frame', FilledFrom) = Distance(FilledFrom) - n
    BY <2>1, <1>1, <1>2, <1>3, <1>4, <1>5, CursorMoves DEF CountersOK
  <2> QED
    BY <1>2, <2>2, <2>3 DEF Distance
<1>7. SessionStartBeforeLive'
  <2>1. Distance(session_start_record) <= Distance(FilledFrom)
    BY <1>3 DEF StartAhead, SessionStartBeforeLive, Blocks
  <2> QED
    BY <2>1, <1>2, <1>3, <1>4, <1>6 DEF SessionStartBeforeLive, Distance
<1>8. StartRecords' = StartRecords
  BY <1>2 DEF StartRecords
<1> QED
  BY <1>1, <1>2, <1>3, <1>6, <1>7, <1>8 DEF StartAhead, CountersOK

LEMMA AllocInNewFrameStart ==
    ASSUME RingInv, StartAhead, NEW n \in Nat, AllocInNewFrame(n), restoring_start_record = 0
    PROVE  StartAhead'
<1> USE RingAssumption
<1>1. /\ RingTypeOK /\ CountersOK /\ OpenFrameFits /\ Accounting /\ wrapped \in BOOLEAN
  BY DEF RingInv, RingTypeOK
<1>2. /\ NewFrame \in Blocks
      /\ Room \in Nat /\ Room >= 2 /\ NewFrame + Room <= FileSize
      /\ FreeAfterNull \in 2 .. frames_free
  BY <1>1, NewFramePlace DEF AllocInNewFrame, CountersOK
<1>3. RoomInNewFrame \in 1 .. Room - 1
  BY <1>2, NewFrameRoom DEF RoomInNewFrame
<1>4. /\ n \in 0 .. RoomInNewFrame
      /\ IF n = 0 THEN FreeAfterNull - 1 < RoomInNewFrame ELSE n <= FreeAfterNull - 1
      /\ open_start_record' = StartWithNewFrame
      /\ wrapped' = (wrapped \/ Wraps)
      /\ session_start_record' = IF wrapped' /\ ReachesSessionStart
                                 THEN SessionStartNow ELSE session_start_record
      /\ open_current_free' = RoomInNewFrame - n
      /\ next_free_frame' = NewFrame + 1 + n
      /\ frames_free' = FreeAfterNull - 1 - n
      /\ UNCHANGED <<flushed_start_record, restoring_start_record>>
  BY Zenon DEF AllocInNewFrame, flushedVars, restoringVars
<1>5. /\ FilledFrom \in 0 .. FileSize - 2
      /\ FilledFrom' = IF FilledFrom = 0 THEN NewFrame ELSE FilledFrom
      /\ FilledFrom' # 0 /\ OldestFrame' = FilledFrom' /\ NewFrame <= FileSize - 2
  BY <1>1, <1>2, <1>4 DEF FilledFrom, OldestFrame, StartWithNewFrame, CountersOK, Blocks,
     StartAhead, StartRecords
<1>6. SessionStartNow = FilledFrom'
  BY <1>4 DEF SessionStartNow, FilledFrom
<1>7. \A r \in StartRecords' : r <= FileSize - 2
  BY <1>4, <1>5, <1>6 DEF StartAhead, StartRecords, StartWithNewFrame
<1>8. ~wrapped' => session_start_record' = 1
  BY <1>1, <1>4 DEF StartAhead
<1>9. CASE session_start_record' = FilledFrom'
  <2>1. SessionStartBeforeLive'
    <3>1. Distance(session_start_record)' = RingDistance(next_free_frame', FilledFrom')
      BY <1>9 DEF Distance
    <3>2. Distance(OldestFrame)' = RingDistance(next_free_frame', FilledFrom')
      BY <1>5 DEF Distance
    <3>3. RingDistance(next_free_frame', FilledFrom') \in Int
      BY <1>2, <1>4, <1>5 DEF RingDistance, Blocks
    <3> QED
      BY <3>1, <3>2, <3>3 DEF SessionStartBeforeLive
  <2> QED
    BY <2>1, <1>4, <1>7, <1>8, <1>9 DEF StartAhead
\* The new frame lies before or behind the start record.
<1>10. CASE session_start_record' # FilledFrom'
  <2> DEFINE k == frames_free - frames_free'
  <2>1. /\ session_start_record' = session_start_record
        /\ session_start_record \notin NewFrame .. NewFrame + RoomInNewFrame
    <3>1. CASE wrapped'
      BY <3>1, <1>10, <1>1, <1>2, <1>3, <1>4, <1>6 DEF ReachesSessionStart, CountersOK, Blocks
    <3>2. CASE ~wrapped'
      <4>1. session_start_record' = session_start_record /\ session_start_record = 1 /\ ~Wraps
        BY <3>2, <1>4, <1>8
      <4> QED
        BY <4>1, <1>1, <1>2, <1>3 DEF NewFrame, CountersOK
    <3> QED
      BY <3>1, <3>2
  <2>2. session_start_record' \notin next_free_frame' .. next_free_frame' + open_current_free' - 1
    BY <2>1, <1>1, <1>2, <1>3, <1>4 DEF CountersOK, Blocks
  <2>3. /\ k \in 1 .. frames_free /\ k >= n + 1
        /\ next_free_frame' \in 2 .. FileSize
        /\ \/ next_free_frame' = next_free_frame + k
           \/ next_free_frame' = next_free_frame + k - (FileSize - 1)
    BY <1>1, <1>2, <1>3, <1>4 DEF CountersOK, FreeAfterNull, NewFrame, Wraps, NeedsNullFrame,
       BlocksToEnd, Blocks
  <2>4. /\ session_start_record \in Blocks /\ session_start_record <= FileSize - 2
        /\ Distance(session_start_record) \in 0 .. FileSize - 2
    BY <1>1, DistanceRange DEF CountersOK, Blocks, StartAhead, StartRecords
  <2>5. k <= Distance(session_start_record)
    BY <2>1, <2>4, <1>1, <1>2, <1>3, <1>4
    DEF CountersOK, FreeAfterNull, NewFrame, Wraps, NeedsNullFrame, BlocksToEnd, Blocks,
        Distance, RingDistance
  <2>6. RingDistance(next_free_frame', session_start_record) = Distance(session_start_record) - k
    BY <2>3, <2>4, <2>5, <1>1, CursorMoves DEF CountersOK
  <2>7. RingDistance(next_free_frame', session_start_record)
           <= RingDistance(next_free_frame', FilledFrom')
    <3>1. CASE FilledFrom = 0
      <4>1. RingDistance(next_free_frame', FilledFrom') = FileSize - 2 - n
        BY <3>1, <1>1, <1>2, <1>4, <1>5 DEF RingDistance, Blocks, CountersOK
      <4> QED
        BY <4>1, <2>3, <2>4, <2>6, <1>1 DEF CountersOK
    <3>2. CASE FilledFrom # 0
      <4>1. /\ FilledFrom \in Blocks /\ OldestFrame = FilledFrom
            /\ Distance(FilledFrom) \in 0 .. FileSize - 2
        BY <3>2, <1>1, <1>5, DistanceRange DEF Blocks, OldestFrame, FilledFrom
      <4>2. /\ frames_free <= Distance(FilledFrom)
            /\ Distance(session_start_record) <= Distance(FilledFrom)
        BY <4>1, <3>2, <1>1 DEF Accounting, Held, StartAhead, SessionStartBeforeLive, CountersOK
      <4>3. RingDistance(next_free_frame', FilledFrom) = Distance(FilledFrom) - k
        BY <4>1, <4>2, <2>3, <1>1, CursorMoves DEF CountersOK
      <4> QED
        BY <4>1, <4>2, <4>3, <3>2, <2>3, <2>4, <2>6, <1>5 DEF CountersOK
    <3> QED
      BY <3>1, <3>2
  <2>8. SessionStartBeforeLive'
    BY <2>1, <2>7, <1>5 DEF SessionStartBeforeLive, Distance
  <2> QED
    BY <2>2, <2>8, <1>4, <1>7, <1>8 DEF StartAhead
<1> QED
  BY <1>9, <1>10

LEMMA StartingStart ==
    ASSUME next_free_frame = 2, session_start_record = 1, open_start_record = 1,
           flushed_start_record = 0, restoring_start_record = 0
    PROVE  StartAhead
  BY RingAssumption
  DEF StartAhead, StartRecords, SessionStartBeforeLive, OldestFrame, FilledFrom, Distance, RingDistance

LEMMA StartJournalingStart == StartJournaling => StartAhead'
<1> SUFFICES ASSUME StartJournaling PROVE StartAhead'
  OBVIOUS
<1>1. /\ next_free_frame' = 2 /\ session_start_record' = 1 /\ open_start_record' = 1
      /\ flushed_start_record' = 0 /\ restoring_start_record' = 0
  BY DEF StartJournaling
<1>2. SessionStartBeforeLive'
  BY <1>1, RingAssumption DEF SessionStartBeforeLive, OldestFrame, Distance, RingDistance
<1> QED
  BY <1>1, <1>2, RingAssumption DEF StartAhead, StartRecords

\* Steps that move no cursor and give the frame that is open no more room.
LEMMA SameCursorStart ==
    ASSUME RingInv, StartAhead,
           UNCHANGED <<next_free_frame, wrapped, session_start_record>>,
           FilledFrom' \in {0, FilledFrom}, open_start_record' \in {0, open_start_record},
           open_current_free' = 0 \/ UNCHANGED <<open_current_free, FilledFrom>>,
           flushed_start_record' \in {0, open_start_record, flushed_start_record},
           OldestFrame' \in {0, OldestFrame},
           restoring_start_record' # 0 =>
              open_start_record' = 0 /\ FilledFrom' = 0 /\ open_current_frame' = 0
    PROVE  StartAhead'
<1> USE RingAssumption
<1>1. CountersOK
  BY DEF RingInv, RingTypeOK
<1>2. \A r \in StartRecords' : r <= FileSize - 2
  BY <1>1 DEF StartAhead, StartRecords
<1>3. SessionStartBeforeLive'
  BY <1>1 DEF StartAhead, SessionStartBeforeLive, Distance
<1>4. session_start_record \in next_free_frame' .. next_free_frame' + open_current_free' - 1 =>
         session_start_record = FilledFrom'
  BY <1>1 DEF StartAhead, CountersOK
<1> QED
  BY <1>2, <1>3, <1>4 DEF StartAhead

LEMMA StepStart ==
    ASSUME RingInv, StartAhead, RingNext, AsyncRestore = FALSE
    PROVE  StartAhead'
<1> USE RingAssumption
<1>1. CountersOK /\ OpenFrameFits
  BY DEF RingInv, RingTypeOK
<1>2. CASE StartJournaling
  BY <1>2, StartJournalingStart
<1>3. CASE Alloc
  <2>1. restoring_start_record = 0
    BY <1>3 DEF Alloc, MayWrite
  <2>2. CASE \E n \in 0 .. FileSize : AllocInFrame(n) \/ AllocInNewFrame(n)
    <3>1. PICK n \in 0 .. FileSize : AllocInFrame(n) \/ AllocInNewFrame(n)
      BY <2>2
    <3>2. n \in Nat
      BY <3>1
    <3> QED
      BY <2>1, <3>1, <3>2, AllocInFrameStart, AllocInNewFrameStart
  <2>3. CASE JournalFull
    <3>1. UNCHANGED <<next_free_frame, wrapped, session_start_record, open_start_record,
                      open_current_free, flushed_start_record, restoring_start_record>>
      BY <2>3, Zenon DEF JournalFull, flushedVars, restoringVars
    <3>2. FilledFrom' = FilledFrom /\ OldestFrame' = OldestFrame
      BY <3>1 DEF FilledFrom, OldestFrame
    <3> QED
      BY <2>1, <3>1, <3>2, SameCursorStart
  <2> QED
    BY <1>3, <2>2, <2>3 DEF Alloc
<1>4. CASE Flush
  <2>1. /\ open_start_record # 0 /\ open_current_free' = 0 /\ open_current_frame # 0
        /\ flushed_start_record' = FlushStart
        /\ UNCHANGED <<next_free_frame, wrapped, session_start_record, open_start_record,
                       restoring_start_record>>
    BY <1>1, <1>4 DEF Flush, cursors, restoringVars, OpenFrameFits
  <2>2. restoring_start_record = 0
    BY <2>1 DEF StartAhead
  <2>3. FilledFrom' = FilledFrom /\ OldestFrame' = OldestFrame
    BY <2>1, <2>2 DEF FilledFrom, FlushStart, OldestFrame
  <2> QED
    BY <2>1, <2>2, <2>3, SameCursorStart DEF FlushStart
<1>5. CASE RestoreStart
  <2>1. /\ restoring_start_record = 0
        /\ open_start_record' = 0 /\ open_current_frame' = 0 /\ open_current_free' = 0
        /\ flushed_start_record' = 0
        /\ UNCHANGED <<next_free_frame, wrapped, session_start_record>>
    BY <1>5, Zenon DEF RestoreStart, cursors
  <2>2. FilledFrom' = 0
    BY <2>1 DEF FilledFrom
  <2>3. restoring_start_record' = FilledFrom
    <3>1. CASE open_remapped
      BY <3>1, <1>5 DEF RestoreStart, FlushStart, FilledFrom
    <3>2. CASE ~open_remapped
      BY <3>2, <1>5 DEF RestoreStart, FilledFrom
    <3> QED
      BY <3>1, <3>2
  <2>4. OldestFrame' \in {0, OldestFrame}
    BY <2>1, <2>3 DEF OldestFrame, FilledFrom
  <2> QED
    BY <2>1, <2>2, <2>4, SameCursorStart
<1>6. CASE RestoreComplete \/ RestoreFails
  <2>1. /\ restoring_start_record # 0 /\ restoring_start_record' = 0
        /\ UNCHANGED <<next_free_frame, wrapped, session_start_record, open_start_record,
                       open_current_free, flushed_start_record>>
    BY <1>6, Zenon DEF RestoreComplete, RestoreFails, cursors, openVars, flushedVars
  <2>2. FilledFrom' = FilledFrom /\ FilledFrom = 0 /\ OldestFrame' = 0
    BY <2>1 DEF FilledFrom, OldestFrame, StartAhead
  <2> QED
    BY <2>1, <2>2, SameCursorStart
<1> QED
  BY <1>2, <1>3, <1>4, <1>5, <1>6 DEF RingNext

\* Without asynchronous restores the start record of the master comes, round the
\* ring, before every frame that is still needed: a mount finds them all.
THEOREM StartRecordLeads ==
    ASSUME AsyncRestore = FALSE
    PROVE  RingSpec => []SessionStartBeforeLive
<1>1. RingInit => StartAhead
  BY StartingStart DEF RingInit
<1>2. RingInv /\ StartAhead /\ [RingNext]_ringVars => StartAhead'
  <2>1. StartAhead /\ UNCHANGED ringVars => StartAhead'
    BY DEF ringVars, cursors, openVars, flushedVars, restoringVars, StartAhead, StartRecords,
       FilledFrom, SessionStartBeforeLive, OldestFrame, Distance, RingDistance
  <2> QED
    BY <2>1, StepStart
<1>3. StartAhead => SessionStartBeforeLive
  BY DEF StartAhead
<1> QED
  BY <1>1, <1>2, <1>3, RingInvariant, PTL DEF RingSpec

=============================================================================
