---------------------------- MODULE FsCommitProofs ----------------------------
(***************************************************************************)
(* A committed transaction survives a power failure.  Whatever call is in  *)
(* progress and however many of its disk writes have been done, the frames *)
(* on the disk are in order (FsJournalProofs), so that it is known what a  *)
(* mount would make of them.                                               *)
(***************************************************************************)
EXTENDS FsJournalProofs

-----------------------------------------------------------------------------
(* The disk writes of the call in progress *)

JournalWrite(b, x) == [to |-> "journal", at |-> b, val |-> x]
MasterWrite == [to |-> "master", val |-> [session |-> session_id, start |-> session_start_record]]
HandleWrite == [to |-> "handle", val |-> TRUE]
ReturnWrite == [to |-> "return"]

AFrame(b) == b \in Blocks /\ IsFrame(journal, master, b)
OpenThere(b, e) == AFrame(b) /\ journal[b].seq = e /\ journal[b].type = "open"

\* One block of data goes to b.
DataTo(x, b) == \E c : x = <<JournalWrite(b, DataBlock(c))>>

\* A new frame is opened, and perhaps its first block written, after the master
\* block if the start record has moved.
Opening(x) ==
    /\ x # <<>> /\ Head(x) = JournalWrite(open_current_frame, Header("open", frame_sequence, <<>>))
    /\ \/ Tail(x) = <<>> /\ next_free_frame = open_current_frame + 1
       \/ DataTo(Tail(x), open_current_frame + 1) /\ next_free_frame = open_current_frame + 2
Moving(x) ==
    \/ Opening(x) /\ master.start = session_start_record
    \/ x # <<>> /\ Head(x) = MasterWrite /\ Opening(Tail(x))

\* The blocks bs hold nothing that a mount needs: no frame from number lo on, no
\* committed block, no start record but that of a session just begun.
Untouched(bs, e, lo) ==
    \A b \in bs :
        /\ b \in Blocks /\ (AFrame(b) => journal[b].seq < lo)
        /\ \A v \in Volume : flushedMap[v] # b
        /\ b = session_start_record => b = open_current_frame /\ e < lo

\* The same with the empty frame that fills the file before it.
Appending(x, e, cur, lo) ==
    /\ open_current_frame # 0
    /\ AFrame(session_start_record) \/ session_start_record = open_current_frame
    /\ \/ /\ frame_sequence = e + 1 /\ At(cur) = open_current_frame /\ Moving(x)
          /\ Untouched({open_current_frame, open_current_frame + 1}, e, lo)
       \/ /\ frame_sequence = e + 2 /\ cur = FileSize - 1 /\ open_current_frame = 1
          /\ FileSize >= 4 /\ x # <<>>
          /\ Head(x) = JournalWrite(FileSize - 1, Header("closed", frame_sequence - 1, <<>>))
          /\ Moving(Tail(x)) /\ master.start # FileSize - 1
          /\ Untouched({FileSize - 1, 1, 2}, e, lo)

\* Header x ends the last frame.
Closing(x, b, e, cur, type) ==
    /\ OpenThere(b, e)
    /\ \E recs \in Seq(Volume) :
          /\ x = JournalWrite(b, Header(type, e, recs))
          /\ Len(recs) <= FrameMax /\ b + 1 + Len(recs) = cur

-----------------------------------------------------------------------------
(* The open transaction: its records are in the frames after the last      *)
(* committed one, those of the frame being filled in memory only.          *)

OpenRecord(j, f, b, i, v) ==
    \/ /\ IsFrame(j, master, b) /\ f < j[b].seq /\ j[b].type = "closed"
       /\ i <= Len(j[b].recs) /\ j[b].recs[i] = v
    \/ b = open_current_frame /\ i <= Len(open_recs) /\ open_recs[i] = v
OpenIs(j, f) ==
    \A v \in Volume :
        /\ openMap[v] # 0 => \E b \in Blocks, i \in 1 .. FrameMax : OpenRecord(j, f, b, i, v)
        /\ \A b, c \in Blocks, i, k \in 1 .. FrameMax :
              OpenRecord(j, f, b, i, v) /\ OpenRecord(j, f, c, k, v) =>
                 b = c /\ i = k /\ openMap[v] = b + i

\* The frames in use are numbered from lo on; FilledFrom is the first of them.
Fill(e, r, lo, f) ==
    /\ lo \in Nat /\ r < lo /\ (r < f => lo <= f)
    /\ \A b \in Blocks : AFrame(b) =>
          /\ r < journal[b].seq /\ journal[b].seq < lo => journal[b].recs = <<>>
          /\ b \in {session_start_record, master.start} => journal[b].seq <= lo
    /\ IF FilledFrom = 0 THEN lo = e + 1 /\ r = e /\ open_current_frame = 0
       ELSE IF lo <= e THEN AFrame(FilledFrom) /\ journal[FilledFrom].seq = lo
       ELSE lo = frame_sequence /\ FilledFrom = open_current_frame

StartThere == master.start = session_start_record /\ AFrame(session_start_record)

\* The frames are on the disk; what is left to write leaves them alone.
Settled(e, cur, r, f) ==
    /\ frame_sequence = e /\ next_free_frame = cur /\ StartThere
    /\ IF open_current_frame = 0 THEN f = e ELSE f < e /\ OpenThere(open_current_frame, e)
    /\ \/ io = <<>>
       \/ \E b \in Blocks : /\ DataTo(io, b) /\ journal[b].type = "data"
                            /\ \A v \in Volume : flushedMap[v] # b
       \/ openMap = NoMap /\ (io = Return \/ io = ToHandle(TRUE) \o Return)
       \/ r = f /\ \A w \in Pending : w.to \in {"fat2", "handle"}

DataPending(e, cur, lo, f) ==
    /\ frame_sequence = e /\ next_free_frame = cur + 1 /\ StartThere
    /\ f < e /\ open_current_frame # 0 /\ OpenThere(open_current_frame, e)
    /\ DataTo(io, cur) /\ Untouched({cur}, e, lo)

AppendPending(e, cur, lo) ==
    /\ \A b \in Blocks : AFrame(b) => journal[b].type # "open"
    /\ Appending(io, e, cur, lo)

ClosePending(e, cur, lo, f) ==
    /\ f < e /\ lo <= e /\ io # <<>> /\ Appending(Tail(io), e, cur, lo)
    /\ \E b \in Blocks : Closing(Head(io), b, e, cur, "closed")

\* The journal once a header that is on its way is there.
Closed == [b \in Blocks |-> IF io # <<>> /\ Head(io).to = "journal" /\ Head(io).at = b
                               /\ Head(io).val.type = "closed"
                            THEN Head(io).val ELSE journal[b]]
Flushing(e, cur, r, lo, f, fm) ==
    /\ frame_sequence = e /\ next_free_frame = cur /\ StartThere
    /\ openMap = NoMap /\ open_current_frame = 0 /\ FilledFrom # 0 /\ lo <= e /\ f < e
    /\ io # <<>> /\ Closing(Head(io), flushed_terminal_record, e, cur, "flushed")
    /\ Tail(io) = MarkHandle \o Return
    /\ MapOf([journal EXCEPT ![flushed_terminal_record] = Head(io).val], master, r, e, flushedMap)
    /\ \A v \in Volume : fm[v] # flushed_terminal_record

Committed(r, f, fm) ==
    /\ fm = flushedMap /\ (flushed_terminal_record # 0 /\ open_current_frame # 0 => open_remapped)
    /\ IF flushed_terminal_record = 0 THEN r = f
       ELSE r < f /\ AFrame(flushed_terminal_record) /\ journal[flushed_terminal_record].seq = f
Filling(e, cur, r, lo, f, fm) ==
    /\ Committed(r, f, fm)
    /\ \/ Settled(e, cur, r, f) /\ OpenIs(journal, f)
       \/ DataPending(e, cur, lo, f) /\ OpenIs(journal, f)
       \/ AppendPending(e, cur, lo) /\ OpenIs(journal, f)
       \/ ClosePending(e, cur, lo, f) /\ OpenIs(Closed, f)

Writing(e, cur, r, lo, f, mark, sp, fm) ==
    /\ restoring_start_record = 0 /\ mark = "flushed" /\ sp = session_current_freespace
    /\ r < f => JournalFound(handle) \/ io = ToHandle(TRUE) \o Return
    /\ Fill(e, r, lo, f)
    /\ Filling(e, cur, r, lo, f, fm) \/ Flushing(e, cur, r, lo, f, fm)

-----------------------------------------------------------------------------
(* The other phases *)

\* The last committed frame b is marked, its blocks are copied, it is marked again.
Passes(b, r, f, mark, fm) ==
    \/ restore_state = "mark" /\ r < f /\ io = <<>>
    \/ restore_state = "copy" /\ r < f /\ io = Mark(b, "restoring")
    \/ /\ restore_state = "copy" /\ r < f /\ mark = "restoring"
       /\ \A w \in Pending : w.to \in {"volume", "fat2"} /\ (w.to = "volume" => fm[w.at] # 0)
    \/ restore_state = "clear" /\ r < f /\ mark = "restoring" /\ io = Mark(b, "restored")
    \/ restore_state = "clear" /\ r = f /\ \A w \in Pending : w.to \in {"fat2", "handle"}

Restores(e, cur, r, f, mark, fm) ==
    /\ restoring_start_record # 0 /\ frame_sequence = e /\ next_free_frame = cur /\ f = e
    /\ StartThere /\ AFrame(restoring_terminal_record)
    /\ journal[restoring_terminal_record].seq = e
    /\ openMap = NoMap /\ flushedMap = NoMap /\ open_current_frame = 0
    /\ flushed_terminal_record = 0 /\ FilledFrom = 0
    /\ r < f => fm = restoringMap /\ JournalFound(handle)
    /\ Passes(restoring_terminal_record, r, f, mark, fm)

Recovering(r, f, mark, sp, fm) ==
    /\ Len(todo) = 1 /\ AFrame(LastBlock(todo[1])) /\ journal[LastBlock(todo[1])].seq = f
    /\ r < f => /\ Restorable(r, f, mark, sp, handle, volume)
                /\ \A v \in Volume : v \in Replaced(journal, todo[1]) <=> fm[v] # 0
    /\ Passes(LastBlock(todo[1]), r, f, mark, fm)

Beginning(r, f, mark, sp) ==
    /\ session_id = master.session + 1 /\ ~Restorable(r, f, mark, sp, handle, volume)
    /\ RingInit /\ openMap = NoMap /\ flushedMap = NoMap /\ open_recs = <<>> /\ frame_sequence = 1
    /\ io # <<>> /\ Head(io) = MasterWrite
    /\ Tail(io) = <<JournalWrite(1, Header("open", 1, <<>>))>>

Stage(e, cur, r, lo, f, mark, sp, fm) ==
    \/ mode = "down"
    \/ mode = "start" /\ ~Restorable(r, f, mark, sp, handle, volume)
    \/ mode = "recover" /\ Recovering(r, f, mark, sp, fm)
    \/ mode = "remount" /\ r = f
    \/ /\ mode = "up" /\ session_id = master.session
       /\ open_current_used + open_current_free <= FrameMax
       /\ Writing(e, cur, r, lo, f, mark, sp, fm) \/ Restores(e, cur, r, f, mark, fm)
    \/ mode = "up" /\ Beginning(r, f, mark, sp)

\* Frames of sessions to come are not there yet.
Sessions ==
    /\ master.session \in Nat
    /\ \A b \in Blocks : journal[b].type # "data" => journal[b].session \in 0 .. master.session

CrashInv ==
    /\ Sessions
    /\ \E e, cur, r, lo, f, mark, sp, fm :
          /\ InOrder(journal, master, e, cur, r, f, mark, sp, fm)
          /\ Stage(e, cur, r, lo, f, mark, sp, fm)

-----------------------------------------------------------------------------
(* One disk write *)

LEMMA Peel ==
    ASSUME NEW w, NEW t, t \in Seq(WritesOf(t))
    PROVE  /\ <<w>> \o t # <<>> /\ Head(<<w>> \o t) = w /\ Tail(<<w>> \o t) = t
           /\ <<w>> # <<>> /\ Head(<<w>>) = w /\ Tail(<<w>>) = <<>>
<1> DEFINE S == {w} \union WritesOf(t)
<1>1. t \in Seq(S) /\ <<w>> \in Seq(S)
  BY SeqMonotonic
<1>2. Len(t) \in Nat /\ Len(<<w>>) = 1 /\ <<w>>[1] = w
  BY LenProperties
<1>3. PICK s : s = <<w>> \o t
  OBVIOUS
<1>4. /\ s \in Seq(S) /\ Len(s) = 1 + Len(t)
      /\ \A i \in 1 .. 1 + Len(t) : s[i] = IF i <= 1 THEN w ELSE t[i - 1]
  BY <1>1, <1>2, <1>3, ConcatProperties
<1> HIDE DEF S
<1>5. s # <<>> /\ Head(s) = w
  BY <1>2, <1>4
<1>6. Tail(s) = t
  <2>1. Tail(s) \in Seq(S) /\ Len(Tail(s)) = Len(t) /\ \A i \in 1 .. Len(t) : Tail(s)[i] = s[i + 1]
    BY <1>2, <1>4, <1>5, HeadTailProperties
  <2>2. \A i \in 1 .. Len(t) : Tail(s)[i] = t[i]
    BY <1>2, <1>4, <2>1
  <2> QED
    BY <1>1, <2>1, <2>2, SeqEqual
<1>7. <<w>> # <<>> /\ Head(<<w>>) = w /\ Tail(<<w>>) = <<>>
  OBVIOUS
<1> QED
  BY <1>3, <1>5, <1>6, <1>7

memoryVars == <<ringVars, mapVars, sessionVars, freeVars, restoreVars, mode, view>>

LEMMA DiskWriteIs ==
    ASSUME DiskInv, DiskWrite
    PROVE  /\ io # <<>> /\ io' = Tail(io) /\ UNCHANGED memoryVars
           /\ Head(io) \in Pending
           /\ Head(io).to = "journal" => /\ Wrote(journal, journal', Head(io).at, Head(io).val)
                                         /\ UNCHANGED <<master, volume, handle>>
           /\ Head(io).to = "master" => /\ master' = Head(io).val
                                        /\ UNCHANGED <<journal, volume, handle>>
           /\ Head(io).to = "volume" => UNCHANGED <<journal, master, handle>>
           /\ Head(io).to = "handle" => /\ handle' = Head(io).val
                                        /\ UNCHANGED <<journal, master, volume>>
           /\ Head(io).to \in {"fat2", "return"} => UNCHANGED <<journal, master, volume, handle>>
<1>1. PICK w : w = Head(io)
  OBVIOUS
<1>2. /\ io # <<>> /\ io' = Tail(io)
      /\ journal' = IF w.to = "journal" THEN [journal EXCEPT ![w.at] = w.val] ELSE journal
      /\ master' = IF w.to = "master" THEN w.val ELSE master
      /\ volume' = IF w.to = "volume" THEN [volume EXCEPT ![w.at] = w.val] ELSE volume
      /\ handle' = IF w.to = "handle" THEN w.val ELSE handle
  BY <1>1 DEF DiskWrite, Done
<1>3. UNCHANGED memoryVars
  BY Zenon DEF DiskWrite, memoryVars
<1>4. w \in Pending
  BY <1>1, <1>2, FirstWrite DEF DiskInv, DiskTyped, Pending
<1>5. DOMAIN journal = Blocks /\ (w.to = "journal" => w.at \in Blocks)
  BY <1>4 DEF DiskInv, DiskTyped
<1>6. w.to = "journal" => Wrote(journal, journal', w.at, w.val)
  BY <1>2, <1>5 DEF Wrote
<1>7. w.to = "journal" => w.to # "master" /\ w.to # "volume" /\ w.to # "handle"
  OBVIOUS
<1> QED
  BY <1>1, <1>2, <1>3, <1>4, <1>6, <1>7

-----------------------------------------------------------------------------
(* Writes to blocks that nothing needs *)

Free(b, e, lo) ==
    /\ b \in Blocks /\ (AFrame(b) => journal[b].seq < lo)
    /\ \A v \in Volume : flushedMap[v] # b
    /\ b \in {session_start_record, master.start} => e < lo

LEMMA FreeForgotten ==
    ASSUME NEW e \in Nat, NEW r, NEW lo, NEW f \in 0 .. e, NEW b, Fill(e, r, lo, f), Free(b, e, lo),
           IsFrame(journal, master, b)
    PROVE  /\ r < journal[b].seq => journal[b].recs = <<>>
           /\ r < f => b # master.start
<1>1. b \in Blocks /\ AFrame(b) /\ journal[b].seq < lo /\ lo \in Nat
  BY DEF Free, AFrame, Fill
<1>2. r < f => lo <= e
  BY DEF Fill
<1>3. b = master.start => e < lo
  BY DEF Free
<1> QED
  BY <1>1, <1>2, <1>3 DEF Fill

\* x is data, or a new frame; the last one is that in which blocks are put.
Fresh(x, b, e) ==
    \/ x.type = "data"
    \/ /\ x.type \in {"open", "closed"} /\ x.seq = e + 1 /\ x.session = master.session
       /\ x.recs = <<>> /\ (x.seq = frame_sequence <=> b = open_current_frame)
After(x, e) == IF x.type = "data" THEN e ELSE e + 1

LEMMA FreeWritten ==
    ASSUME NEW e \in Nat, NEW r \in 0 .. e, NEW lo, NEW f \in r .. e, NEW b, NEW x,
           Fill(e, r, lo, f), Free(b, e, lo), FilledFrom # 0 \/ x.type = "data",
           Wrote(journal, journal', b, x), Fresh(x, b, e),
           UNCHANGED <<master, memoryVars>>, NEW cur, InSequence(journal, master, e, cur), NEW fm
    PROVE  /\ Committed(r, f, fm) => Committed(r, f, fm)'
           /\ \A a \in Blocks : a # b => (AFrame(a)' <=> AFrame(a)) /\ journal'[a] = journal[a]
           /\ AFrame(b)' <=> x.type # "data"
           /\ journal'[b] = x
           /\ Fill(After(x, e), r, lo, f)'
           /\ OpenIs(journal, f) => OpenIs(journal, f)'
           /\ \A v \in Volume : flushedMap[v] \in Blocks =>
                 journal'[flushedMap[v]] = journal[flushedMap[v]]
           /\ \A a \in Blocks : AFrame(a) /\ journal[a].seq >= lo => a # b
<1>1. /\ b \in Blocks /\ \A a \in Blocks : journal'[a] = IF a = b THEN x ELSE journal[a]
      /\ master' = master
  BY DEF Wrote
<1>2. UNCHANGED <<FilledFrom, open_current_frame, session_start_record, frame_sequence,
                  openMap, flushedMap, open_recs>>
  BY DEF memoryVars, ringVars, cursors, openVars, flushedVars, sessionVars, mapVars, FilledFrom
<1>3. \A a \in Blocks : a # b => (AFrame(a)' <=> AFrame(a)) /\ journal'[a] = journal[a]
  BY <1>1 DEF AFrame, IsFrame
<1>4. (AFrame(b)' <=> x.type # "data") /\ journal'[b] = x
  BY <1>1 DEF AFrame, IsFrame, Fresh
<1>5. /\ lo \in Nat /\ r < lo /\ (r < f => lo <= f)
      /\ \A a \in Blocks : AFrame(a) => journal[a].seq \in Nat
  BY DEF Fill, AFrame, InSequence
<1>6. \A a \in Blocks : AFrame(a) /\ journal[a].seq >= lo => a # b
  <2>1. SUFFICES ASSUME AFrame(b), journal[b].seq >= lo PROVE FALSE
    OBVIOUS
  <2>2. journal[b].seq < lo /\ b \in Blocks
    BY <2>1 DEF Free
  <2> QED
    BY <1>5, <2>1, <2>2
<1>7. Fill(After(x, e), r, lo, f)'
  <2>1. ASSUME NEW a \in Blocks, AFrame(a)'
        PROVE  /\ r < journal'[a].seq /\ journal'[a].seq < lo => journal'[a].recs = <<>>
               /\ a \in {session_start_record', master.start'} => journal'[a].seq <= lo
    <3>1. CASE a # b
      BY <1>1, <1>2, <1>3, <2>1, <3>1 DEF Fill
    <3>2. CASE a = b
      <4>1. x.recs = <<>> /\ x.seq = e + 1
        BY <1>4, <2>1, <3>2 DEF Fresh
      <4>2. a \in {session_start_record', master.start'} => e < lo
        BY <1>1, <1>2, <3>2 DEF Free
      <4> QED
        BY <1>4, <1>5, <3>2, <4>1, <4>2
    <3> QED
      BY <3>1, <3>2
  <2>4. CASE FilledFrom = 0
    <3>1. /\ lo = e + 1 /\ r = e /\ open_current_frame = 0 /\ After(x, e) = e
          /\ FilledFrom' = 0 /\ open_current_frame' = 0
      BY <1>2, <2>4 DEF Fill, After
    <3> QED
      BY <1>5, <2>1, <3>1 DEF Fill
  <2>2. CASE FilledFrom # 0 /\ lo <= e
    <3>1. AFrame(FilledFrom) /\ journal[FilledFrom].seq = lo
      BY <2>2 DEF Fill
    <3>2. FilledFrom # b /\ FilledFrom \in Blocks
      BY <1>5, <1>6, <3>1 DEF AFrame
    <3>3. AFrame(FilledFrom)' /\ journal'[FilledFrom'].seq = lo
      <4>1. PICK a : a = FilledFrom
        OBVIOUS
      <4>2. AFrame(a)' /\ journal'[a].seq = lo
        BY <1>3, <3>1, <3>2, <4>1
      <4> QED
        BY <1>2, <4>1, <4>2 DEF AFrame
    <3>4. lo <= After(x, e)
      BY <1>5, <2>2 DEF After
    <3> QED
      BY <1>2, <1>5, <2>1, <2>2, <3>3, <3>4 DEF Fill
  <2>3. CASE FilledFrom # 0 /\ ~(lo <= e)
    <3>1. lo = frame_sequence /\ FilledFrom = open_current_frame
      BY <2>3 DEF Fill
    <3>2. CASE lo <= After(x, e)
      <4>1. x.type # "data" /\ lo = e + 1
        BY <1>5, <2>3, <3>2 DEF After
      <4>2. x.seq = lo /\ b = open_current_frame
        BY <3>1, <4>1 DEF Fresh
      <4>3. AFrame(FilledFrom)' /\ journal'[FilledFrom'].seq = lo
        BY <1>2, <1>4, <3>1, <4>1, <4>2 DEF AFrame
      <4> QED
        BY <1>2, <1>5, <2>1, <2>3, <3>2, <4>3 DEF Fill
    <3>3. CASE ~(lo <= After(x, e))
      BY <1>2, <1>5, <2>1, <2>3, <3>1, <3>3 DEF Fill
    <3> QED
      BY <3>2, <3>3
  <2> QED
    BY <2>2, <2>3, <2>4
<1>8. ASSUME OpenIs(journal, f) PROVE OpenIs(journal, f)'
  <2>1. ASSUME NEW a \in Blocks, NEW i \in 1 .. FrameMax, NEW v
        PROVE  OpenRecord(journal, f, a, i, v)' <=> OpenRecord(journal, f, a, i, v)
    <3>1. CASE a # b
      BY <1>1, <1>2, <3>1 DEF OpenRecord, IsFrame
    <3>2. CASE a = b
      <4>1. Len(<<>>) = 0 /\ ~(i <= 0)
        OBVIOUS
      <4>2. ~(/\ IsFrame(journal', master', b) /\ f < journal'[b].seq
              /\ i <= Len(journal'[b].recs))
        <5>1. IsFrame(journal', master', b) => journal'[b].recs = <<>>
          BY <1>4 DEF IsFrame, Fresh
        <5> QED
          BY <4>1, <5>1
      <4>3. ~(/\ IsFrame(journal, master, b) /\ f < journal[b].seq
              /\ i <= Len(journal[b].recs))
        <5>1. ASSUME IsFrame(journal, master, b), f < journal[b].seq PROVE journal[b].recs = <<>>
          <6>1. journal[b].seq < lo /\ AFrame(b)
            BY <1>1, <5>1 DEF Free, AFrame
          <6>2. r < journal[b].seq => journal[b].recs = <<>>
            BY <1>1, <6>1 DEF Fill
          <6>3. r < journal[b].seq
            BY <1>1, <5>1, <6>1, <1>5
          <6> QED
            BY <6>2, <6>3
        <5> QED
          BY <4>1, <5>1
      <4> QED
        BY <1>2, <3>2, <4>2, <4>3 DEF OpenRecord
    <3> QED
      BY <3>1, <3>2
  <2> QED
    BY <1>2, <1>8, <2>1 DEF OpenIs
<1>9. \A v \in Volume : flushedMap[v] \in Blocks =>
         journal'[flushedMap[v]] = journal[flushedMap[v]]
  BY <1>1 DEF Free
<1>10. ASSUME Committed(r, f, fm) PROVE Committed(r, f, fm)'
  <2>1. UNCHANGED <<flushed_terminal_record, open_remapped>>
    BY DEF memoryVars, ringVars, openVars, flushedVars
  <2>2. PICK a : a = flushed_terminal_record
    OBVIOUS
  <2>3. fm' = fm
    OBVIOUS
  <2>4. ASSUME a # 0 PROVE r < f /\ AFrame(a)' /\ journal'[a].seq = f
    <3>1. r < f /\ AFrame(a) /\ journal[a].seq = f
      BY <1>10, <2>2, <2>4 DEF Committed
    <3>2. a \in Blocks /\ a # b
      BY <1>5, <1>6, <3>1 DEF AFrame
    <3> QED
      BY <1>3, <3>1, <3>2
  <2> QED
    BY <1>2, <1>10, <2>1, <2>2, <2>4 DEF Committed, AFrame
<1> QED
  BY <1>3, <1>4, <1>6, <1>7, <1>8, <1>9, <1>10

-----------------------------------------------------------------------------
(* The writes of a call that writes a block or commits *)

InUseBy(e, cur, r, lo, f, sp, fm) ==
    /\ InOrder(journal, master, e, cur, r, f, "flushed", sp, fm)
    /\ session_id = master.session /\ sp = session_current_freespace
    /\ Fill(e, r, lo, f) /\ Committed(r, f, fm)

\* The data of the frame that is open.
LEMMA DataWritten ==
    ASSUME NEW e, NEW cur, NEW r, NEW lo, NEW f, NEW sp, NEW fm, InUseBy(e, cur, r, lo, f, sp, fm),
           DataPending(e, cur, lo, f), OpenIs(journal, f), DiskInv, DiskWrite
    PROVE  /\ InUseBy(e, cur + 1, r, lo, f, sp, fm)' /\ OpenIs(journal, f)'
           /\ Settled(e, cur + 1, r, f)'
<1>1. PICK c : io = <<JournalWrite(cur, DataBlock(c))>>
  BY DEF DataPending, DataTo
<1>2. PICK x : x = DataBlock(c)
  OBVIOUS
<1>3. /\ io # <<>> /\ Head(io) = JournalWrite(cur, x) /\ Tail(io) = <<>>
      /\ x.type = "data"
  BY <1>1, <1>2 DEF DataBlock
<1>4. /\ Wrote(journal, journal', cur, x) /\ UNCHANGED <<master, memoryVars>>
      /\ io' = <<>> /\ UNCHANGED handle
  BY <1>3, DiskWriteIs DEF JournalWrite
<1>5. /\ InOrder(journal, master, e, cur, r, f, "flushed", sp, fm) /\ Fill(e, r, lo, f)
      /\ Committed(r, f, fm)
      /\ e \in Nat /\ r \in 0 .. e /\ f \in r .. e /\ f \in 0 .. e /\ cur \in 2 .. FileSize
      /\ InSequence(journal, master, e, cur)
  BY DEF InUseBy, InOrder
<1>6. /\ cur \in Blocks /\ cur # FileSize /\ At(cur) = cur
      /\ Untouched({cur}, e, lo)
  BY RingAssumption, <1>5 DEF DataPending, Untouched, At, Blocks
<1>7. /\ lo \in Nat /\ lo <= e /\ FilledFrom # 0 /\ frame_sequence = e
      /\ StartThere /\ OpenThere(open_current_frame, e) /\ open_current_frame # 0
  BY <1>5 DEF Fill, DataPending
<1>8. Free(cur, e, lo) /\ cur # session_start_record
  BY <1>5, <1>6, <1>7 DEF Free, Untouched, StartThere
<1>9. Fresh(x, cur, e) /\ After(x, e) = e
  BY <1>3 DEF Fresh, After
<1>10. /\ Fill(e, r, lo, f)' /\ OpenIs(journal, f)' /\ Committed(r, f, fm)'
       /\ \A a \in Blocks : a # cur => (AFrame(a)' <=> AFrame(a)) /\ journal'[a] = journal[a]
       /\ \A a \in Blocks : AFrame(a) /\ journal[a].seq >= lo => a # cur
  BY <1>4, <1>5, <1>7, <1>8, <1>9, FreeWritten
<1>11. InOrder(journal', master, e, cur + 1, r, f, "flushed", sp, fm)
  <2>1. \A b \in Blocks : IsFrame(journal, master, b) /\ journal[b].seq = e => journal[b].type = "open"
    BY <1>5, <1>7, SeqOnce DEF OpenThere, AFrame
  <2>2. IsFrame(journal, master, cur) => /\ r < journal[cur].seq => journal[cur].recs = <<>>
                                         /\ r < f => cur # master.start
    BY <1>5, <1>8, FreeForgotten
  <2> QED
    BY <1>3, <1>4, <1>5, <1>6, <2>1, <2>2, PutData
<1>12. UNCHANGED <<frame_sequence, next_free_frame, session_id, session_current_freespace,
                   session_start_record, open_current_frame, openMap, flushedMap, master>>
  BY <1>4 DEF memoryVars, ringVars, cursors, openVars, sessionVars, mapVars
<1>13. StartThere'
  BY <1>7, <1>8, <1>10, <1>12 DEF StartThere, AFrame
<1>14. OpenThere(open_current_frame, e)'
  <2>1. PICK a : a = open_current_frame
    OBVIOUS
  <2>2. AFrame(a) /\ journal[a].seq = e /\ journal[a].type = "open" /\ a \in Blocks /\ a # cur
    BY <1>5, <1>7, <1>10, <2>1 DEF OpenThere, AFrame
  <2>3. AFrame(a)' /\ journal'[a] = journal[a]
    BY <1>10, <2>2
  <2> QED
    BY <1>12, <2>1, <2>2, <2>3 DEF OpenThere, AFrame
<1>15. Settled(e, cur + 1, r, f)'
  BY <1>4, <1>7, <1>12, <1>13, <1>14 DEF Settled, DataPending
<1>16. InUseBy(e, cur + 1, r, lo, f, sp, fm)'
  BY <1>10, <1>11, <1>12 DEF InUseBy
<1> QED
  BY <1>10, <1>15, <1>16

\* What an empty frame at the cursor needs of the block there.
LEMMA EmptyFrame ==
    ASSUME NEW e, NEW cur, NEW r, NEW lo, NEW f, NEW sp, NEW fm, InUseBy(e, cur, r, lo, f, sp, fm),
           \A b \in Blocks : AFrame(b) => journal[b].type # "open",
           NEW b \in Blocks, b = At(cur), Free(b, e, lo), NEW type \in {"open", "closed"},
           NEW x, x = Header(type, e + 1, <<>>), Wrote(journal, journal', b, x)
    PROVE  InOrder(journal', master, e + 1, b + 1, r, f, "flushed", sp, fm)
<1>1. /\ InOrder(journal, master, e, cur, r, f, "flushed", sp, fm) /\ Fill(e, r, lo, f)
      /\ e \in Nat /\ f \in 0 .. e
  BY DEF InUseBy, InOrder
<1>2. IsFrame(journal, master, b) => /\ r < journal[b].seq => journal[b].recs = <<>>
                                     /\ r < f => b # master.start
  BY <1>1, FreeForgotten
<1>3. HeaderAt(b, x)
  BY EmptyHeader DEF HeaderTypes
<1>4. x.seq = e + 1 /\ x.session = master.session /\ x.space = sp /\ x.recs = <<>> /\ x.type = type
  BY DEF Header, InUseBy
<1>5. \A a \in Blocks : IsFrame(journal, master, a) => journal[a].type # "open"
  BY DEF AFrame
<1>6. PICK k : k = journal'
  OBVIOUS
<1>7. InOrder(k, master, e + 1, At(cur) + 1, r, f, "flushed", sp, fm)
  BY <1>1, <1>2, <1>3, <1>4, <1>5, <1>6, PutFrame
<1> QED
  BY <1>6, <1>7

\* The header of a new frame.
LEMMA FrameWritten ==
    ASSUME NEW e, NEW cur, NEW r, NEW lo, NEW f, NEW sp, NEW fm, InUseBy(e, cur, r, lo, f, sp, fm),
           AppendPending(e, cur, lo), Opening(io), master.start = session_start_record,
           frame_sequence = e + 1, OpenIs(journal, f), DiskInv, DiskWrite,
           NEW b, b = open_current_frame
    PROVE  /\ InUseBy(e + 1, b + 1, r, lo, f, sp, fm)' /\ OpenIs(journal, f)'
           /\ Settled(e + 1, b + 1, r, f)' \/ DataPending(e + 1, b + 1, lo, f)'
<1>1. PICK x : b = open_current_frame /\ x = Header("open", frame_sequence, <<>>)
  OBVIOUS
<1>2. /\ io # <<>> /\ Head(io) = JournalWrite(b, x)
      /\ \/ Tail(io) = <<>> /\ next_free_frame = b + 1
         \/ DataTo(Tail(io), b + 1) /\ next_free_frame = b + 2
  BY <1>1 DEF Opening
<1>3. /\ Wrote(journal, journal', b, x) /\ UNCHANGED <<master, memoryVars>>
      /\ io' = Tail(io) /\ UNCHANGED handle
  BY <1>2, DiskWriteIs DEF JournalWrite
<1>4. /\ InOrder(journal, master, e, cur, r, f, "flushed", sp, fm) /\ Fill(e, r, lo, f)
      /\ Committed(r, f, fm) /\ session_id = master.session
      /\ e \in Nat /\ r \in 0 .. e /\ f \in r .. e /\ f \in 0 .. e /\ cur \in 2 .. FileSize
      /\ InSequence(journal, master, e, cur)
  BY DEF InUseBy, InOrder
<1>5. /\ b # 0 /\ b \in Blocks /\ b = At(cur) /\ Untouched({b, b + 1}, e, lo)
      /\ AFrame(session_start_record) \/ session_start_record = b
      /\ \A a \in Blocks : AFrame(a) => journal[a].type # "open"
  <2>1. ~(e + 1 = e + 2)
    BY <1>4
  <2> QED
    BY <1>1, <2>1 DEF AppendPending, Appending, Untouched
<1>6. Free(b, e, lo) /\ b + 1 \in Blocks /\ b + 1 # session_start_record
      /\ (AFrame(b + 1) => journal[b + 1].seq < lo) /\ \A v \in Volume : flushedMap[v] # b + 1
  <2>1. b + 1 \in {b, b + 1} /\ b \in {b, b + 1}
    OBVIOUS
  <2>2. ~(b + 1 = b)
    BY <1>5 DEF Blocks
  <2> QED
    BY <1>1, <1>5, <2>1, <2>2 DEF Free, Untouched
<1>7. FilledFrom # 0 /\ lo \in Nat /\ lo <= e + 1
  BY <1>1, <1>4, <1>5 DEF Fill
<1>8. x.type = "open" /\ x.seq = e + 1 /\ x.session = master.session /\ x.recs = <<>>
  BY <1>1, <1>4 DEF Header
<1>9. Fresh(x, b, e) /\ After(x, e) = e + 1
  BY <1>1, <1>8 DEF Fresh, After
<1>10. /\ Fill(e + 1, r, lo, f)' /\ OpenIs(journal, f)' /\ Committed(r, f, fm)'
       /\ \A a \in Blocks : a # b => (AFrame(a)' <=> AFrame(a)) /\ journal'[a] = journal[a]
       /\ AFrame(b)' /\ journal'[b] = x
  <2>1. /\ Fill(After(x, e), r, lo, f)' /\ OpenIs(journal, f)' /\ Committed(r, f, fm)'
        /\ \A a \in Blocks : a # b => (AFrame(a)' <=> AFrame(a)) /\ journal'[a] = journal[a]
        /\ AFrame(b)' <=> x.type # "data"
        /\ journal'[b] = x
    BY <1>3, <1>4, <1>6, <1>7, <1>9, FreeWritten
  <2>2. Fill(e + 1, r, lo, f)'
    BY <1>9, <2>1
  <2> QED
    BY <1>8, <2>1, <2>2
<1>11. InOrder(journal', master, e + 1, b + 1, r, f, "flushed", sp, fm)
  BY <1>1, <1>3, <1>5, <1>6, EmptyFrame
<1>12. UNCHANGED <<frame_sequence, next_free_frame, session_id, session_current_freespace,
                   session_start_record, open_current_frame, openMap, flushedMap, master>>
  BY <1>3 DEF memoryVars, ringVars, cursors, openVars, sessionVars, mapVars
<1>13. InUseBy(e + 1, b + 1, r, lo, f, sp, fm)'
  BY <1>10, <1>11, <1>12 DEF InUseBy
<1>14. StartThere'
  <2>1. PICK s : s = session_start_record
    OBVIOUS
  <2>2. AFrame(s)'
    BY <1>5, <1>10, <2>1 DEF AFrame
  <2> QED
    BY <1>12, <2>1, <2>2 DEF StartThere, AFrame
<1>15. OpenThere(open_current_frame, e + 1)'
  BY <1>1, <1>8, <1>10, <1>12 DEF OpenThere, AFrame
<1>16. f < e + 1 /\ open_current_frame' # 0
  <2>1. open_current_frame' # 0
    BY <1>1, <1>5, <1>12
  <2>2. f < e + 1
    BY <1>4
  <2> QED
    BY <2>1, <2>2
<1>17. CASE Tail(io) = <<>> /\ next_free_frame = b + 1
  <2>1. Settled(e + 1, b + 1, r, f)'
    BY <1>3, <1>12, <1>14, <1>15, <1>16, <1>17 DEF Settled
  <2> QED
    BY <1>10, <1>13, <2>1
<1>18. CASE DataTo(Tail(io), b + 1) /\ next_free_frame = b + 2
  <2>1. b + 1 # b /\ next_free_frame' = b + 1 + 1
    BY <1>5, <1>12, <1>18 DEF Blocks
  <2>2. Untouched({b + 1}, e + 1, lo)'
    BY <1>6, <1>10, <1>12, <2>1 DEF Untouched
  <2>3. DataTo(io, b + 1)'
    BY <1>3, <1>18 DEF DataTo, JournalWrite, DataBlock
  <2>4. DataPending(e + 1, b + 1, lo, f)'
    BY <1>12, <1>14, <1>15, <1>16, <2>1, <2>2, <2>3 DEF DataPending
  <2> QED
    BY <1>10, <1>13, <2>4
<1> QED
  BY <1>2, <1>17, <1>18

\* The master block: the start record has moved.
LEMMA StartWritten ==
    ASSUME NEW e, NEW cur, NEW r, NEW lo, NEW f, NEW sp, NEW fm, InUseBy(e, cur, r, lo, f, sp, fm),
           AppendPending(e, cur, lo), io # <<>>, Head(io) = MasterWrite, Opening(Tail(io)),
           frame_sequence = e + 1, OpenIs(journal, f), DiskInv, DiskWrite
    PROVE  InUseBy(e, cur, r, lo, f, sp, fm)' /\ OpenIs(journal, f)' /\ AppendPending(e, cur, lo)'
<1>1. PICK n : n = [session |-> session_id, start |-> session_start_record]
  OBVIOUS
<1>2. /\ master' = n /\ UNCHANGED <<journal, memoryVars>>
      /\ io' = Tail(io) /\ UNCHANGED handle
  BY <1>1, DiskWriteIs DEF MasterWrite
<1>3. /\ InOrder(journal, master, e, cur, r, f, "flushed", sp, fm) /\ Fill(e, r, lo, f)
      /\ Committed(r, f, fm) /\ session_id = master.session
      /\ e \in Nat /\ r \in 0 .. e /\ f \in r .. e /\ InSequence(journal, master, e, cur)
  BY DEF InUseBy, InOrder
<1>4. PICK s : s = session_start_record
  OBVIOUS
<1>5. /\ open_current_frame # 0 /\ At(cur) = open_current_frame
      /\ Untouched({open_current_frame, open_current_frame + 1}, e, lo)
      /\ AFrame(s) \/ s = open_current_frame
      /\ \A a \in Blocks : AFrame(a) => journal[a].type # "open"
  <2>1. ~(e + 1 = e + 2)
    BY <1>3
  <2> QED
    BY <1>4, <2>1 DEF AppendPending, Appending
<1>6. n.session = master.session /\ n.start = s
  BY <1>1, <1>3, <1>4
<1>7. s \in Blocks /\ lo \in Nat /\ (s = open_current_frame => e < lo)
  BY <1>3, <1>4, <1>5 DEF Untouched, AFrame, Fill
<1>8. \A a \in Blocks : /\ IsFrame(journal, n, a) <=> IsFrame(journal, master, a)
                        /\ AFrame(a)' <=> AFrame(a)
  BY <1>2, <1>6 DEF IsFrame, AFrame
<1>9. \A a \in Blocks : AFrame(a) => journal[a].seq \in Nat
  BY <1>3 DEF AFrame, InSequence
<1>10. StartFound(journal, n, r, f)
  <2>1. SUFFICES ASSUME r < f
                 PROVE  /\ IsFrame(journal, n, s) /\ journal[s].seq <= f
                        /\ \A b \in Blocks :
                              IsFrame(journal, n, b) /\ r < journal[b].seq /\ journal[b].seq < journal[s].seq =>
                                 journal[b].recs = <<>>
    BY <1>6 DEF StartFound
  <2>2. r < lo /\ lo <= f
    BY <1>3, <2>1 DEF Fill
  <2>3. AFrame(s)
    BY <1>3, <1>5, <1>7, <2>2
  <2>4. journal[s].seq <= lo
    BY <1>3, <1>4, <1>7, <2>3 DEF Fill
  <2>5. IsFrame(journal, n, s) /\ journal[s].seq <= f
    BY <1>3, <1>7, <1>8, <1>9, <2>2, <2>3, <2>4 DEF AFrame
  <2>6. ASSUME NEW b \in Blocks, IsFrame(journal, n, b), r < journal[b].seq, journal[b].seq < journal[s].seq
        PROVE  journal[b].recs = <<>>
    <3>1. AFrame(b) /\ journal[b].seq < lo
      BY <1>7, <1>8, <1>9, <2>3, <2>4, <2>6 DEF AFrame
    <3> QED
      BY <1>3, <2>6, <3>1 DEF Fill
  <2> QED
    BY <2>5, <2>6
<1>11. InOrder(journal, n, e, cur, r, f, "flushed", sp, fm)
  BY <1>3, <1>6, <1>7, <1>10, StartMoves
<1>12. UNCHANGED <<frame_sequence, next_free_frame, session_id, session_current_freespace,
                   session_start_record, open_current_frame, openMap, flushedMap, journal,
                   FilledFrom, open_recs, flushed_terminal_record, open_remapped>>
  BY <1>2 DEF memoryVars, ringVars, cursors, openVars, flushedVars, sessionVars, mapVars, FilledFrom
<1>13. Fill(e, r, lo, f)'
  <2>1. ASSUME NEW a \in Blocks, AFrame(a)'
        PROVE  /\ r < journal'[a].seq /\ journal'[a].seq < lo => journal'[a].recs = <<>>
               /\ a \in {session_start_record', master.start'} => journal'[a].seq <= lo
    BY <1>2, <1>3, <1>4, <1>6, <1>8, <1>12, <2>1 DEF Fill
  <2>2. AFrame(FilledFrom) => AFrame(FilledFrom)'
    <3>1. PICK a : a = FilledFrom
      OBVIOUS
    <3>2. AFrame(a) => AFrame(a)'
      BY <1>8 DEF AFrame
    <3> QED
      BY <1>12, <3>1, <3>2 DEF AFrame
  <2> QED
    BY <1>3, <1>12, <2>1, <2>2 DEF Fill
<1>14. Committed(r, f, fm)'
  <2>1. PICK a : a = flushed_terminal_record
    OBVIOUS
  <2>2. AFrame(a) => AFrame(a)'
    BY <1>8 DEF AFrame
  <2>3. AFrame(flushed_terminal_record) => AFrame(flushed_terminal_record)'
    BY <1>12, <2>1, <2>2 DEF AFrame
  <2> QED
    BY <1>3, <1>12, <2>3 DEF Committed
<1>15. OpenIs(journal, f)'
  <2>1. \A a \in Blocks : \A i, v : OpenRecord(journal, f, a, i, v)' <=> OpenRecord(journal, f, a, i, v)
    BY <1>2, <1>6, <1>8, <1>12 DEF OpenRecord, IsFrame
  <2> QED
    BY <1>12, <2>1 DEF OpenIs
<1>16. AppendPending(e, cur, lo)'
  <2>1. Untouched({open_current_frame, open_current_frame + 1}, e, lo)'
    BY <1>5, <1>8, <1>12 DEF Untouched
  <2>2. Opening(io)'
    BY <1>2, <1>12 DEF Opening, DataTo, JournalWrite, Header, DataBlock
  <2>3. (AFrame(session_start_record) \/ session_start_record = open_current_frame)'
    <3>1. AFrame(s) => AFrame(s)'
      BY <1>8 DEF AFrame
    <3> QED
      BY <1>4, <1>5, <1>12, <3>1 DEF AFrame
  <2>4. Moving(io)'
    BY <1>2, <1>4, <1>6, <1>12, <2>2 DEF Moving
  <2>5. Appending(io, e, cur, lo)'
    BY <1>5, <1>12, <2>1, <2>3, <2>4 DEF Appending, At
  <2> QED
    BY <1>5, <1>8, <1>12, <2>5 DEF AppendPending
<1>17. InUseBy(e, cur, r, lo, f, sp, fm)'
  <2>1. InOrder(journal', master', e, cur, r, f, "flushed", sp, fm)
    BY <1>2, <1>11
  <2>2. (session_id = master.session /\ sp = session_current_freespace)'
    BY <1>2, <1>3, <1>6, <1>12 DEF InUseBy
  <2> QED
    BY <1>13, <1>14, <2>1, <2>2 DEF InUseBy
<1> QED
  BY <1>15, <1>16, <1>17

\* The empty frame that fills the last block of the file.
LEMMA NullWritten ==
    ASSUME NEW e, NEW cur, NEW r, NEW lo, NEW f, NEW sp, NEW fm, InUseBy(e, cur, r, lo, f, sp, fm),
           AppendPending(e, cur, lo), frame_sequence = e + 2, OpenIs(journal, f),
           DiskInv, DiskWrite
    PROVE  /\ InUseBy(e + 1, FileSize, r, lo, f, sp, fm)' /\ OpenIs(journal, f)'
           /\ AppendPending(e + 1, FileSize, lo)'
<1>1. PICK b, x : b = FileSize - 1 /\ x = Header("closed", frame_sequence - 1, <<>>)
  OBVIOUS
<1>2. /\ InOrder(journal, master, e, cur, r, f, "flushed", sp, fm) /\ Fill(e, r, lo, f)
      /\ Committed(r, f, fm) /\ session_id = master.session
      /\ e \in Nat /\ r \in 0 .. e /\ f \in r .. e /\ f \in 0 .. e /\ cur \in 2 .. FileSize
      /\ InSequence(journal, master, e, cur)
  BY DEF InUseBy, InOrder
<1>3. /\ cur = b /\ open_current_frame = 1 /\ FileSize >= 4 /\ io # <<>>
      /\ Head(io) = JournalWrite(b, x) /\ Moving(Tail(io)) /\ master.start # b
      /\ Untouched({b, 1, 2}, e, lo)
      /\ AFrame(session_start_record) \/ session_start_record = open_current_frame
      /\ \A a \in Blocks : AFrame(a) => journal[a].type # "open"
  <2>1. ~(e + 2 = e + 1)
    BY <1>2
  <2> QED
    BY <1>1, <2>1 DEF AppendPending, Appending
<1>4. /\ Wrote(journal, journal', b, x) /\ UNCHANGED <<master, memoryVars>>
      /\ io' = Tail(io) /\ UNCHANGED handle
  BY <1>3, DiskWriteIs DEF JournalWrite
<1>5. b \in Blocks /\ b # 1 /\ b # 2 /\ b = At(cur) /\ 1 \in Blocks /\ 2 \in Blocks
  BY <1>1, <1>3, RingAssumption DEF Blocks, At
<1>6. /\ Free(b, e, lo) /\ b # session_start_record
      /\ \A a \in {1, 2} : (AFrame(a) => journal[a].seq < lo) /\ \A v \in Volume : flushedMap[v] # a
      /\ 2 # session_start_record /\ (session_start_record = 1 => e < lo)
  <2>1. b \in {b, 1, 2} /\ 1 \in {b, 1, 2} /\ 2 \in {b, 1, 2}
    OBVIOUS
  <2> QED
    BY <1>3, <1>5, <2>1 DEF Free, Untouched
<1>7. FilledFrom # 0 /\ lo \in Nat /\ (e < lo => e + 1 < lo)
  BY <1>2, <1>3 DEF Fill
<1>8. x.type = "closed" /\ x.seq = e + 1 /\ x.session = master.session /\ x.recs = <<>>
      /\ x = Header("closed", e + 1, <<>>)
  <2>1. frame_sequence - 1 = e + 1
    BY <1>2
  <2>2. x = Header("closed", e + 1, <<>>)
    BY <1>1, <2>1
  <2> QED
    BY <1>2, <2>2 DEF Header
<1>9. Fresh(x, b, e) /\ After(x, e) = e + 1
  <2>1. x.seq # frame_sequence
    BY <1>2, <1>8
  <2> QED
    BY <1>3, <1>5, <1>8, <2>1 DEF Fresh, After
<1>10. /\ Fill(e + 1, r, lo, f)' /\ OpenIs(journal, f)' /\ Committed(r, f, fm)'
       /\ \A a \in Blocks : a # b => (AFrame(a)' <=> AFrame(a)) /\ journal'[a] = journal[a]
       /\ AFrame(b)' /\ journal'[b] = x
  <2>1. /\ Fill(After(x, e), r, lo, f)' /\ OpenIs(journal, f)' /\ Committed(r, f, fm)'
        /\ \A a \in Blocks : a # b => (AFrame(a)' <=> AFrame(a)) /\ journal'[a] = journal[a]
        /\ AFrame(b)' <=> x.type # "data"
        /\ journal'[b] = x
    BY <1>2, <1>4, <1>6, <1>7, <1>9, FreeWritten
  <2>2. Fill(e + 1, r, lo, f)'
    BY <1>9, <2>1
  <2> QED
    BY <1>8, <2>1, <2>2
<1>11. InOrder(journal', master, e + 1, FileSize, r, f, "flushed", sp, fm)
  <2>1. InOrder(journal', master, e + 1, b + 1, r, f, "flushed", sp, fm)
    BY <1>3, <1>4, <1>5, <1>6, <1>8, EmptyFrame
  <2>2. b + 1 = FileSize
    BY <1>1, RingAssumption
  <2> QED
    BY <2>1, <2>2
<1>12. UNCHANGED <<frame_sequence, next_free_frame, session_id, session_current_freespace,
                   session_start_record, open_current_frame, openMap, flushedMap, master>>
  BY <1>4 DEF memoryVars, ringVars, cursors, openVars, sessionVars, mapVars
<1>13. InUseBy(e + 1, FileSize, r, lo, f, sp, fm)'
  BY <1>10, <1>11, <1>12 DEF InUseBy
<1>14. (AFrame(session_start_record) \/ session_start_record = open_current_frame)'
  <2>1. PICK s : s = session_start_record
    OBVIOUS
  <2>2. s \in Blocks /\ s # b
    BY <1>3, <1>5, <1>6, <2>1 DEF AFrame
  <2>3. AFrame(s) => AFrame(s)'
    BY <1>10, <2>2
  <2> QED
    BY <1>3, <1>12, <2>1, <2>3 DEF AFrame
<1>15. Untouched({open_current_frame, open_current_frame + 1}, e + 1, lo)'
  <2>1. Untouched({1, 2}, e + 1, lo)'
    BY <1>3, <1>5, <1>6, <1>7, <1>10, <1>12 DEF Untouched
  <2>2. {open_current_frame', open_current_frame' + 1} = {1, 2}
    BY <1>3, <1>12
  <2> QED
    BY <2>1, <2>2 DEF Untouched
<1>16. Moving(io)'
  BY <1>3, <1>4, <1>12 DEF Moving, Opening, MasterWrite, DataTo, JournalWrite, Header, DataBlock
<1>17. frame_sequence' = (e + 1) + 1 /\ At(FileSize) = 1
  BY <1>2, <1>12 DEF At
<1>18. Appending(io, e + 1, FileSize, lo)'
  BY <1>3, <1>12, <1>14, <1>15, <1>16, <1>17 DEF Appending, At
<1>19. \A a \in Blocks : AFrame(a)' => journal'[a].type # "open"
  BY <1>3, <1>8, <1>10
<1> QED
  BY <1>10, <1>13, <1>18, <1>19 DEF AppendPending

\* The header of the frame that is full.
LEMMA FrameClosed ==
    ASSUME NEW e, NEW cur, NEW r, NEW lo, NEW f, NEW sp, NEW fm, InUseBy(e, cur, r, lo, f, sp, fm),
           ClosePending(e, cur, lo, f), OpenIs(Closed, f), DiskInv, DiskWrite
    PROVE  InUseBy(e, cur, r, lo, f, sp, fm)' /\ OpenIs(journal, f)' /\ AppendPending(e, cur, lo)'
<1>1. /\ f < e /\ lo <= e /\ io # <<>> /\ Appending(Tail(io), e, cur, lo)
      /\ \E b \in Blocks : Closing(Head(io), b, e, cur, "closed")
  BY DEF ClosePending
<1>2. PICK b \in Blocks, recs \in Seq(Volume) :
         /\ OpenThere(b, e) /\ Head(io) = JournalWrite(b, Header("closed", e, recs))
         /\ Len(recs) <= FrameMax /\ b + 1 + Len(recs) = cur
  BY <1>1 DEF Closing
<1>3. PICK x : x = Header("closed", e, recs)
  OBVIOUS
<1>4. /\ Wrote(journal, journal', b, x) /\ UNCHANGED <<master, memoryVars>>
      /\ io' = Tail(io) /\ UNCHANGED handle /\ Head(io) \in Pending
  BY <1>2, <1>3, DiskWriteIs DEF JournalWrite
<1>5. /\ InOrder(journal, master, e, cur, r, f, "flushed", sp, fm) /\ Fill(e, r, lo, f)
      /\ Committed(r, f, fm) /\ session_id = master.session /\ sp = session_current_freespace
      /\ e \in Nat /\ r \in 0 .. e /\ f \in r .. e /\ cur \in 2 .. FileSize
      /\ InSequence(journal, master, e, cur) /\ Signed(journal, master, r, sp) /\ Formed(journal)
  BY DEF InUseBy, InOrder
<1>6. /\ AFrame(b) /\ IsFrame(journal, master, b) /\ journal[b].seq = e /\ journal[b].type = "open"
      /\ \A a \in Blocks : AFrame(a) => journal[a].seq \in Nat
  BY <1>2, <1>5 DEF OpenThere, AFrame, InSequence
<1>7. /\ x.type = "closed" /\ x.seq = e /\ x.session = session_id /\ x.recs = recs
      /\ x.space = session_current_freespace
  BY <1>3 DEF Header
<1>8. WroteAgain(journal, journal', master, b, x)
  <2>1. HeaderAt(b, x)
    <3>1. WellFormed(b, x)
      BY <1>2, <1>3, <1>4 DEF DiskInv, DiskTyped, JournalWrite
    <3> QED
      BY <1>7, <3>1 DEF WellFormed
  <2>2. x.session = journal[b].session
    BY <1>5, <1>6, <1>7 DEF IsFrame
  <2>3. r < journal[b].seq
    BY <1>1, <1>5, <1>6
  <2>4. x.space = journal[b].space
    BY <1>2, <1>5, <1>6, <1>7, <2>3 DEF Signed
  <2> QED
    BY <1>4, <1>6, <1>7, <2>1, <2>2, <2>4 DEF WroteAgain
<1>9. InOrder(journal', master, e, cur, r, f, "flushed", sp, fm)
  <2>1. Ends(x, b, cur)
    BY <1>2, <1>7 DEF Ends
  <2>2. PICK k : k = journal'
    OBVIOUS
  <2>3. InOrder(k, master, e, cur, r, f, "flushed", sp, fm)
    BY <1>1, <1>5, <1>6, <1>7, <1>8, <2>1, <2>2, Close
  <2> QED
    BY <2>2, <2>3
<1>10. /\ \A a \in Blocks : /\ AFrame(a)' <=> AFrame(a)
                            /\ AFrame(a) => journal'[a].seq = journal[a].seq
                            /\ a # b => journal'[a] = journal[a]
       /\ journal'[b] = x
  BY <1>4, <1>5, <1>8, FramesStay DEF AFrame
<1>11. UNCHANGED <<frame_sequence, next_free_frame, session_id, session_current_freespace,
                   session_start_record, open_current_frame, openMap, flushedMap, master,
                   FilledFrom, open_recs, flushed_terminal_record, open_remapped>>
  BY <1>4 DEF memoryVars, ringVars, cursors, openVars, flushedVars, sessionVars, mapVars, FilledFrom
<1>12. \A a : (AFrame(a) => AFrame(a)' /\ journal'[a].seq = journal[a].seq) /\ (AFrame(a)' => AFrame(a))
  BY <1>10 DEF AFrame
<1>13. Fill(e, r, lo, f)'
  <2>1. ASSUME NEW a \in Blocks, AFrame(a)'
        PROVE  /\ r < journal'[a].seq /\ journal'[a].seq < lo => journal'[a].recs = <<>>
               /\ a \in {session_start_record', master.start'} => journal'[a].seq <= lo
    <3>1. a = b => ~(journal'[a].seq < lo)
      BY <1>1, <1>5, <1>7, <1>10 DEF Fill
    <3>2. AFrame(a) /\ journal'[a].seq = journal[a].seq
      BY <1>12, <2>1
    <3> QED
      BY <1>5, <1>10, <1>11, <3>1, <3>2 DEF Fill
  <2>2. PICK a : a = FilledFrom
    OBVIOUS
  <2>3. AFrame(a) => AFrame(a)' /\ journal'[a].seq = journal[a].seq
    BY <1>12
  <2> QED
    BY <1>5, <1>11, <2>1, <2>2, <2>3 DEF Fill, AFrame
<1>14. Committed(r, f, fm)'
  <2>1. PICK a : a = flushed_terminal_record
    OBVIOUS
  <2>2. AFrame(a) => AFrame(a)' /\ journal'[a].seq = journal[a].seq
    BY <1>12
  <2> QED
    BY <1>5, <1>11, <2>1, <2>2 DEF Committed, AFrame
<1>15. OpenIs(journal, f)'
  <2>1. \A a \in Blocks : Closed[a] = journal'[a]
    BY <1>1, <1>2, <1>3, <1>7, <1>10 DEF Closed, JournalWrite
  <2>2. \A a \in Blocks : \A i, v : OpenRecord(journal, f, a, i, v)' <=> OpenRecord(Closed, f, a, i, v)
    BY <1>11, <2>1 DEF OpenRecord, IsFrame
  <2> QED
    BY <1>11, <2>2 DEF OpenIs
<1>16. \A a \in Blocks : AFrame(a)' => journal'[a].type # "open"
  <2>1. SUFFICES ASSUME NEW a \in Blocks, AFrame(a)', journal'[a].type = "open" PROVE FALSE
    OBVIOUS
  <2>2. a # b /\ AFrame(a) /\ journal[a].type = "open"
    BY <1>7, <1>10, <2>1
  <2>3. journal[a].seq = e
    BY <1>5, <2>2 DEF AFrame, InSequence
  <2> QED
    BY <1>5, <1>6, <2>2, <2>3, SeqOnce DEF AFrame
<1>17. Appending(io, e, cur, lo)'
  <2>1. \A bs : Untouched(bs, e, lo) => Untouched(bs, e, lo)'
    BY <1>11, <1>12 DEF Untouched
  <2>2. Moving(Tail(io)) => Moving(io)'
    BY <1>4, <1>11 DEF Moving, Opening, MasterWrite, DataTo, JournalWrite, Header, DataBlock
  <2>3. Moving(Tail(Tail(io))) => Moving(Tail(io))'
    BY <1>4, <1>11 DEF Moving, Opening, MasterWrite, DataTo, JournalWrite, Header, DataBlock
  <2>4. (AFrame(session_start_record) \/ session_start_record = open_current_frame)'
    <3>1. PICK s : s = session_start_record
      OBVIOUS
    <3>2. AFrame(s) => AFrame(s)'
      BY <1>12
    <3> QED
      BY <1>1, <1>11, <3>1, <3>2 DEF Appending, AFrame
  <2>5. CASE /\ frame_sequence = e + 1 /\ At(cur) = open_current_frame /\ Moving(Tail(io))
             /\ Untouched({open_current_frame, open_current_frame + 1}, e, lo)
    <3>1. Untouched({open_current_frame, open_current_frame + 1}, e, lo)'
      <4>1. PICK a : a = open_current_frame
        OBVIOUS
      <4>2. Untouched({a, a + 1}, e, lo)'
        BY <2>1, <2>5, <4>1
      <4> QED
        BY <1>11, <4>1, <4>2
    <3> QED
      BY <1>1, <1>11, <2>2, <2>4, <2>5, <3>1 DEF Appending, At
  <2>6. CASE /\ frame_sequence = e + 2 /\ cur = FileSize - 1 /\ open_current_frame = 1
             /\ FileSize >= 4 /\ Tail(io) # <<>>
             /\ Head(Tail(io)) = JournalWrite(FileSize - 1, Header("closed", frame_sequence - 1, <<>>))
             /\ Moving(Tail(Tail(io))) /\ master.start # FileSize - 1
             /\ Untouched({FileSize - 1, 1, 2}, e, lo)
    <3>1. Untouched({FileSize - 1, 1, 2}, e, lo)'
      BY <2>1, <2>6
    <3>2. io' # <<>> /\ (Head(io) = JournalWrite(FileSize - 1, Header("closed", frame_sequence - 1, <<>>)))'
      BY <1>4, <1>11, <2>6 DEF JournalWrite, Header
    <3> QED
      BY <1>1, <1>11, <2>3, <2>4, <2>6, <3>1, <3>2 DEF Appending
  <2> QED
    BY <1>1, <2>5, <2>6 DEF Appending
<1>18. InUseBy(e, cur, r, lo, f, sp, fm)'
  BY <1>5, <1>9, <1>11, <1>13, <1>14 DEF InUseBy
<1> QED
  BY <1>15, <1>16, <1>17, <1>18 DEF AppendPending

\* A block of the open transaction is written again.
LEMMA DataRewritten ==
    ASSUME NEW e, NEW cur, NEW r, NEW lo, NEW f, NEW sp, NEW fm, InUseBy(e, cur, r, lo, f, sp, fm),
           Settled(e, cur, r, f), NEW b \in Blocks, DataTo(io, b), journal[b].type = "data",
           \A v \in Volume : flushedMap[v] # b, OpenIs(journal, f), DiskInv, DiskWrite
    PROVE  InUseBy(e, cur, r, lo, f, sp, fm)' /\ OpenIs(journal, f)' /\ Settled(e, cur, r, f)'
<1>1. PICK c : io = <<JournalWrite(b, DataBlock(c))>>
  BY DEF DataTo
<1>2. PICK x : x = DataBlock(c)
  OBVIOUS
<1>3. io # <<>> /\ Head(io) = JournalWrite(b, x) /\ Tail(io) = <<>> /\ x.type = "data"
  BY <1>1, <1>2 DEF DataBlock
<1>4. /\ Wrote(journal, journal', b, x) /\ UNCHANGED <<master, memoryVars>>
      /\ io' = <<>> /\ UNCHANGED handle
  <2>1. Head(io).to = "journal" /\ Head(io).at = b /\ Head(io).val = x
    BY <1>3 DEF JournalWrite
  <2> QED
    BY <1>3, <2>1, DiskWriteIs
<1>5. /\ InOrder(journal, master, e, cur, r, f, "flushed", sp, fm) /\ Fill(e, r, lo, f)
      /\ Committed(r, f, fm) /\ e \in Nat /\ r \in 0 .. e /\ f \in r .. e
      /\ InSequence(journal, master, e, cur)
  BY DEF InUseBy, InOrder
<1>6. /\ ~AFrame(b) /\ ~IsFrame(journal, master, b) /\ StartThere
      /\ frame_sequence = e /\ next_free_frame = cur
      /\ IF open_current_frame = 0 THEN f = e ELSE f < e /\ OpenThere(open_current_frame, e)
  BY DEF AFrame, IsFrame, Settled
<1>7. Free(b, e, lo)
  BY <1>6 DEF Free, StartThere
<1>8. Fresh(x, b, e) /\ After(x, e) = e
  BY <1>3 DEF Fresh, After
<1>9. /\ Fill(e, r, lo, f)' /\ OpenIs(journal, f)' /\ Committed(r, f, fm)'
      /\ \A a \in Blocks : a # b => (AFrame(a)' <=> AFrame(a)) /\ journal'[a] = journal[a]
  BY <1>3, <1>4, <1>5, <1>7, <1>8, FreeWritten
<1>10. InOrder(journal', master, e, cur, r, f, "flushed", sp, fm)
  <2>1. PICK k : k = journal'
    OBVIOUS
  <2>2. InOrder(k, master, e, cur, r, f, "flushed", sp, fm)
    BY <1>3, <1>4, <1>5, <1>6, <2>1, Forget
  <2> QED
    BY <2>1, <2>2
<1>11. UNCHANGED <<frame_sequence, next_free_frame, session_id, session_current_freespace,
                   session_start_record, open_current_frame, openMap, flushedMap, master>>
  BY <1>4 DEF memoryVars, ringVars, cursors, openVars, sessionVars, mapVars
<1>12. \A a : AFrame(a) => AFrame(a)' /\ journal'[a] = journal[a]
  BY <1>6, <1>9 DEF AFrame
<1>13. StartThere'
  <2>1. PICK a : a = session_start_record
    OBVIOUS
  <2>2. AFrame(a)'
    BY <1>6, <1>12, <2>1 DEF StartThere
  <2> QED
    BY <1>6, <1>11, <2>1, <2>2 DEF StartThere, AFrame
<1>14. OpenThere(open_current_frame, e) => OpenThere(open_current_frame, e)'
  <2>1. PICK a : a = open_current_frame
    OBVIOUS
  <2>2. AFrame(a) => AFrame(a)' /\ journal'[a] = journal[a]
    BY <1>12
  <2> QED
    BY <1>11, <2>1, <2>2 DEF OpenThere, AFrame
<1>15. Settled(e, cur, r, f)'
  BY <1>4, <1>6, <1>11, <1>13, <1>14 DEF Settled
<1> QED
  BY <1>9, <1>10, <1>11, <1>15 DEF InUseBy

\* Writes of the handle and of the second FAT copy, and the return of a commit.
LEMMA OutsideJournal ==
    ASSUME NEW e, NEW cur, NEW r, NEW lo, NEW f, NEW sp, NEW fm, InUseBy(e, cur, r, lo, f, sp, fm),
           Settled(e, cur, r, f), OpenIs(journal, f), UNCHANGED <<journal, master, memoryVars>>,
           \/ io' = <<>>
           \/ openMap = NoMap /\ (io' = Return \/ io' = ToHandle(TRUE) \o Return)
           \/ r = f /\ \A w \in Pending' : w.to \in {"fat2", "handle"}
    PROVE  InUseBy(e, cur, r, lo, f, sp, fm)' /\ OpenIs(journal, f)' /\ Settled(e, cur, r, f)'
<1>1. UNCHANGED <<frame_sequence, next_free_frame, session_id, session_current_freespace,
                  session_start_record, open_current_frame, openMap, flushedMap, journal, master,
                  FilledFrom, open_recs, flushed_terminal_record, open_remapped>>
  BY DEF memoryVars, ringVars, cursors, openVars, flushedVars, sessionVars, mapVars, FilledFrom
<1>2. InUseBy(e, cur, r, lo, f, sp, fm)'
  BY <1>1 DEF InUseBy, Fill, Committed, AFrame
<1>3. OpenIs(journal, f)'
  BY <1>1 DEF OpenIs, OpenRecord
<1>4. StartThere' /\ (OpenThere(open_current_frame, e) => OpenThere(open_current_frame, e)')
  BY <1>1 DEF Settled, StartThere, OpenThere, AFrame
<1>5. Settled(e, cur, r, f)'
  BY <1>1, <1>4 DEF Settled, Return, ToHandle
<1> QED
  BY <1>2, <1>3, <1>5

\* The last header of a transaction: from now on it is committed.
LEMMA FrameFlushed ==
    ASSUME NEW e, NEW cur, NEW r, NEW lo, NEW f, NEW sp, NEW fm,
           InOrder(journal, master, e, cur, r, f, "flushed", sp, fm), session_id = master.session,
           sp = session_current_freespace, Fill(e, r, lo, f),
           Flushing(e, cur, r, lo, f, fm), DiskInv, DiskWrite, NEW gm, gm = flushedMap
    PROVE  /\ InUseBy(e, cur, r, lo, e, sp, gm)' /\ OpenIs(journal, e)'
           /\ Settled(e, cur, r, e)' /\ r < e
           /\ io' = Return \/ io' = ToHandle(TRUE) \o Return
           /\ FixedJournal \/ io' = ToHandle(TRUE) \o Return
<1>1. PICK b : b = flushed_terminal_record
  OBVIOUS
<1>2. /\ frame_sequence = e /\ next_free_frame = cur /\ StartThere
      /\ openMap = NoMap /\ open_current_frame = 0 /\ FilledFrom # 0 /\ lo <= e /\ f < e
      /\ io # <<>> /\ Closing(Head(io), b, e, cur, "flushed") /\ Tail(io) = MarkHandle \o Return
      /\ MapOf([journal EXCEPT ![b] = Head(io).val], master, r, e, flushedMap)
  BY <1>1 DEF Flushing
<1>3. PICK recs \in Seq(Volume) :
         /\ OpenThere(b, e) /\ Head(io) = JournalWrite(b, Header("flushed", e, recs))
         /\ Len(recs) <= FrameMax /\ b + 1 + Len(recs) = cur
  BY <1>2 DEF Closing
<1>4. PICK x : x = Header("flushed", e, recs)
  OBVIOUS
<1>5. Head(io).to = "journal" /\ Head(io).at = b /\ Head(io).val = x
  BY <1>3, <1>4 DEF JournalWrite
<1>6. /\ Wrote(journal, journal', b, x) /\ UNCHANGED <<master, memoryVars>>
      /\ io' = Tail(io) /\ UNCHANGED handle /\ Head(io) \in Pending
  BY <1>2, <1>5, DiskWriteIs
<1>7. /\ InOrder(journal, master, e, cur, r, f, "flushed", sp, fm) /\ Fill(e, r, lo, f)
      /\ session_id = master.session /\ sp = session_current_freespace
      /\ e \in Nat /\ r \in 0 .. e /\ f \in r .. e /\ cur \in 2 .. FileSize
      /\ InSequence(journal, master, e, cur) /\ Signed(journal, master, r, sp) /\ Formed(journal)
  BY DEF InOrder
<1>8. /\ AFrame(b) /\ IsFrame(journal, master, b) /\ journal[b].seq = e /\ journal[b].type = "open"
      /\ b \in Blocks /\ r < e
      /\ \A a \in Blocks : AFrame(a) => journal[a].seq \in Nat
  BY <1>2, <1>3, <1>7 DEF OpenThere, AFrame, InSequence
<1>9. /\ x.type = "flushed" /\ x.seq = e /\ x.session = session_id /\ x.recs = recs
      /\ x.space = session_current_freespace
  BY <1>4 DEF Header
<1>10. WroteAgain(journal, journal', master, b, x)
  <2>1. HeaderAt(b, x)
    <3>1. WellFormed(b, x)
      BY <1>5, <1>6 DEF DiskInv, DiskTyped
    <3> QED
      BY <1>9, <3>1 DEF WellFormed
  <2>2. x.session = journal[b].session
    BY <1>7, <1>8, <1>9 DEF IsFrame
  <2>3. x.space = journal[b].space
    BY <1>7, <1>8, <1>9 DEF Signed
  <2> QED
    BY <1>6, <1>8, <1>9, <2>1, <2>2, <2>3 DEF WroteAgain
<1>11. MapOf(journal', master, r, e, flushedMap)
  <2>1. journal' = [journal EXCEPT ![b] = x]
    BY <1>2, <1>5 DEF DiskWrite
  <2> QED
    BY <1>2, <1>5, <2>1
<1>12. InOrder(journal', master, e, cur, r, e, "flushed", sp, flushedMap)
  <2>1. Ends(x, b, cur)
    BY <1>3, <1>9 DEF Ends
  <2>2. PICK k : k = journal'
    OBVIOUS
  <2>3. IsFrame(journal, master, master.start)
    BY <1>2 DEF StartThere, AFrame
  <2>4. \A a \in Blocks : IsFrame(journal, master, a) /\ r < journal[a].seq
                             /\ journal[a].seq < journal[master.start].seq => journal[a].recs = <<>>
    <3>1. AFrame(master.start) /\ lo \in Nat /\ journal[master.start].seq <= lo
      BY <1>2, <1>7 DEF StartThere, Fill, AFrame
    <3>2. journal[master.start].seq \in Nat
      BY <1>8, <3>1 DEF AFrame
    <3>3. ASSUME NEW a \in Blocks, IsFrame(journal, master, a), r < journal[a].seq,
                 journal[a].seq < journal[master.start].seq
          PROVE  journal[a].recs = <<>>
      <4>1. AFrame(a) /\ journal[a].seq \in Nat
        BY <1>8, <3>3 DEF AFrame
      <4>2. journal[a].seq < lo
        BY <3>1, <3>2, <3>3, <4>1
      <4> QED
        BY <1>7, <3>3, <4>1, <4>2 DEF Fill
    <3> QED
      BY <3>3
  <2>5. InOrder(k, master, e, cur, r, e, "flushed", sp, flushedMap)
    <3>1. MapOf(k, master, r, e, flushedMap) /\ WroteAgain(journal, k, master, b, x)
      BY <1>10, <1>11, <2>2
    <3> QED
      BY <1>7, <1>8, <1>9, <2>1, <2>3, <2>4, <3>1, CommitFrame
  <2> QED
    BY <2>2, <2>5
<1>13. /\ \A a : (AFrame(a) => AFrame(a)' /\ journal'[a].seq = journal[a].seq) /\ (AFrame(a)' => AFrame(a))
       /\ \A a \in Blocks : a # b => journal'[a] = journal[a]
  BY <1>6, <1>7, <1>10, FramesStay DEF AFrame
<1>14. UNCHANGED <<frame_sequence, next_free_frame, session_id, session_current_freespace,
                   session_start_record, open_current_frame, openMap, flushedMap, master,
                   FilledFrom, open_recs, flushed_terminal_record, open_remapped>>
  BY <1>6 DEF memoryVars, ringVars, cursors, openVars, flushedVars, sessionVars, mapVars, FilledFrom
<1>15. Fill(e, r, lo, e)'
  <2>1. ASSUME NEW a \in Blocks, AFrame(a)'
        PROVE  /\ r < journal'[a].seq /\ journal'[a].seq < lo => journal'[a].recs = <<>>
               /\ a \in {session_start_record', master.start'} => journal'[a].seq <= lo
    <3>1. AFrame(a) /\ journal'[a].seq = journal[a].seq
      BY <1>13, <2>1
    <3>2. a = b => ~(journal'[a].seq < lo)
      BY <1>2, <1>7, <1>8, <3>1 DEF Fill
    <3> QED
      BY <1>7, <1>13, <1>14, <3>1, <3>2 DEF Fill
  <2>2. PICK a : a = FilledFrom
    OBVIOUS
  <2>3. AFrame(a) => AFrame(a)' /\ journal'[a].seq = journal[a].seq
    BY <1>13
  <2> QED
    BY <1>2, <1>7, <1>14, <2>1, <2>2, <2>3 DEF Fill, AFrame
<1>16. Committed(r, e, gm)'
  <2>1. b # 0 /\ AFrame(b)' /\ journal'[b].seq = e
    BY <1>8, <1>13 DEF Blocks
  <2> QED
    BY <1>1, <1>2, <1>8, <1>14, <2>1 DEF Committed, AFrame
<1>17. StartThere'
  <2>1. PICK a : a = session_start_record
    OBVIOUS
  <2>2. AFrame(a)'
    BY <1>2, <1>13, <2>1 DEF StartThere
  <2> QED
    BY <1>2, <1>14, <2>1, <2>2 DEF StartThere, AFrame
<1>18. /\ io' = Return \/ io' = ToHandle(TRUE) \o Return
       /\ FixedJournal \/ io' = ToHandle(TRUE) \o Return
  <2>1. <<>> \o Return = Return
    <3>1. Return \in Seq(WritesOf(Return))
      BY KindsOfWrites
    <3> QED
      BY <3>1, ConcatEmptySeq
  <2> QED
    BY <1>2, <1>6, <2>1 DEF MarkHandle
<1>19. Settled(e, cur, r, e)'
  BY <1>2, <1>14, <1>17, <1>18 DEF Settled, Return, ToHandle
<1>20. OpenIs(journal, e)'
  <2>1. \A v \in Volume : openMap'[v] = 0
    BY <1>2, <1>14 DEF NoMap
  <2>2. ASSUME NEW a \in Blocks, NEW i \in 1 .. FrameMax, NEW v, OpenRecord(journal, e, a, i, v)'
        PROVE  FALSE
    <3>1. a # 0 /\ a # open_current_frame'
      BY <1>2, <1>14 DEF Blocks
    <3>2. IsFrame(journal', master', a) /\ e < journal'[a].seq
      BY <2>2, <3>1 DEF OpenRecord
    <3>3. AFrame(a)' /\ AFrame(a) /\ journal[a].seq \in 1 .. e /\ journal'[a].seq = journal[a].seq
      BY <1>7, <1>13, <3>2 DEF AFrame, InSequence
    <3> QED
      BY <1>7, <3>2, <3>3
  <2> QED
    BY <2>1, <2>2 DEF OpenIs
<1>21. InUseBy(e, cur, r, lo, e, sp, gm)'
  BY <1>7, <1>12, <1>14, <1>15, <1>16 DEF InUseBy
<1> QED
  BY <1>8, <1>18, <1>19, <1>20, <1>21

LEMMA HandleThere ==
    ASSUME NEW r \in Nat, NEW f, DiskInv, DiskWrite,
           r < f => JournalFound(handle) \/ io = ToHandle(TRUE) \o Return,
           r = f \/ Head(io).to # "handle" \/ io = ToHandle(TRUE) \o Return
    PROVE  r < f => JournalFound(handle')
<1>1. SUFFICES ASSUME r < f PROVE JournalFound(handle')
  OBVIOUS
<1>2. CASE io = ToHandle(TRUE) \o Return
  <2>1. PICK w : w = [to |-> "handle", val |-> TRUE]
    OBVIOUS
  <2>2. io = <<w>> \o Return /\ Return \in Seq(WritesOf(Return))
    BY <1>2, <2>1, KindsOfWrites DEF ToHandle
  <2>3. Head(io) = w
    BY <2>2, Peel
  <2>4. Head(io).to = "handle" /\ Head(io).val = TRUE
    BY <2>1, <2>3
  <2> QED
    <3>1. PICK h : h = handle'
      OBVIOUS
    <3>2. h = TRUE
      BY <2>4, <3>1, DiskWriteIs
    <3>3. JournalFound(h)
      BY <3>2 DEF JournalFound
    <3> QED
      BY <3>1, <3>3
<1>3. CASE io # ToHandle(TRUE) \o Return
  <2>1. Head(io).to # "handle" /\ JournalFound(handle)
    <3>1. r # f
      BY <1>1
    <3> QED
      BY <1>1, <1>3, <3>1, Zenon
  <2>2. Head(io) \in Pending
    BY DiskWriteIs
  <2>3. handle' = handle
    BY <2>1 DEF DiskWrite
  <2> QED
    BY <2>1, <2>3
<1> QED
  BY <1>2, <1>3

\* A write on behalf of a call that fills or commits a transaction.
LEMMA WritingDiskWrite ==
    ASSUME NEW e, NEW cur, NEW r, NEW lo, NEW f, NEW mark, NEW sp, NEW fm,
           InOrder(journal, master, e, cur, r, f, mark, sp, fm), session_id = master.session,
           Writing(e, cur, r, lo, f, mark, sp, fm), DiskInv, DiskWrite, NEW gm, gm = flushedMap
    PROVE  /\ session_id' = master'.session
           /\ \/ \E e2, cur2 : /\ InOrder(journal, master, e2, cur2, r, f, mark, sp, fm)'
                               /\ Writing(e2, cur2, r, lo, f, mark, sp, fm)'
              \/ /\ InOrder(journal, master, e, cur, r, e, mark, sp, gm)'
                 /\ Writing(e, cur, r, lo, e, mark, sp, gm)'
                 /\ Flushing(e, cur, r, lo, f, fm) /\ r < e
                 /\ io' = Return \/ io' = ToHandle(TRUE) \o Return
<1>1. /\ restoring_start_record = 0 /\ mark = "flushed" /\ sp = session_current_freespace
      /\ r < f => JournalFound(handle) \/ io = ToHandle(TRUE) \o Return
      /\ Fill(e, r, lo, f)
      /\ Filling(e, cur, r, lo, f, fm) \/ Flushing(e, cur, r, lo, f, fm)
  BY DEF Writing
<1>2. /\ io # <<>> /\ io' = Tail(io) /\ UNCHANGED memoryVars /\ Head(io) \in Pending
      /\ restoring_start_record' = 0 /\ r \in Nat
  BY <1>1, DiskWriteIs DEF memoryVars, ringVars, restoringVars, InOrder
<1>3. ASSUME NEW e2, NEW cur2, NEW f2, NEW fm2, r = f2 \/ Head(io).to # "handle" \/ io = ToHandle(TRUE) \o Return,
             r < f2 => JournalFound(handle) \/ io = ToHandle(TRUE) \o Return,
             InUseBy(e2, cur2, r, lo, f2, sp, fm2)',
             \/ Settled(e2, cur2, r, f2)' /\ OpenIs(journal, f2)'
             \/ DataPending(e2, cur2, lo, f2)' /\ OpenIs(journal, f2)'
             \/ AppendPending(e2, cur2, lo)' /\ OpenIs(journal, f2)'
      PROVE  /\ InOrder(journal, master, e2, cur2, r, f2, mark, sp, fm2)'
             /\ Writing(e2, cur2, r, lo, f2, mark, sp, fm2)'
             /\ session_id' = master'.session
  <2>1. r < f2 => JournalFound(handle')
    BY <1>2, <1>3, HandleThere
  <2>2. /\ InOrder(journal, master, e2, cur2, r, f2, "flushed", sp, fm2)'
        /\ session_id' = master'.session /\ sp = session_current_freespace'
        /\ Fill(e2, r, lo, f2)' /\ Committed(r, f2, fm2)'
    BY <1>3 DEF InUseBy
  <2>3. Filling(e2, cur2, r, lo, f2, fm2)'
    BY <1>3, <2>2 DEF Filling
  <2>4. Writing(e2, cur2, r, lo, f2, "flushed", sp, fm2)'
    BY <1>2, <2>1, <2>2, <2>3 DEF Writing
  <2> QED
    BY <1>1, <2>2, <2>4
<1>4. CASE Filling(e, cur, r, lo, f, fm)
  <2>1. InUseBy(e, cur, r, lo, f, sp, fm)
    BY <1>1, <1>4 DEF InUseBy, Filling
  <2>2. CASE Settled(e, cur, r, f) /\ OpenIs(journal, f)
    <3>1. ASSUME NEW b \in Blocks, DataTo(io, b), journal[b].type = "data",
                 \A v \in Volume : flushedMap[v] # b
          PROVE  /\ InUseBy(e, cur, r, lo, f, sp, fm)' /\ OpenIs(journal, f)' /\ Settled(e, cur, r, f)'
                 /\ Head(io).to # "handle"
      <4>1. Head(io).to # "handle"
        BY <3>1 DEF DataTo, JournalWrite
      <4> QED
        BY <2>1, <2>2, <3>1, <4>1, DataRewritten
    <3>2. ASSUME openMap = NoMap, io = Return \/ io = ToHandle(TRUE) \o Return
          PROVE  /\ InUseBy(e, cur, r, lo, f, sp, fm)' /\ OpenIs(journal, f)' /\ Settled(e, cur, r, f)'
                 /\ Head(io).to # "handle" \/ io = ToHandle(TRUE) \o Return
      <4>1. CASE io = Return
        <5>1. Head(io).to = "return" /\ Tail(io) = <<>>
          BY <4>1 DEF Return
        <5>2. UNCHANGED <<journal, master>> /\ io' = <<>>
          BY <1>2, <5>1, DiskWriteIs
        <5>3. InUseBy(e, cur, r, lo, f, sp, fm)' /\ OpenIs(journal, f)' /\ Settled(e, cur, r, f)'
          BY <1>2, <2>1, <2>2, <5>2, OutsideJournal
        <5> QED
          BY <5>1, <5>3
      <4>2. CASE io = ToHandle(TRUE) \o Return
        <5>1. PICK w : w = [to |-> "handle", val |-> TRUE]
          OBVIOUS
        <5>2. io = <<w>> \o Return /\ Return \in Seq(WritesOf(Return))
          BY <4>2, <5>1, KindsOfWrites DEF ToHandle
        <5>3. Head(io) = w /\ Tail(io) = Return
          BY <5>2, Peel
        <5>4. UNCHANGED <<journal, master>> /\ io' = Return
          BY <1>2, <5>1, <5>3, DiskWriteIs
        <5>5. InUseBy(e, cur, r, lo, f, sp, fm)' /\ OpenIs(journal, f)' /\ Settled(e, cur, r, f)'
          BY <1>2, <2>1, <2>2, <3>2, <5>4, OutsideJournal
        <5> QED
          BY <4>2, <5>5
      <4> QED
        BY <3>2, <4>1, <4>2
    <3>3. ASSUME r = f, \A w \in Pending : w.to \in {"fat2", "handle"}
          PROVE  InUseBy(e, cur, r, lo, f, sp, fm)' /\ OpenIs(journal, f)' /\ Settled(e, cur, r, f)'
      <4>1. UNCHANGED <<journal, master>>
        BY <1>2, <3>3, DiskWriteIs
      <4>2. Pending' \subseteq Pending
        BY WriteDone DEF DiskInv, DiskTyped
      <4> QED
        BY <1>2, <2>1, <2>2, <3>3, <4>1, <4>2, OutsideJournal
    <3>4. \/ \E b \in Blocks : /\ DataTo(io, b) /\ journal[b].type = "data"
                               /\ \A v \in Volume : flushedMap[v] # b
          \/ openMap = NoMap /\ (io = Return \/ io = ToHandle(TRUE) \o Return)
          \/ r = f /\ \A w \in Pending : w.to \in {"fat2", "handle"}
      BY <1>2, <2>2 DEF Settled
    <3>5. /\ InUseBy(e, cur, r, lo, f, sp, fm)' /\ OpenIs(journal, f)' /\ Settled(e, cur, r, f)'
          /\ r = f \/ Head(io).to # "handle" \/ io = ToHandle(TRUE) \o Return
      BY <3>1, <3>2, <3>3, <3>4
    <3> QED
      BY <1>1, <1>3, <3>5
  <2>3. CASE DataPending(e, cur, lo, f) /\ OpenIs(journal, f)
    <3>1. /\ InUseBy(e, cur + 1, r, lo, f, sp, fm)' /\ OpenIs(journal, f)'
          /\ Settled(e, cur + 1, r, f)'
      BY <2>1, <2>3, DataWritten
    <3>2. Head(io).to # "handle"
      BY <2>3 DEF DataPending, DataTo, JournalWrite
    <3> QED
      BY <1>1, <1>3, <3>1, <3>2
  <2>4. CASE AppendPending(e, cur, lo) /\ OpenIs(journal, f)
    <3>1. PICK b : b = open_current_frame
      OBVIOUS
    <3>2. CASE frame_sequence = e + 1 /\ Opening(io) /\ master.start = session_start_record
      <4>1. /\ InUseBy(e + 1, b + 1, r, lo, f, sp, fm)' /\ OpenIs(journal, f)'
            /\ Settled(e + 1, b + 1, r, f)' \/ DataPending(e + 1, b + 1, lo, f)'
        BY <2>1, <2>4, <3>1, <3>2, FrameWritten
      <4>2. Head(io).to # "handle"
        BY <3>2 DEF Opening, JournalWrite
      <4> QED
        BY <1>1, <1>3, <4>1, <4>2
    <3>3. CASE frame_sequence = e + 1 /\ Head(io) = MasterWrite /\ Opening(Tail(io))
      <4>1. InUseBy(e, cur, r, lo, f, sp, fm)' /\ OpenIs(journal, f)' /\ AppendPending(e, cur, lo)'
        BY <1>2, <2>1, <2>4, <3>3, StartWritten
      <4>2. Head(io).to # "handle"
        BY <3>3 DEF MasterWrite
      <4> QED
        BY <1>1, <1>3, <4>1, <4>2
    <3>4. CASE /\ frame_sequence = e + 2
               /\ Head(io) = JournalWrite(FileSize - 1, Header("closed", frame_sequence - 1, <<>>))
      <4>1. /\ InUseBy(e + 1, FileSize, r, lo, f, sp, fm)' /\ OpenIs(journal, f)'
            /\ AppendPending(e + 1, FileSize, lo)'
        BY <2>1, <2>4, <3>4, NullWritten
      <4>2. Head(io).to # "handle"
        BY <3>4 DEF JournalWrite
      <4> QED
        BY <1>1, <1>3, <4>1, <4>2
    <3> QED
      BY <2>4, <3>2, <3>3, <3>4 DEF AppendPending, Appending, Moving
  <2>5. CASE ClosePending(e, cur, lo, f) /\ OpenIs(Closed, f)
    <3>1. InUseBy(e, cur, r, lo, f, sp, fm)' /\ OpenIs(journal, f)' /\ AppendPending(e, cur, lo)'
      BY <2>1, <2>5, FrameClosed
    <3>2. Head(io).to # "handle"
      BY <2>5 DEF ClosePending, Closing, JournalWrite
    <3> QED
      BY <1>1, <1>3, <3>1, <3>2
  <2> QED
    BY <1>4, <2>2, <2>3, <2>4, <2>5 DEF Filling
<1>5. CASE Flushing(e, cur, r, lo, f, fm)
  <2>1. /\ InUseBy(e, cur, r, lo, e, sp, gm)' /\ OpenIs(journal, e)'
        /\ Settled(e, cur, r, e)' /\ r < e
        /\ io' = Return \/ io' = ToHandle(TRUE) \o Return
        /\ FixedJournal \/ io' = ToHandle(TRUE) \o Return
    BY <1>1, <1>5, FrameFlushed
  <2>2. Filling(e, cur, r, lo, e, gm)'
    BY <2>1 DEF Filling, InUseBy
  <2>3. r < e => JournalFound(handle') \/ io' = ToHandle(TRUE) \o Return
    BY <2>1 DEF JournalFound
  <2>4. Writing(e, cur, r, lo, e, "flushed", sp, gm)'
    BY <1>2, <2>1, <2>2, <2>3 DEF Writing, InUseBy, ToHandle, Return
  <2>5. InOrder(journal, master, e, cur, r, e, "flushed", sp, gm)' /\ session_id' = master'.session
    BY <2>1 DEF InUseBy
  <2> QED
    BY <1>1, <1>5, <2>1, <2>4, <2>5
<1> QED
  BY <1>1, <1>4, <1>5

-----------------------------------------------------------------------------
(* The writes of a restore *)

LEMMA AlikeFrames ==
    ASSUME master' = master, \A a \in Blocks : Alike(journal[a], journal'[a])
    PROVE  \A a : /\ AFrame(a)' <=> AFrame(a)
                  /\ AFrame(a) => journal'[a].seq = journal[a].seq /\ journal'[a].recs = journal[a].recs
<1>1. ASSUME NEW a
      PROVE  /\ AFrame(a)' <=> AFrame(a)
             /\ AFrame(a) => journal'[a].seq = journal[a].seq /\ journal'[a].recs = journal[a].recs
  <2>1. CASE a \in Blocks
    <3>1. Alike(journal[a], journal'[a])
      BY <2>1
    <3> QED
      BY <2>1, <3>1 DEF Alike, AFrame, IsFrame
  <2>2. CASE a \notin Blocks
    BY <2>2 DEF AFrame
  <2> QED
    BY <2>1, <2>2
<1> QED
  BY <1>1

\* The mark of the last committed frame.
LEMMA MarkWritten ==
    ASSUME NEW e, NEW cur, NEW r, NEW f, NEW mark, NEW sp, NEW fm,
           InOrder(journal, master, e, cur, r, f, mark, sp, fm), r < f,
           NEW b, AFrame(b), journal[b].seq = f, NEW type \in {"restoring", "restored"},
           io = Mark(b, type), DiskInv, DiskWrite
    PROVE  /\ UNCHANGED <<master, volume, handle, memoryVars>> /\ io' = <<>>
           /\ type = "restoring" => InOrder(journal', master, e, cur, r, f, "restoring", sp, fm)
           /\ type = "restored" => InOrder(journal', master, e, cur, f, f, "flushed", sp, NoMap)
           /\ \A a \in Blocks : Alike(journal[a], journal'[a])
<1>1. b \in Blocks /\ IsFrame(journal, master, b) /\ HeaderAt(b, journal[b])
  <2>1. b \in Blocks /\ IsFrame(journal, master, b)
    BY DEF AFrame
  <2>2. Formed(journal)
    BY DEF InOrder
  <2> QED
    BY <2>1, <2>2, FormedFrame
<1>2. PICK x : x = [journal[b] EXCEPT !.type = type]
  OBVIOUS
<1>3. /\ x.type = type /\ x.seq = journal[b].seq /\ x.session = journal[b].session
      /\ x.space = journal[b].space /\ x.recs = journal[b].recs
  BY <1>1, <1>2 DEF HeaderAt
<1>4. HeaderAt(b, x) /\ type # "open"
  BY <1>1, <1>2, MarkWrites DEF HeaderTypes
<1>5. io = <<[to |-> "journal", at |-> b, val |-> x]>>
  BY <1>2 DEF Mark, ToJournal
<1>6. io # <<>> /\ Head(io) = [to |-> "journal", at |-> b, val |-> x] /\ Tail(io) = <<>>
  BY <1>5
<1>7. Head(io).to = "journal" /\ Head(io).at = b /\ Head(io).val = x
  BY <1>6
<1>8. /\ Wrote(journal, journal', b, x) /\ UNCHANGED <<master, volume, handle, memoryVars>>
      /\ io' = <<>>
  BY <1>6, <1>7, DiskWriteIs
<1>9. PICK k : k = journal'
  OBVIOUS
<1>10. WroteAgain(journal, k, master, b, x)
  BY <1>1, <1>3, <1>4, <1>8, <1>9 DEF WroteAgain
<1>11. type = "restoring" => InOrder(k, master, e, cur, r, f, "restoring", sp, fm)
  BY <1>3, <1>10, MarkRestoring
<1>12. type = "restored" => InOrder(k, master, e, cur, f, f, "flushed", sp, NoMap)
  BY <1>3, <1>10, MarkRestored
<1>13. \A a \in Blocks : Alike(journal[a], journal'[a])
  <2>1. Alike(journal[b], x)
    <3>1. journal[b].type # "data" /\ x.type # "data" /\ x.type # "open" /\ journal[b].type # "open"
      <4>1. MarkFits(journal[b], r, f, mark) /\ mark \in {"flushed", "restoring"}
        BY <1>1 DEF InOrder, Marked
      <4>2. journal[b].type = mark
        BY <4>1 DEF MarkFits
      <4> QED
        BY <1>3, <4>1, <4>2
    <3> QED
      BY <1>3, <3>1 DEF Alike
  <2>2. \A a \in Blocks : journal'[a] = IF a = b THEN x ELSE journal[a]
    BY <1>8 DEF Wrote
  <2> QED
    BY <2>1, <2>2 DEF Alike
<1> QED
  BY <1>8, <1>9, <1>11, <1>12, <1>13

\* A write of one of the passes.
LEMMA PassWritten ==
    ASSUME NEW e, NEW cur, NEW r, NEW f, NEW mark, NEW sp, NEW fm,
           InOrder(journal, master, e, cur, r, f, mark, sp, fm),
           NEW b, AFrame(b), journal[b].seq = f, Passes(b, r, f, mark, fm), DiskInv, DiskWrite
    PROVE  /\ master' = master /\ UNCHANGED memoryVars
           /\ \A a \in Blocks : Alike(journal[a], journal'[a])
           /\ \E r2, mark2, fm2 :
                 /\ r2 \in {r, f}
                 /\ InOrder(journal, master, e, cur, r2, f, mark2, sp, fm2)'
                 /\ Passes(b, r2, f, mark2, fm2)'
                 /\ r2 < f => r2 = r /\ fm2 = fm /\ handle' = handle /\ mark2 = "restoring"
<1>1. /\ io # <<>> /\ io' = Tail(io) /\ UNCHANGED memoryVars
      /\ Head(io) \in Pending /\ r \in Nat /\ f \in Nat /\ Pending' \subseteq Pending
  BY DiskWriteIs, WriteDone DEF InOrder, DiskInv, DiskTyped
<1>2. restore_state' = restore_state
  BY <1>1 DEF memoryVars, restoreVars
<1>3. \A a : Alike(a, a)
  BY DEF Alike
<1>4. CASE restore_state = "copy" /\ r < f /\ io = Mark(b, "restoring")
  <2>1. /\ UNCHANGED <<master, volume, handle, memoryVars>> /\ io' = <<>>
        /\ InOrder(journal', master, e, cur, r, f, "restoring", sp, fm)
        /\ \A a \in Blocks : Alike(journal[a], journal'[a])
    BY <1>4, MarkWritten
  <2>2. Pending' = {}
    BY <2>1, NoWrites DEF Pending
  <2>3. Passes(b, r, f, "restoring", fm)'
    BY <1>2, <1>4, <2>2 DEF Passes
  <2>4. InOrder(journal, master, e, cur, r, f, "restoring", sp, fm)'
    BY <2>1
  <2> QED
    BY <2>1, <2>3, <2>4
<1>5. CASE /\ restore_state = "copy" /\ r < f /\ mark = "restoring"
           /\ \A w \in Pending : w.to \in {"volume", "fat2"} /\ (w.to = "volume" => fm[w.at] # 0)
  <2>1. Head(io).to \in {"volume", "fat2"}
    BY <1>1, <1>5
  <2>2. UNCHANGED <<journal, master, handle>>
    BY <2>1, DiskWriteIs
  <2>3. Passes(b, r, f, "restoring", fm)'
    BY <1>1, <1>2, <1>5 DEF Passes
  <2>4. InOrder(journal, master, e, cur, r, f, "restoring", sp, fm)'
    BY <1>5, <2>2
  <2> QED
    BY <1>1, <1>3, <2>2, <2>3, <2>4
<1>6. CASE restore_state = "clear" /\ r < f /\ mark = "restoring" /\ io = Mark(b, "restored")
  <2>1. /\ UNCHANGED <<master, volume, handle, memoryVars>> /\ io' = <<>>
        /\ InOrder(journal', master, e, cur, f, f, "flushed", sp, NoMap)
        /\ \A a \in Blocks : Alike(journal[a], journal'[a])
    BY <1>6, MarkWritten
  <2>2. Pending' = {}
    BY <2>1, NoWrites DEF Pending
  <2>3. Passes(b, f, f, "flushed", NoMap)'
    BY <1>2, <1>6, <2>2 DEF Passes
  <2>4. InOrder(journal, master, e, cur, f, f, "flushed", sp, NoMap)'
    BY <2>1
  <2> QED
    BY <1>1, <2>1, <2>3, <2>4
<1>7. CASE restore_state = "clear" /\ r = f /\ \A w \in Pending : w.to \in {"fat2", "handle"}
  <2>1. Head(io).to \in {"fat2", "handle"}
    BY <1>1, <1>7
  <2>2. UNCHANGED <<journal, master>>
    BY <2>1, DiskWriteIs
  <2>3. Passes(b, r, f, mark, fm)'
    BY <1>1, <1>2, <1>7 DEF Passes
  <2>4. InOrder(journal, master, e, cur, r, f, mark, sp, fm)'
    BY <2>2
  <2> QED
    BY <1>1, <1>3, <1>7, <2>2, <2>3, <2>4
<1> QED
  BY <1>1, <1>4, <1>5, <1>6, <1>7 DEF Passes

LEMMA RestoresDiskWrite ==
    ASSUME NEW e, NEW cur, NEW r, NEW f, NEW mark, NEW sp, NEW fm,
           InOrder(journal, master, e, cur, r, f, mark, sp, fm),
           Restores(e, cur, r, f, mark, fm), DiskInv, DiskWrite
    PROVE  /\ master' = master
           /\ \E r2, mark2, fm2 : /\ InOrder(journal, master, e, cur, r2, f, mark2, sp, fm2)'
                                  /\ Restores(e, cur, r2, f, mark2, fm2)'
<1>1. PICK b : b = restoring_terminal_record
  OBVIOUS
<1>2. AFrame(b) /\ journal[b].seq = f /\ Passes(b, r, f, mark, fm) /\ f = e
  BY <1>1 DEF Restores
<1>3. /\ master' = master /\ UNCHANGED memoryVars
      /\ \A a \in Blocks : Alike(journal[a], journal'[a])
  BY <1>2, PassWritten
<1>4. PICK r2, mark2, fm2 :
         /\ r2 \in {r, f}
         /\ InOrder(journal, master, e, cur, r2, f, mark2, sp, fm2)'
         /\ Passes(b, r2, f, mark2, fm2)'
         /\ r2 < f => r2 = r /\ fm2 = fm /\ handle' = handle /\ mark2 = "restoring"
  BY <1>2, PassWritten
<1>5. /\ restoring_start_record # 0 /\ frame_sequence = e /\ next_free_frame = cur
      /\ StartThere /\ openMap = NoMap /\ flushedMap = NoMap /\ open_current_frame = 0
      /\ flushed_terminal_record = 0 /\ FilledFrom = 0
      /\ r < f => fm = restoringMap /\ JournalFound(handle)
  BY DEF Restores
<1>6. UNCHANGED <<restoring_start_record, frame_sequence, next_free_frame, session_start_record,
                  openMap, flushedMap, open_current_frame, flushed_terminal_record, FilledFrom,
                  restoringMap, restoring_terminal_record>>
  BY <1>3 DEF memoryVars, ringVars, cursors, openVars, flushedVars, restoringVars, sessionVars,
              mapVars, FilledFrom
<1>7. \A a : /\ AFrame(a)' <=> AFrame(a)
             /\ AFrame(a) => journal'[a].seq = journal[a].seq
  BY <1>3, AlikeFrames
<1>8. StartThere'
  <2>1. PICK a : a = session_start_record
    OBVIOUS
  <2>2. AFrame(a)'
    BY <1>5, <1>7, <2>1 DEF StartThere
  <2> QED
    BY <1>3, <1>5, <1>6, <2>1, <2>2 DEF StartThere, AFrame
<1>9. AFrame(restoring_terminal_record)' /\ (journal[restoring_terminal_record].seq = e)'
  <2>1. AFrame(b)' /\ journal'[b].seq = e
    BY <1>2, <1>7
  <2> QED
    BY <1>1, <1>6, <2>1 DEF AFrame
<1>10. Passes(restoring_terminal_record, r2, f, mark2, fm2)'
  BY <1>1, <1>4, <1>6 DEF Passes, Mark
<1>11. r2 < f => fm2 = restoringMap' /\ JournalFound(handle)'
  BY <1>4, <1>5, <1>6 DEF JournalFound
<1>12. Restores(e, cur, r2, f, mark2, fm2)'
  BY <1>2, <1>5, <1>6, <1>8, <1>9, <1>10, <1>11 DEF Restores, NoMap
<1> QED
  BY <1>3, <1>4, <1>12

LEMMA RecoveringDiskWrite ==
    ASSUME NEW e, NEW cur, NEW r, NEW f, NEW mark, NEW sp, NEW fm, mode = "recover",
           InOrder(journal, master, e, cur, r, f, mark, sp, fm),
           Recovering(r, f, mark, sp, fm), DiskInv, DiskWrite
    PROVE  /\ master' = master
           /\ \E r2, mark2, fm2 : /\ InOrder(journal, master, e, cur, r2, f, mark2, sp, fm2)'
                                  /\ Recovering(r2, f, mark2, sp, fm2)'
<1>1. PICK b : b = LastBlock(todo[1])
  OBVIOUS
<1>2. AFrame(b) /\ journal[b].seq = f /\ Passes(b, r, f, mark, fm) /\ Len(todo) = 1
  BY <1>1 DEF Recovering
<1>3. /\ master' = master /\ UNCHANGED memoryVars
      /\ \A a \in Blocks : Alike(journal[a], journal'[a])
  BY <1>2, PassWritten
<1>4. PICK r2, mark2, fm2 :
         /\ r2 \in {r, f}
         /\ InOrder(journal, master, e, cur, r2, f, mark2, sp, fm2)'
         /\ Passes(b, r2, f, mark2, fm2)'
         /\ r2 < f => r2 = r /\ fm2 = fm /\ handle' = handle /\ mark2 = "restoring"
  BY <1>2, PassWritten
<1>5. todo' = todo
  BY <1>3 DEF memoryVars, restoreVars
<1>6. AFrame(LastBlock(todo[1]))' /\ (journal[LastBlock(todo[1])].seq = f)'
  <2>1. AFrame(b)' /\ journal'[b].seq = f
    BY <1>2, <1>3, AlikeFrames
  <2> QED
    BY <1>1, <1>5, <2>1 DEF AFrame, LastBlock
<1>7. ASSUME r2 < f
      PROVE  /\ Restorable(r2, f, mark2, sp, handle, volume)'
             /\ \A v \in Volume : v \in Replaced(journal', todo'[1]) <=> fm2[v] # 0
  <2>1. r < f /\ JournalFound(handle) /\ \A v \in Volume : v \in Replaced(journal, todo[1]) <=> fm[v] # 0
    BY <1>4, <1>7 DEF Recovering, Restorable
  <2>2. JournalFound(handle)'
    BY <1>4, <1>7, <2>1 DEF JournalFound
  <2>3. Replaced(journal', todo[1]) = Replaced(journal, todo[1])
    <3>1. RangeOK(todo[1]) /\ DiskTyped
      <4>1. \A n : n = 1 => 1 \in 1 .. n
        OBVIOUS
      <4> QED
        BY <1>2, <4>1 DEF DiskInv, InRecovery
    <3>2. /\ todo[1] \in Seq(Blocks)
          /\ \A i \in 1 .. Len(todo[1]) : HeaderAt(todo[1][i], journal[todo[1][i]])
      BY <3>1, RangeIs
    <3>3. PICK k : k = journal'
      OBVIOUS
    <3>4. Replaced(k, todo[1]) = Replaced(journal, todo[1])
      BY <1>3, <3>2, <3>3, AlikeRange
    <3> QED
      BY <3>3, <3>4
  <2>4. Restorable(r2, f, mark2, sp, handle, volume)'
    BY <1>4, <1>7, <2>2 DEF Restorable
  <2> QED
    BY <1>4, <1>5, <1>7, <2>1, <2>3, <2>4
<1>8. Passes(LastBlock(todo[1]), r2, f, mark2, fm2)'
  BY <1>1, <1>4, <1>5 DEF Passes, Mark, LastBlock
<1>9. Recovering(r2, f, mark2, sp, fm2)'
  BY <1>2, <1>5, <1>6, <1>7, <1>8 DEF Recovering
<1> QED
  BY <1>3, <1>4, <1>9

\* The first write of a session: the frames of the last one are none of its frames.
LEMMA SessionBegun ==
    ASSUME NEW r, NEW f, NEW mark, NEW sp, Sessions, Beginning(r, f, mark, sp), DiskInv, DiskWrite,
           NEW e0, NEW cur0, NEW fm, InOrder(journal, master, e0, cur0, r, f, mark, sp, fm),
           NEW sp2, sp2 = session_current_freespace
    PROVE  /\ InOrder(journal, master, 0, FileSize, 0, 0, "flushed", sp2, NoMap)'
           /\ Writing(0, FileSize, 0, 1, 0, "flushed", sp2, NoMap)'
           /\ session_id' = master'.session /\ master'.session = master.session + 1
           /\ journal' = journal /\ (open_current_used + open_current_free)' <= FrameMax
<1>1. /\ session_id = master.session + 1 /\ RingInit /\ openMap = NoMap /\ flushedMap = NoMap
      /\ open_recs = <<>> /\ frame_sequence = 1
      /\ io # <<>> /\ Head(io) = MasterWrite
      /\ Tail(io) = <<JournalWrite(1, Header("open", 1, <<>>))>>
  BY DEF Beginning
<1>2. PICK n : n = [session |-> session_id, start |-> session_start_record]
  OBVIOUS
<1>3. /\ master' = n /\ UNCHANGED <<journal, memoryVars>> /\ io' = Tail(io)
  BY <1>1, <1>2, DiskWriteIs DEF MasterWrite
<1>4. /\ next_free_frame = 2 /\ session_start_record = 1 /\ open_start_record = 1
      /\ open_current_frame = 1 /\ flushed_start_record = 0 /\ flushed_terminal_record = 0
      /\ restoring_start_record = 0 /\ open_current_used = 0 /\ open_current_free = FirstFree
      /\ FilledFrom = 1
  BY <1>1 DEF RingInit, FilledFrom
<1>5. UNCHANGED <<frame_sequence, next_free_frame, session_id, session_current_freespace,
                  session_start_record, open_current_frame, openMap, flushedMap, journal,
                  FilledFrom, open_recs, flushed_terminal_record, open_remapped,
                  restoring_start_record, open_current_used, open_current_free>>
  BY <1>3 DEF memoryVars, ringVars, cursors, openVars, flushedVars, restoringVars, sessionVars,
              mapVars, FilledFrom
<1>6. 1 \in Blocks /\ 2 \in Blocks
  BY RingAssumption DEF Blocks
<1>7. n.session = master.session + 1 /\ n.start = 1 /\ master.session \in Nat
  BY <1>1, <1>2, <1>4 DEF Sessions
<1>8. \A a \in Blocks : ~IsFrame(journal, n, a)
  <2>1. SUFFICES ASSUME NEW a \in Blocks, IsFrame(journal, n, a) PROVE FALSE
    OBVIOUS
  <2>2. journal[a].session = master.session + 1 /\ journal[a].session \in 0 .. master.session
    BY <1>7, <2>1 DEF IsFrame, Sessions
  <2> QED
    BY <1>7, <2>2
<1>9. \A a : ~AFrame(a)'
  BY <1>3, <1>8 DEF AFrame, IsFrame
<1>10. InOrder(journal, n, 0, FileSize, 0, 0, "flushed", sp2, NoMap)
  <2>1. Formed(journal)
    BY DEF InOrder
  <2> QED
    BY <1>6, <1>7, <1>8, <2>1, NoFrames
<1>11. Fill(0, 0, 1, 0)'
  <2>1. ~(1 <= 0) /\ 0 < 1 /\ ~(0 < 0)
    OBVIOUS
  <2> QED
    BY <1>1, <1>4, <1>5, <1>9, <2>1 DEF Fill
<1>12. Committed(0, 0, NoMap)'
  BY <1>1, <1>4, <1>5 DEF Committed, NoMap
<1>13. AppendPending(0, FileSize, 1)'
  <2>1. Untouched({1, 2}, 0, 1)'
    BY <1>1, <1>4, <1>5, <1>6, <1>9 DEF Untouched, NoMap, Blocks
  <2>2. PICK x : x = Header("open", 1, <<>>)
    OBVIOUS
  <2>3. io' # <<>> /\ Head(io') = JournalWrite(1, x) /\ Tail(io') = <<>>
    <3>1. PICK w : w = JournalWrite(1, x)
      OBVIOUS
    <3>2. io' = <<w>>
      BY <1>1, <1>3, <2>2, <3>1
    <3> QED
      BY <3>1, <3>2
  <2>4. Header("open", frame_sequence, <<>>)' = x
    BY <1>1, <1>5, <2>2 DEF Header
  <2>5. Opening(io)'
    BY <1>4, <1>5, <2>3, <2>4 DEF Opening, JournalWrite
  <2>6. Moving(io)'
    BY <1>3, <1>4, <1>5, <1>7, <2>5 DEF Moving
  <2>7. Untouched({open_current_frame, open_current_frame + 1}, 0, 1)'
    <3>1. {open_current_frame', open_current_frame' + 1} = {1, 2}
      BY <1>4, <1>5
    <3> QED
      BY <2>1, <3>1 DEF Untouched
  <2>8. Appending(io, 0, FileSize, 1)'
    BY <1>1, <1>4, <1>5, <2>6, <2>7 DEF Appending, At
  <2> QED
    BY <1>9, <2>8 DEF AppendPending
<1>14. OpenIs(journal, 0)'
  <2>1. \A v \in Volume : openMap'[v] = 0
    BY <1>1, <1>5 DEF NoMap
  <2>2. Len(<<>>) = 0
    OBVIOUS
  <2>3. \A a \in Blocks, i \in 1 .. FrameMax : \A v : ~OpenRecord(journal, 0, a, i, v)'
    <3>1. SUFFICES ASSUME NEW a \in Blocks, NEW i \in 1 .. FrameMax, NEW v, OpenRecord(journal, 0, a, i, v)'
                   PROVE  FALSE
      OBVIOUS
    <3>2. ~IsFrame(journal', master', a)
      BY <1>3, <1>8 DEF IsFrame
    <3>3. i <= 0
      BY <1>1, <1>5, <2>2, <3>1, <3>2 DEF OpenRecord
    <3> QED
      BY <3>3
  <2> QED
    BY <2>1, <2>3 DEF OpenIs
<1>15. Filling(0, FileSize, 0, 1, 0, NoMap)'
  BY <1>12, <1>13, <1>14 DEF Filling
<1>16. Writing(0, FileSize, 0, 1, 0, "flushed", sp2, NoMap)'
  BY <1>4, <1>5, <1>11, <1>15 DEF Writing
<1>17. InOrder(journal, master, 0, FileSize, 0, 0, "flushed", sp2, NoMap)'
  BY <1>3, <1>10, <1>5
<1>18. FirstFree <= FrameMax
  BY RingAssumption, FsAssumption DEF FirstFree, FreeInNewFrame, FrameLimit
<1>19. (open_current_used + open_current_free)' <= FrameMax
  BY <1>4, <1>5, <1>18, FirstFreeRange
<1> QED
  BY <1>1, <1>3, <1>5, <1>7, <1>16, <1>17, <1>19

-----------------------------------------------------------------------------
(* Every disk write leaves the journal in order *)

LEMMA WritingWrites ==
    ASSUME NEW e, NEW cur, NEW r, NEW lo, NEW f, NEW mark, NEW sp, NEW fm,
           Writing(e, cur, r, lo, f, mark, sp, fm), r \in Nat, f \in Nat, io # <<>>, Head(io) \in Pending
    PROVE  /\ Head(io).to = "journal" => Head(io).val.type = "data" \/ Head(io).val.session = session_id
           /\ Head(io).to = "master" => Head(io).val.session = session_id
<1>1. ASSUME NEW t, NEW b, NEW x, Head(io) = JournalWrite(b, Header(t, x, <<>>))
      PROVE  Head(io).to = "journal" /\ Head(io).val.session = session_id
  BY <1>1 DEF JournalWrite, Header
<1>2. ASSUME NEW b, DataTo(io, b)
      PROVE  Head(io).to = "journal" /\ Head(io).val.type = "data"
  BY <1>2 DEF DataTo, JournalWrite, DataBlock
<1>3. ASSUME NEW b, NEW type, Closing(Head(io), b, e, cur, type)
      PROVE  Head(io).to = "journal" /\ Head(io).val.session = session_id
  BY <1>3 DEF Closing, JournalWrite, Header
<1>4. Head(io) = MasterWrite => Head(io).to = "master" /\ Head(io).val.session = session_id
  BY DEF MasterWrite
<1>5. Appending(io, e, cur, lo) =>
         \/ Head(io) = MasterWrite
         \/ \E b, t, x : Head(io) = JournalWrite(b, Header(t, x, <<>>))
  BY DEF Appending, Moving, Opening
<1>6. io = Return => Head(io).to = "return"
  BY DEF Return
<1>7. io = ToHandle(TRUE) \o Return => Head(io).to = "handle"
  <2>1. PICK w : w = [to |-> "handle", val |-> TRUE]
    OBVIOUS
  <2>2. ToHandle(TRUE) = <<w>> /\ Return \in Seq(WritesOf(Return))
    BY <2>1, KindsOfWrites DEF ToHandle
  <2>3. ASSUME io = ToHandle(TRUE) \o Return PROVE Head(io).to = "handle"
    <3>1. io = <<w>> \o Return
      BY <2>2, <2>3
    <3>2. Head(io) = w
      BY <2>2, <3>1, Peel
    <3> QED
      BY <2>1, <3>2
  <2> QED
    BY <2>3
<1>8. CASE Flushing(e, cur, r, lo, f, fm)
  BY <1>3, <1>8 DEF Flushing
<1>9. CASE Filling(e, cur, r, lo, f, fm)
  <2>1. CASE Settled(e, cur, r, f)
    BY <1>2, <1>6, <1>7, <2>1 DEF Settled
  <2>2. CASE DataPending(e, cur, lo, f)
    BY <1>2, <2>2 DEF DataPending
  <2>3. CASE AppendPending(e, cur, lo)
    BY <1>1, <1>4, <1>5, <2>3 DEF AppendPending
  <2>4. CASE ClosePending(e, cur, lo, f)
    BY <1>3, <2>4 DEF ClosePending
  <2> QED
    BY <1>9, <2>1, <2>2, <2>3, <2>4 DEF Filling
<1> QED
  BY <1>8, <1>9 DEF Writing

LEMMA SessionsWritten ==
    ASSUME Sessions, master'.session \in {master.session, master.session + 1},
           \A b \in Blocks :
              \/ journal'[b].type = "data" \/ journal'[b].session = master.session
              \/ journal[b].type # "data" /\ journal'[b].session = journal[b].session
    PROVE  Sessions'
<1>1. master.session \in Nat /\ master'.session \in Nat /\ master.session <= master'.session
  BY DEF Sessions
<1>2. ASSUME NEW b \in Blocks, journal'[b].type # "data"
      PROVE  journal'[b].session \in 0 .. master.session
  BY <1>1, <1>2 DEF Sessions
<1>3. ASSUME NEW b \in Blocks, journal'[b].type # "data"
      PROVE  journal'[b].session \in 0 .. master'.session
  BY <1>1, <1>2, <1>3
<1> QED
  BY <1>1, <1>3 DEF Sessions

LEMMA DiskWriteCrash ==
    ASSUME CrashInv, DiskInv, DiskWrite
    PROVE  CrashInv'
<1>1. PICK e, cur, r, lo, f, mark, sp, fm :
         /\ InOrder(journal, master, e, cur, r, f, mark, sp, fm)
         /\ Stage(e, cur, r, lo, f, mark, sp, fm)
  BY DEF CrashInv
<1>2. /\ Sessions /\ io # <<>> /\ UNCHANGED memoryVars /\ Head(io) \in Pending /\ Pending' \subseteq Pending
      /\ r \in Nat /\ f \in Nat
  BY <1>1, DiskWriteIs, WriteDone DEF CrashInv, InOrder, DiskInv, DiskTyped
<1>3. /\ UNCHANGED <<mode, session_id, open_current_used, open_current_free,
                     session_current_freespace, todo>>
  BY <1>2 DEF memoryVars, ringVars, openVars, sessionVars, restoreVars
<1>4. /\ mode \notin {"down", "start"}
      /\ mode = "remount" => \A w \in Pending : w.to \in {"fat2", "handle"}
  BY <1>2 DEF DiskInv, DiskTyped
<1>5. \A a, b, c : \A k : Wrote(journal, k, a, b) => \A d \in Blocks : d # a => k[d] = journal[d]
  BY DEF Wrote
<1>6. CASE /\ mode = "up" /\ session_id = master.session
           /\ open_current_used + open_current_free <= FrameMax
           /\ Writing(e, cur, r, lo, f, mark, sp, fm)
  <2>1. PICK gm : gm = flushedMap
    OBVIOUS
  <2>2. /\ session_id' = master'.session
        /\ \E e2, cur2, f2, fm2 : /\ InOrder(journal, master, e2, cur2, r, f2, mark, sp, fm2)'
                                  /\ Writing(e2, cur2, r, lo, f2, mark, sp, fm2)'
    <3>1. session_id' = master'.session
      BY <1>1, <1>6, <2>1, WritingDiskWrite
    <3>2. \/ \E e2, cur2 : /\ InOrder(journal, master, e2, cur2, r, f, mark, sp, fm)'
                           /\ Writing(e2, cur2, r, lo, f, mark, sp, fm)'
          \/ /\ InOrder(journal, master, e, cur, r, e, mark, sp, gm)'
             /\ Writing(e, cur, r, lo, e, mark, sp, gm)'
      BY <1>1, <1>6, <2>1, WritingDiskWrite
    <3> QED
      BY <3>1, <3>2
  <2>3. Sessions'
    <3>1. /\ Head(io).to = "journal" => Head(io).val.type = "data" \/ Head(io).val.session = session_id
          /\ Head(io).to = "master" => Head(io).val.session = session_id
      BY <1>2, <1>6, WritingWrites
    <3>2. Head(io).to = "journal" => Wrote(journal, journal', Head(io).at, Head(io).val)
      BY DiskWriteIs
    <3>3. Head(io).to # "journal" => journal' = journal
      BY DEF DiskWrite
    <3>4. ASSUME NEW b \in Blocks
          PROVE  \/ journal'[b].type = "data" \/ journal'[b].session = master.session
                 \/ journal[b].type # "data" /\ journal'[b].session = journal[b].session
      BY <1>6, <3>1, <3>2, <3>3 DEF Wrote
    <3>5. master'.session = master.session
      BY <1>3, <1>6, <2>2
    <3> QED
      BY <1>2, <3>4, <3>5, SessionsWritten
  <2>4. PICK e2, cur2, f2, fm2 : /\ InOrder(journal, master, e2, cur2, r, f2, mark, sp, fm2)'
                                 /\ Writing(e2, cur2, r, lo, f2, mark, sp, fm2)'
    BY <2>2
  <2>5. Stage(e2, cur2, r, lo, f2, mark, sp, fm2)'
    BY <1>3, <1>6, <2>2, <2>4 DEF Stage
  <2> QED
    BY <2>3, <2>4, <2>5 DEF CrashInv
<1>7. ASSUME master' = master, \A a \in Blocks : Alike(journal[a], journal'[a]) PROVE Sessions'
  <2>1. ASSUME NEW b \in Blocks
        PROVE  \/ journal'[b].type = "data" \/ journal'[b].session = master.session
               \/ journal[b].type # "data" /\ journal'[b].session = journal[b].session
    <3>1. Alike(journal[b], journal'[b])
      BY <1>7
    <3> QED
      BY <3>1 DEF Alike
  <2> QED
    BY <1>2, <1>7, <2>1, SessionsWritten
<1>8. CASE /\ mode = "up" /\ session_id = master.session
           /\ open_current_used + open_current_free <= FrameMax
           /\ Restores(e, cur, r, f, mark, fm)
  <2>1. PICK b : b = restoring_terminal_record
    OBVIOUS
  <2>2. AFrame(b) /\ journal[b].seq = f /\ Passes(b, r, f, mark, fm)
    BY <1>8, <2>1 DEF Restores
  <2>3. master' = master /\ Sessions'
    BY <1>1, <1>7, <2>2, PassWritten
  <2>4. PICK r2, mark2, fm2 : /\ InOrder(journal, master, e, cur, r2, f, mark2, sp, fm2)'
                              /\ Restores(e, cur, r2, f, mark2, fm2)'
    BY <1>1, <1>8, RestoresDiskWrite
  <2>5. Stage(e, cur, r2, lo, f, mark2, sp, fm2)'
    BY <1>3, <1>8, <2>3, <2>4 DEF Stage
  <2> QED
    BY <2>3, <2>4, <2>5 DEF CrashInv
<1>9. CASE mode = "recover" /\ Recovering(r, f, mark, sp, fm)
  <2>1. PICK b : b = LastBlock(todo[1])
    OBVIOUS
  <2>2. AFrame(b) /\ journal[b].seq = f /\ Passes(b, r, f, mark, fm)
    BY <1>9, <2>1 DEF Recovering
  <2>3. master' = master /\ Sessions'
    BY <1>1, <1>7, <2>2, PassWritten
  <2>4. PICK r2, mark2, fm2 : /\ InOrder(journal, master, e, cur, r2, f, mark2, sp, fm2)'
                              /\ Recovering(r2, f, mark2, sp, fm2)'
    BY <1>1, <1>9, RecoveringDiskWrite
  <2>5. Stage(e, cur, r2, lo, f, mark2, sp, fm2)'
    BY <1>3, <1>9, <2>3, <2>4 DEF Stage
  <2> QED
    BY <2>3, <2>4, <2>5 DEF CrashInv
<1>10. CASE mode = "remount" /\ r = f
  <2>1. UNCHANGED <<journal, master>>
    BY <1>2, <1>4, <1>10, DiskWriteIs
  <2>2. InOrder(journal, master, e, cur, r, f, mark, sp, fm)' /\ Stage(e, cur, r, lo, f, mark, sp, fm)'
    BY <1>1, <1>3, <1>10, <2>1 DEF Stage
  <2>3. Sessions'
    BY <1>2, <2>1 DEF Sessions
  <2> QED
    BY <2>2, <2>3 DEF CrashInv
<1>11. CASE mode = "up" /\ Beginning(r, f, mark, sp)
  <2>1. PICK sp2 : sp2 = session_current_freespace
    OBVIOUS
  <2>2. /\ InOrder(journal, master, 0, FileSize, 0, 0, "flushed", sp2, NoMap)'
        /\ Writing(0, FileSize, 0, 1, 0, "flushed", sp2, NoMap)'
        /\ session_id' = master'.session /\ master'.session = master.session + 1
        /\ journal' = journal /\ (open_current_used + open_current_free)' <= FrameMax
    BY <1>1, <1>2, <1>11, <2>1, SessionBegun
  <2>3. Stage(0, FileSize, 0, 1, 0, "flushed", sp2, NoMap)'
    BY <1>3, <1>11, <2>2 DEF Stage
  <2>4. Sessions'
    BY <1>2, <2>2, SessionsWritten
  <2> QED
    BY <2>2, <2>3, <2>4 DEF CrashInv
<1> QED
  BY <1>1, <1>4, <1>6, <1>8, <1>9, <1>10, <1>11 DEF Stage

-----------------------------------------------------------------------------
(* Crashes and mounts leave the journal in order *)

LEMMA SameJournal ==
    ASSUME NEW e, NEW cur, NEW r, NEW f, NEW mark, NEW sp, NEW fm, UNCHANGED diskVars, Sessions,
           InOrder(journal, master, e, cur, r, f, mark, sp, fm), NEW lo,
           Stage(e, cur, r, lo, f, mark, sp, fm)'
    PROVE  CrashInv'
<1>1. UNCHANGED <<journal, master>>
  BY DEF diskVars
<1>2. Sessions' /\ InOrder(journal, master, e, cur, r, f, mark, sp, fm)'
  BY <1>1 DEF Sessions
<1> QED
  BY <1>2 DEF CrashInv

LEMMA InitCrash == FsInit => CrashInv
<1>1. ASSUME FsInit PROVE CrashInv
  <2>1. /\ journal = [b \in Blocks |-> Unwritten] /\ master = [session |-> 0, start |-> 1]
        /\ mode = "down"
    BY <1>1 DEF FsInit
  <2>2. /\ \A b \in Blocks : journal[b].type = "data"
        /\ master.session = 0 /\ master.start = 1 /\ 1 \in Blocks
    BY <2>1, RingAssumption DEF Unwritten, Blocks
  <2>3. Sessions
    BY <2>2 DEF Sessions
  <2>4. InOrder(journal, master, 0, FileSize, 0, 0, "flushed", 0, NoMap)
    <3>1. Formed(journal) /\ \A b \in Blocks : ~IsFrame(journal, master, b)
      BY <2>2 DEF Formed, WellFormed, IsFrame
    <3> QED
      BY <2>2, <3>1, NoFrames
  <2>5. Stage(0, FileSize, 0, 0, 0, "flushed", 0, NoMap)
    BY <2>1 DEF Stage
  <2> QED
    BY <2>3, <2>4, <2>5 DEF CrashInv
<1> QED
  BY <1>1

LEMMA CrashCrash == ASSUME CrashInv, Crash PROVE CrashInv'
<1>1. PICK e, cur, r, lo, f, mark, sp, fm :
         /\ Sessions /\ InOrder(journal, master, e, cur, r, f, mark, sp, fm)
         /\ Stage(e, cur, r, lo, f, mark, sp, fm)
  BY DEF CrashInv
<1>2. mode' = "down" /\ UNCHANGED diskVars
  BY Zenon DEF Crash
<1>3. Stage(e, cur, r, lo, f, mark, sp, fm)'
  BY <1>2 DEF Stage
<1> QED
  BY <1>1, <1>2, <1>3, SameJournal

LEMMA RemountCrash == ASSUME CrashInv, Remount PROVE CrashInv'
<1>1. PICK e, cur, r, lo, f, mark, sp, fm :
         /\ Sessions /\ InOrder(journal, master, e, cur, r, f, mark, sp, fm)
         /\ Stage(e, cur, r, lo, f, mark, sp, fm)
  BY DEF CrashInv
<1>2. mode' = "down" /\ UNCHANGED diskVars
  BY Zenon DEF Remount
<1>3. Stage(e, cur, r, lo, f, mark, sp, fm)'
  BY <1>2 DEF Stage
<1> QED
  BY <1>1, <1>2, <1>3, SameJournal

LEMMA MountCrash == ASSUME CrashInv, DiskInv, Mount PROVE CrashInv'
<1>1. PICK e, cur, r, lo, f, mark, sp, fm :
         /\ Sessions /\ InOrder(journal, master, e, cur, r, f, mark, sp, fm)
         /\ Stage(e, cur, r, lo, f, mark, sp, fm)
  BY DEF CrashInv
<1>2. /\ mode = "down" /\ UNCHANGED diskVars /\ UNCHANGED io /\ todo' = Ranges
      /\ IF Ranges = <<>> THEN mode' = "start" ELSE mode' = "recover" /\ restore_state' = "mark"
  BY Zenon DEF Mount
<1>3. io' = <<>> /\ UNCHANGED <<journal, master, handle, volume>>
  BY <1>2 DEF DiskInv, DiskTyped, diskVars
<1>4. PICK s : s = Left(journal, master, r, f)
  OBVIOUS
<1>5. Ranges = IF Restorable(r, f, mark, sp, handle, volume) THEN <<s>> ELSE <<>>
  BY <1>1, <1>4, RangesInOrder DEF Ranges
<1>6. CASE ~Restorable(r, f, mark, sp, handle, volume)
  <2>1. mode' = "start"
    BY <1>2, <1>5, <1>6
  <2>2. (~Restorable(r, f, mark, sp, handle, volume))'
    BY <1>3, <1>6
  <2>3. Stage(e, cur, r, lo, f, mark, sp, fm)'
    BY <2>1, <2>2 DEF Stage
  <2> QED
    BY <1>1, <1>2, <2>3, SameJournal
<1>7. CASE Restorable(r, f, mark, sp, handle, volume)
  <2>1. <<s>> # <<>> /\ Len(<<s>>) = 1 /\ <<s>>[1] = s
    OBVIOUS
  <2>2. mode' = "recover" /\ restore_state' = "mark" /\ Len(todo') = 1 /\ todo'[1] = s
    BY <1>2, <1>5, <1>7, <2>1
  <2>3. r < f
    BY <1>7 DEF Restorable
  <2>4. PICK b : b = LastBlock(s)
    OBVIOUS
  <2>5. AFrame(b) /\ journal[b].seq = f
    BY <1>1, <1>4, <2>3, <2>4, LeftIs DEF AFrame
  <2>6. \A v \in Volume : v \in Replaced(journal, s) <=> fm[v] # 0
    BY <1>1, <1>4, <2>3, LeftReplaces
  <2>7. \A v \in Volume : v \in Replaced(journal', todo'[1]) <=> fm[v] # 0
    BY <1>3, <2>2, <2>6
  <2>8. AFrame(LastBlock(todo[1]))' /\ (journal[LastBlock(todo[1])].seq = f)'
    BY <1>3, <2>2, <2>4, <2>5 DEF AFrame, LastBlock
  <2>9. Restorable(r, f, mark, sp, handle, volume)'
    BY <1>3, <1>7
  <2>10. Recovering(r, f, mark, sp, fm)'
    BY <1>3, <2>2, <2>3, <2>7, <2>8, <2>9 DEF Recovering, Passes
  <2>11. Stage(e, cur, r, lo, f, mark, sp, fm)'
    BY <2>2, <2>10 DEF Stage
  <2> QED
    BY <1>1, <1>2, <2>11, SameJournal
<1> QED
  BY <1>6, <1>7

LEMMA MarkIsWrite ==
    ASSUME NEW b, NEW type
    PROVE  Mark(b, type) # <<>>
<1>1. PICK x : x = [journal[b] EXCEPT !.type = type]
  OBVIOUS
<1>2. PICK w : w = [to |-> "journal", at |-> b, val |-> x]
  OBVIOUS
<1>3. Mark(b, type) = <<w>>
  BY <1>1, <1>2 DEF Mark, ToJournal
<1> QED
  BY <1>3

LEMMA ReplacedIsVolume ==
    ASSUME DiskInv, mode = "recover", Len(todo) = 1, NEW v \in Replaced(journal, todo[1])
    PROVE  v \in Volume
<1>1. RangeOK(todo[1]) /\ DiskTyped
  <2>1. \A n : n = 1 => 1 \in 1 .. n
    OBVIOUS
  <2> QED
    BY <2>1 DEF DiskInv, InRecovery
<1>2. \A i \in 1 .. Len(todo[1]) : HeaderAt(todo[1][i], journal[todo[1][i]])
  BY <1>1, RangeIs
<1>3. PICK x \in Records(journal, todo[1]) : v = journal[todo[1][x[1]]].recs[x[2]]
  BY DEF Replaced
<1>4. PICK h : h = journal[todo[1][x[1]]]
  OBVIOUS
<1>5. h.recs \in Seq(Volume) /\ x[2] \in 1 .. FrameMax /\ x[2] <= Len(h.recs)
  BY <1>2, <1>3, <1>4 DEF Records, HeaderAt
<1>6. x[2] \in 1 .. Len(h.recs)
  BY <1>5, LenProperties, RingAssumption
<1> QED
  BY <1>3, <1>4, <1>5, <1>6, ElementOfSeq

\* A step of a mount that restores the volume.
LEMMA RecoverCrash == ASSUME CrashInv, DiskInv, Recover PROVE CrashInv'
<1>1. PICK e, cur, r, lo, f, mark, sp, fm :
         /\ Sessions /\ InOrder(journal, master, e, cur, r, f, mark, sp, fm)
         /\ Stage(e, cur, r, lo, f, mark, sp, fm)
  BY DEF CrashInv
<1>2. /\ mode = "recover" /\ io = <<>> /\ UNCHANGED diskVars
      /\ \/ /\ restore_state = "mark"
            /\ io' = Mark(Terminal, "restoring")
            /\ restore_state' = "copy" /\ UNCHANGED <<todo, mode>>
         \/ /\ restore_state = "copy"
            /\ \E v \in Replaced(journal, todo[1]) \ copied :
                  io' = CopyOut(v, Replacement(journal, todo[1], v))
            /\ UNCHANGED <<restore_state, todo, mode>>
         \/ /\ restore_state = "copy"
            /\ io' = Mark(Terminal, "restored")
            /\ restore_state' = "clear" /\ UNCHANGED <<todo, mode>>
         \/ /\ restore_state = "clear"
            /\ IF Len(todo) > 1 THEN restore_state' = "mark" /\ mode' = mode
               ELSE restore_state' = "none" /\ mode' = "remount"
  BY Zenon DEF Recover, Done
<1>3. UNCHANGED <<journal, master, handle, volume>>
  BY <1>2 DEF diskVars
<1>4. Recovering(r, f, mark, sp, fm)
  BY <1>1, <1>2 DEF Stage
<1>5. PICK b : b = LastBlock(todo[1])
  OBVIOUS
<1>6. /\ Len(todo) = 1 /\ AFrame(b) /\ journal[b].seq = f
      /\ r < f => /\ Restorable(r, f, mark, sp, handle, volume)
                  /\ \A v \in Volume : v \in Replaced(journal, todo[1]) <=> fm[v] # 0
      /\ Passes(b, r, f, mark, fm)
  BY <1>4, <1>5 DEF Recovering
<1>7. /\ restore_state = "mark" => r < f
      /\ restore_state = "copy" => r < f /\ mark = "restoring"
      /\ restore_state = "clear" => r = f
  <2>1. Mark(b, "restoring") # <<>> /\ Mark(b, "restored") # <<>>
    BY MarkIsWrite
  <2> QED
    BY <1>2, <1>6, <2>1 DEF Passes
<1>8. ASSUME todo' = todo, mode' = mode, Passes(b, r, f, mark, fm)' PROVE CrashInv'
  <2>1. Passes(LastBlock(todo[1]), r, f, mark, fm)'
    BY <1>5, <1>8 DEF Passes, Mark, LastBlock
  <2>2. AFrame(LastBlock(todo[1]))' /\ (journal[LastBlock(todo[1])].seq = f)'
    BY <1>3, <1>5, <1>6, <1>8 DEF AFrame, LastBlock
  <2>3. r < f => /\ Restorable(r, f, mark, sp, handle, volume)'
                 /\ \A v \in Volume : v \in Replaced(journal', todo'[1]) <=> fm[v] # 0
    BY <1>3, <1>6, <1>8
  <2>4. Recovering(r, f, mark, sp, fm)'
    BY <1>6, <1>8, <2>1, <2>2, <2>3 DEF Recovering
  <2>5. Stage(e, cur, r, lo, f, mark, sp, fm)'
    BY <1>2, <1>8, <2>4 DEF Stage
  <2> QED
    BY <1>1, <1>2, <2>5, SameJournal
<1>9. Terminal = b
  BY <1>5 DEF Terminal, LastBlock
<1>10. CASE /\ restore_state = "mark"
            /\ io' = Mark(Terminal, "restoring")
            /\ restore_state' = "copy" /\ UNCHANGED <<todo, mode>>
  <2>1. Passes(b, r, f, mark, fm)'
    BY <1>3, <1>7, <1>9, <1>10 DEF Passes, Mark
  <2> QED
    BY <1>8, <1>10, <2>1
<1>11. ASSUME NEW v \in Replaced(journal, todo[1]) \ copied, restore_state = "copy",
              io' = CopyOut(v, Replacement(journal, todo[1], v)), UNCHANGED <<restore_state, todo, mode>>
       PROVE  CrashInv'
  <2>1. PICK c : c = Replacement(journal, todo[1], v)
    OBVIOUS
  <2>2. v \in Volume /\ fm[v] # 0
    <3>1. v \in Volume
      BY <1>2, <1>6, ReplacedIsVolume
    <3> QED
      BY <1>6, <1>7, <1>11, <3>1
  <2>3. \A w \in Pending' : w.to \in {"volume", "fat2"} /\ (w.to = "volume" => w.at = v)
    <3>1. io' = CopyOut(v, c)
      BY <1>11, <2>1
    <3>2. \A w \in WritesOf(CopyOut(v, c)) :
             w = [to |-> "volume", at |-> v, val |-> c] \/ w.to = "fat2"
      BY CopyOutWrites
    <3>3. Pending' = WritesOf(CopyOut(v, c))
      BY <3>1 DEF Pending
    <3> QED
      BY <3>2, <3>3
  <2>4. Passes(b, r, f, mark, fm)'
    BY <1>7, <1>11, <2>2, <2>3 DEF Passes
  <2> QED
    BY <1>8, <1>11, <2>4
<1>12. CASE /\ restore_state = "copy"
            /\ io' = Mark(Terminal, "restored")
            /\ restore_state' = "clear" /\ UNCHANGED <<todo, mode>>
  <2>1. Passes(b, r, f, mark, fm)'
    BY <1>3, <1>7, <1>9, <1>12 DEF Passes, Mark
  <2> QED
    BY <1>8, <1>12, <2>1
<1>13. CASE /\ restore_state = "clear"
            /\ IF Len(todo) > 1 THEN restore_state' = "mark" /\ mode' = mode
               ELSE restore_state' = "none" /\ mode' = "remount"
  <2>1. mode' = "remount" /\ r = f
    BY <1>6, <1>7, <1>13
  <2>2. Stage(e, cur, r, lo, f, mark, sp, fm)'
    BY <2>1 DEF Stage
  <2> QED
    BY <1>1, <1>2, <2>2, SameJournal
<1> QED
  BY <1>2, <1>10, <1>11, <1>12, <1>13

\* A mount that finds nothing to restore begins a session.
LEMMA BeginCrash == ASSUME CrashInv, BeginSession PROVE CrashInv'
<1>1. PICK e, cur, r, lo, f, mark, sp, fm :
         /\ Sessions /\ InOrder(journal, master, e, cur, r, f, mark, sp, fm)
         /\ Stage(e, cur, r, lo, f, mark, sp, fm)
  BY DEF CrashInv
<1>2. PICK x : x = [type |-> "open", seq |-> 1, session |-> session_id',
                    space |-> session_current_freespace', recs |-> <<>>]
  OBVIOUS
<1>3. /\ mode = "start" /\ mode' = "up" /\ UNCHANGED diskVars
      /\ session_id' = master.session + 1
      /\ io' = ToMaster(session_id', 1) \o ToJournal(1, x)
      /\ StartJournaling /\ InMemory
  BY <1>2, Zenon DEF BeginSession
<1>4. UNCHANGED <<journal, master, handle, volume>>
  BY <1>3 DEF diskVars
<1>5. RingInit'
  BY <1>3, Zenon DEF StartJournaling, RingInit
<1>6. /\ openMap' = NoMap /\ flushedMap' = NoMap /\ open_recs' = <<>> /\ frame_sequence' = 1
      /\ session_start_record' = 1
  BY <1>3, Zenon DEF InMemory, StartJournaling
<1>7. PICK w1, w2 : /\ w1 = [to |-> "master", val |-> [session |-> session_id', start |-> 1]]
                    /\ w2 = [to |-> "journal", at |-> 1, val |-> x]
  OBVIOUS
<1>8. io' # <<>> /\ Head(io') = w1 /\ Tail(io') = <<w2>>
  <2>1. io' = <<w1>> \o <<w2>>
    BY <1>3, <1>7 DEF ToMaster, ToJournal
  <2>2. <<w2>> \in Seq(WritesOf(<<w2>>))
    BY OneWrite
  <2> QED
    BY <2>1, <2>2, Peel
<1>9. MasterWrite' = w1
  BY <1>6, <1>7 DEF MasterWrite
<1>10. JournalWrite(1, Header("open", 1, <<>>))' = w2
  BY <1>2, <1>7 DEF JournalWrite, Header
<1>11. (~Restorable(r, f, mark, sp, handle, volume))'
  BY <1>1, <1>3, <1>4 DEF Stage
<1>12. Beginning(r, f, mark, sp)'
  BY <1>3, <1>4, <1>5, <1>6, <1>8, <1>9, <1>10, <1>11 DEF Beginning
<1>13. Stage(e, cur, r, lo, f, mark, sp, fm)'
  BY <1>3, <1>12 DEF Stage
<1> QED
  BY <1>1, <1>3, <1>13, SameJournal

-----------------------------------------------------------------------------
(* The steps of a volume that is in use *)

\* No call is in progress and no restore.
Idle(e, cur, r, lo, f, sp, fm) ==
    /\ InUseBy(e, cur, r, lo, f, sp, fm) /\ Settled(e, cur, r, f) /\ OpenIs(journal, f)
    /\ restoring_start_record = 0 /\ (r < f => JournalFound(handle))
FrameFits == session_id = master.session /\ open_current_used + open_current_free <= FrameMax

LEMMA SomeWrites ==
    /\ Return # <<>> /\ \A s : ToHandle(s) \o Return # <<>>
    /\ \A x, b : DataTo(x, b) => x # <<>>
<1>1. PICK w : w = [to |-> "return"]
  OBVIOUS
<1>2. Return = <<w>> /\ <<w>> \in Seq(WritesOf(<<w>>))
  BY <1>1, OneWrite DEF Return
<1>3. ASSUME NEW s PROVE ToHandle(s) \o Return # <<>>
  <2>1. PICK h : h = [to |-> "handle", val |-> s]
    OBVIOUS
  <2>2. ToHandle(s) = <<h>>
    BY <2>1 DEF ToHandle
  <2> QED
    BY <1>2, <2>2, Peel
<1>4. ASSUME NEW x, NEW b, DataTo(x, b) PROVE x # <<>>
  <2>1. PICK d : x = <<d>>
    BY <1>4 DEF DataTo
  <2> QED
    BY <2>1
<1>5. Return # <<>>
  BY <1>2
<1> QED
  BY <1>3, <1>4, <1>5

LEMMA ReadyIs ==
    ASSUME CrashInv, Ready
    PROVE  /\ Sessions /\ FrameFits
           /\ \E e, cur, r, lo, f, mark, sp, fm :
                 \/ Idle(e, cur, r, lo, f, sp, fm)
                 \/ /\ InOrder(journal, master, e, cur, r, f, mark, sp, fm)
                    /\ Restores(e, cur, r, f, mark, fm)
<1>1. PICK e, cur, r, lo, f, mark, sp, fm :
         /\ Sessions /\ InOrder(journal, master, e, cur, r, f, mark, sp, fm)
         /\ Stage(e, cur, r, lo, f, mark, sp, fm)
  BY DEF CrashInv
<1>2. mode = "up" /\ io = <<>>
  BY DEF Ready, Done
<1>3. /\ FrameFits
      /\ Writing(e, cur, r, lo, f, mark, sp, fm) \/ Restores(e, cur, r, f, mark, fm)
  BY <1>1, <1>2 DEF Stage, Beginning, FrameFits
<1>4. ASSUME Writing(e, cur, r, lo, f, mark, sp, fm)
      PROVE  Idle(e, cur, r, lo, f, sp, fm)
  <2>1. /\ restoring_start_record = 0 /\ mark = "flushed" /\ sp = session_current_freespace
        /\ r < f => JournalFound(handle) \/ io = ToHandle(TRUE) \o Return
        /\ Fill(e, r, lo, f)
        /\ Filling(e, cur, r, lo, f, fm) \/ Flushing(e, cur, r, lo, f, fm)
    BY <1>4 DEF Writing
  <2>2. ~Flushing(e, cur, r, lo, f, fm)
    BY <1>2 DEF Flushing
  <2>3. ~DataPending(e, cur, lo, f)
    BY <1>2, SomeWrites DEF DataPending
  <2>4. ~AppendPending(e, cur, lo)
    BY <1>2 DEF AppendPending, Appending, Moving, Opening
  <2>5. ~ClosePending(e, cur, lo, f)
    BY <1>2 DEF ClosePending
  <2>6. Committed(r, f, fm) /\ Settled(e, cur, r, f) /\ OpenIs(journal, f)
    BY <2>1, <2>2, <2>3, <2>4, <2>5, Zenon DEF Filling
  <2>7. r < f => JournalFound(handle)
    BY <1>2, <2>1, SomeWrites
  <2> QED
    BY <1>1, <1>3, <2>1, <2>6, <2>7 DEF Idle, InUseBy, FrameFits
<1> QED
  BY <1>1, <1>3, <1>4

\* A pass of a restore.
LEMMA RestorePassCrash == ASSUME CrashInv, MapsInv, RestorePass PROVE CrashInv'
<1>1. /\ Ready /\ UNCHANGED diskVars
      /\ UNCHANGED <<ringVars, mapVars, sessionVars, mode>>
      /\ \/ /\ restore_state = "mark"
            /\ io' = Mark(restoring_terminal_record, "restoring") /\ restore_state' = "copy"
         \/ /\ restore_state = "copy"
            /\ \E v \in ToCopy \ copied : io' = CopyOut(v, ValueAt(journal, restoringMap[v]))
            /\ UNCHANGED restore_state
         \/ /\ restore_state = "copy"
            /\ io' = Mark(restoring_terminal_record, "restored") /\ restore_state' = "clear"
  BY Zenon DEF RestorePass
<1>2. mode = "up" /\ io = <<>>
  BY <1>1 DEF Ready, Done
<1>3. restoring_start_record # 0
  BY <1>1, <1>2 DEF MapsInv, MapsTyped
<1>4. PICK e, cur, r, f, mark, sp, fm :
         /\ Sessions /\ FrameFits /\ InOrder(journal, master, e, cur, r, f, mark, sp, fm)
         /\ Restores(e, cur, r, f, mark, fm)
  BY <1>1, <1>3, ReadyIs DEF Idle
<1>5. /\ UNCHANGED <<journal, master, handle, volume>>
      /\ UNCHANGED <<restoring_start_record, restoring_terminal_record, frame_sequence,
                     next_free_frame, open_current_frame, open_current_used, open_current_free,
                     session_start_record, openMap, flushedMap, restoringMap, session_id,
                     flushed_terminal_record, flushed_start_record, open_start_record>>
  BY <1>1 DEF diskVars, ringVars, cursors, openVars, flushedVars, restoringVars, mapVars, sessionVars
<1>6. /\ AFrame(restoring_terminal_record) /\ journal[restoring_terminal_record].seq = e /\ f = e
      /\ r < f => fm = restoringMap /\ JournalFound(handle)
      /\ Passes(restoring_terminal_record, r, f, mark, fm)
  BY <1>4 DEF Restores
<1>7. PICK b : b = restoring_terminal_record
  OBVIOUS
<1>8. /\ restore_state = "mark" => r < f
      /\ restore_state = "copy" => r < f /\ mark = "restoring"
  <2>1. Mark(b, "restoring") # <<>> /\ Mark(b, "restored") # <<>>
    BY MarkIsWrite
  <2> QED
    BY <1>2, <1>6, <1>7, <2>1 DEF Passes
<1>9. ASSUME Passes(b, r, f, mark, fm)' PROVE CrashInv'
  <2>1. Passes(restoring_terminal_record, r, f, mark, fm)'
    BY <1>5, <1>7, <1>9 DEF Passes, Mark
  <2>2. StartThere' /\ AFrame(restoring_terminal_record)' /\ FilledFrom' = FilledFrom
    BY <1>4, <1>5 DEF Restores, StartThere, AFrame, FilledFrom
  <2>3. Restores(e, cur, r, f, mark, fm)'
    BY <1>4, <1>5, <2>1, <2>2 DEF Restores
  <2>4. Stage(e, cur, r, 0, f, mark, sp, fm)'
    BY <1>1, <1>2, <1>4, <1>5, <2>3 DEF Stage, FrameFits
  <2> QED
    BY <1>1, <1>4, <2>4, SameJournal
<1>10. ASSUME restore_state = "mark", io' = Mark(restoring_terminal_record, "restoring"),
              restore_state' = "copy"
       PROVE  CrashInv'
  <2>1. Passes(b, r, f, mark, fm)'
    BY <1>5, <1>7, <1>8, <1>10 DEF Passes, Mark
  <2> QED
    BY <1>9, <2>1
<1>11. ASSUME restore_state = "copy", NEW v \in ToCopy \ copied,
              io' = CopyOut(v, ValueAt(journal, restoringMap[v])), UNCHANGED restore_state
       PROVE  CrashInv'
  <2>1. PICK c : c = ValueAt(journal, restoringMap[v])
    OBVIOUS
  <2>2. fm[v] # 0
    BY <1>6, <1>8, <1>11 DEF ToCopy
  <2>3. \A w \in Pending' : w.to \in {"volume", "fat2"} /\ (w.to = "volume" => w.at = v)
    <3>1. io' = CopyOut(v, c)
      BY <1>11, <2>1
    <3>2. \A w \in WritesOf(CopyOut(v, c)) :
             w = [to |-> "volume", at |-> v, val |-> c] \/ w.to = "fat2"
      BY CopyOutWrites
    <3>3. Pending' = WritesOf(CopyOut(v, c))
      BY <3>1 DEF Pending
    <3> QED
      BY <3>2, <3>3
  <2>4. Passes(b, r, f, mark, fm)'
    BY <1>8, <1>11, <2>2, <2>3 DEF Passes
  <2> QED
    BY <1>9, <2>4
<1>12. ASSUME restore_state = "copy", io' = Mark(restoring_terminal_record, "restored"),
              restore_state' = "clear"
       PROVE  CrashInv'
  <2>1. Passes(b, r, f, mark, fm)'
    BY <1>5, <1>7, <1>8, <1>12 DEF Passes, Mark
  <2> QED
    BY <1>9, <2>1
<1> QED
  BY <1>1, <1>10, <1>11, <1>12

LEMMA EndRestoreCrash == ASSUME CrashInv, MapsInv, EndRestore PROVE CrashInv'
<1>1. /\ Ready /\ restore_state = "clear" /\ RestoreComplete /\ UNCHANGED diskVars
      /\ io' = IF KeepHandle THEN <<>> ELSE ClearHandle
      /\ session_current_freespace' = session_current_freespace
      /\ UNCHANGED <<openMap, flushedMap, open_recs, session_id, frame_sequence, mode>>
  BY Zenon DEF EndRestore, sessionVars
<1>2. mode = "up" /\ io = <<>>
  BY <1>1 DEF Ready, Done
<1>3. restoring_start_record # 0
  BY <1>1, <1>2 DEF MapsInv, MapsTyped
<1>4. PICK e, cur, r, f, mark, sp, fm :
         /\ Sessions /\ FrameFits /\ InOrder(journal, master, e, cur, r, f, mark, sp, fm)
         /\ Restores(e, cur, r, f, mark, fm)
  BY <1>1, <1>3, ReadyIs DEF Idle
<1>5. /\ UNCHANGED <<journal, master, handle, volume>>
      /\ UNCHANGED <<next_free_frame, open_current_frame, open_current_used, open_current_free,
                     session_start_record, flushed_terminal_record, flushed_start_record,
                     open_start_record, open_remapped>>
      /\ restoring_start_record' = 0
  <2>1. /\ restoring_start_record' = 0
        /\ UNCHANGED <<next_free_frame, session_start_record, openVars, flushedVars>>
    BY <1>1, Zenon DEF RestoreComplete
  <2> QED
    BY <1>1, <2>1 DEF diskVars, openVars, flushedVars
<1>6. /\ frame_sequence = e /\ next_free_frame = cur /\ f = e /\ StartThere
      /\ openMap = NoMap /\ flushedMap = NoMap /\ open_current_frame = 0
      /\ flushed_terminal_record = 0 /\ FilledFrom = 0
      /\ Passes(restoring_terminal_record, r, f, mark, fm)
  BY <1>4 DEF Restores
<1>7. r = f
  <2>1. PICK b : b = restoring_terminal_record
    OBVIOUS
  <2>2. Mark(b, "restored") # <<>>
    BY MarkIsWrite
  <2> QED
    BY <1>1, <1>2, <1>6, <2>1, <2>2 DEF Passes
<1>8. e \in Nat /\ r \in 0 .. e
  BY <1>4 DEF InOrder
<1>9. PICK s2 : s2 = session_current_freespace
  OBVIOUS
<1>10. InOrder(journal, master, e, cur, e, e, "flushed", s2, NoMap)
  <2>1. InOrder(journal, master, e, cur, e, e, "flushed", sp, fm) /\ \A v \in Volume : fm[v] = 0
    BY <1>4, <1>6, <1>7, NothingCommitted
  <2>2. InOrder(journal, master, e, cur, e, e, "flushed", s2, fm)
    BY <2>1, NewSegment
  <2>3. \A v \in Volume : fm[v] = NoMap[v]
    BY <2>1 DEF NoMap
  <2>4. MapOf(journal, master, e, e, NoMap)
    BY <2>2, <2>3 DEF InOrder, MapOf
  <2> QED
    BY <2>2, <2>4 DEF InOrder
<1>11. flushed_start_record = 0
  BY <1>6, RingAssumption DEF FilledFrom
<1>12. \A w \in Pending' : w.to \in {"fat2", "handle"}
  BY <1>1, <1>11, ClearHandleWrites DEF KeepHandle, Pending
<1>13. StartThere' /\ FilledFrom' = 0 /\ \A b : AFrame(b)' <=> AFrame(b)
  BY <1>5, <1>6 DEF StartThere, AFrame, FilledFrom
<1>14. Settled(e, cur, e, e)'
  BY <1>1, <1>5, <1>6, <1>12, <1>13 DEF Settled
<1>15. OpenIs(journal, e)'
  <2>1. \A v \in Volume : openMap'[v] = 0
    BY <1>1, <1>6 DEF NoMap
  <2>2. ASSUME NEW b \in Blocks, NEW i \in 1 .. FrameMax, NEW v, OpenRecord(journal, e, b, i, v)'
        PROVE FALSE
    <3>1. b # open_current_frame'
      BY <1>5, <1>6 DEF Blocks
    <3>2. IsFrame(journal, master, b) /\ e < journal[b].seq
      BY <1>5, <2>2, <3>1 DEF OpenRecord
    <3>3. journal[b].seq \in 1 .. e
      BY <1>4, <3>2 DEF InOrder, InSequence
    <3> QED
      BY <1>8, <3>2, <3>3
  <2> QED
    BY <2>1, <2>2 DEF OpenIs
<1>16. Fill(e, e, e + 1, e)'
  <2>1. \A b \in Blocks : AFrame(b)' => journal'[b].seq \in 1 .. e
    BY <1>4, <1>5, <1>13 DEF InOrder, InSequence, AFrame
  <2>2. open_current_frame' = 0
    BY <1>5, <1>6
  <2>3. /\ e + 1 \in Nat /\ e < e + 1
        /\ \A b \in Blocks : AFrame(b)' => ~(e < journal'[b].seq) /\ journal'[b].seq <= e + 1
    BY <1>8, <2>1
  <2> QED
    BY <1>8, <1>13, <2>2, <2>3 DEF Fill
<1>17. Committed(e, e, NoMap)'
  BY <1>1, <1>5, <1>6 DEF Committed
<1>18. Writing(e, cur, e, e + 1, e, "flushed", s2, NoMap)'
  <2>1. ~(e < e)
    BY <1>8
  <2>2. Filling(e, cur, e, e + 1, e, NoMap)'
    BY <1>14, <1>15, <1>17 DEF Filling
  <2>3. s2 = session_current_freespace' /\ restoring_start_record' = 0
    BY <1>1, <1>5, <1>9
  <2> QED
    BY <1>16, <2>1, <2>2, <2>3, Zenon DEF Writing
<1>19. Stage(e, cur, e, e + 1, e, "flushed", s2, NoMap)'
  BY <1>1, <1>2, <1>4, <1>5, <1>18 DEF Stage, FrameFits
<1> QED
  BY <1>1, <1>4, <1>10, <1>19, SameJournal

\* A call that changes nothing but what is to be written: a block that is in the
\* open transaction already is written again, or nothing is left to commit.
LEMMA MemoryKept ==
    ASSUME Sessions, FrameFits, mode = "up", UNCHANGED <<diskVars, ringVars, mapVars, sessionVars, mode>>,
           NEW e, NEW cur, NEW r, NEW lo, NEW f, NEW sp, NEW fm, Idle(e, cur, r, lo, f, sp, fm),
           \/ \E b \in Blocks : /\ DataTo(io', b) /\ journal[b].type = "data"
                                /\ \A v \in Volume : flushedMap[v] # b
           \/ openMap = NoMap /\ io' = Return
    PROVE  CrashInv'
<1>1. /\ UNCHANGED <<journal, master, handle, volume>>
      /\ UNCHANGED <<restoring_start_record, frame_sequence, next_free_frame, open_current_frame,
                     open_current_used, open_current_free, session_start_record, openMap,
                     flushedMap, session_id, session_current_freespace, flushed_terminal_record,
                     flushed_start_record, open_start_record, open_recs, open_remapped>>
  BY DEF diskVars, ringVars, cursors, openVars, flushedVars, restoringVars, mapVars, sessionVars
<1>2. /\ InUseBy(e, cur, r, lo, f, sp, fm) /\ Settled(e, cur, r, f) /\ OpenIs(journal, f)
      /\ restoring_start_record = 0 /\ (r < f => JournalFound(handle))
  BY DEF Idle
<1>3. FilledFrom' = FilledFrom /\ \A b : AFrame(b)' <=> AFrame(b)
  BY <1>1 DEF FilledFrom, AFrame
<1>4. Fill(e, r, lo, f)' /\ Committed(r, f, fm)'
  <2>1. Fill(e, r, lo, f)'
    BY <1>1, <1>2, <1>3 DEF Fill, InUseBy
  <2>2. Committed(r, f, fm)'
    BY <1>1, <1>2, <1>3 DEF Committed, InUseBy
  <2> QED
    BY <2>1, <2>2
<1>5. OpenIs(journal, f)'
  BY <1>1, <1>2 DEF OpenIs, OpenRecord
<1>6. StartThere'
  BY <1>1, <1>2, <1>3 DEF StartThere, Settled
<1>7. (OpenThere(open_current_frame, e) => OpenThere(open_current_frame, e)')
  BY <1>1, <1>3 DEF OpenThere
<1>8. Settled(e, cur, r, f)'
  <2>1. \/ \E b \in Blocks : /\ DataTo(io, b)' /\ journal'[b].type = "data"
                             /\ \A v \in Volume : flushedMap'[v] # b
        \/ openMap' = NoMap /\ io' = Return
    BY <1>1 DEF DataTo, JournalWrite
  <2>2. Return' = Return
    BY DEF Return
  <2> QED
    BY <1>1, <1>2, <1>6, <1>7, <2>1, <2>2 DEF Settled
<1>9. sp = session_current_freespace' /\ restoring_start_record' = 0
  BY <1>1, <1>2 DEF InUseBy
<1>10. Writing(e, cur, r, lo, f, "flushed", sp, fm)'
  <2>1. Filling(e, cur, r, lo, f, fm)'
    BY <1>4, <1>5, <1>8 DEF Filling
  <2>2. r < f => JournalFound(handle)'
    BY <1>1, <1>2 DEF JournalFound
  <2> QED
    BY <1>4, <1>9, <2>1, <2>2 DEF Writing
<1>11. Stage(e, cur, r, lo, f, "flushed", sp, fm)'
  BY <1>1, <1>10 DEF Stage, FrameFits
<1> QED
  BY <1>2, <1>11, SameJournal DEF InUseBy

\* No frame that a mount may still have to read lies where the cursor may go.
LEMMA FramesFar ==
    ASSUME NEW e, NEW cur, NEW r, NEW lo, NEW f, NEW sp, NEW fm, Idle(e, cur, r, lo, f, sp, fm),
           RingInv, NEW b \in Blocks, AFrame(b), Distance(b) < frames_free
    PROVE  journal[b].seq < lo
<1>1. /\ Fill(e, r, lo, f) /\ InOrder(journal, master, e, cur, r, f, "flushed", sp, fm)
      /\ next_free_frame = cur /\ frame_sequence = e /\ restoring_start_record = 0
  BY DEF Idle, InUseBy, Settled
<1>2. /\ e \in Nat /\ journal[b].seq \in 1 .. e /\ lo \in Nat /\ cur \in 2 .. FileSize
  BY <1>1 DEF InOrder, InSequence, AFrame, Fill
<1>3. CASE FilledFrom = 0
  BY <1>1, <1>2, <1>3 DEF Fill
<1>4. CASE FilledFrom # 0
  <2>1. AFrame(FilledFrom) /\ journal[FilledFrom].seq = lo
    BY <1>1, <1>2, <1>4 DEF Fill
  <2>2. frames_free <= Distance(FilledFrom)
    <3>1. frames_free + Held <= Distance(FilledFrom)
      BY <1>4 DEF RingInv, Accounting
    <3>2. Held = 0 /\ frames_free \in Nat
      BY <1>1, RingAssumption DEF Held, RingInv, RingTypeOK, CountersOK
    <3> QED
      BY <3>1, <3>2
  <2>3. ASSUME lo <= journal[b].seq PROVE Distance(FilledFrom) <= Distance(b)
    BY <1>1, <2>1, <2>3 DEF InOrder, InSequence, AFrame, Distance
  <2>4. Distance(b) \in Int /\ Distance(FilledFrom) \in Int /\ frames_free \in Int
    <3>1. RingTypeOK /\ frames_free \in Int /\ next_free_frame \in 2 .. FileSize
      BY RingAssumption DEF RingInv, RingTypeOK, CountersOK
    <3>2. FilledFrom \in Blocks
      BY <2>1 DEF AFrame
    <3> QED
      BY <3>1, <3>2, DistanceRange
  <2> QED
    BY <1>2, <2>2, <2>3, <2>4
<1> QED
  BY <1>3, <1>4

LEMMA RewriteCrash ==
    ASSUME CrashInv, MapsInv, DiskInv, Ready, restoring_start_record = 0, NEW v \in Volume, NEW c, Rewrite(v, c),
           UNCHANGED <<diskVars, session_id, session_current_freespace, mode>>
    PROVE  CrashInv'
<1>1. PICK b : b = openMap[v]
  OBVIOUS
<1>2. /\ b # 0 /\ io' = <<JournalWrite(b, DataBlock(c))>> /\ UNCHANGED <<ringVars, mapVars, frame_sequence>>
  BY <1>1 DEF Rewrite, ToJournal, JournalWrite
<1>3. mode = "up" /\ io = <<>>
  BY DEF Ready, Done
<1>4. b \in Blocks
  BY <1>1, <1>2, RingAssumption DEF MapsInv, MapsTyped, Blocks
<1>5. journal[b].type = "data"
  <2>1. JournalHolds(b, DataBlock(view[v]))
    BY <1>1, <1>2, <1>3 DEF DiskInv, InUse, Shown
  <2> QED
    BY <1>3, <2>1, NothingPending DEF DataBlock
<1>6. \A u \in Volume : flushedMap[u] # b
  BY <1>1, <1>2 DEF MapsInv, MapsApart
<1>7. PICK e, cur, r, lo, f, sp, fm : Sessions /\ FrameFits /\ Idle(e, cur, r, lo, f, sp, fm)
  BY ReadyIs DEF Restores
<1>8. DataTo(io', b)
  BY <1>2 DEF DataTo
<1> QED
  BY <1>2, <1>3, <1>4, <1>5, <1>6, <1>7, <1>8, MemoryKept DEF sessionVars

LEMMA NothingOpen ==
    ASSUME NEW j, NEW f, OpenIs(j, f), NEW v \in Volume, openMap[v] = 0
    PROVE  \A b \in Blocks, i \in 1 .. FrameMax : ~OpenRecord(j, f, b, i, v)
<1>1. SUFFICES ASSUME NEW b \in Blocks, NEW i \in 1 .. FrameMax, OpenRecord(j, f, b, i, v)
               PROVE  FALSE
  OBVIOUS
<1>2. openMap[v] = b + i
  BY <1>1 DEF OpenIs
<1> QED
  BY <1>2, RingAssumption DEF Blocks

\* The open frame has room for the block.
LEMMA WriteInFrameCrash ==
    ASSUME CrashInv, MapsInv, StartAhead, Ready, restoring_start_record = 0,
           NEW v \in Volume, NEW c, WriteInFrame(v, c),
           UNCHANGED <<diskVars, session_id, session_current_freespace, mode>>
    PROVE  CrashInv'
<1>1. /\ openMap[v] = 0 /\ AllocInFrame(1)
      /\ openMap' = [openMap EXCEPT ![v] = next_free_frame]
      /\ open_recs' = Append(open_recs, v)
      /\ io' = ToJournal(next_free_frame, DataBlock(c))
      /\ UNCHANGED <<flushedMap, restoringMap, frame_sequence>>
  BY DEF WriteInFrame
<1>2. mode = "up" /\ io = <<>>
  BY DEF Ready, Done
<1>3. PICK e, cur, r, lo, f, sp, fm : Sessions /\ FrameFits /\ Idle(e, cur, r, lo, f, sp, fm)
  BY ReadyIs DEF Restores
<1>4. /\ InUseBy(e, cur, r, lo, f, sp, fm) /\ Settled(e, cur, r, f) /\ OpenIs(journal, f)
      /\ (r < f => JournalFound(handle)) /\ frame_sequence = e /\ next_free_frame = cur /\ StartThere
      /\ Fill(e, r, lo, f) /\ Committed(r, f, fm) /\ sp = session_current_freespace
      /\ InOrder(journal, master, e, cur, r, f, "flushed", sp, fm)
  BY <1>3 DEF Idle, Settled, InUseBy
<1>5. /\ 1 <= open_current_free /\ 1 <= frames_free
      /\ open_current_used' = open_current_used + 1 /\ open_current_free' = open_current_free - 1
      /\ next_free_frame' = next_free_frame + 1 /\ open_remapped' = TRUE
      /\ UNCHANGED <<session_start_record, open_start_record, open_current_frame,
                     flushed_start_record, flushed_terminal_record, restoring_start_record>>
      /\ written' = next_free_frame .. next_free_frame + 1 - 1
  BY <1>1 DEF AllocInFrame, flushedVars, restoringVars
<1>6. /\ RingInv /\ RingTypeOK /\ CountersOK /\ OpenFrameFits
      /\ open_current_free \in Nat /\ open_current_used \in Nat
  BY RingAssumption DEF MapsInv, RingInv, RingTypeOK, CountersOK
<1>7. /\ open_current_frame # 0 /\ open_current_frame \in Blocks /\ cur \in Blocks
      /\ cur = open_current_frame + 1 + open_current_used /\ cur \in written'
  <2>1. open_current_frame # 0
    BY <1>5, <1>6 DEF OpenFrameFits
  <2>2. /\ next_free_frame = open_current_frame + 1 + open_current_used
        /\ next_free_frame + open_current_free <= FileSize
    BY <1>6, <2>1 DEF OpenFrameFits
  <2> QED
    BY <1>4, <1>5, <1>6, <2>1, <2>2, RingAssumption DEF CountersOK, Blocks
<1>8. f < e /\ OpenThere(open_current_frame, e)
  BY <1>4, <1>7 DEF Settled
<1>9. /\ UNCHANGED <<journal, master, handle>> /\ FilledFrom' = FilledFrom
      /\ \A b : AFrame(b)' <=> AFrame(b)
  BY <1>5 DEF diskVars, FilledFrom, AFrame
\* The block is free.
<1>10. Untouched({cur}, e, lo)'
  <2>1. cur \in Blocks /\ \A u \in Volume : flushedMap[u] # cur
    BY <1>1, <1>7, NewIsUnused
  <2>2. AFrame(cur) => journal[cur].seq < lo
    <3>1. Distance(cur) = 0
      BY <1>4, <1>7, RingAssumption DEF Distance, RingDistance, Blocks
    <3>2. Distance(cur) < frames_free
      BY <1>5, <1>6, <3>1 DEF CountersOK
    <3> QED
      BY <1>3, <1>6, <2>1, <3>2, FramesFar
  <2>3. cur # session_start_record
    <3>1. CASE session_start_record = FilledFrom
      <4>1. FilledFrom # 0
        BY <1>4, <1>7 DEF Fill
      <4>2. Held = 0
        BY DEF Held
      <4>3. frames_free <= Distance(FilledFrom)
        BY <1>6, <4>1, <4>2 DEF RingInv, Accounting, CountersOK
      <4>4. Distance(cur) = 0
        BY <1>4, <1>7, RingAssumption DEF Distance, RingDistance, Blocks
      <4> QED
        BY <1>5, <1>6, <3>1, <4>3, <4>4 DEF CountersOK
    <3>2. CASE session_start_record # FilledFrom
      <4>1. session_start_record \notin next_free_frame .. next_free_frame + open_current_free - 1
        BY <3>2 DEF StartAhead
      <4> QED
        BY <1>4, <1>5, <1>6, <1>7, <4>1 DEF Blocks, CountersOK
    <3> QED
      BY <3>1, <3>2
  <2> QED
    BY <1>1, <1>5, <1>9, <2>1, <2>2, <2>3 DEF Untouched
<1>11. DataPending(e, cur, lo, f)'
  <2>1. DataTo(io, cur)'
    BY <1>1, <1>4 DEF DataTo, ToJournal, JournalWrite
  <2>2. StartThere' /\ OpenThere(open_current_frame, e)'
    BY <1>4, <1>5, <1>8, <1>9 DEF StartThere, OpenThere
  <2> QED
    BY <1>1, <1>4, <1>5, <1>7, <1>8, <1>10, <2>1, <2>2 DEF DataPending
<1>12. Fill(e, r, lo, f)' /\ Committed(r, f, fm)'
  <2>1. Fill(e, r, lo, f)'
    BY <1>1, <1>4, <1>5, <1>9 DEF Fill
  <2>2. Committed(r, f, fm)'
    BY <1>1, <1>4, <1>5, <1>9 DEF Committed
  <2> QED
    BY <2>1, <2>2
<1>13. /\ open_recs \in Seq(Volume) /\ Len(open_recs) = open_current_used
       /\ Len(open_recs') = open_current_used + 1 /\ open_current_used + 1 <= FrameMax
       /\ open_recs'[open_current_used + 1] = v
       /\ \A i \in 1 .. open_current_used : open_recs'[i] = open_recs[i]
  <2>1. open_recs \in Seq(Volume) /\ Len(open_recs) = open_current_used
    BY <1>7 DEF MapsInv, MapsTyped
  <2>2. /\ Len(open_recs') = open_current_used + 1 /\ open_recs'[open_current_used + 1] = v
        /\ \A i \in 1 .. open_current_used : open_recs'[i] = open_recs[i]
    BY <1>1, <2>1, AppendProperties
  <2> QED
    BY <1>3, <1>5, <1>6, <2>1, <2>2, RingAssumption DEF FrameFits
<1>14. OpenIs(journal, f)'
  <2> DEFINE n == open_current_used + 1
  <2>1. n \in 1 .. FrameMax /\ open_current_frame + n = cur
    BY <1>4, <1>6, <1>7, <1>13, RingAssumption DEF Blocks
  <2>2. \A b \in Blocks, i \in 1 .. FrameMax : \A u :
           OpenRecord(journal, f, b, i, u)' <=>
              OpenRecord(journal, f, b, i, u) \/ (b = open_current_frame /\ i = n /\ u = v)
    <3>1. SUFFICES ASSUME NEW b \in Blocks, NEW i \in 1 .. FrameMax, NEW u
                   PROVE  OpenRecord(journal, f, b, i, u)' <=>
                             OpenRecord(journal, f, b, i, u) \/ (b = open_current_frame /\ i = n /\ u = v)
      OBVIOUS
    <3>2. (i <= Len(open_recs') /\ open_recs'[i] = u) <=>
             (i <= Len(open_recs) /\ open_recs[i] = u) \/ (i = n /\ u = v)
      <4>1. CASE i = n
        BY <1>6, <1>13, <4>1
      <4>2. CASE i < n
        <5>1. i \in 1 .. open_current_used
          BY <1>6, <4>2
        <5> QED
          BY <1>6, <1>13, <4>2, <5>1
      <4>3. CASE i > n
        BY <1>6, <1>13, <4>3
      <4> QED
        BY <1>6, <4>1, <4>2, <4>3
    <3> QED
      BY <1>5, <1>9, <3>2 DEF OpenRecord
  <2>3. \A b \in Blocks, i \in 1 .. FrameMax : ~OpenRecord(journal, f, b, i, v)
    BY <1>1, <1>4, NothingOpen
  <2>4. openMap'[v] = cur /\ \A u \in Volume \ {v} : openMap'[u] = openMap[u]
    BY <1>1, <1>4 DEF MapsInv, MapsTyped
  <2> HIDE DEF n
  <2>5. ASSUME NEW u \in Volume
        PROVE  /\ openMap'[u] # 0 =>
                     \E b \in Blocks, i \in 1 .. FrameMax : OpenRecord(journal, f, b, i, u)'
               /\ \A b, d \in Blocks, i, k \in 1 .. FrameMax :
                     OpenRecord(journal, f, b, i, u)' /\ OpenRecord(journal, f, d, k, u)' =>
                        b = d /\ i = k /\ openMap'[u] = b + i
    <3>1. CASE u = v
      BY <1>7, <2>1, <2>2, <2>3, <2>4, <3>1
    <3>2. CASE u # v
      <4>1. openMap'[u] = openMap[u]
        BY <2>4, <3>2
      <4>2. \A b \in Blocks, i \in 1 .. FrameMax :
               OpenRecord(journal, f, b, i, u)' <=> OpenRecord(journal, f, b, i, u)
        BY <2>2, <3>2
      <4>3. /\ openMap[u] # 0 =>
                  \E b \in Blocks, i \in 1 .. FrameMax : OpenRecord(journal, f, b, i, u)
            /\ \A b, d \in Blocks, i, k \in 1 .. FrameMax :
                  OpenRecord(journal, f, b, i, u) /\ OpenRecord(journal, f, d, k, u) =>
                     b = d /\ i = k /\ openMap[u] = b + i
        BY <1>4 DEF OpenIs
      <4>4. openMap'[u] # 0 =>
               \E b \in Blocks, i \in 1 .. FrameMax : OpenRecord(journal, f, b, i, u)'
        BY <4>1, <4>2, <4>3
      <4>5. ASSUME NEW b \in Blocks, NEW d \in Blocks, NEW i \in 1 .. FrameMax, NEW k \in 1 .. FrameMax,
                   OpenRecord(journal, f, b, i, u)', OpenRecord(journal, f, d, k, u)'
            PROVE  b = d /\ i = k /\ openMap'[u] = b + i
        BY <4>1, <4>2, <4>3, <4>5
      <4> QED
        BY <4>4, <4>5
    <3> QED
      BY <3>1, <3>2
  <2> QED
    BY <2>5, Zenon DEF OpenIs
<1>15. Writing(e, cur, r, lo, f, "flushed", sp, fm)'
  <2>1. Filling(e, cur, r, lo, f, fm)'
    BY <1>11, <1>12, <1>14 DEF Filling
  <2>2. r < f => JournalFound(handle)'
    BY <1>4, <1>9 DEF JournalFound
  <2>3. restoring_start_record' = 0 /\ sp = session_current_freespace'
    BY <1>4, <1>5
  <2> QED
    BY <1>12, <2>1, <2>2, <2>3 DEF Writing
<1>16. FrameFits'
  BY <1>3, <1>5, <1>6, <1>9 DEF FrameFits
<1>17. Stage(e, cur, r, lo, f, "flushed", sp, fm)'
  BY <1>2, <1>15, <1>16 DEF Stage, FrameFits
<1> QED
  BY <1>3, <1>4, <1>17, SameJournal

\* What opening a frame for one block does to the cursor and the start record.
LEMMA NewFrameIs ==
    ASSUME RingInv, StartAhead, AllocInNewFrame(1), restoring_start_record = 0
    PROVE  /\ FilledFrom' = IF FilledFrom = 0 THEN NewFrame ELSE FilledFrom
           /\ NewFrame \in Blocks /\ NewFrame + 1 \in Blocks /\ session_start_record <= FileSize - 2
           /\ \/ session_start_record' = FilledFrom'
              \/ session_start_record' = session_start_record /\ session_start_record \notin written'
           /\ FilledFrom \notin written' \ {0}
           /\ open_current_frame' = NewFrame /\ next_free_frame' = NewFrame + 2
           /\ open_current_used' + open_current_free' <= FrameMax
           /\ open_remapped' = TRUE
           /\ written' = NullBlocks \union {NewFrame, NewFrame + 1}
           /\ NeedsNullFrame => /\ next_free_frame = FileSize - 1 /\ NewFrame = 1 /\ FileSize >= 4
                                /\ frames_free >= 2 /\ NullBlocks = {FileSize - 1}
           /\ ~NeedsNullFrame => NewFrame = At(next_free_frame)
           /\ UNCHANGED <<flushed_start_record, flushed_terminal_record, restoring_start_record>>
<1> USE RingAssumption
<1>1. /\ RingTypeOK /\ CountersOK /\ OpenFrameFits /\ Accounting /\ wrapped \in BOOLEAN
  BY DEF RingInv, RingTypeOK
<1>2. /\ NewFrame \in Blocks
      /\ Room \in Nat /\ Room >= 2 /\ NewFrame + Room <= FileSize
      /\ FreeAfterNull \in 2 .. frames_free
  BY <1>1, NewFramePlace DEF AllocInNewFrame, CountersOK
<1>3. RoomInNewFrame \in 1 .. Room - 1
  BY <1>2, NewFrameRoom DEF RoomInNewFrame
<1>4. /\ open_start_record' = StartWithNewFrame
      /\ wrapped' = (wrapped \/ Wraps)
      /\ session_start_record' = IF wrapped' /\ ReachesSessionStart
                                 THEN SessionStartNow ELSE session_start_record
      /\ open_current_frame' = NewFrame /\ open_current_used' = 1
      /\ open_current_free' = RoomInNewFrame - 1
      /\ open_remapped' = (open_remapped \/ 1 > 0)
      /\ next_free_frame' = NewFrame + 1 + 1
      /\ written' = NullBlocks \union (NewFrame .. NewFrame + 1)
      /\ UNCHANGED <<flushed_start_record, flushed_terminal_record, restoring_start_record>>
  BY Zenon DEF AllocInNewFrame, flushedVars, restoringVars
<1>5. /\ FilledFrom \in 0 .. FileSize - 2
      /\ FilledFrom' = IF FilledFrom = 0 THEN NewFrame ELSE FilledFrom
  BY <1>1, <1>2, <1>4 DEF FilledFrom, StartWithNewFrame, CountersOK, Blocks, StartAhead, StartRecords
<1>6. SessionStartNow = FilledFrom'
  BY <1>4 DEF SessionStartNow, FilledFrom
<1>7. NewFrame + 1 \in Blocks /\ NewFrame .. NewFrame + 1 = {NewFrame, NewFrame + 1}
  BY <1>2 DEF Blocks
<1>8. /\ NeedsNullFrame => /\ next_free_frame = FileSize - 1 /\ NewFrame = 1 /\ FileSize >= 4
                           /\ frames_free >= 2 /\ NullBlocks = {FileSize - 1}
      /\ ~NeedsNullFrame => NewFrame = At(next_free_frame) /\ NullBlocks = {}
  BY <1>1, <1>2 DEF NeedsNullFrame, BlocksToEnd, NewFrame, Wraps, NullBlocks, At, CountersOK, Blocks,
     FreeAfterNull, Room
<1>9. session_start_record <= FileSize - 2
  BY DEF StartAhead, StartRecords
<1>10. \/ session_start_record' = FilledFrom'
       \/ session_start_record' = session_start_record /\ session_start_record \notin written'
  <2>1. SUFFICES ASSUME session_start_record' # FilledFrom'
                 PROVE  /\ session_start_record' = session_start_record
                        /\ session_start_record \notin NewFrame .. NewFrame + 1
    BY <1>1, <1>4, <1>8, <1>9 DEF CountersOK
  <2>2. CASE wrapped'
    BY <2>1, <2>2, <1>1, <1>2, <1>3, <1>4, <1>6 DEF ReachesSessionStart, CountersOK, Blocks
  <2>3. CASE ~wrapped'
    <3>1. session_start_record' = session_start_record /\ session_start_record = 1 /\ ~Wraps
      BY <2>3, <1>1, <1>4 DEF StartAhead
    <3> QED
      BY <3>1, <1>1 DEF NewFrame, CountersOK
  <2> QED
    BY <2>2, <2>3
<1>11. FilledFrom \notin written' \ {0}
  <2>1. SUFFICES ASSUME FilledFrom # 0, FilledFrom \in written' PROVE FALSE
    OBVIOUS
  <2>2. frames_free <= Distance(FilledFrom)
    BY <1>1, <2>1 DEF Accounting, Held, CountersOK
  <2>3. Distance(FilledFrom) < frames_free
    BY <2>1, AllocMoves
  <2>4. FilledFrom \in Blocks /\ Distance(FilledFrom) \in Int /\ frames_free \in Int
    BY <1>1, <1>5, <2>1, DistanceRange DEF Blocks, CountersOK
  <2> QED
    BY <2>2, <2>3, <2>4
<1>12. open_current_used' + open_current_free' <= FrameMax
  <2>1. RoomInNewFrame <= FrameMax
    BY <1>2, FsAssumption DEF RoomInNewFrame, FreeInNewFrame, FrameLimit
  <2> QED
    BY <1>3, <1>4, <2>1
<1>13. next_free_frame' = NewFrame + 2 /\ open_remapped' = TRUE
  <2>1. NewFrame \in Int
    BY <1>2 DEF Blocks
  <2>2. next_free_frame' = NewFrame + 1 + 1
    BY <1>4
  <2>3. next_free_frame' = NewFrame + 2
    BY <2>1, <2>2
  <2>4. 1 > 0
    OBVIOUS
  <2>5. open_remapped' = TRUE
    BY <1>4, <2>4, Zenon
  <2> QED
    BY <2>3, <2>5
<1>14. written' = NullBlocks \union {NewFrame, NewFrame + 1}
  BY <1>4, <1>7
<1>15. open_current_frame' = NewFrame
       /\ UNCHANGED <<flushed_start_record, flushed_terminal_record, restoring_start_record>>
  BY <1>4
<1> QED
  BY <1>2, <1>5, <1>7, <1>8, <1>9, <1>10, <1>11, <1>12, <1>13, <1>14, <1>15

\* One block more in the open transaction.
MoreRecords(k, f, d, n, v) ==
    \A b \in Blocks, i \in 1 .. FrameMax : \A u :
       OpenRecord(k, f, b, i, u)' <=>
          OpenRecord(journal, f, b, i, u) \/ (b = d /\ i = n /\ u = v)

LEMMA OneMoreRecord ==
    ASSUME NEW k, NEW f, OpenIs(journal, f), MapsTyped, NEW v \in Volume, openMap[v] = 0,
           NEW d \in Blocks, NEW n \in 1 .. FrameMax, openMap' = [openMap EXCEPT ![v] = d + n],
           MoreRecords(k, f, d, n, v)
    PROVE  OpenIs(k, f)'
<1>1. \A b \in Blocks, i \in 1 .. FrameMax : ~OpenRecord(journal, f, b, i, v)
  BY NothingOpen
<1>2. openMap'[v] = d + n /\ \A u \in Volume \ {v} : openMap'[u] = openMap[u]
  BY DEF MapsTyped
<1>3. ASSUME NEW u \in Volume
      PROVE  /\ openMap'[u] # 0 => \E b \in Blocks, i \in 1 .. FrameMax : OpenRecord(k, f, b, i, u)'
             /\ \A b, c \in Blocks, i, l \in 1 .. FrameMax :
                   OpenRecord(k, f, b, i, u)' /\ OpenRecord(k, f, c, l, u)' =>
                      b = c /\ i = l /\ openMap'[u] = b + i
  <2>1. CASE u = v
    BY <1>1, <1>2, <2>1 DEF MoreRecords
  <2>2. CASE u # v
    <3>1. openMap'[u] = openMap[u]
      BY <1>2, <2>2
    <3>2. \A b \in Blocks, i \in 1 .. FrameMax :
             OpenRecord(k, f, b, i, u)' <=> OpenRecord(journal, f, b, i, u)
      BY <2>2 DEF MoreRecords
    <3>3. /\ openMap[u] # 0 =>
                \E b \in Blocks, i \in 1 .. FrameMax : OpenRecord(journal, f, b, i, u)
          /\ \A b, c \in Blocks, i, l \in 1 .. FrameMax :
                OpenRecord(journal, f, b, i, u) /\ OpenRecord(journal, f, c, l, u) =>
                   b = c /\ i = l /\ openMap[u] = b + i
      BY DEF OpenIs
    <3>4. openMap'[u] # 0 => \E b \in Blocks, i \in 1 .. FrameMax : OpenRecord(k, f, b, i, u)'
      BY <3>1, <3>2, <3>3
    <3>5. ASSUME NEW b \in Blocks, NEW c \in Blocks, NEW i \in 1 .. FrameMax, NEW l \in 1 .. FrameMax,
                 OpenRecord(k, f, b, i, u)', OpenRecord(k, f, c, l, u)'
          PROVE  b = c /\ i = l /\ openMap'[u] = b + i
      BY <3>1, <3>2, <3>3, <3>5
    <3> QED
      BY <3>4, <3>5
  <2> QED
    BY <2>1, <2>2
<1> QED
  BY <1>3, Zenon DEF OpenIs

Sequences5(S, p, q, s, t, u) ==
    /\ p \in Seq(S) /\ q \in Seq(S) /\ s \in Seq(S) /\ t \in Seq(S) /\ u \in Seq(S)

Cat(x, y) == x \o y

LEMMA CatAssociates ==
    ASSUME NEW S, NEW x \in Seq(S), NEW y \in Seq(S), NEW z \in Seq(S)
    PROVE  Cat(x, y) \in Seq(S) /\ Cat(Cat(x, y), z) = Cat(x, Cat(y, z))
<1>1. Cat(x, y) \in Seq(S)
  BY ConcatProperties DEF Cat
<1>2. Cat(Cat(x, y), z) = Cat(x, Cat(y, z))
  BY ConcatAssociative DEF Cat
<1> QED
  BY <1>1, <1>2

SeqOf(x, S) == x \in Seq(S)

LEMMA CatIs ==
    ASSUME NEW S, NEW x, NEW y, NEW z, SeqOf(x, S), SeqOf(y, S), SeqOf(z, S)
    PROVE  SeqOf(Cat(x, y), S) /\ Cat(Cat(x, y), z) = Cat(x, Cat(y, z))
  BY CatAssociates DEF SeqOf

LEMMA Regroup ==
    ASSUME NEW S, NEW p, NEW q, NEW s, NEW t, NEW u, Sequences5(S, p, q, s, t, u)
    PROVE  Cat(Cat(Cat(Cat(p, q), s), t), u) = Cat(p, Cat(q, Cat(s, Cat(t, u))))
<1>1. SeqOf(p, S) /\ SeqOf(q, S) /\ SeqOf(s, S) /\ SeqOf(t, S) /\ SeqOf(u, S)
  BY DEF Sequences5, SeqOf
<1>2. SeqOf(Cat(p, q), S) /\ SeqOf(Cat(t, u), S)
  BY <1>1, CatIs
<1>3. SeqOf(Cat(Cat(p, q), s), S) /\ SeqOf(Cat(s, Cat(t, u)), S)
  BY <1>1, <1>2, CatIs
<1>4. Cat(Cat(Cat(Cat(p, q), s), t), u) = Cat(Cat(Cat(p, q), s), Cat(t, u))
  BY <1>1, <1>3, CatIs
<1>5. Cat(Cat(Cat(p, q), s), Cat(t, u)) = Cat(Cat(p, q), Cat(s, Cat(t, u)))
  BY <1>1, <1>2, CatIs
<1>6. Cat(Cat(p, q), Cat(s, Cat(t, u))) = Cat(p, Cat(q, Cat(s, Cat(t, u))))
  BY <1>1, <1>3, CatIs
<1> QED
  BY <1>4, <1>5, <1>6

LEMMA RegroupWrites ==
    ASSUME MapsInv, RingInv', NEW c
    PROVE  CloseFrame \o NullFrame \o MoveStart \o OpenFrame \o ToJournal(NewFrame + 1, DataBlock(c))
              = CloseFrame \o (NullFrame \o (MoveStart \o (OpenFrame \o ToJournal(NewFrame + 1, DataBlock(c)))))
<1>1. PICK p, q, s, t, u : /\ p = CloseFrame /\ q = NullFrame /\ s = MoveStart /\ t = OpenFrame
                           /\ u = ToJournal(NewFrame + 1, DataBlock(c))
  OBVIOUS
<1>2. /\ p \in Seq(WritesOf(p)) /\ q \in Seq(WritesOf(q)) /\ s \in Seq(WritesOf(s))
      /\ t \in Seq(WritesOf(t)) /\ u \in Seq(WritesOf(u))
  BY <1>1, CloseWrites, NullWrites, MoveStartWrites, OneWrite DEF OpenFrame, ToJournal
<1>3. PICK S : S = WritesOf(p) \union WritesOf(q) \union WritesOf(s) \union WritesOf(t) \union WritesOf(u)
  OBVIOUS
<1>4. p \in Seq(S) /\ q \in Seq(S) /\ s \in Seq(S) /\ t \in Seq(S) /\ u \in Seq(S)
  BY <1>2, <1>3, SeqMonotonic
<1>5. Sequences5(S, p, q, s, t, u)
  BY <1>4 DEF Sequences5
<1>6. Cat(Cat(Cat(Cat(p, q), s), t), u) = Cat(p, Cat(q, Cat(s, Cat(t, u))))
  BY <1>5, Regroup
<1>7. Cat(Cat(Cat(Cat(p, q), s), t), u) = CloseFrame \o NullFrame \o MoveStart \o OpenFrame
                                          \o ToJournal(NewFrame + 1, DataBlock(c))
  BY <1>1, Zenon DEF Cat
<1>8. Cat(p, Cat(q, Cat(s, Cat(t, u))))
         = CloseFrame \o (NullFrame \o (MoveStart \o (OpenFrame \o ToJournal(NewFrame + 1, DataBlock(c)))))
  BY <1>1, Zenon DEF Cat
<1> QED
  BY <1>6, <1>7, <1>8, Zenon

\* The writes that open a frame for one block, in the terms of Appending.
LEMMA NewFrameWrites ==
    ASSUME MapsInv, StartAhead, restoring_start_record = 0, AllocInNewFrame(1), NEW c,
           RingInv', UNCHANGED <<session_id, session_current_freespace>>,
           frame_sequence' = SequenceAfterNull + 1, frame_sequence \in Nat,
           NEW y, y = MoveStart \o (OpenFrame \o ToJournal(NewFrame + 1, DataBlock(c))),
           NEW x, x = NullFrame \o y
    PROVE  /\ x \in Seq(WritesOf(x))
           /\ master.start = session_start_record /\ master' = master => Moving(y)'
           /\ NeedsNullFrame =>
                 /\ x # <<>> /\ Tail(x) = y
                 /\ Head(x) = JournalWrite(FileSize - 1, Header("closed", frame_sequence + 1, <<>>))
                 /\ frame_sequence' = frame_sequence + 2
           /\ ~NeedsNullFrame => x = y /\ frame_sequence' = frame_sequence + 1
<1>1. RingInv
  BY DEF MapsInv
<1> DEFINE d == ToJournal(NewFrame + 1, DataBlock(c))
<1>2. PICK w : w = JournalWrite(NewFrame + 1, DataBlock(c))
  OBVIOUS
<1>3. d = <<w>> /\ d \in Seq(WritesOf(d))
  BY <1>2, OneWrite DEF ToJournal, JournalWrite
<1>4. PICK h : h = JournalWrite(NewFrame, Header("open", SequenceAfterNull + 1, <<>>))
  OBVIOUS
<1>5. OpenFrame = <<h>> /\ OpenFrame \in Seq(WritesOf(OpenFrame))
  BY <1>4, OneWrite DEF OpenFrame, ToJournal, JournalWrite
<1>6. /\ CloseFrame \in Seq(WritesOf(CloseFrame)) /\ NullFrame \in Seq(WritesOf(NullFrame))
      /\ MoveStart \in Seq(WritesOf(MoveStart))
  BY CloseWrites, NullWrites, MoveStartWrites
<1> HIDE DEF d
<1>17. PICK z : z = OpenFrame \o d
  OBVIOUS
<1>7. z \in Seq(WritesOf(z)) /\ z = <<h>> \o <<w>>
  BY <1>3, <1>5, <1>17, MoreWrites, Zenon
<1>8. y = MoveStart \o z /\ y \in Seq(WritesOf(y))
  <2>1. y = MoveStart \o z
    BY <1>17 DEF d
  <2>2. PICK m : m = MoveStart
    OBVIOUS
  <2>3. m \o z \in Seq(WritesOf(m \o z))
    BY <1>6, <1>7, <2>2, MoreWrites, Zenon
  <2> QED
    BY <2>1, <2>2, <2>3, Zenon
<1>9. x \in Seq(WritesOf(x))
  BY <1>6, <1>8, MoreWrites, Zenon
<1>11. z # <<>> /\ Head(z) = h /\ Tail(z) = <<w>>
  <2>1. <<w>> \in Seq(WritesOf(<<w>>))
    BY OneWrite
  <2> QED
    BY <1>7, <2>1, Peel, Zenon
<1>12. /\ open_current_frame' = NewFrame /\ next_free_frame' = NewFrame + 2
       /\ NewFrame \in Blocks
       /\ NeedsNullFrame => next_free_frame = FileSize - 1 /\ frames_free >= 2
  BY <1>1, NewFrameIs
<1>13. Opening(z)'
  <2>1. h = JournalWrite(open_current_frame, Header("open", frame_sequence, <<>>))'
    BY <1>4, <1>12 DEF JournalWrite, Header
  <2>2. DataTo(<<w>>, open_current_frame + 1)'
    BY <1>2, <1>12 DEF DataTo, JournalWrite, DataBlock
  <2>3. next_free_frame' = open_current_frame' + 2
    BY <1>12
  <2> QED
    BY <1>11, <2>1, <2>2, <2>3 DEF Opening
<1>14. ASSUME master.start = session_start_record, master' = master PROVE Moving(y)'
  <2>1. CASE session_start_record' # session_start_record \/ (wrapped' /\ ReachesSessionStart)
    <3>1. PICK m : m = [to |-> "master", val |-> [session |-> session_id, start |-> session_start_record']]
      OBVIOUS
    <3>2. MoveStart = <<m>>
      BY <2>1, <3>1 DEF MoveStart, ToMaster
    <3>3. y = <<m>> \o z
      BY <1>8, <3>2
    <3>4. y # <<>> /\ Head(y) = m /\ Tail(y) = z
      <4>1. <<m>> \o z # <<>> /\ Head(<<m>> \o z) = m /\ Tail(<<m>> \o z) = z
        BY <1>7, Peel
      <4> QED
        BY <4>1, <3>3
    <3>5. m = MasterWrite'
      BY <3>1 DEF MasterWrite
    <3> QED
      BY <1>13, <3>4, <3>5 DEF Moving
  <2>2. CASE ~(session_start_record' # session_start_record \/ (wrapped' /\ ReachesSessionStart))
    <3>1. MoveStart = <<>> /\ session_start_record' = session_start_record
      BY <2>2 DEF MoveStart
    <3>2. y = z
      BY <1>7, <1>8, <3>1, ConcatEmptySeq, Zenon
    <3> QED
      BY <1>13, <1>14, <3>1, <3>2 DEF Moving
  <2> QED
    BY <2>1, <2>2
<1>15. ASSUME NeedsNullFrame
       PROVE  /\ x # <<>> /\ Tail(x) = y
              /\ Head(x) = JournalWrite(FileSize - 1, Header("closed", frame_sequence + 1, <<>>))
              /\ frame_sequence' = frame_sequence + 2
  <2>1. PICK n : n = JournalWrite(FileSize - 1, Header("closed", frame_sequence + 1, <<>>))
    OBVIOUS
  <2>2. NullFrame = <<n>>
    BY <1>12, <1>15, <2>1 DEF NullFrame, ToJournal, JournalWrite
  <2>3. x = <<n>> \o y
    BY <2>2
  <2>4. x # <<>> /\ Head(x) = n /\ Tail(x) = y
    BY <1>8, <2>3, Peel, Zenon
  <2>5. Len(<<n>>) = 1
    OBVIOUS
  <2>6. frame_sequence' = frame_sequence + 2
    BY <2>2, <2>5 DEF SequenceAfterNull
  <2> QED
    BY <2>1, <2>4, <2>6
<1>16. ASSUME ~NeedsNullFrame PROVE x = y /\ frame_sequence' = frame_sequence + 1
  <2>1. NullFrame = <<>> /\ Len(<<>>) = 0
    BY <1>16 DEF NullFrame
  <2>2. x = y
    BY <1>8, <2>1, ConcatEmptySeq, Zenon
  <2> QED
    BY <2>1, <2>2 DEF SequenceAfterNull
<1> QED
  BY <1>9, <1>14, <1>15, <1>16

\* The first number in use, once a frame has been opened.
Lowest(e2, lo) == IF FilledFrom = 0 THEN e2 ELSE lo

\* A new frame is opened for the block.
LEMMA NewFrameFill ==
    ASSUME NEW e, NEW cur, NEW r, NEW lo, NEW f, NEW sp, NEW fm, Idle(e, cur, r, lo, f, sp, fm),
           MapsInv, StartAhead, restoring_start_record = 0, AllocInNewFrame(1), UNCHANGED <<diskVars, flushedMap>>,
           NEW e2 \in Nat, e < e2, frame_sequence' = e2, NEW l, l = Lowest(e2, lo),
           NEW W, W = written'
    PROVE  /\ Fill(e, r, l, f)' /\ (open_current_frame # 0 => l <= e)
           /\ Untouched(W, e, l)'
           /\ AFrame(session_start_record)' \/ session_start_record' = open_current_frame'
<1>1. /\ RingInv /\ RingTypeOK /\ CountersOK /\ OpenFrameFits
  BY DEF MapsInv, RingInv, RingTypeOK
<1>2. /\ Fill(e, r, lo, f) /\ StartThere /\ frame_sequence = e /\ next_free_frame = cur
      /\ InOrder(journal, master, e, cur, r, f, "flushed", sp, fm)
      /\ (open_current_frame = 0 => f = e)
  BY DEF Idle, Settled, InUseBy
<1>3. /\ FilledFrom' = IF FilledFrom = 0 THEN NewFrame ELSE FilledFrom
      /\ NewFrame \in Blocks
      /\ \/ session_start_record' = FilledFrom'
         \/ session_start_record' = session_start_record /\ session_start_record \notin written'
      /\ FilledFrom \notin written' \ {0}
      /\ open_current_frame' = NewFrame
  BY <1>1, NewFrameIs
<1>4. UNCHANGED <<journal, master, handle, flushedMap>> /\ \A b : AFrame(b)' <=> AFrame(b)
  BY DEF diskVars, AFrame
<1>5. /\ e \in Nat /\ r \in 0 .. e /\ f \in r .. e /\ lo \in Nat /\ r < lo /\ (r < f => lo <= f)
      /\ \A b : AFrame(b) => b \in Blocks /\ journal[b].seq \in 1 .. e
  BY <1>2 DEF InOrder, InSequence, AFrame, Fill
<1>6. FilledFrom # 0 => lo <= e /\ AFrame(FilledFrom) /\ journal[FilledFrom].seq = lo /\ l = lo
  BY <1>2, <1>5 DEF Fill, Lowest
<1>7. FilledFrom = 0 => lo = e + 1 /\ r = e /\ f = e /\ open_current_frame = 0 /\ l = e2
  BY <1>2, <1>5 DEF Fill, Lowest
<1>8. AFrame(session_start_record) /\ master.start = session_start_record
  BY <1>2 DEF StartThere
<1>9. open_current_frame # 0 => FilledFrom # 0
  BY <1>7
<1>10. ASSUME NEW b \in Blocks, AFrame(b)'
       PROVE  /\ r < journal'[b].seq /\ journal'[b].seq < l => journal'[b].recs = <<>>
              /\ b \in {session_start_record', master'.start} => journal'[b].seq <= l
  <2>1. CASE FilledFrom = 0
    <3>1. journal[b].seq \in 1 .. e
      BY <1>4, <1>5, <1>10
    <3> QED
      BY <1>4, <1>5, <1>7, <2>1, <3>1
  <2>2. CASE FilledFrom # 0
    <3>1. b \in {session_start_record, master.start} => journal[b].seq <= lo
      BY <1>2, <1>4, <1>10 DEF Fill
    <3>2. r < journal[b].seq /\ journal[b].seq < lo => journal[b].recs = <<>>
      BY <1>2, <1>4, <1>10 DEF Fill
    <3>3. session_start_record' \in {FilledFrom, session_start_record}
      BY <1>3, <2>2
    <3> QED
      BY <1>4, <1>5, <1>6, <2>2, <3>1, <3>2, <3>3
  <2> QED
    BY <2>1, <2>2
<1>11. Fill(e, r, l, f)'
  <2>1. l \in Nat /\ r < l /\ (r < f => l <= f)
    BY <1>5, <1>6, <1>7
  <2>2. /\ FilledFrom' # 0
        /\ IF l <= e THEN AFrame(FilledFrom)' /\ (journal[FilledFrom].seq = l)'
           ELSE l = frame_sequence' /\ FilledFrom' = open_current_frame'
    <3>1. CASE FilledFrom = 0
      BY <1>3, <1>5, <1>7, <3>1 DEF Blocks
    <3>2. CASE FilledFrom # 0
      <4>1. PICK a : a = FilledFrom
        OBVIOUS
      <4>2. AFrame(a)' /\ journal'[a].seq = l /\ FilledFrom' = a
        BY <1>3, <1>4, <1>6, <3>2, <4>1
      <4>3. AFrame(FilledFrom)' /\ (journal[FilledFrom].seq = l)'
        BY <4>2 DEF AFrame
      <4> QED
        BY <1>6, <3>2, <4>1, <4>2, <4>3
    <3> QED
      BY <3>1, <3>2
  <2> QED
    BY <1>10, <2>1, <2>2 DEF Fill
<1>12. ASSUME NEW b \in written'
       PROVE  /\ b \in Blocks /\ (AFrame(b)' => journal'[b].seq < l)
              /\ \A v \in Volume : flushedMap'[v] # b
              /\ b = session_start_record' => b = open_current_frame' /\ e < l
  <2>1. b \in Blocks /\ \A v \in Volume : flushedMap[v] # b
    BY <1>12, NewIsUnused
  <2>2. ASSUME AFrame(b) PROVE journal[b].seq < l
    <3>1. Distance(b) < frames_free
      BY <1>1, <1>12, AllocMoves
    <3>2. journal[b].seq < lo
      BY <1>1, <2>1, <2>2, <3>1, FramesFar
    <3> QED
      BY <1>5, <1>6, <1>7, <2>2, <3>2
  <2>3. b = session_start_record' => b = open_current_frame' /\ e < l
    BY <1>3, <1>7, <1>12, <2>1 DEF Blocks
  <2> QED
    BY <1>4, <2>1, <2>2, <2>3
<1>13. AFrame(session_start_record)' \/ session_start_record' = open_current_frame'
  <2>1. PICK a : a = session_start_record'
    OBVIOUS
  <2>2. AFrame(a) \/ a = open_current_frame'
    BY <1>3, <1>6, <1>8, <2>1
  <2> QED
    BY <1>4, <2>1, <2>2 DEF AFrame
<1>14. Untouched(W, e, l)'
  BY <1>12 DEF Untouched
<1> QED
  BY <1>6, <1>9, <1>11, <1>13, <1>14

LEMMA WriteInNewFrameCrash ==
    ASSUME CrashInv, MapsInv, RingInv', StartAhead, Ready, restoring_start_record = 0,
           NEW v \in Volume, NEW c, WriteInNewFrame(v, c),
           UNCHANGED <<diskVars, session_id, session_current_freespace, mode>>
    PROVE  CrashInv'
<1>1. /\ openMap[v] = 0 /\ AllocInNewFrame(1)
      /\ openMap' = [openMap EXCEPT ![v] = NewFrame + 1] /\ open_recs' = <<v>>
      /\ frame_sequence' = SequenceAfterNull + 1
      /\ io' = CloseFrame \o NullFrame \o MoveStart \o OpenFrame
               \o ToJournal(NewFrame + 1, DataBlock(c))
      /\ UNCHANGED <<flushedMap, restoringMap>>
  BY Zenon DEF WriteInNewFrame
<1>2. mode = "up" /\ io = <<>>
  BY DEF Ready, Done
<1>3. PICK e, cur, r, lo, f, sp, fm : Sessions /\ FrameFits /\ Idle(e, cur, r, lo, f, sp, fm)
  BY ReadyIs DEF Restores
<1>4. /\ InUseBy(e, cur, r, lo, f, sp, fm) /\ Settled(e, cur, r, f) /\ OpenIs(journal, f)
      /\ (r < f => JournalFound(handle)) /\ frame_sequence = e /\ next_free_frame = cur /\ StartThere
      /\ Fill(e, r, lo, f) /\ Committed(r, f, fm) /\ sp = session_current_freespace
      /\ InOrder(journal, master, e, cur, r, f, "flushed", sp, fm)
  BY <1>3 DEF Idle, Settled, InUseBy
<1>5. /\ RingInv /\ RingTypeOK /\ CountersOK /\ OpenFrameFits
      /\ open_current_free \in Nat /\ open_current_used \in Nat /\ e \in Nat /\ f \in 0 .. e
  BY <1>4, RingAssumption DEF MapsInv, RingInv, RingTypeOK, CountersOK, InOrder
<1>6. /\ NewFrame \in Blocks /\ NewFrame + 1 \in Blocks /\ session_start_record <= FileSize - 2
      /\ open_current_frame' = NewFrame /\ next_free_frame' = NewFrame + 2
      /\ open_current_used' + open_current_free' <= FrameMax
      /\ open_remapped' = TRUE /\ written' = NullBlocks \union {NewFrame, NewFrame + 1}
      /\ NeedsNullFrame => /\ next_free_frame = FileSize - 1 /\ NewFrame = 1 /\ FileSize >= 4
                           /\ frames_free >= 2 /\ NullBlocks = {FileSize - 1}
      /\ ~NeedsNullFrame => NewFrame = At(next_free_frame)
      /\ UNCHANGED <<flushed_start_record, flushed_terminal_record, restoring_start_record>>
  BY <1>1, <1>5, NewFrameIs
<1>7. PICK y : y = MoveStart \o (OpenFrame \o ToJournal(NewFrame + 1, DataBlock(c)))
  OBVIOUS
<1>8. PICK x : x = NullFrame \o y
  OBVIOUS
<1>9. io' = CloseFrame \o x
  BY <1>1, <1>7, <1>8, RegroupWrites, Zenon
<1>10. /\ UNCHANGED <<journal, master, handle>> /\ \A b : AFrame(b)' <=> AFrame(b)
  BY DEF diskVars, AFrame
<1>11. /\ x \in Seq(WritesOf(x)) /\ Moving(y)'
       /\ NeedsNullFrame =>
             /\ x # <<>> /\ Tail(x) = y
             /\ Head(x) = JournalWrite(FileSize - 1, Header("closed", frame_sequence + 1, <<>>))
             /\ frame_sequence' = frame_sequence + 2
       /\ ~NeedsNullFrame => x = y /\ frame_sequence' = frame_sequence + 1
  <2>1. master.start = session_start_record /\ master' = master
    BY <1>4, <1>10 DEF StartThere
  <2>2. frame_sequence \in Nat
    BY <1>4, <1>5
  <2> QED
    BY <1>1, <1>7, <1>8, <2>1, <2>2, NewFrameWrites
<1>12. PICK e2 \in Nat : e2 = frame_sequence' /\ e < e2
  BY <1>4, <1>5, <1>11
<1>13. PICK l : l = Lowest(e2, lo)
  OBVIOUS
<1>14. PICK W : W = written'
  OBVIOUS
<1>15. /\ Fill(e, r, l, f)' /\ (open_current_frame # 0 => l <= e)
       /\ Untouched(W, e, l)'
       /\ AFrame(session_start_record)' \/ session_start_record' = open_current_frame'
  BY <1>1, <1>3, <1>12, <1>13, <1>14, NewFrameFill
<1>16. Appending(x, e, cur, l)'
  <2>1. NewFrame # 0
    BY <1>6 DEF Blocks
  <2>2. CASE NeedsNullFrame
    <3>1. W = {FileSize - 1, 1, 2} /\ NewFrame = 1
      BY <1>6, <1>14, <2>2
    <3>2. Head(x) = JournalWrite(FileSize - 1, Header("closed", frame_sequence - 1, <<>>))'
      <4>1. frame_sequence + 1 = frame_sequence' - 1
        BY <1>4, <1>5, <1>11, <2>2
      <4> QED
        BY <1>11, <2>2, <4>1 DEF JournalWrite, Header
    <3>3. master'.start # FileSize - 1
      BY <1>4, <1>5, <1>6, <1>10, RingAssumption DEF StartThere, CountersOK
    <3>4. Untouched({FileSize - 1, 1, 2}, e, l)'
      BY <1>15, <3>1
    <3>5. frame_sequence' = e + 2 /\ cur = FileSize - 1 /\ open_current_frame' = 1 /\ FileSize >= 4
      BY <1>4, <1>6, <1>11, <2>2, <3>1
    <3> QED
      BY <1>11, <1>15, <2>1, <2>2, <3>2, <3>3, <3>4, <3>5, <1>6 DEF Appending
  <2>3. CASE ~NeedsNullFrame
    <3>1. Untouched({open_current_frame, open_current_frame + 1}, e, l)'
      <4>1. PICK V : V = {NewFrame, NewFrame + 1}
        OBVIOUS
      <4>2. V \subseteq W
        BY <1>6, <1>14, <4>1
      <4>3. Untouched(V, e, l)'
        BY <1>15, <4>2 DEF Untouched
      <4> QED
        BY <1>6, <4>1, <4>3 DEF Untouched
    <3>2. frame_sequence' = e + 1 /\ At(cur) = open_current_frame' /\ Moving(x)'
      BY <1>4, <1>6, <1>11, <2>3
    <3> QED
      BY <1>6, <1>15, <2>1, <3>1, <3>2 DEF Appending
  <2> QED
    BY <2>2, <2>3
<1>17. Committed(r, f, fm)'
  <2>1. PICK t : t = flushed_terminal_record
    OBVIOUS
  <2>2. IF t = 0 THEN r = f ELSE r < f /\ AFrame(t)' /\ journal'[t].seq = f
    BY <1>4, <1>10, <2>1 DEF Committed
  <2>3. fm = flushedMap' /\ flushed_terminal_record' = t /\ open_remapped' = TRUE
    BY <1>1, <1>4, <1>6, <2>1 DEF Committed
  <2> QED
    BY <2>2, <2>3 DEF Committed
\* Its record is the first of the new frame.
<1>18. FrameMax >= 1 /\ 1 \in 1 .. FrameMax /\ Len(open_recs') = 1 /\ open_recs'[1] = v
  BY <1>1, RingAssumption
<1>19. ASSUME open_current_frame = 0 PROVE Filling(e, cur, r, l, f, fm)'
  <2>1. f = e
    BY <1>4, <1>19 DEF Settled
  <2>2. \A b \in Blocks : AFrame(b) => journal[b].seq \in 1 .. e /\ journal[b].type # "open"
    <3>1. ASSUME NEW b \in Blocks, AFrame(b) PROVE journal[b].seq \in 1 .. e /\ journal[b].type # "open"
      <4>1. journal[b].seq \in 1 .. e /\ MarkFits(journal[b], r, f, "flushed") /\ r \in 0 .. e
        BY <1>4, <3>1 DEF InOrder, InSequence, Marked, AFrame
      <4> QED
        BY <1>5, <2>1, <4>1 DEF MarkFits
    <3> QED
      BY <3>1
  <2>3. PICK k : k = journal'
    OBVIOUS
  <2>4. ASSUME NEW b \in Blocks, NEW i \in 1 .. FrameMax, NEW u
        PROVE  OpenRecord(k, f, b, i, u)' <=>
                  OpenRecord(journal, f, b, i, u) \/ (b = NewFrame /\ i = 1 /\ u = v)
    <3>1. b # 0 /\ ~(AFrame(b) /\ f < journal[b].seq)
      BY <1>5, <2>1, <2>2 DEF Blocks
    <3>2. ~OpenRecord(journal, f, b, i, u)
      BY <1>19, <3>1 DEF OpenRecord, AFrame
    <3>3. OpenRecord(k, f, b, i, u)' <=> (b = NewFrame /\ i <= 1 /\ open_recs'[i] = u)
      BY <1>6, <1>10, <1>18, <2>3, <3>1 DEF OpenRecord, AFrame
    <3> QED
      BY <1>18, <3>2, <3>3
  <2>5. OpenIs(k, f)'
    <3>1. MoreRecords(k, f, NewFrame, 1, v)
      BY <2>4 DEF MoreRecords
    <3>2. MapsTyped /\ openMap[v] = 0 /\ openMap' = [openMap EXCEPT ![v] = NewFrame + 1]
      BY <1>1 DEF MapsInv
    <3> QED
      BY <1>4, <1>6, <1>18, <3>1, <3>2, OneMoreRecord
  <2>6. OpenIs(journal, f)'
    BY <2>3, <2>5
  <2>7. io' = x
    <3>1. CloseFrame = <<>>
      BY <1>19 DEF CloseFrame
    <3> QED
      BY <1>9, <1>11, <3>1, ConcatEmptySeq, Zenon
  <2>8. AppendPending(e, cur, l)'
    <3>1. \A b \in Blocks : AFrame(b)' => journal'[b].type # "open"
      BY <1>10, <2>2
    <3>2. Appending(io, e, cur, l)'
      BY <1>16, <2>7
    <3> QED
      BY <3>1, <3>2 DEF AppendPending
  <2> QED
    BY <1>17, <2>6, <2>8 DEF Filling
<1>20. ASSUME open_current_frame # 0 PROVE Filling(e, cur, r, l, f, fm)'
  <2>1. PICK b0 : b0 = open_current_frame
    OBVIOUS
  <2>2. /\ f < e /\ OpenThere(b0, e) /\ b0 \in Blocks /\ cur = b0 + 1 + open_current_used
        /\ open_recs \in Seq(Volume) /\ Len(open_recs) = open_current_used
        /\ open_current_used <= FrameMax
    <3>1. f < e /\ OpenThere(b0, e)
      BY <1>4, <1>20, <2>1 DEF Settled
    <3>2. cur = b0 + 1 + open_current_used
      BY <1>4, <1>5, <1>20, <2>1 DEF OpenFrameFits
    <3>3. open_recs \in Seq(Volume) /\ Len(open_recs) = open_current_used
      BY <1>20 DEF MapsInv, MapsTyped
    <3>4. open_current_used <= FrameMax
      BY <1>3, <1>5, RingAssumption DEF FrameFits
    <3> QED
      BY <3>1, <3>2, <3>3, <3>4 DEF OpenThere, AFrame
  <2>3. PICK h : h = Header("closed", e, open_recs)
    OBVIOUS
  <2>4. PICK w : w = JournalWrite(b0, h)
    OBVIOUS
  <2>5. CloseFrame = <<w>>
    BY <1>4, <1>20, <2>1, <2>3, <2>4 DEF CloseFrame, ToJournal, JournalWrite
  <2>6. io' # <<>> /\ Head(io') = w /\ Tail(io') = x
    <3>1. io' = <<w>> \o x
      BY <1>9, <2>5
    <3> QED
      BY <1>11, <3>1, Peel, Zenon
  <2>7. Closing(Head(io), b0, e, cur, "closed")'
    <3>1. OpenThere(b0, e)'
      BY <1>10, <2>2 DEF OpenThere
    <3>2. PICK recs \in Seq(Volume) : recs = open_recs
      BY <2>2
    <3>3. w = JournalWrite(b0, Header("closed", e, recs))'
      BY <2>3, <2>4, <3>2 DEF JournalWrite, Header
    <3> QED
      BY <2>2, <2>6, <3>1, <3>2, <3>3 DEF Closing
  <2>8. ClosePending(e, cur, l, f)'
    <3>1. Appending(Tail(io), e, cur, l)'
      BY <1>16, <2>6
    <3> QED
      BY <1>15, <1>20, <2>2, <2>6, <2>7, <3>1 DEF ClosePending
  <2>9. PICK k : k = Closed'
    OBVIOUS
  <2>10. k[b0] = h /\ \A b \in Blocks \ {b0} : k[b] = journal[b]
    <3>1. w.to = "journal" /\ w.at = b0 /\ w.val = h /\ h.type = "closed"
      BY <2>3, <2>4 DEF JournalWrite, Header
    <3> QED
      BY <1>10, <2>2, <2>6, <2>9, <3>1 DEF Closed
  <2>11. /\ h.type = "closed" /\ h.seq = e /\ h.session = master.session /\ h.recs = open_recs
         /\ journal[b0].type = "open"
    BY <1>3, <2>2, <2>3 DEF Header, FrameFits, OpenThere
  <2>12. \A b \in Blocks : b # b0 => b # open_current_frame
    BY <2>1
  <2>13. b0 # NewFrame
    <3>1. b0 \in Headers
      BY <1>20, <2>1 DEF Headers
    <3>2. NewFrame \notin Headers
      BY <1>1, <1>6, NewIsUnused
    <3> QED
      BY <3>1, <3>2
  <2>14. ASSUME NEW b \in Blocks, NEW i \in 1 .. FrameMax, NEW u
         PROVE  OpenRecord(k, f, b, i, u)' <=>
                   OpenRecord(journal, f, b, i, u) \/ (b = NewFrame /\ i = 1 /\ u = v)
    <3>1. (b = open_current_frame' /\ i <= Len(open_recs') /\ open_recs'[i] = u) <=>
             (b = NewFrame /\ i = 1 /\ u = v)
      BY <1>6, <1>18
    <3>2. CASE b = b0
      <4>1. OpenRecord(k, f, b, i, u)' <=> (i <= Len(open_recs) /\ open_recs[i] = u)
        BY <1>10, <2>2, <2>10, <2>11, <2>13, <3>1, <3>2 DEF OpenRecord, IsFrame
      <4>2. OpenRecord(journal, f, b, i, u) <=> (i <= Len(open_recs) /\ open_recs[i] = u)
        BY <2>1, <2>11, <3>2 DEF OpenRecord
      <4> QED
        BY <2>13, <3>2, <4>1, <4>2
    <3>3. CASE b # b0
      <4>1. k[b] = journal[b] /\ b # open_current_frame
        BY <2>1, <2>10, <3>3
      <4> QED
        BY <1>10, <3>1, <4>1 DEF OpenRecord, IsFrame
    <3> QED
      BY <3>2, <3>3
  <2>15. OpenIs(k, f)'
    <3>1. MoreRecords(k, f, NewFrame, 1, v)
      BY <2>14 DEF MoreRecords
    <3>2. MapsTyped /\ openMap[v] = 0 /\ openMap' = [openMap EXCEPT ![v] = NewFrame + 1]
      BY <1>1 DEF MapsInv
    <3> QED
      BY <1>4, <1>6, <1>18, <3>1, <3>2, OneMoreRecord
  <2>16. OpenIs(Closed, f)'
    BY <2>9, <2>15
  <2> QED
    BY <1>17, <2>8, <2>16 DEF Filling
<1>21. Filling(e, cur, r, l, f, fm)'
  BY <1>19, <1>20
<1>22. Writing(e, cur, r, l, f, "flushed", sp, fm)'
  <2>1. r < f => JournalFound(handle)'
    BY <1>4, <1>10 DEF JournalFound
  <2>2. restoring_start_record' = 0 /\ sp = session_current_freespace'
    BY <1>4, <1>6
  <2> QED
    BY <1>15, <1>21, <2>1, <2>2 DEF Writing
<1>23. Stage(e, cur, r, l, f, "flushed", sp, fm)'
  BY <1>2, <1>3, <1>6, <1>10, <1>22 DEF Stage, FrameFits
<1> QED
  BY <1>3, <1>4, <1>23, SameJournal

LEMMA WriteCrash ==
    ASSUME CrashInv, MapsInv, DiskInv, RingInv', StartAhead, AsyncRestore = FALSE,
           NEW v \in Volume, NEW c, Write(v, c)
    PROVE  CrashInv'
<1>1. /\ Ready /\ MayWrite
      /\ Rewrite(v, c) \/ WriteInFrame(v, c) \/ WriteInNewFrame(v, c)
      /\ UNCHANGED <<diskVars, session_id, session_current_freespace, mode>>
  BY Zenon DEF Write
<1>2. restoring_start_record = 0
  BY <1>1 DEF MayWrite
<1> QED
  BY <1>1, <1>2, RewriteCrash, WriteInFrameCrash, WriteInNewFrameCrash

-----------------------------------------------------------------------------
(* Commits *)

\* A commit always has something to write as long as something is in the open
\* map: only a journal-full error forgets that the session has blocks.
Remapped == open_remapped \/ openMap = NoMap

LEMMA RemappedSame ==
    ASSUME Remapped, UNCHANGED <<open_remapped, openMap>>
    PROVE  Remapped'
  BY DEF Remapped

LEMMA StepRemapped ==
    ASSUME MapsInv, Remapped, [FsNext]_fsVars, "full" \notin Allowed
    PROVE  Remapped'
<1>1. openMap' = NoMap => Remapped'
  BY DEF Remapped
<1>2. UNCHANGED ringVars /\ UNCHANGED mapVars => Remapped'
  BY RemappedSame DEF ringVars, openVars, mapVars
<1>3. CASE DiskWrite \/ Mount \/ Recover \/ Remount \/ RestorePass \/ UNCHANGED fsVars
  BY <1>2, <1>3, Zenon DEF DiskWrite, Mount, Recover, Remount, RestorePass, fsVars
<1>4. CASE Crash \/ BeginSession
  BY <1>1, <1>4, Zenon DEF Crash, BeginSession, InMemory
<1>5. ASSUME NEW v, NEW c, Write(v, c) PROVE Remapped'
  <2>1. CASE Rewrite(v, c)
    BY <1>2, <2>1, Zenon DEF Rewrite
  <2>2. CASE WriteInFrame(v, c)
    BY <2>2, Zenon DEF WriteInFrame, AllocInFrame, Remapped
  <2>3. CASE WriteInNewFrame(v, c)
    <3>1. 1 > 0
      OBVIOUS
    <3> QED
      BY <2>3, <3>1, Zenon DEF WriteInNewFrame, AllocInNewFrame, Remapped
  <2> QED
    BY <1>5, <2>1, <2>2, <2>3, Zenon DEF Write
<1>6. CASE WriteData \/ Create \/ Delete
  BY <1>5, <1>6, Zenon DEF WriteData, Create, Delete
<1>7. CASE WriteFails
  BY <1>7, Zenon DEF WriteFails
<1>8. CASE Commit
  <2>1. \/ openMap' = NoMap
        \/ UNCHANGED <<ringVars, openMap>>
    BY <1>8, Zenon DEF Commit
  <2> QED
    BY <1>1, <2>1, RemappedSame, Zenon DEF ringVars, openVars
<1>9. CASE StartRestore
  <2>1. openMap' = openMap /\ ~open_remapped
    BY <1>9, Zenon DEF StartRestore
  <2> QED
    BY <1>1, <2>1, Zenon DEF Remapped
<1>10. CASE EndRestore
  <2>1. openMap' = openMap /\ UNCHANGED openVars
    BY <1>10, Zenon DEF EndRestore, RestoreComplete
  <2> QED
    BY <2>1, RemappedSame, Zenon DEF openVars
<1> QED
  BY <1>3, <1>4, <1>6, <1>7, <1>8, <1>9, <1>10, Zenon DEF FsNext

\* Once the last frame is flushed, its records and those of the closed frames
\* after the last committed one are committed.
LEMMA FlushedRecords ==
    ASSUME NEW e, NEW cur, NEW r, NEW f, NEW sp, NEW fm,
           InOrder(journal, master, e, cur, r, f, "flushed", sp, fm), f < e,
           NEW b0, b0 = open_current_frame, OpenThere(b0, e), NEW h, h.type = "flushed", h.seq = e,
           h.session = master.session, h.recs = open_recs,
           NEW k, \A b \in Blocks : k[b] = IF b = b0 THEN h ELSE journal[b],
           NEW b \in Blocks, NEW i \in 1 .. FrameMax, NEW u
    PROVE  /\ RecordIn(k, master, r, e, b, i, u) <=>
                 RecordIn(journal, master, r, f, b, i, u) \/ OpenRecord(journal, f, b, i, u)
           /\ RecordIn(journal, master, r, f, b, i, u) => b # b0 /\ k[b].seq <= f
           /\ OpenRecord(journal, f, b, i, u) => f < k[b].seq
<1>1. /\ e \in Nat /\ r \in 0 .. e /\ f \in r .. e /\ Marked(journal, master, r, f, "flushed")
      /\ InSequence(journal, master, e, cur)
  BY DEF InOrder
<1>2. b0 \in Blocks /\ IsFrame(journal, master, b0) /\ journal[b0].seq = e /\ journal[b0].type = "open"
  BY DEF OpenThere, AFrame
<1>3. CASE b = b0
  <2>1. k[b] = h /\ IsFrame(k, master, b)
    BY <1>3 DEF IsFrame
  <2>2. RecordIn(k, master, r, e, b, i, u) <=> (i <= Len(open_recs) /\ open_recs[i] = u)
    BY <1>1, <2>1 DEF RecordIn
  <2>3. ~RecordIn(journal, master, r, f, b, i, u)
    BY <1>1, <1>2, <1>3 DEF RecordIn
  <2>4. OpenRecord(journal, f, b, i, u) <=> (i <= Len(open_recs) /\ open_recs[i] = u)
    BY <1>2, <1>3 DEF OpenRecord
  <2> QED
    BY <1>1, <2>1, <2>2, <2>3, <2>4
<1>4. CASE b # b0
  <2>1. k[b] = journal[b] /\ (IsFrame(k, master, b) <=> IsFrame(journal, master, b))
    BY <1>4 DEF IsFrame
  <2>2. ASSUME IsFrame(journal, master, b), f < journal[b].seq PROVE journal[b].type = "closed"
    <3>1. journal[b].type \in {"closed", "open"} /\ journal[b].seq \in 1 .. e
      BY <1>1, <2>2 DEF Marked, MarkFits, InSequence
    <3>2. CASE journal[b].type = "open"
      <4>1. journal[b].seq = journal[b0].seq
        BY <1>1, <1>2, <2>2, <3>2 DEF InSequence
      <4> QED
        BY <1>1, <1>2, <1>4, <2>2, <4>1, SeqOnce DEF InOrder
    <3> QED
      BY <3>1, <3>2
  <2>3. IsFrame(journal, master, b) => journal[b].seq \in 1 .. e
    BY <1>1 DEF InSequence
  <2>4. OpenRecord(journal, f, b, i, u) <=>
           /\ IsFrame(journal, master, b) /\ f < journal[b].seq
           /\ i <= Len(journal[b].recs) /\ journal[b].recs[i] = u
    BY <1>4, <2>2 DEF OpenRecord
  <2> QED
    BY <1>1, <1>4, <2>1, <2>3, <2>4 DEF RecordIn
<1> QED
  BY <1>3, <1>4

LEMMA OverlayMap ==
    ASSUME NEW e, NEW cur, NEW r, NEW f, NEW sp, NEW fm,
           InOrder(journal, master, e, cur, r, f, "flushed", sp, fm), f < e, fm = flushedMap,
           OpenIs(journal, f),
           NEW b0, b0 = open_current_frame, OpenThere(b0, e), NEW h, h.type = "flushed", h.seq = e,
           h.session = master.session, h.recs = open_recs,
           NEW k, \A b \in Blocks : k[b] = IF b = b0 THEN h ELSE journal[b]
    PROVE  MapOf(k, master, r, e, Overlay(openMap, flushedMap))
<1> DEFINE A(b, i, u) == RecordIn(journal, master, r, f, b, i, u)
           B(b, i, u) == OpenRecord(journal, f, b, i, u)
           K(b, i, u) == RecordIn(k, master, r, e, b, i, u)
           gm == Overlay(openMap, flushedMap)
<1>1. \A b \in Blocks, i \in 1 .. FrameMax : \A u :
         /\ K(b, i, u) <=> A(b, i, u) \/ B(b, i, u)
         /\ A(b, i, u) => b # b0 /\ k[b].seq <= f
         /\ B(b, i, u) => f < k[b].seq
  <2>1. SUFFICES ASSUME NEW b \in Blocks, NEW i \in 1 .. FrameMax, NEW u
                 PROVE  /\ K(b, i, u) <=> A(b, i, u) \/ B(b, i, u)
                        /\ A(b, i, u) => b # b0 /\ k[b].seq <= f
                        /\ B(b, i, u) => f < k[b].seq
    OBVIOUS
  <2> QED
    BY FlushedRecords
<1>2. ASSUME NEW u \in Volume
      PROVE  /\ gm[u] # 0 => \E b \in Blocks, i \in 1 .. FrameMax : K(b, i, u) /\ gm[u] = b + i
             /\ \A b \in Blocks, i \in 1 .. FrameMax : K(b, i, u) =>
                   \E c \in Blocks, l \in 1 .. FrameMax :
                      /\ K(c, l, u) /\ gm[u] = c + l
                      /\ k[b].seq < k[c].seq \/ (b = c /\ i <= l)
  <2>1. gm[u] = IF openMap[u] # 0 THEN openMap[u] ELSE fm[u]
    BY DEF Overlay
  <2> HIDE DEF gm
  <2>2. CASE openMap[u] # 0
    <3>1. PICK c \in Blocks, l \in 1 .. FrameMax : B(c, l, u)
      BY <2>2 DEF OpenIs
    <3>2. /\ openMap[u] = c + l
          /\ \A b \in Blocks, i \in 1 .. FrameMax : B(b, i, u) => b = c /\ i = l
      BY <3>1 DEF OpenIs
    <3>3. K(c, l, u) /\ gm[u] = c + l /\ f < k[c].seq
      BY <1>1, <2>1, <2>2, <3>1, <3>2
    <3>4. ASSUME NEW b \in Blocks, NEW i \in 1 .. FrameMax, K(b, i, u)
          PROVE  k[b].seq < k[c].seq \/ (b = c /\ i <= l)
      <4>1. CASE B(b, i, u)
        BY <3>2, <4>1
      <4>2. CASE A(b, i, u)
        <5>1. k[b].seq <= f /\ f < k[c].seq
          BY <1>1, <3>3, <4>2
        <5>2. k[b].seq \in Int /\ k[c].seq \in Int /\ f \in Int
          <6>1. \A a \in Blocks : IsFrame(k, master, a) => k[a].seq \in Int
            BY SMT DEF InOrder, InSequence, IsFrame
          <6> QED
            BY <3>3, <3>4, <6>1 DEF RecordIn, InOrder
        <5> QED
          BY <5>1, <5>2
      <4> QED
        BY <1>1, <3>4, <4>1, <4>2
    <3> QED
      BY <3>3, <3>4
  <2>3. CASE openMap[u] = 0
    <3>1. \A b \in Blocks, i \in 1 .. FrameMax : K(b, i, u) <=> A(b, i, u)
      BY <1>1, <2>3, NothingOpen
    <3>2. \A b \in Blocks, i \in 1 .. FrameMax : A(b, i, u) => k[b] = journal[b]
      BY <1>1
    <3>3. /\ fm[u] # 0 => \E b \in Blocks, i \in 1 .. FrameMax : A(b, i, u) /\ fm[u] = b + i
          /\ \A b \in Blocks, i \in 1 .. FrameMax : A(b, i, u) =>
                \E c \in Blocks, l \in 1 .. FrameMax :
                   /\ A(c, l, u) /\ fm[u] = c + l
                   /\ journal[b].seq < journal[c].seq \/ (b = c /\ i <= l)
      BY DEF InOrder, MapOf
    <3> HIDE DEF A, K, B
    <3>4. ASSUME NEW b \in Blocks, NEW i \in 1 .. FrameMax, K(b, i, u)
          PROVE  \E c \in Blocks, l \in 1 .. FrameMax :
                    /\ K(c, l, u) /\ gm[u] = c + l
                    /\ k[b].seq < k[c].seq \/ (b = c /\ i <= l)
      <4>1. A(b, i, u)
        BY <3>1, <3>4
      <4>2. PICK c \in Blocks, l \in 1 .. FrameMax :
               /\ A(c, l, u) /\ fm[u] = c + l
               /\ journal[b].seq < journal[c].seq \/ (b = c /\ i <= l)
        BY <3>3, <4>1
      <4>3. K(c, l, u) /\ k[b] = journal[b] /\ k[c] = journal[c]
        BY <3>1, <3>2, <4>1, <4>2
      <4> QED
        BY <2>1, <2>3, <4>2, <4>3
    <3>5. gm[u] # 0 => \E b \in Blocks, i \in 1 .. FrameMax : K(b, i, u) /\ gm[u] = b + i
      BY <2>1, <2>3, <3>1, <3>3
    <3> QED
      BY <3>4, <3>5
  <2> QED
    BY <2>2, <2>3
<1> QED
  BY <1>2 DEF MapOf

LEMMA CommitWrites ==
    ASSUME NEW b, NEW x, NEW s, s = ToJournal(b, x) \o MarkHandle \o Return,
           NEW w, w = JournalWrite(b, x)
    PROVE  s # <<>> /\ Head(s) = w /\ Tail(s) = MarkHandle \o Return
<1>1. PICK p, q, t : p = <<w>> /\ q = MarkHandle /\ t = Return
  OBVIOUS
<1>2. ToJournal(b, x) = p
  BY <1>1 DEF ToJournal, JournalWrite
<1>3. p \in Seq(WritesOf(p)) /\ q \in Seq(WritesOf(q)) /\ t \in Seq(WritesOf(t))
  BY <1>1, OneWrite, NoWrites, KindsOfWrites DEF MarkHandle
<1>4. PICK S : S = WritesOf(p) \union WritesOf(q) \union WritesOf(t)
  OBVIOUS
<1>5. p \in Seq(S) /\ q \in Seq(S) /\ t \in Seq(S)
  BY <1>3, <1>4, SeqMonotonic
<1>6. (p \o q) \o t = p \o (q \o t)
  <2>1. SeqOf(p, S) /\ SeqOf(q, S) /\ SeqOf(t, S)
    BY <1>5 DEF SeqOf
  <2>2. Cat(Cat(p, q), t) = Cat(p, Cat(q, t))
    BY <2>1, CatIs
  <2> QED
    BY <2>2, Zenon DEF Cat
<1>7. PICK u : u = q \o t
  OBVIOUS
<1>8. u \in Seq(WritesOf(u))
  BY <1>3, <1>7, MoreWrites, Zenon
<1>9. s = <<w>> \o u
  BY <1>1, <1>2, <1>6, <1>7, Zenon
<1>10. s # <<>> /\ Head(s) = w /\ Tail(s) = u
  BY <1>8, <1>9, Peel, Zenon
<1> QED
  BY <1>1, <1>7, <1>10

LEMMA CommitCrash == ASSUME CrashInv, MapsInv, DiskInv, Remapped, Commit PROVE CrashInv'
<1>1. /\ Ready /\ restoring_start_record = 0
      /\ UNCHANGED <<diskVars, restoringMap, sessionVars, mode>>
      /\ open_remapped =>
            /\ Flush
            /\ io' = ToJournal(open_current_frame, Header("flushed", frame_sequence, open_recs))
                     \o MarkHandle \o Return
            /\ flushedMap' = Overlay(openMap, flushedMap)
            /\ openMap' = NoMap /\ open_recs' = <<>>
      /\ ~open_remapped =>
            /\ io' = Return
            /\ UNCHANGED <<ringVars, openMap, flushedMap, open_recs>>
  BY Zenon DEF Commit
<1>2. mode = "up" /\ io = <<>>
  BY <1>1 DEF Ready, Done
<1>3. PICK e, cur, r, lo, f, sp, fm : Sessions /\ FrameFits /\ Idle(e, cur, r, lo, f, sp, fm)
  BY <1>1, ReadyIs DEF Restores
<1>4. /\ InUseBy(e, cur, r, lo, f, sp, fm) /\ Settled(e, cur, r, f) /\ OpenIs(journal, f)
      /\ (r < f => JournalFound(handle)) /\ frame_sequence = e /\ next_free_frame = cur /\ StartThere
      /\ Fill(e, r, lo, f) /\ Committed(r, f, fm) /\ sp = session_current_freespace
      /\ InOrder(journal, master, e, cur, r, f, "flushed", sp, fm)
  BY <1>3 DEF Idle, Settled, InUseBy
\* Nothing has been written since the last commit.
<1>5. CASE ~open_remapped
  <2>1. openMap = NoMap /\ io' = Return /\ UNCHANGED <<ringVars, mapVars>>
    BY <1>1, <1>5 DEF Remapped, mapVars
  <2> QED
    BY <1>1, <1>2, <1>3, <2>1, MemoryKept
<1>6. CASE open_remapped
  <2>1. /\ Flush /\ flushedMap' = Overlay(openMap, flushedMap)
        /\ io' = ToJournal(open_current_frame, Header("flushed", frame_sequence, open_recs))
                 \o MarkHandle \o Return
        /\ openMap' = NoMap /\ open_recs' = <<>>
    BY <1>1, <1>6
  <2>2. /\ flushed_start_record' = FlushStart /\ flushed_terminal_record' = open_current_frame
        /\ open_current_frame' = 0 /\ open_current_used' = 0 /\ open_current_free' = 0
        /\ UNCHANGED <<cursors, open_start_record, restoring_start_record>>
    BY <2>1, Zenon DEF Flush, restoringVars
  <2>3. /\ RingInv /\ RingTypeOK /\ CountersOK /\ OpenFrameFits /\ e \in Nat
        /\ open_current_used \in Nat /\ open_current_free \in Nat
    BY <1>4, RingAssumption DEF MapsInv, RingInv, RingTypeOK, CountersOK, InOrder
  <2>4. PICK b0 : b0 = open_current_frame
    OBVIOUS
  <2>5. b0 # 0 /\ open_start_record # 0 /\ cur = b0 + 1 + open_current_used
    BY <1>4, <1>6, <2>3, <2>4 DEF OpenFrameFits
  <2>6. /\ f < e /\ OpenThere(b0, e) /\ b0 \in Blocks
        /\ open_recs \in Seq(Volume) /\ Len(open_recs) = open_current_used
        /\ open_current_used <= FrameMax
    <3>1. f < e /\ OpenThere(b0, e)
      BY <1>4, <2>4, <2>5 DEF Settled
    <3>2. open_recs \in Seq(Volume) /\ Len(open_recs) = open_current_used
      BY <2>4, <2>5 DEF MapsInv, MapsTyped
    <3>3. open_current_used <= FrameMax
      BY <1>3, <2>3, RingAssumption DEF FrameFits
    <3> QED
      BY <3>1, <3>2, <3>3 DEF OpenThere, AFrame
  <2>7. /\ UNCHANGED <<journal, master, handle>> /\ \A b : AFrame(b)' <=> AFrame(b)
        /\ session_start_record' = session_start_record /\ next_free_frame' = next_free_frame
        /\ UNCHANGED <<session_id, frame_sequence, session_current_freespace>>
    BY <1>1, <2>2 DEF diskVars, AFrame, cursors, sessionVars
  <2>8. FilledFrom' = FilledFrom /\ FilledFrom # 0
    BY <2>2, <2>5 DEF FilledFrom, FlushStart
  <2>9. lo <= e /\ AFrame(FilledFrom) /\ journal[FilledFrom].seq = lo
    BY <1>4, <2>3, <2>8 DEF Fill
  <2>10. Fill(e, r, lo, f)'
    <3>1. PICK a : a = FilledFrom
      OBVIOUS
    <3>2. AFrame(a)' /\ journal'[a].seq = lo /\ FilledFrom' = a
      BY <2>7, <2>8, <2>9, <3>1
    <3>3. AFrame(FilledFrom)' /\ (journal[FilledFrom].seq = lo)'
      BY <3>2 DEF AFrame
    <3>4. lo \in Nat /\ r < lo /\ (r < f => lo <= f)
      BY <1>4 DEF Fill
    <3>5. \A b \in Blocks : AFrame(b)' =>
             /\ r < journal'[b].seq /\ journal'[b].seq < lo => journal'[b].recs = <<>>
             /\ b \in {session_start_record', master'.start} => journal'[b].seq <= lo
      BY <1>4, <2>7 DEF Fill
    <3> QED
      BY <2>8, <2>9, <3>1, <3>2, <3>3, <3>4, <3>5 DEF Fill
  <2>11. PICK h : h = Header("flushed", e, open_recs)
    OBVIOUS
  <2>12. PICK w : w = JournalWrite(b0, h)
    OBVIOUS
  <2>13. io' # <<>> /\ Head(io') = w /\ Tail(io') = MarkHandle \o Return
    <3>1. io' = ToJournal(b0, h) \o MarkHandle \o Return
      BY <1>4, <2>1, <2>4, <2>11
    <3> QED
      BY <2>12, <3>1, CommitWrites
  <2>14. Closing(Head(io), flushed_terminal_record, e, cur, "flushed")'
    <3>1. OpenThere(b0, e)'
      BY <2>6, <2>7 DEF OpenThere
    <3>2. PICK recs \in Seq(Volume) : recs = open_recs
      BY <2>6
    <3>3. w = JournalWrite(b0, Header("flushed", e, recs))'
      BY <2>7, <2>11, <2>12, <3>2 DEF JournalWrite, Header
    <3>4. Closing(w, b0, e, cur, "flushed")'
      BY <2>5, <2>6, <3>1, <3>2, <3>3 DEF Closing
    <3> QED
      BY <2>2, <2>4, <2>13, <3>4
  <2>15. PICK k : k = [journal EXCEPT ![b0] = h]
    OBVIOUS
  <2>16. MapOf(k, master, r, e, Overlay(openMap, flushedMap))
    <3>1. \A b \in Blocks : k[b] = IF b = b0 THEN h ELSE journal[b]
      <4>1. DOMAIN journal = Blocks
        BY DEF DiskInv, DiskTyped
      <4> QED
        BY <2>6, <2>15, <4>1
    <3>2. h.type = "flushed" /\ h.seq = e /\ h.session = master.session /\ h.recs = open_recs
      BY <1>3, <2>11 DEF Header, FrameFits
    <3>3. fm = flushedMap
      BY <1>4 DEF Committed
    <3> QED
      BY <1>4, <2>4, <2>6, <3>1, <3>2, <3>3, OverlayMap
  <2>17. MapOf([journal EXCEPT ![flushed_terminal_record] = Head(io).val], master, r, e, flushedMap)'
    <3>1. w.val = h
      BY <2>12 DEF JournalWrite
    <3>2. [journal' EXCEPT ![flushed_terminal_record'] = Head(io').val] = k
      BY <2>2, <2>4, <2>7, <2>13, <2>15, <3>1
    <3>3. PICK g : g = flushedMap'
      OBVIOUS
    <3>4. MapOf(k, master', r, e, g)
      BY <2>1, <2>7, <2>16, <3>3
    <3>5. MapOf(k, master, r, e, flushedMap)'
      BY <3>3, <3>4 DEF MapOf, RecordIn, IsFrame
    <3> QED
      BY <3>2, <3>5
  <2>18. \A v \in Volume : fm[v] # flushed_terminal_record'
    <3>1. b0 \in Headers /\ fm = flushedMap
      BY <1>4, <2>4, <2>5 DEF Headers, Committed
    <3> QED
      BY <2>2, <2>4, <3>1 DEF MapsInv, HeadersApart
  <2>19. Flushing(e, cur, r, lo, f, fm)'
    <3>1. StartThere'
      BY <1>4, <2>7 DEF StartThere
    <3>2. frame_sequence' = e /\ next_free_frame' = cur /\ FilledFrom' # 0
      BY <1>4, <2>7, <2>8
    <3>3. (Tail(io) = MarkHandle \o Return)'
      BY <2>13 DEF MarkHandle, Return, ToHandle
    <3> QED
      BY <2>1, <2>2, <2>6, <2>9, <2>13, <2>14, <2>17, <2>18, <3>1, <3>2, <3>3 DEF Flushing
  <2>20. Writing(e, cur, r, lo, f, "flushed", sp, fm)'
    <3>1. r < f => JournalFound(handle)'
      BY <1>4, <2>7 DEF JournalFound
    <3>2. restoring_start_record' = 0 /\ sp = session_current_freespace'
      BY <1>1, <1>4, <2>2, <2>7
    <3> QED
      BY <2>10, <2>19, <3>1, <3>2 DEF Writing
  <2>21. FrameFits'
    BY <1>3, <2>2, <2>7, RingAssumption DEF FrameFits
  <2>22. Stage(e, cur, r, lo, f, "flushed", sp, fm)'
    BY <1>1, <1>2, <2>20, <2>21 DEF Stage, FrameFits
  <2> QED
    BY <1>1, <1>3, <1>4, <2>22, SameJournal
<1> QED
  BY <1>5, <1>6

-----------------------------------------------------------------------------
(* The start of a restore, and all steps together *)

LEMMA StartRestoreCrash == ASSUME CrashInv, MapsInv, Remapped, StartRestore PROVE CrashInv'
<1>1. /\ Ready /\ ~open_remapped /\ RestoreStart /\ restoringMap' = flushedMap /\ flushedMap' = NoMap
      /\ restore_state' = "mark"
      /\ UNCHANGED <<diskVars, openMap, session_id, frame_sequence, mode, io>>
  BY Zenon DEF StartRestore
<1>2. mode = "up" /\ io = <<>>
  BY <1>1 DEF Ready, Done
<1>3. /\ restoring_start_record = 0
      /\ flushed_start_record # 0 /\ flushed_terminal_record # 0
      /\ restoring_start_record' = flushed_start_record
      /\ restoring_terminal_record' = flushed_terminal_record
      /\ open_start_record' = 0 /\ open_current_frame' = 0
      /\ open_current_used' = 0 /\ open_current_free' = 0
      /\ flushed_start_record' = 0 /\ flushed_terminal_record' = 0
      /\ UNCHANGED cursors
  BY <1>1, Zenon DEF RestoreStart
<1>4. PICK e, cur, r, lo, f, sp, fm : Sessions /\ FrameFits /\ Idle(e, cur, r, lo, f, sp, fm)
  BY <1>1, <1>3, ReadyIs DEF Restores
<1>5. /\ Settled(e, cur, r, f) /\ Committed(r, f, fm)
      /\ (r < f => JournalFound(handle)) /\ frame_sequence = e /\ next_free_frame = cur /\ StartThere
      /\ InOrder(journal, master, e, cur, r, f, "flushed", sp, fm)
  BY <1>4 DEF Idle, Settled, InUseBy
<1>6. open_current_frame = 0 /\ f = e
  BY <1>1, <1>3, <1>5 DEF Committed, Settled
<1>7. /\ r < f /\ AFrame(flushed_terminal_record) /\ journal[flushed_terminal_record].seq = f
      /\ fm = flushedMap
  BY <1>3, <1>5 DEF Committed
<1>8. openMap = NoMap
  BY <1>1 DEF Remapped
<1>9. /\ UNCHANGED <<journal, master, handle, volume>> /\ \A b : AFrame(b)' <=> AFrame(b)
      /\ UNCHANGED <<session_start_record, next_free_frame>>
  BY <1>1, <1>3 DEF diskVars, AFrame, cursors
<1>10. StartThere' /\ FilledFrom' = 0
  BY <1>3, <1>5, <1>9 DEF StartThere, FilledFrom
<1>11. PICK b : b = flushed_terminal_record
  OBVIOUS
<1>12. AFrame(restoring_terminal_record)' /\ (journal[restoring_terminal_record].seq = e)'
  <2>1. AFrame(b)' /\ journal'[b].seq = e /\ restoring_terminal_record' = b
    BY <1>3, <1>6, <1>7, <1>9, <1>11
  <2> QED
    BY <2>1 DEF AFrame
<1>13. Passes(restoring_terminal_record, r, f, "flushed", fm)'
  BY <1>1, <1>2, <1>7 DEF Passes
<1>14. Restores(e, cur, r, f, "flushed", fm)'
  <2>1. frame_sequence' = e /\ next_free_frame' = cur /\ restoring_start_record' # 0
    BY <1>1, <1>3, <1>5, <1>9
  <2>2. (r < f => fm = restoringMap /\ JournalFound(handle))'
    BY <1>1, <1>5, <1>7, <1>9 DEF JournalFound
  <2> QED
    BY <1>1, <1>3, <1>6, <1>8, <1>10, <1>12, <1>13, <2>1, <2>2 DEF Restores, NoMap
<1>15. FrameFits'
  BY <1>1, <1>3, <1>4, <1>9, RingAssumption DEF FrameFits
<1>16. Stage(e, cur, r, 0, f, "flushed", sp, fm)'
  BY <1>1, <1>2, <1>14, <1>15 DEF Stage, FrameFits
<1> QED
  BY <1>1, <1>4, <1>5, <1>16, SameJournal

LEMMA StutterCrash == ASSUME CrashInv, UNCHANGED fsVars PROVE CrashInv'
<1>1. PICK e, cur, r, lo, f, mark, sp, fm :
         /\ Sessions /\ InOrder(journal, master, e, cur, r, f, mark, sp, fm)
         /\ Stage(e, cur, r, lo, f, mark, sp, fm)
  BY DEF CrashInv
<1>2. UNCHANGED diskVars
  BY DEF fsVars
<1>3. Stage(e, cur, r, lo, f, mark, sp, fm)'
  <2>1. UNCHANGED <<journal, master, handle, volume, openMap, flushedMap, restoringMap, open_recs,
                    session_id, frame_sequence, session_current_freespace, restore_state, todo,
                    mode, io>>
    BY DEF fsVars, diskVars, mapVars, sessionVars, restoreVars
  <2>2. UNCHANGED <<next_free_frame, frames_free, wrapped, session_start_record, open_start_record,
                    open_current_frame, open_current_used, open_current_free, open_remapped>>
    BY DEF fsVars, ringVars, cursors, openVars
  <2>3. UNCHANGED <<flushed_start_record, flushed_terminal_record, flushed_last_block,
                    restoring_start_record, restoring_terminal_record, restoring_last_block, holds,
                    written>>
    BY DEF fsVars, ringVars, flushedVars, restoringVars
  <2>4. \A b : AFrame(b)' <=> AFrame(b)
    BY <2>1, Zenon DEF AFrame, IsFrame, diskVars
  <2>5. UNCHANGED <<FilledFrom, MarkHandle, Return, Pending>>
    BY <2>1, <2>3, <2>2 DEF FilledFrom, MarkHandle, Return, ToHandle, Pending
  <2>6. \A b, x : (Mark(b, x)' = Mark(b, x)) /\ (\A y, z : Header(x, y, z)' = Header(x, y, z))
    BY <2>1 DEF Mark, ToJournal, Header
  <2>7. StartThere' <=> StartThere
    BY <2>1, <2>2, <2>4 DEF StartThere
  <2>8. \A b : \A y : OpenThere(b, y)' <=> OpenThere(b, y)
    BY <2>1, <2>4 DEF OpenThere
  <2>9. \A x, y : DataTo(x, y)' <=> DataTo(x, y)
    BY DEF DataTo, JournalWrite
  <2>10. \A x : Opening(x)' <=> Opening(x)
    BY <2>1, <2>2, <2>6, <2>9 DEF Opening, JournalWrite
  <2>11. \A x : Moving(x)' <=> Moving(x)
    BY <2>1, <2>2, <2>10 DEF Moving, MasterWrite
  <2>12. \A x, y, z : Untouched(x, y, z)' <=> Untouched(x, y, z)
    BY <2>1, <2>2, <2>4 DEF Untouched
  <2>13. \A x, y, z, u : Appending(x, y, z, u)' <=> Appending(x, y, z, u)
    BY <2>1, <2>2, <2>4, <2>6, <2>11, <2>12 DEF Appending, JournalWrite
  <2>14. \A x, b, y, z, type : Closing(x, b, y, z, type)' <=> Closing(x, b, y, z, type)
    BY <2>6, <2>8 DEF Closing, JournalWrite
  <2>15. Closed' = Closed
    BY <2>1 DEF Closed
  <2>17. \A j : \A x, y, z : OpenRecord(j, f, x, y, z)' <=> OpenRecord(j, f, x, y, z)
    BY <2>1, <2>2 DEF OpenRecord, IsFrame
  <2>18. \A j : OpenIs(j, f)' <=> OpenIs(j, f)
    BY <2>1, <2>17 DEF OpenIs
  <2>19. Fill(e, r, lo, f)' <=> Fill(e, r, lo, f)
    <3>1. PICK b : b = FilledFrom
      OBVIOUS
    <3>2. AFrame(FilledFrom)' <=> AFrame(b)
      BY <2>1, <2>5, <3>1 DEF AFrame, IsFrame
    <3> QED
      BY <2>1, <2>2, <2>4, <2>5, <3>1, <3>2 DEF Fill
  <2>20. Settled(e, cur, r, f)' <=> Settled(e, cur, r, f)
    <3>1. PICK b : b = open_current_frame
      OBVIOUS
    <3>2. OpenThere(open_current_frame, e)' <=> OpenThere(b, e)
      BY <2>1, <2>2, <2>4, <3>1 DEF OpenThere, AFrame, IsFrame
    <3>3. PICK x : x = io
      OBVIOUS
    <3>4. \A a : DataTo(io, a)' <=> DataTo(x, a)
      BY <2>1, <3>3 DEF DataTo, JournalWrite
    <3>5. (ToHandle(TRUE) \o Return)' = ToHandle(TRUE) \o Return
      BY DEF ToHandle, Return
    <3> QED
      BY <2>1, <2>2, <2>5, <2>7, <3>1, <3>2, <3>3, <3>4, <3>5 DEF Settled
  <2>21. DataPending(e, cur, lo, f)' <=> DataPending(e, cur, lo, f)
    <3>1. PICK b, x : b = open_current_frame /\ x = io
      OBVIOUS
    <3>2. OpenThere(open_current_frame, e)' <=> OpenThere(b, e)
      BY <2>1, <2>2, <2>4, <3>1 DEF OpenThere, AFrame, IsFrame
    <3>3. DataTo(io, cur)' <=> DataTo(x, cur)
      BY <2>1, <3>1 DEF DataTo, JournalWrite
    <3> QED
      BY <2>1, <2>2, <2>7, <2>12, <3>1, <3>2, <3>3 DEF DataPending
  <2>22. AppendPending(e, cur, lo)' <=> AppendPending(e, cur, lo)
    <3>1. PICK x : x = io
      OBVIOUS
    <3>2. Appending(io, e, cur, lo)' <=> Appending(x, e, cur, lo)'
      BY <2>1, <3>1
    <3> QED
      BY <2>1, <2>4, <2>13, <3>1, <3>2 DEF AppendPending
  <2>23. ClosePending(e, cur, lo, f)' <=> ClosePending(e, cur, lo, f)
    <3>1. PICK x, y : x = Tail(io) /\ y = Head(io)
      OBVIOUS
    <3>2. x = Tail(io') /\ y = Head(io')
      BY <2>1, <3>1
    <3>3. Appending(Tail(io), e, cur, lo)' <=> Appending(x, e, cur, lo)'
      BY <3>2
    <3>4. \A b : Closing(Head(io), b, e, cur, "closed")' <=> Closing(y, b, e, cur, "closed")'
      BY <3>2
    <3> QED
      BY <2>1, <2>13, <2>14, <3>1, <3>3, <3>4 DEF ClosePending
  <2>24. Committed(r, f, fm)' <=> Committed(r, f, fm)
    <3>1. PICK b : b = flushed_terminal_record
      OBVIOUS
    <3>2. AFrame(flushed_terminal_record)' <=> AFrame(b)
      BY <2>1, <2>3, <3>1 DEF AFrame, IsFrame
    <3> QED
      BY <2>1, <2>2, <2>3, <3>1, <3>2 DEF Committed
  <2>25. Filling(e, cur, r, lo, f, fm)' <=> Filling(e, cur, r, lo, f, fm)
    <3>1. PICK j, k : j = journal /\ k = Closed
      OBVIOUS
    <3>2. (OpenIs(journal, f)' <=> OpenIs(j, f)') /\ (OpenIs(Closed, f)' <=> OpenIs(k, f)')
      BY <2>1, <2>15, <3>1
    <3> QED
      BY <2>18, <2>20, <2>21, <2>22, <2>23, <2>24, <3>1, <3>2 DEF Filling
  <2>26. Flushing(e, cur, r, lo, f, fm)' <=> Flushing(e, cur, r, lo, f, fm)
    <3>1. PICK y, b, k : /\ y = Head(io) /\ b = flushed_terminal_record
                         /\ k = [journal EXCEPT ![flushed_terminal_record] = Head(io).val]
      OBVIOUS
    <3>2. /\ y = Head(io') /\ b = flushed_terminal_record'
          /\ k = [journal' EXCEPT ![flushed_terminal_record'] = Head(io').val]
      BY <2>1, <2>3, <3>1
    <3>3. Closing(Head(io), flushed_terminal_record, e, cur, "flushed")' <=> Closing(y, b, e, cur, "flushed")'
      BY <3>2
    <3>4. MapOf([journal EXCEPT ![flushed_terminal_record] = Head(io).val], master, r, e, flushedMap)'
             <=> MapOf(k, master, r, e, flushedMap)'
      BY <3>2
    <3>5. MapOf(k, master, r, e, flushedMap)' <=> MapOf(k, master, r, e, flushedMap)
      BY <2>1 DEF MapOf, RecordIn, IsFrame
    <3>6. (Tail(io) = MarkHandle \o Return)' <=> Tail(io) = MarkHandle \o Return
      BY <2>1, <2>5
    <3> QED
      BY <2>1, <2>2, <2>3, <2>5, <2>7, <2>14, <3>1, <3>3, <3>4, <3>5, <3>6 DEF Flushing
  <2>27. Writing(e, cur, r, lo, f, mark, sp, fm)' <=> Writing(e, cur, r, lo, f, mark, sp, fm)
    <3>1. (io = ToHandle(TRUE) \o Return)' <=> io = ToHandle(TRUE) \o Return
      BY <2>1 DEF ToHandle, Return
    <3>2. JournalFound(handle)' <=> JournalFound(handle)
      BY <2>1 DEF JournalFound
    <3> QED
      BY <2>1, <2>3, <2>19, <2>25, <2>26, <3>1, <3>2 DEF Writing
  <2>28. \A b : Passes(b, r, f, mark, fm)' <=> Passes(b, r, f, mark, fm)
    BY <2>1, <2>5, <2>6 DEF Passes
  <2>29. Restores(e, cur, r, f, mark, fm)' <=> Restores(e, cur, r, f, mark, fm)
    <3>1. PICK b : b = restoring_terminal_record
      OBVIOUS
    <3>2. /\ AFrame(restoring_terminal_record)' <=> AFrame(b)'
          /\ Passes(restoring_terminal_record, r, f, mark, fm)' <=> Passes(b, r, f, mark, fm)'
      BY <2>3, <3>1
    <3>3. JournalFound(handle)' <=> JournalFound(handle)
      BY <2>1 DEF JournalFound
    <3> QED
      BY <2>1, <2>2, <2>3, <2>4, <2>5, <2>7, <2>28, <3>1, <3>2, <3>3 DEF Restores
  <2>30. Recovering(r, f, mark, sp, fm)' <=> Recovering(r, f, mark, sp, fm)
    <3>1. PICK b : b = LastBlock(todo[1])
      OBVIOUS
    <3>2. b = LastBlock(todo'[1])
      BY <2>1, <3>1
    <3>3. /\ AFrame(LastBlock(todo[1]))' <=> AFrame(b)'
          /\ Passes(LastBlock(todo[1]), r, f, mark, fm)' <=> Passes(b, r, f, mark, fm)'
      BY <3>2
    <3>4. (Restorable(r, f, mark, sp, handle, volume))' <=> Restorable(r, f, mark, sp, handle, volume)
      BY <2>1
    <3>5. Replaced(journal', todo'[1]) = Replaced(journal, todo[1])
      BY <2>1
    <3> QED
      BY <2>1, <2>4, <2>28, <3>1, <3>2, <3>3, <3>4, <3>5 DEF Recovering
  <2>31. Beginning(r, f, mark, sp)' <=> Beginning(r, f, mark, sp)
    <3>1. (Restorable(r, f, mark, sp, handle, volume))' <=> Restorable(r, f, mark, sp, handle, volume)
      BY <2>1
    <3>2. RingInit' <=> RingInit
      BY <2>2, <2>3 DEF RingInit
    <3>3. PICK x, y : x = Header("open", 1, <<>>) /\ y = MasterWrite
      OBVIOUS
    <3>4. x = Header("open", 1, <<>>)' /\ y = MasterWrite'
      BY <2>1, <2>2, <3>3 DEF Header, MasterWrite
    <3> QED
      BY <2>1, <3>1, <3>2, <3>3, <3>4 DEF Beginning, JournalWrite
  <2>32. (Restorable(r, f, mark, sp, handle, volume))' <=> Restorable(r, f, mark, sp, handle, volume)
    BY <2>1
  <2> QED
    BY <1>1, <2>1, <2>2, <2>27, <2>29, <2>30, <2>31, <2>32 DEF Stage
<1> QED
  BY <1>1, <1>2, <1>3, SameJournal

LEMMA StepCrash ==
    ASSUME CrashInv, MapsInv, DiskInv, StartAhead, Remapped, [FsNext]_fsVars,
           AsyncRestore = FALSE, "full" \notin Allowed
    PROVE  CrashInv'
<1>1. RingInv'
  BY RingStep DEF MapsInv
<1>2. CASE DiskWrite
  BY <1>2, DiskWriteCrash
<1>3. CASE Crash \/ Mount \/ Recover \/ Remount \/ BeginSession
  BY <1>3, CrashCrash, MountCrash, RecoverCrash, RemountCrash, BeginCrash
<1>4. CASE WriteData \/ Create \/ Delete
  <2>1. PICK v \in Volume : \E c : Write(v, c)
    BY <1>4, Zenon DEF WriteData, Create, Delete, Volume
  <2>2. PICK c : Write(v, c)
    BY <2>1
  <2> QED
    BY <1>1, <2>2, WriteCrash
<1>5. CASE WriteFails
  BY <1>5, Zenon DEF WriteFails
<1>6. CASE Commit \/ StartRestore
  BY <1>6, CommitCrash, StartRestoreCrash
<1>7. CASE RestorePass \/ EndRestore
  BY <1>7, RestorePassCrash, EndRestoreCrash
<1>8. CASE UNCHANGED fsVars
  BY <1>8, StutterCrash
<1> QED
  BY <1>2, <1>3, <1>4, <1>5, <1>6, <1>7, <1>8, Zenon DEF FsNext

CommitInv == CrashInv /\ Remapped /\ StartAhead /\ MapsInv /\ DiskInv

LEMMA CommitStep ==
    ASSUME CommitInv, [FsNext]_fsVars, AsyncRestore = FALSE, "full" \notin Allowed
    PROVE  CommitInv'
<1>1. CrashInv /\ Remapped /\ StartAhead /\ MapsInv /\ DiskInv /\ RingInv
  BY DEF CommitInv, MapsInv
<1>2. StartAhead'
  <2>1. [RingNext]_ringVars
    BY StepIsRingStep
  <2>2. UNCHANGED ringVars => StartAhead'
    BY <1>1 DEF ringVars, cursors, openVars, flushedVars, restoringVars, StartAhead, StartRecords,
       FilledFrom, SessionStartBeforeLive, OldestFrame, Distance, RingDistance
  <2> QED
    BY <1>1, <2>1, <2>2, StepStart
<1>3. MapsInv' /\ DiskInv'
  BY <1>1, StepMaps, StepDisk
<1>4. Remapped'
  BY <1>1, StepRemapped
<1>5. CrashInv'
  BY <1>1, StepCrash
<1> QED
  BY <1>2, <1>3, <1>4, <1>5 DEF CommitInv

LEMMA CommitInit == FsInit => CommitInv
<1>1. ASSUME FsInit PROVE RingInit /\ openMap = NoMap
  BY <1>1, Zenon DEF FsInit
<1>2. RingInit => StartAhead
  BY StartingStart DEF RingInit
<1> QED
  BY <1>1, <1>2, InitCrash, InitMaps, InitDisk DEF CommitInv, Remapped

LEMMA CommitAlways ==
    ASSUME AsyncRestore = FALSE, "full" \notin Allowed
    PROVE  FsSpec => []CommitInv
<1>1. FsInit => CommitInv
  BY CommitInit
<1>2. CommitInv /\ [FsNext]_fsVars => CommitInv'
  BY CommitStep
<1> QED
  BY <1>1, <1>2, PTL DEF FsSpec

\* Sequence numbers have no gap (fs_file_open_new_frame, fs_file_session_info):
\* a mount that follows them comes to every frame that was flushed and is not
\* restored yet, as long as a commit runs its restore to the end and the
\* journal does not fill up.
THEOREM FlushedFramesRead ==
    ASSUME AsyncRestore = FALSE, "full" \notin Allowed
    PROVE  FsSpec => []FlushedIsRead
<1>1. ASSUME CommitInv PROVE FlushedIsRead
  <2>1. SUFFICES ASSUME Ready, flushed_terminal_record # 0
                 PROVE  \E i \in 1 .. Len(Chain(journal, master)) :
                           Chain(journal, master)[i] = flushed_terminal_record
    BY DEF FlushedIsRead
  <2>2. PICK e, cur, r, lo, f, sp, fm : Idle(e, cur, r, lo, f, sp, fm)
    BY <1>1, <2>1, ReadyIs DEF CommitInv, Restores
  <2>3. /\ InOrder(journal, master, e, cur, r, f, "flushed", sp, fm)
        /\ r < f /\ AFrame(flushed_terminal_record) /\ journal[flushed_terminal_record].seq = f
    BY <2>1, <2>2 DEF Idle, InUseBy, Committed
  <2>4. IsFrame(journal, master, master.start) /\ journal[master.start].seq <= f
    BY <2>3 DEF InOrder, StartFound
  <2>5. PICK i : i = f - journal[master.start].seq + 1
    OBVIOUS
  <2>6. i \in 1 .. Len(Chain(journal, master))
    BY <2>3, <2>4, <2>5, ChainHas
  <2>7. /\ Chain(journal, master)[i] \in Blocks /\ IsFrame(journal, master, Chain(journal, master)[i])
        /\ journal[Chain(journal, master)[i]].seq = journal[master.start].seq + i - 1
        /\ journal[master.start].seq \in 1 .. e
    BY <2>3, <2>6, OnChain
  <2>8. e \in Nat /\ f \in Int /\ cur \in 2 .. FileSize /\ InSequence(journal, master, e, cur)
    BY <2>3 DEF InOrder
  <2>9. journal[Chain(journal, master)[i]].seq = f
    BY <2>5, <2>7, <2>8
  <2>10. Chain(journal, master)[i] = flushed_terminal_record
    BY <2>3, <2>7, <2>8, <2>9, SeqOnce DEF AFrame
  <2> QED
    BY <2>6, <2>10
<1> QED
  BY <1>1, CommitAlways, PTL

-----------------------------------------------------------------------------
(* Where the writes of a call go *)

Goes(s, places) == s \in Seq(WritesOf(s)) /\ \A w \in WritesOf(s) : w.to \in places

LEMMA BothGo ==
    ASSUME NEW s, NEW t, NEW places, Goes(s, places), Goes(t, places)
    PROVE  Goes(s \o t, places)
<1>1. /\ s \in Seq(WritesOf(s)) /\ t \in Seq(WritesOf(t))
      /\ \A w \in WritesOf(s) \union WritesOf(t) : w.to \in places
  BY DEF Goes
<1>2. PICK u : u = s \o t
  OBVIOUS
<1>3. u \in Seq(WritesOf(u)) /\ WritesOf(u) = WritesOf(s) \union WritesOf(t)
  BY <1>1, <1>2, MoreWrites, Zenon
<1>4. Goes(u, places)
  BY <1>1, <1>3 DEF Goes
<1> QED
  BY <1>2, <1>4, Zenon

LEMMA WritesGo ==
    ASSUME NEW b, NEW x, NEW y
    PROVE  /\ Goes(<<>>, {"journal", "master"}) /\ Goes(<<>>, {"journal", "handle", "return"})
           /\ Goes(ToJournal(b, x), {"journal", "master"})
           /\ Goes(ToJournal(b, x), {"journal", "handle", "return"})
           /\ Goes(ToMaster(x, y), {"journal", "master"})
           /\ Goes(ToHandle(x), {"journal", "handle", "return"})
           /\ Goes(Return, {"journal", "handle", "return"})
<1>1. Goes(<<>>, {"journal", "master"}) /\ Goes(<<>>, {"journal", "handle", "return"})
  BY NoWrites DEF Goes
<1>2. /\ Goes(ToJournal(b, x), {"journal", "master"})
      /\ Goes(ToJournal(b, x), {"journal", "handle", "return"})
  <2>1. PICK s : s = ToJournal(b, x)
    OBVIOUS
  <2>2. /\ WritesOf(s) = {[to |-> "journal", at |-> b, val |-> x]} /\ s \in Seq(WritesOf(s))
    BY <2>1, KindsOfWrites
  <2> QED
    BY <2>1, <2>2 DEF Goes
<1>3. Goes(ToMaster(x, y), {"journal", "master"})
  <2>1. PICK s : s = ToMaster(x, y)
    OBVIOUS
  <2>2. /\ WritesOf(s) = {[to |-> "master", val |-> [session |-> x, start |-> y]]}
        /\ s \in Seq(WritesOf(s))
    BY <2>1, KindsOfWrites
  <2> QED
    BY <2>1, <2>2 DEF Goes
<1>4. Goes(ToHandle(x), {"journal", "handle", "return"})
  <2>1. PICK s : s = ToHandle(x)
    OBVIOUS
  <2>2. /\ WritesOf(s) = {[to |-> "handle", val |-> x]} /\ s \in Seq(WritesOf(s))
    BY <2>1, KindsOfWrites
  <2> QED
    BY <2>1, <2>2 DEF Goes
<1>5. Goes(Return, {"journal", "handle", "return"})
  <2>1. PICK s : s = Return
    OBVIOUS
  <2>2. WritesOf(s) = {[to |-> "return"]} /\ s \in Seq(WritesOf(s))
    BY <2>1, KindsOfWrites
  <2> QED
    BY <2>1, <2>2 DEF Goes
<1> QED
  BY <1>1, <1>2, <1>3, <1>4, <1>5

LEMMA WriteGoes ==
    ASSUME MapsInv, RingInv', NEW v, NEW c, Write(v, c)
    PROVE  \A w \in Pending' : w.to \in {"journal", "master"}
<1>1. \/ \E b : io' = ToJournal(b, DataBlock(c))
      \/ io' = CloseFrame \o NullFrame \o MoveStart \o OpenFrame \o ToJournal(NewFrame + 1, DataBlock(c))
  BY Zenon DEF Write, Rewrite, WriteInFrame, WriteInNewFrame
<1>2. ASSUME NEW b, io' = ToJournal(b, DataBlock(c)) PROVE Goes(io', {"journal", "master"})
  <2>1. PICK x : x = DataBlock(c)
    OBVIOUS
  <2> QED
    BY <1>2, <2>1, WritesGo
<1>3. ASSUME io' = CloseFrame \o NullFrame \o MoveStart \o OpenFrame \o ToJournal(NewFrame + 1, DataBlock(c))
      PROVE  Goes(io', {"journal", "master"})
  <2>1. PICK p, q, s, t, u : /\ p = CloseFrame /\ q = NullFrame /\ s = MoveStart /\ t = OpenFrame
                             /\ u = ToJournal(NewFrame + 1, DataBlock(c))
    OBVIOUS
  <2>2. Goes(p, {"journal", "master"})
    BY <2>1, CloseWrites DEF Goes
  <2>3. Goes(q, {"journal", "master"})
    BY <2>1, NullWrites DEF Goes
  <2>4. Goes(s, {"journal", "master"})
    BY <2>1, MoveStartWrites DEF Goes
  <2>5. Goes(t, {"journal", "master"}) /\ Goes(u, {"journal", "master"})
    BY <2>1, WritesGo DEF OpenFrame
  <2>6. Goes(p \o q, {"journal", "master"})
    BY <2>2, <2>3, BothGo, Zenon
  <2>7. Goes(p \o q \o s, {"journal", "master"})
    BY <2>4, <2>6, BothGo, Zenon
  <2>8. Goes(p \o q \o s \o t, {"journal", "master"})
    BY <2>5, <2>7, BothGo, Zenon
  <2>9. Goes(p \o q \o s \o t \o u, {"journal", "master"})
    BY <2>5, <2>8, BothGo, Zenon
  <2> QED
    BY <1>3, <2>1, <2>9, Zenon
<1>4. Goes(io', {"journal", "master"})
  BY <1>1, <1>2, <1>3
<1> QED
  BY <1>4 DEF Goes, Pending

LEMMA CommitGoes ==
    ASSUME Commit
    PROVE  /\ \A w \in Pending' : w.to \in {"journal", "handle", "return"}
           /\ io' # <<>> /\ io'[Len(io')].to = "return"
<1>1. \/ io' = Return
      \/ \E b, x : io' = ToJournal(b, x) \o MarkHandle \o Return
  BY Zenon DEF Commit
<1>2. PICK h : h = [to |-> "return"]
  OBVIOUS
<1>3. Return = <<h>>
  BY <1>2 DEF Return
<1>4. CASE io' = Return
  <2>1. Goes(io', {"journal", "handle", "return"})
    BY <1>4, WritesGo
  <2> QED
    BY <1>2, <1>3, <1>4, <2>1 DEF Goes, Pending
<1>5. ASSUME NEW b, NEW x, io' = ToJournal(b, x) \o MarkHandle \o Return
      PROVE  /\ Goes(io', {"journal", "handle", "return"})
             /\ io' # <<>> /\ io'[Len(io')].to = "return"
  <2>1. PICK p, q, t : p = ToJournal(b, x) /\ q = MarkHandle /\ t = Return
    OBVIOUS
  <2>2. Goes(p, {"journal", "handle", "return"}) /\ Goes(t, {"journal", "handle", "return"})
    BY <2>1, WritesGo
  <2>3. Goes(q, {"journal", "handle", "return"})
    <3>1. q = <<>> \/ q = ToHandle(TRUE)
      BY <2>1 DEF MarkHandle
    <3> QED
      BY <3>1, WritesGo
  <2>4. PICK u : u = p \o q
    OBVIOUS
  <2>5. Goes(u, {"journal", "handle", "return"})
    BY <2>2, <2>3, <2>4, BothGo, Zenon
  <2>6. Goes(u \o t, {"journal", "handle", "return"})
    BY <2>2, <2>5, BothGo, Zenon
  <2>7. io' = u \o t
    BY <1>5, <2>1, <2>4, Zenon
  <2>8. u \in Seq(WritesOf(u)) /\ t = <<h>>
    BY <1>3, <2>1, <2>5 DEF Goes
  <2>9. \E S : u \in Seq(S) /\ t \in Seq(S)
    <3>1. t \in Seq(WritesOf(t))
      BY <2>2 DEF Goes
    <3>2. PICK S : S = WritesOf(u) \union WritesOf(t)
      OBVIOUS
    <3> QED
      BY <2>8, <3>1, <3>2, SeqMonotonic
  <2>10. PICK S : u \in Seq(S) /\ t \in Seq(S)
    BY <2>9
  <2>11. Len(u) \in Nat /\ Len(t) = 1 /\ t[1] = h
    BY <2>8, <2>10, LenProperties
  <2>12. PICK s : s = u \o t
    OBVIOUS
  <2>13. Len(s) = Len(u) + 1 /\ s[Len(u) + 1] = h /\ s \in Seq(S)
    <3>1. /\ s \in Seq(S) /\ Len(s) = Len(u) + Len(t)
          /\ \A i \in 1 .. Len(u) + Len(t) : s[i] = IF i <= Len(u) THEN u[i] ELSE t[i - Len(u)]
      BY <2>10, <2>12, ConcatProperties, Zenon
    <3>2. s[Len(u) + 1] = t[1]
      <4>1. PICK n \in Nat : n = Len(u)
        BY <2>11
      <4>2. Len(t) = 1
        BY <2>11
      <4>3. n + 1 \in 1 .. n + 1 /\ ~(n + 1 <= n) /\ (n + 1) - n = 1
        BY <4>1
      <4> QED
        BY <3>1, <4>1, <4>2, <4>3, Zenon
    <3> QED
      BY <2>11, <3>1, <3>2
  <2>14. s # <<>>
    BY <2>11, <2>13
  <2> QED
    BY <1>2, <2>6, <2>7, <2>12, <2>13, <2>14
<1>6. \/ io' = Return
      \/ Goes(io', {"journal", "handle", "return"}) /\ io' # <<>> /\ io'[Len(io')].to = "return"
  BY <1>1, <1>5
<1> QED
  BY <1>4, <1>6 DEF Goes, Pending

LEMMA BeginGoes ==
    ASSUME BeginSession
    PROVE  \A w \in Pending' : w.to \in {"journal", "master"}
<1>1. \E s, x : io' = ToMaster(s, 1) \o ToJournal(1, x)
  BY Zenon DEF BeginSession
<1>2. PICK s, x : io' = ToMaster(s, 1) \o ToJournal(1, x)
  BY <1>1
<1>3. PICK p, q : p = ToMaster(s, 1) /\ q = ToJournal(1, x)
  OBVIOUS
<1>4. Goes(p, {"journal", "master"}) /\ Goes(q, {"journal", "master"})
  BY <1>3, WritesGo
<1>5. Goes(p \o q, {"journal", "master"})
  BY <1>4, BothGo, Zenon
<1>6. Goes(io', {"journal", "master"})
  BY <1>2, <1>3, <1>5, Zenon
<1> QED
  BY <1>6 DEF Goes, Pending

-----------------------------------------------------------------------------
(* Contents are numbers *)

NumberWrite(w) ==
    /\ w.to = "journal" /\ w.val.type = "data" => w.val.val \in Int
    /\ w.to = "volume" => w.val \in Int
NumberWrites(s) == s \in Seq(WritesOf(s)) /\ \A w \in WritesOf(s) : NumberWrite(w)
Numbers ==
    /\ \A b \in Blocks : journal[b].type = "data" => journal[b].val \in Int
    /\ \A v \in Volume : volume[v] \in Int /\ view[v] \in Int
    /\ \A w \in Pending : NumberWrite(w)
    /\ known_free_clusters \in Int /\ open_free \in Int /\ flushed_free \in Int
    /\ restoring_free \in Int

LEMMA BothNumbers ==
    ASSUME NEW s, NEW t, NumberWrites(s), NumberWrites(t)
    PROVE  NumberWrites(s \o t)
<1>1. /\ s \in Seq(WritesOf(s)) /\ t \in Seq(WritesOf(t))
      /\ \A w \in WritesOf(s) \union WritesOf(t) : NumberWrite(w)
  BY DEF NumberWrites
<1>2. PICK u : u = s \o t
  OBVIOUS
<1>3. u \in Seq(WritesOf(u)) /\ WritesOf(u) = WritesOf(s) \union WritesOf(t)
  BY <1>1, <1>2, MoreWrites, Zenon
<1>4. NumberWrites(u)
  BY <1>1, <1>3 DEF NumberWrites
<1> QED
  BY <1>2, <1>4, Zenon

LEMMA HeaderIsNoNumber ==
    ASSUME NEW w, NEW b, HeaderAt(b, w.val), w.to = "journal"
    PROVE  NumberWrite(w)
  BY DEF NumberWrite, HeaderAt, HeaderTypes

LEMMA DataNumbers ==
    ASSUME NEW b, NEW c \in Int
    PROVE  NumberWrites(ToJournal(b, DataBlock(c)))
<1>1. PICK d : d = DataBlock(c)
  OBVIOUS
<1>2. d.type = "data" /\ d.val = c
  BY <1>1 DEF DataBlock
<1>3. /\ WritesOf(ToJournal(b, d)) = {[to |-> "journal", at |-> b, val |-> d]}
      /\ ToJournal(b, d) \in Seq(WritesOf(ToJournal(b, d)))
  BY OneWrite DEF ToJournal
<1> QED
  BY <1>1, <1>2, <1>3 DEF NumberWrites, NumberWrite

LEMMA NumbersOf ==
    ASSUME NEW b, NEW x, NEW t \in HeaderTypes, NEW y
    PROVE  /\ NumberWrites(<<>>)
           /\ NumberWrites(ToJournal(b, Header(t, x, y)))
           /\ NumberWrites(ToMaster(x, y)) /\ NumberWrites(ToHandle(x)) /\ NumberWrites(Return)
<1>1. NumberWrites(<<>>)
  BY NoWrites DEF NumberWrites
<1>3. NumberWrites(ToJournal(b, Header(t, x, y)))
  <2>1. PICK d : d = Header(t, x, y)
    OBVIOUS
  <2>2. d.type # "data"
    BY <2>1 DEF Header, HeaderTypes
  <2>3. /\ WritesOf(ToJournal(b, d)) = {[to |-> "journal", at |-> b, val |-> d]}
        /\ ToJournal(b, d) \in Seq(WritesOf(ToJournal(b, d)))
    BY OneWrite DEF ToJournal
  <2> QED
    BY <2>1, <2>2, <2>3 DEF NumberWrites, NumberWrite
<1>4. NumberWrites(ToMaster(x, y)) /\ NumberWrites(ToHandle(x)) /\ NumberWrites(Return)
  <2>1. PICK p, q, s : p = ToMaster(x, y) /\ q = ToHandle(x) /\ s = Return
    OBVIOUS
  <2>2. /\ WritesOf(p) = {[to |-> "master", val |-> [session |-> x, start |-> y]]}
        /\ p \in Seq(WritesOf(p))
        /\ WritesOf(q) = {[to |-> "handle", val |-> x]} /\ q \in Seq(WritesOf(q))
        /\ WritesOf(s) = {[to |-> "return"]} /\ s \in Seq(WritesOf(s))
    BY <2>1, OneWrite DEF ToMaster, ToHandle, Return
  <2> QED
    BY <2>1, <2>2 DEF NumberWrites, NumberWrite
<1> QED
  BY <1>1, <1>3, <1>4

LEMMA WriteNumbers ==
    ASSUME MapsInv, RingInv', NEW v, NEW c \in Int, Write(v, c)
    PROVE  \A w \in Pending' : NumberWrite(w)
<1>1. \/ \E b : io' = ToJournal(b, DataBlock(c))
      \/ io' = CloseFrame \o NullFrame \o MoveStart \o OpenFrame \o ToJournal(NewFrame + 1, DataBlock(c))
  BY Zenon DEF Write, Rewrite, WriteInFrame, WriteInNewFrame
<1>2. ASSUME NEW b, io' = ToJournal(b, DataBlock(c)) PROVE NumberWrites(io')
  BY <1>2, DataNumbers
<1>3. ASSUME io' = CloseFrame \o NullFrame \o MoveStart \o OpenFrame \o ToJournal(NewFrame + 1, DataBlock(c))
      PROVE  NumberWrites(io')
  <2>1. PICK p, q, s, t, u : /\ p = CloseFrame /\ q = NullFrame /\ s = MoveStart /\ t = OpenFrame
                             /\ u = ToJournal(NewFrame + 1, DataBlock(c))
    OBVIOUS
  <2>2. NumberWrites(p)
    BY <2>1, CloseWrites, HeaderIsNoNumber DEF NumberWrites
  <2>3. NumberWrites(q)
    BY <2>1, NullWrites, HeaderIsNoNumber DEF NumberWrites
  <2>4. NumberWrites(s)
    BY <2>1, MoveStartWrites DEF NumberWrites, NumberWrite
  <2>5. NumberWrites(t) /\ NumberWrites(u)
    BY <2>1, NumbersOf, DataNumbers DEF OpenFrame, HeaderTypes
  <2>6. NumberWrites(p \o q)
    BY <2>2, <2>3, BothNumbers, Zenon
  <2>7. NumberWrites(p \o q \o s)
    BY <2>4, <2>6, BothNumbers, Zenon
  <2>8. NumberWrites(p \o q \o s \o t)
    BY <2>5, <2>7, BothNumbers, Zenon
  <2>9. NumberWrites(p \o q \o s \o t \o u)
    BY <2>5, <2>8, BothNumbers, Zenon
  <2> QED
    BY <1>3, <2>1, <2>9, Zenon
<1>4. NumberWrites(io')
  BY <1>1, <1>2, <1>3
<1> QED
  BY <1>4 DEF NumberWrites, Pending

LEMMA CommitNumbers ==
    ASSUME Commit
    PROVE  \A w \in Pending' : NumberWrite(w)
<1>1. \/ io' = Return
      \/ io' = ToJournal(open_current_frame, Header("flushed", frame_sequence, open_recs))
               \o MarkHandle \o Return
  BY Zenon DEF Commit
<1>2. PICK p, q, t : /\ p = ToJournal(open_current_frame, Header("flushed", frame_sequence, open_recs))
                     /\ q = MarkHandle /\ t = Return
  OBVIOUS
<1>0. PICK y : y = "flushed" /\ y \in HeaderTypes
  BY DEF HeaderTypes
<1>3. NumberWrites(p) /\ NumberWrites(t)
  BY <1>0, <1>2, NumbersOf
<1>4. NumberWrites(q)
  BY <1>0, <1>2, NumbersOf DEF MarkHandle
<1>5. NumberWrites(p \o q)
  BY <1>3, <1>4, BothNumbers, Zenon
<1>6. NumberWrites(p \o q \o t)
  BY <1>3, <1>5, BothNumbers, Zenon
<1>7. NumberWrites(io')
  <2>1. CASE io' = Return
    BY <1>2, <1>3, <2>1
  <2>2. CASE io' = ToJournal(open_current_frame, Header("flushed", frame_sequence, open_recs))
                   \o MarkHandle \o Return
    BY <1>2, <1>6, <2>2, Zenon
  <2> QED
    BY <1>1, <2>1, <2>2
<1> QED
  BY <1>7 DEF NumberWrites, Pending

LEMMA RecoveredNumbers ==
    ASSUME CrashInv, Numbers
    PROVE  \A v \in Volume : Recovered[v] \in Int
<1>1. PICK e, cur, r, f, mark, sp, fm : InOrder(journal, master, e, cur, r, f, mark, sp, fm)
  BY DEF CrashInv
<1>2. Recovered = [v \in Volume |-> IF Restorable(r, f, mark, sp, handle, volume) /\ fm[v] # 0
                                    THEN ValueAt(journal, fm[v]) ELSE volume[v]]
  BY <1>1, RecoveredInOrder DEF Recovered
<1>3. ASSUME NEW v \in Volume, fm[v] # 0 PROVE fm[v] \in Blocks
  <2>1. PICK b \in Blocks, i \in 1 .. FrameMax : RecordIn(journal, master, r, f, b, i, v) /\ fm[v] = b + i
    BY <1>1, <1>3 DEF InOrder, MapOf
  <2>2. i <= Len(journal[b].recs) /\ IsFrame(journal, master, b) /\ Formed(journal)
    BY <1>1, <2>1 DEF RecordIn, InOrder
  <2>3. Len(journal[b].recs) \in Nat /\ b + Len(journal[b].recs) < FileSize
    BY <2>2, FormedFrame
  <2> QED
    BY <2>1, <2>2, <2>3, RingAssumption DEF Blocks
<1>4. \A b \in Blocks : ValueAt(journal, b) \in Int
  BY DEF Numbers, ValueAt
<1>5. \A v \in Volume : volume[v] \in Int
  BY DEF Numbers
<1> QED
  BY <1>2, <1>3, <1>4, <1>5

\* What stays as it is.
LEMMA SameNumbers ==
    ASSUME Numbers, UNCHANGED <<journal, volume>>, \A v \in Volume : view'[v] \in Int,
           \A w \in Pending' : NumberWrite(w),
           known_free_clusters' \in Int, open_free' \in Int, flushed_free' \in Int,
           restoring_free' \in Int
    PROVE  Numbers'
  BY DEF Numbers, NumberWrite

LEMMA CopyOutNumbers ==
    ASSUME NEW v, NEW c \in Int
    PROVE  \A w \in WritesOf(CopyOut(v, c)) : NumberWrite(w)
<1>1. PICK s : s = CopyOut(v, c)
  OBVIOUS
<1>2. \A w \in WritesOf(s) : w = [to |-> "volume", at |-> v, val |-> c] \/ w.to = "fat2"
  BY <1>1, CopyOutWrites
<1>3. ASSUME NEW w \in WritesOf(s) PROVE NumberWrite(w)
  <2>1. w.to \in {"volume", "fat2"} /\ (w.to = "volume" => w.val = c)
    BY <1>2
  <2> QED
    BY <2>1 DEF NumberWrite
<1> QED
  BY <1>1, <1>3

LEMMA ClearNumbers == \A w \in WritesOf(ClearHandle) : NumberWrite(w)
<1>1. PICK s : s = ClearHandle
  OBVIOUS
<1>2. \A w \in WritesOf(s) : w.to \in {"fat2", "handle"}
  BY <1>1, ClearHandleWrites
<1> QED
  BY <1>1, <1>2 DEF NumberWrite

LEMMA MarkNumbers ==
    ASSUME NEW b \in Blocks, HeaderAt(b, journal[b]), NEW type \in HeaderTypes
    PROVE  \A w \in WritesOf(Mark(b, type)) : NumberWrite(w)
<1>1. PICK s, x : s = Mark(b, type) /\ x = [journal[b] EXCEPT !.type = type]
  OBVIOUS
<1>2. WritesOf(s) = {[to |-> "journal", at |-> b, val |-> x]} /\ x.type = type
  BY <1>1, MarkWrites
<1>3. x.type # "data"
  BY <1>2 DEF HeaderTypes
<1>4. PICK d : d = [to |-> "journal", at |-> b, val |-> x]
  OBVIOUS
<1>5. d.to = "journal" /\ d.val = x /\ WritesOf(s) = {d}
  BY <1>2, <1>4
<1>6. NumberWrite(d)
  BY <1>3, <1>5 DEF NumberWrite
<1> QED
  BY <1>1, <1>5, <1>6

LEMMA RecoverNumbers ==
    ASSUME Numbers, CrashInv, DiskInv, Recover
    PROVE  \A w \in Pending' : NumberWrite(w)
<1>1. /\ mode = "recover" /\ io = <<>>
      /\ \/ restore_state = "mark" /\ io' = Mark(Terminal, "restoring")
         \/ /\ restore_state = "copy"
            /\ \E v \in Replaced(journal, todo[1]) \ copied :
                  io' = CopyOut(v, Replacement(journal, todo[1], v))
         \/ io' = Mark(Terminal, "restored")
         \/ io' = ClearHandle
  BY Zenon DEF Recover, Done
<1>2. /\ Len(todo) = 1 /\ RangeOK(todo[1])
      /\ \A v \in Volume : v \in Replaced(journal, todo[1]) =>
             view[v] = Replacement(journal, todo[1], v)
  <2>1. Len(todo) = 1
    BY <1>1 DEF CrashInv, Stage, Recovering
  <2>2. InRecovery
    BY DEF DiskInv
  <2>3. \A k \in 1 .. Len(todo) : RangeOK(todo[k])
    BY <1>1, <2>2 DEF InRecovery
  <2>4. \A v \in Volume :
           IF Len(todo) = 2 /\ v \in Replaced(journal, todo[2])
           THEN view[v] = Replacement(journal, todo[2], v)
           ELSE v \in Replaced(journal, todo[1]) => view[v] = Replacement(journal, todo[1], v)
    BY <1>1, <2>2 DEF InRecovery
  <2>5. Len(todo) # 2 /\ 1 \in 1 .. Len(todo)
    BY <2>1
  <2> QED
    BY <2>1, <2>3, <2>4, <2>5
<1>3. Terminal \in Blocks /\ HeaderAt(Terminal, journal[Terminal])
  <2>1. Len(todo[1]) \in 1 .. Len(todo[1]) /\ todo[1] \in Seq(Blocks)
    BY <1>2, LenProperties, EmptySeq DEF RangeOK
  <2>2. Terminal \in Blocks /\ journal[Terminal].type \in HeaderTypes
    BY <1>2, <2>1, ElementOfSeq DEF RangeOK, Terminal
  <2> QED
    BY <2>2 DEF DiskInv, DiskTyped, WellFormed, HeaderTypes
<1>4. "restoring" \in HeaderTypes /\ "restored" \in HeaderTypes
  BY DEF HeaderTypes
<1>5. CASE io' = Mark(Terminal, "restoring")
  BY <1>3, <1>4, <1>5, MarkNumbers DEF Pending
<1>6. CASE io' = Mark(Terminal, "restored")
  BY <1>3, <1>4, <1>6, MarkNumbers DEF Pending
<1>7. CASE io' = ClearHandle
  BY <1>7, ClearNumbers DEF Pending
<1>8. ASSUME NEW v \in Replaced(journal, todo[1]) \ copied,
             io' = CopyOut(v, Replacement(journal, todo[1], v))
      PROVE  \A w \in Pending' : NumberWrite(w)
  <2>1. v \in Volume
    <3>1. PICK x \in Records(journal, todo[1]) : v = journal[todo[1][x[1]]].recs[x[2]]
      BY <1>8 DEF Replaced
    <3>2. x[1] \in 1 .. Len(todo[1]) /\ x[2] \in 1 .. FrameMax /\ x[2] <= Len(journal[todo[1][x[1]]].recs)
      BY <3>1 DEF Records
    <3>3. PICK b : b = todo[1][x[1]]
      OBVIOUS
    <3>4. b \in Blocks /\ journal[b].type \in HeaderTypes
      BY <1>2, <3>2, <3>3, ElementOfSeq DEF RangeOK
    <3>5. journal[b].recs \in Seq(Volume)
      BY <3>4 DEF DiskInv, DiskTyped, WellFormed, HeaderTypes, HeaderAt
    <3>6. Len(journal[b].recs) \in Nat /\ x[2] \in 1 .. Len(journal[b].recs)
      BY <3>2, <3>3, <3>5, LenProperties, RingAssumption
    <3> QED
      BY <3>1, <3>3, <3>5, <3>6, ElementOfSeq
  <2>2. PICK c : c = Replacement(journal, todo[1], v)
    OBVIOUS
  <2>3. c \in Int
    BY <1>2, <1>8, <2>1, <2>2 DEF Numbers
  <2> QED
    BY <1>8, <2>2, <2>3, CopyOutNumbers DEF Pending
<1> QED
  BY <1>1, <1>5, <1>6, <1>7, <1>8

LEMMA MountNumbers ==
    ASSUME Numbers, CrashInv, DiskInv, Crash \/ Mount \/ Recover \/ Remount \/ BeginSession
    PROVE  Numbers'
<1>1. UNCHANGED <<journal, volume>>
  BY Zenon DEF Crash, Mount, Recover, Remount, BeginSession, diskVars
<1>2. "fat" \in Volume /\ InitFree \in Int
  BY FsAssumption DEF Volume
<1>3. /\ \A v \in Volume : volume[v] \in Int /\ view[v] \in Int
      /\ \A w \in Pending : NumberWrite(w)
      /\ known_free_clusters \in Int /\ open_free \in Int /\ flushed_free \in Int
      /\ restoring_free \in Int
  BY DEF Numbers
<1>4. CASE Crash
  <2>1. /\ view' = Recovered /\ io' = <<>> /\ known_free_clusters' = known_free_clusters
        /\ open_free' = 0 /\ flushed_free' = 0 /\ restoring_free' = 0
    BY <1>4, Zenon DEF Crash, InMemory
  <2>2. \A v \in Volume : view'[v] \in Int
    BY <2>1, RecoveredNumbers
  <2>3. \A w \in Pending' : NumberWrite(w)
    BY <2>1, NoWrites DEF Pending
  <2> QED
    BY <1>1, <1>3, <2>1, <2>2, <2>3, SameNumbers
<1>5. CASE Mount \/ Remount
  <2>1. /\ UNCHANGED <<view, io, open_free, flushed_free, restoring_free>>
        /\ known_free_clusters' \in {known_free_clusters, volume["fat"]}
    BY <1>5, Zenon DEF Mount, Remount, freeVars
  <2>2. Pending' = Pending
    BY <2>1 DEF Pending
  <2> QED
    BY <1>1, <1>2, <1>3, <2>1, <2>2, SameNumbers
<1>6. CASE Recover
  <2>1. UNCHANGED <<view, known_free_clusters, open_free, flushed_free, restoring_free>>
    BY <1>6, Zenon DEF Recover, freeVars
  <2> QED
    BY <1>1, <1>3, <1>6, <2>1, RecoverNumbers, SameNumbers
<1>7. CASE BeginSession
  <2>1. /\ UNCHANGED <<view, known_free_clusters>>
        /\ open_free' = 0 /\ flushed_free' = 0 /\ restoring_free' = 0
    BY <1>7, Zenon DEF BeginSession, InMemory
  <2>2. \E s, x : io' = ToMaster(s, 1) \o ToJournal(1, [type |-> "open", seq |-> 1, session |-> session_id',
                              space |-> session_current_freespace', recs |-> <<>>])
    BY <1>7, Zenon DEF BeginSession
  <2>3. PICK s : io' = ToMaster(s, 1) \o ToJournal(1, [type |-> "open", seq |-> 1, session |-> session_id',
                              space |-> session_current_freespace', recs |-> <<>>])
    BY <2>2
  <2>4. PICK p, q, x : /\ p = ToMaster(s, 1) /\ q = ToJournal(1, x)
                       /\ x = [type |-> "open", seq |-> 1, session |-> session_id',
                              space |-> session_current_freespace', recs |-> <<>>]
    OBVIOUS
  <2>5. NumberWrites(p)
    <3>1. PICK y : y = "open" /\ y \in HeaderTypes
      BY DEF HeaderTypes
    <3> QED
      BY <2>4, <3>1, NumbersOf
  <2>6. NumberWrites(q)
    <3>1. /\ WritesOf(q) = {[to |-> "journal", at |-> 1, val |-> x]} /\ q \in Seq(WritesOf(q))
      BY <2>4, OneWrite DEF ToJournal
    <3>2. x.type = "open"
      BY <2>4
    <3> QED
      BY <3>1, <3>2 DEF NumberWrites, NumberWrite
  <2>7. NumberWrites(p \o q)
    BY <2>5, <2>6, BothNumbers, Zenon
  <2>8. NumberWrites(io')
    BY <2>3, <2>4, <2>7, Zenon
  <2> QED
    BY <1>1, <1>3, <2>1, <2>8, SameNumbers DEF NumberWrites, Pending
<1> QED
  BY <1>4, <1>5, <1>6, <1>7

LEMMA WriteStepNumbers ==
    ASSUME Numbers, MapsInv, RingInv', WriteData \/ Create \/ Delete
    PROVE  Numbers'
<1>1. \A v \in Volume : volume[v] \in Int /\ view[v] \in Int
  BY DEF Numbers
<1>2. "fat" \in Volume /\ Data \subseteq Volume
  BY DEF Volume
<1>3. PICK v \in Volume : \E c \in Int : Write(v, c)
  <2>1. CASE WriteData
    <3>1. PICK v \in Data : Write(v, 1 - view[v])
      BY <2>1 DEF WriteData
    <3>2. v \in Volume /\ 1 - view[v] \in Int
      BY <1>1, <1>2
    <3> QED
      BY <3>1, <3>2
  <2>2. CASE Create
    <3>1. Write("fat", view["fat"] - 1)
      BY <2>2 DEF Create
    <3>2. view["fat"] - 1 \in Int
      BY <1>1, <1>2
    <3> QED
      BY <1>2, <3>1, <3>2
  <2>3. CASE Delete
    <3>1. Write("fat", view["fat"] + 1)
      BY <2>3 DEF Delete
    <3>2. view["fat"] + 1 \in Int
      BY <1>1, <1>2
    <3> QED
      BY <1>2, <3>1, <3>2
  <2> QED
    BY <2>1, <2>2, <2>3
<1>4. PICK c \in Int : Write(v, c)
  BY <1>3
<1>5. \A w \in Pending' : NumberWrite(w)
  BY <1>4, WriteNumbers
<1>6. view' = [view EXCEPT ![v] = c] /\ UNCHANGED <<journal, volume>>
  BY <1>4, Zenon DEF Write, diskVars
<1>7. \A u \in Volume : view'[u] \in Int
  <2>1. ASSUME NEW u \in Volume PROVE view'[u] \in Int
    <3>1. view'[u] \in {c, view[u]}
      BY <1>6
    <3> QED
      BY <1>1, <3>1
  <2> QED
    BY <2>1
<1>8. /\ known_free_clusters \in Int /\ open_free \in Int /\ flushed_free \in Int
      /\ restoring_free \in Int
  BY DEF Numbers
<1>9. /\ known_free_clusters' \in {known_free_clusters, known_free_clusters - 1}
      /\ open_free' \in {open_free, open_free + 1}
      /\ UNCHANGED <<flushed_free, restoring_free>>
  BY Zenon DEF WriteData, Create, Delete, AddFreeRegion, freeVars
<1> QED
  BY <1>5, <1>6, <1>7, <1>8, <1>9, SameNumbers

LEMMA CommitStepNumbers ==
    ASSUME Numbers, Commit \/ StartRestore
    PROVE  Numbers'
<1>1. /\ known_free_clusters \in Int /\ open_free \in Int /\ flushed_free \in Int
      /\ restoring_free \in Int
      /\ \A v \in Volume : view[v] \in Int
      /\ \A w \in Pending : NumberWrite(w)
  BY DEF Numbers
<1>2. CASE Commit
  <2>1. /\ UNCHANGED <<diskVars, known_free_clusters, restoring_free, view>>
        /\ \/ flushed_free' = flushed_free + open_free /\ open_free' = 0
           \/ UNCHANGED <<open_free, flushed_free>>
    BY <1>2, Zenon DEF Commit
  <2>2. /\ flushed_free' \in Int /\ open_free' \in Int /\ known_free_clusters' \in Int
        /\ restoring_free' \in Int /\ UNCHANGED <<journal, volume>>
    BY <1>1, <2>1 DEF diskVars
  <2>3. \A v \in Volume : view'[v] \in Int
    BY <1>1, <2>1
  <2>4. \A w \in Pending' : NumberWrite(w)
    BY <1>2, CommitNumbers
  <2> QED
    BY <2>2, <2>3, <2>4, SameNumbers
<1>3. CASE StartRestore
  <2>1. /\ UNCHANGED <<diskVars, known_free_clusters, open_free, view, io>>
        /\ restoring_free' = flushed_free /\ flushed_free' = 0
    BY <1>3, Zenon DEF StartRestore
  <2>2. UNCHANGED <<journal, volume>> /\ Pending' = Pending
    BY <2>1 DEF diskVars, Pending
  <2> QED
    BY <1>1, <2>1, <2>2, SameNumbers
<1> QED
  BY <1>2, <1>3

LEMMA RestorePassNumbers ==
    ASSUME Numbers, CrashInv, MapsInv, DiskInv, RestorePass
    PROVE  Numbers'
<1>1. /\ Ready /\ UNCHANGED <<diskVars, freeVars, view>>
      /\ \/ io' = Mark(restoring_terminal_record, "restoring")
         \/ \E v \in ToCopy \ copied : io' = CopyOut(v, ValueAt(journal, restoringMap[v]))
         \/ io' = Mark(restoring_terminal_record, "restored")
  BY Zenon DEF RestorePass
<1>2. mode = "up" /\ io = <<>> /\ restoring_start_record # 0
  BY <1>1, Zenon DEF MapsInv, MapsTyped, RestorePass, Ready, Done
<1>3. PICK e, cur, r, f, mark, fm : Restores(e, cur, r, f, mark, fm)
  BY <1>1, <1>2, ReadyIs DEF Idle
<1>4. /\ openMap = NoMap /\ flushedMap = NoMap
      /\ restoring_terminal_record \in Blocks
      /\ journal[restoring_terminal_record].type # "data"
  BY <1>3 DEF Restores, AFrame, IsFrame
<1>5. HeaderAt(restoring_terminal_record, journal[restoring_terminal_record])
  BY <1>4 DEF DiskInv, DiskTyped, WellFormed
<1>6. "restoring" \in HeaderTypes /\ "restored" \in HeaderTypes
  BY DEF HeaderTypes
<1>7. CASE io' = Mark(restoring_terminal_record, "restoring")
  <2>1. \A w \in Pending' : NumberWrite(w)
    BY <1>4, <1>5, <1>6, <1>7, MarkNumbers DEF Pending
  <2> QED
    BY <1>1, <2>1, SameNumbers DEF Numbers, diskVars, freeVars
<1>8. CASE io' = Mark(restoring_terminal_record, "restored")
  <2>1. \A w \in Pending' : NumberWrite(w)
    BY <1>4, <1>5, <1>6, <1>8, MarkNumbers DEF Pending
  <2> QED
    BY <1>1, <2>1, SameNumbers DEF Numbers, diskVars, freeVars
<1>9. ASSUME NEW v \in ToCopy \ copied, io' = CopyOut(v, ValueAt(journal, restoringMap[v]))
      PROVE  Numbers'
  <2>1. v \in Volume /\ restoringMap[v] # 0 /\ openMap[v] = 0 /\ flushedMap[v] = 0
    BY <1>4, <1>9 DEF ToCopy, NoMap
  <2>2. restoringMap[v] \in 0 .. FileSize - 1
    BY <2>1 DEF MapsInv, MapsTyped
  <2>3. restoringMap[v] \in Blocks
    BY <2>1, <2>2, RingAssumption DEF Blocks
  <2>4. PICK c : c = ValueAt(journal, restoringMap[v])
    OBVIOUS
  <2>5. c \in Int
    BY <2>3, <2>4 DEF Numbers, ValueAt
  <2>6. \A w \in Pending' : NumberWrite(w)
    BY <1>9, <2>4, <2>5, CopyOutNumbers DEF Pending
  <2> QED
    BY <1>1, <2>6, SameNumbers DEF Numbers, diskVars, freeVars
<1> QED
  BY <1>1, <1>7, <1>8, <1>9

LEMMA EndRestoreNumbers ==
    ASSUME Numbers, EndRestore
    PROVE  Numbers'
<1>1. /\ UNCHANGED <<diskVars, open_free, flushed_free, view>>
      /\ io' = (IF KeepHandle THEN <<>> ELSE ClearHandle)
      /\ known_free_clusters' = known_free_clusters + restoring_free /\ restoring_free' = 0
  BY Zenon DEF EndRestore
<1>2. \A w \in Pending' : NumberWrite(w)
  <2>1. CASE KeepHandle
    BY <1>1, <2>1, NoWrites DEF Pending
  <2>2. CASE ~KeepHandle
    BY <1>1, <2>2, ClearNumbers DEF Pending
  <2> QED
    BY <2>1, <2>2
<1>3. /\ known_free_clusters' \in Int /\ restoring_free' \in Int
      /\ open_free' \in Int /\ flushed_free' \in Int
      /\ UNCHANGED <<journal, volume>> /\ \A v \in Volume : view'[v] \in Int
  BY <1>1 DEF Numbers, diskVars
<1> QED
  BY <1>2, <1>3, SameNumbers

LEMMA DiskWriteNumbers ==
    ASSUME Numbers, DiskInv, DiskWrite
    PROVE  Numbers'
<1>1. PICK w : w = Head(io)
  OBVIOUS
<1>2. /\ journal' = IF w.to = "journal" THEN [journal EXCEPT ![w.at] = w.val] ELSE journal
      /\ volume' = IF w.to = "volume" THEN [volume EXCEPT ![w.at] = w.val] ELSE volume
      /\ UNCHANGED <<freeVars, view>>
  BY <1>1, Zenon DEF DiskWrite
<1>3. Pending' \subseteq Pending /\ w \in Pending
  BY <1>1, WriteDone DEF DiskInv, DiskTyped
<1>4. NumberWrite(w)
  BY <1>3 DEF Numbers
<1>5. DOMAIN journal = Blocks /\ DOMAIN volume = Volume
  BY DEF DiskInv, DiskTyped
<1>6. ASSUME NEW b \in Blocks, journal'[b].type = "data" PROVE journal'[b].val \in Int
  <2>1. CASE w.to = "journal" /\ b = w.at
    <3>1. journal'[b] = w.val
      BY <1>2, <1>5, <2>1
    <3> QED
      BY <1>4, <1>6, <2>1, <3>1 DEF NumberWrite
  <2>2. CASE ~(w.to = "journal" /\ b = w.at)
    <3>1. journal'[b] = journal[b]
      BY <1>2, <1>5, <2>2
    <3> QED
      BY <1>6, <3>1 DEF Numbers
  <2> QED
    BY <2>1, <2>2
<1>7. ASSUME NEW v \in Volume PROVE volume'[v] \in Int
  <2>1. CASE w.to = "volume" /\ v = w.at
    <3>1. volume'[v] = w.val
      BY <1>2, <1>5, <2>1
    <3> QED
      BY <1>4, <2>1, <3>1 DEF NumberWrite
  <2>2. CASE ~(w.to = "volume" /\ v = w.at)
    <3>1. volume'[v] = volume[v]
      BY <1>2, <1>5, <2>2
    <3> QED
      BY <3>1 DEF Numbers
  <2> QED
    BY <2>1, <2>2
<1>8. /\ \A v \in Volume : view'[v] \in Int
      /\ \A x \in Pending' : NumberWrite(x)
      /\ known_free_clusters' \in Int /\ open_free' \in Int /\ flushed_free' \in Int
      /\ restoring_free' \in Int
  BY <1>2, <1>3 DEF Numbers, freeVars
<1> QED
  BY <1>6, <1>7, <1>8 DEF Numbers, NumberWrite

LEMMA StepNumbers ==
    ASSUME Numbers, CommitInv, RingInv', [FsNext]_fsVars, "full" \notin Allowed
    PROVE  Numbers'
<1>1. CrashInv /\ MapsInv /\ DiskInv
  BY DEF CommitInv
<1>2. CASE DiskWrite
  BY <1>1, <1>2, DiskWriteNumbers
<1>3. CASE Crash \/ Mount \/ Recover \/ Remount \/ BeginSession
  BY <1>1, <1>3, MountNumbers
<1>4. CASE WriteData \/ Create \/ Delete
  BY <1>1, <1>4, WriteStepNumbers
<1>5. CASE WriteFails
  BY <1>5, Zenon DEF WriteFails
<1>6. CASE Commit \/ StartRestore
  BY <1>6, CommitStepNumbers
<1>7. CASE RestorePass
  BY <1>1, <1>7, RestorePassNumbers
<1>8. CASE EndRestore
  BY <1>8, EndRestoreNumbers
<1>9. CASE UNCHANGED fsVars
  <2>1. UNCHANGED <<journal, volume, view, io, freeVars>>
    BY <1>9, Zenon DEF fsVars, diskVars
  <2> QED
    BY <2>1 DEF Numbers, NumberWrite, Pending, freeVars
<1> QED
  BY <1>2, <1>3, <1>4, <1>5, <1>6, <1>7, <1>8, <1>9, Zenon DEF FsNext

LEMMA InitNumbers == ASSUME FsInit PROVE Numbers
<1>1. /\ journal = [b \in Blocks |-> Unwritten] /\ io = <<>> /\ view = volume
      /\ volume = [v \in Volume |-> IF v = "fat" THEN InitFree ELSE 0]
      /\ known_free_clusters = InitFree /\ open_free = 0 /\ flushed_free = 0 /\ restoring_free = 0
  BY Zenon DEF FsInit
<1>2. InitFree \in Int
  BY FsAssumption
<1>3. \A b \in Blocks : journal[b].val = 0
  BY <1>1 DEF Unwritten
<1>4. \A v \in Volume : volume[v] \in Int
  BY <1>1, <1>2
<1>5. Pending = {}
  BY <1>1, NoWrites DEF Pending
<1> QED
  BY <1>1, <1>2, <1>3, <1>4, <1>5 DEF Numbers

-----------------------------------------------------------------------------
(* The free-space signature.  While no clusters are freed, frames that wait *)
(* for their restore have the free space of the volume, so that no mount    *)
(* takes them for out of date.                                              *)

NoVolumeWrites == \A w \in Pending : w.to # "volume"
UpToDate ==
    /\ open_free = 0 /\ flushed_free = 0 /\ restoring_free = 0
    /\ mode = "start" => known_free_clusters = volume["fat"]
    /\ mode = "up" =>
          /\ known_free_clusters = view["fat"]
          /\ restoring_start_record = 0 =>
                session_current_freespace = volume["fat"] /\ NoVolumeWrites
          /\ restoring_start_record # 0 => session_current_freespace = known_free_clusters
          /\ restoring_start_record # 0 /\ journal[restoring_terminal_record].type = "flushed" =>
                journal[restoring_terminal_record].space = volume["fat"] /\ NoVolumeWrites

LEMMA MountUpToDate ==
    ASSUME UpToDate, DiskInv, Crash \/ Mount \/ Recover \/ Remount \/ BeginSession
    PROVE  UpToDate'
<1>1. open_free = 0 /\ flushed_free = 0 /\ restoring_free = 0
  BY DEF UpToDate
<1>2. CASE Crash \/ Recover \/ Remount
  <2>1. /\ open_free' = 0 /\ flushed_free' = 0 /\ restoring_free' = 0
        /\ mode' \in {"down", "recover", "remount"}
    <3>1. Crash => /\ open_free' = 0 /\ flushed_free' = 0 /\ restoring_free' = 0
                   /\ mode' = "down"
      BY Zenon DEF Crash, InMemory
    <3>2. Remount => UNCHANGED freeVars /\ mode' = "down"
      BY Zenon DEF Remount
    <3>3. Recover => UNCHANGED freeVars /\ (mode' = mode \/ mode' = "remount") /\ mode = "recover"
      BY Zenon DEF Recover
    <3> QED
      BY <1>1, <1>2, <3>1, <3>2, <3>3 DEF freeVars
  <2> QED
    BY <2>1 DEF UpToDate
<1>3. CASE Mount
  <2>1. /\ known_free_clusters' = volume["fat"] /\ mode' \in {"start", "recover"}
        /\ UNCHANGED <<diskVars, open_free, flushed_free, restoring_free>>
    BY <1>3, Zenon DEF Mount
  <2> QED
    BY <1>1, <2>1 DEF UpToDate, diskVars
<1>4. CASE BeginSession
  <2>1. /\ mode = "start" /\ mode' = "up"
        /\ session_current_freespace' = known_free_clusters
        /\ UNCHANGED <<diskVars, known_free_clusters, view>>
        /\ StartJournaling /\ InMemory
    BY <1>4, Zenon DEF BeginSession
  <2>2. open_free' = 0 /\ flushed_free' = 0 /\ restoring_free' = 0 /\ restoring_start_record' = 0
    BY <2>1, Zenon DEF StartJournaling, InMemory
  <2>3. known_free_clusters = volume["fat"] /\ volume["fat"] = view["fat"]
    BY <2>1 DEF UpToDate, DiskInv, AfterRecovery, Volume
  <2>4. NoVolumeWrites'
    BY <1>4, BeginGoes DEF NoVolumeWrites
  <2> QED
    BY <2>1, <2>2, <2>3, <2>4 DEF UpToDate, diskVars
<1> QED
  BY <1>2, <1>3, <1>4

LEMMA WriteUpToDate ==
    ASSUME UpToDate, MapsInv, DiskInv, RingInv', "delete" \notin Allowed, AsyncRestore = FALSE,
           WriteData \/ Create \/ Delete
    PROVE  UpToDate'
<1>1. PICK v \in Volume : \E c : Write(v, c)
  BY Zenon DEF WriteData, Create, Delete, Volume
<1>2. PICK c : Write(v, c)
  BY <1>1
<1>3. /\ Ready /\ MayWrite /\ UNCHANGED <<diskVars, session_current_freespace, mode>>
  BY <1>2, Zenon DEF Write
<1>4. mode = "up" /\ mode' = "up" /\ restoring_start_record = 0 /\ volume' = volume
  BY <1>3 DEF Ready, MayWrite, diskVars
<1>5. restoring_start_record' = 0
  <2>1. UNCHANGED restoringVars
    BY <1>2, Zenon DEF Write, Rewrite, WriteInFrame, WriteInNewFrame, AllocInFrame, AllocInNewFrame,
                       ringVars
  <2> QED
    BY <1>4, <2>1 DEF restoringVars
<1>6. NoVolumeWrites'
  BY <1>2, WriteGoes DEF NoVolumeWrites
<1>7. view = [u \in Volume |-> view[u]] /\ "fat" \in Volume /\ "fat" \notin Data
  BY FsAssumption DEF DiskInv, DiskTyped, Volume
<1>8. /\ open_free' = open_free /\ flushed_free' = flushed_free /\ restoring_free' = restoring_free
      /\ known_free_clusters' = view'["fat"]
  <2>1. CASE WriteData
    <3>1. PICK u \in Data : view' = [view EXCEPT ![u] = 1 - view[u]]
      BY <2>1, Zenon DEF WriteData, Write
    <3>2. view'["fat"] = view["fat"]
      BY <1>7, <3>1
    <3>3. UNCHANGED freeVars
      BY <2>1, Zenon DEF WriteData
    <3> QED
      BY <1>4, <3>2, <3>3 DEF UpToDate, freeVars
  <2>2. CASE Create
    <3>1. /\ view' = [view EXCEPT !["fat"] = view["fat"] - 1] /\ open_free' = open_free
          /\ known_free_clusters' = known_free_clusters - 1
          /\ UNCHANGED <<flushed_free, restoring_free>>
      BY <2>2, Zenon DEF Create, Write
    <3>2. view'["fat"] = view["fat"] - 1
      BY <1>7, <3>1
    <3> QED
      BY <1>4, <3>1, <3>2 DEF UpToDate
  <2>3. CASE Delete
    BY <2>3, Zenon DEF Delete
  <2> QED
    BY <2>1, <2>2, <2>3
<1> QED
  BY <1>3, <1>4, <1>5, <1>6, <1>8 DEF UpToDate

LEMMA CommitUpToDate ==
    ASSUME UpToDate, Commit
    PROVE  UpToDate'
<1>1. /\ mode = "up" /\ restoring_start_record = 0 /\ volume' = volume
      /\ UNCHANGED <<mode, view, known_free_clusters, restoring_free, session_current_freespace>>
  BY Zenon DEF Commit, Ready, diskVars, sessionVars
<1>2. \/ flushed_free' = flushed_free + open_free /\ open_free' = 0
      \/ UNCHANGED <<open_free, flushed_free>>
  BY Zenon DEF Commit
<1>3. restoring_start_record' = 0
  <2>1. UNCHANGED restoringVars
    BY Zenon DEF Commit, Flush, ringVars
  <2> QED
    BY <1>1, <2>1 DEF restoringVars
<1>4. NoVolumeWrites'
  BY CommitGoes DEF NoVolumeWrites
<1> QED
  BY <1>1, <1>2, <1>3, <1>4 DEF UpToDate

LEMMA StartRestoreUpToDate ==
    ASSUME UpToDate, CrashInv, StartRestore
    PROVE  UpToDate'
<1>1. /\ Ready /\ ~open_remapped /\ RestoreStart /\ restoring_free' = flushed_free /\ flushed_free' = 0
      /\ session_current_freespace' = known_free_clusters
      /\ UNCHANGED <<diskVars, known_free_clusters, open_free, mode, io, view>>
  BY Zenon DEF StartRestore
<1>2. /\ restoring_start_record = 0
      /\ flushed_start_record # 0 /\ flushed_terminal_record # 0
      /\ restoring_start_record' = flushed_start_record
      /\ restoring_terminal_record' = flushed_terminal_record
  BY <1>1, Zenon DEF RestoreStart
<1>3. PICK e, cur, r, lo, f, sp, fm : Sessions /\ FrameFits /\ Idle(e, cur, r, lo, f, sp, fm)
  BY <1>1, <1>2, ReadyIs DEF Restores
<1>4. journal[flushed_terminal_record].space = sp /\ sp = session_current_freespace
  <2>1. /\ InOrder(journal, master, e, cur, r, f, "flushed", sp, fm) /\ Committed(r, f, fm)
        /\ sp = session_current_freespace
    BY <1>3 DEF Idle, InUseBy
  <2>2. r < f /\ AFrame(flushed_terminal_record) /\ journal[flushed_terminal_record].seq = f
    BY <1>2, <2>1 DEF Committed
  <2>3. Signed(journal, master, r, sp)
    BY <2>1 DEF InOrder
  <2> QED
    BY <2>1, <2>2, <2>3 DEF Signed, AFrame
<1>5. UNCHANGED <<journal, volume>>
  BY <1>1 DEF diskVars
<1>6. NoVolumeWrites'
  BY <1>1, NoWrites DEF NoVolumeWrites, Pending, Ready, Done
<1>7. journal'[restoring_terminal_record'].space = volume'["fat"]
  BY <1>1, <1>2, <1>4, <1>5 DEF UpToDate, Ready
<1> QED
  BY <1>1, <1>2, <1>5, <1>6, <1>7 DEF UpToDate, Ready

\* While the blocks are copied the terminal frame is marked RESTORING.
LEMMA CopyIsMarked ==
    ASSUME CrashInv, MapsInv, Ready, restore_state = "copy"
    PROVE  journal[restoring_terminal_record].type = "restoring"
<1>1. restoring_start_record # 0
  BY DEF MapsInv, MapsTyped, Ready
<1>2. PICK e, cur, r, f, mark, sp, fm :
         /\ InOrder(journal, master, e, cur, r, f, mark, sp, fm)
         /\ Restores(e, cur, r, f, mark, fm)
  BY <1>1, ReadyIs DEF Idle
<1>3. /\ AFrame(restoring_terminal_record) /\ journal[restoring_terminal_record].seq = e /\ f = e
      /\ Passes(restoring_terminal_record, r, f, mark, fm)
  BY <1>2 DEF Restores
<1>4. PICK b : b = restoring_terminal_record
  OBVIOUS
<1>5. Mark(b, "restoring") # <<>>
  BY MarkIsWrite
<1>6. r < f /\ mark = "restoring"
  BY <1>3, <1>4, <1>5 DEF Passes, Ready, Done
<1>7. MarkFits(journal[b], r, f, mark)
  BY <1>2, <1>3, <1>4 DEF InOrder, Marked, AFrame
<1> QED
  BY <1>3, <1>4, <1>6, <1>7 DEF MarkFits

LEMMA RestorePassUpToDate ==
    ASSUME UpToDate, CrashInv, MapsInv, RestorePass
    PROVE  UpToDate'
<1>1. /\ Ready /\ UNCHANGED diskVars
      /\ UNCHANGED <<ringVars, sessionVars, freeVars, mode, view>>
      /\ \/ restore_state = "copy"
         \/ io' = Mark(restoring_terminal_record, "restoring")
  BY Zenon DEF RestorePass
<1>2. /\ mode = "up" /\ mode' = "up"
      /\ UNCHANGED <<open_free, flushed_free, restoring_free, known_free_clusters, volume, view, journal>>
      /\ UNCHANGED <<session_current_freespace, restoring_start_record, restoring_terminal_record>>
  BY <1>1 DEF Ready, diskVars, ringVars, restoringVars, sessionVars, freeVars
<1>3. restoring_start_record # 0
  BY <1>1, <1>2, Zenon DEF MapsInv, MapsTyped, RestorePass
<1>4. CASE restore_state = "copy"
  <2>1. journal'[restoring_terminal_record'].type = "restoring"
    BY <1>1, <1>2, <1>4, CopyIsMarked
  <2>2. /\ open_free = 0 /\ flushed_free = 0 /\ restoring_free = 0
        /\ known_free_clusters = view["fat"] /\ session_current_freespace = known_free_clusters
    BY <1>2, <1>3 DEF UpToDate
  <2> QED
    BY <1>2, <1>3, <2>1, <2>2 DEF UpToDate
<1>5. CASE io' = Mark(restoring_terminal_record, "restoring")
  <2>1. PICK x : io' = ToJournal(restoring_terminal_record, x)
    BY <1>5 DEF Mark
  <2>2. NoVolumeWrites'
    <3>1. PICK w : w = [to |-> "journal", at |-> restoring_terminal_record, val |-> x]
      OBVIOUS
    <3>2. w.to = "journal"
      BY <3>1
    <3>3. WritesOf(ToJournal(restoring_terminal_record, x)) = {w}
      <4>1. \A b : WritesOf(ToJournal(b, x)) = {[to |-> "journal", at |-> b, val |-> x]}
        BY KindsOfWrites, Zenon
      <4> QED
        BY <3>1, <4>1, Zenon
    <3>4. Pending' = {w}
      BY <2>1, <3>3, Zenon DEF Pending
    <3> QED
      BY <3>2, <3>4 DEF NoVolumeWrites
  <2>3. /\ open_free = 0 /\ flushed_free = 0 /\ restoring_free = 0
        /\ known_free_clusters = view["fat"] /\ session_current_freespace = known_free_clusters
        /\ journal[restoring_terminal_record].type = "flushed" =>
              journal[restoring_terminal_record].space = volume["fat"]
    BY <1>2, <1>3 DEF UpToDate
  <2> QED
    BY <1>2, <1>3, <2>2, <2>3 DEF UpToDate
<1> QED
  BY <1>1, <1>4, <1>5

LEMMA EndRestoreUpToDate ==
    ASSUME UpToDate, Numbers, CrashInv, MapsInv, DiskInv, EndRestore
    PROVE  UpToDate'
<1>1. /\ Ready /\ restore_state = "clear" /\ RestoreComplete
      /\ io' = (IF KeepHandle THEN <<>> ELSE ClearHandle)
      /\ known_free_clusters' = known_free_clusters + restoring_free /\ restoring_free' = 0
      /\ UNCHANGED <<diskVars, sessionVars, open_free, flushed_free, mode, view>>
  BY Zenon DEF EndRestore
<1>2. /\ mode = "up" /\ mode' = "up" /\ io = <<>>
      /\ UNCHANGED <<open_free, flushed_free, volume, view, session_current_freespace>>
  BY <1>1 DEF Ready, Done, diskVars, sessionVars
<1>3. restoring_start_record # 0
  BY <1>1, <1>2 DEF MapsInv, MapsTyped
<1>4. /\ session_current_freespace = known_free_clusters /\ known_free_clusters = view["fat"]
      /\ restoring_free = 0 /\ open_free = 0 /\ flushed_free = 0
  BY <1>2, <1>3 DEF UpToDate
<1>5. volume["fat"] = view["fat"]
  <2>1. openMap = NoMap /\ flushedMap = NoMap
    BY <1>1, <1>3, ReadyIs DEF Restores, Idle
  <2>2. "fat" \in Volume /\ openMap["fat"] = 0 /\ flushedMap["fat"] = 0
    BY <2>1 DEF Volume, NoMap
  <2>3. OnVolume("fat")
    BY <1>1, <1>2, <2>2 DEF DiskInv, InUse, ToCopy, OnVolume
  <2>4. VolumeHolds("fat", view["fat"])
    BY <1>2, <2>2, <2>3 DEF DiskInv, InUse
  <2>5. Pending = {}
    BY <1>2, NoWrites DEF Pending
  <2> QED
    BY <2>4, <2>5 DEF VolumeHolds, VolumeWrites
<1>6. restoring_start_record' = 0
  BY <1>1, Zenon DEF RestoreComplete
<1>7. NoVolumeWrites'
  <2>1. CASE KeepHandle
    BY <1>1, <2>1, NoWrites DEF NoVolumeWrites, Pending
  <2>2. CASE ~KeepHandle
    <3>1. PICK s : s = ClearHandle
      OBVIOUS
    <3>2. \A w \in WritesOf(s) : w.to \in {"fat2", "handle"}
      BY <3>1, ClearHandleWrites
    <3> QED
      BY <1>1, <2>2, <3>1, <3>2 DEF NoVolumeWrites, Pending
  <2> QED
    BY <2>1, <2>2
<1>8. known_free_clusters' = view'["fat"] /\ session_current_freespace' = volume'["fat"]
  <2>1. view["fat"] \in Int
    BY DEF Numbers, Volume
  <2>2. known_free_clusters' = view["fat"]
    BY <1>1, <1>4, <2>1
  <2> QED
    BY <1>2, <1>4, <1>5, <2>2
<1> QED
  BY <1>1, <1>2, <1>4, <1>6, <1>7, <1>8 DEF UpToDate

LEMMA DiskWriteUpToDate ==
    ASSUME UpToDate, CrashInv, DiskInv, DiskWrite
    PROVE  UpToDate'
<1>1. /\ io # <<>> /\ UNCHANGED memoryVars /\ Head(io) \in Pending
      /\ Head(io).to = "journal" => /\ Wrote(journal, journal', Head(io).at, Head(io).val)
                                    /\ UNCHANGED volume
      /\ Head(io).to # "volume" => UNCHANGED volume
      /\ Head(io).to # "journal" => UNCHANGED journal
  <2>1. PICK w : w = Head(io)
    OBVIOUS
  <2>2. /\ journal' = IF w.to = "journal" THEN [journal EXCEPT ![w.at] = w.val] ELSE journal
        /\ volume' = IF w.to = "volume" THEN [volume EXCEPT ![w.at] = w.val] ELSE volume
    BY <2>1, Zenon DEF DiskWrite
  <2>3. /\ io # <<>> /\ UNCHANGED memoryVars /\ w \in Pending
        /\ w.to = "journal" => Wrote(journal, journal', w.at, w.val) /\ UNCHANGED volume
    BY <2>1, DiskWriteIs
  <2> QED
    BY <2>1, <2>2, <2>3
<1>2. Pending' \subseteq Pending
  BY WriteDone DEF DiskInv, DiskTyped
<1>3. UNCHANGED <<open_free, flushed_free, restoring_free, mode, known_free_clusters, view,
                  session_current_freespace, restoring_start_record, restoring_terminal_record>>
  BY <1>1 DEF memoryVars, freeVars, sessionVars, ringVars, restoringVars
<1>4. mode # "start"
  BY <1>1 DEF DiskInv, DiskTyped
<1>5. NoVolumeWrites => NoVolumeWrites' /\ volume' = volume
  BY <1>1, <1>2 DEF NoVolumeWrites
<1>6. ASSUME mode = "up", restoring_start_record # 0, journal'[restoring_terminal_record].type = "flushed"
      PROVE  journal' = journal
  <2>1. SUFFICES ASSUME Head(io).to = "journal" PROVE FALSE
    BY <1>1
  <2>2. PICK e, cur, r, lo, f, mark, sp, fm :
           /\ InOrder(journal, master, e, cur, r, f, mark, sp, fm)
           /\ Stage(e, cur, r, lo, f, mark, sp, fm)
    BY DEF CrashInv
  <2>3. Restores(e, cur, r, f, mark, fm)
    BY <1>6, <2>2 DEF Stage, Beginning, RingInit, Writing
  <2>4. /\ restoring_terminal_record \in Blocks
        /\ Passes(restoring_terminal_record, r, f, mark, fm)
    BY <2>3 DEF Restores, AFrame
  <2>5. PICK b : b = restoring_terminal_record
    OBVIOUS
  <2>6. PICK type \in {"restoring", "restored"} : io = Mark(b, type)
    <3>1. Head(io).to \notin {"volume", "fat2", "handle"}
      BY <2>1
    <3> QED
      BY <1>1, <2>4, <2>5, <3>1, Zenon DEF Passes
  <2>7. Head(io).at = b /\ Head(io).val.type = type
    <3>1. HeaderAt(b, journal[b])
      BY <2>3, <2>4, <2>5 DEF DiskInv, DiskTyped, WellFormed, Restores, AFrame, IsFrame
    <3>2. PICK x : x = [journal[b] EXCEPT !.type = type]
      OBVIOUS
    <3>3. type \in HeaderTypes
      BY DEF HeaderTypes
    <3>4. /\ Pending = {[to |-> "journal", at |-> b, val |-> x]} /\ x.type = type
      BY <2>4, <2>5, <2>6, <3>1, <3>2, <3>3, MarkWrites DEF Pending
    <3>5. Head(io) = [to |-> "journal", at |-> b, val |-> x]
      BY <1>1, <3>4
    <3> QED
      BY <3>4, <3>5
  <2>8. journal'[b].type = type
    BY <1>1, <2>1, <2>4, <2>5, <2>7 DEF Wrote
  <2> QED
    BY <1>6, <2>5, <2>8
<1> QED
  BY <1>3, <1>4, <1>5, <1>6 DEF UpToDate

LEMMA StepUpToDate ==
    ASSUME UpToDate, Numbers, CommitInv, RingInv', [FsNext]_fsVars,
           AsyncRestore = FALSE, Allowed \subseteq {"create"}
    PROVE  UpToDate'
<1>1. CrashInv /\ MapsInv /\ DiskInv
  BY DEF CommitInv
<1>2. CASE DiskWrite
  BY <1>1, <1>2, DiskWriteUpToDate
<1>3. CASE Crash \/ Mount \/ Recover \/ Remount \/ BeginSession
  BY <1>1, <1>3, MountUpToDate
<1>4. CASE WriteData \/ Create \/ Delete
  <2>1. "delete" \notin Allowed
    OBVIOUS
  <2> QED
    BY <1>1, <1>4, <2>1, WriteUpToDate
<1>5. CASE WriteFails
  <2>1. "full" \in Allowed
    BY <1>5, Zenon DEF WriteFails
  <2> QED
    BY <2>1
<1>6. CASE Commit
  BY <1>6, CommitUpToDate
<1>7. CASE StartRestore
  BY <1>1, <1>7, StartRestoreUpToDate
<1>8. CASE RestorePass
  BY <1>1, <1>8, RestorePassUpToDate
<1>9. CASE EndRestore
  BY <1>1, <1>9, EndRestoreUpToDate
<1>10. CASE UNCHANGED fsVars
  <2>1. UNCHANGED <<journal, volume, view, io, freeVars, mode, sessionVars, ringVars>>
    BY <1>10, Zenon DEF fsVars, diskVars
  <2> QED
    BY <2>1 DEF UpToDate, NoVolumeWrites, Pending, freeVars, sessionVars, ringVars, restoringVars
<1> QED
  BY <1>2, <1>3, <1>4, <1>5, <1>6, <1>7, <1>8, <1>9, <1>10, Zenon DEF FsNext

LEMMA InitUpToDate == FsInit => UpToDate
<1>1. ASSUME FsInit PROVE open_free = 0 /\ flushed_free = 0 /\ restoring_free = 0 /\ mode = "down"
  BY <1>1, Zenon DEF FsInit
<1> QED
  BY <1>1 DEF UpToDate

LEMMA UpToDateAlways ==
    ASSUME AsyncRestore = FALSE, Allowed \subseteq {"create"}
    PROVE  FsSpec => [](CommitInv /\ Numbers /\ UpToDate)
<1>1. "full" \notin Allowed
  OBVIOUS
<1>2. FsInit => CommitInv /\ Numbers /\ UpToDate
  BY CommitInit, InitNumbers, InitUpToDate
<1>3. ASSUME CommitInv, Numbers, UpToDate, [FsNext]_fsVars
      PROVE  CommitInv' /\ Numbers' /\ UpToDate'
  <2>1. CommitInv'
    BY <1>1, <1>3, CommitStep
  <2>2. RingInv'
    BY <2>1 DEF CommitInv, MapsInv
  <2> QED
    BY <1>1, <1>3, <2>1, <2>2, StepNumbers, StepUpToDate
<1> QED
  BY <1>2, <1>3, PTL DEF FsSpec

\* A commit that returns has nothing left to write.
LEMMA Returning ==
    ASSUME CommitInv, ~Done, Head(io).to = "return"
    PROVE  /\ mode = "up" /\ io = Return /\ openMap = NoMap /\ restoring_start_record = 0
           /\ \E e, cur, r, lo, f, sp : Writing(e, cur, r, lo, f, "flushed", sp, flushedMap)
                                        /\ InOrder(journal, master, e, cur, r, f, "flushed", sp, flushedMap)
                                        /\ (r < f => JournalFound(handle))
<1>1. /\ CrashInv /\ DiskTyped /\ io # <<>>
  BY DEF CommitInv, DiskInv, Done
<1>2. Head(io) \in Pending
  BY <1>1, FirstWrite DEF DiskTyped, Pending
<1>3. PICK h : h = Head(io)
  OBVIOUS
<1>4. PICK e, cur, r, lo, f, mark, sp, fm :
         /\ InOrder(journal, master, e, cur, r, f, mark, sp, fm)
         /\ Stage(e, cur, r, lo, f, mark, sp, fm)
  BY <1>1 DEF CrashInv
<1>5. mode \notin {"down", "start", "recover", "remount"}
  <2>1. h.to = "return" /\ h \in Pending
    BY <1>2, <1>3
  <2> QED
    BY <1>1, <2>1 DEF DiskTyped
<1>6. ~Beginning(r, f, mark, sp)
  <2>1. MasterWrite.to = "master"
    BY DEF MasterWrite
  <2> QED
    BY <2>1 DEF Beginning
<1>7. ~Restores(e, cur, r, f, mark, fm)
  <2>1. ASSUME Restores(e, cur, r, f, mark, fm) PROVE FALSE
    <3>1. PICK b : b = restoring_terminal_record
      OBVIOUS
    <3>2. Passes(b, r, f, mark, fm)
      BY <2>1, <3>1 DEF Restores
    <3>3. PICK type : io = Mark(b, type)
      <4>1. h.to \notin {"volume", "fat2", "handle"} /\ h \in Pending
        BY <1>2, <1>3
      <4> QED
        BY <1>1, <3>2, <4>1, Zenon DEF Passes
    <3>4. PICK x, w : x = [journal[b] EXCEPT !.type = type] /\ w = [to |-> "journal", at |-> b, val |-> x]
      OBVIOUS
    <3>5. io = <<w>>
      BY <3>3, <3>4 DEF Mark, ToJournal
    <3> QED
      BY <3>4, <3>5
  <2> QED
    BY <2>1
<1>8. mode = "up" /\ Writing(e, cur, r, lo, f, mark, sp, fm)
  BY <1>4, <1>5, <1>6, <1>7 DEF Stage
<1>9. /\ restoring_start_record = 0 /\ mark = "flushed"
      /\ r < f => JournalFound(handle) \/ io = ToHandle(TRUE) \o Return
      /\ Filling(e, cur, r, lo, f, fm) \/ Flushing(e, cur, r, lo, f, fm)
  BY <1>8 DEF Writing
<1>10. \A b, x : JournalWrite(b, x).to = "journal" /\ MasterWrite.to = "master"
  BY DEF JournalWrite, MasterWrite
<1>11. \A x, b : DataTo(x, b) => Head(x).to = "journal"
  <2>1. ASSUME NEW x, NEW b, DataTo(x, b) PROVE Head(x).to = "journal"
    <3>1. PICK w : x = <<w>> /\ w.to = "journal"
      BY <1>10, <2>1 DEF DataTo
    <3> QED
      BY <3>1
  <2> QED
    BY <2>1
<1>12. ~Flushing(e, cur, r, lo, f, fm) /\ ~ClosePending(e, cur, lo, f)
  BY <1>10 DEF Flushing, ClosePending, Closing
<1>13. ~DataPending(e, cur, lo, f)
  BY <1>11 DEF DataPending
<1>14. ~AppendPending(e, cur, lo)
  <2>1. ~Opening(io) /\ ~Moving(io)
    BY <1>10 DEF Opening, Moving
  <2> QED
    BY <1>10, <2>1 DEF AppendPending, Appending
<1>15. Settled(e, cur, r, f) /\ Committed(r, f, fm)
  BY <1>9, <1>12, <1>13, <1>14, Zenon DEF Filling
<1>16. io # ToHandle(TRUE) \o Return
  <2>1. PICK w, t : w = [to |-> "handle", val |-> TRUE] /\ t = Return
    OBVIOUS
  <2>2. t \in Seq(WritesOf(t)) /\ ToHandle(TRUE) = <<w>>
    BY <2>1, OneWrite DEF Return, ToHandle
  <2>3. Head(<<w>> \o t) = w
    BY <2>2, Peel
  <2>4. w.to # "return"
    BY <2>1
  <2> QED
    BY <1>3, <2>1, <2>2, <2>3, <2>4
<1>17. openMap = NoMap /\ io = Return
  <2>1. ~(\A w \in Pending : w.to \in {"fat2", "handle"})
    BY <1>2, <1>3
  <2>2. ~(\E b \in Blocks : DataTo(io, b))
    BY <1>11
  <2> QED
    BY <1>1, <1>15, <1>16, <2>1, <2>2 DEF Settled
<1>18. fm = flushedMap
  BY <1>15 DEF Committed
<1> QED
  BY <1>4, <1>8, <1>9, <1>16, <1>17, <1>18

-----------------------------------------------------------------------------
(* When a mount would make the volume of the disk that its user sees *)

\* fm gives the blocks that count, the others are on the volume.
LEMMA RecoveredIsView ==
    ASSUME NEW e, NEW cur, NEW r, NEW f, NEW mark, NEW sp, NEW fm,
           InOrder(journal, master, e, cur, r, f, mark, sp, fm), DiskInv,
           r < f => Restorable(r, f, mark, sp, handle, volume),
           \A v \in Volume : r < f /\ fm[v] # 0 => ValueAt(journal, fm[v]) = view[v],
           \A v \in Volume : (r < f /\ fm[v] # 0) \/ volume[v] = view[v]
    PROVE  Recovered = view
<1>1. Recovered = [v \in Volume |-> IF Restorable(r, f, mark, sp, handle, volume) /\ fm[v] # 0
                                    THEN ValueAt(journal, fm[v]) ELSE volume[v]]
  BY RecoveredInOrder DEF Recovered
<1>2. view = [v \in Volume |-> view[v]]
  BY DEF DiskInv, DiskTyped
<1>3. ASSUME NEW v \in Volume
      PROVE  (IF Restorable(r, f, mark, sp, handle, volume) /\ fm[v] # 0
              THEN ValueAt(journal, fm[v]) ELSE volume[v]) = view[v]
  <2>1. Restorable(r, f, mark, sp, handle, volume) => r < f
    BY DEF Restorable
  <2> QED
    BY <2>1
<1> QED
  BY <1>1, <1>2, <1>3

\* The session that is committed or being restored is all there is.
LEMMA SessionRecovered ==
    ASSUME NEW e, NEW cur, NEW r, NEW f, NEW mark, NEW sp, NEW fm,
           InOrder(journal, master, e, cur, r, f, mark, sp, fm), DiskInv, mode = "up",
           r < f => Restorable(r, f, mark, sp, handle, volume),
           \A v \in Volume : Shown(v) = fm[v],
           \A v \in Volume : fm[v] = 0 => OnVolume(v) /\ VolumeWrites(v) = {},
           \A v \in Volume : fm[v] # 0 => JournalWrites(fm[v]) = {}
    PROVE  Recovered = view
<1>1. ASSUME NEW v \in Volume, fm[v] # 0 PROVE r < f /\ ValueAt(journal, fm[v]) = view[v]
  <2>1. PICK b \in Blocks, i \in 1 .. FrameMax : RecordIn(journal, master, r, f, b, i, v)
    BY <1>1 DEF InOrder, MapOf
  <2>2. /\ r < journal[b].seq /\ journal[b].seq <= f /\ journal[b].seq \in 1 .. e
        /\ r \in Int /\ f \in Int /\ e \in Int
    BY <2>1 DEF RecordIn, InOrder, InSequence
  <2>3. r < f
    BY <2>2
  <2>4. JournalHolds(Shown(v), DataBlock(view[v]))
    BY <1>1 DEF DiskInv, InUse
  <2>5. journal[fm[v]] = DataBlock(view[v])
    BY <1>1, <2>4 DEF JournalHolds
  <2> QED
    BY <2>3, <2>5 DEF ValueAt, DataBlock
<1>2. ASSUME NEW v \in Volume, fm[v] = 0 PROVE volume[v] = view[v]
  <2>1. VolumeHolds(v, view[v])
    BY <1>2 DEF DiskInv, InUse
  <2> QED
    BY <1>2, <2>1 DEF VolumeHolds
<1> QED
  BY <1>1, <1>2, RecoveredIsView

\* A transaction that is committed, with its frames on the disk.
Persisted ==
    /\ mode = "up" /\ openMap = NoMap /\ restoring_start_record = 0
    /\ \A w \in Pending : w.to \in {"handle", "return"}
    /\ \E e, cur, r, lo, f, sp : /\ Writing(e, cur, r, lo, f, "flushed", sp, flushedMap)
                                 /\ InOrder(journal, master, e, cur, r, f, "flushed", sp, flushedMap)
                                 /\ (r < f => JournalFound(handle))

LEMMA PersistedKept == CommitInv /\ UpToDate /\ Persisted => Recovered = view
<1>1. SUFFICES ASSUME CommitInv, UpToDate, Persisted PROVE Recovered = view
  OBVIOUS
<1>2. PICK e, cur, r, lo, f, sp :
         /\ Writing(e, cur, r, lo, f, "flushed", sp, flushedMap)
         /\ InOrder(journal, master, e, cur, r, f, "flushed", sp, flushedMap)
         /\ (r < f => JournalFound(handle))
  BY <1>1 DEF Persisted
<1>3. /\ mode = "up" /\ openMap = NoMap /\ restoring_start_record = 0 /\ restoringMap = NoMap /\ DiskInv
      /\ sp = session_current_freespace /\ sp = volume["fat"]
  BY <1>1, <1>2 DEF Persisted, CommitInv, MapsInv, MapsTyped, Writing, UpToDate
<1>4. r < f => Restorable(r, f, "flushed", sp, handle, volume)
  BY <1>2, <1>3 DEF Restorable
<1>5. (\A b : JournalWrites(b) = {}) /\ (\A v : VolumeWrites(v) = {})
  BY <1>1 DEF Persisted, JournalWrites, VolumeWrites
<1>6. ASSUME NEW v \in Volume
      PROVE  Shown(v) = flushedMap[v] /\ (flushedMap[v] = 0 => OnVolume(v))
  BY <1>3 DEF Shown, OnVolume, NoMap
<1> QED
  BY <1>2, <1>3, <1>4, <1>5, <1>6, SessionRecovered

LEMMA PersistedKeptNext == (CommitInv /\ UpToDate /\ Persisted => Recovered = view)'
  BY PersistedKept, PTL

LEMMA ReturnIsKept == CommitInv /\ UpToDate => CommitGuarantee
<1>1. SUFFICES ASSUME CommitInv, UpToDate, ~Done, Head(io).to = "return" PROVE Recovered = view
  BY DEF CommitGuarantee
<1>2. io = Return
  BY <1>1, Returning
<1>3. \A w \in Pending : w.to = "return"
  BY <1>2, KindsOfWrites DEF Pending
<1>4. Persisted
  BY <1>1, <1>3, Returning DEF Persisted
<1> QED
  BY <1>1, <1>4, PersistedKept

LEMMA ReturnIsKeptNext == (CommitInv /\ UpToDate => CommitGuarantee)'
  BY ReturnIsKept, PTL

\* A commit that returns successfully (_fs_api_commit) has made everything that
\* was written before it permanent: a mount after a power failure at this
\* instant leaves the volume as its user sees it now.
THEOREM CommitsAreKept ==
    ASSUME AsyncRestore = FALSE, Allowed \subseteq {"create"}
    PROVE  FsSpec => []CommitGuarantee
  BY ReturnIsKept, UpToDateAlways, PTL

-----------------------------------------------------------------------------
(* Freed clusters.  Those that may be allocated are free on the volume and  *)
(* in the FAT of the last commit, be it in the journal only.                *)

FreeKept ==
    /\ mode = "start" => known_free_clusters = volume["fat"]
    /\ mode = "up" =>
          /\ open_free \in Nat /\ flushed_free \in Nat /\ restoring_free \in Nat
          /\ known_free_clusters + open_free + flushed_free + restoring_free = view["fat"]
          /\ restoring_start_record = 0 => restoring_free = 0
          /\ known_free_clusters <= volume["fat"]
          /\ \A w \in Pending : w.to = "volume" /\ w.at = "fat" => known_free_clusters <= w.val
          /\ flushedMap["fat"] # 0 =>
                /\ journal[flushedMap["fat"]].type = "data"
                /\ known_free_clusters <= journal[flushedMap["fat"]].val

\* No write goes to a block that is committed.
LEMMA FlushedKept ==
    ASSUME CrashInv, DiskInv, DiskWrite, mode = "up", NEW v \in Volume, flushedMap[v] # 0,
           journal[flushedMap[v]].type = "data"
    PROVE  journal'[flushedMap[v]] = journal[flushedMap[v]]
<1>1. PICK w, b : w = Head(io) /\ b = flushedMap[v]
  OBVIOUS
<1>2. journal' = IF w.to = "journal" THEN [journal EXCEPT ![w.at] = w.val] ELSE journal
  BY <1>1, Zenon DEF DiskWrite
<1>3. SUFFICES ASSUME w.to = "journal", w.at = b PROVE FALSE
  BY <1>1, <1>2
<1>4. io # <<>> /\ w \in Pending
  BY <1>1, DiskWriteIs
<1>5. PICK e, cur, r, lo, f, mark, sp, fm : Stage(e, cur, r, lo, f, mark, sp, fm)
  BY DEF CrashInv
<1>6. Writing(e, cur, r, lo, f, mark, sp, fm)
  BY <1>5 DEF Stage, Restores, Beginning, NoMap
<1>7. \A a, x : JournalWrite(a, x).at = a
  BY DEF JournalWrite
<1>8. MasterWrite.to # "journal"
  BY DEF MasterWrite
<1>9. \A x, a : DataTo(x, a) => Head(x).at = a
  <2>1. ASSUME NEW x, NEW a, DataTo(x, a) PROVE Head(x).at = a
    <3>1. PICK y : x = <<y>> /\ y.at = a
      BY <1>7, <2>1 DEF DataTo
    <3> QED
      BY <3>1
  <2> QED
    BY <2>1
<1>10. ~Flushing(e, cur, r, lo, f, fm) /\ ~ClosePending(e, cur, lo, f)
  BY <1>1, <1>3, <1>7 DEF Flushing, ClosePending, Closing, OpenThere
<1>11. ~DataPending(e, cur, lo, f)
  BY <1>1, <1>3, <1>9 DEF DataPending, Untouched
<1>12. ~AppendPending(e, cur, lo)
  BY <1>1, <1>3, <1>7, <1>8 DEF AppendPending, Appending, Moving, Opening, Untouched
<1>13. ~Settled(e, cur, r, f)
  <2>1. ~(\E a \in Blocks : DataTo(io, a) /\ \A u \in Volume : flushedMap[u] # a)
    BY <1>1, <1>3, <1>9
  <2>2. ~(\A y \in Pending : y.to \in {"fat2", "handle"})
    BY <1>3, <1>4
  <2>3. io # Return
    BY <1>1, <1>3 DEF Return
  <2>4. io # ToHandle(TRUE) \o Return
    <3>1. PICK y, t : y = [to |-> "handle", val |-> TRUE] /\ t = Return
      OBVIOUS
    <3>2. t \in Seq(WritesOf(t)) /\ ToHandle(TRUE) = <<y>>
      BY <3>1, OneWrite DEF Return, ToHandle
    <3>3. Head(<<y>> \o t) = y
      BY <3>2, Peel
    <3>4. y.to # "journal"
      BY <3>1
    <3> QED
      BY <1>1, <1>3, <3>1, <3>2, <3>3, <3>4
  <2> QED
    BY <1>4, <2>1, <2>2, <2>3, <2>4 DEF Settled
<1> QED
  BY <1>6, <1>10, <1>11, <1>12, <1>13, Zenon DEF Writing, Filling

LEMMA DiskWriteFree ==
    ASSUME FreeKept, CrashInv, DiskInv, DiskWrite
    PROVE  FreeKept'
<1>1. PICK w : w = Head(io)
  OBVIOUS
<1>2. /\ volume' = IF w.to = "volume" THEN [volume EXCEPT ![w.at] = w.val] ELSE volume
      /\ UNCHANGED <<freeVars, view, mode, ringVars, mapVars>>
  BY <1>1, Zenon DEF DiskWrite
<1>3. io # <<>> /\ w \in Pending /\ Pending' \subseteq Pending
  BY <1>1, DiskWriteIs, WriteDone DEF DiskInv, DiskTyped
<1>4. mode # "start"
  BY <1>3 DEF DiskInv, DiskTyped
<1>5. UNCHANGED <<open_free, flushed_free, restoring_free, known_free_clusters, view, mode,
                  restoring_start_record, flushedMap>>
  BY <1>2 DEF freeVars, ringVars, restoringVars, mapVars
<1>6. "fat" \in Volume /\ DOMAIN volume = Volume
  BY DEF Volume, DiskInv, DiskTyped
<1>7. volume'["fat"] = volume["fat"] \/ (w.to = "volume" /\ w.at = "fat" /\ volume'["fat"] = w.val)
  BY <1>2, <1>6
<1>8. ASSUME mode = "up", flushedMap["fat"] # 0
      PROVE  journal'[flushedMap["fat"]] = journal[flushedMap["fat"]]
  BY <1>6, <1>8, FlushedKept DEF FreeKept
<1>9. CASE mode # "up"
  BY <1>4, <1>5, <1>9 DEF FreeKept
<1>10. CASE mode = "up"
  <2>1. known_free_clusters <= volume'["fat"]
    BY <1>3, <1>7, <1>10 DEF FreeKept
  <2>2. \A y \in Pending' : y.to = "volume" /\ y.at = "fat" => known_free_clusters <= y.val
    BY <1>3, <1>10 DEF FreeKept
  <2>3. flushedMap["fat"] # 0 =>
           /\ journal'[flushedMap["fat"]].type = "data"
           /\ known_free_clusters <= journal'[flushedMap["fat"]].val
    BY <1>8, <1>10 DEF FreeKept
  <2>4. /\ open_free \in Nat /\ flushed_free \in Nat /\ restoring_free \in Nat
        /\ known_free_clusters + open_free + flushed_free + restoring_free = view["fat"]
        /\ restoring_start_record = 0 => restoring_free = 0
    BY <1>10 DEF FreeKept
  <2> QED
    BY <1>5, <1>10, <2>1, <2>2, <2>3, <2>4 DEF FreeKept
<1> QED
  BY <1>9, <1>10

LEMMA MountFree ==
    ASSUME FreeKept, Numbers, DiskInv, Crash \/ Mount \/ Recover \/ Remount \/ BeginSession
    PROVE  FreeKept'
<1>1. CASE Crash \/ Recover \/ Remount
  <2>1. mode' \in {"down", "recover", "remount"}
    <3>1. Crash => mode' = "down"
      BY Zenon DEF Crash
    <3>2. Remount => mode' = "down"
      BY Zenon DEF Remount
    <3>3. Recover => (mode' = mode \/ mode' = "remount") /\ mode = "recover"
      BY Zenon DEF Recover
    <3> QED
      BY <1>1, <3>1, <3>2, <3>3
  <2> QED
    BY <2>1 DEF FreeKept
<1>2. CASE Mount
  <2>1. /\ known_free_clusters' = volume["fat"] /\ mode' \in {"start", "recover"}
        /\ UNCHANGED diskVars
    BY <1>2, Zenon DEF Mount
  <2> QED
    BY <2>1 DEF FreeKept, diskVars
<1>3. CASE BeginSession
  <2>1. /\ mode = "start" /\ mode' = "up"
        /\ UNCHANGED <<diskVars, known_free_clusters, view>>
        /\ open_free' = 0 /\ flushed_free' = 0 /\ restoring_free' = 0 /\ flushedMap' = NoMap
    BY <1>3, Zenon DEF BeginSession, InMemory
  <2>2. known_free_clusters = volume["fat"] /\ volume["fat"] = view["fat"] /\ "fat" \in Volume
    BY <2>1 DEF FreeKept, DiskInv, AfterRecovery, Volume
  <2>3. known_free_clusters \in Int
    BY DEF Numbers
  <2>4. \A w \in Pending' : w.to # "volume"
    BY <1>3, BeginGoes
  <2>5. NoMap["fat"] = 0
    BY <2>2 DEF NoMap
  <2>6. known_free_clusters + 0 + 0 + 0 = known_free_clusters /\ known_free_clusters <= known_free_clusters
    BY <2>3
  <2>7. volume' = volume
    BY <2>1 DEF diskVars
  <2> QED
    BY <2>1, <2>2, <2>4, <2>5, <2>6, <2>7 DEF FreeKept
<1> QED
  BY <1>1, <1>2, <1>3

LEMMA WriteFree ==
    ASSUME FreeKept, Numbers, MapsInv, DiskInv, RingInv', WriteData \/ Create \/ Delete
    PROVE  FreeKept'
<1>1. PICK v \in Volume : \E c : Write(v, c)
  BY Zenon DEF WriteData, Create, Delete, Volume
<1>2. PICK c : Write(v, c)
  BY <1>1
<1>3. /\ Ready /\ UNCHANGED <<diskVars, mode>>
  BY <1>2, Zenon DEF Write
<1>4. mode = "up" /\ mode' = "up" /\ volume' = volume /\ journal' = journal
  BY <1>3 DEF Ready, diskVars
<1>5. restoring_start_record' = restoring_start_record /\ flushedMap' = flushedMap
  <2>1. UNCHANGED <<restoringVars, flushedMap>>
    BY <1>2, Zenon DEF Write, Rewrite, WriteInFrame, WriteInNewFrame, AllocInFrame, AllocInNewFrame,
                       ringVars, mapVars
  <2> QED
    BY <2>1 DEF restoringVars
<1>6. \A w \in Pending' : w.to # "volume"
  BY <1>2, WriteGoes
<1>7. view = [u \in Volume |-> view[u]] /\ "fat" \in Volume /\ "fat" \notin Data
  BY FsAssumption DEF DiskInv, DiskTyped, Volume
<1>8. PICK k, o, u : k = known_free_clusters /\ o = open_free /\ u = view["fat"]
  OBVIOUS
<1>9. /\ UNCHANGED <<flushed_free, restoring_free>>
      /\ \/ known_free_clusters' = k /\ open_free' = o /\ view'["fat"] = u
         \/ known_free_clusters' = k - 1 /\ open_free' = o /\ view'["fat"] = u - 1
         \/ known_free_clusters' = k /\ open_free' = o + 1 /\ view'["fat"] = u + 1
  <2>1. CASE WriteData
    <3>1. PICK a \in Data : view' = [view EXCEPT ![a] = 1 - view[a]]
      BY <2>1, Zenon DEF WriteData, Write
    <3>2. view'["fat"] = view["fat"]
      BY <1>7, <3>1
    <3>3. UNCHANGED freeVars
      BY <2>1, Zenon DEF WriteData
    <3> QED
      BY <1>8, <3>2, <3>3 DEF freeVars
  <2>2. CASE Create
    <3>1. /\ view' = [view EXCEPT !["fat"] = view["fat"] - 1] /\ open_free' = open_free
          /\ known_free_clusters' = known_free_clusters - 1
          /\ UNCHANGED <<flushed_free, restoring_free>>
      BY <2>2, Zenon DEF Create, Write
    <3> QED
      BY <1>7, <1>8, <3>1
  <2>3. CASE Delete
    <3>1. /\ view' = [view EXCEPT !["fat"] = view["fat"] + 1] /\ open_free' = open_free + 1
          /\ known_free_clusters' = known_free_clusters
          /\ UNCHANGED <<flushed_free, restoring_free>>
      BY <2>3, Zenon DEF Delete, Write, AddFreeRegion
    <3> QED
      BY <1>7, <1>8, <3>1
  <2> QED
    BY <2>1, <2>2, <2>3
<1>10. /\ k \in Int /\ o \in Nat /\ flushed_free \in Nat /\ restoring_free \in Nat
       /\ k + o + flushed_free + restoring_free = u
       /\ restoring_start_record = 0 => restoring_free = 0
       /\ k <= volume["fat"] /\ volume["fat"] \in Int
  BY <1>4, <1>7, <1>8 DEF FreeKept, Numbers
<1>11. known_free_clusters' <= k /\ known_free_clusters' \in Int /\ open_free' \in Nat
  BY <1>9, <1>10
<1>12. known_free_clusters' + open_free' + flushed_free' + restoring_free' = view'["fat"]
  BY <1>9, <1>10
<1>13. known_free_clusters' <= volume'["fat"]
  BY <1>4, <1>10, <1>11
<1>14. flushedMap["fat"] # 0 =>
          /\ journal[flushedMap["fat"]].type = "data"
          /\ known_free_clusters' <= journal[flushedMap["fat"]].val
  <2>1. ASSUME flushedMap["fat"] # 0
        PROVE  /\ journal[flushedMap["fat"]].type = "data"
               /\ known_free_clusters' <= journal[flushedMap["fat"]].val
    <3>1. /\ journal[flushedMap["fat"]].type = "data" /\ k <= journal[flushedMap["fat"]].val
      BY <1>4, <1>8, <2>1 DEF FreeKept
    <3>2. flushedMap["fat"] \in Blocks
      <4>1. flushedMap["fat"] \in 0 .. FileSize - 1
        BY <1>7 DEF MapsInv, MapsTyped
      <4> QED
        BY <2>1, <4>1, RingAssumption DEF Blocks
    <3>3. journal[flushedMap["fat"]].val \in Int
      BY <3>1, <3>2 DEF Numbers
    <3> QED
      BY <1>10, <1>11, <3>1, <3>3
  <2> QED
    BY <2>1
<1> QED
  BY <1>4, <1>5, <1>6, <1>9, <1>10, <1>11, <1>12, <1>13, <1>14 DEF FreeKept

\* What a read finds is on the disk when no call is in progress.
LEMMA ShownThere ==
    ASSUME DiskInv, Ready, NEW v \in Volume, Shown(v) # 0
    PROVE  journal[Shown(v)].type = "data" /\ journal[Shown(v)].val = view[v]
<1>1. mode = "up" /\ Pending = {}
  BY NoWrites DEF Ready, Done, Pending
<1>2. JournalHolds(Shown(v), DataBlock(view[v]))
  BY <1>1 DEF DiskInv, InUse
<1>3. journal[Shown(v)] = DataBlock(view[v])
  BY <1>1, <1>2 DEF JournalHolds, JournalWrites
<1> QED
  BY <1>3 DEF DataBlock

LEMMA CommitFree ==
    ASSUME FreeKept, Numbers, MapsInv, DiskInv, Commit
    PROVE  FreeKept'
<1>1. /\ Ready /\ restoring_start_record = 0
      /\ UNCHANGED <<diskVars, known_free_clusters, restoring_free, mode, view>>
      /\ \/ flushed_free' = flushed_free + open_free /\ open_free' = 0
         \/ UNCHANGED <<open_free, flushed_free>>
      /\ \/ flushedMap' = Overlay(openMap, flushedMap)
         \/ flushedMap' = flushedMap
  BY Zenon DEF Commit
<1>2. mode = "up" /\ mode' = "up" /\ UNCHANGED <<journal, volume>> /\ "fat" \in Volume
  BY <1>1 DEF Ready, diskVars, Volume
<1>3. restoring_start_record' = 0
  <2>1. UNCHANGED restoringVars
    BY Zenon DEF Commit, Flush, ringVars
  <2> QED
    BY <1>1, <2>1 DEF restoringVars
<1>4. \A w \in Pending' : w.to # "volume"
  BY CommitGoes
<1>5. /\ known_free_clusters \in Int /\ open_free \in Nat /\ flushed_free \in Nat
      /\ restoring_free = 0
      /\ known_free_clusters + open_free + flushed_free + restoring_free = view["fat"]
      /\ known_free_clusters <= volume["fat"]
  BY <1>1, <1>2 DEF FreeKept, Numbers
<1>6. open_free' \in Nat /\ flushed_free' \in Nat
  BY <1>1, <1>5
<1>7. known_free_clusters + open_free' + flushed_free' + restoring_free = view["fat"]
  BY <1>1, <1>5
<1>8. ASSUME flushedMap'["fat"] # 0
      PROVE  /\ journal[flushedMap'["fat"]].type = "data"
             /\ known_free_clusters <= journal[flushedMap'["fat"]].val
  <2>1. CASE flushedMap'["fat"] = flushedMap["fat"]
    BY <1>2, <1>8, <2>1 DEF FreeKept
  <2>2. CASE flushedMap'["fat"] # flushedMap["fat"]
    <3>1. flushedMap' = Overlay(openMap, flushedMap)
      BY <1>1, <2>2
    <3>2. openMap["fat"] # 0 /\ flushedMap'["fat"] = openMap["fat"]
      BY <1>2, <2>2, <3>1 DEF Overlay
    <3>3. Shown("fat") = openMap["fat"]
      BY <3>2 DEF Shown
    <3>4. journal[openMap["fat"]].type = "data" /\ journal[openMap["fat"]].val = view["fat"]
      BY <1>1, <1>2, <3>2, <3>3, ShownThere
    <3>5. known_free_clusters <= view["fat"]
      BY <1>5
    <3> QED
      BY <3>2, <3>4, <3>5
  <2> QED
    BY <2>1, <2>2
<1> QED
  BY <1>1, <1>2, <1>3, <1>4, <1>5, <1>6, <1>7, <1>8 DEF FreeKept

LEMMA StartRestoreFree ==
    ASSUME FreeKept, Numbers, StartRestore
    PROVE  FreeKept'
<1>1. /\ Ready /\ ~open_remapped /\ RestoreStart
      /\ restoring_free' = flushed_free /\ flushed_free' = 0
      /\ UNCHANGED <<diskVars, known_free_clusters, open_free, mode, io, view>>
      /\ flushedMap' = NoMap
  BY Zenon DEF StartRestore
<1>2. /\ restoring_start_record = 0
      /\ flushed_start_record # 0 /\ flushed_terminal_record # 0
      /\ restoring_start_record' = flushed_start_record
  BY <1>1, Zenon DEF RestoreStart
<1>3. /\ mode = "up" /\ UNCHANGED <<journal, volume>> /\ flushedMap'["fat"] = 0
      /\ Pending' = Pending
  BY <1>1 DEF Ready, diskVars, Volume, NoMap, Pending
<1>4. /\ known_free_clusters \in Int /\ open_free \in Nat /\ flushed_free \in Nat
      /\ restoring_free = 0
      /\ known_free_clusters + open_free + flushed_free + restoring_free = view["fat"]
  BY <1>2, <1>3 DEF FreeKept, Numbers
<1>5. known_free_clusters + open_free + 0 + flushed_free = view["fat"] /\ 0 \in Nat
  BY <1>4
<1>6. /\ known_free_clusters <= volume["fat"]
      /\ \A w \in Pending : w.to = "volume" /\ w.at = "fat" => known_free_clusters <= w.val
  BY <1>3 DEF FreeKept
<1> QED
  BY <1>1, <1>2, <1>3, <1>4, <1>5, <1>6 DEF FreeKept

LEMMA RestorePassFree ==
    ASSUME FreeKept, Numbers, CrashInv, MapsInv, DiskInv, RestorePass
    PROVE  FreeKept'
<1>1. /\ Ready /\ UNCHANGED <<diskVars, ringVars, mapVars, freeVars, mode, view>>
      /\ \/ \E t : io' = Mark(restoring_terminal_record, t)
         \/ \E v \in ToCopy \ copied : io' = CopyOut(v, ValueAt(journal, restoringMap[v]))
  BY Zenon DEF RestorePass
<1>2. mode = "up" /\ io = <<>> /\ restoring_start_record # 0
  BY <1>1, Zenon DEF MapsInv, MapsTyped, RestorePass, Ready, Done
<1>3. PICK e, cur, r, f, mark, fm : Restores(e, cur, r, f, mark, fm)
  BY <1>1, <1>2, ReadyIs DEF Idle
<1>4. openMap = NoMap /\ flushedMap = NoMap
  BY <1>3 DEF Restores
<1>5. /\ known_free_clusters \in Int /\ open_free \in Nat /\ flushed_free \in Nat /\ restoring_free \in Nat
      /\ known_free_clusters + open_free + flushed_free + restoring_free = view["fat"]
  BY <1>2 DEF FreeKept, Numbers
<1>6. known_free_clusters <= view["fat"]
  BY <1>5
<1>7. \A w \in Pending' : w.to = "volume" /\ w.at = "fat" => known_free_clusters <= w.val
  <2>1. ASSUME NEW t, io' = Mark(restoring_terminal_record, t)
        PROVE  \A w \in Pending' : w.to # "volume"
    <3>1. PICK x : x = [journal[restoring_terminal_record] EXCEPT !.type = t]
      OBVIOUS
    <3>2. PICK y : y = [to |-> "journal", at |-> restoring_terminal_record, val |-> x]
      OBVIOUS
    <3>3. io' = <<y>> /\ y.to = "journal"
      BY <2>1, <3>1, <3>2 DEF Mark, ToJournal
    <3>4. Pending' = {y}
      BY <3>3, OneWrite DEF Pending
    <3> QED
      BY <3>3, <3>4
  <2>2. ASSUME NEW v \in ToCopy \ copied, io' = CopyOut(v, ValueAt(journal, restoringMap[v]))
        PROVE  \A w \in Pending' : w.to = "volume" /\ w.at = "fat" => known_free_clusters <= w.val
    <3>1. PICK c : c = ValueAt(journal, restoringMap[v])
      OBVIOUS
    <3>2. v \in Volume /\ restoringMap[v] # 0
      BY <2>2 DEF ToCopy
    <3>3. Shown(v) = restoringMap[v]
      BY <1>4, <3>2 DEF Shown, NoMap
    <3>4. c = view[v]
      BY <1>1, <3>1, <3>2, <3>3, ShownThere DEF ValueAt
    <3>5. PICK s : s = CopyOut(v, c)
      OBVIOUS
    <3>6. Pending' = WritesOf(s)
      BY <2>2, <3>1, <3>5 DEF Pending
    <3>7. \A w \in WritesOf(s) : w = [to |-> "volume", at |-> v, val |-> c] \/ w.to = "fat2"
      BY <3>5, CopyOutWrites
    <3>8. ASSUME NEW w \in Pending', w.to = "volume", w.at = "fat" PROVE known_free_clusters <= w.val
      <4>1. w = [to |-> "volume", at |-> v, val |-> c]
        BY <3>6, <3>7, <3>8
      <4>2. w.val = c /\ v = "fat"
        BY <3>8, <4>1
      <4> QED
        BY <1>6, <3>4, <4>2
    <3> QED
      BY <3>8
  <2> QED
    BY <1>1, <2>1, <2>2
<1>8. UNCHANGED <<journal, volume, flushedMap, open_free, flushed_free, restoring_free,
                  known_free_clusters, view, mode, restoring_start_record>>
  BY <1>1 DEF diskVars, ringVars, restoringVars, mapVars, freeVars
<1> QED
  BY <1>2, <1>7, <1>8 DEF FreeKept

LEMMA EndRestoreFree ==
    ASSUME FreeKept, Numbers, CrashInv, MapsInv, DiskInv, EndRestore
    PROVE  FreeKept'
<1>1. /\ Ready /\ restore_state = "clear" /\ RestoreComplete
      /\ io' = (IF KeepHandle THEN <<>> ELSE ClearHandle)
      /\ known_free_clusters' = known_free_clusters + restoring_free /\ restoring_free' = 0
      /\ UNCHANGED <<diskVars, flushedMap, open_free, flushed_free, mode, view>>
  BY Zenon DEF EndRestore
<1>2. mode = "up" /\ io = <<>> /\ UNCHANGED <<journal, volume>> /\ "fat" \in Volume
  BY <1>1 DEF Ready, Done, diskVars, Volume
<1>3. restoring_start_record # 0
  BY <1>1, <1>2 DEF MapsInv, MapsTyped
<1>4. openMap = NoMap /\ flushedMap = NoMap
  BY <1>1, <1>3, ReadyIs DEF Restores, Idle
<1>5. volume["fat"] = view["fat"]
  <2>1. openMap["fat"] = 0 /\ flushedMap["fat"] = 0
    BY <1>2, <1>4 DEF NoMap
  <2>2. OnVolume("fat")
    BY <1>1, <1>2, <2>1 DEF DiskInv, InUse, ToCopy, OnVolume
  <2>3. VolumeHolds("fat", view["fat"])
    BY <1>2, <2>2 DEF DiskInv, InUse
  <2>4. Pending = {}
    BY <1>2, NoWrites DEF Pending
  <2> QED
    BY <2>3, <2>4 DEF VolumeHolds, VolumeWrites
<1>6. restoring_start_record' = 0
  BY <1>1, Zenon DEF RestoreComplete
<1>7. \A w \in Pending' : w.to # "volume"
  <2>1. CASE KeepHandle
    BY <1>1, <2>1, NoWrites DEF Pending
  <2>2. CASE ~KeepHandle
    <3>1. PICK s : s = ClearHandle
      OBVIOUS
    <3>2. \A w \in WritesOf(s) : w.to \in {"fat2", "handle"}
      BY <3>1, ClearHandleWrites
    <3> QED
      BY <1>1, <2>2, <3>1, <3>2 DEF Pending
  <2> QED
    BY <2>1, <2>2
<1>8. /\ known_free_clusters \in Int /\ open_free \in Nat /\ flushed_free \in Nat /\ restoring_free \in Nat
      /\ known_free_clusters + open_free + flushed_free + restoring_free = view["fat"]
  BY <1>2 DEF FreeKept, Numbers
<1>9. /\ known_free_clusters' + open_free + flushed_free + 0 = view["fat"]
      /\ known_free_clusters' <= view["fat"]
  BY <1>1, <1>8
<1>10. flushedMap'["fat"] = 0
  BY <1>1, <1>2, <1>4 DEF NoMap
<1> QED
  BY <1>1, <1>2, <1>5, <1>6, <1>7, <1>8, <1>9, <1>10 DEF FreeKept

LEMMA StepFree ==
    ASSUME FreeKept, Numbers, CommitInv, RingInv', [FsNext]_fsVars, "full" \notin Allowed
    PROVE  FreeKept'
<1>1. CrashInv /\ MapsInv /\ DiskInv
  BY DEF CommitInv
<1>2. CASE DiskWrite
  BY <1>1, <1>2, DiskWriteFree
<1>3. CASE Crash \/ Mount \/ Recover \/ Remount \/ BeginSession
  BY <1>1, <1>3, MountFree
<1>4. CASE WriteData \/ Create \/ Delete
  BY <1>1, <1>4, WriteFree
<1>5. CASE WriteFails
  BY <1>5, Zenon DEF WriteFails
<1>6. CASE Commit
  BY <1>1, <1>6, CommitFree
<1>7. CASE StartRestore
  BY <1>7, StartRestoreFree
<1>8. CASE RestorePass
  BY <1>1, <1>8, RestorePassFree
<1>9. CASE EndRestore
  BY <1>1, <1>9, EndRestoreFree
<1>10. CASE UNCHANGED fsVars
  <2>1. UNCHANGED <<journal, volume, view, io, freeVars, mode, mapVars, ringVars>>
    BY <1>10, Zenon DEF fsVars, diskVars
  <2> QED
    BY <2>1 DEF FreeKept, Pending, freeVars, mapVars, ringVars, restoringVars
<1> QED
  BY <1>2, <1>3, <1>4, <1>5, <1>6, <1>7, <1>8, <1>9, <1>10, Zenon DEF FsNext

LEMMA FreeAlways ==
    ASSUME AsyncRestore = FALSE, "full" \notin Allowed
    PROVE  FsSpec => [](CommitInv /\ Numbers /\ FreeKept)
<1>1. FsInit => CommitInv /\ Numbers /\ FreeKept
  <2>1. FsInit => mode = "down"
    BY Zenon DEF FsInit
  <2> QED
    BY <2>1, CommitInit, InitNumbers DEF FreeKept
<1>2. ASSUME CommitInv, Numbers, FreeKept, [FsNext]_fsVars
      PROVE  CommitInv' /\ Numbers' /\ FreeKept'
  <2>1. CommitInv'
    BY <1>2, CommitStep
  <2>2. RingInv'
    BY <2>1 DEF CommitInv, MapsInv
  <2> QED
    BY <1>2, <2>1, <2>2, StepNumbers, StepFree
<1> QED
  BY <1>1, <1>2, PTL DEF FsSpec

\* Clusters that may be allocated (fs_add_free_region, fatop_remove_free_region)
\* are free on the volume and free in what a mount after a power failure would
\* make of it: no file that a crash brings back can lose its clusters.
THEOREM FreedClustersSafe ==
    ASSUME AsyncRestore = FALSE, "full" \notin Allowed
    PROVE  FsSpec => []FreeSpaceIsSafe
<1>1. ASSUME CommitInv, Numbers, FreeKept PROVE FreeSpaceIsSafe
  <2>1. SUFFICES ASSUME Ready
                 PROVE  known_free_clusters <= volume["fat"] /\ known_free_clusters <= Recovered["fat"]
    BY DEF FreeSpaceIsSafe
  <2>2. /\ mode = "up" /\ "fat" \in Volume /\ DiskInv
        /\ known_free_clusters <= volume["fat"]
        /\ flushedMap["fat"] # 0 =>
              /\ journal[flushedMap["fat"]].type = "data"
              /\ known_free_clusters <= journal[flushedMap["fat"]].val
    BY <1>1, <2>1 DEF Ready, FreeKept, Volume, CommitInv
  <2>3. known_free_clusters <= view["fat"]
    <3>1. /\ known_free_clusters \in Int /\ open_free \in Nat /\ flushed_free \in Nat /\ restoring_free \in Nat
          /\ known_free_clusters + open_free + flushed_free + restoring_free = view["fat"]
      BY <1>1, <2>2 DEF FreeKept, Numbers
    <3> QED
      BY <3>1
  <2>4. PICK e, cur, r, lo, f, mark, sp, fm :
           /\ InOrder(journal, master, e, cur, r, f, mark, sp, fm)
           /\ Idle(e, cur, r, lo, f, sp, fm) \/ Restores(e, cur, r, f, mark, fm)
    <3>1. PICK e, cur, r, lo, f, mark, sp, fm :
                 \/ Idle(e, cur, r, lo, f, sp, fm)
                 \/ /\ InOrder(journal, master, e, cur, r, f, mark, sp, fm)
                    /\ Restores(e, cur, r, f, mark, fm)
      BY <1>1, <2>1, ReadyIs DEF CommitInv
    <3>2. CASE Idle(e, cur, r, lo, f, sp, fm)
      BY <3>2 DEF Idle, InUseBy
    <3> QED
      BY <3>1, <3>2
  <2>5. Recovered["fat"] = IF Restorable(r, f, mark, sp, handle, volume) /\ fm["fat"] # 0
                           THEN ValueAt(journal, fm["fat"]) ELSE volume["fat"]
    BY <2>2, <2>4, RecoveredInOrder DEF Recovered
  <2>6. ASSUME Restorable(r, f, mark, sp, handle, volume), fm["fat"] # 0
        PROVE  known_free_clusters <= ValueAt(journal, fm["fat"])
    <3>1. CASE Idle(e, cur, r, lo, f, sp, fm)
      <4>1. fm = flushedMap
        BY <3>1 DEF Idle, InUseBy, Committed
      <4> QED
        BY <2>2, <2>6, <4>1 DEF ValueAt
    <3>2. CASE Restores(e, cur, r, f, mark, fm)
      <4>1. openMap = NoMap /\ flushedMap = NoMap /\ fm = restoringMap
        BY <2>6, <3>2 DEF Restores, Restorable
      <4>2. Shown("fat") = fm["fat"]
        BY <2>2, <4>1 DEF Shown, NoMap
      <4>3. journal[fm["fat"]].type = "data" /\ journal[fm["fat"]].val = view["fat"]
        BY <2>1, <2>2, <2>6, <4>2, ShownThere
      <4> QED
        BY <2>3, <4>3 DEF ValueAt
    <3> QED
      BY <2>4, <3>1, <3>2
  <2> QED
    BY <2>2, <2>5, <2>6
<1> QED
  BY <1>1, FreeAlways, PTL

-----------------------------------------------------------------------------
(* The two copies of the FAT.  With the journal in reserved sectors they    *)
(* are alike but while a restore writes one after the other, or a block of  *)
(* the FAT waits for a mount to restore it.  With the handle in the second  *)
(* copy they are alike unless the handle stands there.                      *)

CopiesAlike == fat2 = volume["fat"]
FatQuiet == \A w \in Pending : w.to # "fat2" /\ ~(w.to = "volume" /\ w.at = "fat")

FatFound == \E i \in 1 .. Len(Ranges) : "fat" \in Replaced(journal, Ranges[i])
FatWaits ==
    \/ mode = "down" /\ FatFound
    \/ /\ mode = "recover" /\ restore_state \in {"mark", "copy"}
       /\ "fat" \in Replaced(journal, todo[1]) \ copied

FatWritten == (\E c : io = ToVolume("fat", c) \o ToFat2(c)) \/ io = ToFat2(volume["fat"])
FatOnItsWay ==
    /\ restore_state = "copy"
    /\ \/ mode = "up" /\ restoringMap["fat"] # 0
       \/ mode = "recover" /\ "fat" \in Replaced(journal, todo[1])
    /\ FatWritten

HandleStays ==
    \A w \in Pending : /\ w.to # "fat2" /\ (w.to = "volume" => handle)
                       /\ w.to = "handle" => w = HandleWrite
HandleGoes == io = ToFat2(volume["fat"]) \o ToHandle(FALSE) \/ (CopiesAlike /\ io = ToHandle(FALSE))

CopiesInv ==
    IF FixedJournal THEN (FatQuiet /\ (CopiesAlike \/ FatWaits)) \/ FatOnItsWay
    ELSE (CopiesAlike \/ handle) /\ (HandleStays \/ HandleGoes)

\* The writes of a copy, and of the clearing of the handle, in their order.
LEMMA InTwoWrites ==
    /\ \A v, c : LET w == [to |-> "volume", at |-> v, val |-> c]
                     s == ToVolume(v, c) \o ToFat2(c)
                 IN  s # <<>> /\ Head(s) = w /\ Tail(s) = ToFat2(c)
    /\ \A c, h : LET w == [to |-> "fat2", val |-> c]
                     s == ToFat2(c) \o ToHandle(h)
                 IN  s # <<>> /\ Head(s) = w /\ Tail(s) = ToHandle(h)
    /\ \A c : ToFat2(c) # <<>> /\ Head(ToFat2(c)) = [to |-> "fat2", val |-> c] /\ Tail(ToFat2(c)) = <<>>
    /\ \A h : ToHandle(h) # <<>> /\ Head(ToHandle(h)) = [to |-> "handle", val |-> h]
              /\ Tail(ToHandle(h)) = <<>>
<1>1. ASSUME NEW v, NEW c
      PROVE  LET w == [to |-> "volume", at |-> v, val |-> c]
                 s == ToVolume(v, c) \o ToFat2(c)
             IN  s # <<>> /\ Head(s) = w /\ Tail(s) = ToFat2(c)
  <2>1. PICK w, t : w = [to |-> "volume", at |-> v, val |-> c] /\ t = ToFat2(c)
    OBVIOUS
  <2>2. ToVolume(v, c) = <<w>> /\ t \in Seq(WritesOf(t))
    BY <2>1, KindsOfWrites DEF ToVolume
  <2>3. <<w>> \o t # <<>> /\ Head(<<w>> \o t) = w /\ Tail(<<w>> \o t) = t
    BY <2>2, Peel, Zenon
  <2> QED
    BY <2>1, <2>2, <2>3, Zenon
<1>2. ASSUME NEW c, NEW h
      PROVE  LET w == [to |-> "fat2", val |-> c]
                 s == ToFat2(c) \o ToHandle(h)
             IN  s # <<>> /\ Head(s) = w /\ Tail(s) = ToHandle(h)
  <2>1. PICK w, t : w = [to |-> "fat2", val |-> c] /\ t = ToHandle(h)
    OBVIOUS
  <2>2. ToFat2(c) = <<w>> /\ t \in Seq(WritesOf(t))
    BY <2>1, KindsOfWrites DEF ToFat2
  <2>3. <<w>> \o t # <<>> /\ Head(<<w>> \o t) = w /\ Tail(<<w>> \o t) = t
    BY <2>2, Peel, Zenon
  <2> QED
    BY <2>1, <2>2, <2>3, Zenon
<1>3. ASSUME NEW w PROVE <<w>> # <<>> /\ Head(<<w>>) = w /\ Tail(<<w>>) = <<>>
  OBVIOUS
<1>4. \A c : ToFat2(c) # <<>> /\ Head(ToFat2(c)) = [to |-> "fat2", val |-> c] /\ Tail(ToFat2(c)) = <<>>
  BY <1>3, Zenon DEF ToFat2
<1>5. \A h : ToHandle(h) # <<>> /\ Head(ToHandle(h)) = [to |-> "handle", val |-> h]
             /\ Tail(ToHandle(h)) = <<>>
  BY <1>3, Zenon DEF ToHandle
<1> QED
  BY <1>1, <1>2, <1>4, <1>5, Zenon

LEMMA CopiesWhenDone ==
    ASSUME CopiesInv, Done, ~FatWaits
    PROVE  CopiesAlike \/ (~FixedJournal /\ handle)
<1>1. io = <<>>
  BY DEF Done
<1>2. ~FatOnItsWay
  BY <1>1, InTwoWrites, Zenon DEF FatOnItsWay, FatWritten
<1> QED
  BY <1>2, Zenon DEF CopiesInv

LEMMA CopiesLeftAlone ==
    ASSUME CopiesAlike \/ (~FixedJournal /\ handle), UNCHANGED <<volume, fat2, handle>>,
           \A w \in Pending' : w.to \notin {"fat2", "volume"} /\ (w.to = "handle" => w = HandleWrite)
    PROVE  CopiesInv'
<1>1. FatQuiet' /\ HandleStays'
  BY DEF FatQuiet, HandleStays, HandleWrite
<1>2. CopiesAlike' \/ (~FixedJournal /\ handle')
  BY DEF CopiesAlike
<1> QED
  BY <1>1, <1>2, Zenon DEF CopiesInv

\* A FAT block on its way to the volume, or waiting for it, is in a range that
\* the next mount restores.
LEMMA FatIsFound ==
    ASSUME FixedJournal, CommitInv, FatOnItsWay \/ (FatWaits /\ mode = "recover")
    PROVE  FatFound
<1>1. PICK e, cur, r, lo, f, mark, sp, fm :
         /\ InOrder(journal, master, e, cur, r, f, mark, sp, fm)
         /\ Stage(e, cur, r, lo, f, mark, sp, fm)
  BY DEF CommitInv, CrashInv
<1>2. "fat" \in Volume /\ MapsInv /\ JournalFound(handle)
  BY DEF Volume, CommitInv, JournalFound
<1>3. \A b, type : Mark(b, type) # ToFat2(volume["fat"])
                   /\ \A c : Mark(b, type) # ToVolume("fat", c) \o ToFat2(c)
  <2>1. ASSUME NEW b, NEW type, NEW c
        PROVE  Mark(b, type) # ToFat2(volume["fat"]) /\ Mark(b, type) # ToVolume("fat", c) \o ToFat2(c)
    <3>1. PICK x : x = [journal[b] EXCEPT !.type = type]
      OBVIOUS
    <3>2. PICK w : w = [to |-> "journal", at |-> b, val |-> x]
      OBVIOUS
    <3>3. Mark(b, type) = <<w>> /\ w.to = "journal"
      BY <3>1, <3>2 DEF Mark, ToJournal
    <3>4. Head(Mark(b, type)).to = "journal"
      BY <3>3
    <3>5. PICK y, z : y = [to |-> "volume", at |-> "fat", val |-> c] /\ z = [to |-> "fat2", val |-> volume["fat"]]
      OBVIOUS
    <3>6. y.to = "volume" /\ z.to = "fat2"
      BY <3>5
    <3>7. Head(ToFat2(volume["fat"])) = z /\ Head(ToVolume("fat", c) \o ToFat2(c)) = y
      BY <3>5, InTwoWrites, Zenon
    <3> QED
      BY <3>4, <3>6, <3>7
  <2> QED
    BY <2>1
<1>4. r < f /\ fm["fat"] # 0 /\ Restorable(r, f, mark, sp, handle, volume)
  <2>1. CASE mode = "up"
    <3>1. FatWritten /\ restore_state = "copy" /\ restoringMap["fat"] # 0
      BY <2>1 DEF FatOnItsWay
    <3>2. restoring_start_record # 0
      BY <1>2, <2>1, <3>1 DEF MapsInv, MapsTyped
    <3>3. Restores(e, cur, r, f, mark, fm)
      BY <1>1, <2>1, <3>2 DEF Stage, Beginning, RingInit, Writing
    <3>4. Passes(restoring_terminal_record, r, f, mark, fm) /\ (r < f => fm = restoringMap)
      BY <3>3 DEF Restores
    <3>5. io # Mark(restoring_terminal_record, "restoring")
      BY <1>3, <3>1, Zenon DEF FatWritten
    <3>6. r < f /\ mark = "restoring"
      BY <3>1, <3>4, <3>5 DEF Passes
    <3> QED
      BY <1>2, <3>1, <3>4, <3>6 DEF Restorable
  <2>2. CASE mode = "recover"
    <3>1. Recovering(r, f, mark, sp, fm)
      BY <1>1, <2>2 DEF Stage
    <3>2. restore_state \in {"mark", "copy"} /\ "fat" \in Replaced(journal, todo[1])
      BY <2>2 DEF FatWaits, FatOnItsWay
    <3>3. r < f
      BY <3>1, <3>2 DEF Recovering, Passes
    <3> QED
      BY <1>2, <3>1, <3>2, <3>3 DEF Recovering
  <2> QED
    BY <2>1, <2>2 DEF FatOnItsWay
<1>5. PICK s : s = Left(journal, master, r, f)
  OBVIOUS
<1>6. Ranges = <<s>>
  BY <1>1, <1>4, <1>5, RangesInOrder DEF Ranges
<1>7. "fat" \in Replaced(journal, s)
  BY <1>1, <1>2, <1>4, <1>5, LeftReplaces
<1>8. 1 \in 1 .. Len(<<s>>) /\ <<s>>[1] = s
  OBVIOUS
<1> QED
  BY <1>6, <1>7, <1>8 DEF FatFound

LEMMA CrashCopies ==
    ASSUME CopiesInv, CommitInv, Crash
    PROVE  CopiesInv'
<1>1. mode # "down" /\ mode' = "down" /\ io' = <<>> /\ UNCHANGED <<journal, master, handle, volume, fat2>>
  BY Zenon DEF Crash, diskVars
<1>2. FatQuiet' /\ HandleStays' /\ (CopiesAlike' <=> CopiesAlike) /\ (FatFound => FatWaits')
  <2>1. Pending' = {}
    BY <1>1, NoWrites DEF Pending
  <2>2. Ranges' = Ranges
    BY <1>1 DEF Ranges
  <2> QED
    BY <1>1, <2>1, <2>2 DEF FatQuiet, HandleStays, CopiesAlike, FatFound, FatWaits
<1>3. CASE FixedJournal
  <2>1. CopiesAlike \/ FatOnItsWay \/ FatWaits
    BY <1>3 DEF CopiesInv
  <2>2. FatWaits => mode = "recover"
    BY <1>1 DEF FatWaits
  <2>3. CopiesAlike \/ FatFound
    BY <1>3, <2>1, <2>2, FatIsFound
  <2> QED
    BY <1>2, <1>3, <2>3 DEF CopiesInv
<1>4. CASE ~FixedJournal
  BY <1>1, <1>2, <1>4, Zenon DEF CopiesInv
<1> QED
  BY <1>3, <1>4

LEMMA MountCopies ==
    ASSUME CopiesInv, CommitInv, CommitInv', Mount
    PROVE  CopiesInv'
<1>1. /\ mode = "down" /\ UNCHANGED <<journal, master, handle, volume, fat2>> /\ io' = io
      /\ todo' = Ranges
      /\ IF Ranges = <<>> THEN mode' = "start"
         ELSE mode' = "recover" /\ restore_state' = "mark" /\ copied' = {}
  BY Zenon DEF Mount, diskVars
<1>2. io = <<>>
  BY <1>1 DEF CommitInv, DiskInv, DiskTyped
<1>3. FatQuiet' /\ HandleStays' /\ (CopiesAlike' <=> CopiesAlike)
  <2>1. Pending' = {}
    BY <1>1, <1>2, NoWrites DEF Pending
  <2> QED
    BY <1>1, <2>1 DEF FatQuiet, HandleStays, CopiesAlike
<1>4. ~FatOnItsWay
  BY <1>1 DEF FatOnItsWay
<1>5. CASE ~FixedJournal
  BY <1>1, <1>3, <1>5, Zenon DEF CopiesInv
<1>6. CASE FixedJournal /\ CopiesAlike
  BY <1>3, <1>6, Zenon DEF CopiesInv
<1>7. CASE FixedJournal /\ ~CopiesAlike
  <2>1. FatFound
    BY <1>1, <1>4, <1>7 DEF CopiesInv, FatWaits
  <2>2. PICK i \in 1 .. Len(Ranges) : "fat" \in Replaced(journal, Ranges[i])
    BY <2>1 DEF FatFound
  <2>3. Ranges # <<>>
    BY <2>2
  <2>4. mode' = "recover" /\ restore_state' = "mark" /\ copied' = {}
    BY <1>1, <2>3
  <2>5. Len(todo') = 1
    BY <2>4 DEF CommitInv, CrashInv, Stage, Recovering
  <2>6. Ranges[i] = todo'[1]
    <3>1. i \in 1 .. 1
      BY <1>1, <2>2, <2>5
    <3>2. i = 1
      BY <3>1
    <3> QED
      BY <1>1, <3>2
  <2>7. FatWaits'
    BY <1>1, <2>2, <2>4, <2>6 DEF FatWaits
  <2> QED
    BY <1>3, <1>7, <2>7, Zenon DEF CopiesInv
<1> QED
  BY <1>5, <1>6, <1>7

\* The writes of a mark, which go to the journal.
LEMMA MarkCopies ==
    ASSUME NEW b, NEW type, io' = Mark(b, type)
    PROVE  \A w \in Pending' : w.to = "journal"
<1>1. PICK x : x = [journal[b] EXCEPT !.type = type]
  OBVIOUS
<1>2. PICK w : w = [to |-> "journal", at |-> b, val |-> x]
  OBVIOUS
<1>3. io' = <<w>> /\ w.to = "journal"
  BY <1>1, <1>2 DEF Mark, ToJournal
<1>4. Pending' = {w}
  BY <1>3, OneWrite DEF Pending
<1> QED
  BY <1>3, <1>4

\* A block copied to the volume: the FAT goes to both copies.
LEMMA CopyCopies ==
    ASSUME CopiesInv, Done, UNCHANGED <<volume, fat2, handle>>,
           NEW v, NEW c, io' = CopyOut(v, c), ~FixedJournal => handle
    PROVE  /\ ~FixedJournal => CopiesInv'
           /\ FixedJournal /\ v # "fat" => FatQuiet' /\ (CopiesAlike' \/ FatWaits)
           /\ FixedJournal /\ v = "fat" => FatWritten'
<1>1. PICK w : w = [to |-> "volume", at |-> v, val |-> c]
  OBVIOUS
<1>2. io = <<>> /\ w.to = "volume" /\ w.at = v
  BY <1>1 DEF Done
<1>3. ~FatOnItsWay
  BY <1>2, InTwoWrites, Zenon DEF FatOnItsWay, FatWritten
<1>4. ASSUME ~(v = "fat" /\ FixedJournal) PROVE Pending' = {w}
  <2>1. CopyOut(v, c) = ToVolume(v, c) \o <<>>
    BY <1>4, Zenon DEF CopyOut
  <2>2. PICK s : s = ToVolume(v, c)
    OBVIOUS
  <2>3. s \in Seq(WritesOf(s)) /\ WritesOf(s) = {w}
    BY <1>1, <2>2, KindsOfWrites
  <2>4. s \o <<>> = s
    BY <2>3, ConcatEmptySeq
  <2>5. io' = s
    BY <2>1, <2>2, <2>4, Zenon
  <2> QED
    BY <2>3, <2>5 DEF Pending
<1>5. ASSUME ~FixedJournal PROVE CopiesInv'
  <2>1. Pending' = {w} /\ handle'
    BY <1>4, <1>5
  <2>2. HandleStays'
    BY <1>2, <2>1 DEF HandleStays
  <2> QED
    BY <1>5, <2>1, <2>2, Zenon DEF CopiesInv
<1>6. ASSUME FixedJournal, v # "fat" PROVE FatQuiet' /\ (CopiesAlike' \/ FatWaits)
  <2>1. FatQuiet'
    BY <1>2, <1>4, <1>6 DEF FatQuiet
  <2>2. CopiesAlike \/ FatWaits
    BY <1>3, <1>6, Zenon DEF CopiesInv
  <2> QED
    BY <2>1, <2>2 DEF CopiesAlike
<1>7. ASSUME FixedJournal, v = "fat" PROVE FatWritten'
  <2>1. io' = ToVolume("fat", c) \o ToFat2(c)
    BY <1>7, Zenon DEF CopyOut
  <2> QED
    BY <2>1, Zenon DEF FatWritten
<1> QED
  BY <1>5, <1>6, <1>7

\* The handle is cleared: the first copy goes over the second.
LEMMA ClearCopies ==
    ASSUME CopiesAlike \/ (~FixedJournal /\ handle), UNCHANGED <<volume, fat2, handle>>,
           io' = ClearHandle
    PROVE  CopiesInv'
<1>1. CopiesAlike' \/ (~FixedJournal /\ handle')
  BY DEF CopiesAlike
<1>2. CASE FixedJournal
  <2>1. io' = <<>>
    BY <1>2, Zenon DEF ClearHandle
  <2>2. Pending' = {}
    BY <2>1, NoWrites DEF Pending
  <2>3. FatQuiet'
    BY <2>2 DEF FatQuiet
  <2> QED
    BY <1>1, <1>2, <2>3, Zenon DEF CopiesInv
<1>3. CASE ~FixedJournal
  <2>1. io' = ToFat2(volume["fat"]) \o ToHandle(FALSE)
    BY <1>3, Zenon DEF ClearHandle
  <2>2. io' = ToFat2(volume'["fat"]) \o ToHandle(FALSE)
    BY <2>1, Zenon
  <2>3. HandleGoes'
    BY <2>2, Zenon DEF HandleGoes
  <2> QED
    BY <1>1, <1>3, <2>3, Zenon DEF CopiesInv
<1> QED
  BY <1>2, <1>3

LEMMA RecoverCopies ==
    ASSUME CopiesInv, CommitInv, Recover
    PROVE  CopiesInv'
<1>1. PICK e, cur, r, lo, f, mark, sp, fm : Stage(e, cur, r, lo, f, mark, sp, fm)
  BY DEF CommitInv, CrashInv
<1>2. /\ mode = "recover" /\ Done /\ UNCHANGED <<journal, master, handle, volume, fat2>>
      /\ \/ /\ restore_state = "mark"
            /\ io' = Mark(Terminal, "restoring")
            /\ restore_state' = "copy"
            /\ UNCHANGED <<copied, todo, mode>>
         \/ /\ restore_state = "copy"
            /\ \E v \in Replaced(journal, todo[1]) \ copied :
                  /\ io' = CopyOut(v, Replacement(journal, todo[1], v))
                  /\ copied' = copied \union {v}
            /\ UNCHANGED <<restore_state, todo, mode>>
         \/ /\ restore_state = "copy" /\ Replaced(journal, todo[1]) \subseteq copied
            /\ io' = Mark(Terminal, "restored")
         \/ restore_state = "clear" /\ io' = ClearHandle
  BY Zenon DEF Recover, diskVars
<1>3. Recovering(r, f, mark, sp, fm)
  BY <1>1, <1>2 DEF Stage
<1>4. ~FatOnItsWay
  BY <1>2, InTwoWrites, Zenon DEF FatOnItsWay, FatWritten, Done
<1>5. ASSUME NEW type, io' = Mark(Terminal, type)
      PROVE  \A w \in Pending' : w.to \notin {"fat2", "volume"} /\ (w.to = "handle" => w = HandleWrite)
  BY <1>5, MarkCopies
<1>6. CASE /\ restore_state = "mark"
           /\ io' = Mark(Terminal, "restoring")
           /\ restore_state' = "copy"
           /\ UNCHANGED <<copied, todo, mode>>
  <2>1. \A w \in Pending' : w.to \notin {"fat2", "volume"} /\ (w.to = "handle" => w = HandleWrite)
    BY <1>5, <1>6
  <2>2. CASE FixedJournal /\ FatWaits
    <3>1. FatWaits'
      BY <1>2, <1>6, <2>2 DEF FatWaits
    <3>2. FatQuiet'
      BY <2>1 DEF FatQuiet
    <3> QED
      BY <2>2, <3>1, <3>2, Zenon DEF CopiesInv
  <2>3. CASE ~(FixedJournal /\ FatWaits)
    <3>1. CopiesAlike \/ (~FixedJournal /\ handle)
      BY <1>4, <2>3, Zenon DEF CopiesInv
    <3> QED
      BY <1>2, <2>1, <3>1, CopiesLeftAlone
  <2> QED
    BY <2>2, <2>3
<1>7. ASSUME restore_state = "copy", NEW v \in Replaced(journal, todo[1]) \ copied,
             io' = CopyOut(v, Replacement(journal, todo[1], v)),
             copied' = copied \union {v}, UNCHANGED <<restore_state, todo, mode>>
      PROVE  CopiesInv'
  <2>1. PICK c : c = Replacement(journal, todo[1], v)
    OBVIOUS
  <2>2. ~FixedJournal => handle
    <3>1. r < f
      BY <1>2, <1>3, <1>7, MarkIsWrite DEF Recovering, Passes, Done
    <3> QED
      BY <1>3, <3>1 DEF Recovering, Restorable, JournalFound
  <2>3. /\ ~FixedJournal => CopiesInv'
        /\ FixedJournal /\ v # "fat" => FatQuiet' /\ (CopiesAlike' \/ FatWaits)
        /\ FixedJournal /\ v = "fat" => FatWritten'
    BY <1>2, <1>7, <2>1, <2>2, CopyCopies
  <2>4. CASE FixedJournal /\ v # "fat"
    <3>1. FatWaits => FatWaits'
      BY <1>2, <1>7, <2>4 DEF FatWaits
    <3> QED
      BY <2>3, <2>4, <3>1, Zenon DEF CopiesInv
  <2>5. CASE FixedJournal /\ v = "fat"
    <3>1. FatOnItsWay'
      BY <1>2, <1>7, <2>3, <2>5 DEF FatOnItsWay
    <3> QED
      BY <2>5, <3>1, Zenon DEF CopiesInv
  <2> QED
    BY <2>3, <2>4, <2>5
<1>8. CASE /\ restore_state = "copy" /\ Replaced(journal, todo[1]) \subseteq copied
           /\ io' = Mark(Terminal, "restored")
  <2>1. ~FatWaits
    BY <1>2, <1>8 DEF FatWaits
  <2>2. CopiesAlike \/ (~FixedJournal /\ handle)
    BY <1>2, <2>1, CopiesWhenDone
  <2> QED
    BY <1>2, <1>5, <1>8, <2>2, CopiesLeftAlone
<1>9. CASE restore_state = "clear" /\ io' = ClearHandle
  <2>1. ~FatWaits
    BY <1>2, <1>9 DEF FatWaits
  <2>2. CopiesAlike \/ (~FixedJournal /\ handle)
    BY <1>2, <2>1, CopiesWhenDone
  <2> QED
    BY <1>2, <1>9, <2>2, ClearCopies
<1> QED
  BY <1>2, <1>6, <1>7, <1>8, <1>9

\* The calls that write to the journal only, while nothing else is pending.
LEMMA WriteCopies ==
    ASSUME CopiesInv, MapsInv, RingInv', WriteData \/ Create \/ Delete
    PROVE  CopiesInv'
<1>1. PICK v, c : Write(v, c)
  BY Zenon DEF WriteData, Create, Delete
<1>2. Ready /\ UNCHANGED diskVars
  BY <1>1, Zenon DEF Write
<1>3. CopiesAlike \/ (~FixedJournal /\ handle)
  BY <1>2, CopiesWhenDone DEF FatWaits, Ready
<1>4. \A w \in Pending' : w.to \notin {"fat2", "volume"} /\ (w.to = "handle" => w = HandleWrite)
  BY <1>1, WriteGoes
<1> QED
  BY <1>2, <1>3, <1>4, CopiesLeftAlone DEF diskVars

LEMMA CommitCopies ==
    ASSUME CopiesInv, Commit
    PROVE  CopiesInv'
<1>1. /\ Ready /\ UNCHANGED diskVars
      /\ io' = Return \/ \E b, x : io' = ToJournal(b, x) \o MarkHandle \o Return
  BY Zenon DEF Commit
<1>2. CopiesAlike \/ (~FixedJournal /\ handle)
  BY <1>1, CopiesWhenDone DEF FatWaits, Ready
<1>3. \A w \in Pending' : w.to \in {"journal", "handle", "return"}
  BY CommitGoes
<1>4. PICK t : t = Return
  OBVIOUS
<1>5. t \in Seq(WritesOf(t)) /\ \A w \in WritesOf(t) : w.to = "return"
  <2>1. t \in Seq(WritesOf(t)) /\ WritesOf(t) = {[to |-> "return"]}
    BY <1>4, KindsOfWrites
  <2> QED
    BY <2>1
<1>6. ASSUME NEW b, NEW x, io' = ToJournal(b, x) \o MarkHandle \o Return
      PROVE  \A w \in Pending' : w.to = "handle" => w = HandleWrite
  <2>1. PICK p, q : p = ToJournal(b, x) /\ q = MarkHandle
    OBVIOUS
  <2>2. p \in Seq(WritesOf(p)) /\ \A w \in WritesOf(p) : w.to = "journal"
    <3>1. p \in Seq(WritesOf(p)) /\ WritesOf(p) = {[to |-> "journal", at |-> b, val |-> x]}
      BY <2>1, KindsOfWrites
    <3> QED
      BY <3>1
  <2>3. q \in Seq(WritesOf(q)) /\ WritesOf(q) \subseteq {HandleWrite}
    <3>1. PICK h : h = ToHandle(TRUE)
      OBVIOUS
    <3>2. h \in Seq(WritesOf(h)) /\ WritesOf(h) = {HandleWrite}
      <4>1. h = <<HandleWrite>>
        BY <3>1, Zenon DEF ToHandle, HandleWrite
      <4> QED
        BY <4>1, OneWrite, Zenon
    <3>3. q = <<>> \/ q = h
      BY <2>1, <3>1, Zenon DEF MarkHandle
    <3> QED
      BY <3>2, <3>3, NoWrites
  <2>4. /\ WritesOf(p \o q) = WritesOf(p) \union WritesOf(q)
        /\ p \o q \in Seq(WritesOf(p \o q))
    BY <2>2, <2>3, MoreWrites, Zenon
  <2>5. WritesOf((p \o q) \o t) = WritesOf(p \o q) \union WritesOf(t)
    BY <1>5, <2>4, MoreWrites, Zenon
  <2>6. io' = (p \o q) \o t
    BY <1>4, <1>6, <2>1, Zenon
  <2>7. Pending' = WritesOf(p) \union WritesOf(q) \union WritesOf(t)
    BY <2>4, <2>5, <2>6, Zenon DEF Pending
  <2> QED
    BY <1>5, <2>2, <2>3, <2>7
<1>7. \A w \in Pending' : w.to \notin {"fat2", "volume"} /\ (w.to = "handle" => w = HandleWrite)
  <2>1. CASE io' = Return
    BY <1>4, <1>5, <2>1 DEF Pending
  <2>2. CASE \E b, x : io' = ToJournal(b, x) \o MarkHandle \o Return
    BY <1>3, <1>6, <2>2
  <2> QED
    BY <1>1, <2>1, <2>2
<1> QED
  BY <1>1, <1>2, <1>7, CopiesLeftAlone DEF diskVars

\* The calls that leave no writes, and the beginning of a session.
LEMMA OtherCopies ==
    ASSUME CopiesInv, CommitInv, StartRestore \/ Remount \/ BeginSession
    PROVE  CopiesInv'
<1>1. /\ Done /\ UNCHANGED diskVars /\ mode \in {"up", "remount", "start"}
      /\ UNCHANGED io \/ BeginSession
  BY Zenon DEF StartRestore, Remount, BeginSession, Ready
<1>2. CopiesAlike \/ (~FixedJournal /\ handle)
  BY <1>1, CopiesWhenDone DEF FatWaits
<1>3. \A w \in Pending' : w.to \notin {"fat2", "volume"} /\ (w.to = "handle" => w = HandleWrite)
  <2>1. CASE BeginSession
    BY <2>1, BeginGoes
  <2>2. CASE UNCHANGED io
    <3>1. Pending' = {}
      BY <1>1, <2>2, NoWrites DEF Pending, Done
    <3> QED
      BY <3>1
  <2> QED
    BY <1>1, <2>1, <2>2
<1> QED
  BY <1>1, <1>2, <1>3, CopiesLeftAlone DEF diskVars

LEMMA RestorePassCopies ==
    ASSUME CopiesInv, CommitInv, RestorePass
    PROVE  CopiesInv'
<1>1. /\ Ready /\ UNCHANGED diskVars /\ UNCHANGED <<mode, restoringMap>>
      /\ \/ \E type : io' = Mark(restoring_terminal_record, type)
         \/ /\ restore_state = "copy" /\ UNCHANGED restore_state
            /\ \E v \in ToCopy \ copied : io' = CopyOut(v, ValueAt(journal, restoringMap[v]))
  BY Zenon DEF RestorePass, mapVars
<1>2. mode = "up" /\ Done /\ UNCHANGED <<volume, fat2, handle>>
  BY <1>1 DEF Ready, diskVars
<1>3. CopiesAlike \/ (~FixedJournal /\ handle)
  BY <1>2, CopiesWhenDone DEF FatWaits
<1>4. ASSUME NEW type, io' = Mark(restoring_terminal_record, type) PROVE CopiesInv'
  <2>1. \A w \in Pending' : w.to \notin {"fat2", "volume"} /\ (w.to = "handle" => w = HandleWrite)
    BY <1>4, MarkCopies
  <2> QED
    BY <1>2, <1>3, <2>1, CopiesLeftAlone
<1>5. ASSUME restore_state = "copy", UNCHANGED restore_state, NEW v \in ToCopy \ copied,
             io' = CopyOut(v, ValueAt(journal, restoringMap[v]))
      PROVE  CopiesInv'
  <2>1. PICK c : c = ValueAt(journal, restoringMap[v])
    OBVIOUS
  <2>2. ~FixedJournal => handle
    <3>1. restoring_start_record # 0
      BY <1>2, <1>5 DEF CommitInv, MapsInv, MapsTyped
    <3>2. PICK e, cur, r, f, mark, fm : Restores(e, cur, r, f, mark, fm)
      BY <1>1, <3>1, ReadyIs DEF CommitInv, Idle
    <3>3. r < f
      BY <1>2, <1>5, <3>2, MarkIsWrite DEF Restores, Passes, Done
    <3> QED
      BY <3>2, <3>3 DEF Restores, JournalFound
  <2>3. /\ ~FixedJournal => CopiesInv'
        /\ FixedJournal /\ v # "fat" => FatQuiet' /\ (CopiesAlike' \/ FatWaits)
        /\ FixedJournal /\ v = "fat" => FatWritten'
    BY <1>2, <1>5, <2>1, <2>2, CopyCopies
  <2>4. CASE FixedJournal /\ v # "fat"
    <3>1. ~FatWaits
      BY <1>2 DEF FatWaits
    <3> QED
      BY <2>3, <2>4, <3>1, Zenon DEF CopiesInv
  <2>5. CASE FixedJournal /\ v = "fat"
    <3>1. restoringMap["fat"] # 0
      BY <1>5, <2>5 DEF ToCopy
    <3>2. FatOnItsWay'
      BY <1>1, <1>2, <1>5, <2>3, <2>5, <3>1 DEF FatOnItsWay
    <3> QED
      BY <2>5, <3>2, Zenon DEF CopiesInv
  <2> QED
    BY <2>3, <2>4, <2>5
<1> QED
  BY <1>1, <1>4, <1>5

LEMMA EndRestoreCopies ==
    ASSUME CopiesInv, EndRestore
    PROVE  CopiesInv'
<1>1. /\ Ready /\ UNCHANGED diskVars
      /\ io' = IF KeepHandle THEN <<>> ELSE ClearHandle
  BY Zenon DEF EndRestore
<1>2. mode = "up" /\ Done /\ UNCHANGED <<volume, fat2, handle>>
  BY <1>1 DEF Ready, diskVars
<1>3. CopiesAlike \/ (~FixedJournal /\ handle)
  BY <1>2, CopiesWhenDone DEF FatWaits
<1>4. CASE KeepHandle
  <2>1. Pending' = {}
    BY <1>1, <1>4, NoWrites DEF Pending
  <2> QED
    BY <1>2, <1>3, <2>1, CopiesLeftAlone
<1>5. CASE ~KeepHandle
  BY <1>1, <1>2, <1>3, <1>5, ClearCopies
<1> QED
  BY <1>4, <1>5

LEMMA DiskWriteCopies ==
    ASSUME CopiesInv, CommitInv, DiskWrite
    PROVE  CopiesInv'
<1>1. PICK w : w = Head(io)
  OBVIOUS
<1>2. /\ DiskInv /\ io # <<>> /\ w \in Pending /\ io' = Tail(io) /\ Pending' \subseteq Pending
      /\ UNCHANGED <<mode, restoreVars, mapVars>>
  <2>1. DiskInv /\ UNCHANGED memoryVars
    BY DiskWriteIs DEF CommitInv
  <2>2. UNCHANGED <<mode, restoreVars, mapVars>>
    BY <2>1, Zenon DEF memoryVars
  <2> QED
    BY <1>1, <2>1, <2>2, DiskWriteIs, WriteDone DEF DiskInv, DiskTyped
<1>3. /\ volume' = IF w.to = "volume" THEN [volume EXCEPT ![w.at] = w.val] ELSE volume
      /\ fat2' = IF w.to = "fat2" THEN w.val ELSE fat2
      /\ handle' = IF w.to = "handle" THEN w.val ELSE handle
  BY <1>1, Zenon DEF DiskWrite
<1>4. mode # "down" /\ UNCHANGED <<mode, restore_state, copied, todo, restoringMap>>
  BY <1>2 DEF DiskInv, DiskTyped, restoreVars, mapVars
<1>5. DOMAIN volume = Volume /\ "fat" \in Volume
  BY <1>2 DEF DiskInv, DiskTyped, Volume
<1>6. ASSUME mode = "recover" PROVE Replaced(journal', todo[1]) = Replaced(journal, todo[1])
  <2>1. \A b \in Blocks : Alike(journal[b], journal'[b])
    BY <1>2, <1>6, MarkDone
  <2>2. Len(todo) = 1
    BY <1>6 DEF CommitInv, CrashInv, Stage, Recovering
  <2>3. RangeOK(todo[1])
    <3>1. 1 \in 1 .. Len(todo)
      BY <2>2
    <3> QED
      BY <1>2, <1>6, <3>1 DEF DiskInv, InRecovery
  <2>4. todo[1] \in Seq(Blocks) /\ \A i \in 1 .. Len(todo[1]) : HeaderAt(todo[1][i], journal[todo[1][i]])
    BY <1>2, <2>3, RangeIs DEF DiskInv
  <2> QED
    BY <2>1, <2>4, AlikeRange
<1>7. CASE FixedJournal /\ FatQuiet /\ (CopiesAlike \/ FatWaits)
  <2>1. FatQuiet'
    BY <1>2, <1>7 DEF FatQuiet
  <2>2. CopiesAlike => CopiesAlike'
    BY <1>2, <1>3, <1>5, <1>7 DEF FatQuiet, CopiesAlike
  <2>3. FatWaits => FatWaits'
    BY <1>4, <1>6 DEF FatWaits
  <2> QED
    BY <1>7, <2>1, <2>2, <2>3, Zenon DEF CopiesInv
<1>8. CASE FixedJournal /\ FatOnItsWay
  <2>1. ASSUME NEW c, io = ToVolume("fat", c) \o ToFat2(c) PROVE CopiesInv'
    <3>1. w = [to |-> "volume", at |-> "fat", val |-> c] /\ io' = ToFat2(c)
      BY <1>1, <1>2, <2>1, InTwoWrites, Zenon
    <3>2. volume'["fat"] = c
      BY <1>3, <1>5, <3>1
    <3>3. FatWritten'
      BY <3>1, <3>2, Zenon DEF FatWritten
    <3>4. FatOnItsWay'
      BY <1>4, <1>6, <1>8, <3>3 DEF FatOnItsWay
    <3> QED
      BY <1>8, <3>4, Zenon DEF CopiesInv
  <2>2. ASSUME io = ToFat2(volume["fat"]) PROVE CopiesInv'
    <3>1. PICK c : c = volume["fat"]
      OBVIOUS
    <3>2. w = [to |-> "fat2", val |-> c] /\ io' = <<>>
      BY <1>1, <1>2, <2>2, <3>1, InTwoWrites, Zenon
    <3>3. CopiesAlike'
      BY <1>3, <3>1, <3>2 DEF CopiesAlike
    <3>4. Pending' = {}
      BY <3>2, NoWrites DEF Pending
    <3>5. FatQuiet'
      BY <3>4 DEF FatQuiet
    <3> QED
      BY <1>8, <3>3, <3>5, Zenon DEF CopiesInv
  <2> QED
    BY <1>8, <2>1, <2>2, Zenon DEF FatOnItsWay, FatWritten
<1>9. CASE ~FixedJournal /\ (CopiesAlike \/ handle) /\ HandleStays
  <2>1. handle => handle'
    <3>1. CASE w.to = "handle"
      <4>1. w = HandleWrite
        BY <1>2, <1>9, <3>1 DEF HandleStays
      <4>2. handle' = HandleWrite.val
        BY <1>3, <3>1, <4>1
      <4> QED
        BY <4>2 DEF HandleWrite
    <3>2. CASE w.to # "handle"
      BY <1>3, <3>2
    <3> QED
      BY <3>1, <3>2
  <2>2. HandleStays'
    BY <1>2, <1>9, <2>1 DEF HandleStays
  <2>3. w.to = "volume" \/ CopiesAlike' = CopiesAlike
    BY <1>2, <1>3, <1>9 DEF CopiesAlike, HandleStays
  <2>4. CopiesAlike' \/ handle'
    BY <1>2, <1>9, <2>1, <2>3 DEF HandleStays
  <2> QED
    BY <1>9, <2>2, <2>4, Zenon DEF CopiesInv
<1>10. CASE ~FixedJournal /\ io = ToFat2(volume["fat"]) \o ToHandle(FALSE)
  <2>1. PICK c : c = volume["fat"]
    OBVIOUS
  <2>2. w = [to |-> "fat2", val |-> c] /\ io' = ToHandle(FALSE)
    BY <1>1, <1>2, <1>10, <2>1, InTwoWrites, Zenon
  <2>3. CopiesAlike'
    BY <1>3, <2>1, <2>2 DEF CopiesAlike
  <2> QED
    BY <1>10, <2>2, <2>3, Zenon DEF CopiesInv, HandleGoes
<1>11. CASE ~FixedJournal /\ CopiesAlike /\ io = ToHandle(FALSE)
  <2>1. w = [to |-> "handle", val |-> FALSE] /\ io' = <<>>
    BY <1>1, <1>2, <1>11, InTwoWrites, Zenon
  <2>2. w.to = "handle"
    BY <2>1
  <2>3. CopiesAlike'
    BY <1>3, <1>11, <2>2 DEF CopiesAlike
  <2>4. Pending' = {}
    BY <2>1, NoWrites DEF Pending
  <2>5. HandleStays'
    BY <2>4 DEF HandleStays
  <2> QED
    BY <1>11, <2>3, <2>5, Zenon DEF CopiesInv
<1> QED
  BY <1>7, <1>8, <1>9, <1>10, <1>11, Zenon DEF CopiesInv, HandleGoes

LEMMA StepCopies ==
    ASSUME CopiesInv, CommitInv, CommitInv', [FsNext]_fsVars, "full" \notin Allowed
    PROVE  CopiesInv'
<1>1. MapsInv /\ RingInv'
  BY DEF CommitInv, MapsInv
<1>2. CASE DiskWrite
  BY <1>2, DiskWriteCopies
<1>3. CASE Crash
  BY <1>3, CrashCopies
<1>4. CASE Mount
  BY <1>4, MountCopies
<1>5. CASE Recover
  BY <1>5, RecoverCopies
<1>6. CASE StartRestore \/ Remount \/ BeginSession
  BY <1>6, OtherCopies
<1>7. CASE WriteData \/ Create \/ Delete
  BY <1>1, <1>7, WriteCopies
<1>8. CASE WriteFails
  BY <1>8, Zenon DEF WriteFails
<1>9. CASE Commit
  BY <1>9, CommitCopies
<1>10. CASE RestorePass
  BY <1>10, RestorePassCopies
<1>11. CASE EndRestore
  BY <1>11, EndRestoreCopies
<1>12. CASE UNCHANGED fsVars
  <2>1. UNCHANGED <<journal, master, handle, volume, fat2, restoringMap, restore_state, copied, todo,
                    mode, io>>
    BY <1>12, Zenon DEF fsVars, diskVars, mapVars, restoreVars
  <2>2. Pending' = Pending /\ Ranges' = Ranges
    BY <2>1 DEF Pending, Ranges
  <2>3. (FatQuiet' <=> FatQuiet) /\ (CopiesAlike' <=> CopiesAlike) /\ (HandleStays' <=> HandleStays)
    BY <2>1, <2>2 DEF FatQuiet, CopiesAlike, HandleStays
  <2>4. (FatWaits' <=> FatWaits) /\ (FatOnItsWay' <=> FatOnItsWay) /\ (HandleGoes' <=> HandleGoes)
    BY <2>1, <2>2 DEF FatWaits, FatFound, FatOnItsWay, FatWritten, HandleGoes, CopiesAlike
  <2> QED
    BY <2>1, <2>3, <2>4, Zenon DEF CopiesInv
<1> QED
  BY <1>2, <1>3, <1>4, <1>5, <1>6, <1>7, <1>8, <1>9, <1>10, <1>11, <1>12, Zenon DEF FsNext

LEMMA InitCopies == FsInit => CopiesInv
<1>1. ASSUME FsInit PROVE CopiesInv
  <2>1. io = <<>> /\ volume = [v \in Volume |-> IF v = "fat" THEN InitFree ELSE 0] /\ fat2 = InitFree
    BY <1>1, Zenon DEF FsInit
  <2>2. CopiesAlike
    BY <2>1 DEF CopiesAlike, Volume
  <2>3. Pending = {}
    BY <2>1, NoWrites DEF Pending
  <2>4. FatQuiet /\ HandleStays
    BY <2>3 DEF FatQuiet, HandleStays
  <2> QED
    BY <2>2, <2>4, Zenon DEF CopiesInv
<1> QED
  BY <1>1

\* The second copy of the FAT is the first one whenever no restore is under way
\* and the journal's handle is not in it (fs_asy_write_to_volume,
\* failsafe_nv_buffer_clear), whatever writes a power failure cut off.
THEOREM CopiesAgree ==
    ASSUME AsyncRestore = FALSE, "full" \notin Allowed
    PROVE  FsSpec => []FatCopiesAgree
<1>1. FsInit => CommitInv /\ CopiesInv
  BY CommitInit, InitCopies
<1>2. ASSUME CommitInv, CopiesInv, [FsNext]_fsVars PROVE CommitInv' /\ CopiesInv'
  BY <1>2, CommitStep, StepCopies
<1>3. ASSUME CopiesInv PROVE FatCopiesAgree
  <2>1. Ready => Done /\ ~FatWaits
    BY DEF Ready, FatWaits
  <2> QED
    BY <1>3, <2>1, CopiesWhenDone DEF FatCopiesAgree, CopiesAlike
<1> QED
  BY <1>1, <1>2, <1>3, PTL DEF FsSpec
=============================================================================
