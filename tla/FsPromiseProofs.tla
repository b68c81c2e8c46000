--------------------------- MODULE FsPromiseProofs ---------------------------
(***************************************************************************)
(* Commits are atomic and lasting: FsJournal implements FsTxn.  One disk   *)
(* write either leaves the volume that a mount would make of the disk as   *)
(* it is, or takes it from one committed state to the next.                *)
(***************************************************************************)
EXTENDS FsCommitProofs

-----------------------------------------------------------------------------
(* While a restore runs a mount would make of the disk what its user sees *)

\* A mark is the only write there is.
LEMMA MarkPending ==
    ASSUME NEW b, NEW type, AFrame(b), DiskInv, io = Mark(b, type)
    PROVE  \A w \in Pending : w.to = "journal" /\ w.at = b /\ w.val.type = type
<1>1. PICK x : x = [journal[b] EXCEPT !.type = type]
  OBVIOUS
<1>2. \A a, y : WritesOf(ToJournal(a, y)) = {[to |-> "journal", at |-> a, val |-> y]}
  BY KindsOfWrites, Zenon
<1>3. PICK w : w = [to |-> "journal", at |-> b, val |-> x]
  OBVIOUS
<1>4. Pending = {w}
  BY <1>1, <1>2, <1>3, Zenon DEF Mark, Pending
<1>5. x.type = type
  <2>1. HeaderAt(b, journal[b])
    BY DEF DiskInv, DiskTyped, WellFormed, AFrame, IsFrame
  <2>2. "type" \in DOMAIN journal[b]
    BY <2>1 DEF HeaderAt
  <2> QED
    BY <1>1, <2>2
<1> QED
  BY <1>3, <1>4, <1>5

\* A commit runs its restore with nothing else in the maps.
LEMMA RestoreRecovered ==
    ASSUME NEW e, NEW cur, NEW r, NEW f, NEW mark, NEW sp, NEW fm,
           InOrder(journal, master, e, cur, r, f, mark, sp, fm),
           Restores(e, cur, r, f, mark, fm), DiskInv, UpToDate, mode = "up"
    PROVE  Recovered = view
<1>1. PICK b : b = restoring_terminal_record
  OBVIOUS
<1>2. /\ AFrame(b) /\ journal[b].seq = f /\ Passes(b, r, f, mark, fm) /\ restoring_start_record # 0
      /\ openMap = NoMap /\ flushedMap = NoMap
      /\ r < f => fm = restoringMap /\ JournalFound(handle)
      /\ r \in Nat /\ f \in Nat /\ b \in Blocks
  BY <1>1 DEF Restores, InOrder, AFrame
<1>3. ASSUME NEW v \in Volume
      PROVE  /\ Shown(v) = restoringMap[v]
             /\ OnVolume(v) <=> restoringMap[v] = 0 \/ v \in copied
  BY <1>2 DEF Shown, OnVolume, NoMap
<1>4. CASE r < f
  <2>1. Restorable(r, f, mark, sp, handle, volume)
    <3>1. ASSUME mark = "flushed" PROVE sp = volume["fat"]
      <4>1. MarkFits(journal[b], r, f, mark) /\ journal[b].space = sp
        BY <1>2, <1>4 DEF InOrder, Marked, AFrame, Signed
      <4>2. journal[b].type = "flushed"
        BY <1>2, <1>4, <3>1, <4>1 DEF MarkFits
      <4> QED
        BY <1>1, <1>2, <4>1, <4>2 DEF UpToDate
    <3> QED
      BY <1>2, <1>4, <3>1 DEF Restorable
  <2>2. \A w \in Pending : \/ w.to = "journal" /\ w.val.type \in {"restoring", "restored"}
                           \/ w.to = "fat2"
                           \/ w.to = "volume" /\ fm[w.at] # 0
    <3>1. CASE io = <<>>
      BY <3>1, NoWrites DEF Pending
    <3>2. ASSUME NEW type \in {"restoring", "restored"}, io = Mark(b, type)
          PROVE  \A w \in Pending : w.to = "journal" /\ w.val.type = type
      BY <1>2, <3>2, MarkPending
    <3>3. \/ io = <<>> \/ io = Mark(b, "restoring") \/ io = Mark(b, "restored")
          \/ \A w \in Pending : w.to \in {"volume", "fat2"} /\ (w.to = "volume" => fm[w.at] # 0)
      BY <1>2, <1>4 DEF Passes
    <3> QED
      BY <3>1, <3>2, <3>3
  <2>3. ASSUME NEW v \in Volume, fm[v] # 0 PROVE JournalWrites(fm[v]) = {}
    <3>1. JournalHolds(fm[v], DataBlock(view[v]))
      BY <1>2, <1>3, <1>4, <2>3 DEF DiskInv, InUse
    <3>2. \A w \in JournalWrites(fm[v]) : w.val.type = "data"
      BY <3>1 DEF JournalHolds, DataBlock
    <3> QED
      BY <2>2, <3>2 DEF JournalWrites
  <2>4. ASSUME NEW v \in Volume, fm[v] = 0 PROVE OnVolume(v) /\ VolumeWrites(v) = {}
    BY <1>2, <1>3, <1>4, <2>2, <2>4 DEF VolumeWrites
  <2> QED
    BY <1>2, <1>3, <1>4, <2>1, <2>3, <2>4, SessionRecovered
<1>5. CASE ~(r < f)
  <2>1. r = f
    BY <1>5 DEF InOrder
  <2>2. restore_state = "clear" /\ \A w \in Pending : w.to \in {"fat2", "handle"}
    BY <1>2, <1>5 DEF Passes
  <2>3. ASSUME NEW v \in Volume PROVE volume[v] = view[v]
    <3>1. OnVolume(v)
      BY <1>3, <2>2 DEF DiskInv, InUse, ToCopy
    <3>2. VolumeHolds(v, view[v])
      BY <3>1 DEF DiskInv, InUse
    <3> QED
      BY <2>2, <3>2 DEF VolumeHolds, VolumeWrites
  <2> QED
    BY <1>5, <2>3, RecoveredIsView
<1> QED
  BY <1>4, <1>5

-----------------------------------------------------------------------------
(* A mount that restores makes of the volume what it would make of it again *)

RecoverKept == mode = "recover" => Recovered = view

LEMMA FoundInBlocks ==
    ASSUME NEW j, NEW m, NEW e, NEW cur, NEW r, NEW f, NEW mark, NEW sp, NEW fm,
           InOrder(j, m, e, cur, r, f, mark, sp, fm), NEW v \in Volume, fm[v] # 0
    PROVE  fm[v] \in Blocks /\ r < f
<1>1. PICK b \in Blocks, i \in 1 .. FrameMax : RecordIn(j, m, r, f, b, i, v) /\ fm[v] = b + i
  BY DEF InOrder, MapOf
<1>2. /\ r < j[b].seq /\ j[b].seq <= f /\ j[b].seq \in 1 .. e /\ j[b].type # "data"
      /\ r \in Int /\ f \in Int /\ e \in Int /\ i <= Len(j[b].recs)
  BY <1>1 DEF RecordIn, InOrder, InSequence, IsFrame
<1>3. Len(j[b].recs) \in Nat /\ b + Len(j[b].recs) < FileSize
  <2>1. HeaderAt(b, j[b])
    BY <1>2 DEF InOrder, Formed, WellFormed
  <2> QED
    BY <2>1, LenProperties DEF HeaderAt
<1>4. r < f
  BY <1>2
<1>5. b \in 1 .. FileSize - 1 /\ i \in 1 .. FrameMax /\ FileSize \in Nat /\ FrameMax \in Nat
  BY <1>1, RingAssumption DEF Blocks
<1>6. b + i \in 1 .. FileSize - 1
  BY <1>2, <1>3, <1>5
<1> QED
  BY <1>1, <1>4, <1>6 DEF Blocks

LEMMA RecoverWritten ==
    ASSUME CommitInv, DiskInv', RecoverKept, DiskWrite, mode = "recover"
    PROVE  Recovered' = view'
<1>1. CrashInv /\ DiskInv
  BY DEF CommitInv
<1>2. PICK e, cur, r, f, mark, sp, fm :
         /\ InOrder(journal, master, e, cur, r, f, mark, sp, fm)
         /\ Recovering(r, f, mark, sp, fm)
  BY <1>1 DEF CrashInv, Stage
<1>3. PICK b : b = LastBlock(todo[1])
  OBVIOUS
<1>4. AFrame(b) /\ journal[b].seq = f /\ Passes(b, r, f, mark, fm) /\ Len(todo) = 1
  BY <1>2, <1>3 DEF Recovering
<1>5. /\ master' = master /\ UNCHANGED memoryVars
      /\ \A a \in Blocks : Alike(journal[a], journal'[a])
  BY <1>1, <1>2, <1>4, PassWritten
<1>6. PICK r2, mark2, fm2 :
         /\ r2 \in {r, f}
         /\ InOrder(journal, master, e, cur, r2, f, mark2, sp, fm2)'
         /\ Passes(b, r2, f, mark2, fm2)'
         /\ r2 < f => r2 = r /\ fm2 = fm /\ handle' = handle /\ mark2 = "restoring"
  BY <1>1, <1>2, <1>4, PassWritten
<1>7. view' = view /\ todo' = todo /\ mode' = "recover" /\ view = [v \in Volume |-> view[v]]
  BY <1>1, <1>5 DEF memoryVars, restoreVars, DiskInv, DiskTyped
<1>8. Recovered' = [v \in Volume |-> IF Restorable(r2, f, mark2, sp, handle', volume') /\ fm2[v] # 0
                                     THEN ValueAt(journal', fm2[v]) ELSE volume'[v]]
  <2>1. PICK j, m : j = journal' /\ m = master'
    OBVIOUS
  <2>2. InOrder(j, m, e, cur, r2, f, mark2, sp, fm2)
    BY <1>6, <2>1
  <2>3. RecoveredFrom(j, m, handle', volume') =
          [v \in Volume |-> IF Restorable(r2, f, mark2, sp, handle', volume') /\ fm2[v] # 0
                            THEN ValueAt(j, fm2[v]) ELSE volume'[v]]
    BY <2>2, RecoveredInOrder
  <2> QED
    BY <2>1, <2>3 DEF Recovered
<1>9. CASE r2 < f
  <2>1. /\ r2 = r /\ fm2 = fm /\ handle' = handle /\ mark2 = "restoring" /\ r < f
        /\ Restorable(r, f, mark, sp, handle, volume)
    BY <1>2, <1>6, <1>9 DEF Recovering
  <2>2. Restorable(r2, f, mark2, sp, handle', volume')
    BY <2>1 DEF Restorable
  <2>3. Recovered = [v \in Volume |-> IF Restorable(r, f, mark, sp, handle, volume) /\ fm[v] # 0
                                      THEN ValueAt(journal, fm[v]) ELSE volume[v]]
    BY <1>2, RecoveredInOrder DEF Recovered
  <2>4. ASSUME NEW v \in Volume, fm[v] # 0 PROVE ValueAt(journal', fm[v]) = ValueAt(journal, fm[v])
    <3>1. fm[v] \in Blocks
      BY <1>2, <2>4, FoundInBlocks
    <3>2. Alike(journal[fm[v]], journal'[fm[v]])
      BY <1>5, <3>1
    <3> QED
      BY <3>2 DEF Alike, ValueAt
  <2>5. ASSUME NEW v \in Volume, fm[v] = 0 PROVE volume'[v] = volume[v]
    <3>1. PICK w : w = Head(io)
      OBVIOUS
    <3>2. w \in Pending /\ volume' = IF w.to = "volume" THEN [volume EXCEPT ![w.at] = w.val] ELSE volume
      BY <1>1, <3>1, DiskWriteIs DEF DiskWrite
    <3>3. w.to = "volume" => fm[w.at] # 0
      <4>1. \A type : io = Mark(b, type) => w.to = "journal"
        BY <1>1, <1>4, <3>2, MarkPending
      <4>2. io # <<>>
        BY <1>1, DiskWriteIs
      <4> QED
        BY <1>4, <2>1, <3>2, <4>1, <4>2 DEF Passes
    <3> QED
      BY <2>5, <3>2, <3>3
  <2> QED
    BY <1>7, <1>8, <2>1, <2>2, <2>3, <2>4, <2>5 DEF RecoverKept
<1>10. CASE ~(r2 < f)
  <2>1. /\ restore_state' = "clear" /\ \A w \in Pending' : w.to \in {"fat2", "handle"}
    BY <1>6, <1>10 DEF Passes
  <2>2. ~Restorable(r2, f, mark2, sp, handle', volume')
    BY <1>10 DEF Restorable
  <2>3. ASSUME NEW v \in Volume PROVE volume'[v] = view[v]
    <3>1. VolumeHolds(v, view[v])'
      <4>1. /\ v \notin Replaced(journal', todo'[1]) \/ v \in copied' => VolumeHolds(v, view[v])'
            /\ Replaced(journal', todo'[1]) \subseteq copied'
        <5>1. Len(todo') # 2 /\ InRecovery'
          BY <1>4, <1>7 DEF DiskInv
        <5> QED
          BY <1>7, <2>1, <5>1, Zenon DEF InRecovery
      <4> QED
        BY <4>1
    <3> QED
      BY <1>7, <2>1, <3>1 DEF VolumeHolds, VolumeWrites
  <2> QED
    BY <1>7, <1>8, <2>2, <2>3
<1> QED
  BY <1>9, <1>10

-----------------------------------------------------------------------------
(* One disk write of a commit, of a restore or of a mount *)

\* Replacements that are committed are there.
FlushedThere ==
    mode = "up" => \A v \in Volume : flushedMap[v] # 0 => journal[flushedMap[v]].type = "data"

\* The handle is written at the end of a commit or of a restore.
LEMMA HandleLast ==
    ASSUME NEW e, NEW cur, NEW r, NEW lo, NEW f, NEW mark, NEW sp, NEW fm,
           Writing(e, cur, r, lo, f, mark, sp, fm), DiskTyped, io # <<>>
    PROVE  r = f \/ Head(io).to # "handle" \/ io = ToHandle(TRUE) \o Return
<1>1. \A b, x : JournalWrite(b, x).to = "journal" /\ MasterWrite.to = "master"
  BY DEF JournalWrite, MasterWrite
<1>2. \A x, b : DataTo(x, b) => Head(x).to = "journal"
  <2>1. ASSUME NEW x, NEW b, DataTo(x, b) PROVE Head(x).to = "journal"
    <3>1. PICK w : x = <<w>> /\ w.to = "journal"
      BY <1>1, <2>1 DEF DataTo
    <3> QED
      BY <3>1
  <2> QED
    BY <2>1
<1>3. ASSUME Flushing(e, cur, r, lo, f, fm) \/ ClosePending(e, cur, lo, f) PROVE Head(io).to = "journal"
  BY <1>1, <1>3 DEF Flushing, ClosePending, Closing
<1>4. ASSUME DataPending(e, cur, lo, f) PROVE Head(io).to = "journal"
  BY <1>2, <1>4 DEF DataPending
<1>5. ASSUME AppendPending(e, cur, lo) PROVE Head(io).to # "handle"
  <2>1. Opening(io) \/ Moving(io) => Head(io).to \in {"journal", "master"}
    BY <1>1 DEF Opening, Moving
  <2> QED
    BY <1>1, <1>5, <2>1 DEF AppendPending, Appending
<1>6. ASSUME Settled(e, cur, r, f)
      PROVE  r = f \/ Head(io).to # "handle" \/ io = ToHandle(TRUE) \o Return
  <2>1. io = Return => Head(io).to = "return"
    BY DEF Return
  <2> QED
    BY <1>2, <1>6, <2>1 DEF Settled
<1> QED
  BY <1>3, <1>4, <1>5, <1>6, Zenon DEF Writing, Filling

LEMMA RecoveredNext ==
    ASSUME NEW e, NEW cur, NEW r, NEW f, NEW mark, NEW sp, NEW fm,
           InOrder(journal, master, e, cur, r, f, mark, sp, fm)'
    PROVE  Recovered' = [v \in Volume |-> IF Restorable(r, f, mark, sp, handle', volume') /\ fm[v] # 0
                                          THEN ValueAt(journal', fm[v]) ELSE volume'[v]]
<1>1. PICK j, m : j = journal' /\ m = master'
  OBVIOUS
<1>2. InOrder(j, m, e, cur, r, f, mark, sp, fm)
  BY <1>1
<1>3. RecoveredFrom(j, m, handle', volume') =
        [v \in Volume |-> IF Restorable(r, f, mark, sp, handle', volume') /\ fm[v] # 0
                          THEN ValueAt(j, fm[v]) ELSE volume'[v]]
  BY <1>2, RecoveredInOrder
<1> QED
  BY <1>1, <1>3 DEF Recovered

LEMMA HandleWrites ==
    /\ Return # <<>> /\ Return[Len(Return)].to = "return"
    /\ \A s : /\ ToHandle(s) \o Return # <<>> /\ Tail(ToHandle(s) \o Return) = Return
              /\ (ToHandle(s) \o Return)[Len(ToHandle(s) \o Return)].to = "return"
              /\ \A w \in WritesOf(ToHandle(s) \o Return) : w.to \in {"handle", "return"}
<1>1. PICK x : x = [to |-> "return"]
  OBVIOUS
<1>2. Return = <<x>> /\ x.to = "return"
  BY <1>1 DEF Return
<1>3. ASSUME NEW s
      PROVE  ToHandle(s) \o Return # <<>> /\ Tail(ToHandle(s) \o Return) = Return
             /\ (ToHandle(s) \o Return)[Len(ToHandle(s) \o Return)].to = "return"
             /\ \A w \in WritesOf(ToHandle(s) \o Return) : w.to \in {"handle", "return"}
  <2>1. PICK y : y = [to |-> "handle", val |-> s]
    OBVIOUS
  <2>2. ToHandle(s) = <<y>> /\ y.to = "handle"
    BY <2>1 DEF ToHandle
  <2>3. <<y>> \in Seq({x, y}) /\ <<x>> \in Seq({x, y}) /\ Len(<<y>>) = 1 /\ Len(<<x>>) = 1
        /\ <<y>>[1] = y /\ <<x>>[1] = x
    OBVIOUS
  <2>4. PICK p : p = <<y>> \o <<x>>
    OBVIOUS
  <2>5. /\ p \in Seq({x, y}) /\ Len(p) = 1 + 1
        /\ \A i \in 1 .. 1 + 1 : p[i] = IF i <= 1 THEN <<y>>[i] ELSE <<x>>[i - 1]
    BY <2>3, <2>4, ConcatProperties
  <2>6. Len(p) = 2 /\ p[1] = y /\ p[2] = x
    BY <2>3, <2>5
  <2>7. p # <<>> /\ p[Len(p)].to = "return"
    BY <1>2, <2>6
  <2>8. \A w \in WritesOf(p) : w.to \in {"handle", "return"}
    BY <1>2, <2>2, <2>6 DEF WritesOf
  <2>9. Return \in Seq(WritesOf(Return))
    BY KindsOfWrites
  <2>10. Tail(p) = Return
    BY <1>2, <2>4, <2>9, Peel
  <2> QED
    BY <1>2, <2>2, <2>4, <2>7, <2>8, <2>10
<1>4. PICK p : p = <<x>>
  OBVIOUS
<1>5. p # <<>> /\ Len(p) = 1 /\ p[1] = x
  BY <1>4
<1> QED
  BY <1>2, <1>3, <1>4, <1>5

\* A transaction becomes permanent with one write: the header of its last
\* frame, or the handle behind it.
LEMMA WritingKept ==
    ASSUME NEW e, NEW cur, NEW r, NEW lo, NEW f, NEW mark, NEW sp, NEW fm,
           InOrder(journal, master, e, cur, r, f, mark, sp, fm), session_id = master.session,
           Writing(e, cur, r, lo, f, mark, sp, fm), mode = "up",
           CommitInv, CommitInv', UpToDate, UpToDate', FlushedThere, DiskWrite
    PROVE  \/ Recovered' = Recovered
           \/ Recovered' = view' /\ io' # <<>> /\ io'[Len(io')].to = "return"
<1>1. /\ CrashInv /\ DiskInv /\ io # <<>> /\ io' = Tail(io) /\ Head(io) \in Pending
      /\ UNCHANGED memoryVars /\ DiskTyped /\ r \in Nat /\ f \in r .. e /\ e \in Nat
  BY DiskWriteIs DEF CommitInv, DiskInv, InOrder
<1>2. /\ restoring_start_record = 0 /\ mark = "flushed" /\ sp = session_current_freespace
      /\ r < f => JournalFound(handle) \/ io = ToHandle(TRUE) \o Return
      /\ Filling(e, cur, r, lo, f, fm) \/ Flushing(e, cur, r, lo, f, fm)
  BY DEF Writing
<1>3. /\ mode' = "up" /\ openMap' = openMap /\ flushedMap' = flushedMap /\ restoring_start_record' = 0
  BY <1>1, <1>2 DEF memoryVars, mapVars, ringVars, restoringVars
<1>4. /\ volume' = volume
      /\ Head(io).to # "handle" => handle' = handle
  BY <1>1, <1>2 DEF UpToDate, NoVolumeWrites, DiskWrite
<1>5. CASE io' = Return
  <2>1. CommitGuarantee'
    BY ReturnIsKeptNext
  <2>2. Head(Return).to = "return" /\ Return # <<>>
    BY DEF Return
  <2>3. ~Done' /\ Head(io').to = "return"
    BY <1>5, <2>2 DEF Done
  <2>4. Recovered' = view'
    BY <2>1, <2>3 DEF CommitGuarantee
  <2> QED
    BY <1>5, <2>4, HandleWrites
<1>6. ASSUME io' # Return
      PROVE  r < f => JournalFound(handle) /\ JournalFound(handle')
  <2>1. io # ToHandle(TRUE) \o Return
    BY <1>1, <1>6, HandleWrites
  <2>2. r = f \/ Head(io).to # "handle"
    BY <1>1, <2>1, HandleLast
  <2>3. r < f => r # f
    BY <1>1
  <2> QED
    BY <1>2, <1>4, <2>1, <2>2, <2>3, Zenon
<1>7. ASSUME NEW v \in Volume, fm[v] # 0 PROVE ValueAt(journal', fm[v]) = ValueAt(journal, fm[v])
  <2>1. CASE Filling(e, cur, r, lo, f, fm)
    <3>1. fm = flushedMap
      BY <2>1 DEF Filling, Committed
    <3>2. journal'[flushedMap[v]] = journal[flushedMap[v]]
      BY <1>1, <1>7, <3>1, FlushedKept DEF FlushedThere
    <3> QED
      BY <3>1, <3>2 DEF ValueAt
  <2>2. CASE Flushing(e, cur, r, lo, f, fm)
    <3>1. /\ Closing(Head(io), flushed_terminal_record, e, cur, "flushed")
          /\ fm[v] # flushed_terminal_record
      BY <2>2 DEF Flushing
    <3>2. Head(io).to = "journal" /\ Head(io).at = flushed_terminal_record
      BY <3>1 DEF Closing, JournalWrite
    <3>3. PICK w : w = Head(io)
      OBVIOUS
    <3>4. journal' = [journal EXCEPT ![w.at] = w.val]
      BY <3>2, <3>3 DEF DiskWrite
    <3>5. journal'[fm[v]] = journal[fm[v]]
      BY <3>1, <3>2, <3>3, <3>4
    <3> QED
      BY <3>5 DEF ValueAt
  <2> QED
    BY <1>2, <2>1, <2>2
<1>8. Recovered = [v \in Volume |-> IF Restorable(r, f, mark, sp, handle, volume) /\ fm[v] # 0
                                    THEN ValueAt(journal, fm[v]) ELSE volume[v]]
  BY RecoveredInOrder DEF Recovered
<1>9. ASSUME io' # Return, NEW e2, NEW cur2, InOrder(journal, master, e2, cur2, r, f, mark, sp, fm)'
      PROVE  Recovered' = Recovered
  <2>1. Recovered' = [v \in Volume |-> IF Restorable(r, f, mark, sp, handle', volume') /\ fm[v] # 0
                                       THEN ValueAt(journal', fm[v]) ELSE volume'[v]]
    BY <1>9, RecoveredNext
  <2>2. Restorable(r, f, mark, sp, handle', volume') <=> Restorable(r, f, mark, sp, handle, volume)
    BY <1>4, <1>6, <1>9 DEF Restorable
  <2> QED
    BY <1>4, <1>7, <1>8, <2>1, <2>2
<1>10. ASSUME io' = ToHandle(TRUE) \o Return, Flushing(e, cur, r, lo, f, fm), r < e,
              NEW gm, gm = flushedMap,
              InOrder(journal, master, e, cur, r, e, mark, sp, gm)',
              Writing(e, cur, r, lo, e, mark, sp, gm)'
       PROVE  Recovered' = Recovered \/ Recovered' = view'
  <2>1. CASE JournalFound(handle')
    <3>1. openMap' = NoMap /\ gm = flushedMap'
      BY <1>3, <1>10 DEF Flushing
    <3>2. \A w \in Pending' : w.to \in {"handle", "return"}
      BY <1>10, HandleWrites DEF Pending
    <3>3. Persisted'
      BY <1>2, <1>3, <1>10, <2>1, <3>1, <3>2 DEF Persisted
    <3> QED
      BY <3>3, PersistedKeptNext
  <2>2. CASE ~JournalFound(handle')
    <3>1. io' # Return
      <4>1. PICK p, q : p = ToHandle(TRUE) \o Return /\ q = Return
        OBVIOUS
      <4>2. Tail(p) = q /\ Len(q) = 1
        BY <4>1, HandleWrites DEF Return
      <4>3. Tail(q) = <<>> /\ q # <<>>
        BY <4>1 DEF Return
      <4> QED
        BY <1>10, <4>1, <4>2, <4>3
    <3>2. Head(io).to = "journal"
      BY <1>10 DEF Flushing, Closing, JournalWrite
    <3>3. ~JournalFound(handle) /\ ~(r < f)
      BY <1>4, <1>6, <2>2, <3>1, <3>2
    <3>4. Recovered' = [v \in Volume |-> IF Restorable(r, e, mark, sp, handle', volume') /\ gm[v] # 0
                                         THEN ValueAt(journal', gm[v]) ELSE volume'[v]]
      BY <1>10, RecoveredNext
    <3> QED
      BY <1>4, <1>8, <2>2, <3>3, <3>4 DEF Restorable
  <2> QED
    BY <2>1, <2>2
<1>11. PICK gm : gm = flushedMap
  OBVIOUS
<1>12. \/ \E e2, cur2 : InOrder(journal, master, e2, cur2, r, f, mark, sp, fm)'
       \/ /\ InOrder(journal, master, e, cur, r, e, mark, sp, gm)'
          /\ Writing(e, cur, r, lo, e, mark, sp, gm)'
          /\ Flushing(e, cur, r, lo, f, fm) /\ r < e
          /\ io' = Return \/ io' = ToHandle(TRUE) \o Return
  BY <1>1, <1>11, WritingDiskWrite
<1> QED
  BY <1>5, <1>9, <1>10, <1>11, <1>12, HandleWrites

LEMMA RestoringKept ==
    CommitInv /\ UpToDate /\ mode = "up" /\ restoring_start_record # 0 => Recovered = view
<1>1. SUFFICES ASSUME CommitInv, UpToDate, mode = "up", restoring_start_record # 0 PROVE Recovered = view
  OBVIOUS
<1>2. PICK e, cur, r, lo, f, mark, sp, fm :
         /\ InOrder(journal, master, e, cur, r, f, mark, sp, fm)
         /\ Stage(e, cur, r, lo, f, mark, sp, fm)
  BY <1>1 DEF CommitInv, CrashInv
<1>3. Restores(e, cur, r, f, mark, fm)
  BY <1>1, <1>2 DEF Stage, Writing, Beginning, RingInit
<1> QED
  BY <1>1, <1>2, <1>3, RestoreRecovered DEF CommitInv

LEMMA RestoringKeptNext ==
    (CommitInv /\ UpToDate /\ mode = "up" /\ restoring_start_record # 0 => Recovered = view)'
  BY RestoringKept, PTL

\* One disk write changes what a mount would make of the disk at most to what
\* the call that commits has promised.
LEMMA DiskWriteKept ==
    ASSUME CommitInv, CommitInv', UpToDate, UpToDate', FlushedThere, RecoverKept, DiskWrite
    PROVE  \/ Recovered' = Recovered
           \/ Recovered' = view' /\ io' # <<>> /\ io'[Len(io')].to = "return"
<1>1. PICK e, cur, r, lo, f, mark, sp, fm :
         /\ InOrder(journal, master, e, cur, r, f, mark, sp, fm)
         /\ Stage(e, cur, r, lo, f, mark, sp, fm)
  BY DEF CommitInv, CrashInv
<1>2. /\ DiskInv /\ DiskTyped /\ Sessions /\ io # <<>> /\ Head(io) \in Pending /\ UNCHANGED memoryVars
      /\ mode' = mode /\ view' = view /\ restoring_start_record' = restoring_start_record
  BY DiskWriteIs DEF CommitInv, CrashInv, DiskInv, memoryVars, ringVars, restoringVars
<1>3. Recovered = [v \in Volume |-> IF Restorable(r, f, mark, sp, handle, volume) /\ fm[v] # 0
                                    THEN ValueAt(journal, fm[v]) ELSE volume[v]]
  BY <1>1, RecoveredInOrder DEF Recovered
<1>4. CASE mode \in {"down", "start"}
  BY <1>2, <1>4 DEF DiskTyped
<1>5. CASE mode = "recover"
  <2>1. Recovered' = view'
    BY <1>5, RecoverWritten DEF CommitInv
  <2> QED
    BY <1>2, <1>5, <2>1 DEF RecoverKept
<1>6. CASE mode = "remount" /\ r = f
  <2>1. Head(io).to \in {"fat2", "handle"}
    BY <1>2, <1>6 DEF DiskTyped
  <2>2. UNCHANGED <<journal, master>> /\ volume' = volume
    BY <1>2, <2>1, DiskWriteIs DEF DiskWrite
  <2>3. InOrder(journal, master, e, cur, r, f, mark, sp, fm)'
    BY <1>1, <2>2
  <2>4. Recovered' = [v \in Volume |-> IF Restorable(r, f, mark, sp, handle', volume') /\ fm[v] # 0
                                       THEN ValueAt(journal', fm[v]) ELSE volume'[v]]
    BY <2>3, RecoveredNext
  <2>5. ~(r < f)
    BY <1>1, <1>6 DEF InOrder
  <2> QED
    BY <1>3, <2>2, <2>4, <2>5 DEF Restorable
<1>7. CASE /\ mode = "up" /\ session_id = master.session
           /\ Writing(e, cur, r, lo, f, mark, sp, fm)
  BY <1>1, <1>7, WritingKept
<1>8. CASE mode = "up" /\ Restores(e, cur, r, f, mark, fm)
  <2>1. restoring_start_record # 0
    BY <1>8 DEF Restores
  <2>2. Recovered = view
    BY <1>8, <2>1, RestoringKept
  <2>3. Recovered' = view'
    BY <1>2, <1>8, <2>1, RestoringKeptNext
  <2> QED
    BY <1>2, <2>2, <2>3
<1>9. CASE mode = "up" /\ Beginning(r, f, mark, sp)
  <2>1. PICK sp2 : sp2 = session_current_freespace
    OBVIOUS
  <2>2. InOrder(journal, master, 0, FileSize, 0, 0, "flushed", sp2, NoMap)'
    BY <1>1, <1>2, <1>9, <2>1, SessionBegun
  <2>3. Recovered' = [v \in Volume |-> IF Restorable(0, 0, "flushed", sp2, handle', volume') /\ NoMap[v] # 0
                                       THEN ValueAt(journal', NoMap[v]) ELSE volume'[v]]
    BY <2>2, RecoveredNext
  <2>4. ~Restorable(0, 0, "flushed", sp2, handle', volume') /\ ~Restorable(r, f, mark, sp, handle, volume)
    BY <1>9 DEF Restorable, Beginning
  <2>5. Head(io).to = "master"
    BY <1>9 DEF Beginning, MasterWrite
  <2>6. volume' = volume
    BY <2>5 DEF DiskWrite
  <2> QED
    BY <1>3, <2>3, <2>4, <2>6
<1> QED
  BY <1>1, <1>4, <1>5, <1>6, <1>7, <1>8, <1>9 DEF Stage

-----------------------------------------------------------------------------
(* The two invariants it rests on *)

LEMMA StepRecoverKept ==
    ASSUME CommitInv, CommitInv', RecoverKept, [FsNext]_fsVars
    PROVE  RecoverKept'
<1>1. DiskInv /\ DiskInv'
  BY DEF CommitInv
<1>2. CASE DiskWrite
  <2>1. mode' = mode
    BY <1>2, Zenon DEF DiskWrite
  <2> QED
    BY <1>1, <1>2, <2>1, RecoverWritten DEF RecoverKept
<1>3. ASSUME UNCHANGED <<diskVars, view>>, mode \in {"recover", "down"} PROVE RecoverKept'
  <2>1. Recovered = view
    BY <1>1, <1>3 DEF DiskInv, AfterRecovery, RecoverKept
  <2>2. Recovered' = Recovered
    BY <1>3 DEF Recovered, diskVars
  <2> QED
    BY <1>3, <2>1, <2>2 DEF RecoverKept
<1>4. CASE Mount \/ Recover
  <2>1. UNCHANGED <<diskVars, view>> /\ mode \in {"recover", "down"}
    BY <1>4, Zenon DEF Mount, Recover
  <2> QED
    BY <1>3, <2>1
<1>5. CASE Crash \/ Remount \/ BeginSession
  <2>1. mode' \in {"down", "up"}
    BY <1>5, Zenon DEF Crash, Remount, BeginSession
  <2> QED
    BY <2>1 DEF RecoverKept
<1>6. CASE WriteData \/ Create \/ Delete \/ WriteFails \/ Commit \/ StartRestore \/ RestorePass \/ EndRestore
  <2>1. Ready /\ mode' = mode
    <3>1. WriteData \/ Create \/ Delete => Ready /\ mode' = mode
      BY Zenon DEF WriteData, Create, Delete, Write
    <3>2. WriteFails \/ Commit \/ StartRestore \/ RestorePass \/ EndRestore => Ready /\ mode' = mode
      BY Zenon DEF WriteFails, Commit, StartRestore, RestorePass, EndRestore
    <3> QED
      BY <1>6, <3>1, <3>2
  <2> QED
    BY <2>1 DEF RecoverKept, Ready
<1>7. CASE UNCHANGED fsVars
  <2>1. UNCHANGED <<diskVars, view, mode>>
    BY <1>7, Zenon DEF fsVars
  <2>2. Recovered' = Recovered
    BY <2>1 DEF Recovered, diskVars
  <2> QED
    BY <2>1, <2>2 DEF RecoverKept
<1> QED
  BY <1>2, <1>4, <1>5, <1>6, <1>7, Zenon DEF FsNext

LEMMA NoneFlushed ==
    (\A v \in Volume : flushedMap'[v] = 0) => FlushedThere'
  BY DEF FlushedThere

LEMMA StepFlushedThere ==
    ASSUME CommitInv, FlushedThere, [FsNext]_fsVars
    PROVE  FlushedThere'
<1>1. DiskInv /\ CrashInv
  BY DEF CommitInv
<1>2. ASSUME UNCHANGED <<journal, flushedMap>>, mode' = "up" => mode = "up" PROVE FlushedThere'
  BY <1>2 DEF FlushedThere
<1>3. ASSUME mode' # "up" PROVE FlushedThere'
  BY <1>3 DEF FlushedThere
<1>4. ASSUME flushedMap' = NoMap PROVE FlushedThere'
  BY <1>4, NoneFlushed DEF NoMap
<1>5. CASE DiskWrite
  <2>1. UNCHANGED <<mapVars, mode>>
    BY <1>5, Zenon DEF DiskWrite
  <2>2. flushedMap' = flushedMap /\ mode' = mode
    BY <2>1 DEF mapVars
  <2>3. ASSUME mode = "up", NEW v \in Volume, flushedMap[v] # 0
        PROVE  journal'[flushedMap[v]] = journal[flushedMap[v]] /\ journal[flushedMap[v]].type = "data"
    BY <1>1, <1>5, <2>3, FlushedKept DEF FlushedThere
  <2>4. ASSUME mode = "up", NEW v \in Volume, flushedMap[v] # 0
        PROVE  journal'[flushedMap[v]].type = "data"
    BY <2>3, <2>4
  <2> QED
    BY <2>2, <2>4 DEF FlushedThere
<1>6. CASE Crash \/ Remount \/ Mount \/ Recover
  <2>1. mode' # "up"
    <3>1. (Crash \/ Remount => mode' = "down") /\ (Mount => mode' \in {"start", "recover"})
      BY Zenon DEF Crash, Remount, Mount
    <3>2. Recover => mode' \in {"recover", "remount"}
      BY Zenon DEF Recover
    <3> QED
      BY <1>6, <3>1, <3>2
  <2> QED
    BY <1>3, <2>1
<1>7. CASE BeginSession \/ StartRestore
  <2>1. flushedMap' = NoMap
    BY <1>7, Zenon DEF BeginSession, InMemory, StartRestore
  <2> QED
    BY <1>4, <2>1
<1>8. CASE WriteData \/ Create \/ Delete
  <2>1. \E v, c : Write(v, c)
    BY <1>8, Zenon DEF WriteData, Create, Delete
  <2>2. UNCHANGED <<diskVars, mode, flushedMap>>
    BY <2>1, Zenon DEF Write, Rewrite, WriteInFrame, WriteInNewFrame, mapVars
  <2> QED
    BY <1>2, <2>2 DEF diskVars
<1>9. CASE WriteFails \/ RestorePass
  <2>1. UNCHANGED <<diskVars, mode, mapVars>>
    BY <1>9, Zenon DEF WriteFails, RestorePass
  <2> QED
    BY <1>2, <2>1 DEF diskVars, mapVars
<1>10. CASE EndRestore
  <2>1. UNCHANGED <<diskVars, mode, flushedMap>>
    BY <1>10, Zenon DEF EndRestore
  <2> QED
    BY <1>2, <2>1 DEF diskVars
<1>11. CASE UNCHANGED fsVars
  <2>1. UNCHANGED <<diskVars, mode, mapVars>>
    BY <1>11, Zenon DEF fsVars
  <2> QED
    BY <1>2, <2>1 DEF diskVars, mapVars
<1>12. CASE Commit
  <2>1. /\ Ready /\ UNCHANGED <<diskVars, mode>>
        /\ flushedMap' = Overlay(openMap, flushedMap) \/ flushedMap' = flushedMap
    BY <1>12, Zenon DEF Commit
  <2>2. mode = "up" /\ UNCHANGED <<journal, mode>>
    BY <2>1 DEF Ready, diskVars
  <2>3. CASE flushedMap' = flushedMap
    BY <1>2, <2>2, <2>3
  <2>4. CASE flushedMap' = Overlay(openMap, flushedMap)
    <3>1. ASSUME NEW v \in Volume, flushedMap'[v] # 0 PROVE journal[flushedMap'[v]].type = "data"
      <4>1. flushedMap'[v] = Shown(v)
        BY <2>4, <3>1 DEF Overlay, Shown
      <4> QED
        BY <1>1, <2>1, <3>1, <4>1, ShownThere
    <3> QED
      BY <2>2, <3>1 DEF FlushedThere
  <2> QED
    BY <2>1, <2>3, <2>4
<1> QED
  BY <1>5, <1>6, <1>7, <1>8, <1>9, <1>10, <1>11, <1>12, Zenon DEF FsNext

-----------------------------------------------------------------------------
(* The contents *)

Typed == \A v \in Volume : view[v] \in Contents(v) /\ Recovered[v] \in Contents(v)

LEMMA WriteContents ==
    ASSUME \A v \in Volume : view[v] \in Contents(v), WriteData \/ Create \/ Delete
    PROVE  \E v \in Volume : \E c \in Contents(v) : Write(v, c)
<1>1. InitFree \in Nat /\ "fat" \notin Data
  BY FsAssumption
<1>2. CASE WriteData
  <2>1. PICK v \in Data : Write(v, 1 - view[v])
    BY <1>2, Zenon DEF WriteData
  <2>2. v \in Volume /\ Contents(v) = 0 .. 1 /\ view[v] \in 0 .. 1
    BY <1>1 DEF Volume, Contents
  <2>3. 1 - view[v] \in Contents(v)
    BY <2>2
  <2> QED
    BY <2>1, <2>2, <2>3
<1>3. "fat" \in Volume /\ Contents("fat") = 0 .. InitFree + 2 /\ view["fat"] \in 0 .. InitFree + 2
  BY DEF Volume, Contents
<1>4. CASE Create
  <2>1. view["fat"] > 0 /\ Write("fat", view["fat"] - 1)
    BY <1>4, Zenon DEF Create
  <2>2. view["fat"] - 1 \in Contents("fat")
    BY <1>1, <1>3, <2>1
  <2> QED
    BY <1>3, <2>1, <2>2
<1>5. CASE Delete
  <2>1. view["fat"] < InitFree + 2 /\ Write("fat", view["fat"] + 1)
    BY <1>5, Zenon DEF Delete
  <2>2. view["fat"] + 1 \in Contents("fat")
    BY <1>1, <1>3, <2>1
  <2> QED
    BY <1>3, <2>1, <2>2
<1> QED
  BY <1>2, <1>4, <1>5

RecoveredMap == Recovered = [v \in Volume |-> Recovered[v]]

LEMMA RecoveredIsMap == ASSUME CrashInv PROVE RecoveredMap
<1>1. PICK e, cur, r, f, mark, sp, fm : InOrder(journal, master, e, cur, r, f, mark, sp, fm)
  BY DEF CrashInv
<1>2. Recovered = [v \in Volume |-> IF Restorable(r, f, mark, sp, handle, volume) /\ fm[v] # 0
                                    THEN ValueAt(journal, fm[v]) ELSE volume[v]]
  BY <1>1, RecoveredInOrder DEF Recovered
<1> QED
  BY <1>2 DEF RecoveredMap

-----------------------------------------------------------------------------
(* Each step is one of FsTxn's, or none *)

Committing == io # <<>> /\ io[Len(io)].to = "return"

LEMMA NotCommitting == DiskTyped /\ (\A w \in Pending : w.to # "return") => ~Committing
<1>1. SUFFICES ASSUME DiskTyped, \A w \in Pending : w.to # "return", io # <<>>
               PROVE  io[Len(io)].to # "return"
  BY DEF Committing
<1>2. io \in Seq(Pending)
  BY <1>1 DEF DiskTyped
<1>3. Len(io) \in 1 .. Len(io)
  BY <1>1, <1>2, LenProperties, EmptySeq
<1>4. io[Len(io)] \in Pending
  BY <1>3 DEF Pending, WritesOf
<1> QED
  BY <1>1, <1>4

LEMMA NotCommittingNext == (DiskTyped /\ (\A w \in Pending : w.to # "return") => ~Committing)'
  BY NotCommitting, PTL

LEMMA LastStays ==
    ASSUME DiskTyped, io # <<>>, io' = Tail(io)
    PROVE  /\ io' # <<>> => (Committing' <=> Committing)
           /\ io' = <<>> => ~Committing' /\ (Committing <=> Head(io).to = "return")
<1>1. PICK s : s = io
  OBVIOUS
<1>2. s \in Seq(Pending) /\ s # <<>> /\ io' = Tail(s)
  BY <1>1 DEF DiskTyped
<1>3. PICK n \in Nat : n = Len(s)
  BY <1>2, LenProperties
<1>4. n >= 1
  BY <1>2, <1>3, EmptySeq
<1>5. Len(Tail(s)) = n - 1 /\ \A i \in 1 .. n - 1 : Tail(s)[i] = s[i + 1]
  BY <1>2, <1>3, <1>4, HeadTailProperties
<1>6. CASE n = 1
  <2>1. Len(Tail(s)) = 0 /\ Tail(s) \in Seq(Pending) /\ Head(s) = s[1]
    BY <1>2, <1>5, <1>6, HeadTailProperties
  <2>2. Tail(s) = <<>>
    BY <2>1, EmptySeq
  <2> QED
    BY <1>1, <1>2, <1>3, <1>6, <2>1, <2>2 DEF Committing
<1>7. CASE n # 1
  <2>1. n - 1 \in 1 .. n - 1 /\ (n - 1) + 1 = n
    BY <1>4, <1>7
  <2>2. Tail(s)[n - 1] = s[n] /\ Tail(s) # <<>>
    <3>1. Tail(s)[n - 1] = s[n]
      BY <1>5, <2>1
    <3>2. PICK t : t = Tail(s)
      OBVIOUS
    <3>3. Len(t) = n - 1 /\ n - 1 # 0
      BY <1>4, <1>5, <1>7, <3>2
    <3>4. t # <<>>
      BY <3>3
    <3> QED
      BY <3>1, <3>2, <3>4
  <2>3. io'[Len(io')] = io[Len(io)]
    BY <1>1, <1>2, <1>3, <1>5, <2>2
  <2> QED
    BY <1>1, <1>2, <2>2, <2>3 DEF Committing
<1> QED
  BY <1>6, <1>7

\* The passes of a restore and a mount return to nobody.
LEMMA NoReturn ==
    ASSUME CommitInv, DiskTyped', Recover \/ RestorePass \/ EndRestore \/ BeginSession
    PROVE  ~Committing /\ ~Committing'
<1>1. DiskInv /\ CrashInv /\ MapsInv
  BY DEF CommitInv
<1>2. CASE Recover
  <2>1. Done /\ mode' \in {"recover", "remount"}
    BY <1>2, Zenon DEF Recover
  <2>2. \A w \in Pending' : w.to # "return"
    BY <2>1 DEF DiskTyped
  <2> QED
    BY <2>1, <2>2, NotCommittingNext DEF Done, Committing
<1>3. CASE BeginSession
  <2>1. Done
    BY <1>3, Zenon DEF BeginSession
  <2>2. \A w \in Pending' : w.to # "return"
    BY <1>3, BeginGoes
  <2> QED
    BY <2>1, <2>2, NotCommittingNext DEF Done, Committing
<1>4. CASE RestorePass
  <2>1. /\ Ready
        /\ \/ io' = Mark(restoring_terminal_record, "restoring")
           \/ \E v, c : io' = CopyOut(v, c)
           \/ io' = Mark(restoring_terminal_record, "restored")
    BY <1>4, Zenon DEF RestorePass
  <2>2. Done /\ mode = "up"
    BY <2>1 DEF Ready
  <2>3. PICK s : s = io'
    OBVIOUS
  <2>4. \A b, x : WritesOf(ToJournal(b, x)) = {[to |-> "journal", at |-> b, val |-> x]}
    BY KindsOfWrites, Zenon
  <2>5. ASSUME NEW type, io' = Mark(restoring_terminal_record, type) PROVE \A w \in Pending' : w.to # "return"
    <3>1. PICK b, x : b = restoring_terminal_record /\ x = [journal[b] EXCEPT !.type = type]
      OBVIOUS
    <3>2. PICK w : w = [to |-> "journal", at |-> b, val |-> x]
      OBVIOUS
    <3>3. Pending' = {w}
      BY <2>4, <2>5, <3>1, <3>2, Zenon DEF Mark, Pending
    <3> QED
      BY <3>2, <3>3
  <2>6. ASSUME NEW v, NEW c, io' = CopyOut(v, c) PROVE \A w \in Pending' : w.to # "return"
    <3>1. \A w \in WritesOf(s) : w = [to |-> "volume", at |-> v, val |-> c] \/ w.to = "fat2"
      BY <2>3, <2>6, CopyOutWrites
    <3> QED
      BY <2>3, <3>1 DEF Pending
  <2>7. \A w \in Pending' : w.to # "return"
    BY <2>1, <2>5, <2>6
  <2> QED
    BY <2>2, <2>7, NotCommittingNext DEF Done, Committing
<1>5. CASE EndRestore
  <2>1. Ready /\ (io' = <<>> \/ io' = ClearHandle)
    BY <1>5, Zenon DEF EndRestore
  <2>2. Done
    BY <2>1 DEF Ready
  <2>3. \A w \in WritesOf(ClearHandle) : w.to \in {"fat2", "handle"}
    BY ClearHandleWrites
  <2>4. \A w \in Pending' : w.to # "return"
    <3>1. CASE io' = <<>>
      BY <3>1, NoWrites DEF Pending
    <3>2. CASE io' = ClearHandle
      <4>1. Pending' = WritesOf(ClearHandle)
        BY <3>2, Zenon DEF Pending
      <4> QED
        BY <2>3, <4>1
    <3> QED
      BY <2>1, <3>1, <3>2
  <2> QED
    BY <2>2, <2>4, NotCommittingNext DEF Done, Committing
<1> QED
  BY <1>2, <1>3, <1>4, <1>5

PromiseInv == CommitInv /\ Numbers /\ UpToDate /\ RecoverKept /\ FlushedThere /\ Typed

LEMMA TxnContents ==
    ASSUME CommitInv, Typed
    PROVE  /\ view \in [Volume -> 0 .. InitFree + 2]
           /\ Recovered \in [Volume -> 0 .. InitFree + 2]
<1>1. view = [v \in Volume |-> view[v]] /\ RecoveredMap
  BY RecoveredIsMap DEF CommitInv, DiskInv, DiskTyped
<1>2. \A v \in Volume : Contents(v) \subseteq 0 .. InitFree + 2
  BY FsAssumption DEF Contents
<1> QED
  BY <1>1, <1>2 DEF RecoveredMap, Typed

\* A write changes what its user sees and nothing that counts after a crash.
LEMMA WriteIsTxn ==
    ASSUME PromiseInv, CommitInv', WriteData \/ Create \/ Delete
    PROVE  /\ Txn!Write
           /\ Typed'
<1>1. PICK v \in Volume : \E x \in Contents(v) : Write(v, x)
  BY WriteContents DEF PromiseInv, Typed
<1>2. PICK c \in Contents(v) : Write(v, c)
  BY <1>1
<1>3. Done /\ view' = [view EXCEPT ![v] = c] /\ UNCHANGED diskVars
  BY <1>2, Zenon DEF Write, Ready
<1>4. Recovered' = Recovered
  BY <1>3 DEF Recovered, diskVars
<1>5. c \in 0 .. InitFree + 2
  BY <1>2, FsAssumption DEF Contents
<1>6. \A w \in Pending' : w.to \in {"journal", "master"}
  BY <1>2, WriteGoes DEF PromiseInv, CommitInv, MapsInv
<1>7. ~Committing /\ ~Committing'
  BY <1>3, <1>6, NotCommittingNext DEF Committing, Done, CommitInv, DiskInv
<1>8. view = [u \in Volume |-> view[u]]
  BY DEF PromiseInv, CommitInv, DiskInv, DiskTyped
<1>9. Typed'
  BY <1>2, <1>3, <1>4, <1>8 DEF Typed, PromiseInv
<1> QED
  BY <1>3, <1>4, <1>5, <1>7, <1>9 DEF Txn!Write, Committing

\* A disk write makes the transaction permanent, or returns to the caller, or
\* is none of its business.
LEMMA DiskWriteIsTxn ==
    ASSUME PromiseInv, CommitInv', UpToDate', DiskWrite
    PROVE  /\ Txn!Persist \/ Txn!CommitReturn \/ UNCHANGED Txn!txnVars
           /\ Typed'
<1>1. /\ DiskInv /\ io # <<>> /\ io' = Tail(io) /\ UNCHANGED memoryVars /\ view' = view
  BY DiskWriteIs DEF PromiseInv, CommitInv, DiskInv, memoryVars
<1>2. /\ io' # <<>> => (Committing' <=> Committing)
      /\ io' = <<>> => ~Committing' /\ (Committing <=> Head(io).to = "return")
  BY <1>1, LastStays DEF DiskInv
<1>3. \/ Recovered' = Recovered
      \/ Recovered' = view' /\ io' # <<>> /\ io'[Len(io')].to = "return"
  BY DiskWriteKept DEF PromiseInv
<1>4. Typed'
  BY <1>1, <1>3 DEF Typed, PromiseInv
<1>5. CASE Recovered' = view' /\ io' # <<>> /\ io'[Len(io')].to = "return"
  <2>1. Committing /\ Committing'
    BY <1>2, <1>5 DEF Committing
  <2> QED
    BY <1>1, <1>4, <1>5, <2>1 DEF Txn!Persist, Committing
<1>6. CASE Recovered' = Recovered /\ (Committing' <=> Committing)
  BY <1>1, <1>4, <1>6 DEF Txn!txnVars, Committing
<1>7. CASE Recovered' = Recovered /\ io' = <<>> /\ Committing
  <2>1. ~Done /\ Head(io).to = "return" /\ ~Committing'
    BY <1>1, <1>2, <1>7 DEF Done
  <2>2. Recovered = view
    BY <2>1, ReturnIsKept DEF PromiseInv, CommitGuarantee
  <2> QED
    BY <1>1, <1>4, <1>7, <2>1, <2>2 DEF Txn!CommitReturn, Committing
<1> QED
  BY <1>2, <1>3, <1>5, <1>6, <1>7

LEMMA StepIsTxn ==
    ASSUME PromiseInv, CommitInv', UpToDate', [FsNext]_fsVars, "full" \notin Allowed
    PROVE  [Txn!TxnNext]_(Txn!txnVars) /\ Typed'
<1>1. DiskTyped' /\ CommitInv /\ DiskInv
  BY DEF PromiseInv, CommitInv, DiskInv
<1>2. ASSUME UNCHANGED <<diskVars, view>>, Committing' <=> Committing
      PROVE  UNCHANGED Txn!txnVars /\ Typed'
  <2>1. Recovered' = Recovered
    BY <1>2 DEF Recovered, diskVars
  <2> QED
    BY <1>2, <2>1 DEF Txn!txnVars, Typed, PromiseInv, Committing
<1>3. CASE DiskWrite
  BY <1>3, DiskWriteIsTxn DEF Txn!TxnNext
<1>4. CASE WriteData \/ Create \/ Delete
  BY <1>4, WriteIsTxn DEF Txn!TxnNext
<1>5. CASE WriteFails
  BY <1>5, Zenon DEF WriteFails
<1>6. CASE Recover \/ RestorePass \/ EndRestore \/ BeginSession
  <2>1. UNCHANGED <<diskVars, view>>
    BY <1>6, Zenon DEF Recover, RestorePass, EndRestore, BeginSession
  <2>2. ~Committing /\ ~Committing'
    BY <1>1, <1>6, NoReturn
  <2> QED
    BY <1>2, <2>1, <2>2
<1>7. CASE Mount \/ Remount \/ StartRestore \/ UNCHANGED fsVars
  <2>1. UNCHANGED <<diskVars, view, io>>
    BY <1>7, Zenon DEF Mount, Remount, StartRestore, fsVars
  <2> QED
    BY <1>2, <2>1 DEF Committing
<1>8. CASE Crash
  <2>1. view' = Recovered /\ io' = <<>> /\ UNCHANGED diskVars
    BY <1>8, Zenon DEF Crash
  <2>2. Recovered' = Recovered
    BY <2>1 DEF Recovered, diskVars
  <2>3. Txn!PowerFail
    BY <2>1, <2>2 DEF Txn!PowerFail
  <2>4. Typed'
    BY <2>1, <2>2 DEF Typed, PromiseInv
  <2> QED
    BY <2>3, <2>4 DEF Txn!TxnNext
<1>9. CASE Commit
  <2>1. UNCHANGED <<diskVars, view>> /\ Ready
    BY <1>9, Zenon DEF Commit
  <2>2. Recovered' = Recovered
    BY <2>1 DEF Recovered, diskVars
  <2>3. ~Committing /\ Committing'
    BY <1>9, <2>1, CommitGoes DEF Committing, Ready, Done
  <2>4. Txn!CommitCall
    BY <2>1, <2>2, <2>3 DEF Txn!CommitCall, Committing
  <2>5. Typed'
    BY <2>1, <2>2 DEF Typed, PromiseInv
  <2> QED
    BY <2>4, <2>5 DEF Txn!TxnNext
<1> QED
  BY <1>3, <1>4, <1>5, <1>6, <1>7, <1>8, <1>9, Zenon DEF FsNext

LEMMA InitPromise == FsInit => PromiseInv /\ Txn!TxnInit
<1>1. SUFFICES ASSUME FsInit PROVE PromiseInv /\ Txn!TxnInit
  OBVIOUS
<1>2. CommitInv /\ Numbers /\ UpToDate
  BY <1>1, CommitInit, InitNumbers, InitUpToDate
<1>3. mode = "down" /\ io = <<>> /\ view = volume /\ volume = [v \in Volume |-> IF v = "fat" THEN InitFree ELSE 0]
  BY <1>1 DEF FsInit
<1>4. Recovered = view
  BY <1>2, <1>3 DEF CommitInv, DiskInv, AfterRecovery
<1>5. RecoverKept /\ FlushedThere
  BY <1>3 DEF RecoverKept, FlushedThere
<1>6. Typed
  BY <1>3, <1>4, FsAssumption DEF Typed, Contents
<1>7. view \in [Volume -> 0 .. InitFree + 2]
  BY <1>2, <1>6, TxnContents
<1> QED
  BY <1>2, <1>3, <1>4, <1>5, <1>6, <1>7 DEF PromiseInv, Txn!TxnInit

\* Failsafe keeps what it promises (FsTxn): every disk write, restore pass and
\* crash either leaves the volume that a mount would make of the disk as it
\* is, or is the one instant in which a whole transaction becomes permanent,
\* which comes before its commit returns (fs_flush_current_session,
\* fs_restore_continue, fs_failsafe_autorestore).
THEOREM CommitsAreAtomic ==
    ASSUME AsyncRestore = FALSE, Allowed \subseteq {"create"}
    PROVE  FsSpec => CommitsAtomically
<1>1. "full" \notin Allowed
  OBVIOUS
<1>2. ASSUME PromiseInv, [FsNext]_fsVars
      PROVE  PromiseInv' /\ [Txn!TxnNext]_(Txn!txnVars)
  <2>1. CommitInv /\ Numbers /\ UpToDate /\ RecoverKept /\ FlushedThere /\ Typed
    BY <1>2 DEF PromiseInv
  <2>2. CommitInv'
    BY <1>1, <1>2, <2>1, CommitStep
  <2>3. RingInv'
    BY <2>2 DEF CommitInv, MapsInv
  <2>4. Numbers' /\ UpToDate'
    BY <1>1, <1>2, <2>1, <2>3, StepNumbers, StepUpToDate
  <2>5. RecoverKept' /\ FlushedThere'
    BY <1>2, <2>1, <2>2, StepRecoverKept, StepFlushedThere
  <2>6. Typed' /\ [Txn!TxnNext]_(Txn!txnVars)
    BY <1>1, <1>2, <2>2, <2>4, StepIsTxn
  <2> QED
    BY <2>2, <2>4, <2>5, <2>6 DEF PromiseInv
<1> QED
  BY <1>2, InitPromise, PTL DEF FsSpec, CommitsAtomically, Txn!TxnSpec
=============================================================================
