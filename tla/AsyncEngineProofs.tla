------------------------- MODULE AsyncEngineProofs -------------------------
(***************************************************************************)
(* Theorems about the asynchronous engine, for any files, policy, faults   *)
(* and number of passes, as long as a drive is not closed while files are  *)
(* queued or a stage is in progress.                                       *)
(***************************************************************************)
EXTENDS AsyncEngine, SequenceTheorems, TLAPS

-----------------------------------------------------------------------------
(* Sequences *)

\* Taking a file out of the queue (_set_asy_operating_flags) leaves the others, each once.
LEMMA RemovedFirst ==
  ASSUME NEW S, NEW s \in Seq(S), IsInjective(s), NEW i \in 1 .. Len(s)
  PROVE  /\ RemoveFirst(s, s[i]) \in Seq(S)
         /\ IsInjective(RemoveFirst(s, s[i]))
         /\ ToSet(RemoveFirst(s, s[i])) = ToSet(s) \ {s[i]}
<1> DEFINE t == RemoveFirst(s, s[i])
<1>1. SelectInSeq(s, LAMBDA v : v = s[i]) = i
  <2>1. {k \in 1 .. Len(s) : s[k] = s[i]} = {i}
    BY DEF IsInjective
  <2>2. Min({i}) = i
    BY DEF Min
  <2> QED
    BY <2>1, <2>2 DEF SelectInSeq
<1>2. t = SubSeq(s, 1, i - 1) \o SubSeq(s, i + 1, Len(s))
  BY <1>1 DEF RemoveFirst, RemoveAt
<1>3. /\ t \in Seq(S) /\ Len(t) = Len(s) - 1
      /\ \A k \in 1 .. Len(t) : t[k] = IF k < i THEN s[k] ELSE s[k + 1]
  <2> DEFINE before == SubSeq(s, 1, i - 1)
             after == SubSeq(s, i + 1, Len(s))
  <2>1. before \in Seq(S) /\ Len(before) = i - 1 /\ \A k \in 1 .. i - 1 : before[k] = s[k]
    OBVIOUS
  <2>2. after \in Seq(S) /\ Len(after) = Len(s) - i /\ \A k \in 1 .. Len(s) - i : after[k] = s[i + k]
    OBVIOUS
  <2>3. t = before \o after
    BY <1>2
  <2> HIDE DEF before, after, t
  <2>4. t \in Seq(S) /\ Len(t) = Len(s) - 1
    BY <2>1, <2>2, <2>3
  <2>5. ASSUME NEW k \in 1 .. Len(t) PROVE t[k] = IF k < i THEN s[k] ELSE s[k + 1]
    <3>1. t[k] = IF k <= i - 1 THEN before[k] ELSE after[k - (i - 1)]
      BY <2>1, <2>2, <2>3, <2>4
    <3> QED BY <2>1, <2>2, <2>4, <3>1
  <2> QED BY <2>4, <2>5
<1>4. IsInjective(t)
  BY <1>3 DEF IsInjective
<1>5. ToSet(t) = ToSet(s) \ {s[i]}
  <2>1. ASSUME NEW x \in ToSet(t) PROVE x \in ToSet(s) /\ x # s[i]
    BY <2>1, <1>3 DEF ToSet, IsInjective
  <2>2. ASSUME NEW k \in 1 .. Len(s), k # i PROVE s[k] \in ToSet(t)
    <3>1. CASE k < i
      BY <3>1, <1>3 DEF ToSet
    <3>2. CASE k > i
      <4>1. k - 1 \in 1 .. Len(t) /\ t[k - 1] = s[k]
        BY <3>2, <1>3
      <4> QED BY <4>1, <1>3 DEF ToSet
    <3> QED BY <3>1, <3>2, <2>2
  <2> QED BY <2>1, <2>2 DEF ToSet
<1> QED BY <1>3, <1>4, <1>5

-----------------------------------------------------------------------------
(* Stages and targets *)

LEMMA TargetsAre ==
  Targets = {"Files", "FatFlush", "JournalFlush", "Restore", "DoneFiles", "DoneFatFlush",
             "DoneJournalFlush", "DoneRestore", "DoneMount", "Idle"}
<1>1. ToSet(Stages) = {"Files", "FatFlush", "JournalFlush", "Restore"}
  BY DEF ToSet, Stages
<1> QED BY <1>1 DEF Targets, Done

LEMMA LeastStage ==
  ASSUME NEW I \in SUBSET (1 .. 4), I # {}
  PROVE  Min(I) \in I /\ \A i \in I : Min(I) <= i
<1>1. \E i \in I : \A j \in I : i <= j
  <2>1. CASE 1 \in I BY <2>1
  <2>2. CASE 1 \notin I /\ 2 \in I BY <2>2
  <2>3. CASE {1, 2} \cap I = {} /\ 3 \in I BY <2>3
  <2>4. CASE {1, 2, 3} \cap I = {}
    <3>1. \A i \in I : i = 4
      BY <2>4
    <3>2. 4 \in I
      BY <3>1
    <3> QED BY <3>1, <3>2
  <2> QED BY <2>1, <2>2, <2>3, <2>4
<1> QED BY <1>1 DEF Min

\* _pc_async_transition: the first stage that has work.
LEMMA NextStageIs ==
  /\ NextStage \in 0 .. 4
  /\ NextStage = 0 => \A i \in 1 .. 4 : ~Pending(Stages[i])
  /\ NextStage # 0 => Pending(Stages[NextStage]) /\ \A i \in 1 .. NextStage - 1 : ~Pending(Stages[i])
<1> DEFINE I == {i \in 1 .. Len(Stages) : Pending(Stages[i])}
<1>1. I = {i \in 1 .. 4 : Pending(Stages[i])}
  BY DEF Stages
<1>2. NextStage = IF I # {} THEN Min(I) ELSE 0
  BY DEF NextStage, SelectInSeq
<1>3. I # {} => Min(I) \in I /\ \A i \in I : Min(I) <= i
  BY <1>1, LeastStage
<1> HIDE DEF I
<1>4. CASE I = {}
  BY <1>1, <1>2, <1>4
<1>5. CASE I # {}
  <2>1. NextStage \in I /\ \A i \in I : NextStage <= i
    BY <1>2, <1>3, <1>5
  <2> QED BY <2>1, <1>1
<1> QED BY <1>4, <1>5

LEMMA TargetStageIs ==
  /\ call.target = "DoneFiles" => TargetStage = 1
  /\ call.target = "DoneJournalFlush" => TargetStage = 3
  /\ call.target = "DoneRestore" => TargetStage = 4
<1> DEFINE I(d) == {i \in 1 .. Len(Stages) : Done[Stages[i]] = d}
<1>1. TargetStage = IF I(call.target) # {} THEN Min(I(call.target)) ELSE 0
  BY DEF TargetStage, SelectInSeq
<1>2. /\ I("DoneFiles") = {1} /\ I("DoneJournalFlush") = {3} /\ I("DoneRestore") = {4}
  BY DEF Done, Stages
<1>3. \A i \in 1 .. 4 : Min({i}) = i
  BY DEF Min
<1> HIDE DEF I
<1>4. CASE call.target = "DoneFiles" BY <1>1, <1>2, <1>3, <1>4
<1>5. CASE call.target = "DoneJournalFlush" BY <1>1, <1>2, <1>3, <1>5
<1>6. CASE call.target = "DoneRestore" BY <1>1, <1>2, <1>3, <1>6
<1> QED BY <1>4, <1>5, <1>6

-----------------------------------------------------------------------------
(* The inductive invariant *)

CommitOps == {"Sync", "Journal"}
CommitTargets == {"DoneFiles", "DiskFlush", "DoneJournalFlush", "DoneRestore"}

States == {"Files", "FatFlush", "JournalFlush", "Restore", "Idle", "Mount"}
CallRecords == [op : CommitOps \cup {"Continue", "none"}, target : Targets \cup {"DiskFlush"},
                steps : {1, Unlimited}, ret : {"none", "Continue", "Complete", "Error"}]
CallTypeOK == call \in CallRecords

EngineTypeOK ==
  /\ queue \in Seq(Files)
  /\ ops \in [Files -> SUBSET Operations]
  /\ owner \in [Files -> {"app", "engine", "none"}]
  /\ dirty \in [Files -> BOOLEAN]
  /\ state \in States
  /\ fat \in Nat /\ restoring \in Nat
  /\ mounted \in BOOLEAN /\ failsafe \in BOOLEAN /\ open \in BOOLEAN /\ flushed \in BOOLEAN
  /\ needs \subseteq {"Flush", "Restore"} /\ once \subseteq Triggers
  /\ CallTypeOK

QueueInv ==
  /\ QueueIsTheAsyncFiles
  /\ ~mounted => \A f \in Files : ops[f] = {}

\* What lies in the journal is announced; a restore takes all flushed frames with it.
JournalInv ==
  /\ open => "Flush" \in needs
  /\ flushed => "Restore" \in needs
  /\ restoring # 0 => ~flushed
  /\ NoFlushBesideRestore

\* Where a commit has got to, what it has left clean; what is still to be done is
\* asked for by a trigger nobody else uses up.
CommitUnderWay ==
  /\ call.target # "DoneFiles" => queue = <<>>
  /\ call.target \in {"DoneJournalFlush", "DoneRestore"} => fat = 0 /\ \A f \in Files : ~dirty[f]
  /\ call.target = "DoneRestore" => ~open
  /\ \/ "JournalFlush" \in once \/ call.target = "DoneRestore"
     \/ call.target = "DoneJournalFlush" /\ state = "JournalFlush"
  /\ call.op = "Sync" => "Restore" \in once \/ (call.target = "DoneRestore" /\ state = "Restore")

CommitInv ==
  call.op \in CommitOps =>
    /\ call.target \in CommitTargets /\ (call.target = "DoneRestore" => call.op = "Sync")
    /\ call.steps = Unlimited /\ state # "Mount"
    /\ call.ret = "none" => CommitUnderWay

EngineInv == EngineTypeOK /\ QueueInv /\ JournalInv /\ CommitInv /\ CommitLeavesNothing

-----------------------------------------------------------------------------
(* The queue *)

\* _set_asy_operating_flags keeps the queue and the operations of the files in step.
LEMMA Requeued ==
  ASSUME EngineTypeOK, QueueInv, NEW f \in Files, NEW new \in SUBSET Operations, SetOps(f, new)
  PROVE  /\ queue' \in Seq(Files) /\ ops' \in [Files -> SUBSET Operations]
         /\ ops' = [ops EXCEPT ![f] = new]
         /\ IsInjective(queue')
         /\ ToSet(queue') = {g \in Files : ops'[g] # {}}
<1>1. /\ queue \in Seq(Files) /\ ops \in [Files -> SUBSET Operations]
      /\ IsInjective(queue) /\ ToSet(queue) = {g \in Files : ops[g] # {}}
  BY DEF EngineTypeOK, QueueInv, QueueIsTheAsyncFiles
<1>2. ops' = [ops EXCEPT ![f] = new] /\ ops' \in [Files -> SUBSET Operations]
  BY <1>1 DEF SetOps
<1>3. CASE ops[f] # {} /\ new = {}
  <2>1. queue' = RemoveFirst(queue, f)
    BY <1>3 DEF SetOps
  <2>2. PICK i \in 1 .. Len(queue) : queue[i] = f
    BY <1>1, <1>3 DEF ToSet
  <2>3. queue' \in Seq(Files) /\ IsInjective(queue') /\ ToSet(queue') = ToSet(queue) \ {f}
    BY <1>1, <2>1, <2>2, RemovedFirst
  <2> QED BY <1>1, <1>2, <1>3, <2>3
<1>4. CASE ops[f] = {} /\ new # {}
  <2>1. queue' = Append(queue, f)
    BY <1>4 DEF SetOps
  <2>2. \A i \in 1 .. Len(queue) : queue[i] # f
    BY <1>1, <1>4 DEF ToSet
  <2>3. /\ queue' \in Seq(Files) /\ Len(queue') = Len(queue) + 1 /\ queue'[Len(queue) + 1] = f
        /\ \A i \in 1 .. Len(queue) : queue'[i] = queue[i]
    BY <1>1, <2>1
  <2>4. IsInjective(queue')
    BY <1>1, <2>2, <2>3 DEF IsInjective
  <2>5. ToSet(queue') = ToSet(queue) \cup {f}
    BY <1>1, <2>3 DEF ToSet
  <2> QED BY <1>1, <1>2, <1>4, <2>3, <2>4, <2>5
<1>5. CASE (ops[f] = {}) = (new = {})
  <2>1. queue' = queue
    BY <1>5 DEF SetOps
  <2> QED BY <1>1, <1>2, <1>5, <2>1
<1> QED BY <1>3, <1>4, <1>5

\* The file a pass works on is one of the application's, with an operation.
LEMMA CurrentIsAFile ==
  ASSUME EngineTypeOK, QueueInv, FilePass
  PROVE  Current \in Files /\ ops[Current] # {} /\ owner[Current] # "none" /\ mounted
<1>1. queue \in Seq(Files) /\ queue # <<>>
  BY DEF EngineTypeOK, FilePass
<1>2. Current \in Files /\ Current = queue[1] /\ 1 \in DOMAIN queue
  BY <1>1 DEF Current
<1>3. Current \in ToSet(queue)
  BY <1>2 DEF ToSet
<1> QED BY <1>2, <1>3 DEF QueueInv, QueueIsTheAsyncFiles

LEMMA QueueStep ==
  ASSUME EngineTypeOK, QueueInv, "close" \notin Faults, [Next]_vars
  PROVE  QueueInv' /\ queue' \in Seq(Files) /\ ops' \in [Files -> SUBSET Operations]
<1> USE DEF QueueInv
<1> DEFINE Kept == UNCHANGED <<queue, ops, owner, mounted>>
           Fine == QueueInv' /\ queue' \in Seq(Files) /\ ops' \in [Files -> SUBSET Operations]
<1>1. ASSUME Kept PROVE Fine
  BY <1>1 DEF QueueIsTheAsyncFiles, EngineTypeOK
<1>2. ASSUME NEW f \in Files, NEW new \in SUBSET Operations, SetOps(f, new), mounted, UNCHANGED mounted,
             \A g \in Files : ops'[g] # {} => owner'[g] # "none"
      PROVE  Fine
  BY <1>2, Requeued DEF QueueIsTheAsyncFiles
<1>3. ASSUME NEW closes \in BOOLEAN, FilePass, Leaves(Current, closes), UNCHANGED mounted PROVE Fine
  <2>1. Current \in Files /\ mounted
    BY <1>3, CurrentIsAFile
  <2>2. SetOps(Current, {}) /\ ops' = [ops EXCEPT ![Current] = {}]
    BY <1>3 DEF Leaves, SetOps
  <2>3. \A g \in Files : ops'[g] # {} => owner'[g] # "none"
    BY <1>3, <2>1, <2>2 DEF Leaves, EngineTypeOK, QueueIsTheAsyncFiles
  <2> QED BY <1>2, <1>3, <2>1, <2>2, <2>3
<1>4. ASSUME NEW new \in SUBSET Operations, FilePass, SetOps(Current, new), UNCHANGED <<owner, mounted>> PROVE Fine
  <2>1. Current \in Files /\ mounted /\ owner[Current] # "none"
    BY <1>4, CurrentIsAFile
  <2>2. \A g \in Files : ops'[g] # {} => owner'[g] # "none"
    BY <1>4, <2>1 DEF SetOps, EngineTypeOK, QueueIsTheAsyncFiles
  <2> QED BY <1>2, <1>4, <2>1, <2>2
<1>5. CASE UNCHANGED vars
  BY <1>1, <1>5 DEF vars, engine, files
<1>6. CASE Reached \/ Begin \/ MountPass \/ MountFails \/ Return
  BY <1>1, <1>6 DEF Reached, Begin, MountPass, MountFails, Return, engine, files
<1>7. CASE FileStep
  <2>1. CASE OpenPass
    <3>1. CASE OneMorePass(Current)
      BY <1>1, <2>1, <3>1 DEF OpenPass, OneMorePass
    <3>2. CASE Leaves(Current, FALSE)
      BY <1>3, <2>1, <3>2 DEF OpenPass
    <3>3. CASE SetOps(Current, {"Unlink", "Flush"}) /\ UNCHANGED owner
      BY <1>4, <2>1, <3>3 DEF OpenPass, Operations
    <3> QED BY <2>1, <3>1, <3>2, <3>3 DEF OpenPass
  <2>2. CASE OpenFails
    BY <1>3, <2>2 DEF OpenFails
  <2>3. CASE UnlinkFails
    BY <1>4, <2>3 DEF UnlinkFails, Operations
  <2>4. CASE LinkPass
    BY <1>1, <2>4 DEF LinkPass, OneMorePass
  <2>5. CASE LastPass
    BY <1>3, <2>5 DEF LastPass, FileWritten
  <2>6. CASE FlushFails
    BY <1>3, <2>6 DEF FlushFails
  <2>7. CASE RemoveFails
    BY <1>3, <2>7 DEF RemoveFails, FileWritten
  <2>8. CASE DefaultPass
    BY <1>3, <2>8 DEF DefaultPass
  <2> QED BY <1>7, <2>1, <2>2, <2>3, <2>4, <2>5, <2>6, <2>7, <2>8 DEF FileStep
<1>8. CASE VolumeStep
  BY <1>1, <1>8 DEF VolumeStep, FatFlushPass, FatFlushFails, JournalFlushPass, JournalFlushFails, RestoreStart,
       RestoreStartFails, RestorePass, RestoreFails, CommitFlushesDisk, CommitFlushFails, engine, files
<1>9. ASSUME NEW f \in Files, WriteFile(f) PROVE Fine
  BY <1>1, <1>9 DEF WriteFile, engine
<1>10. ASSUME NEW f \in Files, NEW new \in SUBSET Operations, NEW who \in {"app", "engine"}, Start(f, new, who) PROVE Fine
  <2>1. \A g \in Files : ops'[g] # {} => owner'[g] # "none"
    BY <1>10 DEF Start, SetOps, EngineTypeOK, QueueIsTheAsyncFiles
  <2> QED BY <1>2, <1>10, <2>1 DEF Start, engine
<1>11. ASSUME NEW f \in Files, NEW new \in SUBSET Operations, FlushStart(f, new) PROVE Fine
  <2>1. \A g \in Files : ops'[g] # {} => owner'[g] # "none"
    BY <1>11 DEF FlushStart, FileCall, SetOps, EngineTypeOK, QueueIsTheAsyncFiles
  <2> QED BY <1>2, <1>11, <2>1 DEF FlushStart, FileCall, engine
<1>12. CASE DiskClose
  <2>1. queue = <<>>
    BY <1>12 DEF DiskClose
  <2>2. queue' = <<>> /\ ops' = [f \in Files |-> {}]
    BY <1>12, <2>1 DEF DiskClose
  <2> QED BY <2>2 DEF QueueIsTheAsyncFiles, IsInjective, ToSet
<1>13. ASSUME NEW async \in BOOLEAN, Mount(async) PROVE Fine
  <2>1. queue' = <<>> /\ ops' = ops /\ \A f \in Files : ops[f] = {}
    BY <1>13 DEF Mount, ApiCall
  <2> QED BY <2>1 DEF QueueIsTheAsyncFiles, IsInjective, ToSet, EngineTypeOK
<1>14. CASE ChangeVolume \/ FatFlushStart \/ CommitStart \/ DiskFlush
  BY <1>1, <1>14 DEF ChangeVolume, FatFlushStart, CommitStart, DiskFlush, engine, files
<1>15. ASSUME NEW op, Commit(op) PROVE Fine
  BY <1>1, <1>15 DEF Commit, files
<1>16. ASSUME NEW target, NEW steps, Continue(target, steps) PROVE Fine
  BY <1>1, <1>16 DEF Continue, engine, files
<1>17. CASE Request
  BY <1>9, <1>10, <1>11, <1>12, <1>13, <1>14, <1>15, <1>17 DEF Request, OpenStart, UnlinkStart, Operations
<1> QED BY <1>5, <1>6, <1>7, <1>8, <1>16, <1>17 DEF Next, EngineStep

-----------------------------------------------------------------------------
(* Types *)

LEMMA EndsCall ==
  ASSUME EngineTypeOK, NEW stage, NEW ret \in {"Continue", "Complete", "Error"}
  PROVE  /\ StepReturns(ret) => CallTypeOK'
         /\ SpendStep => CallTypeOK'
         /\ Ends(stage, ret) => CallTypeOK' /\ state' \in States
<1> USE DEF EngineTypeOK, CallTypeOK
<1>1. ASSUME NEW r \in {"Continue", "Complete", "Error"}, StepReturns(r) PROVE CallTypeOK'
  <2>1. call' = [call EXCEPT !.ret = r] \/ call' = AfterStage(call)
    BY <1>1 DEF StepReturns
  <2>2. [call EXCEPT !.ret = r] \in CallRecords
    BY DEF CallRecords
  <2>3. AfterStage(call) \in CallRecords
    BY TargetsAre DEF AfterStage, CallRecords
  <2> QED BY <2>1, <2>2, <2>3
<1>2. SpendStep => CallTypeOK'
  BY <1>1 DEF SpendStep
<1>3. Ends(stage, ret) => CallTypeOK' /\ state' \in States
  BY <1>1, <1>2 DEF Ends, States
<1> QED BY <1>1, <1>2, <1>3

LEMMA TypeStep ==
  ASSUME EngineTypeOK, QueueInv, "close" \notin Faults, [Next]_vars
  PROVE  EngineTypeOK'
<1>1. queue' \in Seq(Files) /\ ops' \in [Files -> SUBSET Operations]
  BY QueueStep
<1> DEFINE FilesOK == /\ owner \in [Files -> {"app", "engine", "none"}]
                      /\ dirty \in [Files -> BOOLEAN]
           PassesOK == fat \in Nat /\ restoring \in Nat
           NeedsOK == needs \subseteq {"Flush", "Restore"} /\ once \subseteq Triggers
           FlagsOK == mounted \in BOOLEAN /\ failsafe \in BOOLEAN /\ open \in BOOLEAN /\ flushed \in BOOLEAN
<1>2. FilesOK /\ PassesOK /\ NeedsOK /\ FlagsOK /\ state \in States /\ CallTypeOK
  BY DEF EngineTypeOK
<1>3. FatPasses \in Nat /\ RestorePasses \in Nat
  BY EngineParameters
<1>4. FilePass => Current \in Files
  BY CurrentIsAFile
<1>5. CASE UNCHANGED vars
  BY <1>1, <1>2, <1>5 DEF vars, engine, files, journal, EngineTypeOK, CallTypeOK
<1>6. FilesOK'
  <2>1. CASE EngineStep
    BY <1>2, <1>4, <2>1 DEF EngineStep, Reached, Begin, MountPass, MountFails, Return, FileStep, OpenPass, OpenFails,
       UnlinkFails, LinkPass, LastPass, FlushFails, RemoveFails, DefaultPass, FileWritten, OneMorePass, Leaves,
       VolumeStep, FatFlushPass, FatFlushFails, JournalFlushPass, JournalFlushFails, RestoreStart, RestoreStartFails,
       RestorePass, RestoreFails, CommitFlushesDisk, CommitFlushFails, files
  <2>2. CASE Request
    BY <1>2, <2>2 DEF Request, WriteFile, OpenStart, UnlinkStart, Start, FlushStart, ChangeVolume, FatFlushStart,
       CommitStart, DiskFlush, Commit, DiskClose, Mount, files
  <2> QED BY <1>2, <1>5, <2>1, <2>2 DEF Next, Continue, files, vars
<1>7. PassesOK'
  <2>1. CASE Reached \/ Begin \/ MountPass \/ MountFails \/ Return
    BY <1>2, <2>1 DEF Reached, Begin, MountPass, MountFails, Return, engine, journal
  <2>2. CASE FileStep
    <3>1. FileWritten => fat' \in {fat, 0, FatPasses}
      BY Zenon DEF FileWritten
    <3>2. LastPass \/ RemoveFails => FileWritten /\ restoring' = restoring
      BY DEF LastPass, RemoveFails
    <3>3. ~ (LastPass \/ RemoveFails) => fat' \in {fat, FatPasses} /\ restoring' = restoring
      BY <2>2 DEF FileStep, OpenPass, OpenFails, UnlinkFails, LinkPass, FlushFails, DefaultPass, journal
    <3> QED BY <1>2, <1>3, <3>1, <3>2, <3>3
  <2>3. CASE VolumeStep
    BY <1>2, <1>3, <2>3 DEF VolumeStep, FatFlushPass, FatFlushFails, JournalFlushPass, JournalFlushFails, RestoreStart,
       RestoreStartFails, RestorePass, RestoreFails, CommitFlushesDisk, CommitFlushFails, FlushJournal, JournalFlushed,
       JournalWrite, engine, journal
  <2>4. CASE Request
    BY <1>2, <1>3, <2>4 DEF Request, WriteFile, OpenStart, UnlinkStart, Start, FlushStart, ChangeVolume, FatFlushStart,
       CommitStart, DiskFlush, Commit, DiskClose, Mount, JournalWrite, Triggers, engine, journal
  <2> QED BY <1>2, <1>5, <2>1, <2>2, <2>3, <2>4 DEF Next, EngineStep, Continue, engine, journal, vars
<1>10. NeedsOK'
  <2>1. CASE Reached \/ Begin \/ MountPass \/ MountFails \/ Return
    BY <1>2, <2>1 DEF Reached, Begin, MountPass, MountFails, Return, engine, journal
  <2>2. CASE FileStep
    BY <1>2, <1>3, <2>2 DEF FileStep, OpenPass, OpenFails, UnlinkFails, LinkPass, LastPass, FlushFails, RemoveFails,
       DefaultPass, FileWritten, JournalWrite, journal
  <2>3. CASE VolumeStep
    BY <1>2, <1>3, <2>3 DEF VolumeStep, FatFlushPass, FatFlushFails, JournalFlushPass, JournalFlushFails, RestoreStart,
       RestoreStartFails, RestorePass, RestoreFails, CommitFlushesDisk, CommitFlushFails, FlushJournal, JournalFlushed,
       JournalWrite, engine, journal
  <2>4. CASE Request
    BY <1>2, <1>3, <2>4 DEF Request, WriteFile, OpenStart, UnlinkStart, Start, FlushStart, ChangeVolume, FatFlushStart,
       CommitStart, DiskFlush, Commit, DiskClose, Mount, JournalWrite, Triggers, engine, journal
  <2> QED BY <1>2, <1>5, <2>1, <2>2, <2>3, <2>4 DEF Next, EngineStep, Continue, engine, journal, vars
<1>9. FlagsOK'
  <2>1. CASE Reached \/ Begin \/ MountPass \/ MountFails \/ Return
    BY <1>2, <2>1 DEF Reached, Begin, MountPass, MountFails, Return, engine, journal
  <2>2. CASE FileStep
    BY <1>2, <1>3, <2>2 DEF FileStep, OpenPass, OpenFails, UnlinkFails, LinkPass, LastPass, FlushFails, RemoveFails,
       DefaultPass, FileWritten, JournalWrite, journal
  <2>3. CASE VolumeStep
    BY <1>2, <1>3, <2>3 DEF VolumeStep, FatFlushPass, FatFlushFails, JournalFlushPass, JournalFlushFails, RestoreStart,
       RestoreStartFails, RestorePass, RestoreFails, CommitFlushesDisk, CommitFlushFails, FlushJournal, JournalFlushed,
       JournalWrite, engine, journal
  <2>4. CASE Request
    BY <1>2, <1>3, <2>4 DEF Request, WriteFile, OpenStart, UnlinkStart, Start, FlushStart, ChangeVolume, FatFlushStart,
       CommitStart, DiskFlush, Commit, DiskClose, Mount, JournalWrite, Triggers, engine, journal
  <2> QED BY <1>2, <1>5, <2>1, <2>2, <2>3, <2>4 DEF Next, EngineStep, Continue, engine, journal, vars
<1>8. CallTypeOK' /\ state' \in States
  <2>1. CASE Begin
    <3>1. state' \in States
      BY <2>1, NextStageIs DEF Begin, Stages, States
    <3> QED BY <1>2, <2>1, <3>1, EndsCall DEF Begin, CallTypeOK
  <2>2. CASE Reached
    BY <1>2, <2>2, EndsCall DEF Reached, engine
  <2>3. CASE MountPass
    BY <1>2, <2>3, EndsCall DEF MountPass, CallTypeOK, CallRecords, States
  <2>4. CASE MountFails
    BY <1>2, <2>4 DEF MountFails, CallTypeOK, CallRecords, States
  <2>9. CASE Return
    <3>1. NoCall \in CallRecords
      BY TargetsAre DEF NoCall, CallRecords
    <3> QED BY <1>2, <2>9, <3>1 DEF Return, engine, CallTypeOK
  <2>5. CASE FileStep
    <3>1. Ends("Files", "Continue") \/ Ends("Files", "Complete") \/ Ends("Files", "Error")
      BY <2>5 DEF FileStep, OpenPass, OpenFails, UnlinkFails, LinkPass, LastPass, FlushFails,
         RemoveFails, DefaultPass, OneMorePass
    <3> QED BY <3>1, EndsCall
  <2>6. CASE VolumeStep
    BY <1>2, <2>6, EndsCall DEF VolumeStep, FatFlushPass, FatFlushFails, JournalFlushPass, JournalFlushFails,
       RestoreStart, RestoreStartFails, RestorePass, RestoreFails, CommitFlushesDisk, CommitFlushFails, engine
  <2>7. CASE Request
    <3>1. ASSUME NEW op \in CommitOps, Commit(op) PROVE CallTypeOK' /\ state' \in States
      <4>1. call' \in CallRecords
        BY <3>1, TargetsAre DEF Commit, CallRecords, Unlimited
      <4> QED BY <1>2, <3>1, <4>1 DEF Commit, CallTypeOK
    <3>2. ASSUME UNCHANGED call, state' \in States PROVE CallTypeOK' /\ state' \in States
      BY <1>2, <3>2 DEF CallTypeOK
    <3> QED BY <1>2, <2>7, <3>1, <3>2 DEF Request, WriteFile, OpenStart, UnlinkStart, Start, FlushStart, ChangeVolume,
          FatFlushStart, CommitStart, DiskFlush, DiskClose, Mount, engine, States, CommitOps
  <2>8. ASSUME NEW target \in AskedFor, NEW steps \in {1, Unlimited}, Continue(target, steps) PROVE CallTypeOK' /\ state' \in States
    <3>1. target \in Targets
      BY EngineParameters
    <3> QED BY <1>2, <2>8, <3>1 DEF Continue, engine, CallTypeOK, CallRecords
  <2> QED BY <1>2, <1>5, <2>1, <2>2, <2>3, <2>4, <2>5, <2>6, <2>7, <2>8, <2>9 DEF Next, EngineStep, engine, vars, CallTypeOK
<1> QED BY <1>1, <1>6, <1>7, <1>8, <1>9, <1>10 DEF EngineTypeOK

-----------------------------------------------------------------------------
(* The journal *)

\* A stage of a commit other than the engine's begins only when the engine has stopped.
LEMMA EndsTarget ==
  ASSUME EngineTypeOK, NEW stage \in {"Files", "FatFlush", "JournalFlush", "Restore"}, NEW ret,
         call.target # "DiskFlush", Ends(stage, ret)
  PROVE  /\ call'.target # "DiskFlush"
         /\ state' = IF ret = "Continue" THEN state ELSE "Idle"
<1>1. call \in CallRecords
  BY DEF EngineTypeOK, CallTypeOK
<1>2. ret = "Complete" /\ stage # "Files" /\ call.target = Done[stage] => call.target # "DoneFiles"
  BY DEF Done
<1>3. ASSUME NEW r, StepReturns(r), r = "Complete" => call.target # "DoneFiles"
      PROVE  call'.target # "DiskFlush"
  <2>1. CASE call' = [call EXCEPT !.ret = r]
    BY <1>1, <2>1 DEF CallRecords
  <2>2. CASE r = "Complete" /\ call' = AfterStage(call)
    BY <1>1, <1>3, <2>2 DEF CallRecords, AfterStage
  <2> QED BY <1>3, <2>1, <2>2 DEF StepReturns
<1>4. SpendStep => call'.target # "DiskFlush"
  BY <1>3 DEF SpendStep
<1> QED BY <1>2, <1>3, <1>4 DEF Ends

LEMMA JournalStep ==
  ASSUME EngineTypeOK, JournalInv, "close" \notin Faults, [Next]_vars
  PROVE  JournalInv'
<1> USE DEF JournalInv, NoFlushBesideRestore, EngineTypeOK, CallTypeOK, CallRecords
<1> DEFINE JournalKept == UNCHANGED <<open, flushed, restoring, needs>>
<1>1. ASSUME JournalKept, state' = state, call'.target # "DiskFlush" \/ restoring = 0 PROVE JournalInv'
  BY <1>1
<1>2. ASSUME NEW stage \in {"Files", "FatFlush", "JournalFlush", "Restore"}, NEW ret, InStage(stage), Ends(stage, ret)
      PROVE  /\ call'.target # "DiskFlush"
             /\ restoring # 0 => stage = "Restore"
             /\ state' = IF ret = "Continue" THEN stage ELSE "Idle"
  BY <1>2, EndsTarget DEF InStage, Engine
<1>3. CASE UNCHANGED vars
  BY <1>3 DEF vars, engine, journal
<1>4. CASE Reached
  <2>1. restoring # 0 => call.target = "DoneMount"
    BY <1>4 DEF Reached
  <2>2. restoring # 0 => call'.target # "DiskFlush"
    BY <1>4, <2>1 DEF Reached, StepReturns, AfterStage
  <2> QED BY <1>4, <2>2 DEF Reached, engine, journal
<1>5. CASE Begin
  <2>1. restoring = 0
    BY <1>5 DEF Begin
  <2> QED BY <1>5, <2>1 DEF Begin, journal
<1>6. CASE FileStep
  <2>1. InStage("Files") /\ \E ret : Ends("Files", ret)
    BY <1>6 DEF FileStep, FilePass, FileWritten, OpenPass, OpenFails, UnlinkFails, LinkPass, LastPass, FlushFails,
       RemoveFails, DefaultPass, OneMorePass
  <2>2. restoring = 0 /\ UNCHANGED <<flushed, restoring>>
    BY <1>2, <1>6, <2>1 DEF FileStep, OpenPass, OpenFails, UnlinkFails, LinkPass, LastPass, FlushFails,
       RemoveFails, DefaultPass, journal
  <2>3. JournalKept \/ JournalWrite \/ UNCHANGED <<open, needs>>
    BY <1>6 DEF FileStep, FileWritten, OpenPass, OpenFails, UnlinkFails, LinkPass, LastPass, FlushFails,
       RemoveFails, DefaultPass, journal
  <2> QED BY <2>2, <2>3 DEF JournalWrite
<1>7. CASE VolumeStep
  <2>1. CASE FatFlushPass
    <3>1. restoring = 0 /\ UNCHANGED <<flushed, restoring>>
      BY <1>2, <2>1 DEF FatFlushPass
    <3>2. JournalWrite \/ UNCHANGED <<open, needs>>
      BY <2>1 DEF FatFlushPass
    <3> QED BY <3>1, <3>2 DEF JournalWrite
  <2>2. CASE FatFlushFails
    <3>1. restoring = 0 /\ JournalKept
      BY <1>2, <2>2 DEF FatFlushFails, journal
    <3> QED BY <3>1
  <2>3. CASE JournalFlushPass
    <3>1. restoring = 0 /\ UNCHANGED restoring
      BY <2>3 DEF JournalFlushPass
    <3>2. ~open' /\ "Restore" \in needs'
      BY <2>3 DEF JournalFlushPass, FlushJournal
    <3> QED BY <3>1, <3>2
  <2>4. CASE JournalFlushFails
    <3>1. restoring = 0 /\ JournalKept
      BY <2>4 DEF JournalFlushFails, InStage, journal
    <3> QED BY <3>1
  <2>5. CASE RestoreStart
    <3>1. ~open' /\ ~flushed'
      BY <2>5 DEF RestoreStart, FlushJournal
    <3>2. JournalFlushed => state' = "Restore" /\ call'.target # "DiskFlush"
      BY <1>2, <2>5 DEF RestoreStart
    <3>3. ~JournalFlushed => restoring' = 0
      BY <2>5 DEF RestoreStart
    <3> QED BY <3>1, <3>2, <3>3
  <2>6. CASE RestoreStartFails
    <3>1. ~open' /\ ~flushed' /\ restoring' = 0
      BY <2>6 DEF RestoreStartFails, FlushJournal
    <3> QED BY <3>1
  <2>7. CASE RestorePass
    <3>1. ~flushed' /\ open' = open /\ (open => "Flush" \in needs')
      BY <2>7 DEF RestorePass
    <3>2. restoring' # 0 => restoring' > 0
      BY <2>7 DEF RestorePass
    <3>3. restoring' # 0 => state' = "Restore" /\ call'.target # "DiskFlush"
      BY <1>2, <2>7, <3>2 DEF RestorePass
    <3> QED BY <3>1, <3>3
  <2>8. CASE RestoreFails
    <3>1. restoring' = 0 /\ ~flushed' /\ open' = open /\ (open => "Flush" \in needs')
      BY <2>8 DEF RestoreFails
    <3> QED BY <3>1
  <2>9. CASE CommitFlushesDisk
    <3>1. restoring = 0 /\ UNCHANGED <<flushed, restoring>>
      BY <2>9 DEF CommitFlushesDisk
    <3>2. JournalWrite \/ UNCHANGED <<open, needs>>
      BY <2>9 DEF CommitFlushesDisk
    <3> QED BY <3>1, <3>2 DEF JournalWrite
  <2>10. CASE CommitFlushFails
    BY <2>10 DEF CommitFlushFails, journal
  <2> QED BY <1>7, <2>1, <2>2, <2>3, <2>4, <2>5, <2>6, <2>7, <2>8, <2>9, <2>10 DEF VolumeStep
<1>8. CASE MountPass \/ MountFails
  <2>1. restoring = 0 /\ JournalKept
    BY <1>8 DEF MountPass, MountFails, journal
  <2> QED BY <2>1
<1>9. CASE Return
  BY <1>1, <1>9 DEF Return, NoCall, engine, journal
<1>10. CASE Request
  <2>1. CASE ChangeVolume
    BY <2>1 DEF ChangeVolume, JournalWrite, engine
  <2>2. CASE DiskFlush
    <3>1. JournalWrite \/ UNCHANGED <<open, needs>>
      BY <2>2 DEF DiskFlush
    <3> QED BY <2>2, <3>1 DEF DiskFlush, JournalWrite, engine
  <2>3. CASE DiskClose
    <3>1. restoring = 0 /\ JournalKept
      BY <2>3 DEF DiskClose, journal
    <3> QED BY <3>1
  <2>4. ASSUME NEW async, Mount(async) PROVE JournalInv'
    BY <2>4 DEF Mount
  <2>5. ASSUME NEW op, Commit(op) PROVE JournalInv'
    BY <1>1, <2>5 DEF Commit, journal
  <2>6. CASE FatFlushStart \/ CommitStart
    BY <1>1, <2>6 DEF FatFlushStart, CommitStart, journal
  <2>7. ASSUME NEW f, \/ WriteFile(f) \/ OpenStart(f) \/ UnlinkStart(f)
                     \/ FlushStart(f, {"Flush"}) \/ FlushStart(f, {"Flush", "Close"})
        PROVE JournalInv'
    BY <1>1, <2>7 DEF WriteFile, OpenStart, UnlinkStart, Start, FlushStart, engine, journal
  <2> QED BY <1>10, <2>1, <2>2, <2>3, <2>4, <2>5, <2>6, <2>7 DEF Request
<1>11. ASSUME NEW target \in AskedFor, NEW steps, Continue(target, steps) PROVE JournalInv'
  <2>1. target # "DiskFlush"
    BY EngineParameters, TargetsAre
  <2> QED BY <1>1, <1>11, <2>1 DEF Continue, engine, journal
<1> QED BY <1>3, <1>4, <1>5, <1>6, <1>7, <1>8, <1>9, <1>10, <1>11 DEF Next, EngineStep

-----------------------------------------------------------------------------
(* Commits *)

\* A pass never changes which call holds the drive.
LEMMA SameCall ==
  ASSUME EngineTypeOK, EngineStep, ~Return
  PROVE  Running /\ call'.op = call.op
<1>1. call \in CallRecords
  BY DEF EngineTypeOK, CallTypeOK
<1>2. ASSUME NEW r, call' = [call EXCEPT !.ret = r] \/ call' = AfterStage(call) \/ call' = call
      PROVE  call'.op = call.op
  BY <1>1, <1>2 DEF CallRecords, AfterStage
<1>3. ASSUME NEW r, StepReturns(r) \/ SpendStep PROVE call'.op = call.op
  BY <1>2, <1>3 DEF SpendStep, StepReturns
<1>4. ASSUME NEW stage, NEW r, Ends(stage, r) PROVE call'.op = call.op
  BY <1>3, <1>4 DEF Ends
<1>5. CASE FileStep
  <2>1. Running /\ \E r : Ends("Files", r)
    BY <1>5 DEF FileStep, FilePass, InStage, Engine, FileWritten, OpenPass, OpenFails, UnlinkFails, LinkPass,
       LastPass, FlushFails, RemoveFails, DefaultPass, OneMorePass
  <2> QED BY <1>4, <2>1
<1>6. CASE VolumeStep
  <2>1. Running /\ ((\E stage, r : Ends(stage, r)) \/ \E r : StepReturns(r))
    BY <1>6 DEF VolumeStep, InStage, Engine, FatFlushPass, FatFlushFails, JournalFlushPass, JournalFlushFails,
       RestoreStart, RestoreStartFails, RestorePass, RestoreFails, CommitFlushesDisk, CommitFlushFails
  <2> QED BY <1>3, <1>4, <2>1
<1>7. CASE Reached \/ Begin
  BY <1>3, <1>7 DEF Reached, Begin, Engine
<1>8. CASE MountPass \/ MountFails
  BY <1>1, <1>3, <1>8 DEF MountPass, MountFails, CallRecords
<1> QED BY <1>5, <1>6, <1>7, <1>8 DEF EngineStep

\* A pass of a commit: it goes on where it is, reports an error, or comes to its next stage.
LEMMA CommitPass ==
  ASSUME EngineTypeOK, JournalInv, CommitInv, CommitLeavesNothing, call.op \in CommitOps,
         EngineStep, ~Return
  PROVE  CommitInv' /\ CommitLeavesNothing'
<1>1. /\ call \in CallRecords /\ call.ret = "none" /\ call.steps = Unlimited
      /\ call.target \in CommitTargets /\ (call.target = "DoneRestore" => call.op = "Sync")
      /\ state # "Mount" /\ CommitUnderWay
  <2>1. Running
    BY SameCall
  <2> QED BY <2>1 DEF Running, CommitInv, EngineTypeOK, CallTypeOK
<1>2. fat \in Nat /\ restoring \in Nat
  BY DEF EngineTypeOK
<1>3. ASSUME StepReturns("Error"), state' # "Mount" PROVE CommitInv' /\ CommitLeavesNothing'
  <2>1. call' = [call EXCEPT !.ret = "Error"]
    BY <1>3 DEF StepReturns
  <2> QED BY <1>1, <1>3, <2>1 DEF CommitInv, CommitLeavesNothing, CallRecords
<1>4. ASSUME call' = call, state' # "Mount", CommitUnderWay' PROVE CommitInv' /\ CommitLeavesNothing'
  BY <1>1, <1>4 DEF CommitInv, CommitLeavesNothing
<1>5. SpendStep => call' = call
  BY <1>1 DEF SpendStep
\* What a completed stage comes to.
<1>6. ASSUME StepReturns("Complete"), state' # "Mount"
      PROVE  /\ call.target = "DoneFiles" => call' = [call EXCEPT !.target = "DiskFlush"]
             /\ call.target = "DiskFlush" => call' = [call EXCEPT !.target = "DoneJournalFlush"]
             /\ call.target = "DoneJournalFlush" /\ call.op = "Sync" => call' = [call EXCEPT !.target = "DoneRestore"]
             /\ call.target = "DoneJournalFlush" /\ call.op # "Sync" => call' = [call EXCEPT !.ret = "Complete"]
             /\ call.target = "DoneRestore" => call' = [call EXCEPT !.ret = "Complete"]
  BY <1>6 DEF StepReturns, AfterStage, CommitOps
<1>7. ASSUME NEW target \in CommitTargets, call' = [call EXCEPT !.target = target], state' # "Mount",
             target = "DoneRestore" => call.op = "Sync", CommitUnderWay'
      PROVE  CommitInv' /\ CommitLeavesNothing'
  BY <1>1, <1>7 DEF CommitInv, CommitLeavesNothing, CallRecords
<1>8. ASSUME call' = [call EXCEPT !.ret = "Complete"], state' # "Mount",
             queue' = <<>>, \A f \in Files : ~dirty'[f], fat' = 0, ~open', restoring' = 0,
             call.op = "Sync" => ~flushed'
      PROVE  CommitInv' /\ CommitLeavesNothing'
  BY <1>1, <1>8 DEF CommitInv, CommitLeavesNothing, CallRecords
<1>9. ASSUME NEW stage \in {"Files", "FatFlush", "JournalFlush", "Restore"}, NEW ret, Ends(stage, ret), InStage(stage)
      PROVE  /\ state' # "Mount"
             /\ ret = "Error" => StepReturns("Error")
             /\ ret \in {"Continue", "Complete"} =>
                  IF ret = "Complete" /\ stage # "Files" /\ call.target = Done[stage]
                  THEN StepReturns("Complete") ELSE call' = call
  <2>1. state' = "Idle" \/ state' = state
    BY <1>9 DEF Ends
  <2> QED BY <1>1, <1>5, <1>9, <2>1 DEF Ends
<1>10. CASE Reached
  <2>1. state = "Idle" /\ (NextStage = 0 \/ TargetStage \in 1 .. NextStage - 1) /\ restoring = 0 /\ NextStage \in 0 .. 4
    BY <1>1, <1>10, NextStageIs DEF Reached, CommitTargets, JournalInv, NoFlushBesideRestore
  <2>2. StepReturns("Complete") /\ state' # "Mount" /\ call.target # "DiskFlush"
        /\ UNCHANGED <<queue, dirty, fat, open, flushed, restoring, once, state>>
    BY <1>1, <1>10 DEF Reached, Engine, engine, files, journal
  <2>3. CASE call.target = "DoneFiles"
    <3>1. ~Pending(Stages[1])
      BY <2>1, <2>3, TargetStageIs, NextStageIs
    <3>2. queue = <<>>
      BY <3>1 DEF Pending, Stages
    <3>3. call' = [call EXCEPT !.target = "DiskFlush"]
      BY <1>6, <2>2, <2>3
    <3>4. CommitUnderWay'
      BY <1>1, <2>2, <2>3, <3>2, <3>3, <2>1 DEF CommitUnderWay, CallRecords
    <3> QED BY <1>7, <2>2, <3>3, <3>4 DEF CommitTargets
  <2>4. CASE call.target = "DoneJournalFlush"
    <3>1. ~Pending(Stages[3])
      BY <2>1, <2>4, TargetStageIs, NextStageIs
    <3>2. "JournalFlush" \in once
      BY <1>1, <2>1, <2>4 DEF CommitUnderWay
    <3>3. ~open
      BY <3>1, <3>2 DEF Pending, Stages, Asked, JournalInv
    <3>4. CASE call.op = "Sync"
      <4>1. call' = [call EXCEPT !.target = "DoneRestore"]
        BY <1>6, <2>2, <2>4, <3>4
      <4>2. CommitUnderWay'
        BY <1>1, <2>1, <2>2, <2>4, <3>3, <4>1 DEF CommitUnderWay, CallRecords
      <4> QED BY <1>7, <2>2, <3>4, <4>1, <4>2 DEF CommitTargets
    <3>5. CASE call.op # "Sync"
      <4>1. call' = [call EXCEPT !.ret = "Complete"]
        BY <1>6, <2>2, <2>4, <3>5
      <4> QED BY <1>1, <1>8, <2>1, <2>2, <2>4, <3>3, <3>5, <4>1 DEF CommitUnderWay
    <3> QED BY <3>4, <3>5
  <2>5. CASE call.target = "DoneRestore"
    <3>1. ~Pending(Stages[4])
      BY <2>1, <2>5, TargetStageIs, NextStageIs
    <3>2. "Restore" \in once
      BY <1>1, <2>1, <2>5 DEF CommitUnderWay
    <3>3. ~flushed
      BY <3>1, <3>2 DEF Pending, Stages, Asked, JournalInv
    <3>4. call' = [call EXCEPT !.ret = "Complete"]
      BY <1>6, <2>2, <2>5
    <3> QED BY <1>1, <1>8, <2>1, <2>2, <2>5, <3>3, <3>4 DEF CommitUnderWay
  <2> QED BY <1>1, <2>2, <2>3, <2>4, <2>5 DEF CommitTargets
<1>11. CASE Begin
  <2>1. /\ state = "Idle" /\ NextStage # 0 /\ TargetStage \notin 1 .. NextStage - 1 /\ NextStage \in 1 .. 4
        /\ state' = Stages[NextStage] /\ once' = once \ {Stages[NextStage]}
        /\ UNCHANGED <<queue, dirty, fat, open>>
    BY <1>11, NextStageIs DEF Begin, files, journal
  <2>2. Stages[NextStage] \in {"Files", "FatFlush", "JournalFlush", "Restore"} /\ state' # "Mount"
    BY <2>1 DEF Stages
  <2>3. call' = call /\ call.target # "DiskFlush"
    BY <1>1, <1>11, <2>2 DEF Begin, Engine, CommitTargets
  <2>4. CASE call.target = "DoneFiles"
    <3>1. NextStage = 1
      BY <2>1, <2>4, TargetStageIs
    <3>2. once' = once \ {"Files"}
      BY <2>1, <3>1 DEF Stages
    <3>3. CommitUnderWay'
      BY <1>1, <2>1, <2>3, <2>4, <3>2 DEF CommitUnderWay
    <3> QED BY <1>4, <2>2, <2>3, <3>3
  <2>5. CASE call.target = "DoneJournalFlush"
    <3>1. NextStage \in 1 .. 3
      BY <2>1, <2>5, TargetStageIs
    <3>2. state' # "Restore" /\ once' = once \ {state'}
      BY <2>1, <3>1 DEF Stages
    <3>3. CommitUnderWay'
      BY <1>1, <2>1, <2>3, <2>5, <3>2 DEF CommitUnderWay
    <3> QED BY <1>4, <2>2, <2>3, <3>3
  <2>6. CASE call.target = "DoneRestore"
    <3>1. once' = once \ {state'}
      BY <2>1
    <3>2. CommitUnderWay'
      BY <1>1, <2>1, <2>3, <2>6, <3>1 DEF CommitUnderWay
    <3> QED BY <1>4, <2>2, <2>3, <3>2
  <2> QED BY <1>1, <2>3, <2>4, <2>5, <2>6 DEF CommitTargets
<1>12. CASE FileStep
  <2>1. /\ InStage("Files") /\ queue # <<>> /\ once' = once
        /\ \E ret \in {"Continue", "Complete", "Error"} : Ends("Files", ret)
    BY <1>12 DEF FileStep, FilePass, FileWritten, OpenPass, OpenFails, UnlinkFails, LinkPass, LastPass, FlushFails,
       RemoveFails, DefaultPass, OneMorePass
  <2>2. call.target = "DoneFiles" /\ state = "Files"
    BY <1>1, <2>1 DEF CommitUnderWay, InStage
  <2>3. state' # "Mount" /\ (StepReturns("Error") \/ call' = call)
    BY <1>9, <2>1
  <2>4. call' = call => CommitUnderWay'
    BY <1>1, <2>1, <2>2 DEF CommitUnderWay
  <2> QED BY <1>3, <1>4, <2>3, <2>4
<1>13. CASE FatFlushPass
  <2>1. /\ InStage("FatFlush") /\ state = "FatFlush" /\ UNCHANGED <<queue, dirty, once>>
        /\ fat = 0 => fat' = 0 /\ open' = open
    BY <1>13 DEF FatFlushPass, InStage, files
  <2>2. call' = call /\ state' # "Mount"
    BY <1>1, <1>9, <1>13 DEF FatFlushPass, Done, CommitTargets
  <2>3. CommitUnderWay'
    BY <1>1, <2>1, <2>2 DEF CommitUnderWay, CommitTargets
  <2> QED BY <1>4, <2>2, <2>3
<1>14. CASE JournalFlushPass
  <2>1. /\ InStage("JournalFlush") /\ state = "JournalFlush" /\ UNCHANGED <<queue, dirty, once>>
        /\ fat' = 0 /\ open' = FALSE /\ restoring' = 0 /\ call.target # "DiskFlush"
    BY <1>14 DEF JournalFlushPass, FlushJournal, InStage, Engine, files
  <2>2. state' # "Mount" /\ IF call.target = "DoneJournalFlush" THEN StepReturns("Complete") ELSE call' = call
    BY <1>9, <1>14 DEF JournalFlushPass, Done
  <2>3. state' = "Idle"
    BY <1>14 DEF JournalFlushPass, Ends
  <2>4. CASE call.target # "DoneJournalFlush"
    <3>1. CommitUnderWay'
      BY <1>1, <2>1, <2>2, <2>4 DEF CommitUnderWay, CommitTargets
    <3> QED BY <1>4, <2>2, <2>4, <3>1
  <2>5. CASE call.target = "DoneJournalFlush"
    <3>1. StepReturns("Complete")
      BY <1>14, <2>5 DEF JournalFlushPass, Ends, Done
    <3>2. CASE call.op = "Sync"
      <4>1. call' = [call EXCEPT !.target = "DoneRestore"]
        BY <1>6, <2>2, <2>5, <3>1, <3>2
      <4>2. CommitUnderWay'
        BY <1>1, <2>1, <2>5, <4>1 DEF CommitUnderWay, CallRecords
      <4> QED BY <1>7, <2>2, <3>2, <4>1, <4>2 DEF CommitTargets
    <3>3. CASE call.op # "Sync"
      <4>1. call' = [call EXCEPT !.ret = "Complete"]
        BY <1>6, <2>2, <2>5, <3>1, <3>3
      <4> QED BY <1>1, <1>8, <2>1, <2>2, <2>5, <3>3, <4>1 DEF CommitUnderWay
    <3> QED BY <3>2, <3>3
  <2> QED BY <2>4, <2>5
<1>15. CASE RestoreStart
  <2>1. /\ InStage("Restore") /\ state = "Restore" /\ restoring = 0 /\ UNCHANGED <<queue, dirty, once>>
        /\ fat' = 0 /\ open' = FALSE /\ flushed' = FALSE /\ call.target # "DiskFlush"
    BY <1>15 DEF RestoreStart, FlushJournal, InStage, Engine, files
  <2>2. call' = call /\ (state' = "Restore" \/ call.target # "DoneRestore") => CommitUnderWay'
    BY <1>1, <2>1 DEF CommitUnderWay, CommitTargets
  <2>3. CASE JournalFlushed
    <3>1. call' = call /\ state' = "Restore"
      BY <1>9, <1>15, <2>1, <2>3 DEF RestoreStart, Ends
    <3> QED BY <1>4, <2>2, <3>1
  <2>4. CASE ~JournalFlushed
    <3>1. Ends("Restore", "Complete") /\ restoring' = 0
      BY <1>15, <2>1, <2>4 DEF RestoreStart
    <3>2. state' # "Mount" /\ IF call.target = "DoneRestore" THEN StepReturns("Complete") ELSE call' = call
      BY <1>9, <2>1, <3>1 DEF Done
    <3>3. CASE call.target = "DoneRestore" /\ StepReturns("Complete")
      BY <1>1, <1>6, <1>8, <2>1, <3>1, <3>2, <3>3 DEF CommitUnderWay
    <3> QED BY <1>4, <2>2, <3>2, <3>3
  <2> QED BY <2>3, <2>4
<1>16. CASE RestorePass
  <2>1. /\ InStage("Restore") /\ state = "Restore" /\ restoring > 0 /\ ~flushed'
        /\ UNCHANGED <<queue, dirty, fat, open, once>> /\ restoring' = restoring - 1 /\ call.target # "DiskFlush"
    BY <1>2, <1>16 DEF RestorePass, InStage, Engine, files, JournalInv
  <2>2. call' = call /\ (state' = "Restore" \/ call.target # "DoneRestore") => CommitUnderWay'
    BY <1>1, <2>1 DEF CommitUnderWay, CommitTargets
  <2>3. CASE restoring' > 0
    <3>1. call' = call /\ state' = "Restore"
      BY <1>9, <1>16, <2>1, <2>3 DEF RestorePass, Ends
    <3> QED BY <1>4, <2>2, <3>1
  <2>4. CASE ~(restoring' > 0)
    <3>1. Ends("Restore", "Complete") /\ restoring' = 0
      BY <1>2, <1>16, <2>1, <2>4 DEF RestorePass
    <3>2. state' # "Mount" /\ IF call.target = "DoneRestore" THEN StepReturns("Complete") ELSE call' = call
      BY <1>9, <2>1, <3>1 DEF Done
    <3>3. CASE call.target = "DoneRestore" /\ StepReturns("Complete")
      BY <1>1, <1>6, <1>8, <2>1, <3>1, <3>2, <3>3 DEF CommitUnderWay
    <3> QED BY <1>4, <2>2, <3>2, <3>3
  <2> QED BY <2>3, <2>4
<1>17. CASE CommitFlushesDisk
  <2>1. /\ call.target = "DiskFlush" /\ StepReturns("Complete") /\ UNCHANGED <<queue, once, state>>
        /\ dirty' = [f \in Files |-> FALSE] /\ fat' = 0
    BY <1>17 DEF CommitFlushesDisk, engine
  <2>2. call' = [call EXCEPT !.target = "DoneJournalFlush"] /\ state' # "Mount"
    BY <1>1, <1>6, <2>1
  <2>3. CommitUnderWay'
    BY <1>1, <2>1, <2>2 DEF CommitUnderWay, CallRecords
  <2> QED BY <1>7, <2>2, <2>3 DEF CommitTargets
<1>18. CASE CommitFlushFails
  BY <1>1, <1>3, <1>18 DEF CommitFlushFails, engine
<1>19. CASE FatFlushFails \/ JournalFlushFails \/ RestoreStartFails \/ RestoreFails
  <2>1. \E stage \in {"Files", "FatFlush", "JournalFlush", "Restore"} : InStage(stage) /\ Ends(stage, "Error")
    BY <1>19 DEF FatFlushFails, JournalFlushFails, RestoreStartFails, RestoreFails, InStage
  <2> QED BY <1>3, <1>9, <2>1
<1> QED BY <1>1, <1>10, <1>11, <1>12, <1>13, <1>14, <1>15, <1>16, <1>17, <1>18, <1>19
     DEF EngineStep, VolumeStep, MountPass, MountFails

LEMMA CommitStep ==
  ASSUME EngineTypeOK, JournalInv, CommitInv, CommitLeavesNothing, [Next]_vars
  PROVE  CommitInv' /\ CommitLeavesNothing'
<1>1. ASSUME call'.op \notin CommitOps PROVE CommitInv' /\ CommitLeavesNothing'
  BY <1>1 DEF CommitInv, CommitLeavesNothing, CommitOps
<1>2. CASE UNCHANGED vars
  BY <1>2 DEF vars, engine, files, journal, CommitInv, CommitUnderWay, CommitLeavesNothing
<1>3. CASE EngineStep /\ ~Return
  BY <1>1, <1>3, SameCall, CommitPass
<1>4. CASE Return
  BY <1>1, <1>4 DEF Return, NoCall, CommitOps
<1>5. ASSUME NEW op \in CommitOps, Commit(op) PROVE CommitInv' /\ CommitLeavesNothing'
  <2>1. /\ call' = [op |-> op, target |-> "DoneFiles", steps |-> Unlimited, ret |-> "none"]
        /\ state' = state /\ state # "Mount" /\ "JournalFlush" \in once' /\ (op = "Sync" => "Restore" \in once')
    BY <1>5 DEF Commit, ApiCall, Triggers
  <2>2. CommitUnderWay'
    BY <2>1 DEF CommitUnderWay
  <2> QED BY <2>1, <2>2 DEF CommitInv, CommitLeavesNothing, CommitTargets, Unlimited
<1>6. CASE Request /\ ~ \E op \in CommitOps : Commit(op)
  <2>1. call' = call /\ call = NoCall
    BY <1>6 DEF Request, WriteFile, FileCall, OpenStart, UnlinkStart, Start, FlushStart, ChangeVolume, FatFlushStart,
       CommitStart, DiskFlush, DiskClose, Mount, ApiCall, Free, CommitOps
  <2> QED BY <1>1, <2>1 DEF NoCall, CommitOps
<1>7. ASSUME NEW target, NEW steps, Continue(target, steps) PROVE CommitInv' /\ CommitLeavesNothing'
  BY <1>1, <1>7 DEF Continue, CommitOps
<1> QED BY <1>2, <1>3, <1>4, <1>5, <1>6, <1>7 DEF Next, EngineStep

-----------------------------------------------------------------------------
(* The theorems *)

LEMMA InitInv == Init => EngineInv
<1> SUFFICES ASSUME Init PROVE EngineInv
  OBVIOUS
<1>1. NoCall \in CallRecords
  BY TargetsAre DEF NoCall, CallRecords
<1>2. EngineTypeOK
  <2>1. queue \in Seq(Files) /\ ops \in [Files -> SUBSET Operations]
    BY DEF Init
  <2>2. owner \in [Files -> {"app", "engine", "none"}]
    BY DEF Init
  <2>3. dirty \in [Files -> BOOLEAN]
    BY DEF Init
  <2>4. /\ fat \in Nat /\ restoring \in Nat
        /\ mounted \in BOOLEAN /\ failsafe \in BOOLEAN /\ open \in BOOLEAN /\ flushed \in BOOLEAN
        /\ needs \subseteq {"Flush", "Restore"} /\ once \subseteq Triggers
    BY DEF Init
  <2>5. state \in States /\ CallTypeOK
    BY <1>1 DEF Init, States, CallTypeOK
  <2> QED BY <2>1, <2>2, <2>3, <2>4, <2>5 DEF EngineTypeOK
<1>3. QueueInv
  BY DEF Init, QueueInv, QueueIsTheAsyncFiles, IsInjective, ToSet
<1>4. JournalInv /\ CommitInv /\ CommitLeavesNothing
  BY DEF Init, JournalInv, NoFlushBesideRestore, CommitInv, CommitLeavesNothing, CommitOps, NoCall
<1> QED BY <1>2, <1>3, <1>4 DEF EngineInv

LEMMA EngineInvariant ==
  ASSUME "close" \notin Faults
  PROVE  Spec => []EngineInv
<1>1. EngineInv /\ [Next]_vars => EngineInv'
  BY QueueStep, TypeStep, JournalStep, CommitStep DEF EngineInv
<1> QED BY <1>1, InitInv, PTL DEF Spec

\* The engine's state, its queue and the call that holds the drive stay what the code declares them
\* to be; in particular a commit and a pass only ever hand on targets that pc_async_continue knows.
THEOREM EngineTypeCorrect ==
  ASSUME "close" \notin Faults
  PROVE  Spec => []EngineTypeOK
<1>1. EngineInv => EngineTypeOK
  BY DEF EngineInv
<1> QED BY <1>1, EngineInvariant, PTL

\* _set_asy_operating_flags and all that calls it keep the queue exact: for any files, any policy and
\* any failures, the engine's queue names each file that has an asynchronous operation once, and
\* nothing else, as long as no drive is closed under its engine.
THEOREM QueueCorrect ==
  ASSUME "close" \notin Faults
  PROVE  Spec => []QueueIsTheAsyncFiles
<1>1. EngineInv => QueueIsTheAsyncFiles
  BY DEF EngineInv, QueueInv
<1> QED BY <1>1, EngineInvariant, PTL

\* What _fs_api_async_flush_journal asserts holds whoever drives the engine: while a restore is under
\* way nothing else begins, a commit's flush of the disk included.
THEOREM RestoreIsExclusive ==
  ASSUME "close" \notin Faults
  PROVE  Spec => []NoFlushBesideRestore
<1>1. EngineInv => NoFlushBesideRestore
  BY DEF EngineInv, JournalInv
<1> QED BY <1>1, EngineInvariant, PTL

\* fs_flush_internal keeps its word: a commit that succeeds has left no queued file, no dirty file or
\* FAT buffer, no open session and, when it synchronizes, no flushed frame and no restore behind,
\* whatever the engine was doing and whichever triggers were set when the commit began.
THEOREM CommitCorrect ==
  ASSUME "close" \notin Faults
  PROVE  Spec => []CommitLeavesNothing
<1>1. EngineInv => CommitLeavesNothing
  BY DEF EngineInv
<1> QED BY <1>1, EngineInvariant, PTL
=============================================================================
