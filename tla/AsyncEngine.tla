---------------------------- MODULE AsyncEngine ----------------------------
(***************************************************************************)
(* The asynchronous engine of one drive (prasyintrd.c): one state machine  *)
(* that mounts the drive, works through the files queued for an open, a    *)
(* flush, a close or an unlink, flushes the FAT, flushes the journal and   *)
(* restores the volume, a pass at a time.  Applications queue work         *)
(* (prapiasyrd.c, prapiasywr.c) and drive the engine with                  *)
(* pc_async_continue; a synchronous commit (fs_flush_internal) drives it   *)
(* too.  A call holds the drive until it returns.                          *)
(*                                                                         *)
(* What is on the volume is abstracted to where the newest changes are:    *)
(* in a file, in the FAT buffers, in the open session of the journal, in   *)
(* its flushed frames or in a restore.                                     *)
(***************************************************************************)
EXTENDS Integers, Sequences, FiniteSets, SequencesExt

CONSTANTS Files,        \* the files an application works with
          OpenFiles,    \* those that are open, perhaps dirty, to begin with
          Policy,       \* drive_operating_policy: see PolicyBits
          FatPasses,    \* passes it takes to flush a dirty FAT
          FilePasses,   \* passes of an open and of a flush
          RestorePasses,
          Faults,       \* the operations that may fail: see FaultKinds
          AskedFor,     \* the targets pc_async_continue is called with
          MaxErrors,    \* bound: failures in a behaviour
          MaxRequests   \* bound: calls other than pc_async_continue

PolicyBits == {"FatFlush", "JournalFlush", "Restore", "NoAutoFlush"}
FaultKinds == {"mount", "open", "flush", "unlink", "fat", "journal", "restore", "restoreStart", "close"}

Stages == <<"Files", "FatFlush", "JournalFlush", "Restore">>
Done == [Files |-> "DoneFiles", FatFlush |-> "DoneFatFlush",
         JournalFlush |-> "DoneJournalFlush", Restore |-> "DoneRestore"]
Targets == ToSet(Stages) \cup {Done[s] : s \in ToSet(Stages)} \cup {"DoneMount", "Idle"}

ASSUME EngineParameters == /\ OpenFiles \subseteq Files
                           /\ Policy \subseteq PolicyBits
                           /\ Faults \subseteq FaultKinds
                           /\ {FatPasses, FilePasses, RestorePasses} \subseteq Nat \ {0}
                           /\ AskedFor \subseteq Targets

VARIABLES mounted,      \* DRVOP_MOUNT_VALID
          failsafe,     \* the drive has a Failsafe context
          state,        \* drive_async_state
          queue,        \* asy_file_pfirst, asy_file_pnext
          ops,          \* per file: FIOP_ASYNC_ALL_OPS of its finode
          dirty,        \* per file: FIOP_NEEDS_FLUSH
          work,         \* per file: passes the current operation takes
          owner,        \* per file: who has the descriptor
          fat,          \* passes to a clean FAT; DRVOP_FAT_IS_DIRTY iff not 0
          open,         \* the open session of the journal has blocks
          flushed,      \* there are flushed frames
          restoring,    \* passes left; FS_OP_ASYNCRESTORE iff not 0
          needs,        \* DRVOP_FS_NEEDS_FLUSH, DRVOP_FS_NEEDS_RESTORE
          once,         \* the one-shot triggers DRVOP_ASYNC_FFLUSH, ...
          call,         \* the call that holds the drive
          scan,         \* passes left of an asynchronous mount
          due,          \* where the changes an asynchronous commit promised are
          errors, requests

engine == <<mounted, failsafe, state, once, scan>>
files == <<queue, ops, dirty, work, owner>>
journal == <<open, flushed, restoring, needs>>
vars == <<engine, files, fat, journal, call, due, errors, requests>>

Triggers == {"FatFlush", "JournalFlush", "Restore"}
Operations == {"Open", "Flush", "Close", "Unlink"}
Unlimited == 0          \* "Steps == 0 is INF"
NoCall == [op |-> "none", target |-> "Idle", steps |-> 1, ret |-> "none"]
Free == call = NoCall
Running == ~Free /\ call.ret = "none"

AutoFlush == "NoAutoFlush" \notin Policy

Init ==
  /\ mounted = TRUE /\ failsafe = TRUE /\ state = "Idle"
  /\ queue = <<>>
  /\ ops = [f \in Files |-> {}]
  /\ owner = [f \in Files |-> IF f \in OpenFiles THEN "app" ELSE "none"]
  /\ dirty \in [Files -> BOOLEAN] /\ \A f \in Files \ OpenFiles : ~dirty[f]
  /\ work = [f \in Files |-> 0]
  /\ fat = 0 /\ open = FALSE /\ flushed = FALSE /\ restoring = 0
  /\ needs = {} /\ once = {} /\ scan = 0
  /\ call = NoCall
  /\ due = {} /\ errors = 0 /\ requests = 0

-----------------------------------------------------------------------------
(* Changes on their way to the volume.                                     *)

\* A write of FAT or directory blocks lands in the open session (fs_devio_write).
JournalWrite ==
  /\ open' = (open \/ failsafe)
  /\ needs' = IF failsafe THEN needs \cup {"Flush"} ELSE needs

Moved(promised, from, to) == IF promised \cap from # {} THEN (promised \ from) \cup to ELSE promised

Fails(kind) == kind \in Faults /\ errors < MaxErrors
CountError == errors' = errors + 1 /\ due' = {}

-----------------------------------------------------------------------------
(* The queue of files (_set_asy_operating_flags).                          *)

\* Variant: a file whose operation changes is queued again.
SetOpsAgain(f, new) ==
  /\ ops' = [ops EXCEPT ![f] = new]
  /\ queue' = IF new = {} THEN RemoveFirst(queue, f) ELSE Append(queue, f)

SetOps(f, new) ==
  /\ ops' = [ops EXCEPT ![f] = new]
  /\ queue' = CASE ops[f] # {} /\ new = {} -> RemoveFirst(queue, f)
                [] ops[f] = {} /\ new # {} -> Append(queue, f)
                [] OTHER -> queue

-----------------------------------------------------------------------------
(* How a pass and a call end (_pc_async_step).                             *)

\* Variant: open files that are not queued are not flushed.
AfterStageNoDiskFlush(c) ==
  CASE c.target = "DoneFiles" -> [c EXCEPT !.target = "DoneJournalFlush"]
    [] c.target = "DoneJournalFlush" /\ c.op = "Sync" -> [c EXCEPT !.target = "DoneRestore"]
    [] OTHER -> [c EXCEPT !.ret = "Complete"]

\* What comes after a stage of fs_flush_internal has completed.
AfterStage(c) ==
  CASE c.target = "DoneFiles" -> [c EXCEPT !.target = "DiskFlush"]
    [] c.target = "DiskFlush" -> [c EXCEPT !.target = "DoneJournalFlush"]
    [] c.target = "DoneJournalFlush" /\ c.op = "Sync" -> [c EXCEPT !.target = "DoneRestore"]
    [] OTHER -> [c EXCEPT !.ret = "Complete"]

StepReturns(ret) ==
  call' = IF call.op # "Continue" /\ ret = "Complete" THEN AfterStage(call)
          ELSE [call EXCEPT !.ret = ret]

SpendStep == IF call.steps = Unlimited THEN UNCHANGED call ELSE StepReturns("Continue")

\* The engine's own state after a pass of a stage that returned ret.
Ends(stage, ret) ==
  /\ state' = IF ret = "Continue" THEN state ELSE "Idle"
  /\ CASE ret = "Error" -> StepReturns("Error")
       [] ret = "Complete" /\ stage # "Files" /\ call.target = Done[stage]
            -> StepReturns("Complete")
       [] OTHER -> SpendStep

-----------------------------------------------------------------------------
(* Which stage comes next (_pc_async_transition).                          *)

Asked(triggers) == (once \cup Policy) \cap triggers # {}

Pending(stage) ==
  CASE stage = "Files" -> queue # <<>>
    [] stage = "FatFlush" -> fat # 0 /\ Asked({"FatFlush", "JournalFlush"})
    [] stage = "JournalFlush" -> "Flush" \in needs /\ Asked({"JournalFlush"})
    [] stage = "Restore" -> "Restore" \in needs /\ Asked({"Restore"})

\* The first stage there is work for, 5 if there is none.
NextStage == SelectInSeq(Stages, Pending)
TargetStage == SelectInSeq(Stages, LAMBDA s : Done[s] = call.target)

Engine == Running /\ call.target # "DiskFlush"

\* Nothing is pending up to the stage the caller asked for, or nothing at all.
Reached ==
  /\ Engine
  /\ \/ state = "Idle" /\ (NextStage = 0 \/ TargetStage \in 1 .. NextStage - 1)
     \/ state # "Mount" /\ call.target = "DoneMount"
  /\ StepReturns("Complete")
  /\ UNCHANGED <<engine, files, fat, journal, due, errors, requests>>

\* Variant: the one-shot trigger is kept until there is nothing left to do.
BeginKeepsTrigger ==
  /\ Engine /\ state = "Idle" /\ call.target # "DoneMount"
  /\ NextStage # 0 /\ TargetStage \notin 1 .. NextStage - 1
  /\ state' = Stages[NextStage]
  /\ IF call.target = Stages[NextStage] THEN StepReturns("Complete") ELSE UNCHANGED call
  /\ UNCHANGED <<mounted, failsafe, once, scan, files, fat, journal, due, errors, requests>>

\* A stage begins; its one-shot trigger is used up.
Begin ==
  /\ Engine /\ state = "Idle" /\ call.target # "DoneMount"
  /\ NextStage # 0 /\ TargetStage \notin 1 .. NextStage - 1
  /\ state' = Stages[NextStage]
  /\ once' = once \ {Stages[NextStage]}
  /\ IF call.target = Stages[NextStage] THEN StepReturns("Complete") ELSE UNCHANGED call
  /\ UNCHANGED <<mounted, failsafe, scan, files, fat, journal, due, errors, requests>>

-----------------------------------------------------------------------------
(* A pass over the first file (_pc_efilio_async_continue).                 *)

Current == Head(queue)
InStage(stage) == Engine /\ state = stage /\ call.target # "DoneMount"
FilePass == InStage("Files") /\ queue # <<>>

\* The file leaves the queue, and the descriptor is freed if closes holds.
Leaves(f, closes) ==
  /\ SetOps(f, {})
  /\ work' = [work EXCEPT ![f] = 0]
  /\ owner' = IF closes THEN [owner EXCEPT ![f] = "none"] ELSE owner

\* Variant: each pass starts again at the first cluster of the file.
OneMorePassAgain(f) ==
  /\ Ends("Files", "Continue")
  /\ UNCHANGED <<queue, ops, dirty, work, owner>>

OneMorePass(f) ==
  /\ work' = [work EXCEPT ![f] = @ - 1]
  /\ Ends("Files", "Continue")
  /\ UNCHANGED <<queue, ops, dirty, owner>>

OpenPass ==
  /\ FilePass /\ "Open" \in ops[Current]
  /\ \/ work[Current] > 1 /\ OneMorePass(Current) /\ UNCHANGED due
     \/ /\ work[Current] = 1 /\ ops[Current] = {"Open"}
        /\ Leaves(Current, FALSE)
        /\ due' = due \ {Current}
        /\ Ends("Files", "Complete")
        /\ UNCHANGED dirty
     \/ \* The chain of a file to delete is loaded: pc_queue_file_unlink truncates it.
        /\ work[Current] = 1 /\ "Unlink" \in ops[Current]
        /\ SetOps(Current, {"Unlink", "Flush"})
        /\ dirty' = [dirty EXCEPT ![Current] = TRUE]
        /\ work' = [work EXCEPT ![Current] = FilePasses]
        /\ Ends("Files", "Continue")
        /\ UNCHANGED <<owner, due>>
  /\ UNCHANGED <<mounted, failsafe, once, scan, fat, journal, errors, requests>>

\* The load fails: the descriptor is freed.
OpenFails ==
  /\ FilePass /\ "Open" \in ops[Current] /\ Fails("open") /\ CountError
  /\ Leaves(Current, TRUE)
  /\ Ends("Files", "Error")
  /\ UNCHANGED <<mounted, failsafe, once, scan, dirty, fat, journal, requests>>

\* The truncation fails: the file keeps FIOP_ASYNC_UNLINK alone.
UnlinkFails ==
  /\ FilePass /\ {"Open", "Unlink"} \subseteq ops[Current] /\ work[Current] = 1
  /\ Fails("unlink") /\ CountError
  /\ SetOps(Current, {"Unlink"})
  /\ Ends("Files", "Error")
  /\ UNCHANGED <<mounted, failsafe, once, scan, dirty, work, owner, fat, journal, requests>>

\* Clusters are linked, or freed, in the FAT (_pc_efilio32_flush with a limit).
LinkPass ==
  /\ FilePass /\ "Flush" \in ops[Current] /\ dirty[Current] /\ work[Current] > 1
  /\ OneMorePass(Current)
  /\ fat' = FatPasses
  /\ UNCHANGED <<mounted, failsafe, once, scan, journal, due, errors, requests>>

\* The last pass writes the directory entry, and the FAT unless automatic
\* flushes are off.
FileWritten ==
  /\ FilePass /\ "Flush" \in ops[Current] /\ (dirty[Current] => work[Current] = 1)
  /\ dirty' = [dirty EXCEPT ![Current] = FALSE]
  /\ fat' = CASE ~dirty[Current] -> fat [] dirty[Current] /\ AutoFlush -> 0 [] OTHER -> FatPasses
  /\ IF dirty[Current] \/ "Unlink" \in ops[Current] THEN JournalWrite ELSE UNCHANGED <<open, needs>>

\* The flush is complete; the file is closed, or removed and closed.
LastPass ==
  /\ FileWritten
  /\ Leaves(Current, {"Close", "Unlink"} \cap ops[Current] # {})
  /\ due' = CASE ~dirty[Current] -> Moved(due, {Current}, IF "Unlink" \in ops[Current] THEN {"open"} ELSE {})
              [] dirty[Current] /\ AutoFlush -> Moved(due, {Current, "fat"}, {"open"})
              [] OTHER -> Moved(due, {Current}, {"fat", "open"})
  /\ Ends("Files", "Complete")
  /\ UNCHANGED <<mounted, failsafe, once, scan, flushed, restoring, errors, requests>>

\* pc_rmnode fails after the flush was announced as a success.
RemoveFails ==
  /\ FileWritten
  /\ "Unlink" \in ops[Current] /\ Fails("unlink") /\ CountError
  /\ Leaves(Current, TRUE)
  /\ Ends("Files", "Error")
  /\ UNCHANGED <<mounted, failsafe, once, scan, flushed, restoring, requests>>

\* A flush fails: "Make sure close doesn't try to flush".
FlushFails ==
  /\ FilePass /\ "Flush" \in ops[Current] /\ dirty[Current]
  /\ Fails(IF "Unlink" \in ops[Current] THEN "unlink" ELSE "flush") /\ CountError
  /\ Leaves(Current, FALSE)
  /\ dirty' = [dirty EXCEPT ![Current] = FALSE]
  /\ Ends("Files", "Error")
  /\ UNCHANGED <<mounted, failsafe, once, scan, fat, journal, requests>>

\* "Default COMPLETE processing".
DefaultPass ==
  /\ FilePass /\ ops[Current] \cap {"Open", "Flush"} = {}
  /\ Leaves(Current, FALSE)
  /\ due' = due \ {Current}
  /\ Ends("Files", "Complete")
  /\ UNCHANGED <<mounted, failsafe, once, scan, dirty, fat, journal, errors, requests>>

-----------------------------------------------------------------------------
(* The FAT, the journal and the volume.                                    *)

\* pc_async_flush_fat_blocks writes one run of dirty sectors.
FatFlushPass ==
  /\ InStage("FatFlush")
  /\ fat' = IF fat = 0 THEN 0 ELSE fat - 1
  /\ IF fat = 0 THEN UNCHANGED <<open, needs>> ELSE JournalWrite
  /\ due' = IF fat' = 0 THEN Moved(due, {"fat"}, {"open"}) ELSE due
  /\ Ends("FatFlush", IF fat' = 0 THEN "Complete" ELSE "Continue")
  /\ UNCHANGED <<mounted, failsafe, once, scan, files, flushed, restoring, errors, requests>>

FatFlushFails ==
  /\ InStage("FatFlush") /\ Fails("fat") /\ CountError
  /\ Ends("FatFlush", "Error")
  /\ UNCHANGED <<mounted, failsafe, once, scan, files, fat, journal, requests>>

\* _fs_api_async_flush_journal: a dirty FAT first, then the open session.
FlushJournal ==
  /\ fat' = 0
  /\ open' = FALSE
  /\ needs' = (needs \ {"Flush"}) \cup {"Restore"}

JournalFlushed == flushed \/ open \/ fat # 0

JournalFlushPass ==
  /\ InStage("JournalFlush") /\ restoring = 0
  /\ FlushJournal
  /\ flushed' = JournalFlushed
  /\ due' = Moved(due, {"fat", "open"}, {"flushed"})
  /\ Ends("JournalFlush", "Complete")
  /\ UNCHANGED <<mounted, failsafe, once, scan, files, restoring, errors, requests>>

JournalFlushFails ==
  /\ \/ InStage("JournalFlush") /\ Fails("journal")
     \/ InStage("Restore") /\ restoring = 0 /\ Fails("journal")
  /\ CountError
  /\ Ends(state, "Error")
  /\ UNCHANGED <<mounted, failsafe, once, scan, files, fat, journal, requests>>

\* A restore begins with what has been written since the flush
\* (_fs_api_async_commit_continue, fs_restore_from_session_start).
RestoreStart ==
  /\ InStage("Restore") /\ restoring = 0
  /\ FlushJournal
  /\ flushed' = FALSE
  /\ IF JournalFlushed
     THEN /\ restoring' = RestorePasses
          /\ due' = Moved(due, {"fat", "open", "flushed"}, {"restoring"})
          /\ Ends("Restore", "Continue")
     ELSE \* "no records flushed so far": DRVOP_FS_NEEDS_RESTORE stays.
          /\ Ends("Restore", "Complete")
          /\ UNCHANGED <<restoring, due>>
  /\ UNCHANGED <<mounted, failsafe, once, scan, files, errors, requests>>

\* The session has been handed to the restore when its first pass fails.
RestoreStartFails ==
  /\ InStage("Restore") /\ restoring = 0 /\ JournalFlushed
  /\ Fails("restoreStart") /\ CountError
  /\ FlushJournal
  /\ flushed' = FALSE
  /\ Ends("Restore", "Error")
  /\ UNCHANGED <<mounted, failsafe, once, scan, files, restoring, requests>>

RestorePass ==
  /\ InStage("Restore") /\ restoring > 0
  /\ restoring' = restoring - 1
  /\ IF restoring' > 0
     THEN Ends("Restore", "Continue") /\ UNCHANGED <<needs, due>>
     ELSE /\ needs' = needs \ {"Restore"}
          /\ due' = due \ {"restoring"}
          /\ Ends("Restore", "Complete")
  /\ UNCHANGED <<mounted, failsafe, once, scan, files, fat, open, flushed, errors, requests>>

\* Variant: the restore buffer is not released when a pass fails.
RestoreFailsHalfway ==
  /\ InStage("Restore") /\ restoring > 0 /\ Fails("restore") /\ CountError
  /\ needs' = needs \ {"Restore"}
  /\ Ends("Restore", "Error")
  /\ UNCHANGED <<mounted, failsafe, once, scan, files, fat, open, flushed, restoring, requests>>

RestoreFails ==
  /\ InStage("Restore") /\ restoring > 0 /\ Fails("restore") /\ CountError
  /\ restoring' = 0
  /\ needs' = needs \ {"Restore"}
  /\ Ends("Restore", "Error")
  /\ UNCHANGED <<mounted, failsafe, once, scan, files, fat, open, flushed, requests>>

\* The stage of a synchronous commit that is not the engine's: _pc_diskflush.
CommitFlushesDisk ==
  /\ Running /\ call.target = "DiskFlush"
  /\ dirty' = [f \in Files |-> FALSE]
  /\ fat' = 0
  /\ IF fat # 0 \/ \E f \in Files : dirty[f] THEN JournalWrite ELSE UNCHANGED <<open, needs>>
  /\ due' = Moved(due, {"fat"}, {"open"})
  /\ StepReturns("Complete")
  /\ UNCHANGED <<engine, queue, ops, work, owner, flushed, restoring, errors, requests>>

CommitFlushFails ==
  /\ Running /\ call.target = "DiskFlush" /\ Fails("fat") /\ CountError
  /\ StepReturns("Error")
  /\ UNCHANGED <<engine, files, fat, journal, requests>>

-----------------------------------------------------------------------------
(* An asynchronous mount: the FAT is scanned for its free space.           *)

MountPass ==
  /\ Running /\ state = "Mount" /\ scan > 0
  /\ scan' = scan - 1
  /\ state' = IF scan' = 0 THEN "Idle" ELSE state
  /\ IF scan' = 0 THEN call' = [call EXCEPT !.ret = "Complete"] ELSE SpendStep
  /\ UNCHANGED <<mounted, failsafe, once, files, fat, journal, due, errors, requests>>

\* The drive stays marked as mounted.
MountFails ==
  /\ Running /\ state = "Mount" /\ Fails("mount") /\ CountError
  /\ scan' = 0
  /\ state' = "Idle"
  /\ call' = [call EXCEPT !.ret = "Error"]
  /\ UNCHANGED <<mounted, failsafe, once, files, fat, journal, requests>>

-----------------------------------------------------------------------------
(* The calls of an application.                                            *)

\* Calls fail with PEEINPROGRESS while a mount is in progress.
ApiCall == /\ Free /\ state # "Mount" /\ requests < MaxRequests
           /\ requests' = requests + 1

FileCall(f) == ApiCall /\ mounted /\ owner[f] = "app" /\ ops[f] = {}

\* Data or size of an open file changes: its chain and entry are to be written.
WriteFile(f) ==
  /\ FileCall(f) /\ ~dirty[f]
  /\ dirty' = [dirty EXCEPT ![f] = TRUE]
  /\ UNCHANGED <<engine, queue, ops, work, owner, fat, journal, call, due, errors>>

\* A call such as pc_mkdir: directory blocks, and the FAT.
ChangeVolume ==
  /\ ApiCall /\ mounted
  /\ JournalWrite
  /\ fat' = IF AutoFlush THEN 0 ELSE FatPasses
  /\ due' = IF AutoFlush THEN Moved(due, {"fat"}, {"open"}) ELSE due
  /\ UNCHANGED <<engine, files, flushed, restoring, call, errors>>

\* pc_efilio_open with PCE_ASYNC_OPEN, pc_efilio_async_unlink_start.
Start(f, new, who) ==
  /\ ApiCall /\ mounted
  /\ owner[f] = "none"
  /\ owner' = [owner EXCEPT ![f] = who]
  /\ SetOps(f, new)
  /\ work' = [work EXCEPT ![f] = FilePasses]
  /\ dirty' = [dirty EXCEPT ![f] = FALSE]
  /\ UNCHANGED <<engine, fat, journal, call, due, errors>>

OpenStart(f) == Start(f, {"Open"}, "app")
UnlinkStart(f) == Start(f, {"Open", "Unlink"}, "engine")

\* pc_efilio_async_flush_start, pc_efilio_async_close_start.
FlushStart(f, new) ==
  /\ FileCall(f)
  /\ SetOps(f, new)
  /\ work' = [work EXCEPT ![f] = FilePasses]
  /\ UNCHANGED <<engine, dirty, owner, fat, journal, call, due, errors>>

\* pc_diskio_async_flush_start
FatFlushStart ==
  /\ ApiCall /\ mounted /\ fat # 0
  /\ once' = once \cup {"FatFlush"}
  /\ UNCHANGED <<mounted, failsafe, state, scan, files, fat, journal, call, due, errors>>

\* Variant: an asynchronous commit does not ask for the restore.
CommitStartFlushes ==
  /\ ApiCall /\ mounted /\ failsafe
  /\ once' = {"FatFlush", "JournalFlush"}
  /\ due' = ToSet(queue) \cup (IF fat # 0 THEN {"fat"} ELSE {})
            \cup (IF open THEN {"open"} ELSE {})
            \cup (IF flushed THEN {"flushed"} ELSE {})
            \cup (IF restoring # 0 THEN {"restoring"} ELSE {})
  /\ UNCHANGED <<mounted, failsafe, state, scan, files, fat, journal, call, errors>>

\* fs_api_async_commit_start promises what is queued or buffered at this point.
CommitStart ==
  /\ ApiCall /\ mounted /\ failsafe
  /\ once' = Triggers
  /\ due' = ToSet(queue) \cup (IF fat # 0 THEN {"fat"} ELSE {})
            \cup (IF open THEN {"open"} ELSE {})
            \cup (IF flushed THEN {"flushed"} ELSE {})
            \cup (IF restoring # 0 THEN {"restoring"} ELSE {})
  /\ UNCHANGED <<mounted, failsafe, state, scan, files, fat, journal, call, errors>>

\* pc_diskflush: the files and the FAT, beside whatever the engine is doing.
DiskFlush ==
  /\ ApiCall /\ mounted
  /\ dirty' = [f \in Files |-> FALSE]
  /\ fat' = 0
  /\ IF fat # 0 \/ \E f \in Files : dirty[f] THEN JournalWrite ELSE UNCHANGED <<open, needs>>
  /\ due' = Moved(due, {f \in Files : dirty[f]} \cup {"fat"}, {"open"})
  /\ UNCHANGED <<engine, queue, ops, work, owner, flushed, restoring, call, errors>>

\* fs_flush_internal, from fs_api_commit or an automatic commit at a call's end.
Commit(op) ==
  /\ ApiCall /\ mounted /\ failsafe
  /\ once' = once \cup (IF op = "Sync" THEN Triggers ELSE {"FatFlush", "JournalFlush"})
  /\ call' = [op |-> op, target |-> "DoneFiles", steps |-> Unlimited, ret |-> "none"]
  /\ UNCHANGED <<mounted, failsafe, state, scan, files, fat, journal, due, errors>>

\* pc_async_continue, which does not ask whether the drive is mounted.
Continue(target, steps) ==
  /\ Free
  /\ call' = [op |-> "Continue", target |-> target, steps |-> steps, ret |-> "none"]
  /\ UNCHANGED <<engine, files, fat, journal, due, errors, requests>>

Return ==
  /\ call.ret # "none" /\ ~Free
  /\ call' = NoCall
  /\ UNCHANGED <<engine, files, fat, journal, due, errors, requests>>

\* pc_diskclose: files are closed and not flushed, the rest of the drive's
\* state stays as it is until the next mount.
DiskClose ==
  /\ ApiCall /\ mounted
  /\ (queue # <<>> \/ state # "Idle" => "close" \in Faults)
  /\ mounted' = FALSE /\ state' = "Idle"
  /\ ops' = [f \in Files |-> {}] /\ dirty' = [f \in Files |-> FALSE]
  /\ work' = [f \in Files |-> 0] /\ owner' = [f \in Files |-> "none"]
  /\ due' = {}
  /\ UNCHANGED <<failsafe, scan, once, queue, fat, journal, call, errors>>

\* pc_i_dskopen; the asynchronous variant never comes to fs_failsafe_dskopen.
Mount(async) ==
  /\ ApiCall /\ ~mounted /\ state = "Idle"
  /\ mounted' = TRUE
  /\ failsafe' = ~async
  /\ state' = IF async THEN "Mount" ELSE "Idle"
  /\ scan' = IF async THEN FatPasses ELSE 0
  /\ queue' = <<>> /\ once' = {} /\ needs' = {}
  /\ fat' = 0 /\ open' = FALSE /\ flushed' = FALSE /\ restoring' = 0
  /\ UNCHANGED <<ops, dirty, work, owner, call, due, errors>>

-----------------------------------------------------------------------------
FileStep == \/ OpenPass \/ OpenFails \/ UnlinkFails
            \/ LinkPass \/ LastPass \/ FlushFails \/ RemoveFails \/ DefaultPass

VolumeStep == \/ FatFlushPass \/ FatFlushFails \/ JournalFlushPass \/ JournalFlushFails
              \/ RestoreStart \/ RestoreStartFails \/ RestorePass \/ RestoreFails
              \/ CommitFlushesDisk \/ CommitFlushFails

EngineStep == Reached \/ Begin \/ FileStep \/ VolumeStep \/ MountPass \/ MountFails \/ Return

Request == \/ \E f \in Files : \/ WriteFile(f) \/ OpenStart(f) \/ UnlinkStart(f)
                              \/ FlushStart(f, {"Flush"}) \/ FlushStart(f, {"Flush", "Close"})
           \/ ChangeVolume \/ FatFlushStart \/ CommitStart \/ DiskFlush
           \/ \E op \in {"Sync", "Journal"} : Commit(op)
           \/ DiskClose \/ \E async \in BOOLEAN : Mount(async)

Next == \/ EngineStep \/ Request
        \/ \E target \in AskedFor, steps \in {1, Unlimited} : Continue(target, steps)

\* A call runs in its caller's thread, and some thread keeps the engine going
\* ("for (;;) { pc_async_continue(0, DRV_ASYNC_IDLE, 1); Sleep(100); }"), which
\* gets the drive again and again even if others want it all the time.
Spec == Init /\ [][Next]_vars
FairSpec == Spec /\ WF_vars(EngineStep) /\ SF_vars(Continue("Idle", 1))

-----------------------------------------------------------------------------

\* The queue names every file with an asynchronous operation once, in a descriptor that is open, and
\* no other file ("verify not already on the list", _set_asy_operating_flags): what the engine takes
\* from the queue is a file it may work on, and no operation is left behind.
QueueIsTheAsyncFiles ==
  /\ IsInjective(queue)
  /\ ToSet(queue) = {f \in Files : ops[f] # {}}
  /\ \A f \in Files : ops[f] # {} => owner[f] # "none"

\* The journal is never flushed while a restore is between two passes (_fs_api_async_flush_journal
\* asserts it): whoever drives the engine, with whatever target, a restore that began is finished or
\* has failed before another stage begins.
NoFlushBesideRestore == restoring # 0 => state = "Restore" /\ call.target # "DiskFlush"

\* A commit that returns success has left nothing behind in queued files, open files, FAT buffers or
\* the open session and, if it was to synchronize the volume, nothing to restore, whatever the engine
\* was in the middle of when the commit began (fs_flush_internal).
CommitLeavesNothing ==
  call.op \in {"Sync", "Journal"} /\ call.ret = "Complete" =>
    /\ queue = <<>> /\ \A f \in Files : ~dirty[f]
    /\ fat = 0 /\ ~open /\ restoring = 0
    /\ call.op = "Sync" => ~flushed

\* What an asynchronous commit promised comes to the volume, or an error is reported, however the
\* application goes on changing files and directories in the meantime (fs_api_async_commit_start).
PromisesAreKept == due # {} ~> due = {}

\* A file that is queued leaves the queue (pc_async_continue as a background process).
QueuedFilesFinish == \A f \in Files : ops[f] # {} ~> ops[f] = {}

\* A call returns, also one with an unlimited number of steps.
EngineReturns == ~Free ~> Free
=============================================================================
