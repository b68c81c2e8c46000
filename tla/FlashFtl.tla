------------------------------ MODULE FlashFtl ------------------------------
(***************************************************************************)
(* The flash translation layer (rtfsdrivers/norflash/drflsftl.c): sectors  *)
(* on the erase blocks of a NOR flash.  A sector is never written in       *)
(* place: its new contents go to a sector that is still erased, and the    *)
(* old one is marked deleted.  One block is kept spare; when erased        *)
(* sectors run out the valid sectors of a block are copied to the spare    *)
(* one, which takes its place.  A mount repairs what a power failure has   *)
(* interrupted and rebuilds the map of the sectors.                        *)
(*                                                                         *)
(* A step of a call takes effect in memory at once and leaves its flash    *)
(* operations, in their order, in io; the power may fail between any two.  *)
(***************************************************************************)
EXTENDS Integers, Sequences, FiniteSets, SequencesExt, FiniteSetsExt

CONSTANTS
    TotalBlocks, SectorsPerBlock,
    ContentsOf,        \* sector -> contents it may have; 0 is all zeros
    MaxRequest,        \* bound: sectors of one request
    EraseThreshold,    \* ERASE_THRESHOLD
    Kinds,             \* the flashes explored: MAX_ERASE_COUNT, and whether the power may fail
    CrashInFormat      \* the power may fail while the flash is formatted

ASSUME FlashAssumption ==
    /\ TotalBlocks \in Nat /\ TotalBlocks >= 2
    /\ SectorsPerBlock \in Nat \ {0}
    /\ \A s \in DOMAIN ContentsOf : ContentsOf[s] \subseteq Nat
    /\ EraseThreshold \in Nat /\ EraseThreshold >= 2
    /\ Kinds \subseteq [erases : Nat \ {0}, fails : BOOLEAN]
    /\ CrashInFormat \in BOOLEAN

VARIABLES
    kind,             \* which of Kinds the flash is
    flash,            \* erase block -> its header and its sectors
    \* RTFDrvFlashData
    SectorMap,        \* logical sector -> physical sector
    AvailSectors, LastAvailBlock,
    request,          \* sectors of the call and their new contents
    must_update,      \* those that are not processed yet
    mode,             \* "off", "format", "map", "up"
    io,               \* flash operations still to be done
    recopied          \* auxiliary: a mount has mapped the sectors it copied itself

memVars == <<SectorMap, AvailSectors, LastAvailBlock>>
flashVars == <<kind, flash, memVars, request, must_update, mode, io, recopied>>

Block == 0 .. TotalBlocks - 1
Index == 0 .. SectorsPerBlock - 1
Sector == 0 .. SectorsPerBlock * (TotalBlocks - 1) - 1

\* Physical sectors are numbered through the blocks.
Physical == 0 .. SectorsPerBlock * TotalBlocks - 1
BlockOf(p) == p \div SectorsPerBlock
IndexOf(p) == p % SectorsPerBlock
NoSector == -1
NoBlock == -1

INVALID_ERASE_COUNT == kind.erases + 1
Contents == {0} \union UNION {ContentsOf[s] : s \in Sector}
Erased ==
    [id |-> "virgine", count |-> INVALID_ERASE_COUNT,
     sector |-> [i \in Index |-> [status |-> "avail", logical |-> NoSector, val |-> NoSector]]]

NoRequest == [s \in {} |-> 0]
Done == io = <<>>

-----------------------------------------------------------------------------
(* Flash operations *)

EraseBlock(b) == <<[op |-> "erase", at |-> b]>>
ProgramId(b, id) == <<[op |-> "id", at |-> b, val |-> id]>>
ProgramCount(b, count) == <<[op |-> "count", at |-> b, val |-> count]>>
\* The info and the data of a sector are programmed one after the other; until
\* it is valid neither is read, so they are one operation here.
ProgramSector(p, s, c) == <<[op |-> "write", at |-> p, logical |-> s, val |-> c]>>
ProgramStatus(p, status) == <<[op |-> "status", at |-> p, val |-> status]>>

\* A program operation clears bits only: in this order the values of a status
\* have fewer and fewer bits set.  Otherwise it fails and changes nothing.
Statuses == <<"avail", "writing", "valid", "deleted">>
Ids == <<"virgine", "data", "copying", "spare">>
Clears(order, from, to) ==
    \E i, j \in 1 .. 4 : i <= j /\ order[i] = from /\ order[j] = to

\* What a deleted sector or a spare block holds is never read again: it is
\* forgotten here.
Deleted == [status |-> "deleted", logical |-> NoSector, val |-> NoSector]
Spared(sectors) == [i \in Index |-> IF sectors[i].status = "avail" THEN sectors[i] ELSE Deleted]

SectorAt(f, p) == f[BlockOf(p)].sector[IndexOf(p)]
At(p) == SectorAt(flash, p)
SetSector(f, p, new) == [f EXCEPT ![BlockOf(p)].sector[IndexOf(p)] = new]

Apply(f, w) ==
    CASE w.op = "erase" -> [f EXCEPT ![w.at] = Erased]
      [] w.op = "header" -> [f EXCEPT ![w.at].id = w.val, ![w.at].count = 1]
      [] w.op = "id" -> IF ~Clears(Ids, f[w.at].id, w.val) THEN f
                        ELSE IF w.val # "spare" THEN [f EXCEPT ![w.at].id = w.val]
                        ELSE [f EXCEPT ![w.at].id = w.val, ![w.at].sector = Spared(@)]
      [] w.op = "count" -> IF f[w.at].count = INVALID_ERASE_COUNT
                           THEN [f EXCEPT ![w.at].count = w.val] ELSE f
      [] w.op = "write" -> IF SectorAt(f, w.at).status # "avail" THEN f
                           ELSE SetSector(f, w.at, [status |-> "writing", logical |-> w.logical,
                                                    val |-> w.val])
      [] w.op = "status" -> IF ~Clears(Statuses, SectorAt(f, w.at).status, w.val) THEN f
                            ELSE IF w.val = "deleted" THEN SetSector(f, w.at, Deleted)
                            ELSE SetSector(f, w.at, [SectorAt(f, w.at) EXCEPT !.status = w.val])

FlashStep ==
    /\ ~Done
    /\ flash' = Apply(flash, Head(io))
    /\ io' = Tail(io)
    /\ UNCHANGED <<kind, memVars, request, must_update, mode, recopied>>

WriteSector(p, s, c) == ProgramSector(p, s, c) \o ProgramStatus(p, "valid")
DeletePhysicalSector(p) == IF p = NoSector THEN <<>> ELSE ProgramStatus(p, "deleted")

-----------------------------------------------------------------------------
(* Finding sectors *)

Least(S) == IF S = {} THEN NoSector ELSE Min(S)

LocateSector(s) == SectorMap[s]

\* Variant: the old sector is deleted before the new one is written.
ReplaceDeletesFirst(old, p, s, c) == DeletePhysicalSector(old) \o WriteSector(p, s, c)
Replace(old, p, s, c) == WriteSector(p, s, c) \o DeletePhysicalSector(old)

\* CheckAvail: a block has erased sectors if its last one is.
Avail(b) ==
    IF b # NoBlock /\ flash[b].id = "data" /\ flash[b].sector[SectorsPerBlock - 1].status = "avail"
    THEN Least({p \in Physical : BlockOf(p) = b /\ At(p).status = "avail"}) ELSE NoSector

LocateAvailSector ==
    IF AvailSectors = 0 \/ LastAvailBlock = NoBlock THEN NoSector
    ELSE IF Avail(LastAvailBlock) # NoSector THEN Avail(LastAvailBlock)
    ELSE Least({Avail(b) : b \in Block} \ {NoSector})

InOrder(S) == SetToSortSeq(S, <)
Flat(ops) == FlattenSeq(ops)

-----------------------------------------------------------------------------
(* CopyBlock: the valid sectors of a block go to the spare one *)

CopyCount(source, target, min) ==
    LET old == flash[target].count
        new == IF old = INVALID_ERASE_COUNT THEN flash[source].count ELSE old + 1
        raised == IF new < min THEN min ELSE new
    IN  IF raised > kind.erases THEN kind.erases ELSE raised

WithStatus(b, status) == {p \in Physical : BlockOf(p) = b /\ At(p).status = status}
ValidIn(b) == InOrder(WithStatus(b, "valid"))
CopyTo(target, n) == target * SectorsPerBlock + n - 1

\* The new contents of a sector of the request are written instead of the old.
Copied(p, fresh) == IF At(p).logical \in fresh THEN request[At(p).logical] ELSE At(p).val

EraseTarget(target) == IF flash[target].count = INVALID_ERASE_COUNT THEN <<>> ELSE EraseBlock(target)

SwapBlocks(source, target) == ProgramId(source, "spare") \o ProgramId(target, "data")

CopyOperations(source, target, min, fresh) ==
    ProgramId(source, "copying")
    \o EraseTarget(target)
    \o ProgramCount(target, CopyCount(source, target, min))
    \o Flat([n \in 1 .. Len(ValidIn(source)) |->
               LET p == ValidIn(source)[n]
               IN  WriteSector(CopyTo(target, n), At(p).logical, Copied(p, fresh))])
    \o SwapBlocks(source, target)

\* Variant: the erased sectors of the source are counted once more.
WonOver(source) == SectorsPerBlock - Cardinality(WithStatus(source, "valid"))
Won(source) == WonOver(source) - Cardinality(WithStatus(source, "avail"))

CopyBlock(source, target, min, fresh) ==
    LET valid == ValidIn(source)
        moved == {At(valid[n]).logical : n \in 1 .. Len(valid)}
        place(s) == CHOOSE n \in 1 .. Len(valid) : At(valid[n]).logical = s
    IN  /\ io' = CopyOperations(source, target, min, fresh)
        /\ SectorMap' = [s \in Sector |-> IF s \in moved THEN CopyTo(target, place(s))
                                        ELSE SectorMap[s]]
        /\ must_update' = must_update \ moved
        /\ AvailSectors' = AvailSectors + Won(source)
        /\ LastAvailBlock' = IF Len(valid) < SectorsPerBlock THEN target ELSE LastAvailBlock

-----------------------------------------------------------------------------
(* FindNewSpare: the block to copy, with wear levelling *)

Spare == Max({b \in Block : flash[b].id = "spare"})
DataBlocks == {b \in Block : flash[b].id = "data"}

\* Sectors a copy would win.
RecoverCount(b) ==
    Cardinality({p \in Physical : /\ BlockOf(p) = b
                                  /\ \A q \in Physical :
                                        BlockOf(q) = b /\ q < p => At(q).status # "avail"
                                  /\ \/ At(p).status = "deleted"
                                     \/ At(p).status = "valid" /\ At(p).logical \in must_update})

MaxRecoverCount == Max({RecoverCount(b) : b \in DataBlocks})
\* Variant: a block erased least, whatever it wins.
ErasedLeast == {b \in DataBlocks : \A c \in DataBlocks : flash[b].count <= flash[c].count}
\* Blocks that win most, among them those erased least; any of them.
MaxRecoverBlocks ==
    LET most == {b \in DataBlocks : RecoverCount(b) = MaxRecoverCount}
    IN  {b \in most : \A c \in most : flash[b].count <= flash[c].count}

HighestCount == Max({flash[b].count : b \in DataBlocks} \union {flash[Spare].count + 1})
LowestCount == Min({flash[b].count : b \in DataBlocks})
MinEraseBlock == Min({b \in DataBlocks : flash[b].count = LowestCount})

LevelWear ==
    /\ flash[Spare].count + 1 >= HighestCount
    /\ HighestCount - LowestCount >= EraseThreshold

NewSpareBlocks == IF LevelWear THEN {MinEraseBlock} ELSE MaxRecoverBlocks

\* dword arithmetic: a difference below zero is taken for 0.
MinEraseCount ==
    IF HighestCount + 1 >= EraseThreshold THEN HighestCount - EraseThreshold + 1 ELSE 0

-----------------------------------------------------------------------------
(* Calls *)

FlashInit ==
    /\ kind \in Kinds
    /\ flash = [b \in Block |-> Erased]
    /\ SectorMap = [s \in Sector |-> NoSector]
    /\ AvailSectors = 0 /\ LastAvailBlock = NoBlock
    /\ request = NoRequest /\ must_update = {}
    /\ mode = "off" /\ io = <<>> /\ recopied = FALSE

Busy == DOMAIN request # {}

\* WriteFlashSectors, its first loop: a sector of zeros is not stored at all,
\* one that has its contents already is left alone.
WriteCall ==
    /\ mode = "up" /\ Done /\ ~Busy
    /\ \E first \in Sector, n \in 1 .. MaxRequest :
          /\ first + n - 1 \in Sector
          /\ request' \in [first .. first + n - 1 -> Contents]
          /\ \A s \in DOMAIN request' : request'[s] \in ContentsOf[s]
    /\ LET asked == DOMAIN request'
           zeros == {s \in asked : request'[s] = 0}
           same == {s \in asked \ zeros : /\ LocateSector(s) # NoSector
                                          /\ At(LocateSector(s)).val = request'[s]}
       IN  /\ must_update' = asked \ (zeros \union same)
           /\ io' = Flat([n \in 1 .. Cardinality(zeros) |->
                            DeletePhysicalSector(LocateSector(InOrder(zeros)[n]))])
           /\ SectorMap' = [s \in Sector |-> IF s \in zeros THEN NoSector ELSE SectorMap[s]]
    /\ UNCHANGED <<kind, flash, AvailSectors, LastAvailBlock, mode, recopied>>

\* WriteFlashSectors, the loop while (AvailSectors < SectorsLeft).
Collect ==
    /\ mode = "up" /\ Done
    /\ AvailSectors < Cardinality(must_update)
    /\ MaxRecoverCount > 0
    /\ \E source \in NewSpareBlocks :
          CopyBlock(source, Spare, MinEraseCount, must_update)
    /\ UNCHANGED <<kind, flash, request, mode, recopied>>

\* The loop while (SectorsLeft > 0).
WriteNext ==
    /\ mode = "up" /\ Done /\ must_update # {}
    /\ AvailSectors >= Cardinality(must_update)
    /\ LocateAvailSector # NoSector
    /\ LET s == Min(must_update)
           p == LocateAvailSector
       IN  /\ io' = Replace(LocateSector(s), p, s, request[s])
           /\ SectorMap' = [SectorMap EXCEPT ![s] = p]
           /\ AvailSectors' = AvailSectors - 1
           /\ LastAvailBlock' = BlockOf(p)
           /\ must_update' = must_update \ {s}
    /\ UNCHANGED <<kind, flash, request, mode, recopied>>

WriteReturn ==
    /\ mode = "up" /\ Done /\ Busy /\ must_update = {}
    /\ request' = NoRequest
    /\ UNCHANGED <<kind, flash, memVars, must_update, mode, io, recopied>>

\* The power fails between two flash operations; memory is lost.
PowerFail ==
    /\ kind.fails
    /\ mode \in {"map", "up"} \/ (mode = "format" /\ CrashInFormat)
    /\ mode' = "off" /\ io' = <<>>
    /\ request' = NoRequest /\ must_update' = {}
    /\ SectorMap' = [s \in Sector |-> NoSector]
    /\ AvailSectors' = 0 /\ LastAvailBlock' = NoBlock
    /\ UNCHANGED <<kind, flash, recopied>>

-----------------------------------------------------------------------------
(* MapSectors: block level, then sector level *)

WithId(id) == {b \in Block : flash[b].id = id}
Count(id) == Cardinality(WithId(id))

\* LowLevelFormat
FormatOperations ==
    Flat([n \in 1 .. TotalBlocks |->
            EraseBlock(n - 1) \o <<[op |-> "header", at |-> n - 1,
                                    val |-> IF n = 1 THEN "spare" ELSE "data"]>>])

Healthy == Count("spare") = 1 /\ Count("data") = TotalBlocks - 1
CopyTargets == IF Count("spare") = 1 THEN WithId("spare") ELSE WithId("virgine")
Interrupted == Count("copying") = 1 /\ Cardinality(CopyTargets) = 1
NotRenamed == Count("spare") = 1 /\ Count("virgine") = 1 /\ Count("copying") # 1

MountHealthy ==
    /\ mode = "off" /\ Healthy
    /\ mode' = "map"
    /\ UNCHANGED <<kind, flash, memVars, request, must_update, io, recopied>>

\* "Fixing 1" and "Fixing 2": the copy starts over.
MountCopies ==
    /\ mode = "off" /\ Interrupted
    /\ \E source \in WithId("copying"), target \in CopyTargets : CopyBlock(source, target, 0, {})
    /\ mode' = "map"
    /\ UNCHANGED <<kind, flash, request, recopied>>

\* "Fixing 4": the copy is complete, its target gets its name.
MountRenames ==
    /\ mode = "off" /\ NotRenamed
    /\ \E target \in WithId("virgine") : io' = ProgramId(target, "data")
    /\ mode' = "map"
    /\ UNCHANGED <<kind, flash, memVars, request, must_update, recopied>>

\* What is left of the code's cases is a flash that was never formatted: two
\* spare blocks ("Fixing 3") do not come about.
MountFormats ==
    /\ mode = "off" /\ ~Healthy /\ ~Interrupted /\ ~NotRenamed
    /\ io' = FormatOperations
    /\ mode' = "format"
    /\ UNCHANGED <<kind, flash, memVars, request, must_update, recopied>>

\* The sector level: of two valid sectors the first stays.  A sector that is in
\* the map already, as those of a copy that has started over are, counts as a
\* second one.
InData(status) == {p \in Physical : flash[BlockOf(p)].id = "data" /\ At(p).status = status}
\* Variant: a second valid sector stays valid.
FoundInMap == {p \in InData("valid") : SectorMap[At(p).logical] # NoSector}
FoundTwice ==
    {p \in InData("valid") :
        \/ SectorMap[At(p).logical] # NoSector
        \/ \E q \in InData("valid") : q < p /\ At(q).logical = At(p).logical}

MapSectors ==
    /\ mode \in {"map", "format"} /\ Done
    /\ LET deleted == InOrder(FoundTwice \union InData("writing"))
           kept == InData("valid") \ FoundTwice
       IN  /\ io' = Flat([n \in 1 .. Len(deleted) |-> DeletePhysicalSector(deleted[n])])
           /\ SectorMap' = [s \in Sector |->
                               IF SectorMap[s] # NoSector THEN SectorMap[s]
                               ELSE Least({p \in kept : At(p).logical = s})]
    /\ AvailSectors' = Cardinality(InData("avail"))
    /\ LastAvailBlock' = IF InData("avail") = {} THEN NoBlock ELSE BlockOf(Max(InData("avail")))
    /\ mode' = "up"
    /\ recopied' = (recopied \/ \E s \in Sector : SectorMap[s] # NoSector)
    /\ UNCHANGED <<kind, flash, request, must_update>>

FlashNext ==
    \/ FlashStep \/ WriteCall \/ Collect \/ WriteNext \/ WriteReturn \/ PowerFail
    \/ MountHealthy \/ MountCopies \/ MountRenames \/ MountFormats \/ MapSectors

FlashSpec == FlashInit /\ [][FlashNext]_flashVars

\* The driver runs in the caller's thread: a call goes on until it returns.
FlashFairness == WF_flashVars(FlashStep \/ Collect \/ WriteNext \/ WriteReturn)

FairFlashSpec == FlashSpec /\ FlashFairness

-----------------------------------------------------------------------------
(* Properties *)

Stored(p) == IF p = NoSector THEN 0 ELSE At(p).val

\* What a mount would find: a block that is being copied counts until it is
\* renamed, then the copy does.
Surviving ==
    LET copying == WithId("copying") # {}
    IN  {p \in Physical : /\ At(p).status = "valid"
                          /\ \/ flash[BlockOf(p)].id \in {"data", "copying"}
                             \/ flash[BlockOf(p)].id = "virgine" /\ ~copying}
Durable ==
    LET found == Surviving
    IN  [s \in Sector |-> Stored(Least({p \in found : At(p).logical = s}))]

\* Between the steps of a call the map in memory tells of each sector what a
\* mount would find on the flash (ReadFlashSector, MapSectors), as long as no
\* mount had to finish a copy.
MapTellsTheFlash ==
    mode = "up" /\ Done /\ ~recopied =>
        LET found == Durable IN \A s \in Sector : Stored(LocateSector(s)) = found[s]

\* CheckAvailCount of the debug build: the count of erased sectors is right, and
\* when it says that there are some one of them is found.
AvailCountIsRight ==
    mode = "up" /\ Done /\ ~recopied =>
        /\ AvailSectors = Cardinality(InData("avail"))
        /\ AvailSectors > 0 => LocateAvailSector # NoSector

\* The flash is a device that keeps every sector whole: what a call has returned
\* stays, power failures between any two flash operations included.
Device == INSTANCE SectorDisk WITH Content <- Contents, disk <- Durable,
                                   on <- mode = "up", broken <- recopied
IsADevice == Device!DiskSpec

\* The same of a flash whose recovery had to finish a copy.
RecoveredDevice == INSTANCE SectorDisk WITH Content <- Contents, disk <- Durable,
                                            on <- mode = "up", broken <- FALSE
IsADeviceAfterRecovery == RecoveredDevice!DiskSpec

\* A write comes to its end: collecting blocks wins the sectors it needs, though
\* wear levelling takes blocks that win none, because it does not take them for
\* ever (WriteFlashSectors, FindNewSpare).
WriteEnds == Busy ~> ~Busy
=============================================================================
