------------------------------ MODULE FatPool ------------------------------
(***************************************************************************)
(* The pool of FAT page buffers of one drive (rtfblockrd.c, rtfblockwr.c)  *)
(* and the two ways the FAT driver reaches the table through it: a single  *)
(* cluster (fatop_pfaxx) and a stream of contiguous clusters, which may    *)
(* bypass the pool with a buffer of its caller (fatop_page_get_frag,       *)
(* fatop_page_link_frag).                                                  *)
(*                                                                         *)
(* What a FAT sector holds is abstracted to whether a copy of it is the    *)
(* latest one.  A sector has a copy in each FAT of the volume and, while   *)
(* its page is mapped, one in the pool; writing one copy makes the others  *)
(* stale, reading or writing a sector carries staleness along.             *)
(***************************************************************************)
EXTENDS Integers, FiniteSets, FiniteSetsExt

CONSTANTS SecPerFat,      \* sectors of a FAT (secpfat)
          PageSize,       \* fat_buffer_page_size_sectors
          PerSector,      \* cluster entries in a sector
          NumBuffers,     \* n_fat_buffers
          AltSize,        \* sectors in the buffer a stream's caller lends
          Frags,          \* the <<first cluster, clusters>> streams work on
          MaxErrors       \* bound: I/O errors in a behaviour

ASSUME FatGeometry == /\ PageSize \in {1, 2, 4, 8, 16, 32}
                      /\ {SecPerFat, PerSector, NumBuffers, AltSize} \subseteq Nat \ {0}
                      /\ Frags \subseteq (2 .. SecPerFat * PerSector - 1) \X (Nat \ {0})
                      /\ \A f \in Frags : f[1] + f[2] <= SecPerFat * PerSector
                      /\ MaxErrors \in Nat

VARIABLES pool,       \* the committed buffers: first sector of a page -> buffer
          older,      \* <<p, q>>: page p was used before page q (lru_counter)
          numDirty,   \* num_dirty
          fatDirty,   \* DRVOP_FAT_IS_DIRTY
          stale,      \* per FAT copy: the sectors that are not the latest
          job,        \* the call in progress
          out,        \* the page being written, or NoPage
          errors,     \* I/O errors so far
          handed,     \* stale sectors handed to a reader by the last mapping
          failed,     \* sectors whose last write failed
          result      \* what the last flush returned, "none" after a change

poolVars == <<pool, older, numDirty, fatDirty, stale>>
vars == <<poolVars, job, out, errors, handed, failed, result>>

Sectors == 0 .. SecPerFat - 1
PageOf(s) == s - (s % PageSize)
Pages == {PageOf(s) : s \in Sectors}
PageSectors(p) == {s \in Sectors : PageOf(s) = p}
NoPage == -1
NoJob == [kind |-> "none"]
Run(first, n) == first .. first + n - 1

-----------------------------------------------------------------------------
(* PCMBUFF: which sectors of a page are dirty.                             *)

CleanBuff(st) == [offset |-> 0, count |-> 0, bitmap |-> {}, stale |-> st]
Zeroed(b) == CleanBuff(b.stale)

SetDirty(b, offset, n) ==
  LET added == Run(offset, n) \ b.bitmap
  IN [b EXCEPT !.offset = IF b.bitmap = {} \/ offset < @ THEN offset ELSE @,
               !.count = @ + Cardinality(added),
               !.bitmap = @ \cup added]

\* The length of the run of dirty bits that starts at offset.
RunLength(b) == Min({i \in 1 .. PageSize : b.offset + i \notin b.bitmap})

\* The sectors pc_get_clear_mbuff_dirty hands out, as a length from b.offset,
\* and the buffer it leaves.
FirstRun(b) == IF b.count = 1 THEN 1
               ELSE IF b.offset + b.count = PageSize THEN b.count
               ELSE RunLength(b)

\* Variant: the clean sectors after a run are not skipped.
AfterRunNext(b) ==
  LET n == FirstRun(b)
  IN IF b.count = 1 \/ b.offset + b.count = PageSize THEN Zeroed(b)
     ELSE [b EXCEPT !.count = @ - n, !.bitmap = @ \ Run(b.offset, n), !.offset = @ + n]

AfterRun(b) ==
  LET n == FirstRun(b)
      rest == b.bitmap \ Run(b.offset, n)
  IN IF b.count = 1 \/ b.offset + b.count = PageSize THEN Zeroed(b)
     ELSE [b EXCEPT !.count = @ - n, !.bitmap = rest,
                    !.offset = IF rest = {} THEN PageSize ELSE Min(rest)]

-----------------------------------------------------------------------------
(* The pool.                                                               *)

Mapped(s) == PageOf(s) \in DOMAIN pool
DirtyPages == {p \in DOMAIN pool : pool[p].count > 0}
Remap(old, p, b) == [q \in (DOMAIN pool \ old) \cup {p} |-> IF q = p THEN b ELSE pool[q]]

FreeBuffer == Cardinality(DOMAIN pool) < NumBuffers

\* The least recently used page of a set.
Oldest(S) == {p \in S : \A q \in S \ {p} : <<p, q>> \in older}

\* Page p is used, and the pages `old` leave the pool.
UsedLast(p, old) ==
  older' = {x \in older : {x[1], x[2]} \cap (old \cup {p}) = {}}
             \cup ((DOMAIN pool \ (old \cup {p})) \X {p})

\* What pc_realloc_fat_blk may unmap without a write: nothing if a buffer is free, else
\* the least recently used clean page; no choice is left when every page is dirty.
Replaceable == IF FreeBuffer THEN {{}}
               ELSE {{p} : p \in Oldest(DOMAIN pool \ DirtyPages)}

\* Variant: only a page that starts in the range counts as mapped there.
FirstMappedStarts(first, last) ==
  LET found == {s \in first .. last : Mapped(s) /\ s = PageOf(s)}
  IN IF found = {} THEN 0 ELSE Min(found)

\* pc_find_first_fat_blk: the first sector of first..last that is mapped; the code
\* returns 0, sector 0's own number, when there is none.
FirstMapped(first, last) ==
  LET found == {s \in first .. last : Mapped(s)}
  IN IF found = {} THEN 0 ELSE Min(found)

-----------------------------------------------------------------------------
(* A stream of clusters: one mapping.  j is the job: the clusters still to  *)
(* do are j.start .. j.start + j.n - 1.                                     *)

FirstSector(j) == j.start \div PerSector
ByteOffset(j) == j.start % PerSector
NSectors(j) == (ByteOffset(j) + j.n + PerSector - 1) \div PerSector
OffsetInPage(j) == FirstSector(j) % PageSize

\* The sectors of the stream up to and including the first mapped one.
Clipped(j) ==
  LET s == FirstSector(j)
      m == FirstMapped(s, s + NSectors(j) - 1)
  IN [mapped |-> m, n |-> IF m # 0 THEN m - s + 1 ELSE NSectors(j)]

UsePool(j) == \/ j.alt = 0
              \/ ByteOffset(j) # 0
              \/ OffsetInPage(j) + Clipped(j).n <= PageSize

PoolCount(j) == Min({PageSize - OffsetInPage(j), Clipped(j).n})

\* Variant: a write that is as long as a page does not read it.
MustReadShort(j) == j.kind = "read" \/ j.n < PageSize * PerSector

\* FATPAGEREAD: a write reads the page unless it replaces all of it.
MustRead(j) == j.kind = "read" \/ ByteOffset(j) # 0 \/ OffsetInPage(j) # 0
               \/ j.n < PageSize * PerSector

AltWhole(j) == IF (ByteOffset(j) + j.n) % PerSector # 0 THEN Clipped(j).n - 1 ELSE Clipped(j).n

AltCount(j) == LET c == Clipped(j)
               IN Min({j.alt, IF c.mapped # 0 THEN c.mapped - FirstSector(j) ELSE AltWhole(j)})

\* The sectors of a mapping of n, and those of them the clusters left fill.
Given(j, n) == Run(FirstSector(j), n)
Filled(j, n) == {s \in Given(j, n) : Run(s * PerSector, PerSector) \subseteq Run(j.start, j.n)}

\* The job once a mapping of n sectors has been used up.
Rest(j, n) == LET used == n * PerSector - ByteOffset(j)
              IN IF used >= j.n THEN NoJob
                 ELSE [j EXCEPT !.start = @ + used, !.n = @ - used]

\* A reader may stop at any mapping: the chain it follows leaves the sectors.
Advance(j, n) == \/ job' = Rest(j, n)
                 \/ j.kind = "read" /\ job' = NoJob

Fails == errors < MaxErrors /\ errors' = errors + 1
Works == UNCHANGED errors

\* The page of the stream's first sector, put to use: a write makes its sectors
\* dirty and stale everywhere else, a read hands them to the caller.
Use(j, old, b) ==
  LET n == PoolCount(j)
      p == PageOf(FirstSector(j))
  IN /\ UsedLast(p, old)
     /\ Advance(j, n)
     /\ IF j.kind = "read"
        THEN /\ pool' = Remap(old, p, b)
             /\ handed' = Given(j, n) \cap b.stale
             /\ UNCHANGED <<numDirty, fatDirty, stale, result>>
        ELSE /\ pool' = Remap(old, p, [SetDirty(b, OffsetInPage(j), n)
                                         EXCEPT !.stale = @ \ Filled(j, n)])
             /\ numDirty' = IF b.count = 0 THEN numDirty + 1 ELSE numDirty
             /\ fatDirty' = (fatDirty \/ b.count = 0)
             /\ stale' = [c \in 0 .. 1 |-> stale[c] \cup Given(j, n)]
             /\ result' = "none" /\ handed' = {}
     /\ UNCHANGED <<out, failed>>

Streaming == job.kind \in {"read", "write"} /\ out = NoPage
Hit == PageOf(FirstSector(job)) \in DOMAIN pool

\* pc_map_fat_sector finds the page.
MapHit == /\ Streaming /\ UsePool(job) /\ Hit
          /\ Use(job, {}, pool[PageOf(FirstSector(job))])
          /\ Works

\* The buffer of the page `old` (none if a free one is used), read from the first
\* FAT when asked, without what it would hold beyond the FAT's end.
LoadInto(old) ==
  LET p == PageOf(FirstSector(job))
  IN Use(job, old, CleanBuff(IF MustRead(job) THEN stale[0] \cap PageSectors(p)
                                             ELSE PageSectors(p)))

MapLoad == /\ Streaming /\ UsePool(job) /\ ~Hit
           /\ \E old \in Replaceable : LoadInto(old)
           /\ Works

\* The read failed: the buffer goes to the free list and the call to its caller.
MapLoadFails == /\ Streaming /\ UsePool(job) /\ ~Hit /\ MustRead(job)
                /\ \E old \in Replaceable :
                     /\ pool' = [q \in DOMAIN pool \ old |-> pool[q]]
                     /\ older' = {x \in older : {x[1], x[2]} \cap old = {}}
                /\ job' = NoJob
                /\ Fails
                /\ UNCHANGED <<numDirty, fatDirty, stale, out, handed, failed, result>>

\* Every buffer is dirty: the oldest is written first.
SwapOut == /\ Streaming /\ UsePool(job) /\ ~Hit
           /\ ~FreeBuffer /\ DOMAIN pool \subseteq DirtyPages
           /\ out' \in Oldest(DOMAIN pool)
           /\ UNCHANGED <<poolVars, job, errors, handed, failed, result>>

\* Variant: swapping a page out makes the FAT clean.
SwappedOutAllClean ==
  /\ out # NoPage /\ job.kind # "flush" /\ pool[out].count = 0
  /\ out' = NoPage
  /\ numDirty' = numDirty - 1
  /\ fatDirty' = FALSE
  /\ UNCHANGED <<pool, older, stale, job, errors, handed, failed, result>>

SwappedOut == /\ out # NoPage /\ job.kind # "flush" /\ pool[out].count = 0
              /\ out' = NoPage
              /\ numDirty' = numDirty - 1
              /\ fatDirty' = (fatDirty /\ numDirty' # 0)
              /\ UNCHANGED <<pool, older, stale, job, errors, handed, failed, result>>

AltRead == /\ Streaming /\ ~UsePool(job) /\ job.kind = "read"
           /\ \/ /\ Works
                 /\ handed' = Given(job, AltCount(job)) \cap stale[0]
                 /\ Advance(job, AltCount(job))
              \/ /\ Fails /\ job' = NoJob /\ UNCHANGED handed
           /\ UNCHANGED <<poolVars, out, failed, result>>

(***************************************************************************)
(* Sectors K, of which `bad` are not the latest, are written to both FATs   *)
(* (pc_write_fat_blocks): it fails on the first copy, or on the second with *)
(* the first one written.                                                  *)
(***************************************************************************)
Copied(c, K, bad) == (stale[c] \ K) \cup bad
WriteBoth(K, bad) == /\ Works
                     /\ stale' = [c \in 0 .. 1 |-> Copied(c, K, bad)]
                     /\ failed' = failed \ (K \ bad)
WriteBothFails(K, bad) ==
  /\ Fails
  /\ \E written \in {{}, {0}} :
       stale' = [c \in 0 .. 1 |-> IF c \in written THEN Copied(c, K, bad) ELSE stale[c] \cup K]
  /\ failed' = failed \cup K

\* A write from the caller's own buffer: a copy in the pool is not the latest then.
AltWrite ==
  /\ Streaming /\ ~UsePool(job) /\ job.kind = "write"
  /\ LET K == Given(job, AltCount(job))
         bad == K \ Filled(job, AltCount(job))
     IN /\ pool' = [p \in DOMAIN pool |-> [pool[p] EXCEPT !.stale = @ \cup (K \cap PageSectors(p))]]
        /\ \/ WriteBoth(K, bad) /\ Advance(job, AltCount(job))
           \/ WriteBothFails(K, bad) /\ job' = NoJob
  /\ result' = "none" /\ handed' = {}
  /\ UNCHANGED <<older, numDirty, fatDirty, out>>

\* One turn of pc_write_fat_block_buffer_page: the next run of dirty sectors, whose
\* dirty bits are cleared first.  A failure ends the call in progress.
WriteRun ==
  /\ out # NoPage /\ pool[out].count > 0
  /\ LET b == pool[out]
         K == Run(out + b.offset, FirstRun(b))
     IN /\ pool' = [pool EXCEPT ![out] = AfterRun(b)]
        /\ \/ /\ WriteBoth(K, K \cap b.stale)
              /\ UNCHANGED <<job, out, result>>
           \/ /\ WriteBothFails(K, K \cap b.stale)
              /\ job' = NoJob /\ out' = NoPage
              /\ result' = IF job.kind = "flush" THEN "error" ELSE result
  /\ handed' = {}
  /\ UNCHANGED <<older, numDirty, fatDirty>>

-----------------------------------------------------------------------------
(* pc_async_flush_fat_blocks(max), in the order of the committed list.     *)

FlushStart(max) ==
  /\ job = NoJob
  /\ IF fatDirty
     THEN /\ job' = [kind |-> "flush", max |-> max, flushed |-> 0, at |-> 0]
          /\ result' = "none"
     ELSE result' = "complete" /\ UNCHANGED job
  /\ UNCHANGED <<poolVars, out, errors, handed, failed>>

DirtyAhead == {p \in DirtyPages : p >= job.at}
Flushing == job.kind = "flush" /\ out = NoPage

FlushPage ==
  /\ Flushing /\ DirtyAhead # {}
  /\ ~(job.max # 0 /\ job.flushed >= job.max)
  /\ out' = Min(DirtyAhead)
  /\ UNCHANGED <<poolVars, job, errors, handed, failed, result>>

FlushedPage ==
  /\ out # NoPage /\ job.kind = "flush" /\ pool[out].count = 0
  /\ pool' = [pool EXCEPT ![out] = Zeroed(@)]
  /\ numDirty' = numDirty - 1
  /\ job' = [job EXCEPT !.flushed = @ + 1, !.at = out + PageSize]
  /\ out' = NoPage
  /\ UNCHANGED <<older, fatDirty, stale, errors, handed, failed, result>>

FlushPassEnds ==
  /\ Flushing /\ DirtyAhead # {}
  /\ job.max # 0 /\ job.flushed >= job.max
  /\ job' = NoJob /\ result' = "continue"
  /\ UNCHANGED <<poolVars, out, errors, handed, failed>>

\* The end of the list: the flag goes first, then fat_flushinfo may fail.
FlushEnds ==
  /\ Flushing /\ DirtyAhead = {}
  /\ fatDirty' = FALSE
  /\ job' = NoJob
  /\ \/ Works /\ result' = "complete"
     \/ Fails /\ result' = "error"
  /\ UNCHANGED <<pool, older, numDirty, stale, out, handed, failed>>

-----------------------------------------------------------------------------
(* The calls.                                                              *)

\* fatop_page_get_frag and fatop_page_link_frag.
StreamStart(kind, f, alt) ==
  /\ job = NoJob
  /\ job' = [kind |-> kind, start |-> f[1], n |-> f[2], alt |-> alt]
  /\ UNCHANGED <<poolVars, out, errors, handed, failed, result>>

\* fatop_pfaxx marks the FAT dirty before it maps the cluster's sector.
PutStart(c) ==
  /\ job = NoJob
  /\ job' = [kind |-> "write", start |-> c, n |-> 1, alt |-> 0]
  /\ fatDirty' = TRUE
  /\ result' = "none"
  /\ UNCHANGED <<pool, older, numDirty, stale, out, errors, handed, failed>>

Init == /\ pool = [p \in {} |-> CleanBuff({})] /\ older = {}
        /\ numDirty = 0 /\ fatDirty = FALSE
        /\ stale = [c \in 0 .. 1 |-> {}]
        /\ job = NoJob /\ out = NoPage
        /\ errors = 0 /\ handed = {} /\ failed = {} /\ result = "none"

Call == \/ \E f \in Frags, alt \in {0, AltSize} :
             StreamStart("read", f, alt) \/ StreamStart("write", f, alt)
        \/ \E f \in Frags : PutStart(f[1])
        \/ \E max \in {0, 1} : FlushStart(max)

Step == /\ job # NoJob
        /\ \/ MapHit \/ MapLoad \/ MapLoadFails \/ SwapOut \/ SwappedOut
           \/ AltRead \/ AltWrite \/ WriteRun
           \/ FlushPage \/ FlushedPage \/ FlushPassEnds \/ FlushEnds

Next == Call \/ Step
Spec == Init /\ [][Next]_vars

-----------------------------------------------------------------------------

\* The pool over the disk is the FAT: but for the sectors whose last write failed, a
\* mapped sector is the latest and, unless it is dirty, so are its copies on the disk;
\* a sector that is not mapped is the latest in both FATs.  Streams that bypass the
\* pool, pages written without being read, and swapping all have to keep it.
PoolOverDiskIsTheFat ==
  \A s \in Sectors \ failed :
    IF Mapped(s)
    THEN /\ s \notin pool[PageOf(s)].stale
         /\ (s - PageOf(s)) \notin pool[PageOf(s)].bitmap => s \notin stale[0] \cup stale[1]
    ELSE s \notin stale[0] \cup stale[1]

\* A reader of the FAT, through the pool or around it, is given the latest sectors.
ReadersGetTheLatest == handed \subseteq failed

\* A flush that returns PC_ASYNC_COMPLETE has left every sector written since in both
\* FATs, whatever passes, swaps and streams went before; it may only lack those whose
\* write failed.
CompleteMeansWritten == result = "complete" => stale[0] \cup stale[1] \subseteq failed

\* The counts the flush and the swap rely on: a buffer's dirty count and first dirty
\* sector describe its bitmap; as long as no write has failed num_dirty is the number of
\* dirty buffers, and after a failure it is at least that; with a dirty buffer the flag
\* that makes a flush look at the list is set.
DirtyIsAccounted ==
  /\ \A p \in DirtyPages : /\ pool[p].count = Cardinality(pool[p].bitmap)
                           /\ pool[p].offset = Min(pool[p].bitmap)
  /\ numDirty >= Cardinality(DirtyPages)
  /\ errors = 0 /\ out = NoPage => numDirty = Cardinality(DirtyPages)
  /\ DirtyPages # {} => fatDirty

=============================================================================
