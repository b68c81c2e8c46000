------------------------------ MODULE MediaAccess ------------------------------
(* How threads get at a volume while media comes and goes                       *)
(* (rtfscommon/source/drdynamic.c). Each medium has a slot in a pool, with a    *)
(* semaphore that stays with the slot. A drive letter leads over                *)
(* drno_to_dr_map to a drive structure and from there to the slot. A call looks *)
(* up the letter, claims the semaphore of the slot, looks up the letter again,  *)
(* mounts the volume if needed, works, and releases. An eject only marks the    *)
(* slot; whoever has the semaphore next, the driver or a call that ends, takes  *)
(* the volumes away. Files and directory searches outlive calls, and must not   *)
(* outlive the mount they belong to.                                            *)
(*                                                                              *)
(* The driver is one process: it reports one event at a time. It sets up the    *)
(* letters of a medium in several steps, in which calls may already find them.  *)
(* Each thread uses the descriptors it has opened.                              *)
EXTENDS Integers, FiniteSets

CONSTANTS
  Threads,       \* threads of the application
  Calls,         \* [Threads -> the calls a thread makes]
  Letters,       \* [Threads -> the drive letters it names]
  Driver,        \* the process that reports insertions and removals
  Devices,       \* device handles
  Removable,     \* those that may be ejected
  Request,       \* [Devices -> [first: driveid, fixed: must it be that, partitions: how many]]
  NMedia,        \* mem_mediaparms_pool
  NDrives,       \* drive letters
  Structs,       \* drive structures
  Files,         \* descriptors of mem_file_pool
  Exclusive,     \* buffers are shared by all devices: rtfs_exclusive_semaphore is used
  None,
  MaxMounts      \* bound on the number of mounts

Drives == 0 .. NDrives - 1
Media  == 1 .. NMedia
Procs  == Threads \cup {Driver}

NamesADrive == {"Open", "First", "DiskClose"}
GoesOnSearching == {"Next", "Done"}
HasAFile == {"Read", "Close"}

ASSUME MediaAccessAssumption ==
  /\ NDrives \in Nat /\ NMedia \in Nat /\ MaxMounts \in Nat /\ Files \subseteq Nat
  /\ Removable \subseteq Devices /\ Driver \notin Threads /\ Exclusive \in BOOLEAN
  /\ None \notin Devices \cup Procs \cup Structs \cup Media \cup Drives \cup Files
  /\ Request \in [Devices -> [first : Drives, fixed : BOOLEAN, partitions : Nat \ {0}]]
  /\ Calls \in [Threads -> SUBSET (NamesADrive \cup GoesOnSearching \cup HasAFile)]
  /\ Letters \in [Threads -> SUBSET Drives]

VARIABLES
  map,                \* drno_to_dr_map: the structure of a drive letter or None
  mem_drive_freelist, \* structures not in use
  driveno,            \* of a structure: its letter
  pmedia_info,        \* of a structure: the slot of its medium, None: not set
  installing,         \* letters an insertion has reserved and not yet bound to a partition
  early,              \* auxiliary: a call has gone on with such a letter
  mounted,            \* of a structure: which mount this is, 0: mount_valid is off
  opencount,          \* of a structure: drive_opencounter, the mount as searches know it
  drive_opencounter,  \* prtfs_cfg->drive_opencounter: mounts so far
  devhandle,          \* of a slot: the device, None: the slot is free
  removing,           \* of a slot: DEVICE_REMOVE_EVENT
  access_semaphore,   \* of a slot: who owns it
  exclusive,          \* who owns rtfs_exclusive_semaphore
  saved_media_info,   \* of a drive letter
  owner,              \* of a descriptor: the thread that opened it, None: is_free
  pdrive,             \* of a descriptor: the structure, None: pobj is 0
  file_mount,         \* of a descriptor: the mount it was opened in
  search_letter,      \* statobj of a thread: its drive letter or None,
  search_count,       \*   drive_opencounter of the structure when the search began,
  search_mount,       \*   and which mount that was
  pc, call, letter, pdr, pmedia, fd   \* where a process is, and its local variables

drives  == <<map, mem_drive_freelist, driveno, pmedia_info, installing>>
letters == <<drives, early>>
mounts  == <<mounted, opencount, drive_opencounter>>
slots   == <<devhandle, removing>>
locks   == <<access_semaphore, exclusive, saved_media_info>>
files   == <<owner, pdrive, file_mount>>
search  == <<search_letter, search_count, search_mount>>
locals  == <<call, letter, pdr, pmedia, fd>>
vars == <<letters, mounts, slots, locks, files, search, pc, locals>>

Run(first, n) == first .. first + n - 1

\* The drive letters of the medium in slot m.
LettersOf(m) == {d \in Drives : map[d] # None /\ pmedia_info[map[d]] = m}

Goto(p, l) == pc' = [pc EXCEPT ![p] = l]

------------------------------------------------------------------------------
(* Insertion                                                                    *)

\* pc_find_mediaparms_structure: the slot of a device, and with None the first free one.
SlotIs(m, dev) == devhandle[m] = dev /\ \A i \in Media : devhandle[i] = dev => m <= i

\* The driver is inside pc_rtfs_media_insert.
Inserting == {"Reserve", "Attach", "Bind", "Excess", "Fail"}

\* Fixed devices are inserted when the program starts, before any card and any call.
Started ==
  /\ \A d \in Devices \ Removable : \E m \in Media : devhandle[m] = d
  /\ pc[Driver] \in Inserting => devhandle[pmedia[Driver]] \in Removable

\* pc_rtfs_media_insert gets a slot for a device,
Insert(dev) ==
  /\ pc[Driver] = "Idle"
  /\ \A m \in Media : devhandle[m] # dev
  /\ dev \in Removable => Started
  /\ \E m \in Media :
       /\ SlotIs(m, None)
       /\ devhandle' = [devhandle EXCEPT ![m] = dev]
       /\ removing' = [removing EXCEPT ![m] = FALSE]
       /\ pmedia' = [pmedia EXCEPT ![Driver] = m]
  /\ Goto(Driver, "Reserve")
  /\ UNCHANGED <<letters, mounts, locks, files, search, call, letter, pdr, fd>>

\* RTFS_DEVI_reserve_driveids: n letters from the first place where they are free.
CanReserve(dev, first, n) ==
  LET free == {d \in Drives : /\ Request[dev].first <= d
                              /\ \A e \in Run(d, n) : e \in Drives /\ map[e] = None}
  IN /\ first \in free /\ \A d \in free : first <= d
     /\ Request[dev].fixed => first = Request[dev].first
     /\ n <= Cardinality(mem_drive_freelist)

Wanted(dev) == IF Request[dev].fixed THEN {Request[dev].partitions} ELSE 1 .. Request[dev].partitions

\* The structures S of the free list are taken and cleared; those without a letter go back.
Clear(S) ==
  /\ pmedia_info' = [s \in Structs |-> IF s \in S THEN None ELSE pmedia_info[s]]
  /\ mounted' = [s \in Structs |-> IF s \in S THEN 0 ELSE mounted[s]]
  /\ opencount' = [s \in Structs |-> IF s \in S THEN 0 ELSE opencount[s]]

\* The first attempt takes the most.
Taken(dev) ==
  {S \in SUBSET mem_drive_freelist :
     LET all == Cardinality(mem_drive_freelist)
     IN Cardinality(S) = IF all < Request[dev].partitions THEN all ELSE Request[dev].partitions}

\* As many letters as can be had get a structure, but no medium behind it,
Reserve ==
  LET dev == devhandle[pmedia[Driver]] IN
  /\ pc[Driver] = "Reserve"
  /\ \E first \in Drives, r \in Wanted(dev), S \in Taken(dev) :
       /\ CanReserve(dev, first, r)
       /\ \A q \in Wanted(dev), d \in Drives : q > r => ~CanReserve(dev, d, q)
       /\ Clear(S)
       /\ \E struct \in [Run(first, r) -> S] :
            /\ \A d, e \in Run(first, r) : struct[d] = struct[e] => d = e
            /\ map' = [d \in Drives |-> IF d \in Run(first, r) THEN struct[d] ELSE map[d]]
            /\ mem_drive_freelist' = mem_drive_freelist \ {struct[d] : d \in Run(first, r)}
            /\ driveno' = [s \in Structs |-> IF \E d \in Run(first, r) : struct[d] = s
                             THEN CHOOSE d \in Run(first, r) : struct[d] = s
                             ELSE IF s \in S THEN 0 ELSE driveno[s]]
       /\ installing' = Run(first, r)
  /\ Goto(Driver, "Attach")
  /\ UNCHANGED <<early, drive_opencounter, slots, locks, files, search, locals>>

\* or there are none, or the driver refused before that (device_configure_media).
Refuse ==
  LET dev == devhandle[pmedia[Driver]] IN
  /\ pc[Driver] = "Reserve"
  /\ \E S \in Taken(dev) \cup {{}} :
       /\ S # {} => \A r \in Wanted(dev), d \in Drives : ~CanReserve(dev, d, r)
       /\ Clear(S)
       /\ driveno' = [s \in Structs |-> IF s \in S THEN 0 ELSE driveno[s]]
  /\ Goto(Driver, "Fail")
  /\ UNCHANGED <<map, mem_drive_freelist, installing, early, drive_opencounter, slots, locks, files, search, locals>>

FirstInstalled(d) == d \in installing /\ \A e \in installing : d <= e

\* RTFS_DEVI_device_mount gives the first letter the medium, to read the partition table through it,
Attach ==
  /\ pc[Driver] = "Attach"
  /\ \E d \in Drives : FirstInstalled(d)
        /\ pmedia_info' = [pmedia_info EXCEPT ![map[d]] = pmedia[Driver]]
  /\ Goto(Driver, "Bind")
  /\ UNCHANGED <<map, mem_drive_freelist, driveno, installing, early, mounts, slots, locks, files, search, locals>>

\* gives each partition its letter, when the table could be read,
Bind ==
  /\ pc[Driver] = "Bind"
  /\ \/ \E first \in Drives, n \in 1 .. NDrives :
          /\ FirstInstalled(first) /\ Run(first, n) \subseteq installing
          /\ pmedia_info' = [s \in Structs |-> IF \E d \in Run(first, n) : map[d] = s THEN pmedia[Driver]
                                              ELSE pmedia_info[s]]
          /\ installing' = installing \ Run(first, n)
          /\ Goto(Driver, "Excess")
     \/ Goto(Driver, "Fail") /\ UNCHANGED <<pmedia_info, installing>>
  /\ UNCHANGED <<map, mem_drive_freelist, driveno, early, mounts, slots, locks, files, search, locals>>

\* and _release_excess_drives gives back the letters without partition; after a failure, the slot too.
ReleaseExcess ==
  /\ pc[Driver] \in {"Excess", "Fail"}
  /\ map' = [d \in Drives |-> IF d \in installing THEN None ELSE map[d]]
  /\ mem_drive_freelist' = mem_drive_freelist \cup {map[d] : d \in installing}
  /\ installing' = {}
  /\ devhandle' = IF pc[Driver] = "Fail" THEN [devhandle EXCEPT ![pmedia[Driver]] = None] ELSE devhandle
  /\ Goto(Driver, "Idle") /\ pmedia' = [pmedia EXCEPT ![Driver] = None]
  /\ UNCHANGED <<driveno, pmedia_info, early, mounts, removing, locks, files, search, call, letter, pdr, fd>>

InsertGoesOn == Reserve \/ Refuse \/ Attach \/ Bind \/ ReleaseExcess

------------------------------------------------------------------------------
(* Removal                                                                      *)

\* pc_dskfree of the structures S. Their files are closed; the owners find out later.
DiskFree(S) ==
  /\ mounted' = [s \in Structs |-> IF s \in S THEN 0 ELSE mounted[s]]
  /\ pdrive' = [f \in Files |-> IF pdrive[f] \in S THEN None ELSE pdrive[f]]
  /\ file_mount' = [f \in Files |-> IF pdrive[f] \in S THEN 0 ELSE file_mount[f]]
  /\ UNCHANGED <<opencount, drive_opencounter, owner>>

\* pc_rtfs_media_alert with RTFS_ALERT_EJECT: the removal is marked before the semaphore is claimed.
Eject(m) ==
  /\ pc[Driver] = "Idle" /\ devhandle[m] \in Removable
  /\ removing' = [removing EXCEPT ![m] = TRUE]
  /\ Goto(Driver, "Claim") /\ pmedia' = [pmedia EXCEPT ![Driver] = m]
  /\ UNCHANGED <<letters, mounts, devhandle, locks, files, search, call, letter, pdr, fd>>

\* The driver gets the semaphore; a call may have done the work in the meantime.
EjectClaim ==
  LET m == pmedia[Driver] IN
  /\ pc[Driver] = "Claim" /\ access_semaphore[m] = None
  /\ access_semaphore' = [access_semaphore EXCEPT ![m] = Driver]
  /\ Goto(Driver, IF removing[m] THEN "FreeVolumes" ELSE "Unlock")
  /\ UNCHANGED <<letters, mounts, slots, exclusive, saved_media_info, files, search, locals>>

\* RTFS_DEVI_device_release_volumes: first the volumes of the medium are closed,
FreeVolumes(p) ==
  /\ pc[p] = "FreeVolumes"
  /\ DiskFree({map[d] : d \in LettersOf(pmedia[p])})
  /\ Goto(p, "Unmap")
  /\ UNCHANGED <<letters, slots, locks, search, locals>>

\* then their letters, counted from the first, and their structures are given back, and the slot.
Unmap(p) ==
  LET m == pmedia[p]
      gone == UNION {Run(d, Cardinality(LettersOf(m))) :
                       d \in {e \in LettersOf(m) : \A x \in LettersOf(m) : e <= x}}
  IN /\ pc[p] = "Unmap"
     /\ map' = [d \in Drives |-> IF d \in gone THEN None ELSE map[d]]
     /\ mem_drive_freelist' = mem_drive_freelist \cup {map[d] : d \in gone}
     /\ removing' = [removing EXCEPT ![m] = FALSE]
     /\ devhandle' = [devhandle EXCEPT ![m] = None]
     /\ Goto(p, "Unlock")
     /\ UNCHANGED <<driveno, pmedia_info, installing, early, mounts, locks, files, search, locals>>

EjectEnd ==
  /\ pc[Driver] = "Unlock"
  /\ access_semaphore' = [access_semaphore EXCEPT ![pmedia[Driver]] = None]
  /\ Goto(Driver, "Idle") /\ pmedia' = [pmedia EXCEPT ![Driver] = None]
  /\ UNCHANGED <<letters, mounts, slots, exclusive, saved_media_info, files, search, call, letter, pdr, fd>>

------------------------------------------------------------------------------
(* A call claims its drive                                                      *)

\* A call begins: with a letter it names, the letter of its search, or the letter of its file.
Enter(t, c, d, f) ==
  /\ pc[t] = "Idle"
  /\ Goto(t, "Look")
  /\ call' = [call EXCEPT ![t] = c] /\ letter' = [letter EXCEPT ![t] = d] /\ fd' = [fd EXCEPT ![t] = f]
  /\ UNCHANGED <<letters, mounts, slots, locks, files, pdr, pmedia>>

\* check_drive_name_mount; pc_gfirst forgets the search before.
BeginByName(t, c, d) ==
  /\ Enter(t, c, d, None)
  /\ IF c = "First" THEN search_letter' = [search_letter EXCEPT ![t] = None] ELSE UNCHANGED search_letter
  /\ UNCHANGED <<search_count, search_mount>>

\* check_drive_by_number, in pc_gnext and pc_gdone.
BeginBySearch(t, c) ==
  /\ search_letter[t] # None
  /\ Enter(t, c, search_letter[t], None)
  /\ UNCHANGED search

\* pc_fd2file: the letter is read in the critical section, the drive is claimed after it.
BeginByFile(t, c, f) ==
  /\ owner[f] = t /\ pdrive[f] # None
  /\ Enter(t, c, driveno[pdrive[f]], f)
  /\ UNCHANGED search

FreeFile(f) ==
  /\ owner' = [owner EXCEPT ![f] = None] /\ pdrive' = [pdrive EXCEPT ![f] = None]
  /\ file_mount' = [file_mount EXCEPT ![f] = 0]

\* A close of a file that pc_dskfree has closed only gives the descriptor back.
CloseAborted(t, f) ==
  /\ pc[t] = "Idle" /\ owner[f] = t /\ pdrive[f] = None
  /\ FreeFile(f)
  /\ UNCHANGED <<letters, mounts, slots, locks, search, pc, locals>>

\* A call returns. On PECLOSED a close gives the descriptor back.
Return(t) ==
  /\ Goto(t, "Idle")
  /\ call' = [call EXCEPT ![t] = None] /\ letter' = [letter EXCEPT ![t] = None]
  /\ pdr' = [pdr EXCEPT ![t] = None] /\ pmedia' = [pmedia EXCEPT ![t] = None]
  /\ fd' = [fd EXCEPT ![t] = None]
  /\ IF call[t] = "Close" /\ fd[t] # None THEN FreeFile(fd[t]) ELSE UNCHANGED files

\* rtfs_claim_media_and_buffers: the structure is found under mountlist_semaphore (a letter that leads
\* nowhere is looked up once more after a poll, which is to look it up later),
Look(t) ==
  LET p == map[letter[t]] IN
  /\ pc[t] = "Look"
  /\ \/ p = None /\ Return(t)
     \/ /\ p # None
        /\ Goto(t, "Found") /\ pdr' = [pdr EXCEPT ![t] = p]
        /\ UNCHANGED <<files, call, letter, pmedia, fd>>
  /\ UNCHANGED <<letters, mounts, slots, locks, search>>

\* its slot is read without it; a structure that is not set up has none, and the null pointer is used,
Found(t) ==
  /\ pc[t] = "Found"
  /\ \/ /\ pmedia_info[pdr[t]] # None
        /\ Goto(t, "Claim") /\ pmedia' = [pmedia EXCEPT ![t] = pmedia_info[pdr[t]]]
        /\ UNCHANGED early
     \/ /\ pmedia_info[pdr[t]] = None
        /\ Goto(t, "Fault") /\ early' = TRUE
        /\ UNCHANGED pmedia
  /\ UNCHANGED <<drives, mounts, slots, locks, files, search, call, letter, pdr, fd>>

\* the semaphore of the slot is claimed,
Claim(t) ==
  /\ pc[t] = "Claim" /\ access_semaphore[pmedia[t]] = None
  /\ access_semaphore' = [access_semaphore EXCEPT ![pmedia[t]] = t]
  /\ Goto(t, "Recheck")
  /\ UNCHANGED <<letters, mounts, slots, exclusive, saved_media_info, files, search, locals>>

\* Variant: the letter is not looked up again.
RecheckedNever(t) == pdr[t]
\* and the letter is looked up again: the medium may be gone, or another one there.
Rechecked(t) == map[letter[t]]

Recheck(t) ==
  LET p == Rechecked(t)
      there == p # None /\ driveno[p] = letter[t]
  IN /\ pc[t] = "Recheck"
     /\ \/ /\ ~there
           /\ access_semaphore' = [access_semaphore EXCEPT ![pmedia[t]] = None]
           /\ Return(t)
           /\ UNCHANGED <<saved_media_info, early>>
        \/ /\ there
           /\ early' = (early \/ letter[t] \in installing)
           /\ saved_media_info' = [saved_media_info EXCEPT ![letter[t]] = pmedia_info[p]]
           /\ Goto(t, IF Exclusive THEN "Exclusive" ELSE "Claimed")
           /\ pdr' = [pdr EXCEPT ![t] = p] /\ pmedia' = [pmedia EXCEPT ![t] = None]
           /\ UNCHANGED <<access_semaphore, files, call, letter, fd>>
     /\ UNCHANGED <<drives, mounts, slots, exclusive, search>>

ClaimExclusive(t) ==
  /\ pc[t] = "Exclusive" /\ exclusive = None
  /\ exclusive' = t
  /\ Goto(t, "Claimed")
  /\ UNCHANGED <<letters, mounts, slots, access_semaphore, saved_media_info, files, search, locals>>

------------------------------------------------------------------------------
(* A call with its drive claimed                                                *)

\* The second half of pc_fd2file: a pc_dskfree may have closed the file since.
StillOpen(f) == pdrive[f] # None

CheckFile(t) ==
  /\ pc[t] = "Claimed" /\ call[t] \in HasAFile
  /\ Goto(t, IF StillOpen(fd[t]) THEN "Work" ELSE "Release")
  /\ UNCHANGED <<letters, mounts, slots, locks, files, search, locals>>

\* check_drive_by_number: a volume that is not mounted is mounted, which may fail.
CheckMount(t) ==
  /\ pc[t] = "Claimed" /\ call[t] \notin HasAFile
  /\ \/ /\ mounted[pdr[t]] # 0
        /\ Goto(t, "Work") /\ UNCHANGED mounts
     \/ /\ mounted[pdr[t]] = 0 /\ drive_opencounter < MaxMounts
        /\ drive_opencounter' = drive_opencounter + 1
        /\ mounted' = [mounted EXCEPT ![pdr[t]] = drive_opencounter + 1]
        /\ Goto(t, "Opened") /\ UNCHANGED opencount
     \/ /\ mounted[pdr[t]] = 0
        /\ Goto(t, "Release") /\ UNCHANGED mounts
  /\ UNCHANGED <<letters, slots, locks, files, search, locals>>

\* pc_i_dskopen_complete reads the counter when it has left the critical section; Failsafe may still
\* refuse the mount.
Opened(t) ==
  /\ pc[t] = "Opened"
  /\ opencount' = [opencount EXCEPT ![pdr[t]] = drive_opencounter]
  /\ \/ Goto(t, "Work") /\ UNCHANGED mounted
     \/ Goto(t, "Release") /\ mounted' = [mounted EXCEPT ![pdr[t]] = 0]
  /\ UNCHANGED <<letters, drive_opencounter, slots, locks, files, search, locals>>

Working(t, c) == pc[t] = "Work" /\ call[t] = c /\ Goto(t, "Release")

\* pc_bfilio_open_cs: pc_allocfile takes the first free descriptor.
Open(t) ==
  /\ Working(t, "Open")
  /\ \/ \E f \in Files :
          /\ owner[f] = None /\ \A g \in Files : owner[g] = None => f <= g
          /\ owner' = [owner EXCEPT ![f] = t] /\ pdrive' = [pdrive EXCEPT ![f] = pdr[t]]
          /\ file_mount' = [file_mount EXCEPT ![f] = mounted[pdr[t]]]
     \/ UNCHANGED files
  /\ UNCHANGED <<letters, mounts, slots, locks, search, locals>>

\* pc_bfilio_read, and every other call that leaves the descriptor open.
Read(t) ==
  /\ Working(t, "Read")
  /\ UNCHANGED <<letters, mounts, slots, locks, files, search, locals>>

\* pc_bfilio_close.
Close(t) ==
  /\ Working(t, "Close")
  /\ FreeFile(fd[t]) /\ fd' = [fd EXCEPT ![t] = None]
  /\ UNCHANGED <<letters, mounts, slots, locks, search, call, letter, pdr, pmedia>>

\* pc_gfirst, which may find nothing.
First(t) ==
  /\ Working(t, "First")
  /\ \/ /\ search_letter' = [search_letter EXCEPT ![t] = letter[t]]
        /\ search_count' = [search_count EXCEPT ![t] = opencount[pdr[t]]]
        /\ search_mount' = [search_mount EXCEPT ![t] = mounted[pdr[t]]]
     \/ UNCHANGED search
  /\ UNCHANGED <<letters, mounts, slots, locks, files, locals>>

\* Variant: any search goes on.
SameMountAlways(t) == search_count[t] # 0
\* pc_gnext and pc_gdone go on only if the drive has not been mounted again.
SameMount(t) == search_count[t] = opencount[pdr[t]]

CheckSearch(t) ==
  /\ pc[t] = "Work" /\ call[t] \in GoesOnSearching
  /\ Goto(t, IF SameMount(t) THEN "Search" ELSE "Release")
  /\ UNCHANGED <<letters, mounts, slots, locks, files, search, locals>>

Search(t) ==
  /\ pc[t] = "Search"
  /\ Goto(t, "Release")
  /\ IF call[t] = "Done" THEN search_letter' = [search_letter EXCEPT ![t] = None]
     ELSE UNCHANGED search_letter
  /\ UNCHANGED <<letters, mounts, slots, locks, files, search_count, search_mount, locals>>

\* pc_diskclose.
DiskClose(t) ==
  /\ Working(t, "DiskClose")
  /\ DiskFree({pdr[t]})
  /\ UNCHANGED <<letters, slots, locks, search, locals>>

------------------------------------------------------------------------------
(* A call releases its drive                                                    *)

\* Variant: a removal is left to the driver.
AfterReleaseUnlock(m) == "Unlock"
\* rtfs_release_media_and_buffers: a removal that has been marked meanwhile is carried out.
AfterRelease(m) == IF m # None /\ removing[m] THEN "FreeVolumes" ELSE "Unlock"

Release(t) ==
  LET d == letter[t]
      m == IF map[d] # None THEN pmedia_info[map[d]] ELSE saved_media_info[d]
  IN /\ pc[t] = "Release"
     /\ saved_media_info' = [saved_media_info EXCEPT ![d] = None]
     /\ Goto(t, AfterRelease(m)) /\ pmedia' = [pmedia EXCEPT ![t] = m]
     /\ UNCHANGED <<letters, mounts, slots, access_semaphore, exclusive, files, search, call, letter, pdr, fd>>

\* The drive is released and the call returns; without a slot the null pointer is used.
Unlock(t) ==
  /\ pc[t] = "Unlock" /\ pmedia[t] # None
  /\ access_semaphore' = [access_semaphore EXCEPT ![pmedia[t]] = None]
  /\ exclusive' = IF Exclusive THEN None ELSE exclusive
  /\ Return(t)
  /\ UNCHANGED <<letters, mounts, slots, saved_media_info, search>>

------------------------------------------------------------------------------
Init ==
  /\ map = [d \in Drives |-> None] /\ mem_drive_freelist = Structs /\ installing = {} /\ early = FALSE
  /\ driveno = [s \in Structs |-> 0] /\ pmedia_info = [s \in Structs |-> None]
  /\ mounted = [s \in Structs |-> 0] /\ opencount = [s \in Structs |-> 0]
  /\ drive_opencounter = 0
  /\ devhandle = [m \in Media |-> None] /\ removing = [m \in Media |-> FALSE]
  /\ access_semaphore = [m \in Media |-> None] /\ exclusive = None
  /\ saved_media_info = [d \in Drives |-> None]
  /\ owner = [f \in Files |-> None] /\ pdrive = [f \in Files |-> None]
  /\ file_mount = [f \in Files |-> 0]
  /\ search_letter = [t \in Threads |-> None] /\ search_count = [t \in Threads |-> 0]
  /\ search_mount = [t \in Threads |-> 0]
  /\ pc = [p \in Procs |-> "Idle"] /\ call = [p \in Procs |-> None] /\ letter = [p \in Procs |-> None]
  /\ pdr = [p \in Procs |-> None] /\ pmedia = [p \in Procs |-> None] /\ fd = [p \in Procs |-> None]

Start(t) ==
  /\ Started
  /\ \/ \E c \in Calls[t] \cap NamesADrive, d \in Letters[t] : BeginByName(t, c, d)
     \/ \E c \in Calls[t] \cap GoesOnSearching : BeginBySearch(t, c)
     \/ \E c \in Calls[t] \cap HasAFile, f \in Files : BeginByFile(t, c, f)
     \/ \E f \in Files : CloseAborted(t, f)

\* What a call does once it has begun.
Continue(t) ==
  \/ Look(t) \/ Found(t) \/ Claim(t) \/ Recheck(t) \/ ClaimExclusive(t)
  \/ CheckFile(t) \/ CheckMount(t) \/ Opened(t)
  \/ Open(t) \/ Read(t) \/ Close(t) \/ First(t) \/ CheckSearch(t) \/ Search(t) \/ DiskClose(t)
  \/ Release(t) \/ FreeVolumes(t) \/ Unmap(t) \/ Unlock(t)

EjectGoesOn == EjectClaim \/ FreeVolumes(Driver) \/ Unmap(Driver) \/ EjectEnd

Next ==
  \/ \E dev \in Devices : Insert(dev)
  \/ InsertGoesOn
  \/ \E m \in Media : Eject(m)
  \/ EjectGoesOn
  \/ \E t \in Threads : Start(t) \/ Continue(t)

Spec == Init /\ [][Next]_vars

\* A call that has begun and a removal that has been reported go on; no thread waits for ever for the
\* semaphore of the shared buffers.
FairSpec ==
  /\ Spec /\ WF_vars(EjectGoesOn)
  /\ \A t \in Threads : WF_vars(Continue(t)) /\ SF_vars(ClaimExclusive(t))

------------------------------------------------------------------------------
(* Properties                                                                   *)

\* A call has its drive claimed from the second look at the letter until it has released it.
Holding == {"Exclusive", "Claimed", "Opened", "Work", "Search", "Release"}

\* A call that has its drive claimed has it alone: the letter still leads to the structure it works on,
\* which is set up, the semaphore it owns is that of the medium in the drive now and, when buffers are
\* shared, it has them too. No other process has a semaphore, so none is kept when a call returns. All
\* this as long as no call goes on with a letter that an insertion is setting up, which the code does
\* not prevent (rtfs_claim_media_and_buffers, rtfs_release_media_and_buffers).
VolumeStaysWhileUsed ==
  \/ early
  \/ /\ \A t \in Threads : pc[t] \in Holding =>
          /\ map[letter[t]] = pdr[t] /\ letter[t] \notin installing
          /\ access_semaphore[pmedia_info[pdr[t]]] = t
          /\ Exclusive /\ pc[t] # "Exclusive" => exclusive = t
          /\ pc[t] \in {"Work", "Search"} => mounted[pdr[t]] # 0
     /\ \A m \in Media : access_semaphore[m] # None =>
          pc[access_semaphore[m]] \in Holding \cup {"Recheck", "FreeVolumes", "Unmap", "Unlock"}

\* A call that goes on with a file or a search works on the mount it was opened in, never on the
\* volume that came to the same letter later (pc_fd2file, pc_gnext, pc_dskfree).
HandlesStayOnTheirVolume ==
  \/ early
  \/ \A t \in Threads :
       /\ pc[t] = "Work" /\ call[t] \in HasAFile =>
            owner[fd[t]] = t /\ pdrive[fd[t]] = pdr[t] /\ file_mount[fd[t]] = mounted[pdr[t]]
       /\ pc[t] = "Search" => search_mount[t] = mounted[pdr[t]]

\* A removal that was reported is carried out, however busy the drive is: the driver may never get the
\* semaphore, but then a call that ends does it (RTFS_DEVI_device_dismount).
RemovalsEnd == \A m \in Media : removing[m] ~> ~removing[m] \/ early
================================================================================
