--------------------------- MODULE MediaAccessProofs ---------------------------
(***************************************************************************)
(* Theorems about the way calls get at a volume, for any threads, calls,   *)
(* drives, slots, files and fixed devices, and one device that may be      *)
(* removed, as long as no call has gone on with a letter that an insertion *)
(* is setting up.                                                          *)
(***************************************************************************)
EXTENDS MediaAccess, FiniteSetTheorems, TLAPS

\* With two removable devices a slot may be taken by the other one between the two looks at a letter.
OneCard == \A d, e \in Removable : d = e

-----------------------------------------------------------------------------
(* The inductive invariant *)

Waiting == {"Look", "Found", "Claim", "Recheck"}
Leaving == {"FreeVolumes", "Unmap", "Unlock"}
Arriving == Waiting \cup {"Exclusive", "Claimed", "Opened", "Work"}
Labels  == {"Idle"} \cup Waiting \cup Holding \cup Leaving \cup Inserting
AnyCall == NamesADrive \cup GoesOnSearching \cup HasAFile

MediaTypeOK ==
  /\ map \in [Drives -> Structs \cup {None}] /\ mem_drive_freelist \subseteq Structs
  /\ driveno \in [Structs -> Nat] /\ pmedia_info \in [Structs -> Media \cup {None}]
  /\ installing \subseteq Drives
  /\ mounted \in [Structs -> Nat] /\ opencount \in [Structs -> Nat] /\ drive_opencounter \in Nat
  /\ devhandle \in [Media -> Devices \cup {None}] /\ removing \in [Media -> BOOLEAN]
  /\ access_semaphore \in [Media -> Procs \cup {None}] /\ exclusive \in Threads \cup {None}
  /\ saved_media_info \in [Drives -> Media \cup {None}]
  /\ owner \in [Files -> Threads \cup {None}] /\ pdrive \in [Files -> Structs \cup {None}]
  /\ file_mount \in [Files -> Nat]
  /\ search_letter \in [Threads -> Drives \cup {None}]
  /\ search_count \in [Threads -> Nat] /\ search_mount \in [Threads -> Nat]
  /\ pc \in [Procs -> Labels] /\ pc[Driver] \in {"Idle", "Claim"} \cup Leaving \cup Inserting
  /\ call \in [Procs -> AnyCall \cup {None}] /\ letter \in [Procs -> Drives \cup {None}]
  /\ pdr \in [Procs -> Structs \cup {None}] /\ pmedia \in [Procs -> Media \cup {None}]
  /\ fd \in [Procs -> Files \cup {None}]

\* A process has the locals its place asks for.
LocalsInv ==
  /\ \A t \in Threads :
       /\ pc[t] # "Idle" => letter[t] \in Drives /\ call[t] \in AnyCall
       /\ pc[t] \in {"Found", "Claim", "Recheck"} \cup Holding => pdr[t] \in Structs
  /\ \A p \in Procs : pc[p] \in {"Claim", "Recheck"} \cup Leaving => pmedia[p] \in Media

\* A letter leads to a structure in use that has the same letter and, unless an insertion is setting it
\* up, a slot; in the slot is a device. The letters of a device are next to each other.
LettersInv ==
  /\ \A d \in Drives : map[d] # None =>
       /\ driveno[map[d]] = d /\ map[d] \notin mem_drive_freelist
       /\ d \notin installing => pmedia_info[map[d]] \in Media
       /\ pmedia_info[map[d]] # None => devhandle[pmedia_info[map[d]]] # None
  /\ \A m \in Media : \E first, n \in 0 .. NDrives : LettersOf(m) = Run(first, n)

\* The letters an insertion is setting up are not mounted and have no slot or the one of the device that
\* comes. This device has no other letters until all of its own are bound, and nobody removes it.
InstallInv ==
  LET m == pmedia[Driver] IN
  /\ installing # {} => pc[Driver] \in {"Attach", "Bind", "Excess", "Fail"}
  /\ \A d \in installing : map[d] # None /\ mounted[map[d]] = 0 /\ pmedia_info[map[d]] \in {None, m}
  /\ pc[Driver] \in Inserting =>
       /\ m \in Media /\ devhandle[m] \in Devices /\ ~removing[m]
       /\ devhandle[m] \notin Removable => \A i \in Media : devhandle[i] \notin Removable
  /\ pc[Driver] \in {"Reserve", "Attach"} => LettersOf(m) = {}
  /\ pc[Driver] = "Bind" => \A d \in LettersOf(m) : FirstInstalled(d)
  /\ pc[Driver] = "Excess" => LettersOf(m) \cap installing = {}
  /\ pc[Driver] = "Fail" => LettersOf(m) \subseteq installing

\* Calls are made once the fixed devices have been set up.
ActiveInv == \A t \in Threads : pc[t] # "Idle" => Started

FixedAreThere == \A d \in Devices \ Removable : \E i \in Media : devhandle[i] = d

\* The slot a card goes to once all fixed devices are there: the first that none of them has.
CardSlot(m) ==
  /\ FixedAreThere
  /\ devhandle[m] \in Removable \cup {None}
  /\ \A i \in Media : devhandle[i] \in Removable \cup {None} => m <= i

\* Only cards are removed, and a card is always in the same slot.
CardInv ==
  /\ \A m \in Media : removing[m] => devhandle[m] \in Removable
  /\ \A m \in Media : devhandle[m] \in Removable => CardSlot(m)

\* Of a letter that may have lost its medium: if it leads anywhere now, then to the card.
LeadsToCard(d) ==
  /\ FixedAreThere
  /\ map[d] # None /\ pmedia_info[map[d]] # None => CardSlot(pmedia_info[map[d]])

\* The structure or the slot a call has found is the one its letter leads to, or the card's.
FoundStructure(d, s) ==
  \/ map[d] = s
  \/ LeadsToCard(d) /\ (pmedia_info[s] # None => CardSlot(pmedia_info[s]))

FoundSlot(d, m) ==
  \/ map[d] # None /\ pmedia_info[map[d]] = m
  \/ LeadsToCard(d) /\ CardSlot(m)

FoundInv == \A t \in Threads :
  /\ pc[t] = "Found" => FoundStructure(letter[t], pdr[t])
  /\ pc[t] \in {"Claim", "Recheck"} => FoundSlot(letter[t], pmedia[t])

\* Who owns a semaphore, and of which slot.
Owning == {"Recheck"} \cup Holding \cup Leaving
SlotOf(p) == IF pc[p] \in Holding THEN pmedia_info[pdr[p]] ELSE pmedia[p]

SemaphoreInv ==
  /\ \A t \in Threads : pc[t] \in Holding => map[letter[t]] = pdr[t] /\ letter[t] \notin installing
  /\ \A p \in Procs : pc[p] \in Owning => access_semaphore[SlotOf(p)] = p
  /\ \A m \in Media : access_semaphore[m] # None =>
       pc[access_semaphore[m]] \in Owning /\ SlotOf(access_semaphore[m]) = m
  /\ \A t \in Threads : Exclusive /\ pc[t] \in (Holding \ {"Exclusive"}) \cup Leaving => exclusive = t

\* Who takes a medium away has a reason, and has closed its volumes before their letters go.
RemovalInv == \A p \in Procs :
  /\ pc[p] \in {"FreeVolumes", "Unmap"} => removing[pmedia[p]]
  /\ pc[p] = "Unmap" => \A d \in LettersOf(pmedia[p]) : mounted[map[d]] = 0

\* Mounts are counted; a search sees a number that is not below the mount's.
MountsInv ==
  /\ \A s \in Structs : mounted[s] <= drive_opencounter /\ opencount[s] <= drive_opencounter
  /\ \A s \in Structs : mounted[s] <= opencount[s] \/ \E t \in Threads : pc[t] = "Opened" /\ pdr[t] = s
  /\ \A t \in Threads : pc[t] \in {"Opened", "Work", "Search"} => mounted[pdr[t]] # 0

\* An open file belongs to a thread and to the mount of a volume that has a letter.
FilesInv ==
  /\ \A f \in Files : pdrive[f] # None =>
       /\ owner[f] # None /\ mounted[pdrive[f]] # 0 /\ file_mount[f] = mounted[pdrive[f]]
       /\ driveno[pdrive[f]] \in Drives /\ map[driveno[pdrive[f]]] = pdrive[f]
  /\ \A t \in Threads : pc[t] = "Opened" => \A f \in Files : pdrive[f] # pdr[t]

\* A call with a file has its own file, of the drive it has named.
CallsInv == \A t \in Threads :
  /\ pc[t] # "Idle" /\ call[t] \in HasAFile /\ fd[t] # None =>
       /\ owner[fd[t]] = t
       /\ pdrive[fd[t]] # None => driveno[pdrive[fd[t]]] = letter[t]
  /\ pc[t] \in Arriving /\ call[t] \in HasAFile => fd[t] # None
  /\ pc[t] = "Opened" => call[t] \notin HasAFile
  /\ pc[t] \in Arriving /\ call[t] \in GoesOnSearching => search_letter[t] = letter[t]

\* A search remembers a mount: its letter leads to this one or to one with a higher number.
SearchInv == \A t \in Threads :
  search_letter[t] # None =>
    /\ search_count[t] <= drive_opencounter
    /\ map[search_letter[t]] # None =>
         LET n == mounted[map[search_letter[t]]] IN n # 0 => n = search_mount[t] \/ n > search_count[t]

MediaInv ==
  /\ ~early
  /\ MediaTypeOK /\ LocalsInv /\ LettersInv /\ InstallInv /\ ActiveInv /\ CardInv /\ FoundInv
  /\ SemaphoreInv /\ RemovalInv /\ MountsInv /\ FilesInv /\ CallsInv /\ SearchInv /\ HandlesStayOnTheirVolume
-----------------------------------------------------------------------------
(* Insertion *)

\* A step after which no call has gone on with a letter that is not set up.
QuietStep == [Next]_vars /\ ~early'

SettingUp == (\E dev \in Devices : Insert(dev)) \/ InsertGoesOn

\* What a step of an insertion leaves alone: letters that are set up, structures in use, mounts and calls.
SetsUp ==
  /\ \A t \in Threads : pc'[t] = pc[t] /\ pmedia'[t] = pmedia[t]
  /\ pc[Driver] \in {"Idle"} \cup Inserting /\ pc'[Driver] \in {"Idle"} \cup Inserting
  /\ UNCHANGED <<drive_opencounter, locks, files, search, call, letter, pdr, fd>>
  /\ \A d \in Drives : map[d] # None =>
       \/ map'[d] = map[d] /\ (d \notin installing => d \notin installing')
       \/ d \in installing /\ map'[d] = None
  /\ \A d \in Drives : map[d] = None /\ map'[d] # None =>
       /\ map'[d] \in mem_drive_freelist
       /\ driveno'[map'[d]] = d /\ pmedia_info'[map'[d]] = None /\ mounted'[map'[d]] = 0
  /\ \A s \in Structs \ mem_drive_freelist :
       /\ driveno'[s] = driveno[s] /\ mounted'[s] = mounted[s] /\ opencount'[s] = opencount[s]
       /\ \/ pmedia_info'[s] = pmedia_info[s]
          \/ pmedia_info[s] = None /\ pmedia_info'[s] = pmedia[Driver] /\ pc[Driver] \in Inserting
  /\ \A s \in mem_drive_freelist : pmedia_info'[s] \in {pmedia_info[s], None}
  /\ \A s \in Structs : \/ mounted'[s] = mounted[s] /\ opencount'[s] = opencount[s]
                        \/ mounted'[s] = 0 /\ opencount'[s] = 0

\* The types of what it changes.
SetUpTypes ==
  /\ map' \in [Drives -> Structs \cup {None}] /\ mem_drive_freelist' \subseteq Structs
  /\ driveno' \in [Structs -> Nat] /\ pmedia_info' \in [Structs -> Media \cup {None}]
  /\ installing' \subseteq Drives
  /\ mounted' \in [Structs -> Nat] /\ opencount' \in [Structs -> Nat]
  /\ devhandle' \in [Media -> Devices \cup {None}] /\ removing' \in [Media -> BOOLEAN]
  /\ pc' \in [Procs -> Labels] /\ pmedia' \in [Procs -> Media \cup {None}]

\* The structures that are cleared were not in use.
LEMMA ClearDoes ==
  ASSUME MediaTypeOK, NEW S \in SUBSET mem_drive_freelist, Clear(S)
  PROVE  /\ \A s \in Structs \ mem_drive_freelist :
              pmedia_info'[s] = pmedia_info[s] /\ mounted'[s] = mounted[s] /\ opencount'[s] = opencount[s]
         /\ \A s \in mem_drive_freelist : pmedia_info'[s] \in {pmedia_info[s], None}
         /\ \A s \in Structs : \/ mounted'[s] = mounted[s] /\ opencount'[s] = opencount[s]
                               \/ mounted'[s] = 0 /\ opencount'[s] = 0
         /\ \A s \in S : pmedia_info'[s] = None /\ mounted'[s] = 0
         /\ pmedia_info' \in [Structs -> Media \cup {None}]
         /\ mounted' \in [Structs -> Nat] /\ opencount' \in [Structs -> Nat]
BY DEF MediaTypeOK, Clear

\* A letter that is reserved has a structure of its own, without a slot.
LEMMA ReserveDoes ==
  ASSUME MediaAccessAssumption, MediaInv, Reserve
  PROVE  /\ \A d \in Drives : map[d] # None => map'[d] = map[d] /\ d \notin installing'
         /\ \A d \in Drives : map[d] = None /\ map'[d] # None =>
              /\ map'[d] \in mem_drive_freelist \ mem_drive_freelist' /\ d \in installing'
              /\ driveno'[map'[d]] = d /\ pmedia_info'[map'[d]] = None /\ mounted'[map'[d]] = 0
         /\ \A d \in installing' : d \in Drives /\ map'[d] # None
         /\ mem_drive_freelist' \subseteq mem_drive_freelist
         /\ \A s \in Structs \ mem_drive_freelist :
              /\ driveno'[s] = driveno[s] /\ pmedia_info'[s] = pmedia_info[s]
              /\ mounted'[s] = mounted[s] /\ opencount'[s] = opencount[s]
         /\ \A s \in mem_drive_freelist : pmedia_info'[s] \in {pmedia_info[s], None}
         /\ \A s \in Structs : \/ mounted'[s] = mounted[s] /\ opencount'[s] = opencount[s]
                               \/ mounted'[s] = 0 /\ opencount'[s] = 0
         /\ map' \in [Drives -> Structs \cup {None}] /\ mem_drive_freelist' \subseteq Structs
         /\ driveno' \in [Structs -> Nat] /\ pmedia_info' \in [Structs -> Media \cup {None}]
         /\ mounted' \in [Structs -> Nat] /\ opencount' \in [Structs -> Nat]
<1> DEFINE dev == devhandle[pmedia[Driver]]
<1>0. MediaTypeOK /\ None \notin Structs /\ NDrives \in Nat
  BY DEF MediaInv, MediaAccessAssumption
<1>1. PICK first \in Drives, r \in Wanted(dev), S \in Taken(dev) :
        /\ CanReserve(dev, first, r)
        /\ Clear(S)
        /\ \E struct \in [Run(first, r) -> S] :
             /\ \A d, e \in Run(first, r) : struct[d] = struct[e] => d = e
             /\ map' = [d \in Drives |-> IF d \in Run(first, r) THEN struct[d] ELSE map[d]]
             /\ mem_drive_freelist' = mem_drive_freelist \ {struct[d] : d \in Run(first, r)}
             /\ driveno' = [s \in Structs |-> IF \E d \in Run(first, r) : struct[d] = s
                              THEN CHOOSE d \in Run(first, r) : struct[d] = s
                              ELSE IF s \in S THEN 0 ELSE driveno[s]]
        /\ installing' = Run(first, r)
  BY Zenon DEF Reserve
<1> DEFINE R == Run(first, r)
<1>3. PICK struct \in [R -> S] :
        /\ \A d, e \in R : struct[d] = struct[e] => d = e
        /\ map' = [d \in Drives |-> IF d \in R THEN struct[d] ELSE map[d]]
        /\ mem_drive_freelist' = mem_drive_freelist \ {struct[d] : d \in R}
        /\ driveno' = [s \in Structs |-> IF \E d \in R : struct[d] = s
                         THEN CHOOSE d \in R : struct[d] = s
                         ELSE IF s \in S THEN 0 ELSE driveno[s]]
  BY <1>1, Zenon
<1>4. S \subseteq mem_drive_freelist /\ mem_drive_freelist \subseteq Structs
  BY <1>0 DEF Taken, MediaTypeOK
<1>5. R \subseteq Drives /\ \A d \in R : map[d] = None
  BY <1>1 DEF CanReserve
<1>6. /\ \A s \in Structs \ mem_drive_freelist :
           pmedia_info'[s] = pmedia_info[s] /\ mounted'[s] = mounted[s] /\ opencount'[s] = opencount[s]
      /\ \A s \in mem_drive_freelist : pmedia_info'[s] \in {pmedia_info[s], None}
      /\ \A s \in Structs : \/ mounted'[s] = mounted[s] /\ opencount'[s] = opencount[s]
                            \/ mounted'[s] = 0 /\ opencount'[s] = 0
      /\ \A s \in S : pmedia_info'[s] = None /\ mounted'[s] = 0
      /\ pmedia_info' \in [Structs -> Media \cup {None}]
      /\ mounted' \in [Structs -> Nat] /\ opencount' \in [Structs -> Nat]
  BY <1>0, <1>1, <1>4, ClearDoes
<1>7. \A d \in R : struct[d] \in S /\ struct[d] \in Structs /\ struct[d] # None /\ map'[d] = struct[d]
  BY <1>0, <1>3, <1>4, <1>5
<1>8. \A d \in Drives \ R : map'[d] = map[d]
  BY <1>3
<1>9. \A d \in R : driveno'[struct[d]] = d
  <2> SUFFICES ASSUME NEW d \in R PROVE driveno'[struct[d]] = d
    OBVIOUS
  <2>1. driveno'[struct[d]] = CHOOSE e \in R : struct[e] = struct[d]
    BY <1>3, <1>7
  <2>2. \A e \in R : struct[e] = struct[d] => e = d
    BY <1>3
  <2> QED BY <2>1, <2>2
<1>10. \A s \in Structs \ mem_drive_freelist : driveno'[s] = driveno[s]
  BY <1>3, <1>4, <1>7
<1>11. driveno' \in [Structs -> Nat]
  <2>1. \A s \in Structs : driveno'[s] \in Nat
    <3> SUFFICES ASSUME NEW s \in Structs PROVE driveno'[s] \in Nat
      OBVIOUS
    <3>1. ASSUME NEW d \in R, struct[d] = s PROVE driveno'[s] \in Nat
      BY <1>5, <1>9, <3>1 DEF Drives
    <3>2. CASE ~\E d \in R : struct[d] = s
      BY <1>0, <1>3, <3>2 DEF MediaTypeOK
    <3> QED BY <3>1, <3>2
  <2> QED BY <1>3, <2>1
<1>12. map' \in [Drives -> Structs \cup {None}] /\ mem_drive_freelist' \subseteq Structs
  BY <1>0, <1>3, <1>4, <1>7 DEF MediaTypeOK
<1>13. \A d \in Drives : map[d] # None => map'[d] = map[d] /\ d \notin installing'
  BY <1>1, <1>5, <1>8
<1>14. \A d \in Drives : map[d] = None /\ map'[d] # None =>
         /\ map'[d] \in mem_drive_freelist \ mem_drive_freelist' /\ d \in installing'
         /\ driveno'[map'[d]] = d /\ pmedia_info'[map'[d]] = None /\ mounted'[map'[d]] = 0
  <2> SUFFICES ASSUME NEW d \in Drives, map[d] = None, map'[d] # None
               PROVE  /\ map'[d] \in mem_drive_freelist \ mem_drive_freelist' /\ d \in installing'
                      /\ driveno'[map'[d]] = d /\ pmedia_info'[map'[d]] = None /\ mounted'[map'[d]] = 0
    OBVIOUS
  <2>1. d \in R /\ map'[d] = struct[d]
    BY <1>7, <1>8
  <2>2. struct[d] \in mem_drive_freelist \ mem_drive_freelist'
    BY <1>3, <1>4, <1>7, <2>1
  <2> QED BY <1>1, <1>6, <1>7, <1>9, <2>1, <2>2
<1>15. \A d \in installing' : d \in Drives /\ map'[d] # None
  BY <1>1, <1>5, <1>7
<1>16. mem_drive_freelist' \subseteq mem_drive_freelist
  BY <1>3
<1> QED BY <1>6, <1>10, <1>11, <1>12, <1>13, <1>14, <1>15, <1>16

\* Two letters never lead to the same structure.
LEMMA LettersDiffer ==
  ASSUME MediaInv, NEW d \in Drives, NEW e \in Drives, map[d] # None, map[d] = map[e]
  PROVE  d = e
<1>1. driveno[map[d]] = d /\ driveno[map[e]] = e
  BY DEF MediaInv, LettersInv
<1> QED BY <1>1

\* When a medium is attached or bound, only structures of letters that are being set up get it.
LEMMA BindDoes ==
  ASSUME MediaAccessAssumption, MediaInv, Attach \/ Bind
  PROVE  /\ UNCHANGED <<map, mem_drive_freelist, driveno, mounts, devhandle>>
         /\ installing' \subseteq installing
         /\ pmedia_info' \in [Structs -> Media \cup {None}]
         /\ \A s \in Structs : pmedia_info'[s] # pmedia_info[s] =>
              /\ pmedia_info[s] = None /\ pmedia_info'[s] = pmedia[Driver]
              /\ \E d \in installing : map[d] = s
<1>0. /\ MediaTypeOK /\ InstallInv /\ pc[Driver] \in Inserting /\ pmedia[Driver] \in Media
  BY DEF MediaInv, InstallInv, Attach, Bind, Inserting
<1>1. CASE Attach
  <2>1. PICK d \in installing : pmedia_info' = [pmedia_info EXCEPT ![map[d]] = pmedia[Driver]]
    BY <1>1 DEF Attach, FirstInstalled
  <2>2. pmedia_info[map[d]] \in {None, pmedia[Driver]}
    BY <1>0 DEF InstallInv
  <2> QED BY <1>0, <1>1, <2>1, <2>2 DEF Attach, MediaTypeOK, slots
<1>2. CASE Bind
  <2>1. CASE UNCHANGED <<pmedia_info, installing>>
    BY <1>0, <1>2, <2>1 DEF Bind, MediaTypeOK, slots
  <2>2. ASSUME NEW R \in SUBSET installing,
               pmedia_info' = [s \in Structs |-> IF \E d \in R : map[d] = s THEN pmedia[Driver] ELSE pmedia_info[s]],
               installing' = installing \ R
        PROVE  /\ installing' \subseteq installing
               /\ pmedia_info' \in [Structs -> Media \cup {None}]
               /\ \A s \in Structs : pmedia_info'[s] # pmedia_info[s] =>
                    /\ pmedia_info[s] = None /\ pmedia_info'[s] = pmedia[Driver]
                    /\ \E d \in installing : map[d] = s
    <3>1. \A d \in R : pmedia_info[map[d]] \in {None, pmedia[Driver]}
      BY <1>0 DEF InstallInv
    <3> QED BY <1>0, <2>2, <3>1 DEF MediaTypeOK
  <2>3. UNCHANGED <<map, mem_drive_freelist, driveno, mounts, devhandle>>
    BY <1>2 DEF Bind, slots
  <2>4. ASSUME NEW first \in Drives, NEW n \in 1 .. NDrives, Run(first, n) \subseteq installing,
               pmedia_info' = [s \in Structs |-> IF \E d \in Run(first, n) : map[d] = s THEN pmedia[Driver]
                                                 ELSE pmedia_info[s]],
               installing' = installing \ Run(first, n)
        PROVE  /\ installing' \subseteq installing
               /\ pmedia_info' \in [Structs -> Media \cup {None}]
               /\ \A s \in Structs : pmedia_info'[s] # pmedia_info[s] =>
                    /\ pmedia_info[s] = None /\ pmedia_info'[s] = pmedia[Driver]
                    /\ \E d \in installing : map[d] = s
    BY <2>2, <2>4
  <2> QED BY <1>2, <2>1, <2>3, <2>4 DEF Bind
<1> QED BY <1>1, <1>2

LEMMA SetsUpDoes ==
  ASSUME MediaAccessAssumption, MediaInv, SettingUp
  PROVE  SetsUp /\ SetUpTypes
<1>0. /\ MediaTypeOK /\ InstallInv /\ LettersInv /\ Driver \in Procs /\ None \notin Structs
      /\ \A t \in Threads : t # Driver /\ t \in Procs
  BY DEF MediaInv, MediaAccessAssumption, Procs
<1> USE DEF slots, mounts, locks, files, search, letters, drives, locals
<1>1. ASSUME NEW dev \in Devices, Insert(dev) PROVE SetsUp /\ SetUpTypes
  <2>1. PICK m \in Media : /\ devhandle' = [devhandle EXCEPT ![m] = dev] /\ removing' = [removing EXCEPT ![m] = FALSE]
                           /\ pmedia' = [pmedia EXCEPT ![Driver] = m]
    BY <1>1 DEF Insert
  <2>2. pc[Driver] = "Idle" /\ pc' = [pc EXCEPT ![Driver] = "Reserve"]
    BY <1>1 DEF Insert, Goto
  <2>3. UNCHANGED <<letters, mounts, locks, files, search, call, letter, pdr, fd>>
    BY <1>1 DEF Insert
  <2>4. SetsUp
    BY <1>0, <2>1, <2>2, <2>3 DEF SetsUp, MediaTypeOK, Inserting
  <2>5. SetUpTypes
    BY <1>0, <2>1, <2>2, <2>3 DEF SetUpTypes, MediaTypeOK, Labels, Inserting
  <2> QED BY <2>4, <2>5
<1>2. CASE Reserve
  <2>1. pc[Driver] = "Reserve" /\ pc' = [pc EXCEPT ![Driver] = "Attach"]
    BY <1>2 DEF Reserve, Goto
  <2>2. UNCHANGED <<early, drive_opencounter, slots, locks, files, search, locals>>
    BY <1>2 DEF Reserve
  <2>3. SetsUp
    BY <1>0, <1>2, <2>1, <2>2, ReserveDoes DEF SetsUp, MediaTypeOK, Inserting
  <2>4. SetUpTypes
    BY <1>0, <1>2, <2>1, <2>2, ReserveDoes DEF SetUpTypes, MediaTypeOK, Labels, Inserting
  <2> QED BY <2>3, <2>4
<1>3. CASE Refuse
  <2>1. pc[Driver] = "Reserve" /\ pc' = [pc EXCEPT ![Driver] = "Fail"]
    BY <1>3 DEF Refuse, Goto
  <2>2. UNCHANGED <<map, mem_drive_freelist, installing, early, drive_opencounter, slots, locks, files, search, locals>>
    BY <1>3 DEF Refuse
  <2>3. PICK S \in SUBSET mem_drive_freelist :
          Clear(S) /\ driveno' = [s \in Structs |-> IF s \in S THEN 0 ELSE driveno[s]]
    BY <1>3 DEF Refuse, Taken
  <2>4. /\ \A s \in Structs \ mem_drive_freelist :
             pmedia_info'[s] = pmedia_info[s] /\ mounted'[s] = mounted[s] /\ opencount'[s] = opencount[s]
        /\ \A s \in mem_drive_freelist : pmedia_info'[s] \in {pmedia_info[s], None}
        /\ \A s \in Structs : \/ mounted'[s] = mounted[s] /\ opencount'[s] = opencount[s]
                              \/ mounted'[s] = 0 /\ opencount'[s] = 0
        /\ pmedia_info' \in [Structs -> Media \cup {None}]
        /\ mounted' \in [Structs -> Nat] /\ opencount' \in [Structs -> Nat]
    BY <1>0, <2>3, ClearDoes
  <2>5. SetsUp
    BY <1>0, <2>1, <2>2, <2>3, <2>4 DEF SetsUp, MediaTypeOK, Inserting
  <2>6. SetUpTypes
    BY <1>0, <2>1, <2>2, <2>3, <2>4 DEF SetUpTypes, MediaTypeOK, Labels, Inserting
  <2> QED BY <2>5, <2>6
<1>4. CASE Attach \/ Bind
  <2>1. pc[Driver] \in {"Attach", "Bind"} /\ \E l \in {"Bind", "Excess", "Fail"} : pc' = [pc EXCEPT ![Driver] = l]
    BY <1>4 DEF Attach, Bind, Goto
  <2>2. UNCHANGED <<early, mounts, slots, locks, files, search, locals>>
    BY <1>4 DEF Attach, Bind
  <2>3. /\ \A d \in installing : d \in Drives /\ map[d] \notin mem_drive_freelist
        /\ \A s \in mem_drive_freelist : pmedia_info'[s] = pmedia_info[s]
    BY <1>0, <1>4, BindDoes DEF InstallInv, LettersInv, MediaTypeOK
  <2>4. SetsUp
    BY <1>0, <1>4, <2>1, <2>2, <2>3, BindDoes DEF SetsUp, MediaTypeOK, Inserting
  <2>5. SetUpTypes
    BY <1>0, <1>4, <2>1, <2>2, BindDoes DEF SetUpTypes, MediaTypeOK, Labels, Inserting
  <2> QED BY <2>4, <2>5
<1>5. CASE ReleaseExcess
  <2>1. /\ pc[Driver] \in {"Excess", "Fail"} /\ pc' = [pc EXCEPT ![Driver] = "Idle"]
        /\ pmedia' = [pmedia EXCEPT ![Driver] = None]
    BY <1>5 DEF ReleaseExcess, Goto
  <2>2. UNCHANGED <<driveno, pmedia_info, early, mounts, removing, locks, files, search, call, letter, pdr, fd>>
    BY <1>5 DEF ReleaseExcess
  <2>3. /\ map' = [d \in Drives |-> IF d \in installing THEN None ELSE map[d]]
        /\ mem_drive_freelist' = mem_drive_freelist \cup {map[d] : d \in installing} /\ installing' = {}
    BY <1>5 DEF ReleaseExcess
  <2>4. devhandle' \in [Media -> Devices \cup {None}]
    BY <1>0, <1>5 DEF ReleaseExcess, MediaTypeOK
  <2>5. {map[d] : d \in installing} \subseteq Structs
    BY <1>0 DEF MediaTypeOK, InstallInv
  <2>6. SetsUp
    BY <1>0, <2>1, <2>2, <2>3 DEF SetsUp, MediaTypeOK, Inserting
  <2>7. SetUpTypes
    BY <1>0, <2>1, <2>2, <2>3, <2>4, <2>5 DEF SetUpTypes, MediaTypeOK, Labels
  <2> QED BY <2>6, <2>7
<1> QED BY <1>1, <1>2, <1>3, <1>4, <1>5 DEF SettingUp, InsertGoesOn

-----------------------------------------------------------------------------
(* Removal *)

\* The letters of a device are found again from the first and their number
\* (RTFS_DEVI_device_release_volumes).
LEMMA LettersAreARun ==
  ASSUME MediaAccessAssumption, LettersInv, NEW m \in Media
  PROVE  UNION {Run(d, Cardinality(LettersOf(m))) :
                  d \in {e \in LettersOf(m) : \A x \in LettersOf(m) : e <= x}} = LettersOf(m)
<1> DEFINE L == LettersOf(m)
           F == {e \in L : \A x \in L : e <= x}
<1>1. PICK first \in 0 .. NDrives, n \in 0 .. NDrives : L = first .. first + n - 1
  BY DEF LettersInv, Run
<1>2. NDrives \in Nat
  BY DEF MediaAccessAssumption
<1>3. CASE n = 0
  <2>1. L = {}
    BY <1>1, <1>2, <1>3
  <2> HIDE DEF L
  <2>2. F = {}
    BY <2>1
  <2> HIDE DEF F
  <2>3. UNION {Run(d, Cardinality(L)) : d \in F} = {}
    BY <2>2
  <2> QED BY <2>1, <2>3 DEF L, F
<1>4. CASE n # 0
  <2>1. Cardinality(L) = n
    BY <1>1, <1>2, <1>4, FS_Interval
  <2>2. first \in L /\ \A x \in L : first <= x
    BY <1>1, <1>2, <1>4
  <2>3. L \subseteq Int
    BY <1>1, <1>2
  <2> HIDE DEF L
  <2>4. F = {first}
    <3>1. first \in F
      BY <2>2
    <3>2. \A e \in F : e = first
      BY <2>2, <2>3
    <3> QED BY <3>1, <3>2
  <2> HIDE DEF F
  <2>5. UNION {Run(d, Cardinality(L)) : d \in F} = Run(first, n)
    BY <2>1, <2>4
  <2> QED BY <1>1, <2>5 DEF L, F, Run
<1> QED BY <1>3, <1>4

\* What taking a medium away does to the letters.
LEMMA UnmapDoes ==
  ASSUME MediaAccessAssumption, MediaInv, NEW p \in Procs, Unmap(p)
  PROVE  /\ pmedia[p] \in Media /\ pc[p] = "Unmap"
         /\ map' = [d \in Drives |-> IF d \in LettersOf(pmedia[p]) THEN None ELSE map[d]]
         /\ mem_drive_freelist' = mem_drive_freelist \cup {map[d] : d \in LettersOf(pmedia[p])}
         /\ removing' = [removing EXCEPT ![pmedia[p]] = FALSE]
         /\ devhandle' = [devhandle EXCEPT ![pmedia[p]] = None]
         /\ pc' = [pc EXCEPT ![p] = "Unlock"]
         /\ UNCHANGED <<driveno, pmedia_info, installing, early, mounts, locks, files, search, locals>>
<1>1. pc[p] = "Unmap" /\ pmedia[p] \in Media
  BY DEF MediaInv, LocalsInv, Unmap, Leaving
<1>2. UNION {Run(d, Cardinality(LettersOf(pmedia[p]))) :
               d \in {e \in LettersOf(pmedia[p]) : \A x \in LettersOf(pmedia[p]) : e <= x}}
      = LettersOf(pmedia[p])
  BY <1>1, LettersAreARun DEF MediaInv
<1> QED BY <1>1, <1>2 DEF Unmap, Goto

-----------------------------------------------------------------------------
(* Steps *)

\* What a step of process q leaves to the others.
OthersStay(q) ==
  /\ \A p \in Procs \ {q} : /\ pc'[p] = pc[p] /\ call'[p] = call[p] /\ letter'[p] = letter[p]
                            /\ pdr'[p] = pdr[p] /\ pmedia'[p] = pmedia[p] /\ fd'[p] = fd[p]
  /\ \A t \in Threads \ {q} : /\ search_letter'[t] = search_letter[t]
                              /\ search_count'[t] = search_count[t] /\ search_mount'[t] = search_mount[t]

LEMMA ThreadsStay ==
  ASSUME MediaTypeOK, NEW t \in Threads, Start(t) \/ Continue(t)
  PROVE  OthersStay(t)
<1> USE DEF OthersStay, MediaTypeOK, Goto, locals, search
<1>1. ASSUME NEW c, NEW d, BeginByName(t, c, d) PROVE OthersStay(t)
  BY <1>1 DEF BeginByName, Enter
<1>2. ASSUME NEW c, BeginBySearch(t, c) PROVE OthersStay(t)
  BY <1>2 DEF BeginBySearch, Enter
<1>3. ASSUME NEW c, NEW f, BeginByFile(t, c, f) PROVE OthersStay(t)
  BY <1>3 DEF BeginByFile, Enter
<1>4. ASSUME NEW f, CloseAborted(t, f) PROVE OthersStay(t)
  BY <1>4 DEF CloseAborted
<1>5. CASE Start(t)
  BY <1>1, <1>2, <1>3, <1>4, <1>5 DEF Start
<1>6. CASE Look(t) BY <1>6 DEF Look, Return
<1>7. CASE Found(t) BY <1>7 DEF Found
<1>8. CASE Claim(t) BY <1>8 DEF Claim
<1>9. CASE Recheck(t) BY <1>9 DEF Recheck, Return
<1>10. CASE ClaimExclusive(t) BY <1>10 DEF ClaimExclusive
<1>11. CASE CheckFile(t) BY <1>11 DEF CheckFile
<1>12. CASE CheckMount(t) BY <1>12 DEF CheckMount
<1>13. CASE Opened(t) BY <1>13 DEF Opened
<1>14. CASE Open(t) BY <1>14 DEF Open, Working
<1>15. CASE Read(t) BY <1>15 DEF Read, Working
<1>16. CASE Close(t) BY <1>16 DEF Close, Working
<1>17. CASE First(t) BY <1>17 DEF First, Working
<1>18. CASE CheckSearch(t) BY <1>18 DEF CheckSearch
<1>19. CASE Search(t) BY <1>19 DEF Search
<1>20. CASE DiskClose(t) BY <1>20 DEF DiskClose, Working
<1>21. CASE Release(t) BY <1>21 DEF Release
<1>22. CASE FreeVolumes(t) BY <1>22 DEF FreeVolumes
<1>23. CASE Unmap(t) BY <1>23 DEF Unmap
<1>24. CASE Unlock(t) BY <1>24 DEF Unlock, Return
<1> QED
  BY <1>5, <1>6, <1>7, <1>8, <1>9, <1>10, <1>11, <1>12, <1>13, <1>14, <1>15, <1>16, <1>17, <1>18, <1>19,
     <1>20, <1>21, <1>22, <1>23, <1>24 DEF Continue

LEMMA DriverStays ==
  ASSUME MediaTypeOK, EjectGoesOn \/ \E m \in Media : Eject(m)
  PROVE  OthersStay(Driver)
<1> USE DEF OthersStay, MediaTypeOK, Goto, locals, search
<1>1. ASSUME NEW m \in Media, Eject(m) PROVE OthersStay(Driver)
  BY <1>1 DEF Eject
<1>2. CASE EjectClaim BY <1>2 DEF EjectClaim
<1>3. CASE FreeVolumes(Driver) BY <1>3 DEF FreeVolumes
<1>4. CASE Unmap(Driver) BY <1>4 DEF Unmap
<1>5. CASE EjectEnd BY <1>5 DEF EjectEnd
<1> QED BY <1>1, <1>2, <1>3, <1>4, <1>5 DEF EjectGoesOn

-----------------------------------------------------------------------------
(* Types *)

LEMMA ReturnTypes ==
  ASSUME MediaTypeOK, NEW t \in Threads, t \in Procs \ {Driver}, Return(t)
  PROVE  /\ pc' \in [Procs -> Labels] /\ pc'[Driver] = pc[Driver]
         /\ call' \in [Procs -> AnyCall \cup {None}] /\ letter' \in [Procs -> Drives \cup {None}]
         /\ pdr' \in [Procs -> Structs \cup {None}] /\ pmedia' \in [Procs -> Media \cup {None}]
         /\ fd' \in [Procs -> Files \cup {None}]
         /\ owner' \in [Files -> Threads \cup {None}] /\ pdrive' \in [Files -> Structs \cup {None}]
         /\ file_mount' \in [Files -> Nat]
<1>1. /\ owner' \in [Files -> Threads \cup {None}] /\ pdrive' \in [Files -> Structs \cup {None}]
      /\ file_mount' \in [Files -> Nat]
  <2>1. CASE FreeFile(fd[t])
    BY <2>1 DEF FreeFile, MediaTypeOK
  <2>2. CASE UNCHANGED files
    BY <2>2 DEF files, MediaTypeOK
  <2> QED BY <2>1, <2>2 DEF Return
<1>2. pc' = [pc EXCEPT ![t] = "Idle"]
  BY DEF Return, Goto
<1>3. pc' \in [Procs -> Labels] /\ pc'[Driver] = pc[Driver]
  BY <1>2 DEF MediaTypeOK, Labels
<1>4. /\ call' \in [Procs -> AnyCall \cup {None}] /\ letter' \in [Procs -> Drives \cup {None}]
      /\ pdr' \in [Procs -> Structs \cup {None}] /\ pmedia' \in [Procs -> Media \cup {None}]
      /\ fd' \in [Procs -> Files \cup {None}]
  BY DEF Return, MediaTypeOK
<1> QED BY <1>1, <1>3, <1>4

LEMMA TypeHolds ==
  ASSUME MediaAccessAssumption, MediaInv, QuietStep
  PROVE  MediaTypeOK'
<1> USE DEF letters, drives, mounts, slots, locks, files, search, locals
<1>0. /\ MediaTypeOK /\ LocalsInv /\ None \notin Procs \cup Structs \cup Media \cup Drives \cup Files
      /\ Driver \notin Threads /\ Driver \in Procs /\ \A t \in Threads : t \in Procs /\ t # Driver
      /\ ~early'
  BY DEF MediaInv, MediaAccessAssumption, Procs, QuietStep
<1> USE <1>0
<1>1. CASE SettingUp
  BY <1>1, SetsUpDoes DEF SetsUp, SetUpTypes, MediaTypeOK
<1>2. ASSUME NEW m \in Media, Eject(m) PROVE MediaTypeOK'
  BY <1>2 DEF Eject, Goto, MediaTypeOK, Labels, Waiting, Leaving
<1>3. CASE EjectClaim
  BY <1>3 DEF EjectClaim, Goto, MediaTypeOK, Labels, Waiting, Leaving
<1>4. CASE EjectEnd
  BY <1>4 DEF EjectEnd, Goto, MediaTypeOK, Labels, Waiting, Leaving
<1>5. ASSUME NEW p \in Procs, FreeVolumes(p) PROVE MediaTypeOK'
  BY <1>5 DEF FreeVolumes, DiskFree, Goto, MediaTypeOK, Labels, Waiting, Leaving
<1>6. ASSUME NEW p \in Procs, Unmap(p) PROVE MediaTypeOK'
  <2>1. \A d \in LettersOf(pmedia[p]) : map[d] \in Structs
    BY DEF LettersOf, MediaTypeOK
  <2>2. /\ pmedia[p] \in Media
        /\ map' = [d \in Drives |-> IF d \in LettersOf(pmedia[p]) THEN None ELSE map[d]]
        /\ mem_drive_freelist' = mem_drive_freelist \cup {map[d] : d \in LettersOf(pmedia[p])}
        /\ removing' = [removing EXCEPT ![pmedia[p]] = FALSE]
        /\ devhandle' = [devhandle EXCEPT ![pmedia[p]] = None]
        /\ pc' = [pc EXCEPT ![p] = "Unlock"]
        /\ UNCHANGED <<driveno, pmedia_info, installing, mounts, locks, files, search, locals>>
    BY <1>6, UnmapDoes
  <2>3. mem_drive_freelist' \subseteq Structs
    BY <2>1, <2>2 DEF MediaTypeOK
  <2>4. map' \in [Drives -> Structs \cup {None}]
    BY <2>2 DEF MediaTypeOK
  <2>5. pc' \in [Procs -> Labels] /\ pc'[Driver] \in {"Idle", "Claim"} \cup Leaving \cup Inserting
    BY <2>2 DEF MediaTypeOK, Labels, Leaving
  <2> QED BY <2>2, <2>3, <2>4, <2>5 DEF MediaTypeOK
<1>7. ASSUME NEW t \in Threads, NEW c \in NamesADrive, NEW d \in Drives, BeginByName(t, c, d) PROVE MediaTypeOK'
  BY <1>7 DEF BeginByName, Enter, Goto, MediaTypeOK, Labels, Waiting, Leaving, AnyCall
<1>8. ASSUME NEW t \in Threads, NEW c \in GoesOnSearching, BeginBySearch(t, c) PROVE MediaTypeOK'
  BY <1>8 DEF BeginBySearch, Enter, Goto, MediaTypeOK, Labels, Waiting, Leaving, AnyCall
<1>9. ASSUME NEW t \in Threads, NEW c \in HasAFile, NEW f \in Files, BeginByFile(t, c, f) PROVE MediaTypeOK'
  <2>1. driveno[pdrive[f]] \in Drives
    BY <1>9 DEF BeginByFile, MediaInv, FilesInv
  <2> QED BY <1>9, <2>1 DEF BeginByFile, Enter, Goto, MediaTypeOK, Labels, Waiting, Leaving, AnyCall
<1>10. ASSUME NEW t \in Threads, NEW f \in Files, CloseAborted(t, f) PROVE MediaTypeOK'
  BY <1>10 DEF CloseAborted, FreeFile, MediaTypeOK
<1>11. ASSUME NEW t \in Threads, Start(t) PROVE MediaTypeOK'
  BY <1>7, <1>8, <1>9, <1>10, <1>11 DEF Start, MediaAccessAssumption
<1>12. ASSUME NEW t \in Threads, Look(t) PROVE MediaTypeOK'
  <2>1. letter[t] \in Drives
    BY <1>12 DEF Look, LocalsInv
  <2>2. CASE Return(t)
    BY <1>12, <2>2, ReturnTypes DEF Look, MediaTypeOK
  <2>3. CASE ~Return(t)
    <3>1. /\ pc' = [pc EXCEPT ![t] = "Found"] /\ pdr' = [pdr EXCEPT ![t] = map[letter[t]]]
          /\ UNCHANGED <<letters, mounts, slots, locks, search, files, call, letter, pmedia, fd>>
      BY <1>12, <2>3 DEF Look, Goto
    <3> QED BY <2>1, <3>1 DEF MediaTypeOK, Labels, Waiting
  <2> QED BY <2>2, <2>3
<1>13. ASSUME NEW t \in Threads, Found(t) PROVE MediaTypeOK'
  <2>1. pdr[t] \in Structs
    BY <1>13 DEF Found, LocalsInv
  <2>2. /\ pc' = [pc EXCEPT ![t] = "Claim"] /\ pmedia' = [pmedia EXCEPT ![t] = pmedia_info[pdr[t]]]
        /\ UNCHANGED <<drives, mounts, slots, locks, files, search, call, letter, pdr, fd>>
    BY <1>0, <1>13 DEF Found, Goto
  <2> QED BY <2>1, <2>2 DEF MediaTypeOK, Labels, Waiting
<1>14. ASSUME NEW t \in Threads, Claim(t) PROVE MediaTypeOK'
  BY <1>14 DEF Claim, Goto, MediaTypeOK, Labels, Waiting, Leaving
<1>15. ASSUME NEW t \in Threads, Recheck(t) PROVE MediaTypeOK'
  <2>1. letter[t] \in Drives
    BY <1>15 DEF Recheck, LocalsInv
  <2>2. CASE Return(t) /\ UNCHANGED saved_media_info
    BY <1>15, <2>2, ReturnTypes DEF Recheck, MediaTypeOK
  <2>3. CASE ~(Return(t) /\ UNCHANGED saved_media_info)
    <3>1. /\ map[letter[t]] # None
          /\ saved_media_info' = [saved_media_info EXCEPT ![letter[t]] = pmedia_info[map[letter[t]]]]
          /\ pc' = [pc EXCEPT ![t] = IF Exclusive THEN "Exclusive" ELSE "Claimed"]
          /\ pdr' = [pdr EXCEPT ![t] = map[letter[t]]] /\ pmedia' = [pmedia EXCEPT ![t] = None]
          /\ UNCHANGED <<drives, mounts, slots, access_semaphore, exclusive, search, files, call, letter, fd>>
      BY <1>15, <2>3 DEF Recheck, Rechecked, Goto
    <3>2. map[letter[t]] \in Structs
      BY <2>1, <3>1 DEF MediaTypeOK
    <3> QED BY <2>1, <3>1, <3>2 DEF MediaTypeOK, Labels, Holding
  <2> QED BY <2>2, <2>3
<1>16. ASSUME NEW t \in Threads, ClaimExclusive(t) PROVE MediaTypeOK'
  BY <1>16 DEF ClaimExclusive, Goto, MediaTypeOK, Labels, Holding
<1>17. ASSUME NEW t \in Threads, CheckFile(t) PROVE MediaTypeOK'
  BY <1>17 DEF CheckFile, Goto, MediaTypeOK, Labels, Holding
<1>18. ASSUME NEW t \in Threads, CheckMount(t) PROVE MediaTypeOK'
  BY <1>18 DEF CheckMount, Goto, MediaTypeOK, Labels, Holding
<1>19. ASSUME NEW t \in Threads, Opened(t) PROVE MediaTypeOK'
  <2>1. CASE Goto(t, "Work") /\ UNCHANGED mounted
    BY <1>19, <2>1 DEF Opened, Goto, MediaTypeOK, Labels, Holding
  <2>2. CASE Goto(t, "Release") /\ mounted' = [mounted EXCEPT ![pdr[t]] = 0]
    BY <1>19, <2>2 DEF Opened, Goto, MediaTypeOK, Labels, Holding
  <2> QED BY <1>19, <2>1, <2>2 DEF Opened
<1>20. ASSUME NEW t \in Threads, Open(t) PROVE MediaTypeOK'
  <2>1. pdr[t] \in Structs
    BY <1>20 DEF Open, Working, LocalsInv, Holding
  <2>2. /\ owner' \in [Files -> Threads \cup {None}] /\ pdrive' \in [Files -> Structs \cup {None}]
        /\ file_mount' \in [Files -> Nat]
    <3>1. CASE UNCHANGED files
      BY <3>1 DEF MediaTypeOK
    <3>2. ASSUME NEW f \in Files,
                 owner' = [owner EXCEPT ![f] = t] /\ pdrive' = [pdrive EXCEPT ![f] = pdr[t]],
                 file_mount' = [file_mount EXCEPT ![f] = mounted[pdr[t]]]
          PROVE  /\ owner' \in [Files -> Threads \cup {None}] /\ pdrive' \in [Files -> Structs \cup {None}]
                 /\ file_mount' \in [Files -> Nat]
      BY <2>1, <3>2 DEF MediaTypeOK
    <3> QED BY <1>20, <3>1, <3>2 DEF Open
  <2>3. /\ pc' \in [Procs -> Labels] /\ pc'[Driver] = pc[Driver]
    BY <1>20 DEF Open, Working, Goto, MediaTypeOK, Labels, Holding
  <2> QED BY <1>20, <2>2, <2>3 DEF Open, MediaTypeOK
<1>21. ASSUME NEW t \in Threads, Read(t) PROVE MediaTypeOK'
  BY <1>21 DEF Read, Working, Goto, MediaTypeOK, Labels, Holding
<1>22. ASSUME NEW t \in Threads, Close(t) PROVE MediaTypeOK'
  BY <1>22 DEF Close, Working, FreeFile, Goto, MediaTypeOK, Labels, Holding
<1>23. ASSUME NEW t \in Threads, First(t) PROVE MediaTypeOK'
  <2>1. pdr[t] \in Structs /\ letter[t] \in Drives
    BY <1>23 DEF First, Working, LocalsInv, Holding
  <2>2. /\ search_letter' \in [Threads -> Drives \cup {None}]
        /\ search_count' \in [Threads -> Nat] /\ search_mount' \in [Threads -> Nat]
    BY <1>23, <2>1 DEF First, MediaTypeOK
  <2>3. pc' \in [Procs -> Labels] /\ pc'[Driver] = pc[Driver]
    BY <1>23 DEF First, Working, Goto, MediaTypeOK, Labels, Holding
  <2> QED BY <1>23, <2>2, <2>3 DEF First, MediaTypeOK
<1>24. ASSUME NEW t \in Threads, CheckSearch(t) PROVE MediaTypeOK'
  BY <1>24 DEF CheckSearch, Goto, MediaTypeOK, Labels, Holding
<1>25. ASSUME NEW t \in Threads, Search(t) PROVE MediaTypeOK'
  BY <1>25 DEF Search, Goto, MediaTypeOK, Labels, Holding
<1>26. ASSUME NEW t \in Threads, DiskClose(t) PROVE MediaTypeOK'
  BY <1>26 DEF DiskClose, Working, DiskFree, Goto, MediaTypeOK, Labels, Holding
<1>27. ASSUME NEW t \in Threads, Release(t) PROVE MediaTypeOK'
  <2>1. letter[t] \in Drives
    BY <1>27 DEF Release, LocalsInv
  <2> QED BY <1>27, <2>1 DEF Release, AfterRelease, Goto, MediaTypeOK, Labels, Leaving
<1>28. ASSUME NEW t \in Threads, Unlock(t) PROVE MediaTypeOK'
  BY <1>28, ReturnTypes DEF Unlock, MediaTypeOK
<1>29. ASSUME NEW t \in Threads, Continue(t) PROVE MediaTypeOK'
  BY <1>5, <1>6, <1>12, <1>13, <1>14, <1>15, <1>16, <1>17, <1>18, <1>19, <1>20, <1>21, <1>22, <1>23,
     <1>24, <1>25, <1>26, <1>27, <1>28, <1>29 DEF Continue
<1>30. CASE UNCHANGED vars
  BY <1>30 DEF vars, MediaTypeOK
<1> QED
  BY <1>1, <1>2, <1>3, <1>4, <1>5, <1>6, <1>11, <1>29, <1>30 DEF QuietStep, Next, EjectGoesOn, SettingUp

-----------------------------------------------------------------------------
(* What steps do *)

\* A step of a call or of a removal.
Step(q) ==
  /\ ~early'
  /\ \/ q \in Threads /\ (Start(q) \/ Continue(q))
     \/ q = Driver /\ (EjectGoesOn \/ \E m \in Media : Eject(m))

\* How a process gets to its place.
Moves(q) ==
  /\ pc'[q] = "Look" => Start(q)
  /\ pc'[q] = "Found" => pc[q] = "Look" /\ map[letter[q]] # None /\ pdr'[q] = map[letter[q]]
  /\ pc'[q] = "Claim" => Found(q) \/ (q = Driver /\ \E m \in Media : Eject(m))
  /\ pc'[q] = "Recheck" => Claim(q)
  /\ pc'[q] \in Holding =>
       \/ pc[q] \in Holding \ {"Release"} /\ pdr'[q] = pdr[q]
       \/ /\ pc[q] = "Recheck" /\ pc'[q] = IF Exclusive THEN "Exclusive" ELSE "Claimed"
          /\ map[letter[q]] # None /\ pdr'[q] = map[letter[q]] /\ letter[q] \notin installing
  /\ Exclusive /\ pc'[q] \in Holding \ {"Exclusive"} => pc[q] # "Exclusive" \/ exclusive' = q
  /\ pc'[q] = "Opened" => CheckMount(q)
  /\ pc'[q] = "Work" => CheckFile(q) \/ CheckMount(q) \/ Opened(q)
  /\ pc'[q] = "Search" => CheckSearch(q)
  /\ pc'[q] \in Leaving =>
       \/ Release(q)
       \/ q = Driver /\ EjectClaim
       \/ pc[q] \in Leaving \ {"Unlock"} /\ pmedia'[q] = pmedia[q]
  /\ pc'[q] = "FreeVolumes" => Release(q) \/ (q = Driver /\ EjectClaim)
  /\ pc'[q] = "Unmap" => FreeVolumes(q)
  /\ pc'[q] \notin {"Idle", "Look"} =>
       /\ pc[q] # "Idle" \/ q = Driver
       /\ call'[q] = call[q] /\ letter'[q] = letter[q] /\ (Close(q) \/ fd'[q] = fd[q])
  /\ pc'[q] \in Arriving \ {"Look"} => pc[q] \in Arriving \ {"Work"} \/ q = Driver
  /\ pc[q] \in Holding \ {"Release"} => pc'[q] \in Holding
  /\ pc[q] = "Release" => Release(q)
  /\ pc[q] \in Leaving \ {"Unlock"} => pc'[q] \in Leaving /\ pmedia'[q] = pmedia[q]
  /\ pc[q] = "Opened" => Opened(q)
  /\ q = Driver => pc[q] \notin Inserting /\ pc'[q] \notin Inserting

\* Which steps change what is shared.
Frames(q) ==
  /\ Unmap(q) \/ UNCHANGED <<drives, devhandle>>
  /\ UNCHANGED installing
  /\ Unmap(q) \/ (q = Driver /\ \E m \in Media : Eject(m)) \/ UNCHANGED removing
  /\ FreeVolumes(q) \/ CheckMount(q) \/ Opened(q) \/ DiskClose(q) \/ UNCHANGED mounts
  /\ \/ FreeVolumes(q) \/ DiskClose(q) \/ Open(q) \/ UNCHANGED files
     \/ (pc'[q] = "Idle" \/ Close(q)) /\ \E f \in Files : owner[f] = q /\ FreeFile(f)
  /\ CASE pc[q] \notin Owning /\ pc'[q] \in Owning ->
            /\ pc[q] = "Claim" /\ access_semaphore[pmedia[q]] = None /\ pmedia'[q] = pmedia[q]
            /\ access_semaphore' = [access_semaphore EXCEPT ![pmedia[q]] = q]
       [] pc[q] \in Owning /\ pc'[q] \notin Owning ->
            /\ pc[q] \in {"Recheck", "Unlock"} /\ pc'[q] = "Idle"
            /\ access_semaphore' = [access_semaphore EXCEPT ![pmedia[q]] = None]
       [] OTHER -> UNCHANGED access_semaphore
  /\ \/ UNCHANGED exclusive
     \/ ClaimExclusive(q)
     \/ q \in Threads /\ pc[q] = "Unlock" /\ pc'[q] = "Idle"
  /\ First(q) \/ search_letter'[q] = None \/ search_letter'[q] = search_letter[q]
  /\ First(q) \/ (search_count'[q] = search_count[q] /\ search_mount'[q] = search_mount[q])
  /\ pc'[q] \in Arriving /\ pc[q] # "Idle" => search_letter'[q] = search_letter[q]

LEMMA NextIsAStep ==
  ASSUME QuietStep
  PROVE  \/ SettingUp
         \/ \E q \in Procs : Step(q)
         \/ UNCHANGED vars
BY DEF QuietStep, Next, Step, Procs, SettingUp

LEMMA StepStays ==
  ASSUME MediaTypeOK, NEW q \in Procs, Step(q)
  PROVE  OthersStay(q)
BY ThreadsStay, DriverStays DEF Step

LEMMA ReturnDoes ==
  ASSUME MediaAccessAssumption, MediaInv, NEW t \in Threads, Return(t), pc[t] # "Idle"
  PROVE  /\ pc'[t] = "Idle"
         /\ UNCHANGED files \/ \E f \in Files : owner[f] = t /\ FreeFile(f)
<1>1. pc'[t] = "Idle"
  BY DEF Return, Goto, MediaInv, MediaTypeOK, Procs
<1>2. CASE call[t] = "Close" /\ fd[t] # None
  <2>1. owner[fd[t]] = t /\ fd[t] \in Files
    BY <1>2 DEF MediaInv, CallsInv, HasAFile, MediaTypeOK, Procs
  <2> QED BY <1>1, <1>2, <2>1 DEF Return
<1>3. CASE ~(call[t] = "Close" /\ fd[t] # None)
  BY <1>1, <1>3 DEF Return
<1> QED BY <1>2, <1>3

LEMMA StepDoes ==
  ASSUME MediaAccessAssumption, MediaInv, NEW q \in Procs, Step(q)
  PROVE  Moves(q) /\ Frames(q)
<1>0. /\ ~early' /\ MediaTypeOK /\ None \notin Procs \cup Structs \cup Media \cup Drives \cup Files
      /\ Driver \notin Threads /\ Driver \in Procs /\ \A t \in Threads : t \in Procs /\ t # Driver
  BY DEF MediaInv, MediaAccessAssumption, Procs, Step
<1> USE <1>0 DEF Moves, Frames, MediaTypeOK, Goto, letters, drives, mounts, slots, locks, files, search, locals,
                 Labels, Waiting, Arriving, Holding, Leaving, Owning, Inserting
<1>1. ASSUME q \in Threads, NEW c, NEW d, BeginByName(q, c, d), Start(q) PROVE Moves(q) /\ Frames(q)
  BY <1>1 DEF BeginByName, Enter
<1>2. ASSUME q \in Threads, NEW c, BeginBySearch(q, c), Start(q) PROVE Moves(q) /\ Frames(q)
  BY <1>2 DEF BeginBySearch, Enter
<1>3. ASSUME q \in Threads, NEW c, NEW f, BeginByFile(q, c, f), Start(q) PROVE Moves(q) /\ Frames(q)
  BY <1>3 DEF BeginByFile, Enter
<1>4. ASSUME q \in Threads, NEW f \in Files, CloseAborted(q, f), Start(q) PROVE Moves(q) /\ Frames(q)
  BY <1>4 DEF CloseAborted
<1>5. ASSUME q \in Threads, Start(q) PROVE Moves(q) /\ Frames(q)
  BY <1>1, <1>2, <1>3, <1>4, <1>5 DEF Start
<1>6. ASSUME q \in Threads, Look(q) PROVE Moves(q) /\ Frames(q)
  <2>1. CASE Return(q)
    <3>1. pc'[q] = "Idle" /\ (UNCHANGED files \/ \E f \in Files : owner[f] = q /\ FreeFile(f))
      BY <1>6, <2>1, ReturnDoes DEF Look
    <3> QED BY <1>6, <3>1 DEF Look
  <2>2. CASE ~Return(q)
    BY <1>6, <2>2 DEF Look
  <2> QED BY <2>1, <2>2
<1>7. ASSUME q \in Threads, Found(q) PROVE Moves(q) /\ Frames(q)
  BY <1>7 DEF Found
<1>8. ASSUME q \in Threads, Claim(q) PROVE Moves(q) /\ Frames(q)
  BY <1>8 DEF Claim
<1>9. ASSUME q \in Threads, Recheck(q) PROVE Moves(q) /\ Frames(q)
  <2>1. CASE Return(q) /\ access_semaphore' = [access_semaphore EXCEPT ![pmedia[q]] = None]
    <3>1. pc'[q] = "Idle" /\ (UNCHANGED files \/ \E f \in Files : owner[f] = q /\ FreeFile(f))
      BY <1>9, <2>1, ReturnDoes DEF Recheck
    <3>2. access_semaphore[pmedia[q]] = q
      BY <1>9 DEF Recheck, MediaInv, SemaphoreInv, SlotOf
    <3> QED BY <1>9, <2>1, <3>1, <3>2 DEF Recheck
  <2>2. CASE ~(Return(q) /\ access_semaphore' = [access_semaphore EXCEPT ![pmedia[q]] = None])
    <3>1. early' = (early \/ letter[q] \in installing)
      BY <1>9, <2>2 DEF Recheck
    <3>2. letter[q] \notin installing
      BY <1>0, <3>1
    <3>3. /\ pc[q] = "Recheck" /\ map[letter[q]] # None
          /\ pc' = [pc EXCEPT ![q] = IF Exclusive THEN "Exclusive" ELSE "Claimed"]
          /\ pdr' = [pdr EXCEPT ![q] = map[letter[q]]]
          /\ UNCHANGED <<drives, mounts, slots, access_semaphore, exclusive, files, search, call, letter, fd>>
      BY <1>9, <2>2 DEF Recheck, Rechecked
    <3> QED BY <3>2, <3>3
  <2> QED BY <2>1, <2>2
<1>10. ASSUME q \in Threads, ClaimExclusive(q) PROVE Moves(q) /\ Frames(q)
  BY <1>10 DEF ClaimExclusive
<1>11. ASSUME q \in Threads, CheckFile(q) PROVE Moves(q) /\ Frames(q)
  BY <1>11 DEF CheckFile
<1>12. ASSUME q \in Threads, CheckMount(q) PROVE Moves(q) /\ Frames(q)
  <2>1. pc[q] = "Claimed" /\ pc'[q] \in {"Work", "Opened", "Release"}
    BY <1>12 DEF CheckMount
  <2>2. UNCHANGED <<letters, slots, locks, files, search, locals>>
    BY <1>12 DEF CheckMount
  <2>3. pc'[q] # "Work" \/ CheckMount(q)
    BY <1>12
  <2> QED BY <1>12, <2>1, <2>2
<1>13. ASSUME q \in Threads, Opened(q) PROVE Moves(q) /\ Frames(q)
  <2>1. pc[q] = "Opened" /\ pc'[q] \in {"Work", "Release"}
    BY <1>13 DEF Opened
  <2>2. UNCHANGED <<letters, slots, locks, files, search, locals>>
    BY <1>13 DEF Opened
  <2> QED BY <1>13, <2>1, <2>2
<1>14. ASSUME q \in Threads, Open(q) PROVE Moves(q) /\ Frames(q)
  <2>1. pc[q] = "Work" /\ pc'[q] = "Release"
    BY <1>14 DEF Open, Working
  <2>2. UNCHANGED <<letters, mounts, slots, locks, search, locals>>
    BY <1>14 DEF Open
  <2> QED BY <1>14, <2>1, <2>2
<1>15. ASSUME q \in Threads, Read(q) PROVE Moves(q) /\ Frames(q)
  BY <1>15 DEF Read, Working
<1>16. ASSUME q \in Threads, Close(q) PROVE Moves(q) /\ Frames(q)
  <2>1. pc[q] = "Work" /\ pc'[q] = "Release" /\ call[q] = "Close" /\ FreeFile(fd[q])
    BY <1>16 DEF Close, Working
  <2>2. UNCHANGED <<letters, mounts, slots, locks, search, call, letter, pdr, pmedia>>
    BY <1>16 DEF Close
  <2>3. fd[q] \in Files /\ owner[fd[q]] = q
    BY <1>16, <2>1 DEF MediaInv, CallsInv, HasAFile
  <2> QED BY <1>16, <2>1, <2>2, <2>3
<1>17. ASSUME q \in Threads, First(q) PROVE Moves(q) /\ Frames(q)
  <2>1. pc[q] = "Work" /\ pc'[q] = "Release"
    BY <1>17 DEF First, Working
  <2>2. UNCHANGED <<letters, mounts, slots, locks, files, locals>>
    BY <1>17 DEF First
  <2> QED BY <1>17, <2>1, <2>2
<1>18. ASSUME q \in Threads, CheckSearch(q) PROVE Moves(q) /\ Frames(q)
  BY <1>18 DEF CheckSearch
<1>19. ASSUME q \in Threads, Search(q) PROVE Moves(q) /\ Frames(q)
  BY <1>19 DEF Search
<1>20. ASSUME q \in Threads, DiskClose(q) PROVE Moves(q) /\ Frames(q)
  <2>1. pc[q] = "Work" /\ pc'[q] = "Release"
    BY <1>20 DEF DiskClose, Working
  <2>2. UNCHANGED <<letters, slots, locks, search, locals>>
    BY <1>20 DEF DiskClose
  <2> QED BY <1>20, <2>1, <2>2
<1>21. ASSUME q \in Threads, Release(q) PROVE Moves(q) /\ Frames(q)
  BY <1>21 DEF Release, AfterRelease
<1>22. ASSUME FreeVolumes(q) PROVE Moves(q) /\ Frames(q)
  <2>1. pc[q] = "FreeVolumes" /\ pc'[q] = "Unmap"
    BY <1>22 DEF FreeVolumes
  <2>2. UNCHANGED <<letters, slots, locks, search, locals>>
    BY <1>22 DEF FreeVolumes
  <2> QED BY <1>22, <2>1, <2>2
<1>23. ASSUME Unmap(q) PROVE Moves(q) /\ Frames(q)
  <2>1. pc[q] = "Unmap" /\ pc'[q] = "Unlock"
    BY <1>23 DEF Unmap
  <2>2. UNCHANGED <<installing, mounts, locks, files, search, locals>>
    BY <1>23 DEF Unmap
  <2> QED BY <1>23, <2>1, <2>2
<1>24. ASSUME q \in Threads, Unlock(q) PROVE Moves(q) /\ Frames(q)
  <2>1. pc'[q] = "Idle" /\ (UNCHANGED files \/ \E f \in Files : owner[f] = q /\ FreeFile(f))
    BY <1>24, ReturnDoes DEF Unlock
  <2>2. access_semaphore[pmedia[q]] = q
    BY <1>24 DEF Unlock, MediaInv, SemaphoreInv, SlotOf
  <2> QED BY <1>24, <2>1, <2>2 DEF Unlock
<1>25. ASSUME q \in Threads, Continue(q) PROVE Moves(q) /\ Frames(q)
  BY <1>6, <1>7, <1>8, <1>9, <1>10, <1>11, <1>12, <1>13, <1>14, <1>15, <1>16, <1>17, <1>18, <1>19, <1>20,
     <1>21, <1>22, <1>23, <1>24, <1>25 DEF Continue
<1>26. ASSUME q = Driver, NEW m \in Media, Eject(m) PROVE Moves(q) /\ Frames(q)
  BY <1>26 DEF Eject
<1>27. ASSUME q = Driver, EjectClaim PROVE Moves(q) /\ Frames(q)
  BY <1>27 DEF EjectClaim
<1>28. ASSUME q = Driver, EjectEnd PROVE Moves(q) /\ Frames(q)
  <2>1. access_semaphore[pmedia[q]] = q
    BY <1>28 DEF EjectEnd, MediaInv, SemaphoreInv, SlotOf
  <2> QED BY <1>28, <2>1 DEF EjectEnd
<1> QED BY <1>5, <1>22, <1>23, <1>25, <1>26, <1>27, <1>28 DEF Step, EjectGoesOn

-----------------------------------------------------------------------------
(* A claimed volume *)

\* What a call that has its drive claimed knows of its letter.
LEMMA HoldingKnows ==
  ASSUME MediaAccessAssumption, MediaInv, NEW t \in Threads, pc[t] \in Holding
  PROVE  /\ t \in Procs /\ letter[t] \in Drives /\ call[t] \in AnyCall
         /\ pdr[t] \in Structs \ mem_drive_freelist
         /\ map[letter[t]] = pdr[t] /\ driveno[pdr[t]] = letter[t] /\ letter[t] \notin installing
         /\ SlotOf(t) = pmedia_info[pdr[t]] /\ SlotOf(t) \in Media
         /\ devhandle[SlotOf(t)] # None /\ letter[t] \in LettersOf(SlotOf(t))
<1>1. t \in Procs /\ letter[t] \in Drives /\ call[t] \in AnyCall /\ pdr[t] \in Structs
  BY DEF Procs, MediaInv, LocalsInv, Holding
<1>2. map[letter[t]] = pdr[t] /\ letter[t] \notin installing
  BY DEF MediaInv, SemaphoreInv
<1>3. map[letter[t]] # None
  BY <1>1, <1>2 DEF MediaAccessAssumption
<1>4. /\ driveno[pdr[t]] = letter[t] /\ pdr[t] \notin mem_drive_freelist
      /\ pmedia_info[pdr[t]] \in Media /\ devhandle[pmedia_info[pdr[t]]] # None
  BY <1>1, <1>2, <1>3 DEF MediaInv, LettersInv, MediaAccessAssumption
<1>5. SlotOf(t) = pmedia_info[pdr[t]]
  BY DEF SlotOf
<1> QED BY <1>1, <1>2, <1>3, <1>4, <1>5 DEF LettersOf

LEMMA OwnersAreApart ==
  ASSUME MediaAccessAssumption, MediaInv,
         NEW p \in Procs, NEW q \in Procs, p # q, pc[p] \in Owning, pc[q] \in Owning
  PROVE  SlotOf(p) # SlotOf(q)
BY DEF MediaInv, SemaphoreInv

LEMMA OwnersHaveASlot ==
  ASSUME MediaAccessAssumption, MediaInv, NEW p \in Procs, pc[p] \in Owning
  PROVE  SlotOf(p) \in Media
<1>1. CASE pc[p] \in Holding
  <2>1. p \in Threads
    BY <1>1 DEF MediaInv, MediaTypeOK, Procs, Holding, Leaving, Inserting
  <2> QED BY <1>1, <2>1, HoldingKnows
<1>2. CASE pc[p] \notin Holding
  BY <1>2 DEF MediaInv, LocalsInv, SlotOf, Owning
<1> QED BY <1>1, <1>2

\* Nobody else disturbs the volume a call has claimed.
Undisturbed(t) ==
  LET s == pdr[t] IN
  /\ map'[letter[t]] = s /\ driveno'[s] = driveno[s] /\ pmedia_info'[s] = pmedia_info[s]
  /\ mounted'[s] = mounted[s] /\ opencount'[s] = opencount[s]

LEMMA SetUpUndisturbed ==
  ASSUME MediaAccessAssumption, MediaInv, SettingUp, NEW t \in Threads, pc[t] \in Holding
  PROVE  Undisturbed(t)
<1>1. /\ letter[t] \in Drives /\ pdr[t] \in Structs \ mem_drive_freelist /\ map[letter[t]] = pdr[t]
      /\ map[letter[t]] # None /\ letter[t] \notin installing /\ pmedia_info[pdr[t]] # None
  BY HoldingKnows DEF MediaAccessAssumption
<1> QED BY <1>1, SetsUpDoes DEF SetsUp, Undisturbed

\* The structures a process closes belong to the slot it owns.
LEMMA FreedAreApart ==
  ASSUME MediaAccessAssumption, MediaInv, NEW p \in Procs, pc[p] \in Leaving,
         NEW t \in Threads, t # p, pc[t] \in Holding
  PROVE  /\ pdr[t] \notin {map[d] : d \in LettersOf(pmedia[p])}
         /\ letter[t] \notin LettersOf(pmedia[p])
<1>1. SlotOf(p) = pmedia[p] /\ pc[p] \in Owning
  BY DEF SlotOf, Leaving, Holding, Owning
<1>2. pmedia_info[pdr[t]] # pmedia[p] /\ map[letter[t]] = pdr[t]
  BY <1>1, OwnersAreApart, HoldingKnows DEF Owning, Procs
<1> QED BY <1>2 DEF LettersOf

LEMMA StepUndisturbed ==
  ASSUME MediaAccessAssumption, MediaInv, NEW q \in Procs, Step(q),
         NEW t \in Threads, t # q, pc[t] \in Holding
  PROVE  Undisturbed(t)
<1>1. /\ t \in Procs /\ letter[t] \in Drives /\ pdr[t] \in Structs /\ map[letter[t]] = pdr[t]
      /\ Moves(q) /\ Frames(q) /\ MediaTypeOK
  BY HoldingKnows, StepDoes DEF MediaInv
<1>2. ASSUME q \in Threads, pc[q] \in Holding PROVE pdr[t] # pdr[q]
  BY <1>1, <1>2, OwnersAreApart DEF SlotOf, Owning
<1>3. map'[letter[t]] = pdr[t] /\ driveno'[pdr[t]] = driveno[pdr[t]] /\ pmedia_info'[pdr[t]] = pmedia_info[pdr[t]]
  <2>1. CASE Unmap(q)
    <3>1. pc[q] \in Leaving
      BY <2>1 DEF Unmap, Leaving
    <3> QED BY <1>1, <2>1, <3>1, UnmapDoes, FreedAreApart
  <2>2. CASE ~Unmap(q)
    BY <1>1, <2>2 DEF Frames, letters, drives
  <2> QED BY <2>1, <2>2
<1>4. mounted'[pdr[t]] = mounted[pdr[t]] /\ opencount'[pdr[t]] = opencount[pdr[t]]
  <2>1. CASE FreeVolumes(q)
    <3>1. pc[q] \in Leaving
      BY <2>1 DEF FreeVolumes, Leaving
    <3> QED BY <1>1, <2>1, <3>1, FreedAreApart DEF FreeVolumes, DiskFree
  <2>2. CASE CheckMount(q)
    <3>1. pc[q] = "Claimed" /\ q \in Threads
      BY <2>2 DEF CheckMount, Procs, MediaInv, MediaTypeOK, Leaving, Inserting
    <3> QED BY <1>1, <1>2, <2>2, <3>1 DEF CheckMount, mounts, Holding, MediaTypeOK
  <2>3. CASE Opened(q)
    <3>1. pc[q] = "Opened" /\ q \in Threads
      BY <2>3 DEF Opened, Procs, MediaInv, MediaTypeOK, Leaving, Inserting
    <3> QED BY <1>1, <1>2, <2>3, <3>1 DEF Opened, mounts, Holding, MediaTypeOK
  <2>4. CASE DiskClose(q)
    <3>1. pc[q] = "Work" /\ q \in Threads
      BY <2>4 DEF DiskClose, Working, Procs, MediaInv, MediaTypeOK, Leaving, Inserting
    <3> QED BY <1>1, <1>2, <2>4, <3>1 DEF DiskClose, DiskFree, Holding, MediaTypeOK
  <2>5. CASE UNCHANGED mounts
    BY <2>5 DEF mounts
  <2> QED BY <1>1, <2>1, <2>2, <2>3, <2>4, <2>5 DEF Frames
<1> QED BY <1>3, <1>4 DEF Undisturbed

-----------------------------------------------------------------------------
(* Locals *)

LEMMA LocalsHold ==
  ASSUME MediaAccessAssumption, MediaInv, QuietStep
  PROVE  LocalsInv'
<1>0. /\ MediaTypeOK /\ LocalsInv /\ None \notin Procs \cup Structs \cup Media \cup Drives \cup Files
      /\ Driver \notin Threads /\ Driver \in Procs /\ \A t \in Threads : t \in Procs /\ t # Driver
  BY DEF MediaInv, MediaAccessAssumption, Procs
<1>1. ASSUME UNCHANGED <<pc, locals>> PROVE LocalsInv'
  BY <1>0, <1>1 DEF LocalsInv, locals
<1>2. CASE SettingUp
  <2>1. SetsUp
    BY <1>2, SetsUpDoes
  <2>2. pc'[Driver] \notin {"Claim", "Recheck"} \cup Leaving
    BY <2>1 DEF SetsUp, Inserting, Leaving
  <2>3. \A p \in Procs : p \in Threads \/ p = Driver
    BY DEF Procs
  <2> QED BY <1>0, <2>1, <2>2, <2>3 DEF SetsUp, LocalsInv
<1>3. ASSUME NEW q \in Procs, Step(q) PROVE LocalsInv'
  <2>1. Moves(q) /\ Frames(q) /\ OthersStay(q) /\ MediaTypeOK'
    BY <1>0, <1>3, StepDoes, StepStays, TypeHolds
  <2>2. ASSUME NEW t \in Threads, pc'[t] # "Idle" PROVE letter'[t] \in Drives /\ call'[t] \in AnyCall
    <3>1. CASE t # q
      BY <1>0, <2>1, <2>2, <3>1 DEF OthersStay, LocalsInv
    <3>2. CASE t = q /\ pc'[q] = "Look"
      <4>1. Start(q)
        BY <2>1, <3>2 DEF Moves
      <4>2. ASSUME NEW c \in NamesADrive, NEW d \in Drives, BeginByName(q, c, d)
            PROVE  letter'[q] \in Drives /\ call'[q] \in AnyCall
        BY <1>0, <2>2, <3>2, <4>2 DEF BeginByName, Enter, MediaTypeOK, AnyCall
      <4>3. ASSUME NEW c \in GoesOnSearching, BeginBySearch(q, c)
            PROVE  letter'[q] \in Drives /\ call'[q] \in AnyCall
        BY <1>0, <2>2, <3>2, <4>3 DEF BeginBySearch, Enter, MediaTypeOK, AnyCall
      <4>4. ASSUME NEW c \in HasAFile, NEW f \in Files, BeginByFile(q, c, f)
            PROVE  letter'[q] \in Drives /\ call'[q] \in AnyCall
        BY <1>0, <2>2, <3>2, <4>4 DEF BeginByFile, Enter, MediaTypeOK, AnyCall, MediaInv, FilesInv
      <4>5. ASSUME NEW f \in Files, CloseAborted(q, f)
            PROVE  letter'[q] \in Drives /\ call'[q] \in AnyCall
        BY <2>2, <3>2, <4>5 DEF CloseAborted
      <4> QED BY <2>2, <3>2, <4>1, <4>2, <4>3, <4>4, <4>5 DEF Start, MediaAccessAssumption
    <3>3. CASE t = q /\ pc'[q] # "Look"
      BY <1>0, <2>1, <2>2, <3>3 DEF Moves, LocalsInv
    <3> QED BY <3>1, <3>2, <3>3
  <2>3. ASSUME NEW t \in Threads, pc'[t] \in {"Found", "Claim", "Recheck"} \cup Holding
        PROVE  pdr'[t] \in Structs
    <3>1. CASE t # q
      BY <1>0, <2>1, <2>3, <3>1 DEF OthersStay, LocalsInv
    <3>2. CASE t = q /\ pc'[q] = "Found"
      BY <1>0, <2>1, <2>3, <3>2 DEF Moves, LocalsInv, MediaTypeOK
    <3>3. CASE t = q /\ pc'[q] = "Claim"
      <4>1. Found(q)
        BY <1>0, <2>1, <2>3, <3>3 DEF Moves, Eject, Goto, MediaTypeOK
      <4> QED BY <1>0, <2>3, <3>3, <4>1 DEF Found, LocalsInv
    <3>4. CASE t = q /\ pc'[q] = "Recheck"
      <4>1. Claim(q)
        BY <1>0, <2>1, <2>3, <3>4 DEF Moves
      <4> QED BY <1>0, <2>3, <3>4, <4>1 DEF Claim, LocalsInv, locals
    <3>5. CASE t = q /\ pc'[q] \in Holding
      <4>1. CASE pc[q] \in Holding \ {"Release"} /\ pdr'[q] = pdr[q]
        BY <1>0, <2>3, <3>5, <4>1 DEF LocalsInv
      <4>2. CASE pc[q] = "Recheck" /\ map[letter[q]] # None /\ pdr'[q] = map[letter[q]]
        BY <1>0, <2>3, <3>5, <4>2 DEF LocalsInv, MediaTypeOK
      <4> QED BY <2>1, <3>5, <4>1, <4>2 DEF Moves
    <3> QED BY <2>3, <3>1, <3>2, <3>3, <3>4, <3>5
  <2>4. ASSUME NEW p \in Procs, pc'[p] \in {"Claim", "Recheck"} \cup Leaving PROVE pmedia'[p] \in Media
    <3>1. CASE p # q
      BY <1>0, <2>1, <2>4, <3>1 DEF OthersStay, LocalsInv
    <3>2. CASE p = q /\ pc'[q] = "Claim"
      <4>1. CASE Found(q)
        <5>1. q \in Threads
          BY <1>0, <4>1 DEF Found, Procs, MediaTypeOK, Leaving, Inserting
        <5>2. pdr[q] \in Structs
          BY <4>1, <1>0, <5>1 DEF Found, LocalsInv
        <5> QED BY <1>0, <2>4, <3>2, <4>1, <5>2 DEF Found, Goto, MediaTypeOK
      <4>2. ASSUME q = Driver, NEW m \in Media, Eject(m) PROVE pmedia'[p] \in Media
        BY <1>0, <2>4, <3>2, <4>2 DEF Eject, MediaTypeOK
      <4> QED BY <2>1, <3>2, <4>1, <4>2 DEF Moves
    <3>3. CASE p = q /\ pc'[q] = "Recheck"
      <4>1. Claim(q)
        BY <2>1, <3>3 DEF Moves
      <4> QED BY <1>0, <2>4, <3>3, <4>1 DEF Claim, LocalsInv, locals
    <3>4. CASE p = q /\ pc'[q] \in Leaving
      <4>1. CASE Release(q)
        <5>1. q \in Threads /\ pc[q] \in Holding
          BY <1>0, <4>1 DEF Release, Holding, Procs, MediaTypeOK, Leaving, Inserting
        <5>2. map[letter[q]] # None /\ pmedia_info[map[letter[q]]] \in Media
          BY <1>0, <5>1, HoldingKnows
        <5> QED BY <1>0, <3>4, <4>1, <5>2 DEF Release, MediaTypeOK
      <4>2. CASE q = Driver /\ EjectClaim
        BY <1>0, <3>4, <4>2 DEF EjectClaim, locals, LocalsInv
      <4>3. CASE pc[q] \in Leaving \ {"Unlock"} /\ pmedia'[q] = pmedia[q]
        BY <1>0, <3>4, <4>3 DEF LocalsInv
      <4> QED BY <2>1, <3>4, <4>1, <4>2, <4>3 DEF Moves
    <3> QED BY <2>4, <3>1, <3>2, <3>3, <3>4
  <2> QED BY <2>2, <2>3, <2>4 DEF LocalsInv
<1>4. CASE UNCHANGED vars
  BY <1>1, <1>4 DEF vars
<1> QED BY <1>2, <1>3, <1>4, NextIsAStep

-----------------------------------------------------------------------------
(* Letters *)

\* The letters that lead somewhere keep what they lead to, and the new ones have no slot yet.
LEMMA LettersKept ==
  ASSUME MediaTypeOK, LettersInv, None \notin Structs \cup Media,
         \A d \in Drives : map[d] # None =>
           /\ map'[d] = map[d] /\ driveno'[map[d]] = driveno[map[d]] /\ map[d] \notin mem_drive_freelist'
           /\ pmedia_info'[map[d]] = pmedia_info[map[d]] /\ (d \in installing => d \in installing')
           /\ pmedia_info[map[d]] # None => devhandle'[pmedia_info[map[d]]] # None,
         \A d \in Drives : map[d] = None /\ map'[d] # None =>
           /\ driveno'[map'[d]] = d /\ map'[d] \notin mem_drive_freelist' /\ d \in installing'
           /\ pmedia_info'[map'[d]] = None
  PROVE  LettersInv' /\ \A m \in Media : LettersOf(m)' = LettersOf(m)
<1>1. \A d \in Drives : map'[d] # None =>
        /\ driveno'[map'[d]] = d /\ map'[d] \notin mem_drive_freelist'
        /\ d \notin installing' => pmedia_info'[map'[d]] \in Media
        /\ pmedia_info'[map'[d]] # None => devhandle'[pmedia_info'[map'[d]]] # None
  BY DEF LettersInv
<1>2. ASSUME NEW m \in Media PROVE LettersOf(m)' = LettersOf(m)
  BY DEF LettersOf
<1> QED BY <1>1, <1>2 DEF LettersInv

\* The first letter gets the medium: it has been the only one without letters.
LEMMA AttachDoes ==
  ASSUME MediaAccessAssumption, MediaInv, Attach
  PROVE  \E first \in installing :
           /\ FirstInstalled(first)
           /\ \A d \in Drives : map[d] # None =>
                pmedia_info'[map[d]] = IF d = first THEN pmedia[Driver] ELSE pmedia_info[map[d]]
           /\ \A m \in Media : LettersOf(m)' = IF m = pmedia[Driver] THEN {first} ELSE LettersOf(m)
<1>0. MediaTypeOK /\ InstallInv /\ None \notin Structs \cup Media
  BY DEF MediaInv, MediaAccessAssumption
<1>1. PICK first \in installing :
        FirstInstalled(first) /\ pmedia_info' = [pmedia_info EXCEPT ![map[first]] = pmedia[Driver]]
  BY DEF Attach, FirstInstalled
<1>2. /\ first \in Drives /\ map[first] \in Structs /\ pmedia_info[map[first]] \in {None, pmedia[Driver]}
      /\ pmedia[Driver] \in Media /\ LettersOf(pmedia[Driver]) = {} /\ map' = map
  BY <1>0 DEF Attach, InstallInv, Inserting, MediaTypeOK
<1>3. \A d \in Drives : map[d] # None =>
        pmedia_info'[map[d]] = IF d = first THEN pmedia[Driver] ELSE pmedia_info[map[d]]
  BY <1>0, <1>1, <1>2, LettersDiffer DEF MediaTypeOK
<1>4. ASSUME NEW m \in Media PROVE LettersOf(m)' = IF m = pmedia[Driver] THEN {first} ELSE LettersOf(m)
  BY <1>0, <1>2, <1>3 DEF LettersOf
<1> QED BY <1>1, <1>3, <1>4

\* The partitions get the first letters: these are then the letters of the medium.
LEMMA LettersBound ==
  ASSUME MediaAccessAssumption, MediaInv, pc[Driver] = "Bind", map' = map,
         NEW first \in Drives, NEW n \in 1 .. NDrives, FirstInstalled(first), Run(first, n) \subseteq installing,
         pmedia_info' = [s \in Structs |-> IF \E d \in Run(first, n) : map[d] = s THEN pmedia[Driver]
                                           ELSE pmedia_info[s]]
  PROVE  /\ \A d \in Drives : map[d] # None =>
              pmedia_info'[map[d]] = IF d \in Run(first, n) THEN pmedia[Driver] ELSE pmedia_info[map[d]]
         /\ \A m \in Media : LettersOf(m)' = IF m = pmedia[Driver] THEN Run(first, n) ELSE LettersOf(m)
<1>0. MediaTypeOK /\ InstallInv /\ None \notin Structs \cup Media
  BY DEF MediaInv, MediaAccessAssumption
<1>1. first \in Run(first, n)
  BY DEF Run, Drives
<1> DEFINE R == Run(first, n)
<1>2. /\ \A d \in R : d \in Drives /\ map[d] \in Structs /\ pmedia_info[map[d]] \in {None, pmedia[Driver]}
      /\ pmedia[Driver] \in Media
  BY <1>0 DEF InstallInv, Inserting, MediaTypeOK
<1>3. LettersOf(pmedia[Driver]) \subseteq R
  <2>1. ASSUME NEW d \in LettersOf(pmedia[Driver]) PROVE d = first
    <3>1. FirstInstalled(d) /\ d \in Int /\ first \in Int
      BY <1>0, <2>1 DEF InstallInv, LettersOf, Drives
    <3> QED BY <3>1 DEF FirstInstalled
  <2> QED BY <1>1, <2>1
<1>4. \A d \in Drives : map[d] # None =>
        pmedia_info'[map[d]] = IF d \in R THEN pmedia[Driver] ELSE pmedia_info[map[d]]
  <2> HIDE DEF R
  <2>1. pmedia_info' = [s \in Structs |-> IF \E d \in R : map[d] = s THEN pmedia[Driver] ELSE pmedia_info[s]]
    BY DEF R
  <2> QED BY <1>0, <1>2, <2>1, LettersDiffer DEF MediaTypeOK
<1>5. ASSUME NEW m \in Media PROVE LettersOf(m)' = IF m = pmedia[Driver] THEN R ELSE LettersOf(m)
  <2> HIDE DEF R
  <2> QED BY <1>0, <1>2, <1>3, <1>4 DEF LettersOf
<1> QED BY <1>4, <1>5

\* Letters that are given back are letters of no medium, except after a failure.
LEMMA ReleaseDoes ==
  ASSUME MediaAccessAssumption, MediaInv, ReleaseExcess
  PROVE  /\ \A d \in Drives : map'[d] = IF d \in installing THEN None ELSE map[d]
         /\ \A m \in Media : LettersOf(m)' = IF pc[Driver] = "Fail" /\ m = pmedia[Driver] THEN {}
                                             ELSE LettersOf(m)
<1>0. MediaTypeOK /\ InstallInv /\ None \notin Structs \cup Media
  BY DEF MediaInv, MediaAccessAssumption
<1>1. (\A d \in Drives : map'[d] = IF d \in installing THEN None ELSE map[d]) /\ pmedia_info' = pmedia_info
  BY DEF ReleaseExcess
<1>2. \A d \in installing : pmedia_info[map[d]] \in {None, pmedia[Driver]}
  BY <1>0 DEF InstallInv
<1>3. CASE pc[Driver] = "Excess"
  <2>1. LettersOf(pmedia[Driver]) \cap installing = {}
    BY <1>0, <1>3 DEF InstallInv
  <2>2. ASSUME NEW m \in Media PROVE LettersOf(m)' = LettersOf(m)
    BY <1>0, <1>1, <1>2, <2>1 DEF LettersOf
  <2> QED BY <1>1, <1>3, <2>2
<1>4. CASE pc[Driver] = "Fail"
  <2>1. LettersOf(pmedia[Driver]) \subseteq installing
    BY <1>0, <1>4 DEF InstallInv
  <2>2. ASSUME NEW m \in Media PROVE LettersOf(m)' = IF m = pmedia[Driver] THEN {} ELSE LettersOf(m)
    BY <1>0, <1>1, <1>2, <2>1 DEF LettersOf
  <2> QED BY <1>1, <1>4, <2>2
<1> QED BY <1>3, <1>4 DEF ReleaseExcess

LEMMA LettersHold ==
  ASSUME MediaAccessAssumption, MediaInv, QuietStep
  PROVE  LettersInv'
<1>0. /\ MediaTypeOK /\ LettersInv /\ InstallInv /\ None \notin Structs \cup Media \cup Devices /\ NDrives \in Nat
  BY DEF MediaInv, MediaAccessAssumption
<1>1. ASSUME UNCHANGED <<drives, devhandle>> PROVE LettersInv'
  BY <1>0, <1>1, LettersKept DEF LettersInv, drives
<1>2. CASE SettingUp
  <2>1. ASSUME NEW dev \in Devices, Insert(dev) PROVE LettersInv'
    <3>1. PICK m \in Media : devhandle[m] = None /\ devhandle' = [devhandle EXCEPT ![m] = dev]
      BY <2>1 DEF Insert, SlotIs
    <3>2. UNCHANGED drives
      BY <2>1 DEF Insert, letters
    <3>3. \A i \in Media : devhandle[i] # None => devhandle'[i] # None
      BY <1>0, <3>1 DEF MediaTypeOK
    <3>4. \A d \in Drives : map[d] # None /\ pmedia_info[map[d]] # None => devhandle'[pmedia_info[map[d]]] # None
      BY <1>0, <3>3 DEF LettersInv, MediaTypeOK
    <3> QED BY <1>0, <3>2, <3>4, LettersKept DEF LettersInv, drives
  <2>2. CASE Reserve
    <3>1. UNCHANGED devhandle /\ installing = {}
      BY <1>0, <2>2 DEF Reserve, slots, InstallInv
    <3>2. \A d \in Drives : map[d] # None =>
            map[d] \in Structs \ mem_drive_freelist /\ map[d] \notin mem_drive_freelist'
      BY <1>0, <2>2, ReserveDoes DEF LettersInv, MediaTypeOK
    <3> QED BY <1>0, <2>2, <3>1, <3>2, ReserveDoes, LettersKept DEF LettersInv
  <2>3. CASE Refuse
    <3>1. UNCHANGED <<map, mem_drive_freelist, installing, devhandle>> /\ pc[Driver] = "Reserve"
      BY <2>3 DEF Refuse, slots
    <3>2. SetsUp
      BY <1>2, SetsUpDoes
    <3>3. \A d \in Drives : map[d] # None => map[d] \in Structs \ mem_drive_freelist
      BY <1>0 DEF LettersInv, MediaTypeOK
    <3>4. \A d \in Drives : map[d] # None => pmedia_info'[map[d]] = pmedia_info[map[d]]
      <4>1. PICK S \in SUBSET mem_drive_freelist : Clear(S)
        BY <2>3 DEF Refuse, Taken
      <4> QED BY <1>0, <3>3, <4>1, ClearDoes
    <3> QED BY <1>0, <3>1, <3>2, <3>3, <3>4, LettersKept DEF LettersInv, SetsUp
  <2>4. CASE Attach
    <3>1. PICK first \in installing :
            /\ \A d \in Drives : map[d] # None =>
                 pmedia_info'[map[d]] = IF d = first THEN pmedia[Driver] ELSE pmedia_info[map[d]]
            /\ \A m \in Media : LettersOf(m)' = IF m = pmedia[Driver] THEN {first} ELSE LettersOf(m)
      BY <2>4, AttachDoes
    <3>2. /\ UNCHANGED <<map, mem_drive_freelist, driveno, installing, devhandle>>
          /\ pmedia[Driver] \in Media /\ devhandle[pmedia[Driver]] # None
      BY <1>0, <2>4 DEF Attach, slots, InstallInv, Inserting
    <3>3. first \in 0 .. NDrives - 1
      BY <1>0 DEF MediaTypeOK, Drives
    <3>4. {first} = Run(first, 1) /\ 1 \in 0 .. NDrives /\ first \in 0 .. NDrives
      BY <1>0, <3>3 DEF Run
    <3>5. ASSUME NEW m \in Media PROVE \E a, n \in 0 .. NDrives : LettersOf(m)' = Run(a, n)
      <4>1. CASE m = pmedia[Driver]
        BY <3>1, <3>4, <4>1
      <4>2. CASE m # pmedia[Driver]
        BY <1>0, <3>1, <4>2 DEF LettersInv
      <4> QED BY <4>1, <4>2
    <3> QED BY <1>0, <3>1, <3>2, <3>5 DEF LettersInv
  <2>5. CASE Bind
    <3>1. /\ UNCHANGED <<map, mem_drive_freelist, driveno, devhandle>> /\ pc[Driver] = "Bind"
          /\ pmedia[Driver] \in Media /\ devhandle[pmedia[Driver]] # None
      BY <1>0, <2>5 DEF Bind, slots, InstallInv, Inserting
    <3>2. CASE UNCHANGED <<pmedia_info, installing>>
      BY <1>1, <3>1, <3>2 DEF drives
    <3>3. ASSUME NEW first \in Drives, NEW n \in 1 .. NDrives, FirstInstalled(first), Run(first, n) \subseteq installing,
                 pmedia_info' = [s \in Structs |-> IF \E d \in Run(first, n) : map[d] = s THEN pmedia[Driver]
                                                   ELSE pmedia_info[s]],
                 installing' = installing \ Run(first, n)
          PROVE  LettersInv'
      <4>1. /\ \A d \in Drives : map[d] # None =>
                 pmedia_info'[map[d]] = IF d \in Run(first, n) THEN pmedia[Driver] ELSE pmedia_info[map[d]]
            /\ \A m \in Media : LettersOf(m)' = IF m = pmedia[Driver] THEN Run(first, n) ELSE LettersOf(m)
        BY <3>1, <3>3, LettersBound
      <4>2. first \in 0 .. NDrives /\ n \in 0 .. NDrives
        BY <1>0 DEF Drives
      <4>3. ASSUME NEW m \in Media PROVE \E a, k \in 0 .. NDrives : LettersOf(m)' = Run(a, k)
        <5>1. CASE m = pmedia[Driver]
          BY <4>1, <4>2, <5>1
        <5>2. CASE m # pmedia[Driver]
          BY <1>0, <4>1, <5>2 DEF LettersInv
        <5> QED BY <5>1, <5>2
      <4> QED BY <1>0, <3>1, <3>3, <4>1, <4>3 DEF LettersInv
    <3> QED BY <2>5, <3>2, <3>3 DEF Bind
  <2>6. CASE ReleaseExcess
    <3>1. /\ \A d \in Drives : map'[d] = IF d \in installing THEN None ELSE map[d]
          /\ \A m \in Media : LettersOf(m)' = IF pc[Driver] = "Fail" /\ m = pmedia[Driver] THEN {} ELSE LettersOf(m)
      BY <2>6, ReleaseDoes
    <3>2. /\ UNCHANGED <<driveno, pmedia_info>> /\ pc[Driver] \in {"Excess", "Fail"} /\ pmedia[Driver] \in Media
          /\ mem_drive_freelist' = mem_drive_freelist \cup {map[d] : d \in installing}
          /\ devhandle' = IF pc[Driver] = "Fail" THEN [devhandle EXCEPT ![pmedia[Driver]] = None] ELSE devhandle
      BY <1>0, <2>6 DEF ReleaseExcess, InstallInv, Inserting
    <3>3. {} = Run(0, 0) /\ 0 \in 0 .. NDrives
      BY <1>0 DEF Run
    <3>4. ASSUME NEW m \in Media PROVE \E a, n \in 0 .. NDrives : LettersOf(m)' = Run(a, n)
      <4>1. CASE LettersOf(m)' = {}
        BY <3>3, <4>1
      <4>2. CASE LettersOf(m)' # {}
        BY <1>0, <3>1, <4>2 DEF LettersInv
      <4> QED BY <4>1, <4>2
    <3>5. ASSUME NEW d \in Drives, map'[d] # None
          PROVE  map'[d] = map[d] /\ d \notin installing /\ map[d] \notin mem_drive_freelist'
                 /\ pmedia_info[map[d]] \in Media /\ devhandle'[pmedia_info[map[d]]] # None
      <4>1. map'[d] = map[d] /\ d \notin installing /\ map[d] # None
        BY <3>1, <3>5
      <4>2. pmedia_info[map[d]] \in Media /\ map[d] \notin mem_drive_freelist
            /\ devhandle[pmedia_info[map[d]]] # None
        BY <1>0, <4>1 DEF LettersInv
      <4>3. \A e \in installing : map[e] # map[d]
        BY <1>0, <4>1, LettersDiffer DEF MediaTypeOK
      <4>4. devhandle'[pmedia_info[map[d]]] # None
        <5>1. CASE pc[Driver] = "Fail"
          <6>1. d \notin LettersOf(pmedia[Driver])
            BY <1>0, <4>1, <5>1 DEF InstallInv
          <6>2. pmedia_info[map[d]] # pmedia[Driver]
            BY <4>1, <6>1 DEF LettersOf
          <6> QED BY <1>0, <3>2, <4>2, <6>2 DEF MediaTypeOK
        <5>2. CASE pc[Driver] # "Fail"
          BY <3>2, <4>2, <5>2
        <5> QED BY <5>1, <5>2
      <4> QED BY <3>2, <4>1, <4>2, <4>3, <4>4
    <3> QED BY <1>0, <3>2, <3>4, <3>5 DEF LettersInv
  <2> QED BY <1>2, <2>1, <2>2, <2>3, <2>4, <2>5, <2>6 DEF SettingUp, InsertGoesOn
<1>3. ASSUME NEW p \in Procs, Unmap(p) PROVE LettersInv'
  <2>0. PICK m \in Media : m = pmedia[p]
    BY <1>3, UnmapDoes
  <2>1. /\ map' = [d \in Drives |-> IF d \in LettersOf(m) THEN None ELSE map[d]]
        /\ mem_drive_freelist' = mem_drive_freelist \cup {map[d] : d \in LettersOf(m)}
        /\ devhandle' = [devhandle EXCEPT ![m] = None]
        /\ UNCHANGED <<driveno, pmedia_info, installing>>
    BY <1>3, <2>0, UnmapDoes
  <2>2. \A d \in Drives : map'[d] # None =>
          map'[d] = map[d] /\ pmedia_info[map[d]] # m /\ d \notin LettersOf(m)
    BY <2>1 DEF LettersOf
  <2>3. \A d \in Drives : map'[d] # None => map[d] \notin mem_drive_freelist'
    <3> SUFFICES ASSUME NEW d \in Drives, map'[d] # None, NEW e \in LettersOf(m) PROVE map[d] # map[e]
      BY <1>0, <2>1, <2>2 DEF LettersInv
    <3> QED BY <2>2 DEF LettersOf
  <2>4. \A d \in Drives : map'[d] # None =>
          /\ d \notin installing => pmedia_info[map[d]] \in Media
          /\ pmedia_info[map[d]] # None => devhandle'[pmedia_info[map[d]]] # None
    BY <1>0, <2>1, <2>2 DEF LettersInv, MediaTypeOK
  <2>5. ASSUME NEW i \in Media, i = m PROVE LettersOf(i)' = {}
    BY <2>1, <2>2, <2>5 DEF LettersOf
  <2>6. ASSUME NEW i \in Media, i # m PROVE LettersOf(i)' = LettersOf(i)
    BY <1>0, <2>1, <2>2, <2>6 DEF LettersOf
  <2>7. {} = Run(0, 0) /\ 0 \in 0 .. NDrives
    BY <1>0 DEF Run
  <2>8. ASSUME NEW i \in Media PROVE \E first, n \in 0 .. NDrives : LettersOf(i)' = Run(first, n)
    <3>1. CASE i = m
      BY <2>5, <2>7, <3>1
    <3>2. CASE i # m
      BY <1>0, <2>6, <3>2 DEF LettersInv
    <3> QED BY <3>1, <3>2
  <2>9. \A d \in Drives : map'[d] # None =>
          /\ driveno'[map'[d]] = d /\ map'[d] \notin mem_drive_freelist'
          /\ d \notin installing' => pmedia_info'[map'[d]] \in Media
          /\ pmedia_info'[map'[d]] # None => devhandle'[pmedia_info'[map'[d]]] # None
    BY <1>0, <2>1, <2>2, <2>3, <2>4 DEF LettersInv
  <2> QED BY <2>8, <2>9 DEF LettersInv
<1>4. ASSUME NEW q \in Procs, Step(q), ~Unmap(q) PROVE LettersInv'
  BY <1>1, <1>4, StepDoes DEF Frames
<1>5. CASE UNCHANGED vars
  BY <1>1, <1>5 DEF vars, letters, slots
<1> QED BY <1>2, <1>3, <1>4, <1>5, NextIsAStep

-----------------------------------------------------------------------------
(* The card's slot *)

LEMMA CardSlotUnique ==
  ASSUME NEW m \in Media, NEW n \in Media, CardSlot(m), CardSlot(n)
  PROVE  m = n
BY DEF CardSlot, Media, FixedAreThere

\* The device dev has come to slot m.
ComesTo(dev, m) ==
  /\ devhandle[m] = None /\ \A i \in Media : devhandle[i] = None => m <= i
  /\ \A i \in Media : devhandle[i] # dev
  /\ dev \in Removable => FixedAreThere
  /\ devhandle' = [devhandle EXCEPT ![m] = dev] /\ removing' = [removing EXCEPT ![m] = FALSE]
  /\ pmedia' = [pmedia EXCEPT ![Driver] = m] /\ pc' = [pc EXCEPT ![Driver] = "Reserve"]
  /\ pc[Driver] = "Idle"
  /\ UNCHANGED <<letters, mounts, locks, files, search, call, letter, pdr, fd>>

LEMMA InsertDoes ==
  ASSUME MediaAccessAssumption, NEW dev \in Devices, Insert(dev)
  PROVE  \E m \in Media : ComesTo(dev, m)
BY DEF Insert, SlotIs, Started, FixedAreThere, ComesTo, Goto

\* A card that comes goes to the card's slot.
LEMMA CardComes ==
  ASSUME MediaAccessAssumption, OneCard, MediaInv,
         NEW dev \in Removable, NEW m \in Media, ComesTo(dev, m)
  PROVE  CardSlot(m) /\ CardSlot(m)'
<1>1. \A i \in Media : devhandle[i] \notin Removable
  BY DEF ComesTo, OneCard
<1>2. devhandle \in [Media -> Devices \cup {None}] /\ None \notin Devices /\ Removable \subseteq Devices
  BY DEF MediaInv, MediaTypeOK, MediaAccessAssumption
<1>3. devhandle'[m] = dev /\ \A i \in Media \ {m} : devhandle'[i] = devhandle[i]
  BY <1>2 DEF ComesTo
<1>4. CardSlot(m)
  BY <1>1 DEF ComesTo, CardSlot
<1>5. \A d \in Devices \ Removable : \E i \in Media : devhandle'[i] = d
  <2> SUFFICES ASSUME NEW d \in Devices \ Removable PROVE \E i \in Media : devhandle'[i] = d
    OBVIOUS
  <2>1. PICK i \in Media : devhandle[i] = d
    BY DEF ComesTo, FixedAreThere
  <2>2. i # m
    BY <1>2, <2>1 DEF ComesTo
  <2> QED BY <1>3, <2>1, <2>2
<1>6. \A i \in Media : devhandle'[i] \in Removable \cup {None} => m <= i
  BY <1>1, <1>3, <1>4 DEF CardSlot, Media, FixedAreThere
<1> QED BY <1>3, <1>4, <1>5, <1>6 DEF CardSlot, FixedAreThere

\* Once the fixed devices are there they stay, and the card's slot stays the same.
LEMMA InsertKeepsCardSlot ==
  ASSUME MediaAccessAssumption, OneCard, MediaInv, FixedAreThere,
         NEW dev \in Devices, NEW m \in Media, ComesTo(dev, m)
  PROVE  /\ dev \in Removable /\ FixedAreThere' /\ CardSlot(m)'
         /\ \A n \in Media : CardSlot(n) => CardSlot(n)'
<1>1. dev \in Removable
  BY DEF FixedAreThere, ComesTo
<1>2. CardSlot(m) /\ CardSlot(m)'
  BY <1>1, CardComes
<1>3. FixedAreThere'
  BY <1>2 DEF CardSlot, FixedAreThere
<1> QED BY <1>1, <1>2, <1>3, CardSlotUnique

\* The same when a card loses its slot.
LEMMA CardGoes ==
  ASSUME MediaAccessAssumption, OneCard, MediaInv, NEW m \in Media, devhandle[m] \in Removable,
         devhandle' = [devhandle EXCEPT ![m] = None]
  PROVE  /\ CardSlot(m) /\ CardSlot(m)' /\ FixedAreThere /\ FixedAreThere'
         /\ \A n \in Media : CardSlot(n) => CardSlot(n)'
         /\ \A i \in Media : devhandle'[i] \notin Removable /\ (i # m => ~removing[i])
<1>2. devhandle \in [Media -> Devices \cup {None}] /\ None \notin Devices /\ Removable \subseteq Devices
  BY DEF MediaInv, MediaTypeOK, MediaAccessAssumption
<1>3. CardSlot(m)
  BY DEF MediaInv, CardInv
<1>4. devhandle'[m] = None /\ \A i \in Media \ {m} : devhandle'[i] = devhandle[i]
  BY <1>2
<1>5. CardSlot(m)'
  <2>1. \A d \in Devices \ Removable : \E i \in Media : devhandle'[i] = d
    <3> SUFFICES ASSUME NEW d \in Devices \ Removable PROVE \E i \in Media : devhandle'[i] = d
      OBVIOUS
    <3>1. PICK i \in Media : devhandle[i] = d
      BY <1>3 DEF CardSlot, FixedAreThere
    <3> QED BY <1>3, <1>4, <3>1
  <2>2. \A i \in Media : devhandle'[i] \in Removable \cup {None} => m <= i
    BY <1>3, <1>4 DEF CardSlot, Media, FixedAreThere
  <2> QED BY <1>4, <2>1, <2>2 DEF CardSlot, FixedAreThere
<1>6. \A n \in Media : CardSlot(n) => CardSlot(n)'
  BY <1>3, <1>5, CardSlotUnique
<1>7. \A i \in Media : devhandle'[i] \notin Removable
  <2> SUFFICES ASSUME NEW i \in Media, i # m, devhandle[i] \in Removable PROVE FALSE
    BY <1>2, <1>4
  <2> QED BY <1>3, CardSlotUnique DEF MediaInv, CardInv
<1>8. ASSUME NEW i \in Media, i # m, removing[i] PROVE FALSE
  BY <1>3, <1>8, CardSlotUnique DEF MediaInv, CardInv
<1> QED BY <1>3, <1>5, <1>6, <1>7, <1>8 DEF CardSlot, FixedAreThere

LEMMA UnmapKeepsCardSlot ==
  ASSUME MediaAccessAssumption, OneCard, MediaInv, NEW p \in Procs, Unmap(p), NEW m \in Media, m = pmedia[p]
  PROVE  /\ CardSlot(m) /\ CardSlot(m)' /\ FixedAreThere /\ FixedAreThere'
         /\ \A n \in Media : CardSlot(n) => CardSlot(n)'
         /\ \A i \in Media : ~removing'[i] /\ devhandle'[i] \notin Removable
         /\ devhandle[m] \in Removable
<1>1. /\ pc[p] = "Unmap" /\ devhandle' = [devhandle EXCEPT ![m] = None]
      /\ removing' = [removing EXCEPT ![m] = FALSE]
  BY UnmapDoes
<1>2. devhandle[m] \in Removable
  BY <1>1 DEF MediaInv, RemovalInv, CardInv
<1>3. \A i \in Media : ~removing'[i]
  BY <1>1, <1>2, CardGoes DEF MediaInv, MediaTypeOK
<1> QED BY <1>1, <1>2, <1>3, CardGoes

\* No insertion goes on while a medium is taken away.
LEMMA UnmapMeansQuiet ==
  ASSUME MediaAccessAssumption, OneCard, MediaInv, NEW p \in Procs, pc[p] \in {"FreeVolumes", "Unmap"}
  PROVE  pc[Driver] \notin Inserting /\ installing = {}
<1>1. pmedia[p] \in Media /\ removing[pmedia[p]]
  BY DEF MediaInv, LocalsInv, RemovalInv, Leaving
<1>2. CardSlot(pmedia[p])
  BY <1>1 DEF MediaInv, CardInv
<1>3. pc[Driver] \notin Inserting
  <2>1. CASE p = Driver
    BY <2>1 DEF Inserting
  <2>2. CASE p # Driver
    <3> SUFFICES ASSUME pc[Driver] \in Inserting PROVE FALSE
      OBVIOUS
    <3>1. Started
      BY <2>2 DEF MediaInv, ActiveInv, Procs
    <3>2. pmedia[Driver] \in Media /\ ~removing[pmedia[Driver]]
      BY DEF MediaInv, InstallInv
    <3>3. CardSlot(pmedia[Driver])
      BY <3>1, <3>2 DEF Started, MediaInv, CardInv
    <3>4. pmedia[Driver] = pmedia[p]
      BY <1>1, <1>2, <3>2, <3>3, CardSlotUnique
    <3> QED BY <1>1, <3>2, <3>4
  <2> QED BY <2>1, <2>2
<1> QED BY <1>3 DEF MediaInv, InstallInv, Inserting

\* What a step of an insertion does to the slots.
LEMMA SlotsSetUp ==
  ASSUME MediaAccessAssumption, MediaInv, SettingUp
  PROVE  \/ \E dev \in Devices, m \in Media : ComesTo(dev, m)
         \/ UNCHANGED <<devhandle, removing>> /\ pmedia'[Driver] = pmedia[Driver] /\ pc[Driver] \in Inserting
         \/ /\ pc[Driver] \in Inserting /\ pc'[Driver] = "Idle" /\ UNCHANGED removing
            /\ \/ UNCHANGED devhandle
               \/ devhandle' = [devhandle EXCEPT ![pmedia[Driver]] = None]
<1>1. CASE \E dev \in Devices : Insert(dev)
  BY <1>1, InsertDoes
<1>2. CASE Reserve \/ Refuse \/ Attach \/ Bind
  BY <1>2 DEF Reserve, Refuse, Attach, Bind, slots, locals, Inserting
<1>3. CASE ReleaseExcess
  <2>1. pc'[Driver] = "Idle"
    BY <1>3 DEF ReleaseExcess, Goto, MediaInv, MediaTypeOK, Procs
  <2> QED BY <1>3, <2>1 DEF ReleaseExcess, Inserting
<1> QED BY <1>1, <1>2, <1>3 DEF SettingUp, InsertGoesOn

LEMMA CardHolds ==
  ASSUME MediaAccessAssumption, OneCard, MediaInv, QuietStep
  PROVE  CardInv'
<1>0. /\ MediaTypeOK /\ CardInv /\ InstallInv /\ None \notin Devices /\ Removable \subseteq Devices
  BY DEF MediaInv, MediaAccessAssumption
<1>1. ASSUME UNCHANGED devhandle, \A m \in Media : removing'[m] => removing[m] \/ devhandle[m] \in Removable
      PROVE  CardInv'
  BY <1>0, <1>1 DEF CardInv, CardSlot, FixedAreThere
<1>2. ASSUME NEW dev \in Devices, NEW m \in Media, ComesTo(dev, m) PROVE CardInv'
  <2>1. devhandle'[m] = dev /\ \A i \in Media \ {m} : devhandle'[i] = devhandle[i] /\ removing'[i] = removing[i]
    BY <1>0, <1>2 DEF ComesTo, MediaTypeOK
  <2>2. ~removing'[m]
    BY <1>0, <1>2 DEF ComesTo, MediaTypeOK
  <2>3. \A i \in Media : removing'[i] => devhandle'[i] \in Removable
    BY <1>0, <2>1, <2>2 DEF CardInv
  <2>4. ASSUME NEW i \in Media, devhandle'[i] \in Removable PROVE CardSlot(i)'
    <3>1. CASE dev \in Removable
      <4>1. i = m
        BY <1>2, <2>1, <2>4, <3>1 DEF ComesTo, OneCard
      <4> QED BY <1>2, <3>1, <4>1, CardComes
    <3>2. CASE dev \notin Removable
      <4>1. devhandle[i] \in Removable
        BY <2>1, <2>4, <3>2
      <4>2. \E k \in Media : devhandle[k] = dev
        BY <1>0, <3>2, <4>1 DEF CardInv, CardSlot, FixedAreThere
      <4> QED BY <1>2, <4>2 DEF ComesTo
    <3> QED BY <3>1, <3>2
  <2> QED BY <2>3, <2>4 DEF CardInv
<1>3. CASE SettingUp
  <2>1. CASE UNCHANGED <<devhandle, removing>>
    BY <1>1, <2>1
  <2>2. ASSUME pc[Driver] \in Inserting, UNCHANGED removing, devhandle' = [devhandle EXCEPT ![pmedia[Driver]] = None]
        PROVE  CardInv'
    <3>1. pmedia[Driver] \in Media /\ ~removing[pmedia[Driver]]
      BY <1>0, <2>2 DEF InstallInv
    <3>2. CASE devhandle[pmedia[Driver]] \in Removable
      BY <2>2, <3>1, <3>2, CardGoes DEF CardInv
    <3>3. CASE devhandle[pmedia[Driver]] \notin Removable
      <4>1. \A i \in Media : devhandle[i] \notin Removable
        BY <1>0, <2>2, <3>3 DEF InstallInv
      <4>2. \A i \in Media : devhandle'[i] \notin Removable /\ ~removing'[i]
        BY <1>0, <2>2, <4>1 DEF MediaTypeOK, CardInv
      <4> QED BY <4>2 DEF CardInv
    <3> QED BY <3>2, <3>3
  <2> QED BY <1>2, <1>3, <2>1, <2>2, SlotsSetUp
<1>4. ASSUME NEW p \in Procs, Unmap(p) PROVE CardInv'
  <2>1. pmedia[p] \in Media
    BY <1>4, UnmapDoes
  <2> QED BY <1>4, <2>1, UnmapKeepsCardSlot DEF CardInv
<1>5. ASSUME NEW q \in Procs, Step(q), ~Unmap(q) PROVE CardInv'
  <2>1. UNCHANGED devhandle
    BY <1>5, StepDoes DEF Frames
  <2>2. CASE UNCHANGED removing
    BY <1>1, <2>1, <2>2
  <2>3. ASSUME NEW m \in Media, Eject(m) PROVE CardInv'
    BY <1>0, <1>1, <2>1, <2>3 DEF Eject, MediaTypeOK
  <2> QED BY <1>5, <2>2, <2>3, StepDoes DEF Frames
<1>6. CASE UNCHANGED vars
  BY <1>0, <1>1, <1>6 DEF vars, slots
<1> QED BY <1>3, <1>4, <1>5, <1>6, NextIsAStep

-----------------------------------------------------------------------------
(* The fixed devices *)

\* Once the fixed devices have been set up, they are there for ever, and only the card is set up.
LEMMA StartedStays ==
  ASSUME MediaAccessAssumption, OneCard, MediaInv, QuietStep, Started
  PROVE  Started'
<1>0. /\ MediaTypeOK /\ InstallInv /\ FixedAreThere /\ None \notin Devices /\ Removable \subseteq Devices
      /\ Driver \in Procs
  BY DEF MediaInv, MediaAccessAssumption, Started, FixedAreThere, Procs
<1>1. ASSUME UNCHANGED devhandle, pc'[Driver] \in Inserting => pc[Driver] \in Inserting /\ pmedia'[Driver] = pmedia[Driver]
      PROVE  Started'
  BY <1>1 DEF Started
<1>2. ASSUME FixedAreThere', pc'[Driver] \in Inserting => devhandle'[pmedia'[Driver]] \in Removable
      PROVE  Started'
  BY <1>2 DEF Started, FixedAreThere
<1>3. CASE SettingUp
  <2>1. ASSUME NEW dev \in Devices, NEW m \in Media, ComesTo(dev, m) PROVE Started'
    <3>1. devhandle'[m] = dev /\ pmedia'[Driver] = m
      BY <1>0, <2>1 DEF ComesTo, MediaTypeOK
    <3> QED BY <1>0, <1>2, <2>1, <3>1, InsertKeepsCardSlot
  <2>2. CASE UNCHANGED devhandle /\ pmedia'[Driver] = pmedia[Driver] /\ pc[Driver] \in Inserting
    BY <1>1, <2>2
  <2>3. ASSUME pc[Driver] \in Inserting, pc'[Driver] = "Idle",
               UNCHANGED devhandle \/ devhandle' = [devhandle EXCEPT ![pmedia[Driver]] = None]
        PROVE  Started'
    <3>1. pc'[Driver] \notin Inserting
      BY <2>3 DEF Inserting
    <3>2. pmedia[Driver] \in Media /\ devhandle[pmedia[Driver]] \in Removable
      BY <1>0, <2>3 DEF Started, InstallInv
    <3> QED BY <1>1, <1>2, <2>3, <3>1, <3>2, CardGoes
  <2> QED BY <1>3, <2>1, <2>2, <2>3, SlotsSetUp
<1>4. ASSUME NEW q \in Procs, Step(q) PROVE Started'
  <2>1. Moves(q) /\ Frames(q) /\ OthersStay(q)
    BY <1>0, <1>4, StepDoes, StepStays
  <2>2. pc'[Driver] \in Inserting => q # Driver /\ pc'[Driver] = pc[Driver] /\ pmedia'[Driver] = pmedia[Driver]
    BY <1>0, <2>1 DEF Moves, OthersStay
  <2>3. CASE ~Unmap(q)
    BY <1>1, <2>1, <2>2, <2>3 DEF Frames
  <2>4. CASE Unmap(q)
    <3>1. pc[q] = "Unmap" /\ pmedia[q] \in Media
      BY <2>4, UnmapDoes
    <3>2. pc[Driver] \notin Inserting
      BY <3>1, UnmapMeansQuiet
    <3>3. FixedAreThere'
      BY <2>4, <3>1, UnmapKeepsCardSlot
    <3> QED BY <1>2, <2>2, <3>2, <3>3
  <2> QED BY <2>3, <2>4
<1>5. CASE UNCHANGED vars
  BY <1>1, <1>5 DEF vars, slots, locals
<1> QED BY <1>3, <1>4, <1>5, NextIsAStep

LEMMA ActiveHolds ==
  ASSUME MediaAccessAssumption, OneCard, MediaInv, QuietStep
  PROVE  ActiveInv'
<1>0. MediaTypeOK /\ ActiveInv /\ Driver \notin Threads /\ \A t \in Threads : t \in Procs
  BY DEF MediaInv, MediaAccessAssumption, Procs
<1> SUFFICES ASSUME NEW t \in Threads, pc'[t] # "Idle" PROVE Started
  BY StartedStays DEF ActiveInv
<1>1. CASE pc[t] # "Idle"
  BY <1>0, <1>1 DEF ActiveInv
<1>2. CASE pc[t] = "Idle"
  <2>1. CASE SettingUp
    BY <1>2, <2>1, SetsUpDoes DEF SetsUp
  <2>2. ASSUME NEW q \in Procs, Step(q) PROVE Started
    <3>1. Moves(q) /\ OthersStay(q)
      BY <1>0, <2>2, StepDoes, StepStays
    <3>2. q = t
      BY <1>0, <1>2, <3>1 DEF OthersStay
    <3>3. pc'[t] = "Look"
      BY <1>0, <1>2, <3>1, <3>2 DEF Moves
    <3>4. Start(t)
      BY <3>1, <3>2, <3>3 DEF Moves
    <3> QED BY <3>4 DEF Start
  <2>3. CASE UNCHANGED vars
    BY <1>2, <2>3 DEF vars
  <2> QED BY <2>1, <2>2, <2>3, NextIsAStep
<1> QED BY <1>1, <1>2

-----------------------------------------------------------------------------
(* Slots that have been found *)

LEMMA CardSlotStays ==
  ASSUME MediaAccessAssumption, OneCard, MediaInv, QuietStep, Started, NEW n \in Media, CardSlot(n)
  PROVE  CardSlot(n)'
<1>1. CASE UNCHANGED devhandle
  BY <1>1 DEF CardSlot, FixedAreThere
<1>2. CASE SettingUp
  <2>1. ASSUME NEW dev \in Devices, NEW m \in Media, ComesTo(dev, m) PROVE CardSlot(n)'
    BY <2>1, InsertKeepsCardSlot DEF CardSlot
  <2>2. ASSUME pc[Driver] \in Inserting, devhandle' = [devhandle EXCEPT ![pmedia[Driver]] = None]
        PROVE  CardSlot(n)'
    <3>1. pmedia[Driver] \in Media /\ devhandle[pmedia[Driver]] \in Removable
      BY <2>2 DEF Started, MediaInv, InstallInv
    <3> QED BY <2>2, <3>1, CardGoes
  <2> QED BY <1>1, <1>2, <2>1, <2>2, SlotsSetUp
<1>3. ASSUME NEW p \in Procs, Unmap(p) PROVE CardSlot(n)'
  BY <1>3, UnmapDoes, UnmapKeepsCardSlot
<1>4. ASSUME NEW q \in Procs, Step(q), ~Unmap(q) PROVE CardSlot(n)'
  BY <1>1, <1>4, StepDoes DEF Frames
<1> QED BY <1>1, <1>2, <1>3, <1>4, NextIsAStep DEF vars, slots

\* Once calls are made, the slot of a device that comes is the card's.
LEMMA CardIsSetUp ==
  ASSUME MediaAccessAssumption, OneCard, MediaInv, QuietStep, Started, SettingUp
  PROVE  /\ FixedAreThere'
         /\ pc[Driver] \in Inserting =>
              \E m \in Media : m = pmedia[Driver] /\ CardSlot(m) /\ CardSlot(m)'
<1>1. FixedAreThere'
  BY StartedStays DEF Started, FixedAreThere
<1>2. ASSUME pc[Driver] \in Inserting
      PROVE  \E m \in Media : m = pmedia[Driver] /\ CardSlot(m) /\ CardSlot(m)'
  <2>1. PICK m \in Media : m = pmedia[Driver] /\ devhandle[m] \in Removable
    BY <1>2 DEF Started, MediaInv, InstallInv
  <2>2. CardSlot(m)
    BY <2>1 DEF MediaInv, CardInv
  <2> QED BY <2>1, <2>2, CardSlotStays
<1> QED BY <1>1, <1>2

LEMMA LeadsToCardStays ==
  ASSUME MediaAccessAssumption, OneCard, MediaInv, QuietStep, Started, NEW d \in Drives, LeadsToCard(d)
  PROVE  LeadsToCard(d)'
<1>0. /\ MediaTypeOK /\ FixedAreThere /\ None \notin Structs \cup Media
      /\ map[d] # None /\ pmedia_info[map[d]] # None =>
           CardSlot(pmedia_info[map[d]]) /\ pmedia_info[map[d]] \in Media
      /\ map[d] # None => map[d] \in Structs \ mem_drive_freelist
  BY DEF MediaInv, MediaAccessAssumption, LeadsToCard, LettersInv, MediaTypeOK
<1>1. CASE UNCHANGED <<drives, devhandle>>
  BY <1>1 DEF drives, LeadsToCard, CardSlot, FixedAreThere
<1>2. CASE SettingUp
  <2>1. FixedAreThere'
    BY <1>2, CardIsSetUp
  <2>2. SetsUp
    BY <1>2, SetsUpDoes
  <2>3. SUFFICES ASSUME map'[d] # None, pmedia_info'[map'[d]] # None PROVE CardSlot(pmedia_info[map[d]])'
    BY <2>1 DEF LeadsToCard
  <2>4. map[d] # None /\ map'[d] = map[d]
    BY <2>2, <2>3 DEF SetsUp
  <2>5. CASE pmedia_info'[map[d]] = pmedia_info[map[d]]
    <3>1. PICK n \in Media : n = pmedia_info[map[d]] /\ CardSlot(n)
      BY <1>0, <2>3, <2>4, <2>5
    <3>2. CardSlot(n)'
      BY <3>1, CardSlotStays
    <3> QED BY <2>4, <2>5, <3>1, <3>2
  <2>6. CASE pmedia_info'[map[d]] = pmedia[Driver] /\ pc[Driver] \in Inserting
    <3>1. PICK m \in Media : m = pmedia[Driver] /\ CardSlot(m)'
      BY <1>2, <2>6, CardIsSetUp
    <3> QED BY <2>4, <2>6, <3>1
  <2> QED BY <1>0, <2>2, <2>4, <2>5, <2>6 DEF SetsUp
<1>3. ASSUME NEW p \in Procs, Unmap(p) PROVE LeadsToCard(d)'
  <2>1. FixedAreThere' /\ \A n \in Media : CardSlot(n) => CardSlot(n)'
    BY <1>3, UnmapDoes, UnmapKeepsCardSlot
  <2>2. map'[d] # None => map'[d] = map[d] /\ pmedia_info' = pmedia_info
    BY <1>3, UnmapDoes
  <2>3. CASE map'[d] # None /\ pmedia_info[map[d]] # None
    <3>1. PICK n \in Media : n = pmedia_info[map[d]] /\ CardSlot(n)
      BY <1>0, <2>2, <2>3
    <3> QED BY <2>1, <2>2, <2>3, <3>1 DEF LeadsToCard
  <2> QED BY <2>1, <2>2, <2>3 DEF LeadsToCard
<1>4. ASSUME NEW q \in Procs, Step(q), ~Unmap(q) PROVE LeadsToCard(d)'
  BY <1>1, <1>4, StepDoes DEF Frames
<1> QED BY <1>1, <1>2, <1>3, <1>4, NextIsAStep DEF vars, letters, slots

LEMMA FoundStructureStays ==
  ASSUME MediaAccessAssumption, OneCard, MediaInv, QuietStep, Started,
         NEW d \in Drives, NEW s \in Structs, FoundStructure(d, s)
  PROVE  FoundStructure(d, s)'
<1>0. /\ MediaTypeOK /\ InstallInv /\ None \notin Structs \cup Media
      /\ map[d] # None => map[d] \in Structs \ mem_drive_freelist
  BY DEF MediaInv, MediaAccessAssumption, LettersInv, MediaTypeOK
<1>1. CASE UNCHANGED <<drives, devhandle>>
  BY <1>1 DEF drives, FoundStructure, LeadsToCard, CardSlot, FixedAreThere
<1>2. CASE SettingUp
  <2>1. SetsUp /\ FixedAreThere'
    BY <1>2, SetsUpDoes, CardIsSetUp
  <2>2. CASE map[d] = s /\ map'[d] = s
    BY <2>2 DEF FoundStructure
  <2>3. ASSUME LeadsToCard(d)', pmedia_info[s] # None => CardSlot(pmedia_info[s])
        PROVE  FoundStructure(d, s)'
    <3>1. CASE pmedia_info'[s] = None
      BY <2>3, <3>1 DEF FoundStructure
    <3>2. CASE pmedia_info'[s] = pmedia_info[s] /\ pmedia_info[s] # None
      <4>1. PICK n \in Media : n = pmedia_info[s] /\ CardSlot(n)
        BY <1>0, <2>3, <3>2 DEF MediaTypeOK
      <4>2. CardSlot(n)'
        BY <4>1, CardSlotStays
      <4> QED BY <2>3, <3>2, <4>1, <4>2 DEF FoundStructure
    <3>3. CASE pmedia_info'[s] = pmedia[Driver] /\ pc[Driver] \in Inserting
      <4>1. PICK m \in Media : m = pmedia[Driver] /\ CardSlot(m)'
        BY <1>2, <3>3, CardIsSetUp
      <4> QED BY <2>3, <3>3, <4>1 DEF FoundStructure
    <3> QED BY <2>1, <3>1, <3>2, <3>3 DEF SetsUp
  <2>4. CASE map[d] = s /\ map'[d] # s
    <3>1. d \in installing /\ map'[d] = None
      BY <1>0, <2>1, <2>4 DEF SetsUp
    <3>2. pmedia_info[s] \in {None, pmedia[Driver]} /\ pc[Driver] \in Inserting
      BY <1>0, <2>4, <3>1 DEF InstallInv, Inserting
    <3>3. pmedia_info[s] # None => CardSlot(pmedia_info[s])
      BY <1>2, <3>2, CardIsSetUp
    <3>4. LeadsToCard(d)'
      BY <2>1, <3>1 DEF LeadsToCard
    <3> QED BY <2>3, <3>3, <3>4
  <2>5. CASE LeadsToCard(d) /\ (pmedia_info[s] # None => CardSlot(pmedia_info[s]))
    BY <2>3, <2>5, LeadsToCardStays
  <2> QED BY <2>2, <2>4, <2>5 DEF FoundStructure
<1>3. ASSUME NEW p \in Procs, Unmap(p) PROVE FoundStructure(d, s)'
  <2>1. PICK m \in Media : m = pmedia[p]
    BY <1>3, UnmapDoes
  <2>2. /\ map' = [e \in Drives |-> IF e \in LettersOf(m) THEN None ELSE map[e]]
        /\ pmedia_info' = pmedia_info
    BY <1>3, <2>1, UnmapDoes
  <2>3. CardSlot(m)' /\ FixedAreThere'
    BY <1>3, <2>1, UnmapKeepsCardSlot
  <2>4. CASE map[d] = s /\ d \notin LettersOf(m)
    BY <2>2, <2>4 DEF FoundStructure
  <2>5. CASE map[d] = s /\ d \in LettersOf(m)
    <3>1. map'[d] = None /\ pmedia_info'[s] = m
      BY <2>2, <2>5 DEF LettersOf
    <3> QED BY <2>3, <3>1 DEF FoundStructure, LeadsToCard
  <2>6. CASE LeadsToCard(d) /\ (pmedia_info[s] # None => CardSlot(pmedia_info[s]))
    <3>1. LeadsToCard(d)'
      BY <2>6, LeadsToCardStays
    <3>2. CASE pmedia_info[s] # None
      <4>1. PICK n \in Media : n = pmedia_info[s] /\ CardSlot(n)
        BY <1>0, <2>6, <3>2 DEF MediaTypeOK
      <4>2. CardSlot(n)'
        BY <4>1, CardSlotStays
      <4> QED BY <2>2, <3>1, <4>1, <4>2 DEF FoundStructure
    <3> QED BY <2>2, <3>1, <3>2 DEF FoundStructure
  <2> QED BY <2>4, <2>5, <2>6 DEF FoundStructure
<1>4. ASSUME NEW q \in Procs, Step(q), ~Unmap(q) PROVE FoundStructure(d, s)'
  BY <1>1, <1>4, StepDoes DEF Frames
<1> QED BY <1>1, <1>2, <1>3, <1>4, NextIsAStep DEF vars, letters, slots

LEMMA FoundSlotStays ==
  ASSUME MediaAccessAssumption, OneCard, MediaInv, QuietStep, Started,
         NEW d \in Drives, NEW m \in Media, FoundSlot(d, m)
  PROVE  FoundSlot(d, m)'
<1>0. /\ MediaTypeOK /\ InstallInv /\ None \notin Structs \cup Media
      /\ map[d] # None => map[d] \in Structs \ mem_drive_freelist
  BY DEF MediaInv, MediaAccessAssumption, LettersInv, MediaTypeOK
<1>1. CASE LeadsToCard(d) /\ CardSlot(m)
  BY <1>1, LeadsToCardStays, CardSlotStays DEF FoundSlot
<1>2. CASE map[d] # None /\ pmedia_info[map[d]] = m
  <2>1. CASE UNCHANGED drives
    BY <1>2, <2>1 DEF drives, FoundSlot
  <2>2. CASE SettingUp
    <3>1. SetsUp /\ FixedAreThere'
      BY <2>2, SetsUpDoes, CardIsSetUp
    <3>2. CASE map'[d] = map[d]
      <4>1. pmedia_info'[map[d]] = m
        BY <1>0, <1>2, <3>1 DEF SetsUp
      <4> QED BY <1>2, <3>2, <4>1 DEF FoundSlot
    <3>3. CASE d \in installing /\ map'[d] = None
      <4>1. m = pmedia[Driver] /\ pc[Driver] \in Inserting
        BY <1>0, <1>2, <3>3 DEF InstallInv, Inserting
      <4>2. CardSlot(m)'
        BY <2>2, <4>1, CardIsSetUp
      <4> QED BY <3>1, <3>3, <4>2 DEF FoundSlot, LeadsToCard
    <3> QED BY <1>2, <3>1, <3>2, <3>3 DEF SetsUp
  <2>3. ASSUME NEW p \in Procs, Unmap(p) PROVE FoundSlot(d, m)'
    <3>1. PICK n \in Media : n = pmedia[p]
      BY <2>3, UnmapDoes
    <3>2. /\ map' = [e \in Drives |-> IF e \in LettersOf(n) THEN None ELSE map[e]]
          /\ pmedia_info' = pmedia_info
      BY <2>3, <3>1, UnmapDoes
    <3>3. CardSlot(n)' /\ FixedAreThere'
      BY <2>3, <3>1, UnmapKeepsCardSlot
    <3>4. CASE d \in LettersOf(n)
      <4>1. n = m /\ map'[d] = None
        BY <1>2, <3>2, <3>4 DEF LettersOf
      <4> QED BY <3>3, <4>1 DEF FoundSlot, LeadsToCard
    <3>5. CASE d \notin LettersOf(n)
      BY <1>2, <3>2, <3>5 DEF FoundSlot
    <3> QED BY <3>4, <3>5
  <2>4. ASSUME NEW q \in Procs, Step(q), ~Unmap(q) PROVE FoundSlot(d, m)'
    BY <2>1, <2>4, StepDoes DEF Frames
  <2> QED BY <2>1, <2>2, <2>3, <2>4, NextIsAStep DEF vars, letters
<1> QED BY <1>1, <1>2 DEF FoundSlot

LEMMA FoundHolds ==
  ASSUME MediaAccessAssumption, OneCard, MediaInv, QuietStep
  PROVE  FoundInv'
<1>0. /\ MediaTypeOK /\ LocalsInv /\ FoundInv /\ None \notin Structs \cup Media
      /\ Driver \notin Threads /\ \A t \in Threads : t \in Procs /\ (pc[t] # "Idle" => Started)
  BY DEF MediaInv, MediaAccessAssumption, Procs, ActiveInv
<1>1. ASSUME NEW t \in Threads, pc'[t] = pc[t], letter'[t] = letter[t], pdr'[t] = pdr[t], pmedia'[t] = pmedia[t]
      PROVE  /\ pc'[t] = "Found" => FoundStructure(letter[t], pdr[t])'
             /\ pc'[t] \in {"Claim", "Recheck"} => FoundSlot(letter[t], pmedia[t])'
  <2>1. CASE pc[t] = "Found"
    <3>1. PICK d \in Drives, s \in Structs : d = letter[t] /\ s = pdr[t]
      BY <1>0, <2>1 DEF LocalsInv
    <3>2. FoundStructure(d, s)'
      BY <1>0, <2>1, <3>1, FoundStructureStays DEF FoundInv
    <3> QED BY <1>1, <2>1, <3>1, <3>2
  <2>2. CASE pc[t] \in {"Claim", "Recheck"}
    <3>1. PICK d \in Drives, m \in Media : d = letter[t] /\ m = pmedia[t]
      BY <1>0, <2>2 DEF LocalsInv
    <3>2. FoundSlot(d, m)'
      BY <1>0, <2>2, <3>1, FoundSlotStays DEF FoundInv
    <3> QED BY <1>1, <2>2, <3>1, <3>2
  <2> QED BY <1>1, <2>1, <2>2
<1>2. ASSUME UNCHANGED <<pc, locals>> PROVE FoundInv'
  BY <1>1, <1>2 DEF FoundInv, locals
<1>3. ASSUME NEW q \in Procs, Step(q) PROVE FoundInv'
  <2>1. Moves(q) /\ Frames(q) /\ OthersStay(q)
    BY <1>0, <1>3, StepDoes, StepStays
  <2>2. ASSUME NEW t \in Threads, t # q
        PROVE  /\ pc'[t] = "Found" => FoundStructure(letter[t], pdr[t])'
               /\ pc'[t] \in {"Claim", "Recheck"} => FoundSlot(letter[t], pmedia[t])'
    BY <1>0, <1>1, <2>1, <2>2 DEF OthersStay
  <2>3. ASSUME q \in Threads, pc'[q] = "Found" PROVE FoundStructure(letter[q], pdr[q])'
    <3>1. pc[q] = "Look" /\ pdr'[q] = map[letter[q]] /\ letter'[q] = letter[q]
      BY <2>1, <2>3 DEF Moves
    <3>2. ~Unmap(q)
      BY <3>1 DEF Unmap
    <3> QED BY <2>1, <3>1, <3>2 DEF Frames, FoundStructure, drives
  <2>4. ASSUME q \in Threads, pc'[q] = "Claim" PROVE FoundSlot(letter[q], pmedia[q])'
    <3>1. Found(q)
      BY <1>0, <2>1, <2>4 DEF Moves
    <3>2. /\ pc[q] = "Found" /\ pmedia_info[pdr[q]] # None /\ pmedia'[q] = pmedia_info[pdr[q]]
          /\ letter'[q] = letter[q]
      BY <1>0, <2>4, <3>1 DEF Found, Goto, MediaTypeOK
    <3>3. PICK d \in Drives, s \in Structs : d = letter[q] /\ s = pdr[q]
      BY <1>0, <2>4, <3>2 DEF LocalsInv
    <3>4. PICK m \in Media : m = pmedia_info[s]
      BY <1>0, <3>2, <3>3 DEF MediaTypeOK
    <3>5. FoundStructure(d, s)
      BY <1>0, <2>4, <3>2, <3>3 DEF FoundInv
    <3>6. FoundSlot(d, m)
      BY <1>0, <3>2, <3>3, <3>4, <3>5 DEF FoundStructure, FoundSlot
    <3>7. FoundSlot(d, m)'
      BY <1>0, <2>4, <3>2, <3>6, FoundSlotStays
    <3> QED BY <3>2, <3>3, <3>4, <3>7
  <2>5. ASSUME q \in Threads, pc'[q] = "Recheck" PROVE FoundSlot(letter[q], pmedia[q])'
    <3>1. Claim(q)
      BY <1>0, <2>1, <2>5 DEF Moves
    <3>2. pc[q] = "Claim" /\ pmedia'[q] = pmedia[q] /\ letter'[q] = letter[q]
      BY <3>1 DEF Claim, locals
    <3>3. PICK d \in Drives, m \in Media : d = letter[q] /\ m = pmedia[q]
      BY <1>0, <2>5, <3>2 DEF LocalsInv
    <3>4. FoundSlot(d, m)'
      BY <1>0, <2>5, <3>2, <3>3, FoundSlotStays DEF FoundInv
    <3> QED BY <3>2, <3>3, <3>4
  <2> QED BY <2>2, <2>3, <2>4, <2>5 DEF FoundInv
<1>4. CASE SettingUp
  <2>1. \A t \in Threads : pc'[t] = pc[t] /\ letter'[t] = letter[t] /\ pdr'[t] = pdr[t] /\ pmedia'[t] = pmedia[t]
    BY <1>4, SetsUpDoes DEF SetsUp
  <2> QED BY <1>1, <2>1 DEF FoundInv
<1>5. CASE UNCHANGED vars
  BY <1>2, <1>5 DEF vars
<1> QED BY <1>3, <1>4, <1>5, NextIsAStep

-----------------------------------------------------------------------------
(* Semaphores *)

\* The slot a process owns stays the same while it owns it.
LEMMA SlotStays ==
  ASSUME MediaAccessAssumption, OneCard, MediaInv, NEW q \in Procs, Step(q), NEW p \in Procs, pc'[p] \in Owning
  PROVE  SlotOf(p)' = IF p = q /\ pc[p] \notin Owning THEN pmedia[p] ELSE SlotOf(p)
<1>0. /\ MediaTypeOK /\ LocalsInv /\ Moves(q) /\ Frames(q) /\ OthersStay(q) /\ Driver \notin Threads
      /\ \A t \in Threads : t \in Procs
  BY StepDoes, StepStays DEF MediaInv, MediaAccessAssumption, Procs
<1>1. CASE p # q
  <2>1. pc'[p] = pc[p] /\ pdr'[p] = pdr[p] /\ pmedia'[p] = pmedia[p]
    BY <1>0, <1>1 DEF OthersStay
  <2>2. CASE pc[p] \in Holding
    <3>1. p \in Threads
      BY <1>0, <2>2 DEF MediaTypeOK, Procs, Holding, Leaving, Inserting
    <3>2. pmedia_info'[pdr[p]] = pmedia_info[pdr[p]]
      BY <1>1, <2>2, <3>1, StepUndisturbed DEF Undisturbed
    <3> QED BY <1>1, <2>1, <2>2, <3>2 DEF SlotOf
  <2>3. CASE pc[p] \notin Holding
    BY <1>1, <2>1, <2>3 DEF SlotOf
  <2> QED BY <2>2, <2>3
<1>2. CASE p = q /\ pc'[q] \in Holding
  <2>1. q \in Threads
    BY <1>0, <1>2 DEF Moves, MediaTypeOK, Procs, Holding, Leaving, Inserting
  <2>2. ~Unmap(q) /\ pc[q] \in Owning
    BY <1>0, <1>2 DEF Unmap, Moves, Holding, Owning, Leaving
  <2>3. UNCHANGED pmedia_info
    BY <1>0, <2>2 DEF Frames, drives
  <2>4. CASE pc[q] \in Holding \ {"Release"} /\ pdr'[q] = pdr[q]
    BY <1>2, <2>2, <2>3, <2>4 DEF SlotOf
  <2>5. CASE pc[q] = "Recheck" /\ map[letter[q]] # None /\ pdr'[q] = map[letter[q]] /\ letter[q] \notin installing
    <3>1. PICK d \in Drives, m \in Media : d = letter[q] /\ m = pmedia[q] /\ map[d] # None /\ d \notin installing
      BY <1>0, <2>1, <2>5 DEF LocalsInv
    <3>2. FoundSlot(d, m)
      BY <2>1, <2>5, <3>1 DEF MediaInv, FoundInv
    <3>3. pmedia_info[map[d]] \in Media
      BY <3>1 DEF MediaInv, LettersInv
    <3>4. pmedia_info[map[d]] = m
      BY <3>1, <3>2, <3>3, CardSlotUnique DEF FoundSlot, LeadsToCard, MediaAccessAssumption
    <3>5. SlotOf(q) = m /\ SlotOf(q)' = pmedia_info[map[d]]
      BY <1>2, <2>3, <2>5, <3>1 DEF SlotOf, Holding
    <3> QED BY <1>2, <2>2, <3>4, <3>5
  <2> QED BY <1>0, <1>2, <2>4, <2>5 DEF Moves
<1>3. CASE p = q /\ pc'[q] \in Leaving
  <2>0. pc'[q] \notin Holding /\ SlotOf(q)' = pmedia'[q]
    BY <1>3 DEF SlotOf, Leaving, Holding
  <2>1. CASE Release(q)
    <3>1. q \in Threads /\ pc[q] = "Release" /\ pc[q] \in Holding
      BY <1>0, <2>1 DEF Release, Holding, Procs, MediaTypeOK, Leaving, Inserting
    <3>2. map[letter[q]] # None /\ map[letter[q]] = pdr[q] /\ SlotOf(q) = pmedia_info[pdr[q]]
      BY <3>1, HoldingKnows DEF MediaAccessAssumption
    <3>3. pmedia'[q] = SlotOf(q)
      BY <1>0, <2>1, <3>2 DEF Release, MediaTypeOK
    <3> QED BY <1>3, <2>0, <3>1, <3>3 DEF Owning
  <2>2. CASE q = Driver /\ EjectClaim
    BY <1>3, <2>0, <2>2 DEF EjectClaim, locals, Owning, Holding, Leaving
  <2>3. CASE pc[q] \in Leaving \ {"Unlock"} /\ pmedia'[q] = pmedia[q]
    BY <1>3, <2>0, <2>3 DEF SlotOf, Owning, Leaving, Holding
  <2> QED BY <1>0, <1>3, <2>1, <2>2, <2>3 DEF Moves
<1>4. CASE p = q /\ pc'[q] = "Recheck"
  <2>1. Claim(q)
    BY <1>0, <1>4 DEF Moves
  <2> QED BY <1>4, <2>1 DEF Claim, locals, SlotOf, Owning, Holding, Leaving
<1> QED BY <1>1, <1>2, <1>3, <1>4 DEF Owning

\* A process owns its slot's semaphore exactly while it is at a place that owns one.
LEMMA SemaphoresHold ==
  ASSUME MediaAccessAssumption, OneCard, MediaInv, QuietStep
  PROVE  /\ \A p \in Procs : pc'[p] \in Owning => access_semaphore'[SlotOf(p)'] = p
         /\ \A m \in Media : access_semaphore'[m] # None =>
              pc'[access_semaphore'[m]] \in Owning /\ SlotOf(access_semaphore[m])' = m
<1>0. /\ MediaTypeOK /\ LocalsInv /\ SemaphoreInv /\ None \notin Procs
  BY DEF MediaInv, MediaAccessAssumption
<1>1. ASSUME NEW q \in Procs, Step(q)
      PROVE  /\ \A p \in Procs : pc'[p] \in Owning => access_semaphore'[SlotOf(p)'] = p
             /\ \A m \in Media : access_semaphore'[m] # None =>
                  pc'[access_semaphore'[m]] \in Owning /\ SlotOf(access_semaphore[m])' = m
  <2>0. /\ Moves(q) /\ Frames(q) /\ OthersStay(q) /\ access_semaphore \in [Media -> Procs \cup {None}]
    BY <1>0, <1>1, StepDoes, StepStays DEF MediaTypeOK
  <2>1. \A p \in Procs : pc[p] \in Owning => SlotOf(p) \in Media /\ access_semaphore[SlotOf(p)] = p
    BY <1>0, OwnersHaveASlot DEF SemaphoreInv
  <2>2. \A m \in Media : access_semaphore[m] # None =>
          pc[access_semaphore[m]] \in Owning /\ SlotOf(access_semaphore[m]) = m
    BY <1>0 DEF SemaphoreInv
  <2>3. \A p \in Procs \ {q} : pc'[p] = pc[p] /\ (pc[p] \in Owning => SlotOf(p)' = SlotOf(p))
    BY <1>1, <2>0, SlotStays DEF OthersStay
  <2>4. CASE pc[q] \notin Owning /\ pc'[q] \in Owning
    <3>1. /\ pmedia[q] \in Media /\ SlotOf(q)' = pmedia[q] /\ access_semaphore[pmedia[q]] = None
          /\ access_semaphore' = [access_semaphore EXCEPT ![pmedia[q]] = q]
      BY <1>0, <1>1, <2>0, <2>4, SlotStays DEF Frames, LocalsInv
    <3>2. \A m \in Media : access_semaphore'[m] = IF m = pmedia[q] THEN q ELSE access_semaphore[m]
      BY <2>0, <3>1
    <3>3. ASSUME NEW p \in Procs, pc'[p] \in Owning PROVE access_semaphore'[SlotOf(p)'] = p
      <4>1. CASE p = q
        BY <3>1, <3>2, <4>1
      <4>2. CASE p # q
        BY <1>0, <2>1, <2>3, <3>1, <3>2, <3>3, <4>2
      <4> QED BY <4>1, <4>2
    <3>4. ASSUME NEW m \in Media, NEW p \in Procs, access_semaphore'[m] = p
          PROVE  pc'[p] \in Owning /\ SlotOf(p)' = m
      <4>1. CASE m = pmedia[q]
        BY <2>4, <3>1, <3>2, <3>4, <4>1
      <4>2. CASE m # pmedia[q]
        <5>1. pc[p] \in Owning /\ SlotOf(p) = m
          BY <1>0, <2>2, <3>2, <3>4, <4>2
        <5> QED BY <2>3, <2>4, <5>1
      <4> QED BY <4>1, <4>2
    <3>5. ASSUME NEW m \in Media, access_semaphore'[m] # None
          PROVE  pc'[access_semaphore'[m]] \in Owning /\ SlotOf(access_semaphore[m])' = m
      <4>1. PICK p \in Procs : access_semaphore'[m] = p
        BY <2>0, <3>2, <3>5
      <4> QED BY <3>4, <4>1 DEF SlotOf
    <3> QED BY <3>3, <3>5
  <2>5. CASE pc[q] \in Owning /\ pc'[q] \notin Owning
    <3>1. /\ pc[q] \in {"Recheck", "Unlock"}
          /\ access_semaphore' = [access_semaphore EXCEPT ![pmedia[q]] = None]
      BY <2>0, <2>5 DEF Frames
    <3>2. pmedia[q] \in Media /\ SlotOf(q) = pmedia[q]
      BY <1>0, <3>1 DEF LocalsInv, Leaving, SlotOf, Holding
    <3>3. \A m \in Media : access_semaphore'[m] = IF m = pmedia[q] THEN None ELSE access_semaphore[m]
      BY <2>0, <3>1
    <3>4. ASSUME NEW p \in Procs, pc'[p] \in Owning PROVE access_semaphore'[SlotOf(p)'] = p
      BY <2>1, <2>3, <2>5, <3>2, <3>3, <3>4
    <3>5. ASSUME NEW m \in Media, NEW p \in Procs, access_semaphore'[m] = p
          PROVE  pc'[p] \in Owning /\ SlotOf(p)' = m
      BY <1>0, <2>1, <2>2, <2>3, <3>2, <3>3, <3>5
    <3>6. ASSUME NEW m \in Media, access_semaphore'[m] # None
          PROVE  pc'[access_semaphore'[m]] \in Owning /\ SlotOf(access_semaphore[m])' = m
      <4>1. PICK p \in Procs : access_semaphore'[m] = p
        BY <2>0, <3>3, <3>6
      <4> QED BY <3>5, <4>1 DEF SlotOf
    <3> QED BY <3>4, <3>6
  <2>6. CASE pc[q] \in Owning <=> pc'[q] \in Owning
    <3>1. UNCHANGED access_semaphore
      BY <2>0, <2>6 DEF Frames
    <3>2. \A p \in Procs : (pc[p] \in Owning <=> pc'[p] \in Owning) /\ (pc[p] \in Owning => SlotOf(p)' = SlotOf(p))
      BY <1>1, <2>3, <2>6, SlotStays
    <3>3. ASSUME NEW m \in Media, access_semaphore'[m] # None
          PROVE  pc'[access_semaphore'[m]] \in Owning /\ SlotOf(access_semaphore[m])' = m
      <4>1. PICK p \in Procs : access_semaphore[m] = p
        BY <2>0, <3>1, <3>3
      <4>2. pc'[p] \in Owning /\ SlotOf(p)' = m
        BY <1>0, <2>2, <3>2, <4>1
      <4> QED BY <3>1, <4>1, <4>2 DEF SlotOf
    <3> QED BY <2>1, <3>1, <3>2, <3>3
  <2> QED BY <2>4, <2>5, <2>6
<1>2. ASSUME UNCHANGED access_semaphore, \A p \in Procs : pc'[p] \in Owning <=> pc[p] \in Owning,
             \A p \in Procs : pc[p] \in Owning => SlotOf(p)' = SlotOf(p)
      PROVE  /\ \A p \in Procs : pc'[p] \in Owning => access_semaphore'[SlotOf(p)'] = p
             /\ \A m \in Media : access_semaphore'[m] # None =>
                  pc'[access_semaphore'[m]] \in Owning /\ SlotOf(access_semaphore[m])' = m
  <2>1. ASSUME NEW m \in Media, access_semaphore'[m] # None
        PROVE  pc'[access_semaphore'[m]] \in Owning /\ SlotOf(access_semaphore[m])' = m
    <3>1. PICK p \in Procs : access_semaphore[m] = p
      BY <1>0, <1>2, <2>1 DEF MediaTypeOK
    <3>2. pc'[p] \in Owning /\ SlotOf(p)' = m
      BY <1>0, <1>2, <3>1 DEF SemaphoreInv
    <3> QED BY <1>2, <3>1, <3>2 DEF SlotOf
  <2> QED BY <1>0, <1>2, <2>1 DEF SemaphoreInv
<1>3. ASSUME SettingUp
      PROVE  /\ UNCHANGED access_semaphore /\ \A p \in Procs : pc'[p] \in Owning <=> pc[p] \in Owning
             /\ \A p \in Procs : pc[p] \in Owning => SlotOf(p)' = SlotOf(p)
  <2>1. SetsUp
    BY <1>3, SetsUpDoes
  <2>2. \A p \in Procs : p \in Threads \/ p = Driver
    BY DEF Procs
  <2>3. pc[Driver] \notin Owning /\ pc'[Driver] \notin Owning
    BY <2>1 DEF SetsUp, Inserting, Owning, Holding, Leaving
  <2>4. ASSUME NEW t \in Threads PROVE SlotOf(t)' = SlotOf(t)
    <3>1. CASE pc[t] \in Holding
      BY <1>3, <2>1, <3>1, SetUpUndisturbed DEF SetsUp, Undisturbed, SlotOf
    <3>2. CASE pc[t] \notin Holding
      BY <2>1, <3>2 DEF SetsUp, SlotOf
    <3> QED BY <3>1, <3>2
  <2> QED BY <2>1, <2>2, <2>3, <2>4 DEF SetsUp, locks
<1>4. CASE UNCHANGED vars
  BY <1>2, <1>4 DEF vars, locks, letters, drives, locals, SlotOf
<1> QED BY <1>1, <1>2, <1>3, <1>4, NextIsAStep

LEMMA SemaphoreHolds ==
  ASSUME MediaAccessAssumption, OneCard, MediaInv, QuietStep
  PROVE  SemaphoreInv'
<1>0. /\ MediaTypeOK /\ SemaphoreInv /\ Driver \notin Threads /\ \A t \in Threads : t \in Procs
      /\ None \notin Procs /\ Exclusive \in BOOLEAN
  BY DEF MediaInv, MediaAccessAssumption, Procs
<1>1. ASSUME NEW t \in Threads, pc'[t] \in Holding
      PROVE  map'[letter'[t]] = pdr'[t] /\ letter'[t] \notin installing'
  <2>2. ASSUME NEW q \in Procs, Step(q) PROVE map'[letter'[t]] = pdr'[t] /\ letter'[t] \notin installing'
    <3>1. Moves(q) /\ Frames(q) /\ OthersStay(q)
      BY <1>0, <2>2, StepDoes, StepStays
    <3>2. CASE t # q
      BY <1>0, <1>1, <2>2, <3>1, <3>2, StepUndisturbed DEF OthersStay, Undisturbed, Frames, SemaphoreInv
    <3>3. CASE t = q
      <4>1. ~Unmap(q) /\ letter'[q] = letter[q]
        BY <1>1, <3>1, <3>3 DEF Unmap, Moves, Holding
      <4>2. map' = map /\ installing' = installing
        BY <3>1, <4>1 DEF Frames, drives
      <4>3. pc[q] \in Holding => map[letter[q]] = pdr[q] /\ letter[q] \notin installing
        BY <1>0, <3>3 DEF SemaphoreInv
      <4> QED BY <1>1, <3>1, <3>3, <4>1, <4>2, <4>3 DEF Moves
    <3> QED BY <3>2, <3>3
  <2>3. CASE SettingUp
    <3>1. SetsUp
      BY <2>3, SetsUpDoes
    <3>2. pc[t] \in Holding /\ letter'[t] = letter[t] /\ pdr'[t] = pdr[t]
      BY <1>1, <3>1 DEF SetsUp
    <3>3. map'[letter[t]] = pdr[t]
      BY <2>3, <3>2, SetUpUndisturbed DEF Undisturbed
    <3>4. letter[t] \in Drives /\ map[letter[t]] = pdr[t] /\ letter[t] \notin installing /\ pdr[t] # None
      BY <3>2, HoldingKnows DEF MediaAccessAssumption
    <3> QED BY <3>1, <3>2, <3>3, <3>4 DEF SetsUp
  <2>4. CASE UNCHANGED vars
    <3>1. map' = map /\ letter' = letter /\ pdr' = pdr /\ pc' = pc /\ installing' = installing
      BY <2>4 DEF vars, locals, letters, drives
    <3> QED BY <1>0, <1>1, <3>1 DEF SemaphoreInv
  <2> QED BY <2>2, <2>3, <2>4, NextIsAStep
<1>2. ASSUME NEW t \in Threads, Exclusive, pc'[t] \in (Holding \ {"Exclusive"}) \cup Leaving
      PROVE  exclusive' = t
  <2>1. ASSUME pc'[t] = pc[t], UNCHANGED exclusive PROVE exclusive' = t
    BY <1>0, <1>2, <2>1 DEF SemaphoreInv
  <2>2. ASSUME NEW q \in Procs, Step(q) PROVE exclusive' = t
    <3>1. Moves(q) /\ Frames(q) /\ OthersStay(q)
      BY <1>0, <2>2, StepDoes, StepStays
    <3>2. ASSUME t # q, ~ClaimExclusive(q) PROVE exclusive' = t
      <4>1. exclusive = t
        BY <1>0, <1>2, <3>1, <3>2 DEF OthersStay, SemaphoreInv
      <4>2. ~(q \in Threads /\ pc[q] = "Unlock")
        BY <1>0, <1>2, <3>2, <4>1 DEF SemaphoreInv, Leaving
      <4> QED BY <3>1, <3>2, <4>1, <4>2 DEF Frames
    <3>3. CASE ClaimExclusive(q)
      <4>1. exclusive = None /\ pc[q] = "Exclusive" /\ exclusive' = q
        BY <3>3 DEF ClaimExclusive
      <4>2. CASE t # q
        <5>1. exclusive = t
          BY <1>0, <1>2, <3>1, <4>2 DEF OthersStay, SemaphoreInv
        <5> QED BY <1>0, <4>1, <5>1
      <4> QED BY <4>1, <4>2
    <3>4. ASSUME t = q, ~ClaimExclusive(q) PROVE exclusive' = t
      <4>1. pc[q] # "Unlock"
        BY <1>0, <1>2, <3>1, <3>4 DEF Moves, Holding, Leaving, Release
      <4>2. UNCHANGED exclusive
        BY <3>1, <3>4, <4>1 DEF Frames
      <4>3. CASE pc[q] \in (Holding \ {"Exclusive"}) \cup Leaving
        BY <1>0, <1>2, <3>4, <4>2, <4>3 DEF SemaphoreInv
      <4>4. CASE pc'[q] \in Holding
        BY <1>2, <3>1, <3>4, <4>3, <4>4 DEF Moves, Holding, Leaving
      <4>5. CASE pc'[q] \in Leaving
        <5>1. CASE Release(q)
          BY <4>3, <5>1 DEF Release, Holding
        <5>2. CASE q = Driver
          BY <1>0, <3>4, <5>2
        <5> QED BY <3>1, <4>3, <4>5, <5>1, <5>2 DEF Moves
      <4> QED BY <1>2, <3>4, <4>4, <4>5
    <3> QED BY <3>2, <3>3, <3>4
  <2>3. CASE SettingUp
    BY <2>1, <2>3, SetsUpDoes DEF SetsUp, locks
  <2>4. CASE UNCHANGED vars
    BY <2>1, <2>4 DEF vars, locks
  <2> QED BY <2>2, <2>3, <2>4, NextIsAStep
<1> QED BY <1>1, <1>2, SemaphoresHold DEF SemaphoreInv

-----------------------------------------------------------------------------
(* Removal *)

LEMMA RemovalHolds ==
  ASSUME MediaAccessAssumption, OneCard, MediaInv, QuietStep
  PROVE  RemovalInv'
<1>0. /\ MediaTypeOK /\ LocalsInv /\ LettersInv /\ CardInv /\ RemovalInv /\ Driver \notin Threads
      /\ None \notin Devices \cup Structs \cup Media /\ Removable \subseteq Devices
  BY DEF MediaInv, MediaAccessAssumption
<1>1. CASE SettingUp
  <2>1. SetsUp
    BY <1>1, SetsUpDoes
  <2>2. ASSUME NEW p \in Procs, pc'[p] \in {"FreeVolumes", "Unmap"}
        PROVE  /\ pc'[p] = pc[p] /\ pmedia'[p] = pmedia[p]
               /\ pmedia[p] \in Media /\ removing'[pmedia[p]] /\ pc[Driver] = "Idle"
    <3>1. p \in Threads
      BY <2>1, <2>2 DEF SetsUp, Procs, Inserting
    <3>2. pc'[p] = pc[p] /\ pmedia'[p] = pmedia[p]
      BY <2>1, <3>1 DEF SetsUp
    <3>3. pc[Driver] \notin Inserting
      BY <2>2, <3>2, UnmapMeansQuiet
    <3>4. PICK dev \in Devices, m \in Media : ComesTo(dev, m)
      BY <1>1, <3>3, SlotsSetUp
    <3>5. pmedia[p] \in Media /\ removing[pmedia[p]] /\ devhandle[pmedia[p]] # None
      BY <1>0, <2>2, <3>2 DEF LocalsInv, Leaving, RemovalInv, CardInv
    <3> QED BY <1>0, <3>2, <3>4, <3>5 DEF ComesTo, MediaTypeOK
  <2>3. ASSUME NEW p \in Procs, pc'[p] = "Unmap", NEW d \in Drives, map'[d] # None, pmedia_info'[map'[d]] = pmedia'[p]
        PROVE  mounted'[map'[d]] = 0
    <3>1. pc[p] = "Unmap" /\ pmedia'[p] = pmedia[p] /\ pmedia[p] \in Media /\ pc[Driver] = "Idle"
      BY <2>2, <2>3
    <3>2. map[d] # None
      BY <1>0, <2>1, <2>3, <3>1 DEF SetsUp
    <3>3. map'[d] = map[d] /\ map[d] \in Structs \ mem_drive_freelist
      BY <1>0, <2>1, <2>3, <3>2 DEF SetsUp, LettersInv, MediaTypeOK
    <3>4. pmedia_info[map[d]] = pmedia[p] /\ mounted'[map[d]] = mounted[map[d]]
      BY <2>1, <2>3, <3>1, <3>3 DEF SetsUp, Inserting
    <3>5. d \in LettersOf(pmedia[p])
      BY <3>2, <3>4 DEF LettersOf
    <3> QED BY <1>0, <3>1, <3>3, <3>4, <3>5 DEF RemovalInv
  <2> QED BY <2>2, <2>3 DEF RemovalInv, LettersOf
<1>2. ASSUME NEW q \in Procs, Step(q) PROVE RemovalInv'
  <2>0. Moves(q) /\ Frames(q) /\ OthersStay(q)
    BY <1>0, <1>2, StepDoes, StepStays
  <2>1. ASSUME NEW p \in Procs, p # q, pc[p] \in Leaving, NEW d \in Drives, map'[d] # None,
               pmedia_info'[map'[d]] = pmedia[p]
        PROVE  d \in LettersOf(pmedia[p]) /\ map'[d] = map[d] /\ map[d] \in Structs /\ mounted'[map[d]] \in {0, mounted[map[d]]}
    <3>1. map'[d] = map[d] /\ pmedia_info' = pmedia_info
      BY <2>0, <2>1, UnmapDoes DEF Frames, drives
    <3>2. d \in LettersOf(pmedia[p]) /\ map[d] \in Structs
      BY <1>0, <2>1, <3>1 DEF LettersOf, MediaTypeOK
    <3>3. SlotOf(p) = pmedia[p] /\ pc[p] \in Owning
      BY <2>1 DEF SlotOf, Leaving, Holding, Owning
    <3>4. ASSUME q \in Threads, pc[q] \in Holding PROVE pdr[q] # map[d]
      <4>1. SlotOf(q) # SlotOf(p)
        BY <2>1, <3>3, <3>4, OwnersAreApart DEF Owning
      <4> QED BY <2>1, <3>1, <3>3, <3>4, <4>1 DEF SlotOf
    <3>5. CASE FreeVolumes(q)
      BY <1>0, <3>1, <3>2, <3>5 DEF FreeVolumes, DiskFree
    <3>6. CASE CheckMount(q) \/ Opened(q)
      <4>1. q \in Threads /\ pc[q] \in Holding
        BY <1>0, <3>6 DEF CheckMount, Opened, Holding, Procs, MediaTypeOK, Leaving, Inserting
      <4> QED BY <1>0, <3>1, <3>2, <3>4, <3>6, <4>1 DEF CheckMount, Opened, MediaTypeOK, mounts
    <3>7. CASE DiskClose(q)
      BY <1>0, <3>1, <3>2, <3>7 DEF DiskClose, DiskFree
    <3>8. CASE UNCHANGED mounts
      BY <3>1, <3>2, <3>8 DEF mounts
    <3> QED BY <2>0, <3>1, <3>2, <3>5, <3>6, <3>7, <3>8 DEF Frames
  <2>2. ASSUME NEW p \in Procs, p # q, pc'[p] \in {"FreeVolumes", "Unmap"} PROVE removing'[pmedia'[p]]
    <3>1. pc'[p] = pc[p] /\ pmedia'[p] = pmedia[p] /\ pmedia[p] \in Media /\ removing[pmedia[p]]
      BY <1>0, <2>0, <2>2 DEF OthersStay, RemovalInv, LocalsInv, Leaving
    <3>2. CASE Unmap(q)
      <4>1. pmedia[q] # pmedia[p]
        <5>1. pc[p] \in Owning /\ pc[q] \in Owning /\ SlotOf(p) = pmedia[p] /\ SlotOf(q) = pmedia[q]
          BY <2>2, <3>1, <3>2 DEF Unmap, SlotOf, Leaving, Holding, Owning
        <5> QED BY <2>2, <5>1, OwnersAreApart
      <4> QED BY <1>0, <3>1, <3>2, <4>1, UnmapDoes DEF MediaTypeOK
    <3>3. ASSUME NEW m \in Media, Eject(m) PROVE removing'[pmedia[p]]
      BY <1>0, <3>1, <3>3 DEF Eject, MediaTypeOK
    <3> QED BY <2>0, <3>1, <3>2, <3>3 DEF Frames
  <2>3. ASSUME NEW p \in Procs, p # q, pc'[p] = "Unmap", NEW d \in Drives, map'[d] # None,
               pmedia_info'[map'[d]] = pmedia'[p]
        PROVE  mounted'[map'[d]] = 0
    <3>1. pc[p] = "Unmap" /\ pmedia'[p] = pmedia[p]
      BY <2>0, <2>3 DEF OthersStay
    <3>2. d \in LettersOf(pmedia[p]) /\ map'[d] = map[d] /\ mounted'[map[d]] \in {0, mounted[map[d]]}
      BY <2>1, <2>3, <3>1 DEF Leaving
    <3> QED BY <1>0, <3>1, <3>2 DEF RemovalInv
  <2>4. ASSUME pc'[q] = "FreeVolumes" PROVE removing'[pmedia'[q]]
    <3>1. CASE Release(q)
      <4>1. pmedia'[q] # None /\ removing[pmedia'[q]] /\ UNCHANGED removing
        BY <1>0, <2>4, <3>1 DEF Release, AfterRelease, Goto, MediaTypeOK, slots
      <4> QED BY <4>1
    <3>2. CASE q = Driver /\ EjectClaim
      BY <1>0, <2>4, <3>2 DEF EjectClaim, Goto, MediaTypeOK, slots, locals
    <3> QED BY <2>0, <2>4, <3>1, <3>2 DEF Moves
  <2>5. ASSUME pc'[q] = "Unmap"
        PROVE  /\ removing'[pmedia'[q]]
               /\ \A d \in Drives : map'[d] # None /\ pmedia_info'[map'[d]] = pmedia'[q] => mounted'[map'[d]] = 0
    <3>1. FreeVolumes(q)
      BY <2>0, <2>5 DEF Moves
    <3>2. /\ pc[q] = "FreeVolumes" /\ removing' = removing /\ pmedia' = pmedia /\ map' = map
          /\ pmedia_info' = pmedia_info /\ DiskFree({map[d] : d \in LettersOf(pmedia[q])})
      BY <3>1 DEF FreeVolumes, slots, locals, letters, drives
    <3>3. ASSUME NEW d \in Drives, map[d] # None, pmedia_info[map[d]] = pmedia[q] PROVE mounted'[map[d]] = 0
      <4>1. d \in LettersOf(pmedia[q]) /\ map[d] \in Structs
        BY <1>0, <3>3 DEF LettersOf, MediaTypeOK
      <4> QED BY <3>2, <4>1 DEF DiskFree
    <3> QED BY <1>0, <3>2, <3>3 DEF RemovalInv
  <2> QED BY <2>2, <2>3, <2>4, <2>5 DEF RemovalInv, LettersOf
<1>3. CASE UNCHANGED vars
  BY <1>0, <1>3 DEF vars, RemovalInv, LettersOf, letters, drives, slots, mounts, locals
<1> QED BY <1>1, <1>2, <1>3, NextIsAStep

-----------------------------------------------------------------------------
(* Mounts *)

\* What a step does to the mounts.
LEMMA MountsChange ==
  ASSUME MediaAccessAssumption, MediaInv, NEW q \in Procs, Step(q)
  PROVE  \/ UNCHANGED mounts /\ pc[q] # "Opened" /\ pc'[q] # "Opened"
         \/ \E S \in SUBSET Structs : /\ mounted' = [s \in Structs |-> IF s \in S THEN 0 ELSE mounted[s]]
                                      /\ UNCHANGED <<opencount, drive_opencounter>>
                                      /\ pc[q] # "Opened" /\ pc'[q] # "Opened"
         \/ /\ CheckMount(q) /\ q \in Threads /\ pc[q] = "Claimed" /\ pc'[q] = "Opened"
            /\ mounted[pdr[q]] = 0 /\ drive_opencounter' = drive_opencounter + 1
            /\ mounted' = [mounted EXCEPT ![pdr[q]] = drive_opencounter + 1] /\ UNCHANGED opencount
         \/ /\ Opened(q) /\ q \in Threads /\ pc[q] = "Opened" /\ UNCHANGED drive_opencounter
            /\ opencount' = [opencount EXCEPT ![pdr[q]] = drive_opencounter]
            /\ \/ pc'[q] = "Work" /\ UNCHANGED mounted
               \/ pc'[q] = "Release" /\ mounted' = [mounted EXCEPT ![pdr[q]] = 0]
<1>0. MediaTypeOK /\ Moves(q) /\ Frames(q) /\ Driver \notin Threads
  BY StepDoes DEF MediaInv, MediaAccessAssumption
<1>1. CASE FreeVolumes(q)
  <2>1. {map[d] : d \in LettersOf(pmedia[q])} \subseteq Structs
    BY <1>0 DEF LettersOf, MediaTypeOK
  <2>2. pc[q] = "FreeVolumes" /\ pc'[q] = "Unmap"
    BY <1>0, <1>1 DEF FreeVolumes, Goto, MediaTypeOK
  <2> QED BY <1>1, <2>1, <2>2 DEF FreeVolumes, DiskFree
<1>2. CASE DiskClose(q)
  <2>1. pc[q] = "Work" /\ q \in Threads /\ pdr[q] \in Structs
    BY <1>0, <1>2 DEF DiskClose, Working, Procs, MediaTypeOK, Leaving, Inserting, MediaInv, LocalsInv, Holding
  <2>2. pc'[q] = "Release" /\ {pdr[q]} \in SUBSET Structs
    BY <1>0, <1>2, <2>1 DEF DiskClose, Working, Goto, MediaTypeOK
  <2> QED BY <1>2, <2>1, <2>2 DEF DiskClose, DiskFree
<1>3. CASE CheckMount(q)
  <2>1. pc[q] = "Claimed" /\ q \in Threads /\ pc' = [pc EXCEPT ![q] = pc'[q]]
    BY <1>0, <1>3 DEF CheckMount, Goto, Procs, MediaTypeOK, Leaving, Inserting
  <2>2. CASE UNCHANGED mounts /\ (Goto(q, "Work") \/ Goto(q, "Release"))
    BY <1>0, <2>1, <2>2 DEF Goto, MediaTypeOK
  <2>3. CASE /\ mounted[pdr[q]] = 0 /\ drive_opencounter' = drive_opencounter + 1
             /\ mounted' = [mounted EXCEPT ![pdr[q]] = drive_opencounter + 1]
             /\ Goto(q, "Opened") /\ UNCHANGED opencount
    BY <1>0, <1>3, <2>1, <2>3 DEF Goto, MediaTypeOK
  <2> QED BY <1>3, <2>2, <2>3 DEF CheckMount
<1>4. CASE Opened(q)
  <2>1. pc[q] = "Opened" /\ q \in Threads
    BY <1>0, <1>4 DEF Opened, Procs, MediaTypeOK, Leaving, Inserting
  <2> QED BY <1>0, <1>4, <2>1 DEF Opened, Goto, MediaTypeOK
<1>5. CASE UNCHANGED mounts /\ ~CheckMount(q) /\ ~Opened(q)
  BY <1>0, <1>5 DEF Moves
<1> QED BY <1>0, <1>1, <1>2, <1>3, <1>4, <1>5 DEF Frames

LEMMA MountsHold ==
  ASSUME MediaAccessAssumption, OneCard, MediaInv, QuietStep
  PROVE  MountsInv'
<1>0. /\ MediaTypeOK /\ MountsInv /\ \A t \in Threads : t \in Procs
  BY DEF MediaInv, MediaAccessAssumption, Procs
<1>1. CASE SettingUp
  <2>1. SetsUp
    BY <1>1, SetsUpDoes
  <2>2. (\A t \in Threads : pc'[t] = pc[t]) /\ pdr' = pdr /\ drive_opencounter' = drive_opencounter
    BY <2>1 DEF SetsUp
  <2>3. \A s \in Structs : \/ mounted'[s] = mounted[s] /\ opencount'[s] = opencount[s]
                           \/ mounted'[s] = 0 /\ opencount'[s] = 0
    BY <2>1 DEF SetsUp
  <2>4. \A t \in Threads : pc[t] \in Holding => mounted'[pdr[t]] = mounted[pdr[t]]
    BY <1>1, SetUpUndisturbed DEF Undisturbed
  <2>5. \A s \in Structs : mounted'[s] <= drive_opencounter' /\ opencount'[s] <= drive_opencounter'
    BY <1>0, <2>2, <2>3 DEF MountsInv, MediaTypeOK
  <2>6. ASSUME NEW s \in Structs
        PROVE  mounted'[s] <= opencount'[s] \/ \E t \in Threads : pc'[t] = "Opened" /\ pdr'[t] = s
    <3>1. CASE mounted[s] <= opencount[s]
      BY <2>3, <3>1
    <3>2. CASE \E t \in Threads : pc[t] = "Opened" /\ pdr[t] = s
      BY <2>2, <3>2
    <3> QED BY <1>0, <3>1, <3>2 DEF MountsInv
  <2>7. \A t \in Threads : pc'[t] \in {"Opened", "Work", "Search"} => mounted'[pdr'[t]] # 0
    BY <1>0, <2>2, <2>4 DEF MountsInv, Holding
  <2> QED BY <2>5, <2>6, <2>7 DEF MountsInv
<1>2. ASSUME NEW q \in Procs, Step(q) PROVE MountsInv'
  <2>0. Moves(q) /\ Frames(q) /\ OthersStay(q) /\ MediaTypeOK'
    BY <1>0, <1>2, StepDoes, StepStays, TypeHolds
  <2>1. \A t \in Threads : t # q /\ pc'[t] \in Holding =>
          /\ pc'[t] = pc[t] /\ pdr'[t] = pdr[t] /\ pdr[t] \in Structs /\ pc[t] \in Holding
          /\ mounted'[pdr[t]] = mounted[pdr[t]]
    BY <1>0, <1>2, <2>0, StepUndisturbed, HoldingKnows DEF Undisturbed, OthersStay
  <2>2. q \in Threads /\ pc[q] \in Holding => pdr[q] \in Structs /\ \A t \in Threads : t # q /\ pc[t] \in Holding => pdr[t] # pdr[q]
    BY <1>0, HoldingKnows, OwnersAreApart DEF SlotOf, Owning
  <2>3. ASSUME NEW s \in Structs PROVE mounted'[s] <= drive_opencounter' /\ opencount'[s] <= drive_opencounter'
    <3>1. mounted[s] <= drive_opencounter /\ opencount[s] <= drive_opencounter
      BY <1>0 DEF MountsInv
    <3>2. CASE UNCHANGED mounts
      BY <3>1, <3>2 DEF mounts
    <3>3. CASE mounted'[s] \in {0, mounted[s]} /\ opencount'[s] = opencount[s] /\ UNCHANGED drive_opencounter
      BY <1>0, <3>1, <3>3 DEF MediaTypeOK
    <3>4. CASE /\ q \in Threads /\ pc[q] = "Claimed" /\ drive_opencounter' = drive_opencounter + 1
               /\ mounted' = [mounted EXCEPT ![pdr[q]] = drive_opencounter + 1] /\ UNCHANGED opencount
      BY <1>0, <2>2, <3>1, <3>4 DEF MediaTypeOK, Holding
    <3>5. CASE /\ UNCHANGED drive_opencounter
               /\ opencount' = [opencount EXCEPT ![pdr[q]] = drive_opencounter]
               /\ \/ UNCHANGED mounted
                  \/ mounted' = [mounted EXCEPT ![pdr[q]] = 0]
      <4>1. mounted'[s] \in {0, mounted[s]}
        BY <1>0, <3>5 DEF MediaTypeOK
      <4>2. opencount'[s] \in {drive_opencounter, opencount[s]}
        BY <1>0, <3>5 DEF MediaTypeOK
      <4> QED BY <1>0, <3>1, <3>5, <4>1, <4>2 DEF MediaTypeOK
    <3> QED BY <1>2, <3>2, <3>3, <3>4, <3>5, MountsChange
  <2>4. ASSUME NEW s \in Structs, pc[q] # "Opened", pc'[q] # "Opened",
               mounted'[s] \in {0, mounted[s]}, opencount'[s] = opencount[s]
        PROVE  mounted'[s] <= opencount'[s] \/ \E t \in Threads : pc'[t] = "Opened" /\ pdr'[t] = s
    <3>1. CASE mounted[s] <= opencount[s]
      BY <1>0, <2>4, <3>1 DEF MediaTypeOK
    <3>2. ASSUME NEW t \in Threads, pc[t] = "Opened", pdr[t] = s
          PROVE  pc'[t] = "Opened" /\ pdr'[t] = s
      BY <1>0, <2>0, <2>4, <3>2 DEF OthersStay
    <3> QED BY <1>0, <3>1, <3>2 DEF MountsInv
  <2>5. ASSUME NEW s \in Structs
        PROVE  mounted'[s] <= opencount'[s] \/ \E t \in Threads : pc'[t] = "Opened" /\ pdr'[t] = s
    <3>1. CASE UNCHANGED mounts /\ pc[q] # "Opened" /\ pc'[q] # "Opened"
      BY <2>4, <3>1 DEF mounts
    <3>2. CASE \E S \in SUBSET Structs : /\ mounted' = [x \in Structs |-> IF x \in S THEN 0 ELSE mounted[x]]
                                         /\ UNCHANGED <<opencount, drive_opencounter>>
                                         /\ pc[q] # "Opened" /\ pc'[q] # "Opened"
      BY <2>4, <3>2
    <3>3. CASE /\ CheckMount(q) /\ q \in Threads /\ pc[q] = "Claimed" /\ pc'[q] = "Opened"
               /\ mounted[pdr[q]] = 0 /\ drive_opencounter' = drive_opencounter + 1
               /\ mounted' = [mounted EXCEPT ![pdr[q]] = drive_opencounter + 1] /\ UNCHANGED opencount
      <4>1. pdr'[q] = pdr[q] /\ pdr[q] \in Structs
        BY <2>2, <3>3 DEF CheckMount, locals, Holding
      <4>2. CASE s = pdr[q]
        BY <3>3, <4>1, <4>2
      <4>3. CASE s # pdr[q]
        <5>1. mounted'[s] = mounted[s] /\ opencount'[s] = opencount[s]
          BY <1>0, <3>3, <4>3 DEF MediaTypeOK
        <5>2. ASSUME NEW t \in Threads, pc[t] = "Opened", pdr[t] = s
              PROVE  pc'[t] = "Opened" /\ pdr'[t] = s
          BY <1>0, <2>0, <3>3, <5>2 DEF OthersStay
        <5> QED BY <1>0, <5>1, <5>2 DEF MountsInv
      <4> QED BY <4>2, <4>3
    <3>4. CASE /\ Opened(q) /\ q \in Threads /\ pc[q] = "Opened" /\ UNCHANGED drive_opencounter
               /\ opencount' = [opencount EXCEPT ![pdr[q]] = drive_opencounter]
               /\ \/ pc'[q] = "Work" /\ UNCHANGED mounted
                  \/ pc'[q] = "Release" /\ mounted' = [mounted EXCEPT ![pdr[q]] = 0]
      <4>1. pdr[q] \in Structs
        BY <2>2, <3>4 DEF Holding
      <4>2. CASE s = pdr[q]
        BY <1>0, <3>4, <4>1, <4>2 DEF MountsInv, MediaTypeOK
      <4>3. CASE s # pdr[q]
        <5>1. mounted'[s] = mounted[s] /\ opencount'[s] = opencount[s]
          BY <1>0, <3>4, <4>3 DEF MediaTypeOK
        <5>2. ASSUME NEW t \in Threads, pc[t] = "Opened", pdr[t] = s
              PROVE  pc'[t] = "Opened" /\ pdr'[t] = s
          BY <1>0, <2>0, <4>3, <5>2 DEF OthersStay
        <5> QED BY <1>0, <5>1, <5>2 DEF MountsInv
      <4> QED BY <4>2, <4>3
    <3> QED BY <1>2, <3>1, <3>2, <3>3, <3>4, MountsChange
  <2>6. ASSUME NEW t \in Threads, pc'[t] \in {"Opened", "Work", "Search"} PROVE mounted'[pdr'[t]] # 0
    <3>1. CASE t # q
      BY <1>0, <2>1, <2>6, <3>1 DEF MountsInv, Holding
    <3>2. CASE t = q /\ pc'[q] = "Opened"
      <4>1. /\ q \in Threads /\ pc[q] = "Claimed" /\ mounted[pdr[q]] = 0
            /\ mounted' = [mounted EXCEPT ![pdr[q]] = drive_opencounter + 1] /\ pdr'[q] = pdr[q]
        BY <1>0, <2>0, <3>2 DEF Moves, CheckMount, Goto, locals, MediaTypeOK
      <4> QED BY <1>0, <2>2, <3>2, <4>1 DEF MediaTypeOK, Holding
    <3>3. CASE t = q /\ pc'[q] = "Search"
      BY <1>0, <2>0, <3>3 DEF Moves, CheckSearch, MountsInv, mounts, locals
    <3>4. CASE t = q /\ pc'[q] = "Work"
      <4>1. CASE CheckFile(q)
        <5>1. ASSUME TRUE PROVE mounted[pdr[q]] # 0
          <6>1. /\ pc[q] = "Claimed" /\ call[q] \in HasAFile /\ pdrive[fd[q]] # None
            BY <1>0, <3>4, <4>1 DEF CheckFile, StillOpen, Goto, MediaTypeOK
          <6>2. fd[q] \in Files /\ driveno[pdrive[fd[q]]] = letter[q]
            BY <1>0, <3>4, <6>1 DEF MediaInv, CallsInv, MediaTypeOK, Arriving
          <6>3. map[letter[q]] = pdrive[fd[q]] /\ mounted[pdrive[fd[q]]] # 0
            BY <6>1, <6>2 DEF MediaInv, FilesInv
          <6> QED BY <3>4, <6>1, <6>3, HoldingKnows DEF Holding
        <5> QED BY <3>4, <4>1, <5>1 DEF CheckFile, mounts, locals
      <4>2. CASE CheckMount(q)
        BY <1>0, <3>4, <4>2 DEF CheckMount, Goto, mounts, locals, MediaTypeOK
      <4>3. CASE Opened(q)
        BY <1>0, <3>4, <4>3 DEF Opened, Goto, MountsInv, locals, MediaTypeOK
      <4> QED BY <2>0, <3>4, <4>1, <4>2, <4>3 DEF Moves
    <3> QED BY <2>6, <3>1, <3>2, <3>3, <3>4
  <2> QED BY <2>3, <2>5, <2>6 DEF MountsInv
<1>3. CASE UNCHANGED vars
  BY <1>0, <1>3 DEF vars, MountsInv, mounts, locals
<1> QED BY <1>1, <1>2, <1>3, NextIsAStep

-----------------------------------------------------------------------------
(* Letters that are being set up *)

\* No call mounts the volume of such a letter.
LEMMA InstallingStaysUnmounted ==
  ASSUME MediaAccessAssumption, MediaInv, NEW q \in Procs, Step(q), NEW d \in installing
  PROVE  mounted'[map[d]] = 0
<1>0. /\ MediaTypeOK /\ None \notin Structs /\ d \in Drives
      /\ map[d] \in Structs /\ mounted[map[d]] = 0
  BY DEF MediaInv, MediaTypeOK, InstallInv, MediaAccessAssumption
<1>1. CASE UNCHANGED mounts
  BY <1>0, <1>1 DEF mounts
<1>2. ASSUME NEW S \in SUBSET Structs, mounted' = [s \in Structs |-> IF s \in S THEN 0 ELSE mounted[s]]
      PROVE  mounted'[map[d]] = 0
  BY <1>0, <1>2
<1>3. ASSUME q \in Threads, pc[q] = "Claimed", mounted' = [mounted EXCEPT ![pdr[q]] = drive_opencounter + 1]
      PROVE  mounted'[map[d]] = 0
  <2>1. letter[q] \in Drives /\ map[letter[q]] = pdr[q] /\ letter[q] \notin installing
    BY <1>3, HoldingKnows DEF Holding
  <2>2. map[d] # pdr[q]
    BY <1>0, <2>1, LettersDiffer
  <2> QED BY <1>0, <1>3, <2>2 DEF MediaTypeOK
<1>4. ASSUME UNCHANGED mounted \/ mounted' = [mounted EXCEPT ![pdr[q]] = 0] PROVE mounted'[map[d]] = 0
  BY <1>0, <1>4 DEF MediaTypeOK
<1> QED BY <1>1, <1>2, <1>3, <1>4, MountsChange

LEMMA InstallHolds ==
  ASSUME MediaAccessAssumption, OneCard, MediaInv, QuietStep
  PROVE  InstallInv'
<1>0. /\ MediaTypeOK /\ LettersInv /\ InstallInv /\ CardInv /\ Driver \in Procs
      /\ None \notin Structs \cup Media \cup Devices /\ Removable \subseteq Devices
  BY DEF MediaInv, MediaAccessAssumption, Procs
<1>1. ASSUME pc'[Driver] \notin Inserting, installing' = {} PROVE InstallInv'
  BY <1>1 DEF InstallInv, Inserting
<1>2. ASSUME UNCHANGED <<drives, devhandle, removing>>, pc'[Driver] = pc[Driver], pmedia'[Driver] = pmedia[Driver],
             \A d \in installing : mounted'[map[d]] = 0
      PROVE  InstallInv'
  BY <1>0, <1>2 DEF InstallInv, drives, LettersOf, FirstInstalled
<1>3. ASSUME NEW dev \in Devices, NEW m \in Media, ComesTo(dev, m) PROVE InstallInv'
  <2>1. installing = {} /\ UNCHANGED drives
    BY <1>0, <1>3 DEF ComesTo, InstallInv, letters
  <2>2. pc'[Driver] = "Reserve" /\ pmedia'[Driver] = m /\ devhandle'[m] = dev /\ ~removing'[m]
    BY <1>0, <1>3 DEF ComesTo, MediaTypeOK
  <2>3. LettersOf(m) = {}
    BY <1>0, <1>3 DEF ComesTo, LettersOf, LettersInv
  <2>4. ASSUME dev \notin Removable, NEW i \in Media, devhandle'[i] \in Removable PROVE FALSE
    <3>1. devhandle[i] \in Removable
      BY <1>0, <1>3, <2>2, <2>4 DEF ComesTo, MediaTypeOK
    <3>2. \E k \in Media : devhandle[k] = dev
      BY <1>0, <2>4, <3>1 DEF CardInv, CardSlot, FixedAreThere
    <3> QED BY <1>3, <3>2 DEF ComesTo
  <2> QED BY <2>1, <2>2, <2>3, <2>4 DEF InstallInv, drives, LettersOf, Inserting
<1>4. CASE Reserve
  <2>1. pc[Driver] = "Reserve" /\ pc'[Driver] = "Attach" /\ UNCHANGED <<slots, pmedia>>
    BY <1>0, <1>4 DEF Reserve, Goto, MediaTypeOK, locals
  <2>2. installing = {} /\ LettersOf(pmedia[Driver]) = {} /\ pmedia[Driver] \in Media
    BY <1>0, <2>1 DEF InstallInv, Inserting
  <2>3. \A d \in Drives : map[d] # None => map[d] \in Structs \ mem_drive_freelist
    BY <1>0 DEF LettersInv, MediaTypeOK
  <2>4. \A d \in installing' : map'[d] # None /\ mounted'[map'[d]] = 0 /\ pmedia_info'[map'[d]] = None
    BY <1>0, <1>4, <2>2, <2>3, ReserveDoes
  <2>5. \A d \in Drives : map'[d] # None /\ pmedia_info'[map'[d]] # None =>
          map[d] # None /\ pmedia_info'[map'[d]] = pmedia_info[map[d]]
    BY <1>0, <1>4, <2>2, <2>3, ReserveDoes
  <2>6. LettersOf(pmedia[Driver])' = {}
    BY <1>0, <2>1, <2>2, <2>5 DEF LettersOf
  <2> QED BY <1>0, <2>1, <2>4, <2>6 DEF InstallInv, Inserting, slots
<1>5. CASE Refuse
  <2>1. pc[Driver] = "Reserve" /\ pc'[Driver] = "Fail" /\ UNCHANGED <<slots, pmedia, map, installing>>
    BY <1>0, <1>5 DEF Refuse, Goto, MediaTypeOK, locals
  <2>2. installing = {} /\ LettersOf(pmedia[Driver]) = {} /\ pmedia[Driver] \in Media
    BY <1>0, <2>1 DEF InstallInv, Inserting
  <2>3. \A d \in Drives : map[d] # None => map[d] \in Structs \ mem_drive_freelist
    BY <1>0 DEF LettersInv, MediaTypeOK
  <2>4. \A d \in Drives : map[d] # None => pmedia_info'[map[d]] = pmedia_info[map[d]]
    <3>1. PICK S \in SUBSET mem_drive_freelist : Clear(S)
      BY <1>5 DEF Refuse, Taken
    <3> QED BY <1>0, <2>3, <3>1, ClearDoes
  <2>5. LettersOf(pmedia[Driver])' = {}
    BY <2>1, <2>2, <2>4 DEF LettersOf
  <2> QED BY <1>0, <2>1, <2>2, <2>5 DEF InstallInv, Inserting, slots
<1>6. CASE Attach
  <2>1. /\ pc[Driver] = "Attach" /\ pc'[Driver] = "Bind"
        /\ UNCHANGED <<mounts, slots, pmedia, map, installing>>
    BY <1>0, <1>6 DEF Attach, Goto, MediaTypeOK, locals
  <2>2. pmedia[Driver] \in Media
    BY <1>0, <2>1 DEF InstallInv, Inserting
  <2>3. PICK first \in installing :
          /\ FirstInstalled(first)
          /\ \A d \in Drives : map[d] # None =>
               pmedia_info'[map[d]] = IF d = first THEN pmedia[Driver] ELSE pmedia_info[map[d]]
          /\ LettersOf(pmedia[Driver])' = {first}
    BY <1>6, <2>1, <2>2, AttachDoes DEF LettersOf
  <2>4. \A d \in installing : map[d] # None /\ mounted'[map[d]] = 0 /\ pmedia_info'[map[d]] \in {None, pmedia[Driver]}
    BY <1>0, <2>1, <2>3 DEF InstallInv, MediaTypeOK, mounts
  <2>5. FirstInstalled(first)'
    BY <2>1, <2>3 DEF FirstInstalled
  <2> QED BY <1>0, <2>1, <2>3, <2>4, <2>5 DEF InstallInv, Inserting, slots
<1>7. CASE Bind
  <2>1. pc[Driver] = "Bind" /\ UNCHANGED <<mounts, slots, pmedia, map>>
    BY <1>7 DEF Bind, locals
  <2>2. pmedia[Driver] \in Media
    BY <1>0, <2>1 DEF InstallInv, Inserting
  <2>3. ASSUME Goto(Driver, "Fail"), UNCHANGED <<pmedia_info, installing>> PROVE InstallInv'
    <3>1. pc'[Driver] = "Fail"
      BY <1>0, <2>3 DEF Goto, MediaTypeOK
    <3>2. LettersOf(pmedia[Driver]) \subseteq installing /\ LettersOf(pmedia[Driver])' = LettersOf(pmedia[Driver])
      BY <1>0, <2>1, <2>3 DEF InstallInv, LettersOf, FirstInstalled
    <3> QED BY <1>0, <2>1, <2>3, <3>1, <3>2 DEF InstallInv, Inserting, slots, mounts
  <2>4. ASSUME NEW first \in Drives, NEW n \in 1 .. NDrives, FirstInstalled(first), Run(first, n) \subseteq installing,
               pmedia_info' = [s \in Structs |-> IF \E d \in Run(first, n) : map[d] = s THEN pmedia[Driver]
                                                 ELSE pmedia_info[s]],
               installing' = installing \ Run(first, n), Goto(Driver, "Excess")
        PROVE  InstallInv'
    <3>1. pc'[Driver] = "Excess"
      BY <1>0, <2>4 DEF Goto, MediaTypeOK
    <3>2. /\ \A d \in Drives : map[d] # None =>
               pmedia_info'[map[d]] = IF d \in Run(first, n) THEN pmedia[Driver] ELSE pmedia_info[map[d]]
          /\ LettersOf(pmedia[Driver])' = Run(first, n)
      BY <2>1, <2>2, <2>4, LettersBound DEF LettersOf
    <3>3. \A d \in installing' : /\ map'[d] # None /\ mounted'[map'[d]] = 0
                                 /\ pmedia_info'[map'[d]] \in {None, pmedia[Driver]}
      BY <1>0, <2>1, <2>4, <3>2 DEF InstallInv, MediaTypeOK, mounts
    <3> QED BY <1>0, <2>1, <2>4, <3>1, <3>2, <3>3 DEF InstallInv, Inserting, slots
  <2> QED BY <1>7, <2>3, <2>4 DEF Bind
<1>8. CASE ReleaseExcess
  BY <1>0, <1>1, <1>8 DEF ReleaseExcess, Goto, MediaTypeOK, Inserting
<1>9. CASE SettingUp
  BY <1>3, <1>4, <1>5, <1>6, <1>7, <1>8, <1>9, InsertDoes DEF SettingUp, InsertGoesOn
<1>10. ASSUME NEW q \in Procs, Step(q) PROVE InstallInv'
  <2>1. Moves(q) /\ Frames(q) /\ OthersStay(q)
    BY <1>0, <1>10, StepDoes, StepStays
  <2>2. CASE q = Driver
    BY <1>0, <1>1, <2>1, <2>2 DEF Moves, Frames, InstallInv, Inserting
  <2>3. CASE q # Driver /\ Unmap(q)
    <3>1. pc[Driver] \notin Inserting /\ installing = {}
      BY <2>3, UnmapMeansQuiet DEF Unmap
    <3> QED BY <1>0, <1>1, <2>1, <2>3, <3>1 DEF OthersStay, Frames
  <2>4. CASE q # Driver /\ ~Unmap(q)
    <3>1. UNCHANGED <<drives, devhandle, removing>> /\ pc'[Driver] = pc[Driver] /\ pmedia'[Driver] = pmedia[Driver]
      BY <1>0, <2>1, <2>4 DEF OthersStay, Frames
    <3>2. \A d \in installing : mounted'[map[d]] = 0
      BY <1>10, InstallingStaysUnmounted
    <3> QED BY <1>2, <3>1, <3>2
  <2> QED BY <2>2, <2>3, <2>4
<1>11. CASE UNCHANGED vars
  BY <1>0, <1>2, <1>11 DEF vars, letters, slots, locals, mounts, InstallInv
<1> QED BY <1>9, <1>10, <1>11, NextIsAStep

-----------------------------------------------------------------------------
(* Files *)

\* A file that is open after a step was open before, or has just been opened.
LEMMA FilesChange ==
  ASSUME MediaAccessAssumption, MediaInv, NEW q \in Procs, Step(q), NEW f \in Files, pdrive'[f] # None
  PROVE  \/ pdrive'[f] = pdrive[f] /\ owner'[f] = owner[f] /\ file_mount'[f] = file_mount[f]
         \/ /\ Open(q) /\ q \in Threads /\ pc[q] = "Work" /\ owner[f] = None
            /\ owner'[f] = q /\ pdrive'[f] = pdr[q] /\ file_mount'[f] = mounted[pdr[q]]
<1>0. MediaTypeOK /\ Frames(q) /\ Driver \notin Threads
  BY StepDoes DEF MediaInv, MediaAccessAssumption
<1>1. CASE FreeVolumes(q) \/ DiskClose(q)
  BY <1>0, <1>1 DEF FreeVolumes, DiskClose, DiskFree
<1>2. CASE Open(q)
  <2>1. pc[q] = "Work" /\ q \in Threads
    BY <1>0, <1>2 DEF Open, Working, Procs, MediaTypeOK, Leaving, Inserting
  <2>2. ASSUME NEW g \in Files, owner[g] = None, owner' = [owner EXCEPT ![g] = q],
               pdrive' = [pdrive EXCEPT ![g] = pdr[q]], file_mount' = [file_mount EXCEPT ![g] = mounted[pdr[q]]]
        PROVE  \/ pdrive'[f] = pdrive[f] /\ owner'[f] = owner[f] /\ file_mount'[f] = file_mount[f]
               \/ owner[f] = None /\ owner'[f] = q /\ pdrive'[f] = pdr[q] /\ file_mount'[f] = mounted[pdr[q]]
    BY <1>0, <2>2 DEF MediaTypeOK
  <2> QED BY <1>2, <2>1, <2>2 DEF Open, files
<1>3. CASE UNCHANGED files
  BY <1>3 DEF files
<1>4. ASSUME NEW g \in Files, FreeFile(g)
      PROVE  pdrive'[f] = pdrive[f] /\ owner'[f] = owner[f] /\ file_mount'[f] = file_mount[f]
  BY <1>0, <1>4 DEF FreeFile, MediaTypeOK
<1> QED BY <1>0, <1>1, <1>2, <1>3, <1>4 DEF Frames

\* The volume of a file that stays open stays mounted.
LEMMA FileVolumeStays ==
  ASSUME MediaAccessAssumption, OneCard, MediaInv, NEW q \in Procs, Step(q),
         NEW f \in Files, pdrive[f] # None, pdrive'[f] = pdrive[f]
  PROVE  /\ driveno'[pdrive[f]] = driveno[pdrive[f]] /\ map'[driveno[pdrive[f]]] = pdrive[f]
         /\ mounted'[pdrive[f]] = mounted[pdrive[f]]
<1>0. /\ MediaTypeOK /\ Moves(q) /\ Frames(q) /\ Driver \notin Threads /\ None \notin Structs
  BY StepDoes DEF MediaInv, MediaAccessAssumption
<1>1. PICK s \in Structs, d \in Drives : /\ s = pdrive[f] /\ d = driveno[s] /\ mounted[s] # 0 /\ map[d] = s
  BY <1>0 DEF MediaInv, FilesInv, MediaTypeOK
<1>2. driveno'[s] = driveno[s] /\ map'[d] = s
  <2>1. CASE Unmap(q)
    <3>1. d \notin LettersOf(pmedia[q])
      BY <1>1, <2>1, UnmapDoes DEF MediaInv, RemovalInv
    <3> QED BY <1>1, <2>1, <3>1, UnmapDoes
  <2>2. CASE ~Unmap(q)
    BY <1>0, <1>1, <2>2 DEF Frames, drives
  <2> QED BY <2>1, <2>2
<1>3. mounted'[s] = mounted[s]
  <2>1. CASE FreeVolumes(q) \/ DiskClose(q)
    BY <1>0, <1>1, <2>1 DEF FreeVolumes, DiskClose, DiskFree
  <2>2. CASE CheckMount(q)
    BY <1>0, <1>1, <2>2 DEF CheckMount, MediaTypeOK, mounts
  <2>3. CASE Opened(q)
    <3>1. pc[q] = "Opened" /\ q \in Threads
      BY <1>0, <2>3 DEF Opened, Procs, MediaTypeOK, Leaving, Inserting
    <3>2. s # pdr[q]
      BY <1>1, <3>1 DEF MediaInv, FilesInv
    <3> QED BY <1>0, <1>1, <2>3, <3>2 DEF Opened, MediaTypeOK
  <2>4. CASE UNCHANGED mounts
    BY <2>4 DEF mounts
  <2> QED BY <1>0, <2>1, <2>2, <2>3, <2>4 DEF Frames
<1> QED BY <1>1, <1>2, <1>3

\* The same when a device is set up: a mounted volume has a letter that is set up.
LEMMA SetUpKeepsFiles ==
  ASSUME MediaAccessAssumption, MediaInv, SettingUp, NEW f \in Files, pdrive[f] # None
  PROVE  /\ driveno'[pdrive[f]] = driveno[pdrive[f]] /\ map'[driveno[pdrive[f]]] = pdrive[f]
         /\ mounted'[pdrive[f]] = mounted[pdrive[f]]
<1>1. /\ pdrive[f] \in Structs /\ driveno[pdrive[f]] \in Drives /\ map[driveno[pdrive[f]]] = pdrive[f]
      /\ map[driveno[pdrive[f]]] # None /\ mounted[pdrive[f]] # 0
  <2>1. MediaTypeOK /\ FilesInv
    BY DEF MediaInv
  <2>2. driveno[pdrive[f]] \in Drives /\ map[driveno[pdrive[f]]] = pdrive[f] /\ mounted[pdrive[f]] # 0
    BY <2>1 DEF FilesInv
  <2>3. pdrive[f] \in Structs
    BY <2>1 DEF MediaTypeOK
  <2> QED BY <2>2, <2>3
<1>2. pdrive[f] \notin mem_drive_freelist
  BY <1>1 DEF MediaInv, LettersInv
<1>3. driveno[pdrive[f]] \notin installing
  BY <1>1 DEF MediaInv, InstallInv
<1> QED BY <1>1, <1>2, <1>3, SetsUpDoes DEF SetsUp

LEMMA FilesHold ==
  ASSUME MediaAccessAssumption, OneCard, MediaInv, QuietStep
  PROVE  FilesInv'
<1>0. /\ MediaTypeOK /\ FilesInv /\ None \notin Threads /\ \A t \in Threads : t \in Procs
  BY DEF MediaInv, MediaAccessAssumption, Procs
<1>1. CASE SettingUp
  <2>2. /\ \A t \in Threads : pc'[t] = pc[t]
        /\ pdr' = pdr /\ owner' = owner /\ pdrive' = pdrive /\ file_mount' = file_mount
    BY <1>1, SetsUpDoes DEF SetsUp, files
  <2>3. ASSUME NEW f \in Files, pdrive[f] # None
        PROVE  /\ driveno'[pdrive[f]] = driveno[pdrive[f]] /\ map'[driveno[pdrive[f]]] = pdrive[f]
               /\ mounted'[pdrive[f]] = mounted[pdrive[f]]
    BY <1>1, <2>3, SetUpKeepsFiles
  <2> QED BY <1>0, <2>2, <2>3 DEF FilesInv
<1>2. ASSUME NEW q \in Procs, Step(q) PROVE FilesInv'
  <2>0. Moves(q) /\ Frames(q) /\ OthersStay(q)
    BY <1>0, <1>2, StepDoes, StepStays
  <2>1. ASSUME NEW f \in Files, pdrive'[f] # None
        PROVE  /\ owner'[f] # None /\ mounted'[pdrive'[f]] # 0 /\ file_mount'[f] = mounted'[pdrive'[f]]
               /\ driveno'[pdrive'[f]] \in Drives /\ map'[driveno'[pdrive'[f]]] = pdrive'[f]
    <3>1. CASE pdrive'[f] = pdrive[f] /\ owner'[f] = owner[f] /\ file_mount'[f] = file_mount[f]
      <4>1. /\ driveno'[pdrive[f]] = driveno[pdrive[f]] /\ map'[driveno[pdrive[f]]] = pdrive[f]
            /\ mounted'[pdrive[f]] = mounted[pdrive[f]]
        BY <1>2, <2>1, <3>1, FileVolumeStays
      <4> QED BY <1>0, <2>1, <3>1, <4>1 DEF FilesInv
    <3>2. CASE /\ Open(q) /\ q \in Threads /\ pc[q] = "Work"
               /\ owner'[f] = q /\ pdrive'[f] = pdr[q] /\ file_mount'[f] = mounted[pdr[q]]
      <4>1. mounted' = mounted /\ driveno' = driveno /\ map' = map
        BY <3>2 DEF Open, mounts, letters, drives
      <4>2. mounted[pdr[q]] # 0
        BY <3>2 DEF MediaInv, MountsInv
      <4> QED BY <1>0, <3>2, <4>1, <4>2, HoldingKnows DEF Holding
    <3> QED BY <1>2, <2>1, <3>1, <3>2, FilesChange
  <2>2. ASSUME NEW t \in Threads, pc'[t] = "Opened", NEW f \in Files PROVE pdrive'[f] # pdr'[t]
    <3>1. pdr'[t] # None
      BY <1>2, <2>2, LocalsHold DEF LocalsInv, Holding, MediaAccessAssumption
    <3>2. CASE t = q
      <4>1. /\ pc[q] = "Claimed" /\ mounted[pdr[q]] = 0 /\ pdr' = pdr /\ pdrive' = pdrive
        BY <1>0, <2>0, <2>2, <3>2 DEF Moves, CheckMount, Goto, MediaTypeOK, locals, files
      <4> QED BY <1>0, <3>1, <3>2, <4>1 DEF FilesInv
    <3>3. CASE t # q
      <4>1. pc[t] = "Opened" /\ pdr'[t] = pdr[t] /\ pdrive[f] # pdr[t]
        BY <1>0, <2>0, <2>2, <3>3 DEF OthersStay, FilesInv
      <4>2. ASSUME q \in Threads, pc[q] = "Work" PROVE pdr[q] # pdr[t]
        BY <1>0, <3>3, <4>1, <4>2, OwnersAreApart DEF SlotOf, Owning, Holding
      <4> QED BY <1>2, <3>1, <4>1, <4>2, FilesChange
    <3> QED BY <3>2, <3>3
  <2> QED BY <2>1, <2>2 DEF FilesInv
<1>3. CASE UNCHANGED vars
  BY <1>0, <1>3 DEF vars, FilesInv, files, mounts, letters, drives, locals
<1> QED BY <1>1, <1>2, <1>3, NextIsAStep

LEMMA CallsHold ==
  ASSUME MediaAccessAssumption, OneCard, MediaInv, QuietStep
  PROVE  CallsInv'
<1>0. /\ MediaTypeOK /\ CallsInv /\ FilesInv /\ Driver \notin Threads /\ None \notin Procs
      /\ \A t \in Threads : t \in Procs
  BY DEF MediaInv, MediaAccessAssumption, Procs
<1>1. CASE SettingUp
  <2>2. /\ \A t \in Threads : pc'[t] = pc[t]
        /\ call' = call /\ letter' = letter /\ fd' = fd /\ owner' = owner /\ pdrive' = pdrive
        /\ search_letter' = search_letter
    BY <1>1, SetsUpDoes DEF SetsUp, files, search
  <2>3. ASSUME NEW f \in Files, pdrive[f] # None PROVE driveno'[pdrive[f]] = driveno[pdrive[f]]
    BY <1>1, <2>3, SetUpKeepsFiles
  <2>4. ASSUME NEW t \in Threads, fd[t] # None, pdrive[fd[t]] # None PROVE driveno'[pdrive[fd[t]]] = driveno[pdrive[fd[t]]]
    <3>1. fd[t] \in Files
      BY <1>0, <2>4 DEF MediaTypeOK
    <3> QED BY <2>3, <2>4, <3>1
  <2> QED BY <1>0, <2>2, <2>4 DEF CallsInv
<1>2. ASSUME NEW q \in Procs, Step(q) PROVE CallsInv'
  <2>0. Moves(q) /\ Frames(q) /\ OthersStay(q) /\ MediaTypeOK'
    BY <1>0, <1>2, StepDoes, StepStays, TypeHolds
  <2>1. ASSUME NEW f \in Files, NEW t \in Threads, owner[f] = t,
               t # q \/ (pc'[q] # "Idle" /\ ~Close(q))
        PROVE  owner'[f] = t /\ (pdrive'[f] # None => pdrive'[f] = pdrive[f])
    <3>1. owner'[f] = t
      <4>1. CASE FreeVolumes(q) \/ DiskClose(q)
        BY <2>1, <4>1 DEF FreeVolumes, DiskClose, DiskFree
      <4>2. CASE Open(q)
        BY <1>0, <2>1, <4>2 DEF Open, files, MediaTypeOK
      <4>3. CASE UNCHANGED files
        BY <2>1, <4>3 DEF files
      <4>4. ASSUME t # q, NEW g \in Files, owner[g] = q, FreeFile(g) PROVE owner'[f] = t
        BY <1>0, <2>1, <4>4 DEF FreeFile, MediaTypeOK
      <4> QED BY <2>0, <2>1, <4>1, <4>2, <4>3, <4>4 DEF Frames
    <3> QED BY <1>0, <1>2, <2>1, <3>1, FilesChange
  <2>2. ASSUME NEW t \in Threads, pc'[t] # "Idle", call'[t] \in HasAFile, fd'[t] # None
        PROVE  /\ owner'[fd'[t]] = t
               /\ pdrive'[fd'[t]] # None => driveno'[pdrive'[fd'[t]]] = letter'[t]
    <3>1. ASSUME fd'[t] = fd[t], pc[t] # "Idle", call'[t] = call[t], letter'[t] = letter[t], t # q \/ ~Close(q)
          PROVE  /\ owner'[fd'[t]] = t
                 /\ pdrive'[fd'[t]] # None => driveno'[pdrive'[fd'[t]]] = letter'[t]
      <4>1. PICK f \in Files : f = fd[t] /\ f = fd'[t]
        BY <1>0, <2>2, <3>1 DEF MediaTypeOK
      <4>2. owner[f] = t /\ (pdrive[f] # None => driveno[pdrive[f]] = letter[t])
        BY <1>0, <2>2, <3>1, <4>1 DEF CallsInv
      <4>3. owner'[f] = t /\ (pdrive'[f] # None => pdrive'[f] = pdrive[f])
        BY <2>1, <2>2, <3>1, <4>2
      <4>4. pdrive'[f] # None => driveno'[pdrive'[f]] = driveno[pdrive[f]]
        BY <1>2, <4>3, FileVolumeStays
      <4> QED BY <3>1, <4>1, <4>2, <4>3, <4>4
    <3>2. CASE t # q
      BY <1>0, <2>0, <2>2, <3>1, <3>2 DEF OthersStay
    <3>3. CASE t = q /\ pc'[q] = "Look"
      <4>1. Start(q)
        BY <2>0, <3>3 DEF Moves
      <4>2. ASSUME NEW c \in NamesADrive, NEW d, BeginByName(q, c, d) PROVE FALSE
        BY <1>0, <2>2, <3>3, <4>2 DEF BeginByName, Enter, HasAFile, NamesADrive, MediaTypeOK
      <4>3. ASSUME NEW c \in GoesOnSearching, BeginBySearch(q, c) PROVE FALSE
        BY <1>0, <2>2, <3>3, <4>3 DEF BeginBySearch, Enter, HasAFile, GoesOnSearching, MediaTypeOK
      <4>4. ASSUME NEW c \in HasAFile, NEW f \in Files, BeginByFile(q, c, f)
            PROVE  /\ owner'[fd'[q]] = q
                   /\ pdrive'[fd'[q]] # None => driveno'[pdrive'[fd'[q]]] = letter'[q]
        BY <1>0, <4>4 DEF BeginByFile, Enter, files, letters, drives, MediaTypeOK
      <4>5. ASSUME NEW f \in Files, CloseAborted(q, f) PROVE FALSE
        BY <2>2, <3>3, <4>5 DEF CloseAborted
      <4> QED BY <3>3, <4>1, <4>2, <4>3, <4>4, <4>5 DEF Start
    <3>4. CASE t = q /\ pc'[q] # "Look" /\ Close(q)
      BY <1>0, <2>2, <3>4 DEF Close, MediaTypeOK
    <3>5. CASE t = q /\ pc'[q] # "Look" /\ ~Close(q)
      BY <1>0, <2>0, <2>2, <3>1, <3>5 DEF Moves
    <3> QED BY <3>2, <3>3, <3>4, <3>5
  <2>3. ASSUME NEW t \in Threads, pc'[t] \in Arriving, call'[t] \in HasAFile
        PROVE  fd'[t] # None
    <3>1. CASE t # q
      BY <1>0, <2>0, <2>3, <3>1 DEF OthersStay, CallsInv
    <3>2. CASE t = q /\ pc'[q] = "Look"
      <4>1. Start(q)
        BY <2>0, <3>2 DEF Moves
      <4>2. ASSUME NEW c \in NamesADrive, NEW d, BeginByName(q, c, d) PROVE FALSE
        BY <1>0, <2>3, <3>2, <4>2 DEF BeginByName, Enter, HasAFile, NamesADrive, MediaTypeOK
      <4>3. ASSUME NEW c \in GoesOnSearching, BeginBySearch(q, c) PROVE FALSE
        BY <1>0, <2>3, <3>2, <4>3 DEF BeginBySearch, Enter, HasAFile, GoesOnSearching, MediaTypeOK
      <4>4. ASSUME NEW c \in HasAFile, NEW f \in Files, BeginByFile(q, c, f) PROVE fd'[q] # None
        BY <1>0, <4>4 DEF BeginByFile, Enter, MediaTypeOK, MediaAccessAssumption
      <4>5. ASSUME NEW f \in Files, CloseAborted(q, f) PROVE FALSE
        BY <3>2, <4>5 DEF CloseAborted
      <4> QED BY <3>2, <4>1, <4>2, <4>3, <4>4, <4>5 DEF Start
    <3>3. CASE t = q /\ pc'[q] # "Look"
      <4>1. pc[q] \in Arriving /\ call'[q] = call[q] /\ (Close(q) \/ fd'[q] = fd[q])
        BY <1>0, <2>0, <2>3, <3>3 DEF Moves, Arriving, Waiting
      <4>2. ~Close(q)
        BY <1>0, <2>3, <3>3 DEF Close, Working, Goto, MediaTypeOK, Arriving, Waiting
      <4> QED BY <1>0, <2>3, <3>3, <4>1, <4>2 DEF CallsInv
    <3> QED BY <3>1, <3>2, <3>3
  <2>4. ASSUME NEW t \in Threads, pc'[t] \in Arriving, call'[t] \in GoesOnSearching
        PROVE  search_letter'[t] = letter'[t]
    <3>1. CASE t # q
      BY <1>0, <2>0, <2>4, <3>1 DEF OthersStay, CallsInv
    <3>2. CASE t = q /\ pc'[q] = "Look"
      <4>1. Start(q)
        BY <2>0, <3>2 DEF Moves
      <4>2. ASSUME NEW c \in NamesADrive, NEW d, BeginByName(q, c, d) PROVE FALSE
        BY <1>0, <2>4, <3>2, <4>2 DEF BeginByName, Enter, GoesOnSearching, NamesADrive, MediaTypeOK
      <4>3. ASSUME NEW c \in GoesOnSearching, BeginBySearch(q, c) PROVE search_letter'[q] = letter'[q]
        BY <1>0, <4>3 DEF BeginBySearch, Enter, search, MediaTypeOK
      <4>4. ASSUME NEW c \in HasAFile, NEW f \in Files, BeginByFile(q, c, f) PROVE FALSE
        BY <1>0, <2>4, <3>2, <4>4 DEF BeginByFile, Enter, HasAFile, GoesOnSearching, MediaTypeOK
      <4>5. ASSUME NEW f \in Files, CloseAborted(q, f) PROVE FALSE
        BY <3>2, <4>5 DEF CloseAborted
      <4> QED BY <3>2, <4>1, <4>2, <4>3, <4>4, <4>5 DEF Start
    <3>3. CASE t = q /\ pc'[q] # "Look"
      <4>1. pc[q] \in Arriving /\ pc[q] # "Idle" /\ call'[q] = call[q] /\ letter'[q] = letter[q]
        BY <1>0, <2>0, <2>4, <3>3 DEF Moves, Arriving, Waiting
      <4> QED BY <1>0, <2>0, <2>4, <3>3, <4>1 DEF CallsInv, Frames
    <3> QED BY <3>1, <3>2, <3>3
  <2>5. ASSUME NEW t \in Threads, pc'[t] = "Opened" PROVE call'[t] \notin HasAFile
    <3>1. CASE t # q
      BY <1>0, <2>0, <2>5, <3>1 DEF OthersStay, CallsInv
    <3>2. CASE t = q
      BY <1>0, <2>0, <2>5, <3>2 DEF Moves, CheckMount, locals
    <3> QED BY <3>1, <3>2
  <2> QED BY <2>2, <2>3, <2>4, <2>5 DEF CallsInv
<1>3. CASE UNCHANGED vars
  BY <1>0, <1>3 DEF vars, CallsInv, files, letters, drives, locals, search
<1> QED BY <1>1, <1>2, <1>3, NextIsAStep

-----------------------------------------------------------------------------
(* Searches *)

LEMMA SearchHolds ==
  ASSUME MediaAccessAssumption, OneCard, MediaInv, QuietStep
  PROVE  SearchInv'
<1>0. /\ MediaTypeOK /\ SearchInv /\ MountsInv /\ \A t \in Threads : t \in Procs
      /\ None \notin Structs \cup Drives
  BY DEF MediaInv, MediaAccessAssumption, Procs
<1> DEFINE Remembers(l, c, m) ==
      /\ c <= drive_opencounter'
      /\ map'[l] # None => LET n == mounted'[map'[l]] IN n # 0 => n = m \/ n > c
<1>1. ASSUME NEW t \in Threads, search_letter[t] # None,
             drive_opencounter' >= drive_opencounter /\ drive_opencounter' \in Nat,
             LET l == search_letter[t] IN
               map'[l] # None /\ mounted'[map'[l]] # 0 =>
                 \/ map'[l] = map[l] /\ mounted'[map[l]] = mounted[map[l]]
                 \/ mounted'[map'[l]] = drive_opencounter + 1
      PROVE  Remembers(search_letter[t], search_count[t], search_mount[t])
  <2>1. PICK l \in Drives : l = search_letter[t]
    BY <1>0, <1>1 DEF MediaTypeOK
  <2>2. search_count[t] <= drive_opencounter /\ search_count[t] \in Nat
    BY <1>0, <1>1 DEF SearchInv, MediaTypeOK
  <2>3. ASSUME map'[l] # None, mounted'[map'[l]] # 0
        PROVE  mounted'[map'[l]] = search_mount[t] \/ mounted'[map'[l]] > search_count[t]
    <3>1. CASE mounted'[map'[l]] = drive_opencounter + 1
      BY <1>0, <2>2, <3>1 DEF MediaTypeOK
    <3>2. CASE map'[l] = map[l] /\ mounted'[map[l]] = mounted[map[l]]
      BY <1>0, <1>1, <2>1, <2>3, <3>2 DEF SearchInv
    <3> QED BY <1>1, <2>1, <2>3, <3>1, <3>2
  <2>4. search_count[t] <= drive_opencounter'
    BY <1>0, <1>1, <2>2 DEF MediaTypeOK
  <2> QED BY <2>1, <2>3, <2>4
<1>2. CASE SettingUp
  <2>1. SetsUp
    BY <1>2, SetsUpDoes
  <2>2. /\ drive_opencounter' = drive_opencounter /\ search_letter' = search_letter
        /\ search_count' = search_count /\ search_mount' = search_mount
    BY <2>1 DEF SetsUp, search
  <2>3. ASSUME NEW l \in Drives, map'[l] # None, mounted'[map'[l]] # 0
        PROVE  map'[l] = map[l] /\ mounted'[map[l]] = mounted[map[l]]
    <3>1. map[l] # None
      BY <2>1, <2>3 DEF SetsUp
    <3>2. map[l] \in Structs \ mem_drive_freelist
      BY <1>0, <3>1 DEF MediaInv, LettersInv, MediaTypeOK
    <3> QED BY <2>1, <2>3, <3>1, <3>2 DEF SetsUp
  <2>4. ASSUME NEW t \in Threads, search_letter[t] # None
        PROVE  Remembers(search_letter[t], search_count[t], search_mount[t])
    <3>1. search_letter[t] \in Drives /\ drive_opencounter \in Nat /\ drive_opencounter >= drive_opencounter
      BY <1>0, <2>4 DEF MediaTypeOK
    <3> QED BY <1>1, <2>2, <2>3, <2>4, <3>1
  <2> QED BY <2>2, <2>4 DEF SearchInv
<1>3. ASSUME NEW q \in Procs, Step(q) PROVE SearchInv'
  <2>0. Moves(q) /\ Frames(q) /\ OthersStay(q) /\ drive_opencounter \in Nat
    BY <1>0, <1>3, StepDoes, StepStays DEF MediaTypeOK
  <2>1. drive_opencounter' >= drive_opencounter /\ drive_opencounter' \in Nat
    BY <1>3, <2>0, MountsChange DEF mounts
  <2>2. ASSUME NEW l \in Drives, map'[l] # None, mounted'[map'[l]] # 0
        PROVE  \/ map'[l] = map[l] /\ mounted'[map[l]] = mounted[map[l]]
               \/ mounted'[map'[l]] = drive_opencounter + 1
    <3>1. map'[l] = map[l] /\ map[l] \in Structs
      BY <1>0, <2>0, <2>2, UnmapDoes DEF Frames, drives, MediaTypeOK
    <3>2. CASE UNCHANGED mounts
      BY <3>1, <3>2 DEF mounts
    <3>3. ASSUME NEW S \in SUBSET Structs, mounted' = [s \in Structs |-> IF s \in S THEN 0 ELSE mounted[s]]
          PROVE  mounted'[map[l]] = mounted[map[l]]
      BY <2>2, <3>1, <3>3
    <3>4. ASSUME mounted' = [mounted EXCEPT ![pdr[q]] = drive_opencounter + 1]
          PROVE  mounted'[map[l]] \in {mounted[map[l]], drive_opencounter + 1}
      BY <1>0, <3>1, <3>4 DEF MediaTypeOK
    <3>5. ASSUME UNCHANGED mounted \/ mounted' = [mounted EXCEPT ![pdr[q]] = 0]
          PROVE  mounted'[map[l]] = mounted[map[l]]
      BY <1>0, <2>2, <3>1, <3>5 DEF MediaTypeOK
    <3> QED BY <1>3, <3>1, <3>2, <3>3, <3>4, <3>5, MountsChange
  <2>3. ASSUME NEW t \in Threads, search_letter[t] # None
        PROVE  Remembers(search_letter[t], search_count[t], search_mount[t])
    <3>1. search_letter[t] \in Drives
      BY <1>0, <2>3 DEF MediaTypeOK
    <3> QED BY <1>1, <2>1, <2>2, <2>3, <3>1
  <2>4. ASSUME NEW t \in Threads, search_letter'[t] # None
        PROVE  Remembers(search_letter'[t], search_count'[t], search_mount'[t])
    <3>1. CASE search_letter'[t] = search_letter[t] /\ search_count'[t] = search_count[t] /\ search_mount'[t] = search_mount[t]
      BY <2>3, <2>4, <3>1
    <3>2. CASE /\ t = q /\ First(q) /\ search_letter'[q] = letter[q] /\ search_count'[q] = opencount[pdr[q]]
               /\ search_mount'[q] = mounted[pdr[q]]
      <4>1. pc[q] = "Work" /\ map' = map /\ mounted' = mounted /\ drive_opencounter' = drive_opencounter
        BY <3>2 DEF First, Working, letters, drives, mounts
      <4>2. map[letter[q]] = pdr[q] /\ pdr[q] \in Structs
        BY <3>2, <4>1, HoldingKnows DEF Holding
      <4>3. opencount[pdr[q]] <= drive_opencounter
        BY <1>0, <4>2 DEF MountsInv
      <4> QED BY <3>2, <4>1, <4>2, <4>3
    <3>3. CASE t # q
      BY <2>0, <3>1, <3>3 DEF OthersStay
    <3>4. CASE t = q /\ ~First(q)
      BY <2>0, <2>4, <3>1, <3>4 DEF Frames
    <3>5. CASE t = q /\ First(q)
      <4>1. CASE UNCHANGED search
        BY <3>1, <4>1 DEF search
      <4>2. CASE ~UNCHANGED search
        BY <1>0, <3>2, <3>5, <4>2 DEF First, MediaTypeOK
      <4> QED BY <4>1, <4>2
    <3> QED BY <3>3, <3>4, <3>5
  <2> QED BY <2>4 DEF SearchInv
<1>4. CASE UNCHANGED vars
  BY <1>0, <1>4 DEF vars, SearchInv, letters, drives, mounts, search
<1> QED BY <1>2, <1>3, <1>4, NextIsAStep

-----------------------------------------------------------------------------
(* Files and searches stay on their volume *)

LEMMA HandlesHold ==
  ASSUME MediaAccessAssumption, OneCard, MediaInv, QuietStep
  PROVE  HandlesStayOnTheirVolume'
<1>0. /\ MediaTypeOK /\ HandlesStayOnTheirVolume /\ ~early /\ CallsInv /\ FilesInv /\ None \notin Structs
      /\ \A t \in Threads : t \in Procs
  BY DEF MediaInv, MediaAccessAssumption, Procs
<1>1. CASE SettingUp
  <2>2. /\ \A t \in Threads : pc'[t] = pc[t]
        /\ call' = call /\ fd' = fd /\ pdr' = pdr /\ search_mount' = search_mount
        /\ owner' = owner /\ pdrive' = pdrive /\ file_mount' = file_mount
    BY <1>1, SetsUpDoes DEF SetsUp, files, search
  <2>3. \A t \in Threads : pc[t] \in Holding => mounted'[pdr[t]] = mounted[pdr[t]]
    BY <1>1, SetUpUndisturbed DEF Undisturbed
  <2> QED BY <1>0, <2>2, <2>3 DEF HandlesStayOnTheirVolume, Holding
<1>2. ASSUME NEW q \in Procs, Step(q) PROVE HandlesStayOnTheirVolume'
  <2>0. Moves(q) /\ Frames(q) /\ OthersStay(q)
    BY <1>0, <1>2, StepDoes, StepStays
  <2>1. ASSUME NEW t \in Threads, pc'[t] = "Work", call'[t] \in HasAFile
        PROVE  owner'[fd'[t]] = t /\ pdrive'[fd'[t]] = pdr'[t] /\ file_mount'[fd'[t]] = mounted'[pdr'[t]]
    <3>1. CASE t = q
      <4>1. CheckFile(q)
        BY <1>0, <2>0, <2>1, <3>1 DEF Moves, CheckMount, Opened, CallsInv, locals
      <4>2. /\ pc[q] = "Claimed" /\ call[q] \in HasAFile /\ pdrive[fd[q]] # None
            /\ UNCHANGED <<mounts, files, locals>>
        BY <1>0, <2>1, <3>1, <4>1 DEF CheckFile, StillOpen, Goto, MediaTypeOK
      <4>3. fd[q] \in Files /\ owner[fd[q]] = q /\ driveno[pdrive[fd[q]]] = letter[q]
        BY <1>0, <3>1, <4>2 DEF CallsInv, Arriving, MediaTypeOK
      <4>4. map[letter[q]] = pdrive[fd[q]] /\ file_mount[fd[q]] = mounted[pdrive[fd[q]]]
        BY <1>0, <4>2, <4>3 DEF FilesInv
      <4>5. map[letter[q]] = pdr[q]
        BY <3>1, <4>2, HoldingKnows DEF Holding
      <4> QED BY <3>1, <4>2, <4>3, <4>4, <4>5 DEF mounts, files, locals
    <3>2. CASE t # q
      <4>1. pc[t] = "Work" /\ call[t] \in HasAFile /\ pdr'[t] = pdr[t] /\ fd'[t] = fd[t]
        BY <1>0, <2>0, <2>1, <3>2 DEF OthersStay
      <4>2. PICK f \in Files : f = fd[t]
        <5>1. pc[t] \in Arriving
          BY <4>1 DEF Arriving
        <5>2. fd[t] # None
          BY <1>0, <4>1, <5>1 DEF CallsInv
        <5> QED BY <1>0, <5>2 DEF MediaTypeOK
      <4>3. owner[f] = t /\ pdrive[f] = pdr[t] /\ file_mount[f] = mounted[pdr[t]] /\ pdr[t] \in Structs
        BY <1>0, <4>1, <4>2, HoldingKnows DEF HandlesStayOnTheirVolume, Holding
      <4>4. mounted'[pdr[t]] = mounted[pdr[t]]
        BY <1>2, <3>2, <4>1, StepUndisturbed DEF Undisturbed, Holding
      <4>5. owner'[f] = owner[f] /\ pdrive'[f] = pdrive[f] /\ file_mount'[f] = file_mount[f]
        <5>1. CASE FreeVolumes(q)
          <6>1. pdr[t] \notin {map[d] : d \in LettersOf(pmedia[q])}
            BY <3>2, <4>1, <5>1, FreedAreApart DEF FreeVolumes, Leaving, Holding
          <6> QED BY <4>3, <5>1, <6>1 DEF FreeVolumes, DiskFree
        <5>2. CASE DiskClose(q)
          <6>1. q \in Threads /\ pc[q] = "Work"
            BY <1>0, <5>2 DEF DiskClose, Working, Procs, MediaTypeOK, Leaving, Inserting
          <6>2. pdr[q] # pdr[t]
            BY <1>0, <3>2, <4>1, <6>1, OwnersAreApart DEF SlotOf, Owning, Holding
          <6> QED BY <4>3, <5>2, <6>2 DEF DiskClose, DiskFree
        <5>3. CASE Open(q)
          BY <1>0, <4>3, <5>3 DEF Open, files, MediaTypeOK, MediaAccessAssumption, Procs
        <5>4. CASE UNCHANGED files
          BY <5>4 DEF files
        <5>5. ASSUME NEW g \in Files, owner[g] = q, FreeFile(g)
              PROVE  owner'[f] = owner[f] /\ pdrive'[f] = pdrive[f] /\ file_mount'[f] = file_mount[f]
          BY <1>0, <3>2, <4>3, <5>5 DEF FreeFile, MediaTypeOK
        <5> QED BY <2>0, <5>1, <5>2, <5>3, <5>4, <5>5 DEF Frames
      <4> QED BY <4>1, <4>2, <4>3, <4>4, <4>5
    <3> QED BY <3>1, <3>2
  <2>2. ASSUME NEW t \in Threads, pc'[t] = "Search" PROVE search_mount'[t] = mounted'[pdr'[t]]
    <3>1. CASE t = q
      <4>1. /\ CheckSearch(q) /\ pc[q] = "Work" /\ call[q] \in GoesOnSearching /\ search_count[q] = opencount[pdr[q]]
            /\ pdr' = pdr /\ mounted' = mounted /\ search_mount' = search_mount
        BY <1>0, <2>0, <2>2, <3>1 DEF Moves, CheckSearch, SameMount, Goto, MediaTypeOK, mounts, search, locals
      <4>2. pdr[q] \in Structs /\ map[letter[q]] = pdr[q] /\ search_letter[q] = letter[q] /\ letter[q] # None
        BY <1>0, <3>1, <4>1, HoldingKnows DEF CallsInv, Arriving, Holding, MediaAccessAssumption
      <4>3. mounted[pdr[q]] # 0 /\ mounted[pdr[q]] <= opencount[pdr[q]]
        <5>1. ASSUME NEW x \in Threads, pc[x] = "Opened", pdr[x] = pdr[q] PROVE FALSE
          BY <1>0, <3>1, <4>1, <5>1, OwnersAreApart DEF SlotOf, Owning, Holding
        <5> QED BY <3>1, <4>1, <4>2, <5>1 DEF MediaInv, MountsInv
      <4>4. mounted[pdr[q]] = search_mount[q] \/ mounted[pdr[q]] > search_count[q]
        BY <1>0, <3>1, <4>2, <4>3 DEF MediaInv, SearchInv
      <4> QED BY <1>0, <3>1, <4>1, <4>2, <4>3, <4>4 DEF MediaTypeOK
    <3>2. CASE t # q
      <4>1. pc[t] = "Search" /\ pdr'[t] = pdr[t] /\ search_mount'[t] = search_mount[t]
        BY <1>0, <2>0, <2>2, <3>2 DEF OthersStay
      <4> QED BY <1>0, <1>2, <3>2, <4>1, StepUndisturbed DEF Undisturbed, Holding, HandlesStayOnTheirVolume
    <3> QED BY <3>1, <3>2
  <2> QED BY <2>1, <2>2 DEF HandlesStayOnTheirVolume
<1>3. CASE UNCHANGED vars
  BY <1>0, <1>3 DEF vars, HandlesStayOnTheirVolume, locals, files, mounts, search
<1> QED BY <1>1, <1>2, <1>3, NextIsAStep

-----------------------------------------------------------------------------
(* The invariant and what it says *)

LEMMA InitMedia ==
  ASSUME MediaAccessAssumption, Init
  PROVE  MediaInv
<1>0. /\ None \notin Devices \cup Procs \cup Structs \cup Media \cup Drives \cup Files /\ NDrives \in Nat
      /\ Driver \notin Threads /\ Driver \in Procs /\ \A t \in Threads : t \in Procs
      /\ Removable \subseteq Devices
  BY DEF MediaAccessAssumption, Procs
<1>1. MediaTypeOK
  BY <1>0 DEF Init, MediaTypeOK, Labels
<1>2. LocalsInv
  BY <1>0 DEF Init, LocalsInv, Holding, Leaving
<1>3. LettersInv
  <2>1. \A m \in Media : LettersOf(m) = {}
    BY DEF Init, LettersOf
  <2>2. {} = Run(0, 0) /\ 0 \in 0 .. NDrives
    BY <1>0 DEF Run
  <2> QED BY <2>1, <2>2 DEF LettersInv, Init
<1>4. CardInv /\ InstallInv /\ ActiveInv /\ ~early
  BY <1>0 DEF Init, CardInv, InstallInv, ActiveInv, Inserting
<1>5. FoundInv
  BY <1>0 DEF Init, FoundInv
<1>6. SemaphoreInv
  BY <1>0 DEF Init, SemaphoreInv, Owning, Holding, Leaving
<1>7. RemovalInv
  BY <1>0 DEF Init, RemovalInv
<1>8. MountsInv
  BY <1>0 DEF Init, MountsInv
<1>9. FilesInv
  BY <1>0 DEF Init, FilesInv
<1>10. CallsInv
  BY <1>0 DEF Init, CallsInv, Arriving, Waiting
<1>11. SearchInv
  BY DEF Init, SearchInv
<1>12. HandlesStayOnTheirVolume
  BY <1>0 DEF Init, HandlesStayOnTheirVolume
<1> QED BY <1>1, <1>2, <1>3, <1>4, <1>5, <1>6, <1>7, <1>8, <1>9, <1>10, <1>11, <1>12 DEF MediaInv

LEMMA MediaInvHolds ==
  ASSUME MediaAccessAssumption, OneCard, MediaInv, QuietStep
  PROVE  MediaInv'
BY TypeHolds, LocalsHold, LettersHold, InstallHolds, ActiveHolds, CardHolds, FoundHolds, SemaphoreHolds,
   RemovalHolds, MountsHold, FilesHold, CallsHold, SearchHolds, HandlesHold DEF MediaInv, QuietStep

\* Once a call has gone on with a letter that was not set up, nothing is said any more.
LEMMA EarlyStays ==
  ASSUME [Next]_vars, early
  PROVE  early'
<1> USE DEF letters
<1>1. ASSUME NEW dev, Insert(dev) PROVE early'
  BY <1>1 DEF Insert
<1>2. CASE InsertGoesOn
  BY <1>2 DEF InsertGoesOn, Reserve, Refuse, Attach, Bind, ReleaseExcess
<1>3. ASSUME NEW m, Eject(m) PROVE early'
  BY <1>3 DEF Eject
<1>4. ASSUME NEW p, FreeVolumes(p) \/ Unmap(p) PROVE early'
  BY <1>4 DEF FreeVolumes, Unmap
<1>5. CASE EjectGoesOn
  BY <1>4, <1>5 DEF EjectGoesOn, EjectClaim, EjectEnd
<1>6. ASSUME NEW t \in Threads, Start(t) PROVE early'
  BY <1>6 DEF Start, BeginByName, BeginBySearch, BeginByFile, Enter, CloseAborted
<1>7. ASSUME NEW t \in Threads, Found(t) \/ Recheck(t) PROVE early'
  BY <1>7 DEF Found, Recheck
<1>8. ASSUME NEW t \in Threads, Look(t) \/ Claim(t) \/ ClaimExclusive(t) \/ CheckFile(t) \/ CheckMount(t) \/ Opened(t)
      PROVE  early'
  BY <1>8 DEF Look, Claim, ClaimExclusive, CheckFile, CheckMount, Opened
<1>9. ASSUME NEW t \in Threads, \/ Open(t) \/ Read(t) \/ Close(t) \/ First(t) \/ CheckSearch(t) \/ Search(t)
                               \/ DiskClose(t) \/ Release(t) \/ Unlock(t)
      PROVE  early'
  BY <1>9 DEF Open, Read, Close, First, CheckSearch, Search, DiskClose, Release, Unlock
<1>10. CASE UNCHANGED vars
  BY <1>10 DEF vars
<1> QED BY <1>1, <1>2, <1>3, <1>4, <1>5, <1>6, <1>7, <1>8, <1>9, <1>10 DEF Next, Continue

THEOREM MediaInvariant ==
  ASSUME MediaAccessAssumption, OneCard
  PROVE  Spec => [](early \/ MediaInv)
<1>1. Init => MediaInv
  BY InitMedia
<1>2. (early \/ MediaInv) /\ [Next]_vars => (early \/ MediaInv)'
  BY MediaInvHolds, EarlyStays DEF QuietStep
<1> QED BY <1>1, <1>2, PTL DEF Spec

\* Every variable keeps its type, as long as no call goes on with a letter that is not set up.
THEOREM MediaTypeCorrect ==
  ASSUME MediaAccessAssumption, OneCard
  PROVE  Spec => [](early \/ MediaTypeOK)
<1>1. MediaInv => MediaTypeOK
  BY DEF MediaInv
<1> QED BY <1>1, MediaInvariant, PTL

\* Whoever has claimed a drive has its volume alone, and the semaphore it has is the one of the medium
\* that is in the drive, wherever ejects and the steps of insertions fall between the two looks at the
\* letter - unless a call has gone on with a letter that an insertion was setting up
\* (rtfs_claim_media_and_buffers, RTFS_DEVI_device_mount, RTFS_DEVI_device_release_volumes).
THEOREM VolumeStays ==
  ASSUME MediaAccessAssumption, OneCard
  PROVE  Spec => []VolumeStaysWhileUsed
<1>1. MediaInv => VolumeStaysWhileUsed
  <2> SUFFICES ASSUME MediaInv PROVE VolumeStaysWhileUsed
    OBVIOUS
  <2>1. ASSUME NEW t \in Threads, pc[t] \in Holding
        PROVE  /\ map[letter[t]] = pdr[t] /\ letter[t] \notin installing /\ access_semaphore[pmedia_info[pdr[t]]] = t
               /\ Exclusive /\ pc[t] # "Exclusive" => exclusive = t
               /\ pc[t] \in {"Work", "Search"} => mounted[pdr[t]] # 0
    <3>1. /\ map[letter[t]] = pdr[t] /\ letter[t] \notin installing
          /\ SlotOf(t) = pmedia_info[pdr[t]] /\ t \in Procs
      BY <2>1, HoldingKnows
    <3>2. access_semaphore[SlotOf(t)] = t
      BY <2>1, <3>1 DEF MediaInv, SemaphoreInv, Owning
    <3>3. Exclusive /\ pc[t] # "Exclusive" => exclusive = t
      BY <2>1 DEF MediaInv, SemaphoreInv
    <3>4. pc[t] \in {"Work", "Search"} => mounted[pdr[t]] # 0
      BY DEF MediaInv, MountsInv
    <3> QED BY <3>1, <3>2, <3>3, <3>4
  <2>2. ASSUME NEW m \in Media, access_semaphore[m] # None
        PROVE  pc[access_semaphore[m]] \in Holding \cup {"Recheck", "FreeVolumes", "Unmap", "Unlock"}
    BY <2>2 DEF MediaInv, SemaphoreInv, Owning, Leaving
  <2> QED BY <2>1, <2>2 DEF VolumeStaysWhileUsed
<1>2. early => VolumeStaysWhileUsed
  BY DEF VolumeStaysWhileUsed
<1> QED BY <1>1, <1>2, MediaInvariant, PTL

\* A file or a search is used with the mount it was opened in and with no other, under the same
\* condition (pc_fd2file, pc_gnext).
THEOREM HandlesStay ==
  ASSUME MediaAccessAssumption, OneCard
  PROVE  Spec => []HandlesStayOnTheirVolume
<1>1. MediaInv => HandlesStayOnTheirVolume
  BY DEF MediaInv
<1>2. early => HandlesStayOnTheirVolume
  BY DEF HandlesStayOnTheirVolume
<1> QED BY <1>1, <1>2, MediaInvariant, PTL
================================================================================
