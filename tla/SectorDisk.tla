----------------------------- MODULE SectorDisk -----------------------------
(***************************************************************************)
(* What a file system expects of a block device: a write of several        *)
(* sectors stores each of them whole, in some order, and has stored all    *)
(* when it returns; a power failure loses at most sectors that are being   *)
(* written.  A device that is broken promises nothing any more.            *)
(***************************************************************************)
CONSTANTS Sector, Content

VARIABLES
    disk,      \* what a read returns once the power is back
    request,   \* sectors of the call in progress and their new contents
    on,        \* calls are taken
    broken

diskVars == <<disk, request, on, broken>>

Requests == UNION {[S -> Content] : S \in SUBSET Sector}

DiskInit ==
    /\ disk \in [Sector -> Content]
    /\ request = [s \in {} |-> 0]
    /\ on = FALSE /\ broken = FALSE

Call ==
    /\ on /\ DOMAIN request = {}
    /\ request' \in Requests
    /\ UNCHANGED <<disk, on, broken>>

\* Some sectors of the request reach the medium.
StoreSome ==
    LET before == disk
        after == disk'
    IN  \A s \in Sector :
           after[s] = before[s] \/ (s \in DOMAIN request /\ after[s] = request[s])

Store == UNCHANGED <<request, on, broken>> /\ StoreSome

Return ==
    /\ on
    /\ request' = [s \in {} |-> 0]
    /\ LET stored == disk
       IN  \A s \in DOMAIN request : stored[s] = request[s]
    /\ UNCHANGED <<disk, on, broken>>

PowerFail ==
    /\ on' = FALSE
    /\ request' = [s \in {} |-> 0]
    /\ StoreSome
    /\ UNCHANGED broken

PowerOn ==
    /\ ~on /\ on'
    /\ UNCHANGED <<disk, request, broken>>

DiskNext ==
    \/ broken'
    \/ ~broken /\ (Call \/ Return \/ PowerFail \/ PowerOn \/ Store)

DiskSpec == DiskInit /\ [][DiskNext]_diskVars
=============================================================================
