------------------------------ MODULE MapLayers ------------------------------
(***************************************************************************)
(* What the three block map caches of Failsafe stand for: three maps from  *)
(* volume blocks to journal blocks, laid one over the other.  A transaction*)
(* fills the open map, a flush lays it over the flushed map, a restore     *)
(* takes the flushed map away to copy it to the volume.                    *)
(***************************************************************************)
EXTENDS Naturals

CONSTANTS VolumeBlock, JournalBlock

VARIABLES openMap, flushedMap, restoringMap     \* 0: not mapped

layerVars == <<openMap, flushedMap, restoringMap>>

Nowhere == [v \in VolumeBlock |-> 0]
InUse == {openMap[v] : v \in VolumeBlock} \union {flushedMap[v] : v \in VolumeBlock}
         \union {restoringMap[v] : v \in VolumeBlock}

LayersInit == openMap = Nowhere /\ flushedMap = Nowhere /\ restoringMap = Nowhere

\* Blocks that were not mapped get journal blocks that nothing else is mapped
\* to; no block that is mapped loses its replacement.
Write ==
    /\ openMap' \in [VolumeBlock -> JournalBlock \union {0}]
    /\ \A v \in VolumeBlock :
          IF openMap[v] # 0 THEN openMap'[v] = openMap[v]
          ELSE openMap'[v] = 0 \/ openMap'[v] \notin InUse
    /\ \A v, w \in VolumeBlock : v # w /\ openMap'[v] # 0 => openMap'[v] # openMap'[w]
    /\ UNCHANGED <<flushedMap, restoringMap>>

Flush ==
    /\ flushedMap' = [v \in VolumeBlock |-> IF openMap[v] # 0 THEN openMap[v] ELSE flushedMap[v]]
    /\ openMap' = Nowhere
    /\ UNCHANGED restoringMap

RestoreStart ==
    /\ restoringMap = Nowhere
    /\ restoringMap' = flushedMap /\ flushedMap' = Nowhere
    /\ UNCHANGED openMap

RestoreEnd == restoringMap' = Nowhere /\ UNCHANGED <<openMap, flushedMap>>

LayersNext == Write \/ Flush \/ RestoreStart \/ RestoreEnd

LayersSpec == LayersInit /\ [][LayersNext]_layerVars
=============================================================================
