--------------------------- MODULE MCThreadMasks ---------------------------
(* ThreadApi with SetCoreMask, and a record of whether it was used: when a     *)
(* fiber has more than one core, local rings are in use from then on, and the  *)
(* wake-up of one core may go to the wrong one.                                *)
EXTENDS ThreadApi

VARIABLE shared   \* some fiber was given more than one core

MaskInit == Init /\ shared = FALSE
MaskNext == Next /\ shared' = (shared \/ \E f \in Fibers : Cardinality(core_mask'[f]) > 1)
MaskSpec == MaskInit /\ [][MaskNext]_<<vars, shared>>

\* Fibers of one core each: neither AddToSchedulerUnsafe's wake-up nor the window
\* between ReleaseSRWLock and WaitOnAddress loses a wake-up (NoLostWakeup).
NoLostWakeupWithoutRings == shared \/ NoLostWakeup

============================================================================
