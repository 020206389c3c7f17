------------------------------ MODULE SoftIrq ------------------------------
(***************************************************************************)
(* What include/platform.h promises the interrupt benchmark: after         *)
(* platform_trigger_swi the handler runs, exactly once, and                *)
(* platform_clear_swi leaves nothing behind that would run it again.       *)
(***************************************************************************)
EXTENDS Naturals

VARIABLES
    requested,   \* an interrupt has been asked for and not been handled yet
    served       \* how often the handler has run

Init == requested = FALSE /\ served = 0

Request == ~requested /\ requested' = TRUE /\ UNCHANGED served

Serve == requested /\ requested' = FALSE /\ served' = served + 1

Next == Request \/ Serve

Safety == Init /\ [][Next]_<<requested, served>>

Spec == Safety /\ WF_<<requested, served>>(Serve)
==============================================================================
