------------------------------- MODULE PageMap -------------------------------
(***************************************************************************)
(* What the page-table code of an architecture promises its callers        *)
(* (include/mem.h): a map from virtual pages to mappings that is emptied   *)
(* as a whole by mem_init / mem_reset and changed at exactly one virtual   *)
(* page by mem_create_page_mapping_*.  Everything else the code does       *)
(* (table allocation, lazy clearing, descriptor reuse) is invisible here.  *)
(***************************************************************************)
CONSTANTS
    VirtPages,   \* the virtual pages
    Mappings,    \* what a virtual page can be mapped to
    Unmapped     \* the value of a virtual page with no mapping

VARIABLE map

\* Every virtual page is unmapped.
Empty == [va \in VirtPages |-> Unmapped]

Init == map = Empty

\* mem_init and mem_reset forget every mapping.
Reset == map' = Empty

\* mem_create_page_mapping_* installs or replaces one mapping.
Map(va, m) == map' = [map EXCEPT ![va] = m]

Next ==
    \/ Reset
    \/ \E va \in VirtPages, m \in Mappings : Map(va, m)

Spec == Init /\ [][Next]_map
==============================================================================
