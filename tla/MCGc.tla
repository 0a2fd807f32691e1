-------------------------------- MODULE MCGc --------------------------------
(* Two states of two parts.  Every pool is enrolled twice, by the allocator *)
(* and by the graph, as in the constructors of the code.                    *)
EXTENDS Gc

CONSTANTS s1, s2

MCSlots == {s1, s2}
MCParts == {"vloc", "zone"}
MCEnrolled == <<"state", "vloc", "zone", "state", "vloc", "zone">>
=============================================================================
