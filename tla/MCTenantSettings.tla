--------------------------- MODULE MCTenantSettings ---------------------------
(* Instance of TenantSettings for TLC: the creations are alike, and so are *)
(* the edits.  A body says one thing, or turns recording on with consent.  *)
EXTENDS TenantSettings, TLC

Body(defaults, recording, consent) ==
    [defaults |-> defaults, recording |-> recording, consent |-> consent]

MCBodies ==
    {Body(TRUE, "keep", "keep"), Body(FALSE, "on", "asked"),
     Body(FALSE, "on", "keep"), Body(FALSE, "off", "keep"),
     Body(FALSE, "keep", "NONE")}

Symmetry == Permutations(Sessioners) \cup Permutations(Editors)

=============================================================================
