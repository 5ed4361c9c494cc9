--------------------------- MODULE MCInboundRouting ---------------------------
(* InboundRouting on small sets.                                           *)
EXTENDS InboundRouting, TLC

MCParties == Tenants \X Phones
MCCallers == Clients \cup Expirers

MCSymmetry == Permutations(Numbers) \cup Permutations(Phones)
                \cup Permutations(Sessions)

=============================================================================
