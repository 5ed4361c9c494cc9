-------------------------- MODULE MCSessionManager --------------------------
(***************************************************************************)
(* Small instances of SessionManager for TLC.                              *)
(***************************************************************************)
EXTENDS SessionManager, TLC

MCParties == Tenants \X Phones
MCCallers == Clients \cup Workers \cup Admins

(* Identifiers of each kind are only ever compared with one another.       *)
SessionSymmetry ==
    Permutations(Numbers) \cup Permutations(Sessions) \cup Permutations(Phones)
      \cup Permutations(Tenants) \cup Permutations(Clients)
      \cup Permutations(Workers) \cup Permutations(Admins)
      \cup Permutations(Reapers)

=============================================================================
