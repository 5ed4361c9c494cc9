----------------------------- MODULE NumberLease ----------------------------
(***************************************************************************)
(* What the number pool promises its callers: a number is free, held by    *)
(* one or more sessions, or at rest.  The last session to leave a number   *)
(* either frees it at once or puts it to rest; a number at rest is offered *)
(* again only after its rest is over, and nobody can take it before.       *)
(***************************************************************************)
CONSTANTS Numbers, Sessions

VARIABLES holders, phase

leaseVars == <<holders, phase>>

Init ==
    /\ holders = [n \in Numbers |-> {}]
    /\ phase = [n \in Numbers |-> "free"]

Take(s, n) ==
    /\ phase[n] \in {"free", "held"}
    /\ holders' = [holders EXCEPT ![n] = @ \cup {s}]
    /\ phase' = [phase EXCEPT ![n] = "held"]

Leave(s, n) ==
    /\ s \in holders[n]
    /\ holders' = [holders EXCEPT ![n] = @ \ {s}]
    /\ \/ /\ holders[n] = {s}
          /\ \E p \in {"free", "resting"} : phase' = [phase EXCEPT ![n] = p]
       \/ /\ holders[n] # {s}
          /\ UNCHANGED phase

RestOver(n) ==
    /\ phase[n] = "resting"
    /\ phase' = [phase EXCEPT ![n] = "rested"]
    /\ UNCHANGED holders

Offer(n) ==
    /\ phase[n] = "rested"
    /\ phase' = [phase EXCEPT ![n] = "free"]
    /\ UNCHANGED holders

Next ==
    \E n \in Numbers :
      \/ \E s \in Sessions : Take(s, n) \/ Leave(s, n)
      \/ RestOver(n)
      \/ Offer(n)

Spec == Init /\ [][Next]_leaseVars

=============================================================================
