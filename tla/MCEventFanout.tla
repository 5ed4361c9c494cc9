---------------------------- MODULE MCEventFanout ----------------------------
(* EventFanout for TLC: clients come to one process, and where no group    *)
(* reads the events.                                                       *)
EXTENDS EventFanout

OneProc == CHOOSE p \in Procs : TRUE
MCVisits ==
    [gs \in Subscriptions |-> IF gs = {} THEN Clients \X {OneProc} ELSE {}]

=============================================================================
