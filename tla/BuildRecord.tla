---------------------------- MODULE BuildRecord ----------------------------
(***************************************************************************)
(* What the build history promises, whoever writes it: a record is opened  *)
(* once, gets one outcome, and keeps it until retention removes the row    *)
(* ("the first terminal state is the real one, and a late writer must not  *)
(* overwrite it", internal/store/builds.go).                               *)
(***************************************************************************)
CONSTANT Builds

VARIABLE status

Outcomes == {"success", "failed", "canceled"}

Init == status = [b \in Builds |-> "none"]

Open(b) == status[b] = "none" /\ status' = [status EXCEPT ![b] = "running"]

Close(b, outcome) == status[b] = "running" /\ status' = [status EXCEPT ![b] = outcome]

Drop(b) == status[b] \in Outcomes /\ status' = [status EXCEPT ![b] = "pruned"]

Next == \E b \in Builds : Open(b) \/ Drop(b) \/ \E outcome \in Outcomes : Close(b, outcome)

Spec == Init /\ [][Next]_status
=============================================================================
