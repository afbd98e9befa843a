---------------------------- MODULE AgreeOrAbort ----------------------------
(***************************************************************************)
(* What an echoed broadcast protocol promises: there is one outcome, every *)
(* honest party that completes has it, and any honest party may abort      *)
(* instead.  No promise is made that all complete or all abort.            *)
(***************************************************************************)
CONSTANTS Member, Outcome, NoOutcome

VARIABLES decision, status

Init ==
  /\ decision = NoOutcome
  /\ status = [p \in Member |-> "running"]

(* The first to complete fixes the outcome, the others adopt it.           *)
Complete(p) ==
  /\ status[p] = "running"
  /\ \E d \in Outcome : decision \in {NoOutcome, d} /\ decision' = d
  /\ status' = [status EXCEPT ![p] = "done"]

Abort(p) ==
  /\ status[p] = "running"
  /\ status' = [status EXCEPT ![p] = "failed"]
  /\ UNCHANGED decision

Next == \E p \in Member : Complete(p) \/ Abort(p)

Spec == Init /\ [][Next]_<<decision, status>>
=============================================================================
