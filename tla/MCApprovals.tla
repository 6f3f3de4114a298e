----------------------------- MODULE MCApprovals ------------------------------
(* Approvals with model values for TLC.                                       *)
EXTENDS Approvals, TLC

CONSTANTS k1, k2, c1, c2

Symmetry == Permutations(Keys) \cup Permutations(Clients)

(* Bound: two stops, which need no approval, meet no change of the target and *)
(* no restart.                                                                *)
OneStopOrNoEvent ==
  \/ bounds.changes + bounds.crashes = 0
  \/ \A t, u \in DOMAIN tasks : tasks[t].kind = "app.stop" /\ tasks[u].kind = "app.stop" => t = u
=============================================================================
