------------------------------ MODULE MCSidecar ------------------------------
(* Sidecar for TLC: one intent, which may be submitted again, or none.      *)
EXTENDS Sidecar, TLC

CONSTANTS i1

OneIntent == {i1}
NoIntent == {}

(* Bound: two saves and their keys in one launch without a crash or a        *)
(* submission, which quits or lets a health loop time out, but not both; or, *)
(* with at most one save and no key, submissions, a crash and a second       *)
(* launch.                                                                   *)
SavesOrTheRest ==
  \/ /\ launches <= 1 /\ crashes = 0 /\ \A i \in Intents : tries[i] = 0
     /\ app = "up" \/ \A l \in Procs : ~loop[l].late
  \/ stored.key = 0 /\ \A s, t \in Saves : flow[s].pc # "idle" /\ flow[t].pc # "idle" => s = t
=============================================================================
