---------------------------- MODULE MCAgentLoop -----------------------------
(* AgentLoop with model values for TLC. *)
EXTENDS AgentLoop

CONSTANTS goal, settings, blank
=============================================================================
