----------------------------- MODULE MCAgentLoop -----------------------------
(* Instances of AgentLoop for TLC.  Batch: all calls in one reply, in any  *)
(* modes, and a last reply.  Chain: one call per reply, so that steps with *)
(* calls follow each other up to the step limit.                           *)
EXTENDS AgentLoop, TLC

Batch == [s \in Steps |-> IF s = 0 THEN MaxCalls ELSE 0]
Chain == [s \in Steps |-> IF s = 2 THEN 0 ELSE 1]
=============================================================================
