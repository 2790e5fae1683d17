----------------------------- MODULE MCAgentRuns -----------------------------
(* A conversation that asks, one in full mode, a task, two workers. *)
EXTENDS AgentRuns
CONSTANTS c1, f1, t1, w1, w2, sched
=============================================================================
