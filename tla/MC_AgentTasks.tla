---------------------------- MODULE MC_AgentTasks ----------------------------
(* Small instances of AgentTasks: one approval is enough for a decision to be *)
(* repeated, lost, late or acknowledged before it is recorded; two upsets let *)
(* a connection break after a crash, or a call be lost after a stop.          *)
EXTENDS AgentTasks
=============================================================================
