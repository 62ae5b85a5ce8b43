---------------------------- MODULE MC_CodexPool ----------------------------
(* Small instances of CodexPool.  One slot is where the pool's hazards meet: *)
(* every new thread has to evict, wait or be refused, and two children let   *)
(* one settle its closing while the next one already holds the slot.         *)
EXTENDS CodexPool
=============================================================================
