------------------------ MODULE MC_ClaudeConversation ------------------------
(* Small instances of ClaudeConversation.  A message, a page, the Goal and two *)
(* compactions are enough for everyone to wait on everyone; a second process   *)
(* is what a message needs that is tried again, and a third one what two       *)
(* launches beside an ended process need.                                      *)
EXTENDS ClaudeConversation
=============================================================================
