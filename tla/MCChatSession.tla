--------------------------- MODULE MCChatSession ---------------------------
(* ChatSession on small instances: one client, one spawned task.           *)
EXTENDS ChatSession

CONSTANTS client, task, a1, a2
=============================================================================
