------------------------ MODULE MCConversationMemory ------------------------
(* An instance of ConversationMemory. *)
EXTENDS ConversationMemory, TLC

CONSTANTS c1, f1

OneConv  == {c1}
OneFlush == {f1}
=============================================================================
