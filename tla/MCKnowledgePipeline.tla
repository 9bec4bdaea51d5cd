------------------------ MODULE MCKnowledgePipeline ------------------------
(* KnowledgePipeline for TLC; its constants are numbers. *)
EXTENDS KnowledgePipeline
=============================================================================
