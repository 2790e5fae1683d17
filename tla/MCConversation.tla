--------------------------- MODULE MCConversation ---------------------------
(* Instances of Conversation. *)
EXTENDS Conversation

CONSTANTS a, b
Target == {"target"}
Both == {"target", "draft"}
Vocabulary == {a, b}
=============================================================================
