----------------------------- MODULE MCLifecycle -----------------------------
(* The lifecycle with two operations, a probe and a drain.                  *)
EXTENDS ConversationLifecycle
=============================================================================
