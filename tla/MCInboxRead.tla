----------------------------- MODULE MCInboxRead -----------------------------
(* Instances of InboxRead: three or four messages, pages of two.           *)
EXTENDS InboxRead

CONSTANT k1
==============================================================================
