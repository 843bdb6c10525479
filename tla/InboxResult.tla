----------------------------- MODULE InboxResult -----------------------------
(***************************************************************************)
(* What one read of the Inbox yields (GmailReadResult of gmail.py) and     *)
(* what may be claimed of it.  A result is a record of                     *)
(*   shows     for every listed message what its `get` returned: a content *)
(*             with the Inbox label, Outside (the label is gone) or Failed *)
(*             (api_error or malformed_response);                          *)
(*   whole     the listing ended without a further page token              *)
(*             (listing_complete);                                         *)
(*   estimate  how Gmail's resultSizeEstimate compares with the number of  *)
(*             listed messages.                                            *)
(* Contents stand for a message's metadata as far as classification and    *)
(* comparison with a stored observation can tell it apart.                 *)
(***************************************************************************)
EXTENDS Integers, FiniteSets

CONSTANTS
  Messages,   \* opaque Gmail message identities
  Contents,   \* what a message in the Inbox may show
  Outside,    \* read, but without the Inbox label
  Failed,     \* listed, but its `get` gave no usable metadata
  Estimates   \* of "absent", "agrees", "differs"

Shown  == Contents \cup {Outside, Failed}
Shows  == UNION {[S -> Shown] : S \in SUBSET Messages}
Result == [shows : Shows, whole : BOOLEAN, estimate : Estimates]

Listed(r)   == DOMAIN r.shows
Showing(r, what) == {m \in Listed(r) : r.shows[m] \in what}

StoppedAtLimit(r, limit) == Cardinality(Listed(r)) = limit /\ ~r.whole

(* A read lists at most `limit` messages and stops early for one reason    *)
(* only: there is no further page.                                         *)
Reads(limit) ==
  {r \in Result : /\ Cardinality(Listed(r)) <= limit
                  /\ r.whole \/ StoppedAtLimit(r, limit)}

Coverage(r, limit) ==
  LET failures == Showing(r, {Failed}) # {}
  IN  CASE StoppedAtLimit(r, limit) /\ failures -> "limit_and_read_failures"
        [] StoppedAtLimit(r, limit) /\ ~failures -> "limit_reached"
        [] ~StoppedAtLimit(r, limit) /\ failures -> "read_failures"
        [] OTHER -> "complete"

(* InventoryCounts.discrepancy.                                            *)
Discrepancy(r) ==
  IF ~r.whole \/ r.estimate = "absent" THEN "not_checked"
  ELSE IF r.estimate = "differs" THEN "unresolved" ELSE "none"

(* The inventory a durable scan may call complete.                         *)
CompleteFaultCoverageOnly(r, limit) == Coverage(r, limit) = "complete"

Complete(r, limit) ==
  /\ Coverage(r, limit) = "complete"
  /\ Showing(r, {Outside}) = {}
  /\ Discrepancy(r) # "unresolved"
==============================================================================
