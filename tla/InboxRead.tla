------------------------------ MODULE InboxRead ------------------------------
(***************************************************************************)
(* read_inbox of gmail.py: list page by page until a limit or the last     *)
(* page, then get every listed message, while mail comes and goes.  Gmail  *)
(* is external and modelled in two ways: `anchored`, it lists the Inbox    *)
(* from the top and a page token names the place to go on from; otherwise  *)
(* it may answer any page with any token.  A page may be shorter than      *)
(* asked for, or empty, and still have a next one.                         *)
(***************************************************************************)
EXTENDS InboxResult

CONSTANTS
  Top,          \* places in the listing: messages are below it, in order
  Limit, MaxPages, MaxPageSize,
  None          \* no page token, no result yet

ASSUME ReadAssumption ==
  /\ Top \in Nat /\ Messages \subseteq 1..(Top - 1)
  /\ {Limit, MaxPages, MaxPageSize} \subseteq Nat \ {0}
  /\ None \notin Nat

VARIABLES
  anchored, \* whether page tokens name a place
  inbox,    \* the messages Gmail has in the Inbox
  steady,   \* history: those that were there all the time
  pc,       \* "list", "get", "done", or "error" (GmailAdapterError)
  listed,   \* the messages of all pages so far
  page,     \* page_number
  token,    \* where the next page begins
  tokens,   \* seen_tokens
  whole,    \* listing_complete
  shows,    \* outcome of each `get` so far
  result

readVars == <<anchored, inbox, steady, pc, listed, page, token, tokens, whole, shows,
              result>>

Places == 0..Top
Least(a, b) == IF a < b THEN a ELSE b

(* One page: messages and the next token.                                  *)
Answer ==
  IF anchored
  THEN {[messages |-> {m \in inbox : y <= m /\ m < token}, next |-> n] :
          y \in 0..token, n \in Places \cup {None}}
  ELSE [messages : SUBSET Messages, next : Places \cup {None}]

(* An anchored token goes on exactly below the page it came with.          *)
Honest(a) ==
  anchored => LET rest == {m \in inbox : m < token} \ a.messages
              IN  IF a.next = None THEN rest = {}
                  ELSE /\ a.next <= token
                       /\ rest = {m \in inbox : m < a.next}

PagesLeft == page < MaxPages

(* Pages that abort the listing: too long, a message twice, a token twice. *)
AcceptableFaultAnyLength(a) ==
  /\ a.messages \cap listed = {}
  /\ a.next \notin tokens

Acceptable(a) ==
  /\ Cardinality(a.messages) <= Least(MaxPageSize, Limit - Cardinality(listed))
  /\ a.messages \cap listed = {}
  /\ a.next \notin tokens

ListPage ==
  /\ pc = "list"
  /\ Cardinality(listed) < Limit
  /\ PagesLeft
  /\ page' = page + 1
  /\ \E a \in Answer :
       /\ Honest(a)
       /\ \/ /\ Acceptable(a)
             /\ listed' = listed \cup a.messages
             /\ \/ /\ a.next = None
                   /\ whole' = TRUE /\ pc' = "get"
                   /\ UNCHANGED <<token, tokens>>
                \/ /\ a.next # None
                   /\ token' = a.next /\ tokens' = tokens \cup {a.next}
                   /\ UNCHANGED <<pc, whole>>
          \/ /\ ~Acceptable(a)
             /\ pc' = "error"
             /\ UNCHANGED <<listed, token, tokens, whole>>
  /\ UNCHANGED <<anchored, inbox, steady, shows, result>>

(* A request failed, a page was malformed, or there were too many pages.   *)
Abort ==
  /\ pc = "list"
  /\ pc' = "error"
  /\ UNCHANGED <<anchored, inbox, steady, listed, page, token, tokens, whole, shows, result>>

EndListingFaultWhole ==
  /\ pc = "list"
  /\ Cardinality(listed) = Limit
  /\ pc' = "get" /\ whole' = TRUE
  /\ UNCHANGED <<anchored, inbox, steady, listed, page, token, tokens, shows, result>>

EndListing ==
  /\ pc = "list"
  /\ Cardinality(listed) = Limit
  /\ pc' = "get"
  /\ UNCHANGED <<anchored, inbox, steady, listed, page, token, tokens, whole, shows, result>>

(* get of one message and its normalisation.                               *)
Outcomes(m) == {Failed} \cup IF m \in inbox THEN Contents ELSE {Outside}

GetMessage ==
  /\ pc = "get"
  /\ \E m \in listed \ DOMAIN shows : \E o \in Outcomes(m) :
       shows' = [n \in DOMAIN shows \cup {m} |-> IF n = m THEN o ELSE shows[n]]
  /\ UNCHANGED <<anchored, inbox, steady, pc, listed, page, token, tokens, whole, result>>

(* Gmail's estimate is any number, so its comparison has any outcome.      *)
Return ==
  /\ pc = "get"
  /\ DOMAIN shows = listed
  /\ \E e \in Estimates : result' = [shows |-> shows, whole |-> whole, estimate |-> e]
  /\ pc' = "done"
  /\ UNCHANGED <<anchored, inbox, steady, listed, page, token, tokens, whole, shows>>

(* Mail arrives, is archived, or is moved back into the Inbox.             *)
Move(m) ==
  /\ pc \in {"list", "get"}
  /\ inbox' = IF m \in inbox THEN inbox \ {m} ELSE inbox \cup {m}
  /\ steady' = steady \ {m}
  /\ UNCHANGED <<anchored, pc, listed, page, token, tokens, whole, shows, result>>

------------------------------------------------------------------------------
ReadInit ==
  /\ anchored \in BOOLEAN
  /\ inbox \in SUBSET Messages
  /\ steady = inbox
  /\ pc = "list"
  /\ listed = {}
  /\ page = 0
  /\ token = Top
  /\ tokens = {}
  /\ whole = FALSE
  /\ shows = [m \in {} |-> Failed]
  /\ result = None

ReadNext ==
  \/ ListPage \/ Abort \/ EndListing \/ GetMessage \/ Return
  \/ \E m \in Messages : Move(m)

ReadSpec == ReadInit /\ [][ReadNext]_readVars

------------------------------------------------------------------------------
(* Whatever Gmail answers, a read that does not raise yields one of the    *)
(* results that a scan counts on: never more than the limit, and short of  *)
(* it only at the end of the listing.                                      *)
YieldsARead == pc = "done" => result \in Reads(Limit)

(* A read that may be called complete saw every message that was in the    *)
(* Inbox from its beginning to its end, however mail moved meanwhile, as   *)
(* long as page tokens name places.                                        *)
CompleteReadSawSteady ==
  anchored /\ pc = "done" /\ Complete(result, Limit) => steady \subseteq Showing(result, Contents)
==============================================================================
