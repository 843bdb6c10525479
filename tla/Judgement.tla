------------------------------ MODULE Judgement -------------------------------
(***************************************************************************)
(* A message judged under the configuration (scan.py, review.py,           *)
(* durable_gmail.py): base categories, the user's catalog and the          *)
(* configured rules are loaded, and classify and propose_action are        *)
(* applied to what was read of the message.  CategoryCatalog changes the   *)
(* configuration meanwhile.                                                *)
(***************************************************************************)
EXTENDS CategoryCatalog

CONSTANTS
  Policies,   \* rule sets that rules.yaml may hold
  Mails       \* messages as they are in the mailbox

ASSUME PoliciesAssumption == \A policy \in Policies : RulesAllowed(policy)

ASSUME MailsAssumption ==
  \A m \in Mails :
     m = [sender |-> m.sender, subject |-> m.subject, labels |-> m.labels, age |-> m.age]

VARIABLES
  mail,    \* the message
  read,    \* what this reader gets to see of it
  judged   \* the judgement shown last

judgementVars == <<catalogVars, mail, read, judged>>

(* What a read may leave out: a header, the labels (Gmail scans skip such  *)
(* a message, classify and propose_action do not), or, when the clock of   *)
(* the reader is behind, the age.                                          *)
Parts == {"sender", "subject", "labels", "age"}

Without(m, lost) ==
  [m EXCEPT !.sender  = IF "sender" \in lost THEN None ELSE @,
            !.subject = IF "subject" \in lost THEN None ELSE @,
            !.labels  = IF "labels" \in lost THEN None ELSE @,
            !.age     = IF "age" \in lost THEN -1 ELSE @]

JudgementOf(assessed, action) ==
  [categories |-> CategoriesOf(assessed),
   review     |-> ReviewReasons(assessed),
   teaching   |-> TeachingNeeded(assessed),
   action     |-> action,
   approval   |-> ApprovalType(action)]

Judge ==
  /\ Loads(<<>>) /\ Loads(catalog)
  /\ LET assessed == Assessed(rules, read)
     IN  judged' = JudgementOf(assessed, Action(assessed))
  /\ UNCHANGED <<catalogVars, mail, read>>

JudgementInit ==
  /\ CatalogInit
  /\ rules \in Policies
  /\ mail \in Mails
  /\ read \in {Without(mail, lost) : lost \in SUBSET Parts}
  /\ judged = None

JudgementNext ==
  \/ CatalogNext /\ UNCHANGED <<mail, read, judged>>
  \/ Judge

JudgementSpec == JudgementInit /\ [][JudgementNext]_judgementVars

------------------------------------------------------------------------------
(* Not ruled out: no condition is disproved and no exclusion is met, as    *)
(* far as anything is known of the message.                                *)
MayConcern(r, m) ==
  /\ r.enabled
  /\ "not_matched" \notin Outcomes(r.match, m)
  /\ r.exclude # None => \E o \in Outcomes(r.exclude, m) : o # "matched"

(* Archive or Trash is recommended only if no rule that protects or        *)
(* retains may concern the message, nothing asks for review, and some rule *)
(* recommends it; Trash, moreover, only if that rule was met by sender and *)
(* subject and the labels were inspected.                                  *)
CleanupIsWarranted ==
  judged # None => (judged.action \in Cleanup =>
    LET m == read
        asking == {r \in rules : MayConcern(r, m) /\ r.action = judged.action}
    IN /\ \A r \in rules : MayConcern(r, m) => ~Protects(r)
       /\ judged.review = {}
       /\ asking # {}
       /\ judged.action = "trash" =>
            /\ m.labels # None
            /\ \E r \in asking : {"sender", "subject"} \subseteq Evidence(r, m))

(* A read that lacks something of the message never recommends a cleanup   *)
(* that the whole message would not.                                       *)
LessEvidenceNeverCleans ==
  judged # None =>
    (judged.action \in Cleanup => Action(Assessed(rules, mail)) = judged.action)

(* A judgement that asks for no review is settled: what was missing from   *)
(* the read would have changed neither the categories nor the protection.  *)
NoReviewMeansSettled ==
  judged # None => (judged.review = {} =>
    LET whole == Assessed(rules, mail)
    IN /\ CategoriesOf(whole) = judged.categories
       /\ Protected(whole) = Protected(Assessed(rules, read))
       /\ ~NeedsReview(whole))
==============================================================================
