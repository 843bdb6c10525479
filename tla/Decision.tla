------------------------------ MODULE Decision -------------------------------
(***************************************************************************)
(* What DAM makes of one message under a set of rules: rules.py observes   *)
(* each condition in three values, classifier.py selects categories,       *)
(* protection and the need for review, actions.py recommends one action.   *)
(* All three are functions; nothing is read or written.                    *)
(*                                                                         *)
(* A message is a record of its sender (an email, its domain and the       *)
(* domains above that), the keywords its subject contains, its labels and  *)
(* its age at `as_of`; None is a header or label list that was not         *)
(* supplied.  A condition is a set of alternatives, an age bound a set of  *)
(* one number.  Confidence is counted in percent.                          *)
(***************************************************************************)
EXTENDS Integers, FiniteSets

CONSTANTS
  None,          \* no value
  AutoAt,        \* confidence.auto_threshold
  ReviewAt,      \* confidence.review_threshold
  Destructive,   \* confidence.destructive_threshold
  Day            \* units of age in a day

ASSUME DecisionAssumption ==
  /\ {AutoAt, ReviewAt, Destructive} \subseteq 0..100
  /\ ReviewAt < AutoAt /\ Destructive >= 95
  /\ Day \in Nat \ {0}

Fields == {"sender_emails_any", "sender_domains_any", "subject_contains_any",
           "subject_contains_all", "body_contains_any", "label_ids_any", "label_ids_all",
           "min_age_days", "max_age_days", "relationship_status_any"}

(* The part of the message that a condition looks at.                      *)
FieldOf == [f \in Fields |->
  CASE f \in {"sender_emails_any", "sender_domains_any"} -> "sender"
    [] f \in {"subject_contains_any", "subject_contains_all"} -> "subject"
    [] f \in {"label_ids_any", "label_ids_all"} -> "label_ids"
    [] f \in {"min_age_days", "max_age_days"} -> "received_at"
    [] OTHER -> "uninspected"]

Cleanup      == {"archive", "trash"}
Mutations    == Cleanup \cup {"label"}
SafetyStates == {"Critical", "Priority", "Review"}

------------------------------------------------------------------------------
(* What models.py accepts as conditions, as a rule and as a set of rules.  *)
SpecAllowed(spec) ==
  LET age == {"min_age_days", "max_age_days"} IN
  /\ DOMAIN spec.when \subseteq Fields /\ \A f \in DOMAIN spec.when : spec.when[f] # {}
  /\ spec.subdomains => "sender_domains_any" \in DOMAIN spec.when
  /\ age \subseteq DOMAIN spec.when =>
       \A low \in spec.when["min_age_days"], high \in spec.when["max_age_days"] : low <= high

RuleAllowed(r) ==
  /\ SpecAllowed(r.match)
  /\ r.kind # "fallback" => DOMAIN r.match.when # {}
  /\ r.exclude # None => SpecAllowed(r.exclude) /\ DOMAIN r.exclude.when # {}
  /\ r.kind = "retention" => r.retention # None
  /\ r.action = "trash" => ~r.protect /\ r.state \notin SafetyStates

RulesAllowed(rules) ==
  /\ \A r \in rules : RuleAllowed(r)
  /\ \A r, q \in rules : r.enabled /\ q.enabled /\ r.id = q.id => r = q

------------------------------------------------------------------------------
(* evaluate_match.  A specification holds its populated conditions in      *)
(* `when`, a function from their names; an empty one matches.              *)
Inspected(f, m) ==
  CASE FieldOf[f] = "sender"      -> m.sender # None
    [] FieldOf[f] = "subject"     -> m.subject # None
    [] FieldOf[f] = "label_ids"   -> m.labels # None
    [] FieldOf[f] = "received_at" -> m.age >= 0
    [] OTHER                      -> FALSE

InDomain(spec, values, sender) ==
  \/ sender.domain \in values
  \/ spec.subdomains /\ sender.above \cap values # {}

Holds(f, spec, m) ==
  LET values == spec.when[f] IN
  CASE f = "sender_emails_any"    -> m.sender.email \in values
    [] f = "sender_domains_any"   -> InDomain(spec, values, m.sender)
    [] f = "subject_contains_any" -> values \cap m.subject # {}
    [] f = "subject_contains_all" -> values \subseteq m.subject
    [] f = "label_ids_any"        -> values \cap m.labels # {}
    [] f = "label_ids_all"        -> values \subseteq m.labels
    [] f = "min_age_days"         -> \A d \in values : m.age >= d * Day
    [] f = "max_age_days"         -> \A d \in values : m.age <= d * Day

OutcomeFaultDisproved(f, spec, m) ==
  IF Inspected(f, m) /\ Holds(f, spec, m) THEN "matched" ELSE "not_matched"

Outcome(f, spec, m) ==
  IF ~Inspected(f, m) THEN "unknown"
  ELSE IF Holds(f, spec, m) THEN "matched" ELSE "not_matched"

Outcomes(spec, m) == {Outcome(f, spec, m) : f \in DOMAIN spec.when}

Together(outcomes) ==
  IF "not_matched" \in outcomes THEN "not_matched"
  ELSE IF "unknown" \in outcomes THEN "unknown" ELSE "matched"

Match(spec, m) == Together(Outcomes(spec, m))

------------------------------------------------------------------------------
(* classify: the status of every rule, of what its conditions and its      *)
(* exclusion came to.                                                      *)
Exclusion(r, m) == IF r.exclude = None THEN "not_matched" ELSE Match(r.exclude, m)

StatusFaultUnknownExclusion(r, match, exclusion) ==
  CASE ~r.enabled              -> "disabled"
    [] match = "not_matched"   -> "rejected"
    [] match = "unknown"       -> "unresolved"
    [] exclusion = "matched"   -> "excluded"
    [] OTHER                   -> "applicable"

Status(r, match, exclusion) ==
  IF ~r.enabled THEN "disabled"
  ELSE IF match = "not_matched" THEN "rejected"
  ELSE IF exclusion = "matched" THEN "excluded"
  ELSE IF "unknown" \in {match, exclusion} THEN "unresolved"
  ELSE "applicable"

(* The assessments of all rules: everything below is computed from them.   *)
Sorted(statuses, m) ==
  [applicable |-> {r \in DOMAIN statuses : statuses[r] = "applicable"},
   undecided  |-> {r \in DOMAIN statuses : statuses[r] = "unresolved"},
   message    |-> m]

Assessed(rules, m) ==
  Sorted([r \in rules |-> Status(r, Match(r.match, m), Exclusion(r, m))], m)

(* _rank, most significant part first.                                     *)
SenderScope(spec) ==
  IF "sender_emails_any" \in DOMAIN spec.when THEN 3
  ELSE IF "sender_domains_any" \notin DOMAIN spec.when THEN 0
  ELSE IF spec.subdomains THEN 1 ELSE 2

AnyFields == Fields \ {"subject_contains_all", "label_ids_all", "min_age_days", "max_age_days"}

Alternatives(spec) ==
  LET open == DOMAIN spec.when \cap AnyFields
  IN  Cardinality(UNION {{f} \X spec.when[f] : f \in open}) - Cardinality(open)

Retains(r) == r.retention # None
Signals(r) == r.kind = "safety" \/ r.state \in SafetyStates

Wording == {"subject_contains_any", "subject_contains_all", "body_contains_any"}

Tier(r) ==
  IF Signals(r) THEN 5
  ELSE IF r.protect \/ Retains(r) THEN 4
  ELSE IF r.kind = "fallback" THEN 0
  ELSE IF r.kind = "service_specific" /\ SenderScope(r.match) > 0 THEN 3
  ELSE IF SenderScope(r.match) > 0 \/ DOMAIN r.match.when \cap Wording # {} THEN 2 ELSE 1

Rank(r) == <<Tier(r), r.priority, Cardinality(DOMAIN r.match.when), SenderScope(r.match),
             -Alternatives(r.match)>>

Below(a, b) == \E i \in 1..5 : a[i] < b[i] /\ \A j \in 1..(i - 1) : a[j] = b[j]

Best(rules) == {r \in rules : ~\E q \in rules : Below(Rank(r), Rank(q))}

(* The selected rules and what they agree on.                              *)
Selected(a) == Best({r \in a.applicable : r.categories # {}})

Choices(a) == {r.categories : r \in Selected(a)}

CategoryConflict(a) == Cardinality(Choices(a)) > 1

CategoriesOf(a) == IF CategoryConflict(a) THEN {} ELSE UNION Choices(a)

Protects(r) == r.protect \/ Retains(r) \/ Signals(r)

Protected(a) == \E r \in a.applicable : Protects(r)

ProtectionConflict(a) ==
  \E r, q \in a.applicable :
     Rank(r) = Rank(q) /\ <<Protects(r), r.state>> # <<Protects(q), q.state>>

Least(numbers) == CHOOSE n \in numbers : \A k \in numbers : n <= k

(* _score, of the evidence fields a rule's match found.                    *)
Evidence(r, m) ==
  {FieldOf[f] : f \in {g \in DOMAIN r.match.when : Outcome(g, r.match, m) = "matched"}}

Grade(fields) ==
  IF {"sender", "subject"} \subseteq fields THEN 95
  ELSE IF "sender" \in fields THEN 90
  ELSE IF "subject" \in fields THEN 80
  ELSE IF "label_ids" \in fields THEN 75
  ELSE IF fields # {} THEN 50 ELSE 0

Confidence(a) ==
  Least((IF CategoriesOf(a) = {} THEN {0} ELSE {Grade(Evidence(r, a.message)) : r \in Selected(a)})
    \cup (IF a.undecided # {} \/ ProtectionConflict(a) THEN {50} ELSE {}))

Band(score) == IF score >= AutoAt THEN "high" ELSE IF score >= ReviewAt THEN "review" ELSE "insufficient"

ReviewReasons(a) ==
  LET applies == [category_unresolved           |-> CategoriesOf(a) = {},
                  evidence_below_high_threshold |-> Band(Confidence(a)) # "high",
                  classification_conflict       |-> CategoryConflict(a),
                  unknown_eligibility           |-> a.undecided # {},
                  protection_conflict           |-> ProtectionConflict(a),
                  explicit_review_signal        |-> \E r \in a.applicable : r.state = "Review"]
  IN  {reason \in DOMAIN applies : applies[reason]}

NeedsReview(a) == ReviewReasons(a) # {}

States(a) ==
  ({r.state : r \in a.applicable} \ {None}) \cup IF NeedsReview(a) THEN {"Review"} ELSE {}

(* category_teaching_required; None on a conflict.                         *)
TeachingNeeded(a) == IF CategoryConflict(a) THEN None ELSE CategoriesOf(a) = {}

------------------------------------------------------------------------------
(* propose_action.                                                         *)
Winners(a)    == Best(a.applicable)
Considered(a) == {r.action : r \in Winners(a)}

RetentionState(r, a) ==
  IF r \in a.undecided \/ a.message.age < 0 THEN "unknown"
  ELSE IF r.retention = {} THEN "indefinite"
  ELSE IF \A d \in r.retention : a.message.age >= d * Day THEN "expired" ELSE "unexpired"

(* Required review is one of the states.                                   *)
Preserving(a) ==
  \/ Protected(a) \/ States(a) \cap SafetyStates # {}
  \/ \E r \in a.applicable \cup a.undecided : Retains(r) /\ RetentionState(r, a) # "expired"

Leaning(actions) ==
  IF Cardinality(actions) > 1 THEN "mark_review"
  ELSE IF actions = {} THEN "no_action" ELSE CHOOSE action \in actions : TRUE

SupportCapsFaultAnyWinner(a) ==
  IF \E r \in Winners(a) : r.action \in Cleanup /\ {"sender", "subject"} \subseteq Evidence(r, a.message)
  THEN {} ELSE {75}

SupportCaps(a) ==
  IF \/ Considered(a) \cap Mutations # {} /\ a.message.labels = None
     \/ \E r \in Winners(a) :
          r.action \in Cleanup /\ ~({"sender", "subject"} \subseteq Evidence(r, a.message))
  THEN {75} ELSE {}

ActionConfidence(leaning, a) ==
  Least({IF a.applicable = {} THEN 100 ELSE 95} \cup SupportCaps(a)
    \cup (IF \/ Cardinality(Considered(a)) > 1 \/ a.undecided # {}
             \/ leaning \in Cleanup /\ Preserving(a) THEN {50} ELSE {}))

Threshold(action) == IF action = "trash" THEN Destructive ELSE AutoAt

Withheld(leaning, a) ==
  \/ a.undecided # {}
  \/ /\ leaning \in Cleanup
     /\ \/ Preserving(a)
        \/ Confidence(a) < Threshold(leaning)
        \/ ActionConfidence(leaning, a) < Threshold(leaning)

Settled(leaning, a) ==
  IF leaning # "no_action" /\ Withheld(leaning, a) THEN "mark_review" ELSE leaning

Action(a) == Settled(Leaning(Considered(a)), a)

ApprovalType(action) ==
  IF action = "trash" THEN "destructive"
  ELSE IF action \in Mutations THEN "mailbox_mutation" ELSE "none"
==============================================================================
