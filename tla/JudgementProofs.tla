--------------------------- MODULE JudgementProofs ----------------------------
(***************************************************************************)
(* Theorems about the category catalog, for any number of processes and    *)
(* saves, and about judgements, for every set of rules and every message.  *)
(***************************************************************************)
EXTENDS Judgement, TLAPS

------------------------------------------------------------------------------
(* What a process that saves knows: the change it carries is what its user *)
(* saw, and while it holds the lock and has checked, the file is still the *)
(* one that change was made for, and becomes one that loads.               *)
Shaped(l) == l = [pc |-> l.pc, request |-> l.request, saving |-> l.saving, read |-> l.read,
                  change |-> l.change]

SaverInv(p) ==
  /\ Shaped(proc[p])
  /\ proc[p].saving /\ At(p, "propose") => shown[p] # None
  /\ proc[p].pc \in {"lock"} \cup Holding => shown[p] # None /\ proc[p].change = shown[p]
  /\ At(p, "replace") => /\ proc[p].read = catalog
                         /\ proc[p].change.catalog = catalog
                         /\ Loads(Updated(catalog, proc[p].change))

OneHolder == \A p, q \in Procs : proc[p].pc \in Holding /\ proc[q].pc \in Holding => p = q

CatalogInv ==
  /\ DOMAIN proc = Procs /\ DOMAIN shown = Procs
  /\ proc = [p \in Procs |-> proc[p]] /\ shown = [p \in Procs |-> shown[p]]
  /\ \A p \in Procs : SaverInv(p)
  /\ OneHolder
  /\ Loads(<<>>) => CatalogLoads

LEMMA CatalogInitInv == CatalogInit => CatalogInv
<1>1. SUFFICES ASSUME CatalogInit PROVE CatalogInv
  OBVIOUS
<1>2. \A p \in Procs : proc[p].pc = "idle"
  BY <1>1 DEF CatalogInit, Idle
<1>3. \A p \in Procs : SaverInv(p)
  BY <1>1, <1>2 DEF CatalogInit, SaverInv, Shaped, Idle, At, Holding
<1>4. QED
  BY <1>1, <1>2, <1>3 DEF CatalogInit, CatalogInv, OneHolder, Holding, CatalogLoads

(* One process moves without replacing the file.                           *)
LEMMA CatalogMove ==
  ASSUME CatalogInv, NEW p \in Procs, NEW l, Becomes(p, l), SaverInv(p)',
         UNCHANGED <<rules, catalog>>,
         \A q \in Procs : q # p => shown'[q] = shown[q],
         shown' = [q \in Procs |-> shown'[q]],
         l.pc \in Holding => proc[p].pc \in Holding \/ ~Locked
  PROVE  CatalogInv'
<1>1. /\ proc' = [q \in Procs |-> IF q = p THEN l ELSE proc[q]]
      /\ proc'[p] = l /\ \A q \in Procs : q # p => proc'[q] = proc[q]
  BY DEF Becomes, CatalogInv
<1>2. ASSUME NEW q \in Procs, q # p PROVE SaverInv(q)'
  <2>1. SaverInv(q) /\ proc'[q] = proc[q] /\ shown'[q] = shown[q]
    BY <1>1, <1>2 DEF CatalogInv
  <2>2. Loads(Updated(catalog, proc[q].change)) => Loads(Updated(catalog, proc[q].change))'
    BY <2>1 DEF Loads, Merges, RulesApply, Updated
  <2>3. QED
    BY <2>1, <2>2 DEF SaverInv, At
<1>3. OneHolder'
  BY <1>1 DEF CatalogInv, OneHolder, Locked
<1>4. Loads(<<>>)' => CatalogLoads'
  BY DEF CatalogInv, CatalogLoads, Loads, Merges, RulesApply
<1>5. QED
  BY <1>1, <1>2, <1>3, <1>4 DEF CatalogInv

(* Only Replace writes the file, and it writes what its user saw.          *)
LEMMA ReplaceWritesShown ==
  ASSUME CatalogInv, NEW p \in Procs, Replace(p)
  PROVE  /\ shown[p] # None /\ shown[p].catalog = catalog
         /\ catalog' = Updated(catalog, shown[p])
BY DEF CatalogInv, SaverInv, Replace, At, Holding

LEMMA ReplaceInv == ASSUME CatalogInv, NEW p \in Procs, Replace(p) PROVE CatalogInv'
<1>1. SaverInv(p) /\ At(p, "replace")
  BY DEF CatalogInv, Replace
<1>2. /\ proc' = [q \in Procs |-> IF q = p THEN proc'[q] ELSE proc[q]]
      /\ proc'[p].pc = "sync" /\ proc'[p].change = proc[p].change /\ Shaped(proc'[p])
      /\ \A q \in Procs : q # p => proc'[q] = proc[q]
      /\ shown' = shown /\ rules' = rules /\ catalog' = Updated(catalog, proc[p].change)
  <2>1. PICK l : l = [proc[p] EXCEPT !.pc = "sync"]
    OBVIOUS
  <2>2. l = [pc |-> "sync", request |-> proc[p].request, saving |-> proc[p].saving,
             read |-> proc[p].read, change |-> proc[p].change]
    BY <1>1, <2>1 DEF SaverInv, Shaped
  <2>3. proc' = [proc EXCEPT ![p] = l] /\ UNCHANGED <<rules, shown>>
    BY <2>1 DEF Replace, Becomes
  <2>4. catalog' = Updated(catalog, proc[p].change)
    BY <1>1 DEF Replace, SaverInv
  <2>5. QED
    BY <2>2, <2>3, <2>4 DEF CatalogInv, Shaped
<1>3. Loads(catalog)'
  BY <1>1, <1>2 DEF SaverInv, Loads, Merges, RulesApply
<1>4. \A q \in Procs : q # p => proc[q].pc \notin Holding
  BY <1>1 DEF CatalogInv, OneHolder, At, Holding
<1>5. ASSUME NEW q \in Procs PROVE SaverInv(q)'
  <2>1. CASE q = p
    <3>1. shown[p] # None /\ proc[p].change = shown[p]
      BY <1>1 DEF SaverInv, At, Holding
    <3>2. Shaped(proc[p])' /\ shown'[p] = proc'[p].change /\ proc'[p].pc = "sync"
      BY <1>2, <3>1 DEF Shaped
    <3>3. SaverInv(p)'
      BY <1>2, <3>1, <3>2 DEF SaverInv, At
    <3>4. QED
      BY <2>1, <3>3
  <2>2. CASE q # p
    <3>1. SaverInv(q) /\ proc'[q] = proc[q] /\ shown'[q] = shown[q] /\ proc[q].pc # "replace"
      BY <1>2, <1>4, <2>2 DEF CatalogInv, Holding
    <3>2. QED
      BY <3>1 DEF SaverInv, At
  <2>3. QED
    BY <2>1, <2>2
<1>6. OneHolder'
  BY <1>2, <1>4 DEF OneHolder
<1>7. QED
  BY <1>2, <1>3, <1>5, <1>6 DEF CatalogInv, CatalogLoads

LEMMA ProposeInv == ASSUME CatalogInv, NEW p \in Procs, Propose(p) PROVE CatalogInv'
<1> DEFINE change == ChangeOf(proc[p].request, proc[p].read)
<1>1. SaverInv(p) /\ At(p, "propose") /\ UNCHANGED <<rules, catalog>>
  BY DEF CatalogInv, Propose
<1>2. CASE Stop(p)
  <2>1. \A q \in Procs : q # p => shown'[q] = shown[q]
    BY <1>2 DEF Propose, CatalogInv
  <2>2. shown' = [q \in Procs |-> shown'[q]]
    BY <1>2 DEF Propose, CatalogInv
  <2>3. proc'[p] = Idle
    BY <1>2 DEF Stop, Becomes, CatalogInv
  <2>4. SaverInv(p)'
    BY <2>3 DEF SaverInv, Shaped, At, Idle, Holding
  <2>5. QED
    BY <1>1, <1>2, <2>1, <2>2, <2>4, CatalogMove DEF Stop, Idle, Holding
<1>3. CASE /\ proc[p].saving /\ change = shown[p]
           /\ Becomes(p, [proc[p] EXCEPT !.pc = "lock", !.change = change])
           /\ UNCHANGED shown
  <2>1. PICK l : l = [proc[p] EXCEPT !.pc = "lock", !.change = change]
    OBVIOUS
  <2>2. l = [pc |-> "lock", request |-> proc[p].request, saving |-> proc[p].saving,
             read |-> proc[p].read, change |-> change]
    BY <1>1, <2>1 DEF SaverInv, Shaped
  <2>3. proc'[p] = l
    BY <1>3, <2>1 DEF Becomes, CatalogInv
  <2>4. SaverInv(p)'
    BY <1>1, <1>3, <2>2, <2>3 DEF SaverInv, Shaped, At, Holding
  <2>5. QED
    BY <1>1, <1>3, <2>1, <2>2, <2>4, CatalogMove DEF CatalogInv, Holding
<1>4. QED
  BY <1>2, <1>3 DEF Propose

(* The steps that only change what one process holds.                      *)
LEMMA OthersInv ==
  ASSUME CatalogInv, NEW p \in Procs,
         Preview(p) \/ Save(p) \/ Lock(p) \/ Recheck(p) \/ Return(p) \/ Fail(p)
  PROVE  CatalogInv'
<1>1. SaverInv(p) /\ UNCHANGED <<rules, catalog, shown>>
  BY DEF CatalogInv, Preview, Save, Lock, Recheck, Return, Fail
<1>2. ASSUME NEW l, Becomes(p, l), Shaped(l),
             l.saving /\ l.pc = "propose" => shown[p] # None,
             l.pc \in {"lock"} \cup Holding => shown[p] # None /\ l.change = shown[p],
             l.pc = "replace" => /\ l.read = catalog /\ l.change.catalog = catalog
                                 /\ Loads(Updated(catalog, l.change)),
             l.pc \in Holding => proc[p].pc \in Holding \/ ~Locked
      PROVE  CatalogInv'
  <2>1. proc'[p] = l
    BY <1>2 DEF Becomes, CatalogInv
  <2>2. l.pc = "replace" => Loads(Updated(catalog, proc[p].change))'
    BY <1>1, <1>2, <2>1 DEF Loads, Merges, RulesApply, Updated
  <2>3. SaverInv(p)'
    BY <1>1, <1>2, <2>1, <2>2 DEF SaverInv, At
  <2>4. shown' = [q \in Procs |-> shown'[q]] /\ \A q \in Procs : shown'[q] = shown[q]
    BY <1>1 DEF CatalogInv
  <2>5. QED
    BY <1>1, <1>2, <2>3, <2>4, CatalogMove
<1>3. CASE Stop(p)
  BY <1>2, <1>3 DEF Stop, Idle, Shaped, Holding
<1>4. CASE Preview(p)
  <2>1. PICK q \in Requests :
          Becomes(p, [Idle EXCEPT !.pc = "propose", !.request = q, !.read = catalog])
    BY <1>4 DEF Preview
  <2>2. PICK l : l = [Idle EXCEPT !.pc = "propose", !.request = q, !.read = catalog]
    OBVIOUS
  <2>3. Shaped(l) /\ l.pc = "propose" /\ ~l.saving
    BY <2>2 DEF Idle, Shaped
  <2>4. QED
    BY <1>2, <2>1, <2>2, <2>3 DEF Holding
<1>5. CASE Save(p)
  <2>1. PICK l : l = [Idle EXCEPT !.pc = "propose", !.request = shown[p].request,
                                  !.saving = TRUE, !.read = catalog]
    OBVIOUS
  <2>2. Shaped(l) /\ l.pc = "propose"
    BY <2>1 DEF Idle, Shaped
  <2>3. Becomes(p, l) /\ shown[p] # None
    BY <1>5, <2>1 DEF Save
  <2>4. QED
    BY <1>2, <2>2, <2>3 DEF Holding
<1>6. CASE Lock(p)
  <2>1. PICK l : l = [proc[p] EXCEPT !.pc = "recheck"]
    OBVIOUS
  <2>2. l = [pc |-> "recheck", request |-> proc[p].request, saving |-> proc[p].saving,
             read |-> proc[p].read, change |-> proc[p].change]
    BY <1>1, <2>1 DEF SaverInv, Shaped
  <2>3. Becomes(p, l) /\ ~Locked /\ At(p, "lock")
    BY <1>6, <2>1 DEF Lock
  <2>4. QED
    BY <1>1, <1>2, <2>2, <2>3 DEF SaverInv, Shaped, At, Holding
<1>7. CASE Recheck(p) /\ StillHolds(p)
  <2>1. PICK l : l = [proc[p] EXCEPT !.pc = "replace", !.read = catalog]
    OBVIOUS
  <2>2. l = [pc |-> "replace", request |-> proc[p].request, saving |-> proc[p].saving,
             read |-> catalog, change |-> proc[p].change]
    BY <1>1, <2>1 DEF SaverInv, Shaped
  <2>3. Becomes(p, l) /\ At(p, "recheck")
    BY <1>7, <2>1 DEF Recheck
  <2>4. catalog = proc[p].change.catalog /\ Loads(Updated(catalog, proc[p].change))
    BY <1>7 DEF StillHolds, Proposes, Validated
  <2>5. QED
    BY <1>1, <1>2, <2>2, <2>3, <2>4 DEF SaverInv, Shaped, At, Holding
<1>8. QED
  BY <1>3, <1>4, <1>5, <1>6, <1>7 DEF Recheck, Return, Fail

LEMMA LearnRuleInv == CatalogInv /\ LearnRule => CatalogInv'
<1>1. SUFFICES ASSUME CatalogInv, UNCHANGED <<rules, catalog, shown, proc>> PROVE CatalogInv'
  BY DEF LearnRule
<1>2. \A cat : Loads(cat) <=> Loads(cat)'
  BY <1>1 DEF Loads, Merges, RulesApply
<1>3. QED
  BY <1>1, <1>2 DEF CatalogInv, SaverInv, OneHolder, CatalogLoads, At, Updated

LEMMA CatalogStep == CatalogInv /\ [CatalogNext]_catalogVars => CatalogInv'
<1>1. SUFFICES ASSUME CatalogInv, [CatalogNext]_catalogVars PROVE CatalogInv'
  OBVIOUS
<1>2. CASE UNCHANGED catalogVars
  <2>1. \A cat : Loads(cat) <=> Loads(cat)'
    BY <1>2 DEF catalogVars, Loads, Merges, RulesApply
  <2>2. QED
    BY <1>1, <1>2, <2>1 DEF catalogVars, CatalogInv, SaverInv, OneHolder, CatalogLoads, At, Updated
<1>3. QED
  BY <1>1, <1>2, ReplaceInv, ProposeInv, OthersInv, LearnRuleInv DEF CatalogNext

LEMMA OnlyReplaceWrites ==
  ASSUME CatalogInv, [CatalogNext]_catalogVars, catalog' # catalog
  PROVE  \E p \in Procs : /\ shown[p] # None /\ shown[p].catalog = catalog
                          /\ catalog' = Updated(catalog, shown[p])
<1>1. PICK p \in Procs : Replace(p)
  BY DEF CatalogNext, catalogVars, Preview, Save, Propose, Lock, Recheck, Return, Fail, LearnRule
<1>2. QED
  BY <1>1, ReplaceWritesShown

LEMMA CatalogStepOfJudgement ==
  [JudgementNext]_judgementVars => [CatalogNext]_catalogVars
BY DEF JudgementNext, Judge, judgementVars, catalogVars

LEMMA CatalogInvariant == JudgementSpec => []CatalogInv
<1>1. JudgementInit => CatalogInv
  BY CatalogInitInv DEF JudgementInit
<1>2. QED
  BY <1>1, CatalogStep, CatalogStepOfJudgement, PTL DEF JudgementSpec

(* If the configuration directory loads, then so does what any processes   *)
(* ever save of categories (save_change of categories.py).                 *)
THEOREM SavedCatalogLoads == JudgementSpec => [](Loads(<<>>) => CatalogLoads)
  BY CatalogInvariant, PTL DEF CatalogInv

(* The file only becomes what a user saw, applied to the very records the  *)
(* preview was computed from (save_change's two comparisons).              *)
THEOREM CatalogSavedAsShown == JudgementSpec => SavedAsShown
<1>1. CatalogInv /\ [CatalogNext]_catalogVars =>
        [catalog' # catalog =>
           \E p \in Procs : /\ shown[p] # None
                            /\ shown[p].catalog = catalog
                            /\ catalog' = Updated(catalog, shown[p])]_catalogVars
  BY OnlyReplaceWrites
<1>2. QED
  BY <1>1, CatalogInvariant, CatalogStepOfJudgement, PTL DEF JudgementSpec, SavedAsShown
------------------------------------------------------------------------------
(* `l` shows no more of a message than `m`: what it lacks, it says it      *)
(* lacks.                                                                  *)
ShowsLess(l, m) ==
  /\ l.sender # None => l.sender = m.sender
  /\ l.subject # None => l.subject = m.subject
  /\ l.labels # None => l.labels = m.labels
  /\ l.age >= 0 => l.age = m.age

LEMMA WithoutShowsLess ==
  ASSUME NEW m \in Mails, NEW lost
  PROVE  ShowsLess(Without(m, lost), m)
<1>1. m = [sender |-> m.sender, subject |-> m.subject, labels |-> m.labels, age |-> m.age]
  BY MailsAssumption
<1>2. PICK w : w = Without(m, lost)
  OBVIOUS
<1>3. /\ w.sender  = IF "sender" \in lost THEN None ELSE m.sender
      /\ w.subject = IF "subject" \in lost THEN None ELSE m.subject
      /\ w.labels  = IF "labels" \in lost THEN None ELSE m.labels
      /\ w.age     = IF "age" \in lost THEN -1 ELSE m.age
  BY <1>1, <1>2 DEF Without
<1>4. ~(-1 >= 0)
  OBVIOUS
<1>5. QED
  BY <1>2, <1>3, <1>4 DEF ShowsLess

(* Which part of a message each condition looks at.                        *)
LEMMA FieldParts ==
  ASSUME NEW f \in Fields
  PROVE  FieldOf[f] = CASE f \in {"sender_emails_any", "sender_domains_any"} -> "sender"
           [] f \in {"subject_contains_any", "subject_contains_all"} -> "subject"
           [] f \in {"label_ids_any", "label_ids_all"} -> "label_ids"
           [] f \in {"min_age_days", "max_age_days"} -> "received_at"
           [] OTHER -> "uninspected"
BY Zenon DEF FieldOf

(* A condition that was decided on less is decided the same on more.       *)
LEMMA OutcomeStays ==
  ASSUME NEW f \in Fields, NEW spec, NEW l, NEW m, ShowsLess(l, m),
         Outcome(f, spec, l) # "unknown"
  PROVE  Outcome(f, spec, m) = Outcome(f, spec, l)
<1>1. Inspected(f, l)
  BY DEF Outcome
<1>2. CASE f \in {"sender_emails_any", "sender_domains_any"}
  <2>1. FieldOf[f] = "sender"
    BY <1>2, FieldParts
  <2>2. l.sender # None
    BY <1>1, <2>1 DEF Inspected
  <2>3. l.sender = m.sender
    BY <2>2 DEF ShowsLess
  <2>4. Inspected(f, m)
    BY <2>1, <2>2, <2>3 DEF Inspected
  <2>5. Holds(f, spec, l) = Holds(f, spec, m)
    BY <1>2, <2>3 DEF Holds
  <2>6. QED
    BY <1>1, <2>4, <2>5 DEF Outcome
<1>3. CASE f \in {"subject_contains_any", "subject_contains_all"}
  <2>1. FieldOf[f] = "subject"
    BY <1>3, FieldParts
  <2>2. l.subject # None
    BY <1>1, <2>1 DEF Inspected
  <2>3. l.subject = m.subject
    BY <2>2 DEF ShowsLess
  <2>4. Inspected(f, m)
    BY <2>1, <2>2, <2>3 DEF Inspected
  <2>5. Holds(f, spec, l) = Holds(f, spec, m)
    BY <1>3, <2>3 DEF Holds
  <2>6. QED
    BY <1>1, <2>4, <2>5 DEF Outcome
<1>4. CASE f \in {"label_ids_any", "label_ids_all"}
  <2>1. FieldOf[f] = "label_ids"
    BY <1>4, FieldParts
  <2>2. l.labels # None
    BY <1>1, <2>1 DEF Inspected
  <2>3. l.labels = m.labels
    BY <2>2 DEF ShowsLess
  <2>4. Inspected(f, m)
    BY <2>1, <2>2, <2>3 DEF Inspected
  <2>5. Holds(f, spec, l) = Holds(f, spec, m)
    BY <1>4, <2>3 DEF Holds
  <2>6. QED
    BY <1>1, <2>4, <2>5 DEF Outcome
<1>5. CASE f \in {"min_age_days", "max_age_days"}
  <2>1. FieldOf[f] = "received_at"
    BY <1>5, FieldParts
  <2>2. l.age >= 0
    BY <1>1, <2>1 DEF Inspected
  <2>3. l.age = m.age
    BY <2>2 DEF ShowsLess
  <2>4. Inspected(f, m)
    BY <2>1, <2>2, <2>3 DEF Inspected
  <2>5. Holds(f, spec, l) = Holds(f, spec, m)
    BY <1>5, <2>3 DEF Holds
  <2>6. QED
    BY <1>1, <2>4, <2>5 DEF Outcome
<1>6. CASE f \in {"body_contains_any", "relationship_status_any"}
  <2>1. FieldOf[f] = "uninspected"
    BY <1>6, FieldParts
  <2>2. QED
    BY <1>1, <2>1 DEF Inspected
<1>7. QED
  BY <1>2, <1>3, <1>4, <1>5, <1>6 DEF Fields

(* The same of a whole specification.                                      *)
LEMMA MatchStays ==
  ASSUME NEW spec, DOMAIN spec.when \subseteq Fields, NEW l, NEW m, ShowsLess(l, m),
         Match(spec, l) # "unknown"
  PROVE  Match(spec, m) = Match(spec, l)
<1>1. CASE \E f \in DOMAIN spec.when : Outcome(f, spec, l) = "not_matched"
  <2>1. PICK f \in DOMAIN spec.when : Outcome(f, spec, l) = "not_matched"
    BY <1>1
  <2>2. Outcome(f, spec, m) = "not_matched"
    BY <2>1, OutcomeStays
  <2>3. "not_matched" \in Outcomes(spec, l) /\ "not_matched" \in Outcomes(spec, m)
    BY <2>1, <2>2 DEF Outcomes
  <2>4. QED
    BY <2>3 DEF Match, Together
<1>2. CASE \A f \in DOMAIN spec.when : Outcome(f, spec, l) # "not_matched"
  <2>1. "not_matched" \notin Outcomes(spec, l)
    BY <1>2 DEF Outcomes
  <2>2. "unknown" \notin Outcomes(spec, l)
    BY <2>1 DEF Match, Together
  <2>3. \A f \in DOMAIN spec.when : Outcome(f, spec, l) # "unknown"
    BY <2>2 DEF Outcomes
  <2>4. \A f \in DOMAIN spec.when : Outcome(f, spec, m) = Outcome(f, spec, l)
    BY <2>3, OutcomeStays
  <2>5. Outcomes(spec, m) = Outcomes(spec, l)
    BY <2>4 DEF Outcomes
  <2>6. QED
    BY <2>5 DEF Match
<1>3. QED
  BY <1>1, <1>2

(* The status of a rule under a message.                                   *)
StatusOf(r, m) == Status(r, Match(r.match, m), Exclusion(r, m))

LEMMA MatchValues ==
  ASSUME NEW spec, NEW m
  PROVE  Match(spec, m) \in {"matched", "unknown", "not_matched"}
BY DEF Match, Together

(* A rule that less of the message has decided stays decided.              *)
LEMMA StatusStays ==
  ASSUME NEW r, RuleAllowed(r), NEW l, NEW m, ShowsLess(l, m), StatusOf(r, l) # "unresolved"
  PROVE  /\ StatusOf(r, m) # "unresolved"
         /\ StatusOf(r, m) = "applicable" <=> StatusOf(r, l) = "applicable"
<1>1. DOMAIN r.match.when \subseteq Fields
  BY DEF RuleAllowed, SpecAllowed
<1>2. Match(r.match, l) # "unknown" => Match(r.match, m) = Match(r.match, l)
  BY <1>1, MatchStays
<1>3. Exclusion(r, l) # "unknown" => Exclusion(r, m) = Exclusion(r, l)
  BY MatchStays DEF Exclusion, RuleAllowed, SpecAllowed
<1>4. /\ Match(r.match, l) \in {"matched", "unknown", "not_matched"}
      /\ Exclusion(r, l) \in {"matched", "unknown", "not_matched"}
  BY MatchValues DEF Exclusion
<1>5. QED
  BY <1>2, <1>3, <1>4 DEF StatusOf, Status

(* The rules that apply and those that are undecided, by their status.     *)
LEMMA AssessedSets ==
  ASSUME NEW R, NEW m
  PROVE  /\ Assessed(R, m).applicable = {r \in R : StatusOf(r, m) = "applicable"}
         /\ Assessed(R, m).undecided = {r \in R : StatusOf(r, m) = "unresolved"}
         /\ Assessed(R, m).message = m
<1>1. PICK statuses : statuses = [r \in R |-> StatusOf(r, m)]
  OBVIOUS
<1>2. Assessed(R, m) = Sorted(statuses, m)
  BY <1>1 DEF Assessed, StatusOf
<1>3. DOMAIN statuses = R /\ \A r \in R : statuses[r] = StatusOf(r, m)
  BY <1>1
<1>4. QED
  BY <1>2, <1>3 DEF Sorted

(* If less of the message left no rule undecided, more of it gives every   *)
(* rule the same standing.                                                 *)
LEMMA AssessedStays ==
  ASSUME NEW R, \A r \in R : RuleAllowed(r), NEW l, NEW m, ShowsLess(l, m),
         Assessed(R, l).undecided = {}
  PROVE  /\ Assessed(R, m).undecided = {}
         /\ Assessed(R, m).applicable = Assessed(R, l).applicable
<1>1. \A r \in R : StatusOf(r, l) # "unresolved"
  BY AssessedSets
<1>2. \A r \in R : /\ StatusOf(r, m) # "unresolved"
                   /\ StatusOf(r, m) = "applicable" <=> StatusOf(r, l) = "applicable"
  BY <1>1, StatusStays
<1>3. /\ {r \in R : StatusOf(r, m) = "unresolved"} = {}
      /\ {r \in R : StatusOf(r, m) = "applicable"} = {r \in R : StatusOf(r, l) = "applicable"}
  BY <1>2
<1>4. /\ Assessed(R, m).undecided = {r \in R : StatusOf(r, m) = "unresolved"}
      /\ Assessed(R, m).applicable = {r \in R : StatusOf(r, m) = "applicable"}
      /\ Assessed(R, l).applicable = {r \in R : StatusOf(r, l) = "applicable"}
  BY AssessedSets
<1>5. QED
  BY <1>3, <1>4

(* The evidence for a rule that applies is every field it looks at.        *)
LEMMA ApplicableEvidence ==
  ASSUME NEW R, NEW m, NEW r \in Assessed(R, m).applicable
  PROVE  Evidence(r, m) = {FieldOf[f] : f \in DOMAIN r.match.when}
<1>1. StatusOf(r, m) = "applicable"
  BY AssessedSets
<1>2. Match(r.match, m) = "matched"
  BY <1>1, MatchValues DEF StatusOf, Status
<1>3. "not_matched" \notin Outcomes(r.match, m) /\ "unknown" \notin Outcomes(r.match, m)
  BY <1>2 DEF Match, Together
<1>4. \A f \in DOMAIN r.match.when : Outcome(f, r.match, m) \in Outcomes(r.match, m)
  BY DEF Outcomes
<1>5. \A f \in DOMAIN r.match.when : Outcome(f, r.match, m) = "matched"
  BY <1>3, <1>4 DEF Outcome
<1>6. {f \in DOMAIN r.match.when : Outcome(f, r.match, m) = "matched"} = DOMAIN r.match.when
  BY <1>5
<1>7. QED
  BY <1>6 DEF Evidence

(* What a judgement is made of: which rules apply, that none is undecided, *)
(* and the evidence for those that apply.                                  *)
SameGrounds(a, b) ==
  /\ a.applicable = b.applicable /\ a.undecided = {} /\ b.undecided = {}
  /\ \A r \in a.applicable : Evidence(r, a.message) = Evidence(r, b.message)

LEMMA LessGivesSameGrounds ==
  ASSUME NEW R, \A r \in R : RuleAllowed(r), NEW l, NEW m, ShowsLess(l, m),
         Assessed(R, l).undecided = {}
  PROVE  SameGrounds(Assessed(R, l), Assessed(R, m))
<1>1. /\ Assessed(R, m).undecided = {}
      /\ Assessed(R, m).applicable = Assessed(R, l).applicable
  BY AssessedStays
<1>2. \A r \in Assessed(R, l).applicable : Evidence(r, l) = Evidence(r, m)
  BY <1>1, ApplicableEvidence
<1>3. Assessed(R, l).message = l /\ Assessed(R, m).message = m
  BY AssessedSets
<1>4. QED
  BY <1>1, <1>2, <1>3 DEF SameGrounds

(* Everything that is shown of a classification rests on these grounds.    *)
LEMMA SameClassification ==
  ASSUME NEW a, NEW b, SameGrounds(a, b)
  PROVE  /\ Selected(a) = Selected(b) /\ CategoryConflict(a) = CategoryConflict(b)
         /\ CategoriesOf(a) = CategoriesOf(b) /\ Protected(a) = Protected(b)
         /\ Confidence(a) = Confidence(b) /\ ReviewReasons(a) = ReviewReasons(b)
         /\ States(a) = States(b) /\ Winners(a) = Winners(b)
<1>1. a.applicable = b.applicable /\ a.undecided = b.undecided
  BY DEF SameGrounds
<1>2. Selected(a) = Selected(b) /\ Winners(a) = Winners(b)
  BY <1>1 DEF Selected, Winners
<1>3. Choices(a) = Choices(b)
  BY <1>2 DEF Choices
<1>4. CategoryConflict(a) = CategoryConflict(b) /\ CategoriesOf(a) = CategoriesOf(b)
  BY <1>3 DEF CategoryConflict, CategoriesOf
<1>5. Protected(a) = Protected(b) /\ ProtectionConflict(a) = ProtectionConflict(b)
  BY <1>1 DEF Protected, ProtectionConflict
<1>6. Confidence(a) = Confidence(b)
  <2>1. Selected(a) \subseteq a.applicable
    BY DEF Selected, Best
  <2>2. {Grade(Evidence(r, a.message)) : r \in Selected(a)}
          = {Grade(Evidence(r, b.message)) : r \in Selected(b)}
    BY <1>2, <2>1 DEF SameGrounds
  <2>3. QED
    BY <1>1, <1>4, <1>5, <2>2 DEF Confidence
<1>7. ReviewReasons(a) = ReviewReasons(b)
  <2>1. (\E r \in a.applicable : r.state = "Review") = (\E r \in b.applicable : r.state = "Review")
    BY <1>1
  <2>2. /\ (CategoriesOf(a) = {}) = (CategoriesOf(b) = {})
        /\ (Band(Confidence(a)) # "high") = (Band(Confidence(b)) # "high")
        /\ (a.undecided # {}) = (b.undecided # {})
    BY <1>1, <1>4, <1>6
  <2>3. QED
    BY <1>4, <1>5, <2>1, <2>2, Zenon DEF ReviewReasons
<1>8. States(a) = States(b)
  BY <1>1, <1>7 DEF States, NeedsReview
<1>9. QED
  BY <1>2, <1>4, <1>5, <1>6, <1>7, <1>8
------------------------------------------------------------------------------
(* The least of some numbers is the one that is none above.                *)
LEMMA LeastIs ==
  ASSUME NEW S, S \subseteq Int, NEW n \in S, \A k \in S : n <= k
  PROVE  Least(S) = n
<1>1. \A j \in S : (\A k \in S : j <= k) => j = n
  BY Z3
<1>2. QED
  BY <1>1 DEF Least

(* A cleanup is what the winning rules lean to, and nothing withholds it.  *)
LEMMA CleanupMeans ==
  ASSUME NEW a, Action(a) \in Cleanup
  PROVE  /\ Leaning(Considered(a)) = Action(a) /\ Action(a) \in Considered(a)
         /\ ~(Cardinality(Considered(a)) > 1)
         /\ ~Withheld(Action(a), a)
<1>1. Action(a) # "mark_review" /\ Action(a) # "no_action"
  BY DEF Cleanup
<1>2. Leaning(Considered(a)) = Action(a)
  BY <1>1 DEF Action, Settled
<1>3. ~(Cardinality(Considered(a)) > 1) /\ Considered(a) # {}
  BY <1>1, <1>2 DEF Leaning
<1>4. Action(a) = CHOOSE action \in Considered(a) : TRUE
  BY <1>2, <1>3 DEF Leaning
<1>5. Action(a) \in Considered(a)
  BY <1>3, <1>4
<1>6. ~Withheld(Action(a), a)
  BY <1>1, <1>2 DEF Action, Settled
<1>7. QED
  BY <1>2, <1>3, <1>5, <1>6

(* Where nothing is in doubt, the support alone caps the confidence.       *)
Base0(a) == IF a.applicable = {} THEN 100 ELSE 95

LEMMA UndoubtedConfidence ==
  ASSUME NEW a, NEW leaning, a.undecided = {}, ~Preserving(a),
         ~(Cardinality(Considered(a)) > 1)
  PROVE  ActionConfidence(leaning, a) = IF SupportCaps(a) = {} THEN Base0(a) ELSE 75
<1>1. ActionConfidence(leaning, a) = Least({Base0(a)} \cup SupportCaps(a) \cup {})
  BY DEF ActionConfidence, Base0
<1>2. SupportCaps(a) = {} \/ SupportCaps(a) = {75}
  BY DEF SupportCaps
<1>3. Base0(a) \in {95, 100}
  BY DEF Base0
<1>4. CASE SupportCaps(a) = {}
  <2>1. Least({Base0(a)}) = Base0(a)
    BY <1>3, LeastIs
  <2>2. {Base0(a)} \cup {} \cup {} = {Base0(a)}
    OBVIOUS
  <2>3. QED
    BY <1>1, <1>4, <2>1, <2>2
<1>5. CASE SupportCaps(a) = {75}
  <2>1. PICK S : S = {Base0(a)} \cup {75} \cup {}
    OBVIOUS
  <2>2. S \subseteq Int /\ 75 \in S /\ \A k \in S : 75 <= k
    BY <1>3, <2>1
  <2>3. Least(S) = 75
    BY <2>2, LeastIs
  <2>4. SupportCaps(a) # {}
    BY <1>5
  <2>5. QED
    BY <1>1, <1>5, <2>1, <2>3, <2>4
<1>6. QED
  BY <1>2, <1>4, <1>5

(* No cleanup is recommended that more of the message would withhold.      *)
LEMMA CleanupStays ==
  ASSUME NEW R, \A r \in R : RuleAllowed(r), NEW l, NEW m, ShowsLess(l, m),
         Action(Assessed(R, l)) \in Cleanup
  PROVE  Action(Assessed(R, m)) = Action(Assessed(R, l))
<1>1. PICK a : a = Assessed(R, l)
  OBVIOUS
<1>2. PICK b : b = Assessed(R, m)
  OBVIOUS
<1>3. PICK act : act = Action(a)
  OBVIOUS
<1>4. /\ Leaning(Considered(a)) = act /\ act \in Considered(a) /\ act \in Cleanup
      /\ ~(Cardinality(Considered(a)) > 1)
      /\ ~Withheld(act, a)
  BY <1>1, <1>3, CleanupMeans
<1>5. a.undecided = {} /\ ~Preserving(a)
  BY <1>4 DEF Withheld
<1>6. SameGrounds(a, b)
  BY <1>1, <1>2, <1>5, LessGivesSameGrounds
<1>7. /\ Protected(a) = Protected(b) /\ Confidence(a) = Confidence(b)
      /\ States(a) = States(b) /\ Winners(a) = Winners(b) /\ Considered(a) = Considered(b)
  BY <1>6, SameClassification DEF Considered
<1>8. ~Preserving(b)
  <2>1. ~Protected(b) /\ States(b) \cap SafetyStates = {}
    BY <1>5, <1>7 DEF Preserving
  <2>2. \A r \in b.applicable \cup b.undecided : ~Retains(r)
    BY <1>6, <2>1 DEF SameGrounds, Protected, Protects
  <2>3. QED
    BY <2>1, <2>2 DEF Preserving
<1>9. SupportCaps(a) = {} => SupportCaps(b) = {}
  <2>1. a.message.labels # None => b.message.labels # None
    BY <1>1, <1>2, AssessedSets DEF ShowsLess
  <2>2. \A r \in Winners(a) : Evidence(r, a.message) = Evidence(r, b.message)
    BY <1>6 DEF SameGrounds, Winners, Best
  <2>3. QED
    BY <1>7, <2>1, <2>2 DEF SupportCaps
<1>10. ~(ActionConfidence(act, b) < Threshold(act))
  <2>1. /\ ActionConfidence(act, a) = IF SupportCaps(a) = {} THEN Base0(a) ELSE 75
        /\ ActionConfidence(act, b) = IF SupportCaps(b) = {} THEN Base0(b) ELSE 75
    BY <1>4, <1>5, <1>6, <1>7, <1>8, UndoubtedConfidence DEF SameGrounds
  <2>2. Base0(a) = Base0(b) /\ Base0(a) \in {95, 100}
    BY <1>6 DEF SameGrounds, Base0
  <2>3. ~(ActionConfidence(act, a) < Threshold(act)) /\ Threshold(act) \in Int
    BY <1>4, <2>1, <2>2, DecisionAssumption DEF Withheld, Threshold
  <2>4. QED
    BY <1>9, <2>1, <2>2, <2>3
<1>11. ~Withheld(act, b)
  BY <1>4, <1>6, <1>7, <1>8, <1>10 DEF Withheld, SameGrounds
<1>12. QED
  BY <1>1, <1>2, <1>3, <1>4, <1>7, <1>11 DEF Action, Settled
------------------------------------------------------------------------------
(* What a cleanup that is recommended rests on.                            *)
LEMMA CleanupRests ==
  ASSUME NEW R, NEW m, Action(Assessed(R, m)) \in Cleanup
  PROVE  LET a == Assessed(R, m)
             asking == {r \in R : MayConcern(r, m) /\ r.action = Action(a)}
         IN  /\ \A r \in R : MayConcern(r, m) => ~Protects(r)
             /\ ReviewReasons(a) = {}
             /\ asking # {}
             /\ Action(a) = "trash" =>
                  /\ m.labels # None
                  /\ \E r \in asking : {"sender", "subject"} \subseteq Evidence(r, m)
<1>1. PICK a : a = Assessed(R, m)
  OBVIOUS
<1>2. PICK act : act = Action(a)
  OBVIOUS
<1>3. /\ act \in Cleanup /\ act \in Considered(a)
      /\ ~(Cardinality(Considered(a)) > 1) /\ ~Withheld(act, a)
  BY <1>1, <1>2, CleanupMeans
<1>4. a.undecided = {} /\ ~Preserving(a) /\ ~(ActionConfidence(act, a) < Threshold(act))
  BY <1>3 DEF Withheld
<1>5. /\ a.applicable = {r \in R : StatusOf(r, m) = "applicable"}
      /\ a.undecided = {r \in R : StatusOf(r, m) = "unresolved"}
      /\ a.message = m
  BY <1>1, AssessedSets
<1>6. \A r \in R : MayConcern(r, m) <=> StatusOf(r, m) \in {"applicable", "unresolved"}
  <2>1. ASSUME NEW r \in R
        PROVE  MayConcern(r, m) <=> StatusOf(r, m) \in {"applicable", "unresolved"}
    <3>1. "not_matched" \in Outcomes(r.match, m) <=> Match(r.match, m) = "not_matched"
      BY DEF Match, Together
    <3>2. r.exclude # None =>
            ((\E o \in Outcomes(r.exclude, m) : o # "matched") <=> Exclusion(r, m) # "matched")
      <4>1. Outcomes(r.exclude, m) \subseteq {"matched", "unknown", "not_matched"}
        BY DEF Outcomes, Outcome
      <4>2. QED
        BY <4>1 DEF Exclusion, Match, Together
    <3>3. r.exclude = None => Exclusion(r, m) # "matched"
      BY DEF Exclusion
    <3>4. /\ Match(r.match, m) \in {"matched", "unknown", "not_matched"}
          /\ Exclusion(r, m) \in {"matched", "unknown", "not_matched"}
      BY MatchValues DEF Exclusion
    <3>5. QED
      BY <3>1, <3>2, <3>3, <3>4, Zenon DEF MayConcern, StatusOf, Status
  <2>2. QED
    BY <2>1
<1>7. \A r \in R : MayConcern(r, m) => r \in a.applicable
  BY <1>4, <1>5, <1>6
<1>8. \A r \in R : MayConcern(r, m) => ~Protects(r)
  BY <1>4, <1>7 DEF Preserving, Protected
<1>9. ReviewReasons(a) = {}
  BY <1>4 DEF Preserving, States, NeedsReview, SafetyStates
<1>10. PICK r \in Winners(a) : r.action = act
  BY <1>3 DEF Considered
<1>11. r \in R /\ MayConcern(r, m)
  BY <1>5, <1>6, <1>10 DEF Winners, Best
<1>12. ASSUME act = "trash"
       PROVE  m.labels # None /\ {"sender", "subject"} \subseteq Evidence(r, m)
  <2>1. SupportCaps(a) = {}
    <3>1. ActionConfidence(act, a) = IF SupportCaps(a) = {} THEN Base0(a) ELSE 75
      BY <1>3, <1>4, UndoubtedConfidence
    <3>2. Threshold(act) \in Int /\ Threshold(act) > 75
      BY <1>12, DecisionAssumption DEF Threshold
    <3>3. QED
      BY <1>4, <3>1, <3>2
  <2>2. Considered(a) \cap Mutations # {}
    BY <1>3 DEF Mutations
  <2>3. QED
    BY <1>3, <1>5, <1>10, <2>1, <2>2 DEF SupportCaps
<1>13. QED
  BY <1>1, <1>2, <1>8, <1>9, <1>10, <1>11, <1>12

(* A rule that could not be decided is a reason for review.                *)
LEMMA UndecidedIsAReason ==
  ASSUME NEW a, a.undecided # {} PROVE "unknown_eligibility" \in ReviewReasons(a)
<1> DEFINE applies ==
      [category_unresolved           |-> CategoriesOf(a) = {},
       evidence_below_high_threshold |-> Band(Confidence(a)) # "high",
       classification_conflict       |-> CategoryConflict(a),
       unknown_eligibility           |-> a.undecided # {},
       protection_conflict           |-> ProtectionConflict(a),
       explicit_review_signal        |-> \E r \in a.applicable : r.state = "Review"]
<1>1. ReviewReasons(a) = {reason \in DOMAIN applies : applies[reason]}
  BY DEF ReviewReasons
<1>2. "unknown_eligibility" \in DOMAIN applies
  OBVIOUS
<1>3. applies["unknown_eligibility"] = (a.undecided # {})
  BY Zenon
<1>4. applies["unknown_eligibility"]
  BY <1>3
<1> HIDE DEF applies
<1>5. QED
  BY <1>1, <1>2, <1>4, Zenon

(* The judgement shown is the one of these rules on this read, and the     *)
(* read shows no more than the message.                                    *)
JudgedInv ==
  /\ rules \in Policies
  /\ ShowsLess(read, mail)
  /\ judged # None => judged = JudgementOf(Assessed(rules, read), Action(Assessed(rules, read)))

LEMMA JudgedInvariant == JudgementSpec => []JudgedInv
<1>1. JudgementInit => JudgedInv
  BY WithoutShowsLess DEF JudgementInit, JudgedInv
<1>2. JudgedInv /\ [JudgementNext]_judgementVars => JudgedInv'
  <2>1. SUFFICES ASSUME JudgedInv, [JudgementNext]_judgementVars PROVE JudgedInv'
    OBVIOUS
  <2>2. UNCHANGED <<rules, mail, read>>
    BY <2>1 DEF JudgementNext, CatalogNext, Preview, Save, Propose, Lock, Recheck, Replace,
                Return, Fail, LearnRule, Judge, judgementVars, catalogVars
  <2>3. \/ judged' = judged
        \/ judged' = JudgementOf(Assessed(rules, read), Action(Assessed(rules, read)))
    BY <2>1 DEF JudgementNext, Judge, judgementVars
  <2>4. QED
    BY <2>1, <2>2, <2>3 DEF JudgedInv
<1>3. QED
  BY <1>1, <1>2, PTL DEF JudgementSpec

(* Archive and Trash are recommended only on these grounds (propose_action *)
(* of actions.py over classify of classifier.py).                          *)
THEOREM CleanupsAreWarranted == JudgementSpec => []CleanupIsWarranted
<1>1. JudgedInv => CleanupIsWarranted
  <2>1. SUFFICES ASSUME JudgedInv, judged # None, judged.action \in Cleanup
                 PROVE  CleanupIsWarranted
    BY DEF CleanupIsWarranted
  <2>2. PICK a : a = Assessed(rules, read)
    OBVIOUS
  <2>3. judged.action = Action(a) /\ judged.review = ReviewReasons(a)
    BY <2>1, <2>2 DEF JudgedInv, JudgementOf
  <2>4. QED
    BY <2>1, <2>2, <2>3, CleanupRests DEF CleanupIsWarranted
<1>2. QED
  BY <1>1, JudgedInvariant, PTL

(* A read that lacks something recommends no cleanup the whole would not.  *)
THEOREM LessEvidenceIsSafe == JudgementSpec => []LessEvidenceNeverCleans
<1>1. JudgedInv => LessEvidenceNeverCleans
  <2>1. SUFFICES ASSUME JudgedInv, judged # None, judged.action \in Cleanup
                 PROVE  Action(Assessed(rules, mail)) = judged.action
    BY DEF LessEvidenceNeverCleans
  <2>2. judged.action = Action(Assessed(rules, read))
    BY <2>1 DEF JudgedInv, JudgementOf
  <2>3. \A r \in rules : RuleAllowed(r)
    BY <2>1, PoliciesAssumption DEF JudgedInv, RulesAllowed
  <2>4. QED
    BY <2>1, <2>2, <2>3, CleanupStays DEF JudgedInv
<1>2. QED
  BY <1>1, JudgedInvariant, PTL

(* Where no review is asked for, nothing that was missing would have       *)
(* changed the categories or the protection.                               *)
THEOREM NoReviewIsSettled == JudgementSpec => []NoReviewMeansSettled
<1>1. JudgedInv => NoReviewMeansSettled
  <2>1. SUFFICES ASSUME JudgedInv, judged # None, judged.review = {}
                 PROVE  NoReviewMeansSettled
    BY DEF NoReviewMeansSettled
  <2>2. PICK a : a = Assessed(rules, read)
    OBVIOUS
  <2>3. PICK b : b = Assessed(rules, mail)
    OBVIOUS
  <2>4. judged.categories = CategoriesOf(a) /\ ReviewReasons(a) = {}
    BY <2>1, <2>2 DEF JudgedInv, JudgementOf
  <2>5. a.undecided = {}
    BY <2>4, UndecidedIsAReason
  <2>6. \A r \in rules : RuleAllowed(r)
    BY <2>1, PoliciesAssumption DEF JudgedInv, RulesAllowed
  <2>7. SameGrounds(a, b)
    BY <2>1, <2>2, <2>3, <2>5, <2>6, LessGivesSameGrounds DEF JudgedInv
  <2>8. /\ CategoriesOf(b) = judged.categories /\ Protected(b) = Protected(a)
        /\ ReviewReasons(b) = {}
    BY <2>4, <2>7, SameClassification
  <2>9. QED
    BY <2>2, <2>3, <2>8 DEF NoReviewMeansSettled, NeedsReview
<1>2. QED
  BY <1>1, JudgedInvariant, PTL
==============================================================================
