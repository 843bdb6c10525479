---------------------------- MODULE TeachingProofs ----------------------------
(***************************************************************************)
(* Theorems about Teaching for every set of processes, teachings, messages *)
(* and categories: what survives any interleaving and any crash.           *)
(***************************************************************************)
EXTENDS Teaching, WorkQueueProofs

(* The operation teaches from an observation that shows a sender.          *)
Sighted(op) ==
  /\ op.item \in Items
  /\ op.category \in Categories
  /\ op.obs \in 1..Len(Evidence[op.item])
  /\ SenderOf[Content(op.item, op.obs)] # NoSender

Saving     == {"check", "write"}
Entered    == {"works", "record", "finish"}
WithRules  == Entered \cup {"loaded"}
AfterSave  == WithRules \cup {"saved", "rules"}
OnTeaching == AfterSave \cup {"resume", "preview"}
WithConfig == WithRules \cup {"check", "write", "rules", "scan", "retire"}

(* What a process at a program counter knows, although other processes     *)
(* went on since it read the stores.                                       *)
ProcInv(l) ==
  /\ l \in Process
  /\ l.pc = "confirmed" =>
       Sighted(l.draft) /\ l.draft.status = "intent" /\ l.draft.cfgAfter = NoConfig
  /\ l.pc \in OnTeaching => l.t \in Teachings /\ Exists(l.t)
  /\ l.pc \in WithConfig => l.cfg \in Configs
  /\ l.pc \in Saving =>
       /\ l.t \in Teachings => Exists(l.t) /\ l.rule = {RuleOf(teach[l.t])}
       /\ \E r \in Rules : l.rule = {r} /\ ~Conflicting(r, l.cfg.learned)
  /\ l.pc \in AfterSave => RuleOf(teach[l.t]) \in learned
  /\ l.pc \in WithRules => RuleOf(teach[l.t]) \in l.cfg.learned /\ l.cfg.learned \subseteq learned
  /\ l.pc = "record" => l.cursor \in Works /\ \A i \in Items : l.found[i] > 0 => IsGmail(i)

StoreInv ==
  /\ learned \subseteq Rules
  /\ catalog \in [Categories -> {"active", "retired"}]
  /\ seen \in [Items -> Nat]
  /\ \A i \in Items : seen[i] <= Len(Evidence[i])
  /\ teach \in [Teachings -> Operation]
  /\ taught \in [Teachings -> [Items -> Evaluation]]
  /\ clock \in Times

LedgerInv ==
  /\ \A t \in Teachings : Exists(t) => Sighted(teach[t])
  /\ \A t \in Teachings : teach[t].cfgAfter # NoConfig => Stages[teach[t].status] >= 3
  /\ RuleBeforeProgress
  /\ OneTeachingPerCandidate
  /\ EvaluationProvenance

(* The holder of the lock on the rules has read the file as it is.         *)
LockInv ==
  /\ \A p \in Procs : At(p, "write") => loc[p].cfg.learned = learned
  /\ \A p, q \in Procs : At(p, "write") /\ At(q, "write") => p = q

ProcsInv ==
  /\ loc \in [Procs -> Process]
  /\ \A p \in Procs : ProcInv(loc[p])

TeachInv == StoreInv /\ LedgerInv /\ LockInv /\ OneCategoryPerSender /\ ProcsInv

------------------------------------------------------------------------------
(* Stores only grow: rules stay, operations keep their identity and never  *)
(* go back, evaluations stay as they were made.                            *)
Grows ==
  /\ learned \subseteq learned'
  /\ \A t \in Teachings :
       /\ Exists(t) => Exists(t)' /\ RuleOf(teach'[t]) = RuleOf(teach[t])
       /\ Stages[teach'[t].status] >= Stages[teach[t].status]
       /\ teach[t].cfgAfter # NoConfig => teach'[t].cfgAfter = teach[t].cfgAfter
  /\ \A t \in Teachings, i \in Items :
       taught[t][i] # NoEvaluation => taught'[t][i] = taught[t][i]

LEMMA Stable ==
  ASSUME NEW l, ProcInv(l), Grows
  PROVE  ProcInv(l)'
BY DEF ProcInv, Grows, OnTeaching, AfterSave, WithRules, Entered, Saving

(* One process moves; what the others know stays true.                     *)
LEMMA MoveKeeps ==
  ASSUME NEW p \in Procs, NEW l, ProcsInv, Grows, Becomes(p, l), ProcInv(l)'
  PROVE  ProcsInv'
<1>1. l \in Process
  BY DEF ProcInv
<1>2. /\ loc' \in [Procs -> Process]
      /\ loc'[p] = l
      /\ \A q \in Procs : q # p => loc'[q] = loc[q]
  BY <1>1 DEF Becomes, ProcsInv
<1>3. ASSUME NEW q \in Procs PROVE ProcInv(loc[q])'
  <2>1. CASE q = p
    BY <2>1, <1>2 DEF ProcInv
  <2>2. CASE q # p
    <3>1. ProcInv(loc[q]) /\ loc'[q] = loc[q]
      BY <1>2, <2>2 DEF ProcsInv
    <3>2. QED
      BY <3>1 DEF ProcInv, Grows, OnTeaching, AfterSave, WithRules, Entered, Saving
  <2>3. QED BY <2>1, <2>2
<1>4. QED
  BY <1>2, <1>3 DEF ProcsInv

LEMMA LockKeeps ==
  ASSUME NEW p \in Procs, NEW l, ProcsInv, LockInv, Becomes(p, l), l.pc # "write",
         learned' = learned
  PROVE  LockInv'
<1>1. loc'[p] = l /\ \A q \in Procs : q # p => loc'[q] = loc[q]
  BY DEF Becomes, ProcsInv
<1>2. QED
  BY <1>1 DEF LockInv, At

LEMMA StatusNames ==
  Status = {"none", "intent", "rule_saved", "pending_reevaluation", "completed"}
BY DEF Status, Stages

LEMMA StageNumbers ==
  /\ Stages["none"] = 0 /\ Stages["intent"] = 1 /\ Stages["rule_saved"] = 2
  /\ Stages["pending_reevaluation"] = 3 /\ Stages["completed"] = 4
  /\ \A s \in Status : Stages[s] \in Nat
BY StatusNames DEF Stages

(* A step that leaves the files, the operations and the evaluations alone. *)
LEMMA QuietStores ==
  ASSUME TeachInv, UNCHANGED <<files, ledger>>
  PROVE  Grows /\ LedgerInv' /\ OneCategoryPerSender'
<1>1. UNCHANGED <<learned, catalog, teach, taught>>
  BY DEF files, ledger
<1>2. Grows
  BY <1>1, StageNumbers DEF Grows, Exists, TeachInv, StoreInv, Operation
<1>3. LedgerInv'
  BY <1>1 DEF TeachInv, LedgerInv, Exists, RuleBeforeProgress, OneTeachingPerCandidate,
              EvaluationProvenance
<1>4. OneCategoryPerSender'
  BY <1>1 DEF TeachInv, OneCategoryPerSender
<1>5. QED
  BY <1>2, <1>3, <1>4

(* A step that only changes what one process holds.                        *)
LEMMA PrivateStep ==
  ASSUME TeachInv, NEW p \in Procs, NEW l, Becomes(p, l), ProcInv(l), l.pc # "write",
         UNCHANGED <<files, ledger, seen, clock>>
  PROVE  TeachInv' /\ Grows
<1>1. UNCHANGED <<learned, catalog, teach, taught>>
  BY DEF files, ledger
<1>2. Grows /\ LedgerInv' /\ OneCategoryPerSender'
  BY QuietStores
<1>3. StoreInv'
  BY <1>1 DEF TeachInv, StoreInv
<1>4. LockInv'
  BY <1>1, LockKeeps DEF TeachInv
<1>5. ProcsInv'
  BY <1>2, Stable, MoveKeeps DEF TeachInv
<1>6. QED
  BY <1>2, <1>3, <1>4, <1>5 DEF TeachInv

LEMMA Literals ==
  /\ NoItem \in AnyItem /\ Items \subseteq AnyItem
  /\ NoSender \in AnyCategory /\ Categories \subseteq AnyCategory
  /\ NoTeaching \in AnyTeaching /\ Teachings \subseteq AnyTeaching
  /\ NoConfig \in AnyConfig /\ Configs \subseteq AnyConfig
  /\ 0 \in AnyWork /\ Works \subseteq AnyWork
  /\ 0 \in Times
  /\ {} \in SomeRules /\ {} \in SomeWorks /\ {} \in SomeItems
  /\ [i \in Items |-> 0] \in Pins
  /\ FALSE \in Flag /\ TRUE \in Flag
BY QueueAssumption
   DEF AnyItem, AnyCategory, AnyTeaching, AnyConfig, AnyWork, Times, SomeRules, SomeWorks, SomeItems, Pins, Flag

LEMMA IdleIsFine == ProcInv(Idle) /\ Idle.pc = "idle"
<1>1. NoOperation \in Operation
  BY StatusNames, Literals DEF NoOperation, Operation
<1>2. "idle" \in Counters /\ "none" \in Status
  BY StatusNames DEF Counters
<1>3. Idle \in Process
  BY <1>1, <1>2, Literals DEF Idle, Process
<1>4. Idle.pc = "idle"
  BY DEF Idle
<1>5. QED
  BY <1>3, <1>4
     DEF ProcInv, OnTeaching, AfterSave, WithRules, Entered, Saving, WithConfig

(* Return, an exception, or death.                                         *)
LEMMA StopStep ==
  ASSUME TeachInv, NEW p \in Procs, Stop(p), UNCHANGED <<files, ledger, seen, clock>>
  PROVE  TeachInv' /\ Grows
BY IdleIsFine, PrivateStep DEF Stop

LEMMA RuleIsRule ==
  ASSUME NEW op, Sighted(op)
  PROVE  RuleOf(op) \in Rules
<1>1. Content(op.item, op.obs) \in Contents
  BY TeachingAssumption DEF Sighted, Content
<1>2. QED
  BY <1>1 DEF Sighted, RuleOf, Rules

LEMMA CurrentConfigIsConfig ==
  ASSUME StoreInv
  PROVE  CurrentConfig \in Configs
BY DEF StoreInv, CurrentConfig, Configs

------------------------------------------------------------------------------
LEMMA ConfirmStep ==
  ASSUME TeachInv, NEW p \in Procs, NEW w \in Works, NEW i \in Items,
         NEW c \in Categories, Confirm(p, w, i, c)
  PROVE  TeachInv' /\ Grows
<1> DEFINE draft == [work |-> w, item |-> i, obs |-> seen[i], category |-> c,
              cfgBefore |-> CurrentConfig, cfgAfter |-> NoConfig, status |-> "intent"]
           known == {t \in Teachings : Exists(t) /\ SamePreview(teach[t], draft)}
           known1 == IF known = {} THEN NoTeaching ELSE CHOOSE t \in known : TRUE
           l == [Idle EXCEPT !.pc = "confirmed", !.draft = draft, !.t = known1]
<1>1. /\ Becomes(p, l)
      /\ UNCHANGED <<files, ledger, seen, clock>>
      /\ seen[i] > 0 /\ SenderOf[Content(i, seen[i])] # NoSender
  BY DEF Confirm
<1>2. draft \in Operation
  BY CurrentConfigIsConfig, StatusNames, Literals DEF TeachInv, StoreInv, Operation
<1>3. Sighted(draft)
  BY <1>1, TeachingAssumption DEF TeachInv, StoreInv, Sighted
<1>4. draft.status = "intent" /\ draft.cfgAfter = NoConfig
  OBVIOUS
<1>5. known1 \in AnyTeaching
  BY Literals
<1>6. "confirmed" \in Counters
  BY DEF Counters
<1> HIDE DEF draft, known1
<1>7. l \in Process /\ l.pc = "confirmed" /\ l.draft = draft
  BY IdleIsFine, <1>2, <1>5, <1>6 DEF ProcInv, Process
<1> HIDE DEF l
<1>8. ProcInv(l)
  BY <1>3, <1>4, <1>7
     DEF ProcInv, OnTeaching, AfterSave, WithRules, Entered, Saving, WithConfig
<1>9. QED
  BY <1>1, <1>7, <1>8, PrivateStep

(* A step that writes the operations or the evaluations.                   *)
LEMMA LedgerStep ==
  ASSUME TeachInv, NEW p \in Procs, NEW l, Becomes(p, l), UNCHANGED <<files, seen, clock>>,
         teach' \in [Teachings -> Operation],
         taught' \in [Teachings -> [Items -> Evaluation]],
         Grows, LedgerInv', ProcInv(l)', l.pc # "write"
  PROVE  TeachInv'
<1>1. learned' = learned /\ catalog' = catalog
  BY DEF files
<1>2. StoreInv' /\ OneCategoryPerSender'
  BY <1>1 DEF TeachInv, StoreInv, OneCategoryPerSender
<1>3. LockInv' /\ ProcsInv'
  BY <1>1, LockKeeps, MoveKeeps DEF TeachInv
<1>4. QED
  BY <1>2, <1>3 DEF TeachInv

(* A process that goes on with an operation of the database.               *)
LEMMA Resuming ==
  ASSUME TeachInv, NEW t \in Teachings
  PROVE  LET l == [Idle EXCEPT !.pc = "resume", !.t = t]
         IN  l \in Process /\ l.pc = "resume" /\ l.t = t
<1>1. t \in AnyTeaching /\ "resume" \in Counters
  BY Literals DEF Counters
<1>2. QED
  BY <1>1, IdleIsFine DEF ProcInv, Process

LEMMA CreateIntentStep ==
  ASSUME TeachInv, NEW p \in Procs, CreateIntent(p)
  PROVE  TeachInv' /\ Grows
<1> DEFINE draft == loc[p].draft
           l(t) == [Idle EXCEPT !.pc = "resume", !.t = t]
<1>1. /\ loc[p] \in Process
      /\ Sighted(draft) /\ draft.status = "intent" /\ draft.cfgAfter = NoConfig
  BY DEF CreateIntent, At, TeachInv, ProcsInv, ProcInv
<1>2. draft \in Operation
  BY <1>1 DEF Process
<1>3. ASSUME NEW t \in Teachings, Prior(draft) = {}, ~Exists(t),
             teach' = [teach EXCEPT ![t] = draft], Becomes(p, l(t)),
             UNCHANGED <<files, taught, seen, clock>>
      PROVE  TeachInv' /\ Grows
  <2>1. /\ teach' \in [Teachings -> Operation]
        /\ teach'[t] = draft
        /\ \A u \in Teachings : u # t => teach'[u] = teach[u]
    BY <1>2, <1>3 DEF TeachInv, StoreInv
  <2>2. learned' = learned /\ taught' = taught
    BY <1>3 DEF files
  <2>3. taught[t] = [i \in Items |-> NoEvaluation]
    BY <1>3, StageNumbers
       DEF Exists, TeachInv, LedgerInv, EvaluationProvenance, StoreInv, Evaluation
  <2>4. teach[t].status = "none" /\ teach[t].cfgAfter = NoConfig
    BY <1>3, StageNumbers DEF Exists, TeachInv, LedgerInv
  <2>5. Grows
    BY <2>1, <2>2, <2>4, <1>1, <1>3, StageNumbers
       DEF Grows, Exists, TeachInv, StoreInv, Operation
  <2>6. LedgerInv'
    <3>1. \A u \in Teachings : Exists(u)' => Sighted(teach'[u])
      BY <2>1, <1>1 DEF TeachInv, LedgerInv, Exists
    <3>2. \A u \in Teachings : teach'[u].cfgAfter # NoConfig => Stages[teach'[u].status] >= 3
      BY <2>1, <1>1 DEF TeachInv, LedgerInv
    <3>3. RuleBeforeProgress'
      BY <2>1, <2>2, <1>1, StageNumbers DEF TeachInv, LedgerInv, RuleBeforeProgress
    <3>4. OneTeachingPerCandidate'
      BY <2>1, <1>3
         DEF TeachInv, LedgerInv, OneTeachingPerCandidate, Prior, Exists, SameCandidate
    <3>5. EvaluationProvenance'
      BY <2>1, <2>2, <2>3 DEF TeachInv, LedgerInv, EvaluationProvenance
    <3>6. QED
      BY <3>1, <3>2, <3>3, <3>4, <3>5 DEF LedgerInv
  <2>7. l(t) \in Process /\ l(t).pc = "resume" /\ l(t).t = t /\ Exists(t)'
    BY <2>1, <1>1, Resuming DEF Exists
  <2> HIDE DEF l
  <2>8. ProcInv(l(t))'
    BY <2>7 DEF ProcInv, OnTeaching, AfterSave, WithRules, Entered, Saving, WithConfig
  <2>9. taught' \in [Teachings -> [Items -> Evaluation]]
    BY <2>2 DEF TeachInv, StoreInv
  <2>10. l(t).pc # "write"
    BY <2>7
  <2>11. QED
    BY <2>1, <2>5, <2>6, <2>8, <2>9, <2>10, <1>3, LedgerStep
<1>4. ASSUME NEW t \in Teachings, Exists(t), Becomes(p, l(t)),
             UNCHANGED <<files, ledger, seen, clock>>
      PROVE  TeachInv' /\ Grows
  <2>1. l(t) \in Process /\ l(t).pc = "resume" /\ l(t).t = t
    BY Resuming
  <2> HIDE DEF l
  <2>2. ProcInv(l(t))
    BY <2>1, <1>4 DEF ProcInv, OnTeaching, AfterSave, WithRules, Entered, Saving, WithConfig
  <2>3. l(t).pc # "write"
    BY <2>1
  <2>4. QED
    BY <2>2, <2>3, <1>4, PrivateStep
<1>5. CASE /\ Prior(draft) = {}
           /\ \E t \in Teachings :
                ~Exists(t) /\ teach' = [teach EXCEPT ![t] = draft] /\ Becomes(p, l(t))
  BY <1>3, <1>5 DEF CreateIntent
<1>6. CASE Prior(draft) = {loc[p].t} /\ Becomes(p, l(loc[p].t)) /\ UNCHANGED teach
  <2>1. loc[p].t \in Teachings /\ Exists(loc[p].t)
    BY <1>6 DEF Prior
  <2>2. UNCHANGED <<files, ledger, seen, clock>>
    BY <1>6 DEF CreateIntent, ledger
  <2>3. QED
    BY <2>1, <2>2, <1>4, <1>6
<1>7. CASE Stop(p) /\ UNCHANGED teach
  <2>1. UNCHANGED <<files, ledger, seen, clock>>
    BY <1>7 DEF CreateIntent, ledger
  <2>2. QED
    BY <2>1, <1>7, StopStep
<1>8. QED
  BY <1>5, <1>6, <1>7 DEF CreateIntent

LEMMA ResumeReadStep ==
  ASSUME TeachInv, NEW p \in Procs, NEW t \in Teachings, ResumeRead(p, t)
  PROVE  TeachInv' /\ Grows
<1> DEFINE l(pc) == [Idle EXCEPT !.pc = pc, !.t = t, !.status = teach[t].status, !.now = clock]
<1>1. /\ Exists(t)
      /\ UNCHANGED <<files, ledger, seen, clock>>
  BY DEF ResumeRead
<1>2. t \in AnyTeaching /\ teach[t].status \in Status /\ clock \in Times
  BY Literals DEF TeachInv, StoreInv, Operation
<1>3. "saved" \in Counters /\ "preview" \in Counters
  BY DEF Counters
<1>4. /\ l("saved") \in Process /\ l("saved").pc = "saved" /\ l("saved").t = t
      /\ l("preview") \in Process /\ l("preview").pc = "preview" /\ l("preview").t = t
  BY <1>2, <1>3, IdleIsFine DEF ProcInv, Process
<1>5. \/ RuleOf(teach[t]) \in learned /\ Becomes(p, l("saved"))
      \/ Becomes(p, l("preview"))
      \/ Stop(p)
  BY DEF ResumeRead
<1> HIDE DEF l
<1>6. CASE RuleOf(teach[t]) \in learned /\ Becomes(p, l("saved"))
  <2>1. ProcInv(l("saved")) /\ l("saved").pc # "write"
    BY <1>1, <1>4, <1>6
       DEF ProcInv, OnTeaching, AfterSave, WithRules, Entered, Saving, WithConfig
  <2>2. QED
    BY <2>1, <1>1, <1>6, PrivateStep
<1>7. CASE Becomes(p, l("preview"))
  <2>1. ProcInv(l("preview")) /\ l("preview").pc # "write"
    BY <1>1, <1>4 DEF ProcInv, OnTeaching, AfterSave, WithRules, Entered, Saving, WithConfig
  <2>2. QED
    BY <2>1, <1>1, <1>7, PrivateStep
<1>8. QED
  BY <1>1, <1>5, <1>6, <1>7, StopStep

LEMMA ToCheck ==
  ASSUME TeachInv, NEW p \in Procs, NEW l \in Process, Becomes(p, l), l.pc = "check",
         l.t \in Teachings => Exists(l.t) /\ l.rule = {RuleOf(teach[l.t])},
         NEW r \in Rules, l.rule = {r}, ~Conflicting(r, learned), l.cfg = CurrentConfig,
         UNCHANGED <<files, ledger, seen, clock>>
  PROVE  TeachInv' /\ Grows
<1>1. l.cfg \in Configs /\ l.cfg.learned = learned
  BY CurrentConfigIsConfig DEF TeachInv, CurrentConfig
<1>2. ProcInv(l)
  BY <1>1 DEF ProcInv, OnTeaching, AfterSave, WithRules, Entered, Saving, WithConfig
<1>3. QED
  BY <1>2, PrivateStep

LEMMA RepreviewStep ==
  ASSUME TeachInv, NEW p \in Procs, Repreview(p)
  PROVE  TeachInv' /\ Grows
<1> DEFINE rule == RuleOf(teach[loc[p].t])
           l == [loc[p] EXCEPT !.pc = "check", !.rule = {rule}, !.cfg = CurrentConfig]
<1>1. UNCHANGED <<files, ledger, seen, clock>>
  BY DEF Repreview
<1>2. CASE Stop(p)
  BY <1>1, <1>2, StopStep
<1>3. CASE ~Conflicting(rule, learned) /\ Becomes(p, l)
  <2>1. loc[p] \in Process /\ loc[p].t \in Teachings /\ Exists(loc[p].t)
    BY DEF Repreview, At, TeachInv, ProcsInv, ProcInv, OnTeaching
  <2>2. rule \in Rules
    BY <2>1, RuleIsRule DEF TeachInv, LedgerInv
  <2> HIDE DEF rule
  <2>3. {rule} \in SomeRules /\ CurrentConfig \in AnyConfig /\ "check" \in Counters
    BY <2>2, CurrentConfigIsConfig, Literals DEF SomeRules, Counters, TeachInv
  <2>4. /\ l \in Process /\ l.pc = "check" /\ l.t = loc[p].t /\ l.rule = {rule}
        /\ l.cfg = CurrentConfig
    BY <2>1, <2>3 DEF Process
  <2>5. l.rule = {RuleOf(teach[l.t])}
    BY <2>4 DEF rule
  <2> HIDE DEF l
  <2>6. QED
    BY <2>1, <2>2, <2>4, <2>5, <1>1, <1>3, ToCheck
<1>4. QED
  BY <1>2, <1>3 DEF Repreview

LEMMA LearnStep ==
  ASSUME TeachInv, NEW p \in Procs, NEW k \in Learnable, NEW c \in Categories, Learn(p, k, c)
  PROVE  TeachInv' /\ Grows
<1> DEFINE rule == [sender |-> SenderOf[k], category |-> c]
           l == [Idle EXCEPT !.pc = "check", !.rule = {rule}, !.cfg = CurrentConfig]
<1>1. /\ Becomes(p, l) /\ UNCHANGED <<files, ledger, seen, clock>>
      /\ SenderOf[k] # NoSender /\ ~Conflicting(rule, learned)
  BY DEF Learn
<1>2. rule \in Rules
  BY <1>1, TeachingAssumption DEF Rules
<1> HIDE DEF rule
<1>3. {rule} \in SomeRules /\ CurrentConfig \in AnyConfig /\ "check" \in Counters
  BY <1>2, CurrentConfigIsConfig, Literals DEF SomeRules, Counters, TeachInv
<1>4. /\ l \in Process /\ l.pc = "check" /\ l.t = Idle.t /\ l.rule = {rule}
      /\ l.cfg = CurrentConfig
  BY <1>3, IdleIsFine DEF ProcInv, Process
<1>5. l.t \notin Teachings
  BY <1>4, TeachingAssumption DEF Idle
<1> HIDE DEF l
<1>6. QED
  BY <1>1, <1>2, <1>4, <1>5, ToCheck

LEMMA SaveCheckStep ==
  ASSUME TeachInv, NEW p \in Procs, SaveCheck(p)
  PROVE  TeachInv' /\ Grows
<1> DEFINE l == [loc[p] EXCEPT !.pc = "write"]
<1>1. UNCHANGED <<files, ledger, seen, clock>>
  BY DEF SaveCheck
<1>2. CASE Stop(p)
  BY <1>1, <1>2, StopStep
<1>3. CASE learned = loc[p].cfg.learned /\ Becomes(p, l)
  <2>1. ProcInv(loc[p]) /\ loc[p] \in Process /\ loc[p].pc = "check"
    BY DEF SaveCheck, At, TeachInv, ProcsInv
  <2>2. /\ l \in Process /\ l.pc = "write" /\ l.t = loc[p].t /\ l.rule = loc[p].rule
        /\ l.cfg = loc[p].cfg
    <3>1. "write" \in Counters
      BY DEF Counters
    <3>2. QED
      BY <2>1, <3>1 DEF Process
  <2> HIDE DEF l
  <2>3. ProcInv(l)
    BY <2>1, <2>2 DEF ProcInv, OnTeaching, AfterSave, WithRules, Entered, Saving, WithConfig
  <2>4. UNCHANGED <<learned, catalog, teach, taught>>
    BY <1>1 DEF files, ledger
  <2>5. LockInv'
    <3>1. loc'[p] = l /\ \A q \in Procs : q # p => loc'[q] = loc[q]
      BY <1>3 DEF Becomes, TeachInv, ProcsInv
    <3>2. \A q \in Procs : loc[q].pc # "write"
      BY DEF SaveCheck, RulesLocked, At
    <3>3. QED
      BY <3>1, <3>2, <2>2, <2>4, <1>3 DEF LockInv, At
  <2>6. Grows /\ LedgerInv' /\ OneCategoryPerSender'
    BY <1>1, QuietStores
  <2>7. StoreInv'
    BY <1>1, <2>4 DEF TeachInv, StoreInv
  <2>8. ProcsInv'
    BY <2>3, <2>6, <1>3, Stable, MoveKeeps DEF TeachInv
  <2>9. QED
    BY <2>5, <2>6, <2>7, <2>8 DEF TeachInv
<1>4. QED
  BY <1>2, <1>3 DEF SaveCheck

(* The new rule joins the file as it is, and none of it names another      *)
(* category for its sender.                                                *)
LEMMA SaveWriteStep ==
  ASSUME TeachInv, NEW p \in Procs, SaveWrite(p)
  PROVE  TeachInv' /\ Grows
<1> DEFINE saved == [loc[p] EXCEPT !.pc = "saved"]
<1>1. /\ ProcInv(loc[p]) /\ loc[p] \in Process /\ loc[p].pc = "write"
      /\ loc[p].cfg.learned = learned
  BY DEF SaveWrite, At, TeachInv, ProcsInv, LockInv
<1>2. PICK r \in Rules : loc[p].rule = {r} /\ ~Conflicting(r, learned)
  BY <1>1 DEF ProcInv, Saving
<1>3. /\ learned' = learned \cup {r}
      /\ UNCHANGED <<catalog, teach, taught, seen, clock>>
  BY <1>1, <1>2 DEF SaveWrite, ledger
<1>4. Grows
  BY <1>3, StageNumbers DEF Grows, Exists, TeachInv, StoreInv, Operation
<1>5. StoreInv'
  BY <1>3 DEF TeachInv, StoreInv
<1>6. LedgerInv'
  BY <1>3 DEF TeachInv, LedgerInv, Exists, RuleBeforeProgress, OneTeachingPerCandidate,
              EvaluationProvenance
<1>7. OneCategoryPerSender'
  BY <1>2, <1>3 DEF TeachInv, OneCategoryPerSender, Conflicting
<1>8. ASSUME NEW l, Becomes(p, l), ProcInv(l)', l.pc # "write"
      PROVE  LockInv' /\ ProcsInv'
  <2>1. loc'[p] = l /\ \A q \in Procs : q # p => loc'[q] = loc[q]
    BY <1>8 DEF Becomes, TeachInv, ProcsInv
  <2>2. \A q \in Procs : loc'[q].pc # "write"
    BY <2>1, <1>1, <1>8 DEF TeachInv, LockInv, At
  <2>3. QED
    BY <2>2, <1>4, <1>8, MoveKeeps DEF LockInv, At, TeachInv
<1>9. CASE Stop(p)
  BY <1>4, <1>5, <1>6, <1>7, <1>8, <1>9, IdleIsFine, Stable DEF Stop, TeachInv
<1>10. CASE loc[p].t # NoTeaching /\ Becomes(p, saved)
  <2>1. "saved" \in Counters
    BY DEF Counters
  <2>2. loc[p].t \in AnyTeaching
    BY <1>1 DEF Process
  <2>3. loc[p].t \in Teachings
    BY <1>10, <2>2 DEF AnyTeaching
  <2>4. saved \in Process /\ saved.pc = "saved" /\ saved.t = loc[p].t
    BY <1>1, <2>1 DEF Process
  <2>5. Exists(loc[p].t) /\ RuleOf(teach[loc[p].t]) = r
    BY <1>1, <1>2, <2>3 DEF ProcInv, Saving
  <2> HIDE DEF saved
  <2>6. PICK l : l = saved
    OBVIOUS
  <2>7. ProcInv(l)'
    BY <1>3, <2>3, <2>4, <2>5, <2>6
       DEF ProcInv, OnTeaching, AfterSave, WithRules, Entered, Saving, WithConfig, Exists
  <2>8. Becomes(p, l) /\ l.pc # "write"
    BY <2>4, <2>6, <1>10
  <2>9. QED
    BY <1>4, <1>5, <1>6, <1>7, <1>8, <2>7, <2>8 DEF TeachInv
<1>11. QED
  BY <1>9, <1>10 DEF SaveWrite

(* A checkpoint of an operation whose rule is in the file.                 *)
LEMMA AdvanceKeeps ==
  ASSUME TeachInv, NEW t \in Teachings, Exists(t), RuleOf(teach[t]) \in learned,
         NEW new \in Status, NEW cfg,
         \/ new \in {"rule_saved", "completed"} /\ cfg = NoConfig
         \/ /\ new = "pending_reevaluation" /\ cfg \in Configs,
         Advance(t, new, cfg), UNCHANGED files
  PROVE  /\ teach' \in [Teachings -> Operation]
         /\ taught' \in [Teachings -> [Items -> Evaluation]]
         /\ Grows /\ LedgerInv'
         /\ teach'[t].status \in Status
<1> DEFINE op == teach[t]
           new1 == Advanced(op, new, cfg)
<1>1. /\ op \in Operation /\ op.status \in Status /\ op.cfgAfter \in AnyConfig
      /\ Stages[op.status] \in Nat /\ Stages[new] \in Nat
      /\ Stages[op.status] >= 1
      /\ Stages[new] <= Stages[op.status] + 1
  BY StatusNames, StageNumbers DEF TeachInv, StoreInv, Operation, Exists, Advance
<1>2. learned' = learned /\ taught' = taught
  BY DEF files, Advance
<1>3. \/ new1 = op
      \/ /\ Stages[new] = Stages[op.status] + 1
         /\ new1.status = new
         /\ new1 \in Operation
         /\ new1.work = op.work /\ new1.item = op.item /\ new1.obs = op.obs
         /\ new1.category = op.category /\ new1.cfgBefore = op.cfgBefore
         /\ new1.cfgAfter = IF cfg = NoConfig THEN op.cfgAfter ELSE cfg
  <2>1. cfg \in AnyConfig
    BY Literals
  <2>2. CASE Stages[new] <= Stages[op.status]
    BY <2>2 DEF Advanced
  <2>3. CASE ~(Stages[new] <= Stages[op.status])
    <3>1. new1 = [op EXCEPT !.status = new, !.cfgAfter = IF cfg = NoConfig THEN @ ELSE cfg]
      BY <2>3 DEF Advanced
    <3>2. PICK after : after = IF cfg = NoConfig THEN op.cfgAfter ELSE cfg
      OBVIOUS
    <3>3. after \in AnyConfig /\ new1 = [op EXCEPT !.status = new, !.cfgAfter = after]
      BY <3>1, <3>2, <2>1, <1>1
    <3>4. new1 \in Operation
      BY <3>3, <1>1 DEF Operation
    <3>5. QED
      BY <3>2, <3>3, <3>4, <2>3, <1>1 DEF Operation
  <2>4. QED
    BY <2>2, <2>3
<1>4. new1 \in Operation /\ RuleOf(new1) = RuleOf(op)
  BY <1>1, <1>3 DEF RuleOf
<1>5. /\ teach' \in [Teachings -> Operation]
      /\ teach'[t] = new1
      /\ \A u \in Teachings : u # t => teach'[u] = teach[u]
  BY <1>4 DEF Advance, TeachInv, StoreInv
<1>6. Stages[new1.status] >= Stages[op.status] /\ Stages[new1.status] \in Nat
  BY <1>1, <1>3
<1>7. op.cfgAfter # NoConfig => new1.cfgAfter = op.cfgAfter
  BY <1>1, <1>3, StageNumbers DEF TeachInv, LedgerInv
<1>8. /\ new1.status # "none"
      /\ new1.cfgAfter # NoConfig => Stages[new1.status] >= 3
  BY <1>1, <1>3, StageNumbers DEF TeachInv, LedgerInv, Exists
<1>9. \A u \in Teachings : Exists(u)' <=> Exists(u)
  BY <1>5, <1>8 DEF Exists
<1>10. \A u \in Teachings : Stages[teach[u].status] \in Nat
  BY StageNumbers DEF TeachInv, StoreInv, Operation
<1> HIDE DEF new1
<1>11. Grows
  BY <1>2, <1>4, <1>5, <1>6, <1>7, <1>9, <1>10 DEF Grows
<1>12. \A u \in Teachings : Exists(u)' => Sighted(teach'[u])
  <2>1. Sighted(new1)
    BY <1>3 DEF TeachInv, LedgerInv, Sighted
  <2>2. QED
    BY <2>1, <1>5, <1>9 DEF TeachInv, LedgerInv
<1>13. \A u \in Teachings : teach'[u].cfgAfter # NoConfig => Stages[teach'[u].status] >= 3
  BY <1>5, <1>8 DEF TeachInv, LedgerInv
<1>14. RuleBeforeProgress'
  BY <1>2, <1>4, <1>5 DEF TeachInv, LedgerInv, RuleBeforeProgress
<1>15. OneTeachingPerCandidate'
  BY <1>3, <1>5, <1>9 DEF TeachInv, LedgerInv, OneTeachingPerCandidate, SameCandidate
<1>16. EvaluationProvenance'
  <2>1. ASSUME NEW i \in Items, taught[t][i] # NoEvaluation
        PROVE  /\ new1.status \in {"pending_reevaluation", "completed"}
               /\ new1.cfgAfter = op.cfgAfter
    <3>1. /\ op.status \in {"pending_reevaluation", "completed"}
          /\ taught[t][i].cfg = op.cfgAfter
      BY <2>1 DEF TeachInv, LedgerInv, EvaluationProvenance
    <3>2. QED
      BY <3>1, <1>1, <1>3, StageNumbers
  <2>2. QED
    BY <2>1, <1>2, <1>4, <1>5 DEF TeachInv, LedgerInv, EvaluationProvenance
<1>17. taught' \in [Teachings -> [Items -> Evaluation]]
  BY <1>2 DEF TeachInv, StoreInv
<1>18. new1.status \in Status
  BY <1>1, <1>3
<1>19. QED
  BY <1>5, <1>11, <1>12, <1>13, <1>14, <1>15, <1>16, <1>17, <1>18 DEF LedgerInv

LEMMA MarkSavedStep ==
  ASSUME TeachInv, NEW p \in Procs, MarkSaved(p)
  PROVE  TeachInv' /\ Grows
<1>1. /\ loc[p] \in Process /\ loc[p].pc = "saved" /\ loc[p].t \in Teachings
      /\ Exists(loc[p].t) /\ RuleOf(teach[loc[p].t]) \in learned
  BY DEF MarkSaved, At, TeachInv, ProcsInv, ProcInv, OnTeaching, AfterSave
<1>2. "rule_saved" \in Status
  BY StatusNames
<1>3. /\ Advance(loc[p].t, "rule_saved", NoConfig)
      /\ UNCHANGED <<files, seen, clock>>
  BY DEF MarkSaved
<1>4. /\ teach' \in [Teachings -> Operation]
      /\ taught' \in [Teachings -> [Items -> Evaluation]]
      /\ Grows /\ LedgerInv'
      /\ teach'[loc[p].t].status \in Status
  BY <1>1, <1>2, <1>3, AdvanceKeeps
<1>5. PICK x : x = teach'[loc[p].t].status
  OBVIOUS
<1>6. PICK l : l = [loc[p] EXCEPT !.status = x]
  OBVIOUS
<1>7. Becomes(p, l)
  BY <1>5, <1>6 DEF MarkSaved, Becomes
<1>8. l \in Process /\ l.pc = "saved" /\ l.t = loc[p].t
  BY <1>1, <1>4, <1>5, <1>6 DEF Process
<1>9. ProcInv(l)
  BY <1>1, <1>8 DEF ProcInv, OnTeaching, AfterSave, WithRules, Entered, Saving, WithConfig
<1>10. ProcInv(l)' /\ l.pc # "write"
  BY <1>4, <1>8, <1>9, Stable
<1>11. QED
  BY <1>3, <1>4, <1>7, <1>10, LedgerStep

LEMMA LoadCatalogStep ==
  ASSUME TeachInv, NEW p \in Procs, LoadCatalog(p)
  PROVE  TeachInv' /\ Grows
<1> DEFINE cfg == [learned |-> {}, catalog |-> catalog]
           l == [loc[p] EXCEPT !.pc = "rules", !.cfg = cfg]
<1>1. /\ loc[p] \in Process /\ loc[p].pc = "saved" /\ ProcInv(loc[p])
      /\ Becomes(p, l) /\ UNCHANGED <<files, ledger, seen, clock>>
  BY DEF LoadCatalog, At, TeachInv, ProcsInv
<1>2. cfg \in Configs /\ cfg \in AnyConfig /\ "rules" \in Counters
  BY Literals DEF Configs, Counters, TeachInv, StoreInv
<1> HIDE DEF cfg
<1>3. l \in Process /\ l.pc = "rules" /\ l.t = loc[p].t /\ l.cfg = cfg
  BY <1>1, <1>2 DEF Process
<1> HIDE DEF l
<1>4. ProcInv(l) /\ l.pc # "write"
  BY <1>1, <1>2, <1>3
     DEF ProcInv, OnTeaching, AfterSave, WithRules, Entered, Saving, WithConfig
<1>5. QED
  BY <1>1, <1>4, PrivateStep

LEMMA LoadRulesStep ==
  ASSUME TeachInv, NEW p \in Procs, LoadRules(p)
  PROVE  TeachInv' /\ Grows
<1> DEFINE cfg == [learned |-> learned, catalog |-> loc[p].cfg.catalog]
           l == [loc[p] EXCEPT !.pc = "loaded", !.cfg = cfg]
<1>1. /\ loc[p] \in Process /\ loc[p].pc = "rules" /\ ProcInv(loc[p])
      /\ loc[p].cfg \in Configs
      /\ Becomes(p, l) \/ Stop(p)
      /\ UNCHANGED <<files, ledger, seen, clock>>
  BY DEF LoadRules, At, TeachInv, ProcsInv, ProcInv, WithConfig
<1>2. cfg \in Configs /\ cfg \in AnyConfig /\ "loaded" \in Counters /\ cfg.learned = learned
  BY <1>1, Literals DEF Configs, Counters, TeachInv, StoreInv
<1> HIDE DEF cfg
<1>3. l \in Process /\ l.pc = "loaded" /\ l.t = loc[p].t /\ l.cfg = cfg
  BY <1>1, <1>2 DEF Process
<1> HIDE DEF l
<1>4. ProcInv(l) /\ l.pc # "write"
  BY <1>1, <1>2, <1>3
     DEF ProcInv, OnTeaching, AfterSave, WithRules, Entered, Saving, WithConfig
<1>5. QED
  BY <1>1, <1>4, PrivateStep, StopStep

(* Into the listing of the queue, under the configuration just loaded.     *)
LEMMA MarkPendingStep ==
  ASSUME TeachInv, NEW p \in Procs, MarkPending(p)
  PROVE  TeachInv' /\ Grows
<1>1. /\ loc[p] \in Process /\ loc[p].pc = "loaded" /\ loc[p].t \in Teachings
      /\ Exists(loc[p].t) /\ RuleOf(teach[loc[p].t]) \in learned
      /\ loc[p].cfg \in Configs /\ RuleOf(teach[loc[p].t]) \in loc[p].cfg.learned
      /\ loc[p].cfg.learned \subseteq learned
  BY DEF MarkPending, At, TeachInv, ProcsInv, ProcInv, OnTeaching, AfterSave, WithRules, WithConfig
<1>2. "pending_reevaluation" \in Status
  BY StatusNames
<1>3. UNCHANGED <<files, seen, clock>>
  BY DEF MarkPending
<1>4. PICK due : due = {w \in Works : Unresolved(w)}
  OBVIOUS
<1>5. PICK l : l = [loc[p] EXCEPT !.pc = "works", !.due = due]
  OBVIOUS
<1>6. due \in SomeWorks /\ "works" \in Counters
  BY <1>4 DEF SomeWorks, Counters
<1>7. l \in Process /\ l.pc = "works" /\ l.t = loc[p].t /\ l.cfg = loc[p].cfg
  BY <1>1, <1>5, <1>6 DEF Process
<1>8. ProcInv(l) /\ l.pc # "write"
  BY <1>1, <1>7 DEF ProcInv, OnTeaching, AfterSave, WithRules, Entered, Saving, WithConfig
<1>9. CASE Advance(loc[p].t, "pending_reevaluation", loc[p].cfg) /\ Becomes(p, l)
  <2>1. /\ teach' \in [Teachings -> Operation]
        /\ taught' \in [Teachings -> [Items -> Evaluation]]
        /\ Grows /\ LedgerInv'
    BY <1>1, <1>2, <1>3, <1>9, AdvanceKeeps
  <2>2. QED
    BY <2>1, <1>3, <1>8, <1>9, Stable, LedgerStep
<1>10. CASE Becomes(p, l) /\ UNCHANGED ledger
  BY <1>3, <1>8, <1>10, PrivateStep
<1>11. CASE Stop(p) /\ UNCHANGED ledger
  BY <1>3, <1>11, StopStep
<1>12. QED
  BY <1>4, <1>5, <1>9, <1>10, <1>11 DEF MarkPending, Enter

LEMMA FetchPageStep ==
  ASSUME TeachInv, NEW p \in Procs, FetchPage(p)
  PROVE  TeachInv' /\ Grows
<1>1. /\ loc[p] \in Process /\ loc[p].pc = "works" /\ ProcInv(loc[p])
      /\ UNCHANGED <<files, ledger, seen, clock>>
  BY DEF FetchPage, At, TeachInv, ProcsInv
<1>2. PICK page \in SUBSET Works :
        \/ Becomes(p, [loc[p] EXCEPT !.pc = "finish"])
        \/ Becomes(p, [loc[p] EXCEPT !.page = page])
  <2> DEFINE active == {w \in Works : Unresolved(w) /\ w > loc[p].cursor}
             page == {w \in active : Cardinality({v \in active : v < w}) < PageSize}
  <2>1. page \in SUBSET Works
    OBVIOUS
  <2>2. QED
    BY <2>1 DEF FetchPage
<1>3. PICK l1, l2 : l1 = [loc[p] EXCEPT !.pc = "finish"] /\ l2 = [loc[p] EXCEPT !.page = page]
  OBVIOUS
<1>4. page \in SomeWorks /\ "finish" \in Counters
  BY DEF SomeWorks, Counters
<1>5. /\ l1 \in Process /\ l1.pc = "finish" /\ l1.t = loc[p].t /\ l1.cfg = loc[p].cfg
      /\ l2 \in Process /\ l2.pc = "works" /\ l2.t = loc[p].t /\ l2.cfg = loc[p].cfg
  BY <1>1, <1>3, <1>4 DEF Process
<1>6. ProcInv(l1) /\ l1.pc # "write" /\ ProcInv(l2) /\ l2.pc # "write"
  BY <1>1, <1>5 DEF ProcInv, OnTeaching, AfterSave, WithRules, Entered, Saving, WithConfig
<1>7. QED
  BY <1>1, <1>2, <1>3, <1>6, PrivateStep

(* Only ITEMs of a Gmail source have observations to pin.                  *)
LEMMA PinnedIsGmail ==
  ASSUME StoreInv, NEW w \in Works, NEW i \in Items, Pinned(w)[i] > 0
  PROVE  IsGmail(i)
<1>1. seen[i] > 0 /\ seen[i] <= Len(Evidence[i])
  BY DEF Pinned, StoreInv
<1>2. Evidence[i] # <<>>
  BY <1>1 DEF StoreInv
<1>3. QED
  BY <1>2, TeachingAssumption

LEMMA EvaluateWorkStep ==
  ASSUME TeachInv, NEW p \in Procs, EvaluateWork(p)
  PROVE  TeachInv' /\ Grows
<1>1. /\ loc[p] \in Process /\ loc[p].pc = "works" /\ ProcInv(loc[p])
      /\ UNCHANGED <<files, ledger, seen, clock>>
  BY DEF EvaluateWork, At, TeachInv, ProcsInv
<1>2. PICK w \in loc[p].page :
        LET rest == [loc[p] EXCEPT !.page = @ \ {w}, !.cursor = w] IN
        \/ Becomes(p, rest)
        \/ Becomes(p, [rest EXCEPT !.bad = TRUE])
        \/ Becomes(p, [rest EXCEPT !.pc = "record", !.found = Pinned(w)])
  BY DEF EvaluateWork
<1>3. w \in Works /\ w \in AnyWork
  <2>1. loc[p].page \in SomeWorks
    BY <1>1 DEF Process
  <2>2. QED
    BY <2>1, Literals DEF SomeWorks
<1>4. PICK page : page = loc[p].page \ {w}
  OBVIOUS
<1>5. page \in SomeWorks
  BY <1>1, <1>4 DEF Process, SomeWorks
<1>6. PICK found : found = Pinned(w)
  OBVIOUS
<1>7. found \in Pins /\ \A i \in Items : found[i] > 0 => IsGmail(i)
  BY <1>3, <1>6, PinnedIsGmail DEF Pins, Pinned, TeachInv, StoreInv
<1>8. PICK rest : rest = [loc[p] EXCEPT !.page = page, !.cursor = w]
  OBVIOUS
<1>9. /\ rest \in Process /\ rest.pc = "works" /\ rest.t = loc[p].t /\ rest.cfg = loc[p].cfg
      /\ rest.cursor = w
  BY <1>1, <1>3, <1>5, <1>8 DEF Process
<1>10. PICK l2, l3 : /\ l2 = [rest EXCEPT !.bad = TRUE]
                     /\ l3 = [rest EXCEPT !.pc = "record", !.found = found]
  OBVIOUS
<1>11. "record" \in Counters /\ TRUE \in Flag
  BY DEF Counters, Flag
<1>12. /\ l2 \in Process /\ l2.pc = "works" /\ l2.t = loc[p].t /\ l2.cfg = loc[p].cfg
       /\ l3 \in Process /\ l3.pc = "record" /\ l3.t = loc[p].t /\ l3.cfg = loc[p].cfg
       /\ l3.cursor = w /\ l3.found = found
  BY <1>7, <1>9, <1>10, <1>11 DEF Process
<1>13. /\ ProcInv(rest) /\ rest.pc # "write"
       /\ ProcInv(l2) /\ l2.pc # "write"
       /\ ProcInv(l3) /\ l3.pc # "write"
  BY <1>1, <1>3, <1>7, <1>9, <1>12
     DEF ProcInv, OnTeaching, AfterSave, WithRules, Entered, Saving, WithConfig
<1>14. Becomes(p, rest) \/ Becomes(p, l2) \/ Becomes(p, l3)
  BY <1>2, <1>4, <1>6, <1>8, <1>10
<1>15. QED
  BY <1>1, <1>13, <1>14, PrivateStep

(* Fresh evaluations are made under the configuration of the operation.    *)
LEMMA RecordWorkStep ==
  ASSUME TeachInv, NEW p \in Procs, RecordWork(p)
  PROVE  TeachInv' /\ Grows
<1> DEFINE t == loc[p].t
           found == loc[p].found
           cfg == loc[p].cfg
           fresh == NotYetTaught(p)
<1>1. /\ loc[p] \in Process /\ loc[p].pc = "record" /\ ProcInv(loc[p])
      /\ t \in Teachings /\ Exists(t) /\ cfg \in Configs /\ RuleOf(teach[t]) \in cfg.learned
      /\ UNCHANGED <<teach, files, seen, clock>>
  BY DEF RecordWork, Record, At, TeachInv, ProcsInv, ProcInv, OnTeaching, AfterSave, WithRules,
         Entered, WithConfig
<1>2. PICK l : l = [loc[p] EXCEPT !.pc = "works", !.found = Idle.found]
  OBVIOUS
<1>3. l \in Process /\ l.pc = "works" /\ l.t = t /\ l.cfg = cfg
  <2>1. Idle.found \in Pins /\ "works" \in Counters
    BY Literals DEF Idle, Counters
  <2>2. QED
    BY <1>1, <1>2, <2>1 DEF Process
<1>4. ProcInv(l) /\ l.pc # "write"
  BY <1>1, <1>3 DEF ProcInv, OnTeaching, AfterSave, WithRules, Entered, Saving, WithConfig
<1>5. CASE Becomes(p, l) /\ UNCHANGED taught
  BY <1>1, <1>4, <1>5, PrivateStep DEF ledger
<1>6. CASE Stop(p) /\ UNCHANGED taught
  BY <1>1, <1>6, StopStep DEF ledger
<1>7. CASE /\ Ready(p) /\ Becomes(p, l)
           /\ taught' = [taught EXCEPT ![t] = [i \in Items |->
                IF i \in fresh THEN [obs |-> found[i], cfg |-> cfg] ELSE taught[t][i]]]
  <2>1. found \in [Items -> Nat]
    BY <1>1 DEF Process, Pins
  <2>2. cfg \in AnyConfig
    BY <1>1, Literals
  <2>13. RuleOf(teach[t]) \in cfg.learned
    BY <1>1
  <2> HIDE DEF t, found, cfg, fresh
  <2>3. \A i \in Items : [obs |-> found[i], cfg |-> cfg] \in Evaluation
    BY <2>1, <2>2 DEF Evaluation
  <2>4. \A i \in Items : taught'[t][i] =
          IF i \in fresh THEN [obs |-> found[i], cfg |-> cfg] ELSE taught[t][i]
    BY <1>1, <1>7 DEF TeachInv, StoreInv
  <2>5. \A u \in Teachings : u # t => taught'[u] = taught[u]
    BY <1>1, <1>7 DEF TeachInv, StoreInv
  <2>6. taught' \in [Teachings -> [Items -> Evaluation]]
    <3>1. [i \in Items |-> IF i \in fresh THEN [obs |-> found[i], cfg |-> cfg] ELSE taught[t][i]]
            \in [Items -> Evaluation]
      BY <1>1, <2>3 DEF TeachInv, StoreInv
    <3>2. QED
      BY <3>1, <1>1, <1>7 DEF TeachInv, StoreInv
  <2>7. learned' = learned /\ catalog' = catalog /\ teach' = teach
    BY <1>1 DEF files
  <2>8. \A i \in fresh : taught[t][i] = NoEvaluation
    BY DEF fresh, t, NotYetTaught
  <2>9. Grows
    <3>1. \A u \in Teachings, i \in Items :
            taught[u][i] # NoEvaluation => taught'[u][i] = taught[u][i]
      BY <2>4, <2>5, <2>8
    <3>2. \A u \in Teachings : Stages[teach[u].status] \in Nat
      BY StageNumbers DEF TeachInv, StoreInv, Operation
    <3>3. QED
      BY <3>1, <3>2, <2>7 DEF Grows, Exists
  <2>10. LedgerInv'
    <3>1. /\ teach[t].status \in {"pending_reevaluation", "completed"}
          /\ teach[t].cfgAfter = cfg
      BY <1>7 DEF Ready, t, cfg
    <3>2. EvaluationProvenance'
      <4> SUFFICES ASSUME NEW u \in Teachings, NEW i \in Items, taught'[u][i] # NoEvaluation
                   PROVE  /\ teach[u].status \in {"pending_reevaluation", "completed"}
                          /\ taught'[u][i].cfg = teach[u].cfgAfter
                          /\ RuleOf(teach[u]) \in taught'[u][i].cfg.learned
        BY <2>7 DEF EvaluationProvenance
      <4>1. CASE u = t /\ i \in fresh
        <5>1. taught'[u][i] = [obs |-> found[i], cfg |-> cfg]
          BY <4>1, <2>4
        <5>2. taught'[u][i].cfg = cfg
          BY <5>1
        <5>3. QED
          BY <4>1, <5>2, <3>1, <2>13
      <4>2. CASE ~(u = t /\ i \in fresh)
        <5>1. taught'[u][i] = taught[u][i]
          BY <4>2, <2>4, <2>5
        <5>2. QED
          BY <5>1 DEF TeachInv, LedgerInv, EvaluationProvenance
      <4>3. QED
        BY <4>1, <4>2
    <3>3. QED
      BY <3>2, <2>7
         DEF TeachInv, LedgerInv, Exists, RuleBeforeProgress, OneTeachingPerCandidate
  <2>11. teach' \in [Teachings -> Operation]
    BY <2>7 DEF TeachInv, StoreInv
  <2>12. QED
    BY <1>1, <1>4, <1>7, <2>6, <2>9, <2>10, <2>11, Stable, LedgerStep
<1>8. QED
  BY <1>2, <1>5, <1>6, <1>7 DEF RecordWork, Record

LEMMA FinishStep ==
  ASSUME TeachInv, NEW p \in Procs, Finish(p)
  PROVE  TeachInv' /\ Grows
<1>1. /\ loc[p].t \in Teachings /\ Exists(loc[p].t) /\ RuleOf(teach[loc[p].t]) \in learned
      /\ Stop(p) /\ UNCHANGED <<files, seen, clock>>
  BY DEF Finish, At, TeachInv, ProcsInv, ProcInv, OnTeaching, AfterSave, WithRules, Entered
<1>2. CASE UNCHANGED ledger
  BY <1>1, <1>2, StopStep
<1>3. CASE Advance(loc[p].t, "completed", NoConfig)
  <2>1. "completed" \in Status
    BY StatusNames
  <2>2. /\ teach' \in [Teachings -> Operation]
        /\ taught' \in [Teachings -> [Items -> Evaluation]]
        /\ Grows /\ LedgerInv'
    BY <1>1, <1>3, <2>1, AdvanceKeeps
  <2>3. QED
    BY <1>1, <2>2, IdleIsFine, Stable, LedgerStep DEF Stop
<1>4. QED
  BY <1>2, <1>3 DEF Finish

LEMMA ScanStartStep ==
  ASSUME TeachInv, NEW p \in Procs, NEW useLearned \in BOOLEAN, ScanStart(p, useLearned)
  PROVE  TeachInv' /\ Grows
<1>1. PICK cfg, todo, l :
        /\ cfg = [learned |-> IF useLearned THEN learned ELSE {}, catalog |-> catalog]
        /\ todo = {i \in Items : IsGmail(i)}
        /\ l = [Idle EXCEPT !.pc = "scan", !.todo = todo, !.cfg = cfg]
  OBVIOUS
<1>2. cfg \in Configs
  BY <1>1 DEF Configs, TeachInv, StoreInv
<1>3. cfg \in AnyConfig /\ todo \in SomeItems /\ "scan" \in Counters
  BY <1>1, <1>2, Literals DEF SomeItems, Counters
<1>4. l \in Process /\ l.pc = "scan" /\ l.cfg = cfg
  BY <1>1, <1>3, IdleIsFine DEF ProcInv, Process
<1>5. ProcInv(l) /\ l.pc # "write"
  BY <1>2, <1>4 DEF ProcInv, OnTeaching, AfterSave, WithRules, Entered, Saving, WithConfig
<1>6. Becomes(p, l) /\ UNCHANGED <<files, ledger, seen, clock>>
  BY <1>1 DEF ScanStart
<1>7. QED
  BY <1>5, <1>6, PrivateStep

LEMMA AdmitStep ==
  ASSUME TeachInv, NEW p \in Procs, NEW i \in Items, Admit(p, i)
  PROVE  TeachInv' /\ Grows
<1>1. PICK todo, l : todo = loc[p].todo \ {i} /\ l = [loc[p] EXCEPT !.todo = todo]
  OBVIOUS
<1>2. /\ loc[p] \in Process /\ loc[p].pc = "scan" /\ loc[p].cfg \in Configs
      /\ Becomes(p, l)
      /\ UNCHANGED <<files, ledger, clock>>
      /\ seen' = [seen EXCEPT ![i] = seen[i] + 1] /\ seen[i] + 1 <= Len(Evidence[i])
  BY <1>1 DEF Admit, At, TeachInv, ProcsInv, ProcInv, WithConfig
<1>3. todo \in SomeItems
  BY <1>1, <1>2 DEF Process, SomeItems
<1>4. l \in Process /\ l.pc = "scan" /\ l.cfg = loc[p].cfg
  BY <1>1, <1>2, <1>3 DEF Process
<1>5. ProcInv(l) /\ l.pc # "write"
  BY <1>2, <1>4 DEF ProcInv, OnTeaching, AfterSave, WithRules, Entered, Saving, WithConfig
<1>6. Grows /\ LedgerInv' /\ OneCategoryPerSender'
  BY <1>2, QuietStores
<1>7. UNCHANGED <<learned, catalog, teach, taught>>
  BY <1>2 DEF files, ledger
<1>8. StoreInv'
  BY <1>2, <1>7 DEF TeachInv, StoreInv
<1>9. LockInv' /\ ProcsInv'
  BY <1>2, <1>5, <1>6, <1>7, Stable, LockKeeps, MoveKeeps DEF TeachInv
<1>10. QED
  BY <1>6, <1>8, <1>9 DEF TeachInv

LEMMA RetireCheckStep ==
  ASSUME TeachInv, NEW p \in Procs, NEW c \in Retirable, RetireCheck(p, c)
  PROVE  TeachInv' /\ Grows
<1>1. PICK cat, cfg, l :
        /\ cat = [catalog EXCEPT ![c] = "retired"]
        /\ cfg = [learned |-> {}, catalog |-> cat]
        /\ l = [Idle EXCEPT !.pc = "retire", !.cfg = cfg]
  OBVIOUS
<1>2. cat \in [Categories -> {"active", "retired"}]
  BY <1>1 DEF TeachInv, StoreInv
<1>3. cfg \in Configs
  BY <1>1, <1>2 DEF Configs
<1>4. cfg \in AnyConfig /\ "retire" \in Counters
  BY <1>3, Literals DEF Counters
<1>5. l \in Process /\ l.pc = "retire" /\ l.cfg = cfg
  BY <1>1, <1>4, IdleIsFine DEF ProcInv, Process
<1>6. ProcInv(l) /\ l.pc # "write"
  BY <1>3, <1>5 DEF ProcInv, OnTeaching, AfterSave, WithRules, Entered, Saving, WithConfig
<1>7. Becomes(p, l) /\ UNCHANGED <<files, ledger, seen, clock>>
  BY <1>1 DEF RetireCheck
<1>8. QED
  BY <1>6, <1>7, PrivateStep

LEMMA RetireWriteStep ==
  ASSUME TeachInv, NEW p \in Procs, RetireWrite(p)
  PROVE  TeachInv' /\ Grows
<1>1. /\ loc[p].cfg \in Configs /\ catalog' = loc[p].cfg.catalog /\ Stop(p)
      /\ UNCHANGED <<learned, ledger, seen, clock>>
  BY DEF RetireWrite, At, TeachInv, ProcsInv, ProcInv, WithConfig
<1>2. UNCHANGED <<learned, teach, taught, seen, clock>>
  BY <1>1 DEF ledger
<1>3. StoreInv'
  BY <1>1, <1>2 DEF TeachInv, StoreInv, Configs
<1>4. \A t \in Teachings : Stages[teach[t].status] \in Nat
  BY StageNumbers DEF TeachInv, StoreInv, Operation
<1>5. Grows
  BY <1>2, <1>4 DEF Grows, Exists
<1>6. LedgerInv' /\ OneCategoryPerSender'
  BY <1>2 DEF TeachInv, LedgerInv, Exists, RuleBeforeProgress, OneTeachingPerCandidate,
              EvaluationProvenance, OneCategoryPerSender
<1>7. LockInv' /\ ProcsInv'
  BY <1>1, <1>2, <1>5, IdleIsFine, Stable, LockKeeps, MoveKeeps DEF Stop, TeachInv
<1>8. QED
  BY <1>3, <1>5, <1>6, <1>7 DEF TeachInv

(* The queue's own calls and the clock touch nothing the processes hold,   *)
(* and nor does a stuttering step.                                         *)
LEMMA OutsideStep ==
  ASSUME TeachInv, QueueService \/ Tick \/ UNCHANGED teachVars
  PROVE  TeachInv' /\ Grows
<1>1. UNCHANGED <<files, ledger, seen, loc>> /\ clock' \in Times
  <2>1. CASE QueueService
    BY <2>1 DEF QueueService, TeachInv, StoreInv
  <2>2. CASE Tick
    <3>1. clock \in Times /\ clock < MaxTime /\ clock' = clock + 1
      BY <2>2 DEF Tick, TeachInv, StoreInv
    <3>2. clock' \in Times
      BY <3>1, QueueAssumption DEF Times
    <3>3. QED
      BY <3>2, <2>2 DEF Tick
  <2>3. CASE UNCHANGED teachVars
    BY <2>3 DEF TeachInv, StoreInv, teachVars
  <2>4. QED
    BY <2>1, <2>2, <2>3
<1>2. UNCHANGED <<learned, catalog, teach, taught, seen, loc>>
  BY <1>1 DEF files, ledger
<1>3. Grows /\ LedgerInv' /\ OneCategoryPerSender'
  BY <1>1, QuietStores
<1>4. StoreInv' /\ LockInv'
  BY <1>1, <1>2 DEF TeachInv, StoreInv, LockInv, At
<1>5. ProcsInv'
  BY <1>2, <1>3, Stable DEF TeachInv, ProcsInv
<1>6. QED
  BY <1>3, <1>4, <1>5 DEF TeachInv

------------------------------------------------------------------------------
LEMMA TeachInitInv == TeachInit => TeachInv
<1> SUFFICES ASSUME TeachInit PROVE TeachInv
  OBVIOUS
<1>1. NoOperation \in Operation /\ NoEvaluation \in Evaluation
  BY StatusNames, Literals DEF NoOperation, Operation, NoEvaluation, Evaluation
<1>2. StoreInv
  <2>1. \A i \in Items : Len(Evidence[i]) \in Nat
    BY TeachingAssumption
  <2>2. QED
    BY <1>1, <2>1, Literals DEF TeachInit, StoreInv
<1>3. \A t \in Teachings : ~Exists(t) /\ teach[t].cfgAfter = NoConfig
                           /\ Stages[teach[t].status] = 0
  BY StageNumbers DEF TeachInit, Exists, NoOperation
<1>4. LedgerInv
  BY <1>3 DEF TeachInit, LedgerInv, RuleBeforeProgress, OneTeachingPerCandidate,
              EvaluationProvenance
<1>5. ProcsInv
  BY IdleIsFine DEF TeachInit, ProcsInv, ProcInv
<1>6. LockInv
  BY IdleIsFine DEF TeachInit, LockInv, At
<1>7. OneCategoryPerSender
  BY DEF TeachInit, OneCategoryPerSender
<1>8. QED
  BY <1>2, <1>4, <1>5, <1>6, <1>7 DEF TeachInv

LEMMA TeachNextInv == TeachInv /\ [TeachNext]_teachVars => TeachInv' /\ Grows
<1> SUFFICES ASSUME TeachInv, [TeachNext]_teachVars PROVE TeachInv' /\ Grows
  OBVIOUS
<1>1. CASE UNCHANGED teachVars
  BY <1>1, OutsideStep
<1>2. ASSUME NEW p \in Procs, Start(p) PROVE TeachInv' /\ Grows
  <2>1. ASSUME NEW t \in Teachings, Resume(p, t) PROVE TeachInv' /\ Grows
    BY <2>1, ResumeReadStep DEF Resume
  <2>2. QED
    BY <1>2, <2>1, ConfirmStep, LearnStep, RetireCheckStep, ScanStartStep DEF Start
<1>3. ASSUME NEW p \in Procs, Step(p) PROVE TeachInv' /\ Grows
  <2>1. CASE ScanEnd(p)
    BY <2>1, StopStep DEF ScanEnd
  <2>2. QED
    BY <1>3, <2>1, CreateIntentStep, ResumeReadStep, RepreviewStep, SaveCheckStep, SaveWriteStep,
       MarkSavedStep, LoadCatalogStep, LoadRulesStep, MarkPendingStep, FetchPageStep,
       EvaluateWorkStep, RecordWorkStep, FinishStep, RetireWriteStep DEF Step
<1>4. ASSUME NEW p \in Procs, Crash(p) PROVE TeachInv' /\ Grows
  BY <1>4, StopStep DEF Crash
<1>5. QED
  BY <1>1, <1>2, <1>3, <1>4, AdmitStep, OutsideStep DEF TeachNext

(* What holds in every state that is reached, however processes interleave *)
(* and die: the induction the theorems below rest on.                      *)
THEOREM TeachInvariant == TeachSpec => []TeachInv
BY TeachInitInv, TeachNextInv, PTL DEF TeachSpec

(* Stores only grow, in every step of every behaviour.                     *)
THEOREM StoresGrow == TeachSpec => [][Grows]_teachVars
BY TeachInitInv, TeachNextInv, PTL DEF TeachSpec

(* No checkpoint outruns the learned rule it stands for.                   *)
THEOREM RuleIsSavedBeforeProgress == TeachSpec => []RuleBeforeProgress
BY TeachInvariant, PTL DEF TeachInv, LedgerInv

(* The rule file never gives a sender two categories.                      *)
THEOREM SenderHasOneCategory == TeachSpec => []OneCategoryPerSender
BY TeachInvariant, PTL DEF TeachInv

(* Concurrent confirmations of a candidate share one operation.            *)
THEOREM CandidateHasOneTeaching == TeachSpec => []OneTeachingPerCandidate
BY TeachInvariant, PTL DEF TeachInv, LedgerInv

(* Evaluations of a teaching were made under its resulting configuration.  *)
THEOREM EvaluationsAreProven == TeachSpec => []EvaluationProvenance
BY TeachInvariant, PTL DEF TeachInv, LedgerInv

------------------------------------------------------------------------------
(* Teaching uses the queue only as WorkQueue allows.                       *)
LEMMA QueueStep == TeachInv /\ [TeachNext]_teachVars => [QueueNext]_queueVars
<1> SUFFICES ASSUME TeachInv, TeachNext PROVE QueueNext \/ UNCHANGED queueVars
  BY DEF teachVars
<1>1. clock \in Times
  BY DEF TeachInv, StoreInv
<1>2. ASSUME NEW p \in Procs, NEW i \in Items, Admit(p, i)
      PROVE  QueueNext \/ UNCHANGED queueVars
  BY <1>1, <1>2 DEF Admit, QueueNext
<1>3. CASE QueueService
  BY <1>1, <1>3 DEF QueueService, QueueNext
<1>4. ASSUME NEW p \in Procs, RecordWork(p) PROVE QueueNext \/ UNCHANGED queueVars
  <2> DEFINE w == loc[p].cursor
             decided == NotYetTaught(p)
             resolved == {i \in decided : Resolves(Content(i, loc[p].found[i]), loc[p].cfg)}
  <2>1. /\ loc[p] \in Process /\ w \in Works
        /\ \A i \in Items : loc[p].found[i] > 0 => IsGmail(i)
    BY <1>4 DEF RecordWork, Record, At, TeachInv, ProcsInv, ProcInv
  <2>2. loc[p].now \in Times
    BY <2>1 DEF Process
  <2>3. CASE UNCHANGED queueVars
    BY <2>3
  <2>4. CASE Decided(p) = Members(w) /\ ReevaluateTaught(w, decided, resolved, loc[p].now)
    <3>1. \A i \in Members(w) : IsGmail(i)
      BY <2>1, <2>4 DEF Decided
    <3>2. decided \in SUBSET Items /\ resolved \in SUBSET Items
      BY DEF NotYetTaught, Decided
    <3> HIDE DEF w, decided, resolved
    <3>3. QED
      BY <2>1, <2>2, <2>4, <3>1, <3>2 DEF QueueNext
  <2>5. QED
    BY <1>4, <2>3, <2>4 DEF RecordWork, Record
<1>5. ASSUME NEW p \in Procs, Step(p), ~RecordWork(p) PROVE UNCHANGED queueVars
  BY <1>5 DEF Step, CreateIntent, ResumeRead, Repreview, SaveCheck, SaveWrite, MarkSaved,
              LoadCatalog, LoadRules, MarkPending, FetchPage, EvaluateWork, Finish, ScanEnd,
              RetireWrite
<1>6. ASSUME NEW p \in Procs, Start(p) \/ Crash(p) PROVE UNCHANGED queueVars
  BY <1>6 DEF Start, Confirm, Resume, ResumeRead, Learn, RetireCheck, ScanStart, Crash
<1>7. CASE Tick
  BY <1>7 DEF Tick
<1>8. QED
  BY <1>2, <1>3, <1>4, <1>5, <1>6, <1>7 DEF TeachNext

(* Teaching implements the queue: every behaviour of the processes is a    *)
(* behaviour of WorkQueue, so what is proved of the queue holds here.      *)
THEOREM TeachingImplementsQueue == TeachSpec => RefinesQueue
<1>1. TeachInit => QueueInit
  BY DEF TeachInit
<1>2. QED
  BY <1>1, TeachInvariant, QueueStep, PTL DEF TeachSpec, RefinesQueue

(* Every row and every process holds values of its kind.                   *)
THEOREM TeachTypeCorrect == TeachSpec => []TeachTypeOK
<1>1. QueueTypeOK /\ TeachInv => TeachTypeOK
  BY DEF TeachInv, StoreInv, ProcsInv, TeachTypeOK
<1>2. QED
  BY <1>1, TeachInvariant, TeachingImplementsQueue, QueueTypeCorrect, PTL
     DEF RefinesQueue, QueueSpec

(* The scans' and the teachings' interleavings included, an ITEM is listed *)
(* by at most one unresolved work.                                         *)
THEOREM TaughtItemInOneUnresolvedWork == TeachSpec => []OneUnresolvedWorkPerItem
BY TeachingImplementsQueue, ItemInOneUnresolvedWork, PTL DEF RefinesQueue, QueueSpec

(* A reevaluation that took its time before another one recorded never     *)
(* lands, whichever processes the two belong to.                           *)
THEOREM LateRecordsAreRefused == TeachSpec => UpdatedNeverMovesBack
BY TeachingImplementsQueue, TimestampsAdvance, PTL DEF RefinesQueue, QueueSpec
==============================================================================
