------------------------ MODULE TeachingContractProofs ------------------------
(***************************************************************************)
(* What teaching promises, for every set of processes, teachings, messages *)
(* and categories: Teaching implements TeachingContract; a teaching that   *)
(* completes has covered the queue it found; and the work it was taught    *)
(* from is then resolved.                                                  *)
(***************************************************************************)
EXTENDS TeachingProofs, FiniteSetTheorems

Lessons == [t \in Teachings |-> Lesson(teach[t])]

(* One operation changes: so does its lesson, and no other.                *)
LEMMA LessonOf ==
  ASSUME NEW t \in Teachings, NEW op, TeachInv, teach' = [teach EXCEPT ![t] = op]
  PROVE  Lessons' = [Lessons EXCEPT ![t] = Lesson(op)]
<1>1. teach'[t] = op /\ \A u \in Teachings : u # t => teach'[u] = teach[u]
  BY DEF TeachInv, StoreInv
<1>2. \A u \in Teachings : Lesson(teach[u])' = IF u = t THEN Lesson(op) ELSE Lesson(teach[u])
  BY <1>1 DEF Lesson, RuleOf, Content
<1>3. QED
  BY <1>2 DEF Lessons

(* An operation that exists has the lesson its row says.                   *)
LEMMA LessonFields ==
  ASSUME NEW t \in Teachings, Exists(t)
  PROVE  Lessons[t] = [stage |-> teach[t].status, rule |-> {RuleOf(teach[t])},
                       cfg |-> teach[t].cfgAfter]
BY DEF Lessons, Lesson, Exists

Allowed == Contract!ContractNext \/ UNCHANGED <<learned, Lessons, taught>>

LEMMA NothingChanges ==
  ASSUME UNCHANGED <<learned, teach, taught>>
  PROVE  Allowed
<1>1. \A t \in Teachings : Lesson(teach[t])' = Lesson(teach[t])
  BY DEF Lesson, RuleOf, Content
<1>2. QED
  BY <1>1 DEF Allowed, Lessons

LEMMA SaveAllowed ==
  ASSUME TeachInv, NEW p \in Procs, SaveWrite(p)
  PROVE  Allowed
<1>1. ProcInv(loc[p]) /\ loc[p].pc = "write" /\ loc[p].cfg.learned = learned
  BY DEF SaveWrite, At, TeachInv, ProcsInv, LockInv
<1>2. PICK r \in Rules : loc[p].rule = {r} /\ ~Conflicting(r, learned)
  BY <1>1 DEF ProcInv, Saving
<1>3. learned' = learned \cup {r} /\ UNCHANGED <<teach, taught>>
  BY <1>1, <1>2 DEF SaveWrite, ledger
<1>4. UNCHANGED Lessons
  BY <1>3 DEF Lessons, Lesson, RuleOf, Content
<1>5. \A s \in learned : ~Contract!Clash(r, s)
  BY <1>2 DEF Conflicting, Contract!Clash
<1>6. Contract!Learn(r)
  BY <1>3, <1>4, <1>5 DEF Contract!Learn, Lessons
<1>7. QED
  BY <1>6 DEF Allowed, Contract!ContractNext

LEMMA IntentAllowed ==
  ASSUME TeachInv, NEW p \in Procs, CreateIntent(p)
  PROVE  Allowed
<1> DEFINE draft == loc[p].draft
<1>1. Sighted(draft) /\ draft.status = "intent" /\ draft.cfgAfter = NoConfig
  BY DEF CreateIntent, At, TeachInv, ProcsInv, ProcInv
<1>2. UNCHANGED <<learned, taught>>
  BY DEF CreateIntent, files
<1>3. CASE UNCHANGED teach
  BY <1>2, <1>3, NothingChanges
<1>4. ASSUME NEW t \in Teachings, ~Exists(t), teach' = [teach EXCEPT ![t] = draft]
      PROVE  Allowed
  <2>1. RuleOf(draft) \in Rules
    BY <1>1, RuleIsRule
  <2>2. Lesson(draft) = [stage |-> "intent", rule |-> {RuleOf(draft)}, cfg |-> NoConfig]
    BY <1>1 DEF Lesson
  <2>4. Lessons' = [Lessons EXCEPT ![t] = Lesson(draft)]
    BY <1>4, LessonOf
  <2>5. Lessons[t].stage = "none"
    BY <1>4 DEF Lessons, Lesson, Exists
  <2>6. Contract!Accept(t, RuleOf(draft))
    BY <1>2, <2>2, <2>4, <2>5 DEF Contract!Accept, Lessons
  <2>7. QED
    BY <2>1, <2>6 DEF Allowed, Contract!ContractNext
<1>5. QED
  BY <1>3, <1>4 DEF CreateIntent

(* A checkpoint is kept as it is or goes one stage forward.                *)
LEMMA AdvanceAllowed ==
  ASSUME TeachInv, NEW t \in Teachings, Exists(t), RuleOf(teach[t]) \in learned,
         NEW new \in Status, NEW cfg, Advance(t, new, cfg), UNCHANGED files,
         \/ new \in {"rule_saved", "completed"} /\ cfg = NoConfig
         \/ /\ new = "pending_reevaluation" /\ cfg \in Configs
            /\ RuleOf(teach[t]) \in cfg.learned /\ cfg.learned \subseteq learned
  PROVE  Allowed
<1> DEFINE op == teach[t]
<1>1. /\ op \in Operation /\ op.status \in Status /\ op.status # "none"
      /\ Stages[op.status] \in Nat /\ Stages[new] <= Stages[op.status] + 1
      /\ UNCHANGED <<learned, taught>>
  BY StageNumbers DEF TeachInv, StoreInv, Operation, Exists, Advance, files
<1>2. CASE Stages[new] <= Stages[op.status]
  <2>1. teach' = teach
    BY <1>2 DEF Advance, Advanced, TeachInv, StoreInv
  <2>2. QED
    BY <2>1, <1>1, NothingChanges
<1>3. CASE ~(Stages[new] <= Stages[op.status])
  <2>1. PICK after : after = IF cfg = NoConfig THEN op.cfgAfter ELSE cfg
    OBVIOUS
  <2>2. PICK next : next = [op EXCEPT !.status = new, !.cfgAfter = after]
    OBVIOUS
  <2>3. teach' = [teach EXCEPT ![t] = next]
    BY <1>3, <2>1, <2>2 DEF Advance, Advanced
  <2>4. /\ next.status = new /\ next.cfgAfter = after /\ next.item = op.item
        /\ next.obs = op.obs /\ next.category = op.category
    BY <1>1, <2>2 DEF Operation
  <2>5. new # "none"
    BY <1>1, <1>3, StageNumbers
  <2>6. PICK rule : rule = {RuleOf(op)}
    OBVIOUS
  <2>7. Lessons' = [Lessons EXCEPT ![t] = [stage |-> new, rule |-> rule, cfg |-> after]]
    <3>1. Lesson(next) = [stage |-> new, rule |-> rule, cfg |-> after]
      BY <2>4, <2>5, <2>6 DEF Lesson, RuleOf
    <3>2. QED
      BY <3>1, <2>3, LessonOf
  <2>8. /\ Lessons = [u \in Teachings |-> Lessons[u]]
        /\ Lessons[t] = [stage |-> op.status, rule |-> rule, cfg |-> op.cfgAfter]
        /\ rule \subseteq learned
    BY <2>6, LessonFields DEF Lessons
  <2>9. ASSUME after = op.cfgAfter
        PROVE  Lessons' = [Lessons EXCEPT ![t].stage = new]
    <3>1. [Lessons[t] EXCEPT !.stage = new] = [stage |-> new, rule |-> rule, cfg |-> after]
      BY <2>8, <2>9
    <3>2. QED
      BY <2>7, <2>8, <3>1
  <2>10. CASE new = "rule_saved"
    <3>1. op.status = "intent" /\ after = op.cfgAfter
      BY <1>1, <1>3, <2>1, <2>10, StageNumbers, StatusNames
    <3>2. Lessons[t].stage = "intent" /\ Lessons[t].rule \subseteq learned
      BY <2>8, <3>1
    <3>3. Contract!Save(t)
      BY <1>1, <2>9, <2>10, <3>1, <3>2 DEF Contract!Save, Lessons
    <3>4. QED
      BY <3>3 DEF Allowed, Contract!ContractNext
  <2>11. CASE new = "pending_reevaluation"
    <3>1. op.status = "rule_saved" /\ after = cfg
      BY <1>1, <1>3, <2>1, <2>11, StageNumbers, StatusNames, NoConfigAssumption
    <3>2. /\ Lessons[t].stage = "rule_saved" /\ Lessons[t].rule = rule
          /\ rule \subseteq cfg.learned /\ cfg \in Configs /\ cfg.learned \subseteq learned
      BY <2>6, <2>8, <2>11, <3>1
    <3>3. Contract!Begin(t, cfg)
      BY <1>1, <2>7, <2>11, <3>1, <3>2 DEF Contract!Begin, Lessons
    <3>4. QED
      BY <3>2, <3>3 DEF Allowed, Contract!ContractNext
  <2>12. CASE new = "completed"
    <3>1. op.status = "pending_reevaluation" /\ after = op.cfgAfter
      BY <1>1, <1>3, <2>1, <2>12, StageNumbers, StatusNames
    <3>2. Lessons[t].stage = "pending_reevaluation"
      BY <2>8, <3>1
    <3>3. Contract!Complete(t)
      BY <1>1, <2>9, <2>12, <3>1, <3>2 DEF Contract!Complete, Lessons
    <3>4. QED
      BY <3>3 DEF Allowed, Contract!ContractNext
  <2>13. QED
    BY <2>10, <2>11, <2>12
<1>4. QED
  BY <1>2, <1>3

LEMMA RecordAllowed ==
  ASSUME TeachInv, NEW p \in Procs, RecordWork(p)
  PROVE  Allowed
<1> DEFINE t == loc[p].t
           cfg == loc[p].cfg
           made == [i \in Items |-> IF i \in NotYetTaught(p)
                      THEN [obs |-> loc[p].found[i], cfg |-> cfg] ELSE taught[t][i]]
<1>1. t \in Teachings /\ Exists(t) /\ UNCHANGED <<teach, learned>>
  BY DEF RecordWork, Record, At, TeachInv, ProcsInv, ProcInv, OnTeaching, AfterSave, WithRules,
         Entered, files
<1>2. CASE UNCHANGED taught
  BY <1>1, <1>2, NothingChanges
<1>3. CASE Ready(p) /\ taught' = [taught EXCEPT ![t] = made]
  <2>1. teach[t].status \in {"pending_reevaluation", "completed"} /\ teach[t].cfgAfter = cfg
    BY <1>3 DEF Ready
  <2>2. Lessons[t].stage \in {"pending_reevaluation", "completed"} /\ Lessons[t].cfg = cfg
    <3>1. PICK rule : rule = {RuleOf(teach[t])}
      OBVIOUS
    <3>2. Lessons[t] = [stage |-> teach[t].status, rule |-> rule, cfg |-> teach[t].cfgAfter]
      BY <1>1, <3>1, LessonFields
    <3>3. QED
      BY <2>1, <3>2
  <2>3. \A i \in NotYetTaught(p) : taught[t][i] = NoEvaluation
    BY DEF NotYetTaught
  <2> HIDE DEF t, cfg
  <2>4. taught'[t] = made
    BY <1>1, <1>3 DEF TeachInv, StoreInv
  <2>5. \A i \in Items : taught'[t][i] =
          IF i \in NotYetTaught(p) THEN [obs |-> loc[p].found[i], cfg |-> cfg] ELSE taught[t][i]
    BY <2>4
  <2>6. \A i \in Items : taught'[t][i] # taught[t][i] =>
          taught[t][i] = NoEvaluation /\ taught'[t][i].cfg = Lessons[t].cfg
    <3> SUFFICES ASSUME NEW i \in Items, taught'[t][i] # taught[t][i]
                 PROVE  taught[t][i] = NoEvaluation /\ taught'[t][i].cfg = Lessons[t].cfg
      OBVIOUS
    <3>1. i \in NotYetTaught(p)
      BY <2>5
    <3>2. PICK n : n = loc[p].found[i]
      OBVIOUS
    <3>3. taught'[t][i] = [obs |-> n, cfg |-> cfg]
      BY <2>5, <3>1, <3>2
    <3>4. taught'[t][i].cfg = cfg
      BY <3>3
    <3>5. QED
      BY <2>2, <2>3, <3>1, <3>4
  <2>7. taught' = [taught EXCEPT ![t] = taught'[t]]
    BY <1>3, <2>4
  <2>8. UNCHANGED Lessons
    BY <1>1 DEF Lessons, Lesson, RuleOf, Content
  <2>9. Contract!Evaluate(t)
    BY <1>1, <2>2, <2>6, <2>7, <2>8 DEF Contract!Evaluate, Lessons
  <2>10. QED
    BY <1>1, <2>9 DEF Allowed, Contract!ContractNext
<1>4. QED
  BY <1>2, <1>3 DEF RecordWork, Record

------------------------------------------------------------------------------
LEMMA StepAllowed ==
  ASSUME TeachInv, NEW p \in Procs, Step(p)
  PROVE  Allowed
<1>1. CASE MarkSaved(p)
  <2>1. /\ loc[p].t \in Teachings /\ Exists(loc[p].t) /\ RuleOf(teach[loc[p].t]) \in learned
        /\ Advance(loc[p].t, "rule_saved", NoConfig) /\ UNCHANGED files
    BY <1>1 DEF MarkSaved, At, TeachInv, ProcsInv, ProcInv, OnTeaching, AfterSave
  <2>2. QED
    BY <2>1, StatusNames, AdvanceAllowed
<1>2. CASE MarkPending(p)
  <2>1. /\ loc[p].t \in Teachings /\ Exists(loc[p].t) /\ RuleOf(teach[loc[p].t]) \in learned
        /\ loc[p].cfg \in Configs /\ RuleOf(teach[loc[p].t]) \in loc[p].cfg.learned
        /\ loc[p].cfg.learned \subseteq learned /\ UNCHANGED files
    BY <1>2 DEF MarkPending, At, TeachInv, ProcsInv, ProcInv, OnTeaching, AfterSave, WithRules,
                WithConfig
  <2>2. CASE Advance(loc[p].t, "pending_reevaluation", loc[p].cfg)
    BY <2>1, <2>2, StatusNames, AdvanceAllowed
  <2>3. CASE UNCHANGED ledger
    BY <2>1, <2>3, NothingChanges DEF ledger, files
  <2>4. QED
    BY <1>2, <2>2, <2>3 DEF MarkPending
<1>3. CASE Finish(p)
  <2>1. /\ loc[p].t \in Teachings /\ Exists(loc[p].t) /\ RuleOf(teach[loc[p].t]) \in learned
        /\ UNCHANGED files
    BY <1>3 DEF Finish, At, TeachInv, ProcsInv, ProcInv, OnTeaching, AfterSave, WithRules, Entered
  <2>2. CASE Advance(loc[p].t, "completed", NoConfig)
    BY <2>1, <2>2, StatusNames, AdvanceAllowed
  <2>3. CASE UNCHANGED ledger
    BY <2>1, <2>3, NothingChanges DEF ledger, files
  <2>4. QED
    BY <1>3, <2>2, <2>3 DEF Finish
<1>4. CASE \/ \E t \in Teachings : ResumeRead(p, t)
           \/ Repreview(p) \/ SaveCheck(p) \/ LoadCatalog(p) \/ LoadRules(p)
           \/ FetchPage(p) \/ EvaluateWork(p) \/ ScanEnd(p) \/ RetireWrite(p)
  BY <1>4, NothingChanges
     DEF ResumeRead, Repreview, SaveCheck, LoadCatalog, LoadRules, FetchPage, EvaluateWork,
         ScanEnd, RetireWrite, files, ledger
<1>5. QED
  BY <1>1, <1>2, <1>3, <1>4, SaveAllowed, IntentAllowed, RecordAllowed DEF Step

LEMMA TeachNextAllowed == TeachInv /\ [TeachNext]_teachVars => Allowed
<1> SUFFICES ASSUME TeachInv, [TeachNext]_teachVars PROVE Allowed
  OBVIOUS
<1>1. CASE UNCHANGED teachVars
  BY <1>1, NothingChanges DEF teachVars, files, ledger
<1>2. ASSUME NEW p \in Procs, Start(p) \/ Crash(p) PROVE Allowed
  BY <1>2, NothingChanges
     DEF Start, Confirm, Resume, ResumeRead, Learn, RetireCheck, ScanStart, Crash, files, ledger
<1>3. ASSUME NEW p \in Procs, NEW i \in Items, Admit(p, i) PROVE Allowed
  BY <1>3, NothingChanges DEF Admit, files, ledger
<1>4. CASE QueueService \/ Tick
  BY <1>4, NothingChanges DEF QueueService, Tick, files, ledger
<1>5. QED
  BY <1>1, <1>2, <1>3, <1>4, StepAllowed DEF TeachNext

(* The initial store is the contract's, and every step of every process is *)
(* a step of the contract or changes nothing it speaks of.                 *)
THEOREM TeachingImplementsContract == TeachSpec => ImplementsContract
<1>1. TeachInit => Contract!ContractInit
  BY DEF TeachInit, Contract!ContractInit, Contract!NoLesson, Lesson, NoOperation
<1>2. TeachInv /\ [TeachNext]_teachVars
        => [Contract!ContractNext]_(Contract!contractVars)
  BY TeachNextAllowed DEF Allowed, Contract!contractVars, Lessons
<1>3. QED
  BY <1>1, <1>2, TeachInvariant, PTL DEF TeachSpec, ImplementsContract, Contract!ContractSpec

------------------------------------------------------------------------------
(* Work a process has dealt with, as far as its teaching goes.             *)
Done(t, w) == Evaluated(t, w) \/ state[w] = "resolved"

(* Work that the pages still hold in store: on the page, behind all of it, *)
(* or the one being recorded.                                              *)
Ahead(l, w) ==
  \/ l.pc # "finish" /\ w \in l.page
  \/ l.pc # "finish" /\ w > l.cursor /\ \A v \in l.page : v < w
  \/ l.pc = "record" /\ w = l.cursor

(* What the listing of one process covers, although work comes, is         *)
(* deferred and is resolved by others between its pages.                   *)
Covers(l) ==
  /\ l.pc \notin Entered => l.cursor = 0 /\ l.page = {}
  /\ l.pc \in Entered =>
       /\ \A v \in l.page : v > l.cursor
       /\ \A w \in l.due : state[w] # "absent" /\ (Done(l.t, w) \/ l.bad \/ Ahead(l, w))

(* Only mail is evaluated, and a message never shares its work: work that  *)
(* a teaching evaluated gets no further member.                            *)
TaughtIsMail == \A t \in Teachings, i \in Items : taught[t][i] # NoEvaluation => IsGmail(i)

CoverInv ==
  /\ TaughtIsMail
  /\ \A p \in Procs : Covers(loc[p])

(* A process decides on evidence that shows a sender.                      *)
Shows(l) ==
  l.pc = "record" => \A i \in Items : l.found[i] > 0 =>
    l.found[i] \in DOMAIN Evidence[i] /\ SenderOf[Content(i, l.found[i])] # NoSender

(* Membership is for ever.                                                 *)
LEMMA MembersStay ==
  ASSUME QueueIInv, [QueueNext]_queueVars, NEW w \in Works
  PROVE  Members(w) \subseteq Members(w)'
<1> USE DEF QueueIInv, QueueTypeOK, Members
<1>1. ASSUME NEW v \in Works, NEW t \in Times, NEW i \in Items,
             NewWork(v, i, t) \/ AddRelated(v, i, t)
      PROVE  Members(w) \subseteq Members(w)'
  BY <1>1 DEF NewWork, AddRelated, NewMember, SetMember, Unresolved, Open
<1>2. ASSUME NEW v \in Works, NEW t \in Times, Defer(v, t)
      PROVE  Members(w) \subseteq Members(w)'
  BY <1>2 DEF Defer, DeferRows
<1>3. ASSUME NEW v \in Works, NEW t \in Times, NEW decided, NEW resolved,
             ApplyDecisions(v, decided, resolved, t)
      PROVE  Members(w) \subseteq Members(w)'
  BY <1>3 DEF ApplyDecisions, AfterDecisions
<1>4. CASE UNCHANGED queueVars
  BY <1>4 DEF queueVars
<1>5. QED
  BY <1>1, <1>2, <1>3, <1>4 DEF QueueNext, CreateWork, IntakeWork, Reevaluate, ReevaluateTaught

(* Work that exists goes on existing, and once resolved stays so.          *)
LEMMA WorkLasts ==
  ASSUME QueueIInv, QueueIInv', [QueueNext]_queueVars, NEW w \in Works, state[w] # "absent"
  PROVE  /\ state'[w] # "absent" /\ (state[w] = "resolved" => state'[w] = "resolved")
         /\ Members(w) # {} /\ Members(w) \subseteq Members(w)'
<1>1. Members(w) # {} /\ Members(w) \subseteq Members(w)'
  BY MembersStay DEF QueueIInv, WorkResolvesWithMembers
<1>2. state'[w] # "absent"
  BY <1>1 DEF QueueIInv, WorkResolvesWithMembers
<1>3. StaysResolved(w)
  BY HistoryStep, StutterKeepsHistory
<1>4. QED
  BY <1>1, <1>2, <1>3 DEF StaysResolved

(* What a process has dealt with stays so: mail shares its work with nothing.*)
LEMMA DoneLasts ==
  ASSUME QueueIInv, QueueIInv', [QueueNext]_queueVars, Grows, TaughtIsMail,
         NEW t \in Teachings, NEW w \in Works, state[w] # "absent", Done(t, w)
  PROVE  Done(t, w)'
<1>1. /\ state[w] = "resolved" => state'[w] = "resolved"
      /\ Members(w) # {} /\ Members(w) \subseteq Members(w)'
  BY WorkLasts
<1>2. CASE Evaluated(t, w)
  <2>1. PICK j \in Members(w) : taught[t][j] # NoEvaluation
    BY <1>1, <1>2 DEF Evaluated
  <2>2. j \in Items /\ IsGmail(j) /\ IsGmail(j)' /\ taught'[t][j] # NoEvaluation
    BY <2>1 DEF TaughtIsMail, Members, Grows, IsGmail
  <2>3. \A i \in Members(w)' : i = j
    BY <1>1, <2>1, <2>2 DEF QueueIInv, GmailWorkIsSingleton
  <2>4. QED
    BY <2>2, <2>3 DEF Done, Evaluated
<1>3. QED
  BY <1>1, <1>2 DEF Done

(* What others do takes nothing from what a process has covered.           *)
LEMMA CoversLasts ==
  ASSUME QueueIInv, QueueIInv', [QueueNext]_queueVars, Grows, TaughtIsMail,
         NEW l \in Process, l.pc \in Entered => l.t \in Teachings, Covers(l)
  PROVE  Covers(l)'
<1>1. l.pc \in Entered => l.t \in Teachings /\ l.due \subseteq Works
  BY DEF Process, SomeWorks
<1>2. ASSUME l.pc \in Entered, NEW w \in l.due
      PROVE  state'[w] # "absent" /\ (Done(l.t, w)' \/ l.bad \/ Ahead(l, w))
  BY <1>1, <1>2, WorkLasts, DoneLasts DEF Covers
<1>3. QED
  BY <1>2 DEF Covers, Ahead

(* A process outside the reevaluation has listed nothing yet, and what it  *)
(* confirmed is about work of the queue.                                   *)
Outside(p) ==
  \E l : /\ Becomes(p, l) /\ l.pc \notin Entered /\ l.cursor = 0 /\ l.page = {}
         /\ l.pc = "confirmed" => l.draft.work \in Works

LEMMA IdleIsOutside == ASSUME NEW p \in Procs, Stop(p) PROVE Outside(p)
BY DEF Stop, Outside, Idle, Entered

LEMMA StaysOutside ==
  ASSUME TeachInv, CoverInv, NEW p \in Procs,
         \/ Start(p) \/ Crash(p) \/ CreateIntent(p) \/ ScanEnd(p) \/ RetireWrite(p) \/ Finish(p)
         \/ Repreview(p) \/ SaveCheck(p) \/ SaveWrite(p) \/ MarkSaved(p)
         \/ LoadCatalog(p) \/ LoadRules(p)
         \/ \E t \in Teachings : ResumeRead(p, t)
         \/ \E i \in Items : Admit(p, i)
  PROVE  Outside(p)
<1> USE DEF Entered
<1>1. loc[p] \in Process /\ Covers(loc[p])
  BY DEF TeachInv, ProcsInv, CoverInv
<1>2. CASE Stop(p)
  BY <1>2, IdleIsOutside
<1>3. CASE Crash(p) \/ ScanEnd(p) \/ RetireWrite(p) \/ Finish(p)
  BY <1>3, IdleIsOutside DEF Crash, ScanEnd, RetireWrite, Finish
<1>4. Idle \in Process /\ Idle.cursor = 0 /\ Idle.page = {}
  BY IdleIsFine DEF Idle, ProcInv
<1>5. ASSUME NEW w \in Works, NEW i \in Items, NEW c \in Categories, Confirm(p, w, i, c)
      PROVE  Outside(p)
  <2>1. PICK draft :
          draft = [work |-> w, item |-> i, obs |-> seen[i], category |-> c,
                   cfgBefore |-> CurrentConfig, cfgAfter |-> NoConfig, status |-> "intent"]
    OBVIOUS
  <2>2. PICK t : Becomes(p, [Idle EXCEPT !.pc = "confirmed", !.draft = draft, !.t = t])
    BY <1>5, <2>1 DEF Confirm
  <2>3. PICK l : l = [Idle EXCEPT !.pc = "confirmed", !.draft = draft, !.t = t]
    OBVIOUS
  <2>4. l.pc = "confirmed" /\ l.cursor = 0 /\ l.page = {} /\ l.draft = draft /\ draft.work = w
    BY <2>1, <2>3, <1>4 DEF Process
  <2>5. QED
    BY <2>2, <2>3, <2>4 DEF Outside
<1>6. CASE CreateIntent(p)
  <2>1. Stop(p) \/ \E t : Becomes(p, [Idle EXCEPT !.pc = "resume", !.t = t])
    BY <1>6 DEF CreateIntent
  <2>2. ASSUME NEW t, Becomes(p, [Idle EXCEPT !.pc = "resume", !.t = t]) PROVE Outside(p)
    <3>1. PICK l : l = [Idle EXCEPT !.pc = "resume", !.t = t]
      OBVIOUS
    <3>2. l.pc = "resume" /\ l.cursor = 0 /\ l.page = {}
      BY <3>1, <1>4 DEF Process
    <3>3. QED
      BY <2>2, <3>1, <3>2 DEF Outside
  <2>3. QED
    BY <2>1, <2>2, <1>2
<1>7. ASSUME NEW t \in Teachings, ResumeRead(p, t) PROVE Outside(p)
  <2>1. ASSUME NEW pc \in {"saved", "preview"}
        PROVE  LET l == [Idle EXCEPT !.pc = pc, !.t = t, !.status = teach[t].status, !.now = clock]
               IN  l.pc = pc /\ l.cursor = 0 /\ l.page = {}
    BY <1>4 DEF Process
  <2>2. QED
    BY <1>2, <1>7, <2>1 DEF ResumeRead, Outside
<1>8. ASSUME NEW k \in Learnable, NEW c \in Categories, Learn(p, k, c) PROVE Outside(p)
  <2>1. PICK rule, cfg : Becomes(p, [Idle EXCEPT !.pc = "check", !.rule = rule, !.cfg = cfg])
    BY <1>8 DEF Learn
  <2>2. PICK l : l = [Idle EXCEPT !.pc = "check", !.rule = rule, !.cfg = cfg]
    OBVIOUS
  <2>3. l.pc = "check" /\ l.cursor = 0 /\ l.page = {}
    BY <2>2, <1>4 DEF Process
  <2>4. QED
    BY <2>1, <2>2, <2>3 DEF Outside
<1>9. ASSUME NEW useLearned \in BOOLEAN, ScanStart(p, useLearned) PROVE Outside(p)
  <2>1. PICK todo, cfg : Becomes(p, [Idle EXCEPT !.pc = "scan", !.todo = todo, !.cfg = cfg])
    BY <1>9 DEF ScanStart
  <2>2. PICK l : l = [Idle EXCEPT !.pc = "scan", !.todo = todo, !.cfg = cfg]
    OBVIOUS
  <2>3. l.pc = "scan" /\ l.cursor = 0 /\ l.page = {}
    BY <2>2, <1>4 DEF Process
  <2>4. QED
    BY <2>1, <2>2, <2>3 DEF Outside
<1>10. ASSUME NEW c \in Retirable, RetireCheck(p, c) PROVE Outside(p)
  <2>1. PICK cfg : Becomes(p, [Idle EXCEPT !.pc = "retire", !.cfg = cfg])
    BY <1>10 DEF RetireCheck
  <2>2. PICK l : l = [Idle EXCEPT !.pc = "retire", !.cfg = cfg]
    OBVIOUS
  <2>3. l.pc = "retire" /\ l.cursor = 0 /\ l.page = {}
    BY <2>2, <1>4 DEF Process
  <2>4. QED
    BY <2>1, <2>2, <2>3 DEF Outside
<1>11. CASE Start(p)
  BY <1>5, <1>7, <1>8, <1>9, <1>10, <1>11 DEF Start, Resume
<1>12. ASSUME NEW l, Becomes(p, l), loc[p].pc \notin Entered,
              l.pc \notin Entered, l.pc # "confirmed",
              l.cursor = loc[p].cursor, l.page = loc[p].page
       PROVE  Outside(p)
  BY <1>1, <1>12 DEF Outside, Covers
<1>13. CASE Repreview(p)
  <2>1. PICK rule, cfg :
          Stop(p) \/ Becomes(p, [loc[p] EXCEPT !.pc = "check", !.rule = rule, !.cfg = cfg])
    BY <1>13 DEF Repreview
  <2>2. PICK l : l = [loc[p] EXCEPT !.pc = "check", !.rule = rule, !.cfg = cfg]
    OBVIOUS
  <2>3. l.pc = "check" /\ l.cursor = loc[p].cursor /\ l.page = loc[p].page
    BY <2>2, <1>1 DEF Process
  <2>4. QED
    BY <2>1, <2>2, <2>3, <1>2, <1>12, <1>13 DEF Repreview, At
<1>14. CASE SaveCheck(p) \/ SaveWrite(p)
  <2>1. PICK pc \in {"write", "saved"} : Stop(p) \/ Becomes(p, [loc[p] EXCEPT !.pc = pc])
    BY <1>14 DEF SaveCheck, SaveWrite
  <2>2. PICK l : l = [loc[p] EXCEPT !.pc = pc]
    OBVIOUS
  <2>3. l.pc = pc /\ l.cursor = loc[p].cursor /\ l.page = loc[p].page
    BY <2>2, <1>1 DEF Process
  <2>4. QED
    BY <2>1, <2>2, <2>3, <1>2, <1>12, <1>14 DEF SaveCheck, SaveWrite, At
<1>15. CASE MarkSaved(p)
  <2>1. PICK status : Becomes(p, [loc[p] EXCEPT !.status = status])
    BY <1>15 DEF MarkSaved, Becomes
  <2>2. PICK l : l = [loc[p] EXCEPT !.status = status]
    OBVIOUS
  <2>3. l.pc = loc[p].pc /\ l.cursor = loc[p].cursor /\ l.page = loc[p].page
    BY <2>2, <1>1 DEF Process
  <2>4. QED
    BY <2>1, <2>2, <2>3, <1>12, <1>15 DEF MarkSaved, At
<1>16. CASE LoadCatalog(p)
  <2>1. PICK cfg : Becomes(p, [loc[p] EXCEPT !.pc = "rules", !.cfg = cfg])
    BY <1>16 DEF LoadCatalog
  <2>2. PICK l : l = [loc[p] EXCEPT !.pc = "rules", !.cfg = cfg]
    OBVIOUS
  <2>3. l.pc = "rules" /\ l.cursor = loc[p].cursor /\ l.page = loc[p].page
    BY <2>2, <1>1 DEF Process
  <2>4. QED
    BY <2>1, <2>2, <2>3, <1>2, <1>12, <1>16 DEF LoadCatalog, At
<1>17. CASE LoadRules(p)
  <2>1. PICK cfg : Stop(p) \/ Becomes(p, [loc[p] EXCEPT !.pc = "loaded", !.cfg = cfg])
    BY <1>17 DEF LoadRules
  <2>2. PICK l : l = [loc[p] EXCEPT !.pc = "loaded", !.cfg = cfg]
    OBVIOUS
  <2>3. l.pc = "loaded" /\ l.cursor = loc[p].cursor /\ l.page = loc[p].page
    BY <2>2, <1>1 DEF Process
  <2>4. QED
    BY <2>1, <2>2, <2>3, <1>2, <1>12, <1>17 DEF LoadRules, At
<1>18. ASSUME NEW i \in Items, Admit(p, i) PROVE Outside(p)
  <2>1. PICK todo : Becomes(p, [loc[p] EXCEPT !.todo = todo])
    BY <1>18 DEF Admit
  <2>2. PICK l : l = [loc[p] EXCEPT !.todo = todo]
    OBVIOUS
  <2>3. l.pc = loc[p].pc /\ l.cursor = loc[p].cursor /\ l.page = loc[p].page
    BY <2>2, <1>1 DEF Process
  <2>4. QED
    BY <2>1, <2>2, <2>3, <1>12, <1>18 DEF Admit, At
<1>19. QED
  BY <1>3, <1>6, <1>7, <1>11, <1>13, <1>14, <1>15, <1>16, <1>17, <1>18

(* One process moves; what the others cover stays covered.                 *)
LEMMA MoveCovers ==
  ASSUME TeachInv, QueueIInv, QueueIInv', [QueueNext]_queueVars, Grows, CoverInv,
         NEW p \in Procs, NEW l, Becomes(p, l), Covers(l)'
  PROVE  \A q \in Procs : Covers(loc[q])'
<1>1. ASSUME NEW q \in Procs PROVE Covers(loc[q])'
  <2>1. CASE q = p
    <3>1. loc'[q] = l
      BY <2>1 DEF Becomes, TeachInv, ProcsInv
    <3>2. QED
      BY <3>1 DEF Covers, Done, Evaluated, Ahead, Members
  <2>2. CASE q # p
    <3>1. loc'[q] = loc[q]
      BY <2>2 DEF Becomes, TeachInv, ProcsInv
    <3>2. PICK k : k = loc[q]
      OBVIOUS
    <3>3. Covers(k)'
      BY <3>2, CoversLasts
         DEF TeachInv, ProcsInv, ProcInv, CoverInv, OnTeaching, AfterSave, WithRules
    <3>4. QED
      BY <3>1, <3>2, <3>3 DEF Covers, Done, Evaluated, Ahead, Members
  <2>3. QED
    BY <2>1, <2>2
<1>2. QED
  BY <1>1

(* A page takes the first of the active work: what it leaves out is behind *)
(* all that it takes.                                                      *)
LEMMA PageIsFirst ==
  ASSUME NEW active \in SUBSET Works, NEW v \in active, NEW w \in active,
         Cardinality({u \in active : u < v}) < PageSize,
         ~(Cardinality({u \in active : u < w}) < PageSize)
  PROVE  v < w
<1> DEFINE below(x) == {u \in active : u < x}
<1>1. v \in Nat /\ w \in Nat /\ active \subseteq Nat
  BY QueueAssumption
<1>2. SUFFICES ASSUME w <= v PROVE FALSE
  BY <1>1
<1>3. below(w) \in SUBSET below(v)
  <2>1. ASSUME NEW u \in active, u < w PROVE u < v
    BY <1>1, <1>2, <2>1
  <2>2. QED
    BY <2>1
<1>4. IsFiniteSet(below(v))
  <2>1. \A u \in below(v) : u \in Nat /\ u < v
    BY <1>1
  <2>2. IsFiniteSet(0..v)
    BY <1>1, FS_Interval
  <2> HIDE DEF below
  <2>3. below(v) \in SUBSET (0..v)
    BY <1>1, <2>1
  <2>4. QED
    BY <2>2, <2>3, FS_Subset
<1> HIDE DEF below
<1>5. /\ IsFiniteSet(below(w)) /\ Cardinality(below(w)) <= Cardinality(below(v))
  BY <1>3, <1>4, FS_Subset
<1>6. Cardinality(below(w)) \in Nat /\ Cardinality(below(v)) \in Nat
  BY <1>4, <1>5, FS_CardinalityType
<1>7. Cardinality(below(v)) < PageSize /\ ~(Cardinality(below(w)) < PageSize)
  BY DEF below
<1>8. QED
  BY <1>5, <1>6, <1>7, TeachingAssumption

(* Into the listing: all that is unresolved is still ahead.                *)
LEMMA MarkPendingCovers ==
  ASSUME TeachInv, QueueIInv, CoverInv, NEW p \in Procs, MarkPending(p), UNCHANGED queueVars
  PROVE  \E l : /\ Becomes(p, l) /\ Covers(l)' /\ l.pc \in {"idle", "works"}
                /\ l.pc = "works" => l.t = loc[p].t /\ l.due = {w \in Works : Unresolved(w)}
<1>1. /\ loc[p] \in Process /\ loc[p].pc = "loaded" /\ loc[p].cursor = 0 /\ loc[p].page = {}
  BY DEF MarkPending, At, TeachInv, ProcsInv, CoverInv, Covers, Entered
<1>2. PICK due : due = {w \in Works : Unresolved(w)}
  OBVIOUS
<1>3. PICK l : l = [loc[p] EXCEPT !.pc = "works", !.due = due]
  OBVIOUS
<1>4. l.pc = "works" /\ l.due = due /\ l.t = loc[p].t /\ l.cursor = 0 /\ l.page = {}
  BY <1>1, <1>3 DEF Process
<1>5. \A w \in due : state'[w] # "absent" /\ w > 0
  BY <1>2, QueueAssumption, TeachingAssumption DEF Unresolved, Open, queueVars
<1>6. Covers(l)'
  BY <1>4, <1>5 DEF Covers, Ahead, Entered
<1>7. CASE Becomes(p, l)
  BY <1>2, <1>4, <1>6, <1>7
<1>8. CASE Stop(p)
  BY <1>8 DEF Stop, Covers, Idle, Entered
<1>9. QED
  BY <1>2, <1>3, <1>7, <1>8 DEF MarkPending, Enter

(* The next page, or the end of the queue.                                 *)
LEMMA FetchPageCovers ==
  ASSUME TeachInv, QueueIInv, CoverInv, NEW p \in Procs, FetchPage(p)
  PROVE  \E l \in Process : /\ Becomes(p, l) /\ Covers(l) /\ Shows(l)
                            /\ l.pc \in Entered /\ l.t = loc[p].t /\ l.due = loc[p].due
<1> DEFINE active == {w \in Works : Unresolved(w) /\ w > loc[p].cursor}
           page == {w \in active : Cardinality({v \in active : v < w}) < PageSize}
<1>1. /\ loc[p] \in Process /\ loc[p].pc = "works" /\ loc[p].page = {}
      /\ loc[p].due \subseteq Works /\ Covers(loc[p])
  BY DEF FetchPage, At, TeachInv, ProcsInv, CoverInv, Process, SomeWorks
<1>2. \A w \in loc[p].due : \/ Done(loc[p].t, w) \/ loc[p].bad
                             \/ w \in active
  BY <1>1 DEF Covers, Ahead, Entered, Done, QueueIInv, QueueTypeOK, RowState, Unresolved
<1>3. PICK l1, l2 : l1 = [loc[p] EXCEPT !.pc = "finish"] /\ l2 = [loc[p] EXCEPT !.page = page]
  OBVIOUS
<1>4. page \in SomeWorks /\ "finish" \in Counters
  BY DEF SomeWorks, Counters
<1>5. \A v \in page, w \in active : w \in page \/ v < w
  <2>1. active \in SUBSET Works
    OBVIOUS
  <2> HIDE DEF active
  <2>2. QED
    BY <2>1, PageIsFirst
<1>6. \A v \in page : v > loc[p].cursor
  OBVIOUS
<1>7. \A w \in active : w > loc[p].cursor
  OBVIOUS
<1>8. \/ active = {} /\ Becomes(p, l1)
      \/ Becomes(p, l2)
  BY <1>3 DEF FetchPage
<1> HIDE DEF active, page
<1>9. /\ l1 \in Process /\ l1.pc = "finish" /\ l1.t = loc[p].t /\ l1.due = loc[p].due
      /\ l1.page = {} /\ l1.bad = loc[p].bad
      /\ l2 \in Process /\ l2.pc = "works" /\ l2.t = loc[p].t /\ l2.due = loc[p].due
      /\ l2.page = page /\ l2.cursor = loc[p].cursor /\ l2.bad = loc[p].bad
  BY <1>1, <1>3, <1>4 DEF Process
<1>10. \A w \in loc[p].due : state[w] # "absent"
  BY <1>1 DEF Covers, Entered
<1>11. active = {} => Covers(l1)
  BY <1>2, <1>9, <1>10 DEF Covers, Ahead, Entered
<1>12. Covers(l2)
  BY <1>2, <1>5, <1>6, <1>7, <1>9, <1>10 DEF Covers, Ahead, Entered
<1>13. QED
  BY <1>8, <1>9, <1>11, <1>12 DEF Entered, Shows

(* One work of the page: dealt with, given up, or about to be recorded.    *)
LEMMA EvaluateWorkCovers ==
  ASSUME TeachInv, CoverInv, NEW p \in Procs, EvaluateWork(p)
  PROVE  \E l \in Process : /\ Becomes(p, l) /\ Covers(l) /\ Shows(l)
                            /\ l.pc \in Entered /\ l.t = loc[p].t /\ l.due = loc[p].due
<1>1. /\ loc[p] \in Process /\ loc[p].pc = "works" /\ Covers(loc[p])
      /\ loc[p].page \subseteq Works /\ loc[p].due \subseteq Works /\ Works \subseteq Nat
  BY QueueAssumption DEF EvaluateWork, At, TeachInv, ProcsInv, CoverInv, Process, SomeWorks
<1>2. PICK w \in loc[p].page :
        LET rest == [loc[p] EXCEPT !.page = @ \ {w}, !.cursor = w] IN
        /\ \A v \in loc[p].page : w <= v
        /\ \/ Evaluated(loc[p].t, w) /\ Becomes(p, rest)
           \/ Becomes(p, [rest EXCEPT !.bad = TRUE])
           \/ /\ \A i \in Members(w) : Usable(i, loc[p].cfg)
              /\ Becomes(p, [rest EXCEPT !.pc = "record", !.found = Pinned(w)])
  BY <1>1 DEF EvaluateWork, Process
<1>3. PICK page, found : page = loc[p].page \ {w} /\ found = Pinned(w)
  OBVIOUS
<1>4. PICK rest : rest = [loc[p] EXCEPT !.page = page, !.cursor = w]
  OBVIOUS
<1>5. PICK l2, l3 : /\ l2 = [rest EXCEPT !.bad = TRUE]
                    /\ l3 = [rest EXCEPT !.pc = "record", !.found = found]
  OBVIOUS
<1>6. /\ rest \in Process /\ rest.pc = "works" /\ rest.t = loc[p].t /\ rest.due = loc[p].due
      /\ rest.page = page /\ rest.cursor = w /\ rest.bad = loc[p].bad
  <2>1. page \in SomeWorks /\ w \in AnyWork
    BY <1>1, <1>3, Literals DEF SomeWorks
  <2>2. QED
    BY <1>1, <1>4, <2>1 DEF Process
<1>7. found \in Pins /\ "record" \in Counters /\ TRUE \in Flag
  BY <1>3 DEF Pins, Pinned, Counters, Flag, TeachInv, StoreInv
<1>8. /\ l2 \in Process /\ l2.pc = "works" /\ l2.t = loc[p].t /\ l2.due = loc[p].due
      /\ l2.page = page /\ l2.cursor = w /\ l2.bad
      /\ l3 \in Process /\ l3.pc = "record" /\ l3.t = loc[p].t /\ l3.due = loc[p].due
      /\ l3.page = page /\ l3.cursor = w /\ l3.bad = loc[p].bad /\ l3.found = found
  BY <1>5, <1>6, <1>7 DEF Process
<1>9. \A v \in page : v > w
  BY <1>1, <1>2, <1>3
<1>10. \A v \in loc[p].due :
         /\ state[v] # "absent"
         /\ \/ Done(loc[p].t, v) \/ loc[p].bad \/ v = w \/ v \in page
            \/ v > w /\ \A u \in page : u < v
  BY <1>1, <1>2, <1>3 DEF Covers, Ahead, Entered
<1>11. Evaluated(loc[p].t, w) => Covers(rest)
  BY <1>6, <1>9, <1>10 DEF Covers, Ahead, Entered, Done
<1>12. Covers(l2)
  BY <1>8, <1>9, <1>10 DEF Covers, Entered
<1>13. Covers(l3)
  BY <1>8, <1>9, <1>10 DEF Covers, Ahead, Entered
<1>14. \/ Evaluated(loc[p].t, w) /\ Becomes(p, rest)
       \/ Becomes(p, l2)
       \/ (\A i \in Members(w) : Usable(i, loc[p].cfg)) /\ Becomes(p, l3)
  BY <1>2, <1>3, <1>4, <1>5
<1>15. ASSUME \A i \in Members(w) : Usable(i, loc[p].cfg) PROVE Shows(l3)
  <2>1. loc[p].cfg.learned # {}
    BY <1>1 DEF TeachInv, ProcsInv, ProcInv, WithRules, Entered
  <2>2. ASSUME NEW i \in Items, found[i] > 0
        PROVE  found[i] \in DOMAIN Evidence[i] /\ SenderOf[Content(i, found[i])] # NoSender
    <3>1. i \in Members(w) /\ found[i] = seen[i]
      BY <1>3, <2>2 DEF Pinned
    <3>2. seen[i] \in DOMAIN Evidence[i]
      BY <2>2, <3>1, TeachingAssumption DEF TeachInv, StoreInv
    <3>3. QED
      BY <1>15, <2>1, <3>1, <3>2 DEF Usable, Insufficient
  <2>3. QED
    BY <1>8, <2>2 DEF Shows
<1>16. Shows(rest) /\ Shows(l2)
  BY <1>6, <1>8 DEF Shows
<1>17. QED
  BY <1>6, <1>8, <1>11, <1>12, <1>13, <1>14, <1>15, <1>16 DEF Entered

(* Work whose record is accepted has been evaluated, each member of it, or *)
(* was resolved by somebody else.                                          *)
LEMMA RecordWorkCovers ==
  ASSUME TeachInv, QueueIInv, QueueIInv', [QueueNext]_queueVars, Grows, CoverInv,
         NEW p \in Procs, RecordWork(p)
  PROVE  /\ TaughtIsMail'
         /\ \E l : /\ Becomes(p, l) /\ Covers(l)' /\ l.pc \in {"idle", "works"}
                   /\ l.pc = "works" => l.t = loc[p].t /\ l.due = loc[p].due
<1> PICK t, w, found, cfg, fresh :
      /\ t = loc[p].t /\ w = loc[p].cursor /\ found = loc[p].found /\ cfg = loc[p].cfg
      /\ fresh = NotYetTaught(p)
  OBVIOUS
<1>1. /\ loc[p] \in Process /\ loc[p].pc = "record" /\ ProcInv(loc[p]) /\ Covers(loc[p])
      /\ t \in Teachings /\ w \in Works /\ cfg \in Configs /\ found \in [Items -> Nat]
      /\ \A i \in Items : found[i] > 0 => IsGmail(i)
      /\ loc[p].due \subseteq Works /\ loc[p].page \subseteq Works
  BY DEF RecordWork, Record, At, TeachInv, ProcsInv, ProcInv, CoverInv, OnTeaching, AfterSave,
         WithRules, Entered, WithConfig, Process, Pins, SomeWorks
<1>2. PICK l : l = [loc[p] EXCEPT !.pc = "works", !.found = Idle.found]
  OBVIOUS
<1>3. /\ l.pc = "works" /\ l.t = t /\ l.due = loc[p].due /\ l.page = loc[p].page
      /\ l.cursor = w /\ l.bad = loc[p].bad
  BY <1>1, <1>2 DEF Process
<1>4. ASSUME Done(t, w)', TaughtIsMail PROVE Covers(l)'
  <2>1. ASSUME NEW v \in loc[p].due
        PROVE  state'[v] # "absent" /\ (Done(t, v)' \/ l.bad \/ Ahead(l, v))
    <3>1. /\ v \in Works /\ state[v] # "absent"
          /\ Done(t, v) \/ loc[p].bad \/ Ahead(loc[p], v)
      BY <1>1 DEF Covers, Entered
    <3>2. state'[v] # "absent" /\ (Done(t, v) => Done(t, v)')
      BY <1>1, <1>4, <3>1, WorkLasts, DoneLasts
    <3>3. Ahead(loc[p], v) => Ahead(l, v) \/ v = w
      BY <1>1, <1>3 DEF Ahead
    <3>4. v = w => Done(t, v)'
      BY <1>4
    <3>5. QED
      BY <3>1, <3>2, <3>3, <3>4, <1>3
  <2>2. \A v \in l.page : v > l.cursor
    BY <1>1, <1>3 DEF Covers, Entered
  <2>3. QED
    BY <1>3, <2>1, <2>2 DEF Covers, Ahead, Entered
<1>5. CASE Stop(p) /\ UNCHANGED taught
  BY <1>5 DEF Stop, Covers, Idle, Entered, CoverInv, TaughtIsMail, IsGmail
<1>6. CASE /\ Becomes(p, l) /\ UNCHANGED <<queueVars, taught>> /\ state[w] = "resolved"
  <2>1. Done(t, w)'
    BY <1>6 DEF Done, queueVars
  <2>2. TaughtIsMail /\ TaughtIsMail'
    BY <1>6 DEF CoverInv, TaughtIsMail, IsGmail
  <2>3. QED
    BY <1>3, <1>4, <1>6, <2>1, <2>2
<1>7. CASE /\ Becomes(p, l)
           /\ Decided(p) = Members(w)
           /\ ApplyDecisions(w, fresh, {i \in fresh : Resolves(Content(i, found[i]), cfg)}, loc[p].now)
           /\ taught' = [taught EXCEPT ![t] = [i \in Items |->
                IF i \in fresh THEN [obs |-> found[i], cfg |-> cfg] ELSE taught[t][i]]]
  <2>1. \A i \in Items :
          taught'[t][i] = IF i \in fresh THEN [obs |-> found[i], cfg |-> cfg] ELSE taught[t][i]
    BY <1>1, <1>7 DEF TeachInv, StoreInv
  <2>2. \A u \in Teachings : u # t => taught'[u] = taught[u]
    BY <1>1, <1>7 DEF TeachInv, StoreInv
  <2>3. fresh = {i \in Members(w) : taught[t][i] = NoEvaluation} /\ Members(w) \subseteq Items
    BY <1>7 DEF NotYetTaught, Members
  <2>4. \A i \in Items : [obs |-> found[i], cfg |-> cfg] # NoEvaluation
    BY <1>1, NoConfigAssumption DEF NoEvaluation
  <2>5. \A i \in fresh : IsGmail(i)
    BY <1>1, <1>7, <2>3 DEF Decided
  <2>6. TaughtIsMail'
    BY <2>1, <2>2, <2>5 DEF CoverInv, TaughtIsMail, IsGmail
  <2>7. Members(w)' = Members(w)
    <3>1. \A i \in Items : i \notin fresh => member'[w][i] = member[w][i]
      BY <1>1, <1>7 DEF ApplyDecisions, AfterDecisions, QueueIInv, QueueTypeOK
    <3>2. \A i \in fresh : i \in Members(w) /\ member'[w][i] # "absent"
      BY <1>1, <1>7, <2>3 DEF ApplyDecisions, AfterDecisions, QueueIInv, QueueTypeOK, Members
    <3>3. QED
      BY <3>1, <3>2 DEF Members
  <2>8. Evaluated(t, w)'
    BY <2>1, <2>3, <2>4, <2>7 DEF Evaluated
  <2>9. QED
    BY <1>3, <1>4, <1>7, <2>6, <2>8 DEF Done, CoverInv
<1>8. QED
  BY <1>2, <1>5, <1>6, <1>7 DEF RecordWork, Record, ReevaluateTaught

(* Every step of every process keeps what the listings cover.              *)
LEMMA CoverStep ==
  ASSUME TeachInv, QueueIInv, QueueIInv', CoverInv, [TeachNext]_teachVars
  PROVE  CoverInv'
<1>1. Grows /\ [QueueNext]_queueVars
  BY TeachNextInv, QueueStep
<1>2. ASSUME UNCHANGED taught PROVE TaughtIsMail'
  BY <1>2 DEF CoverInv, TaughtIsMail, IsGmail
<1>3. ASSUME NEW p \in Procs, NEW l, Becomes(p, l), Covers(l)', UNCHANGED taught
      PROVE  CoverInv'
  BY <1>1, <1>2, <1>3, MoveCovers DEF CoverInv
<1>4. ASSUME NEW p \in Procs, Outside(p), UNCHANGED taught PROVE CoverInv'
  <2>1. PICK l : Becomes(p, l) /\ l.pc \notin Entered /\ l.cursor = 0 /\ l.page = {}
    BY <1>4 DEF Outside
  <2>2. Covers(l)'
    BY <2>1 DEF Covers
  <2>3. QED
    BY <1>3, <1>4, <2>1, <2>2
<1>5. ASSUME UNCHANGED <<loc, taught>> PROVE CoverInv'
  <2>1. ASSUME NEW p \in Procs PROVE Covers(loc[p])'
    <3>1. PICK l : l = loc[p]
      OBVIOUS
    <3>2. Covers(l)'
      BY <1>1, <3>1, CoversLasts
         DEF CoverInv, TeachInv, ProcsInv, ProcInv, OnTeaching, AfterSave, WithRules
    <3>3. QED
      BY <1>5, <3>1, <3>2 DEF Covers, Done, Evaluated, Ahead, Members
  <2>2. QED
    BY <1>2, <1>5, <2>1 DEF CoverInv
<1>6. ASSUME NEW p \in Procs, Start(p) \/ Crash(p) PROVE CoverInv'
  <2>1. UNCHANGED taught
    BY <1>6 DEF Start, Confirm, Resume, ResumeRead, Learn, RetireCheck, ScanStart, Crash, ledger
  <2>2. QED
    BY <1>4, <1>6, <2>1, StaysOutside
<1>7. ASSUME NEW p \in Procs, NEW i \in Items, Admit(p, i) PROVE CoverInv'
  BY <1>4, <1>7, StaysOutside DEF Admit, ledger
<1>8. ASSUME NEW p \in Procs, MarkPending(p) PROVE CoverInv'
  <2>1. UNCHANGED <<queueVars, taught>>
    BY <1>8 DEF MarkPending, Advance, ledger
  <2>2. QED
    BY <1>3, <1>8, <2>1, MarkPendingCovers
<1>9. ASSUME NEW p \in Procs, FetchPage(p) \/ EvaluateWork(p) PROVE CoverInv'
  <2>1. UNCHANGED taught /\ loc[p].pc \in Entered
    BY <1>9 DEF FetchPage, EvaluateWork, ledger, At, Entered
  <2>2. loc[p].t \in Teachings
    BY <2>1 DEF TeachInv, ProcsInv, ProcInv, OnTeaching, AfterSave, WithRules
  <2>3. PICK l \in Process : Becomes(p, l) /\ l.t = loc[p].t /\ Covers(l)
    BY <1>9, FetchPageCovers, EvaluateWorkCovers
  <2>4. Covers(l)'
    BY <1>1, <2>2, <2>3, CoversLasts DEF CoverInv
  <2>5. QED
    BY <1>3, <2>1, <2>3, <2>4
<1>10. ASSUME NEW p \in Procs, RecordWork(p) PROVE CoverInv'
  <2>1. TaughtIsMail'
    BY <1>1, <1>10, RecordWorkCovers
  <2>2. ASSUME NEW l, Becomes(p, l), Covers(l)' PROVE CoverInv'
    BY <1>1, <1>10, <2>1, <2>2, MoveCovers DEF CoverInv
  <2>3. QED
    BY <1>1, <1>10, <2>2, RecordWorkCovers
<1>11. ASSUME NEW p \in Procs,
              \/ CreateIntent(p) \/ Repreview(p) \/ SaveCheck(p) \/ SaveWrite(p) \/ MarkSaved(p)
              \/ LoadCatalog(p) \/ LoadRules(p) \/ Finish(p) \/ ScanEnd(p) \/ RetireWrite(p)
              \/ \E t \in Teachings : ResumeRead(p, t)
       PROVE  CoverInv'
  <2>1. UNCHANGED taught
    BY <1>11 DEF CreateIntent, Repreview, SaveCheck, SaveWrite, MarkSaved, LoadCatalog, LoadRules,
                 Finish, ScanEnd, RetireWrite, ResumeRead, Advance, ledger
  <2>2. QED
    BY <1>4, <1>11, <2>1, StaysOutside
<1>12. ASSUME NEW p \in Procs, Step(p) PROVE CoverInv'
  BY <1>8, <1>9, <1>10, <1>11, <1>12 DEF Step
<1>13. CASE QueueService \/ Tick \/ UNCHANGED teachVars
  BY <1>5, <1>13 DEF QueueService, Tick, teachVars, ledger
<1>14. QED
  BY <1>6, <1>7, <1>12, <1>13 DEF TeachNext

(* An advance ends in the stage it was asked for, or changes nothing.      *)
LEMMA AdvancedStatus ==
  ASSUME NEW op, NEW new, NEW cfg
  PROVE  Advanced(op, new, cfg) = op \/ Advanced(op, new, cfg).status = new
BY DEF Advanced

(* Four steps write an operation.                                          *)
LEMMA OperationWriters ==
  ASSUME [TeachNext]_teachVars, teach' # teach
  PROVE  \E p \in Procs : CreateIntent(p) \/ MarkSaved(p) \/ MarkPending(p) \/ Finish(p)
<1>1. ASSUME NEW p \in Procs, Start(p) \/ Crash(p) \/ (\E i \in Items : Admit(p, i)) PROVE FALSE
  BY <1>1 DEF Start, Confirm, Resume, ResumeRead, Learn, RetireCheck, ScanStart, Crash,
              Admit, ledger
<1>2. ASSUME NEW p \in Procs, Step(p)
      PROVE  CreateIntent(p) \/ MarkSaved(p) \/ MarkPending(p) \/ Finish(p)
  BY <1>2 DEF Step, ResumeRead, Repreview, SaveCheck, SaveWrite, LoadCatalog, LoadRules,
              FetchPage, EvaluateWork, RecordWork, Record, ScanEnd, RetireWrite, ledger
<1>3. ~(QueueService \/ Tick \/ UNCHANGED teachVars)
  BY DEF QueueService, Tick, teachVars, ledger
<1>4. QED
  BY <1>1, <1>2, <1>3 DEF TeachNext

(* Only the record of a reevaluation writes evaluations.                   *)
LEMMA EvaluationWriters ==
  ASSUME [TeachNext]_teachVars, taught' # taught
  PROVE  \E p \in Procs : RecordWork(p)
<1>1. ASSUME NEW p \in Procs, Start(p) \/ Crash(p) \/ (\E i \in Items : Admit(p, i)) PROVE FALSE
  BY <1>1 DEF Start, Confirm, Resume, ResumeRead, Learn, RetireCheck, ScanStart, Crash,
              Admit, ledger
<1>2. ASSUME NEW p \in Procs, Step(p) PROVE RecordWork(p)
  BY <1>2 DEF Step, CreateIntent, ResumeRead, Repreview, SaveCheck, SaveWrite, MarkSaved,
              LoadCatalog, LoadRules, MarkPending, FetchPage, EvaluateWork, Finish, Advance,
              ScanEnd, RetireWrite, ledger
<1>3. ~(QueueService \/ Tick \/ UNCHANGED teachVars)
  BY DEF QueueService, Tick, teachVars, ledger
<1>4. QED
  BY <1>1, <1>2, <1>3 DEF TeachNext

LEMMA OnlyFinishCompletes ==
  ASSUME TeachInv, [TeachNext]_teachVars, NEW t \in Teachings,
         teach[t].status # "completed", teach'[t].status = "completed"
  PROVE  \E p \in Procs : Finish(p) /\ loc[p].t = t /\ ~loc[p].bad
<1>1. teach' # teach
  OBVIOUS
<1>2. PICK p \in Procs : CreateIntent(p) \/ MarkSaved(p) \/ MarkPending(p) \/ Finish(p)
  BY <1>1, OperationWriters
<1>3. teach \in [Teachings -> Operation]
  BY DEF TeachInv, StoreInv
<1>4. ASSUME NEW u \in Teachings, NEW new, NEW cfg, Advance(u, new, cfg)
      PROVE  new = "completed" /\ u = t
  BY <1>3, <1>4, AdvancedStatus DEF Advance
<1>5. ~CreateIntent(p)
  <2>1. SUFFICES ASSUME CreateIntent(p) PROVE FALSE
    OBVIOUS
  <2>2. loc[p].draft.status = "intent"
    BY <2>1 DEF CreateIntent, At, TeachInv, ProcsInv, ProcInv
  <2>3. PICK u \in Teachings : teach' = [teach EXCEPT ![u] = loc[p].draft]
    BY <1>1, <2>1 DEF CreateIntent
  <2>4. QED
    BY <1>3, <2>2, <2>3
<1>6. MarkSaved(p) \/ MarkPending(p) \/ Finish(p) => loc[p].t \in Teachings
  BY DEF MarkSaved, MarkPending, Finish, At, TeachInv, ProcsInv, ProcInv, OnTeaching, AfterSave,
         WithRules, Entered
<1>7. ~MarkSaved(p) /\ ~MarkPending(p)
  BY <1>1, <1>4, <1>6 DEF MarkSaved, MarkPending, ledger
<1>8. QED
  BY <1>1, <1>2, <1>4, <1>5, <1>6, <1>7 DEF Finish, ledger

(* The induction on which completion rests.                                *)
LEMMA CoverInvariant == TeachSpec => [](TeachInv /\ QueueIInv /\ CoverInv)
<1>1. TeachInit => CoverInv
  BY DEF TeachInit, CoverInv, TaughtIsMail, Covers, Idle, Entered
<1>2. TeachSpec => []QueueIInv
  BY TeachingImplementsQueue, QueueInvariant, PTL DEF RefinesQueue, QueueSpec
<1>3. QED
  BY <1>1, <1>2, TeachInvariant, CoverStep, PTL DEF TeachSpec

(* A teaching completes only when all of the queue it found was covered.   *)
THEOREM CompletionCovers == TeachSpec => CompletionCoversQueue
<1>1. TeachInv /\ QueueIInv /\ CoverInv /\ [TeachNext]_teachVars =>
        \A t \in Teachings :
          teach[t].status # "completed" /\ teach'[t].status = "completed" =>
            \E p \in Procs :
              /\ At(p, "finish") /\ loc[p].t = t
              /\ \A w \in loc[p].due : Evaluated(t, w) \/ state[w] = "resolved"
  <2>1. SUFFICES ASSUME TeachInv, QueueIInv, CoverInv, [TeachNext]_teachVars, NEW t \in Teachings,
                        teach[t].status # "completed", teach'[t].status = "completed"
                 PROVE  \E p \in Procs :
                          /\ At(p, "finish") /\ loc[p].t = t
                          /\ \A w \in loc[p].due : Evaluated(t, w) \/ state[w] = "resolved"
    OBVIOUS
  <2>2. PICK p \in Procs : Finish(p) /\ loc[p].t = t /\ ~loc[p].bad
    BY <2>1, OnlyFinishCompletes
  <2>3. At(p, "finish") /\ Covers(loc[p])
    BY <2>1, <2>2 DEF Finish, CoverInv
  <2>4. \A w \in loc[p].due : ~Ahead(loc[p], w)
    BY <2>3 DEF Ahead, At
  <2>5. \A w \in loc[p].due : Done(loc[p].t, w) \/ loc[p].bad \/ Ahead(loc[p], w)
    BY <2>3 DEF Covers, Entered, At
  <2>6. \A w \in loc[p].due : Done(t, w)
    BY <2>2, <2>4, <2>5, Zenon
  <2>7. QED
    BY <2>2, <2>3, <2>6 DEF Done
<1>2. QED
  BY <1>1, CoverInvariant, PTL DEF TeachSpec, CompletionCoversQueue

------------------------------------------------------------------------------
(* The ITEM an operation teaches from is a member of its work, and its     *)
(* evaluation by that operation leaves this work resolved.                 *)
Rooted(op) == op.work \in Works /\ op.item \in Members(op.work)

SettledBy(t) ==
  /\ Exists(t) => Rooted(teach[t])
  /\ Exists(t) /\ taught[t][teach[t].item] # NoEvaluation => state[teach[t].work] = "resolved"
  /\ teach[t].status = "completed" => state[teach[t].work] = "resolved"

(* A process that confirms has a work at hand; one that reevaluates has    *)
(* the work it teaches from among the work it has to deal with.            *)
Heads(l) ==
  /\ l.pc = "confirmed" => l.draft.work \in Works
  /\ Shows(l)
  /\ l.pc \in Entered => teach[l.t].work \in l.due \/ state[teach[l.t].work] = "resolved"

ResolveInv ==
  /\ \A t \in Teachings : SettledBy(t)
  /\ \A p \in Procs : Heads(loc[p])

(* An advance touches the progress of an operation and nothing else.       *)
LEMMA AdvancedKeeps ==
  ASSUME NEW op \in Operation, NEW new, NEW cfg
  PROVE  LET nop == Advanced(op, new, cfg) IN
         nop.work = op.work /\ nop.item = op.item /\ nop.obs = op.obs /\ nop.category = op.category
BY DEF Advanced, Operation

(* An operation is about the same message for ever.                        *)
LEMMA OperationsStay ==
  ASSUME TeachInv, [TeachNext]_teachVars, NEW t \in Teachings, Exists(t)
  PROVE  teach'[t].work = teach[t].work /\ teach'[t].item = teach[t].item
<1>1. teach \in [Teachings -> Operation]
  BY DEF TeachInv, StoreInv
<1>2. CASE teach' = teach
  BY <1>2
<1>3. CASE teach' # teach
  <2>1. PICK p \in Procs : CreateIntent(p) \/ MarkSaved(p) \/ MarkPending(p) \/ Finish(p)
    BY <1>3, OperationWriters
  <2>2. ASSUME NEW u \in Teachings, NEW new, NEW cfg, Advance(u, new, cfg)
        PROVE  teach'[t].work = teach[t].work /\ teach'[t].item = teach[t].item
    BY <1>1, <2>2, AdvancedKeeps DEF Advance
  <2>3. MarkSaved(p) \/ MarkPending(p) \/ Finish(p) => loc[p].t \in Teachings
    BY DEF MarkSaved, MarkPending, Finish, At, TeachInv, ProcsInv, ProcInv, OnTeaching, AfterSave,
           WithRules, Entered
  <2>4. CASE CreateIntent(p)
    <3>1. PICK u \in Teachings : ~Exists(u) /\ teach' = [teach EXCEPT ![u] = loc[p].draft]
      BY <1>3, <2>4 DEF CreateIntent
    <3>2. QED
      BY <1>1, <3>1
  <2>5. QED
    BY <1>3, <2>1, <2>2, <2>3, <2>4 DEF MarkSaved, MarkPending, Finish, ledger
<1>4. QED
  BY <1>2, <1>3

(* The rule taught from one observation of a message decides every later   *)
(* observation of it that shows a sender.                                  *)
LEMMA RuleResolves ==
  ASSUME NEW op, Sighted(op), NEW rules, rules \subseteq learned, OneCategoryPerSender,
         RuleOf(op) \in rules, NEW cfg, cfg.learned = rules,
         NEW n \in DOMAIN Evidence[op.item], SenderOf[Content(op.item, n)] # NoSender
  PROVE  Resolves(Content(op.item, n), cfg)
<1>1. op.obs \in DOMAIN Evidence[op.item]
  BY TeachingAssumption DEF Sighted
<1>2. SenderOf[Content(op.item, n)] = SenderOf[Content(op.item, op.obs)]
  BY <1>1, MessageAssumption DEF Content, Sighted
<1>3. PICK k, c : k = Content(op.item, n) /\ c = op.category
  OBVIOUS
<1>4. RuleOf(op).sender = SenderOf[k] /\ RuleOf(op).category = c
  BY <1>2, <1>3 DEF RuleOf
<1>5. \A r \in rules : r.sender = SenderOf[k] => r.category = c
  BY <1>4 DEF OneCategoryPerSender, Conflicting
<1>6. Matches(k, rules) = {c}
  BY <1>4, <1>5 DEF Matches
<1>7. Cardinality({c}) = 1
  BY FS_Singleton
<1>8. QED
  BY <1>3, <1>6, <1>7 DEF Resolves

(* An evaluation of the ITEM a teaching is about leaves the work it taught *)
(* from resolved: this one, or the ITEM had moved on to later work.        *)
LEMMA RecordTeaches ==
  ASSUME TeachInv, QueueIInv, QueueIInv', [QueueNext]_queueVars, ResolveInv,
         NEW p \in Procs, RecordWork(p), Exists(loc[p].t),
         taught[loc[p].t][teach[loc[p].t].item] = NoEvaluation,
         taught'[loc[p].t][teach[loc[p].t].item] # NoEvaluation
  PROVE  state'[teach[loc[p].t].work] = "resolved"
<1> PICK t, w, found, cfg, fresh, op :
      /\ t = loc[p].t /\ w = loc[p].cursor /\ found = loc[p].found /\ cfg = loc[p].cfg
      /\ fresh = NotYetTaught(p) /\ op = teach[loc[p].t]
  OBVIOUS
<1> DEFINE resolved == {i \in fresh : Resolves(Content(i, found[i]), cfg)}
<1>1. /\ loc[p].pc = "record" /\ t \in Teachings /\ w \in Works
      /\ RuleOf(op) \in cfg.learned /\ cfg.learned \subseteq learned
  BY DEF RecordWork, Record, At, TeachInv, ProcsInv, ProcInv, OnTeaching, AfterSave,
         WithRules, Entered
<1>2. Sighted(op) /\ op.item \in Items /\ OneCategoryPerSender
  BY <1>1 DEF TeachInv, LedgerInv, Sighted
<1>3. /\ Decided(p) = Members(w)
      /\ Unresolved(w)
      /\ ApplyDecisions(w, fresh, resolved, loc[p].now)
      /\ taught' = [taught EXCEPT ![t] = [i \in Items |->
           IF i \in fresh THEN [obs |-> found[i], cfg |-> cfg] ELSE taught[t][i]]]
  BY DEF RecordWork, Record, MayReevaluate, ReevaluateTaught
<1>4. op.item \in fresh
  BY <1>1, <1>2, <1>3 DEF TeachInv, StoreInv
<1>5. op.item \in Members(w) /\ found[op.item] > 0
  BY <1>3, <1>4 DEF NotYetTaught, Decided
<1>6. IsGmail(op.item)
  BY <1>1, <1>2, <1>5 DEF TeachInv, ProcsInv, ProcInv
<1>7. op.work \in Works /\ op.item \in Members(op.work)
  BY <1>1 DEF ResolveInv, SettledBy, Rooted
<1>8. CASE op.work = w
  <2>1. \A i \in Members(w) : i = op.item
    BY <1>1, <1>5, <1>6 DEF QueueIInv, GmailWorkIsSingleton
  <2>2. found[op.item] \in DOMAIN Evidence[op.item]
        /\ SenderOf[Content(op.item, found[op.item])] # NoSender
    BY <1>1, <1>2, <1>5 DEF ResolveInv, Heads, Shows
  <2>3. Resolves(Content(op.item, found[op.item]), cfg)
    BY <1>1, <1>2, <2>2, RuleResolves
  <2>4. op.item \in resolved
    BY <1>4, <2>3
  <2> HIDE DEF resolved
  <2>5. \A i \in Items : AfterDecisions(w, resolved)[i] \notin Open
    BY <2>1, <2>4 DEF AfterDecisions, Members, Open
  <2>6. state'[w] = "resolved"
    BY <1>1, <1>3, <2>5 DEF ApplyDecisions, WorkStateAfter, QueueIInv, QueueTypeOK
  <2>7. QED
    BY <1>8, <2>6
<1>9. CASE op.work # w
  <2>1. state[op.work] # "absent" /\ ~Unresolved(op.work)
    BY <1>1, <1>2, <1>3, <1>5, <1>7, <1>9
       DEF QueueIInv, OneUnresolvedWorkPerItem, UnresolvedWorkOf, WorkResolvesWithMembers
  <2>2. state[op.work] = "resolved"
    BY <1>7, <2>1 DEF Unresolved, QueueIInv, QueueTypeOK, RowState
  <2>3. QED
    BY <1>7, <2>2, WorkLasts
<1>10. QED
  BY <1>8, <1>9

(* What a process heads for stays so, whatever the others do.              *)
LEMMA HeadsLasts ==
  ASSUME TeachInv, QueueIInv, QueueIInv', [QueueNext]_queueVars, [TeachNext]_teachVars,
         ResolveInv, NEW l, Heads(l), l.pc \in Entered => l.t \in Teachings /\ Exists(l.t)
  PROVE  Heads(l)'
<1>1. ASSUME l.pc \in Entered
      PROVE  /\ teach'[l.t].work = teach[l.t].work
             /\ state[teach[l.t].work] = "resolved" => state'[teach[l.t].work] = "resolved"
  <2>1. teach'[l.t].work = teach[l.t].work /\ teach[l.t].work \in Works
    BY <1>1, OperationsStay DEF ResolveInv, SettledBy, Rooted
  <2>2. QED
    BY <2>1, WorkLasts
<1>2. QED
  BY <1>1 DEF Heads, Shows

(* One process moves; the others head for what they did.                   *)
LEMMA MoveHeads ==
  ASSUME TeachInv, QueueIInv, QueueIInv', [QueueNext]_queueVars, [TeachNext]_teachVars, ResolveInv,
         NEW p \in Procs, NEW l, Becomes(p, l), Heads(l)'
  PROVE  \A q \in Procs : Heads(loc[q])'
<1>1. ASSUME NEW q \in Procs PROVE Heads(loc[q])'
  <2>1. CASE q = p
    <3>1. loc'[q] = l
      BY <2>1 DEF Becomes, TeachInv, ProcsInv
    <3>2. QED
      BY <3>1 DEF Heads, Shows
  <2>2. CASE q # p
    <3>1. loc'[q] = loc[q]
      BY <2>2 DEF Becomes, TeachInv, ProcsInv
    <3>2. PICK k : k = loc[q]
      OBVIOUS
    <3>3. Heads(k)'
      BY <3>2, HeadsLasts DEF TeachInv, ProcsInv, ProcInv, ResolveInv, OnTeaching, AfterSave, WithRules
    <3>4. QED
      BY <3>1, <3>2, <3>3 DEF Heads, Shows
  <2>3. QED
    BY <2>1, <2>2
<1>2. QED
  BY <1>1

(* A process that enters or goes on with the reevaluation still heads for  *)
(* the work it teaches from.                                               *)
LEMMA HeadsStep ==
  ASSUME TeachInv, QueueIInv, QueueIInv', CoverInv, ResolveInv, [TeachNext]_teachVars
  PROVE  \A p \in Procs : Heads(loc[p])'
<1>1. Grows /\ [QueueNext]_queueVars
  BY TeachNextInv, QueueStep
<1>2. ASSUME NEW p \in Procs, Outside(p) PROVE \A q \in Procs : Heads(loc[q])'
  <2>1. PICK l : /\ Becomes(p, l) /\ l.pc \notin Entered
                 /\ l.pc = "confirmed" => l.draft.work \in Works
    BY <1>2 DEF Outside
  <2>2. Heads(l)'
    BY <2>1 DEF Heads, Shows, Entered
  <2>3. QED
    BY <1>1, <1>2, <2>1, <2>2, MoveHeads
<1>3. ASSUME UNCHANGED loc PROVE \A p \in Procs : Heads(loc[p])'
  <2>1. ASSUME NEW p \in Procs PROVE Heads(loc[p])'
    <3>1. PICK l : l = loc[p]
      OBVIOUS
    <3>2. Heads(l)'
      BY <1>1, <3>1, HeadsLasts
         DEF TeachInv, ProcsInv, ProcInv, ResolveInv, OnTeaching, AfterSave, WithRules
    <3>3. QED
      BY <1>3, <3>1, <3>2 DEF Heads, Shows
  <2>2. QED
    BY <2>1
<1>4. ASSUME NEW p \in Procs, NEW l, Becomes(p, l), Shows(l), l.pc \in Entered,
             loc[p].pc \in Entered, l.t = loc[p].t, l.due = loc[p].due
      PROVE  \A q \in Procs : Heads(loc[q])'
  <2>1. l.t \in Teachings /\ Exists(l.t)
    BY <1>4 DEF TeachInv, ProcsInv, ProcInv, OnTeaching, AfterSave, WithRules
  <2>2. Heads(l)
    BY <1>4 DEF ResolveInv, Heads, Entered
  <2>3. Heads(l)'
    BY <1>1, <2>1, <2>2, HeadsLasts
  <2>4. QED
    BY <1>1, <1>4, <2>3, MoveHeads
<1>5. ASSUME NEW p \in Procs, FetchPage(p) \/ EvaluateWork(p)
      PROVE  \A q \in Procs : Heads(loc[q])'
  <2>1. loc[p].pc \in Entered
    BY <1>5 DEF FetchPage, EvaluateWork, At, Entered
  <2>2. PICK l \in Process : /\ Becomes(p, l) /\ Shows(l) /\ l.pc \in Entered
                             /\ l.t = loc[p].t /\ l.due = loc[p].due
    BY <1>5, FetchPageCovers, EvaluateWorkCovers
  <2>3. QED
    BY <1>4, <1>5, <2>1, <2>2
<1>6. ASSUME NEW p \in Procs, RecordWork(p) PROVE \A q \in Procs : Heads(loc[q])'
  <2>1. loc[p].pc \in Entered
    BY <1>6 DEF RecordWork, Record, At, Entered
  <2>2. \E l : /\ Becomes(p, l) /\ l.pc \in {"idle", "works"}
               /\ l.pc = "works" => l.t = loc[p].t /\ l.due = loc[p].due
    BY <1>1, <1>6, RecordWorkCovers
  <2>3. PICK l : /\ Becomes(p, l) /\ l.pc \in {"idle", "works"}
                 /\ l.pc = "works" => l.t = loc[p].t /\ l.due = loc[p].due
    BY <2>2
  <2>4. CASE l.pc = "works"
    BY <1>4, <1>6, <2>1, <2>3, <2>4 DEF Shows, Entered
  <2>5. CASE l.pc = "idle"
    <3>1. Heads(l)'
      BY <2>5 DEF Heads, Shows, Entered
    <3>2. QED
      BY <1>1, <1>6, <2>3, <3>1, MoveHeads
  <2>6. QED
    BY <2>3, <2>4, <2>5
<1>7. ASSUME NEW p \in Procs, MarkPending(p) PROVE \A q \in Procs : Heads(loc[q])'
  <2>1. UNCHANGED queueVars
    BY <1>7 DEF MarkPending
  <2>2. \E l : /\ Becomes(p, l) /\ l.pc \in {"idle", "works"}
               /\ l.pc = "works" => l.t = loc[p].t /\ l.due = {w \in Works : Unresolved(w)}
    BY <1>7, <2>1, MarkPendingCovers
  <2>3. PICK l : /\ Becomes(p, l) /\ l.pc \in {"idle", "works"}
                 /\ l.pc = "works" => l.t = loc[p].t /\ l.due = {w \in Works : Unresolved(w)}
    BY <2>2
  <2>4. loc[p].t \in Teachings /\ Exists(loc[p].t)
    BY <1>7 DEF MarkPending, At, TeachInv, ProcsInv, ProcInv, OnTeaching, AfterSave, WithRules
  <2>5. PICK w : w = teach[loc[p].t].work
    OBVIOUS
  <2>6. w \in Works /\ Members(w) # {} /\ teach'[loc[p].t].work = w
    BY <2>4, <2>5, OperationsStay DEF ResolveInv, SettledBy, Rooted
  <2>7. Unresolved(w) \/ state'[w] = "resolved"
    BY <2>1, <2>6 DEF QueueIInv, QueueTypeOK, RowState, WorkResolvesWithMembers, Unresolved, queueVars
  <2>8. Heads(l)'
    BY <2>3, <2>5, <2>6, <2>7 DEF Heads, Shows, Entered
  <2>9. QED
    BY <1>1, <1>7, <2>3, <2>8, MoveHeads
<1>8. ASSUME NEW p \in Procs, NEW i \in Items, Admit(p, i) PROVE \A q \in Procs : Heads(loc[q])'
  BY <1>2, <1>8, StaysOutside
<1>9. ASSUME NEW p \in Procs, Start(p) \/ Crash(p) PROVE \A q \in Procs : Heads(loc[q])'
  BY <1>2, <1>9, StaysOutside
<1>10. ASSUME NEW p \in Procs, Step(p) PROVE \A q \in Procs : Heads(loc[q])'
  BY <1>2, <1>5, <1>6, <1>7, <1>10, StaysOutside DEF Step
<1>11. CASE QueueService \/ Tick \/ UNCHANGED teachVars
  BY <1>3, <1>11 DEF QueueService, Tick, teachVars
<1>12. QED
  BY <1>8, <1>9, <1>10, <1>11 DEF TeachNext

(* An intent, a record and a completion: what a teaching claims of its     *)
(* work holds after each of them, and lasts.                               *)
LEMMA SettledStep ==
  ASSUME TeachInv, QueueIInv, QueueIInv', CoverInv, ResolveInv, [TeachNext]_teachVars,
         NEW t \in Teachings
  PROVE  SettledBy(t)'
<1>1. Grows /\ TeachInv' /\ [QueueNext]_queueVars
  BY TeachNextInv, QueueStep
<1>2. CASE ~Exists(t) /\ ~Exists(t)'
  BY <1>2, StatusNames DEF SettledBy, Exists
<1>3. CASE ~Exists(t) /\ Exists(t)'
  <2>1. teach' # teach
    BY <1>3 DEF Exists
  <2>2. teach \in [Teachings -> Operation]
    BY DEF TeachInv, StoreInv
  <2>3. PICK p \in Procs : CreateIntent(p) \/ MarkSaved(p) \/ MarkPending(p) \/ Finish(p)
    BY <2>1, OperationWriters
  <2>4. MarkSaved(p) \/ MarkPending(p) \/ Finish(p) => loc[p].t \in Teachings /\ Exists(loc[p].t)
    BY DEF MarkSaved, MarkPending, Finish, At, TeachInv, ProcsInv, ProcInv, OnTeaching, AfterSave,
           WithRules, Entered
  <2>5. CreateIntent(p)
    BY <1>3, <2>1, <2>2, <2>3, <2>4 DEF MarkSaved, MarkPending, Finish, Advance, Exists, ledger
  <2>6. PICK op : op = loc[p].draft
    OBVIOUS
  <2>7. PICK u \in Teachings : /\ ~Exists(u) /\ teach' = [teach EXCEPT ![u] = op]
                               /\ op.item \in Members(op.work)
    BY <2>1, <2>5, <2>6 DEF CreateIntent
  <2>8. teach'[t] = op
    BY <1>3, <2>2, <2>7 DEF Exists
  <2>9. op.work \in Works /\ op.status = "intent" /\ op.item \in Items
    BY <2>5, <2>6 DEF CreateIntent, At, ResolveInv, Heads, TeachInv, ProcsInv, ProcInv, Sighted
  <2>10. UNCHANGED <<queueVars, taught>>
    BY <2>5 DEF CreateIntent
  <2>11. taught'[t][op.item] = NoEvaluation
    BY <1>3, <2>9, <2>10 DEF TeachInv, LedgerInv, EvaluationProvenance, Exists
  <2>12. Rooted(op)'
    BY <2>7, <2>9, <2>10 DEF Rooted, Members, queueVars
  <2>13. QED
    BY <2>8, <2>9, <2>11, <2>12 DEF SettledBy, Rooted, Members
<1>4. CASE Exists(t)
  <2>1. PICK op : op = teach[t]
    OBVIOUS
  <2>2. /\ op.work \in Works /\ op.item \in Members(op.work) /\ op.item \in Items
        /\ teach'[t].work = op.work /\ teach'[t].item = op.item /\ Exists(t)'
    BY <1>1, <1>4, <2>1, OperationsStay DEF ResolveInv, SettledBy, Rooted, Members, Grows
  <2>3. state[op.work] # "absent"
    BY <2>2 DEF QueueIInv, WorkResolvesWithMembers
  <2>4. /\ state[op.work] = "resolved" => state'[op.work] = "resolved"
        /\ op.item \in Members(op.work)'
    BY <1>1, <2>2, <2>3, WorkLasts
  <2>5. ASSUME taught'[t][op.item] # NoEvaluation PROVE state'[op.work] = "resolved"
    <3>1. CASE taught[t][op.item] # NoEvaluation
      BY <1>4, <2>1, <2>4, <3>1 DEF ResolveInv, SettledBy
    <3>2. CASE taught[t][op.item] = NoEvaluation
      <4>1. PICK p \in Procs : RecordWork(p)
        BY <2>5, <3>2, EvaluationWriters
      <4>2. loc[p].t = t
        BY <2>5, <3>2, <4>1 DEF RecordWork, Record, TeachInv, StoreInv
      <4>3. QED
        BY <1>1, <1>4, <2>1, <2>5, <3>2, <4>1, <4>2, RecordTeaches
    <3>3. QED
      BY <3>1, <3>2
  <2>6. ASSUME teach'[t].status = "completed" PROVE state'[op.work] = "resolved"
    <3>1. CASE teach[t].status = "completed"
      BY <2>1, <2>4, <3>1 DEF ResolveInv, SettledBy
    <3>2. CASE teach[t].status # "completed"
      <4>1. PICK p \in Procs : Finish(p) /\ loc[p].t = t /\ ~loc[p].bad
        BY <2>6, <3>2, OnlyFinishCompletes
      <4>2. loc[p].pc = "finish" /\ Covers(loc[p]) /\ Heads(loc[p])
        BY <4>1 DEF Finish, At, CoverInv, ResolveInv
      <4>3. state[op.work] = "resolved" \/ op.work \in loc[p].due
        BY <2>1, <4>1, <4>2 DEF Heads, Entered
      <4>4. ~Ahead(loc[p], op.work)
        BY <4>2 DEF Ahead
      <4>5. \A w \in loc[p].due : Done(t, w) \/ loc[p].bad \/ Ahead(loc[p], w)
        BY <4>1, <4>2 DEF Covers, Entered
      <4>6. op.work \in loc[p].due => Done(t, op.work)
        BY <4>1, <4>4, <4>5, Zenon
      <4>7. Done(t, op.work) => state[op.work] = "resolved"
        BY <1>4, <2>1, <2>2 DEF Done, Evaluated, ResolveInv, SettledBy
      <4>8. QED
        BY <2>4, <4>3, <4>6, <4>7
    <3>3. QED
      BY <3>1, <3>2
  <2>7. QED
    BY <2>2, <2>4, <2>5, <2>6 DEF SettledBy, Rooted, Members
<1>5. QED
  BY <1>2, <1>3, <1>4

(* What teachings claim of the work they were taught from, at all times.   *)
LEMMA ResolveInvariant == TeachSpec => []ResolveInv
<1>1. TeachInit => ResolveInv
  BY DEF TeachInit, ResolveInv, SettledBy, Heads, Shows, Idle, Entered, Exists, NoOperation
<1>2. TeachInv /\ QueueIInv /\ QueueIInv' /\ CoverInv /\ ResolveInv /\ [TeachNext]_teachVars
        => ResolveInv'
  BY SettledStep, HeadsStep DEF ResolveInv
<1>3. QED
  BY <1>1, <1>2, CoverInvariant, PTL DEF TeachSpec

(* The work a teaching was confirmed for is resolved once it completes.    *)
THEOREM CompletedTeachingsResolve == TeachSpec => []CompletedTeachingResolves
<1>1. ResolveInv => CompletedTeachingResolves
  BY DEF ResolveInv, SettledBy, CompletedTeachingResolves
<1>2. QED
  BY <1>1, ResolveInvariant, PTL
==============================================================================
