------------------------------- MODULE Teaching -------------------------------
(***************************************************************************)
(* A human's classification decision, from the confirmed preview to the    *)
(* reevaluated queue (teaching.py), over the three stores it has to keep   *)
(* together without a common transaction: the learned-rule file            *)
(* (learning.py, under a lock on its directory), the category catalog      *)
(* (categories.py, under a lock of its own) and the SQLite database        *)
(* (storage.py; the queue part is WorkQueue).  Several DAM processes run   *)
(* at once, each may die between two of its steps, and scans keep queueing *)
(* ITEMs under the configuration they loaded when they began.              *)
(*                                                                         *)
(* A learned rule matches one exact sender and names one category, so the  *)
(* classifier is modelled by the categories the rules give to the sender   *)
(* of an observation; static rules are taken to match nothing.  A          *)
(* configuration fingerprint is the configuration itself.  An operator     *)
(* whose name holds "Fault" is a plausible mistake, not part of the model. *)
(***************************************************************************)
EXTENDS WorkQueue, Sequences

CONSTANTS
  Procs,          \* DAM processes
  Teachings,      \* TEACH identities (bound on the teachings of a run)
  Categories,     \* permanent category identities
  Contents,       \* what an observation of a message may show
  SenderOf,       \* its one unambiguous sender, or NoSender
  Evidence,       \* the observations successive scans make of each ITEM
  Retirable,      \* categories the human may retire
  Learnable,      \* contents `dam learn --save` may be given
  Deferrable,     \* work the human may defer (bound)
  PageSize,       \* work listed at a time (32 in teaching.py)
  NoSender, NoTeaching, NoConfig

ASSUME TeachingAssumption ==
  /\ Evidence \in [Items -> Seq(Contents)]
  /\ \A i \in Items : ~IsGmail(i) => Evidence[i] = <<>>
  /\ Retirable \subseteq Categories /\ Learnable \subseteq Contents
  /\ Deferrable \subseteq Works
  /\ PageSize \in Nat \ {0}
  /\ 0 \notin Works                  \* the cursor before the first work
  /\ NoTeaching \notin Teachings

(* Gmail keeps the sender of a message; an observation may fail to show it.*)
ASSUME MessageAssumption ==
  \A i \in Items : \A m, n \in DOMAIN Evidence[i] :
    \/ SenderOf[Evidence[i][m]] = SenderOf[Evidence[i][n]]
    \/ NoSender \in {SenderOf[Evidence[i][m]], SenderOf[Evidence[i][n]]}

VARIABLES
  learned,  \* records of learned-rules.yaml
  catalog,  \* status of every category in categories.yaml
  seen,     \* number of persisted observations of each ITEM
  teach,    \* teaching_operations
  taught,   \* classification_evaluations of each (teaching, ITEM)
  clock,    \* the time of day, as coarse as the bound MaxTime
  loc       \* what each process holds in memory; lost when it dies

files     == <<learned, catalog>>
ledger    == <<teach, taught>>
teachVars == <<queueVars, files, ledger, seen, clock, loc>>

Stages  == [none |-> 0, intent |-> 1, rule_saved |-> 2,
            pending_reevaluation |-> 3, completed |-> 4]
Rules   == [sender : {SenderOf[k] : k \in Contents} \ {NoSender}, category : Categories]
Configs == [learned : SUBSET Rules, catalog : [Categories -> {"active", "retired"}]]

ASSUME NoConfigAssumption == NoConfig \notin Configs

NoOperation == [work |-> 0, item |-> NoItem, obs |-> 0, category |-> NoSender,
                cfgBefore |-> NoConfig, cfgAfter |-> NoConfig, status |-> "none"]
NoEvaluation == [obs |-> 0, cfg |-> NoConfig]

Idle == [pc |-> "idle", t |-> NoTeaching, draft |-> NoOperation, status |-> "none",
         now |-> 0, rule |-> {}, cfg |-> NoConfig, cursor |-> 0, page |-> {},
         found |-> [i \in Items |-> 0], bad |-> FALSE, due |-> {}, todo |-> {}]

At(p, pc)     == loc[p].pc = pc
Becomes(p, l) == loc' = [loc EXCEPT ![p] = l]
Stop(p)       == Becomes(p, Idle)                \* return, or an exception

------------------------------------------------------------------------------
(* Evidence, rules and configurations.                                     *)
Content(i, n) == Evidence[i][n]

Matches(k, rules) == {r.category : r \in {s \in rules : s.sender = SenderOf[k]}}

(* category_teaching_required: no candidate category; None on a conflict.  *)
TeachingRequired(k, cfg) == Matches(k, cfg.learned) = {}

Resolves(k, cfg) == Cardinality(Matches(k, cfg.learned)) = 1

(* UNKNOWN_ELIGIBILITY: an unreadable sender leaves every rule undecided.  *)
Insufficient(k, cfg) == SenderOf[k] = NoSender /\ cfg.learned # {}

Usable(i, cfg) == seen[i] > 0 /\ ~Insufficient(Content(i, seen[i]), cfg)

(* Categories and rules merge only when every learned target is active.    *)
Loadable(rules, cat) == \A r \in rules : cat[r.category] = "active"

CurrentConfig == [learned |-> learned, catalog |-> catalog]

RuleOf(op) == [sender |-> SenderOf[Content(op.item, op.obs)], category |-> op.category]

Conflicting(r, rules) == \E s \in rules : s.sender = r.sender /\ s.category # r.category

(* The candidate fingerprint covers the message, the rule and the          *)
(* configuration; the preview fingerprint also the pinned observation.     *)
SameCandidate(a, b) ==
  /\ a.work = b.work /\ a.item = b.item /\ a.category = b.category
  /\ a.cfgBefore = b.cfgBefore
  /\ Content(a.item, a.obs) = Content(b.item, b.obs)
SamePreview(a, b) == a.obs = b.obs /\ SameCandidate(a, b)

Exists(t) == teach[t].status # "none"

(* advance_teaching: one stage forward; a stage already reached is kept.   *)
AdvancedFaultEventName(op, new, cfg) ==
  IF Stages[new] <= Stages[op.status] THEN op
  ELSE [op EXCEPT !.cfgAfter = IF cfg = NoConfig THEN @ ELSE cfg,
          !.status = IF new = "pending_reevaluation" THEN "reevaluation_pending" ELSE new]

Advanced(op, new, cfg) ==
  IF Stages[new] <= Stages[op.status] THEN op
  ELSE [op EXCEPT !.status = new, !.cfgAfter = IF cfg = NoConfig THEN @ ELSE cfg]

Advance(t, new, cfg) ==
  /\ Stages[new] <= Stages[teach[t].status] + 1
  /\ teach' = [teach EXCEPT ![t] = Advanced(teach[t], new, cfg)]
  /\ UNCHANGED taught

------------------------------------------------------------------------------
(* confirm: the preview is rebuilt from the latest observation and must be *)
(* the one the human confirmed; an existing operation is looked up.        *)
Confirm(p, w, i, c) ==
  LET draft == [work |-> w, item |-> i, obs |-> seen[i], category |-> c,
                cfgBefore |-> CurrentConfig, cfgAfter |-> NoConfig, status |-> "intent"]
      known == {t \in Teachings : Exists(t) /\ SamePreview(teach[t], draft)}
  IN /\ At(p, "idle")
     /\ Loadable(learned, catalog)
     /\ Unresolved(w) /\ i \in Members(w)
     /\ seen[i] > 0 /\ SenderOf[Content(i, seen[i])] # NoSender
     /\ catalog[c] = "active"
     /\ known # {} \/ \E t \in Teachings : ~Exists(t)
     /\ Becomes(p, [Idle EXCEPT !.pc = "confirmed", !.draft = draft,
          !.t = IF known = {} THEN NoTeaching ELSE CHOOSE t \in known : TRUE])
     /\ UNCHANGED <<queueVars, files, ledger, seen, clock>>

(* create_teaching_intent, one transaction.  A prior row for the candidate *)
(* is returned only to the caller that had found it; a caller that chose a *)
(* new identity, or pinned another observation, is refused.                *)
Prior(draft) == {t \in Teachings : Exists(t) /\ SameCandidate(teach[t], draft)}

CreateIntentFaultUnchecked(p) ==
  LET draft == loc[p].draft IN
  /\ At(p, "confirmed")
  /\ Unresolved(draft.work)
  /\ \E t \in Teachings :
       /\ ~Exists(t)
       /\ teach' = [teach EXCEPT ![t] = draft]
       /\ Becomes(p, [Idle EXCEPT !.pc = "resume", !.t = t])
  /\ UNCHANGED <<queueVars, files, taught, seen, clock>>

CreateIntent(p) ==
  LET draft == loc[p].draft IN
  /\ At(p, "confirmed")
  /\ \/ /\ Unresolved(draft.work) /\ draft.item \in Members(draft.work)
        /\ Prior(draft) = {}
        /\ \E t \in Teachings :
             /\ ~Exists(t)
             /\ teach' = [teach EXCEPT ![t] = draft]
             /\ Becomes(p, [Idle EXCEPT !.pc = "resume", !.t = t])
     \/ /\ Unresolved(draft.work)
        /\ Prior(draft) = {loc[p].t}
        /\ Becomes(p, [Idle EXCEPT !.pc = "resume", !.t = loc[p].t])
        /\ UNCHANGED teach
     \/ /\ ~Unresolved(draft.work) \/ ~(Prior(draft) \subseteq {loc[p].t})
        /\ Stop(p)
        /\ UNCHANGED teach
  /\ UNCHANGED <<queueVars, files, taught, seen, clock>>

(* resume: read the operation, take the time, read the learned rules.      *)
ResumeReadFaultRepeats(p, t) ==
  /\ Exists(t)
  /\ At(p, "idle") \/ (At(p, "resume") /\ loc[p].t = t)
  /\ IF teach[t].status = "completed" THEN Stop(p)
     ELSE Becomes(p, [Idle EXCEPT !.pc = "preview", !.t = t, !.status = teach[t].status,
                                  !.now = clock])
  /\ UNCHANGED <<queueVars, files, ledger, seen, clock>>

ResumeRead(p, t) ==
  LET saved == RuleOf(teach[t]) \in learned
      Go(pc) == Becomes(p, [Idle EXCEPT !.pc = pc, !.t = t, !.status = teach[t].status,
                                     !.now = clock])
  IN /\ Exists(t)
     /\ At(p, "idle") \/ (At(p, "resume") /\ loc[p].t = t)
     /\ \/ teach[t].status # "completed" /\ saved /\ Go("saved")
        \/ teach[t].status = "intent" /\ ~saved /\ Go("preview")
        \/ /\ teach[t].status = "completed" \/ (teach[t].status # "intent" /\ ~saved)
           /\ Stop(p)
     /\ UNCHANGED <<queueVars, files, ledger, seen, clock>>

(* The preview must come out as it was confirmed, and without conflicts.   *)
Repreview(p) ==
  LET op == teach[loc[p].t]
      rule == RuleOf(op)
      valid == /\ Loadable(learned, catalog)
               /\ Unresolved(op.work)
               /\ seen[op.item] = op.obs
               /\ CurrentConfig = op.cfgBefore
               /\ ~Conflicting(rule, learned)
  IN /\ At(p, "preview")
     /\ \/ /\ valid
           /\ Becomes(p, [loc[p] EXCEPT !.pc = "check", !.rule = {rule}, !.cfg = CurrentConfig])
        \/ ~valid /\ Stop(p)
     /\ UNCHANGED <<queueVars, files, ledger, seen, clock>>

(* `dam learn --save`: a rule proposed and saved outside any teaching.     *)
Learn(p, k, c) ==
  LET rule == [sender |-> SenderOf[k], category |-> c] IN
  /\ At(p, "idle")
  /\ SenderOf[k] # NoSender /\ catalog[c] = "active"
  /\ Loadable(learned, catalog)
  /\ rule \notin learned /\ ~Conflicting(rule, learned)
  /\ Becomes(p, [Idle EXCEPT !.pc = "check", !.rule = {rule}, !.cfg = CurrentConfig])
  /\ UNCHANGED <<queueVars, files, ledger, seen, clock>>

(* save_classification_rule: the flock on the rules' directory is held     *)
(* from SaveCheck to SaveWrite and falls with the process.                 *)
RulesLocked == \E q \in Procs : At(q, "write")

SaveCheckFaultUnlocked(p) ==
  /\ At(p, "check")
  /\ IF learned = loc[p].cfg.learned THEN Becomes(p, [loc[p] EXCEPT !.pc = "write"]) ELSE Stop(p)
  /\ UNCHANGED <<queueVars, files, ledger, seen, clock>>
SaveCheckFaultUnvalidated(p) ==
  /\ At(p, "check") /\ ~RulesLocked
  /\ Becomes(p, [loc[p] EXCEPT !.pc = "write", !.cfg.learned = learned])
  /\ UNCHANGED <<queueVars, files, ledger, seen, clock>>
SaveCheckFaultSkips(p) ==
  /\ At(p, "check") /\ ~RulesLocked
  /\ IF learned = loc[p].cfg.learned THEN Becomes(p, [loc[p] EXCEPT !.pc = "write"])
     ELSE IF loc[p].t # NoTeaching THEN Becomes(p, [loc[p] EXCEPT !.pc = "saved"]) ELSE Stop(p)
  /\ UNCHANGED <<queueVars, files, ledger, seen, clock>>

SaveCheck(p) ==
  /\ At(p, "check") /\ ~RulesLocked
  /\ IF learned = loc[p].cfg.learned THEN Becomes(p, [loc[p] EXCEPT !.pc = "write"]) ELSE Stop(p)
  /\ UNCHANGED <<queueVars, files, ledger, seen, clock>>

SaveWrite(p) ==
  /\ At(p, "write")
  /\ learned' = loc[p].cfg.learned \cup loc[p].rule
  /\ IF loc[p].t = NoTeaching THEN Stop(p) ELSE Becomes(p, [loc[p] EXCEPT !.pc = "saved"])
  /\ UNCHANGED <<queueVars, catalog, ledger, seen, clock>>

(* The operation goes from the stage the process read to "rule_saved".     *)
MarkSaved(p) ==
  /\ At(p, "saved") /\ loc[p].status = "intent"
  /\ Advance(loc[p].t, "rule_saved", NoConfig)
  /\ Becomes(p, [loc[p] EXCEPT !.status = teach'[loc[p].t].status])
  /\ UNCHANGED <<queueVars, files, seen, clock>>

(* _config: the catalog is read first, the learned rules after it.         *)
LoadCatalog(p) ==
  /\ At(p, "saved") /\ loc[p].status # "intent"
  /\ Becomes(p, [loc[p] EXCEPT !.pc = "rules", !.cfg = [learned |-> {}, catalog |-> catalog]])
  /\ UNCHANGED <<queueVars, files, ledger, seen, clock>>

LoadRules(p) ==
  /\ At(p, "rules")
  /\ IF Loadable(learned, loc[p].cfg.catalog)
     THEN Becomes(p, [loc[p] EXCEPT !.pc = "loaded", !.cfg = [learned |-> learned, catalog |-> @.catalog]])
     ELSE Stop(p)
  /\ UNCHANGED <<queueVars, files, ledger, seen, clock>>

(* Enter the reevaluation.  `due` is history: the work then unresolved.    *)
Enter(p) == Becomes(p, [loc[p] EXCEPT !.pc = "works", !.due = {w \in Works : Unresolved(w)}])

MarkPending(p) ==
  LET t == loc[p].t IN
  /\ At(p, "loaded")
  /\ \/ /\ loc[p].status = "rule_saved"
        /\ Advance(t, "pending_reevaluation", loc[p].cfg)
        /\ Enter(p)
     \/ /\ loc[p].status # "rule_saved" /\ teach[t].cfgAfter = loc[p].cfg
        /\ Enter(p)
        /\ UNCHANGED ledger
     \/ /\ loc[p].status # "rule_saved" /\ teach[t].cfgAfter # loc[p].cfg
        /\ Stop(p)
        /\ UNCHANGED ledger
  /\ UNCHANGED <<queueVars, files, seen, clock>>

(* active_work_ids_after: the next page of unresolved work, in order.      *)
FetchPageFaultOnePage(p) ==
  LET active == {w \in Works : Unresolved(w) /\ loc[p].cursor = 0} IN
  /\ At(p, "works") /\ loc[p].page = {}
  /\ IF active = {}
     THEN Becomes(p, [loc[p] EXCEPT !.pc = "finish"])
     ELSE Becomes(p, [loc[p] EXCEPT !.page =
            {w \in active : Cardinality({v \in active : v < w}) < PageSize}])
  /\ UNCHANGED <<queueVars, files, ledger, seen, clock>>

FetchPage(p) ==
  LET active == {w \in Works : Unresolved(w) /\ w > loc[p].cursor} IN
  /\ At(p, "works") /\ loc[p].page = {}
  /\ IF active = {}
     THEN Becomes(p, [loc[p] EXCEPT !.pc = "finish"])
     ELSE Becomes(p, [loc[p] EXCEPT !.page =
            {w \in active : Cardinality({v \in active : v < w}) < PageSize}])
  /\ UNCHANGED <<queueVars, files, ledger, seen, clock>>

(* The latest observation of every member of the work.                     *)
Pinned(w) == [i \in Items |-> IF i \in Members(w) THEN seen[i] ELSE 0]

Evaluated(t, w) == \A i \in Members(w) : taught[t][i] # NoEvaluation

(* One listed work: pass over it when this teaching evaluated it already;  *)
(* give it up when a member's evidence is insufficient; else decide.       *)
EvaluateWorkFaultPassesOver(p) ==
  /\ At(p, "works")
  /\ \E w \in loc[p].page :
       LET rest == [loc[p] EXCEPT !.page = @ \ {w}, !.cursor = w] IN
       /\ \A v \in loc[p].page : w <= v
       /\ Becomes(p,
            IF Evaluated(rest.t, w) \/ \E i \in Members(w) : ~Usable(i, rest.cfg) THEN rest
            ELSE [rest EXCEPT !.pc = "record", !.found = Pinned(w)])
  /\ UNCHANGED <<queueVars, files, ledger, seen, clock>>

EvaluateWork(p) ==
  /\ At(p, "works")
  /\ \E w \in loc[p].page :
       LET rest == [loc[p] EXCEPT !.page = @ \ {w}, !.cursor = w] IN
       /\ \A v \in loc[p].page : w <= v
       /\ Becomes(p,
            IF Evaluated(rest.t, w) THEN rest
            ELSE IF \E i \in Members(w) : ~Usable(i, rest.cfg) THEN [rest EXCEPT !.bad = TRUE]
            ELSE [rest EXCEPT !.pc = "record", !.found = Pinned(w)])
  /\ UNCHANGED <<queueVars, files, ledger, seen, clock>>

(* record_teaching_work_reevaluation, one transaction.  An evaluation this *)
(* teaching already made of a member must be the same one; it is passed    *)
(* over.  Work that was resolved meanwhile is accepted only when this      *)
(* teaching evaluated all of it.  Everything else is an exception.         *)
Decided(p) == {i \in Items : loc[p].found[i] > 0}

SameEvaluation(i, e, obs, cfg) == e.cfg = cfg /\ Content(i, e.obs) = Content(i, obs)

Record(p, ready, fresh) ==
  LET t == loc[p].t   w == loc[p].cursor   found == loc[p].found   cfg == loc[p].cfg
      resolved == {i \in fresh : Resolves(Content(i, found[i]), cfg)}
      exact   == Decided(p) = Members(w)
      already == state[w] = "resolved" /\ fresh = {}
      agree   == \A i \in Decided(p) \ fresh :
                   SameEvaluation(i, taught[t][i], found[i], cfg)
      commits == /\ ready /\ exact /\ agree
                 /\ MayReevaluate(w, fresh, resolved, loc[p].now)
      Continue == Becomes(p, [loc[p] EXCEPT !.pc = "works", !.found = Idle.found])
  IN /\ At(p, "record")
     /\ \/ /\ commits
           /\ ReevaluateTaught(w, fresh, resolved, loc[p].now)
           /\ taught' = [taught EXCEPT ![t] = [i \in Items |->
                IF i \in fresh THEN [obs |-> found[i], cfg |-> cfg] ELSE taught[t][i]]]
           /\ Continue
        \/ /\ ready /\ exact /\ already
           /\ Continue
           /\ UNCHANGED <<queueVars, taught>>
        \/ /\ ~commits /\ ~(ready /\ exact /\ already)
           /\ Stop(p)
           /\ UNCHANGED <<queueVars, taught>>
     /\ UNCHANGED <<teach, files, seen, clock>>

Ready(p) == LET op == teach[loc[p].t] IN
  op.status \in {"pending_reevaluation", "completed"} /\ op.cfgAfter = loc[p].cfg

NotYetTaught(p) == {i \in Decided(p) : taught[loc[p].t][i] = NoEvaluation}

RecordWork(p) == Record(p, Ready(p), NotYetTaught(p))

(* Completed, unless some listed work lacked evidence.                     *)
Finish(p) ==
  /\ At(p, "finish")
  /\ IF loc[p].bad THEN UNCHANGED ledger ELSE Advance(loc[p].t, "completed", NoConfig)
  /\ Stop(p)
  /\ UNCHANGED <<queueVars, files, seen, clock>>

(* A process dies, or an exception or a busy database ends its command.    *)
Crash(p) ==
  /\ ~At(p, "idle")
  /\ Stop(p)
  /\ UNCHANGED <<queueVars, files, ledger, seen, clock>>

------------------------------------------------------------------------------
(* run_durable_gmail_scan: the configuration is loaded once, before the    *)
(* mailbox is read, and the learned rules only when the caller asks.       *)
ScanStart(p, useLearned) ==
  LET rules == IF useLearned THEN learned ELSE {} IN
  /\ At(p, "idle")
  /\ \E i \in Items : seen[i] < Len(Evidence[i])     \* bound: something to scan
  /\ Loadable(rules, catalog)
  /\ Becomes(p, [Idle EXCEPT !.pc = "scan", !.todo = {i \in Items : IsGmail(i)},
                              !.cfg = [learned |-> rules, catalog |-> catalog]])
  /\ UNCHANGED <<queueVars, files, ledger, seen, clock>>

(* record_verified_gmail_intake: the observation, and work if the message  *)
(* needs teaching and has no open membership, in one transaction.          *)
AdmitFaultUnchecked(p, i) ==
  LET n == seen[i] + 1 IN
  /\ At(p, "scan") /\ i \in loc[p].todo
  /\ n <= Len(Evidence[i])
  /\ seen' = [seen EXCEPT ![i] = n]
  /\ IF TeachingRequired(Content(i, n), loc[p].cfg)
     THEN \E w \in Works : NewWork(w, i, clock) ELSE UNCHANGED queueVars
  /\ Becomes(p, [loc[p] EXCEPT !.todo = @ \ {i}])
  /\ UNCHANGED <<files, ledger, clock>>

Admit(p, i) ==
  LET n == seen[i] + 1
      queued == TeachingRequired(Content(i, n), loc[p].cfg) /\ OpenWorkOf(i) = {}
  IN /\ At(p, "scan") /\ i \in loc[p].todo
     /\ n <= Len(Evidence[i])
     /\ seen' = [seen EXCEPT ![i] = n]
     /\ IF queued THEN \E w \in Works : IntakeWork(w, i, clock) ELSE UNCHANGED queueVars
     /\ Becomes(p, [loc[p] EXCEPT !.todo = @ \ {i}])
     /\ UNCHANGED <<files, ledger, clock>>

ScanEnd(p) ==
  /\ At(p, "scan")
  /\ Stop(p)
  /\ UNCHANGED <<queueVars, files, ledger, seen, clock>>

(* save_change of a retirement: under the catalog's lock the catalog and   *)
(* the inventory of learned rules are read, then the catalog is replaced.  *)
(* The lock on the rules' directory is not taken.                          *)
CatalogLocked == \E q \in Procs : At(q, "retire")

RetireCheck(p, c) ==
  /\ At(p, "idle") /\ ~CatalogLocked
  /\ catalog[c] = "active"
  /\ \A r \in learned : r.category # c
  /\ Becomes(p, [Idle EXCEPT !.pc = "retire",
       !.cfg = [learned |-> {}, catalog |-> [catalog EXCEPT ![c] = "retired"]]])
  /\ UNCHANGED <<queueVars, files, ledger, seen, clock>>

RetireWrite(p) ==
  /\ At(p, "retire")
  /\ catalog' = loc[p].cfg.catalog
  /\ Stop(p)
  /\ UNCHANGED <<queueVars, learned, ledger, seen, clock>>

(* The queue service's own calls on the work of this database.             *)
QueueService ==
  /\ \E w \in Works :
       \/ \E i \in Items : CreateWork(w, i, clock)
       \/ \E i \in Items : AddRelated(w, i, clock)
       \/ w \in Deferrable /\ Defer(w, clock)
  /\ UNCHANGED <<files, ledger, seen, clock, loc>>

Tick ==
  /\ clock < MaxTime
  /\ clock' = clock + 1
  /\ UNCHANGED <<queueVars, files, ledger, seen, loc>>

------------------------------------------------------------------------------
TeachInit ==
  /\ QueueInit
  /\ learned = {}
  /\ catalog = [c \in Categories |-> "active"]
  /\ seen = [i \in Items |-> 0]
  /\ teach = [t \in Teachings |-> NoOperation]
  /\ taught = [t \in Teachings |-> [i \in Items |-> NoEvaluation]]
  /\ clock = 0
  /\ loc = [p \in Procs |-> Idle]

(* The steps a started command takes by itself.                            *)
Step(p) ==
  \/ CreateIntent(p) \/ \E t \in Teachings : At(p, "resume") /\ ResumeRead(p, t)
  \/ Repreview(p) \/ SaveCheck(p) \/ SaveWrite(p) \/ MarkSaved(p)
  \/ LoadCatalog(p) \/ LoadRules(p) \/ MarkPending(p)
  \/ FetchPage(p) \/ EvaluateWork(p) \/ RecordWork(p) \/ Finish(p)
  \/ ScanEnd(p) \/ RetireWrite(p)

(* `dam teach resume`.                                                     *)
Resume(p, t) == At(p, "idle") /\ ResumeRead(p, t)

(* Commands a human starts.                                                *)
Start(p) ==
  \/ \E w \in Works, i \in Items, c \in Categories : Confirm(p, w, i, c)
  \/ \E t \in Teachings : Resume(p, t)
  \/ \E k \in Learnable, c \in Categories : Learn(p, k, c)
  \/ \E c \in Retirable : RetireCheck(p, c)
  \/ \E useLearned \in BOOLEAN : ScanStart(p, useLearned)

TeachNext ==
  \/ \E p \in Procs : Start(p)
  \/ \E p \in Procs : Step(p)
  \/ \E p \in Procs : Crash(p)
  \/ \E p \in Procs, i \in Items : Admit(p, i)
  \/ QueueService
  \/ Tick

TeachSpec == TeachInit /\ [][TeachNext]_teachVars

(* The human resumes an unfinished teaching again and again, and a running *)
(* command is not suspended for ever.  Commands may be killed any number   *)
(* of times, but not each time at the same step of the reevaluation.       *)
TeachFairness ==
  /\ \A t \in Teachings : SF_teachVars(\E p \in Procs : Resume(p, t))
  /\ \A p \in Procs :
       /\ WF_teachVars(Step(p))
       /\ SF_teachVars(LoadCatalog(p)) /\ SF_teachVars(LoadRules(p))
       /\ SF_teachVars(MarkPending(p)) /\ SF_teachVars(FetchPage(p))
       /\ SF_teachVars(EvaluateWork(p)) /\ SF_teachVars(RecordWork(p))
       /\ SF_teachVars(Finish(p))

TeachFairSpec == TeachSpec /\ TeachFairness

------------------------------------------------------------------------------
Status      == DOMAIN Stages
AnyConfig   == Configs \cup {NoConfig}
AnyTeaching == Teachings \cup {NoTeaching}
AnyWork     == Works \cup {0}
AnyItem     == Items \cup {NoItem}
AnyCategory == Categories \cup {NoSender}
SomeRules   == SUBSET Rules
SomeWorks   == SUBSET Works
SomeItems   == SUBSET Items
Pins        == [Items -> Nat]
Flag        == BOOLEAN

Evaluation == [obs : Nat, cfg : AnyConfig]
Operation  ==
  [work : AnyWork, item : AnyItem, obs : Nat, category : AnyCategory,
   cfgBefore : AnyConfig, cfgAfter : AnyConfig, status : Status]

(* Where a process is between two of its steps.                            *)
Counters == {"idle", "confirmed", "resume", "preview", "check", "write", "saved", "rules",
             "loaded", "works", "record", "finish", "scan", "retire"}
Process ==
  [pc : Counters, t : AnyTeaching, draft : Operation, status : Status, now : Times,
   rule : SomeRules, cfg : AnyConfig, cursor : AnyWork, page : SomeWorks, found : Pins,
   bad : Flag, due : SomeWorks, todo : SomeItems]

(* Every row and every process holds values of its kind.                   *)
TeachTypeOK ==
  /\ QueueTypeOK
  /\ learned \subseteq Rules
  /\ catalog \in [Categories -> {"active", "retired"}]
  /\ seen \in [Items -> Nat] /\ \A i \in Items : seen[i] <= Len(Evidence[i])
  /\ teach \in [Teachings -> Operation]
  /\ taught \in [Teachings -> [Items -> Evaluation]]
  /\ clock \in Times
  /\ loc \in [Procs -> Process]

(* No operation claims progress whose rule is not in the file: whatever    *)
(* process wrote the checkpoint, and whenever it died, `resume` never ends *)
(* in "Persisted learned rule is unavailable".                             *)
RuleBeforeProgress ==
  \A t \in Teachings : Stages[teach[t].status] >= 2 => RuleOf(teach[t]) \in learned

(* The learned rules never give one sender two categories, although each   *)
(* saver decided about conflicts before it held the lock.                  *)
OneCategoryPerSender == \A r \in learned : ~Conflicting(r, learned)

(* One confirmed candidate has one operation, also when two processes      *)
(* confirm it at once and each has chosen an identity.                     *)
OneTeachingPerCandidate ==
  \A t, u \in Teachings :
    Exists(t) /\ Exists(u) /\ SameCandidate(teach[t], teach[u]) => t = u

(* Every evaluation recorded for a teaching was made under the one         *)
(* configuration the operation names, which contains the rule it taught.   *)
EvaluationProvenance ==
  \A t \in Teachings, i \in Items : taught[t][i] # NoEvaluation =>
    /\ teach[t].status \in {"pending_reevaluation", "completed"}
    /\ taught[t][i].cfg = teach[t].cfgAfter
    /\ RuleOf(teach[t]) \in taught[t][i].cfg.learned

(* The work a human taught from is resolved when its teaching completes,   *)
(* whatever was observed, deferred or reevaluated between the two.         *)
CompletedTeachingResolves ==
  \A t \in Teachings :
    teach[t].status = "completed" => state[teach[t].work] = "resolved"

(* Completion is not claimed early: all work that was unresolved when the  *)
(* completing process began to list it was evaluated by this teaching or   *)
(* resolved otherwise, whatever its page and whatever happened meanwhile.  *)
CompletionCoversQueue ==
  [][\A t \in Teachings :
       teach[t].status # "completed" /\ teach'[t].status = "completed" =>
         \E p \in Procs :
           /\ At(p, "finish") /\ loc[p].t = t
           /\ \A w \in loc[p].due : Evaluated(t, w) \/ state[w] = "resolved"]_teachVars

(* What the stores say of a teaching.                                      *)
Lesson(op) ==
  [stage |-> op.status, rule |-> IF op.status = "none" THEN {} ELSE {RuleOf(op)},
   cfg |-> op.cfgAfter]

Contract == INSTANCE TeachingContract WITH
  rules <- learned, lesson <- [t \in Teachings |-> Lesson(teach[t])], evaluated <- taught

(* Whatever the processes do, wherever they die and whatever they read     *)
(* before others went on, the three stores together change only as         *)
(* TeachingContract says: no saved rule is lost, no checkpoint outruns its *)
(* rule or goes back, no recorded configuration is replaced, and no        *)
(* evaluation is repeated or made under another configuration.             *)
ImplementsContract == Contract!ContractSpec

(* Whatever the processes do, the queue moves only as WorkQueue allows.    *)
RefinesQueue == QueueInit /\ [][QueueNext]_queueVars

(* A teaching whose rule was saved completes, or is left waiting only for  *)
(* evidence about work still unresolved: recovery finishes what a process  *)
(* that died left unfinished.                                              *)
SavedTeachingCompletes ==
  \A t \in Teachings :
    teach[t].status = "rule_saved" ~>
      \/ teach[t].status = "completed"
      \/ \E w \in Works : Unresolved(w) /\ \E i \in Members(w) : ~Usable(i, CurrentConfig)

(* The configuration can be loaded: no learned rule names a retired        *)
(* category.                                                               *)
LearnedTargetsActive == Loadable(learned, catalog)

(* A preview made again after "Teaching inputs changed; preview again" can *)
(* be confirmed: no earlier operation of its candidate pins another        *)
(* observation.                                                            *)
PreviewAgainIsAccepted ==
  \A p \in Procs : At(p, "confirmed") =>
    \A t \in Prior(loc[p].draft) : SamePreview(teach[t], loc[p].draft)
==============================================================================
