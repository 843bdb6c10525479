------------------------------ MODULE ScanRuns -------------------------------
(***************************************************************************)
(* Durable Gmail scans: the rows they share in SQLite (source instances,   *)
(* ITEMs, scan runs, observations, evaluations, the ITEMs that wait for    *)
(* teaching) and the steps of run_durable_gmail_scan, which holds no       *)
(* transaction between them.  Several processes scan at once, also under   *)
(* one run identity: a caller may repeat an interrupted scan with the same *)
(* `run_id` and `as_of`.  A process may die between any two steps.         *)
(*                                                                         *)
(* A proposal and a classification are functions of a message's metadata,  *)
(* the run's configuration and its `as_of`, so an observation row stands   *)
(* for all three.  A timestamp is a reading of the wall clock, which may   *)
(* be set back.  Waiting is membership in unresolved work; WorkQueue and   *)
(* Teaching have the queue in full.                                        *)
(***************************************************************************)
EXTENDS Sequences, InboxResult

CONSTANTS
  Procs,          \* processes
  Mailboxes,      \* authenticated addresses
  SourceIds,      \* SRC identities
  ItemIds,        \* ITEM identities
  Runs,           \* run identities; ordered, as a tie of timestamps is broken by them
  Configs,        \* configuration fingerprints
  NeedsTeaching,  \* the contents that a configuration leaves without a category
  Requests,       \* invocations: mailbox, run, limit, configuration, as_of
  Revisited,      \* ITEMs that teachings and local reevaluations evaluate
  None,           \* no row, no value
  MaxTime,        \* bound on the wall clock
  MaxEvals        \* bound on the number of evaluations

Times == 0..MaxTime

ASSUME ScanAssumption ==
  /\ Runs \subseteq Nat
  /\ MaxTime \in Nat
  /\ IsFiniteSet(Messages)
  /\ NeedsTeaching \in [Configs -> SUBSET Contents]
  /\ Requests \subseteq [mailbox : Mailboxes, run : Runs, limit : Nat \ {0},
                         config : Configs, asOf : Times \cup {None}]
  /\ Revisited \subseteq ItemIds
  /\ None \notin Mailboxes \cup SourceIds

VARIABLES
  sources,   \* source_instances: the mailbox of each SRC
  items,     \* items: source and native message of each ITEM
  runs,      \* scan_runs: start and finish
  obs,       \* message_observations with their proposals, by run and message
  evals,     \* classification_evaluations in the order of their rowid
  waiting,   \* ITEMs with unresolved classification work
  clock,     \* the wall clock
  scan,      \* process-local state of run_durable_gmail_scan
  claimed    \* history: the messages listed by reads on which a run was finished

rows     == <<sources, items, runs, obs, evals, waiting>>
scanVars == <<sources, items, runs, obs, evals, waiting, clock, scan, claimed>>

Limits   == Nat \ {0}
Causes   == {"original_intake", "human_teaching", "explicit_reevaluation"}
Mismatch == {"not_checked", "none", "unresolved"}
Steps    == {"idle", "lookup", "register", "start", "read", "unread", "admit", "preview", "entries"}

Start   == [source : SourceIds, config : Configs, startedAt : Times, limit : Limits]
Finish  == [endedAt : Times, status : {"completed", "failed"}, complete : BOOLEAN,
            limited : BOOLEAN, discrepancy : Mismatch]
Run     == [start : Start \cup {None}, finish : Finish \cup {None}]
Item    == [source : SourceIds, message : Messages]
Obs     == [item : ItemIds, at : Times, shows : Contents]
Eval    == [item : ItemIds, run : Runs, predecessor : Nat, at : Times,
            needs : BOOLEAN, cause : Causes]
Process == [pc : Steps, req : Requests \cup {None}, current : Times,
            source : SourceIds \cup {None}, read : Result \cup {None},
            todo : SUBSET Messages, failure : BOOLEAN, count : Nat]

ASSUME NoRowAssumption == None \notin Start \cup Finish \cup Item \cup Obs

Idle == [pc |-> "idle", req |-> None, current |-> 0, source |-> None,
         read |-> None, todo |-> {}, failure |-> FALSE, count |-> 0]

At(p, pc)      == scan[p].pc = pc
Becomes(p, l)  == scan' = [scan EXCEPT ![p] = l]
Stop(p)        == Becomes(p, Idle)
Request(p)     == scan[p].req
MyRun(p)       == runs[Request(p).run]
Observed(r)    == {m \in Messages : obs[r][m] # None}

(* `current if as_of is not None else datetime.now()`                      *)
TimeOf(p) == IF Request(p).asOf = None THEN clock ELSE scan[p].current

------------------------------------------------------------------------------
(* An invocation: arguments are checked, configuration is loaded once.     *)
Begin(p) ==
  /\ At(p, "idle")
  /\ \E q \in Requests :
       Becomes(p, [Idle EXCEPT !.pc = "lookup", !.req = q,
                               !.current = IF q.asOf = None THEN clock ELSE q.asOf])
  /\ UNCHANGED <<rows, clock, claimed>>

SourcesOf(mailbox) == {s \in SourceIds : sources[s] = mailbox}

(* bind_gmail_profile first looks outside any transaction ...              *)
LookupSource(p) ==
  /\ At(p, "lookup")
  /\ \/ \E s \in SourcesOf(Request(p).mailbox) :
          Becomes(p, [scan[p] EXCEPT !.pc = "start", !.source = s])
     \/ /\ SourcesOf(Request(p).mailbox) = {}
        /\ Becomes(p, [scan[p] EXCEPT !.pc = "register"])
  /\ UNCHANGED <<rows, clock, claimed>>

(* ... and register_source_instance looks again inside its own.            *)
Register(p, s) ==
  /\ sources[s] = None
  /\ sources' = [sources EXCEPT ![s] = Request(p).mailbox]
  /\ Becomes(p, [scan[p] EXCEPT !.pc = "start", !.source = s])

RegisterSourceFaultUnchecked(p) ==
  /\ At(p, "register")
  /\ \E s \in SourceIds : Register(p, s)
  /\ UNCHANGED <<items, runs, obs, evals, waiting, clock, claimed>>

RegisterSource(p) ==
  /\ At(p, "register")
  /\ \/ /\ SourcesOf(Request(p).mailbox) = {}
        /\ \E s \in SourceIds : Register(p, s)
     \/ \E s \in SourcesOf(Request(p).mailbox) :
          /\ Becomes(p, [scan[p] EXCEPT !.pc = "start", !.source = s])
          /\ UNCHANGED sources
  /\ UNCHANGED <<items, runs, obs, evals, waiting, clock, claimed>>

StartOfFaultUnnormalised(p) ==
  [source |-> scan[p].source, config |-> Request(p).config,
   startedAt |-> Request(p).asOf, limit |-> Request(p).limit]

StartOf(p) ==
  [source |-> scan[p].source, config |-> Request(p).config,
   startedAt |-> scan[p].current, limit |-> Request(p).limit]

(* start_scan: a new run, or one that was started in exactly this way.     *)
StartScan(p) ==
  /\ At(p, "start")
  /\ \/ /\ MyRun(p).start = None
        /\ runs' = [runs EXCEPT ![Request(p).run].start = StartOf(p)]
        /\ Becomes(p, [scan[p] EXCEPT !.pc = "read"])
     \/ /\ MyRun(p).start = StartOf(p)
        /\ Becomes(p, [scan[p] EXCEPT !.pc = "read"])
        /\ UNCHANGED runs
     \/ /\ MyRun(p).start \notin {None, StartOf(p)}
        /\ Stop(p)
        /\ UNCHANGED runs
  /\ UNCHANGED <<sources, items, obs, evals, waiting, clock, claimed>>

(* read_inbox, without a transaction (module InboxRead): a result or an    *)
(* exception.                                                              *)
ReadInbox(p) ==
  /\ At(p, "read")
  /\ \/ \E r \in Reads(Request(p).limit) :
          Becomes(p, [scan[p] EXCEPT !.pc = "admit", !.read = r, !.todo = Showing(r, Contents)])
     \/ Becomes(p, [scan[p] EXCEPT !.pc = "unread"])
  /\ UNCHANGED <<rows, clock, claimed>>

------------------------------------------------------------------------------
(* current_evaluation: the evaluation of the ITEM that none succeeds.      *)
CurrentEvaluationsFaultNewest(i) ==
  {k \in DOMAIN evals : /\ evals[k].item = i
                        /\ \A j \in DOMAIN evals : evals[j].item = i => evals[j].at <= evals[k].at}

CurrentEvaluations(i) ==
  {k \in DOMAIN evals : /\ evals[k].item = i
                        /\ \A j \in DOMAIN evals : evals[j].predecessor # k}

(* _append_evaluation; more than one current evaluation raises.            *)
AppendEvaluation(i, r, at, needs, cause) ==
  /\ Len(evals) < MaxEvals
  /\ \E k \in 0..Len(evals) :
       /\ CurrentEvaluations(i) = IF k = 0 THEN {} ELSE {k}
       /\ evals' = Append(evals, [item |-> i, run |-> r, predecessor |-> k, at |-> at,
                                  needs |-> needs, cause |-> cause])

------------------------------------------------------------------------------
(* record_verified_gmail_intake: one transaction per message.              *)
ItemsOf(s, m) == {i \in ItemIds : items[i] = [source |-> s, message |-> m]}

ItemFor(p, m, i) ==
  \/ /\ i \in ItemsOf(scan[p].source, m)
     /\ UNCHANGED items
  \/ /\ ItemsOf(scan[p].source, m) = {}
     /\ items[i] = None
     /\ items' = [items EXCEPT ![i] = [source |-> scan[p].source, message |-> m]]

ObservationOf(p, m, i) == [item |-> i, at |-> TimeOf(p), shows |-> scan[p].read.shows[m]]

Needs(p, m) == scan[p].read.shows[m] \in NeedsTeaching[Request(p).config]

QueueFaultNewItemsOnly(p, m, i) ==
  waiting' = IF Needs(p, m) /\ items[i] = None THEN waiting \cup {i} ELSE waiting

Queue(p, m, i) == waiting' = IF Needs(p, m) THEN waiting \cup {i} ELSE waiting

OpenRunFaultFinished(p) == MyRun(p).start # None /\ MyRun(p).start.source = scan[p].source

OpenRun(p) ==
  /\ MyRun(p).start # None
  /\ MyRun(p).start.source = scan[p].source
  /\ MyRun(p).finish = None

AdmissibleFaultOneMore(p) ==
  /\ TimeOf(p) >= MyRun(p).start.startedAt
  /\ Cardinality(Observed(Request(p).run)) <= MyRun(p).start.limit

Admissible(p) ==
  /\ TimeOf(p) >= MyRun(p).start.startedAt
  /\ Cardinality(Observed(Request(p).run)) < MyRun(p).start.limit

(* A first observation in this run.                                        *)
Observe(p, m) ==
  /\ m \notin Observed(Request(p).run)
  /\ Admissible(p)
  /\ \E i \in ItemIds :
       /\ ItemFor(p, m, i)
       /\ obs' = [obs EXCEPT ![Request(p).run][m] = ObservationOf(p, m, i)]
       /\ AppendEvaluation(i, Request(p).run, TimeOf(p), Needs(p, m), "original_intake")
       /\ Queue(p, m, i)

(* The identical observation again: nothing is stored, the queue is looked *)
(* at once more.                                                           *)
Replay(p, m) ==
  /\ m \in Observed(Request(p).run)
  /\ LET i == obs[Request(p).run][m].item
     IN  /\ obs[Request(p).run][m] = ObservationOf(p, m, i)
         /\ Queue(p, m, i)
  /\ UNCHANGED <<items, obs, evals>>

Admit(p) ==
  /\ At(p, "admit")
  /\ ~scan[p].failure
  /\ OpenRun(p)
  /\ \E m \in scan[p].todo :
       /\ Observe(p, m) \/ Replay(p, m)
       /\ Becomes(p, [scan[p] EXCEPT !.todo = @ \ {m}])
  /\ UNCHANGED <<sources, runs, clock, claimed>>

(* An exception while a message is classified or recorded rolls its        *)
(* transaction back and stops the batch.                                   *)
FailLocally(p) ==
  /\ At(p, "admit")
  /\ ~scan[p].failure
  /\ scan[p].todo # {}
  /\ Becomes(p, [scan[p] EXCEPT !.failure = TRUE])
  /\ UNCHANGED <<rows, clock, claimed>>

------------------------------------------------------------------------------
Inventory(p) == ~scan[p].failure /\ Complete(scan[p].read, Request(p).limit)

FinishOf(p) ==
  IF At(p, "unread")
  THEN [endedAt |-> scan[p].current, status |-> "failed",
        complete |-> FALSE, limited |-> FALSE, discrepancy |-> "not_checked"]
  ELSE [endedAt |-> TimeOf(p), status |-> IF scan[p].failure THEN "failed" ELSE "completed",
        complete |-> Inventory(p), limited |-> StoppedAtLimit(scan[p].read, Request(p).limit),
        discrepancy |-> Discrepancy(scan[p].read)]

(* finish_scan accepts an end that does not precede what the run holds,    *)
(* once, and the identical end again.                                      *)
MayFinishFaultEarly(p) ==
  /\ FinishOf(p).endedAt >= MyRun(p).start.startedAt
  /\ MyRun(p).finish \in {None, FinishOf(p)}

MayFinishFaultReplaces(p) ==
  /\ FinishOf(p).endedAt >= MyRun(p).start.startedAt
  /\ \A m \in Observed(Request(p).run) : FinishOf(p).endedAt >= obs[Request(p).run][m].at

MayFinish(p) ==
  /\ FinishOf(p).endedAt >= MyRun(p).start.startedAt
  /\ \A m \in Observed(Request(p).run) : FinishOf(p).endedAt >= obs[Request(p).run][m].at
  /\ MyRun(p).finish \in {None, FinishOf(p)}

Done(p) ==
  \/ At(p, "unread")
  \/ At(p, "admit") /\ (scan[p].todo = {} \/ scan[p].failure)

FinishScan(p) ==
  /\ Done(p)
  /\ MyRun(p).start # None
  /\ MayFinish(p)
  /\ runs' = [runs EXCEPT ![Request(p).run].finish = FinishOf(p)]
  /\ claimed' = IF At(p, "unread") THEN claimed
                ELSE [claimed EXCEPT ![Request(p).run] = @ \cup Listed(scan[p].read)]
  /\ Becomes(p, IF FinishOf(p).status = "completed" THEN [scan[p] EXCEPT !.pc = "preview"] ELSE Idle)
  /\ UNCHANGED <<sources, items, obs, evals, waiting, clock>>

RefuseFinish(p) ==
  /\ Done(p)
  /\ ~MayFinish(p)
  /\ Stop(p)
  /\ UNCHANGED <<rows, clock, claimed>>

(* preview_from_storage: the run with its count and then its observations  *)
(* are separate reads, compared by build_preview.                          *)
PreviewRun(p) ==
  /\ At(p, "preview")
  /\ Becomes(p, [scan[p] EXCEPT !.pc = "entries", !.count = Cardinality(Observed(Request(p).run))])
  /\ UNCHANGED <<rows, clock, claimed>>

PreviewEntries(p) ==
  /\ At(p, "entries")
  /\ Stop(p)
  /\ UNCHANGED <<rows, clock, claimed>>

Crash(p) ==
  /\ ~At(p, "idle")
  /\ Stop(p)
  /\ UNCHANGED <<rows, clock, claimed>>

------------------------------------------------------------------------------
(* Evaluations that no scan makes.  A teaching evaluates ITEMs of          *)
(* unresolved work, on an observation of theirs, and may resolve the work. *)
Teach(i) ==
  /\ i \in waiting
  /\ \E r \in Runs, m \in Messages, needs, resolves \in BOOLEAN :
       /\ m \in Observed(r) /\ obs[r][m].item = i
       /\ ~(needs /\ resolves)
       /\ AppendEvaluation(i, r, clock, needs, "human_teaching")
       /\ waiting' = IF resolves THEN waiting \ {i} ELSE waiting
  /\ UNCHANGED <<sources, items, runs, obs, clock, scan, claimed>>

(* latest_email_observation: newest by time, then by run identity.         *)
Newer(r, s, i) ==
  \E m, n \in Messages :
     /\ m \in Observed(r) /\ obs[r][m].item = i
     /\ n \in Observed(s) /\ obs[s][n].item = i
     /\ obs[r][m].at >= obs[s][n].at
     /\ obs[r][m].at = obs[s][n].at => r > s

LatestRuns(i) ==
  {r \in Runs : /\ \E m \in Observed(r) : obs[r][m].item = i
                /\ ~\E s \in Runs : Newer(s, r, i)}

(* reevaluate_exact_item: history grows, the queue stays.                  *)
Reevaluate(i) ==
  /\ \E r \in LatestRuns(i), c \in Configs : \E m \in Observed(r) :
       /\ obs[r][m].item = i
       /\ AppendEvaluation(i, r, clock, obs[r][m].shows \in NeedsTeaching[c], "explicit_reevaluation")
  /\ UNCHANGED <<sources, items, runs, obs, waiting, clock, scan, claimed>>

SetClock ==
  /\ clock' \in Times \ {clock}
  /\ UNCHANGED <<rows, scan, claimed>>

------------------------------------------------------------------------------
ScanInit ==
  /\ sources = [s \in SourceIds |-> None]
  /\ items = [i \in ItemIds |-> None]
  /\ runs = [r \in Runs |-> [start |-> None, finish |-> None]]
  /\ obs = [r \in Runs |-> [m \in Messages |-> None]]
  /\ evals = <<>>
  /\ waiting = {}
  /\ clock = 0
  /\ scan = [p \in Procs |-> Idle]
  /\ claimed = [r \in Runs |-> {}]

ScanStep(p) ==
  \/ LookupSource(p) \/ RegisterSource(p) \/ StartScan(p) \/ ReadInbox(p)
  \/ Admit(p) \/ FailLocally(p) \/ FinishScan(p) \/ RefuseFinish(p)
  \/ PreviewRun(p) \/ PreviewEntries(p)

ScanNext ==
  \/ \E p \in Procs : Begin(p) \/ ScanStep(p) \/ Crash(p)
  \/ \E i \in Revisited : Teach(i) \/ Reevaluate(i)
  \/ SetClock

ScanSpec == ScanInit /\ [][ScanNext]_scanVars

------------------------------------------------------------------------------
(* Rows, evaluations and process-local values are of their kinds.          *)
ScanTypeOK ==
  /\ sources \in [SourceIds -> Mailboxes \cup {None}]
  /\ items \in [ItemIds -> Item \cup {None}]
  /\ runs \in [Runs -> Run]
  /\ obs \in [Runs -> [Messages -> Obs \cup {None}]]
  /\ evals \in Seq(Eval)
  /\ waiting \subseteq ItemIds
  /\ clock \in Times
  /\ scan \in [Procs -> Process]
  /\ claimed \in [Runs -> SUBSET Messages]

(* Two processes that meet a mailbox for the first time at once bind it to *)
(* one source (source_binding.py, register_source_instance).               *)
OneSourcePerMailbox ==
  \A s, t \in SourceIds : sources[s] = sources[t] /\ sources[s] # None => s = t

(* A message is one ITEM however many runs observe it.                     *)
OneItemPerMessage ==
  \A i, j \in ItemIds : items[i] = items[j] /\ items[i] # None => i = j

(* The limit the user agreed to holds for a run and not for a process:     *)
(* a repeated scan may read other messages than the interrupted one.       *)
RunWithinLimit ==
  \A r \in Runs : Observed(r) # {} =>
     Cardinality(Observed(r)) <= runs[r].start.limit

(* A finished run brackets its observations in time although the clock may *)
(* be set back while it runs and several processes add to it.              *)
RunBracketsObservations ==
  \A r \in Runs, m \in Messages : m \in Observed(r) =>
     /\ runs[r].start # None /\ obs[r][m].at >= runs[r].start.startedAt
     /\ runs[r].finish # None => obs[r][m].at <= runs[r].finish.endedAt

(* An inventory is called complete only if every message that any of its   *)
(* finishing reads listed is stored with the run.                          *)
CompleteRunHoldsListed ==
  \A r \in Runs : runs[r].finish # None =>
     (runs[r].finish.complete => claimed[r] \subseteq Observed(r))

(* The preview never finds other observations than the run it read first   *)
(* counted (build_preview would refuse, after the scan was committed).     *)
PreviewSeesItsRun ==
  \A p \in Procs : At(p, "entries") => scan[p].count = Cardinality(Observed(Request(p).run))

(* The evaluations of an ITEM are one unbranched chain in the order of     *)
(* their commits, whatever clocks said and whoever appended.               *)
EvaluationsAreChained ==
  \A k \in DOMAIN evals :
     LET earlier == {j \in 1..(k - 1) : evals[j].item = evals[k].item}
     IN  /\ evals[k].predecessor \in earlier \cup {0}
         /\ \A j \in earlier : j <= evals[k].predecessor

(* An ITEM that intake or teaching left without a category waits in the    *)
(* queue, so that a human is asked.                                        *)
UnclassifiedItemWaits ==
  \A k \in DOMAIN evals :
     k \in CurrentEvaluations(evals[k].item) /\ evals[k].needs
       /\ evals[k].cause # "explicit_reevaluation" => evals[k].item \in waiting

(* What was stored stays as it was; a finished run admits nothing.         *)
FinishedRunIsFrozen ==
  [][\A r \in Runs : runs[r].finish # None =>
       runs'[r] = runs[r] /\ obs'[r] = obs[r]]_scanVars

(* "identical retries are idempotent" (storage.py:16): recording a stored  *)
(* observation again changes nothing.                                      *)
RetryChangesNothing ==
  [][\A p \in Procs : (At(p, "admit") /\ scan'[p].todo # scan[p].todo /\ obs' = obs)
        => waiting' = waiting]_scanVars
==============================================================================
