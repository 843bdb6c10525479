# DAM in TLA+

DAM (Ducky Archive Manager) reads a Gmail Inbox without changing it, classifies
each message by rules, keeps the messages it could not classify in a durable
*Classification Queue*, and lets a human *teach* it: one confirmed decision
becomes a rule for one exact sender, and the queue is evaluated again.

The program is a command line tool.  Nothing in it runs in the background and no
process talks to another one; but every command is a process of its own, two of
them may run at once, each may be killed between any two of its commits, and
they share four stores that have no common transaction:

| store | code | protected by |
| --- | --- | --- |
| SQLite database (runs, observations, ITEMs, queue, evaluations, teachings) | `storage.py` | `BEGIN IMMEDIATE`, one transaction per call |
| `learned-rules.yaml` | `learning.py` | `flock` on its directory, atomic replace |
| `categories.yaml` | `categories.py` | `flock` on `categories.lock`, atomic replace |
| `token.json` | `auth.py` | no lock, atomic replace |

What can go wrong lies between those transactions, and this project is about
that.  Paths below are relative to `src/src/dam/`.

## Inventory

**Classification Queue** (`classification_queue.py`; `storage.py` 1175-1419).
State: work items (`pending`, `deferred`, `resolved`; a representative;
`updated_at`), their members (exact ITEMs, each with a state), and an append-only
event history.  Operations: record an observation that needs teaching, add a
related ITEM, defer, reevaluate, and the two that belong to other components:
intake and the reevaluation of a teaching.  Hard: three places decide whether an
ITEM already has work, each with a query of its own; partial reevaluation leaves
mixed members; events must chain; calls carry timestamps taken earlier.
Correct when an ITEM waits in one place only, work and members agree, history
tells the state, and nothing resolved reopens.

**Teaching** (`teaching.py`, `teaching_save.py`, `teaching_resume.py`;
`storage.py` 828-953, 1356-1419).  State: one operation per confirmed candidate
(`intent`, `rule_saved`, `pending_reevaluation`, `completed`; the configuration
before and after) and the evaluations made for it.  Operations: preview,
confirm, resume, status.  It writes the rule file and the database alternately;
`resume` continues after a crash from the checkpoint.  Hard: crashes between any
two commits, two processes resuming one operation, scans that queue new work
meanwhile, configurations loaded at different moments, paging over a list that
changes.  Correct when progress is never claimed early, evaluations are made
once and under the configuration named, and an interrupted teaching can finish.

**Learned rules** (`learning.py`, `learn_operations.py`).  State: the rule file.
Operations: propose, save (lock, reread, compare, replace), load and merge with
the catalog.  Hard: the proposal is made before the lock is held; the catalog is
under another lock.  Correct when no save is lost, no sender gets two
categories and the merged configuration stays loadable.

**Category catalog** (`categories.py`, `category_operations.py`).  State: the
catalog file of managed categories (a forest; active or retired).  Operations:
add, rename, move, retire; each previewed, then saved by compare-and-swap on the
catalog's hash.  Hard: a change is computed three times (for the preview, for the
save, and under the lock), each time from what was then in the file.  Correct
when a stale preview is never saved, every saved catalog can be loaded, and a
permanent identity stays what it is.

**Durable Gmail scan** (`durable_gmail.py`; `storage.py` 651-690, 955-1068).
State: scan runs (start, limit, finish), observations, ITEM identities,
proposals.  A scan loads its configuration once, binds the mailbox to a source,
starts a run, reads the mailbox without holding a transaction, admits message by
message, finishes the run.  Hard: partial failure, crash, repeated identities,
the limit, a mailbox that moves.  Correct when a run never holds more than its
limit, a finished run is frozen and completeness is not overstated.

**Evaluation history** (`storage.py` 299-338, 815-826, 917-953).  Immutable
evaluations of each ITEM, linked to their predecessor.  Correct when every ITEM
has one unbranched chain whatever appends to it.

**Gmail read adapter** (`gmail.py`).  No durable state; pagination with a limit,
then one get per message.  Correct when coverage is only called complete if it is.

**Source binding and identities** (`source_binding.py`, `items.py`,
`identifiers.py`).  One SRC per mailbox, one ITEM per native message, also when
two processes register at once.

**Schema** (`storage.py` 49-63, 170-338, 414-573).  State: the version, tables
and triggers of the database file.  Operation: `Storage.open`, which makes the
private directory and the file, recognises the schema, and migrates an older one
by the scripts of every later version in one transaction.  Hard: version, tables
and triggers are read in statements of their own *before* that transaction, so a
process may act on a version that another one has migrated; a process may die
with the write lock.  Correct when a store is either migrated in whole, with its
rows, or not touched, when an open store is current, and when nothing but damage
or a race is refused.

**Authentication** (`auth.py`).  State: the token file and, in memory, a
credential.  Operations: read the client and the token, refresh it or obtain one
by consent, persist it (temporary file, replace, directory sync), build the
client.  Hard: no lock; access expires at any time; persistence may fail after
the replace.  Correct when access is used only with exactly the one scope and
only after it was stored, and the file is never half written.

**Classifier, rules, actions** (`classifier.py`, `rules.py`, `actions.py`).
Pure functions from a message and a configuration to categories, confidence,
review reasons and a proposed (never executed) action.  Hard: every condition has
three values, rules outrank, exclude and protect, and many caps meet many
thresholds.  Correct when missing evidence never makes a cleanup more likely and
nothing that may be protected is proposed for cleanup.

**Preview, statistics, dry-run scan, review** (`audit.py`, `stats.py`,
`scan.py`, `review.py`): pure functions of records that were read.

**Operation boundary** (`orchestrator.py`, `invocation.py`,
`operation_bindings.py`, `*_operations.py`, `teaching_queries.py`,
`teaching_save.py`, `teaching_resume.py`).  One operation per invocation: what it
takes (access, store), its work, and a disposition.  Hard: the work may have
happened in part when something raises; the display fails after it; then the
diagnostic about that fails; each kind of command tells this in its own way.
A scan that leaves mail out (a failed get, the limit, a message outside of the
Inbox) is *completed*, exit status 0; one that a failed read or intake stopped is not.
Correct when the result says what the work returned however displays fail, exit
status 0 means that the work ran to its end and was displayed, its partial coverage
included, and nothing is held while a human reads.

**CLI and presentation** (`cli.py`, `*_presentation.py`): arguments, text, and
the exit status of a result.

How they meet: a scan admits messages *into* the queue under the rules and the
catalog it loaded; a teaching reads the queue, writes the rules, loads rules and
catalog, and writes queue and evaluations; `learn` writes the rules; a retirement
reads the rules and writes the catalog.  Every command that reads mail obtains
access first, every one that uses the database opens it, and lets both go before
it displays anything.

## Modules

| module | models | needs |
| --- | --- | --- |
| `WorkQueue` | the queue's rows and events; one action per transaction | |
| `WorkQueueProofs` | inductive invariant and theorems of `WorkQueue` | `WorkQueue` |
| `TeachingContract` | what teaching promises, without processes, files or locks | |
| `Teaching` | teaching, learned rules, retirement, intake, over the queue | extends `WorkQueue`, instantiates `TeachingContract` |
| `TeachingProofs` | inductive invariant, refinement and theorems of `Teaching` | `Teaching`, `WorkQueueProofs` |
| `TeachingContractProofs` | `Teaching` implements `TeachingContract`; what completion means | `TeachingProofs` |
| `InboxResult` | what a read of the Inbox yields and what may be claimed of it | |
| `InboxRead` | the read itself, request by request, while mail moves | `InboxResult` |
| `InboxReadProofs` | inductive invariant and theorems of `InboxRead` | `InboxRead` |
| `ScanRuns` | durable scans: sources, ITEMs, runs, observations, evaluations | `InboxResult` |
| `ScanRunsProofs` | inductive invariants and theorems of `ScanRuns` | `ScanRuns` |
| `Decision` | rule conditions, classification and proposed action, as operators | |
| `CategoryCatalog` | preview and confirmed save of changes to the category tree | extends `Decision` |
| `Judgement` | a message judged under the configuration, as it stands | extends `CategoryCatalog` |
| `JudgementProofs` | inductive invariants and theorems of catalog and judgement | `Judgement` |
| `StoreContract` | what opening the store promises: one atomic migration, or nothing | |
| `Schema` | `Storage.open`, statement by statement, by several processes | instantiates `StoreContract` |
| `SchemaProofs` | inductive invariant, refinement and theorems of `Schema` | `Schema` |
| `Token` | `authenticate` and `build_gmail_service` over one token file | |
| `Commands` | one invocation per process, from arguments to exit status | extends `Token`, `Schema` |
| `CommandsProofs` | inductive invariants and theorems of `Token` and `Commands`, and their composition | `Commands`, `SchemaProofs` |
| `MCWorkQueue`, `MCTeaching`, `MCScanRuns`, `MCInboxRead`, `MCJudgement`, `MCCommands` | instances for TLC | |

### WorkQueue

`state`, `rep`, `updated` are columns of `classification_work_items`; `member` of
`classification_work_members`; `memberLog` and `workLog` hold the newest
`classification_work_events` row of each member and of each work.  Row identities
(`CWQ-…`) are numbers, because the pages of the active list are ordered by them;
a new row takes any unused one, as a random identity may fall anywhere in the
order.  Decisions are reduced to whether they resolve the member.  An action is
one transaction; a call that raises is an action that is not enabled.

Only synthetic ITEMs reach the queue service's own create, add and reevaluate
(`classification_queue.py` refuses all others), and only intake creates work for
Gmail ITEMs; so work of a Gmail source has one member.  The timestamp of a call is
any `t \in Times`, because `as_of` is the caller's.

### Teaching

The process-local state `loc[p]` is a program counter and the local variables of
`TeachingService.confirm` and `resume`, `save_classification_rule`, `learn`,
`run_durable_gmail_scan` or `save_change`.  A step reads or writes one store:

| action | code |
| --- | --- |
| `Confirm`, `CreateIntent` | `confirm`: preview and lookups; `create_teaching_intent` |
| `ResumeRead` | `resume`: read the operation, take the time, read the rules |
| `Repreview` | the preview made again, compared with the confirmed fingerprint |
| `SaveCheck`, `SaveWrite` | under the lock: reread and compare; replace the file |
| `MarkSaved` | `advance_teaching("rule_saved")` |
| `LoadCatalog`, `LoadRules` | `_config()`: catalog file, then rule file, then merge |
| `MarkPending` | `advance_teaching("pending_reevaluation")`, or the comparison on recovery |
| `FetchPage`, `EvaluateWork` | `active_work_ids_after`; skip, give up, or decide one work |
| `RecordWork` | `record_teaching_work_reevaluation` |
| `Finish` | `advance_teaching("completed")` unless evidence was insufficient |
| `Learn` | `dam learn --save` up to the save |
| `ScanStart`, `Admit`, `ScanEnd` | a scan's configuration; one intake transaction; its end |
| `RetireCheck`, `RetireWrite` | `save_change` of a retirement under `categories.lock` |
| `QueueService` | the queue service on synthetic work of the same database |
| `Crash` | death, an exception, or a busy database (5 s) at any step |

Abstractions.  A configuration fingerprint is the configuration itself (hashes
are taken to be collision free).  Learned rules match one exact sender and name
one category; the rules shipped with the program are taken to match nothing,
which leaves classification to the categories learned for the sender:
none (teaching required), one (resolves), several (conflict: neither).  An
observation shows an opaque content whose sender may be unreadable; then every
rule's eligibility is unknown, which is insufficient evidence as soon as there
is a rule.  `Confirm` reads database and configuration in one step, because
`CreateIntent` and `Repreview` check both again.  `preview` loads the
configuration twice and compares nothing of the first load; the model keeps
the second.  `due` is a history variable: the work that was unresolved when the
reevaluation began.

`TeachingContract` says the same with three variables and no processes: rules,
which are only added and never clash; of each teaching its stage, rule and
configuration (`lesson`), advanced one stage at a time on what is stored; and what
each teaching made of each ITEM, once, under its configuration.  The mapping
(`Lesson`) reads these off the rule file and the rows; everything else of
`Teaching` is a stuttering step of it.

### ScanRuns and InboxRead

`InboxResult` is the interface between the two: a read is a function from the
listed messages to what their `get` gave, whether the listing ended, and how
Gmail's estimate compares.  `ScanRuns` lets `read_inbox` return any member of
`Reads(limit)`; `InboxRead` shows that it returns only those (`YieldsARead`).

`scan[p]` is the program counter and the locals of `run_durable_gmail_scan`:

| action | code |
| --- | --- |
| `Begin` | arguments, the time, the configuration |
| `LookupSource`, `RegisterSource` | `bind_gmail_profile`: a lookup, then the registering transaction |
| `StartScan` | `start_scan`: insert, recognise the identical start, or refuse |
| `ReadInbox` | `read_inbox`: a result or an exception |
| `Admit` (`Observe`, `Replay`) | `record_verified_gmail_intake`: a new observation, or the identical one |
| `FailLocally` | any exception while a message is classified or recorded |
| `FinishScan`, `RefuseFinish` | `finish_scan` |
| `PreviewRun`, `PreviewEntries` | the separate reads of `preview_from_storage` |
| `Crash` | death or an exception at any step |
| `Teach`, `Reevaluate` | evaluations from `record_teaching_work_reevaluation` and `reevaluate_exact_item` |
| `SetClock` | the wall clock, forwards or back |

Several processes may scan under one run identity, because `run_id` and `as_of`
are parameters and `start_scan` accepts a run that was started in exactly the
same way.  Proposal and classification are functions of metadata, configuration
and `as_of`, so the observation row stands for the three rows that one
transaction writes.  An estimate is reduced to absent, equal or different, and
the number of pages is dropped; two finishes that differ only there are the same
in the model and refused in the code, an exception that `Crash` already is.
`Teach` is the evaluation half of a teaching; `Teaching` has the rest.  `waiting`
is the set of ITEMs with unresolved work; `WorkQueue` has the rest.

In `InboxRead`, Gmail is external.  If `anchored`, a page token names the place in
the listing at which to go on; otherwise any page may come with any token.
`token`, `tokens`, `listed`, `page`, `whole`, `shows` are the locals of
`read_inbox`; `steady` is a history variable.  That a complete read saw everything
that stayed in the Inbox is a promise of Gmail's and the code's together: it
holds for anchored tokens only, and is checked there.

### Decision, CategoryCatalog and Judgement

`Decision` has one operator per idea of `rules.py` (`Outcome`, `Match`),
`classifier.py` (`Status`, `Assessed`, `Rank`, `Selected`, `Confidence`, `ReviewReasons`) and
`actions.py` (`Winners`, `SupportCaps`, `Action`).  Confidence is in percent.  A
message is its sender, the keywords its subject contains, its labels and its age,
each of which may be missing; texts, explanations and evidence records are left
out.  A rule names categories by identity, since the keys of a loaded tree are
distinct.

`CategoryCatalog`: `catalog` is the file, `rules` the configured rules, `learned`
the categories learned rules name, `shown[p]` the preview a user looks at, and
`proc[p]` the locals of `operate_categories` and `save_change`:

| action | code |
| --- | --- |
| `Preview`, `Save` | load configuration and catalog; the second with the preview's fingerprint |
| `Propose` | `propose_change` (the learned rules are read here), then the comparison of fingerprints |
| `Lock`, `Recheck` | `_locked`; load again, compare the catalog, propose and compare again |
| `Replace`, `Return` | write and replace; sync the directory and report |
| `Fail` | `OSError`, an exception or death at any step |
| `LearnRule` | a learned rule is saved, under its own lock |

Selectors (key, alias or identity) are taken as resolved, and the key a rule
names as the identity behind it.  Only learned rules that a retirement reads
matter here; what happens to them afterwards is in `Teaching`.  `list` and `show`
write nothing.

`Judgement` puts both together: `Judge` is what review and the scans do with a
message after they read it.  `read` is what this read shows of `mail`.

### Schema and Token

`db` is what is committed in the database file: version, tables, triggers, two
properties of columns that a script depends on (`linked`, `wide`), and the rows
of the one table a migration rebuilds together with those that refer to them.  A table or
trigger stands for all that one version added, since `open` compares whole sets.
`conn[p]` is the position in `Storage.open`, the version as read, and the draft of
the transaction:

| action | code |
| --- | --- |
| `OpenStorage`, `FindFolder`, `MakeFolder` | `_private_path`: missing directories are listed, then made |
| `ReadVersion`, `ReadTables`, `ReadTriggers` | `PRAGMA user_version`; the two queries of `sqlite_master` |
| `BeginImmediate` | foreign keys off for an older version; `BEGIN IMMEDIATE`, which waits for the lock |
| `RunScript` | the next of `_SCHEMA` ... `_SCHEMA_V5`, from the version *as read*; fails if it does not fit |
| `Commit` | `foreign_key_check`, `COMMIT` |
| `OpenFails`, `DropStorage`, `CloseStorage` | an error, death (SQLite rolls back), the end |
| `RegisterSource`, `ReferToSource` | two transactions of an open store, so that rows change |

`Findable` lists what may lie in the file: any version, foreign tables, lost
tables, triggers or rows; but columns are as the version says, because `open`
never looks at them.  `StoreContract` has one variable and three actions: a whole
older store becomes current in one step with its rows; a current one gets rows.

In `Token` a credential is told apart by its grant, by its scopes being the one
DAM asks for, and by having a refresh token.  `file` is `token.json`; `grants`
what Google issued and what expired; `stored` is a history variable.

| action | code |
| --- | --- |
| `LoadClient`, `ReadToken` | `load_client_config`; read, check scopes, decode, decide |
| `Refresh`, `Authorize` (`Receives`) | the backend's answer, validated |
| `WriteToken`, `ReplaceToken`, `SyncFolder` | `_persist_token` |
| `BuildService` | `build_gmail_service`, which validates again |
| `AuthFails`, `DropAuth`, `Expire` | any `AuthError`; the end or death; time |

### Commands

`Commands` composes the two by using their actions: `cmd[p]` is the invocation of
process p, and while it is `leasing` it takes a step of `Token`, while it is
`opening` one of `Schema`.  Seven kinds stand for what the commands take: `query`
(store), `save` (store, mutates), `scan` (access, then store, mutates), `look` and
`review` (access), `learn` (access, mutates a file), `categories` (mutates a
file).  `effect` is how much of its work is done: in stages for `save` and `scan`,
in one replace for the files.  `left` is what the work left out (`LeavesOut`): mail a
scan could not get, or for which its limit left no room (`unread`), and mail without
the Inbox label (`outside`), which `ScanControlResult` calls ordinary partial coverage;
a failed read or a failed intake, which stops a durable scan (`stopped`); unresolved
work for which a teaching finds no evidence, which leaves it pending (`evidence`).
`Return` is a result of the work: "incomplete" for the last two, "completed"
otherwise, a scan with partial coverage included, as
`test_partial_get_failures_complete_invocation_and_keep_coverage` has it.
`CoverageShown` is what the display then says of it.  Which mail is left out and what the
run's inventory records of it are `InboxRead`'s and `ScanRuns`'s.  `Raise` is any
exception, both followed by leaving the `with` blocks (`Releases`); `Show`,
`ShowFails`, `Diagnose` and `DiagnoseFails` are the presentation port called and
raising; `AfterFailedShow` is how each kind records that; `ExitCode` is
`_exit_code`.  The invariants of `Teaching` and `ScanRuns` do not depend on when a
process is inside a command, so their work is not repeated here.

## What the runs check

| run | instance | shows |
| --- | --- | --- |
| `queue` | 2 works, 4 ITEMs (two synthetic of one source, one of another, one Gmail), times 0..1 | the queue's properties in every order of calls |
| `teach` | 2 processes, 2 teachings, 2 messages of two senders, one observed again | every step is one `TeachingContract` allows (refinement); one teaching per candidate; "completed" covers the queue; page size 1, so the cursor matters |
| `teach_rules` | from an empty store: 2 processes, 2 teachings, 2 categories for one sender, one message whose sender becomes unreadable, scans, `learn`, retirement | no sender with two categories, rule before progress, a completed teaching resolved its work |
| `teach_mixed` | one process; a message beside synthetic work without evidence, deferral, extension; times 0..1 | every step of the queue, late reevaluations included, is one of `WorkQueue` (refinement), so what `queue` checks and `WorkQueueProofs` proves of a step holds of whole teachings (for concurrent ones `TeachingImplementsQueue` proves it; `teach` and `teach_rules` run two processes); and, crashes unrestricted in number, a saved rule's teaching completes |
| `scan_runs` | two parts (`SharedRun`, `OneHistory`): in one mailbox 2 processes, 2 messages, one run identity with limit 1, clock 0..1; in another, one process at a time, 2 runs at two times, 1 message, 3 evaluations | limit, bracketing, freezing, completeness, preview, binding; one chain, unclassified waits |
| `inbox_read` | 4 messages, pages of 2, limit 3, 3 pages; anchored tokens and arbitrary answers | a read yields one of `Reads(limit)`; completeness is never claimed of a read that missed steady mail |
| `judgement` | two parts: 3 processes, 2 base categories and a new one, 6 requests, 3 saves; and 630 pairs of rules on every read of 24 messages | every saved catalog loads and is what a user saw; cleanup only when warranted, never for lack of evidence, and no review only when nothing is open |
| `commands` | 2 processes, one invocation each: a save and a query over 6 whole and 5 foreign or damaged stores, with and without the directory; learn with look and scan with categories over 5 token files, live or expired; scan with review over one renewable token | migration as `StoreContract` says (refinement), open stores current, refusals for cause; access proven, token file whole; exit status 0 only for work that was not stopped and whose partial coverage was shown; outcomes and failed displays, nothing held while waiting; every command answers |
| `scan_retry` | violated | see findings |
| `retire_race` | violated | see findings |
| `preview_again` | violated | see findings |
| `stranded` | violated | see findings |

Every run has at least two of each thing whose multiplicity matters for its
properties: two works so that a page boundary and a passed-over work exist, two
processes for every race (the races of this code are pairs: check/write,
lookup/insert, load/record), two categories for conflicts, two contents for
changed evidence.  In `scan_runs` at most one of the two goes by the clock, and their reads
differ in the estimate at most at one of them; without these bounds the run is
more than twice as large.  In `judgement` three processes ask for one preview each
(`AsksOnce`), at any time, and may save it again and again: three changes in any
order and overlap.  Among the requests are two moves that close a cycle only
together, an addition under a category that another request retires, and two that
give siblings one name.  The judged rule sets pair a rule that recommends
something with one that protects, retains, asks for review, conflicts or is
excluded; ages lie below, at and beyond both bounds of an age condition, the lower one
being also the retention's day, and a clock that is behind gives no age; the thresholds are lower than the defaults (70 and 50 for 95 and 75) so
that Archive is reachable by one kind of evidence.  Limit 1 with two messages lets two reads of one run differ
and fill it; limit 3 with pages of 2 puts the limit inside a page; three
evaluations let a chain go wrong in its middle.  Elsewhere a third process adds no kind of step that a second does
not: every shared store is guarded by one lock or one transaction, so only two
ends of one window matter.  Times are 0..1: "earlier" and "later" is all the
code compares.  In `commands` there
is a grant in the file and one for each process, the most two invocations can be
issued; a scan and a renewal meet over the one token that is renewed without a human;
the store cases have one store of each version with the rows it may hold, and
one of each way `open` refuses; two processes are the two ends of every window
between a read and the transaction.  Symmetry over processes and teachings is
used in safety runs only.  `CHECK_DEADLOCK FALSE`: a run stops when its messages are scanned and its
identities are used up, which is the end of the bound and not of the program.

### Fairness

`TeachFairness` is about the human and the scheduler, not the program: an
unfinished teaching is resumed again and again (`SF` on `Resume` for each
teaching), a running command is not suspended for ever (`WF` on its steps), and
although a command may be killed any number of times, it is not killed each
time at the same step (`SF` on every step of the reevaluation).  Without the last, a
machine that dies in each `MarkPending` refutes every recovery.  No fairness is
assumed for scans, deferral, `learn` or new teachings.

`CommandsFairness` is weak fairness of `Proceeds` for each process: a process that
can go on does, Google and the human answer, errors that were raised are
delivered.  Nothing is assumed of failures, deaths, declined requests or of a wait
for the lock being given up; a process that waits for the lock waits for one that
goes on or dies, and death gives the lock back.

### Findings

* `retire_race`: the rule file and the catalog are under different locks, and a
  save validates against the configuration its caller loaded before the lock.
  A retirement that overlaps a save leaves a rule with a retired category; then
  no configuration loads, and no operation reactivates a category.
* `scan_retry`: recording an identical observation again stores nothing but looks
  at the queue as if it were new.  A scan that is interrupted, and repeated with
  the same `run_id` and `as_of` after one of its messages was taught, queues that
  message again (its configuration has the same fingerprint if it is a scan
  without learned rules).
* `preview_again`: an intent whose evidence was observed again cannot be resumed
  ("preview again"), and the new preview cannot be confirmed ("different
  provenance"), because the prior operation is found by a fingerprint without
  the observation and compared by one with it.
* `stranded`: an operation in `pending_reevaluation` resumes only under exactly
  the configuration it recorded; any rule saved in between strands it.

## What is proved

Eight modules of proofs; all hold for all constants that satisfy the named
assumptions, that is for any number of processes, ITEMs, works, senders,
categories, rules, times, sources and grants:

* `QueueAssumption`: sources, Gmail ITEMs, works and times; `NoConfigAssumption`:
  the mark of "nothing loaded" is not a configuration.
* `TeachingAssumption`: only Gmail ITEMs have evidence, pages hold at least one
  work, and no work identity is the cursor before the first (the empty string,
  which is below every `CWQ-` identity).  `MessageAssumption`: two observations of
  one message show the same sender, unless one of them shows none.  That is
  Gmail's part: the headers of a message do not change, while a `get` may come
  without them.  Only `CompletedTeachingsResolve` needs it: under another sender
  the rule taught would not match what is evaluated.
* `ScanAssumption`, `NoRowAssumption`: requests, runs, finitely many messages, the
  mark of "no row" is no row.  `ReadAssumption`: messages are numbers below the
  top, limit and page bounds are positive.
* `DecisionAssumption`: the thresholds' order, as `models.py` validates it.
  `PoliciesAssumption`: the rule sets are those validation admits.
  `MailsAssumption`: a message is a record of its four parts.
  `CatalogAssumption`, `RequestsAssumption`: identities, base tree and requests.
* `TokenAssumption`: the marks of no token and of a garbled one are no
  credentials; `GmailAreSources`; `SameProcesses`: the processes of `Token` and
  `Schema` are the same.

`WorkQueueProofs`, about the queue alone:

* `QueueTypeCorrect`, `WorkAndMembersResolveTogether`, `ItemInOneUnresolvedWork`,
  `ItemHasOneOpenMembership`: the invariants of those names' properties.
* `ResolvedStays`, `TimestampsAdvance`: what no step may do.
* `HistoryTells`, `HistoryChains`: the events end in what the rows show, and each
  continues where the last one ended.

"One unresolved work per ITEM" is not inductive.  Intake looks for an *open*
membership only, so it survives intake only because a Gmail ITEM in unresolved
work is that work's sole member, whose state is then open.  The inductive
invariant (`QueueIInv`) therefore adds that work of Gmail ITEMs has one member and
that unresolved work has an open one.

What the newest event says is not inductive by itself: work without an event of
its own is taken to be as it was created.  `HistoryInv` adds
`WorkEventsConclude`: an event of a work as a whole only ever says that it was
deferred or resolved, so the transition that writes the first one starts from
"pending".

`TeachingProofs`, about teachings, rules, scans and retirements over the queue:

* `TeachTypeCorrect`; `RuleIsSavedBeforeProgress`, `SenderHasOneCategory`,
  `CandidateHasOneTeaching`, `EvaluationsAreProven`: the invariants.
* `TeachingImplementsQueue`: every step of `Teaching` is a step of `WorkQueue` or
  leaves the queue alone.  The queue's theorems thereby hold of the whole:
  `TaughtItemInOneUnresolvedWork`, `LateRecordsAreRefused`.

The inductive invariant is `TeachInv`:

* `StoreInv`, `LedgerInv`: types; a rule named by an operation past `intent` is in
  the rule file; an evaluation of a teaching exists only once that operation has a
  configuration after, and names it.
* `LockInv`, `OneCategoryPerSender`: at most one process is between check and
  write of the rule file, and what it read there is still the file.
* `ProcsInv`: what a process at a program counter knows.  It is what carries a
  fact over the gap between two stores: a process at `MarkSaved` has its rule in
  the file; one that pages has a durable operation in `pending_reevaluation`
  whose configuration after is the one the process holds.

Such knowledge survives the steps of others because the stores only grow
(`StoresGrow`: rules are never removed, operations never go back, evaluations
never change).  So the proof has one lemma per action for the process that moves,
and one lemma that `Grows` preserves what the others know.

`TeachingContractProofs`: `TeachingImplementsContract`.  From `TeachInv` each action
is one step of the contract or none (`Allowed`).  Only three actions move the mapped
state in more than an evident way: the rule file (`SaveWrite`, where the lock and the
clash check give `Learn`), a new intent, and `RecordWork`, whose evaluations are new
because the transaction looks for older ones of the same teaching.  The old
statements that learning only adds, checkpoints only advance and evaluations stay
are what the contract's steps are.

In the same module, what a completed teaching means:

* `CompletionCovers`.  What a listing has dealt with while work comes, is deferred
  and is resolved by others between its pages is `CoverInv`: every work that was
  unresolved when the listing began is dealt with, was given up for lack of
  evidence, or is still `Ahead`: on the page, behind all of the page, or the one
  being recorded.  Two facts carry it.  A page takes the *first* of the active work
  (`PageIsFirst`, about the `LIMIT` of the query), so nothing is skipped between
  the cursor and the page.  And what a teaching evaluated stays evaluated although
  work may be given further members: only mail is evaluated (`TaughtIsMail`) and
  mail shares its work with nothing (`GmailWorkIsSingleton` of the queue).
* `CompletedTeachingsResolve`.  `ResolveInv` ties a teaching to its work: the ITEM it
  was taught from is a member; a process that reevaluates has that work among what
  it must deal with, or it is resolved; and once the teaching evaluated that ITEM,
  the work is resolved.  The last is `RecordTeaches`: the evidence shows a sender
  (`Shows`; unreadable evidence is given up before), that sender has the one
  category taught (`RuleResolves`: no sender has two), and the ITEM is the only
  member; or the ITEM already waits in later work, and then the work taught from
  is resolved, because an ITEM is in one unresolved work only.

`ScanRunsProofs`, about any number of processes, mailboxes, runs and messages:
every invariant and action property the run `scan_runs` checks.
There are two inductive invariants.

* `ScanInv`: the rows' types, the properties of runs, and `ProcessInv`, what a
  process at a program counter knows: from `start_scan` on its run has a start;
  while it admits, every message it was shown is stored or still to do; at the
  preview its run is finished.  `Keeps` (a start, a finish, an observation stay)
  carries that knowledge over the steps of others.  Completeness then follows
  because a complete result showed everything it listed (`CompleteShowsAll`) and
  nothing is left to do.  The preview's two reads agree because the run is
  finished between them and a finished run admits nothing.
* `HistoryInv`: the chain of evaluations is not inductive without
  `LatestIsCurrent`, that an ITEM's current evaluation exists and is its latest;
  otherwise an append could start a second branch.  `AppendKeepsChain` is the one
  lemma about an append, used for intake, teaching and reevaluation alike.

`InboxReadProofs`: `ReadsYieldReads`, `CompleteReadsSawSteady`, whatever Gmail
answers.  `ReadInv` adds to the types that a loop that ends without a last page has
listed as many as the limit, and, for anchored tokens, that every steady message at
or above the next page's place is listed (`NonePassedOver`).  An honest page keeps
that (`HonestPage`); mail that moves is no longer owed to the listing.  A complete
result excludes the stop at the limit, a failed `get` and a lost label
(`CompleteMeans`), so what is left is the listing that reached its end.

`JudgementProofs`, about any number of processes and saves, and every set of rules:

* `SavedCatalogLoads`, `CatalogSavedAsShown`, from `CatalogInv`.  A process that carries
  a change carries the one its user saw; at most one is between `Recheck` and the
  end of `Replace` (`OneHolder`); and for that one the file is still the catalog
  the change was made for, and becomes one that loads.  The first theorem reads
  `Loads(<<>>) => CatalogLoads`: rules that do not fit the base tree make a
  configuration that never loaded, which no save repairs.
* `CleanupsAreWarranted`, `LessEvidenceIsSafe`, `NoReviewIsSettled`.  The argument is about
  three-valued logic.  `ShowsLess(l, m)`: l lacks some parts of m and agrees on the
  rest.  A condition, a specification and a rule that l decides, m decides the same
  way (`OutcomeStays`, `MatchStays`, `StatusStays`).  So if l leaves no rule
  undecided, both judgements have the same rules on the same evidence
  (`SameGrounds`), and everything shown of a classification follows from these
  (`SameClassification`).  An undecided rule is itself a reason for review
  (`UndecidedIsAReason`), and a cleanup excludes reasons for review
  (`CleanupMeans`): each theorem's premise yields `SameGrounds`.  For the action it
  remains that the caps on its confidence for missing support can only fall away
  when more is seen, labels among it (`CleanupStays`).

`SchemaProofs`: `SchemaImplementsStore`, `OpenStoresAreCurrent`,
`OpeningRefusesForCause`.  The difficulty is the stale version.  `SchemaInv` holds:

* of a process between its reads and the lock: what it read is still so, or the
  store has become current since (nothing else can have happened to it);
* of one in the transaction: its draft is the file's store with the scripts it ran
  (`Reached`); or the store had become current, and then it is before its first
  script, which cannot run: what that would create exists already, or, for the
  script that rebuilds a table, a trigger refers to it;
* that at most one process is in a transaction, and that whoever has the store
  open has foreign keys on and a current store.

So a draft that reaches `COMMIT` is the whole store one contract step away, or the
same store, and a refusal in the scripts has a version that moved as its cause.

`CommandsProofs` begins with `Token` alone: `LeasesAreProven`, `TokenFileIsWhole`.
`TokenInv` says of each process what it holds at each step and that the file it read
was understood, which the others preserve because they only put exact credentials
there (`ClientMoves`).  Then every step of `Commands` is a step of `Schema` or leaves it alone,
and the same of `Token` (`CommandsRunSchema`, `CommandsRunToken`).  Everything proved
of the two therefore holds of whole commands (`CommandsKeepTheStore`,
`CommandsKeepTheToken`) without a further invariant.  What is about commands
themselves, `ZeroExitsAreDone`, `OutcomesOutliveDisplays` and `WaitingHoldsNoStore`,
follows from `CommandsInv`: what an invocation at each position has returned,
achieved and told (`CallInv`) and what it holds (`HoldsInv`).  "Completed" there says
that the work ran to its end and left out at most ordinary coverage (`Achieved`);
that this reaches exit status 0 only with a delivered display is `ZeroExitsAreDone`.

Only model-checked: `SavedTeachingCompletes` and `EveryCommandAnswers`, which are
liveness under fairness and out of the provers' reach (as is `ENABLED`), and what
the runs that find a violation show.

## Plan

1. `CategoryCatalog` implements a register with compare-and-swap, stated as an abstract
   specification of its own as `TeachingContract` and `StoreContract` are, and the
   refinement proved from `CatalogInv`.
2. The same for the token file of `Token`: one register, replaced whole.
3. That no evidence of one source decides work of another, from `MembersShareSource`,
   as a theorem of `Teaching`.

## Not modelled

Parsing and field validation of YAML and JSON, file permissions and paths
(their refusals are errors that may occur), the text that is displayed, the
Google client library and OAuth itself, and statistics: they keep no state that
two steps could disagree about.

The temporary file and `fsync` of an atomic replace are one step for rules and
catalog.  A failing disk there (`replace` done, directory `fsync` failed, the caller
told it failed) is the same as a crash after the write, which is modelled; for
the token, where what happens next differs, the steps are apart.

`Storage.record_observation`, `record_approval`, `append_audit_event` (with
`record_preview_event` of `audit.py`) and
`ensure_account`, which no command calls: appends that are refused when the
identity exists with other contents.  Of `save_configuration` only that a
fingerprint names one configuration is used.

That the client of the Google library refreshes access by itself while a scan
reads: it stays in memory and is never stored.
