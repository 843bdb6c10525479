------------------------------- MODULE Commands -------------------------------
(***************************************************************************)
(* One invocation of DAM per process, from the command line to its exit    *)
(* status (cli.py, orchestrator.py and the operations they select).  A     *)
(* command takes what it needs in a fixed order (Token, then Schema), does *)
(* its work, lets everything go, displays and returns a control result.    *)
(* Other invocations run at once; each step may fail and each process die. *)
(*                                                                         *)
(* What the work of a command is, other modules say (Teaching, ScanRuns,   *)
(* CategoryCatalog).  Here it has no, some or all of its effects, and may  *)
(* raise after any of them.  An error is one the operations expect         *)
(* ("rejected") or not ("failed").  Displays and diagnostics are told      *)
(* apart only by whether their delivery fails.                             *)
(***************************************************************************)
EXTENDS Token, Schema

ASSUME SameProcesses == Clients = Procs

VARIABLE cmd   \* each process's invocation

commandVars == <<cmd, schemaVars, tokenVars>>

(* query: teach list, show, status and preview;  save: teach save and      *)
(* resume;  scan: scan --gmail --record-locally;  look: scan --gmail;      *)
(* learn: learn --gmail --save;  categories: a change with --save.         *)
Kinds      == {"query", "save", "scan", "look", "review", "learn", "categories"}
ReadsMail  == {"scan", "look", "review", "learn"}
UsesStore  == {"query", "save", "scan"}
Mutates    == {"save", "scan", "learn", "categories"}

(* Their result says whether the display failed; a query's and a review's  *)
(* disposition includes the display.                                       *)
TellsApart == {"save", "scan", "look", "learn", "categories"}

Errors       == {"rejected", "failed"}
Dispositions == {"completed", "incomplete"} \cup Errors

(* What work may leave out.  Ordinary partial coverage of a scan is mail   *)
(* beyond its limit or whose get failed, and mail it found outside of the  *)
(* Inbox.  Not finished is a durable scan that a failed read or intake     *)
(* stopped, and a teaching that lacks evidence for some of the queue.      *)
Ordinary   == {"unread", "outside"}
Unfinished == {"stopped", "evidence"}

MayLeaveOut(kind) ==
  CASE kind = "scan" -> Ordinary \cup {"stopped"}
    [] kind = "look" -> {"unread"}
    [] kind = "save" -> {"evidence"}
    [] OTHER         -> {}

(* `effect`: how much of the work is done, by this invocation or before it *)
(* (a teaching that is repeated);  `left`: what the work left out;         *)
(* `returned`: what the work returned;  `display`: how its display failed; *)
(* `shown`: history, everything to be displayed was.                       *)
Invocation ==
  [kind : Kinds,
   at : {"asked", "leasing", "opening", "working", "showing", "stopping", "diagnosing",
         "answered", "dead"},
   effect : {"none", "some", "all"}, left : SUBSET (Ordinary \cup Unfinished),
   returned : Dispositions \cup {"nothing"},
   disposition : Dispositions, display : {"delivered"} \cup Errors, shown : BOOLEAN]

Asked(kind) == [kind |-> kind, at |-> "asked", effect |-> "none", left |-> {},
                returned |-> "nothing", disposition |-> "failed", display |-> "delivered",
                shown |-> FALSE]

CmdAt(p, step)   == cmd[p].at = step
Kind(p)          == cmd[p].kind
CmdGoes(p, step) == cmd' = [cmd EXCEPT ![p].at = step]
Answers(p, c)    == cmd' = [cmd EXCEPT ![p] = [c EXCEPT !.at = "answered"]]

------------------------------------------------------------------------------
(* execute, and the operation up to the first thing it takes.              *)
Invoke(p) ==
  /\ CmdAt(p, "asked")
  /\ \/ /\ Kind(p) \in ReadsMail
        /\ StartAuth(p) /\ CmdGoes(p, "leasing")
        /\ UNCHANGED schemaVars
     \/ /\ Kind(p) \in UsesStore \ ReadsMail
        /\ OpenStorage(p) /\ CmdGoes(p, "opening")
        /\ UNCHANGED tokenVars
     \/ /\ Kind(p) \notin ReadsMail \cup UsesStore
        /\ CmdGoes(p, "working")
        /\ UNCHANGED <<schemaVars, tokenVars>>

(* The controller refuses the request, or fails itself (InvocationFailure).*)
Decline(p) ==
  /\ CmdAt(p, "asked")
  /\ \E how \in Errors : Answers(p, [cmd[p] EXCEPT !.disposition = how])
  /\ UNCHANGED <<schemaVars, tokenVars>>

(* Durable scans authenticate before they open the store.                  *)
HasLease(p) ==
  /\ CmdAt(p, "leasing") /\ AuthAt(p, "service")
  /\ IF Kind(p) \in UsesStore
     THEN OpenStorage(p) /\ CmdGoes(p, "opening") ELSE CmdGoes(p, "working") /\ UNCHANGED schemaVars
  /\ UNCHANGED tokenVars

HasStore(p) ==
  /\ CmdAt(p, "opening") /\ OpenAt(p, "open")
  /\ CmdGoes(p, "working")
  /\ UNCHANGED <<schemaVars, tokenVars>>

(* Nothing was left out that keeps the work from finishing.                *)
Finishable(p) == cmd[p].left \cap Unfinished = {}

(* One effect of the work.  A scan binds its mailbox and admits messages,  *)
(* a teaching advances stage by stage; a rule and a catalog are one file.  *)
Work(p) ==
  /\ CmdAt(p, "working") /\ Kind(p) \in Mutates /\ Finishable(p)
  /\ \/ /\ cmd[p].effect = "none" /\ Kind(p) \in {"save", "scan"}
        /\ cmd' = [cmd EXCEPT ![p].effect = "some"]
        /\ IF Kind(p) = "scan" THEN \E s \in GmailRows : RegisterSource(p, s) ELSE UNCHANGED schemaVars
     \/ /\ Kind(p) = "scan" /\ cmd[p].effect = "some"
        /\ \E s \in GmailRows : ReferToSource(p, s)
        /\ UNCHANGED cmd
     \/ /\ cmd[p].effect # "all" /\ (Kind(p) = "scan" => cmd[p].effect = "some")
        /\ cmd' = [cmd EXCEPT ![p].effect = "all"]
        /\ UNCHANGED schemaVars
  /\ UNCHANGED tokenVars

(* The work leaves something out, on the way, and goes on or stops.        *)
LeavesOut(p) ==
  /\ CmdAt(p, "working") /\ Finishable(p)
  /\ Kind(p) \in Mutates => cmd[p].effect = "some"
  /\ \E what \in MayLeaveOut(Kind(p)) \ cmd[p].left :
       cmd' = [cmd EXCEPT ![p].left = @ \cup {what}]
  /\ UNCHANGED <<schemaVars, tokenVars>>

(* The client is dropped and the store closed before anything is displayed.*)
Releases(p) ==
  /\ IF OpenAt(p, "closed") THEN UNCHANGED schemaVars ELSE CloseStorage(p)
  /\ IF AuthAt(p, "out") THEN UNCHANGED tokenVars ELSE DropAuth(p)

(* The work ran to its end or stopped.                                     *)
Ended(p) == Kind(p) \notin Mutates \/ cmd[p].effect = "all" \/ ~Finishable(p)

ReturnFaultKeepsStore(p) ==
  /\ CmdAt(p, "working") /\ Ended(p)
  /\ LET r == IF Finishable(p) THEN "completed" ELSE "incomplete"
     IN  cmd' = [cmd EXCEPT ![p].at = "showing", ![p].returned = r, ![p].disposition = r]
  /\ UNCHANGED <<schemaVars, tokenVars>>

ReturnFaultStopIsCoverage(p) ==
  /\ CmdAt(p, "working") /\ Ended(p)
  /\ LET r == IF "evidence" \in cmd[p].left THEN "incomplete" ELSE "completed"
     IN  cmd' = [cmd EXCEPT ![p].at = "showing", ![p].returned = r, ![p].disposition = r]
  /\ Releases(p)

(* Partial coverage is completed execution, a durable stop is not.         *)
Return(p) ==
  /\ CmdAt(p, "working") /\ Ended(p)
  /\ LET r == IF Finishable(p) THEN "completed" ELSE "incomplete"
     IN  cmd' = [cmd EXCEPT ![p].at = "showing", ![p].returned = r, ![p].disposition = r]
  /\ Releases(p)

(* An exception: before or in the work, of authentication or of opening.   *)
Raises(p) ==
  \/ CmdAt(p, "asked") \/ CmdAt(p, "working")
  \/ CmdAt(p, "leasing") /\ AuthAt(p, "denied")
  \/ CmdAt(p, "opening") /\ conn[p].at \in {"refused", "failed"}

Raise(p, how) ==
  /\ Raises(p)
  /\ cmd[p].at \in {"leasing", "opening"} => how = "rejected"
  /\ cmd' = [cmd EXCEPT ![p].at = "diagnosing", ![p].disposition = how,
                        ![p].returned = IF CmdAt(p, "asked") THEN @ ELSE how]
  /\ Releases(p)

(* _project_coverage: what the display says of the mail that was scanned.  *)
CoverageShown(c) ==
  IF c.left \cap {"outside", "stopped"} # {} THEN "partial"
  ELSE IF "unread" \in c.left THEN "read_failures_or_limit" ELSE "complete"

(* The display; a durable scan that stopped early says so in a second one. *)
Show(p) ==
  /\ CmdAt(p, "showing") \/ CmdAt(p, "stopping")
  /\ IF CmdAt(p, "showing") /\ Kind(p) = "scan" /\ cmd[p].returned = "incomplete"
     THEN CmdGoes(p, "stopping")
     ELSE Answers(p, [cmd[p] EXCEPT !.shown = TRUE])
  /\ UNCHANGED <<schemaVars, tokenVars>>

(* Its delivery fails.  Learn keeps how, the others only that it did.  The *)
(* bindings around teach save answer without that when no settings load.   *)
AfterFailedShowFaultOwnsUp(c, how) == [c EXCEPT !.disposition = how, !.display = how]

AfterFailedShow(c, how) ==
  IF c.kind \in TellsApart /\ ~(c.kind = "save" /\ c.returned = "nothing")
  THEN [c EXCEPT !.display = IF c.kind = "learn" THEN how ELSE "failed"]
  ELSE [c EXCEPT !.disposition = how]

ShowFails(p, how) ==
  /\ CmdAt(p, "showing") \/ CmdAt(p, "stopping")
  /\ cmd' = [cmd EXCEPT ![p] = [AfterFailedShow(cmd[p], how) EXCEPT !.at =
       IF Kind(p) = "categories" THEN "answered" ELSE "diagnosing"]]
  /\ UNCHANGED <<schemaVars, tokenVars>>

Diagnose(p) ==
  /\ CmdAt(p, "diagnosing")
  /\ Answers(p, cmd[p])
  /\ UNCHANGED <<schemaVars, tokenVars>>

(* A diagnostic that fails too.                                            *)
DiagnoseFails(p) ==
  /\ CmdAt(p, "diagnosing")
  /\ Answers(p, AfterFailedShow(cmd[p], "failed"))
  /\ UNCHANGED <<schemaVars, tokenVars>>

Die(p) ==
  /\ cmd[p].at \notin {"asked", "answered", "dead"}
  /\ CmdGoes(p, "dead")
  /\ IF OpenAt(p, "closed") THEN UNCHANGED schemaVars ELSE DropStorage(p)
  /\ IF AuthAt(p, "out") THEN UNCHANGED tokenVars ELSE DropAuth(p)

(* _exit_code                                                              *)
ExitCode(c) ==
  LET d == IF c.kind = "learn" /\ c.display # "delivered" THEN c.display ELSE c.disposition IN
  IF c.kind \in TellsApart \ {"learn"} /\ c.display # "delivered" THEN 1
  ELSE IF d = "completed" THEN 0 ELSE IF d = "failed" THEN 1 ELSE 2

------------------------------------------------------------------------------
CommandsInit ==
  /\ SchemaInit /\ TokenInit
  /\ cmd \in [Procs -> {Asked(kind) : kind \in Kinds}]

(* The steps of authenticate and Storage.open, taken on behalf of p.       *)
Authenticates(p) ==
  /\ CmdAt(p, "leasing") /\ AuthStep(p)
  /\ UNCHANGED <<cmd, schemaVars>>

Opens(p) ==
  /\ CmdAt(p, "opening") /\ OpeningStep(p)
  /\ UNCHANGED <<cmd, tokenVars>>

(* What goes wrong there.                                                  *)
Stumbles(p) ==
  \/ CmdAt(p, "leasing") /\ AuthFails(p) /\ UNCHANGED <<cmd, schemaVars>>
  \/ CmdAt(p, "opening") /\ OpenFails(p) /\ UNCHANGED <<cmd, tokenVars>>

Proceeds(p) ==
  \/ Invoke(p) \/ Authenticates(p) \/ HasLease(p) \/ Opens(p) \/ HasStore(p)
  \/ Work(p) \/ Return(p) \/ Show(p) \/ Diagnose(p)
  \/ cmd[p].at \in {"leasing", "opening"} /\ Raise(p, "rejected")

CommandsNext ==
  \/ \E p \in Procs :
       \/ Proceeds(p) \/ Stumbles(p) \/ LeavesOut(p) \/ Decline(p) \/ DiagnoseFails(p)
       \/ Die(p)
       \/ \E how \in Errors : Raise(p, how) \/ ShowFails(p, how)
  \/ \E g \in Grants : Expire(g) /\ UNCHANGED <<cmd, schemaVars>>

CommandsSpec == CommandsInit /\ [][CommandsNext]_commandVars

(* A running process goes on, Google and the human answer.  That a wait    *)
(* for the lock or the network may be given up is not needed.              *)
CommandsFairness == \A p \in Procs : WF_commandVars(Proceeds(p))

------------------------------------------------------------------------------
(* Exit status 0 means that the work ran to its end and all of its display *)
(* was delivered: no exception, no scan that stopped early and no teaching *)
(* that lacks evidence ends in success.  A scan may have left mail out, as *)
(* the code counts partial coverage as completed (scan_operations.py:45);  *)
(* then the coverage it displayed was not "complete".                      *)
ExitZeroMeansDone ==
  \A p \in Procs : CmdAt(p, "answered") /\ ExitCode(cmd[p]) = 0 =>
    /\ cmd[p].shown
    /\ Kind(p) \in Mutates => cmd[p].effect = "all"
    /\ cmd[p].left \subseteq Ordinary
    /\ cmd[p].left # {} => CoverageShown(cmd[p]) # "complete"

(* What the work of a mutation returned is what the result says, however   *)
(* the display and the diagnostics after it fail, and the failure is told. *)
OutcomeOutlivesDisplay ==
  \A p \in Procs :
    CmdAt(p, "answered") /\ Kind(p) \in Mutates /\ cmd[p].returned \in {"completed", "incomplete"} =>
      /\ cmd[p].disposition = cmd[p].returned
      /\ cmd[p].shown <=> cmd[p].display = "delivered"

(* Nobody holds the store while waiting for a human: neither to consent to *)
(* access nor to read a display.                                           *)
WaitingHoldsNothing ==
  \A p \in Procs :
    AuthAt(p, "consent") \/ cmd[p].at \in {"showing", "stopping", "diagnosing", "answered"} =>
      OpenAt(p, "closed")

(* Every command answers unless its process dies: opening processes do not *)
(* wait for each other for ever, whoever dies with the lock, and every     *)
(* refusal on the way reaches the exit status.                             *)
EveryCommandAnswers ==
  \A p \in Procs : cmd[p].at = "asked" ~> cmd[p].at \in {"answered", "dead"}
==============================================================================
