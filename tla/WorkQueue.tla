------------------------------ MODULE WorkQueue ------------------------------
(***************************************************************************)
(* The Classification Queue as the SQLite store keeps it: work items, the  *)
(* exact ITEMs that are their members, and the append-only history of      *)
(* their transitions.  Every action is one BEGIN IMMEDIATE transaction of  *)
(* storage.py, so an action is atomic and a rejected call (StorageError)   *)
(* leaves every variable unchanged: it is an action that is not enabled.   *)
(*                                                                         *)
(* ITEM and SRC identities are registered before the queue sees them; the  *)
(* text of a decision (categories, fingerprints) is abstracted to whether  *)
(* it resolves the member.  An operator whose name holds "Fault" is not    *)
(* part of the model: it is a plausible mistake in the definition after it *)
(* and shows that a property would notice.                                 *)
(***************************************************************************)
EXTENDS Integers, FiniteSets

CONSTANTS
  Items,         \* registered DAM ITEMs
  Works,         \* CWQ identities; ordered, as active_work_ids_after orders them
  Sources,       \* registered source instances
  SourceOf,      \* the source instance an ITEM belongs to
  GmailSources,  \* the verified Gmail sources; all others are synthetic
  NoItem,        \* representative of a work row that does not exist
  MaxTime        \* bound on the timestamps a run may use

ASSUME QueueAssumption ==
  /\ Works \subseteq Nat
  /\ SourceOf \in [Items -> Sources]
  /\ GmailSources \subseteq Sources
  /\ NoItem \notin Items
  /\ MaxTime \in Nat

VARIABLES
  state,      \* work_items.state of each CWQ ("absent": no such row)
  rep,        \* work_items.representative_item_id
  member,     \* work_members.state of each (CWQ, ITEM) ("absent": no such row)
  updated,    \* work_items.updated_at
  memberLog,  \* newest work_events row of each (CWQ, ITEM)
  workLog     \* newest work_events row of each CWQ that names no ITEM

queueVars == <<state, rep, member, updated, memberLog, workLog>>

Open      == {"pending", "deferred"}
RowState  == Open \cup {"absent", "resolved"}
Times     == 0..MaxTime
Event     == [prior : RowState, new : RowState]
NoEvent   == [prior |-> "absent", new |-> "absent"]

IsGmail(i)    == SourceOf[i] \in GmailSources
Unresolved(w) == state[w] \in Open
Members(w)    == {i \in Items : member[w][i] # "absent"}

(* ACTIVE work that lists the ITEM, whatever the state of the membership.  *)
UnresolvedWorkOf(i) == {w \in Works : Unresolved(w) /\ i \in Members(w)}

(* The intake's narrower question: an unresolved membership.               *)
OpenWorkOf(i) == {w \in UnresolvedWorkOf(i) : member[w][i] \in Open}

(* SET state of one member row together with the event row that records it *)
SetMember(w, i, new) ==
  /\ member' = [member EXCEPT ![w][i] = new]
  /\ memberLog' = [memberLog EXCEPT ![w][i] = [prior |-> member[w][i], new |-> new]]

------------------------------------------------------------------------------
(* Insert the work row, its only member and the 'created' event.           *)
NewWork(w, i, t) ==
  /\ state[w] = "absent"
  /\ state' = [state EXCEPT ![w] = "pending"]
  /\ rep' = [rep EXCEPT ![w] = i]
  /\ updated' = [updated EXCEPT ![w] = t]
  /\ SetMember(w, i, "pending")
  /\ UNCHANGED workLog

(* ClassificationQueueService.record_email_observation of an ITEM that     *)
(* needs teaching.  Existing work is returned instead, also when another   *)
(* process won the race.                                                   *)
CreateWorkFaultOpenOnly(w, i, t) ==
  /\ ~IsGmail(i)
  /\ OpenWorkOf(i) = {}
  /\ NewWork(w, i, t)

CreateWork(w, i, t) ==
  /\ ~IsGmail(i)
  /\ UnresolvedWorkOf(i) = {}
  /\ NewWork(w, i, t)

(* The queue part of record_verified_gmail_intake for a message whose      *)
(* classification requires teaching.                                       *)
IntakeWork(w, i, t) ==
  /\ IsGmail(i)
  /\ OpenWorkOf(i) = {}
  /\ NewWork(w, i, t)

(* add_related_email_item: the new member takes the state of its work.     *)
NewMember(w, i, t, new) ==
  /\ ~IsGmail(i)
  /\ Unresolved(w)
  /\ t >= updated[w]
  /\ i \notin Members(w)
  /\ UnresolvedWorkOf(i) = {}
  /\ SetMember(w, i, new)
  /\ updated' = [updated EXCEPT ![w] = t]
  /\ UNCHANGED <<state, rep, workLog>>

SameSource(w, i) == state[w] # "absent" /\ SourceOf[i] = SourceOf[rep[w]]

AddRelated(w, i, t) == SameSource(w, i) /\ NewMember(w, i, t, state[w])

(* defer_classification_work: the work and its pending members become      *)
(* deferred; deferring deferred work changes nothing.                      *)
DeferRows(w, t, logged) ==
  /\ t >= updated[w]
  /\ state' = [state EXCEPT ![w] = "deferred"]
  /\ updated' = [updated EXCEPT ![w] = t]
  /\ member' = [member EXCEPT ![w] = [i \in Items |->
       IF member[w][i] = "pending" THEN "deferred" ELSE member[w][i]]]
  /\ memberLog' = [memberLog EXCEPT ![w] = [i \in Items |->
       IF i \in logged THEN [prior |-> "pending", new |-> "deferred"]
                       ELSE memberLog[w][i]]]
  /\ workLog' = [workLog EXCEPT ![w] = [prior |-> state[w], new |-> "deferred"]]
  /\ UNCHANGED rep

PendingMembers(w) == {i \in Items : member[w][i] = "pending"}

DeferFaultUnlogged(w, t) == state[w] = "pending" /\ DeferRows(w, t, {})
DeferFaultAnyState(w, t) == state[w] # "absent" /\ DeferRows(w, t, PendingMembers(w))

Defer(w, t) == state[w] = "pending" /\ DeferRows(w, t, PendingMembers(w))

(* The common tail of both reevaluations: record the decisions about       *)
(* `decided`, of which `resolved` resolve their member, then close the     *)
(* work when no member is left open.                                       *)
AfterDecisions(w, resolved) ==
  [i \in Items |-> IF i \in resolved THEN "resolved" ELSE member[w][i]]

WorkStateFaultAny(w, after) ==
  IF \E i \in Items : after[i] = "resolved" THEN "resolved" ELSE state[w]
WorkStateAfter(w, after) ==
  IF \E i \in Items : after[i] \in Open THEN state[w] ELSE "resolved"

DecisionEventFaultWorkState(w, i, new) == [prior |-> state[w], new |-> new]

DecisionEvent(w, i, new) == [prior |-> member[w][i], new |-> new]

ApplyDecisions(w, decided, resolved, t) ==
  LET after     == AfterDecisions(w, resolved)
      nextState == WorkStateAfter(w, after)
  IN /\ member' = [member EXCEPT ![w] = after]
     /\ memberLog' = [memberLog EXCEPT ![w] = [i \in Items |->
          IF i \in decided THEN DecisionEvent(w, i, after[i]) ELSE memberLog[w][i]]]
     /\ state' = [state EXCEPT ![w] = nextState]
     /\ workLog' = [workLog EXCEPT ![w] =
          IF nextState = "resolved" THEN [prior |-> state[w], new |-> "resolved"]
                                    ELSE workLog[w]]
     /\ updated' = [updated EXCEPT ![w] = t]
     /\ UNCHANGED rep

(* No decision may take a member back out of "resolved".                   *)
NothingReopens(w, decided, resolved) ==
  \A i \in decided : member[w][i] = "resolved" => i \in resolved

(* ClassificationQueueService.reevaluate: the decisions cover every exact  *)
(* member, and their observations come from a synthetic source.            *)
Reevaluate(w, resolved, t) ==
  /\ Unresolved(w)
  /\ t >= updated[w]
  /\ resolved \subseteq Members(w)
  /\ \A i \in Members(w) : ~IsGmail(i)
  /\ NothingReopens(w, Members(w), resolved)
  /\ ApplyDecisions(w, Members(w), resolved, t)

(* The queue part of record_teaching_work_reevaluation.  Members that the  *)
(* same teaching evaluated before are passed over (`continue`): `decided`  *)
(* holds the others.                                                       *)
MayReevaluateFaultUntimed(w, decided, resolved, t) ==
  Unresolved(w) /\ NothingReopens(w, decided, resolved)

MayReevaluate(w, decided, resolved, t) ==
  /\ Unresolved(w)
  /\ t >= updated[w]
  /\ NothingReopens(w, decided, resolved)

ReevaluateTaught(w, decided, resolved, t) ==
  /\ decided \subseteq Members(w)
  /\ resolved \subseteq decided
  /\ MayReevaluate(w, decided, resolved, t)
  /\ ApplyDecisions(w, decided, resolved, t)

------------------------------------------------------------------------------
QueueInit ==
  /\ state = [w \in Works |-> "absent"]
  /\ rep = [w \in Works |-> NoItem]
  /\ member = [w \in Works |-> [i \in Items |-> "absent"]]
  /\ updated = [w \in Works |-> 0]
  /\ memberLog = [w \in Works |-> [i \in Items |-> NoEvent]]
  /\ workLog = [w \in Works |-> NoEvent]

(* Any caller, any ITEM, any timestamp the caller chooses (as_of).  Only   *)
(* Gmail ITEMs have the persisted observations that teaching evaluates.    *)
QueueNext ==
  \E w \in Works, t \in Times :
    \/ \E i \in Items : CreateWork(w, i, t)
    \/ \E i \in Items : IntakeWork(w, i, t)
    \/ \E i \in Items : AddRelated(w, i, t)
    \/ Defer(w, t)
    \/ \E resolved \in SUBSET Items : Reevaluate(w, resolved, t)
    \/ \E decided, resolved \in SUBSET Items :
         /\ \A i \in Members(w) : IsGmail(i)
         /\ ReevaluateTaught(w, decided, resolved, t)

QueueSpec == QueueInit /\ [][QueueNext]_queueVars

------------------------------------------------------------------------------
(* Every row holds a value its CHECK constraint admits.                    *)
QueueTypeOK ==
  /\ state \in [Works -> RowState]
  /\ rep \in [Works -> Items \cup {NoItem}]
  /\ member \in [Works -> [Items -> RowState]]
  /\ updated \in [Works -> Times]
  /\ memberLog \in [Works -> [Items -> Event]]
  /\ workLog \in [Works -> Event]

(* An ITEM has at most one open membership: the unique index               *)
(* one_open_classification_work_per_item is never what stops a transition, *)
(* although intake, the queue service and a new member each check it with  *)
(* a query of their own.                                                   *)
OneOpenMembership ==
  \A i \in Items : \A v, w \in Works :
    member[v][i] \in Open /\ member[w][i] \in Open => v = w

(* An ITEM is listed by at most one unresolved work, so                    *)
(* active_classification_work_for_item, which takes the first of several,  *)
(* never has to choose.  Intake checks less than this: it overlooks a      *)
(* resolved membership in work that other members keep open.               *)
OneUnresolvedWorkPerItem ==
  \A i \in Items : \A v, w \in UnresolvedWorkOf(i) : v = w

(* Work is resolved exactly when its last member is: a work row never      *)
(* claims more or less than the exact ITEMs it lists.                      *)
WorkResolvesWithMembers ==
  \A w \in Works :
    /\ Unresolved(w) <=> \E i \in Items : member[w][i] \in Open
    /\ state[w] = "absent" <=> Members(w) = {}

(* The representative is one of the members, and all come from its source:  *)
(* a conjunct of the inductive invariant in WorkQueueProofs.                *)
MembersShareSource ==
  \A w \in Works : state[w] # "absent" =>
    /\ rep[w] \in Members(w)
    /\ \A i \in Members(w) : SourceOf[i] = SourceOf[rep[w]]

(* The append-only history tells the current state: the newest event of    *)
(* every member and of every work ends in the state its row shows.         *)
HistoryTellsState ==
  \A w \in Works :
    /\ \A i \in Items : memberLog[w][i].new = member[w][i]
    /\ state[w] = IF workLog[w] # NoEvent THEN workLog[w].new
                  ELSE IF Members(w) # {} THEN "pending" ELSE "absent"

(* Each new event starts in the state where the previous one ended, so the *)
(* history is one unbroken chain per member and per work.                  *)
HistoryIsAChain ==
  [][\A w \in Works :
       /\ \A i \in Items : memberLog'[w][i] # memberLog[w][i] =>
            memberLog'[w][i].prior = memberLog[w][i].new
       /\ workLog'[w] # workLog[w] =>
            workLog'[w].prior = IF workLog[w] = NoEvent THEN "pending"
                                                        ELSE workLog[w].new]_queueVars

(* What was resolved stays resolved: neither a work nor a member reopens.  *)
ResolvedIsFinal ==
  [][\A w \in Works :
       /\ state[w] = "resolved" => state'[w] = "resolved"
       /\ \A i \in Items : member[w][i] = "resolved" => member'[w][i] = "resolved"]_queueVars

(* A transition recorded late, with a timestamp from before the current    *)
(* state, never lands: updated_at of existing work does not move back.     *)
UpdatedNeverMovesBack ==
  [][\A w \in Works : state[w] # "absent" => updated'[w] >= updated[w]]_queueVars
==============================================================================
