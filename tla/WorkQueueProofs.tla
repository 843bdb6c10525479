--------------------------- MODULE WorkQueueProofs ---------------------------
(***************************************************************************)
(* Theorems about the Classification Queue for every set of ITEMs, work    *)
(* identities, sources and timestamps.                                     *)
(***************************************************************************)
EXTENDS WorkQueue, TLAPS

(* Every step keeps the rows within the values their columns admit.        *)
LEMMA QueueTypeStep == QueueTypeOK /\ [QueueNext]_queueVars => QueueTypeOK'
<1> SUFFICES ASSUME QueueTypeOK, [QueueNext]_queueVars PROVE QueueTypeOK'
  OBVIOUS
<1> USE QueueAssumption DEF QueueTypeOK, RowState, Open, Event, NoEvent, Times
<1>1. ASSUME NEW w \in Works, NEW t \in Times, NEW i \in Items, NewWork(w, i, t)
      PROVE  QueueTypeOK'
  BY <1>1 DEF NewWork, SetMember
<1>2. ASSUME NEW w \in Works, NEW t \in Times, NEW i \in Items, AddRelated(w, i, t)
      PROVE  QueueTypeOK'
  BY <1>2 DEF AddRelated, NewMember, SetMember, Unresolved
<1>3. ASSUME NEW w \in Works, NEW t \in Times, Defer(w, t)
      PROVE  QueueTypeOK'
  BY <1>3 DEF Defer, DeferRows
<1>4. ASSUME NEW w \in Works, NEW t \in Times, NEW decided \in SUBSET Items,
             NEW resolved \in SUBSET Items, ApplyDecisions(w, decided, resolved, t)
      PROVE  QueueTypeOK'
  BY <1>4 DEF ApplyDecisions, AfterDecisions, WorkStateAfter, DecisionEvent
<1>5. CASE UNCHANGED queueVars
  BY <1>5 DEF queueVars
<1>6. ASSUME NEW w \in Works PROVE Members(w) \in SUBSET Items
  BY DEF Members
<1>7. QED
  BY <1>1, <1>2, <1>3, <1>4, <1>5, <1>6
     DEF QueueNext, CreateWork, IntakeWork, Reevaluate, ReevaluateTaught

(* The queue is type correct.                                              *)
THEOREM QueueTypeCorrect == QueueSpec => []QueueTypeOK
<1>1. QueueInit => QueueTypeOK
  BY QueueAssumption DEF QueueInit, QueueTypeOK, RowState, Open, Event, NoEvent, Times
<1>2. QED
  BY <1>1, QueueTypeStep, PTL DEF QueueSpec

------------------------------------------------------------------------------
(* Why intake may look at open memberships only: a Gmail ITEM never shares *)
(* its work, because the queue service adds related members to synthetic   *)
(* work alone.  So its membership is open as long as its work is.          *)
GmailWorkIsSingleton ==
  \A w \in Works : \A i, j \in Members(w) : IsGmail(i) => j = i

(* The inductive invariant behind the queue's safety properties.           *)
QueueIInv ==
  /\ QueueTypeOK
  /\ WorkResolvesWithMembers
  /\ MembersShareSource
  /\ GmailWorkIsSingleton
  /\ OneUnresolvedWorkPerItem

(* Deciding members of one work changes no membership and reopens nothing. *)
LEMMA DecisionsKeepIInv ==
  ASSUME QueueIInv, NEW w \in Works, NEW t \in Times,
         NEW decided \in SUBSET Members(w), NEW resolved \in SUBSET Members(w),
         Unresolved(w), ApplyDecisions(w, decided, resolved, t)
  PROVE  QueueIInv'
<1> USE DEF QueueIInv, QueueTypeOK, RowState, Open, Unresolved, Members
<1> DEFINE after == AfterDecisions(w, resolved)
<1>1. /\ member' = [member EXCEPT ![w] = after]
      /\ state' = [state EXCEPT ![w] = WorkStateAfter(w, after)]
      /\ rep' = rep
  BY DEF ApplyDecisions
<1>2. after \in [Items -> RowState]
  BY DEF AfterDecisions
<1>3. \A i \in Items : after[i] = "absent" <=> member[w][i] = "absent"
  BY DEF AfterDecisions
<1>4. \A v \in Works : Members(v)' = Members(v)
  BY <1>1, <1>2, <1>3
<1>5. \A v \in Works : Unresolved(v)' => Unresolved(v)
  BY <1>1 DEF WorkStateAfter
<1>6. QueueTypeOK'
  <2>1. ApplyDecisions(w, decided, resolved, t) => QueueTypeOK'
    BY QueueAssumption
       DEF ApplyDecisions, AfterDecisions, WorkStateAfter, DecisionEvent, Event, Times
  <2>2. QED BY <2>1
<1>7. WorkResolvesWithMembers'
  <2>1. \A v \in Works : v # w => member'[v] = member[v] /\ state'[v] = state[v]
    BY <1>1
  <2>2. member'[w] = after /\ state'[w] = WorkStateAfter(w, after)
    BY <1>1
  <2>3. state'[w] \in Open <=> \E i \in Items : after[i] \in Open
    BY <2>2 DEF WorkStateAfter
  <2>4. state'[w] # "absent" /\ Members(w)' # {}
    BY <1>4, <2>2 DEF WorkStateAfter, WorkResolvesWithMembers
  <2>5. QED
    BY <2>1, <2>2, <2>3, <2>4 DEF WorkResolvesWithMembers
<1>8. MembersShareSource'
  <2>1. \A v \in Works : state'[v] # "absent" => state[v] # "absent"
    BY <1>1 DEF WorkStateAfter
  <2>2. QED
    BY <1>1, <1>4, <2>1 DEF MembersShareSource
<1>9. GmailWorkIsSingleton'
  BY <1>4 DEF GmailWorkIsSingleton, IsGmail
<1>10. OneUnresolvedWorkPerItem'
  BY <1>4, <1>5 DEF OneUnresolvedWorkPerItem, UnresolvedWorkOf
<1>11. QED
  BY <1>6, <1>7, <1>8, <1>9, <1>10

(* A new work row, created for an ITEM that no unresolved work lists.      *)
LEMMA NewWorkKeepsIInv ==
  ASSUME QueueIInv, NEW w \in Works, NEW t \in Times, NEW i \in Items,
         UnresolvedWorkOf(i) = {}, NewWork(w, i, t)
  PROVE  QueueIInv'
<1> USE DEF QueueIInv, QueueTypeOK, RowState, Open, Unresolved, Members
<1>1. /\ state[w] = "absent"
      /\ state' = [state EXCEPT ![w] = "pending"]
      /\ rep' = [rep EXCEPT ![w] = i]
      /\ member' = [member EXCEPT ![w][i] = "pending"]
  BY DEF NewWork, SetMember
<1>2. Members(w) = {}
  BY <1>1 DEF WorkResolvesWithMembers
<1>3. Members(w)' = {i}
  BY <1>1, <1>2
<1>4. \A v \in Works : v # w => /\ Members(v)' = Members(v)
                                /\ member'[v] = member[v]
                                /\ state'[v] = state[v]
                                /\ rep'[v] = rep[v]
  BY <1>1
<1>5. state'[w] = "pending" /\ rep'[w] = i /\ member'[w][i] = "pending"
  BY <1>1
<1>6. QueueTypeOK'
  BY QueueAssumption DEF NewWork, SetMember, Event, Times
<1>7. WorkResolvesWithMembers'
  BY <1>3, <1>4, <1>5 DEF WorkResolvesWithMembers
<1>8. MembersShareSource'
  BY <1>3, <1>4, <1>5 DEF MembersShareSource
<1>9. GmailWorkIsSingleton'
  BY <1>3, <1>4 DEF GmailWorkIsSingleton, IsGmail
<1>10. OneUnresolvedWorkPerItem'
  BY <1>3, <1>4 DEF OneUnresolvedWorkPerItem, UnresolvedWorkOf
<1>11. QED
  BY <1>6, <1>7, <1>8, <1>9, <1>10

(* A related member joins unresolved synthetic work of its own source.     *)
LEMMA AddRelatedKeepsIInv ==
  ASSUME QueueIInv, NEW w \in Works, NEW t \in Times, NEW i \in Items,
         AddRelated(w, i, t)
  PROVE  QueueIInv'
<1> USE DEF QueueIInv, QueueTypeOK, RowState, Open, Unresolved, Members
<1>1. /\ state[w] \in Open
      /\ SourceOf[i] = SourceOf[rep[w]]
      /\ ~IsGmail(i)
      /\ UnresolvedWorkOf(i) = {}
      /\ member' = [member EXCEPT ![w][i] = state[w]]
      /\ state' = state /\ rep' = rep
  BY DEF AddRelated, SameSource, NewMember, SetMember
<1>2. Members(w)' = Members(w) \cup {i}
  BY <1>1
<1>3. \A v \in Works : v # w => Members(v)' = Members(v) /\ member'[v] = member[v]
  BY <1>1
<1>4. \A j \in Items : j # i => member'[w][j] = member[w][j]
  BY <1>1
<1>5. member'[w][i] = state[w]
  BY <1>1
<1>6. QueueTypeOK'
  BY QueueAssumption DEF AddRelated, NewMember, SetMember, Event, Times
<1>7. WorkResolvesWithMembers'
  BY <1>1, <1>2, <1>3, <1>5 DEF WorkResolvesWithMembers
<1>8. MembersShareSource'
  BY <1>1, <1>2, <1>3 DEF MembersShareSource
<1>9. GmailWorkIsSingleton'
  <2>1. rep[w] \in Members(w) /\ \A j \in Members(w) : SourceOf[j] = SourceOf[rep[w]]
    BY <1>1 DEF MembersShareSource
  <2>2. \A j \in Members(w)' : ~IsGmail(j)
    BY <1>1, <1>2, <2>1 DEF IsGmail
  <2>3. QED
    BY <1>3, <2>2 DEF GmailWorkIsSingleton, IsGmail
<1>10. OneUnresolvedWorkPerItem'
  BY <1>1, <1>2, <1>3 DEF OneUnresolvedWorkPerItem, UnresolvedWorkOf
<1>11. QED
  BY <1>6, <1>7, <1>8, <1>9, <1>10

(* Deferring moves work and its pending members together.                  *)
LEMMA DeferKeepsIInv ==
  ASSUME QueueIInv, NEW w \in Works, NEW t \in Times, Defer(w, t)
  PROVE  QueueIInv'
<1> USE DEF QueueIInv, QueueTypeOK, RowState, Open, Unresolved, Members
<1> DEFINE after == [i \in Items |-> IF member[w][i] = "pending" THEN "deferred"
                                                              ELSE member[w][i]]
<1>1. /\ state[w] = "pending"
      /\ state' = [state EXCEPT ![w] = "deferred"]
      /\ member' = [member EXCEPT ![w] = after]
      /\ rep' = rep
  BY DEF Defer, DeferRows
<1>2. \A v \in Works : Members(v)' = Members(v)
  BY <1>1
<1>3. \A v \in Works : state'[v] \in Open <=> state[v] \in Open
  BY <1>1
<1>4. \A v \in Works : state'[v] = "absent" <=> state[v] = "absent"
  BY <1>1
<1>5. \A v \in Works, i \in Items : member'[v][i] \in Open <=> member[v][i] \in Open
  BY <1>1
<1>6. QueueTypeOK'
  BY QueueAssumption DEF Defer, DeferRows, Event, Times
<1>7. WorkResolvesWithMembers'
  BY <1>2, <1>3, <1>4, <1>5 DEF WorkResolvesWithMembers
<1>8. MembersShareSource'
  BY <1>1, <1>2, <1>4 DEF MembersShareSource
<1>9. GmailWorkIsSingleton'
  BY <1>2 DEF GmailWorkIsSingleton, IsGmail
<1>10. OneUnresolvedWorkPerItem'
  BY <1>2, <1>3 DEF OneUnresolvedWorkPerItem, UnresolvedWorkOf
<1>11. QED
  BY <1>6, <1>7, <1>8, <1>9, <1>10

(* Intake asks for an open membership only; under the invariant that is    *)
(* the same question the queue service asks.                               *)
LEMMA IntakeCheckSuffices ==
  ASSUME QueueIInv, NEW i \in Items, IsGmail(i), OpenWorkOf(i) = {}
  PROVE  UnresolvedWorkOf(i) = {}
<1>1. SUFFICES ASSUME NEW w \in Works, Unresolved(w), i \in Members(w)
               PROVE  FALSE
  BY DEF UnresolvedWorkOf
<1>2. PICK j \in Items : member[w][j] \in Open
  BY <1>1 DEF QueueIInv, WorkResolvesWithMembers
<1>3. j = i
  BY <1>1, <1>2 DEF QueueIInv, GmailWorkIsSingleton, Members, Open
<1>4. QED
  BY <1>1, <1>2, <1>3 DEF OpenWorkOf, UnresolvedWorkOf

LEMMA QueueIInvStep == QueueIInv /\ [QueueNext]_queueVars => QueueIInv'
<1> SUFFICES ASSUME QueueIInv, [QueueNext]_queueVars PROVE QueueIInv'
  OBVIOUS
<1>1. ASSUME NEW w \in Works, NEW t \in Times, NEW i \in Items, CreateWork(w, i, t)
      PROVE  QueueIInv'
  BY <1>1, NewWorkKeepsIInv DEF CreateWork
<1>2. ASSUME NEW w \in Works, NEW t \in Times, NEW i \in Items, IntakeWork(w, i, t)
      PROVE  QueueIInv'
  BY <1>2, NewWorkKeepsIInv, IntakeCheckSuffices DEF IntakeWork
<1>3. ASSUME NEW w \in Works, NEW t \in Times, NEW i \in Items, AddRelated(w, i, t)
      PROVE  QueueIInv'
  BY <1>3, AddRelatedKeepsIInv
<1>4. ASSUME NEW w \in Works, NEW t \in Times, Defer(w, t)
      PROVE  QueueIInv'
  BY <1>4, DeferKeepsIInv
<1>5. ASSUME NEW w \in Works, NEW t \in Times, NEW resolved \in SUBSET Items,
             Reevaluate(w, resolved, t)
      PROVE  QueueIInv'
  BY <1>5, DecisionsKeepIInv DEF Reevaluate
<1>6. ASSUME NEW w \in Works, NEW t \in Times, NEW decided \in SUBSET Items,
             NEW resolved \in SUBSET Items, ReevaluateTaught(w, decided, resolved, t)
      PROVE  QueueIInv'
  BY <1>6, DecisionsKeepIInv DEF ReevaluateTaught, MayReevaluate
<1>7. CASE UNCHANGED queueVars
  BY <1>7 DEF queueVars, QueueIInv, QueueTypeOK, WorkResolvesWithMembers,
              MembersShareSource, GmailWorkIsSingleton, OneUnresolvedWorkPerItem,
              UnresolvedWorkOf, Unresolved, Members, IsGmail
<1>8. QED
  BY <1>1, <1>2, <1>3, <1>4, <1>5, <1>6, <1>7 DEF QueueNext

(* The inductive invariant of the queue holds in every reachable state.    *)
THEOREM QueueInvariant == QueueSpec => []QueueIInv
<1>1. QueueInit => QueueIInv
  BY QueueAssumption
     DEF QueueInit, QueueIInv, QueueTypeOK, RowState, Open, Event, NoEvent, Times,
         WorkResolvesWithMembers, MembersShareSource, GmailWorkIsSingleton,
         OneUnresolvedWorkPerItem, UnresolvedWorkOf, Unresolved, Members
<1>2. QED
  BY <1>1, QueueIInvStep, PTL DEF QueueSpec

(* No ITEM is ever listed by two unresolved works, although intake checks  *)
(* less than the queue service does.                                       *)
THEOREM ItemInOneUnresolvedWork == QueueSpec => []OneUnresolvedWorkPerItem
  BY QueueInvariant, PTL DEF QueueIInv

(* The unique index on open memberships never rejects a transition.        *)
THEOREM ItemHasOneOpenMembership == QueueSpec => []OneOpenMembership
<1>1. QueueIInv => OneOpenMembership
  BY DEF QueueIInv, OneOpenMembership, OneUnresolvedWorkPerItem, UnresolvedWorkOf,
         WorkResolvesWithMembers, Members, Open
<1>2. QED
  BY <1>1, QueueInvariant, PTL

(* Work is resolved exactly when all of its members are.                   *)
THEOREM WorkAndMembersResolveTogether == QueueSpec => []WorkResolvesWithMembers
  BY QueueInvariant, PTL DEF QueueIInv

------------------------------------------------------------------------------
(* What a step may not do to one work: reopen it or one of its members, or *)
(* move its timestamp back.                                                *)
StaysResolved(w) ==
  /\ state[w] = "resolved" => state'[w] = "resolved"
  /\ \A i \in Items : member[w][i] = "resolved" => member'[w][i] = "resolved"
NotBefore(w) == state[w] # "absent" => updated'[w] >= updated[w]

LEMMA HistoryStep ==
  ASSUME QueueIInv, QueueNext, NEW w \in Works
  PROVE  StaysResolved(w) /\ NotBefore(w)
<1> USE QueueAssumption DEF QueueIInv, QueueTypeOK, StaysResolved, NotBefore
<1>1. ASSUME NEW v \in Works, NEW t \in Times, NEW i \in Items, NewWork(v, i, t)
      PROVE  StaysResolved(w) /\ NotBefore(w)
  <2>1. v # w => state'[w] = state[w] /\ member'[w] = member[w] /\ updated'[w] = updated[w]
    BY <1>1 DEF NewWork, SetMember
  <2>2. v = w => state[w] = "absent" /\ \A j \in Items : member[w][j] = "absent"
    BY <1>1 DEF NewWork, WorkResolvesWithMembers, Members
  <2>3. updated[w] \in Int
    BY DEF Times
  <2>4. QED
    BY <2>1, <2>2, <2>3
<1>2. ASSUME NEW v \in Works, NEW t \in Times, NEW i \in Items, AddRelated(v, i, t)
      PROVE  StaysResolved(w) /\ NotBefore(w)
  <2>1. /\ state' = state /\ i \notin Members(v) /\ t >= updated[v]
        /\ updated' = [updated EXCEPT ![v] = t]
        /\ member' = [member EXCEPT ![v][i] = state[v]]
    BY <1>2 DEF AddRelated, NewMember, SetMember
  <2>2. \A j \in Items : member[w][j] = "resolved" => member'[w][j] = "resolved"
    BY <2>1 DEF Members
  <2>3. updated[w] \in Int /\ t \in Int
    BY DEF Times
  <2>4. QED
    BY <2>1, <2>2, <2>3
<1>3. ASSUME NEW v \in Works, NEW t \in Times, Defer(v, t)
      PROVE  StaysResolved(w) /\ NotBefore(w)
  <2>1. /\ state[v] = "pending" /\ t >= updated[v]
        /\ state' = [state EXCEPT ![v] = "deferred"]
        /\ updated' = [updated EXCEPT ![v] = t]
        /\ member' = [member EXCEPT ![v] = [i \in Items |->
             IF member[v][i] = "pending" THEN "deferred" ELSE member[v][i]]]
    BY <1>3 DEF Defer, DeferRows
  <2>2. updated[w] \in Int /\ t \in Int
    BY DEF Times
  <2>3. QED
    BY <2>1, <2>2
<1>4. ASSUME NEW v \in Works, NEW t \in Times, NEW decided \in SUBSET Items,
             NEW resolved \in SUBSET Items, Unresolved(v), t >= updated[v],
             ApplyDecisions(v, decided, resolved, t)
      PROVE  StaysResolved(w) /\ NotBefore(w)
  <2>1. /\ updated' = [updated EXCEPT ![v] = t]
        /\ member' = [member EXCEPT ![v] = AfterDecisions(v, resolved)]
        /\ v # w => state'[w] = state[w]
    BY <1>4 DEF ApplyDecisions
  <2>2. \A j \in Items : member[w][j] = "resolved" => member'[w][j] = "resolved"
    BY <2>1 DEF AfterDecisions
  <2>3. state[w] = "resolved" => v # w
    BY <1>4 DEF Unresolved, Open
  <2>4. updated[w] \in Int /\ t \in Int
    BY DEF Times
  <2>5. QED
    BY <2>1, <2>2, <2>3, <2>4, <1>4
<1>5. QED
  BY <1>1, <1>2, <1>3, <1>4
     DEF QueueNext, CreateWork, IntakeWork, Reevaluate, ReevaluateTaught, MayReevaluate, Members

LEMMA StutterKeepsHistory ==
  ASSUME QueueIInv, UNCHANGED queueVars, NEW w \in Works
  PROVE  StaysResolved(w) /\ NotBefore(w)
<1>1. updated[w] \in Int
  BY QueueAssumption DEF QueueIInv, QueueTypeOK, Times
<1>2. QED
  BY <1>1 DEF queueVars, StaysResolved, NotBefore

(* Nothing that was resolved is ever reopened.                             *)
THEOREM ResolvedStays == QueueSpec => ResolvedIsFinal
<1>1. QueueIInv /\ [QueueNext]_queueVars => \A w \in Works :
        /\ state[w] = "resolved" => state'[w] = "resolved"
        /\ \A i \in Items : member[w][i] = "resolved" => member'[w][i] = "resolved"
  BY HistoryStep, StutterKeepsHistory DEF StaysResolved
<1>2. QED
  BY <1>1, QueueInvariant, PTL DEF QueueSpec, ResolvedIsFinal

(* The timestamp of a work never moves back.                               *)
THEOREM TimestampsAdvance == QueueSpec => UpdatedNeverMovesBack
<1>1. QueueIInv /\ [QueueNext]_queueVars =>
        \A w \in Works : state[w] # "absent" => updated'[w] >= updated[w]
  BY HistoryStep, StutterKeepsHistory DEF NotBefore
<1>2. QED
  BY <1>1, QueueInvariant, PTL DEF QueueSpec, UpdatedNeverMovesBack
------------------------------------------------------------------------------
(* What makes the history conclusive: once a work has an event of its own, *)
(* that event says deferred or resolved; before, the row is as created.    *)
WorkEventsConclude ==
  \A w \in Works : workLog[w] # NoEvent => workLog[w].new \in {"deferred", "resolved"}

HistoryInv == QueueIInv /\ HistoryTellsState /\ WorkEventsConclude

(* What a step does to the history of one work, and of its members.        *)
MembersChained(w) ==
  \A i \in Items : memberLog'[w][i] # memberLog[w][i] =>
    memberLog'[w][i].prior = memberLog[w][i].new
WorkChained(w) ==
  workLog'[w] # workLog[w] =>
    workLog'[w].prior = IF workLog[w] = NoEvent THEN "pending" ELSE workLog[w].new
Tells(w) ==
  /\ \A i \in Items : memberLog[w][i].new = member[w][i]
  /\ state[w] = IF workLog[w] # NoEvent THEN workLog[w].new
                ELSE IF Members(w) # {} THEN "pending" ELSE "absent"
Concludes(w) == workLog[w] # NoEvent => workLog[w].new \in {"deferred", "resolved"}

HistoryKept(w) == MembersChained(w) /\ WorkChained(w) /\ Tells(w)' /\ Concludes(w)'

(* Work whose row, members and events a step leaves alone.                 *)
LEMMA AloneKeepsHistory ==
  ASSUME HistoryInv, NEW w \in Works,
         state'[w] = state[w], member'[w] = member[w],
         memberLog'[w] = memberLog[w], workLog'[w] = workLog[w]
  PROVE  HistoryKept(w)
<1>1. Tells(w) /\ Concludes(w)
  BY DEF HistoryInv, HistoryTellsState, WorkEventsConclude, Tells, Concludes
<1>2. QED
  BY <1>1 DEF HistoryKept, MembersChained, WorkChained, Tells, Concludes, Members

(* The first row of a work: nothing was logged of it, so it is pending.    *)
LEMMA NewWorkTells ==
  ASSUME HistoryInv, NEW w \in Works, NEW t \in Times, NEW i \in Items, NewWork(w, i, t)
  PROVE  HistoryKept(w)
<1> USE DEF HistoryInv, QueueIInv, QueueTypeOK
<1>1. Tells(w) /\ Concludes(w)
  BY DEF HistoryTellsState, WorkEventsConclude, Tells, Concludes
<1>2. /\ state[w] = "absent" /\ state'[w] = "pending" /\ workLog'[w] = workLog[w]
      /\ member'[w] = [member[w] EXCEPT ![i] = "pending"]
      /\ memberLog'[w] = [memberLog[w] EXCEPT ![i] = [prior |-> member[w][i], new |-> "pending"]]
  BY DEF NewWork, SetMember
<1>3. workLog[w] = NoEvent
  BY <1>1, <1>2 DEF Tells, Concludes
<1>4. i \in Members(w)'
  BY <1>2 DEF Members
<1>5. \A j \in Items : memberLog'[w][j].new = member'[w][j]
  BY <1>1, <1>2 DEF Tells
<1>6. QED
  BY <1>1, <1>2, <1>3, <1>4, <1>5
     DEF HistoryKept, MembersChained, WorkChained, Tells, Concludes

LEMMA AddRelatedTells ==
  ASSUME HistoryInv, NEW w \in Works, NEW t \in Times, NEW i \in Items, AddRelated(w, i, t)
  PROVE  HistoryKept(w)
<1> USE DEF HistoryInv, QueueIInv, QueueTypeOK
<1>1. Tells(w) /\ Concludes(w)
  BY DEF HistoryTellsState, WorkEventsConclude, Tells, Concludes
<1>2. /\ state[w] \in Open /\ state'[w] = state[w] /\ workLog'[w] = workLog[w]
      /\ member'[w] = [member[w] EXCEPT ![i] = state[w]]
      /\ memberLog'[w] = [memberLog[w] EXCEPT ![i] = [prior |-> member[w][i], new |-> state[w]]]
  BY DEF AddRelated, NewMember, SetMember, Unresolved
<1>3. i \in Members(w)' /\ Members(w) # {}
  BY <1>2 DEF Members, Open, WorkResolvesWithMembers
<1>4. \A j \in Items : memberLog'[w][j].new = member'[w][j]
  BY <1>1, <1>2 DEF Tells
<1>5. QED
  BY <1>1, <1>2, <1>3, <1>4
     DEF HistoryKept, MembersChained, WorkChained, Tells, Concludes

LEMMA DeferTells ==
  ASSUME HistoryInv, NEW w \in Works, NEW t \in Times, Defer(w, t)
  PROVE  HistoryKept(w)
<1> USE DEF HistoryInv, QueueIInv, QueueTypeOK
<1>1. Tells(w) /\ Concludes(w)
  BY DEF HistoryTellsState, WorkEventsConclude, Tells, Concludes
<1>2. /\ state[w] = "pending" /\ state'[w] = "deferred"
      /\ workLog'[w] = [prior |-> "pending", new |-> "deferred"]
      /\ member'[w] = [i \in Items |-> IF member[w][i] = "pending" THEN "deferred" ELSE member[w][i]]
      /\ memberLog'[w] = [i \in Items |->
           IF i \in PendingMembers(w) THEN [prior |-> "pending", new |-> "deferred"]
                                      ELSE memberLog[w][i]]
  BY DEF Defer, DeferRows
<1>3. \A j \in Items : memberLog'[w][j].new = member'[w][j]
  BY <1>1, <1>2 DEF Tells, PendingMembers
<1>4. MembersChained(w)
  BY <1>1, <1>2 DEF MembersChained, Tells, PendingMembers
<1>5. workLog'[w] # NoEvent /\ workLog'[w].new = "deferred" /\ workLog'[w].prior = "pending"
  BY <1>2 DEF NoEvent
<1>6. WorkChained(w)
  BY <1>1, <1>2, <1>5 DEF WorkChained, Tells
<1>7. QED
  BY <1>2, <1>3, <1>4, <1>5, <1>6 DEF HistoryKept, Tells, Concludes

LEMMA DecisionsTell ==
  ASSUME HistoryInv, NEW w \in Works, NEW t \in Times,
         NEW decided \in SUBSET Members(w), NEW resolved \in SUBSET decided,
         Unresolved(w), ApplyDecisions(w, decided, resolved, t)
  PROVE  HistoryKept(w)
<1> USE DEF HistoryInv, QueueIInv, QueueTypeOK
<1> DEFINE after == AfterDecisions(w, resolved)
<1>1. Tells(w) /\ Concludes(w)
  BY DEF HistoryTellsState, WorkEventsConclude, Tells, Concludes
<1>2. /\ member'[w] = after
      /\ memberLog'[w] = [i \in Items |->
           IF i \in decided THEN [prior |-> member[w][i], new |-> after[i]] ELSE memberLog[w][i]]
      /\ state'[w] = WorkStateAfter(w, after)
      /\ workLog'[w] = IF state'[w] = "resolved" THEN [prior |-> state[w], new |-> "resolved"]
                                                 ELSE workLog[w]
  BY DEF ApplyDecisions, DecisionEvent
<1>3. state[w] \in Open /\ (state'[w] = "resolved" \/ state'[w] = state[w])
  BY <1>2 DEF Unresolved, WorkStateAfter
<1>4. \A j \in Items : after[j] = IF j \in resolved THEN "resolved" ELSE member[w][j]
  BY DEF AfterDecisions
<1>5. \A j \in Items : memberLog'[w][j].new = member'[w][j]
  BY <1>1, <1>2, <1>4 DEF Tells
<1>6. MembersChained(w)
  BY <1>1, <1>2 DEF MembersChained, Tells
<1>7. Members(w) # {} /\ Members(w)' = Members(w)
  <2>1. Members(w) # {}
    BY <1>3 DEF WorkResolvesWithMembers, Open
  <2>2. \A j \in Items : after[j] = "absent" <=> member[w][j] = "absent"
    BY <1>4 DEF Members
  <2>3. QED
    BY <1>2, <2>1, <2>2 DEF Members
<1>8. CASE state'[w] = "resolved"
  <2>1. workLog'[w] # NoEvent /\ workLog'[w].new = "resolved" /\ workLog'[w].prior = state[w]
    BY <1>2, <1>8 DEF NoEvent
  <2>2. QED
    BY <1>1, <1>5, <1>6, <1>7, <1>8, <2>1 DEF HistoryKept, WorkChained, Tells, Concludes
<1>9. CASE state'[w] # "resolved"
  <2>1. workLog'[w] = workLog[w] /\ state'[w] = state[w]
    BY <1>2, <1>3, <1>9
  <2>2. QED
    BY <1>1, <1>5, <1>6, <1>7, <2>1 DEF HistoryKept, WorkChained, Tells, Concludes
<1>10. QED
  BY <1>8, <1>9

(* Each transaction writes the rows of one work.                           *)
LEMMA OneWorkPerStep ==
  ASSUME HistoryInv, NEW v \in Works, NEW t \in Times, NEW w \in Works, w # v
  PROVE  /\ \A i \in Items : NewWork(v, i, t) \/ AddRelated(v, i, t) => HistoryKept(w)
         /\ Defer(v, t) => HistoryKept(w)
         /\ \A decided, resolved \in SUBSET Items :
              ApplyDecisions(v, decided, resolved, t) => HistoryKept(w)
<1> USE DEF HistoryInv, QueueIInv, QueueTypeOK
<1>1. ASSUME NEW i \in Items, NewWork(v, i, t) \/ AddRelated(v, i, t)
      PROVE  HistoryKept(w)
  BY <1>1, AloneKeepsHistory DEF NewWork, AddRelated, NewMember, SetMember
<1>2. ASSUME Defer(v, t) PROVE HistoryKept(w)
  BY <1>2, AloneKeepsHistory DEF Defer, DeferRows
<1>3. ASSUME NEW decided \in SUBSET Items, NEW resolved \in SUBSET Items,
             ApplyDecisions(v, decided, resolved, t)
      PROVE  HistoryKept(w)
  BY <1>3, AloneKeepsHistory DEF ApplyDecisions
<1>4. QED
  BY <1>1, <1>2, <1>3

LEMMA HistoryKeptStep ==
  ASSUME HistoryInv, [QueueNext]_queueVars, NEW w \in Works
  PROVE  HistoryKept(w)
<1>1. ASSUME NEW v \in Works, NEW t \in Times, NEW i \in Items, NewWork(v, i, t)
      PROVE  HistoryKept(w)
  BY <1>1, NewWorkTells, OneWorkPerStep
<1>2. ASSUME NEW v \in Works, NEW t \in Times, NEW i \in Items, AddRelated(v, i, t)
      PROVE  HistoryKept(w)
  BY <1>2, AddRelatedTells, OneWorkPerStep
<1>3. ASSUME NEW v \in Works, NEW t \in Times, Defer(v, t)
      PROVE  HistoryKept(w)
  BY <1>3, DeferTells, OneWorkPerStep
<1>4. ASSUME NEW v \in Works, NEW t \in Times, NEW decided \in SUBSET Members(v),
             NEW resolved \in SUBSET decided, Unresolved(v),
             ApplyDecisions(v, decided, resolved, t)
      PROVE  HistoryKept(w)
  <2>1. decided \in SUBSET Items /\ resolved \in SUBSET Items
    BY DEF Members
  <2>2. QED
    BY <1>4, <2>1, DecisionsTell, OneWorkPerStep
<1>5. CASE UNCHANGED queueVars
  BY <1>5, AloneKeepsHistory DEF queueVars
<1>6. QED
  BY <1>1, <1>2, <1>3, <1>4, <1>5
     DEF QueueNext, CreateWork, IntakeWork, Reevaluate, ReevaluateTaught, MayReevaluate

LEMMA HistoryInvariant == QueueSpec => []HistoryInv
<1>1. QueueInit => HistoryTellsState /\ WorkEventsConclude
  BY DEF QueueInit, HistoryTellsState, WorkEventsConclude, NoEvent, Members
<1>2. HistoryInv /\ [QueueNext]_queueVars => HistoryTellsState' /\ WorkEventsConclude'
  BY HistoryKeptStep DEF HistoryKept, Tells, Concludes, HistoryTellsState, WorkEventsConclude
<1>3. QED
  BY <1>1, <1>2, QueueInvariant, PTL DEF QueueSpec, HistoryInv

(* The newest event of every member and work is the state its row shows    *)
(* (work_events beside work_members and work_items in storage.py).         *)
THEOREM HistoryTells == QueueSpec => []HistoryTellsState
  BY HistoryInvariant, PTL DEF HistoryInv

(* Each event continues where the one before it ended.                     *)
THEOREM HistoryChains == QueueSpec => HistoryIsAChain
<1>1. HistoryInv /\ [QueueNext]_queueVars => \A w \in Works :
        /\ \A i \in Items : memberLog'[w][i] # memberLog[w][i] =>
             memberLog'[w][i].prior = memberLog[w][i].new
        /\ workLog'[w] # workLog[w] =>
             workLog'[w].prior = IF workLog[w] = NoEvent THEN "pending"
                                                         ELSE workLog[w].new
  BY HistoryKeptStep DEF HistoryKept, MembersChained, WorkChained
<1>2. QED
  BY <1>1, HistoryInvariant, PTL DEF QueueSpec, HistoryIsAChain
==============================================================================
