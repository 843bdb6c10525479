--------------------------- MODULE ScanRunsProofs ----------------------------
(***************************************************************************)
(* Proofs about ScanRuns, for any number of processes, mailboxes, runs,    *)
(* messages and requests.                                                  *)
(***************************************************************************)
EXTENDS ScanRuns, FiniteSetTheorems, TLAPS

(* What a process knows at its place in run_durable_gmail_scan.            *)
Underway == {"read", "unread", "admit", "preview", "entries"}

ProcessInv(l) ==
  /\ l \in Process
  /\ l.pc # "idle" => l.req \in Requests
  /\ l.pc \in Underway \cup {"start"} => l.source \in SourceIds
  /\ l.pc \in Underway => runs[l.req.run].start # None
  /\ l.pc = "admit" =>
       /\ l.read \in Result
       /\ l.todo \subseteq Showing(l.read, Contents)
       /\ Showing(l.read, Contents) \ l.todo \subseteq Observed(l.req.run)
  /\ l.pc \in {"preview", "entries"} => runs[l.req.run].finish # None

RowsInv ==
  /\ sources \in [SourceIds -> Mailboxes \cup {None}]
  /\ items \in [ItemIds -> Item \cup {None}]
  /\ runs \in [Runs -> Run]
  /\ obs \in [Runs -> [Messages -> Obs \cup {None}]]
  /\ clock \in Times
  /\ claimed \in [Runs -> SUBSET Messages]

RunsInv ==
  /\ \A r \in Runs : runs[r].finish # None => runs[r].start # None
  /\ \A r \in Runs : runs[r].finish = None => claimed[r] = {}
  /\ RunBracketsObservations
  /\ RunWithinLimit
  /\ CompleteRunHoldsListed

ScansInv ==
  /\ scan \in [Procs -> Process]
  /\ \A p \in Procs : ProcessInv(scan[p])
  /\ PreviewSeesItsRun

ScanInv == RowsInv /\ RunsInv /\ ScansInv

------------------------------------------------------------------------------
(* Stored history is kept.                                                 *)
Keeps ==
  /\ \A r \in Runs : runs[r].start # None => runs'[r].start = runs[r].start
  /\ \A r \in Runs : runs[r].finish # None => runs'[r] = runs[r] /\ obs'[r] = obs[r]
  /\ \A r \in Runs, m \in Messages : obs[r][m] # None => obs'[r][m] = obs[r][m]

LEMMA KeptKnowledge ==
  ASSUME NEW l, ProcessInv(l), Keeps
  PROVE  ProcessInv(l)'
<1>1. l.req \in Requests => l.req.run \in Runs
  BY ScanAssumption
<1>2. l.pc \in Underway => l.pc # "idle"
  BY DEF Underway
<1>3. l.pc \in Underway => runs'[l.req.run].start # None
  BY <1>1, <1>2 DEF ProcessInv, Keeps
<1>4. l.pc = "admit" => Observed(l.req.run) \subseteq Observed(l.req.run)'
  BY <1>1 DEF ProcessInv, Keeps, Observed
<1>5. l.pc \in {"preview", "entries"} => runs'[l.req.run].finish # None
  BY <1>1 DEF ProcessInv, Keeps
<1>6. QED
  BY <1>3, <1>4, <1>5 DEF ProcessInv

(* One process moves to l, the others keep what they know.                 *)
LEMMA ScansStep ==
  ASSUME ScanInv, Keeps, NEW p \in Procs, NEW l, Becomes(p, l), ProcessInv(l)',
         l.pc = "entries" => l.count = Cardinality(Observed(l.req.run)')
  PROVE  ScansInv'
<1>1. scan' \in [Procs -> Process]
  BY DEF ScanInv, ScansInv, Becomes, ProcessInv
<1>2. ASSUME NEW q \in Procs PROVE ProcessInv(scan[q])'
  <2>1. CASE q = p
    <3>1. PICK k : k = scan'[q]
      OBVIOUS
    <3>2. k = l
      BY <2>1, <3>1 DEF Becomes, ScanInv, ScansInv
    <3>3. QED
      BY <3>1, <3>2 DEF ProcessInv
  <2>2. CASE q # p
    <3>1. PICK k : k = scan[q]
      OBVIOUS
    <3>2. scan'[q] = k
      BY <2>2, <3>1 DEF Becomes, ScanInv, ScansInv
    <3>3. ProcessInv(k)
      BY <3>1 DEF ScanInv, ScansInv
    <3>4. ProcessInv(k)'
      BY <3>3, KeptKnowledge
    <3>5. QED
      BY <3>2, <3>4 DEF ProcessInv
  <2>3. QED
    BY <2>1, <2>2
<1>3. ASSUME NEW q \in Procs, At(q, "entries")'
      PROVE  scan'[q].count = Cardinality(Observed(Request(q).run)')
  <2>1. CASE q = p
    BY <1>3, <2>1 DEF Becomes, ScanInv, ScansInv, At, Request
  <2>2. CASE q # p
    <3>1. scan'[q] = scan[q]
      BY <2>2 DEF Becomes, ScanInv, ScansInv
    <3>2. At(q, "entries")
      BY <1>3, <3>1 DEF At
    <3>3. ProcessInv(scan[q])
      BY DEF ScanInv, ScansInv
    <3>4. scan[q].req.run \in Runs /\ runs[scan[q].req.run].finish # None
      BY <3>2, <3>3, ScanAssumption DEF ProcessInv, At
    <3>5. obs'[scan[q].req.run] = obs[scan[q].req.run]
      BY <3>4 DEF Keeps
    <3>6. scan[q].count = Cardinality(Observed(Request(q).run))
      BY <3>2 DEF ScanInv, ScansInv, PreviewSeesItsRun
    <3>7. QED
      BY <3>1, <3>5, <3>6 DEF Request, Observed
  <2>3. QED
    BY <2>1, <2>2
<1>4. QED
  BY <1>1, <1>2, <1>3 DEF ScansInv, PreviewSeesItsRun, Request

------------------------------------------------------------------------------
LEMMA QuietRows ==
  ASSUME ScanInv, UNCHANGED <<sources, items, runs, obs, claimed>>, clock' \in Times
  PROVE  RowsInv' /\ RunsInv' /\ Keeps
<1>1. RowsInv'
  BY DEF ScanInv, RowsInv
<1>2. RunsInv'
  BY DEF ScanInv, RunsInv, RunBracketsObservations, RunWithinLimit,
     CompleteRunHoldsListed, Observed
<1>3. Keeps
  BY DEF Keeps
<1>4. QED
  BY <1>1, <1>2, <1>3

LEMMA IdleIsFine == ASSUME ScanInv PROVE ProcessInv(Idle)' /\ ProcessInv(Idle)
BY ScanAssumption DEF ProcessInv, Idle, Process, Steps, Times, Underway

(* What the moving process knew, in the next state.                        *)
LEMMA OwnKnowledge ==
  ASSUME ScanInv, Keeps, NEW p \in Procs, NEW k, k = scan[p]
  PROVE  ProcessInv(k)'
<1>1. ProcessInv(k)
  BY DEF ScanInv, ScansInv
<1>2. QED
  BY <1>1, KeptKnowledge

LEMMA StopStep ==
  ASSUME ScanInv, Keeps, NEW p \in Procs, Stop(p)
  PROVE  ScansInv'
<1>1. PICK l : l = Idle
  OBVIOUS
<1>2. ProcessInv(l)'
  BY <1>1, IdleIsFine DEF ProcessInv, Idle
<1>3. Becomes(p, l) /\ l.pc # "entries"
  BY <1>1 DEF Stop, Idle
<1>4. QED
  BY <1>2, <1>3, ScansStep

LEMMA BeginKeepsInv ==
  ASSUME ScanInv, NEW p \in Procs, Begin(p)
  PROVE  ScanInv' /\ Keeps
<1>1. RowsInv' /\ RunsInv' /\ Keeps
  BY QuietRows DEF Begin, rows, ScanInv, RowsInv
<1>2. PICK q \in Requests :
        Becomes(p, [Idle EXCEPT !.pc = "lookup", !.req = q,
                                !.current = IF q.asOf = None THEN clock ELSE q.asOf])
  BY DEF Begin
<1>3. PICK l : l = [Idle EXCEPT !.pc = "lookup", !.req = q,
                                !.current = IF q.asOf = None THEN clock ELSE q.asOf]
  OBVIOUS
<1>4. (IF q.asOf = None THEN clock ELSE q.asOf) \in Times
  BY ScanAssumption DEF ScanInv, RowsInv
<1>5. l \in Process
  BY <1>3, <1>4, IdleIsFine DEF ProcessInv, Process, Idle, Steps
<1>6. l.pc = "lookup" /\ l.req = q
  BY <1>3 DEF Idle
<1>7. ProcessInv(l)'
  BY <1>5, <1>6 DEF ProcessInv, Underway
<1>8. QED
  BY <1>1, <1>2, <1>3, <1>6, <1>7, ScansStep DEF ScanInv

LEMMA LookupKeepsInv ==
  ASSUME ScanInv, NEW p \in Procs, LookupSource(p)
  PROVE  ScanInv' /\ Keeps
<1>1. RowsInv' /\ RunsInv' /\ Keeps
  BY QuietRows DEF LookupSource, rows, ScanInv, RowsInv
<1>2. PICK k : k = scan[p]
  OBVIOUS
<1>3. ProcessInv(k)' /\ k.pc = "lookup"
  BY <1>1, <1>2, OwnKnowledge DEF LookupSource, At
<1>4. CASE \E s \in SourcesOf(Request(p).mailbox) :
             Becomes(p, [scan[p] EXCEPT !.pc = "start", !.source = s])
  <2>1. PICK s, l : s \in SourceIds /\ l = [k EXCEPT !.pc = "start", !.source = s] /\ Becomes(p, l)
    BY <1>2, <1>4 DEF SourcesOf
  <2>2. ProcessInv(l)' /\ l.pc = "start"
    BY <1>3, <2>1 DEF ProcessInv, Process, Steps, Underway
  <2>3. QED
    BY <1>1, <2>1, <2>2, ScansStep DEF ScanInv
<1>5. CASE Becomes(p, [scan[p] EXCEPT !.pc = "register"])
  <2>1. PICK l : l = [k EXCEPT !.pc = "register"] /\ Becomes(p, l)
    BY <1>2, <1>5
  <2>2. ProcessInv(l)' /\ l.pc = "register"
    BY <1>3, <2>1 DEF ProcessInv, Process, Steps, Underway
  <2>3. QED
    BY <1>1, <2>1, <2>2, ScansStep DEF ScanInv
<1>6. QED
  BY <1>4, <1>5 DEF LookupSource

LEMMA RegisterKeepsInv ==
  ASSUME ScanInv, NEW p \in Procs, RegisterSource(p)
  PROVE  ScanInv' /\ Keeps
<1>1. UNCHANGED <<items, runs, obs, clock, claimed>>
  BY DEF RegisterSource
<1>2. Keeps
  BY <1>1 DEF Keeps
<1>3. RunsInv'
  BY <1>1 DEF ScanInv, RunsInv, RunBracketsObservations, RunWithinLimit,
     CompleteRunHoldsListed, Observed
<1>4. PICK k : k = scan[p]
  OBVIOUS
<1>5. ProcessInv(k)' /\ k.pc = "register"
  BY <1>2, <1>4, OwnKnowledge DEF RegisterSource, At
<1>6. k.req.mailbox \in Mailboxes
  BY <1>5, ScanAssumption DEF ProcessInv
<1>7. PICK s \in SourceIds : /\ Becomes(p, [scan[p] EXCEPT !.pc = "start", !.source = s])
                             /\ sources' = sources \/ sources' = [sources EXCEPT ![s] = k.req.mailbox]
  BY <1>4 DEF RegisterSource, Register, SourcesOf, Request
<1>8. RowsInv'
  BY <1>1, <1>6, <1>7 DEF ScanInv, RowsInv
<1>9. PICK l : l = [k EXCEPT !.pc = "start", !.source = s]
  OBVIOUS
<1>10. ProcessInv(l)' /\ l.pc = "start"
  BY <1>5, <1>9 DEF ProcessInv, Process, Steps, Underway
<1>11. QED
  BY <1>2, <1>3, <1>4, <1>7, <1>8, <1>9, <1>10, ScansStep DEF ScanInv

LEMMA StartKeepsInv ==
  ASSUME ScanInv, NEW p \in Procs, StartScan(p)
  PROVE  ScanInv' /\ Keeps
<1>1. UNCHANGED <<sources, items, obs, clock, claimed>>
  BY DEF StartScan
<1>2. PICK k : k = scan[p]
  OBVIOUS
<1>3. /\ ProcessInv(k) /\ k.pc = "start"
      /\ k.req \in Requests /\ k.req.run \in Runs /\ k.source \in SourceIds
  BY <1>2, ScanAssumption DEF ScanInv, ScansInv, ProcessInv, StartScan, At
<1>4. CASE /\ MyRun(p).start = None
           /\ runs' = [runs EXCEPT ![Request(p).run].start = StartOf(p)]
           /\ Becomes(p, [scan[p] EXCEPT !.pc = "read"])
  <2> DEFINE r == k.req.run
             st == StartOf(p)
  <2>1. st \in Start /\ st # None
    BY <1>2, <1>3, ScanAssumption, NoRowAssumption
       DEF StartOf, Start, Request, ProcessInv, Process, Limits
  <2> HIDE DEF st
  <2>2. runs[r].start = None /\ runs' = [runs EXCEPT ![r].start = st]
    BY <1>2, <1>4 DEF MyRun, Request, st
  <2>3. runs \in [Runs -> Run] /\ runs[r].finish = None /\ \A m \in Messages : obs[r][m] = None
    BY <1>3, <2>2 DEF ScanInv, RowsInv, RunsInv, RunBracketsObservations, Observed
  <2>4. /\ runs' \in [Runs -> Run]
        /\ runs'[r].start = st /\ runs'[r].finish = None
        /\ \A q \in Runs : q # r => runs'[q] = runs[q]
    BY <1>3, <2>1, <2>2, <2>3 DEF Run
  <2>5. RowsInv'
    BY <1>1, <2>4 DEF ScanInv, RowsInv
  <2>6. Keeps
    BY <1>1, <1>3, <2>2, <2>3, <2>4 DEF Keeps
  <2>7. Observed(r) = {} /\ \A q \in Runs : Observed(q)' = Observed(q)
    BY <1>1, <2>3 DEF Observed
  <2>8. RunsInv'
    <3>1. /\ \A q \in Runs : runs'[q].finish # None => runs'[q].start # None
          /\ \A q \in Runs : runs'[q].finish = None => claimed'[q] = {}
      BY <1>1, <2>3, <2>4 DEF ScanInv, RunsInv
    <3>2. RunBracketsObservations'
      BY <1>1, <2>3, <2>4, <2>7 DEF ScanInv, RunsInv, RunBracketsObservations
    <3>3. RunWithinLimit'
      BY <1>1, <2>4, <2>7 DEF ScanInv, RunsInv, RunWithinLimit
    <3>4. CompleteRunHoldsListed'
      BY <1>1, <2>4, <2>7 DEF ScanInv, RunsInv, CompleteRunHoldsListed
    <3>5. QED
      BY <3>1, <3>2, <3>3, <3>4 DEF RunsInv
  <2>9. PICK l : l = [k EXCEPT !.pc = "read"]
    OBVIOUS
  <2>10. ProcessInv(k)'
    BY <1>2, <2>6, OwnKnowledge
  <2>11. ProcessInv(l)' /\ l.pc = "read"
    BY <1>3, <2>1, <2>4, <2>9, <2>10 DEF ProcessInv, Process, Steps, Underway
  <2>12. QED
    BY <1>2, <1>4, <2>5, <2>6, <2>8, <2>9, <2>11, ScansStep DEF ScanInv
<1>5. CASE runs' = runs
  <2>1. RowsInv' /\ RunsInv' /\ Keeps
    BY <1>1, <1>5, QuietRows DEF ScanInv, RowsInv
  <2>2. CASE Stop(p)
    BY <2>1, <2>2, StopStep DEF ScanInv
  <2>3. CASE /\ MyRun(p).start = StartOf(p)
             /\ Becomes(p, [scan[p] EXCEPT !.pc = "read"])
    <3>1. MyRun(p).start # None
      <4>1. StartOf(p) \in Start
        BY <1>2, <1>3, ScanAssumption
           DEF StartOf, Start, Request, ProcessInv, Process, Limits
      <4>2. QED
        BY <2>3, <4>1, NoRowAssumption
    <3>2. runs'[k.req.run].start # None
      BY <1>2, <1>5, <3>1 DEF MyRun, Request
    <3>3. PICK l : l = [k EXCEPT !.pc = "read"]
      OBVIOUS
    <3>4. ProcessInv(k)'
      BY <1>2, <2>1, OwnKnowledge
    <3>5. ProcessInv(l)' /\ l.pc = "read"
      BY <1>3, <3>2, <3>3, <3>4 DEF ProcessInv, Process, Steps, Underway
    <3>6. QED
      BY <1>2, <2>1, <2>3, <3>3, <3>5, ScansStep DEF ScanInv
  <2>4. QED
    BY <1>4, <1>5, <2>2, <2>3 DEF StartScan
<1>6. QED
  BY <1>4, <1>5 DEF StartScan

LEMMA ReadKeepsInv ==
  ASSUME ScanInv, NEW p \in Procs, ReadInbox(p)
  PROVE  ScanInv' /\ Keeps
<1>1. RowsInv' /\ RunsInv' /\ Keeps
  BY QuietRows DEF ReadInbox, rows, ScanInv, RowsInv
<1>2. PICK k : k = scan[p]
  OBVIOUS
<1>3. ProcessInv(k)' /\ k.pc = "read"
  BY <1>1, <1>2, OwnKnowledge DEF ReadInbox, At
<1>4. CASE \E r \in Reads(Request(p).limit) :
             Becomes(p, [scan[p] EXCEPT !.pc = "admit", !.read = r, !.todo = Showing(r, Contents)])
  <2>1. PICK r, l :
          /\ r \in Result
          /\ l = [k EXCEPT !.pc = "admit", !.read = r, !.todo = Showing(r, Contents)]
          /\ Becomes(p, l)
    BY <1>2, <1>4 DEF Reads
  <2>2. Showing(r, Contents) \subseteq Messages
    BY <2>1 DEF Showing, Listed, Result, Shows
  <2>3. /\ l.pc = "admit" /\ l.req = k.req /\ l.source = k.source
        /\ l.read = r /\ l.todo = Showing(r, Contents)
    BY <1>3, <2>1 DEF ProcessInv, Process
  <2>4. l \in Process
    BY <1>3, <2>1, <2>2 DEF ProcessInv, Process, Steps
  <2>5. ProcessInv(l)'
    BY <1>3, <2>1, <2>3, <2>4 DEF ProcessInv, Underway
  <2>6. QED
    BY <1>1, <2>1, <2>3, <2>5, ScansStep DEF ScanInv
<1>5. CASE Becomes(p, [scan[p] EXCEPT !.pc = "unread"])
  <2>1. PICK l : l = [k EXCEPT !.pc = "unread"] /\ Becomes(p, l)
    BY <1>2, <1>5
  <2>2. ProcessInv(l)' /\ l.pc = "unread"
    BY <1>3, <2>1 DEF ProcessInv, Process, Steps, Underway
  <2>3. QED
    BY <1>1, <2>1, <2>2, ScansStep DEF ScanInv
<1>6. QED
  BY <1>4, <1>5 DEF ReadInbox

LEMMA FailKeepsInv ==
  ASSUME ScanInv, NEW p \in Procs, FailLocally(p)
  PROVE  ScanInv' /\ Keeps
<1>1. RowsInv' /\ RunsInv' /\ Keeps
  BY QuietRows DEF FailLocally, rows, ScanInv, RowsInv
<1>2. PICK k : k = scan[p]
  OBVIOUS
<1>3. ProcessInv(k)' /\ k.pc = "admit"
  BY <1>1, <1>2, OwnKnowledge DEF FailLocally, At
<1>4. PICK l : l = [k EXCEPT !.failure = TRUE] /\ Becomes(p, l)
  BY <1>2 DEF FailLocally
<1>5. ProcessInv(l)' /\ l.pc = "admit"
  BY <1>3, <1>4 DEF ProcessInv, Process
<1>6. QED
  BY <1>1, <1>4, <1>5, ScansStep DEF ScanInv

LEMMA PreviewKeepsInv ==
  ASSUME ScanInv, NEW p \in Procs, PreviewRun(p)
  PROVE  ScanInv' /\ Keeps
<1>1. RowsInv' /\ RunsInv' /\ Keeps
  BY QuietRows DEF PreviewRun, rows, ScanInv, RowsInv
<1>2. PICK k : k = scan[p]
  OBVIOUS
<1>3. ProcessInv(k)' /\ k.pc = "preview"
  BY <1>1, <1>2, OwnKnowledge DEF PreviewRun, At
<1>4. PICK n : n = Cardinality(Observed(k.req.run))
  OBVIOUS
<1>5. n \in Nat
  <2>1. IsFiniteSet(Observed(k.req.run))
    BY ScanAssumption, FS_Subset DEF Observed
  <2>2. QED
    BY <1>4, <2>1, FS_CardinalityType
<1>6. PICK l : l = [k EXCEPT !.pc = "entries", !.count = n] /\ Becomes(p, l)
  BY <1>2, <1>4 DEF PreviewRun, Request
<1>7. ProcessInv(l)' /\ l.pc = "entries"
  BY <1>3, <1>5, <1>6 DEF ProcessInv, Process, Steps, Underway
<1>8. l.count = n /\ l.req = k.req
  BY <1>3, <1>6 DEF ProcessInv, Process
<1>9. l.count = Cardinality(Observed(l.req.run)')
  BY <1>4, <1>8 DEF PreviewRun, rows, Observed
<1>10. QED
  BY <1>1, <1>6, <1>7, <1>9, ScansStep DEF ScanInv

------------------------------------------------------------------------------
LEMMA AdmitKeepsInv ==
  ASSUME ScanInv, NEW p \in Procs, Admit(p)
  PROVE  ScanInv' /\ Keeps
<1>1. PICK k : k = scan[p]
  OBVIOUS
<1>2. PICK r : r = k.req.run
  OBVIOUS
<1>3. /\ ProcessInv(k) /\ k.pc = "admit" /\ k.req \in Requests /\ r \in Runs
      /\ k.source \in SourceIds /\ k.current \in Times
      /\ k.read \in Result /\ k.todo \subseteq Showing(k.read, Contents)
  BY <1>1, <1>2, ScanAssumption DEF ScanInv, ScansInv, ProcessInv, Process, Admit, At, Underway
<1>4. runs[r].start # None /\ runs[r].finish = None
  BY <1>1, <1>2 DEF Admit, OpenRun, MyRun, Request
<1>5. runs[r].start \in Start
  BY <1>3, <1>4 DEF ScanInv, RowsInv, Run
<1>6. PICK m \in k.todo : /\ Observe(p, m) \/ Replay(p, m)
                          /\ Becomes(p, [k EXCEPT !.todo = @ \ {m}])
  BY <1>1 DEF Admit
<1>7. m \in Messages /\ k.read.shows[m] \in Contents
  BY <1>3, <1>6 DEF Showing, Listed, Result, Shows
<1>8. UNCHANGED <<sources, runs, clock, claimed>>
  BY DEF Admit
<1>9. PICK l : l = [k EXCEPT !.todo = @ \ {m}]
  OBVIOUS
<1>10. /\ l.pc = "admit" /\ l.req = k.req /\ l.source = k.source /\ l.read = k.read
       /\ l.todo = k.todo \ {m} /\ l \in Process
  BY <1>3, <1>9 DEF ProcessInv, Process
(* It is enough that the rows are fine and that the message is stored.     *)
<1>11. ASSUME RowsInv', RunsInv', Keeps, m \in Observed(r)'
       PROVE  ScanInv'
  <2>1. ProcessInv(k)'
    BY <1>1, <1>11, OwnKnowledge
  <2>2. ProcessInv(l)'
    BY <1>2, <1>3, <1>10, <1>11, <2>1 DEF ProcessInv, Underway
  <2>3. QED
    BY <1>6, <1>9, <1>10, <1>11, <2>2, ScansStep DEF ScanInv
<1>12. CASE Replay(p, m)
  <2>1. UNCHANGED <<sources, items, runs, obs, claimed>> /\ clock' \in Times
    BY <1>8, <1>12 DEF Replay, ScanInv, RowsInv
  <2>2. RowsInv' /\ RunsInv' /\ Keeps
    BY <2>1, QuietRows
  <2>3. m \in Observed(r)'
    BY <1>1, <1>2, <1>12, <2>1 DEF Replay, Request, Observed
  <2>4. QED
    BY <1>11, <2>2, <2>3
<1>13. CASE Observe(p, m)
  <2>1. m \notin Observed(r)
    BY <1>1, <1>2, <1>13 DEF Observe, Request
  <2>2. obs[r][m] = None
    BY <1>7, <2>1 DEF Observed
  <2>3. PICK t : t = TimeOf(p)
    OBVIOUS
  <2>4. t \in Times
    BY <1>1, <1>3, <2>3, ScanAssumption DEF TimeOf, ScanInv, RowsInv
  <2>5. /\ t >= runs[r].start.startedAt
        /\ Cardinality(Observed(r)) < runs[r].start.limit
    BY <1>1, <1>2, <1>13, <2>3 DEF Observe, Admissible, MyRun, Request
  <2>6. PICK i, o : /\ i \in ItemIds /\ ItemFor(p, m, i)
                    /\ o = [item |-> i, at |-> t, shows |-> k.read.shows[m]]
                    /\ obs' = [obs EXCEPT ![r][m] = o]
    BY <1>1, <1>2, <1>13, <2>3 DEF Observe, ObservationOf, Request
  <2>7. o \in Obs /\ o # None /\ o.at = t
    BY <1>7, <2>4, <2>6, NoRowAssumption DEF Obs
  <2>8. items' \in [ItemIds -> Item \cup {None}]
    <3>1. [source |-> k.source, message |-> m] \in Item
      BY <1>3, <1>7 DEF Item
    <3>2. items' = items \/ items' = [items EXCEPT ![i] = [source |-> k.source, message |-> m]]
      BY <1>1, <2>6 DEF ItemFor
    <3>3. QED
      BY <3>1, <3>2 DEF ScanInv, RowsInv
  <2>9. /\ obs' \in [Runs -> [Messages -> Obs \cup {None}]]
        /\ obs'[r][m] = o
        /\ \A n \in Messages : n # m => obs'[r][n] = obs[r][n]
        /\ \A q \in Runs : q # r => obs'[q] = obs[q]
    BY <1>3, <1>7, <2>6, <2>7 DEF ScanInv, RowsInv
  <2>10. RowsInv'
    BY <1>8, <2>8, <2>9 DEF ScanInv, RowsInv
  <2>11. Keeps
    BY <1>3, <1>4, <1>8, <2>2, <2>9 DEF Keeps
  <2>12. /\ Observed(r)' = Observed(r) \cup {m}
         /\ \A q \in Runs : q # r => Observed(q)' = Observed(q)
    BY <1>7, <2>2, <2>7, <2>9 DEF Observed
  <2>13. RunBracketsObservations'
    <3>1. ASSUME NEW q \in Runs, NEW n \in Messages, n \in Observed(q)'
          PROVE  /\ runs[q].start # None /\ obs'[q][n].at >= runs[q].start.startedAt
                 /\ runs[q].finish # None => obs'[q][n].at <= runs[q].finish.endedAt
      <4>1. CASE q = r /\ n = m
        BY <1>4, <2>5, <2>7, <2>9, <4>1
      <4>2. CASE ~(q = r /\ n = m)
        <5>1. obs'[q][n] = obs[q][n] /\ n \in Observed(q)
          BY <2>9, <2>12, <3>1, <4>2
        <5>2. QED
          BY <5>1 DEF ScanInv, RunsInv, RunBracketsObservations
      <4>3. QED
        BY <4>1, <4>2
    <3>2. QED
      BY <1>8, <3>1 DEF RunBracketsObservations
  <2>14. RunWithinLimit'
    <3>1. IsFiniteSet(Observed(r))
      BY ScanAssumption, FS_Subset DEF Observed
    <3>2. Cardinality(Observed(r)') = Cardinality(Observed(r)) + 1 /\ Cardinality(Observed(r)) \in Nat
      BY <2>1, <2>12, <3>1, FS_AddElement, FS_CardinalityType
    <3>3. runs[r].start.limit \in Nat
      BY <1>5 DEF Start, Limits
    <3>4. Cardinality(Observed(r)') <= runs[r].start.limit
      BY <2>5, <3>2, <3>3
    <3>5. QED
      BY <1>8, <2>12, <3>4 DEF ScanInv, RunsInv, RunWithinLimit
  <2>15. CompleteRunHoldsListed'
    BY <1>4, <1>8, <2>12 DEF ScanInv, RunsInv, CompleteRunHoldsListed
  <2>16. RunsInv'
    BY <1>8, <2>13, <2>14, <2>15 DEF ScanInv, RunsInv
  <2>17. QED
    BY <1>11, <2>10, <2>11, <2>12, <2>16
<1>14. QED
  BY <1>6, <1>12, <1>13

------------------------------------------------------------------------------
(* A complete result listed nothing that it did not show.                  *)
LEMMA CompleteShowsAll ==
  ASSUME NEW r \in Result, NEW limit, Complete(r, limit)
  PROVE  Listed(r) = Showing(r, Contents)
<1>1. Showing(r, {Outside}) = {}
  BY DEF Complete
<1>2. Showing(r, {Failed}) = {}
  BY DEF Complete, Coverage
<1>3. \A m \in Listed(r) : r.shows[m] \in Contents \cup {Outside, Failed}
  BY DEF Result, Shows, Shown, Listed
<1>4. QED
  BY <1>1, <1>2, <1>3 DEF Showing

LEMMA FinishKeepsInv ==
  ASSUME ScanInv, NEW p \in Procs, FinishScan(p)
  PROVE  ScanInv' /\ Keeps
<1>1. PICK k : k = scan[p]
  OBVIOUS
<1>2. PICK r : r = k.req.run
  OBVIOUS
<1>3. PICK f : f = FinishOf(p)
  OBVIOUS
<1>4. k.pc = "unread" \/ (k.pc = "admit" /\ (k.todo = {} \/ k.failure))
  <2>1. Done(p)
    BY DEF FinishScan
  <2>2. QED
    BY <1>1, <2>1 DEF Done, At
<1>5. /\ ProcessInv(k) /\ k.req \in Requests /\ r \in Runs /\ k.current \in Times
      /\ runs[r].start # None
  BY <1>1, <1>2, <1>4, ScanAssumption DEF ScanInv, ScansInv, ProcessInv, Process, Underway
<1>6. TimeOf(p) \in Times
  BY <1>1, <1>5, ScanAssumption DEF TimeOf, ScanInv, RowsInv
<1>7. f \in Finish /\ f # None
  <2>1. CASE k.pc = "unread"
    <3>1. f = [endedAt |-> k.current, status |-> "failed", complete |-> FALSE,
               limited |-> FALSE, discrepancy |-> "not_checked"]
      BY <1>1, <1>3, <2>1 DEF FinishOf, At
    <3>2. f \in Finish
      BY <1>5, <3>1 DEF Finish, Mismatch
    <3>3. QED
      BY <3>2, NoRowAssumption
  <2>2. CASE k.pc = "admit"
    <3>1. /\ Inventory(p) \in BOOLEAN
          /\ StoppedAtLimit(scan[p].read, Request(p).limit) \in BOOLEAN
      BY DEF Inventory, StoppedAtLimit, Complete
    <3>2. Discrepancy(scan[p].read) \in Mismatch
      BY DEF Discrepancy, Mismatch
    <3>3. (IF scan[p].failure THEN "failed" ELSE "completed") \in {"completed", "failed"}
      OBVIOUS
    <3>4. FinishOf(p) =
            [endedAt |-> TimeOf(p), status |-> IF scan[p].failure THEN "failed" ELSE "completed",
             complete |-> Inventory(p), limited |-> StoppedAtLimit(scan[p].read, Request(p).limit),
             discrepancy |-> Discrepancy(scan[p].read)]
      BY <1>1, <2>2 DEF FinishOf, At
    <3>5. FinishOf(p) \in Finish
      BY <1>6, <3>1, <3>2, <3>3, <3>4 DEF Finish
    <3>6. QED
      BY <1>3, <3>5, NoRowAssumption
  <2>3. QED
    BY <1>4, <2>1, <2>2
<1>8. /\ f.endedAt >= runs[r].start.startedAt
      /\ \A m \in Observed(r) : f.endedAt >= obs[r][m].at
      /\ runs[r].finish \in {None, f}
  BY <1>1, <1>2, <1>3 DEF FinishScan, MayFinish, MyRun, Request
<1>9. /\ runs' = [runs EXCEPT ![r].finish = f]
      /\ UNCHANGED <<sources, items, obs, clock>>
  BY <1>1, <1>2, <1>3 DEF FinishScan, Request
<1>10. /\ runs' \in [Runs -> Run]
       /\ runs'[r].start = runs[r].start /\ runs'[r].finish = f
       /\ \A q \in Runs : q # r => runs'[q] = runs[q]
  BY <1>5, <1>7, <1>9 DEF ScanInv, RowsInv, Run
<1>11. runs[r].finish # None => runs'[r] = runs[r]
  BY <1>5, <1>8, <1>10 DEF ScanInv, RowsInv, Run
<1>12. Keeps
  BY <1>5, <1>9, <1>10, <1>11 DEF Keeps
<1>13. \A q \in Runs : Observed(q)' = Observed(q)
  BY <1>9 DEF Observed
<1>14. /\ claimed' \in [Runs -> SUBSET Messages]
       /\ \A q \in Runs : q # r => claimed'[q] = claimed[q]
       /\ \/ claimed'[r] = claimed[r]
          \/ k.pc = "admit" /\ claimed'[r] = claimed[r] \cup Listed(k.read)
  <2>1. claimed \in [Runs -> SUBSET Messages]
    BY DEF ScanInv, RowsInv
  <2>2. CASE k.pc = "unread"
    <3>1. At(p, "unread")
      BY <1>1, <2>2 DEF At
    <3>2. claimed' = claimed
      BY <3>1 DEF FinishScan
    <3>3. QED
      BY <2>1, <3>2
  <2>3. CASE k.pc = "admit"
    <3>1. k.read \in Result
      BY <1>5, <2>3 DEF ProcessInv
    <3>2. Listed(k.read) \in SUBSET Messages
      BY <3>1 DEF Listed, Result, Shows
    <3>3. claimed' = [claimed EXCEPT ![r] = @ \cup Listed(k.read)]
      BY <1>1, <1>2, <2>3 DEF FinishScan, At, Request
    <3>4. QED
      BY <1>5, <2>1, <2>3, <3>2, <3>3
  <2>4. QED
    BY <1>4, <2>2, <2>3
<1>15. RowsInv'
  BY <1>9, <1>10, <1>14 DEF ScanInv, RowsInv
<1>16. RunBracketsObservations'
  <2>1. ASSUME NEW q \in Runs, NEW n \in Messages, n \in Observed(q)
        PROVE  /\ runs'[q].start # None /\ obs[q][n].at >= runs'[q].start.startedAt
               /\ runs'[q].finish # None => obs[q][n].at <= runs'[q].finish.endedAt
    <3>1. CASE q = r
      <4>1. obs[q][n].at \in Nat /\ f.endedAt \in Nat
        BY <1>7, <2>1, ScanAssumption DEF ScanInv, RowsInv, Obs, Finish, Times, Observed
      <4>2. obs[q][n].at <= f.endedAt
        BY <1>8, <2>1, <3>1, <4>1
      <4>3. obs[q][n].at >= runs[q].start.startedAt /\ runs[q].start # None
        BY <2>1 DEF ScanInv, RunsInv, RunBracketsObservations
      <4>4. QED
        BY <1>10, <3>1, <4>2, <4>3
    <3>2. CASE q # r
      BY <1>10, <2>1, <3>2 DEF ScanInv, RunsInv, RunBracketsObservations
    <3>3. QED
      BY <3>1, <3>2
  <2>2. QED
    BY <1>9, <1>13, <2>1 DEF RunBracketsObservations
<1>17. RunWithinLimit'
  <2>1. \A q \in Runs : runs'[q].start = runs[q].start
    BY <1>10
  <2>2. QED
    BY <1>13, <2>1 DEF ScanInv, RunsInv, RunWithinLimit
<1>18. CompleteRunHoldsListed'
  <2>1. ASSUME f.complete PROVE claimed'[r] \subseteq Observed(r)
    <3>1. claimed[r] \subseteq Observed(r)
      BY <1>5, <1>7, <1>8, <2>1 DEF ScanInv, RunsInv, CompleteRunHoldsListed
    <3>2. k.pc = "admit" /\ ~k.failure /\ Complete(k.read, k.req.limit)
      BY <1>1, <1>3, <1>4, <2>1 DEF FinishOf, At, Inventory, Request
    <3>3. k.todo = {} /\ k.read \in Result /\ Showing(k.read, Contents) \subseteq Observed(r)
      BY <1>2, <1>4, <1>5, <3>2 DEF ProcessInv
    <3>4. Listed(k.read) \subseteq Observed(r)
      BY <3>2, <3>3, CompleteShowsAll
    <3>5. QED
      BY <1>14, <3>1, <3>4
  <2>2. QED
    BY <1>10, <1>13, <1>14, <2>1 DEF ScanInv, RunsInv, CompleteRunHoldsListed
<1>19. RunsInv'
  <2>1. /\ \A q \in Runs : runs'[q].finish # None => runs'[q].start # None
        /\ \A q \in Runs : runs'[q].finish = None => claimed'[q] = {}
    BY <1>5, <1>7, <1>10, <1>14 DEF ScanInv, RunsInv
  <2>2. QED
    BY <1>16, <1>17, <1>18, <2>1 DEF RunsInv
<1>20. CASE Stop(p)
  BY <1>12, <1>15, <1>19, <1>20, StopStep DEF ScanInv
<1>21. CASE k.pc = "admit" /\ Becomes(p, [k EXCEPT !.pc = "preview"])
  <2>1. PICK l : l = [k EXCEPT !.pc = "preview"] /\ Becomes(p, l)
    BY <1>21
  <2>2. ProcessInv(k)'
    BY <1>1, <1>12, OwnKnowledge
  <2>3. l.pc = "preview" /\ l.req = k.req /\ l.source = k.source /\ l \in Process
    BY <1>5, <2>1 DEF ProcessInv, Process, Steps
  <2>4. ProcessInv(l)'
    BY <1>2, <1>5, <1>7, <1>10, <1>21, <2>2, <2>3 DEF ProcessInv, Underway
  <2>5. QED
    BY <1>12, <1>15, <1>19, <2>1, <2>3, <2>4, ScansStep DEF ScanInv
<1>22. QED
  <2>1. f.status = "completed" => k.pc = "admit"
    BY <1>1, <1>3, <1>4 DEF FinishOf, At
  <2>2. Becomes(p, IF f.status = "completed" THEN [k EXCEPT !.pc = "preview"] ELSE Idle)
    BY <1>1, <1>3 DEF FinishScan
  <2>3. QED
    BY <1>20, <1>21, <2>1, <2>2 DEF Stop

LEMMA StoppingKeepsInv ==
  ASSUME ScanInv, NEW p \in Procs, RefuseFinish(p) \/ PreviewEntries(p) \/ Crash(p)
  PROVE  ScanInv' /\ Keeps
<1>1. RowsInv' /\ RunsInv' /\ Keeps
  BY QuietRows DEF RefuseFinish, PreviewEntries, Crash, rows, ScanInv, RowsInv
<1>2. Stop(p)
  BY DEF RefuseFinish, PreviewEntries, Crash
<1>3. QED
  BY <1>1, <1>2, StopStep DEF ScanInv

(* A step of no scan.                                                      *)
LEMMA OtherKeepsInv ==
  ASSUME ScanInv, UNCHANGED <<sources, items, runs, obs, scan, claimed>>, clock' \in Times
  PROVE  ScanInv' /\ Keeps
<1>1. RowsInv' /\ RunsInv' /\ Keeps
  BY QuietRows
<1>2. ScansInv'
  BY DEF ScanInv, ScansInv, ProcessInv, PreviewSeesItsRun, At, Request, Observed
<1>3. QED
  BY <1>1, <1>2 DEF ScanInv

LEMMA NextKeepsInv ==
  ASSUME ScanInv, [ScanNext]_scanVars
  PROVE  ScanInv' /\ Keeps
<1>1. ASSUME NEW p \in Procs, Begin(p) \/ ScanStep(p) \/ Crash(p)
      PROVE  ScanInv' /\ Keeps
  BY <1>1, BeginKeepsInv, LookupKeepsInv, RegisterKeepsInv, StartKeepsInv, ReadKeepsInv,
     AdmitKeepsInv, FailKeepsInv, FinishKeepsInv, PreviewKeepsInv, StoppingKeepsInv
     DEF ScanStep
<1>2. ASSUME NEW i \in Revisited, Teach(i) \/ Reevaluate(i)
      PROVE  ScanInv' /\ Keeps
  BY <1>2, OtherKeepsInv DEF Teach, Reevaluate, ScanInv, RowsInv
<1>3. CASE SetClock
  BY <1>3, OtherKeepsInv DEF SetClock, rows
<1>4. CASE UNCHANGED scanVars
  BY <1>4, OtherKeepsInv DEF scanVars, ScanInv, RowsInv
<1>5. QED
  BY <1>1, <1>2, <1>3, <1>4 DEF ScanNext

LEMMA InitInv == ASSUME ScanInit PROVE ScanInv
<1>1. RowsInv
  BY ScanAssumption DEF ScanInit, RowsInv, Run, Times
<1>2. RunsInv
  BY DEF ScanInit, RunsInv, RunBracketsObservations, RunWithinLimit,
     CompleteRunHoldsListed, Observed
<1>3. Idle \in Process
  BY ScanAssumption DEF Idle, Process, Steps, Times
<1>4. \A p \in Procs : scan[p] = Idle
  BY DEF ScanInit
<1>5. Idle.pc = "idle"
  BY DEF Idle
<1>6. ScansInv
  BY <1>3, <1>4, <1>5 DEF ScanInit, ScansInv, ProcessInv, PreviewSeesItsRun, At, Underway
<1>7. QED
  BY <1>1, <1>2, <1>6 DEF ScanInv

(* ScanInv is an invariant of the scans.                                   *)
THEOREM ScanInvariant == ScanSpec => []ScanInv
BY InitInv, NextKeepsInv, PTL DEF ScanSpec

(* A run never holds more observations than the limit it was started with  *)
(* (record_verified_gmail_intake), whoever adds them.                      *)
THEOREM LimitIsKept == ScanSpec => []RunWithinLimit
<1>1. ScanInv => RunWithinLimit
  BY DEF ScanInv, RunsInv
<1>2. QED
  BY <1>1, ScanInvariant, PTL

(* A run's start and end enclose its observations in time (start_scan,     *)
(* record_verified_gmail_intake, finish_scan), however the clock is set.   *)
THEOREM ObservationsAreBracketed == ScanSpec => []RunBracketsObservations
<1>1. ScanInv => RunBracketsObservations
  BY DEF ScanInv, RunsInv
<1>2. QED
  BY <1>1, ScanInvariant, PTL

(* A run finished as complete stores every message that the reads it was   *)
(* finished on listed (run_durable_gmail_scan).                            *)
THEOREM CompleteMeansStored == ScanSpec => []CompleteRunHoldsListed
<1>1. ScanInv => CompleteRunHoldsListed
  BY DEF ScanInv, RunsInv
<1>2. QED
  BY <1>1, ScanInvariant, PTL

(* The preview's two reads agree (preview_from_storage): between them the  *)
(* run is finished and admits nothing.                                     *)
THEOREM PreviewIsConsistent == ScanSpec => []PreviewSeesItsRun
<1>1. ScanInv => PreviewSeesItsRun
  BY DEF ScanInv, ScansInv
<1>2. QED
  BY <1>1, ScanInvariant, PTL

(* A finished run and its observations never change (finish_scan and the   *)
(* refusal of record_verified_gmail_intake).                               *)
THEOREM FinishedRunStays == ScanSpec => FinishedRunIsFrozen
<1>1. ScanInv /\ [ScanNext]_scanVars =>
        [\A r \in Runs : runs[r].finish # None => runs'[r] = runs[r] /\ obs'[r] = obs[r]]_scanVars
  BY NextKeepsInv DEF Keeps
<1>2. QED
  BY <1>1, ScanInvariant, PTL DEF ScanSpec, FinishedRunIsFrozen

------------------------------------------------------------------------------
(* Identities and the evaluation history.  An ITEM with evaluations has a  *)
(* current one, and it is the latest; with it an append extends the chain. *)
LatestIsCurrent ==
  \A j \in DOMAIN evals : \E k \in CurrentEvaluations(evals[j].item) :
     \A n \in DOMAIN evals : evals[n].item = evals[j].item => n <= k

ChainInv == evals \in Seq(Eval) /\ EvaluationsAreChained /\ LatestIsCurrent

HistoryInv ==
  /\ ChainInv
  /\ waiting \subseteq ItemIds
  /\ OneSourcePerMailbox
  /\ OneItemPerMessage
  /\ UnclassifiedItemWaits

LEMMA AppendKeepsChain ==
  ASSUME ChainInv, NEW i \in ItemIds, NEW r \in Runs, NEW at \in Times,
         NEW needs \in BOOLEAN, NEW cause \in Causes, AppendEvaluation(i, r, at, needs, cause)
  PROVE  /\ ChainInv'
         /\ DOMAIN evals' = DOMAIN evals \cup {Len(evals) + 1}
         /\ \A j \in DOMAIN evals : evals'[j] = evals[j]
         /\ evals'[Len(evals) + 1].item = i
         /\ evals'[Len(evals) + 1].needs = needs
         /\ evals'[Len(evals) + 1].cause = cause
         /\ CurrentEvaluations(i)' = {Len(evals) + 1}
         /\ \A q : q # i => CurrentEvaluations(q)' = CurrentEvaluations(q)
<1> DEFINE n == Len(evals) + 1
<1>1. PICK k \in 0..Len(evals) :
        /\ CurrentEvaluations(i) = IF k = 0 THEN {} ELSE {k}
        /\ evals' = Append(evals, [item |-> i, run |-> r, predecessor |-> k, at |-> at,
                                   needs |-> needs, cause |-> cause])
  BY DEF AppendEvaluation
<1>2. PICK e : e = [item |-> i, run |-> r, predecessor |-> k, at |-> at,
                    needs |-> needs, cause |-> cause]
  OBVIOUS
<1>3. evals \in Seq(Eval) /\ Len(evals) \in Nat
  BY DEF ChainInv
<1>4. /\ e \in Eval /\ e.item = i /\ e.predecessor = k /\ e.needs = needs /\ e.cause = cause
  BY <1>1, <1>2, <1>3 DEF Eval
<1>5. /\ evals' \in Seq(Eval) /\ DOMAIN evals = 1..Len(evals) /\ DOMAIN evals' = 1..n
      /\ evals'[n] = e
      /\ \A j \in 1..Len(evals) : evals'[j] = evals[j]
  BY <1>1, <1>2, <1>3, <1>4
<1>6. DOMAIN evals' = DOMAIN evals \cup {n} /\ n \notin DOMAIN evals
  BY <1>3, <1>5
(* All evaluations of the ITEM so far precede the new one through k.       *)
<1>7. \A j \in 1..Len(evals) : evals[j].item = i =>
        k # 0 /\ k \in DOMAIN evals /\ evals[k].item = i /\ j <= k
  <2>1. ASSUME NEW j \in 1..Len(evals), evals[j].item = i
        PROVE  k # 0 /\ k \in DOMAIN evals /\ evals[k].item = i /\ j <= k
    <3>1. PICK c \in CurrentEvaluations(i) :
            \A m \in DOMAIN evals : evals[m].item = i => m <= c
      BY <1>5, <2>1 DEF ChainInv, LatestIsCurrent
    <3>2. k # 0 /\ c = k
      BY <1>1, <3>1
    <3>3. QED
      BY <1>5, <2>1, <3>1, <3>2 DEF CurrentEvaluations
  <2>2. QED
    BY <2>1
<1>8. k # 0 => k \in DOMAIN evals /\ evals[k].item = i
  BY <1>1 DEF CurrentEvaluations
<1>9. \A j \in 1..Len(evals) : evals[j].predecessor \in 0..(j - 1)
  BY <1>3, <1>5 DEF ChainInv, EvaluationsAreChained
<1>10. EvaluationsAreChained'
  <2>1. ASSUME NEW j \in 1..n
        PROVE  LET earlier == {m \in 1..(j - 1) : evals'[m].item = evals'[j].item}
               IN  /\ evals'[j].predecessor \in earlier \cup {0}
                   /\ \A m \in earlier : m <= evals'[j].predecessor
    <3>1. CASE j = n
      <4>1. evals'[j].predecessor = k /\ evals'[j].item = i /\ j - 1 = Len(evals)
        BY <1>3, <1>4, <1>5, <3>1
      <4>2. \A m \in 1..(j - 1) : evals'[m].item = evals[m].item
        BY <1>5, <4>1
      <4>3. QED
        BY <1>1, <1>5, <1>7, <1>8, <4>1, <4>2
    <3>2. CASE j # n
      <4>1. j \in 1..Len(evals) /\ \A m \in 1..(j - 1) : m \in 1..Len(evals)
        BY <1>3, <2>1, <3>2
      <4>2. evals'[j] = evals[j] /\ \A m \in 1..(j - 1) : evals'[m] = evals[m]
        BY <1>5, <4>1
      <4>3. QED
        BY <1>5, <4>1, <4>2 DEF ChainInv, EvaluationsAreChained
    <3>3. QED
      BY <3>1, <3>2
  <2>2. QED
    BY <1>5, <2>1 DEF EvaluationsAreChained
<1>11. CurrentEvaluations(i)' = {n}
  <2>1. n \in CurrentEvaluations(i)'
    BY <1>1, <1>3, <1>4, <1>5, <1>6, <1>9 DEF CurrentEvaluations
  <2>2. ASSUME NEW c \in CurrentEvaluations(i)', c # n PROVE FALSE
    <3>1. c \in 1..Len(evals) /\ evals[c].item = i /\ c # k
      BY <1>4, <1>5, <1>6, <2>2 DEF CurrentEvaluations
    <3>2. \A j \in DOMAIN evals : evals[j].predecessor # c
      BY <1>5, <1>6, <2>2 DEF CurrentEvaluations
    <3>3. c \in CurrentEvaluations(i)
      BY <1>5, <3>1, <3>2 DEF CurrentEvaluations
    <3>4. QED
      BY <1>1, <3>1, <3>3
  <2>3. QED
    BY <2>1, <2>2
<1>12. ASSUME NEW q, q # i PROVE CurrentEvaluations(q)' = CurrentEvaluations(q)
  <2>1. ASSUME NEW c \in CurrentEvaluations(q) PROVE c \in CurrentEvaluations(q)'
    <3>1. c \in 1..Len(evals) /\ evals[c].item = q /\ \A j \in DOMAIN evals : evals[j].predecessor # c
      BY <1>5, <2>1 DEF CurrentEvaluations
    <3>2. c # k
      BY <1>3, <1>8, <1>12, <3>1
    <3>3. QED
      BY <1>4, <1>5, <1>6, <3>1, <3>2 DEF CurrentEvaluations
  <2>2. ASSUME NEW c \in CurrentEvaluations(q)' PROVE c \in CurrentEvaluations(q)
    <3>1. c \in DOMAIN evals' /\ evals'[c].item = q /\ \A j \in DOMAIN evals' : evals'[j].predecessor # c
      BY <2>2 DEF CurrentEvaluations
    <3>2. c # n
      BY <1>4, <1>5, <1>12, <3>1
    <3>3. QED
      BY <1>5, <1>6, <3>1, <3>2 DEF CurrentEvaluations
  <2>3. QED
    BY <2>1, <2>2
<1>13. LatestIsCurrent'
  <2>1. ASSUME NEW j \in DOMAIN evals', NEW q, evals'[j].item = q
        PROVE  \E c \in CurrentEvaluations(q)' :
                  \A m \in DOMAIN evals' : evals'[m].item = q => m <= c
    <3>1. CASE q = i
      <4>1. n \in CurrentEvaluations(q)'
        BY <1>11, <3>1
      <4>2. \A m \in DOMAIN evals' : m <= n
        BY <1>3, <1>5
      <4>3. QED
        BY <4>1, <4>2
    <3>2. CASE q # i
      <4>1. j \in DOMAIN evals /\ evals[j].item = q
        BY <1>4, <1>5, <1>6, <2>1, <3>2
      <4>2. PICK c \in CurrentEvaluations(q) :
              \A m \in DOMAIN evals : evals[m].item = q => m <= c
        BY <4>1 DEF ChainInv, LatestIsCurrent
      <4>3. c \in CurrentEvaluations(q)'
        BY <1>12, <3>2, <4>2
      <4>4. \A m \in DOMAIN evals' : evals'[m].item = q => m <= c
        BY <1>4, <1>5, <1>6, <3>2, <4>2
      <4>5. QED
        BY <4>3, <4>4
    <3>3. QED
      BY <3>1, <3>2
  <2>2. ASSUME NEW j \in DOMAIN evals'
        PROVE  (\E c \in CurrentEvaluations(evals[j].item) :
                  \A m \in DOMAIN evals : evals[m].item = evals[j].item => m <= c)'
    <3>1. PICK q : q = evals'[j].item
      OBVIOUS
    <3>2. PICK c \in CurrentEvaluations(q)' :
            \A m \in DOMAIN evals' : evals'[m].item = q => m <= c
      BY <2>1, <3>1
    <3>3. QED
      BY <3>1, <3>2 DEF CurrentEvaluations
  <2>3. QED
    BY <2>2 DEF LatestIsCurrent
<1>14. QED
  BY <1>4, <1>5, <1>6, <1>10, <1>11, <1>12, <1>13 DEF ChainInv

(* Without an append the history is as it was.                             *)
LEMMA NoAppend ==
  ASSUME ChainInv, UNCHANGED evals
  PROVE  ChainInv' /\ \A q : CurrentEvaluations(q)' = CurrentEvaluations(q)
BY DEF ChainInv, EvaluationsAreChained, LatestIsCurrent, CurrentEvaluations

(* An append leaves every ITEM waiting that should, if the ITEM itself     *)
(* waits when its new evaluation has no category and the others still do.  *)
LEMMA AppendKeepsWaiting ==
  ASSUME ChainInv, UnclassifiedItemWaits,
         NEW i \in ItemIds, NEW r \in Runs, NEW at \in Times,
         NEW needs \in BOOLEAN, NEW cause \in Causes, AppendEvaluation(i, r, at, needs, cause),
         needs /\ cause # "explicit_reevaluation" => i \in waiting',
         \A q \in waiting : q # i => q \in waiting'
  PROVE  UnclassifiedItemWaits'
<1> DEFINE n == Len(evals) + 1
<1>1. /\ DOMAIN evals' = DOMAIN evals \cup {n}
      /\ \A j \in DOMAIN evals : evals'[j] = evals[j]
      /\ evals'[n].item = i /\ evals'[n].needs = needs /\ evals'[n].cause = cause
      /\ CurrentEvaluations(i)' = {n}
      /\ \A q : q # i => CurrentEvaluations(q)' = CurrentEvaluations(q)
  BY AppendKeepsChain
<1>2. ASSUME NEW j \in DOMAIN evals', NEW q, q = evals'[j].item,
             j \in CurrentEvaluations(q)', evals'[j].needs,
             evals'[j].cause # "explicit_reevaluation"
      PROVE  q \in waiting'
  <2>1. CASE q = i
    BY <1>1, <1>2, <2>1
  <2>2. CASE q # i
    <3>1. j \in DOMAIN evals /\ evals'[j] = evals[j] /\ j \in CurrentEvaluations(q)
      BY <1>1, <1>2, <2>2
    <3>2. q \in waiting
      BY <1>2, <3>1 DEF UnclassifiedItemWaits
    <3>3. QED
      BY <2>2, <3>2
  <2>3. QED
    BY <2>1, <2>2
<1>3. QED
  BY <1>2 DEF UnclassifiedItemWaits, CurrentEvaluations

LEMMA WaitingGrows ==
  ASSUME UnclassifiedItemWaits, UNCHANGED evals, waiting \subseteq waiting'
  PROVE  UnclassifiedItemWaits'
BY DEF UnclassifiedItemWaits, CurrentEvaluations

------------------------------------------------------------------------------
LEMMA AdmitKeepsHistory ==
  ASSUME ScanInv, HistoryInv, NEW p \in Procs, Admit(p)
  PROVE  HistoryInv'
<1>1. PICK k : k = scan[p]
  OBVIOUS
<1>2. k.req \in Requests /\ k.req.run \in Runs /\ k.source \in SourceIds /\ k.current \in Times
  BY <1>1, ScanAssumption DEF ScanInv, ScansInv, ProcessInv, Process, Admit, At, Underway
<1>3. TimeOf(p) \in Times
  BY <1>1, <1>2, ScanAssumption DEF TimeOf, ScanInv, RowsInv
<1>4. PICK m \in k.todo : Observe(p, m) \/ Replay(p, m)
  BY <1>1 DEF Admit
<1>5. OneSourcePerMailbox'
  BY DEF Admit, HistoryInv, OneSourcePerMailbox
<1>6. CASE Replay(p, m)
  <2>1. PICK i : /\ i = obs[k.req.run][m].item /\ m \in Observed(k.req.run)
                 /\ waiting' = waiting \/ waiting' = waiting \cup {i}
    BY <1>1, <1>6 DEF Replay, Queue, Request
  <2>2. i \in ItemIds
    BY <1>2, <2>1 DEF ScanInv, RowsInv, Obs, Observed
  <2>3. UNCHANGED evals /\ UNCHANGED items
    BY <1>6 DEF Replay
  <2>4. OneItemPerMessage'
    BY <2>3 DEF HistoryInv, OneItemPerMessage
  <2>5. QED
    BY <1>5, <2>1, <2>2, <2>3, <2>4, NoAppend, WaitingGrows DEF HistoryInv
<1>7. CASE Observe(p, m)
  <2>1. PICK i \in ItemIds :
          /\ ItemFor(p, m, i) /\ Queue(p, m, i)
          /\ AppendEvaluation(i, k.req.run, TimeOf(p), Needs(p, m), "original_intake")
    BY <1>1, <1>7 DEF Observe, Request
  <2>2. Needs(p, m) \in BOOLEAN /\ "original_intake" \in Causes
    BY DEF Needs, Causes
  <2>3. ChainInv'
    BY <1>2, <1>3, <2>1, <2>2, AppendKeepsChain DEF HistoryInv
  <2>4. /\ waiting \subseteq waiting' /\ waiting' \subseteq ItemIds
        /\ Needs(p, m) => i \in waiting'
    BY <2>1 DEF Queue, HistoryInv
  <2>5. UnclassifiedItemWaits'
    <3>1. PICK t, needs : t = TimeOf(p) /\ needs = Needs(p, m)
      OBVIOUS
    <3>2. AppendEvaluation(i, k.req.run, t, needs, "original_intake")
      BY <2>1, <3>1
    <3>3. t \in Times /\ needs \in BOOLEAN
      BY <1>3, <2>2, <3>1
    <3>4. \A q \in waiting : q # i => q \in waiting'
      BY <2>4
    <3>5. needs => i \in waiting'
      BY <2>4, <3>1
    <3>6. QED
      BY <1>2, <2>2, <3>2, <3>3, <3>4, <3>5, AppendKeepsWaiting DEF HistoryInv
  <2>6. OneItemPerMessage'
    <3>1. PICK c : c = [source |-> k.source, message |-> m]
      OBVIOUS
    <3>2. \/ items' = items
          \/ /\ \A j \in ItemIds : items[j] # c
             /\ items' = [items EXCEPT ![i] = c]
      BY <1>1, <2>1, <3>1 DEF ItemFor, ItemsOf
    <3>3. items \in [ItemIds -> Item \cup {None}]
      BY DEF ScanInv, RowsInv
    <3>4. QED
      BY <3>2, <3>3 DEF HistoryInv, OneItemPerMessage
  <2>7. QED
    BY <1>5, <2>3, <2>4, <2>5, <2>6 DEF HistoryInv
<1>8. QED
  BY <1>4, <1>6, <1>7

LEMMA TeachKeepsHistory ==
  ASSUME ScanInv, HistoryInv, NEW i \in Revisited, Teach(i)
  PROVE  HistoryInv'
<1>1. PICK r \in Runs, needs \in BOOLEAN, resolves \in BOOLEAN :
        /\ ~(needs /\ resolves)
        /\ AppendEvaluation(i, r, clock, needs, "human_teaching")
        /\ waiting' = IF resolves THEN waiting \ {i} ELSE waiting
  BY DEF Teach
<1>2. i \in ItemIds /\ i \in waiting /\ "human_teaching" \in Causes
  BY ScanAssumption DEF Teach, Causes
<1>3. PICK t : t = clock
  OBVIOUS
<1>4. t \in Times /\ AppendEvaluation(i, r, t, needs, "human_teaching")
  BY <1>1, <1>3 DEF ScanInv, RowsInv
<1>5. ChainInv'
  BY <1>2, <1>4, AppendKeepsChain DEF HistoryInv
<1>6. UnclassifiedItemWaits'
  BY <1>1, <1>2, <1>4, AppendKeepsWaiting DEF HistoryInv
<1>7. OneSourcePerMailbox' /\ OneItemPerMessage' /\ waiting' \subseteq ItemIds
  BY <1>1 DEF Teach, HistoryInv, OneSourcePerMailbox, OneItemPerMessage
<1>8. QED
  BY <1>5, <1>6, <1>7 DEF HistoryInv

LEMMA ReevaluateKeepsHistory ==
  ASSUME ScanInv, HistoryInv, NEW i \in Revisited, Reevaluate(i)
  PROVE  HistoryInv'
<1>1. PICK r \in LatestRuns(i), needs \in BOOLEAN :
        AppendEvaluation(i, r, clock, needs, "explicit_reevaluation")
  <2>1. PICK r \in LatestRuns(i), c \in Configs : \E m \in Observed(r) :
          AppendEvaluation(i, r, clock, obs[r][m].shows \in NeedsTeaching[c],
                           "explicit_reevaluation")
    BY DEF Reevaluate
  <2>2. PICK m \in Observed(r) :
          AppendEvaluation(i, r, clock, obs[r][m].shows \in NeedsTeaching[c],
                           "explicit_reevaluation")
    BY <2>1
  <2>3. PICK needs : needs = (obs[r][m].shows \in NeedsTeaching[c])
    OBVIOUS
  <2>4. needs \in BOOLEAN
    BY <2>3
  <2>5. QED
    BY <2>2, <2>3, <2>4
<1>2. r \in Runs /\ i \in ItemIds /\ "explicit_reevaluation" \in Causes
  BY ScanAssumption DEF LatestRuns, Causes
<1>3. PICK t : t = clock
  OBVIOUS
<1>4. t \in Times /\ AppendEvaluation(i, r, t, needs, "explicit_reevaluation")
  BY <1>1, <1>3 DEF ScanInv, RowsInv
<1>5. ChainInv'
  BY <1>2, <1>4, AppendKeepsChain DEF HistoryInv
<1>6. waiting' = waiting
  BY DEF Reevaluate
<1>7. UnclassifiedItemWaits'
  BY <1>2, <1>4, <1>6, AppendKeepsWaiting DEF HistoryInv
<1>8. OneSourcePerMailbox' /\ OneItemPerMessage' /\ waiting' \subseteq ItemIds
  BY DEF Reevaluate, HistoryInv, OneSourcePerMailbox, OneItemPerMessage
<1>9. QED
  BY <1>5, <1>7, <1>8 DEF HistoryInv

LEMMA RegisterKeepsHistory ==
  ASSUME ScanInv, HistoryInv, NEW p \in Procs, RegisterSource(p)
  PROVE  HistoryInv'
<1>1. ChainInv' /\ UnclassifiedItemWaits' /\ waiting' \subseteq ItemIds /\ OneItemPerMessage'
  <2>1. UNCHANGED <<items, evals, waiting>>
    BY DEF RegisterSource
  <2>2. QED
    BY <2>1, NoAppend, WaitingGrows DEF HistoryInv, OneItemPerMessage
<1>2. PICK b : b = Request(p).mailbox
  OBVIOUS
<1>3. \/ sources' = sources
      \/ /\ \A s \in SourceIds : sources[s] # b
         /\ \E s \in SourceIds : sources' = [sources EXCEPT ![s] = b]
  BY <1>2 DEF RegisterSource, Register, SourcesOf
<1>4. sources \in [SourceIds -> Mailboxes \cup {None}]
  BY DEF ScanInv, RowsInv
<1>5. OneSourcePerMailbox'
  BY <1>3, <1>4 DEF HistoryInv, OneSourcePerMailbox
<1>6. QED
  BY <1>1, <1>5 DEF HistoryInv

LEMMA NextKeepsHistory ==
  ASSUME ScanInv, HistoryInv, [ScanNext]_scanVars
  PROVE  HistoryInv'
<1>1. ASSUME UNCHANGED <<sources, items, evals, waiting>> PROVE HistoryInv'
  BY <1>1, NoAppend, WaitingGrows DEF HistoryInv, OneSourcePerMailbox, OneItemPerMessage
<1>2. ASSUME NEW p \in Procs, Begin(p) \/ ScanStep(p) \/ Crash(p)
      PROVE  HistoryInv'
  <2>1. CASE RegisterSource(p)
    BY <2>1, RegisterKeepsHistory
  <2>2. CASE Admit(p)
    BY <2>2, AdmitKeepsHistory
  <2>3. CASE \/ Begin(p) \/ LookupSource(p) \/ StartScan(p) \/ ReadInbox(p) \/ FailLocally(p)
             \/ FinishScan(p) \/ RefuseFinish(p) \/ PreviewRun(p) \/ PreviewEntries(p) \/ Crash(p)
    BY <1>1, <2>3 DEF Begin, LookupSource, StartScan, ReadInbox, FailLocally, FinishScan,
       RefuseFinish, PreviewRun, PreviewEntries, Crash, rows
  <2>4. QED
    BY <1>2, <2>1, <2>2, <2>3 DEF ScanStep
<1>3. ASSUME NEW i \in Revisited, Teach(i) \/ Reevaluate(i)
      PROVE  HistoryInv'
  BY <1>3, TeachKeepsHistory, ReevaluateKeepsHistory
<1>4. CASE SetClock \/ UNCHANGED scanVars
  BY <1>1, <1>4 DEF SetClock, rows, scanVars
<1>5. QED
  BY <1>2, <1>3, <1>4 DEF ScanNext

LEMMA InitHistory == ASSUME ScanInit PROVE HistoryInv
<1>1. evals = <<>> /\ waiting = {}
  BY DEF ScanInit
<1>2. ChainInv /\ UnclassifiedItemWaits
  BY <1>1 DEF ChainInv, EvaluationsAreChained, LatestIsCurrent, UnclassifiedItemWaits
<1>3. OneSourcePerMailbox /\ OneItemPerMessage
  BY DEF ScanInit, OneSourcePerMailbox, OneItemPerMessage
<1>4. QED
  BY <1>1, <1>2, <1>3 DEF HistoryInv

(* The evaluation history is sound.                                        *)
THEOREM HistoryInvariant == ScanSpec => []HistoryInv
BY InitInv, InitHistory, NextKeepsInv, NextKeepsHistory, PTL DEF ScanSpec

(* Every variable keeps its type.                                          *)
THEOREM ScanTypes == ScanSpec => []ScanTypeOK
<1>1. ScanInv /\ HistoryInv => ScanTypeOK
  BY DEF ScanInv, RowsInv, ScansInv, HistoryInv, ChainInv, ScanTypeOK
<1>2. QED
  BY <1>1, ScanInvariant, HistoryInvariant, PTL

(* bind_gmail_profile never gives one mailbox two sources.                 *)
THEOREM MailboxHasOneSource == ScanSpec => []OneSourcePerMailbox
<1>1. HistoryInv => OneSourcePerMailbox
  BY DEF HistoryInv
<1>2. QED
  BY <1>1, HistoryInvariant, PTL

(* record_verified_gmail_intake never makes two ITEMs of one message.      *)
THEOREM MessageIsOneItem == ScanSpec => []OneItemPerMessage
<1>1. HistoryInv => OneItemPerMessage
  BY DEF HistoryInv
<1>2. QED
  BY <1>1, HistoryInvariant, PTL

(* The evaluations of an ITEM form one chain (_append_evaluation).         *)
THEOREM HistoryIsChained == ScanSpec => []EvaluationsAreChained
<1>1. HistoryInv => EvaluationsAreChained
  BY DEF HistoryInv, ChainInv
<1>2. QED
  BY <1>1, HistoryInvariant, PTL

(* An ITEM whose current evaluation, by intake or teaching, has no         *)
(* category is in unresolved work.                                         *)
THEOREM UnclassifiedIsWaiting == ScanSpec => []UnclassifiedItemWaits
<1>1. HistoryInv => UnclassifiedItemWaits
  BY DEF HistoryInv
<1>2. QED
  BY <1>1, HistoryInvariant, PTL
==============================================================================
