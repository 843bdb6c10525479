----------------------------- MODULE MCScanRuns ------------------------------
(* Instances of ScanRuns: two processes, two messages, runs that two       *)
(* invocations may share.                                                  *)
EXTENDS ScanRuns, TLC

CONSTANTS p1, p2, boxA, boxB, s1, s2, i1, i2, a, b, k1, k2, c1

MCNeeds == [c \in Configs |-> {k1}]

Ask(mailbox, run, limit, asOf) ==
  [mailbox |-> mailbox, run |-> run, limit |-> limit, config |-> c1, asOf |-> asOf]

MCOneRun   == {Ask(boxA, 1, 1, None), Ask(boxA, 1, 1, 0)}
MCTwoTimes == {Ask(boxB, 1, 1, 0), Ask(boxB, 2, 1, 1)}
MCRequests == MCOneRun \cup MCTwoTimes
MCRetry    == {Ask(boxA, 1, 1, 0)}

Busy == {p \in Procs : ~At(p, "idle")}

(* Two processes at one run, whose reads may differ and of which one goes  *)
(* by the clock; nobody teaches.                                           *)
SharedRun ==
  /\ \A p \in Busy : Request(p) \in MCOneRun
  /\ Cardinality({p \in Busy : Request(p).asOf = None}) <= 1
  /\ Cardinality({p \in Busy : IF scan[p].read = None THEN FALSE ELSE scan[p].read.estimate = "differs"}) <= 1
  /\ boxB \notin {sources[s] : s \in SourceIds}
  /\ \A k \in DOMAIN evals : evals[k].cause = "original_intake"

(* One process at a time, two runs of another mailbox, one message;        *)
(* teachings and reevaluations between the steps.                          *)
OneHistory ==
  /\ boxA \notin {sources[s] : s \in SourceIds}
  /\ Cardinality(Busy) <= 1
  /\ \A p \in Busy : Request(p) \in MCTwoTimes
  /\ \E m \in Messages :
       /\ \A r \in Runs : Observed(r) \cup claimed[r] \subseteq {m}
       /\ \A p \in Busy : scan[p].read # None =>
            /\ Listed(scan[p].read) \subseteq {m} /\ scan[p].read.shows \in [{m} -> Contents]
            /\ scan[p].read.whole /\ scan[p].read.estimate = "agrees"

MCFocus == SharedRun \/ OneHistory

MCSymmetry == Permutations(Procs) \cup Permutations(SourceIds) \cup Permutations(ItemIds)
                \cup Permutations(Messages)
==============================================================================
