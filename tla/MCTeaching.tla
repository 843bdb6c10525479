------------------------------ MODULE MCTeaching ------------------------------
(* Instances of Teaching: up to two messages of one sender, two processes. *)
EXTENDS Teaching, TLC

CONSTANTS g1, g2, srcG, t1, t2, p1, p2, catA, catB, k1, k2, sam, ann, s1, s2, srcS

MCContents  == {k1, k2}
MCSourceOf  == [i \in Items |-> IF i \in {s1, s2} THEN srcS ELSE srcG]
MCSenderOf  == [k \in MCContents |-> IF k = k1 THEN sam ELSE NoSender]
MCTwoSenders == [k \in MCContents |-> IF k = k1 THEN sam ELSE ann]
MCSymmetry  == Permutations(Procs) \cup Permutations(Teachings)

MCSeenOnce  == [i \in Items |-> <<k1>>]
MCSeenTwice == [i \in Items |-> <<k1, k1>>]
MCOneSender == [i \in Items |-> IF i = g1 THEN <<k1>> ELSE <<k2, k2>>]
MCSeenTwoSenders == [i \in Items |-> IF i = g1 THEN <<k1>> ELSE <<k2>>]
MCSeenThenLost == [i \in Items |-> <<k1, k2>>]   \* k2 has no readable sender
MCMailThenLost == [i \in Items |-> IF i \in {s1, s2} THEN <<>> ELSE <<k1, k2>>]

(* A store that a scan without learned rules has filled: every message was *)
(* observed once and waits in work of its own.                             *)
MCQueue == CHOOSE f \in [Works -> Items] : \A v, w \in Works : f[v] = f[w] => v = w

QueuedInit ==
  /\ state = [w \in Works |-> "pending"]
  /\ rep = MCQueue
  /\ member = [w \in Works |-> [i \in Items |-> IF i = MCQueue[w] THEN "pending" ELSE "absent"]]
  /\ updated = [w \in Works |-> 0]
  /\ memberLog = [w \in Works |-> [i \in Items |->
       IF i = MCQueue[w] THEN [prior |-> "absent", new |-> "pending"] ELSE NoEvent]]
  /\ workLog = [w \in Works |-> NoEvent]
  /\ learned = {}
  /\ catalog = [c \in Categories |-> "active"]
  /\ seen = [i \in Items |-> 1]
  /\ teach = [t \in Teachings |-> NoOperation]
  /\ taught = [t \in Teachings |-> [i \in Items |-> NoEvaluation]]
  /\ clock = 0
  /\ loc = [p \in Procs |-> Idle]

QueuedSpec == QueuedInit /\ [][TeachNext]_teachVars
QueuedFairSpec == QueuedSpec /\ TeachFairness
==============================================================================
