----------------------------- MODULE MCJudgement ------------------------------
(* Three processes change a small category tree; many pairs of rules judge *)
(* a message.                                                              *)
EXTENDS Judgement, TLC

CONSTANTS p1, p2, p3, b1, b2, u1, kb1, kb2, k1, n1, n2, n3, e1, e2, d1, up, w1, w2, inbox

Root(key, name) == [keys |-> {key}, name |-> name, parent |-> None, status |-> "active",
                    origin |-> "base_override"]

MCBase == (b1 :> Root(kb1, n1)) @@ (b2 :> Root(kb2, n2))

(* Among what is asked for are moves that together close a cycle, and      *)
(* requests that another one makes illegal.                                *)
Add(i, k, n, i2)  == [op |-> "add", id |-> i, key |-> k, name |-> n, parent |-> i2]
NewName(i, n)     == [op |-> "rename", id |-> i, name |-> n]
Move(i, i2)       == [op |-> "move", id |-> i, parent |-> i2]
Retire(i)         == [op |-> "retire", id |-> i]

MCRequests ==
  {Add(u1, k1, n3, b2), NewName(b2, n3), Move(b1, b2), Move(b2, b1), Move(u1, None), Retire(b2)}

------------------------------------------------------------------------------
(* Rules: one that may recommend something, and one that may stand in its  *)
(* way.                                                                    *)
On(when) == [when |-> when, subdomains |-> FALSE]

BySender  == On([sender_emails_any |-> {e1}])
ByDomain  == [when |-> [sender_domains_any |-> {up}], subdomains |-> TRUE]
BySubject == On([subject_contains_any |-> {w1, w2}])
ByBoth    == On([sender_emails_any |-> {e1}, subject_contains_all |-> {w1}])
ByLabel   == On([label_ids_any |-> {inbox}])
ByAge     == On([min_age_days |-> {1}, max_age_days |-> {2}])
ByBody    == On([body_contains_any |-> {w1}])

Plain == [id |-> "plain", enabled |-> TRUE, kind |-> "classification", priority |-> 0,
          match |-> BySender, exclude |-> None, categories |-> {b1}, action |-> "no_action",
          state |-> None, protect |-> FALSE, retention |-> None, approved |-> FALSE]

Cleaners ==
  {[Plain EXCEPT !.id = "cleaner", !.match = spec, !.exclude = x, !.action = a] :
     spec \in {BySubject, ByBoth}, x \in {None, On([subject_contains_any |-> {w2}]), ByAge},
     a \in {"archive", "trash", "label"}}

Guards ==
  {[r EXCEPT !.id = "guard", !.match = spec] :
     spec \in {BySender, ByDomain, ByLabel, ByBody},
     r \in {[Plain EXCEPT !.protect = TRUE, !.categories = {}],
            [Plain EXCEPT !.retention = {1}, !.categories = {b2}],
            [Plain EXCEPT !.retention = {}, !.priority = 1],
            [Plain EXCEPT !.state = "Critical", !.enabled = FALSE, !.categories = {}],
            [Plain EXCEPT !.kind = "safety", !.state = "Review", !.categories = {}]}}

Others ==
  {[r EXCEPT !.id = "other", !.match = spec] :
     spec \in {BySender, BySubject, ByAge},
     r \in {[Plain EXCEPT !.categories = {b2}],
            [Plain EXCEPT !.categories = {}, !.action = "archive", !.priority = 1],
            [Plain EXCEPT !.action = "trash", !.kind = "service_specific"],
            [Plain EXCEPT !.exclude = On([label_ids_all |-> {inbox}]), !.action = "archive"],
            [Plain EXCEPT !.exclude = ByAge, !.kind = "fallback"]}}

MCSmallPolicy == {[Plain EXCEPT !.match = ByBoth, !.action = "archive"]}
MCPolicies == {MCSmallPolicy, {}} \cup {{r, s} : r \in Cleaners, s \in Guards \cup Others}

MCMails ==
  [sender : {[email |-> e1, domain |-> d1, above |-> {up}], [email |-> e2, domain |-> up, above |-> {}]},
   subject : {{}, {w1}, {w1, w2}}, labels : {{inbox}}, age : {1, 2, 4, 5}]

------------------------------------------------------------------------------
(* Every read of every message is judged under every policy while nobody   *)
(* changes categories; changes are followed under one policy and message.  *)
Untouched == catalog = <<>> /\ \A p \in Procs : At(p, "idle") /\ shown[p] = None

Followed ==
  /\ rules = MCSmallPolicy
  /\ mail = CHOOSE m \in MCMails : TRUE
  /\ read = mail

(* A bound: each process asks for one preview, at any time.                *)
AsksOnce == \A p \in Procs : At(p, "propose") /\ ~proc[p].saving => shown[p] = None

FocusedNext ==
  /\ judged = None
  /\ \/ Followed /\ AsksOnce /\ CatalogNext /\ UNCHANGED <<mail, read, judged>>
     \/ Untouched /\ Judge

FocusedSpec == JudgementInit /\ [][FocusedNext]_judgementVars

MCSymmetry == Permutations(Procs)
==============================================================================
