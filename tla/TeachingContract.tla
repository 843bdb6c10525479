--------------------------- MODULE TeachingContract ---------------------------
(***************************************************************************)
(* What teaching promises, without processes, files or locks: a decision   *)
(* goes forward stage by stage, each stage rests on what the one before    *)
(* stored, rules are only added, and an evaluation is made once, under the *)
(* configuration its teaching recorded.  Nothing here can be repeated,     *)
(* taken back or done for a teaching that is not that far.                 *)
(***************************************************************************)
CONSTANTS
  Teachings,     \* TEACH identities
  Items,
  Rules,         \* records of a sender and a category
  Configs,       \* records that hold a set of learned rules
  NoConfig, NoEvaluation

VARIABLES
  rules,      \* the learned rules
  lesson,     \* of each teaching its stage, its rule and its configuration
  evaluated   \* what each teaching made of each ITEM

contractVars == <<rules, lesson, evaluated>>

NoLesson == [stage |-> "none", rule |-> {}, cfg |-> NoConfig]

ContractInit ==
  /\ rules = {}
  /\ lesson = [t \in Teachings |-> NoLesson]
  /\ evaluated = [t \in Teachings |-> [i \in Items |-> NoEvaluation]]

Clash(r, s) == r.sender = s.sender /\ r.category # s.category

Learn(r) ==
  /\ \A s \in rules : ~Clash(r, s)
  /\ rules' = rules \cup {r}
  /\ UNCHANGED <<lesson, evaluated>>

Accept(t, r) ==
  /\ lesson[t].stage = "none"
  /\ lesson' = [lesson EXCEPT ![t] = [stage |-> "intent", rule |-> {r}, cfg |-> NoConfig]]
  /\ UNCHANGED <<rules, evaluated>>

Save(t) ==
  /\ lesson[t].stage = "intent" /\ lesson[t].rule \subseteq rules
  /\ lesson' = [lesson EXCEPT ![t].stage = "rule_saved"]
  /\ UNCHANGED <<rules, evaluated>>

(* The configuration has the rule, and no rule that is not stored.         *)
Begin(t, c) ==
  /\ lesson[t].stage = "rule_saved"
  /\ lesson[t].rule \subseteq c.learned /\ c.learned \subseteq rules
  /\ lesson' = [lesson EXCEPT ![t] =
       [stage |-> "pending_reevaluation", rule |-> lesson[t].rule, cfg |-> c]]
  /\ UNCHANGED <<rules, evaluated>>

Evaluate(t) ==
  /\ lesson[t].stage \in {"pending_reevaluation", "completed"}
  /\ evaluated' = [evaluated EXCEPT ![t] = evaluated'[t]]
  /\ \A i \in Items : evaluated'[t][i] # evaluated[t][i] =>
       evaluated[t][i] = NoEvaluation /\ evaluated'[t][i].cfg = lesson[t].cfg
  /\ UNCHANGED <<rules, lesson>>

Complete(t) ==
  /\ lesson[t].stage = "pending_reevaluation"
  /\ lesson' = [lesson EXCEPT ![t].stage = "completed"]
  /\ UNCHANGED <<rules, evaluated>>

ContractNext ==
  \/ \E r \in Rules : Learn(r)
  \/ \E t \in Teachings :
       \/ \E r \in Rules : Accept(t, r)
       \/ \E c \in Configs : Begin(t, c)
       \/ Save(t) \/ Evaluate(t) \/ Complete(t)

ContractSpec == ContractInit /\ [][ContractNext]_contractVars
==============================================================================
