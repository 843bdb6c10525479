--------------------------- MODULE CategoryCatalog ----------------------------
(***************************************************************************)
(* The user's changes to the category tree: categories.yaml, read by every *)
(* command and replaced by `dam categories add|rename|move|retire --save`  *)
(* (category_operations.py over categories.py).  A command first previews: *)
(* it loads the file, without a lock, and computes a change.  The user     *)
(* looks at it and repeats the command with the preview's fingerprint;     *)
(* that command computes the change again, and then once more under a      *)
(* lock, before it replaces the file.  Several processes do so at once and *)
(* any of them may fail or die at any step.                                *)
(*                                                                         *)
(* A category has one permanent identity; selectors (key, alias, identity) *)
(* are taken as resolved to it, and rules name it by it, as the keys of a  *)
(* loaded tree are distinct.  A fingerprint is the content it covers.  The *)
(* temporary file has a random name nobody reads, so it is no state.       *)
(***************************************************************************)
EXTENDS Decision

CONSTANTS
  Procs,      \* DAM processes
  Base,       \* the categories of the configuration directory
  NewIds,     \* identities new_category_id may generate
  NewKeys,    \* keys the user may give to a new category
  Names,      \* names the user may give
  Requests,   \* what the users ask for
  Learnable,  \* categories the user may name in a learned rule
  MaxSaves    \* bound on the replacements of categories.yaml

Ids  == DOMAIN Base \cup NewIds
Keys == NewKeys \cup UNION {Base[i].keys : i \in DOMAIN Base}

(* ManagedCategory: `keys` holds the key and its historical aliases.       *)
Category == [keys : SUBSET Keys, name : Names, parent : Ids \cup {None},
             status : {"active", "retired"}, origin : {"base_override", "user"}]

ASSUME CatalogAssumption ==
  /\ IsFiniteSet(Ids) /\ DOMAIN Base \cap NewIds = {} /\ None \notin Ids
  /\ Base \in [DOMAIN Base -> Category]
  /\ \A i \in DOMAIN Base : Base[i].origin = "base_override"
  /\ Learnable \subseteq Ids /\ MaxSaves \in Nat

VARIABLES
  rules,    \* the configured rules, from rules.yaml
  catalog,  \* records of categories.yaml
  learned,  \* categories that enabled learned rules name
  shown,    \* the preview each user last saw
  proc,     \* what each process holds in memory
  saves     \* number of replacements so far

catalogVars == <<rules, catalog, learned, shown, proc, saves>>

------------------------------------------------------------------------------
(* merge_categories and the validators of the tree it builds.              *)
Effective(cat) ==
  [i \in DOMAIN Base \cup DOMAIN cat |-> IF i \in DOMAIN cat THEN cat[i] ELSE Base[i]]

OverridesBase(cat) ==
  \A i \in DOMAIN cat :
     /\ cat[i].origin = "base_override" <=> i \in DOMAIN Base
     /\ i \in DOMAIN Base => cat[i].keys = Base[i].keys

KeysApart(tree) == \A i, j \in DOMAIN tree : tree[i].keys \cap tree[j].keys # {} => i = j

ParentsActive(tree) ==
  \A i \in DOMAIN tree : tree[i].parent # None =>
     /\ tree[i].parent \in DOMAIN tree
     /\ tree[i].status = "active" => tree[tree[i].parent].status = "active"

SiblingsApart(tree) ==
  \A i, j \in DOMAIN tree :
     tree[i].parent = tree[j].parent /\ tree[i].name = tree[j].name => i = j

(* No set of categories is closed under "parent of".                       *)
Acyclic(tree) ==
  ~\E S \in SUBSET DOMAIN tree : S # {} /\ \A i \in S : tree[i].parent \in S

StandsAsTree(tree) ==
  KeysApart(tree) /\ ParentsActive(tree) /\ SiblingsApart(tree) /\ Acyclic(tree)

Merges(cat) == OverridesBase(cat) /\ StandsAsTree(Effective(cat))

ActiveIn(tree) == {i \in DOMAIN tree : tree[i].status = "active"}
Active(cat)    == ActiveIn(Effective(cat))

(* Configuration.valid_category_references.                                *)
RulesApply(tree) ==
  \A r \in rules : /\ r.categories \subseteq DOMAIN tree
                   /\ r.enabled => r.categories \subseteq ActiveIn(tree)

Loads(cat) == Merges(cat) /\ RulesApply(Effective(cat))

------------------------------------------------------------------------------
(* propose_change.  A request (its forms are Kinds) names the category it  *)
(* is about (for a new one the generated identity), and a key, name or     *)
(* parent as its operation takes them.                                     *)
Kinds ==
  [op : {"add"}, id : NewIds, key : NewKeys, name : Names, parent : Ids \cup {None}]
  \cup [op : {"rename"}, id : Ids, name : Names]
  \cup [op : {"move"}, id : Ids, parent : Ids \cup {None}]
  \cup [op : {"retire"}, id : Ids]

ASSUME RequestsAssumption == Requests \subseteq Kinds

Retirement(record) == [record EXCEPT !.status = "retired"]
Rename(record, name) == [record EXCEPT !.name = name]

After(q, tree) ==
  CASE q.op = "add"    -> [keys |-> {q.key}, name |-> q.name, parent |-> q.parent,
                           status |-> "active", origin |-> "user"]
    [] q.op = "rename" -> Rename(tree[q.id], q.name)
    [] q.op = "move"   -> [tree[q.id] EXCEPT !.parent = q.parent]
    [] q.op = "retire" -> Retirement(tree[q.id])

RulesOn(i) == {r.id : r \in {s \in rules : s.enabled /\ i \in s.categories}}

(* The CategoryChange that a preview shows; `before` is catalog's record.  *)
ChangeOf(q, cat) ==
  [request |-> q, after |-> After(q, Effective(cat)), catalog |-> cat,
   references |-> IF q.op = "add" THEN {} ELSE RulesOn(q.id)]

Updated(cat, change) ==
  [i \in DOMAIN cat \cup {change.request.id} |->
     IF i = change.request.id THEN change.after ELSE cat[i]]

ParentChosen(q, tree) == q.op \in {"add", "move"} => q.parent \in ActiveIn(tree) \cup {None}

Selectable(q, tree) ==
  IF q.op = "add"
  THEN q.id \notin DOMAIN tree /\ \A i \in DOMAIN tree : q.key \notin tree[i].keys
  ELSE q.id \in DOMAIN tree /\ After(q, tree) # tree[q.id]

Retirable(q, tree, named) ==
  q.op = "retire" =>
     /\ \A i \in ActiveIn(tree) : tree[i].parent # q.id
     /\ RulesOn(q.id) = {} /\ q.id \notin named

(* The tree is built anew with the change, and the rules checked against it. *)
ValidatedFaultRulesOnly(cat) == RulesApply(Effective(cat))
Validated(cat) == Loads(cat)

(* The proposal is made, and not refused; `named` is what the learned      *)
(* rules name when they are read.                                          *)
Proposes(q, cat, named) ==
  /\ Merges(cat)
  /\ ParentChosen(q, Effective(cat))
  /\ Selectable(q, Effective(cat))
  /\ Retirable(q, Effective(cat), named)
  /\ Validated(Updated(cat, ChangeOf(q, cat)))

------------------------------------------------------------------------------
Idle    == [pc |-> "idle", request |-> None, saving |-> FALSE, read |-> None, change |-> None]

At(p, pc)     == proc[p].pc = pc
Becomes(p, l) == proc' = [proc EXCEPT ![p] = l]
Stop(p)       == Becomes(p, Idle)

(* operate_categories: configuration and catalog are loaded and merged.    *)
(* A preview of a new category draws an identity not in use.               *)
Preview(p) ==
  /\ At(p, "idle")
  /\ Loads(<<>>) /\ Merges(catalog)
  /\ \E q \in Requests :
       /\ q.op = "add" => q.id \notin DOMAIN Effective(catalog)
       /\ Becomes(p, [Idle EXCEPT !.pc = "propose", !.request = q, !.read = catalog])
  /\ UNCHANGED <<rules, catalog, learned, shown, saves>>

(* `--save --confirm-fingerprint`, with the arguments the preview printed. *)
Save(p) ==
  /\ At(p, "idle")
  /\ shown[p] # None
  /\ Loads(<<>>) /\ Merges(catalog)
  /\ Becomes(p, [Idle EXCEPT !.pc = "propose", !.request = shown[p].request,
                             !.saving = TRUE, !.read = catalog])
  /\ UNCHANGED <<rules, catalog, learned, shown, saves>>

(* The learned rules are read here, after the catalog.                     *)
Propose(p) ==
  LET q == proc[p].request   change == ChangeOf(q, proc[p].read)
      proposed == Proposes(q, proc[p].read, learned)
  IN /\ At(p, "propose")
     /\ \/ /\ proposed /\ ~proc[p].saving
           /\ shown' = [shown EXCEPT ![p] = change]
           /\ Stop(p)
        \/ /\ proposed /\ proc[p].saving /\ change = shown[p]
           /\ Becomes(p, [proc[p] EXCEPT !.pc = "lock", !.change = change])
           /\ UNCHANGED shown
        \/ /\ ~proposed \/ (proc[p].saving /\ change # shown[p])
           /\ Stop(p)
           /\ UNCHANGED shown
     /\ UNCHANGED <<rules, catalog, learned, saves>>

(* save_change holds a flock on categories.lock, which falls with its      *)
(* process, from here to its end.                                          *)
Holding == {"recheck", "replace", "sync"}
Locked  == \E p \in Procs : proc[p].pc \in Holding

Lock(p) ==
  /\ At(p, "lock")
  /\ ~Locked
  /\ Becomes(p, [proc[p] EXCEPT !.pc = "recheck"])
  /\ UNCHANGED <<rules, catalog, learned, shown, saves>>

StillHoldsFaultUnread(p) == TRUE

(* The file is loaded again, must be the one the change was computed from, *)
(* and must give the same change.                                          *)
StillHolds(p) ==
  /\ catalog = proc[p].change.catalog
  /\ Proposes(proc[p].request, catalog, learned)
  /\ ChangeOf(proc[p].request, catalog) = proc[p].change

Recheck(p) ==
  /\ At(p, "recheck")
  /\ IF StillHolds(p) THEN Becomes(p, [proc[p] EXCEPT !.pc = "replace", !.read = catalog]) ELSE Stop(p)
  /\ UNCHANGED <<rules, catalog, learned, shown, saves>>

(* os.replace of the file written from what was read under the lock.       *)
Replace(p) ==
  /\ At(p, "replace")
  /\ saves < MaxSaves
  /\ catalog' = Updated(proc[p].read, proc[p].change)
  /\ saves' = saves + 1
  /\ Becomes(p, [proc[p] EXCEPT !.pc = "sync"])
  /\ UNCHANGED <<rules, learned, shown>>

(* The directory is synced, or not: the change is in place when a failure  *)
(* is reported.                                                            *)
Return(p) ==
  /\ At(p, "sync")
  /\ Stop(p)
  /\ UNCHANGED <<rules, catalog, learned, shown, saves>>

(* OSError, or the end of the process.                                     *)
Fail(p) ==
  /\ ~At(p, "idle")
  /\ Stop(p)
  /\ UNCHANGED <<rules, catalog, learned, shown, saves>>

(* `dam learn --save` or a teaching, under another lock (module Teaching). *)
LearnRule ==
  /\ Loads(catalog) /\ learned \subseteq Active(catalog)
  /\ \E i \in Learnable \cap Active(catalog) : learned' = learned \cup {i}
  /\ UNCHANGED <<rules, catalog, shown, proc, saves>>

CatalogInit ==
  /\ catalog = <<>>
  /\ learned = {}
  /\ shown = [p \in Procs |-> None]
  /\ proc = [p \in Procs |-> Idle]
  /\ saves = 0

CatalogNext ==
  \/ \E p \in Procs : \/ Preview(p) \/ Save(p) \/ Propose(p) \/ Lock(p) \/ Recheck(p)
                      \/ Replace(p) \/ Return(p) \/ Fail(p)
  \/ LearnRule

------------------------------------------------------------------------------
(* Whatever is saved, in whatever order and by whatever processes, every   *)
(* later command can load: the tree merges with the base, has no cycle, no *)
(* clash of keys or names, no active category under a retired one, and     *)
(* every enabled configured rule names an active category.                 *)
CatalogLoads == Loads(catalog)

(* The file only ever becomes what a user saw: one change, applied to the  *)
(* very records the preview was computed from, so that no concurrent save  *)
(* is lost and none is applied twice.                                      *)
SavedAsShown ==
  [][catalog' # catalog =>
       \E p \in Procs : /\ shown[p] # None
                        /\ shown[p].catalog = catalog
                        /\ catalog' = Updated(catalog, shown[p])]_catalogVars
==============================================================================
