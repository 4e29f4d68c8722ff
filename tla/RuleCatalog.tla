----------------------------- MODULE RuleCatalog -----------------------------
(***************************************************************************)
(* The tables the rule catalog keeps and the requests that write them      *)
(* (rules/services.py _save and delete_rule, called by rules/routes.py).   *)
(*                                                                         *)
(* A PATCH or DELETE request reads the rule, then its tree by a second     *)
(* query, and only then opens the transaction that writes what it read     *)
(* back, changed.  Other requests may commit between any two of these.  A  *)
(* tree is its content, which is all that is compared of it; names, tags   *)
(* and the like are left out.                                              *)
(***************************************************************************)
EXTENDS Integers, FiniteSets

CONSTANTS
  RuleIds,   \* the ids the database gives to rules, each once
  Trees,     \* condition trees, without their node ids
  None,      \* no row, no tree, nothing sent
  Writers,   \* threads that serve requests
  MaxWrites  \* bound: how many writes commit in a behaviour

ASSUME RuleIdsAssumption == RuleIds \subseteq Nat \ {0}
ASSUME NoTreeAssumption == None \notin Trees
ASSUME MaxWritesAssumption == MaxWrites \in Nat

VARIABLES
  rule,     \* Rule rows: their revision and whether they are enabled, or None
  tree,     \* the rule's Condition rows, None with none
  written,  \* the time of the rule's last write or deletion (updated_at), 0 with none
  clock,    \* the time of the latest write of all
  matched,  \* MatchedRule rows: the rule, the revision recorded, the tree that ran
  wpc,      \* where each request is
  mine      \* the rule as each request read it

catalogVars == <<rule, tree, written, clock, matched>>
requestVars == <<wpc, mine>>

TreeOrNone == Trees \cup {None}
Rows == [rev : Nat, enabled : BOOLEAN]
Copies == [rule : RuleIds, rev : Nat, tree : TreeOrNone]
Matches == [rule : RuleIds, rev : Nat, ran : Trees]

CatalogTypeOK ==
  /\ rule \in [RuleIds -> Rows \cup {None}]
  /\ tree \in [RuleIds -> TreeOrNone]
  /\ written \in [RuleIds -> 0 .. clock]
  /\ clock \in 0 .. MaxWrites
  /\ matched \subseteq Matches
  /\ wpc \in [Writers -> {"idle", "tree", "write"}]
  /\ mine \in [Writers -> Copies \cup {None}]

CatalogInit ==
  /\ rule = [r \in RuleIds |-> None]
  /\ tree = [r \in RuleIds |-> None]
  /\ written = [r \in RuleIds |-> 0]
  /\ clock = 0
  /\ matched = {}
  /\ wpc = [w \in Writers |-> "idle"]
  /\ mine = [w \in Writers |-> None]

Exists(r) == rule[r] # None
Enabled(r) == Exists(r) /\ rule[r].enabled

(* A match the console shows: its rule is enabled, and still at the        *)
(* revision it names.                                                      *)
Shown(m) == Enabled(m.rule) /\ rule[m.rule].rev = m.rev

(* A write of rule r commits: its time is later than that of any before.   *)
Stamp(r) ==
  /\ clock < MaxWrites
  /\ clock' = clock + 1
  /\ written' = [written EXCEPT ![r] = clock + 1]

Answered(w) ==
  /\ wpc' = [wpc EXCEPT ![w] = "idle"]
  /\ mine' = [mine EXCEPT ![w] = None]

(* POST: a new rule, at the first revision, with its tree in one transaction. *)
Create(w, r, t, on) ==
  /\ wpc[w] = "idle"
  /\ ~Exists(r) /\ written[r] = 0
  /\ Stamp(r)
  /\ rule' = [rule EXCEPT ![r] = [rev |-> 1, enabled |-> on]]
  /\ tree' = [tree EXCEPT ![r] = t]
  /\ UNCHANGED <<matched, requestVars>>

(* rule_for's first query, for a PATCH or a DELETE of rule r. *)
ReadRule(w, r) ==
  /\ wpc[w] = "idle"
  /\ Exists(r)
  /\ mine' = [mine EXCEPT ![w] = [rule |-> r, rev |-> rule[r].rev, tree |-> None]]
  /\ wpc' = [wpc EXCEPT ![w] = "tree"]
  /\ UNCHANGED catalogVars

(* Its second query, the prefetched tree. *)
ReadTree(w) ==
  /\ wpc[w] = "tree"
  /\ mine' = [mine EXCEPT ![w].tree = tree[mine[w].rule]]
  /\ wpc' = [wpc EXCEPT ![w] = "write"]
  /\ UNCHANGED catalogVars

(* Whether the tree sent replaces the one the request read. *)
Replaces(w, sent) == sent # None /\ sent # mine[w].tree

(* Mistakes for SavedRevision: no write bumps it, or every write does.     *)
SameRevision(w, sent) == mine[w].rev
NextRevision(w, sent) == mine[w].rev + 1

(* The revision the row is saved with: the one read, or the one after it.  *)
SavedRevision(w, sent) == IF Replaces(w, sent) THEN mine[w].rev + 1 ELSE mine[w].rev

(* _save of a PATCH that sends a tree, or none, and enables or disables.   *)
(* The row is written whole, or inserted if it is gone; a tree that        *)
(* replaces the one read takes the place of the stored one, and deletes    *)
(* the rule's matches.  A rule without a tree is refused.                  *)
Save(w, sent, on) ==
  LET r == mine[w].rule IN
  /\ wpc[w] = "write"
  /\ sent # None \/ mine[w].tree # None
  /\ Stamp(r)
  /\ rule' = [rule EXCEPT ![r] = [rev |-> SavedRevision(w, sent), enabled |-> on]]
  /\ tree' = IF Replaces(w, sent) THEN [tree EXCEPT ![r] = sent] ELSE tree
  /\ matched' = IF Replaces(w, sent) THEN {m \in matched : m.rule # r} ELSE matched
  /\ Answered(w)

(* delete_rule: the row with everything that references it. *)
Delete(w) ==
  LET r == mine[w].rule IN
  /\ wpc[w] = "write"
  /\ Stamp(r)
  /\ rule' = [rule EXCEPT ![r] = None]
  /\ tree' = [tree EXCEPT ![r] = None]
  /\ matched' = {m \in matched : m.rule # r}
  /\ Answered(w)

(* The request is refused, or fails: its transaction is rolled back.       *)
RequestFails(w) ==
  /\ wpc[w] # "idle"
  /\ Answered(w)
  /\ UNCHANGED catalogVars

RequestStep(w) ==
  \/ \E r \in RuleIds :
       \/ \E t \in Trees, on \in BOOLEAN : Create(w, r, t, on)
       \/ ReadRule(w, r)
  \/ ReadTree(w)
  \/ \E sent \in TreeOrNone, on \in BOOLEAN : Save(w, sent, on)
  \/ Delete(w)
  \/ RequestFails(w)
=============================================================================
