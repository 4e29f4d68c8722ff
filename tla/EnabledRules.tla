----------------------------- MODULE EnabledRules -----------------------------
(***************************************************************************)
(* The index of the enabled rules an evaluation holds from tick to tick    *)
(* (rules/services.py EnabledRules), and the matches it records with the   *)
(* rules as indexed, while requests write the catalog.                     *)
(*                                                                         *)
(* EnabledRules.index runs several queries with no transaction around      *)
(* them: a fingerprint of the enabled rules, their listing, the rules to   *)
(* index again, and those rules' trees.  Each is a step, and a write may   *)
(* commit between any two.  The database is Postgres: elsewhere there is   *)
(* no fingerprint, and every call lists.  What a rule matches is left      *)
(* open: a run may record a match of any rule it has indexed with a tree.  *)
(***************************************************************************)
EXTENDS RuleCatalog, Functions

CONSTANT
  Runs  \* processes that evaluate, each with an EnabledRules of its own

VARIABLES
  xpc,        \* where each process is in EnabledRules.index, or in its run
  index,      \* _index and _indexed: per rule its revision, updated_at and tree
  built,      \* whether _index is there at all
  print,      \* _fingerprint
  newPrint,   \* the local fingerprint of the call
  expected,   \* the rules the call indexes again
  read,       \* their rows as the call read them
  began       \* the clock when the call began; only the property reads it

indexVars == <<xpc, index, built, print, newPrint, expected, read, began>>
enabledVars == <<catalogVars, requestVars, indexVars>>

Indexed == [rev : Nat, at : Nat, tree : TreeOrNone]
ReadRows == [rev : Nat, at : Nat]
IndexPcs == {"idle", "list", "rebuild", "rebuildTrees", "put", "putTrees", "run"}

(* A rule read is told from none. *)
ASSUME NoRowAssumption == None \notin ReadRows

(* The types of the index and of what a call reads into it; a fingerprint  *)
(* is only ever compared with another.                                     *)
IndexTypeOK ==
  /\ xpc \in [Runs -> IndexPcs]
  /\ index \in [Runs -> [RuleIds -> Indexed \cup {None}]]
  /\ built \in [Runs -> BOOLEAN]
  /\ expected \in [Runs -> SUBSET RuleIds]
  /\ read \in [Runs -> [RuleIds -> ReadRows \cup {None}]]
  /\ began \in [Runs -> Nat]

Nothing == [r \in RuleIds |-> None]

IndexInit ==
  /\ xpc = [e \in Runs |-> "idle"]
  /\ index = [e \in Runs |-> Nothing]
  /\ built = [e \in Runs |-> FALSE]
  /\ print = [e \in Runs |-> None]
  /\ newPrint = [e \in Runs |-> None]
  /\ expected = [e \in Runs |-> {}]
  /\ read = [e \in Runs |-> Nothing]
  /\ began = [e \in Runs |-> 0]

EnabledNow == {r \in RuleIds : Enabled(r)}

(* A mistake for Fingerprint: the times of the writes are left out. *)
FingerprintOfIds ==
  [count |-> Cardinality(EnabledNow),
   ids |-> FoldFunctionOnSet(+, 0, [r \in RuleIds |-> r], EnabledNow),
   stamps |-> 0]

(* _fingerprint: how many rules are enabled, and the sums of their ids and *)
(* of their updated_at.                                                    *)
Fingerprint ==
  [count |-> Cardinality(EnabledNow),
   ids |-> FoldFunctionOnSet(+, 0, [r \in RuleIds |-> r], EnabledNow),
   stamps |-> FoldFunctionOnSet(+, 0, written, EnabledNow)]

(* A call ends: the index is returned, and the fingerprint kept with it.   *)
Ready(e, fingerprint) ==
  /\ xpc' = [xpc EXCEPT ![e] = "run"]
  /\ print' = [print EXCEPT ![e] = fingerprint]
  /\ read' = [read EXCEPT ![e] = Nothing]
  /\ expected' = [expected EXCEPT ![e] = {}]

(* index is called, and reads the fingerprint. *)
TakeFingerprint(e) ==
  /\ xpc[e] = "idle"
  /\ began' = [began EXCEPT ![e] = clock]
  /\ newPrint' = [newPrint EXCEPT ![e] = Fingerprint]
  /\ \/ /\ ~built[e]
        /\ xpc' = [xpc EXCEPT ![e] = "rebuild"]
        /\ UNCHANGED <<print, expected, read>>
     \/ /\ built[e]
        /\ Fingerprint # print[e]
        /\ xpc' = [xpc EXCEPT ![e] = "list"]
        /\ UNCHANGED <<print, expected, read>>
     \/ /\ built[e]
        /\ Fingerprint = print[e]
        /\ Ready(e, Fingerprint)
  /\ UNCHANGED <<catalogVars, requestVars, index, built>>

(* The enabled rules not indexed, or written since they were. *)
Changed(e) ==
  {r \in EnabledNow : index[e][r] = None \/ index[e][r].at # written[r]}

(* The enabled rules are listed.  With more than half of them changed the  *)
(* index is built afresh; otherwise those no longer enabled leave it, and  *)
(* those changed are read again.                                           *)
ListRules(e) ==
  /\ xpc[e] = "list"
  /\ \/ /\ Cardinality(Changed(e)) > Cardinality(EnabledNow) \div 2
        /\ xpc' = [xpc EXCEPT ![e] = "rebuild"]
        /\ UNCHANGED <<index, print, expected, read>>
     \/ /\ Cardinality(Changed(e)) <= Cardinality(EnabledNow) \div 2
        /\ index' = [index EXCEPT ![e] =
             [r \in RuleIds |-> IF Enabled(r) THEN index[e][r] ELSE None]]
        /\ \/ /\ Changed(e) = {}
              /\ Ready(e, newPrint[e])
           \/ /\ Changed(e) # {}
              /\ expected' = [expected EXCEPT ![e] = Changed(e)]
              /\ xpc' = [xpc EXCEPT ![e] = "put"]
              /\ UNCHANGED <<print, read>>
  /\ UNCHANGED <<catalogVars, requestVars, built, newPrint, began>>

(* A mistake for ReadEnabled: the enabled filter is missing. *)
ReadExisting(S) ==
  [r \in RuleIds |->
    IF r \in S /\ Exists(r) THEN [rev |-> rule[r].rev, at |-> written[r]] ELSE None]

(* The enabled rules of a set, as one query reads them. *)
ReadEnabled(S) ==
  [r \in RuleIds |->
    IF r \in S /\ Enabled(r) THEN [rev |-> rule[r].rev, at |-> written[r]] ELSE None]

(* _rebuild and _put read the rules first... *)
ReadRules(e) ==
  /\ \/ /\ xpc[e] = "rebuild"
        /\ read' = [read EXCEPT ![e] = ReadEnabled(RuleIds)]
        /\ xpc' = [xpc EXCEPT ![e] = "rebuildTrees"]
     \/ /\ xpc[e] = "put"
        /\ read' = [read EXCEPT ![e] = ReadEnabled(expected[e])]
        /\ xpc' = [xpc EXCEPT ![e] = "putTrees"]
  /\ UNCHANGED <<catalogVars, requestVars, index, built, print, newPrint, expected, began>>

(* A rule as indexed from the row read before and the tree read now.       *)
IndexedAs(e, r, t) == [rev |-> read[e][r].rev, at |-> read[e][r].at, tree |-> t]

(* ...then their trees.  _rebuild reads those of the rules enabled by now, *)
(* so one disabled in between is indexed without a tree, and refused.      *)
ReadAllTrees(e) ==
  /\ xpc[e] = "rebuildTrees"
  /\ index' = [index EXCEPT ![e] =
       [r \in RuleIds |->
         IF read[e][r] = None THEN None
         ELSE IndexedAs(e, r, IF Enabled(r) THEN tree[r] ELSE None)]]
  /\ built' = [built EXCEPT ![e] = TRUE]
  /\ UNCHANGED <<catalogVars, requestVars, newPrint, began>>
  /\ Ready(e, newPrint[e])

(* _put reads those of the rules it read; one disabled before it was read  *)
(* leaves the index.                                                       *)
PutTrees(e) ==
  /\ xpc[e] = "putTrees"
  /\ index' = [index EXCEPT ![e] =
       [r \in RuleIds |->
         IF r \notin expected[e] THEN index[e][r]
         ELSE IF read[e][r] = None THEN None ELSE IndexedAs(e, r, tree[r])]]
  /\ UNCHANGED <<catalogVars, requestVars, built, newPrint, began>>
  /\ Ready(e, newPrint[e])

(* _record, for one block: matches of indexed rules, each with the         *)
(* revision of the rule as indexed.  A rule deleted since has no row for   *)
(* its match to reference: the insert is refused, and the run ends.        *)
Record(e, S) ==
  /\ xpc[e] = "run"
  /\ \A r \in S : index[e][r] # None /\ index[e][r].tree # None /\ Exists(r)
  /\ matched' = matched \cup
       {[rule |-> r, rev |-> index[e][r].rev, ran |-> index[e][r].tree] : r \in S}
  /\ UNCHANGED <<rule, tree, written, clock, requestVars, indexVars>>

(* The run ends, or it or its call of index raises: what is indexed so far *)
(* is kept, and with it the fingerprint of the last call that returned.    *)
EndRun(e) ==
  /\ xpc[e] # "idle"
  /\ xpc' = [xpc EXCEPT ![e] = "idle"]
  /\ newPrint' = [newPrint EXCEPT ![e] = None]
  /\ read' = [read EXCEPT ![e] = Nothing]
  /\ expected' = [expected EXCEPT ![e] = {}]
  /\ UNCHANGED <<catalogVars, requestVars, index, built, print, began>>

(* The process is started again, with an EnabledRules that holds nothing.  *)
Restart(e) ==
  /\ xpc' = [xpc EXCEPT ![e] = "idle"]
  /\ index' = [index EXCEPT ![e] = Nothing]
  /\ built' = [built EXCEPT ![e] = FALSE]
  /\ print' = [print EXCEPT ![e] = None]
  /\ newPrint' = [newPrint EXCEPT ![e] = None]
  /\ read' = [read EXCEPT ![e] = Nothing]
  /\ expected' = [expected EXCEPT ![e] = {}]
  /\ UNCHANGED <<catalogVars, requestVars, began>>

RunStep(e) ==
  \/ TakeFingerprint(e)
  \/ ListRules(e)
  \/ ReadRules(e)
  \/ ReadAllTrees(e)
  \/ PutTrees(e)
  \/ \E S \in SUBSET RuleIds : Record(e, S)
  \/ EndRun(e)
  \/ Restart(e)

EnabledRulesInit == CatalogInit /\ IndexInit

EnabledRulesNext ==
  \/ \E w \in Writers : RequestStep(w) /\ UNCHANGED indexVars
  \/ \E e \in Runs : RunStep(e)

EnabledRulesSpec == EnabledRulesInit /\ [][EnabledRulesNext]_enabledVars

(***************************************************************************)
(* Properties                                                              *)
(***************************************************************************)

(* An enabled rule is indexed as it stands, with its own tree, if nothing  *)
(* wrote it since the call of index began, whatever was written while an   *)
(* earlier call read, and whichever of the calls failed.                   *)
EnabledIndexedAsTheyStand ==
  \A e \in Runs, r \in RuleIds :
    xpc[e] = "run" /\ written[r] <= began[e] /\ Enabled(r) =>
      index[e][r] = [rev |-> rule[r].rev, at |-> written[r], tree |-> tree[r]]

(* A call that lists or reads the rules leaves no rule in the index that   *)
(* was disabled or deleted before it began, whatever earlier calls left in *)
(* it.  One that finds the fingerprint as it was may: see the README.      *)
OnlyEnabledListed ==
  [][\A e \in Runs, r \in RuleIds :
       /\ xpc[e] \in {"list", "rebuildTrees", "putTrees"} /\ xpc'[e] = "run"
       /\ written[r] <= began[e] /\ ~Enabled(r)
       => index'[e][r] = None]_enabledVars

(* Every match shown was made by the rule's current tree (_save's          *)
(* docstring), evaluations that read an earlier tree notwithstanding.      *)
ShownMatchesRanCurrentTree ==
  \A m \in matched : Shown(m) => m.ran = tree[m.rule]

(* A match shown stays, and stays shown, until a request changes its       *)
(* rule's tree, disables the rule or deletes it.                           *)
ShownUntilRevised ==
  [][\A m \in matched :
       Shown(m) /\ Enabled(m.rule)' /\ tree'[m.rule] = tree[m.rule] =>
         m \in matched' /\ Shown(m)']_enabledVars
=============================================================================
