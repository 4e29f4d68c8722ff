---------------------------- MODULE ComposerProofs ----------------------------
(***************************************************************************)
(* What holds of the composer, of the shell's circuits and of the circuit   *)
(* in the draft, proved: for any conditions, sentences, numbers of writes,  *)
(* switches, wirings and saves under way, and for any gates, readings,      *)
(* saved circuits, boxes and nesting of groups.  Composer and CircuitEdits  *)
(* share no constant and no variable; each theorem is about one of the two. *)
(*                                                                         *)
(* The circuits shown are the server's once nothing is under way because a  *)
(* load asked for before a write is let go of when the write's answer asks  *)
(* for another.  A draft is not carried over because what a circuit's       *)
(* composer waits for was asked for there, and asking touches the draft.    *)
(*                                                                         *)
(* A circuit stays a tree whose root is a group and that has no gate twice, *)
(* whatever edit rewrites it.  What the evaluation, the walk of power and   *)
(* the drawing say of such a tree is shown for a smallest tree they could   *)
(* be wrong about, from its children.                                       *)
(***************************************************************************)
EXTENDS Composer, CircuitEdits, FiniteSetTheorems, SequenceTheorems, WellFoundedInduction, TLAPS

Saves == [for : {"new", "edit"}, condition : Complete, step : {"asked", "done"}, here : BOOLEAN]

Loads == {LoadingCircuit, [is |-> "error"]}
             \union [is : {"answered", "loaded"}, condition : Complete]

(* The types of what the invariants below look into. *)
Shapes ==
    /\ written \in Nat
    /\ lists \subseteq Nat \union {None}
    /\ rules \in Resources!ResourceOf(Nat)
    /\ toggles \in [Slots -> {"none", "asked", "done"}]
    /\ saves \subseteq Saves
    /\ stored \in Complete
    /\ load \in Loads

(* No write has been carried out that the shell has yet to load again for. *)
UpToDate ==
    /\ \A save \in saves : save.step # "done"
    /\ \A slot \in Slots : toggles[slot] # "done"
    /\ ~lost

(* Then what is shown is the server's, and so is what is to land. *)
ListInv ==
    UpToDate =>
        /\ \A version \in lists : version \in {None, written}
        /\ rules.status = "ready" => rules.data = written

(* A circuit's draft that is untouched is as loaded, and nothing is wired. *)
DraftInv ==
    sheet = "edit" /\ ~touched =>
        /\ wires = {}
        /\ load.is = "loaded" => draft = load.condition

Inv == Shapes /\ ListInv /\ DraftInv

LEMMA ComposerInitial == Init => Inv
<1> SUFFICES ASSUME Init PROVE Inv
  OBVIOUS
<1>1. Shapes
  BY DEF Init, ListInit, Shapes, Resources!ResourceOf, Resources!Unloaded, Loads
<1>2. ListInv
  BY DEF Init, ListInit, ListInv, Resources!Unloaded
<1>3. DraftInv
  BY DEF Init, DraftInv
<1> QED
  BY <1>1, <1>2, <1>3 DEF Inv

------------------------------------------------------------------------------
(* The shell's circuits. *)

(* Asking again lets go of what was asked before. *)
LEMMA RefreshIsUpToDate ==
    ASSUME Shapes, Refresh
    PROVE  /\ rules' \in Resources!ResourceOf(Nat)
           /\ lists' \subseteq Nat \union {None}
           /\ ListInv'
<1>1. /\ rules' \in Resources!ResourceOf(Nat) /\ rules'.status = "loading"
      /\ lists' = {None}
  BY DEF Refresh, Reasked, Resources!Restarted, Resources!ResourceOf, Shapes
<1> QED
  BY <1>1 DEF ListInv

LEMMA ListStepKeeps ==
    ASSUME Inv, ListStep, UNCHANGED <<stored, sheet, composeVars, saves>>
    PROVE  Inv'
<1> USE DEF Inv, Shapes
<1>1. DraftInv'
  BY DEF DraftInv, composeVars
<1>2. UNCHANGED <<stored, load, saves>>
  BY DEF composeVars
<1>3. CASE RetryList
  <2>1. UNCHANGED <<written, toggles>> /\ Refresh
    BY <1>3 DEF RetryList
  <2> QED
    BY <1>1, <1>2, <2>1, RefreshIsUpToDate
<1>4. CASE AnswerList
  <2>1. UNCHANGED <<written, rules, toggles, lost>> /\ lists' \subseteq lists \union {written}
    BY <1>4 DEF AnswerList
  <2>2. ListInv'
    BY <1>2, <2>1 DEF ListInv, UpToDate
  <2> QED
    BY <1>1, <1>2, <2>1, <2>2
<1>5. ASSUME NEW version, LandList(version)
      PROVE  Inv'
  <2>1. UNCHANGED <<written, toggles, lost>> /\ lists' \subseteq lists
    BY <1>5 DEF LandList
  <2>2. /\ rules' \in Resources!ResourceOf(Nat)
        /\ rules'.data = version
    BY <1>5 DEF LandList, Resources!Landed, Resources!ResourceOf
  <2>3. ListInv'
    BY <1>2, <1>5, <2>1, <2>2 DEF ListInv, UpToDate, LandList
  <2> QED
    BY <1>1, <1>2, <2>1, <2>2, <2>3
<1>6. CASE FailList
  <2>1. UNCHANGED <<written, toggles, lost>> /\ lists' \subseteq lists
    BY <1>6 DEF FailList
  <2>2. rules' \in Resources!ResourceOf(Nat) /\ rules'.status = "error"
    BY <1>6 DEF FailList, Resources!FailureLanded, Resources!ResourceOf
  <2>3. ListInv'
    BY <1>2, <2>1, <2>2 DEF ListInv, UpToDate
  <2> QED
    BY <1>1, <1>2, <2>1, <2>2, <2>3
<1>7. ASSUME NEW slot \in Slots, Toggle(slot)
      PROVE  Inv'
  <2>1. UNCHANGED <<written, rules, lists, lost>> /\ toggles' = [toggles EXCEPT ![slot] = "asked"]
    BY <1>7 DEF Toggle
  <2>2. toggles[slot] = "none"
    BY <1>7 DEF Toggle
  <2>3. ListInv'
    BY <1>2, <2>1, <2>2 DEF ListInv, UpToDate
  <2> QED
    BY <1>1, <1>2, <2>1, <2>3
<1>8. ASSUME NEW slot \in Slots, CarryOut(slot)
      PROVE  Inv'
  <2>1. /\ UNCHANGED <<rules, lists>> /\ written' = written + 1
        /\ toggles' = [toggles EXCEPT ![slot] = "done"]
    BY <1>8 DEF CarryOut, Write
  <2>2. ListInv'
    BY <2>1 DEF ListInv, UpToDate
  <2> QED
    BY <1>1, <1>2, <2>1, <2>2
<1>9. ASSUME NEW slot \in Slots, LandToggle(slot)
      PROVE  Inv'
  <2>1. Refresh /\ UNCHANGED written /\ toggles' = [toggles EXCEPT ![slot] = "none"]
    BY <1>9 DEF LandToggle, ToggleOver
  <2> QED
    BY <1>1, <1>2, <2>1, RefreshIsUpToDate
<1>10. ASSUME NEW slot \in Slots, FailToggle(slot)
       PROVE  Inv'
  <2>1. UNCHANGED <<written, rules, lists>> /\ toggles' = [toggles EXCEPT ![slot] = "none"]
    BY <1>10 DEF FailToggle, ToggleOver
  <2>2. lost' = (lost \/ toggles[slot] = "done")
    BY <1>10 DEF FailToggle
  <2>3. UpToDate' => UpToDate
    BY <1>2, <2>1, <2>2 DEF UpToDate
  <2>4. ListInv'
    BY <2>1, <2>3 DEF ListInv
  <2> QED
    BY <1>1, <1>2, <2>1, <2>4
<1> QED
  BY <1>3, <1>4, <1>5, <1>6, <1>7, <1>8, <1>9, <1>10 DEF ListStep

------------------------------------------------------------------------------
(* The composer. *)

(* What leaves the circuits and the saves alone leaves them up to date. *)
LEMMA ListsLeftAlone ==
    ASSUME ListInv, UNCHANGED <<listVars, saves>>
    PROVE  ListInv'
BY DEF ListInv, UpToDate, listVars

(* The next sheet has nothing in hand. *)
LEMMA MountStartsAnew ==
    ASSUME Inv, NEW next, NEW remaining \in SUBSET saves, Mount(next, remaining)
    PROVE  /\ load' \in Loads
           /\ saves' \subseteq Saves
           /\ DraftInv'
           /\ \A save \in remaining : \E moved \in saves' : moved.step = save.step
<1> USE DEF Inv, Shapes
<1>1. load' = LoadingCircuit
  BY DEF Mount, Blank
<1>2. saves' = {[save EXCEPT !.here = FALSE] : save \in remaining}
  BY DEF Mount
<1>3. ASSUME NEW save \in Saves
      PROVE  [save EXCEPT !.here = FALSE] \in Saves /\ [save EXCEPT !.here = FALSE].step = save.step
  BY DEF Saves
<1>4. DraftInv'
  BY <1>1 DEF Mount, Blank, Unmounted, DraftInv, LoadingCircuit
<1> QED
  BY <1>1, <1>2, <1>3, <1>4 DEF Loads

LEMMA GoToKeeps ==
    ASSUME Inv, NEW next, GoTo(next)
    PROVE  Inv'
<1> USE DEF Inv, Shapes
<1>1. UNCHANGED <<written, rules, lists, toggles, lost, stored>> /\ Mount(next, saves)
  BY DEF GoTo
<1>2. UpToDate' => UpToDate
  BY <1>1, MountStartsAnew DEF UpToDate
<1>3. ListInv'
  BY <1>1, <1>2 DEF ListInv
<1> QED
  BY <1>1, <1>3, MountStartsAnew

LEMMA LoadKeeps ==
    ASSUME Inv, AnswerLoad \/ LandLoad \/ FailLoad \/ RetryLoad
    PROVE  Inv'
<1> USE DEF Inv, Shapes
<1>1. UNCHANGED <<listVars, stored, sheet, wires, saves, touched>>
  BY DEF AnswerLoad, LandLoad, FailLoad, RetryLoad
<1>2. ListInv'
  BY <1>1, ListsLeftAlone
<1>3. CASE LandLoad
  <2>1. load \in [is : {"answered", "loaded"}, condition : Complete]
    BY <1>3 DEF LandLoad, Loads, LoadingCircuit
  <2>2. load' \in Loads /\ load'.condition = load.condition
    BY <1>3, <2>1 DEF LandLoad, Loads
  <2>3. draft' = load.condition
    BY <1>3 DEF LandLoad, SetDraft
  <2>4. DraftInv'
    BY <1>1, <2>2, <2>3 DEF DraftInv
  <2> QED
    BY <1>1, <1>2, <2>2, <2>4 DEF listVars
<1>4. CASE AnswerLoad \/ FailLoad \/ RetryLoad
  <2>1. load' \in Loads /\ load'.is # "loaded"
    BY <1>4 DEF AnswerLoad, FailLoad, RetryLoad, Loads, LoadingCircuit
  <2>2. DraftInv'
    BY <1>1, <2>1 DEF DraftInv
  <2> QED
    BY <1>1, <1>2, <2>1, <2>2 DEF listVars
<1> QED
  BY <1>3, <1>4

(* What is wired into an edited circuit, or edited, touches it. *)
LEMMA WiringKeeps ==
    ASSUME Inv,
           \/ \E sentence \in Sentences : Wire(sentence) \/ LandWire(sentence) \/ FailWire(sentence)
           \/ \E condition \in Conditions : Edit(condition)
    PROVE  Inv'
<1> USE DEF Inv, Shapes
<1>1. UNCHANGED <<listVars, stored, sheet, load, saves>>
  BY DEF Wire, LandWire, FailWire, Edit
<1>2. ListInv'
  BY <1>1, ListsLeftAlone
<1>3. DraftInv'
  <2>1. ASSUME NEW sentence \in Sentences, Wire(sentence)
        PROVE  DraftInv'
    BY <2>1, <1>1 DEF Wire, DraftInv
  <2>2. ASSUME NEW sentence \in Sentences, LandWire(sentence) \/ FailWire(sentence)
        PROVE  DraftInv'
    BY <2>2, <1>1 DEF LandWire, FailWire, DraftInv
  <2>3. ASSUME NEW condition \in Conditions, Edit(condition)
        PROVE  DraftInv'
    BY <2>3, <1>1 DEF Edit, DraftInv
  <2> QED
    BY <2>1, <2>2, <2>3
<1> QED
  BY <1>1, <1>2, <1>3 DEF listVars

LEMMA BacktestKeeps ==
    ASSUME Inv, RetryTest \/ \E test \in tests : FireTimer(test) \/ LandTest(test) \/ FailTest(test)
    PROVE  Inv'
<1>1. UNCHANGED <<listVars, stored, sheet, load, draft, wires, saves, touched>>
  BY DEF RetryTest, FireTimer, LandTest, FailTest
<1> QED
  BY <1>1, ListsLeftAlone DEF Inv, Shapes, DraftInv, listVars

LEMMA SavingKeeps ==
    ASSUME Inv, Save \/ \E save \in saves : CarryOutSave(save) \/ LandSave(save) \/ FailSave(save)
    PROVE  Inv'
<1> USE DEF Inv, Shapes
<1>1. CASE Save
  <2> DEFINE new == [for |-> sheet, condition |-> draft, step |-> "asked", here |-> TRUE]
  <2>1. /\ UNCHANGED <<listVars, stored, sheet, load, draft, wires, touched>>
        /\ saves' = saves \union {new}
    BY <1>1 DEF Save
  <2>2. new \in Saves
    BY <1>1 DEF Save, CanSave, Drafted, Saves
  <2>3. UpToDate' => UpToDate
    BY <2>1 DEF UpToDate, listVars
  <2>4. ListInv' /\ DraftInv'
    BY <2>1, <2>3 DEF ListInv, DraftInv, listVars
  <2> QED
    BY <2>1, <2>2, <2>4 DEF listVars
<1>2. ASSUME NEW save \in saves, CarryOutSave(save)
      PROVE  Inv'
  <2> DEFINE done == [save EXCEPT !.step = "done"]
  <2>1. /\ UNCHANGED <<rules, lists, toggles, sheet, load, draft, wires, touched>>
        /\ written' = written + 1
        /\ saves' = (saves \ {save}) \union {done}
    BY <1>2 DEF CarryOutSave, Write, composeVars
  <2>2. save \in Saves
    OBVIOUS
  <2>3. done \in Saves /\ done.step = "done"
    BY <2>2 DEF Saves
  <2>4. stored' \in Complete
    BY <1>2, <2>2 DEF CarryOutSave, Saves
  <2>5. ~UpToDate'
    BY <2>1, <2>3 DEF UpToDate
  <2>6. ListInv' /\ DraftInv'
    BY <2>1, <2>5 DEF ListInv, DraftInv
  <2> QED
    BY <2>1, <2>3, <2>4, <2>6
<1>3. ASSUME NEW save \in saves, LandSave(save)
      PROVE  Inv'
  <2>1. UNCHANGED <<written, toggles, stored>> /\ Refresh /\ Mount("journal", saves \ {save})
    BY <1>3 DEF LandSave
  <2> QED
    BY <2>1, RefreshIsUpToDate, MountStartsAnew
<1>4. ASSUME NEW save \in saves, FailSave(save)
      PROVE  Inv'
  <2>1. /\ UNCHANGED <<written, rules, lists, toggles, stored, sheet, load, draft, wires, touched>>
        /\ saves' = saves \ {save}
        /\ lost' = (lost \/ save.step = "done")
    BY <1>4 DEF FailSave
  <2>2. UpToDate' => UpToDate
    BY <2>1 DEF UpToDate
  <2>3. ListInv' /\ DraftInv'
    BY <2>1, <2>2 DEF ListInv, DraftInv
  <2> QED
    BY <2>1, <2>3
<1> QED
  BY <1>1, <1>2, <1>3, <1>4

LEMMA ComposerKeeps ==
    ASSUME Inv, [Next]_vars
    PROVE  Inv'
<1>1. CASE ComposerStep
  BY <1>1, GoToKeeps, LoadKeeps, WiringKeeps, BacktestKeeps, SavingKeeps DEF ComposerStep
<1>2. CASE ListStep /\ UNCHANGED <<stored, sheet, composeVars, saves>>
  BY <1>2, ListStepKeeps
<1>3. CASE UNCHANGED vars
  BY <1>3, ListsLeftAlone DEF vars, listVars, composeVars, Inv, Shapes, DraftInv
<1> QED
  BY <1>1, <1>2, <1>3 DEF Next

------------------------------------------------------------------------------
(* Until it is wired or edited here, an edited circuit's draft is what the   *)
(* server answered for it: what earlier sheets were waiting for never lands  *)
(* on it (ComposerSheet's effects, and its key in the shell).                 *)
THEOREM NothingIsCarriedOver == Spec => []NothingCarriedOver
<1>1. Inv => NothingCarriedOver
  BY DEF Inv, DraftInv, NothingCarriedOver, Drafted
<1> QED
  BY <1>1, ComposerInitial, ComposerKeeps, PTL DEF Spec

(* With nothing under way the circuits shown are the server's, whatever      *)
(* switches and saves were refused, crossed or were left behind (Shell's     *)
(* refresh); but for a write carried out whose answer failed, which nobody   *)
(* knows of until the circuits are loaded again.                             *)
THEOREM QuietIsSaved == Spec => []QuietShowsSaved
<1>1. Inv => QuietShowsSaved
  BY DEF Inv, ListInv, UpToDate, QuietShowsSaved
<1> QED
  BY <1>1, ComposerInitial, ComposerKeeps, PTL DEF Spec

------------------------------------------------------------------------------
(* A set of numbers has a least. *)
LEMMA LeastNatural ==
  ASSUME NEW T \in SUBSET Nat, T # {}
  PROVE  \E n \in T : \A m \in T : n <= m
<1> DEFINE R == {ss \in Nat \X Nat : ss[1] < ss[2]}
<1>1. IsWellFoundedOn(R, Nat)
  BY NatLessThanWellFounded DEF OpToRel
<1>2. \E n \in T : \A m \in T : <<m, n>> \notin R
  <2> HIDE DEF R
  <2> QED
    BY <1>1, WFMin
<1>3. PICK n \in T : \A m \in T : <<m, n>> \notin R
  BY <1>2
<1>4. \A m \in T : n <= m
  <2> SUFFICES ASSUME NEW m \in T PROVE n <= m
    OBVIOUS
  <2>1. m \in Nat /\ n \in Nat /\ <<m, n>> \notin R
    BY <1>3
  <2> QED
    BY <2>1
<1> QED
  BY <1>4

(* Of a set of ranked things one has the least rank. *)
LEMMA LeastRanked ==
  ASSUME NEW D, NEW rank, \A d \in D : rank[d] \in Nat, D # {}
  PROVE  \E d \in D : \A e \in D : rank[d] <= rank[e]
<1> DEFINE T == {rank[d] : d \in D}
<1>1. T \in SUBSET Nat /\ T # {}
  OBVIOUS
<1>2. PICK n \in T : \A m \in T : n <= m
  <2> HIDE DEF T
  <2> QED
    BY <1>1, LeastNatural
<1> QED
  BY <1>2

------------------------------------------------------------------------------
(* Recursion on what is ranked: each value is made of the values of things *)
(* of less rank (sons), and there is a function with such values.          *)
Ranked(D, rank, sons) ==
  \A d \in D : rank[d] \in Nat /\ \A e \in sons[d] : e \in D /\ rank[e] < rank[d]

Recurs(f, sons, step, d) == f[d] = step[d][[e \in sons[d] |-> f[e]]]

RecursTo(f, D, rank, sons, step, n) == \A d \in D : rank[d] < n => Recurs(f, sons, step, d)

(* Two such functions agree as far as both are. *)
LEMMA RecursionsAgree ==
  ASSUME NEW D, NEW rank, NEW sons, Ranked(D, rank, sons), NEW step, NEW n \in Nat,
         NEW f, RecursTo(f, D, rank, sons, step, n),
         NEW g, RecursTo(g, D, rank, sons, step, n),
         NEW d \in D, rank[d] < n
  PROVE  f[d] = g[d]
<1> DEFINE Bad == {e \in D : rank[e] < n /\ f[e] # g[e]}
<1> SUFFICES ASSUME Bad # {} PROVE FALSE
  OBVIOUS
<1>1. PICK e \in Bad : \A c \in Bad : rank[e] <= rank[c]
  <2>1. \A e \in Bad : rank[e] \in Nat
    BY DEF Ranked
  <2> HIDE DEF Bad
  <2> QED
    BY <2>1, LeastRanked
<1>2. \A c \in sons[e] : f[c] = g[c]
  <2> SUFFICES ASSUME NEW c \in sons[e], f[c] # g[c] PROVE FALSE
    OBVIOUS
  <2>1. c \in D /\ rank[c] < rank[e] /\ rank[e] < n /\ rank[c] \in Nat /\ rank[e] \in Nat
    BY DEF Ranked
  <2>2. c \in Bad
    BY <2>1
  <2> QED
    BY <1>1, <2>1, <2>2
<1>3. [c \in sons[e] |-> f[c]] = [c \in sons[e] |-> g[c]]
  BY <1>2
<1>4. Recurs(f, sons, step, e) /\ Recurs(g, sons, step, e)
  BY DEF RecursTo
<1> QED
  BY <1>3, <1>4 DEF Recurs

Steps(D, V, sons, step) == \A d \in D : \A vals \in [sons[d] -> V] : step[d][vals] \in V

(* There is one as far as any rank. *)
LEMMA RecursionReaches ==
  ASSUME NEW D, NEW V, V # {}, NEW rank, NEW sons, Ranked(D, rank, sons),
         NEW step, Steps(D, V, sons, step), NEW n \in Nat
  PROVE  \E f \in [D -> V] : RecursTo(f, D, rank, sons, step, n)
<1> DEFINE GoesTo(m) == \E f \in [D -> V] : RecursTo(f, D, rank, sons, step, m)
           Bad == {m \in Nat : ~GoesTo(m)}
<1> SUFFICES ASSUME Bad # {} PROVE FALSE
  OBVIOUS
<1>1. PICK m \in Bad : \A k \in Bad : m <= k
  <2>1. Bad \in SUBSET Nat
    OBVIOUS
  <2> HIDE DEF Bad
  <2> QED
    BY <2>1, LeastNatural
<1>2. CASE m = 0
  <2>1. PICK v \in V : TRUE
    OBVIOUS
  <2>2. [d \in D |-> v] \in [D -> V]
    OBVIOUS
  <2>3. \A d \in D : ~(rank[d] < m)
    BY <1>2 DEF Ranked
  <2>4. GoesTo(m)
    BY <2>2, <2>3 DEF RecursTo
  <2> QED
    BY <1>1, <2>4
<1>3. CASE m # 0
  <2>1. m - 1 \in Nat /\ m \in Nat
    BY <1>3
  <2>2. GoesTo(m - 1)
    BY <1>1, <2>1
  <2>3. PICK f \in [D -> V] : RecursTo(f, D, rank, sons, step, m - 1)
    BY <2>2
  <2> DEFINE g == [d \in D |-> IF rank[d] < m THEN step[d][[e \in sons[d] |-> f[e]]] ELSE f[d]]
  <2>4. g \in [D -> V]
    <3> SUFFICES ASSUME NEW d \in D PROVE g[d] \in V
      OBVIOUS
    <3>1. [e \in sons[d] |-> f[e]] \in [sons[d] -> V]
      BY DEF Ranked
    <3> QED
      BY <3>1 DEF Steps
  <2>5. ASSUME NEW d \in D, rank[d] < m
        PROVE  Recurs(g, sons, step, d)
    <3>1. \A e \in sons[d] : g[e] = f[e]
      <4> SUFFICES ASSUME NEW e \in sons[d] PROVE g[e] = f[e]
        OBVIOUS
      <4>1. e \in D /\ rank[e] \in Nat /\ rank[d] \in Nat /\ rank[e] < rank[d]
        BY DEF Ranked
      <4>2. rank[e] < m - 1
        BY <4>1, <2>1, <2>5
      <4>3. f[e] = step[e][[c \in sons[e] |-> f[c]]]
        BY <2>3, <4>1, <4>2 DEF Recurs, RecursTo
      <4> QED
        BY <4>1, <4>3
    <3>2. [e \in sons[d] |-> g[e]] = [e \in sons[d] |-> f[e]]
      BY <3>1
    <3> QED
      BY <2>5, <3>2 DEF Recurs
  <2> HIDE DEF g
  <2>6. GoesTo(m)
    BY <2>4, <2>5 DEF RecursTo
  <2> QED
    BY <1>1, <2>6
<1> QED
  BY <1>2, <1>3

(* There is a function each of whose values is the step of its sons'. *)
LEMMA Recursion ==
  ASSUME NEW D, NEW V, V # {}, NEW rank, NEW sons, Ranked(D, rank, sons),
         NEW step, Steps(D, V, sons, step)
  PROVE  \E f \in [D -> V] : \A d \in D : Recurs(f, sons, step, d)
<1> DEFINE Reaches(f, n) == f \in [D -> V] /\ RecursTo(f, D, rank, sons, step, n)
           far(n) == CHOOSE f : Reaches(f, n)
           g == [d \in D |-> far(rank[d] + 1)[d]]
<1>1. ASSUME NEW n \in Nat PROVE Reaches(far(n), n)
  <2>1. \E f : Reaches(f, n)
    BY RecursionReaches
  <2> QED
    BY <2>1
<1> HIDE DEF far
<1>2. g \in [D -> V]
  BY <1>1 DEF Ranked
<1>3. ASSUME NEW d \in D PROVE Recurs(g, sons, step, d)
  <2>1. rank[d] + 1 \in Nat /\ rank[d] \in Nat /\ rank[d] < rank[d] + 1
    BY DEF Ranked
  <2> DEFINE f == far(rank[d] + 1)
  <2>2. RecursTo(f, D, rank, sons, step, rank[d] + 1)
    BY <1>1, <2>1
  <2> HIDE DEF f
  <2>3. ASSUME NEW e \in sons[d] PROVE g[e] = f[e]
    <3>1. e \in D /\ rank[e] + 1 \in Nat /\ rank[e] \in Nat /\ rank[e] < rank[d]
      BY DEF Ranked
    <3> DEFINE h == far(rank[e] + 1)
    <3>2. RecursTo(h, D, rank, sons, step, rank[e] + 1)
      BY <1>1, <3>1
    <3> HIDE DEF h
    <3>3. RecursTo(f, D, rank, sons, step, rank[e] + 1)
      <4>1. \A c \in D : rank[c] < rank[e] + 1 => rank[c] < rank[d] + 1
        BY <2>1, <3>1 DEF Ranked
      <4> QED
        BY <2>2, <4>1 DEF RecursTo
    <3>4. rank[e] < rank[e] + 1
      BY <3>1
    <3>5. f[e] = h[e]
      BY <3>1, <3>2, <3>3, <3>4, RecursionsAgree
    <3> QED
      BY <3>1, <3>5 DEF h
  <2>4. [e \in sons[d] |-> g[e]] = [e \in sons[d] |-> f[e]]
    BY <2>3
  <2>5. f[d] = step[d][[e \in sons[d] |-> f[e]]]
    BY <2>1, <2>2 DEF Recurs, RecursTo
  <2>6. g[d] = f[d]
    BY DEF f
  <2> QED
    BY <2>4, <2>5, <2>6 DEF Recurs
<1> HIDE DEF g
<1> QED
  BY <1>2, <1>3

------------------------------------------------------------------------------
(* Trees. *)

NestedAt(nested, d) ==
  IF d = 0 THEN [type : {"comparison"}, id : Gates]
  ELSE [type : {"and", "or"}, children : Seq(nested[d - 1])] \union nested[d - 1]

(* As far as n, there are sets of trees each made of the one before. *)
LEMMA NestedReaches ==
  ASSUME NEW n \in Nat
  PROVE  \E f : f = [d \in 0 .. n |-> NestedAt(f, d)]
<1> DEFINE GoesTo(m) == \E f : f = [d \in 0 .. m |-> NestedAt(f, d)]
           Bad == {m \in Nat : ~GoesTo(m)}
<1> SUFFICES ASSUME Bad # {} PROVE FALSE
  OBVIOUS
<1>1. PICK m \in Bad : \A k \in Bad : m <= k
  <2>1. Bad \in SUBSET Nat
    OBVIOUS
  <2> HIDE DEF Bad
  <2> QED
    BY <2>1, LeastNatural
<1>2. CASE m = 0
  <2> DEFINE f == [d \in 0 .. m |-> [type : {"comparison"}, id : Gates]]
  <2>1. \A d \in 0 .. m : d = 0
    BY <1>2
  <2>2. f = [d \in 0 .. m |-> NestedAt(f, d)]
    BY <2>1 DEF NestedAt
  <2> QED
    BY <1>1, <2>2
<1>3. CASE m # 0
  <2>1. m - 1 \in Nat /\ m \in Nat /\ m - 1 < m
    BY <1>3
  <2>2. GoesTo(m - 1)
    BY <1>1, <2>1
  <2>3. PICK f : f = [d \in 0 .. m - 1 |-> NestedAt(f, d)]
    BY <2>2
  <2> DEFINE g == [d \in 0 .. m |-> IF d = m THEN NestedAt(f, d) ELSE f[d]]
  <2>4. ASSUME NEW d \in 0 .. m PROVE g[d] = NestedAt(g, d)
    <3>1. CASE d = 0
      <4>1. d \in 0 .. m - 1 /\ d # m /\ g[d] = f[d]
        BY <3>1, <2>1
      <4> HIDE DEF g
      <4> QED
        BY <3>1, <4>1, <2>3 DEF NestedAt
    <3>2. CASE d # 0
      <4>1. d - 1 \in 0 .. m - 1 /\ d - 1 # m /\ d - 1 \in 0 .. m
        BY <3>2, <2>1
      <4>2. g[d - 1] = f[d - 1]
        BY <4>1
      <4>3. g[d] = NestedAt(f, d)
        <5>1. CASE d = m
          BY <5>1
        <5>2. CASE d # m
          <6>1. d \in 0 .. m - 1
            BY <5>2, <2>1
          <6>2. g[d] = f[d]
            BY <5>2
          <6> HIDE DEF g
          <6> QED
            BY <6>1, <6>2, <2>3
        <5> QED
          BY <5>1, <5>2
      <4> HIDE DEF g
      <4> QED
        BY <3>2, <4>2, <4>3 DEF NestedAt
    <3> QED
      BY <3>1, <3>2
  <2>5. g = [d \in 0 .. m |-> NestedAt(g, d)]
    BY <2>4
  <2> HIDE DEF g
  <2> QED
    BY <1>1, <2>5
<1> QED
  BY <1>2, <1>3

(* And they are the same ones however far. *)
LEMMA NestedAgrees ==
  ASSUME NEW m \in Nat, NEW n \in Nat, m <= n,
         NEW f, f = [d \in 0 .. m |-> NestedAt(f, d)],
         NEW g, g = [d \in 0 .. n |-> NestedAt(g, d)]
  PROVE  \A d \in 0 .. m : f[d] = g[d]
<1> DEFINE Bad == {d \in 0 .. m : f[d] # g[d]}
<1> SUFFICES ASSUME Bad # {} PROVE FALSE
  OBVIOUS
<1>1. PICK d \in Bad : \A e \in Bad : d <= e
  <2>1. Bad \in SUBSET Nat
    OBVIOUS
  <2> HIDE DEF Bad
  <2> QED
    BY <2>1, LeastNatural
<1>2. f[d] = NestedAt(f, d) /\ g[d] = NestedAt(g, d)
  <2>1. d \in 0 .. m /\ d \in 0 .. n
    OBVIOUS
  <2> QED
    BY <2>1
<1>3. d # 0
  BY <1>1, <1>2 DEF NestedAt
<1>4. d - 1 \in 0 .. m /\ ~(d <= d - 1)
  BY <1>1, <1>3
<1>5. f[d - 1] = g[d - 1]
  BY <1>1, <1>4
<1> QED
  BY <1>1, <1>2, <1>5 DEF NestedAt

(* The sets of nested trees are what their definition says. *)
LEMMA NestedExists == Nested = [d \in Nat |-> NestedAt(Nested, d)]
<1> DEFINE Reaches(f, n) == f = [d \in 0 .. n |-> NestedAt(f, d)]
           far(n) == CHOOSE f : Reaches(f, n)
           g == [d \in Nat |-> far(d)[d]]
<1>1. ASSUME NEW n \in Nat PROVE Reaches(far(n), n)
  <2>1. \E f : Reaches(f, n)
    BY NestedReaches
  <2> QED
    BY <2>1
<1>2. ASSUME NEW d \in Nat PROVE g[d] = NestedAt(g, d)
  <2>1. far(d)[d] = NestedAt(far(d), d)
    <3>1. d \in 0 .. d
      OBVIOUS
    <3> DEFINE f == far(d)
    <3>2. f = [e \in 0 .. d |-> NestedAt(f, e)]
      BY <1>1
    <3> HIDE DEF f
    <3>3. f[d] = NestedAt(f, d)
      BY <3>1, <3>2
    <3> QED
      BY <3>3 DEF f
  <2>2. CASE d = 0
    BY <2>1, <2>2 DEF NestedAt
  <2>3. CASE d # 0
    <3>1. d - 1 \in Nat /\ d - 1 <= d /\ d - 1 \in 0 .. d - 1
      BY <2>3
    <3>2. Reaches(far(d - 1), d - 1) /\ Reaches(far(d), d)
      BY <1>1, <3>1
    <3>3. far(d - 1)[d - 1] = far(d)[d - 1]
      <4> HIDE DEF far
      <4> QED
        BY <3>1, <3>2, NestedAgrees
    <3>4. g[d - 1] = far(d)[d - 1]
      BY <3>1, <3>3
    <3>5. g[d] = NestedAt(far(d), d)
      BY <2>1
    <3> HIDE DEF g, far
    <3> QED
      BY <2>3, <3>4, <3>5 DEF NestedAt
  <2> QED
    BY <2>2, <2>3
<1>3. g = [d \in Nat |-> NestedAt(g, d)]
  BY <1>2
<1>4. \E f : f = [d \in Nat |-> NestedAt(f, d)]
  <2> HIDE DEF g
  <2> QED
    BY <1>3
<1>5. Nested = CHOOSE f : f = [d \in Nat |-> NestedAt(f, d)]
  BY DEF Nested, NestedAt
<1> QED
  BY <1>4, <1>5

(* A tree is a gate, or a group of trees nested one less. *)
LEMMA NestedUnfolds ==
  /\ Nested[0] = [type : {"comparison"}, id : Gates]
  /\ \A d \in Nat : Nested[d + 1] = [type : {"and", "or"}, children : Seq(Nested[d])] \union Nested[d]
<1>1. Nested[0] = NestedAt(Nested, 0)
  BY NestedExists
<1>2. ASSUME NEW d \in Nat
      PROVE  Nested[d + 1] = [type : {"and", "or"}, children : Seq(Nested[d])] \union Nested[d]
  <2>1. d + 1 \in Nat /\ d + 1 # 0 /\ d + 1 - 1 = d
    OBVIOUS
  <2>2. Nested[d + 1] = NestedAt(Nested, d + 1)
    BY <2>1, NestedExists
  <2> QED
    BY <2>1, <2>2 DEF NestedAt
<1> QED
  BY <1>1, <1>2 DEF NestedAt

(* A tree nested so deep is one that may be nested deeper. *)
LEMMA NestedGrows ==
  ASSUME NEW d \in Nat, NEW e \in Nat, d <= e
  PROVE  Nested[d] \subseteq Nested[e]
<1> DEFINE Bad == {n \in Nat : d <= n /\ ~(Nested[d] \subseteq Nested[n])}
<1> SUFFICES ASSUME Bad # {} PROVE FALSE
  OBVIOUS
<1>1. PICK n \in Bad : \A k \in Bad : n <= k
  <2>1. Bad \in SUBSET Nat
    OBVIOUS
  <2> HIDE DEF Bad
  <2> QED
    BY <2>1, LeastNatural
<1>2. n # d
  BY <1>1
<1>3. n - 1 \in Nat /\ d <= n - 1 /\ ~(n <= n - 1) /\ n = (n - 1) + 1
  BY <1>1, <1>2
<1>4. Nested[d] \subseteq Nested[n - 1]
  BY <1>1, <1>3
<1>5. Nested[n - 1] \subseteq Nested[n]
  BY <1>3, NestedUnfolds
<1> QED
  BY <1>1, <1>4, <1>5

AllTrees == UNION {Nested[d] : d \in Nat}

(* A tree is a gate or a group of trees nested less. *)
LEMMA TreeIs ==
  ASSUME NEW d \in Nat, NEW t \in Nested[d]
  PROVE  \/ \E id \in Gates : t = Gate(id) /\ t \in Nested[0]
         \/ \E e \in Nat : /\ e < d
                          /\ t \in [type : {"and", "or"}, children : Seq(Nested[e])]
<1> DEFINE Bad == {n \in Nat : t \in Nested[n]}
<1>1. PICK n \in Bad : \A k \in Bad : n <= k
  <2>1. Bad \in SUBSET Nat /\ Bad # {}
    OBVIOUS
  <2> HIDE DEF Bad
  <2> QED
    BY <2>1, LeastNatural
<1>2. n <= d /\ n \in Nat /\ t \in Nested[n]
  BY <1>1
<1>3. CASE n = 0
  BY <1>2, <1>3, NestedUnfolds DEF Gate
<1>4. CASE n # 0
  <2>1. n - 1 \in Nat /\ n = (n - 1) + 1 /\ n - 1 < d /\ ~(n <= n - 1)
    BY <1>2, <1>4
  <2>2. t \notin Nested[n - 1]
    BY <1>1, <2>1
  <2>3. t \in [type : {"and", "or"}, children : Seq(Nested[n - 1])]
    BY <1>2, <2>1, <2>2, NestedUnfolds
  <2> QED
    BY <2>1, <2>3
<1> QED
  BY <1>3, <1>4

(* A gate is a tree, by itself. *)
LEMMA GateIs ==
  ASSUME NEW id \in Gates
  PROVE  Gate(id) \in AllTrees /\ Gate(id) \in Trees /\ ~IsGroup(Gate(id)) /\ Gate(id).id = id
         /\ Children(Gate(id)) = {}
<1>1. Gate(id) \in Nested[0]
  BY NestedUnfolds DEF Gate
<1>2. Nested[0] \subseteq Nested[MaxNesting]
  BY NestedGrows, NestingAssumption
<1> QED
  BY <1>1, <1>2 DEF AllTrees, Trees, IsGroup, Gate, Children

Depth == [t \in AllTrees |-> CHOOSE d \in Nat : t \in Nested[d] /\ \A e \in Nat : t \in Nested[e] => d <= e]

(* Each tree has a least nesting. *)
LEMMA DepthIs ==
  ASSUME NEW t \in AllTrees
  PROVE  /\ Depth[t] \in Nat /\ t \in Nested[Depth[t]]
         /\ \A e \in Nat : t \in Nested[e] => Depth[t] <= e
<1> DEFINE Bad == {n \in Nat : t \in Nested[n]}
<1>1. PICK n \in Bad : \A k \in Bad : n <= k
  <2>1. Bad \in SUBSET Nat /\ Bad # {}
    BY DEF AllTrees
  <2> HIDE DEF Bad
  <2> QED
    BY <2>1, LeastNatural
<1>2. n \in Nat /\ t \in Nested[n] /\ \A e \in Nat : t \in Nested[e] => n <= e
  BY <1>1
<1> QED
  BY <1>2 DEF Depth

(* The two shapes of a tree. *)
LEMMA TreeShape ==
  ASSUME NEW t \in AllTrees
  PROVE  \/ \E id \in Gates : t = Gate(id)
         \/ /\ IsGroup(t) /\ t.type \in {"and", "or"} /\ t.children \in Seq(AllTrees)
            /\ t = Group(t.type, t.children) /\ Children(t) = ToSet(t.children)
<1>1. PICK d \in Nat : t \in Nested[d]
  BY DEF AllTrees
<1>2. CASE \E e \in Nat : t \in [type : {"and", "or"}, children : Seq(Nested[e])]
  <2>1. PICK e \in Nat : t \in [type : {"and", "or"}, children : Seq(Nested[e])]
    BY <1>2
  <2>2. Nested[e] \subseteq AllTrees
    BY DEF AllTrees
  <2>3. Seq(Nested[e]) \subseteq Seq(AllTrees)
    BY <2>2
  <2> QED
    BY <2>1, <2>3 DEF IsGroup, Group, Children
<1> QED
  BY <1>1, <1>2, TreeIs

(* Children are nested less. *)
LEMMA ChildrenNested ==
  ASSUME NEW t \in AllTrees
  PROVE  \A c \in Children(t) : c \in AllTrees /\ Depth[c] < Depth[t]
<1>1. Depth[t] \in Nat /\ t \in Nested[Depth[t]]
  BY DepthIs
<1>2. CASE \E id \in Gates : t = Gate(id)
  BY <1>2, GateIs
<1>3. CASE \E e \in Nat : e < Depth[t] /\ t \in [type : {"and", "or"}, children : Seq(Nested[e])]
  <2>1. PICK e \in Nat : e < Depth[t] /\ t \in [type : {"and", "or"}, children : Seq(Nested[e])]
    BY <1>3
  <2> SUFFICES ASSUME NEW c \in Children(t) PROVE c \in AllTrees /\ Depth[c] < Depth[t]
    OBVIOUS
  <2>2. c \in Nested[e]
    BY <2>1 DEF Children, IsGroup, ToSet
  <2>3. c \in AllTrees
    BY <2>2 DEF AllTrees
  <2> QED
    BY <1>1, <2>1, <2>2, <2>3, DepthIs
<1> QED
  BY <1>1, <1>2, <1>3, TreeIs

(* The trees of bounded nesting are trees. *)
LEMMA TreesAreTrees == Trees \subseteq AllTrees
BY NestingAssumption DEF Trees, AllTrees

(* A group is of the trees it is drawn from, and of as deep ones. *)
LEMMA GroupNested ==
  ASSUME NEW d \in Nat, NEW t \in Nested[d], IsGroup(t)
  PROVE  d # 0 /\ t.children \in Seq(Nested[d - 1])
<1>1. PICK e \in Nat : e < d /\ t \in [type : {"and", "or"}, children : Seq(Nested[e])]
  BY TreeIs, GateIs
<1>2. d # 0 /\ d - 1 \in Nat /\ e <= d - 1
  BY <1>1
<1>3. Nested[e] \subseteq Nested[d - 1]
  BY <1>2, NestedGrows
<1> QED
  BY <1>1, <1>2, <1>3

(* A group's children are trees. *)
LEMMA ChildrenAreTrees ==
  ASSUME NEW t \in Trees
  PROVE  \A c \in Children(t) : c \in Trees
<1> SUFFICES ASSUME NEW c \in Children(t) PROVE c \in Trees
  OBVIOUS
<1>1. IsGroup(t) /\ t \in Nested[MaxNesting] /\ MaxNesting \in Nat
  BY NestingAssumption DEF Children, Trees
<1>2. MaxNesting # 0 /\ t.children \in Seq(Nested[MaxNesting - 1])
  BY <1>1, GroupNested
<1>3. c \in Nested[MaxNesting - 1]
  BY <1>1, <1>2 DEF Children, ToSet
<1>4. MaxNesting - 1 \in Nat /\ MaxNesting - 1 <= MaxNesting
  BY <1>1, <1>2
<1> QED
  BY <1>3, <1>4, <1>1, NestedGrows DEF Trees

(* Of some trees there is one with none of them below it. *)
LEMMA SmallestTree ==
  ASSUME NEW S \in SUBSET AllTrees, S # {}
  PROVE  \E t \in S : \A c \in Children(t) : c \in AllTrees /\ c \notin S
<1>1. \A t \in S : Depth[t] \in Nat
  BY DepthIs
<1>2. PICK t \in S : \A u \in S : Depth[t] <= Depth[u]
  BY <1>1, LeastRanked
<1>3. \A c \in Children(t) : c \in AllTrees /\ Depth[c] < Depth[t] /\ Depth[c] \in Nat
  BY ChildrenNested, DepthIs
<1>4. \A c \in Children(t) : c \notin S
  BY <1>1, <1>2, <1>3
<1> QED
  BY <1>3, <1>4

Branches == [t \in Trees |-> Children(t)]

(* There is a function of trees with each value made of the children's. *)
LEMMA TreeRecursion ==
  ASSUME NEW V, V # {}, NEW step, Steps(Trees, V, Branches, step)
  PROVE  \E f \in [Trees -> V] : \A t \in Trees : Recurs(f, Branches, step, t)
<1>1. Ranked(Trees, Depth, Branches)
  BY TreesAreTrees, ChildrenNested, ChildrenAreTrees, DepthIs DEF Ranked, Branches
<1> QED
  BY <1>1, Recursion

------------------------------------------------------------------------------
(* The nodes of a tree, and its gates. *)

NodesAt(nodes, n) == {n} \union UNION {nodes[child] : child \in Children(n)}

NodesFcn == CHOOSE nodes : nodes = [n \in Trees |-> NodesAt(nodes, n)]

(* The nodes of a tree are trees, by a function on trees. *)
LEMMA NodesExist == NodesFcn \in [Trees -> SUBSET Trees] /\ NodesFcn = [n \in Trees |-> NodesAt(NodesFcn, n)]
<1> DEFINE step == [t \in Trees |-> [nodes \in [Children(t) -> SUBSET Trees] |-> NodesAt(nodes, t)]]
<1>1. Steps(Trees, SUBSET Trees, Branches, step)
  <2> SUFFICES ASSUME NEW t \in Trees, NEW nodes \in [Children(t) -> SUBSET Trees]
               PROVE  NodesAt(nodes, t) \in SUBSET Trees
    BY DEF Steps, Branches
  <2> QED
    BY DEF NodesAt
<1>2. PICK f \in [Trees -> SUBSET Trees] : \A t \in Trees : Recurs(f, Branches, step, t)
  <2> HIDE DEF step
  <2>1. SUBSET Trees # {}
    OBVIOUS
  <2> QED
    BY <1>1, <2>1, TreeRecursion
<1>3. ASSUME NEW t \in Trees PROVE f[t] = NodesAt(f, t)
  <2>1. [c \in Children(t) |-> f[c]] \in [Children(t) -> SUBSET Trees]
    BY ChildrenAreTrees
  <2>2. f[t] = NodesAt([c \in Children(t) |-> f[c]], t)
    BY <1>2, <2>1 DEF Recurs, Branches
  <2> QED
    BY <2>2 DEF NodesAt
<1>4. f = [t \in Trees |-> NodesAt(f, t)]
  BY <1>3
<1>5. NodesFcn = [n \in Trees |-> NodesAt(NodesFcn, n)]
  BY <1>4 DEF NodesFcn
<1>6. ASSUME NEW t \in Trees PROVE NodesFcn[t] = f[t]
  <2> DEFINE Bad == {n \in Trees : NodesFcn[n] # f[n]}
  <2> SUFFICES ASSUME Bad # {} PROVE FALSE
    OBVIOUS
  <2>1. PICK n \in Bad : \A c \in Children(n) : c \notin Bad
    <3>1. Bad \in SUBSET AllTrees
      BY TreesAreTrees
    <3> HIDE DEF Bad
    <3> QED
      BY <3>1, SmallestTree
  <2>2. \A c \in Children(n) : NodesFcn[c] = f[c]
    BY <2>1, ChildrenAreTrees
  <2>3. NodesAt(NodesFcn, n) = NodesAt(f, n)
    BY <2>2 DEF NodesAt
  <2> QED
    BY <1>3, <1>5, <2>3
<1> QED
  BY <1>5, <1>6

(* A tree's nodes are itself and those of its children. *)
LEMMA NodesUnfold ==
  ASSUME NEW t \in Trees
  PROVE  /\ NodesOf(t) \subseteq Trees
         /\ NodesOf(t) = {t} \union UNION {NodesOf(c) : c \in Children(t)}
<1>1. ASSUME NEW n \in Trees PROVE NodesOf(n) = NodesFcn[n]
  BY DEF NodesOf, NodesFcn, NodesAt
<1>2. NodesFcn[t] = NodesAt(NodesFcn, t) /\ NodesFcn[t] \subseteq Trees
  BY NodesExist
<1>3. \A c \in Children(t) : NodesOf(c) = NodesFcn[c]
  BY <1>1, ChildrenAreTrees
<1> QED
  BY <1>1, <1>2, <1>3 DEF NodesAt

(* A gate, or a group of trees in a row. *)
LEMMA TreeCases ==
  ASSUME NEW t \in Trees
  PROVE  \/ /\ ~IsGroup(t) /\ t.id \in Gates /\ t = Gate(t.id) /\ Children(t) = {}
         \/ /\ IsGroup(t) /\ t.type \in {"and", "or"} /\ t.children \in Seq(Trees)
            /\ t = Group(t.type, t.children)
            /\ Children(t) = {t.children[k] : k \in DOMAIN t.children}
<1>1. t \in AllTrees
  BY TreesAreTrees
<1>2. CASE \E id \in Gates : t = Gate(id)
  BY <1>2, GateIs
<1>3. CASE ~\E id \in Gates : t = Gate(id)
  <2>1. /\ IsGroup(t) /\ t.type \in {"and", "or"} /\ t.children \in Seq(AllTrees)
        /\ t = Group(t.type, t.children) /\ Children(t) = ToSet(t.children)
    BY <1>1, <1>3, TreeShape
  <2>2. t.children \in Seq(Trees)
    <3>1. Len(t.children) \in Nat /\ DOMAIN t.children = 1 .. Len(t.children)
      BY <2>1
    <3>2. \A k \in 1 .. Len(t.children) : t.children[k] \in Trees
      BY <2>1, <3>1, ChildrenAreTrees DEF ToSet
    <3> QED
      BY <2>1, <3>1, <3>2
  <2> QED
    BY <2>1, <2>2 DEF ToSet
<1> QED
  BY <1>2, <1>3

(* What a group is. *)
LEMMA GroupCase ==
  ASSUME NEW t \in Trees, IsGroup(t)
  PROVE  /\ t.type \in {"and", "or"} /\ t.children \in Seq(Trees)
         /\ t = Group(t.type, t.children)
         /\ Children(t) = {t.children[k] : k \in DOMAIN t.children}
         /\ Len(t.children) \in Nat /\ DOMAIN t.children = 1 .. Len(t.children)
         /\ \A k \in DOMAIN t.children : t.children[k] \in Trees /\ t.children[k] \in Children(t)
<1>1. /\ t.type \in {"and", "or"} /\ t.children \in Seq(Trees)
      /\ t = Group(t.type, t.children)
      /\ Children(t) = {t.children[k] : k \in DOMAIN t.children}
  BY TreeCases
<1> QED
  BY <1>1

(* A node's nodes are the tree's. *)
LEMMA NodesUnder ==
  ASSUME NEW t \in Trees, NEW n \in NodesOf(t)
  PROVE  n \in Trees /\ NodesOf(n) \subseteq NodesOf(t)
<1> DEFINE Bad == {u \in Trees : \E m \in NodesOf(u) : ~(NodesOf(m) \subseteq NodesOf(u))}
<1>1. Bad = {}
  <2> SUFFICES ASSUME Bad # {} PROVE FALSE
    OBVIOUS
  <2>1. PICK u \in Bad : \A c \in Children(u) : c \notin Bad
    <3>1. Bad \in SUBSET AllTrees
      BY TreesAreTrees
    <3> HIDE DEF Bad
    <3> QED
      BY <3>1, SmallestTree
  <2>2. PICK m \in NodesOf(u) : ~(NodesOf(m) \subseteq NodesOf(u))
    BY <2>1
  <2>3. NodesOf(u) = {u} \union UNION {NodesOf(c) : c \in Children(u)}
    BY <2>1, NodesUnfold
  <2>4. PICK c \in Children(u) : m \in NodesOf(c)
    BY <2>2, <2>3
  <2>5. NodesOf(m) \subseteq NodesOf(c)
    BY <2>1, <2>4, ChildrenAreTrees
  <2> QED
    BY <2>2, <2>3, <2>4, <2>5
<1> QED
  BY <1>1, NodesUnfold

(* A group's groups are itself and those of its children. *)
LEMMA GroupsUnfold ==
  ASSUME NEW t \in Trees
  PROVE  /\ ~IsGroup(t) => GroupsOf(t) = {}
         /\ IsGroup(t) => GroupsOf(t) = {t} \union UNION {GroupsOf(c) : c \in Children(t)}
         /\ GroupsOf(t) \subseteq Trees
         /\ \A group \in GroupsOf(t) : IsGroup(group)
<1>1. /\ NodesOf(t) \subseteq Trees
      /\ NodesOf(t) = {t} \union UNION {NodesOf(c) : c \in Children(t)}
  BY NodesUnfold
<1>2. ~IsGroup(t) => Children(t) = {}
  BY TreeCases
<1> QED
  BY <1>1, <1>2 DEF GroupsOf

(* A group's gates are those of its children. *)
LEMMA GatesUnfold ==
  ASSUME NEW t \in Trees
  PROVE  /\ ~IsGroup(t) => GatesOf(t) = {t.id}
         /\ IsGroup(t) => GatesOf(t) = UNION {GatesOf(c) : c \in Children(t)}
         /\ GatesOf(t) \subseteq Gates
<1>1. /\ NodesOf(t) \subseteq Trees
      /\ NodesOf(t) = {t} \union UNION {NodesOf(c) : c \in Children(t)}
  BY NodesUnfold
<1>2. /\ ~IsGroup(t) => GroupsOf(t) = {}
      /\ IsGroup(t) => GroupsOf(t) = {t} \union UNION {GroupsOf(c) : c \in Children(t)}
  BY GroupsUnfold
<1>3. ~IsGroup(t) => Children(t) = {}
  BY TreeCases
<1>4. GatesOf(t) = {n.id : n \in {m \in NodesOf(t) : ~IsGroup(m)}}
  BY DEF GatesOf, GroupsOf
<1>5. \A c \in Children(t) : GatesOf(c) = {n.id : n \in {m \in NodesOf(c) : ~IsGroup(m)}}
  BY DEF GatesOf, GroupsOf
<1>6. GatesOf(t) \subseteq Gates
  <2> SUFFICES ASSUME NEW n \in NodesOf(t), ~IsGroup(n) PROVE n.id \in Gates
    BY <1>4
  <2> QED
    BY <1>1, TreeCases
<1>7. IsGroup(t) => GatesOf(t) = UNION {GatesOf(c) : c \in Children(t)}
  BY <1>1, <1>4, <1>5
<1>8. ~IsGroup(t) => GatesOf(t) = {t.id}
  BY <1>1, <1>3, <1>4
<1> QED
  BY <1>6, <1>7, <1>8

(* A group has finitely many children. *)
LEMMA ChildrenFinite ==
  ASSUME NEW t \in Trees
  PROVE  IsFiniteSet(Children(t))
<1>1. CASE ~IsGroup(t)
  BY <1>1, TreeCases, FS_EmptySet
<1>2. CASE IsGroup(t)
  <2>1. /\ Len(t.children) \in Nat /\ DOMAIN t.children = 1 .. Len(t.children)
        /\ Children(t) = {t.children[k] : k \in DOMAIN t.children}
    BY <1>2, GroupCase
  <2> DEFINE f == [k \in 1 .. Len(t.children) |-> t.children[k]]
  <2>2. f \in Surjection(1 .. Len(t.children), Children(t))
    BY <2>1 DEF Surjection
  <2>3. IsFiniteSet(1 .. Len(t.children))
    <3>1. 1 \in Int /\ Len(t.children) \in Int
      BY <2>1
    <3> QED
      BY <3>1, FS_Interval
  <2> QED
    BY <2>2, <2>3, FS_Surjection
<1> QED
  BY <1>1, <1>2

(* A tree has finitely many gates. *)
LEMMA GatesFinite ==
  ASSUME NEW t \in Trees
  PROVE  IsFiniteSet(GatesOf(t))
<1> DEFINE Bad == {u \in Trees : ~IsFiniteSet(GatesOf(u))}
<1> SUFFICES ASSUME Bad # {} PROVE FALSE
  OBVIOUS
<1>1. PICK u \in Bad : \A c \in Children(u) : c \notin Bad
  <2>1. Bad \in SUBSET AllTrees
    BY TreesAreTrees
  <2> HIDE DEF Bad
  <2> QED
    BY <2>1, SmallestTree
<1>2. CASE ~IsGroup(u)
  <2>1. GatesOf(u) = {u.id}
    BY <1>1, <1>2, GatesUnfold
  <2>2. IsFiniteSet({u.id})
    BY FS_Singleton
  <2>3. IsFiniteSet(GatesOf(u))
    BY <2>1, <2>2
  <2> QED
    BY <1>1, <2>3
<1>3. CASE IsGroup(u)
  <2> DEFINE S == {GatesOf(c) : c \in Children(u)}
             f == [c \in Children(u) |-> GatesOf(c)]
  <2>1. GatesOf(u) = UNION S
    BY <1>1, <1>3, GatesUnfold
  <2>2. f \in Surjection(Children(u), S)
    BY DEF Surjection
  <2>3. IsFiniteSet(S)
    BY <1>1, <2>2, ChildrenFinite, FS_Surjection
  <2>4. \A T \in S : IsFiniteSet(T)
    BY <1>1, ChildrenAreTrees
  <2> HIDE DEF S
  <2>5. IsFiniteSet(UNION S)
    BY <2>3, <2>4, FS_UNION
  <2> QED
    BY <1>1, <2>1, <2>5
<1> QED
  BY <1>2, <1>3

(* No gate is twice in a group if none is in two children, or twice *)
(* in one.                                                          *)
LEMMA DiffersUnfolds ==
  ASSUME NEW t \in Trees
  PROVE  /\ ~IsGroup(t) => GatesDiffer(t)
         /\ IsGroup(t) =>
              (GatesDiffer(t) <=>
                 /\ \A j, k \in DOMAIN t.children :
                      j # k => GatesOf(t.children[j]) \intersect GatesOf(t.children[k]) = {}
                 /\ \A c \in Children(t) : GatesDiffer(c))
<1>1. /\ ~IsGroup(t) => GroupsOf(t) = {}
      /\ IsGroup(t) => GroupsOf(t) = {t} \union UNION {GroupsOf(c) : c \in Children(t)}
  BY GroupsUnfold
<1> DEFINE P(g) == \A j, k \in DOMAIN g.children :
                      j # k => GatesOf(g.children[j]) \intersect GatesOf(g.children[k]) = {}
<1>2. GatesDiffer(t) <=> \A g \in GroupsOf(t) : P(g)
  BY DEF GatesDiffer
<1>3. \A c \in Children(t) : GatesDiffer(c) <=> \A g \in GroupsOf(c) : P(g)
  BY DEF GatesDiffer
<1>4. ~IsGroup(t) => GatesDiffer(t)
  BY <1>1, <1>2
<1>5. IsGroup(t) => (GatesDiffer(t) <=> P(t) /\ \A c \in Children(t) : GatesDiffer(c))
  <2> HIDE DEF P
  <2> QED
    BY <1>1, <1>2, <1>3
<1> QED
  BY <1>4, <1>5

(* No group is empty if a group is not and none of its children has one. *)
LEMMA DrawableUnfolds ==
  ASSUME NEW t \in Trees
  PROVE  /\ ~IsGroup(t) => Drawable(t)
         /\ IsGroup(t) => (Drawable(t) <=> t.children # <<>> /\ \A c \in Children(t) : Drawable(c))
<1>1. /\ ~IsGroup(t) => GroupsOf(t) = {}
      /\ IsGroup(t) => GroupsOf(t) = {t} \union UNION {GroupsOf(c) : c \in Children(t)}
  BY GroupsUnfold
<1> QED
  BY <1>1 DEF Drawable

(* Trees in a row are all nested no deeper than some number. *)
LEMMA RowNested ==
  ASSUME NEW s \in Seq(AllTrees)
  PROVE  \E d \in Nat : s \in Seq(Nested[d])
<1>1. Len(s) \in Nat /\ DOMAIN s = 1 .. Len(s) /\ \A k \in 1 .. Len(s) : s[k] \in AllTrees
  OBVIOUS
<1> DEFINE Within(n, d) == \A k \in 1 .. n : s[k] \in Nested[d]
           Bad == {n \in 0 .. Len(s) : ~\E d \in Nat : Within(n, d)}
<1>2. Bad = {}
  <2> SUFFICES ASSUME Bad # {} PROVE FALSE
    OBVIOUS
  <2>1. PICK n \in Bad : \A m \in Bad : n <= m
    <3>1. Bad \in SUBSET Nat
      BY <1>1
    <3> HIDE DEF Bad
    <3> QED
      BY <3>1, LeastNatural
  <2>2. n # 0
    <3> SUFFICES ASSUME n = 0 PROVE FALSE
      OBVIOUS
    <3>1. Within(n, 0)
      OBVIOUS
    <3> QED
      BY <3>1
  <2>3. n \in Nat /\ n - 1 \in 0 .. Len(s) /\ ~(n <= n - 1) /\ n \in 1 .. Len(s)
    BY <2>2, <1>1
  <2>4. PICK d \in Nat : Within(n - 1, d)
    <3>1. n - 1 \notin Bad
      BY <2>1, <2>3
    <3> QED
      BY <3>1, <2>3
  <2>5. Depth[s[n]] \in Nat /\ s[n] \in Nested[Depth[s[n]]]
    BY <1>1, <2>3, DepthIs
  <2> DEFINE e == d + Depth[s[n]]
  <2>6. e \in Nat /\ d <= e /\ Depth[s[n]] <= e
    <3> HIDE DEF Bad, Within
    <3> QED
      BY <2>5
  <2> HIDE DEF e
  <2>7. Nested[d] \subseteq Nested[e] /\ Nested[Depth[s[n]]] \subseteq Nested[e]
    BY <2>5, <2>6, NestedGrows
  <2>8. Within(n, e)
    <3> SUFFICES ASSUME NEW k \in 1 .. n PROVE s[k] \in Nested[e]
      OBVIOUS
    <3>1. k = n \/ k \in 1 .. n - 1
      BY <2>3
    <3> QED
      BY <3>1, <2>4, <2>5, <2>7
  <2>9. e \in Nat
    BY <2>6
  <2> HIDE DEF Within
  <2> QED
    BY <2>1, <2>8, <2>9
<1>3. PICK d \in Nat : Within(Len(s), d)
  <2>1. Len(s) \in 0 .. Len(s)
    BY <1>1
  <2> HIDE DEF Within
  <2> QED
    BY <2>1, <1>2
<1> QED
  BY <1>1, <1>3

(* So they make a tree. *)
LEMMA GroupsAreTrees ==
  ASSUME NEW s \in Seq(AllTrees), NEW type \in {"and", "or"}
  PROVE  Group(type, s) \in AllTrees
<1>1. PICK d \in Nat : s \in Seq(Nested[d])
  BY RowNested
<1>2. Group(type, s) \in Nested[d + 1] /\ d + 1 \in Nat
  BY <1>1, NestedUnfolds DEF Group
<1> QED
  BY <1>2 DEF AllTrees

(* A group of a row of trees has that row and that type. *)
LEMMA GroupParts ==
  ASSUME NEW s, NEW type \in {"and", "or"}
  PROVE  /\ IsGroup(Group(type, s))
         /\ Group(type, s).type = type /\ Group(type, s).children = s
         /\ Children(Group(type, s)) = {s[k] : k \in DOMAIN s}
BY DEF IsGroup, Group, Children, ToSet

(* Trees with a bound on their nesting. *)
LEMMA GroupOfNested ==
  ASSUME NEW d \in Nat, d # 0, NEW s \in Seq(Nested[d - 1]), NEW type \in {"and", "or"}
  PROVE  Group(type, s) \in Nested[d]
<1>1. d - 1 \in Nat /\ (d - 1) + 1 = d
  OBVIOUS
<1> QED
  BY <1>1, NestedUnfolds DEF Group

------------------------------------------------------------------------------
(* Values along a row, each made of the one before. *)
Advances(m, n, V, next) == \A k \in m .. n : \A v \in V : k # m => next[k][v] \in V

Runs(f, m, n, first, next) ==
  /\ m <= n => f[m] = first
  /\ \A k \in m .. n : k # m => f[k] = next[k][f[k - 1]]

(* Values along a row, each made of the one before, exist. *)
LEMMA Along ==
  ASSUME NEW m \in Nat, NEW n \in Nat, NEW V, NEW first \in V, NEW next, Advances(m, n, V, next)
  PROVE  \E f \in [m .. n -> V] : Runs(f, m, n, first, next)
<1> DEFINE D == m .. n
           rank == [k \in D |-> k]
           sons == [k \in D |-> IF k = m THEN {} ELSE {k - 1}]
           step == [k \in D |-> [vals \in [sons[k] -> V] |-> IF k = m THEN first ELSE next[k][vals[k - 1]]]]
<1>1. Ranked(D, rank, sons)
  <2> SUFFICES ASSUME NEW k \in D PROVE rank[k] \in Nat /\ \A e \in sons[k] : e \in D /\ rank[e] < rank[k]
    BY DEF Ranked
  <2>1. rank[k] = k /\ k \in Nat
    OBVIOUS
  <2>2. ASSUME k # m PROVE k - 1 \in D /\ rank[k - 1] = k - 1 /\ k - 1 < k
    BY <2>1, <2>2
  <2>3. sons[k] = IF k = m THEN {} ELSE {k - 1}
    OBVIOUS
  <2> HIDE DEF rank, sons, D
  <2> QED
    BY <2>1, <2>2, <2>3
<1>2. Steps(D, V, sons, step)
  <2> SUFFICES ASSUME NEW k \in D, NEW vals \in [sons[k] -> V] PROVE step[k][vals] \in V
    BY DEF Steps
  <2>1. step[k][vals] = IF k = m THEN first ELSE next[k][vals[k - 1]]
    OBVIOUS
  <2>2. ASSUME k # m PROVE vals[k - 1] \in V /\ k \in m .. n
    <3>1. sons[k] = {k - 1}
      BY <2>2
    <3> HIDE DEF sons
    <3> QED
      BY <3>1, <2>2
  <2> HIDE DEF step
  <2> QED
    BY <2>1, <2>2 DEF Advances
<1>3. PICK f \in [D -> V] : \A k \in D : Recurs(f, sons, step, k)
  <2> HIDE DEF D, rank, sons, step
  <2> QED
    BY <1>1, <1>2, Recursion
<1>4. ASSUME NEW k \in D PROVE f[k] = IF k = m THEN first ELSE next[k][f[k - 1]]
  <2> DEFINE vals == [e \in sons[k] |-> f[e]]
  <2>1. sons[k] = IF k = m THEN {} ELSE {k - 1}
    OBVIOUS
  <2>2. k # m => k - 1 \in D
    OBVIOUS
  <2>3. vals \in [sons[k] -> V]
    <3> HIDE DEF sons, D
    <3> QED
      BY <2>1, <2>2
  <2>4. step[k][vals] = IF k = m THEN first ELSE next[k][vals[k - 1]]
    <3> HIDE DEF vals
    <3> QED
      BY <2>3
  <2>5. k # m => vals[k - 1] = f[k - 1]
    <3> HIDE DEF sons
    <3> QED
      BY <2>1
  <2>6. f[k] = step[k][vals]
    <3> HIDE DEF step, sons, D
    <3> QED
      BY <1>3 DEF Recurs
  <2> HIDE DEF step, vals
  <2> QED
    BY <2>4, <2>5, <2>6
<1>5. m <= n => f[m] = first
  <2>1. m <= n => m \in D
    OBVIOUS
  <2> HIDE DEF D
  <2> QED
    BY <2>1, <1>4
<1>6. \A k \in m .. n : k # m => f[k] = next[k][f[k - 1]]
  BY <1>4
<1> QED
  BY <1>5, <1>6 DEF Runs

(* What is so at the first of a row, and at each if at the one before, is so at all. *)
LEMMA AlongHolds ==
  ASSUME NEW m \in Nat, NEW n \in Nat, NEW S, m \in S,
         \A k \in m + 1 .. n : k - 1 \in S => k \in S
  PROVE  \A k \in m .. n : k \in S
<1> DEFINE Bad == {k \in m .. n : k \notin S}
<1> SUFFICES ASSUME Bad # {} PROVE FALSE
  OBVIOUS
<1>1. PICK k \in Bad : \A j \in Bad : k <= j
  <2>1. Bad \in SUBSET Nat
    OBVIOUS
  <2> HIDE DEF Bad
  <2> QED
    BY <2>1, LeastNatural
<1>2. k # m /\ k \in m .. n /\ k \notin S
  BY <1>1
<1>3. k \in m + 1 .. n /\ k - 1 \in m .. n /\ ~(k <= k - 1)
  BY <1>2
<1>4. k - 1 \in S
  BY <1>1, <1>3
<1> QED
  BY <1>2, <1>3, <1>4

------------------------------------------------------------------------------
(* Sequences made one. *)

Flattened(ss, n, flat) ==
  /\ \A i \in DOMAIN flat : \E k \in 1 .. n : \E j \in DOMAIN ss[k] : flat[i] = ss[k][j]
  /\ \A k \in 1 .. n : \A j \in DOMAIN ss[k] : \E i \in DOMAIN flat : flat[i] = ss[k][j]
  /\ \A h, i \in DOMAIN flat :
       h < i => \E k, l \in 1 .. n : \E j \in DOMAIN ss[k], m \in DOMAIN ss[l] :
                  flat[h] = ss[k][j] /\ flat[i] = ss[l][m] /\ (k < l \/ (k = l /\ j < m))

(* One row more of the rows made one. *)
LEMMA FlattenedMore ==
  ASSUME NEW T, NEW ss \in Seq(Seq(T)), NEW n \in 2 .. Len(ss), NEW flat \in Seq(T), Flattened(ss, n - 1, flat)
  PROVE  Flattened(ss, n, flat \o ss[n]) /\ flat \o ss[n] \in Seq(T)
<1>1. ss[n] \in Seq(T) /\ Len(ss[n]) \in Nat /\ Len(flat) \in Nat /\ n \in Nat /\ n - 1 \in Nat
  OBVIOUS
<1> DEFINE more == flat \o ss[n]
<1>2. /\ more \in Seq(T) /\ Len(more) = Len(flat) + Len(ss[n])
      /\ DOMAIN more = 1 .. Len(flat) + Len(ss[n])
      /\ DOMAIN flat = 1 .. Len(flat) /\ DOMAIN ss[n] = 1 .. Len(ss[n])
      /\ \A i \in 1 .. Len(flat) : more[i] = flat[i]
      /\ \A j \in 1 .. Len(ss[n]) : more[Len(flat) + j] = ss[n][j]
  BY <1>1
<1> HIDE DEF more
<1>3. n \in 1 .. n /\ \A k \in 1 .. n - 1 : k \in 1 .. n /\ k < n
  BY <1>1
<1>4. ASSUME NEW i \in DOMAIN more
      PROVE  \/ i \in DOMAIN flat /\ more[i] = flat[i]
             \/ i - Len(flat) \in DOMAIN ss[n] /\ more[i] = ss[n][i - Len(flat)] /\ i \notin DOMAIN flat
  <2>1. CASE i \in DOMAIN flat
    BY <1>2, <2>1
  <2>2. CASE i \notin DOMAIN flat
    <3>1. i \in 1 .. Len(flat) + Len(ss[n]) /\ i \notin 1 .. Len(flat)
      BY <1>2, <2>2
    <3>2. i - Len(flat) \in 1 .. Len(ss[n]) /\ Len(flat) + (i - Len(flat)) = i
      BY <1>1, <3>1
    <3> QED
      BY <1>2, <2>2, <3>2
  <2> QED
    BY <2>1, <2>2
<1>5. \A i \in DOMAIN more : \E k \in 1 .. n : \E j \in DOMAIN ss[k] : more[i] = ss[k][j]
  <2> SUFFICES ASSUME NEW i \in DOMAIN more PROVE \E k \in 1 .. n : \E j \in DOMAIN ss[k] : more[i] = ss[k][j]
    OBVIOUS
  <2>1. CASE i \in DOMAIN flat
    <3>1. PICK k \in 1 .. n - 1 : \E j \in DOMAIN ss[k] : flat[i] = ss[k][j]
      BY <2>1 DEF Flattened
    <3> QED
      BY <1>2, <1>3, <2>1, <3>1
  <2>2. CASE i \notin DOMAIN flat
    BY <1>3, <1>4, <2>2
  <2> QED
    BY <2>1, <2>2
<1>6. \A k \in 1 .. n : \A j \in DOMAIN ss[k] : \E i \in DOMAIN more : more[i] = ss[k][j]
  <2> SUFFICES ASSUME NEW k \in 1 .. n, NEW j \in DOMAIN ss[k] PROVE \E i \in DOMAIN more : more[i] = ss[k][j]
    OBVIOUS
  <2>1. CASE k = n
    <3>1. Len(flat) + j \in DOMAIN more
      BY <1>1, <1>2, <2>1
    <3> QED
      BY <1>2, <2>1, <3>1
  <2>2. CASE k # n
    <3>1. k \in 1 .. n - 1
      BY <2>2, <1>1
    <3>2. PICK i \in DOMAIN flat : flat[i] = ss[k][j]
      BY <3>1 DEF Flattened
    <3>3. i \in DOMAIN more /\ more[i] = flat[i]
      BY <1>1, <1>2
    <3> QED
      BY <3>2, <3>3
  <2> QED
    BY <2>1, <2>2
<1>7. ASSUME NEW h \in DOMAIN more, NEW i \in DOMAIN more, h < i
      PROVE  \E k, l \in 1 .. n : \E j \in DOMAIN ss[k], m \in DOMAIN ss[l] :
                  more[h] = ss[k][j] /\ more[i] = ss[l][m] /\ (k < l \/ (k = l /\ j < m))
  <2>1. CASE i \in DOMAIN flat
    <3>1. h \in DOMAIN flat /\ more[h] = flat[h] /\ more[i] = flat[i]
      BY <1>1, <1>2, <1>7, <2>1
    <3>2. PICK k \in 1 .. n - 1, l \in 1 .. n - 1 : \E j \in DOMAIN ss[k], m \in DOMAIN ss[l] :
             flat[h] = ss[k][j] /\ flat[i] = ss[l][m] /\ (k < l \/ (k = l /\ j < m))
      BY <1>7, <2>1, <3>1 DEF Flattened
    <3> QED
      BY <1>3, <3>1, <3>2
  <2>2. CASE i \notin DOMAIN flat /\ h \in DOMAIN flat
    <3>1. more[h] = flat[h] /\ i - Len(flat) \in DOMAIN ss[n] /\ more[i] = ss[n][i - Len(flat)]
      BY <1>2, <1>4, <2>2
    <3>2. PICK k \in 1 .. n - 1 : \E j \in DOMAIN ss[k] : flat[h] = ss[k][j]
      BY <2>2 DEF Flattened
    <3> QED
      BY <1>3, <3>1, <3>2
  <2>3. CASE i \notin DOMAIN flat /\ h \notin DOMAIN flat
    <3>1. /\ h - Len(flat) \in DOMAIN ss[n] /\ more[h] = ss[n][h - Len(flat)]
          /\ i - Len(flat) \in DOMAIN ss[n] /\ more[i] = ss[n][i - Len(flat)]
      BY <1>4, <2>3
    <3>2. h - Len(flat) < i - Len(flat)
      BY <1>1, <1>2, <1>7
    <3> QED
      BY <1>3, <3>1, <3>2
  <2> QED
    BY <2>1, <2>2, <2>3
<1>8. Flattened(ss, n, more)
  BY <1>5, <1>6, <1>7 DEF Flattened
<1> QED
  BY <1>2, <1>8 DEF more

(* Rows made one have the elements of each, in order. *)
LEMMA FlattenIs ==
  ASSUME NEW T, NEW ss \in Seq(Seq(T))
  PROVE  FlattenSeq(ss) \in Seq(T) /\ Flattened(ss, Len(ss), FlattenSeq(ss))
<1>1. Len(ss) \in Nat /\ DOMAIN ss = 1 .. Len(ss) /\ \A k \in 1 .. Len(ss) : ss[k] \in Seq(T)
  OBVIOUS
<1>2. CASE Len(ss) = 0
  <2>1. FlattenSeq(ss) = <<>>
    BY <1>2 DEF FlattenSeq
  <2>2. DOMAIN FlattenSeq(ss) = {} /\ 1 .. Len(ss) = {} /\ FlattenSeq(ss) \in Seq(T)
    BY <1>2, <2>1
  <2> QED
    BY <2>2 DEF Flattened
<1>3. CASE Len(ss) # 0
  <2> DEFINE Is(f) == f = [i \in 1 .. Len(ss) |-> IF i = 1 THEN ss[i] ELSE f[i - 1] \o ss[i]]
             flatten == CHOOSE f : Is(f)
  <2>1. FlattenSeq(ss) = flatten[Len(ss)]
    BY <1>3 DEF FlattenSeq
  <2>2. \E f : Is(f)
    <3> DEFINE next == [k \in 1 .. Len(ss) |-> [v \in Seq(T) |-> v \o ss[k]]]
    <3>1. \A k \in 1 .. Len(ss) : \A v \in Seq(T) : next[k][v] = v \o ss[k] /\ v \o ss[k] \in Seq(T)
      BY <1>1
    <3>2. ss[1] \in Seq(T) /\ 1 \in Nat /\ 1 <= Len(ss)
      BY <1>1, <1>3
    <3> HIDE DEF next, Is, flatten
    <3>3. PICK f \in [1 .. Len(ss) -> Seq(T)] : Runs(f, 1, Len(ss), ss[1], next)
      <4>1. Advances(1, Len(ss), Seq(T), next)
        BY <3>1 DEF Advances
      <4> QED
        BY <1>1, <3>2, <4>1, Along
    <3>4. ASSUME NEW k \in 1 .. Len(ss) PROVE f[k] = IF k = 1 THEN ss[k] ELSE f[k - 1] \o ss[k]
      <4>1. CASE k = 1
        BY <4>1, <3>2, <3>3, <1>1 DEF Runs
      <4>2. CASE k # 1
        <5>1. k - 1 \in 1 .. Len(ss)
          BY <4>2, <1>1
        <5> QED
          BY <4>2, <5>1, <3>1, <3>2, <3>3 DEF Runs
      <4> QED
        BY <4>1, <4>2
    <3>5. f = [i \in 1 .. Len(ss) |-> IF i = 1 THEN ss[i] ELSE f[i - 1] \o ss[i]]
      BY <3>4
    <3> QED
      BY <3>5 DEF Is
  <2>3. Is(flatten)
    <3> HIDE DEF Is
    <3> QED
      BY <2>2
  <2>4. \A i \in 1 .. Len(ss) : flatten[i] = IF i = 1 THEN ss[i] ELSE flatten[i - 1] \o ss[i]
    <3> HIDE DEF flatten
    <3> QED
      BY <2>3
  <2> HIDE DEF flatten, Is
  <2> DEFINE S == {i \in 1 .. Len(ss) : flatten[i] \in Seq(T) /\ Flattened(ss, i, flatten[i])}
  <2>5. 1 \in S
    <3>1. 1 \in 1 .. Len(ss)
      BY <1>1, <1>3
    <3>2. flatten[1] = ss[1] /\ ss[1] \in Seq(T)
      BY <2>4, <3>1, <1>1
    <3>3. 1 \in 1 .. 1 /\ \A k \in 1 .. 1 : k = 1
      OBVIOUS
    <3>4. Flattened(ss, 1, ss[1])
      BY <3>3 DEF Flattened
    <3> QED
      BY <3>1, <3>2, <3>4
  <2>6. \A i \in 1 + 1 .. Len(ss) : i - 1 \in S => i \in S
    <3> SUFFICES ASSUME NEW i \in 2 .. Len(ss), i - 1 \in S PROVE i \in S
      OBVIOUS
    <3>1. flatten[i - 1] \in Seq(T) /\ Flattened(ss, i - 1, flatten[i - 1])
      OBVIOUS
    <3>2. i \in 1 .. Len(ss) /\ i # 1
      BY <1>1
    <3>3. flatten[i] = flatten[i - 1] \o ss[i]
      BY <2>4, <3>2
    <3> QED
      BY <3>1, <3>2, <3>3, FlattenedMore
  <2>7. Len(ss) \in S
    <3>1. Len(ss) \in 1 .. Len(ss)
      BY <1>1, <1>3
    <3> HIDE DEF S
    <3> QED
      BY <1>1, <2>5, <2>6, <3>1, AlongHolds
  <2> QED
    BY <2>1, <2>7
<1> QED
  BY <1>2, <1>3

------------------------------------------------------------------------------
(* Evaluation. *)

(* What a finding is, of a group whose children's are known. *)
LEMMA FindingIs ==
  ASSUME NEW K \in SUBSET Findings, NEW type \in {"and", "or"}
  PROVE  /\ Finding(type, K) \in Findings
         /\ type = "and" => /\ Finding(type, K) = "open" <=> "open" \in K
                            /\ Finding(type, K) = "held" <=> \A x \in K : x = "held"
         /\ type = "or" => /\ Finding(type, K) = "held" <=> "held" \in K
                           /\ Finding(type, K) = "open" <=> \A x \in K : x = "open"
<1>1. CASE type = "and"
  <2>1. Finding(type, K) = IF "open" \in K THEN "open" ELSE IF "unknown" \in K THEN "unknown" ELSE "held"
    BY <1>1 DEF Finding
  <2> QED
    BY <1>1, <2>1 DEF Findings
<1>2. CASE type = "or"
  <2>1. Finding(type, K) = IF "held" \in K THEN "held" ELSE IF "unknown" \in K THEN "unknown" ELSE "open"
    BY <1>2 DEF Finding
  <2> QED
    BY <1>2, <2>1 DEF Findings
<1> QED
  BY <1>1, <1>2

(* The findings differ. *)
LEMMA FindingsDiffer == "held" # "open" /\ "held" # "unknown" /\ "open" # "unknown"
OBVIOUS

(* Two groups of one type find the same if their children tell the same of *)
(* what settles it and of what leaves it alone.                            *)
LEMMA FindingsAgree ==
  ASSUME NEW K \in SUBSET Findings, NEW L \in SUBSET Findings, NEW type \in {"and", "or"},
         type = "and" => /\ "open" \in K <=> "open" \in L
                         /\ (\A x \in K : x = "held") <=> (\A x \in L : x = "held"),
         type = "or" => /\ "held" \in K <=> "held" \in L
                        /\ (\A x \in K : x = "open") <=> (\A x \in L : x = "open")
  PROVE  Finding(type, K) = Finding(type, L)
<1>1. Finding(type, K) \in Findings /\ Finding(type, L) \in Findings
  BY FindingIs
<1>2. /\ Finding(type, K) = "open" <=> Finding(type, L) = "open"
      /\ Finding(type, K) = "held" <=> Finding(type, L) = "held"
  <2>1. CASE type = "and"
    <3>1. /\ Finding(type, K) = "open" <=> "open" \in K
          /\ Finding(type, K) = "held" <=> \A x \in K : x = "held"
          /\ Finding(type, L) = "open" <=> "open" \in L
          /\ Finding(type, L) = "held" <=> \A x \in L : x = "held"
      BY <2>1, FindingIs
    <3> QED
      BY <2>1, <3>1
  <2>2. CASE type = "or"
    <3>1. /\ Finding(type, K) = "held" <=> "held" \in K
          /\ Finding(type, K) = "open" <=> \A x \in K : x = "open"
          /\ Finding(type, L) = "held" <=> "held" \in L
          /\ Finding(type, L) = "open" <=> \A x \in L : x = "open"
      BY <2>2, FindingIs
    <3> QED
      BY <2>2, <3>1
  <2> QED
    BY <2>1, <2>2
<1> QED
  BY <1>1, <1>2 DEF Findings

(* What is found of sets of findings, each as such or as one of its type, is *)
(* what is found of them all.                                                *)
StandsFor(I, E, v, type) ==
  \A i \in I : /\ E[i] \in SUBSET Findings /\ v[i] \in Findings
               /\ v[i] = Finding(type, E[i]) \/ E[i] = {v[i]}

AllOf(I, E) == UNION {E[i] : i \in I}

EachOf(I, v) == {v[i] : i \in I}

(* Findings that stand for others' make the group find the same. *)
LEMMA FindingOfAll ==
  ASSUME NEW I, NEW E, NEW v, NEW type \in {"and", "or"}, StandsFor(I, E, v, type)
  PROVE  Finding(type, AllOf(I, E)) = Finding(type, EachOf(I, v))
<1> DEFINE K == UNION {E[i] : i \in I}
           L == {v[i] : i \in I}
<1>0. \A i \in I : E[i] \in SUBSET Findings /\ v[i] \in Findings /\ (v[i] = Finding(type, E[i]) \/ E[i] = {v[i]})
  BY DEF StandsFor
<1>1. K \in SUBSET Findings /\ L \in SUBSET Findings
  BY <1>0
<1>2. ASSUME NEW i \in I
      PROVE  /\ type = "and" => /\ v[i] = "open" <=> "open" \in E[i]
                                /\ v[i] = "held" <=> \A x \in E[i] : x = "held"
             /\ type = "or" => /\ v[i] = "held" <=> "held" \in E[i]
                               /\ v[i] = "open" <=> \A x \in E[i] : x = "open"
  <2>1. CASE E[i] = {v[i]}
    BY <2>1
  <2>2. CASE v[i] = Finding(type, E[i])
    <3>1. E[i] \in SUBSET Findings
      BY <1>0
    <3> QED
      BY <2>2, <3>1, FindingIs
  <2> QED
    BY <1>0, <2>1, <2>2
<1>3. ASSUME type = "and"
      PROVE  /\ "open" \in K <=> "open" \in L
             /\ (\A x \in K : x = "held") <=> (\A x \in L : x = "held")
  <2>1. "open" \in K <=> \E i \in I : "open" \in E[i]
    OBVIOUS
  <2>2. "open" \in L <=> \E i \in I : v[i] = "open"
    OBVIOUS
  <2>3. (\A x \in K : x = "held") <=> \A i \in I : \A x \in E[i] : x = "held"
    OBVIOUS
  <2>4. (\A x \in L : x = "held") <=> \A i \in I : v[i] = "held"
    OBVIOUS
  <2> HIDE DEF K, L
  <2> QED
    BY <1>2, <1>3, <2>1, <2>2, <2>3, <2>4
<1>4. ASSUME type = "or"
      PROVE  /\ "held" \in K <=> "held" \in L
             /\ (\A x \in K : x = "open") <=> (\A x \in L : x = "open")
  <2>1. "held" \in K <=> \E i \in I : "held" \in E[i]
    OBVIOUS
  <2>2. "held" \in L <=> \E i \in I : v[i] = "held"
    OBVIOUS
  <2>3. (\A x \in K : x = "open") <=> \A i \in I : \A x \in E[i] : x = "open"
    OBVIOUS
  <2>4. (\A x \in L : x = "open") <=> \A i \in I : v[i] = "open"
    OBVIOUS
  <2> HIDE DEF K, L
  <2> QED
    BY <1>2, <1>4, <2>1, <2>2, <2>3, <2>4
<1> HIDE DEF K, L
<1>5. Finding(type, K) = Finding(type, L)
  BY <1>1, <1>3, <1>4, FindingsAgree
<1> QED
  BY <1>5 DEF K, L, AllOf, EachOf

FindsAt(found, finding, n) ==
  IF IsGroup(n) THEN Finding(n.type, {finding[child] : child \in Children(n)}) ELSE found[n.id]

(* A group's finding is of its children's findings. *)
LEMMA EvaluateUnfolds ==
  ASSUME NEW found, NEW t \in Trees
  PROVE  Evaluate(t, found) = IF IsGroup(t) THEN Finding(t.type, {Evaluate(c, found) : c \in Children(t)})
                              ELSE found[t.id]
<1> DEFINE V == Findings \union {found[id] : id \in Gates}
           step == [n \in Trees |-> [finding \in [Children(n) -> V] |-> FindsAt(found, finding, n)]]
           Is(f) == f = [n \in Trees |-> FindsAt(found, f, n)]
           finds == CHOOSE f : Is(f)
<1>1. Steps(Trees, V, Branches, step)
  <2> SUFFICES ASSUME NEW n \in Trees, NEW finding \in [Children(n) -> V]
               PROVE  FindsAt(found, finding, n) \in V
    BY DEF Steps, Branches
  <2>1. CASE ~IsGroup(n)
    BY <2>1, TreeCases DEF FindsAt
  <2>2. CASE IsGroup(n)
    <3>1. \A K : Finding(n.type, K) \in Findings
      BY <2>2, TreeCases DEF Finding, Findings
    <3> QED
      BY <2>2, <3>1 DEF FindsAt
  <2> QED
    BY <2>1, <2>2
<1>2. PICK f \in [Trees -> V] : \A n \in Trees : Recurs(f, Branches, step, n)
  <2>1. V # {}
    BY DEF Findings
  <2> HIDE DEF step, V
  <2> QED
    BY <1>1, <2>1, TreeRecursion
<1>3. ASSUME NEW n \in Trees PROVE f[n] = FindsAt(found, f, n)
  <2> HIDE DEF V
  <2>1. [c \in Children(n) |-> f[c]] \in [Children(n) -> V]
    BY ChildrenAreTrees
  <2>2. f[n] = FindsAt(found, [c \in Children(n) |-> f[c]], n)
    BY <1>2, <2>1 DEF Recurs, Branches
  <2> QED
    BY <2>2 DEF FindsAt
<1>4. Is(f)
  <2> HIDE DEF V
  <2> QED
    BY <1>3
<1>5. Is(finds)
  <2> HIDE DEF Is
  <2> QED
    BY <1>4
<1>6. \A n \in Trees : finds[n] = FindsAt(found, finds, n)
  <2> HIDE DEF finds
  <2> QED
    BY <1>5
<1>7. \A n : Evaluate(n, found) = finds[n]
  BY DEF Evaluate, FindsAt
<1> HIDE DEF finds, Is
<1>8. {finds[c] : c \in Children(t)} = {Evaluate(c, found) : c \in Children(t)}
  BY <1>7
<1> QED
  BY <1>6, <1>7, <1>8 DEF FindsAt

(* A tree finds one of the three, if its gates do. *)
LEMMA EvaluateFinds ==
  ASSUME NEW t \in Trees, NEW found, \A id \in GatesOf(t) : found[id] \in Findings
  PROVE  Evaluate(t, found) \in Findings
<1>1. CASE ~IsGroup(t)
  BY <1>1, EvaluateUnfolds, GatesUnfold
<1>2. CASE IsGroup(t)
  <2>1. Evaluate(t, found) = Finding(t.type, {Evaluate(c, found) : c \in Children(t)})
    BY <1>2, EvaluateUnfolds
  <2>2. \A K : Finding(t.type, K) \in Findings
    BY <1>2, TreeCases DEF Finding, Findings
  <2> QED
    BY <2>1, <2>2
<1> QED
  BY <1>1, <1>2

(* What it finds is of its own gates only. *)
LEMMA EvaluateSame ==
  ASSUME NEW f, NEW g, NEW t \in Trees, \A id \in GatesOf(t) : f[id] = g[id]
  PROVE  Evaluate(t, f) = Evaluate(t, g)
<1> DEFINE Bad == {u \in Trees : (\A id \in GatesOf(u) : f[id] = g[id]) /\ Evaluate(u, f) # Evaluate(u, g)}
<1> SUFFICES ASSUME Bad # {} PROVE FALSE
  OBVIOUS
<1>1. PICK u \in Bad : \A c \in Children(u) : c \in AllTrees /\ c \notin Bad
  <2>1. Bad \in SUBSET AllTrees
    BY TreesAreTrees
  <2> HIDE DEF Bad
  <2> QED
    BY <2>1, SmallestTree
<1>2. u \in Trees /\ (\A id \in GatesOf(u) : f[id] = g[id]) /\ Evaluate(u, f) # Evaluate(u, g)
  BY <1>1
<1>3. CASE ~IsGroup(u)
  BY <1>2, <1>3, EvaluateUnfolds, GatesUnfold
<1>4. CASE IsGroup(u)
  <2>1. ASSUME NEW c \in Children(u) PROVE Evaluate(c, f) = Evaluate(c, g)
    <3>1. c \in Trees /\ GatesOf(c) \subseteq GatesOf(u)
      BY <1>2, <1>4, ChildrenAreTrees, GatesUnfold
    <3> QED
      BY <1>1, <1>2, <3>1
  <2>2. {Evaluate(c, f) : c \in Children(u)} = {Evaluate(c, g) : c \in Children(u)}
    BY <2>1
  <2>3. /\ Evaluate(u, f) = Finding(u.type, {Evaluate(c, f) : c \in Children(u)})
        /\ Evaluate(u, g) = Finding(u.type, {Evaluate(c, g) : c \in Children(u)})
    BY <1>2, <1>4, EvaluateUnfolds
  <2> QED
    BY <1>2, <2>2, <2>3
<1> QED
  BY <1>3, <1>4

------------------------------------------------------------------------------
(* Power. *)

Reports == [id : Gates, pin : BOOLEAN, pout : BOOLEAN]

Walks == [pout : BOOLEAN, gates : SUBSET Reports]

(* The power into a step. *)
Into(n, pin, kids, k) == IF n.type = "and" THEN CarriedTo(pin, kids, k) ELSE pin

KidsAre(walked, n, pin, kids) == kids = [k \in DOMAIN n.children |-> walked[n.children[k]][Into(n, pin, kids, k)]]

KidsAt(walked, n, pin) == CHOOSE kids : KidsAre(walked, n, pin, kids)

WalkedAt(found, walked, n, pin) ==
  IF ~IsGroup(n)
  THEN [pout  |-> pin /\ found[n.id] = "held",
        gates |-> {[id |-> n.id, pin |-> pin, pout |-> pin /\ found[n.id] = "held"]}]
  ELSE [pout  |-> IF n.type = "and" THEN CarriedTo(pin, KidsAt(walked, n, pin), Len(n.children) + 1)
                  ELSE pin /\ \E k \in DOMAIN KidsAt(walked, n, pin) : KidsAt(walked, n, pin)[k].pout,
        gates |-> UNION {KidsAt(walked, n, pin)[k].gates : k \in DOMAIN KidsAt(walked, n, pin)}]

Typed(walked, n) == \A c \in Children(n) : walked[c] \in [BOOLEAN -> Walks]

(* A step that is not the first has one before it. *)
LEMMA StepBefore ==
  ASSUME NEW m \in Nat, NEW k \in 1 .. m, k # 1
  PROVE  k - 1 \in 1 .. m /\ k \in Nat /\ 1 <= m
OBVIOUS

(* The walk goes through a group's children in one way. *)
LEMMA OneWay ==
  ASSUME NEW n \in Trees, IsGroup(n), NEW pin \in BOOLEAN, NEW walked, Typed(walked, n)
  PROVE  /\ KidsAt(walked, n, pin) \in [1 .. Len(n.children) -> Walks]
         /\ \A kids : KidsAre(walked, n, pin, kids) <=> kids = KidsAt(walked, n, pin)
<1>1. /\ Len(n.children) \in Nat /\ DOMAIN n.children = 1 .. Len(n.children)
      /\ \A k \in 1 .. Len(n.children) : n.children[k] \in Children(n)
  BY GroupCase
<1> DEFINE m == Len(n.children)
<1>2. ASSUME NEW k \in 1 .. m, NEW kids, k # 1 => kids[k - 1] \in Walks
      PROVE  Into(n, pin, kids, k) \in BOOLEAN
  BY <1>2 DEF Into, CarriedTo, Walks
<1>3. \E kids \in [1 .. m -> Walks] : KidsAre(walked, n, pin, kids)
  <2>1. CASE m = 0
    <3> DEFINE kids == [k \in 1 .. m |-> walked[n.children[k]][pin]]
    <3>1. 1 .. m = {}
      BY <2>1
    <3>2. kids \in [1 .. m -> Walks]
      BY <3>1
    <3>3. KidsAre(walked, n, pin, kids)
      BY <1>1, <3>1 DEF KidsAre
    <3> QED
      BY <3>2, <3>3
  <2>2. CASE m # 0
    <3> DEFINE into(k, v) == IF n.type = "and" THEN v.pout ELSE pin
               next == [k \in 1 .. m |-> [v \in Walks |-> walked[n.children[k]][into(k, v)]]]
    <3>1. ASSUME NEW k \in 1 .. m, NEW v \in Walks
          PROVE  next[k][v] = walked[n.children[k]][into(k, v)] /\ next[k][v] \in Walks
      <4>1. into(k, v) \in BOOLEAN
        BY DEF Walks
      <4>2. next[k][v] = walked[n.children[k]][into(k, v)]
        OBVIOUS
      <4> HIDE DEF next, into
      <4> QED
        BY <1>1, <4>1, <4>2 DEF Typed
    <3>2. walked[n.children[1]][pin] \in Walks /\ 1 \in Nat /\ m \in Nat /\ 1 <= m
      <4>1. m \in Nat
        BY <1>1
      <4>2. 1 <= m
        <5> HIDE DEF m
        <5> QED
          BY <2>2, <4>1
      <4>3. n.children[1] \in Children(n)
        BY <1>1, <4>2
      <4> QED
        BY <4>1, <4>2, <4>3 DEF Typed
    <3> HIDE DEF next
    <3>3. PICK f \in [1 .. m -> Walks] : Runs(f, 1, m, walked[n.children[1]][pin], next)
      <4>1. Advances(1, m, Walks, next)
        BY <3>1 DEF Advances
      <4> HIDE DEF m
      <4> QED
        BY <3>2, <4>1, Along
    <3>4. ASSUME NEW k \in 1 .. m PROVE f[k] = walked[n.children[k]][Into(n, pin, f, k)]
      <4>1. CASE k = 1
        BY <3>2, <3>3, <4>1 DEF Runs, Into, CarriedTo
      <4>2. CASE k # 1
        <5>1. k - 1 \in 1 .. m
          <6> HIDE DEF m
          <6> QED
            BY <3>2, <4>2, StepBefore
        <5>0. f[k] = next[k][f[k - 1]]
          <6> HIDE DEF m, into
          <6> QED
            BY <3>3, <4>2 DEF Runs
        <5>2. f[k - 1] \in Walks
          BY <5>1
        <5>3. f[k] = walked[n.children[k]][into(k, f[k - 1])]
          BY <3>1, <5>0, <5>2
        <5>4. into(k, f[k - 1]) = Into(n, pin, f, k)
          BY <4>2 DEF Into, CarriedTo
        <5> HIDE DEF into
        <5> QED
          BY <5>3, <5>4
      <4> QED
        BY <4>1, <4>2
    <3>5. KidsAre(walked, n, pin, f)
      BY <1>1, <3>4 DEF KidsAre
    <3> QED
      BY <3>5
  <2> QED
    BY <2>1, <2>2
<1>4. PICK kids \in [1 .. m -> Walks] : KidsAre(walked, n, pin, kids)
  BY <1>3
<1>5. ASSUME NEW other, KidsAre(walked, n, pin, other) PROVE other = kids
  <2> DEFINE S == {k \in 0 .. m : k = 0 \/ other[k] = kids[k]}
  <2>1. 0 \in S
    BY <1>1
  <2>2. ASSUME NEW k \in 0 + 1 .. m, k - 1 \in S PROVE k \in S
    <3>1. k \in 1 .. m /\ k \in 0 .. m
      BY <1>1
    <3>2. Into(n, pin, other, k) = Into(n, pin, kids, k)
      <4>1. k # 1 => other[k - 1] = kids[k - 1]
        BY <2>2, <3>1
      <4> QED
        BY <4>1 DEF Into, CarriedTo
    <3>3. /\ other[k] = walked[n.children[k]][Into(n, pin, other, k)]
          /\ kids[k] = walked[n.children[k]][Into(n, pin, kids, k)]
      BY <1>1, <1>4, <1>5, <3>1 DEF KidsAre
    <3> QED
      BY <3>1, <3>2, <3>3
  <2>3. \A k \in 0 .. m : k \in S
    <3>1. m \in Nat /\ 0 \in Nat
      BY <1>1
    <3> HIDE DEF S, m
    <3> QED
      BY <2>1, <2>2, <3>1, AlongHolds
  <2>4. \A k \in 1 .. m : other[k] = kids[k]
    <3>1. \A k \in 1 .. m : k \in 0 .. m /\ k # 0
      BY <1>1
    <3> QED
      BY <2>3, <3>1
  <2>5. other = [k \in 1 .. m |-> other[k]] /\ kids = [k \in 1 .. m |-> kids[k]]
    <3>1. other = [k \in 1 .. m |-> walked[n.children[k]][Into(n, pin, other, k)]]
      BY <1>1, <1>5 DEF KidsAre
    <3> HIDE DEF m
    <3> QED
      BY <3>1
  <2> HIDE DEF m
  <2>6. [k \in 1 .. m |-> other[k]] = [k \in 1 .. m |-> kids[k]]
    BY <2>4
  <2> QED
    BY <2>5, <2>6
<1>6. KidsAt(walked, n, pin) = kids
  BY <1>4, <1>5 DEF KidsAt
<1> QED
  BY <1>4, <1>5, <1>6

(* It is the same for walks that are the same of the children. *)
LEMMA SameWay ==
  ASSUME NEW n \in Trees, IsGroup(n), NEW pin \in BOOLEAN,
         NEW walked, Typed(walked, n), NEW other, \A c \in Children(n) : other[c] = walked[c]
  PROVE  KidsAt(other, n, pin) = KidsAt(walked, n, pin)
<1> DEFINE m == Len(n.children)
           kids == KidsAt(walked, n, pin)
<1>1. /\ Len(n.children) \in Nat /\ DOMAIN n.children = 1 .. Len(n.children)
      /\ \A k \in 1 .. Len(n.children) : n.children[k] \in Children(n)
  BY GroupCase
<1>2. Typed(other, n)
  BY DEF Typed
<1>3. kids \in [1 .. m -> Walks] /\ KidsAre(walked, n, pin, kids)
  BY OneWay
<1> HIDE DEF kids
<1>4. ASSUME NEW k \in 1 .. m PROVE Into(n, pin, kids, k) \in BOOLEAN
  <2>1. k # 1 => k - 1 \in 1 .. m
    <3>1. m \in Nat
      BY <1>1
    <3> HIDE DEF m
    <3> QED
      BY <3>1, StepBefore
  <2>2. k # 1 => kids[k - 1] \in Walks
    BY <1>3, <2>1
  <2> QED
    BY <2>2 DEF Into, CarriedTo, Walks
<1>5. ASSUME NEW k \in 1 .. m
      PROVE  walked[n.children[k]][Into(n, pin, kids, k)] = other[n.children[k]][Into(n, pin, kids, k)]
  BY <1>1, <1>4
<1>6. KidsAre(other, n, pin, kids)
  BY <1>1, <1>3, <1>5 DEF KidsAre
<1> QED
  BY <1>2, <1>6, OneWay DEF kids

(* A walk of a node reports power at its gates. *)
LEMMA WalkedTyped ==
  ASSUME NEW found, NEW n \in Trees, NEW pin \in BOOLEAN, NEW w, Typed(w, n)
  PROVE  WalkedAt(found, w, n, pin) \in Walks
<1>1. CASE ~IsGroup(n)
  <2>1. n.id \in Gates
    BY <1>1, TreeCases
  <2>2. (pin /\ found[n.id] = "held") \in BOOLEAN
    OBVIOUS
  <2> QED
    BY <1>1, <2>1, <2>2 DEF WalkedAt, Walks, Reports
<1>2. CASE IsGroup(n)
  <2> DEFINE kids == KidsAt(w, n, pin)
             m == Len(n.children)
  <2>1. kids \in [1 .. m -> Walks]
    BY <1>2, OneWay
  <2>2. m \in Nat
    BY <1>2, GroupCase
  <2> HIDE DEF kids
  <2>3. CarriedTo(pin, kids, m + 1) \in BOOLEAN
    <3> HIDE DEF m
    <3>1. CASE m = 0
      BY <3>1 DEF CarriedTo
    <3>2. CASE m # 0
      <4>1. m \in 1 .. m /\ m + 1 - 1 = m /\ m + 1 # 1
        BY <2>2, <3>2
      <4>2. kids[m] \in Walks
        BY <2>1, <4>1
      <4> QED
        BY <4>1, <4>2 DEF CarriedTo, Walks
    <3> QED
      BY <3>1, <3>2
  <2>4. (pin /\ \E k \in DOMAIN kids : kids[k].pout) \in BOOLEAN
    OBVIOUS
  <2>5. UNION {kids[k].gates : k \in DOMAIN kids} \in SUBSET Reports
    BY <2>1 DEF Walks
  <2>6. WalkedAt(found, w, n, pin) =
          [pout  |-> IF n.type = "and" THEN CarriedTo(pin, kids, m + 1)
                     ELSE pin /\ \E k \in DOMAIN kids : kids[k].pout,
           gates |-> UNION {kids[k].gates : k \in DOMAIN kids}]
    BY <1>2 DEF WalkedAt, kids
  <2>7. (IF n.type = "and" THEN CarriedTo(pin, kids, m + 1)
                     ELSE pin /\ \E k \in DOMAIN kids : kids[k].pout) \in BOOLEAN
    BY <2>3, <2>4
  <2> QED
    BY <2>5, <2>6, <2>7 DEF Walks
<1> QED
  BY <1>1, <1>2

WalkedFrom(found, w, n) == [pin \in BOOLEAN |-> WalkedAt(found, w, n, pin)]

(* A walk of a node depends on those of its children alone. *)
LEMMA WalkedSame ==
  ASSUME NEW found, NEW n \in Trees, NEW w, Typed(w, n), NEW v, \A c \in Children(n) : v[c] = w[c]
  PROVE  WalkedFrom(found, v, n) = WalkedFrom(found, w, n)
<1>1. ASSUME NEW pin \in BOOLEAN PROVE WalkedAt(found, v, n, pin) = WalkedAt(found, w, n, pin)
  <2>1. CASE ~IsGroup(n)
    BY <2>1 DEF WalkedAt
  <2>2. CASE IsGroup(n)
    <3>1. KidsAt(v, n, pin) = KidsAt(w, n, pin)
      BY <2>2, SameWay
    <3> QED
      BY <2>2, <3>1 DEF WalkedAt
  <2> QED
    BY <2>1, <2>2
<1> QED
  BY <1>1 DEF WalkedFrom

(* The walk exists and is as it is defined. *)
LEMMA WalkIs ==
  ASSUME NEW found
  PROVE  \E w \in [Trees -> [BOOLEAN -> Walks]] :
            \A n \in Trees, pin \in BOOLEAN : w[n][pin] = WalkedAt(found, w, n, pin) /\ Walk(n, found, pin) = w[n][pin]
<1> DEFINE V == [BOOLEAN -> Walks]
           step == [n \in Trees |-> [w \in [Children(n) -> V] |-> WalkedFrom(found, w, n)]]
           Is(f) == f = [n \in Trees |-> WalkedFrom(found, f, n)]
           walks == CHOOSE f : Is(f)
<1>1. Steps(Trees, V, Branches, step)
  <2> SUFFICES ASSUME NEW n \in Trees, NEW w \in [Children(n) -> V] PROVE WalkedFrom(found, w, n) \in V
    BY DEF Steps, Branches
  <2>1. Typed(w, n)
    BY DEF Typed
  <2>2. \A pin \in BOOLEAN : WalkedAt(found, w, n, pin) \in Walks
    BY <2>1, WalkedTyped
  <2> QED
    BY <2>2 DEF WalkedFrom
<1>2. PICK w \in [Trees -> V] : \A n \in Trees : Recurs(w, Branches, step, n)
  <2>1. V # {}
    <3>1. [pout |-> TRUE, gates |-> {}] \in Walks
      BY DEF Walks
    <3>2. [pin \in BOOLEAN |-> [pout |-> TRUE, gates |-> {}]] \in V
      BY <3>1
    <3> QED
      BY <3>2
  <2> HIDE DEF V, step
  <2> QED
    BY <1>1, <2>1, TreeRecursion
<1>3. ASSUME NEW n \in Trees PROVE Typed(w, n)
  BY ChildrenAreTrees DEF Typed
<1>4. ASSUME NEW n \in Trees PROVE w[n] = WalkedFrom(found, w, n)
  <2> DEFINE v == [c \in Children(n) |-> w[c]]
  <2>1. v \in [Children(n) -> V]
    <3> HIDE DEF V
    <3> QED
      BY ChildrenAreTrees
  <2>2. \A c \in Children(n) : v[c] = w[c]
    OBVIOUS
  <2>3. w[n] = step[n][v]
    <3> HIDE DEF step, V
    <3> QED
      BY <1>2 DEF Recurs, Branches
  <2>4. step[n][v] = WalkedFrom(found, v, n)
    <3> HIDE DEF V, v
    <3> QED
      BY <2>1
  <2> HIDE DEF v, step
  <2> QED
    BY <1>3, <2>2, <2>3, <2>4, WalkedSame
<1>5. Is(w)
  <2> HIDE DEF V
  <2> QED
    BY <1>4
<1>6. Is(walks)
  <2> HIDE DEF Is
  <2> QED
    BY <1>5
<1>7. \A n \in Trees : walks[n] = WalkedFrom(found, walks, n)
  <2> HIDE DEF walks
  <2> QED
    BY <1>6
<1>8. \A n, pin : Walk(n, found, pin) = walks[n][pin]
  BY DEF Walk, WalkedFrom, WalkedAt, KidsAt, KidsAre, Into
<1> HIDE DEF walks, Is, V, step
<1>9. ASSUME NEW n \in Trees PROVE walks[n] = w[n]
  <2> DEFINE Bad == {u \in Trees : walks[u] # w[u]}
  <2> SUFFICES ASSUME Bad # {} PROVE FALSE
    OBVIOUS
  <2>1. PICK u \in Bad : \A c \in Children(u) : c \in AllTrees /\ c \notin Bad
    <3>1. Bad \in SUBSET AllTrees
      BY TreesAreTrees
    <3> HIDE DEF Bad
    <3> QED
      BY <3>1, SmallestTree
  <2>2. u \in Trees /\ walks[u] # w[u]
    BY <2>1
  <2>3. \A c \in Children(u) : walks[c] = w[c]
    BY <2>1, <2>2, ChildrenAreTrees
  <2> HIDE DEF Bad
  <2>4. WalkedFrom(found, walks, u) = WalkedFrom(found, w, u)
    BY <1>3, <2>2, <2>3, WalkedSame
  <2> QED
    BY <1>4, <1>7, <2>2, <2>4
<1>10. w \in [Trees -> [BOOLEAN -> Walks]]
  BY DEF V
<1>11. ASSUME NEW n \in Trees, NEW pin \in BOOLEAN
       PROVE  w[n][pin] = WalkedAt(found, w, n, pin) /\ Walk(n, found, pin) = w[n][pin]
  <2>1. w[n][pin] = WalkedAt(found, w, n, pin)
    BY <1>4 DEF WalkedFrom
  <2> QED
    BY <1>8, <1>9, <2>1
<1> QED
  BY <1>10, <1>11

(* The walk of a gate. *)
GateWalk(found, id, pin) ==
  [pout  |-> pin /\ found[id] = "held",
   gates |-> {[id |-> id, pin |-> pin, pout |-> pin /\ found[id] = "held"]}]

(* The walk of a group, by its children's. *)
GroupWalk(found, t, pin, kids) ==
  /\ \A k \in 1 .. Len(t.children) :
       kids[k] = Walk(t.children[k], found, Into(t, pin, kids, k)) /\ Into(t, pin, kids, k) \in BOOLEAN
  /\ Walk(t, found, pin).pout =
       IF t.type = "and" THEN CarriedTo(pin, kids, Len(t.children) + 1)
       ELSE pin /\ \E k \in 1 .. Len(t.children) : kids[k].pout
  /\ Walk(t, found, pin).gates = UNION {kids[k].gates : k \in 1 .. Len(t.children)}

(* A group's walk is of its children's, each with the power that *)
(* comes to it.                                                  *)
LEMMA WalkUnfolds ==
  ASSUME NEW found, NEW t \in Trees, NEW pin \in BOOLEAN
  PROVE  /\ Walk(t, found, pin) \in Walks
         /\ ~IsGroup(t) => Walk(t, found, pin) = GateWalk(found, t.id, pin)
         /\ IsGroup(t) => \E kids \in [1 .. Len(t.children) -> Walks] : GroupWalk(found, t, pin, kids)
<1>1. PICK w \in [Trees -> [BOOLEAN -> Walks]] :
             \A n \in Trees, b \in BOOLEAN : w[n][b] = WalkedAt(found, w, n, b) /\ Walk(n, found, b) = w[n][b]
  BY WalkIs
<1>2. Walk(t, found, pin) \in Walks
  BY <1>1
<1>3. ASSUME ~IsGroup(t) PROVE Walk(t, found, pin) = GateWalk(found, t.id, pin)
  BY <1>1, <1>3 DEF WalkedAt, GateWalk
<1>4. ASSUME IsGroup(t) PROVE \E kids \in [1 .. Len(t.children) -> Walks] : GroupWalk(found, t, pin, kids)
  <2> DEFINE m == Len(t.children)
             kids == KidsAt(w, t, pin)
  <2>1. Typed(w, t)
    BY ChildrenAreTrees DEF Typed
  <2>2. kids \in [1 .. m -> Walks] /\ KidsAre(w, t, pin, kids)
    BY <1>4, <2>1, OneWay
  <2>3. m \in Nat /\ DOMAIN t.children = 1 .. m /\ \A k \in 1 .. m : t.children[k] \in Trees
    BY <1>4, GroupCase
  <2>4. Walk(t, found, pin) = WalkedAt(found, w, t, pin)
    BY <1>1
  <2>5. Walk(t, found, pin) =
          [pout  |-> IF t.type = "and" THEN CarriedTo(pin, kids, m + 1) ELSE pin /\ \E k \in DOMAIN kids : kids[k].pout,
           gates |-> UNION {kids[k].gates : k \in DOMAIN kids}]
    BY <1>4, <2>4 DEF WalkedAt
  <2> HIDE DEF m, kids
  <2>6. DOMAIN kids = 1 .. m
    BY <2>2
  <2>7. ASSUME NEW k \in 1 .. m PROVE Into(t, pin, kids, k) \in BOOLEAN
    <3>1. k # 1 => kids[k - 1] \in Walks
      BY <2>2, <2>3, StepBefore
    <3> QED
      BY <3>1 DEF Into, CarriedTo, Walks
  <2>8. ASSUME NEW k \in 1 .. m PROVE kids[k] = Walk(t.children[k], found, Into(t, pin, kids, k))
    <3>1. kids[k] = w[t.children[k]][Into(t, pin, kids, k)]
      BY <2>2, <2>3 DEF KidsAre
    <3> QED
      BY <1>1, <2>3, <2>7, <3>1
  <2>9. /\ Walk(t, found, pin).pout =
             IF t.type = "and" THEN CarriedTo(pin, kids, m + 1) ELSE pin /\ \E k \in 1 .. m : kids[k].pout
        /\ Walk(t, found, pin).gates = UNION {kids[k].gates : k \in 1 .. m}
    BY <2>5, <2>6
  <2> QED
    BY <2>2, <2>7, <2>8, <2>9 DEF m, GroupWalk
<1> QED
  BY <1>2, <1>3, <1>4

(* The gates of a group in a tree are the tree's. *)
LEMMA GatesUnder ==
  ASSUME NEW t \in Trees, NEW group \in GroupsOf(t)
  PROVE  /\ group \in Trees /\ IsGroup(group) /\ GatesOf(group) \subseteq GatesOf(t)
         /\ \A k \in DOMAIN group.children : GatesOf(group.children[k]) \subseteq GatesOf(t)
<1>1. group \in NodesOf(t) /\ IsGroup(group)
  BY DEF GroupsOf
<1>2. group \in Trees /\ NodesOf(group) \subseteq NodesOf(t)
  BY <1>1, NodesUnder
<1>3. GatesOf(group) \subseteq GatesOf(t)
  BY <1>2 DEF GatesOf, GroupsOf
<1>4. GatesOf(group) = UNION {GatesOf(c) : c \in Children(group)} /\ Children(group) = {group.children[k] : k \in DOMAIN group.children}
  BY <1>1, <1>2, GatesUnfold, GroupCase
<1> QED
  BY <1>1, <1>2, <1>3, <1>4

(* A gate of a tree of gates all different is under one of a group's children. *)
LEMMA UnderOne ==
  ASSUME NEW t \in Trees, IsGroup(t), GatesDiffer(t), NEW id \in GatesOf(t)
  PROVE  \E k \in DOMAIN t.children :
            /\ id \in GatesOf(t.children[k])
            /\ \A j \in DOMAIN t.children : id \in GatesOf(t.children[j]) => j = k
<1>1. Children(t) = {t.children[k] : k \in DOMAIN t.children}
  BY GroupCase
<1>2. PICK k \in DOMAIN t.children : id \in GatesOf(t.children[k])
  BY <1>1, GatesUnfold
<1>3. \A j \in DOMAIN t.children : j # k => GatesOf(t.children[j]) \intersect GatesOf(t.children[k]) = {}
  BY DiffersUnfolds
<1> QED
  BY <1>2, <1>3

(* A gate that is not in a tree is trivially reached in it. *)
LEMMA ReachedElsewhere ==
  ASSUME NEW t \in Trees, NEW found, NEW id, id \notin GatesOf(t)
  PROVE  Reached(t, found, id)
BY GatesUnder DEF Reached

(* What reaches a gate of a group is held by what is before it there, and *)
(* before it under its child of the group.                                *)
LEMMA ReachedUnfolds ==
  ASSUME NEW t \in Trees, IsGroup(t), GatesDiffer(t), NEW found, NEW k \in DOMAIN t.children, NEW id \in GatesOf(t.children[k])
  PROVE  Reached(t, found, id) <=>
           /\ Reached(t.children[k], found, id)
           /\ t.type = "and" => \A j \in 1 .. k - 1 : Evaluate(t.children[j], found) = "held"
<1> DEFINE P(group) ==
      group.type = "and" =>
        \A l \in DOMAIN group.children :
          id \in GatesOf(group.children[l]) => \A j \in 1 .. l - 1 : Evaluate(group.children[j], found) = "held"
<1>1. \A n : Reached(n, found, id) <=> \A group \in GroupsOf(n) : P(group)
  BY DEF Reached
<1>2. /\ Children(t) = {t.children[l] : l \in DOMAIN t.children}
      /\ \A l \in DOMAIN t.children : t.children[l] \in Trees
  BY GroupCase
<1>3. GroupsOf(t) = {t} \union UNION {GroupsOf(c) : c \in Children(t)}
  BY GroupsUnfold
<1>4. \A l \in DOMAIN t.children : l # k => id \notin GatesOf(t.children[l])
  BY DiffersUnfolds
<1>5. P(t) <=> (t.type = "and" => \A j \in 1 .. k - 1 : Evaluate(t.children[j], found) = "held")
  BY <1>4
<1>6. \A l \in DOMAIN t.children : l # k => Reached(t.children[l], found, id)
  BY <1>2, <1>4, ReachedElsewhere
<1> HIDE DEF P
<1>7. Reached(t, found, id) <=> P(t) /\ \A l \in DOMAIN t.children : Reached(t.children[l], found, id)
  BY <1>1, <1>2, <1>3
<1> QED
  BY <1>5, <1>6, <1>7

(* What power is said to do under a node. *)
PowerIs(walk, t, found, pin) ==
  /\ walk.pout <=> pin /\ Evaluate(t, found) = "held"
  /\ {gate.id : gate \in walk.gates} = GatesOf(t)
  /\ \A gate \in walk.gates :
       /\ gate.pin <=> pin /\ Reached(t, found, gate.id)
       /\ gate.pout <=> gate.pin /\ found[gate.id] = "held"

PowerTells(t, found, pin) == PowerIs(Walk(t, found, pin), t, found, pin)

(* In series power comes as far as every step holds. *)
LEMMA PowerCarried ==
  ASSUME NEW found, NEW t \in Trees, IsGroup(t), t.type = "and", NEW pin \in BOOLEAN,
         NEW kids \in [1 .. Len(t.children) -> Walks],
         \A k \in 1 .. Len(t.children) :
            kids[k].pout <=> CarriedTo(pin, kids, k) /\ Evaluate(t.children[k], found) = "held"
  PROVE  \A k \in 1 .. Len(t.children) + 1 :
            CarriedTo(pin, kids, k) <=> pin /\ \A j \in 1 .. k - 1 : Evaluate(t.children[j], found) = "held"
<1> DEFINE m == Len(t.children)
           Held(j) == Evaluate(t.children[j], found) = "held"
           S == {k \in 1 .. m + 1 : CarriedTo(pin, kids, k) <=> pin /\ \A j \in 1 .. k - 1 : Held(j)}
<1>1. m \in Nat /\ 1 \in Nat /\ m + 1 \in Nat
  BY GroupCase
<1>2. \A k \in 1 .. m : kids[k].pout <=> CarriedTo(pin, kids, k) /\ Held(k)
  OBVIOUS
<1> HIDE DEF m, Held
<1>3. 1 \in S
  <2>1. 1 \in 1 .. m + 1 /\ 1 .. 1 - 1 = {}
    BY <1>1
  <2> QED
    BY <2>1 DEF CarriedTo
<1>4. ASSUME NEW k \in 1 + 1 .. m + 1, k - 1 \in S PROVE k \in S
  <2>1. k \in 1 .. m + 1 /\ k # 1 /\ k - 1 \in 1 .. m
    BY <1>1
  <2>2. CarriedTo(pin, kids, k - 1) <=> pin /\ \A j \in 1 .. k - 1 - 1 : Held(j)
    BY <1>4
  <2>3. CarriedTo(pin, kids, k) = kids[k - 1].pout
    BY <2>1 DEF CarriedTo
  <2>4. (\A j \in 1 .. k - 1 : Held(j)) <=> Held(k - 1) /\ \A j \in 1 .. k - 1 - 1 : Held(j)
    <3>1. \A j : j \in 1 .. k - 1 <=> j = k - 1 \/ j \in 1 .. k - 1 - 1
      BY <2>1
    <3> QED
      BY <3>1
  <2>5. kids[k - 1].pout <=> CarriedTo(pin, kids, k - 1) /\ Held(k - 1)
    BY <1>2, <2>1
  <2>6. CarriedTo(pin, kids, k) <=> pin /\ \A j \in 1 .. k - 1 : Held(j)
    BY <2>2, <2>3, <2>4, <2>5
  <2> QED
    BY <2>1, <2>6
<1>5. \A k \in 1 .. m + 1 : k \in S
  <2> HIDE DEF S
  <2> QED
    BY <1>1, <1>3, <1>4, AlongHolds
<1> QED
  BY <1>5 DEF m, Held

(* The walk of any tree without a gate twice tells what the *)
(* evaluation does.                                         *)
LEMMA WalkTells ==
  ASSUME NEW found, NEW t \in Trees, GatesDiffer(t), \A id \in GatesOf(t) : found[id] \in Findings
  PROVE  \A pin \in BOOLEAN : PowerTells(t, found, pin)
<1> DEFINE Told(u) == GatesDiffer(u) /\ (\A id \in GatesOf(u) : found[id] \in Findings) =>
                        \A pin \in BOOLEAN : PowerTells(u, found, pin)
           Bad == {u \in Trees : ~Told(u)}
<1> SUFFICES ASSUME Bad # {} PROVE FALSE
  OBVIOUS
<1>1. PICK u \in Bad : \A c \in Children(u) : c \in AllTrees /\ c \notin Bad
  <2>1. Bad \in SUBSET AllTrees
    BY TreesAreTrees
  <2> HIDE DEF Bad
  <2> QED
    BY <2>1, SmallestTree
<1>2. u \in Trees /\ GatesDiffer(u) /\ \A id \in GatesOf(u) : found[id] \in Findings
  BY <1>1
<1>3. PICK pin \in BOOLEAN : ~PowerTells(u, found, pin)
  BY <1>1
<1>6. \A c \in Children(u) : c \in Trees /\ Told(c)
  BY <1>1, <1>2, ChildrenAreTrees
<1> HIDE DEF Bad
<1> DEFINE walk == Walk(u, found, pin)
<1>4. CASE ~IsGroup(u)
  <2> DEFINE out == pin /\ found[u.id] = "held"
             gate == [id |-> u.id, pin |-> pin, pout |-> out]
  <2>1. walk = [pout |-> out, gates |-> {gate}]
    <3>1. walk = GateWalk(found, u.id, pin)
      BY <1>2, <1>4, WalkUnfolds
    <3> HIDE DEF walk
    <3> QED
      BY <3>1 DEF GateWalk
  <2>2. GatesOf(u) = {u.id} /\ Evaluate(u, found) = found[u.id] /\ GroupsOf(u) = {}
    BY <1>2, <1>4, GatesUnfold, GroupsUnfold, EvaluateUnfolds
  <2>3. \A id : Reached(u, found, id)
    BY <2>2 DEF Reached
  <2> HIDE DEF walk
  <2>5. gate.id = u.id /\ gate.pin = pin /\ gate.pout = out
    OBVIOUS
  <2> HIDE DEF gate
  <2>6. walk.pout = out /\ walk.gates = {gate}
    BY <2>1
  <2>4. PowerTells(u, found, pin)
    <3>1. PowerIs(walk, u, found, pin)
      BY <2>2, <2>3, <2>5, <2>6 DEF PowerIs
    <3> QED
      BY <3>1 DEF PowerTells, walk
  <2> QED
    BY <1>3, <2>4
<1>5. CASE IsGroup(u)
  <2> DEFINE m == Len(u.children)
             Held(k) == Evaluate(u.children[k], found) = "held"
  <2>1. /\ m \in Nat /\ DOMAIN u.children = 1 .. m /\ u.type \in {"and", "or"}
        /\ Children(u) = {u.children[k] : k \in 1 .. m}
        /\ \A k \in 1 .. m : u.children[k] \in Trees /\ u.children[k] \in Children(u)
    BY <1>2, <1>5, GroupCase
  <2>2. PICK kids \in [1 .. m -> Walks] :
          /\ \A k \in 1 .. m :
               kids[k] = Walk(u.children[k], found, Into(u, pin, kids, k)) /\ Into(u, pin, kids, k) \in BOOLEAN
          /\ walk.pout = IF u.type = "and" THEN CarriedTo(pin, kids, m + 1)
                         ELSE pin /\ \E k \in 1 .. m : kids[k].pout
          /\ walk.gates = UNION {kids[k].gates : k \in 1 .. m}
    <3> HIDE DEF Held, Told
    <3>1. \E kids \in [1 .. m -> Walks] : GroupWalk(found, u, pin, kids)
      BY <1>2, <1>5, WalkUnfolds
    <3> QED
      BY <3>1 DEF GroupWalk
  <2> HIDE DEF walk
  <2>3. ASSUME NEW k \in 1 .. m
        PROVE  PowerTells(u.children[k], found, Into(u, pin, kids, k))
    <3>1. u.children[k] \in Trees /\ Told(u.children[k])
      BY <1>6, <2>1
    <3>2. GatesDiffer(u.children[k]) /\ GatesOf(u.children[k]) \subseteq GatesOf(u)
      BY <1>2, <1>5, <2>1, DiffersUnfolds, GatesUnfold
    <3> QED
      BY <1>2, <2>2, <3>1, <3>2
  <2>4. ASSUME NEW k \in 1 .. m
        PROVE  /\ kids[k].pout <=> Into(u, pin, kids, k) /\ Held(k)
               /\ {gate.id : gate \in kids[k].gates} = GatesOf(u.children[k])
               /\ \A gate \in kids[k].gates :
                    /\ gate.pin <=> Into(u, pin, kids, k) /\ Reached(u.children[k], found, gate.id)
                    /\ gate.pout <=> gate.pin /\ found[gate.id] = "held"
    <3>1. PowerIs(kids[k], u.children[k], found, Into(u, pin, kids, k))
      BY <2>2, <2>3 DEF PowerTells
    <3> QED
      BY <3>1 DEF PowerIs
  <2>5. u.type = "and" => \A k \in 1 .. m + 1 : CarriedTo(pin, kids, k) <=> pin /\ \A j \in 1 .. k - 1 : Held(j)
    <3> SUFFICES ASSUME u.type = "and" PROVE \A k \in 1 .. m + 1 : CarriedTo(pin, kids, k) <=> pin /\ \A j \in 1 .. k - 1 : Held(j)
      OBVIOUS
    <3>1. \A k \in 1 .. m : kids[k].pout <=> CarriedTo(pin, kids, k) /\ Held(k)
      BY <2>4 DEF Into
    <3> QED
      BY <1>2, <1>5, <2>2, <3>1, PowerCarried
  <2>6. ASSUME NEW k \in 1 .. m
        PROVE  Into(u, pin, kids, k) <=> pin /\ (u.type = "and" => \A j \in 1 .. k - 1 : Held(j))
    <3>1. k \in 1 .. m + 1
      BY <2>1
    <3> QED
      BY <2>5, <3>1 DEF Into
  <2>7. {gate.id : gate \in walk.gates} = GatesOf(u)
    <3>1. GatesOf(u) = UNION {GatesOf(u.children[k]) : k \in 1 .. m}
      <4>1. GatesOf(u) = UNION {GatesOf(c) : c \in Children(u)}
        BY <1>2, <1>5, GatesUnfold
      <4> QED
        BY <2>1, <4>1
    <3>2. \A k \in 1 .. m : {gate.id : gate \in kids[k].gates} = GatesOf(u.children[k])
      BY <2>4
    <3>3. walk.gates = UNION {kids[k].gates : k \in 1 .. m}
      BY <2>2
    <3>4. {gate.id : gate \in walk.gates} = UNION {{gate.id : gate \in kids[k].gates} : k \in 1 .. m}
      BY <3>3
    <3> QED
      BY <3>1, <3>2, <3>4
  <2>8. ASSUME NEW gate \in walk.gates
        PROVE  /\ gate.pin <=> pin /\ Reached(u, found, gate.id)
               /\ gate.pout <=> gate.pin /\ found[gate.id] = "held"
    <3>1. PICK k \in 1 .. m : gate \in kids[k].gates
      BY <2>2
    <3>2. gate.id \in GatesOf(u.children[k])
      BY <2>4, <3>1
    <3>3. Reached(u, found, gate.id) <=>
            /\ Reached(u.children[k], found, gate.id)
            /\ u.type = "and" => \A j \in 1 .. k - 1 : Held(j)
      BY <1>2, <1>5, <2>1, <3>2, ReachedUnfolds
    <3> QED
      BY <2>4, <2>6, <3>1, <3>3
  <2>9. walk.pout <=> pin /\ Evaluate(u, found) = "held"
    <3> DEFINE K == {Evaluate(c, found) : c \in Children(u)}
    <3>1. Evaluate(u, found) = Finding(u.type, K)
      BY <1>2, <1>5, EvaluateUnfolds
    <3>2. K \in SUBSET Findings
      <4> SUFFICES ASSUME NEW c \in Children(u) PROVE Evaluate(c, found) \in Findings
        OBVIOUS
      <4>1. c \in Trees /\ GatesOf(c) \subseteq GatesOf(u)
        BY <1>2, <1>5, ChildrenAreTrees, GatesUnfold
      <4> QED
        BY <1>2, <4>1, EvaluateFinds
    <3>3. (\A x \in K : x = "held") <=> \A k \in 1 .. m : Held(k)
      BY <2>1
    <3>4. "held" \in K <=> \E k \in 1 .. m : Held(k)
      BY <2>1
    <3> HIDE DEF K
    <3>5. CASE u.type = "and"
      <4>1. Evaluate(u, found) = "held" <=> \A k \in 1 .. m : Held(k)
        BY <3>1, <3>2, <3>3, <3>5, FindingIs
      <4>2. walk.pout = CarriedTo(pin, kids, m + 1)
        BY <2>2, <3>5
      <4>3. m + 1 \in 1 .. m + 1 /\ m + 1 - 1 = m
        BY <2>1
      <4>4. CarriedTo(pin, kids, m + 1) <=> pin /\ \A j \in 1 .. m + 1 - 1 : Held(j)
        BY <2>5, <3>5, <4>3
      <4> HIDE DEF Held, m
      <4> QED
        BY <4>1, <4>2, <4>3, <4>4
    <3>6. CASE u.type = "or"
      <4>1. Evaluate(u, found) = "held" <=> \E k \in 1 .. m : Held(k)
        BY <3>1, <3>2, <3>4, <3>6, FindingIs
      <4>2. walk.pout = (pin /\ \E k \in 1 .. m : kids[k].pout)
        BY <2>2, <3>6
      <4>3. \A k \in 1 .. m : kids[k].pout <=> pin /\ Held(k)
        BY <2>4, <2>6, <3>6
      <4> HIDE DEF Held, m
      <4> QED
        BY <4>1, <4>2, <4>3
    <3> QED
      BY <2>1, <3>5, <3>6
  <2>10. PowerTells(u, found, pin)
    BY <2>7, <2>8, <2>9 DEF PowerTells, PowerIs, walk
  <2> QED
    BY <1>3, <2>10
<1> QED
  BY <1>4, <1>5

CircuitInv ==
  /\ circuit \in Trees /\ IsGroup(circuit) /\ GatesDiffer(circuit)
  /\ selected \in GatesOf(circuit) \union {NoGate}

(* In every circuit of the invariant power agrees with the evaluation. *)
LEMMA PowerAgreesThen == CircuitInv => PowerAgrees
<1> SUFFICES ASSUME CircuitInv, NEW found \in AllFindings(GatesOf(circuit))
             PROVE  LET power == PowerPath(circuit, found) IN
                    /\ {gate.id : gate \in power.gates} = GatesOf(circuit)
                    /\ power.pout <=> Evaluate(circuit, found) = "held"
                    /\ \A gate \in power.gates :
                        /\ GateTag(gate, found) = "carried power"
                               <=> found[gate.id] = "held" /\ Reached(circuit, found, gate.id)
                        /\ PowerText(gate, found) = "no power reached this gate"
                               <=> ~Reached(circuit, found, gate.id)
  BY DEF PowerAgrees
<1> DEFINE power == PowerPath(circuit, found)
<1>1. circuit \in Trees /\ GatesDiffer(circuit) /\ \A id \in GatesOf(circuit) : found[id] \in Findings
  BY DEF CircuitInv, AllFindings
<1>2. PowerTells(circuit, found, TRUE)
  BY <1>1, WalkTells
<1>3. power \in Walks
  BY <1>1, WalkUnfolds DEF PowerPath
<1>4. power = Walk(circuit, found, TRUE)
  BY DEF PowerPath
<1> HIDE DEF power
<1>5. /\ power.pout <=> Evaluate(circuit, found) = "held"
      /\ {gate.id : gate \in power.gates} = GatesOf(circuit)
      /\ \A gate \in power.gates :
            /\ gate.pin <=> Reached(circuit, found, gate.id)
            /\ gate.pout <=> gate.pin /\ found[gate.id] = "held"
  BY <1>2, <1>4 DEF PowerTells, PowerIs
<1>6. ASSUME NEW gate \in power.gates
      PROVE  /\ GateTag(gate, found) = "carried power" <=> gate.pout
             /\ PowerText(gate, found) = "no power reached this gate" <=> ~gate.pin
  <2>1. gate.pin \in BOOLEAN /\ gate.pout \in BOOLEAN
    BY <1>3 DEF Walks, Reports
  <2>2. GateTag(gate, found) = "carried power" <=> gate.pout
    BY <2>1 DEF GateTag
  <2>3. PowerText(gate, found) = "no power reached this gate" <=> ~gate.pin
    <3>1. gate.pout => gate.pin
      BY <1>5
    <3> QED
      BY <2>1, <3>1 DEF PowerText
  <2> QED
    BY <2>2, <2>3
<1> QED
  BY <1>5, <1>6 DEF power

------------------------------------------------------------------------------
(* Rewriting. *)

(* What a row of trees has. *)
RowGates(s) == UNION {GatesOf(s[k]) : k \in DOMAIN s}

RowFindings(s, found) == {Evaluate(s[k], found) : k \in DOMAIN s}

RowDiffers(s) ==
  /\ \A j, k \in DOMAIN s : j # k => GatesOf(s[j]) \intersect GatesOf(s[k]) = {}
  /\ \A k \in DOMAIN s : GatesDiffer(s[k])

IsRow(s) == s \in Seq(Trees) /\ Len(s) \in Nat /\ DOMAIN s = 1 .. Len(s) /\ \A k \in DOMAIN s : s[k] \in Trees

(* What a group is by its row of children. *)
LEMMA GroupSays ==
  ASSUME NEW s, NEW type \in {"and", "or"}, Group(type, s) \in Trees
  PROVE  /\ IsRow(s)
         /\ GatesOf(Group(type, s)) = RowGates(s)
         /\ GatesDiffer(Group(type, s)) <=> RowDiffers(s)
         /\ \A found : Evaluate(Group(type, s), found) = Finding(type, RowFindings(s, found))
<1> DEFINE t == Group(type, s)
<1>1. IsGroup(t) /\ t.type = type /\ t.children = s /\ Children(t) = {s[k] : k \in DOMAIN s}
  BY GroupParts
<1>2. t \in Trees
  OBVIOUS
<1> HIDE DEF t
<1>3. IsRow(s)
  BY <1>1, <1>2, GroupCase DEF IsRow
<1>4. GatesOf(t) = RowGates(s)
  <2>1. GatesOf(t) = UNION {GatesOf(c) : c \in Children(t)}
    BY <1>1, <1>2, GatesUnfold
  <2> QED
    BY <1>1, <2>1 DEF RowGates
<1>5. GatesDiffer(t) <=> RowDiffers(s)
  <2>1. (\A c \in Children(t) : GatesDiffer(c)) <=> \A k \in DOMAIN s : GatesDiffer(s[k])
    BY <1>1
  <2> QED
    BY <1>1, <1>2, <2>1, DiffersUnfolds DEF RowDiffers
<1>6. ASSUME NEW found PROVE Evaluate(t, found) = Finding(type, RowFindings(s, found))
  <2>1. Evaluate(t, found) = Finding(type, {Evaluate(c, found) : c \in Children(t)})
    BY <1>1, <1>2, EvaluateUnfolds
  <2>2. {Evaluate(c, found) : c \in Children(t)} = RowFindings(s, found)
    BY <1>1 DEF RowFindings
  <2> QED
    BY <2>1, <2>2
<1> QED
  BY <1>3, <1>4, <1>5, <1>6 DEF t

(* A group is the group of its children. *)
LEMMA GroupIs ==
  ASSUME NEW t \in Trees, IsGroup(t)
  PROVE  /\ t.type \in {"and", "or"} /\ t = Group(t.type, t.children)
         /\ IsRow(t.children)
         /\ GatesOf(t) = RowGates(t.children)
         /\ GatesDiffer(t) <=> RowDiffers(t.children)
         /\ \A found : Evaluate(t, found) = Finding(t.type, RowFindings(t.children, found))
<1>1. t.type \in {"and", "or"} /\ t = Group(t.type, t.children)
  BY GroupCase
<1> QED
  BY <1>1, GroupSays

(* Sets of trees with the children of each. *)
Closed(S) == \A c \in S : IsGroup(c) => c.children \in Seq(S)

(* Trees of any nesting are closed under taking children. *)
LEMMA TreesClosed ==
  /\ Closed(AllTrees) /\ Closed(Trees)
  /\ \A d \in Nat : Closed(Nested[d])
<1>1. Closed(AllTrees)
  BY TreeShape, GateIs DEF Closed
<1>2. ASSUME NEW d \in Nat PROVE Closed(Nested[d])
  <2> SUFFICES ASSUME NEW c \in Nested[d], IsGroup(c) PROVE c.children \in Seq(Nested[d])
    BY DEF Closed
  <2>1. d # 0 /\ c.children \in Seq(Nested[d - 1])
    BY GroupNested
  <2>2. d - 1 \in Nat /\ d - 1 <= d
    BY <2>1
  <2>3. Nested[d - 1] \subseteq Nested[d]
    BY <2>2, NestedGrows
  <2> QED
    BY <2>1, <2>3
<1>3. Closed(Trees)
  BY <1>2, NestingAssumption DEF Trees
<1> QED
  BY <1>1, <1>2, <1>3

(* A tree of a closed set, opened, is a row of that set. *)
LEMMA OpenedStays ==
  ASSUME NEW S, Closed(S), NEW c \in S, NEW type
  PROVE  Opened(c, type) \in Seq(S) \/ (c.type = type /\ ~IsGroup(c))
BY DEF Opened, Closed

(* One unwrapped is in the set. *)
LEMMA UnwrappedStays ==
  ASSUME NEW S, Closed(S), NEW c \in S
  PROVE  Unwrapped(c) \in S
<1>1. CASE IsGroup(c) /\ Len(c.children) = 1
  <2>1. c.children \in Seq(S) /\ 1 \in 1 .. Len(c.children)
    BY <1>1 DEF Closed
  <2>2. c.children[1] \in S
    BY <2>1
  <2> QED
    BY <1>1, <2>2 DEF Unwrapped
<1>2. CASE ~(IsGroup(c) /\ Len(c.children) = 1)
  BY <1>2 DEF Unwrapped
<1> QED
  BY <1>1, <1>2

(* A row of trees with groups of a type opened, and those with one child unwrapped. *)
AllOpened(kids, type) == [k \in DOMAIN kids |-> Opened(kids[k], type)]

AllUnwrapped(row) == [k \in DOMAIN row |-> Unwrapped(row[k])]

(* The children of a group, as they become. *)
Kids(normal, n) == [k \in DOMAIN n.children |-> normal[n.children[k]]]

NormalAt(normal, n) ==
  IF ~IsGroup(n) THEN n ELSE Group(n.type, AllUnwrapped(FlattenSeq(AllOpened(Kids(normal, n), n.type))))

(* The row is of the trees the children become. *)
LEMMA OpenedRow ==
  ASSUME NEW S, Closed(S), NEW type \in {"and", "or"}, NEW kids \in Seq(S)
  PROVE  AllOpened(kids, type) \in Seq(Seq(S)) /\ Len(AllOpened(kids, type)) = Len(kids)
<1>1. Len(kids) \in Nat /\ DOMAIN kids = 1 .. Len(kids)
  OBVIOUS
<1>2. ASSUME NEW k \in 1 .. Len(kids) PROVE Opened(kids[k], type) \in Seq(S)
  <2>1. kids[k] \in S
    OBVIOUS
  <2>2. ~(kids[k].type = type /\ ~IsGroup(kids[k]))
    BY DEF IsGroup
  <2> QED
    BY <2>1, <2>2, OpenedStays
<1>3. AllOpened(kids, type) = [k \in 1 .. Len(kids) |-> Opened(kids[k], type)]
  BY <1>1 DEF AllOpened
<1> QED
  BY <1>1, <1>2, <1>3

(* A row unwrapped is a row. *)
LEMMA UnwrappedRow ==
  ASSUME NEW S, Closed(S), NEW row \in Seq(S)
  PROVE  AllUnwrapped(row) \in Seq(S)
<1>1. Len(row) \in Nat /\ DOMAIN row = 1 .. Len(row)
  OBVIOUS
<1>2. ASSUME NEW k \in 1 .. Len(row) PROVE Unwrapped(row[k]) \in S
  <2>1. row[k] \in S
    OBVIOUS
  <2> QED
    BY <2>1, UnwrappedStays
<1>3. AllUnwrapped(row) = [k \in 1 .. Len(row) |-> Unwrapped(row[k])]
  BY <1>1 DEF AllUnwrapped
<1> QED
  BY <1>1, <1>2, <1>3

(* And so is the new row of a group in rows of the set. *)
LEMMA RowStays ==
  ASSUME NEW S, Closed(S), NEW type \in {"and", "or"}, NEW kids \in Seq(S)
  PROVE  AllUnwrapped(FlattenSeq(AllOpened(kids, type))) \in Seq(S)
<1>1. FlattenSeq(AllOpened(kids, type)) \in Seq(S)
  BY OpenedRow, FlattenIs
<1> QED
  BY <1>1, UnwrappedRow

(* A normal form made of trees is a tree. *)
LEMMA NormalTyped ==
  ASSUME NEW n \in Trees, NEW normal, \A c \in Children(n) : normal[c] \in AllTrees
  PROVE  NormalAt(normal, n) \in AllTrees
<1>1. CASE ~IsGroup(n)
  BY <1>1, TreesAreTrees DEF NormalAt
<1>2. CASE IsGroup(n)
  <2>1. /\ Len(n.children) \in Nat /\ DOMAIN n.children = 1 .. Len(n.children) /\ n.type \in {"and", "or"}
        /\ \A k \in 1 .. Len(n.children) : n.children[k] \in Children(n)
    BY <1>2, GroupCase
  <2>2. Kids(normal, n) = [k \in 1 .. Len(n.children) |-> normal[n.children[k]]]
    BY <2>1 DEF Kids
  <2>3. Kids(normal, n) \in Seq(AllTrees)
    BY <2>1, <2>2
  <2>4. AllUnwrapped(FlattenSeq(AllOpened(Kids(normal, n), n.type))) \in Seq(AllTrees)
    BY <2>1, <2>3, RowStays, TreesClosed
  <2> QED
    BY <1>2, <2>1, <2>4, GroupsAreTrees DEF NormalAt
<1> QED
  BY <1>1, <1>2

(* It depends on the children alone. *)
LEMMA NormalSame ==
  ASSUME NEW n \in Trees, NEW v, NEW w, \A c \in Children(n) : v[c] = w[c]
  PROVE  NormalAt(v, n) = NormalAt(w, n)
<1>1. CASE ~IsGroup(n)
  BY <1>1 DEF NormalAt
<1>2. CASE IsGroup(n)
  <2>1. \A k \in DOMAIN n.children : n.children[k] \in Children(n)
    BY <1>2, GroupCase
  <2>2. Kids(v, n) = Kids(w, n)
    BY <2>1 DEF Kids
  <2> QED
    BY <2>2 DEF NormalAt
<1> QED
  BY <1>1, <1>2

(* The children of a group, normal. *)
Normals(t) == [k \in DOMAIN t.children |-> Normalize(t.children[k])]

NewRow(t) == AllUnwrapped(FlattenSeq(AllOpened(Normals(t), t.type)))

(* A group's normal form is the group of its children's, opened and *)
(* unwrapped.                                                       *)
LEMMA NormalizeUnfolds ==
  ASSUME NEW t \in Trees
  PROVE  /\ Normalize(t) \in AllTrees
         /\ ~IsGroup(t) => Normalize(t) = t
         /\ IsGroup(t) => Normalize(t) = Group(t.type, NewRow(t))
<1> DEFINE step == [n \in Trees |-> [normal \in [Children(n) -> AllTrees] |-> NormalAt(normal, n)]]
           Is(f) == f = [n \in Trees |-> NormalAt(f, n)]
           normals == CHOOSE f : Is(f)
<1>1. Steps(Trees, AllTrees, Branches, step)
  BY NormalTyped DEF Steps, Branches
<1>2. PICK f \in [Trees -> AllTrees] : \A n \in Trees : Recurs(f, Branches, step, n)
  <2>1. AllTrees # {}
    BY TreesAreTrees
  <2> HIDE DEF step
  <2> QED
    BY <1>1, <2>1, TreeRecursion
<1>3. ASSUME NEW n \in Trees PROVE f[n] = NormalAt(f, n)
  <2> DEFINE v == [c \in Children(n) |-> f[c]]
  <2>1. v \in [Children(n) -> AllTrees] /\ \A c \in Children(n) : v[c] = f[c]
    BY ChildrenAreTrees
  <2>2. f[n] = step[n][v]
    <3> HIDE DEF step
    <3> QED
      BY <1>2 DEF Recurs, Branches
  <2>3. step[n][v] = NormalAt(v, n)
    <3> HIDE DEF v
    <3> QED
      BY <2>1
  <2> HIDE DEF v, step
  <2> QED
    BY <2>1, <2>2, <2>3, NormalSame
<1>4. Is(f)
  BY <1>3
<1>5. Is(normals)
  <2> HIDE DEF Is
  <2> QED
    BY <1>4
<1>6. \A n \in Trees : normals[n] = NormalAt(normals, n)
  <2> HIDE DEF normals
  <2> QED
    BY <1>5
<1>7. \A n : Normalize(n) = normals[n]
  BY DEF Normalize, NormalAt, AllOpened, AllUnwrapped, Kids
<1> HIDE DEF normals, Is
<1>8. \A n \in Trees : normals[n] \in AllTrees
  <2> DEFINE Bad == {u \in Trees : normals[u] \notin AllTrees}
  <2> SUFFICES ASSUME Bad # {} PROVE FALSE
    OBVIOUS
  <2>1. PICK u \in Bad : \A c \in Children(u) : c \in AllTrees /\ c \notin Bad
    <3>1. Bad \in SUBSET AllTrees
      BY TreesAreTrees
    <3> HIDE DEF Bad
    <3> QED
      BY <3>1, SmallestTree
  <2>2. u \in Trees /\ normals[u] \notin AllTrees /\ \A c \in Children(u) : normals[c] \in AllTrees
    BY <2>1, ChildrenAreTrees
  <2> QED
    BY <1>6, <2>2, NormalTyped
<1>9. Normalize(t) = NormalAt(normals, t)
  BY <1>6, <1>7
<1>10. Kids(normals, t) = Normals(t)
  BY <1>7 DEF Kids, Normals
<1>11. Normalize(t) \in AllTrees
  BY <1>7, <1>8
<1> QED
  BY <1>9, <1>10, <1>11 DEF NormalAt, NewRow

(* A tree opened for a group is a row that says the same in it. *)
LEMMA OpenedSays ==
  ASSUME NEW c \in Trees, NEW type \in {"and", "or"}
  PROVE  /\ IsRow(Opened(c, type))
         /\ GatesOf(c) = RowGates(Opened(c, type))
         /\ GatesDiffer(c) <=> RowDiffers(Opened(c, type))
         /\ \A found : \/ Evaluate(c, found) = Finding(type, RowFindings(Opened(c, type), found))
                       \/ RowFindings(Opened(c, type), found) = {Evaluate(c, found)}
<1>1. CASE c.type = type
  <2>1. IsGroup(c) /\ Opened(c, type) = c.children
    BY <1>1 DEF Opened, IsGroup
  <2> QED
    BY <1>1, <2>1, GroupIs
<1>2. CASE c.type # type
  <2> DEFINE s == Opened(c, type)
  <2>1. s = <<c>> /\ s \in Seq(Trees) /\ Len(s) = 1 /\ DOMAIN s = {1} /\ s[1] = c /\ 1 .. 1 = {1}
    BY <1>2 DEF Opened
  <2> HIDE DEF s
  <2>2. IsRow(s)
    BY <2>1 DEF IsRow
  <2>3. GatesOf(c) = RowGates(s)
    BY <2>1 DEF RowGates
  <2>4. GatesDiffer(c) <=> RowDiffers(s)
    BY <2>1 DEF RowDiffers
  <2>5. \A found : RowFindings(s, found) = {Evaluate(c, found)}
    BY <2>1 DEF RowFindings
  <2> QED
    BY <2>2, <2>3, <2>4, <2>5 DEF s
<1> QED
  BY <1>1, <1>2

(* Unwrapping changes neither gates nor findings. *)
LEMMA UnwrappedSays ==
  ASSUME NEW c \in Trees
  PROVE  /\ Unwrapped(c) \in Trees
         /\ GatesOf(Unwrapped(c)) = GatesOf(c)
         /\ GatesDiffer(c) => GatesDiffer(Unwrapped(c))
         /\ \A found : (\A id \in GatesOf(c) : found[id] \in Findings) =>
              Evaluate(Unwrapped(c), found) = Evaluate(c, found)
<1>1. CASE IsGroup(c) /\ Len(c.children) = 1
  <2> DEFINE x == c.children[1]
  <2>0. IsRow(c.children) /\ c.type \in {"and", "or"}
    BY <1>1, GroupIs
  <2>1. Unwrapped(c) = x /\ DOMAIN c.children = {1} /\ x \in Trees
    <3>1. DOMAIN c.children = 1 .. 1 /\ 1 .. 1 = {1}
      BY <1>1, <2>0 DEF IsRow
    <3>2. x \in Trees
      BY <2>0, <3>1 DEF IsRow
    <3> QED
      BY <1>1, <3>1, <3>2 DEF Unwrapped
  <2>2. GatesOf(c) = GatesOf(x) /\ (GatesDiffer(c) => GatesDiffer(x))
    <3>1. RowGates(c.children) = GatesOf(x)
      BY <2>1 DEF RowGates
    <3>2. RowDiffers(c.children) => GatesDiffer(x)
      BY <2>1 DEF RowDiffers
    <3> QED
      BY <1>1, <3>1, <3>2, GroupIs
  <2>3. ASSUME NEW found, \A id \in GatesOf(c) : found[id] \in Findings
        PROVE  Evaluate(x, found) = Evaluate(c, found)
    <3>1. Evaluate(x, found) \in Findings
      BY <2>1, <2>2, <2>3, EvaluateFinds
    <3>2. RowFindings(c.children, found) = {Evaluate(x, found)}
      BY <2>1 DEF RowFindings
    <3>3. Evaluate(c, found) = Finding(c.type, {Evaluate(x, found)})
      BY <1>1, <3>2, GroupIs
    <3> HIDE DEF x
    <3> QED
      BY <2>0, <3>1, <3>3 DEF Finding, Findings
  <2> HIDE DEF x
  <2> QED
    BY <2>1, <2>2, <2>3
<1>2. CASE ~(IsGroup(c) /\ Len(c.children) = 1)
  BY <1>2 DEF Unwrapped
<1> QED
  BY <1>1, <1>2

(* So a row of trees, normal, opened and unwrapped, says the same. *)
LEMMA NewRowSays ==
  ASSUME NEW kids \in Seq(Trees), NEW type \in {"and", "or"}
  PROVE  LET new == AllUnwrapped(FlattenSeq(AllOpened(kids, type))) IN
         /\ RowGates(new) = RowGates(kids)
         /\ RowDiffers(kids) => RowDiffers(new)
         /\ \A found : (\A id \in RowGates(kids) : found[id] \in Findings) =>
              Finding(type, RowFindings(new, found)) = Finding(type, RowFindings(kids, found))
<1> DEFINE m == Len(kids)
           opened == AllOpened(kids, type)
           row == FlattenSeq(opened)
           new == AllUnwrapped(row)
<1>1. m \in Nat /\ DOMAIN kids = 1 .. m /\ \A k \in 1 .. m : kids[k] \in Trees
  OBVIOUS
<1>2. opened \in Seq(Seq(Trees)) /\ Len(opened) = m
  BY OpenedRow, TreesClosed
<1>3. row \in Seq(Trees) /\ Flattened(opened, m, row)
  <2> HIDE DEF opened, m
  <2> QED
    BY <1>2, FlattenIs
<1>4. \A k \in 1 .. m : opened[k] = Opened(kids[k], type)
  BY <1>1 DEF AllOpened
<1> HIDE DEF opened, row, m
<1>5. ASSUME NEW k \in 1 .. m
      PROVE  /\ IsRow(opened[k])
             /\ GatesOf(kids[k]) = RowGates(opened[k])
             /\ GatesDiffer(kids[k]) <=> RowDiffers(opened[k])
             /\ \A found : \/ Evaluate(kids[k], found) = Finding(type, RowFindings(opened[k], found))
                           \/ RowFindings(opened[k], found) = {Evaluate(kids[k], found)}
  BY <1>1, <1>4, OpenedSays
<1>6. Len(row) \in Nat /\ DOMAIN row = 1 .. Len(row) /\ \A i \in DOMAIN row : row[i] \in Trees
  BY <1>3
<1>7. /\ \A i \in DOMAIN row : \E k \in 1 .. m : \E j \in DOMAIN opened[k] : row[i] = opened[k][j]
      /\ \A k \in 1 .. m : \A j \in DOMAIN opened[k] : \E i \in DOMAIN row : row[i] = opened[k][j]
  BY <1>3 DEF Flattened
<1>8. DOMAIN new = DOMAIN row /\ \A i \in DOMAIN row : new[i] = Unwrapped(row[i])
  BY DEF AllUnwrapped
<1> HIDE DEF new
<1>9. ASSUME NEW i \in DOMAIN row
      PROVE  /\ new[i] \in Trees
             /\ GatesOf(new[i]) = GatesOf(row[i])
             /\ GatesDiffer(row[i]) => GatesDiffer(new[i])
             /\ \A found : (\A id \in GatesOf(row[i]) : found[id] \in Findings) =>
                  Evaluate(new[i], found) = Evaluate(row[i], found)
  BY <1>6, <1>8, UnwrappedSays
<1>10. RowGates(new) = RowGates(kids)
  <2>1. RowGates(new) = RowGates(row)
    BY <1>8, <1>9 DEF RowGates
  <2>2. ASSUME NEW id PROVE id \in RowGates(row) <=> \E k \in 1 .. m : id \in RowGates(opened[k])
    BY <1>7 DEF RowGates
  <2>3. ASSUME NEW id PROVE id \in RowGates(kids) <=> \E k \in 1 .. m : id \in RowGates(opened[k])
    <3>1. id \in RowGates(kids) <=> \E k \in 1 .. m : id \in GatesOf(kids[k])
      BY <1>1 DEF RowGates
    <3> QED
      BY <1>5, <3>1
  <2> QED
    BY <2>1, <2>2, <2>3
<1>11. ASSUME RowDiffers(kids) PROVE RowDiffers(new)
  <2>1. /\ \A k \in 1 .. m : GatesDiffer(kids[k])
        /\ \A j, k \in 1 .. m : j # k => GatesOf(kids[j]) \intersect GatesOf(kids[k]) = {}
    BY <1>1, <1>11 DEF RowDiffers
  <2>2. \A k \in 1 .. m : RowDiffers(opened[k])
    BY <1>5, <2>1
  <2>3. ASSUME NEW i \in DOMAIN row PROVE GatesDiffer(row[i])
    <3>1. PICK k \in 1 .. m : \E j \in DOMAIN opened[k] : row[i] = opened[k][j]
      BY <1>7
    <3> QED
      BY <2>2, <3>1 DEF RowDiffers
  <2>4. ASSUME NEW h \in DOMAIN row, NEW i \in DOMAIN row, h < i
        PROVE  GatesOf(row[h]) \intersect GatesOf(row[i]) = {}
    <3>1. PICK k \in 1 .. m, l \in 1 .. m : \E j \in DOMAIN opened[k], n \in DOMAIN opened[l] :
                row[h] = opened[k][j] /\ row[i] = opened[l][n] /\ (k < l \/ (k = l /\ j < n))
      BY <1>3, <2>4 DEF Flattened
    <3>2. PICK j \in DOMAIN opened[k], n \in DOMAIN opened[l] :
                row[h] = opened[k][j] /\ row[i] = opened[l][n] /\ (k < l \/ (k = l /\ j < n))
      BY <3>1
    <3>3. CASE k # l
      <4>1. GatesOf(row[h]) \subseteq RowGates(opened[k]) /\ GatesOf(row[i]) \subseteq RowGates(opened[l])
        BY <3>2 DEF RowGates
      <4>2. RowGates(opened[k]) = GatesOf(kids[k]) /\ RowGates(opened[l]) = GatesOf(kids[l])
        BY <1>5
      <4>3. GatesOf(kids[k]) \intersect GatesOf(kids[l]) = {}
        BY <2>1, <3>3
      <4> QED
        BY <4>1, <4>2, <4>3
    <3>4. CASE k = l
      <4>1. k \in Nat /\ j \in Nat /\ n \in Nat
        BY <1>5, <3>4 DEF IsRow
      <4>2. j # n
        BY <3>2, <3>4, <4>1
      <4>3. RowDiffers(opened[k])
        BY <2>2
      <4> QED
        BY <3>2, <3>4, <4>2, <4>3 DEF RowDiffers
    <3> QED
      BY <3>3, <3>4
  <2>5. ASSUME NEW h \in DOMAIN row, NEW i \in DOMAIN row, h # i
        PROVE  GatesOf(row[h]) \intersect GatesOf(row[i]) = {}
    <3>1. h \in Nat /\ i \in Nat
      BY <1>6
    <3>2. h < i \/ i < h
      BY <2>5, <3>1
    <3> QED
      BY <2>4, <3>2
  <2> QED
    BY <1>8, <1>9, <2>3, <2>5 DEF RowDiffers
<1>12. ASSUME NEW found, \A id \in RowGates(kids) : found[id] \in Findings
       PROVE  Finding(type, RowFindings(new, found)) = Finding(type, RowFindings(kids, found))
  <2> DEFINE E == [k \in 1 .. m |-> RowFindings(opened[k], found)]
             v == [k \in 1 .. m |-> Evaluate(kids[k], found)]
  <2>1. ASSUME NEW k \in 1 .. m
        PROVE  /\ \A id \in GatesOf(kids[k]) : found[id] \in Findings
               /\ \A j \in DOMAIN opened[k] : opened[k][j] \in Trees /\ \A id \in GatesOf(opened[k][j]) : found[id] \in Findings
    <3>1. GatesOf(kids[k]) \subseteq RowGates(kids)
      BY <1>1 DEF RowGates
    <3>2. \A j \in DOMAIN opened[k] : opened[k][j] \in Trees /\ GatesOf(opened[k][j]) \subseteq GatesOf(kids[k])
      BY <1>5 DEF RowGates, IsRow
    <3> QED
      BY <1>12, <3>1, <3>2
  <2>2. ASSUME NEW k \in 1 .. m
        PROVE  E[k] \in SUBSET Findings /\ v[k] \in Findings /\ (v[k] = Finding(type, E[k]) \/ E[k] = {v[k]})
    <3>1. \A j \in DOMAIN opened[k] : Evaluate(opened[k][j], found) \in Findings
      BY <2>1, EvaluateFinds
    <3>2. Evaluate(kids[k], found) \in Findings
      BY <1>1, <2>1, EvaluateFinds
    <3>3. RowFindings(opened[k], found) \in SUBSET Findings
      BY <3>1 DEF RowFindings
    <3>4. E[k] = RowFindings(opened[k], found) /\ v[k] = Evaluate(kids[k], found)
      OBVIOUS
    <3> HIDE DEF E, v
    <3> QED
      BY <1>5, <3>2, <3>3, <3>4
  <2>3. RowFindings(new, found) = UNION {E[k] : k \in 1 .. m}
    <3>1. \A i \in DOMAIN row : Evaluate(new[i], found) = Evaluate(row[i], found)
      <4> SUFFICES ASSUME NEW i \in DOMAIN row PROVE Evaluate(new[i], found) = Evaluate(row[i], found)
        OBVIOUS
      <4>1. \A id \in GatesOf(row[i]) : found[id] \in Findings
        BY <1>7, <2>1
      <4> QED
        BY <1>9, <4>1
    <3>2. RowFindings(new, found) = RowFindings(row, found)
      BY <1>8, <3>1 DEF RowFindings
    <3>3. ASSUME NEW x PROVE x \in RowFindings(row, found) <=> \E k \in 1 .. m : x \in RowFindings(opened[k], found)
      BY <1>7 DEF RowFindings
    <3> QED
      BY <3>2, <3>3
  <2>4. {v[k] : k \in 1 .. m} = RowFindings(kids, found)
    BY <1>1 DEF RowFindings
  <2> DEFINE I == 1 .. m
  <2>5. StandsFor(I, E, v, type)
    BY <2>2 DEF StandsFor
  <2>6. RowFindings(new, found) = AllOf(I, E) /\ RowFindings(kids, found) = EachOf(I, v)
    BY <2>3, <2>4 DEF AllOf, EachOf
  <2> HIDE DEF E, v, I
  <2> QED
    BY <2>5, <2>6, FindingOfAll
<1> QED
  BY <1>10, <1>11, <1>12 DEF new, row, opened

(* What a normal tree keeps. *)
NormalKeeps(t) ==
  /\ \A d \in Nat : t \in Nested[d] => Normalize(t) \in Nested[d]
  /\ Normalize(t).type = t.type
  /\ GatesOf(Normalize(t)) = GatesOf(t)
  /\ GatesDiffer(t) => GatesDiffer(Normalize(t))
  /\ \A found : (\A id \in GatesOf(t) : found[id] \in Findings) =>
       Evaluate(Normalize(t), found) = Evaluate(t, found)

(* Normalizing keeps the gates, that none is twice, and every finding. *)
LEMMA NormalizeKeeps ==
  ASSUME NEW t \in Trees
  PROVE  NormalKeeps(t)
<1> DEFINE Bad == {u \in Trees : ~NormalKeeps(u)}
<1> SUFFICES ASSUME Bad # {} PROVE FALSE
  OBVIOUS
<1>1. PICK u \in Bad : \A c \in Children(u) : c \in AllTrees /\ c \notin Bad
  <2>1. Bad \in SUBSET AllTrees
    BY TreesAreTrees
  <2> HIDE DEF Bad
  <2> QED
    BY <2>1, SmallestTree
<1>2. u \in Trees /\ ~NormalKeeps(u) /\ \A c \in Children(u) : c \in Trees /\ NormalKeeps(c)
  BY <1>1, ChildrenAreTrees
<1> HIDE DEF Bad
<1>3. CASE ~IsGroup(u)
  <2>1. Normalize(u) = u
    BY <1>2, <1>3, NormalizeUnfolds
  <2> QED
    BY <1>2, <2>1 DEF NormalKeeps
<1>4. CASE IsGroup(u)
  <2> DEFINE m == Len(u.children)
             kids == Normals(u)
             new == NewRow(u)
  <2>1. /\ m \in Nat /\ DOMAIN u.children = 1 .. m /\ u.type \in {"and", "or"}
        /\ \A k \in 1 .. m : u.children[k] \in Children(u) /\ u.children[k] \in Trees /\ NormalKeeps(u.children[k])
    BY <1>2, <1>4, GroupCase
  <2>2. Normalize(u) = Group(u.type, new)
    BY <1>2, <1>4, NormalizeUnfolds
  <2>3. kids = [k \in 1 .. m |-> Normalize(u.children[k])]
    BY <2>1 DEF Normals
  <2>4. ASSUME NEW d \in Nat, u \in Nested[d]
        PROVE  Normalize(u) \in Nested[d]
    <3>1. d # 0 /\ u.children \in Seq(Nested[d - 1]) /\ d - 1 \in Nat
      BY <1>4, <2>4, GroupNested
    <3>2. kids \in Seq(Nested[d - 1])
      <4>1. ASSUME NEW k \in 1 .. m PROVE Normalize(u.children[k]) \in Nested[d - 1]
        <5>1. u.children[k] \in Nested[d - 1]
          BY <2>1, <3>1
        <5> QED
          BY <2>1, <3>1, <5>1 DEF NormalKeeps
      <4> HIDE DEF kids, m
      <4> QED
        BY <2>1, <2>3, <4>1
    <3>3. new \in Seq(Nested[d - 1])
      BY <2>1, <3>1, <3>2, RowStays, TreesClosed DEF NewRow
    <3> HIDE DEF new
    <3> QED
      BY <2>1, <2>2, <2>4, <3>1, <3>3, GroupOfNested
  <2>5. Normalize(u) \in Trees
    BY <1>2, <2>4, NestingAssumption DEF Trees
  <2>6. ASSUME NEW k \in 1 .. m
        PROVE  /\ Normalize(u.children[k]) \in Trees
               /\ GatesOf(Normalize(u.children[k])) = GatesOf(u.children[k])
               /\ GatesDiffer(u.children[k]) => GatesDiffer(Normalize(u.children[k]))
               /\ \A found : (\A id \in GatesOf(u.children[k]) : found[id] \in Findings) =>
                    Evaluate(Normalize(u.children[k]), found) = Evaluate(u.children[k], found)
    BY <2>1, NestingAssumption DEF Trees, NormalKeeps
  <2> HIDE DEF kids, m
  <2>7. kids \in Seq(Trees) /\ DOMAIN kids = 1 .. m
    BY <2>1, <2>3, <2>6
  <2>8. RowGates(kids) = RowGates(u.children)
    BY <2>1, <2>3, <2>6 DEF RowGates
  <2>9. RowDiffers(u.children) => RowDiffers(kids)
    BY <2>1, <2>3, <2>6 DEF RowDiffers
  <2>10. ASSUME NEW found, \A id \in GatesOf(u) : found[id] \in Findings
         PROVE  RowFindings(kids, found) = RowFindings(u.children, found)
    <3>1. \A k \in 1 .. m : GatesOf(u.children[k]) \subseteq GatesOf(u)
      <4>1. GatesOf(u) = RowGates(u.children)
        BY <1>2, <1>4, GroupIs
      <4> QED
        BY <2>1, <4>1 DEF RowGates
    <3>2. \A k \in 1 .. m : Evaluate(kids[k], found) = Evaluate(u.children[k], found)
      BY <2>3, <2>6, <2>10, <3>1
    <3> QED
      BY <2>1, <2>7, <3>2 DEF RowFindings
  <2>11. /\ RowGates(new) = RowGates(kids)
         /\ RowDiffers(kids) => RowDiffers(new)
         /\ \A found : (\A id \in RowGates(kids) : found[id] \in Findings) =>
              Finding(u.type, RowFindings(new, found)) = Finding(u.type, RowFindings(kids, found))
    <3>1. new = AllUnwrapped(FlattenSeq(AllOpened(kids, u.type)))
      BY DEF NewRow, kids
    <3> HIDE DEF new
    <3> QED
      BY <2>1, <2>7, <3>1, NewRowSays
  <2> HIDE DEF new
  <2>12. /\ GatesOf(Normalize(u)) = RowGates(new)
         /\ GatesDiffer(Normalize(u)) <=> RowDiffers(new)
         /\ \A found : Evaluate(Normalize(u), found) = Finding(u.type, RowFindings(new, found))
    BY <2>1, <2>2, <2>5, GroupSays
  <2>13. /\ GatesOf(u) = RowGates(u.children)
         /\ GatesDiffer(u) <=> RowDiffers(u.children)
         /\ \A found : Evaluate(u, found) = Finding(u.type, RowFindings(u.children, found))
    BY <1>2, <1>4, GroupIs
  <2>14. ASSUME NEW found, \A id \in GatesOf(u) : found[id] \in Findings
         PROVE  Evaluate(Normalize(u), found) = Evaluate(u, found)
    <3>1. Finding(u.type, RowFindings(new, found)) = Finding(u.type, RowFindings(kids, found))
      BY <2>8, <2>11, <2>13, <2>14
    <3> QED
      BY <2>10, <2>12, <2>13, <2>14, <3>1
  <2>15. Normalize(u).type = u.type
    BY <2>1, <2>2, GroupParts
  <2>16. NormalKeeps(u)
    BY <2>4, <2>8, <2>9, <2>11, <2>12, <2>13, <2>14, <2>15 DEF NormalKeeps
  <2> QED
    BY <1>2, <2>16
<1> QED
  BY <1>3, <1>4

------------------------------------------------------------------------------
(* A gate more. *)

Spliced(n, id, fresh) ==
  InsertAt(n.children, (CHOOSE k \in DOMAIN n.children : n.children[k] = Gate(id)) + 1, Gate(fresh))

InsertStep(inserted, id, kind, fresh, n) ==
  IF n = Gate(id) THEN Group(kind, <<n, Gate(fresh)>>)
  ELSE IF Gate(id) \in Children(n) /\ Splices(n.type, kind) THEN Group(n.type, Spliced(n, id, fresh))
  ELSE IF IsGroup(n) THEN Group(n.type, Kids(inserted, n))
  ELSE n

(* A row with one more after a place in it. *)
OneMore(r, s, at, e) ==
  /\ Len(r) = Len(s) + 1
  /\ \A i \in 1 .. Len(s) + 1 : r[i] = IF i <= at THEN s[i] ELSE IF i = at + 1 THEN e ELSE s[i - 1]

(* Inserting is putting between two parts of a sequence. *)
LEMMA InsertAtIs ==
  ASSUME NEW s, NEW i, NEW e
  PROVE  InsertAt(s, i, e) = SubSeq(s, 1, i - 1) \o <<e>> \o SubSeq(s, i, Len(s))
BY DEF InsertAt

(* Two sequences joined are a sequence. *)
LEMMA Joined ==
  ASSUME NEW T, NEW c \in Seq(T), NEW b \in Seq(T)
  PROVE  c \o b \in Seq(T) /\ Len(c \o b) = Len(c) + Len(b)
OBVIOUS

(* One more is after the one it was inserted after, the others in order. *)
LEMMA InsertedAfter ==
  ASSUME NEW T, NEW s \in Seq(T), NEW at \in 1 .. Len(s), NEW e \in T
  PROVE  InsertAt(s, at + 1, e) \in Seq(T) /\ OneMore(InsertAt(s, at + 1, e), s, at, e)
<1> DEFINE a == SubSeq(s, 1, at)
           b == SubSeq(s, at + 1, Len(s))
           r == InsertAt(s, at + 1, e)
<1>1. Len(s) \in Nat /\ at \in Nat /\ at >= 1 /\ at <= Len(s)
  OBVIOUS
<1>2. a \in Seq(T) /\ Len(a) = at /\ \A i \in 1 .. at : a[i] = s[i]
  BY <1>1
<1>3. b \in Seq(T) /\ Len(b) = Len(s) - at /\ \A i \in 1 .. Len(s) - at : b[i] = s[at + i]
  BY <1>1
<1>4. r = a \o <<e>> \o b
  <2> DEFINE i == at + 1
  <2>1. i - 1 = at
    BY <1>1
  <2> HIDE DEF i
  <2>2. InsertAt(s, i, e) = SubSeq(s, 1, i - 1) \o <<e>> \o SubSeq(s, i, Len(s))
    BY InsertAtIs
  <2>3. InsertAt(s, i, e) = SubSeq(s, 1, at) \o <<e>> \o SubSeq(s, i, Len(s))
    BY <2>1, <2>2
  <2> QED
    BY <2>3 DEF i
<1> HIDE DEF a, b, r
<1>5. <<e>> \in Seq(T) /\ Len(<<e>>) = 1 /\ <<e>>[1] = e
  OBVIOUS
<1> DEFINE c == a \o <<e>>
<1>6. c \in Seq(T) /\ Len(c) = at + 1 /\ c[at + 1] = e /\ \A i \in 1 .. at : c[i] = s[i]
  BY <1>1, <1>2, <1>5
<1>7. r = c \o b
  BY <1>4
<1> HIDE DEF c
<1>8. r \in Seq(T) /\ Len(r) = Len(s) + 1
  <2>1. r \in Seq(T) /\ Len(r) = Len(c) + Len(b)
    <3>1. c \in Seq(T) /\ b \in Seq(T)
      BY <1>3, <1>6
    <3> QED
      BY <1>7, <3>1, Joined
  <2>2. Len(c) + Len(b) = Len(s) + 1
    BY <1>1, <1>3, <1>6
  <2> QED
    BY <2>1, <2>2
<1>9. ASSUME NEW i \in 1 .. Len(s) + 1
      PROVE  r[i] = IF i <= at THEN s[i] ELSE IF i = at + 1 THEN e ELSE s[i - 1]
  <2>1. CASE i <= at + 1
    <3>1. i \in 1 .. Len(c) /\ r[i] = c[i]
      BY <1>1, <1>3, <1>6, <1>7, <2>1
    <3>2. i <= at => i \in 1 .. at
      BY <1>1
    <3> QED
      BY <1>1, <1>6, <2>1, <3>1, <3>2
  <2>2. CASE ~(i <= at + 1)
    <3>1. i - (at + 1) \in 1 .. Len(b)
      BY <1>1, <1>3, <2>2
    <3>2. r[i] = b[i - (at + 1)]
      BY <1>1, <1>3, <1>6, <1>7, <2>2, <3>1
    <3>3. at + (i - (at + 1)) = i - 1
      BY <1>1
    <3> QED
      BY <1>1, <1>3, <2>2, <3>1, <3>2, <3>3
  <2> QED
    BY <2>1, <2>2
<1> QED
  BY <1>8, <1>9 DEF r, OneMore

(* The gate is next to one of the row that is the other gate. *)
LEMMA SplicedIs ==
  ASSUME NEW S, NEW n, n.children \in Seq(S), NEW id, NEW fresh, Gate(fresh) \in S,
         Gate(id) \in {n.children[k] : k \in DOMAIN n.children}
  PROVE  \E at \in 1 .. Len(n.children) :
            /\ n.children[at] = Gate(id)
            /\ Spliced(n, id, fresh) \in Seq(S)
            /\ OneMore(Spliced(n, id, fresh), n.children, at, Gate(fresh))
<1> DEFINE s == n.children
           at == CHOOSE k \in DOMAIN s : s[k] = Gate(id)
<1>1. at \in DOMAIN s /\ s[at] = Gate(id)
  OBVIOUS
<1>2. DOMAIN s = 1 .. Len(s) /\ s \in Seq(S)
  OBVIOUS
<1>3. Spliced(n, id, fresh) = InsertAt(s, at + 1, Gate(fresh))
  BY DEF Spliced
<1> HIDE DEF at, s
<1>4. at \in 1 .. Len(s)
  BY <1>1, <1>2
<1>5. Spliced(n, id, fresh) \in Seq(S) /\ OneMore(Spliced(n, id, fresh), s, at, Gate(fresh))
  BY <1>2, <1>3, <1>4, InsertedAfter
<1> QED
  BY <1>1, <1>4, <1>5 DEF s

(* Rows rewritten child by child are rows. *)
LEMMA KidsTyped ==
  ASSUME NEW n \in Trees, IsGroup(n), NEW v, NEW S, \A c \in Children(n) : v[c] \in S
  PROVE  Kids(v, n) \in Seq(S) /\ DOMAIN Kids(v, n) = DOMAIN n.children
         /\ \A k \in DOMAIN n.children : Kids(v, n)[k] = v[n.children[k]]
<1>1. /\ Len(n.children) \in Nat /\ DOMAIN n.children = 1 .. Len(n.children)
      /\ \A k \in 1 .. Len(n.children) : n.children[k] \in Children(n)
  BY GroupCase
<1>2. Kids(v, n) = [k \in 1 .. Len(n.children) |-> v[n.children[k]]]
  BY <1>1 DEF Kids
<1> QED
  BY <1>1, <1>2

(* An insertion is made of those in the children. *)
LEMMA InsertTyped ==
  ASSUME NEW id \in Gates, NEW kind \in {"and", "or"}, NEW fresh \in Gates,
         NEW n \in Trees, NEW v, \A c \in Children(n) : v[c] \in AllTrees
  PROVE  InsertStep(v, id, kind, fresh, n) \in AllTrees
<1>1. Gate(fresh) \in AllTrees
  BY GateIs
<1>2. CASE n = Gate(id)
  <2>1. n \in AllTrees
    BY TreesAreTrees
  <2>2. <<n, Gate(fresh)>> \in Seq(AllTrees)
    BY <1>1, <2>1
  <2> QED
    BY <1>2, <2>2, GroupsAreTrees DEF InsertStep
<1>3. CASE n # Gate(id) /\ Gate(id) \in Children(n) /\ Splices(n.type, kind)
  <2>1. IsGroup(n) /\ n.type \in {"and", "or"} /\ n.children \in Seq(Trees) /\ Children(n) = {n.children[k] : k \in DOMAIN n.children}
    BY <1>3, TreeCases
  <2>2. n.children \in Seq(AllTrees)
    BY <2>1, TreesAreTrees
  <2>3. Spliced(n, id, fresh) \in Seq(AllTrees)
    BY <1>1, <1>3, <2>1, <2>2, SplicedIs
  <2> QED
    BY <1>3, <2>1, <2>3, GroupsAreTrees DEF InsertStep
<1>4. CASE n # Gate(id) /\ ~(Gate(id) \in Children(n) /\ Splices(n.type, kind)) /\ IsGroup(n)
  <2>1. Kids(v, n) \in Seq(AllTrees)
    BY <1>4, KidsTyped
  <2>2. n.type \in {"and", "or"}
    BY <1>4, GroupCase
  <2> QED
    BY <1>4, <2>1, <2>2, GroupsAreTrees DEF InsertStep
<1>5. CASE n # Gate(id) /\ ~(Gate(id) \in Children(n) /\ Splices(n.type, kind)) /\ ~IsGroup(n)
  BY <1>5, TreesAreTrees DEF InsertStep
<1> QED
  BY <1>2, <1>3, <1>4, <1>5

(* Rows rewritten depend on the children alone. *)
LEMMA KidsSame ==
  ASSUME NEW n \in Trees, IsGroup(n), NEW v, NEW w, \A c \in Children(n) : v[c] = w[c]
  PROVE  Kids(v, n) = Kids(w, n)
<1>1. \A k \in DOMAIN n.children : n.children[k] \in Children(n)
  BY GroupCase
<1> QED
  BY <1>1 DEF Kids

(* An insertion depends on those in the children alone. *)
LEMMA InsertSame ==
  ASSUME NEW id, NEW kind, NEW fresh, NEW n \in Trees, NEW v, NEW w, \A c \in Children(n) : v[c] = w[c]
  PROVE  InsertStep(v, id, kind, fresh, n) = InsertStep(w, id, kind, fresh, n)
BY KidsSame DEF InsertStep

Inserts(t, id, kind, fresh) == [k \in DOMAIN t.children |-> Insert(t.children[k], id, kind, fresh)]

(* An insertion is next to the gate, or in the children. *)
LEMMA InsertUnfolds ==
  ASSUME NEW id \in Gates, NEW kind \in {"and", "or"}, NEW fresh \in Gates, NEW t \in Trees
  PROVE  Insert(t, id, kind, fresh) =
           IF t = Gate(id) THEN Group(kind, <<t, Gate(fresh)>>)
           ELSE IF Gate(id) \in Children(t) /\ Splices(t.type, kind) THEN Group(t.type, Spliced(t, id, fresh))
           ELSE IF IsGroup(t) THEN Group(t.type, Inserts(t, id, kind, fresh))
           ELSE t
<1> DEFINE step == [n \in Trees |-> [v \in [Children(n) -> AllTrees] |-> InsertStep(v, id, kind, fresh, n)]]
           Is(f) == f = [n \in Trees |-> InsertStep(f, id, kind, fresh, n)]
           inserted == CHOOSE f : Is(f)
<1>1. Steps(Trees, AllTrees, Branches, step)
  BY InsertTyped DEF Steps, Branches
<1>2. PICK f \in [Trees -> AllTrees] : \A n \in Trees : Recurs(f, Branches, step, n)
  <2>1. AllTrees # {}
    BY TreesAreTrees
  <2> HIDE DEF step
  <2> QED
    BY <1>1, <2>1, TreeRecursion
<1>3. ASSUME NEW n \in Trees PROVE f[n] = InsertStep(f, id, kind, fresh, n)
  <2> DEFINE v == [c \in Children(n) |-> f[c]]
  <2>1. v \in [Children(n) -> AllTrees] /\ \A c \in Children(n) : v[c] = f[c]
    BY ChildrenAreTrees
  <2>2. f[n] = step[n][v]
    <3> HIDE DEF step
    <3> QED
      BY <1>2 DEF Recurs, Branches
  <2>3. step[n][v] = InsertStep(v, id, kind, fresh, n)
    <3> HIDE DEF v
    <3> QED
      BY <2>1
  <2> HIDE DEF v, step
  <2> QED
    BY <2>1, <2>2, <2>3, InsertSame
<1>4. Is(f)
  BY <1>3
<1>5. Is(inserted)
  <2> HIDE DEF Is
  <2> QED
    BY <1>4
<1>6. \A n \in Trees : inserted[n] = InsertStep(inserted, id, kind, fresh, n)
  <2> HIDE DEF inserted
  <2> QED
    BY <1>5
<1>7. \A n : Insert(n, id, kind, fresh) = inserted[n]
  BY DEF Insert, InsertStep, Kids, Spliced
<1> HIDE DEF inserted, Is
<1>8. Insert(t, id, kind, fresh) = InsertStep(inserted, id, kind, fresh, t)
  BY <1>6, <1>7
<1>9. Kids(inserted, t) = Inserts(t, id, kind, fresh)
  BY <1>7 DEF Kids, Inserts
<1> QED
  BY <1>8, <1>9 DEF InsertStep

(* Where the gate is not, nothing changes. *)
LEMMA InsertElsewhere ==
  ASSUME NEW id \in Gates, NEW kind \in {"and", "or"}, NEW fresh \in Gates, NEW t \in Trees, id \notin GatesOf(t)
  PROVE  Insert(t, id, kind, fresh) = t
<1> DEFINE Bad == {u \in Trees : id \notin GatesOf(u) /\ Insert(u, id, kind, fresh) # u}
<1> SUFFICES ASSUME Bad # {} PROVE FALSE
  OBVIOUS
<1>1. PICK u \in Bad : \A c \in Children(u) : c \in AllTrees /\ c \notin Bad
  <2>1. Bad \in SUBSET AllTrees
    BY TreesAreTrees
  <2> HIDE DEF Bad
  <2> QED
    BY <2>1, SmallestTree
<1>2. u \in Trees /\ id \notin GatesOf(u) /\ Insert(u, id, kind, fresh) # u
  BY <1>1
<1>3. \A n \in Trees : id \notin GatesOf(n) => n # Gate(id)
  <2>1. Gate(id) \in Trees /\ ~IsGroup(Gate(id)) /\ Gate(id).id = id
    BY GateIs
  <2> QED
    BY <2>1, GatesUnfold
<1>4. \A c \in Children(u) : id \notin GatesOf(c) /\ c \in Trees
  <2>1. Children(u) # {} => IsGroup(u)
    BY <1>2, TreeCases
  <2> QED
    BY <1>2, <2>1, GatesUnfold, ChildrenAreTrees
<1>5. Gate(id) \notin Children(u)
  BY <1>3, <1>4
<1>6. \A c \in Children(u) : Insert(c, id, kind, fresh) = c
  BY <1>1, <1>4
<1>7. Insert(u, id, kind, fresh) = IF IsGroup(u) THEN Group(u.type, Inserts(u, id, kind, fresh)) ELSE u
  <2>1. u \in Trees /\ u # Gate(id)
    BY <1>2, <1>3
  <2> HIDE DEF Bad
  <2> QED
    BY <1>5, <2>1, InsertUnfolds
<1>8. IsGroup(u) => Inserts(u, id, kind, fresh) = u.children
  <2> SUFFICES ASSUME IsGroup(u) PROVE Inserts(u, id, kind, fresh) = u.children
    OBVIOUS
  <2>1. u.children \in Seq(Trees) /\ \A k \in DOMAIN u.children : u.children[k] \in Children(u)
    BY <1>2, GroupCase
  <2>2. u.children = [k \in DOMAIN u.children |-> u.children[k]]
    BY <2>1
  <2>3. \A k \in DOMAIN u.children : Insert(u.children[k], id, kind, fresh) = u.children[k]
    BY <1>6, <2>1
  <2> QED
    BY <2>2, <2>3 DEF Inserts
<1>9. IsGroup(u) => u = Group(u.type, u.children)
  BY <1>2, GroupCase
<1> QED
  BY <1>2, <1>7, <1>8, <1>9

(* What is in a row with one more. *)
LEMMA OneMoreHas ==
  ASSUME NEW T, NEW s \in Seq(T), NEW r \in Seq(T), NEW at \in 1 .. Len(s), NEW e, OneMore(r, s, at, e)
  PROVE  /\ \A j \in DOMAIN s : \E i \in DOMAIN r : r[i] = s[j]
         /\ \E i \in DOMAIN r : r[i] = e
         /\ \A i \in DOMAIN r : r[i] = e \/ \E j \in DOMAIN s : r[i] = s[j]
         /\ \A h, i \in DOMAIN r : h < i =>
              \/ r[h] = e /\ \E j \in DOMAIN s : r[i] = s[j]
              \/ r[i] = e /\ \E j \in DOMAIN s : r[h] = s[j]
              \/ \E j, k \in DOMAIN s : j # k /\ r[h] = s[j] /\ r[i] = s[k]
<1> DEFINE m == Len(s)
<1>1. /\ m \in Nat /\ DOMAIN s = 1 .. m /\ DOMAIN r = 1 .. m + 1 /\ at \in 1 .. m
      /\ \A i \in 1 .. m + 1 : r[i] = IF i <= at THEN s[i] ELSE IF i = at + 1 THEN e ELSE s[i - 1]
  BY DEF OneMore
<1> HIDE DEF m
<1>2. ASSUME NEW j \in 1 .. m PROVE \E i \in 1 .. m + 1 : r[i] = s[j]
  <2>1. CASE j <= at
    BY <1>1, <2>1
  <2>2. CASE ~(j <= at)
    <3> DEFINE i == j + 1
    <3>1. i \in 1 .. m + 1 /\ ~(i <= at) /\ i # at + 1 /\ i - 1 = j
      BY <1>1, <2>2
    <3> HIDE DEF i
    <3>2. r[i] = s[i - 1]
      BY <1>1, <3>1
    <3>3. r[i] = s[j]
      BY <3>1, <3>2
    <3> QED
      BY <3>1, <3>3
  <2> QED
    BY <2>1, <2>2
<1>3. at + 1 \in 1 .. m + 1 /\ r[at + 1] = e
  BY <1>1
<1>4. ASSUME NEW i \in 1 .. m + 1
      PROVE  \/ i <= at /\ i \in 1 .. m /\ r[i] = s[i]
             \/ i = at + 1 /\ r[i] = e
             \/ i > at + 1 /\ i - 1 \in 1 .. m /\ r[i] = s[i - 1]
  BY <1>1
<1>5. ASSUME NEW h \in 1 .. m + 1, NEW i \in 1 .. m + 1, h < i
      PROVE  \/ r[h] = e /\ \E j \in 1 .. m : r[i] = s[j]
             \/ r[i] = e /\ \E j \in 1 .. m : r[h] = s[j]
             \/ \E j, k \in 1 .. m : j # k /\ r[h] = s[j] /\ r[i] = s[k]
  <2>1. CASE h = at + 1
    BY <1>1, <1>4, <1>5, <2>1
  <2>2. CASE h <= at /\ h \in 1 .. m /\ r[h] = s[h]
    <3>1. i > at + 1 => h # i - 1
      BY <1>1, <1>5, <2>2
    <3>2. i <= at => h # i
      BY <1>5
    <3> QED
      BY <1>4, <2>2, <3>1, <3>2
  <2>3. CASE h > at + 1 /\ h - 1 \in 1 .. m /\ r[h] = s[h - 1]
    <3>1. i > at + 1 /\ h - 1 # i - 1
      BY <1>1, <1>5, <2>3
    <3>2. i - 1 \in 1 .. m /\ r[i] = s[i - 1]
      BY <1>1, <1>4, <3>1
    <3> QED
      BY <2>3, <3>1, <3>2
  <2> QED
    BY <1>4, <2>1, <2>2, <2>3
<1>6. \A j \in DOMAIN s : \E i \in DOMAIN r : r[i] = s[j]
  BY <1>1, <1>2
<1>7. \E i \in DOMAIN r : r[i] = e
  BY <1>1, <1>3
<1>8. \A i \in DOMAIN r : r[i] = e \/ \E j \in DOMAIN s : r[i] = s[j]
  BY <1>1, <1>4
<1>9. ASSUME NEW h \in DOMAIN r, NEW i \in DOMAIN r, h < i
      PROVE  \/ r[h] = e /\ \E j \in DOMAIN s : r[i] = s[j]
             \/ r[i] = e /\ \E j \in DOMAIN s : r[h] = s[j]
             \/ \E j, k \in DOMAIN s : j # k /\ r[h] = s[j] /\ r[i] = s[k]
  <2>1. DOMAIN s = 1 .. m /\ h \in 1 .. m + 1 /\ i \in 1 .. m + 1
    BY <1>1
  <2>2. \/ r[h] = e /\ \E j \in 1 .. m : r[i] = s[j]
        \/ r[i] = e /\ \E j \in 1 .. m : r[h] = s[j]
        \/ \E j, k \in 1 .. m : j # k /\ r[h] = s[j] /\ r[i] = s[k]
    BY <1>5, <1>9, <2>1
  <2> QED
    BY <2>1, <2>2
<1> QED
  BY <1>6, <1>7, <1>8, <1>9

(* The findings of the gates but one, which is read as something else. *)
ReadAs(found, other, gates, id, finding) ==
  (\A g \in gates : g # id => other[g] = found[g]) /\ other[id] = finding

(* The gate reads as itself and the new one. *)
Wired(t, r, id, kind, fresh) ==
  /\ GatesOf(r) = GatesOf(t) \union {fresh}
  /\ GatesDiffer(r)
  /\ IsGroup(t) => IsGroup(r)
  /\ \A found, other :
       /\ \A g \in GatesOf(t) \union {fresh} : found[g] \in Findings
       /\ ReadAs(found, other, GatesOf(t), id, Finding(kind, {found[id], found[fresh]}))
       => Evaluate(r, found) = Evaluate(t, other)

(* What a gate has and finds. *)
LEMMA GateSays ==
  ASSUME NEW id \in Gates
  PROVE  /\ Gate(id) \in Trees /\ ~IsGroup(Gate(id)) /\ GatesOf(Gate(id)) = {id} /\ GatesDiffer(Gate(id))
         /\ \A found : Evaluate(Gate(id), found) = found[id]
<1>1. Gate(id) \in Trees /\ ~IsGroup(Gate(id)) /\ Gate(id).id = id
  BY GateIs
<1> QED
  BY <1>1, GatesUnfold, DiffersUnfolds, EvaluateUnfolds

(* A gate that is a child is of a group, and of its gates. *)
LEMMA GateUnder ==
  ASSUME NEW t \in Trees, NEW id \in Gates, Gate(id) \in Children(t)
  PROVE  IsGroup(t) /\ id \in GatesOf(t)
<1>1. IsGroup(t)
  BY TreeCases
<1> QED
  BY <1>1, GateSays, GatesUnfold

(* The gate itself becomes a group of the two. *)
LEMMA WiredAlone ==
  ASSUME NEW id \in Gates, NEW kind \in {"and", "or"}, NEW fresh \in Gates, fresh # id,
         Group(kind, <<Gate(id), Gate(fresh)>>) \in Trees
  PROVE  Wired(Gate(id), Group(kind, <<Gate(id), Gate(fresh)>>), id, kind, fresh)
<1> DEFINE s == <<Gate(id), Gate(fresh)>>
           r == Group(kind, s)
<1>1. DOMAIN s = {1, 2} /\ s[1] = Gate(id) /\ s[2] = Gate(fresh)
  OBVIOUS
<1>2. r \in Trees
  OBVIOUS
<1> HIDE DEF s
<1>3. /\ GatesOf(r) = RowGates(s)
      /\ GatesDiffer(r) <=> RowDiffers(s)
      /\ \A found : Evaluate(r, found) = Finding(kind, RowFindings(s, found))
      /\ IsGroup(r)
  BY <1>2, GroupSays, GroupParts
<1> HIDE DEF r
<1>4. RowGates(s) = {id, fresh}
  BY <1>1, GateSays DEF RowGates
<1>5. RowDiffers(s)
  <2>1. GatesOf(s[1]) = {id} /\ GatesOf(s[2]) = {fresh} /\ GatesDiffer(s[1]) /\ GatesDiffer(s[2])
    BY <1>1, GateSays
  <2> QED
    BY <1>1, <2>1 DEF RowDiffers
<1>6. \A found : RowFindings(s, found) = {found[id], found[fresh]}
  <2> SUFFICES ASSUME NEW found PROVE RowFindings(s, found) = {found[id], found[fresh]}
    OBVIOUS
  <2>1. Evaluate(s[1], found) = found[id] /\ Evaluate(s[2], found) = found[fresh]
    BY <1>1, GateSays
  <2> QED
    BY <1>1, <2>1 DEF RowFindings
<1>7. GatesOf(Gate(id)) = {id} /\ ~IsGroup(Gate(id)) /\ \A other : Evaluate(Gate(id), other) = other[id]
  BY GateSays
<1>8. Wired(Gate(id), r, id, kind, fresh)
  BY <1>3, <1>4, <1>5, <1>6, <1>7 DEF Wired, ReadAs
<1> QED
  BY <1>8 DEF r, s

(* In a group of the kind, the new gate is next to the gate. *)
LEMMA WiredNext ==
  ASSUME NEW t \in Trees, GatesDiffer(t), NEW id \in Gates, Gate(id) \in Children(t),
         NEW fresh \in Gates, fresh \notin GatesOf(t), Group(t.type, Spliced(t, id, fresh)) \in Trees
  PROVE  Wired(t, Group(t.type, Spliced(t, id, fresh)), id, t.type, fresh)
<1> DEFINE s == t.children
           r == Spliced(t, id, fresh)
           e == Gate(fresh)
           type == t.type
<1>1. IsGroup(t) /\ id \in GatesOf(t)
  BY GateUnder
<1>2. /\ type \in {"and", "or"} /\ IsRow(s) /\ GatesOf(t) = RowGates(s) /\ RowDiffers(s)
      /\ \A found : Evaluate(t, found) = Finding(type, RowFindings(s, found))
  BY <1>1, GroupIs
<1>3. PICK at \in 1 .. Len(s) : s[at] = Gate(id) /\ r \in Seq(Trees) /\ OneMore(r, s, at, e)
  <2>1. s \in Seq(Trees) /\ e \in Trees
    BY <1>2, GateIs DEF IsRow
  <2>2. Gate(id) \in {s[k] : k \in DOMAIN s}
    BY <1>1, GroupCase
  <2> QED
    BY <2>1, <2>2, SplicedIs
<1>4. /\ IsRow(r) /\ GatesOf(Group(type, r)) = RowGates(r) /\ IsGroup(Group(type, r))
      /\ GatesDiffer(Group(type, r)) <=> RowDiffers(r)
      /\ \A found : Evaluate(Group(type, r), found) = Finding(type, RowFindings(r, found))
  BY <1>2, GroupSays, GroupParts
<1>5. GatesOf(e) = {fresh} /\ GatesDiffer(e) /\ (\A found : Evaluate(e, found) = found[fresh])
  BY GateSays
<1>6. GatesOf(s[at]) = {id} /\ (\A found : Evaluate(s[at], found) = found[id])
  BY <1>3, GateSays
<1> HIDE DEF s, r, e, type
<1>7. /\ \A j \in DOMAIN s : \E i \in DOMAIN r : r[i] = s[j]
      /\ \E i \in DOMAIN r : r[i] = e
      /\ \A i \in DOMAIN r : r[i] = e \/ \E j \in DOMAIN s : r[i] = s[j]
      /\ \A h, i \in DOMAIN r : h < i =>
           \/ r[h] = e /\ \E j \in DOMAIN s : r[i] = s[j]
           \/ r[i] = e /\ \E j \in DOMAIN s : r[h] = s[j]
           \/ \E j, k \in DOMAIN s : j # k /\ r[h] = s[j] /\ r[i] = s[k]
  <2>1. s \in Seq(Trees)
    BY <1>2 DEF IsRow
  <2> QED
    BY <1>3, <2>1, OneMoreHas
<1>8. RowGates(r) = RowGates(s) \union {fresh}
  BY <1>5, <1>7 DEF RowGates
<1>9. fresh \notin RowGates(s)
  BY <1>2
<1>10. RowDiffers(r)
  <2>1. \A j \in DOMAIN s : fresh \notin GatesOf(s[j])
    BY <1>9 DEF RowGates
  <2>2. ASSUME NEW h \in DOMAIN r, NEW i \in DOMAIN r, h < i
        PROVE  GatesOf(r[h]) \intersect GatesOf(r[i]) = {}
    <3>1. CASE r[h] = e /\ \E j \in DOMAIN s : r[i] = s[j]
      BY <1>5, <2>1, <3>1
    <3>2. CASE r[i] = e /\ \E j \in DOMAIN s : r[h] = s[j]
      BY <1>5, <2>1, <3>2
    <3>3. CASE \E j, k \in DOMAIN s : j # k /\ r[h] = s[j] /\ r[i] = s[k]
      BY <1>2, <3>3 DEF RowDiffers
    <3> QED
      BY <1>7, <2>2, <3>1, <3>2, <3>3
  <2>3. ASSUME NEW h \in DOMAIN r, NEW i \in DOMAIN r, h # i
        PROVE  GatesOf(r[h]) \intersect GatesOf(r[i]) = {}
    <3>1. h \in Nat /\ i \in Nat
      BY <1>4 DEF IsRow
    <3>2. h < i \/ i < h
      BY <2>3, <3>1
    <3> QED
      BY <2>2, <3>2
  <2>4. \A i \in DOMAIN r : GatesDiffer(r[i])
    BY <1>2, <1>5, <1>7 DEF RowDiffers
  <2> QED
    BY <2>3, <2>4 DEF RowDiffers
<1>11. ASSUME NEW found, NEW other, \A g \in GatesOf(t) \union {fresh} : found[g] \in Findings,
              ReadAs(found, other, GatesOf(t), id, Finding(type, {found[id], found[fresh]}))
       PROVE  Finding(type, RowFindings(r, found)) = Finding(type, RowFindings(s, other))
  <2> DEFINE I == DOMAIN s
             v == [k \in I |-> Evaluate(s[k], other)]
             E == [k \in I |-> IF k = at THEN {found[id], found[fresh]} ELSE {v[k]}]
  <2>1. ASSUME NEW k \in I, k # at
        PROVE  Evaluate(s[k], other) = Evaluate(s[k], found) /\ Evaluate(s[k], found) \in Findings
    <3>1. s[k] \in Trees /\ at \in DOMAIN s
      BY <1>2 DEF IsRow
    <3>2. GatesOf(s[k]) \subseteq GatesOf(t)
      BY <1>2 DEF RowGates
    <3>3. id \notin GatesOf(s[k])
      BY <1>2, <1>6, <2>1, <3>1 DEF RowDiffers
    <3>4. \A g \in GatesOf(s[k]) : other[g] = found[g] /\ found[g] \in Findings
      BY <1>11, <3>2, <3>3 DEF ReadAs
    <3> QED
      BY <3>1, <3>4, EvaluateSame, EvaluateFinds
  <2>2. Evaluate(s[at], other) = Finding(type, {found[id], found[fresh]})
    BY <1>6, <1>11 DEF ReadAs
  <2>3. {found[id], found[fresh]} \in SUBSET Findings
    BY <1>1, <1>11
  <2>4. Finding(type, {found[id], found[fresh]}) \in Findings
    BY <1>2, <2>3, FindingIs
  <2>5. ASSUME NEW k \in I
        PROVE  /\ E[k] \in SUBSET Findings /\ v[k] \in Findings
               /\ v[k] = Finding(type, E[k]) \/ E[k] = {v[k]}
    BY <2>1, <2>2, <2>3, <2>4
  <2>6. StandsFor(I, E, v, type)
    <3> HIDE DEF E, v, I
    <3> QED
      BY <2>5 DEF StandsFor
  <2>7. EachOf(I, v) = RowFindings(s, other)
    BY DEF EachOf, RowFindings
  <2>8. AllOf(I, E) = RowFindings(r, found)
    <3>1. at \in I
      BY <1>2 DEF IsRow
    <3>2. ASSUME NEW x PROVE x \in RowFindings(r, found) <=> x = found[fresh] \/ \E j \in I : x = Evaluate(s[j], found)
      BY <1>5, <1>7 DEF RowFindings
    <3>3. ASSUME NEW k \in I
          PROVE  E[k] = IF k = at THEN {Evaluate(s[k], found), found[fresh]} ELSE {Evaluate(s[k], found)}
      BY <1>6, <2>1
    <3> HIDE DEF I, E
    <3>4. ASSUME NEW x, x \in AllOf(I, E) PROVE x = found[fresh] \/ \E j \in I : x = Evaluate(s[j], found)
      <4>1. PICK k \in I : x \in E[k]
        BY <3>4 DEF AllOf
      <4> QED
        BY <3>3, <4>1
    <3>5. found[fresh] \in AllOf(I, E)
      <4>1. found[fresh] \in E[at]
        BY <3>1, <3>3
      <4> QED
        BY <3>1, <4>1 DEF AllOf
    <3>6. ASSUME NEW j \in I PROVE Evaluate(s[j], found) \in AllOf(I, E)
      <4>1. Evaluate(s[j], found) \in E[j]
        BY <3>3
      <4> QED
        BY <4>1 DEF AllOf
    <3> QED
      BY <3>2, <3>4, <3>5, <3>6
  <2> HIDE DEF E, v, I
  <2> QED
    BY <1>2, <2>6, <2>7, <2>8, FindingOfAll
<1>12. Wired(t, Group(type, r), id, type, fresh)
  BY <1>2, <1>4, <1>8, <1>10, <1>11 DEF Wired
<1> QED
  BY <1>12 DEF type, r

(* Elsewhere in a group, one child has it. *)
LEMMA WiredUnder ==
  ASSUME NEW t \in Trees, IsGroup(t), GatesDiffer(t), NEW id \in GatesOf(t), NEW kind \in {"and", "or"},
         NEW fresh \in Gates, fresh \notin GatesOf(t),
         NEW r, Group(t.type, r) \in Trees, DOMAIN r = DOMAIN t.children,
         NEW k \in DOMAIN t.children, id \in GatesOf(t.children[k]),
         \A j \in DOMAIN t.children : j # k => r[j] = t.children[j],
         Wired(t.children[k], r[k], id, kind, fresh)
  PROVE  Wired(t, Group(t.type, r), id, kind, fresh)
<1> DEFINE s == t.children
           type == t.type
<1>1. /\ type \in {"and", "or"} /\ IsRow(s) /\ GatesOf(t) = RowGates(s) /\ RowDiffers(s)
      /\ \A found : Evaluate(t, found) = Finding(type, RowFindings(s, found))
  BY GroupIs
<1>2. /\ IsRow(r) /\ GatesOf(Group(type, r)) = RowGates(r) /\ IsGroup(Group(type, r))
      /\ GatesDiffer(Group(type, r)) <=> RowDiffers(r)
      /\ \A found : Evaluate(Group(type, r), found) = Finding(type, RowFindings(r, found))
  BY <1>1, GroupSays, GroupParts
<1>3. /\ DOMAIN r = DOMAIN s /\ k \in DOMAIN s /\ id \in GatesOf(s[k])
      /\ \A j \in DOMAIN s : j # k => r[j] = s[j]
      /\ Wired(s[k], r[k], id, kind, fresh)
  OBVIOUS
<1> HIDE DEF s, type
<1>4. GatesOf(r[k]) = GatesOf(s[k]) \union {fresh} /\ GatesDiffer(r[k])
  BY <1>3 DEF Wired
<1>5. \A j \in DOMAIN s : fresh \notin GatesOf(s[j]) /\ (j # k => id \notin GatesOf(s[j]))
  <2>1. \A j \in DOMAIN s : GatesOf(s[j]) \subseteq GatesOf(t)
    BY <1>1 DEF RowGates
  <2> QED
    BY <1>1, <1>3, <2>1 DEF RowDiffers
<1>6. RowGates(r) = RowGates(s) \union {fresh}
  BY <1>3, <1>4 DEF RowGates
<1>7. RowDiffers(r)
  <2>1. ASSUME NEW i \in DOMAIN s, NEW j \in DOMAIN s, i # j
        PROVE  GatesOf(r[i]) \intersect GatesOf(r[j]) = {}
    <3>1. GatesOf(s[i]) \intersect GatesOf(s[j]) = {}
      BY <1>1, <2>1 DEF RowDiffers
    <3> QED
      BY <1>3, <1>4, <1>5, <2>1, <3>1
  <2>2. \A j \in DOMAIN s : GatesDiffer(r[j])
    BY <1>1, <1>3, <1>4 DEF RowDiffers
  <2> QED
    BY <1>3, <2>1, <2>2 DEF RowDiffers
<1>8. ASSUME NEW found, NEW other, \A g \in GatesOf(t) \union {fresh} : found[g] \in Findings,
             ReadAs(found, other, GatesOf(t), id, Finding(kind, {found[id], found[fresh]}))
      PROVE  RowFindings(r, found) = RowFindings(s, other)
  <2>1. ASSUME NEW j \in DOMAIN s PROVE Evaluate(r[j], found) = Evaluate(s[j], other)
    <3>1. s[j] \in Trees /\ GatesOf(s[j]) \subseteq GatesOf(t)
      BY <1>1 DEF RowGates, IsRow
    <3>2. CASE j = k
      BY <1>3, <1>8, <3>1, <3>2 DEF Wired, ReadAs
    <3>3. CASE j # k
      <4>1. \A g \in GatesOf(s[j]) : found[g] = other[g]
        BY <1>5, <1>8, <3>1, <3>3 DEF ReadAs
      <4> QED
        BY <1>3, <3>1, <3>3, <4>1, EvaluateSame
    <3> QED
      BY <3>2, <3>3
  <2> QED
    BY <1>3, <2>1 DEF RowFindings
<1>9. Wired(t, Group(type, r), id, kind, fresh)
  BY <1>1, <1>2, <1>6, <1>7, <1>8 DEF Wired
<1> QED
  BY <1>9 DEF type

(* So in every tree. *)
LEMMA InsertWires ==
  ASSUME NEW id \in Gates, NEW kind \in {"and", "or"}, NEW fresh \in Gates, NEW t \in Trees,
         GatesDiffer(t), id \in GatesOf(t), fresh \notin GatesOf(t), Insert(t, id, kind, fresh) \in Trees
  PROVE  Wired(t, Insert(t, id, kind, fresh), id, kind, fresh)
<1> DEFINE Due(u) == GatesDiffer(u) /\ id \in GatesOf(u) /\ fresh \notin GatesOf(u) /\ Insert(u, id, kind, fresh) \in Trees
           Bad == {u \in Trees : Due(u) /\ ~Wired(u, Insert(u, id, kind, fresh), id, kind, fresh)}
<1> SUFFICES ASSUME Bad # {} PROVE FALSE
  OBVIOUS
<1>1. PICK u \in Bad : \A c \in Children(u) : c \in AllTrees /\ c \notin Bad
  <2>1. Bad \in SUBSET AllTrees
    BY TreesAreTrees
  <2> HIDE DEF Bad
  <2> QED
    BY <2>1, SmallestTree
<1>2. u \in Trees /\ Due(u) /\ ~Wired(u, Insert(u, id, kind, fresh), id, kind, fresh)
  BY <1>1
<1>3. \A c \in Children(u) : c \in Trees /\ (Due(c) => Wired(c, Insert(c, id, kind, fresh), id, kind, fresh))
  BY <1>1, <1>2, ChildrenAreTrees
<1> HIDE DEF Bad
<1>4. Insert(u, id, kind, fresh) =
           IF u = Gate(id) THEN Group(kind, <<u, Gate(fresh)>>)
           ELSE IF Gate(id) \in Children(u) /\ Splices(u.type, kind) THEN Group(u.type, Spliced(u, id, fresh))
           ELSE IF IsGroup(u) THEN Group(u.type, Inserts(u, id, kind, fresh))
           ELSE u
  BY <1>2, InsertUnfolds
<1>5. CASE u = Gate(id)
  <2>1. fresh # id
    BY <1>2
  <2> QED
    BY <1>2, <1>4, <1>5, <2>1, WiredAlone
<1>6. CASE u # Gate(id) /\ Gate(id) \in Children(u) /\ Splices(u.type, kind)
  <2>1. u.type = kind
    BY <1>6 DEF Splices
  <2> QED
    BY <1>2, <1>4, <1>6, <2>1, WiredNext
<1>7. CASE u # Gate(id) /\ ~(Gate(id) \in Children(u) /\ Splices(u.type, kind)) /\ IsGroup(u)
  <2> DEFINE s == u.children
             r == Inserts(u, id, kind, fresh)
  <2>1. Insert(u, id, kind, fresh) = Group(u.type, r) /\ Group(u.type, r) \in Trees
    BY <1>2, <1>4, <1>7
  <2>2. u.type \in {"and", "or"} /\ IsRow(s) /\ RowDiffers(s) /\ GatesOf(u) = RowGates(s) /\ \A j \in DOMAIN s : s[j] \in Children(u)
    BY <1>2, <1>7, GroupIs, GroupCase
  <2>3. IsRow(r)
    BY <2>1, <2>2, GroupSays
  <2>4. DOMAIN r = DOMAIN s /\ \A j \in DOMAIN s : r[j] = Insert(s[j], id, kind, fresh)
    BY DEF Inserts
  <2>5. PICK k \in DOMAIN s : id \in GatesOf(s[k]) /\ \A j \in DOMAIN s : id \in GatesOf(s[j]) => j = k
    BY <1>2, <1>7, UnderOne
  <2> HIDE DEF r
  <2>6. \A j \in DOMAIN s : s[j] \in Trees /\ r[j] \in Trees /\ GatesDiffer(s[j]) /\ GatesOf(s[j]) \subseteq GatesOf(u)
    BY <2>2, <2>3, <2>4 DEF IsRow, RowDiffers, RowGates
  <2>7. \A j \in DOMAIN s : j # k => r[j] = s[j]
    BY <2>4, <2>5, <2>6, InsertElsewhere
  <2>8. Due(s[k])
    BY <1>2, <2>4, <2>5, <2>6
  <2>9. Wired(s[k], r[k], id, kind, fresh)
    BY <1>3, <2>2, <2>4, <2>8
  <2>10. Wired(u, Group(u.type, r), id, kind, fresh)
    BY <1>2, <1>7, <2>1, <2>4, <2>5, <2>7, <2>9, WiredUnder
  <2> QED
    BY <1>2, <2>1, <2>10
<1>8. CASE u # Gate(id) /\ ~IsGroup(u)
  <2>1. u = Gate(u.id) /\ GatesOf(u) = {u.id}
    BY <1>2, <1>8, TreeCases, GatesUnfold
  <2>2. u.id = id
    BY <1>2, <2>1
  <2> QED
    BY <1>8, <2>1, <2>2
<1> QED
  BY <1>5, <1>6, <1>7, <1>8

------------------------------------------------------------------------------
(* A gate less. *)

(* A row without some of its trees. *)
KeptIn(keep, x, m) == [k \in 1 .. m |-> IF k \in keep THEN <<x[k]>> ELSE <<>>]

KeptIs(flat, keep, x) ==
  /\ \A i \in DOMAIN flat : \E k \in keep : flat[i] = x[k]
  /\ \A k \in keep : \E i \in DOMAIN flat : flat[i] = x[k]
  /\ \A h, i \in DOMAIN flat : h < i => \E k, l \in keep : k # l /\ flat[h] = x[k] /\ flat[i] = x[l]

(* A row with some elements kept has those, in order. *)
LEMMA Kept ==
  ASSUME NEW T, NEW m \in Nat, NEW x, NEW keep \in SUBSET (1 .. m), \A k \in keep : x[k] \in T
  PROVE  FlattenSeq(KeptIn(keep, x, m)) \in Seq(T) /\ KeptIs(FlattenSeq(KeptIn(keep, x, m)), keep, x)
<1> DEFINE ss == KeptIn(keep, x, m)
           flat == FlattenSeq(ss)
<1>1. \A k \in 1 .. m : ss[k] = IF k \in keep THEN <<x[k]>> ELSE <<>>
  BY DEF KeptIn
<1>2. ss \in Seq(Seq(T)) /\ Len(ss) = m
  <2>1. ss = [k \in 1 .. m |-> ss[k]]
    BY DEF KeptIn
  <2>2. \A k \in 1 .. m : ss[k] \in Seq(T)
    <3> SUFFICES ASSUME NEW k \in 1 .. m PROVE ss[k] \in Seq(T)
      OBVIOUS
    <3> HIDE DEF ss
    <3>1. CASE k \in keep
      <4>1. ss[k] = <<x[k]>> /\ x[k] \in T
        BY <1>1, <3>1
      <4>2. <<x[k]>> \in Seq(T)
        BY <4>1
      <4> QED
        BY <4>1, <4>2, Zenon
    <3>2. CASE k \notin keep
      <4>1. ss[k] = <<>>
        BY <1>1, <3>2
      <4>2. <<>> \in Seq(T)
        OBVIOUS
      <4> QED
        BY <4>1, <4>2, Zenon
    <3> QED
      BY <3>1, <3>2
  <2> HIDE DEF ss
  <2> QED
    BY <2>1, <2>2
<1> HIDE DEF ss
<1>3. flat \in Seq(T) /\ Flattened(ss, m, flat)
  BY <1>2, FlattenIs
<1>4. ASSUME NEW k \in 1 .. m
      PROVE  /\ k \in keep => DOMAIN ss[k] = {1} /\ ss[k][1] = x[k]
             /\ k \notin keep => DOMAIN ss[k] = {}
  <2>1. CASE k \in keep
    <3>1. ss[k] = <<x[k]>>
      BY <1>1, <2>1
    <3> QED
      BY <2>1, <3>1
  <2>2. CASE k \notin keep
    <3>1. ss[k] = <<>>
      BY <1>1, <2>2
    <3> QED
      BY <2>2, <3>1
  <2> QED
    BY <2>1, <2>2
<1> HIDE DEF flat
<1>5. \A i \in DOMAIN flat : \E k \in keep : flat[i] = x[k]
  <2> SUFFICES ASSUME NEW i \in DOMAIN flat PROVE \E k \in keep : flat[i] = x[k]
    OBVIOUS
  <2>1. PICK k \in 1 .. m : \E j \in DOMAIN ss[k] : flat[i] = ss[k][j]
    BY <1>3 DEF Flattened
  <2>2. PICK j \in DOMAIN ss[k] : flat[i] = ss[k][j]
    BY <2>1
  <2>3. k \in keep /\ j = 1
    BY <1>4, <2>2
  <2> QED
    BY <1>4, <2>2, <2>3
<1>6. \A k \in keep : \E i \in DOMAIN flat : flat[i] = x[k]
  <2> SUFFICES ASSUME NEW k \in keep PROVE \E i \in DOMAIN flat : flat[i] = x[k]
    OBVIOUS
  <2>1. k \in 1 .. m /\ 1 \in DOMAIN ss[k] /\ ss[k][1] = x[k]
    BY <1>4
  <2> QED
    BY <1>3, <2>1 DEF Flattened
<1>7. ASSUME NEW h \in DOMAIN flat, NEW i \in DOMAIN flat, h < i
      PROVE  \E k, l \in keep : k # l /\ flat[h] = x[k] /\ flat[i] = x[l]
  <2>1. PICK k \in 1 .. m, l \in 1 .. m : \E j \in DOMAIN ss[k], n \in DOMAIN ss[l] :
              flat[h] = ss[k][j] /\ flat[i] = ss[l][n] /\ (k < l \/ (k = l /\ j < n))
    BY <1>3, <1>7 DEF Flattened
  <2>2. PICK j \in DOMAIN ss[k], n \in DOMAIN ss[l] :
              flat[h] = ss[k][j] /\ flat[i] = ss[l][n] /\ (k < l \/ (k = l /\ j < n))
    BY <2>1
  <2>3. k \in keep /\ l \in keep /\ j = 1 /\ n = 1
    BY <1>4, <2>2
  <2>4. k # l
    BY <2>2, <2>3
  <2> QED
    BY <1>4, <2>2, <2>3, <2>4
<1> QED
  BY <1>3, <1>5, <1>6, <1>7 DEF KeptIs, flat, ss

(* The children that stay, as they become. *)
Staying(n, id) == {k \in DOMAIN n.children : n.children[k] # Gate(id)}

LessOne(v, id, n) ==
  FlattenSeq([k \in DOMAIN n.children |-> IF n.children[k] = Gate(id) THEN <<>> ELSE <<v[n.children[k]]>>])

PruneStep(v, id, n) == IF ~IsGroup(n) THEN n ELSE Group(n.type, LessOne(v, id, n))

(* A row with a gate left out. *)
LEMMA LessOneIs ==
  ASSUME NEW id, NEW n \in Trees, IsGroup(n), NEW v, NEW S, \A c \in Children(n) : c # Gate(id) => v[c] \in S
  PROVE  LessOne(v, id, n) \in Seq(S) /\ KeptIs(LessOne(v, id, n), Staying(n, id), Kids(v, n))
<1> DEFINE m == Len(n.children)
           keep == Staying(n, id)
           x == Kids(v, n)
<1>1. /\ m \in Nat /\ DOMAIN n.children = 1 .. m
      /\ \A k \in 1 .. m : n.children[k] \in Children(n)
  BY GroupCase
<1>2. keep \in SUBSET (1 .. m) /\ \A k \in 1 .. m : k \in keep <=> n.children[k] # Gate(id)
  BY <1>1 DEF Staying
<1>3. \A k \in 1 .. m : x[k] = v[n.children[k]]
  BY <1>1 DEF Kids
<1> HIDE DEF keep, x
<1>4. LessOne(v, id, n) = FlattenSeq(KeptIn(keep, x, m))
  <2>1. KeptIn(keep, x, m) = [k \in DOMAIN n.children |-> IF n.children[k] = Gate(id) THEN <<>> ELSE <<v[n.children[k]]>>]
    <3> HIDE DEF m
    <3> QED
      BY <1>1, <1>2, <1>3 DEF KeptIn
  <2> QED
    BY <2>1 DEF LessOne
<1>5. \A k \in keep : x[k] \in S
  BY <1>1, <1>2, <1>3
<1> HIDE DEF m
<1>6. FlattenSeq(KeptIn(keep, x, m)) \in Seq(S) /\ KeptIs(FlattenSeq(KeptIn(keep, x, m)), keep, x)
  BY <1>1, <1>2, <1>5, Kept
<1> QED
  BY <1>4, <1>6 DEF keep, x

(* A pruning is made of those of the children. *)
LEMMA PruneTyped ==
  ASSUME NEW id, NEW n \in Trees, NEW v, \A c \in Children(n) : v[c] \in AllTrees
  PROVE  PruneStep(v, id, n) \in AllTrees
<1>1. CASE ~IsGroup(n)
  BY <1>1, TreesAreTrees DEF PruneStep
<1>2. CASE IsGroup(n)
  <2>1. LessOne(v, id, n) \in Seq(AllTrees) /\ n.type \in {"and", "or"}
    BY <1>2, LessOneIs, GroupCase
  <2> QED
    BY <1>2, <2>1, GroupsAreTrees DEF PruneStep
<1> QED
  BY <1>1, <1>2

(* It depends on those of the children alone. *)
LEMMA PruneSame ==
  ASSUME NEW id, NEW n \in Trees, NEW v, NEW w, \A c \in Children(n) : v[c] = w[c]
  PROVE  PruneStep(v, id, n) = PruneStep(w, id, n)
<1>1. CASE ~IsGroup(n)
  BY <1>1 DEF PruneStep
<1>2. CASE IsGroup(n)
  <2>1. \A k \in DOMAIN n.children : n.children[k] \in Children(n)
    BY <1>2, GroupCase
  <2>2. \A k \in DOMAIN n.children : v[n.children[k]] = w[n.children[k]]
    BY <2>1
  <2>3. LessOne(v, id, n) = LessOne(w, id, n)
    BY <2>2 DEF LessOne
  <2> QED
    BY <2>3 DEF PruneStep
<1> QED
  BY <1>1, <1>2

Prunes(t, id) == [k \in DOMAIN t.children |-> Prune(t.children[k], id)]

(* A group's pruning is of its children's, without the gate. *)
LEMMA PruneUnfolds ==
  ASSUME NEW id, NEW t \in Trees
  PROVE  /\ Prune(t, id) \in AllTrees
         /\ ~IsGroup(t) => Prune(t, id) = t
         /\ IsGroup(t) => \E rest : /\ Prune(t, id) = Group(t.type, rest)
                                    /\ KeptIs(rest, Staying(t, id), Prunes(t, id))
                                    /\ \A S : (\A c \in Children(t) : c # Gate(id) => Prune(c, id) \in S) => rest \in Seq(S)
<1> DEFINE step == [n \in Trees |-> [v \in [Children(n) -> AllTrees] |-> PruneStep(v, id, n)]]
           Is(f) == f = [n \in Trees |-> PruneStep(f, id, n)]
           pruned == CHOOSE f : Is(f)
<1>1. Steps(Trees, AllTrees, Branches, step)
  BY PruneTyped DEF Steps, Branches
<1>2. PICK f \in [Trees -> AllTrees] : \A n \in Trees : Recurs(f, Branches, step, n)
  <2>1. AllTrees # {}
    BY TreesAreTrees
  <2> HIDE DEF step
  <2> QED
    BY <1>1, <2>1, TreeRecursion
<1>3. ASSUME NEW n \in Trees PROVE f[n] = PruneStep(f, id, n)
  <2> DEFINE v == [c \in Children(n) |-> f[c]]
  <2>1. v \in [Children(n) -> AllTrees] /\ \A c \in Children(n) : v[c] = f[c]
    BY ChildrenAreTrees
  <2>2. f[n] = step[n][v]
    <3> HIDE DEF step
    <3> QED
      BY <1>2 DEF Recurs, Branches
  <2>3. step[n][v] = PruneStep(v, id, n)
    <3> HIDE DEF v
    <3> QED
      BY <2>1
  <2> HIDE DEF v, step
  <2> QED
    BY <2>1, <2>2, <2>3, PruneSame
<1>4. Is(f)
  BY <1>3
<1>5. Is(pruned)
  <2> HIDE DEF Is
  <2> QED
    BY <1>4
<1>6. \A n \in Trees : pruned[n] = PruneStep(pruned, id, n)
  <2> HIDE DEF pruned
  <2> QED
    BY <1>5
<1>7. \A n : Prune(n, id) = pruned[n]
  BY DEF Prune, PruneStep, LessOne
<1> HIDE DEF pruned, Is
<1>8. \A n \in Trees : pruned[n] \in AllTrees
  <2> DEFINE Bad == {u \in Trees : pruned[u] \notin AllTrees}
  <2> SUFFICES ASSUME Bad # {} PROVE FALSE
    OBVIOUS
  <2>1. PICK u \in Bad : \A c \in Children(u) : c \in AllTrees /\ c \notin Bad
    <3>1. Bad \in SUBSET AllTrees
      BY TreesAreTrees
    <3> HIDE DEF Bad
    <3> QED
      BY <3>1, SmallestTree
  <2>2. u \in Trees /\ pruned[u] \notin AllTrees /\ \A c \in Children(u) : pruned[c] \in AllTrees
    BY <2>1, ChildrenAreTrees
  <2> QED
    BY <1>6, <2>2, PruneTyped
<1>9. Prune(t, id) = PruneStep(pruned, id, t) /\ Prune(t, id) \in AllTrees
  BY <1>6, <1>7, <1>8
<1>10. ~IsGroup(t) => Prune(t, id) = t
  BY <1>9 DEF PruneStep
<1>11. ASSUME IsGroup(t)
       PROVE  \E rest : /\ Prune(t, id) = Group(t.type, rest)
                        /\ KeptIs(rest, Staying(t, id), Prunes(t, id))
                        /\ \A S : (\A c \in Children(t) : c # Gate(id) => Prune(c, id) \in S) => rest \in Seq(S)
  <2> DEFINE rest == LessOne(pruned, id, t)
  <2>1. Prune(t, id) = Group(t.type, rest)
    BY <1>9, <1>11 DEF PruneStep
  <2>2. Kids(pruned, t) = Prunes(t, id)
    BY <1>7 DEF Kids, Prunes
  <2>3. ASSUME NEW S, \A c \in Children(t) : c # Gate(id) => Prune(c, id) \in S
        PROVE  rest \in Seq(S) /\ KeptIs(rest, Staying(t, id), Kids(pruned, t))
    <3>1. \A c \in Children(t) : c # Gate(id) => pruned[c] \in S
      BY <1>7, <2>3
    <3> QED
      BY <1>11, <3>1, LessOneIs
  <2>4. KeptIs(rest, Staying(t, id), Kids(pruned, t))
    <3>1. \A c \in Children(t) : c # Gate(id) => Prune(c, id) \in {Prune(d, id) : d \in Children(t)}
      OBVIOUS
    <3> HIDE DEF rest
    <3> QED
      BY <2>3, <3>1
  <2> HIDE DEF rest
  <2> QED
    BY <2>1, <2>2, <2>3, <2>4
<1> QED
  BY <1>9, <1>10, <1>11

(* A gate is of a group's children only in the group's own part of the tree. *)
LEMMA OneParent ==
  ASSUME NEW id \in Gates, NEW t \in Trees, GatesDiffer(t),
         NEW p \in GroupsOf(t), NEW q \in GroupsOf(t), Gate(id) \in Children(p), Gate(id) \in Children(q)
  PROVE  p = q
<1> DEFINE Alone(u) == \A a, b \in GroupsOf(u) : Gate(id) \in Children(a) /\ Gate(id) \in Children(b) => a = b
           Bad == {u \in Trees : GatesDiffer(u) /\ ~Alone(u)}
<1> SUFFICES ASSUME Bad # {} PROVE FALSE
  OBVIOUS
<1>1. PICK u \in Bad : \A c \in Children(u) : c \in AllTrees /\ c \notin Bad
  <2>1. Bad \in SUBSET AllTrees
    BY TreesAreTrees
  <2> HIDE DEF Bad
  <2> QED
    BY <2>1, SmallestTree
<1>2. u \in Trees /\ GatesDiffer(u) /\ ~Alone(u) /\ \A c \in Children(u) : c \in Trees /\ (GatesDiffer(c) => Alone(c))
  BY <1>1, ChildrenAreTrees
<1> HIDE DEF Bad
<1>3. IsGroup(u)
  BY <1>2, GroupsUnfold
<1>4. GroupsOf(u) = {u} \union UNION {GroupsOf(c) : c \in Children(u)}
  BY <1>2, <1>3, GroupsUnfold
<1>5. \A c \in Children(u) : GatesDiffer(c)
  BY <1>2, <1>3, DiffersUnfolds
<1>6. IsRow(u.children) /\ RowDiffers(u.children) /\ Children(u) = {u.children[k] : k \in DOMAIN u.children}
  BY <1>2, <1>3, GroupIs, GroupCase
<1>7. ASSUME NEW c \in Children(u), NEW a \in GroupsOf(c), Gate(id) \in Children(a)
      PROVE  id \in GatesOf(c) /\ IsGroup(c)
  <2>1. c \in Trees
    BY <1>2
  <2>2. a \in Trees /\ GatesOf(a) \subseteq GatesOf(c)
    BY <2>1, GatesUnder
  <2>3. id \in GatesOf(a)
    BY <1>7, <2>2, GateUnder
  <2> QED
    BY <2>1, <2>2, <2>3, GroupsUnfold
<1>8. ASSUME NEW c \in Children(u), NEW d \in Children(u), id \in GatesOf(c), id \in GatesOf(d)
      PROVE  c = d
  <2>1. PICK j \in DOMAIN u.children : c = u.children[j]
    BY <1>6
  <2>2. PICK k \in DOMAIN u.children : d = u.children[k]
    BY <1>6
  <2> QED
    BY <1>6, <1>8, <2>1, <2>2 DEF RowDiffers
<1>9. ASSUME NEW a \in GroupsOf(u), NEW b \in GroupsOf(u), Gate(id) \in Children(a), Gate(id) \in Children(b)
      PROVE  a = b
  <2>1. GatesOf(Gate(id)) = {id} /\ ~IsGroup(Gate(id))
    BY GateSays
  <2>2. ASSUME NEW c \in Children(u), NEW e \in GroupsOf(c), Gate(id) \in Children(e), Gate(id) \in Children(u)
        PROVE  FALSE
    <3>1. id \in GatesOf(c) /\ IsGroup(c)
      BY <1>7, <2>2
    <3>2. c = Gate(id)
      BY <1>8, <2>1, <2>2, <3>1
    <3> QED
      BY <2>1, <3>1, <3>2
  <2>3. CASE a = u
    <3>1. b = u \/ \E c \in Children(u) : b \in GroupsOf(c)
      BY <1>4
    <3> QED
      BY <1>9, <2>2, <2>3, <3>1
  <2>4. CASE b = u
    <3>1. a = u \/ \E c \in Children(u) : a \in GroupsOf(c)
      BY <1>4
    <3> QED
      BY <1>9, <2>2, <2>4, <3>1
  <2>5. CASE a # u /\ b # u
    <3>1. PICK c \in Children(u) : a \in GroupsOf(c)
      BY <1>4, <2>5
    <3>2. PICK d \in Children(u) : b \in GroupsOf(d)
      BY <1>4, <2>5
    <3>3. c = d
      BY <1>7, <1>8, <1>9, <3>1, <3>2
    <3> QED
      BY <1>2, <1>5, <1>9, <3>1, <3>2, <3>3
  <2> QED
    BY <2>3, <2>4, <2>5
<1> QED
  BY <1>2, <1>9

(* And a gate of a group is of some group's children. *)
LEMMA SomeParent ==
  ASSUME NEW id \in Gates, NEW t \in Trees, IsGroup(t), id \in GatesOf(t)
  PROVE  \E p \in GroupsOf(t) : Gate(id) \in Children(p)
<1> DEFINE Has(u) == \E p \in GroupsOf(u) : Gate(id) \in Children(p)
           Bad == {u \in Trees : IsGroup(u) /\ id \in GatesOf(u) /\ ~Has(u)}
<1> SUFFICES ASSUME Bad # {} PROVE FALSE
  OBVIOUS
<1>1. PICK u \in Bad : \A c \in Children(u) : c \in AllTrees /\ c \notin Bad
  <2>1. Bad \in SUBSET AllTrees
    BY TreesAreTrees
  <2> HIDE DEF Bad
  <2> QED
    BY <2>1, SmallestTree
<1>2. /\ u \in Trees /\ IsGroup(u) /\ id \in GatesOf(u) /\ ~Has(u)
      /\ \A c \in Children(u) : c \in Trees /\ (IsGroup(c) /\ id \in GatesOf(c) => Has(c))
  BY <1>1, ChildrenAreTrees
<1> HIDE DEF Bad
<1>3. GroupsOf(u) = {u} \union UNION {GroupsOf(c) : c \in Children(u)}
  BY <1>2, GroupsUnfold
<1>4. PICK c \in Children(u) : id \in GatesOf(c)
  BY <1>2, GatesUnfold
<1>5. CASE IsGroup(c)
  BY <1>2, <1>3, <1>4, <1>5
<1>6. CASE ~IsGroup(c)
  <2>1. c = Gate(c.id) /\ GatesOf(c) = {c.id}
    BY <1>2, <1>6, TreeCases, GatesUnfold
  <2>2. c = Gate(id)
    BY <1>4, <2>1
  <2> QED
    BY <1>2, <1>3, <2>2
<1> QED
  BY <1>5, <1>6

(* What a gate that is not there counts as in a group. *)
Neutral(type) == IF type = "and" THEN "held" ELSE "open"

Parents(t, id, type) == \A p \in GroupsOf(t) : Gate(id) \in Children(p) => p.type = type

Without(t, r, id) ==
  /\ r \in Trees /\ (\A d \in Nat : t \in Nested[d] => r \in Nested[d])
  /\ r.type = t.type
  /\ GatesOf(r) = GatesOf(t) \ {id}
  /\ GatesDiffer(t) => GatesDiffer(r)
  /\ \A found, other, type :
       /\ \A g \in GatesOf(t) : g # id => found[g] \in Findings
       /\ Parents(t, id, type) /\ ReadAs(found, other, GatesOf(t), id, Neutral(type))
       => Evaluate(r, found) = Evaluate(t, other)

(* The children that stay, with the gate removed from each. *)
LEMMA RowWithout ==
  ASSUME NEW t \in Trees, IsGroup(t), NEW id \in Gates, NEW x,
         NEW rest, Group(t.type, rest) \in Trees, KeptIs(rest, Staying(t, id), x),
         \A k \in Staying(t, id) : Without(t.children[k], x[k], id)
  PROVE  /\ GatesOf(Group(t.type, rest)) = GatesOf(t) \ {id}
         /\ GatesDiffer(t) => GatesDiffer(Group(t.type, rest))
         /\ \A found, other, type :
              /\ \A g \in GatesOf(t) : g # id => found[g] \in Findings
              /\ Parents(t, id, type) /\ ReadAs(found, other, GatesOf(t), id, Neutral(type))
              => Evaluate(Group(t.type, rest), found) = Evaluate(t, other)
<1> DEFINE s == t.children
           kind == t.type
           keep == Staying(t, id)
           r == Group(kind, rest)
<1>1. /\ kind \in {"and", "or"} /\ IsRow(s) /\ GatesOf(t) = RowGates(s) /\ (GatesDiffer(t) <=> RowDiffers(s))
      /\ \A found : Evaluate(t, found) = Finding(kind, RowFindings(s, found))
      /\ \A k \in DOMAIN s : s[k] \in Children(t)
  BY GroupIs, GroupCase
<1>2. /\ IsRow(rest) /\ GatesOf(r) = RowGates(rest)
      /\ GatesDiffer(r) <=> RowDiffers(rest)
      /\ \A found : Evaluate(r, found) = Finding(kind, RowFindings(rest, found))
  BY <1>1, GroupSays
<1>3. keep \subseteq DOMAIN s /\ \A k \in DOMAIN s : k \in keep <=> s[k] # Gate(id)
  BY DEF Staying
<1>4. /\ \A i \in DOMAIN rest : \E k \in keep : rest[i] = x[k]
      /\ \A k \in keep : \E i \in DOMAIN rest : rest[i] = x[k]
      /\ \A h, i \in DOMAIN rest : h < i => \E k, l \in keep : k # l /\ rest[h] = x[k] /\ rest[i] = x[l]
  BY DEF KeptIs
<1>5. \A k \in keep : Without(s[k], x[k], id)
  OBVIOUS
<1> HIDE DEF s, kind, keep, r
<1>6. \A k \in keep : GatesOf(x[k]) = GatesOf(s[k]) \ {id} /\ (GatesDiffer(s[k]) => GatesDiffer(x[k]))
  BY <1>5 DEF Without
<1>7. GatesOf(Gate(id)) = {id}
  BY GateSays
<1>8. RowGates(rest) = RowGates(s) \ {id}
  <2>1. ASSUME NEW g PROVE g \in RowGates(rest) <=> \E k \in keep : g \in GatesOf(x[k])
    BY <1>4 DEF RowGates
  <2>2. ASSUME NEW g, g # id PROVE g \in RowGates(s) <=> \E k \in keep : g \in GatesOf(s[k])
    BY <1>3, <1>7, <2>2 DEF RowGates
  <2> QED
    BY <1>6, <2>1, <2>2
<1>9. ASSUME RowDiffers(s) PROVE RowDiffers(rest)
  <2>1. ASSUME NEW h \in DOMAIN rest, NEW i \in DOMAIN rest, h < i
        PROVE  GatesOf(rest[h]) \intersect GatesOf(rest[i]) = {}
    <3>1. PICK k \in keep, l \in keep : k # l /\ rest[h] = x[k] /\ rest[i] = x[l]
      BY <1>4, <2>1
    <3>2. GatesOf(s[k]) \intersect GatesOf(s[l]) = {}
      BY <1>3, <1>9, <3>1 DEF RowDiffers
    <3> QED
      BY <1>6, <3>1, <3>2
  <2>2. ASSUME NEW h \in DOMAIN rest, NEW i \in DOMAIN rest, h # i
        PROVE  GatesOf(rest[h]) \intersect GatesOf(rest[i]) = {}
    <3>1. h \in Nat /\ i \in Nat
      BY <1>2 DEF IsRow
    <3>2. h < i \/ i < h
      BY <2>2, <3>1
    <3> QED
      BY <2>1, <3>2
  <2>3. \A i \in DOMAIN rest : GatesDiffer(rest[i])
    BY <1>3, <1>4, <1>6, <1>9 DEF RowDiffers
  <2> QED
    BY <2>2, <2>3 DEF RowDiffers
<1>10. ASSUME NEW found, NEW other, NEW type, \A g \in GatesOf(t) : g # id => found[g] \in Findings,
              Parents(t, id, type), ReadAs(found, other, GatesOf(t), id, Neutral(type))
       PROVE  Finding(kind, RowFindings(rest, found)) = Finding(kind, RowFindings(s, other))
  <2> DEFINE K == RowFindings(rest, found)
             L == RowFindings(s, other)
  <2>1. GroupsOf(t) = {t} \union UNION {GroupsOf(c) : c \in Children(t)}
    BY GroupsUnfold
  <2>2. ASSUME NEW k \in keep
        PROVE  Evaluate(x[k], found) = Evaluate(s[k], other) /\ Evaluate(x[k], found) \in Findings
    <3>1. s[k] \in Children(t) /\ GatesOf(s[k]) \subseteq GatesOf(t)
      BY <1>1, <1>3 DEF RowGates
    <3>2. Parents(s[k], id, type)
      BY <1>10, <2>1, <3>1 DEF Parents
    <3>3. ReadAs(found, other, GatesOf(s[k]), id, Neutral(type)) /\ \A g \in GatesOf(s[k]) : g # id => found[g] \in Findings
      BY <1>10, <3>1 DEF ReadAs
    <3>4. Evaluate(x[k], found) = Evaluate(s[k], other)
      BY <1>5, <3>2, <3>3 DEF Without
    <3>5. x[k] \in Trees /\ \A g \in GatesOf(x[k]) : found[g] \in Findings
      BY <1>5, <1>6, <3>3 DEF Without
    <3> QED
      BY <3>4, <3>5, EvaluateFinds
  <2>3. ASSUME NEW y PROVE y \in K <=> \E k \in keep : y = Evaluate(s[k], other)
    <3>1. y \in K <=> \E k \in keep : y = Evaluate(x[k], found)
      BY <1>4 DEF RowFindings
    <3> QED
      BY <2>2, <3>1
  <2>4. K \subseteq L
    <3> HIDE DEF K
    <3> QED
      BY <1>3, <2>3 DEF RowFindings
  <2>5. K \in SUBSET Findings
    <3>1. \A y \in K : \E k \in keep : y = Evaluate(x[k], found)
      BY <1>4 DEF RowFindings
    <3> HIDE DEF K
    <3> QED
      BY <2>2, <3>1
  <2>6. ASSUME NEW k \in DOMAIN s, k \notin keep PROVE kind = type /\ Evaluate(s[k], other) = Neutral(kind)
    <3>1. s[k] = Gate(id)
      BY <1>3, <2>6
    <3>2. Gate(id) \in Children(t)
      BY <1>1, <3>1
    <3>3. kind = type
      BY <1>10, <2>1, <3>2 DEF Parents, kind
    <3>4. Evaluate(s[k], other) = other[id]
      BY <3>1, GateSays
    <3> QED
      BY <1>10, <3>3, <3>4 DEF ReadAs
  <2>7. \A y \in L : y \in K \/ y = Neutral(kind)
    <3> SUFFICES ASSUME NEW k \in DOMAIN s PROVE Evaluate(s[k], other) \in K \/ Evaluate(s[k], other) = Neutral(kind)
      BY DEF RowFindings
    <3> HIDE DEF K
    <3> QED
      BY <2>3, <2>6
  <2> HIDE DEF K, L
  <2>8. L \in SUBSET Findings
    BY <2>5, <2>7 DEF Neutral, Findings
  <2>9. kind = "and" => /\ "open" \in K <=> "open" \in L
                        /\ (\A y \in K : y = "held") <=> (\A y \in L : y = "held")
    BY <2>4, <2>7 DEF Neutral
  <2>10. kind = "or" => /\ "held" \in K <=> "held" \in L
                        /\ (\A y \in K : y = "open") <=> (\A y \in L : y = "open")
    BY <2>4, <2>7 DEF Neutral
  <2>11. Finding(kind, K) = Finding(kind, L)
    BY <1>1, <2>5, <2>8, <2>9, <2>10, FindingsAgree
  <2> QED
    BY <2>11 DEF K, L
<1> QED
  BY <1>1, <1>2, <1>8, <1>9, <1>10 DEF r, kind

(* A gate pruned, the rest means what it did with the gate neutral. *)
LEMMA PruneWithout ==
  ASSUME NEW id \in Gates, NEW t \in Trees, t # Gate(id)
  PROVE  Without(t, Prune(t, id), id)
<1> DEFINE Bad == {u \in Trees : u # Gate(id) /\ ~Without(u, Prune(u, id), id)}
<1> SUFFICES ASSUME Bad # {} PROVE FALSE
  OBVIOUS
<1>1. PICK u \in Bad : \A c \in Children(u) : c \in AllTrees /\ c \notin Bad
  <2>1. Bad \in SUBSET AllTrees
    BY TreesAreTrees
  <2> HIDE DEF Bad
  <2> QED
    BY <2>1, SmallestTree
<1>2. /\ u \in Trees /\ u # Gate(id) /\ ~Without(u, Prune(u, id), id)
      /\ \A c \in Children(u) : c \in Trees /\ (c # Gate(id) => Without(c, Prune(c, id), id))
  BY <1>1, ChildrenAreTrees
<1> HIDE DEF Bad
<1>3. CASE ~IsGroup(u)
  <2>1. Prune(u, id) = u
    BY <1>2, <1>3, PruneUnfolds
  <2>2. u = Gate(u.id) /\ GatesOf(u) = {u.id}
    BY <1>2, <1>3, TreeCases, GatesUnfold
  <2>3. id \notin GatesOf(u)
    BY <1>2, <2>2
  <2>4. ASSUME NEW found, NEW other, NEW type, ReadAs(found, other, GatesOf(u), id, Neutral(type))
        PROVE  Evaluate(u, found) = Evaluate(u, other)
    <3>1. \A g \in GatesOf(u) : found[g] = other[g]
      BY <2>3, <2>4 DEF ReadAs
    <3> QED
      BY <1>2, <3>1, EvaluateSame
  <2> QED
    BY <1>2, <2>1, <2>3, <2>4 DEF Without
<1>4. CASE IsGroup(u)
  <2>1. PICK rest : /\ Prune(u, id) = Group(u.type, rest)
                    /\ KeptIs(rest, Staying(u, id), Prunes(u, id))
                    /\ \A S : (\A c \in Children(u) : c # Gate(id) => Prune(c, id) \in S) => rest \in Seq(S)
    BY <1>2, <1>4, PruneUnfolds
  <2>2. u.type \in {"and", "or"} /\ \A k \in DOMAIN u.children : u.children[k] \in Children(u)
    BY <1>2, <1>4, GroupCase
  <2>3. ASSUME NEW d \in Nat, u \in Nested[d]
        PROVE  Group(u.type, rest) \in Nested[d]
    <3>1. d # 0 /\ u.children \in Seq(Nested[d - 1]) /\ d - 1 \in Nat
      BY <1>4, <2>3, GroupNested
    <3>2. \A c \in Children(u) : c \in Nested[d - 1]
      <4>1. Children(u) = {u.children[k] : k \in DOMAIN u.children}
        BY <1>2, <1>4, GroupCase
      <4> QED
        BY <3>1, <4>1
    <3>3. \A c \in Children(u) : c # Gate(id) => Prune(c, id) \in Nested[d - 1]
      BY <1>2, <3>1, <3>2 DEF Without
    <3>4. rest \in Seq(Nested[d - 1])
      BY <2>1, <3>3
    <3> QED
      BY <2>2, <3>1, <3>4, GroupOfNested
  <2>4. Group(u.type, rest) \in Trees
    BY <1>2, <2>3, NestingAssumption DEF Trees
  <2>5. \A k \in Staying(u, id) : Without(u.children[k], Prunes(u, id)[k], id)
    BY <1>2, <2>2 DEF Staying, Prunes
  <2> DEFINE x == Prunes(u, id)
             r == Group(u.type, rest)
  <2> HIDE DEF x
  <2>6. /\ GatesOf(r) = GatesOf(u) \ {id}
        /\ GatesDiffer(u) => GatesDiffer(r)
        /\ \A found, other, type :
             /\ \A g \in GatesOf(u) : g # id => found[g] \in Findings
             /\ Parents(u, id, type) /\ ReadAs(found, other, GatesOf(u), id, Neutral(type))
             => Evaluate(r, found) = Evaluate(u, other)
    <3>1. KeptIs(rest, Staying(u, id), x) /\ \A k \in Staying(u, id) : Without(u.children[k], x[k], id)
      BY <2>1, <2>5 DEF x
    <3> QED
      BY <1>2, <1>4, <2>4, <3>1, RowWithout
  <2>7. r.type = u.type
    BY <2>2, GroupParts
  <2> HIDE DEF r
  <2>8. Without(u, r, id)
    BY <2>3, <2>4, <2>6, <2>7 DEF Without, r
  <2> QED
    BY <1>2, <2>1, <2>8 DEF r
<1> QED
  BY <1>3, <1>4

------------------------------------------------------------------------------
(* Proposals. *)

(* Two rows, one after the other. *)
LEMMA RowsJoined ==
  ASSUME NEW a, NEW b, IsRow(a), IsRow(b), RowDiffers(a), RowDiffers(b),
         RowGates(a) \intersect RowGates(b) = {}
  PROVE  IsRow(a \o b) /\ RowDiffers(a \o b) /\ RowGates(a \o b) = RowGates(a) \union RowGates(b)
<1> DEFINE c == a \o b
           m == Len(a)
           n == Len(b)
<1>1. /\ a \in Seq(Trees) /\ m \in Nat /\ DOMAIN a = 1 .. m
      /\ b \in Seq(Trees) /\ n \in Nat /\ DOMAIN b = 1 .. n
  BY DEF IsRow
<1>2. c \in Seq(Trees) /\ Len(c) = m + n
  BY <1>1, Joined
<1>3. \A i \in 1 .. m + n : c[i] = IF i <= m THEN a[i] ELSE b[i - m]
  BY <1>1
<1> HIDE DEF c, m, n
<1>4. DOMAIN c = 1 .. m + n /\ m + n \in Nat /\ \A i \in DOMAIN c : c[i] \in Trees
  BY <1>1, <1>2
<1>5. ASSUME NEW i \in 1 .. m + n
      PROVE  \/ i \in 1 .. m /\ c[i] = a[i]
             \/ i > m /\ i - m \in 1 .. n /\ c[i] = b[i - m]
  BY <1>1, <1>3
<1>6. ASSUME NEW i \in 1 .. m PROVE i \in 1 .. m + n /\ c[i] = a[i]
  BY <1>1, <1>3
<1>7. ASSUME NEW i \in 1 .. n PROVE \E h \in 1 .. m + n : c[h] = b[i]
  <2> DEFINE h == i + m
  <2>1. h \in 1 .. m + n /\ ~(h <= m) /\ h - m = i
    BY <1>1
  <2> HIDE DEF h
  <2>2. c[h] = b[h - m]
    BY <1>3, <2>1
  <2> QED
    BY <2>1, <2>2
<1>8. RowGates(c) = RowGates(a) \union RowGates(b)
  <2>1. ASSUME NEW g, g \in RowGates(c) PROVE g \in RowGates(a) \union RowGates(b)
    <3>1. PICK i \in 1 .. m + n : g \in GatesOf(c[i])
      BY <1>4, <2>1 DEF RowGates
    <3> QED
      BY <1>1, <1>5, <3>1 DEF RowGates
  <2>2. ASSUME NEW g, g \in RowGates(a) PROVE g \in RowGates(c)
    BY <1>1, <1>4, <1>6, <2>2 DEF RowGates
  <2>3. ASSUME NEW g, g \in RowGates(b) PROVE g \in RowGates(c)
    <3>1. PICK i \in 1 .. n : g \in GatesOf(b[i])
      BY <1>1, <2>3 DEF RowGates
    <3>2. PICK h \in 1 .. m + n : c[h] = b[i]
      BY <1>7
    <3> QED
      BY <1>4, <3>1, <3>2 DEF RowGates
  <2> QED
    BY <2>1, <2>2, <2>3
<1>9. ASSUME NEW h \in 1 .. m + n, NEW i \in 1 .. m + n, h < i
      PROVE  GatesOf(c[h]) \intersect GatesOf(c[i]) = {}
  <2>1. CASE h \in 1 .. m /\ c[h] = a[h] /\ i \in 1 .. m /\ c[i] = a[i]
    BY <1>1, <1>9, <2>1 DEF RowDiffers
  <2>2. CASE h > m /\ h - m \in 1 .. n /\ c[h] = b[h - m] /\ i > m /\ i - m \in 1 .. n /\ c[i] = b[i - m]
    <3>1. h - m # i - m
      BY <1>1, <1>9
    <3> QED
      BY <1>1, <2>2, <3>1 DEF RowDiffers
  <2>3. CASE h \in 1 .. m /\ c[h] = a[h] /\ i > m /\ i - m \in 1 .. n /\ c[i] = b[i - m]
    <3>1. GatesOf(a[h]) \subseteq RowGates(a) /\ GatesOf(b[i - m]) \subseteq RowGates(b)
      BY <1>1, <2>3 DEF RowGates
    <3> QED
      BY <2>3, <3>1
  <2>4. ~(h > m /\ i \in 1 .. m)
    BY <1>1, <1>9
  <2> QED
    BY <1>5, <2>1, <2>2, <2>3, <2>4
<1>10. RowDiffers(c)
  <2>1. ASSUME NEW h \in 1 .. m + n, NEW i \in 1 .. m + n, h # i
        PROVE  GatesOf(c[h]) \intersect GatesOf(c[i]) = {}
    <3>1. h < i \/ i < h
      BY <1>1, <2>1
    <3> QED
      BY <1>9, <3>1
  <2>2. \A i \in 1 .. m + n : GatesDiffer(c[i])
    BY <1>1, <1>5 DEF RowDiffers
  <2> QED
    BY <1>4, <2>1, <2>2 DEF RowDiffers
<1> QED
  BY <1>2, <1>4, <1>8, <1>10 DEF IsRow, c

(* A row of gates with numbers one after the other. *)
LEMMA NumberedIs ==
  ASSUME NEW count \in Nat, NEW from \in Nat, from .. from + count - 1 \subseteq Gates
  PROVE  /\ Numbered(count, from) \in Seq(Nested[0]) /\ Numbered(count, from) \in Seq(Trees)
         /\ IsRow(Numbered(count, from)) /\ RowDiffers(Numbered(count, from))
         /\ RowGates(Numbered(count, from)) \subseteq from .. from + count - 1
<1> DEFINE s == Numbered(count, from)
<1>1. \A k \in 1 .. count : s[k] = Gate(from + k - 1)
  BY DEF Numbered
<1>2. ASSUME NEW k \in 1 .. count
      PROVE  /\ from + k - 1 \in Gates /\ from + k - 1 \in from .. from + count - 1 /\ s[k] = Gate(from + k - 1)
             /\ s[k] \in Nested[0] /\ s[k] \in Trees /\ GatesDiffer(s[k])
             /\ GatesOf(s[k]) = {from + k - 1}
  <2>1. from + k - 1 \in from .. from + count - 1
    OBVIOUS
  <2>2. from + k - 1 \in Gates /\ s[k] = Gate(from + k - 1)
    BY <1>1, <2>1
  <2>3. Gate(from + k - 1) \in Nested[0]
    BY <2>2, NestedUnfolds DEF Gate
  <2> HIDE DEF s
  <2> QED
    BY <2>1, <2>2, <2>3, GateSays
<1>3. s = [k \in 1 .. count |-> s[k]]
  BY DEF Numbered
<1> HIDE DEF s
<1>4. s \in Seq(Nested[0]) /\ s \in Seq(Trees)
  BY <1>2, <1>3
<1>5. Len(s) = count /\ DOMAIN s = 1 .. count
  BY <1>3
<1>6. IsRow(s)
  BY <1>2, <1>4, <1>5 DEF IsRow
<1>7. RowDiffers(s)
  <2>1. ASSUME NEW j \in 1 .. count, NEW k \in 1 .. count, j # k
        PROVE  GatesOf(s[j]) \intersect GatesOf(s[k]) = {}
    <3>1. from + j - 1 # from + k - 1
      BY <2>1
    <3> QED
      BY <1>2, <3>1
  <2> QED
    BY <1>2, <1>5, <2>1 DEF RowDiffers
<1>8. RowGates(s) \subseteq from .. from + count - 1
  BY <1>2, <1>5 DEF RowGates
<1> QED
  BY <1>4, <1>6, <1>7, <1>8 DEF s

(* A circuit that the console can have. *)
Wirable(tree) == tree \in Trees /\ IsGroup(tree) /\ GatesDiffer(tree)

(* A normal form can be wired if the tree could. *)
LEMMA NormalWirable ==
  ASSUME NEW t, Wirable(t)
  PROVE  Wirable(Normalize(t))
<1>1. t \in Trees /\ IsGroup(t) /\ GatesDiffer(t)
  BY DEF Wirable
<1>2. NormalKeeps(t)
  BY <1>1, NormalizeKeeps
<1>3. Normalize(t) \in Trees
  BY <1>1, <1>2, NestingAssumption DEF NormalKeeps, Trees
<1> QED
  BY <1>1, <1>2, <1>3 DEF NormalKeeps, Wirable, IsGroup

(* A row of one. *)
LEMMA SingleRow ==
  ASSUME NEW T, NEW x \in T
  PROVE  <<x>> \in Seq(T)
OBVIOUS

(* A group of a row without a gate twice can be wired. *)
LEMMA GroupWirable ==
  ASSUME NEW s \in Seq(Nested[1]), NEW type \in {"and", "or"}, RowDiffers(s)
  PROVE  Wirable(Group(type, s))
<1>1. Group(type, s) \in Nested[2]
  <2>1. 2 \in Nat /\ 2 # 0 /\ 2 - 1 = 1
    OBVIOUS
  <2> QED
    BY <2>1, GroupOfNested
<1>2. Nested[2] \subseteq Trees
  BY ReadingsAssumption, NestingAssumption, NestedGrows DEF Trees
<1>3. IsGroup(Group(type, s)) /\ (GatesDiffer(Group(type, s)) <=> RowDiffers(s))
  BY <1>1, <1>2, GroupSays, GroupParts
<1> QED
  BY <1>1, <1>2, <1>3 DEF Wirable

(* What a sentence proposes can be wired. *)
LEMMA ProposalsWirable ==
  ASSUME NEW reading \in Readings
  PROVE  Wirable(ParseSentence(reading))
<1> DEFINE u == Unrecognised(reading)
           n == reading.tokens
           m == reading.tests
           tokens == Numbered(n, u + 1)
           one == Numbered(u, 1)
           others == Numbered(m, u + n + 1)
           some == IF n > 1 THEN <<Group("or", tokens)>> ELSE tokens
<1>1. n \in Nat /\ m \in Nat /\ u \in 0 .. 1 /\ 1 .. u + n + m \subseteq Gates
  BY ReadingsAssumption DEF Unrecognised, GatesRead
<1>2. ParseSentence(reading) = Normalize(Group("and", one \o some \o others))
  BY DEF ParseSentence
<1> HIDE DEF u, n, m
<1>3. /\ one \in Seq(Nested[0]) /\ one \in Seq(Trees) /\ IsRow(one) /\ RowDiffers(one)
      /\ RowGates(one) \subseteq 1 .. u
  <2>1. 1 .. 1 + u - 1 \subseteq Gates /\ 1 + u - 1 = u
    BY <1>1
  <2> QED
    BY <1>1, <2>1, NumberedIs
<1>4. /\ tokens \in Seq(Nested[0]) /\ tokens \in Seq(Trees) /\ IsRow(tokens) /\ RowDiffers(tokens)
      /\ RowGates(tokens) \subseteq u + 1 .. u + n
  <2>1. u + 1 .. u + 1 + n - 1 \subseteq Gates /\ u + 1 + n - 1 = u + n /\ u + 1 \in Nat
    BY <1>1
  <2> QED
    BY <1>1, <2>1, NumberedIs
<1>5. /\ others \in Seq(Nested[0]) /\ others \in Seq(Trees) /\ IsRow(others) /\ RowDiffers(others)
      /\ RowGates(others) \subseteq u + n + 1 .. u + n + m
  <2>1. u + n + 1 .. u + n + 1 + m - 1 \subseteq Gates /\ u + n + 1 + m - 1 = u + n + m /\ u + n + 1 \in Nat
    BY <1>1
  <2> QED
    BY <1>1, <2>1, NumberedIs
<1> HIDE DEF one, tokens, others
<1>6. Nested[0] \subseteq Nested[1] /\ Nested[1] \subseteq Trees
  BY ReadingsAssumption, NestingAssumption, NestedGrows DEF Trees
<1>7. some \in Seq(Nested[1]) /\ IsRow(some) /\ RowDiffers(some) /\ RowGates(some) \subseteq u + 1 .. u + n
  <2>1. CASE ~(n > 1)
    BY <1>4, <1>6, <2>1
  <2>2. CASE n > 1
    <3> DEFINE g == Group("or", tokens)
               s == <<g>>
    <3>1. g \in Nested[1]
      <4>1. 1 \in Nat /\ 1 # 0 /\ 1 - 1 = 0
        OBVIOUS
      <4> QED
        BY <1>4, <4>1, GroupOfNested
    <3>2. GatesOf(g) = RowGates(tokens) /\ GatesDiffer(g)
      BY <1>4, <1>6, <3>1, GroupSays
    <3> HIDE DEF g
    <3>3. s \in Seq(Nested[1]) /\ s \in Seq(Trees) /\ Len(s) = 1 /\ DOMAIN s = {1} /\ s[1] = g /\ 1 .. 1 = {1}
      <4>1. g \in Trees
        BY <1>6, <3>1
      <4>2. s \in Seq(Nested[1])
        BY <3>1, SingleRow
      <4>3. s \in Seq(Trees)
        BY <4>1
      <4> QED
        BY <4>2, <4>3
    <3>4. some = s
      BY <2>2 DEF g
    <3> HIDE DEF s, some
    <3>5. IsRow(s)
      BY <1>6, <3>1, <3>3 DEF IsRow
    <3>6. RowGates(s) = GatesOf(g) /\ RowDiffers(s)
      BY <3>2, <3>3 DEF RowGates, RowDiffers
    <3> QED
      BY <1>4, <3>2, <3>3, <3>4, <3>5, <3>6
  <2> QED
    BY <2>1, <2>2
<1> HIDE DEF some
<1> DEFINE two == one \o some
           all == two \o others
<1>8. IsRow(two) /\ RowDiffers(two) /\ RowGates(two) = RowGates(one) \union RowGates(some)
  <2>1. RowGates(one) \intersect RowGates(some) = {}
    BY <1>1, <1>3, <1>7
  <2> QED
    BY <1>3, <1>7, <2>1, RowsJoined
<1>9. two \in Seq(Nested[1])
  <2>1. one \in Seq(Nested[1])
    BY <1>3, <1>6
  <2> QED
    BY <1>7, <2>1, Joined
<1> HIDE DEF two
<1>10. RowDiffers(all)
  <2>1. RowGates(two) \intersect RowGates(others) = {}
    BY <1>1, <1>3, <1>5, <1>7, <1>8
  <2> QED
    BY <1>5, <1>8, <2>1, RowsJoined
<1>11. all \in Seq(Nested[1])
  <2>1. others \in Seq(Nested[1])
    BY <1>5, <1>6
  <2> QED
    BY <1>9, <2>1, Joined
<1> HIDE DEF all
<1>12. Wirable(Group("and", all))
  BY <1>10, <1>11, GroupWirable
<1>13. ParseSentence(reading) = Normalize(Group("and", all))
  BY <1>2 DEF all, two
<1> QED
  BY <1>12, <1>13, NormalWirable

------------------------------------------------------------------------------
(* Edits. *)

(* The invariant, of a circuit that can be wired. *)
LEMMA InvWirable == CircuitInv <=> Wirable(circuit) /\ selected \in GatesOf(circuit) \union {NoGate}
BY DEF CircuitInv, Wirable

(* A root that is a group stays as it is. *)
LEMMA RootedIs ==
  ASSUME NEW t, Wirable(t)
  PROVE  Rooted(t) = t
BY DEF Wirable, Rooted

(* What the two gates find together. *)
LEMMA BothIs ==
  ASSUME NEW a \in Findings, NEW b \in Findings
  PROVE  And(a, b) = Finding("and", {a, b}) /\ Or(a, b) = Finding("or", {a, b})
BY DEF And, Or, Finding, Findings

(* A fresh id is a gate's that is not in the circuit. *)
LEMMA FreshIs ==
  ASSUME CircuitInv, FreshIds # {}
  PROVE  Min(FreshIds) \in Gates /\ Min(FreshIds) \notin GatesOf(circuit)
<1>1. FreshIds \in SUBSET Nat
  BY ReadingsAssumption DEF FreshIds
<1>2. \E n \in FreshIds : \A m \in FreshIds : n <= m
  BY <1>1, LeastNatural
<1>3. Min(FreshIds) \in FreshIds
  BY <1>2 DEF Min
<1> QED
  BY <1>3 DEF FreshIds

(* What wiring a gate makes of a circuit. *)
LEMMA AddGateIs ==
  ASSUME CircuitInv, NEW kind \in {"and", "or"}, AddGate(kind)
  PROVE  /\ selected \in GatesOf(circuit) /\ selected' \in Gates
         /\ Wirable(circuit')
         /\ GatesOf(circuit') = GatesOf(circuit) \union {selected'}
         /\ \A found, other :
              /\ \A g \in GatesOf(circuit') : found[g] \in Findings
              /\ ReadAs(found, other, GatesOf(circuit), selected, Finding(kind, {found[selected], found[selected']}))
              => Evaluate(circuit', found) = Evaluate(circuit, other)
<1> DEFINE fresh == Min(FreshIds)
           wired == Insert(circuit, selected, kind, fresh)
<1>1. /\ selected # NoGate /\ FreshIds # {} /\ wired \in Trees
      /\ circuit' = Rooted(Normalize(wired)) /\ selected' = fresh
  BY DEF AddGate, AddSibling
<1>2. circuit \in Trees /\ IsGroup(circuit) /\ GatesDiffer(circuit) /\ selected \in GatesOf(circuit)
  BY <1>1 DEF CircuitInv
<1>3. fresh \in Gates /\ fresh \notin GatesOf(circuit) /\ selected \in Gates
  BY <1>1, <1>2, FreshIs, GatesUnfold
<1> HIDE DEF fresh
<1>4. Wired(circuit, wired, selected, kind, fresh)
  BY <1>1, <1>2, <1>3, InsertWires
<1> HIDE DEF wired
<1>5. Wirable(wired)
  BY <1>1, <1>2, <1>4 DEF Wired, Wirable
<1>6. Wirable(Normalize(wired)) /\ circuit' = Normalize(wired)
  BY <1>1, <1>5, NormalWirable, RootedIs
<1>7. NormalKeeps(wired)
  BY <1>1, NormalizeKeeps
<1>8. GatesOf(circuit') = GatesOf(circuit) \union {fresh}
  BY <1>4, <1>6, <1>7 DEF Wired, NormalKeeps
<1>9. ASSUME NEW found, NEW other, \A g \in GatesOf(circuit') : found[g] \in Findings,
             ReadAs(found, other, GatesOf(circuit), selected, Finding(kind, {found[selected], found[fresh]}))
      PROVE  Evaluate(circuit', found) = Evaluate(circuit, other)
  <2>1. Evaluate(wired, found) = Evaluate(circuit, other)
    BY <1>4, <1>8, <1>9 DEF Wired
  <2>2. Evaluate(Normalize(wired), found) = Evaluate(wired, found)
    BY <1>4, <1>7, <1>8, <1>9 DEF NormalKeeps, Wired
  <2> QED
    BY <1>6, <2>1, <2>2
<1> QED
  BY <1>1, <1>2, <1>3, <1>6, <1>8, <1>9

(* What removing a gate makes of one. *)
LEMMA RemoveGateIs ==
  ASSUME CircuitInv, RemoveGate
  PROVE  /\ selected \in GatesOf(circuit) /\ selected' = NoGate
         /\ Wirable(circuit')
         /\ GatesOf(circuit') = GatesOf(circuit) \ {selected}
         /\ \A found, other, type :
              /\ \A g \in GatesOf(circuit) : found[g] \in Findings
              /\ Parents(circuit, selected, type)
              /\ ReadAs(found, other, GatesOf(circuit), selected, Neutral(type))
              => Evaluate(circuit', found) = Evaluate(circuit, other)
<1> DEFINE pruned == Prune(circuit, selected)
<1>1. selected # NoGate /\ circuit' = Rooted(Normalize(pruned)) /\ selected' = NoGate
  BY DEF RemoveGate, RemoveNode
<1>2. circuit \in Trees /\ IsGroup(circuit) /\ GatesDiffer(circuit) /\ selected \in GatesOf(circuit)
  BY <1>1 DEF CircuitInv
<1>3. selected \in Gates /\ circuit # Gate(selected)
  <2>1. selected \in Gates
    BY <1>2, GatesUnfold
  <2> QED
    BY <1>2, <2>1, GateSays
<1>4. Without(circuit, pruned, selected)
  BY <1>2, <1>3, PruneWithout
<1> HIDE DEF pruned
<1>5. Wirable(pruned)
  BY <1>2, <1>4 DEF Without, Wirable, IsGroup
<1>6. Wirable(Normalize(pruned)) /\ circuit' = Normalize(pruned)
  BY <1>1, <1>5, NormalWirable, RootedIs
<1>7. NormalKeeps(pruned)
  BY <1>5, NormalizeKeeps DEF Wirable
<1>8. GatesOf(circuit') = GatesOf(circuit) \ {selected}
  BY <1>4, <1>6, <1>7 DEF Without, NormalKeeps
<1>9. ASSUME NEW found, NEW other, NEW type, \A g \in GatesOf(circuit) : found[g] \in Findings,
             Parents(circuit, selected, type), ReadAs(found, other, GatesOf(circuit), selected, Neutral(type))
      PROVE  Evaluate(circuit', found) = Evaluate(circuit, other)
  <2>1. Evaluate(pruned, found) = Evaluate(circuit, other)
    BY <1>4, <1>9 DEF Without
  <2>2. Evaluate(Normalize(pruned), found) = Evaluate(pruned, found)
    BY <1>4, <1>7, <1>9 DEF NormalKeeps, Without
  <2> QED
    BY <1>6, <2>1, <2>2
<1> QED
  BY <1>1, <1>2, <1>6, <1>8, <1>9

(* The inductive invariant. *)
LEMMA CircuitInvInit == EditInit => CircuitInv
<1> SUFFICES ASSUME EditInit PROVE CircuitInv
  OBVIOUS
<1>1. CASE circuit \in Saved
  BY <1>1, SavedAssumption DEF EditInit, CircuitInv
<1>2. CASE circuit \in Proposals
  <2>1. PICK reading \in Readings : circuit = ParseSentence(reading)
    BY <1>2 DEF Proposals
  <2>2. Wirable(circuit)
    BY <2>1, ProposalsWirable
  <2> QED
    BY <2>2, InvWirable DEF EditInit
<1> QED
  BY <1>1, <1>2 DEF EditInit

(* Every edit keeps the invariant. *)
LEMMA CircuitInvNext == CircuitInv /\ [EditNext]_editVars => CircuitInv'
<1> SUFFICES ASSUME CircuitInv, [EditNext]_editVars
             PROVE  Wirable(circuit') /\ selected' \in GatesOf(circuit') \union {NoGate}
  BY DEF CircuitInv, Wirable
<1>1. Wirable(circuit) /\ selected \in GatesOf(circuit) \union {NoGate}
  BY InvWirable
<1>2. CASE Propose
  <2>1. PICK reading \in Readings : circuit' = ParseSentence(reading) /\ selected' = NoGate
    BY <1>2 DEF Propose, Proposals, Show
  <2> QED
    BY <2>1, ProposalsWirable
<1>3. CASE OpenSaved
  BY <1>3, SavedAssumption DEF OpenSaved, Show, Wirable
<1>4. ASSUME NEW id \in Gates, Pick(id)
      PROVE  Wirable(circuit') /\ selected' \in GatesOf(circuit') \union {NoGate}
  BY <1>1, <1>4 DEF Pick
<1>5. ASSUME NEW kind \in {"and", "or"}, AddGate(kind)
      PROVE  Wirable(circuit') /\ selected' \in GatesOf(circuit') \union {NoGate}
  BY <1>5, AddGateIs
<1>6. CASE RemoveGate
  BY <1>6, RemoveGateIs
<1>7. CASE UNCHANGED editVars
  BY <1>1, <1>7 DEF editVars
<1> QED
  BY <1>2, <1>3, <1>4, <1>5, <1>6, <1>7 DEF EditNext

(* The circuit is always a group with no gate twice, and the selected gate is *)
(* in it: addSibling, removeNode and parse keep a condition a tree that the   *)
(* drawing and the evaluation can walk.                                       *)
THEOREM CircuitsStayWired == EditSpec => []CircuitInv
<1>1. EditInit => CircuitInv
  BY CircuitInvInit
<1>2. CircuitInv /\ [EditNext]_editVars => CircuitInv'
  BY CircuitInvNext
<1> QED
  BY <1>1, <1>2, PTL DEF EditSpec

(* The drawing's walk of the power and the backtest's evaluation agree on     *)
(* every gate of every circuit that edits lead to.                            *)
THEOREM PowerFollowsEvaluation == EditSpec => []PowerAgrees
<1>1. CircuitInv => PowerAgrees
  BY PowerAgreesThen
<1> QED
  BY <1>1, CircuitsStayWired, PTL

(* What an edit changes of what the circuit says. *)
EditKeeps ==
  LET Found == AllFindings(GatesOf(circuit) \union GatesOf(circuit'))
      Reading(f, finding) == Evaluate(circuit, [f EXCEPT ![selected] = finding]) IN
  /\ AddGate("and") => \A f \in Found :
         Evaluate(circuit', f) = Reading(f, And(f[selected], f[selected']))
  /\ AddGate("or") => \A f \in Found :
         Evaluate(circuit', f) = Reading(f, Or(f[selected], f[selected']))
  /\ RemoveGate => \A f \in Found :
         Evaluate(circuit', f) =
             Reading(f, IF ParentType(circuit, selected) = "and" THEN "held" ELSE "open")

(* A finding put in place of another is read in its place. *)
LEMMA Substituted ==
  ASSUME NEW gates, NEW all, gates \subseteq all, NEW f \in AllFindings(all), NEW id \in gates, NEW finding
  PROVE  ReadAs(f, [f EXCEPT ![id] = finding], gates, id, finding)
BY DEF ReadAs, AllFindings

(* Whatever group has the selected gate is of its parent's type. *)
LEMMA ParentsAlike ==
  ASSUME CircuitInv, selected \in GatesOf(circuit)
  PROVE  Parents(circuit, selected, ParentType(circuit, selected))
<1> DEFINE Of(p) == Gate(selected) \in ToSet(p.children)
           parent == CHOOSE p \in GroupsOf(circuit) : Of(p)
<1>1. circuit \in Trees /\ IsGroup(circuit) /\ GatesDiffer(circuit) /\ selected \in Gates
  BY GatesUnfold DEF CircuitInv
<1>2. \A p \in GroupsOf(circuit) : Of(p) <=> Gate(selected) \in Children(p)
  BY <1>1, GroupsUnfold DEF Children
<1>3. \E p \in GroupsOf(circuit) : Gate(selected) \in Children(p)
  BY <1>1, SomeParent
<1> HIDE DEF Of
<1>4. parent \in GroupsOf(circuit) /\ Of(parent)
  BY <1>2, <1>3
<1>5. ParentType(circuit, selected) = parent.type
  BY DEF ParentType, Of
<1> HIDE DEF parent
<1>6. \A p \in GroupsOf(circuit) : Gate(selected) \in Children(p) => p = parent
  BY <1>1, <1>2, <1>4, OneParent
<1> QED
  BY <1>5, <1>6 DEF Parents

(* In every circuit of the invariant an edit changes what it says. *)
LEMMA EditKeepsThen == CircuitInv => EditKeeps
<1> SUFFICES ASSUME CircuitInv PROVE EditKeeps
  OBVIOUS
<1> DEFINE all == GatesOf(circuit) \union GatesOf(circuit')
<1>1. ASSUME NEW kind \in {"and", "or"}, AddGate(kind), NEW f \in AllFindings(all)
      PROVE  /\ f[selected] \in Findings /\ f[selected'] \in Findings
             /\ Evaluate(circuit', f) =
                  Evaluate(circuit, [f EXCEPT ![selected] = Finding(kind, {f[selected], f[selected']})])
  <2> DEFINE both == Finding(kind, {f[selected], f[selected']})
             other == [f EXCEPT ![selected] = both]
  <2>1. /\ selected \in GatesOf(circuit) /\ GatesOf(circuit') = GatesOf(circuit) \union {selected'}
        /\ \A found, reading :
              /\ \A g \in GatesOf(circuit') : found[g] \in Findings
              /\ ReadAs(found, reading, GatesOf(circuit), selected, Finding(kind, {found[selected], found[selected']}))
              => Evaluate(circuit', found) = Evaluate(circuit, reading)
    BY <1>1, AddGateIs
  <2>2. \A g \in all : f[g] \in Findings
    BY DEF AllFindings
  <2>3. ReadAs(f, other, GatesOf(circuit), selected, both)
    <3>1. GatesOf(circuit) \subseteq all
      OBVIOUS
    <3> HIDE DEF both, all
    <3> QED
      BY <2>1, <3>1, Substituted
  <2> HIDE DEF other
  <2>4. Evaluate(circuit', f) = Evaluate(circuit, other)
    BY <2>1, <2>2, <2>3
  <2> QED
    BY <2>1, <2>2, <2>4 DEF other
<1>2. ASSUME RemoveGate, NEW f \in AllFindings(all)
      PROVE  Evaluate(circuit', f) = Evaluate(circuit, [f EXCEPT ![selected] = Neutral(ParentType(circuit, selected))])
  <2> DEFINE type == ParentType(circuit, selected)
             other == [f EXCEPT ![selected] = Neutral(type)]
  <2>1. /\ selected \in GatesOf(circuit)
        /\ \A found, reading, kind :
              /\ \A g \in GatesOf(circuit) : found[g] \in Findings
              /\ Parents(circuit, selected, kind)
              /\ ReadAs(found, reading, GatesOf(circuit), selected, Neutral(kind))
              => Evaluate(circuit', found) = Evaluate(circuit, reading)
    BY <1>2, RemoveGateIs
  <2>2. \A g \in GatesOf(circuit) : f[g] \in Findings
    BY DEF AllFindings
  <2>3. Parents(circuit, selected, type)
    BY <2>1, ParentsAlike
  <2> HIDE DEF type
  <2>4. ReadAs(f, other, GatesOf(circuit), selected, Neutral(type))
    <3>1. GatesOf(circuit) \subseteq all
      OBVIOUS
    <3> HIDE DEF all
    <3> QED
      BY <2>1, <3>1, Substituted
  <2> HIDE DEF other
  <2>5. Evaluate(circuit', f) = Evaluate(circuit, other)
    BY <2>1, <2>2, <2>3, <2>4
  <2> QED
    BY <2>5 DEF other, type
<1>3. ASSUME AddGate("and"), NEW f \in AllFindings(all)
      PROVE  Evaluate(circuit', f) = Evaluate(circuit, [f EXCEPT ![selected] = And(f[selected], f[selected'])])
  BY <1>1, <1>3, BothIs
<1>4. ASSUME AddGate("or"), NEW f \in AllFindings(all)
      PROVE  Evaluate(circuit', f) = Evaluate(circuit, [f EXCEPT ![selected] = Or(f[selected], f[selected'])])
  BY <1>1, <1>4, BothIs
<1> QED
  BY <1>2, <1>3, <1>4 DEF EditKeeps, Neutral

(* An edit changes what the circuit says by the gate it is about, and by       *)
(* nothing else: addSibling, removeNode and normalize.                         *)
THEOREM EditsChangeWhatTheySay == EditSpec => EditsAsWired
<1>1. CircuitInv => EditKeeps
  BY EditKeepsThen
<1>2. EditSpec => [][EditKeeps]_editVars
  BY <1>1, CircuitsStayWired, PTL
<1> QED
  BY <1>2, PTL DEF EditsAsWired, EditKeeps

------------------------------------------------------------------------------
(* Widths. *)

(* The sums of a row of widths up to each place. *)
Sums(f, s) == f[0] = 0 /\ \A k \in 1 .. Len(s) : f[k] = f[k - 1] + s[k]

(* A sum is reached along the row. *)
LEMMA SumUnfolds ==
  ASSUME NEW s \in Seq(Nat)
  PROVE  \E f \in [0 .. Len(s) -> Nat] : Sums(f, s) /\ SumOf(s) = f[Len(s)]
<1> DEFINE n == Len(s)
           next == [k \in 0 .. n |-> [v \in Nat |-> IF k = 0 THEN 0 ELSE v + s[k]]]
           Is(f) == f = [k \in 0 .. Len(s) |-> IF k = 0 THEN 0 ELSE f[k - 1] + s[k]]
           upTo == CHOOSE f : Is(f)
<1>1. n \in Nat /\ \A k \in 1 .. n : s[k] \in Nat
  OBVIOUS
<1>2. \A k \in 0 .. n : k # 0 => \A v \in Nat : next[k][v] = v + s[k] /\ v + s[k] \in Nat
  <2> SUFFICES ASSUME NEW k \in 0 .. n, k # 0, NEW v \in Nat PROVE next[k][v] = v + s[k] /\ v + s[k] \in Nat
    OBVIOUS
  <2>1. k \in 1 .. n
    BY <1>1
  <2> QED
    BY <1>1, <2>1
<1>3. PICK f \in [0 .. n -> Nat] : Runs(f, 0, n, 0, next)
  <2>1. Advances(0, n, Nat, next)
    <3> HIDE DEF next
    <3> QED
      BY <1>2 DEF Advances
  <2> HIDE DEF n, next
  <2> QED
    BY <1>1, <2>1, Along
<1>4. ASSUME NEW k \in 0 .. n PROVE f[k] = IF k = 0 THEN 0 ELSE f[k - 1] + s[k]
  <2>1. CASE k = 0
    <3> HIDE DEF next
    <3> QED
      BY <1>1, <1>3, <2>1 DEF Runs
  <2>2. CASE k # 0
    <3>0. k - 1 \in 0 .. n
      BY <1>1, <2>2
    <3> HIDE DEF next, n
    <3>1. f[k - 1] \in Nat
      BY <3>0
    <3>2. f[k] = next[k][f[k - 1]]
      BY <1>3, <2>2 DEF Runs
    <3> QED
      BY <1>2, <2>2, <3>1, <3>2
  <2> QED
    BY <2>1, <2>2
<1>5. Is(f)
  <2> HIDE DEF next
  <2> QED
    BY <1>3, <1>4
<1>6. Is(upTo)
  <2> HIDE DEF Is
  <2> QED
    BY <1>5
<1>7. SumOf(s) = upTo[n]
  BY DEF SumOf
<1>8. \A k \in 0 .. n : upTo[k] = IF k = 0 THEN 0 ELSE upTo[k - 1] + s[k]
  <2> HIDE DEF upTo
  <2> QED
    BY <1>6
<1>9. DOMAIN upTo = 0 .. n /\ upTo = [k \in 0 .. n |-> upTo[k]]
  <2> HIDE DEF upTo
  <2> QED
    BY <1>6
<1> HIDE DEF upTo, Is, next, n
<1>10. \A k \in 0 .. n : upTo[k] \in Nat
  <2> DEFINE S == {k \in 0 .. n : upTo[k] \in Nat}
  <2>1. 0 \in S
    BY <1>1, <1>8
  <2>2. \A k \in 0 + 1 .. n : k - 1 \in S => k \in S
    <3> SUFFICES ASSUME NEW k \in 1 .. n, k - 1 \in S PROVE k \in S
      OBVIOUS
    <3>1. k \in 0 .. n /\ k # 0 /\ upTo[k - 1] \in Nat /\ s[k] \in Nat
      BY <1>1
    <3>2. upTo[k] = upTo[k - 1] + s[k]
      BY <1>8, <3>1
    <3> QED
      BY <3>1, <3>2
  <2> HIDE DEF S
  <2>3. \A k \in 0 .. n : k \in S
    BY <1>1, <2>1, <2>2, AlongHolds
  <2> QED
    BY <2>3 DEF S
<1>11. upTo \in [0 .. n -> Nat]
  BY <1>9, <1>10
<1>12. Sums(upTo, s)
  <2>1. upTo[0] = 0
    BY <1>1, <1>8
  <2>2. \A k \in 1 .. n : upTo[k] = upTo[k - 1] + s[k]
    BY <1>1, <1>8
  <2> QED
    BY <2>1, <2>2 DEF Sums, n
<1> QED
  BY <1>7, <1>11, <1>12 DEF n

(* Rows that start the same have the same sums. *)
LEMMA SumsAgree ==
  ASSUME NEW s \in Seq(Nat), NEW t \in Seq(Nat), Len(t) <= Len(s), \A i \in 1 .. Len(t) : t[i] = s[i],
         NEW f, Sums(f, s), NEW g, Sums(g, t)
  PROVE  g[Len(t)] = f[Len(t)]
<1> DEFINE n == Len(t)
           S == {k \in 0 .. n : g[k] = f[k]}
<1>1. n \in Nat /\ Len(s) \in Nat /\ n <= Len(s)
  OBVIOUS
<1>2. 0 \in S
  BY DEF Sums
<1>3. \A k \in 0 + 1 .. n : k - 1 \in S => k \in S
  <2> SUFFICES ASSUME NEW k \in 1 .. n, k - 1 \in S PROVE k \in S
    OBVIOUS
  <2>1. k \in 1 .. Len(s) /\ k \in 0 .. n /\ g[k - 1] = f[k - 1] /\ t[k] = s[k]
    BY <1>1
  <2>2. f[k] = f[k - 1] + s[k] /\ g[k] = g[k - 1] + t[k]
    BY <2>1 DEF Sums
  <2> QED
    BY <2>1, <2>2
<1> HIDE DEF S, n
<1>4. \A k \in 0 .. n : k \in S
  BY <1>1, <1>2, <1>3, AlongHolds
<1>5. n \in S
  BY <1>1, <1>4
<1> QED
  BY <1>5 DEF S, n

Widths(kids) == [k \in DOMAIN kids |-> Measure(kids[k])]

(* Where each node of a row starts: where the one before ends. *)
LEMMA RowEdges ==
  ASSUME NEW kids \in Seq(Trees), \A k \in 1 .. Len(kids) : Measure(kids[k]) \in Nat
  PROVE  /\ \A k \in 1 .. Len(kids) + 1 : Before(kids, k) \in Nat
         /\ Before(kids, 1) = 0
         /\ \A k \in 1 .. Len(kids) : Before(kids, k + 1) = Before(kids, k) + Measure(kids[k])
         /\ WidthOf(kids) = Before(kids, Len(kids) + 1)
<1> DEFINE n == Len(kids)
           s == Widths(kids)
<1>1. n \in Nat /\ DOMAIN kids = 1 .. n
  OBVIOUS
<1>2. s \in Seq(Nat) /\ Len(s) = n /\ \A k \in 1 .. n : s[k] = Measure(kids[k])
  <2>1. s = [k \in 1 .. n |-> Measure(kids[k])]
    BY <1>1 DEF Widths
  <2> QED
    BY <1>1, <2>1
<1>3. PICK f \in [0 .. n -> Nat] : Sums(f, s) /\ SumOf(s) = f[n]
  <2> HIDE DEF s, n
  <2> QED
    BY <1>2, SumUnfolds
<1>4. ASSUME NEW k \in 1 .. n + 1 PROVE Before(kids, k) = f[k - 1]
  <2> DEFINE part == SubSeq(kids, 1, k - 1)
             t == Widths(part)
  <2>1. k - 1 \in 0 .. n
    BY <1>1
  <2>2. part \in Seq(Trees) /\ Len(part) = k - 1 /\ DOMAIN part = 1 .. k - 1 /\ \A i \in 1 .. k - 1 : part[i] = kids[i]
    BY <1>1, <2>1
  <2>3. Before(kids, k) = SumOf(t)
    BY DEF Before, WidthOf, Widths
  <2> HIDE DEF part
  <2>4. t = [i \in 1 .. k - 1 |-> Measure(part[i])]
    BY <2>2 DEF Widths
  <2>5. \A i \in 1 .. k - 1 : i \in 1 .. n /\ part[i] = kids[i] /\ Measure(part[i]) \in Nat
    BY <1>1, <2>1, <2>2
  <2> HIDE DEF t, s, n
  <2>6. t \in Seq(Nat) /\ Len(t) = k - 1 /\ \A i \in 1 .. k - 1 : t[i] = s[i]
    <3>1. \A i \in 1 .. k - 1 : Measure(part[i]) \in Nat
      BY <2>5
    <3>2. k - 1 \in Nat
      BY <1>1, <2>1
    <3>3. t \in Seq(Nat) /\ Len(t) = k - 1
      BY <2>4, <3>1, <3>2
    <3>4. \A i \in 1 .. k - 1 : t[i] = s[i]
      BY <1>2, <2>4, <2>5
    <3> QED
      BY <3>3, <3>4
  <2>7. PICK g \in [0 .. Len(t) -> Nat] : Sums(g, t) /\ SumOf(t) = g[Len(t)]
    BY <2>6, SumUnfolds
  <2>8. Len(t) <= Len(s) /\ \A i \in 1 .. Len(t) : t[i] = s[i]
    BY <1>1, <1>2, <2>1, <2>6
  <2>9. g[Len(t)] = f[Len(t)]
    BY <1>2, <1>3, <2>6, <2>7, <2>8, SumsAgree
  <2> QED
    BY <2>3, <2>6, <2>7, <2>9
<1>5. WidthOf(kids) = f[n]
  BY <1>3 DEF WidthOf, Widths
<1>6. f[0] = 0 /\ \A k \in 1 .. n : f[k] = f[k - 1] + s[k]
  BY <1>2, <1>3 DEF Sums
<1> HIDE DEF s, n
<1>7. \A k \in 1 .. n + 1 : f[k - 1] \in Nat
  BY <1>1, <1>3
<1>8. Before(kids, 1) = 0
  <2>1. 1 \in 1 .. n + 1 /\ 1 - 1 = 0
    BY <1>1
  <2> QED
    BY <1>4, <1>6, <2>1
<1>9. ASSUME NEW k \in 1 .. n PROVE Before(kids, k + 1) = Before(kids, k) + Measure(kids[k])
  <2>1. k \in 1 .. n + 1 /\ k + 1 \in 1 .. n + 1 /\ k + 1 - 1 = k
    BY <1>1
  <2>2. Before(kids, k + 1) = f[k] /\ Before(kids, k) = f[k - 1]
    BY <1>4, <2>1
  <2> QED
    BY <1>2, <1>6, <2>2
<1>10. WidthOf(kids) = Before(kids, n + 1)
  <2> DEFINE h == n + 1
  <2>1. h \in 1 .. n + 1 /\ h - 1 = n
    BY <1>1
  <2> HIDE DEF h
  <2>2. Before(kids, h) = f[h - 1]
    BY <1>4, <2>1
  <2> QED
    BY <1>5, <2>1, <2>2 DEF h
<1> QED
  BY <1>4, <1>7, <1>8, <1>9, <1>10 DEF n

(* A row of numbers has a greatest. *)
Numbers(a, w, n) == {a} \union {w[k] : k \in 1 .. n}

(* Finitely many numbers have a greatest. *)
LEMMA RowMax ==
  ASSUME NEW a \in Int, NEW n \in Nat, NEW w, \A k \in 1 .. n : w[k] \in Int
  PROVE  Max(Numbers(a, w, n)) \in Numbers(a, w, n) /\ \A x \in Numbers(a, w, n) : x <= Max(Numbers(a, w, n))
<1> DEFINE Upto(m) == {a} \union {w[k] : k \in 1 .. m}
           Has(m) == \E x \in Upto(m) : \A y \in Upto(m) : x >= y
           S == {m \in 0 .. n : Has(m)}
<1>1. 0 \in S
  <2>1. 1 .. 0 = {}
    OBVIOUS
  <2> QED
    BY <2>1
<1>2. ASSUME NEW m \in 0 + 1 .. n, m - 1 \in S PROVE m \in S
  <2>1. m \in 1 .. n /\ m \in 0 .. n /\ 1 .. m = (1 .. m - 1) \union {m}
    OBVIOUS
  <2>2. Upto(m) = Upto(m - 1) \union {w[m]}
    BY <2>1
  <2>3. Upto(m) \subseteq Int
    BY <2>1
  <2>4. Has(m - 1)
    BY <1>2
  <2> HIDE DEF Upto
  <2>5. PICK x \in Upto(m - 1) : \A y \in Upto(m - 1) : x >= y
    BY <2>4
  <2>6. CASE x >= w[m]
    BY <2>1, <2>2, <2>5, <2>6
  <2>7. CASE ~(x >= w[m])
    <3>1. \A y \in Upto(m) : w[m] >= y
      BY <2>2, <2>3, <2>5, <2>7
    <3> QED
      BY <2>1, <2>2, <3>1
  <2> QED
    BY <2>6, <2>7
<1> HIDE DEF S
<1>3. \A m \in 0 .. n : m \in S
  BY <1>1, <1>2, AlongHolds
<1>4. Has(n)
  <2>1. n \in 0 .. n
    OBVIOUS
  <2>2. n \in S
    BY <1>3, <2>1
  <2> HIDE DEF Has
  <2> QED
    BY <2>2 DEF S
<1>5. Upto(n) \subseteq Int
  OBVIOUS
<1> HIDE DEF Upto
<1>6. Max(Upto(n)) \in Upto(n) /\ \A x \in Upto(n) : Max(Upto(n)) >= x
  BY <1>4 DEF Max
<1>7. \A x \in Upto(n) : x <= Max(Upto(n))
  BY <1>5, <1>6
<1>8. Numbers(a, w, n) = Upto(n)
  BY DEF Numbers, Upto
<1> QED
  BY <1>6, <1>7, <1>8

(* A group of branches is as wide as the widest, and the pads. *)
WidestOf(s) == Max({0} \union ToSet(s)) + 2 * PAD

(* The widest child. *)
LEMMA WidestIs ==
  ASSUME NEW s \in Seq(Nat)
  PROVE  WidestOf(s) \in Nat /\ \A k \in 1 .. Len(s) : s[k] + 2 * PAD <= WidestOf(s)
<1> DEFINE n == Len(s)
           all == Numbers(0, s, n)
<1>1. n \in Nat /\ \A k \in 1 .. n : s[k] \in Nat
  OBVIOUS
<1>2. ToSet(s) = {s[k] : k \in 1 .. n}
  <2>1. DOMAIN s = 1 .. n
    OBVIOUS
  <2> QED
    BY <2>1 DEF ToSet
<1>3. Max(all) \in all /\ \A x \in all : x <= Max(all)
  <2>1. \A k \in 1 .. n : s[k] \in Int
    BY <1>1
  <2> HIDE DEF n
  <2> QED
    BY <1>1, <2>1, RowMax
<1>4. all \subseteq Nat
  BY <1>1 DEF Numbers
<1>5. WidestOf(s) = Max(all) + 2 * PAD
  BY <1>2 DEF WidestOf, Numbers
<1> DEFINE top == Max(all)
<1>6. top \in Nat /\ \A k \in 1 .. n : s[k] <= top
  <2>1. \A k \in 1 .. n : s[k] \in all
    BY DEF Numbers
  <2> HIDE DEF all
  <2> QED
    BY <1>3, <1>4, <2>1
<1> HIDE DEF top, all, n
<1>7. WidestOf(s) = top + 40
  BY <1>5 DEF top, PAD
<1> QED
  BY <1>1, <1>6, <1>7 DEF PAD, n

MeasureAt(width, n) ==
  IF ~IsGroup(n) THEN Width[n.id]
  ELSE IF n.type = "and" THEN SumOf(Kids(width, n)) ELSE WidestOf(Kids(width, n))

(* A sum of naturals is one. *)
LEMMA SumIsNat ==
  ASSUME NEW s \in Seq(Nat)
  PROVE  SumOf(s) \in Nat
<1>1. Len(s) \in Nat /\ Len(s) \in 0 .. Len(s)
  OBVIOUS
<1>2. PICK f \in [0 .. Len(s) -> Nat] : SumOf(s) = f[Len(s)]
  BY SumUnfolds
<1> QED
  BY <1>1, <1>2

(* A width is made of the widths of the children. *)
LEMMA MeasureTyped ==
  ASSUME NEW n \in Trees, NEW width, \A c \in Children(n) : width[c] \in Nat
  PROVE  MeasureAt(width, n) \in Nat
<1>1. CASE ~IsGroup(n)
  <2>1. n.id \in Gates
    BY <1>1, TreeCases
  <2> QED
    BY <1>1, <2>1, WidthsAssumption DEF MeasureAt
<1>2. CASE IsGroup(n)
  <2>1. Kids(width, n) \in Seq(Nat)
    BY <1>2, KidsTyped
  <2> QED
    BY <1>2, <2>1, SumIsNat, WidestIs DEF MeasureAt
<1> QED
  BY <1>1, <1>2

(* It depends on those alone. *)
LEMMA MeasureSame ==
  ASSUME NEW n \in Trees, NEW v, NEW w, \A c \in Children(n) : v[c] = w[c]
  PROVE  MeasureAt(v, n) = MeasureAt(w, n)
BY KidsSame DEF MeasureAt

(* A group's width is the sum of its children's, or the widest and *)
(* the buses.                                                      *)
LEMMA MeasureUnfolds ==
  ASSUME NEW t \in Trees
  PROVE  /\ Measure(t) \in Nat
         /\ ~IsGroup(t) => Measure(t) = Width[t.id]
         /\ IsGroup(t) => Measure(t) = IF t.type = "and" THEN WidthOf(t.children) ELSE WidestOf(Widths(t.children))
<1> DEFINE step == [n \in Trees |-> [v \in [Children(n) -> Nat] |-> MeasureAt(v, n)]]
           Is(f) == f = [n \in Trees |-> MeasureAt(f, n)]
           width == CHOOSE f : Is(f)
<1>1. Steps(Trees, Nat, Branches, step)
  BY MeasureTyped DEF Steps, Branches
<1>2. PICK f \in [Trees -> Nat] : \A n \in Trees : Recurs(f, Branches, step, n)
  <2>1. Nat # {}
    OBVIOUS
  <2> HIDE DEF step
  <2> QED
    BY <1>1, <2>1, TreeRecursion
<1>3. ASSUME NEW n \in Trees PROVE f[n] = MeasureAt(f, n)
  <2> DEFINE v == [c \in Children(n) |-> f[c]]
  <2>1. v \in [Children(n) -> Nat] /\ \A c \in Children(n) : v[c] = f[c]
    BY ChildrenAreTrees
  <2>2. f[n] = step[n][v]
    <3> HIDE DEF step
    <3> QED
      BY <1>2 DEF Recurs, Branches
  <2>3. step[n][v] = MeasureAt(v, n)
    <3> HIDE DEF v
    <3> QED
      BY <2>1
  <2> HIDE DEF v, step
  <2> QED
    BY <2>1, <2>2, <2>3, MeasureSame
<1>4. Is(f)
  BY <1>3
<1>5. Is(width)
  <2> HIDE DEF Is
  <2> QED
    BY <1>4
<1>6. \A n \in Trees : width[n] = MeasureAt(width, n)
  <2> HIDE DEF width
  <2> QED
    BY <1>5
<1>7. \A n : Measure(n) = width[n]
  BY DEF Measure, MeasureAt, Kids, WidestOf
<1> HIDE DEF width, Is
<1>8. \A n \in Trees : width[n] \in Nat
  <2> DEFINE Bad == {u \in Trees : width[u] \notin Nat}
  <2> SUFFICES ASSUME Bad # {} PROVE FALSE
    OBVIOUS
  <2>1. PICK u \in Bad : \A c \in Children(u) : c \in AllTrees /\ c \notin Bad
    <3>1. Bad \in SUBSET AllTrees
      BY TreesAreTrees
    <3> HIDE DEF Bad
    <3> QED
      BY <3>1, SmallestTree
  <2>2. u \in Trees /\ width[u] \notin Nat /\ \A c \in Children(u) : width[c] \in Nat
    BY <2>1, ChildrenAreTrees
  <2> QED
    BY <1>6, <2>2, MeasureTyped
<1>9. Kids(width, t) = Widths(t.children)
  BY <1>7 DEF Kids, Widths
<1>10. Measure(t) = MeasureAt(width, t) /\ Measure(t) \in Nat
  BY <1>6, <1>7, <1>8
<1>11. SumOf(Widths(t.children)) = WidthOf(t.children)
  BY DEF WidthOf, Widths
<1> QED
  BY <1>9, <1>10, <1>11 DEF MeasureAt

(* Where the nodes of a row are. *)
LEMMA RowPlaces ==
  ASSUME NEW s \in Seq(Trees)
  PROVE  /\ WidthOf(s) \in Nat
         /\ \A k \in 1 .. Len(s) : Before(s, k) \in Nat /\ Before(s, k) + Measure(s[k]) <= WidthOf(s)
         /\ \A j, k \in 1 .. Len(s) : j < k => Before(s, j) + Measure(s[j]) <= Before(s, k)
         /\ Before(s, 1) = 0
<1> DEFINE n == Len(s)
<1>1. n \in Nat /\ \A k \in 1 .. n : s[k] \in Trees
  OBVIOUS
<1>2. \A k \in 1 .. n : Measure(s[k]) \in Nat
  BY <1>1, MeasureUnfolds
<1>3. /\ \A k \in 1 .. n + 1 : Before(s, k) \in Nat
      /\ Before(s, 1) = 0
      /\ \A k \in 1 .. n : Before(s, k + 1) = Before(s, k) + Measure(s[k])
      /\ WidthOf(s) = Before(s, n + 1)
  BY <1>2, RowEdges
<1> HIDE DEF n
<1>4. ASSUME NEW j \in 1 .. n
      PROVE  \A k \in j + 1 .. n + 1 : Before(s, j) + Measure(s[j]) <= Before(s, k)
  <2> DEFINE edge == Before(s, j) + Measure(s[j])
             S == {k \in j + 1 .. n + 1 : edge <= Before(s, k)}
  <2>1. j + 1 \in Nat /\ n + 1 \in Nat /\ j + 1 \in 1 .. n + 1 /\ j + 1 \in j + 1 .. n + 1 /\ j \in 1 .. n + 1
    BY <1>1
  <2>2. Before(s, j + 1) = edge /\ edge \in Nat
    BY <1>2, <1>3, <2>1
  <2> HIDE DEF edge
  <2>3. j + 1 \in S
    BY <2>1, <2>2
  <2>4. ASSUME NEW k \in j + 1 + 1 .. n + 1, k - 1 \in S PROVE k \in S
    <3> DEFINE h == k - 1
    <3>1. h \in 1 .. n /\ h \in 1 .. n + 1 /\ k = h + 1 /\ k \in j + 1 .. n + 1 /\ k \in 1 .. n + 1
      BY <1>1, <2>1
    <3>2. edge <= Before(s, h)
      BY <2>4
    <3> HIDE DEF h
    <3>3. Before(s, h + 1) = Before(s, h) + Measure(s[h]) /\ Measure(s[h]) \in Nat /\ Before(s, h) \in Nat
      BY <1>2, <1>3, <3>1
    <3>4. edge <= Before(s, h + 1)
      BY <2>2, <3>2, <3>3
    <3> QED
      BY <3>1, <3>4
  <2> HIDE DEF S
  <2>5. \A k \in j + 1 .. n + 1 : k \in S
    BY <2>1, <2>3, <2>4, AlongHolds
  <2> QED
    BY <2>5 DEF S, edge
<1>5. ASSUME NEW k \in 1 .. n PROVE Before(s, k) \in Nat /\ Before(s, k) + Measure(s[k]) <= WidthOf(s)
  <2>1. k \in 1 .. n + 1 /\ n + 1 \in k + 1 .. n + 1
    BY <1>1
  <2> QED
    BY <1>3, <1>4, <2>1
<1>6. ASSUME NEW j \in 1 .. n, NEW k \in 1 .. n, j < k PROVE Before(s, j) + Measure(s[j]) <= Before(s, k)
  <2>1. k \in j + 1 .. n + 1
    BY <1>1, <1>6
  <2> QED
    BY <1>4, <2>1
<1>7. WidthOf(s) \in Nat
  <2>1. n + 1 \in 1 .. n + 1
    BY <1>1
  <2> QED
    BY <1>3, <2>1
<1> QED
  BY <1>3, <1>5, <1>6, <1>7 DEF n

------------------------------------------------------------------------------
(* The drawing. *)

Spots == [id : Gates, gx : Int]

(* Where a group's child is drawn, from where the group is. *)
ChildLeft(n, k, left) == IF n.type = "or" THEN left + PAD ELSE left + Before(n.children, k)

DrawnAt(drawn, n, left) ==
  IF ~IsGroup(n) THEN {[id |-> n.id, gx |-> left + (Width[n.id] \div 2)]}
  ELSE UNION {drawn[n.children[k]][ChildLeft(n, k, left)] : k \in DOMAIN n.children}

(* Where a child starts is a place. *)
LEMMA ChildLeftIs ==
  ASSUME NEW n \in Trees, IsGroup(n), NEW k \in DOMAIN n.children, NEW left \in Int
  PROVE  ChildLeft(n, k, left) \in Int
<1>1. n.children \in Seq(Trees) /\ k \in 1 .. Len(n.children)
  BY GroupCase
<1>2. Before(n.children, k) \in Nat
  BY <1>1, RowPlaces
<1> QED
  BY <1>2 DEF ChildLeft, PAD

Middle(id) == Width[id] \div 2

(* The middle of a gate is in it, away from its ends. *)
LEMMA MiddleIs ==
  ASSUME NEW id \in Gates
  PROVE  Middle(id) \in Nat /\ Middle(id) >= 52 /\ Middle(id) + 52 <= Width[id]
<1>1. Width[id] \in Nat /\ Width[id] >= 104
  BY WidthsAssumption
<1> DEFINE w == Width[id]
<1>2. w \in Nat /\ w >= 104
  BY <1>1
<1> HIDE DEF w
<1>3. w \div 2 \in Nat /\ w \div 2 >= 52 /\ w \div 2 + 52 <= w
  BY <1>2
<1> QED
  BY <1>3 DEF w, Middle

DrawnTyped(drawn, n) == \A c \in Children(n) : drawn[c] \in [Int -> SUBSET Spots]

(* A drawing is made of those of the children. *)
LEMMA DrawTyped ==
  ASSUME NEW n \in Trees, NEW drawn, DrawnTyped(drawn, n), NEW left \in Int
  PROVE  DrawnAt(drawn, n, left) \in SUBSET Spots
<1>1. CASE ~IsGroup(n)
  <2>1. n.id \in Gates
    BY <1>1, TreeCases
  <2>2. Middle(n.id) \in Nat
    BY <2>1, MiddleIs
  <2>3. [id |-> n.id, gx |-> left + Middle(n.id)] \in Spots
    BY <2>1, <2>2 DEF Spots
  <2> QED
    BY <1>1, <2>3 DEF DrawnAt, Middle
<1>2. CASE IsGroup(n)
  <2> SUFFICES ASSUME NEW k \in DOMAIN n.children
               PROVE  drawn[n.children[k]][ChildLeft(n, k, left)] \in SUBSET Spots
    BY <1>2 DEF DrawnAt
  <2>1. n.children[k] \in Children(n)
    BY <1>2, GroupCase
  <2>2. ChildLeft(n, k, left) \in Int
    BY <1>2, ChildLeftIs
  <2> QED
    BY <2>1, <2>2 DEF DrawnTyped
<1> QED
  BY <1>1, <1>2

DrawnFrom(drawn, n) == [left \in Int |-> DrawnAt(drawn, n, left)]

(* It depends on those alone. *)
LEMMA DrawSame ==
  ASSUME NEW n \in Trees, NEW v, NEW w, \A c \in Children(n) : v[c] = w[c]
  PROVE  DrawnFrom(v, n) = DrawnFrom(w, n)
<1> SUFFICES ASSUME NEW left \in Int PROVE DrawnAt(v, n, left) = DrawnAt(w, n, left)
  BY DEF DrawnFrom
<1>1. CASE ~IsGroup(n)
  BY <1>1 DEF DrawnAt
<1>2. CASE IsGroup(n)
  <2>1. \A k \in DOMAIN n.children : v[n.children[k]] = w[n.children[k]]
    BY <1>2, GroupCase
  <2> QED
    BY <1>2, <2>1 DEF DrawnAt
<1> QED
  BY <1>1, <1>2

(* A group's drawing is those of its children, each from where it starts. *)
LEMMA DrawUnfolds ==
  ASSUME NEW t \in Trees, NEW left \in Int
  PROVE  /\ Draw(t, left) \in SUBSET Spots
         /\ ~IsGroup(t) => Draw(t, left) = {[id |-> t.id, gx |-> left + Middle(t.id)]}
         /\ IsGroup(t) => Draw(t, left) = UNION {Draw(t.children[k], ChildLeft(t, k, left)) : k \in DOMAIN t.children}
<1> DEFINE V == [Int -> SUBSET Spots]
           step == [n \in Trees |-> [v \in [Children(n) -> V] |-> DrawnFrom(v, n)]]
           Is(f) == f = [n \in Trees |-> DrawnFrom(f, n)]
           drawn == CHOOSE f : Is(f)
<1>1. Steps(Trees, V, Branches, step)
  <2> SUFFICES ASSUME NEW n \in Trees, NEW v \in [Children(n) -> V]
               PROVE  DrawnFrom(v, n) \in V
    BY DEF Steps, Branches
  <2>1. DrawnTyped(v, n)
    BY DEF DrawnTyped
  <2> QED
    BY <2>1, DrawTyped DEF DrawnFrom
<1>2. PICK f \in [Trees -> V] : \A n \in Trees : Recurs(f, Branches, step, n)
  <2>1. V # {}
    <3>1. [x \in Int |-> {}] \in V
      OBVIOUS
    <3> QED
      BY <3>1
  <2> HIDE DEF step, V
  <2> QED
    BY <1>1, <2>1, TreeRecursion
<1>3. ASSUME NEW n \in Trees PROVE f[n] = DrawnFrom(f, n)
  <2> DEFINE v == [c \in Children(n) |-> f[c]]
  <2> HIDE DEF V
  <2>1. v \in [Children(n) -> V] /\ \A c \in Children(n) : v[c] = f[c]
    BY ChildrenAreTrees
  <2>2. f[n] = step[n][v]
    <3> HIDE DEF step
    <3> QED
      BY <1>2 DEF Recurs, Branches
  <2>3. step[n][v] = DrawnFrom(v, n)
    <3> HIDE DEF v
    <3> QED
      BY <2>1
  <2> HIDE DEF v, step
  <2> QED
    BY <2>1, <2>2, <2>3, DrawSame
<1>4. Is(f)
  BY <1>3
<1>5. Is(drawn)
  <2> HIDE DEF Is
  <2> QED
    BY <1>4
<1>6. \A n \in Trees : drawn[n] = DrawnFrom(drawn, n)
  <2> HIDE DEF drawn
  <2> QED
    BY <1>5
<1>7. \A n, x : Draw(n, x) = drawn[n][x]
  BY DEF Draw, DrawnFrom, DrawnAt, ChildLeft
<1> HIDE DEF drawn, Is
<1>8. \A n \in Trees : drawn[n] \in V
  <2> DEFINE Bad == {u \in Trees : drawn[u] \notin V}
  <2> SUFFICES ASSUME Bad # {} PROVE FALSE
    OBVIOUS
  <2>1. PICK u \in Bad : \A c \in Children(u) : c \in AllTrees /\ c \notin Bad
    <3>1. Bad \in SUBSET AllTrees
      BY TreesAreTrees
    <3> HIDE DEF Bad
    <3> QED
      BY <3>1, SmallestTree
  <2>2. u \in Trees /\ drawn[u] \notin V /\ DrawnTyped(drawn, u)
    BY <2>1, ChildrenAreTrees DEF DrawnTyped
  <2>3. DrawnFrom(drawn, u) \in V
    BY <2>2, DrawTyped DEF DrawnFrom
  <2> QED
    BY <1>6, <2>2, <2>3
<1>9. drawn[t][left] = DrawnAt(drawn, t, left)
  BY <1>6 DEF DrawnFrom
<1>10. Draw(t, left) \in SUBSET Spots
  BY <1>7, <1>8
<1> QED
  BY <1>7, <1>9, <1>10 DEF DrawnAt, Middle

(* What is drawn of a tree within a stretch of the wire: each gate once, and *)
(* what comes after in series further on.                                    *)
Drawn(D, t, from, to) ==
  /\ D \in SUBSET Spots
  /\ {d.id : d \in D} = GatesOf(t)
  /\ \A d \in D : from + 52 <= d.gx /\ d.gx + 52 <= to
  /\ \A d, e \in D : d.id = e.id => d = e
  /\ \A d, e \in D : Series(t, d.id, e.id) => d.gx + 104 <= e.gx

(* Gates in series are of children in series, or in series in one child. *)
LEMMA SeriesUnfolds ==
  ASSUME NEW t \in Trees, IsGroup(t), GatesDiffer(t),
         NEW j \in DOMAIN t.children, NEW k \in DOMAIN t.children,
         NEW a \in GatesOf(t.children[j]), NEW b \in GatesOf(t.children[k]), Series(t, a, b)
  PROVE  (t.type = "and" /\ j < k) \/ (j = k /\ Series(t.children[j], a, b))
<1> DEFINE s == t.children
<1>1. RowDiffers(s) /\ Children(t) = {s[i] : i \in DOMAIN s} /\ \A i \in DOMAIN s : s[i] \in Trees
  BY GroupIs, GroupCase
<1>2. GroupsOf(t) = {t} \union UNION {GroupsOf(c) : c \in Children(t)}
  BY GroupsUnfold
<1>3. \A i, l \in DOMAIN s : i # l => GatesOf(s[i]) \intersect GatesOf(s[l]) = {}
  BY <1>1 DEF RowDiffers
<1>4. PICK group \in GroupsOf(t) :
        /\ group.type = "and"
        /\ \E i, l \in DOMAIN group.children :
              i < l /\ a \in GatesOf(group.children[i]) /\ b \in GatesOf(group.children[l])
  BY DEF Series
<1>5. PICK i \in DOMAIN group.children, l \in DOMAIN group.children :
              i < l /\ a \in GatesOf(group.children[i]) /\ b \in GatesOf(group.children[l])
  BY <1>4
<1>6. CASE group = t
  <2>1. i = j /\ l = k
    BY <1>3, <1>5, <1>6
  <2> QED
    BY <1>4, <1>5, <1>6, <2>1
<1>7. CASE group # t
  <2>1. PICK h \in DOMAIN s : group \in GroupsOf(s[h])
    BY <1>1, <1>2, <1>7
  <2>2. a \in GatesOf(s[h]) /\ b \in GatesOf(s[h])
    <3>1. \A g \in DOMAIN group.children : GatesOf(group.children[g]) \subseteq GatesOf(s[h])
      BY <1>1, <2>1, GatesUnder
    <3> QED
      BY <1>5, <3>1
  <2>3. h = j /\ h = k
    BY <1>3, <2>2
  <2>4. Series(s[j], a, b)
    BY <1>4, <2>1, <2>3 DEF Series
  <2> QED
    BY <2>3, <2>4
<1> QED
  BY <1>6, <1>7

(* The children of a group in their parts of a stretch. *)
InStretch(t, D, lefts, rights, from, to) ==
  /\ from \in Int /\ to \in Int
  /\ \A k \in DOMAIN t.children :
       /\ Drawn(D[k], t.children[k], lefts[k], rights[k])
       /\ lefts[k] \in Int /\ rights[k] \in Int /\ from <= lefts[k] /\ rights[k] <= to
  /\ t.type = "and" => \A j, k \in DOMAIN t.children : j < k => rights[j] <= lefts[k]

AllDrawn(t, D) == UNION {D[k] : k \in DOMAIN t.children}

(* Children drawn in stretches of their own, in order in series, are *)
(* a group drawn.                                                    *)
LEMMA RowDrawn ==
  ASSUME NEW t \in Trees, IsGroup(t), GatesDiffer(t), NEW D, NEW lefts, NEW rights, NEW from, NEW to,
         InStretch(t, D, lefts, rights, from, to)
  PROVE  Drawn(AllDrawn(t, D), t, from, to)
<1> DEFINE s == t.children
           I == DOMAIN s
           all == AllDrawn(t, D)
<1>1. RowDiffers(s) /\ GatesOf(t) = RowGates(s)
  BY GroupIs
<1>2. /\ from \in Int /\ to \in Int
      /\ t.type = "and" => \A j, k \in I : j < k => rights[j] <= lefts[k]
  BY DEF InStretch
<1>3. ASSUME NEW k \in I
      PROVE  /\ lefts[k] \in Int /\ rights[k] \in Int /\ from <= lefts[k] /\ rights[k] <= to
             /\ D[k] \in SUBSET Spots /\ {d.id : d \in D[k]} = GatesOf(s[k])
             /\ \A d \in D[k] : d \in Spots /\ d.id \in GatesOf(s[k]) /\ lefts[k] + 52 <= d.gx /\ d.gx + 52 <= rights[k]
             /\ \A d, e \in D[k] : d.id = e.id => d = e
             /\ \A d, e \in D[k] : Series(s[k], d.id, e.id) => d.gx + 104 <= e.gx
  BY DEF InStretch, Drawn
<1>4. \A j, k \in I : j # k => GatesOf(s[j]) \intersect GatesOf(s[k]) = {}
  BY <1>1 DEF RowDiffers
<1>5. \A d \in all : \E k \in I : d \in D[k]
  BY DEF AllDrawn
<1>6. \A k \in I : D[k] \subseteq all
  BY DEF AllDrawn
<1> HIDE DEF all
<1>7. all \in SUBSET Spots
  BY <1>3, <1>5
<1>8. {d.id : d \in all} = GatesOf(t)
  <2>1. ASSUME NEW d \in all PROVE d.id \in GatesOf(t)
    <3>1. PICK k \in I : d \in D[k]
      BY <1>5
    <3>2. d.id \in GatesOf(s[k])
      BY <1>3, <3>1
    <3> QED
      BY <1>1, <3>2 DEF RowGates
  <2>2. ASSUME NEW g \in GatesOf(t) PROVE \E d \in all : d.id = g
    <3>1. PICK k \in I : g \in GatesOf(s[k])
      BY <1>1 DEF RowGates
    <3>2. {d.id : d \in D[k]} = GatesOf(s[k])
      BY <1>3
    <3>3. PICK d \in D[k] : d.id = g
      BY <3>1, <3>2
    <3> QED
      BY <1>6, <3>3
  <2> QED
    BY <2>1, <2>2
<1>9. ASSUME NEW d \in all PROVE from + 52 <= d.gx /\ d.gx + 52 <= to
  <2>1. PICK k \in I : d \in D[k]
    BY <1>5
  <2>2. d.gx \in Int
    BY <1>7 DEF Spots
  <2> DEFINE l == lefts[k]
             r == rights[k]
  <2>3. l \in Int /\ r \in Int /\ from <= l /\ r <= to /\ l + 52 <= d.gx /\ d.gx + 52 <= r
    BY <1>3, <2>1
  <2> HIDE DEF l, r
  <2> QED
    BY <1>2, <2>2, <2>3
<1>10. ASSUME NEW d \in all, NEW e \in all, d.id = e.id PROVE d = e
  <2>1. PICK j \in I : d \in D[j]
    BY <1>5
  <2>2. PICK k \in I : e \in D[k]
    BY <1>5
  <2>3. d.id \in GatesOf(s[j]) /\ e.id \in GatesOf(s[k])
    BY <1>3, <2>1, <2>2
  <2>4. j = k
    BY <1>4, <1>10, <2>3
  <2> QED
    BY <1>3, <1>10, <2>1, <2>2, <2>4
<1>11. ASSUME NEW d \in all, NEW e \in all, Series(t, d.id, e.id) PROVE d.gx + 104 <= e.gx
  <2>1. PICK j \in I : d \in D[j]
    BY <1>5
  <2>2. PICK k \in I : e \in D[k]
    BY <1>5
  <2>3. d.id \in GatesOf(s[j]) /\ e.id \in GatesOf(s[k])
    BY <1>3, <2>1, <2>2
  <2>4. (t.type = "and" /\ j < k) \/ (j = k /\ Series(s[j], d.id, e.id))
    BY <1>11, <2>3, SeriesUnfolds
  <2>5. CASE t.type = "and" /\ j < k
    <3> DEFINE r == rights[j]
               l == lefts[k]
    <3>1. r \in Int /\ l \in Int /\ d.gx + 52 <= r /\ l + 52 <= e.gx /\ r <= l
      BY <1>2, <1>3, <2>1, <2>2, <2>5
    <3>2. d.gx \in Int /\ e.gx \in Int
      BY <1>7 DEF Spots
    <3> HIDE DEF r, l
    <3> QED
      BY <3>1, <3>2
  <2>6. CASE j = k /\ Series(s[j], d.id, e.id)
    BY <1>3, <2>1, <2>2, <2>6
  <2> QED
    BY <2>4, <2>5, <2>6
<1>12. Drawn(all, t, from, to)
  BY <1>7, <1>8, <1>9, <1>10, <1>11 DEF Drawn
<1> QED
  BY <1>12 DEF all

(* So every tree is drawn, within its own width. *)
LEMMA DrawIs ==
  ASSUME NEW t \in Trees, GatesDiffer(t)
  PROVE  \A left \in Int : Drawn(Draw(t, left), t, left, left + Measure(t))
<1> DEFINE Fits(u) == \A left \in Int : Drawn(Draw(u, left), u, left, left + Measure(u))
           Bad == {u \in Trees : GatesDiffer(u) /\ ~Fits(u)}
<1> SUFFICES ASSUME Bad # {} PROVE FALSE
  OBVIOUS
<1>1. PICK u \in Bad : \A c \in Children(u) : c \in AllTrees /\ c \notin Bad
  <2>1. Bad \in SUBSET AllTrees
    BY TreesAreTrees
  <2> HIDE DEF Bad
  <2> QED
    BY <2>1, SmallestTree
<1>2. u \in Trees /\ GatesDiffer(u) /\ ~Fits(u) /\ \A c \in Children(u) : c \in Trees /\ (GatesDiffer(c) => Fits(c))
  BY <1>1, ChildrenAreTrees
<1> HIDE DEF Bad
<1>3. ASSUME ~IsGroup(u), NEW left \in Int
      PROVE  Drawn(Draw(u, left), u, left, left + Measure(u))
  <2>1. Draw(u, left) = {[id |-> u.id, gx |-> left + Middle(u.id)]} /\ Draw(u, left) \in SUBSET Spots
    BY <1>2, <1>3, DrawUnfolds
  <2>2. u.id \in Gates /\ GatesOf(u) = {u.id} /\ Measure(u) = Width[u.id] /\ Width[u.id] \in Nat
    BY <1>2, <1>3, TreeCases, GatesUnfold, MeasureUnfolds
  <2>3. Middle(u.id) \in Nat /\ Middle(u.id) >= 52 /\ Middle(u.id) + 52 <= Width[u.id]
    BY <2>2, MiddleIs
  <2>4. \A a, b : ~Series(u, a, b)
    BY <1>2, <1>3, GroupsUnfold DEF Series
  <2> DEFINE spot == [id |-> u.id, gx |-> left + Middle(u.id)]
  <2>5. spot.id = u.id /\ spot.gx = left + Middle(u.id)
    OBVIOUS
  <2>6. Draw(u, left) = {spot}
    BY <2>1
  <2> HIDE DEF spot
  <2>7. {d.id : d \in {spot}} = GatesOf(u)
    BY <2>2, <2>5
  <2>8. left + 52 <= spot.gx /\ spot.gx + 52 <= left + Measure(u)
    BY <2>2, <2>3, <2>5
  <2> QED
    BY <2>1, <2>4, <2>6, <2>7, <2>8 DEF Drawn
<1>4. ASSUME IsGroup(u), NEW left \in Int
      PROVE  Drawn(Draw(u, left), u, left, left + Measure(u))
  <2> DEFINE s == u.children
             I == DOMAIN s
             lefts == [k \in I |-> ChildLeft(u, k, left)]
             rights == [k \in I |-> lefts[k] + Measure(s[k])]
             D == [k \in I |-> Draw(s[k], lefts[k])]
  <2>1. /\ s \in Seq(Trees) /\ I = 1 .. Len(s) /\ u.type \in {"and", "or"}
        /\ \A k \in I : s[k] \in Trees /\ s[k] \in Children(u)
    BY <1>2, <1>4, GroupCase
  <2>2. \A k \in I : GatesDiffer(s[k])
    BY <1>2, <1>4, GroupIs DEF RowDiffers
  <2>3. /\ WidthOf(s) \in Nat
        /\ \A k \in I : Before(s, k) \in Nat /\ Before(s, k) + Measure(s[k]) <= WidthOf(s)
        /\ \A j, k \in I : j < k => Before(s, j) + Measure(s[j]) <= Before(s, k)
    BY <2>1, RowPlaces
  <2>4. \A k \in I : Measure(s[k]) \in Nat
    BY <2>1, MeasureUnfolds
  <2>5. Measure(u) \in Nat /\ Measure(u) = IF u.type = "and" THEN WidthOf(s) ELSE WidestOf(Widths(s))
    BY <1>2, <1>4, MeasureUnfolds
  <2>6. \A k \in I : lefts[k] = ChildLeft(u, k, left) /\ lefts[k] \in Int /\ rights[k] = lefts[k] + Measure(s[k])
    BY <1>2, <1>4, ChildLeftIs
  <2>7. ASSUME NEW k \in I PROVE Drawn(D[k], s[k], lefts[k], rights[k])
    <3>1. Drawn(Draw(s[k], lefts[k]), s[k], lefts[k], lefts[k] + Measure(s[k]))
      <4> HIDE DEF lefts
      <4> QED
        BY <1>2, <2>1, <2>2, <2>6
    <3> QED
      BY <3>1
  <2>8. ASSUME NEW k \in I
        PROVE  left <= lefts[k] /\ rights[k] <= left + Measure(u)
    <3>1. CASE u.type = "and"
      <4>1. lefts[k] = left + Before(s, k)
        BY <3>1 DEF ChildLeft
      <4> HIDE DEF lefts, rights
      <4> QED
        BY <2>3, <2>4, <2>5, <2>6, <3>1, <4>1
    <3>2. CASE u.type = "or"
      <4>1. lefts[k] = left + PAD
        BY <3>2 DEF ChildLeft
      <4>2. Widths(s) \in Seq(Nat) /\ Len(Widths(s)) = Len(s) /\ Widths(s)[k] = Measure(s[k])
        <5>1. Widths(s) = [i \in 1 .. Len(s) |-> Measure(s[i])]
          BY <2>1 DEF Widths
        <5> HIDE DEF s
        <5>2. Len(s) \in Nat /\ \A i \in 1 .. Len(s) : Measure(s[i]) \in Nat
          BY <2>1, <2>4
        <5> QED
          BY <2>1, <5>1, <5>2
      <4>3. Widths(s)[k] + 2 * PAD <= WidestOf(Widths(s))
        BY <2>1, <4>2, WidestIs
      <4> HIDE DEF lefts, rights, s
      <4> QED
        BY <2>4, <2>5, <2>6, <3>2, <4>1, <4>2, <4>3 DEF PAD
    <3> QED
      BY <2>1, <3>1, <3>2
  <2>9. ASSUME u.type = "and", NEW j \in I, NEW k \in I, j < k PROVE rights[j] <= lefts[k]
    <3>1. lefts[k] = left + Before(s, k) /\ lefts[j] = left + Before(s, j)
      BY <2>9 DEF ChildLeft
    <3> HIDE DEF lefts, rights
    <3> QED
      BY <2>3, <2>4, <2>6, <2>9, <3>1
  <2>10. \A k \in I : rights[k] \in Int
    <3> HIDE DEF lefts, rights
    <3> QED
      BY <2>4, <2>6
  <2>11. Draw(u, left) = AllDrawn(u, D)
    <3>1. Draw(u, left) = UNION {Draw(s[k], ChildLeft(u, k, left)) : k \in I}
      BY <1>2, <1>4, DrawUnfolds
    <3>2. \A k \in I : D[k] = Draw(s[k], ChildLeft(u, k, left))
      OBVIOUS
    <3> HIDE DEF D
    <3> QED
      BY <3>1, <3>2 DEF AllDrawn
  <2> HIDE DEF D, lefts, rights
  <2>12. InStretch(u, D, lefts, rights, left, left + Measure(u))
    <3>1. left + Measure(u) \in Int
      BY <2>5
    <3> QED
      BY <2>6, <2>7, <2>8, <2>9, <2>10, <3>1 DEF InStretch
  <2> QED
    BY <1>2, <1>4, <2>11, <2>12, RowDrawn
<1>5. Fits(u)
  BY <1>3, <1>4
<1> QED
  BY <1>2, <1>5

------------------------------------------------------------------------------
(* Lines. *)

LineRows == {lines \in Seq(Seq(Trees)) : Len(lines) >= 1}

At(lines, l, p) == l \in 1 .. Len(lines) /\ p \in 1 .. Len(lines[l])

(* A node more, after all the others. *)
GrownAt(lines, new, kid, n, m) ==
  /\ new \in LineRows
  /\ At(new, n, m) /\ new[n][m] = kid
  /\ \A l, p : At(lines, l, p) => At(new, l, p) /\ new[l][p] = lines[l][p] /\ (l < n \/ (l = n /\ p < m))
  /\ \A l, p : At(new, l, p) => At(lines, l, p) \/ (l = n /\ p = m)
  /\ Len(new) = 1 => Len(lines) = 1 /\ Len(new[1]) = Len(lines[1]) + 1 /\ m = Len(new[1])

(* A sequence with one more. *)
LEMMA Appended ==
  ASSUME NEW T, NEW s \in Seq(T), NEW e \in T
  PROVE  /\ Append(s, e) \in Seq(T) /\ Len(Append(s, e)) = Len(s) + 1
         /\ \A i \in 1 .. Len(s) : Append(s, e)[i] = s[i]
         /\ Append(s, e)[Len(s) + 1] = e
OBVIOUS

(* The elements of the second of two sequences joined. *)
LEMMA JoinedAt ==
  ASSUME NEW T, NEW c \in Seq(T), NEW b \in Seq(T)
  PROVE  \A i \in 1 .. Len(b) : (c \o b)[Len(c) + i] = b[i]
OBVIOUS

(* A sequence without its last. *)
LEMMA FrontIs ==
  ASSUME NEW T, NEW s \in Seq(T), Len(s) >= 1
  PROVE  /\ Front(s) \in Seq(T) /\ Len(Front(s)) = Len(s) - 1 /\ Len(s) \in Nat
         /\ \A i \in 1 .. Len(s) - 1 : Front(s)[i] = s[i]
         /\ Last(s) = s[Len(s)] /\ Last(s) \in T
<1> DEFINE n == Len(s)
           f == SubSeq(s, 1, n - 1)
<1>1. n \in Nat /\ n >= 1 /\ n \in 1 .. n
  OBVIOUS
<1>2. f \in Seq(T) /\ Len(f) = n - 1 /\ \A i \in 1 .. n - 1 : f[i] = s[i]
  <2> DEFINE h == n - 1
  <2>1. h \in Nat /\ h <= Len(s)
    BY <1>1
  <2> HIDE DEF h
  <2>2. SubSeq(s, 1, h) \in Seq(T) /\ Len(SubSeq(s, 1, h)) = h /\ \A i \in 1 .. h : SubSeq(s, 1, h)[i] = s[i]
    BY <2>1
  <2> QED
    BY <2>2 DEF h
<1>3. Front(s) = f
  BY DEF Front
<1>4. Last(s) = s[n] /\ Last(s) \in T
  BY <1>1 DEF Last
<1> HIDE DEF f, n
<1> QED
  BY <1>1, <1>2, <1>3, <1>4 DEF n

(* A node on a new line is after all the others. *)
LEMMA LineStarted ==
  ASSUME NEW lines \in LineRows, NEW kid \in Trees
  PROVE  \E n, m : GrownAt(lines, Append(lines, <<kid>>), kid, n, m)
<1> DEFINE new == Append(lines, <<kid>>)
           n == Len(lines)
           one == <<kid>>
<1>1. lines \in Seq(Seq(Trees)) /\ n \in Nat /\ n >= 1
  BY DEF LineRows
<1>2. one \in Seq(Trees) /\ Len(one) = 1 /\ one[1] = kid
  BY SingleRow
<1>3. new = Append(lines, one)
  OBVIOUS
<1> HIDE DEF new, one
<1>4. /\ new \in Seq(Seq(Trees)) /\ Len(new) = n + 1 /\ new[n + 1] = one
      /\ \A i \in 1 .. n : new[i] = lines[i]
  BY <1>1, <1>2, <1>3, Appended
<1> HIDE DEF n
<1> DEFINE h == n + 1
<1>5. h \in Nat /\ h >= 2 /\ Len(new) = h /\ new[h] = one /\ \A l : l \in 1 .. h <=> l \in 1 .. n \/ l = h
  BY <1>1, <1>4
<1>6. \A l \in 1 .. n : l < h /\ l # h
  BY <1>1
<1> HIDE DEF h
<1>7. \A p : p \in 1 .. 1 <=> p = 1
  OBVIOUS
<1>8. new \in LineRows /\ Len(new) # 1
  BY <1>4, <1>5 DEF LineRows
<1>9. At(new, h, 1) /\ new[h][1] = kid
  BY <1>2, <1>5, <1>7 DEF At
<1>10. ASSUME NEW l, NEW p, At(lines, l, p) PROVE At(new, l, p) /\ new[l][p] = lines[l][p] /\ l < h
  <2>1. l \in 1 .. n /\ p \in 1 .. Len(lines[l])
    BY <1>10 DEF At, n
  <2> QED
    BY <1>4, <1>5, <1>6, <2>1 DEF At
<1>11. ASSUME NEW l, NEW p, At(new, l, p) PROVE At(lines, l, p) \/ (l = h /\ p = 1)
  <2>1. l \in 1 .. h /\ p \in 1 .. Len(new[l])
    BY <1>5, <1>11 DEF At
  <2>2. CASE l \in 1 .. n
    BY <1>4, <2>1, <2>2 DEF At, n
  <2>3. CASE l = h
    BY <1>2, <1>5, <1>7, <2>1, <2>3
  <2> QED
    BY <1>5, <2>1, <2>2, <2>3
<1>12. GrownAt(lines, new, kid, h, 1)
  BY <1>8, <1>9, <1>10, <1>11 DEF GrownAt
<1> QED
  BY <1>12 DEF new, one

(* So is one at the end of the last line. *)
LEMMA LineContinued ==
  ASSUME NEW lines \in LineRows, NEW kid \in Trees
  PROVE  \E n, m : GrownAt(lines, Append(Front(lines), Append(Last(lines), kid)), kid, n, m)
<1> DEFINE n == Len(lines)
           old == Last(lines)
           more == Append(old, kid)
           rest == Front(lines)
           new == Append(rest, more)
           m == Len(old) + 1
<1>1. lines \in Seq(Seq(Trees)) /\ n \in Nat /\ n >= 1
  BY DEF LineRows
<1>2. /\ rest \in Seq(Seq(Trees)) /\ Len(rest) = n - 1 /\ (\A i \in 1 .. n - 1 : rest[i] = lines[i])
      /\ old = lines[n] /\ old \in Seq(Trees)
  BY <1>1, FrontIs
<1> HIDE DEF rest, old, n
<1>3. /\ more \in Seq(Trees) /\ Len(more) = m /\ m \in Nat /\ m >= 1 /\ more[m] = kid /\ Len(old) \in Nat
      /\ \A i \in 1 .. Len(old) : more[i] = old[i]
  BY <1>2, Appended
<1>4. \A p : p \in 1 .. m <=> p \in 1 .. Len(old) \/ p = m
  BY <1>3
<1>5. \A p \in 1 .. Len(old) : p < m
  BY <1>3
<1> HIDE DEF more, m
<1>6. /\ new \in Seq(Seq(Trees)) /\ Len(new) = Len(rest) + 1 /\ new[Len(rest) + 1] = more
      /\ \A i \in 1 .. Len(rest) : new[i] = rest[i]
  BY <1>2, <1>3, Appended
<1> HIDE DEF new
<1>7. Len(rest) + 1 = n /\ \A l : l \in 1 .. n <=> l \in 1 .. n - 1 \/ l = n
  BY <1>1, <1>2
<1>8. new \in Seq(Seq(Trees)) /\ Len(new) = n /\ new[n] = more /\ \A i \in 1 .. n - 1 : new[i] = lines[i] /\ i < n
  <2>1. \A i \in 1 .. n - 1 : i < n
    BY <1>1
  <2> QED
    BY <1>2, <1>6, <1>7, <2>1
<1>9. new \in LineRows
  BY <1>1, <1>8 DEF LineRows
<1>10. At(new, n, m) /\ new[n][m] = kid
  <2>1. n \in 1 .. n
    BY <1>1
  <2> QED
    BY <1>3, <1>4, <1>8, <2>1 DEF At
<1>11. ASSUME NEW l, NEW p, At(lines, l, p)
       PROVE  At(new, l, p) /\ new[l][p] = lines[l][p] /\ (l < n \/ (l = n /\ p < m))
  <2>1. l \in 1 .. n /\ p \in 1 .. Len(lines[l])
    BY <1>11 DEF At, n
  <2>2. CASE l \in 1 .. n - 1
    BY <1>8, <2>1, <2>2 DEF At
  <2>3. CASE l = n
    BY <1>2, <1>3, <1>4, <1>5, <1>8, <2>1, <2>3 DEF At
  <2> QED
    BY <1>7, <2>1, <2>2, <2>3
<1>12. ASSUME NEW l, NEW p, At(new, l, p) PROVE At(lines, l, p) \/ (l = n /\ p = m)
  <2>1. l \in 1 .. n /\ p \in 1 .. Len(new[l])
    BY <1>8, <1>12 DEF At
  <2>2. CASE l \in 1 .. n - 1
    BY <1>8, <2>1, <2>2 DEF At, n
  <2>3. CASE l = n
    BY <1>2, <1>3, <1>4, <1>8, <2>1, <2>3 DEF At, n
  <2> QED
    BY <1>7, <2>1, <2>2, <2>3
<1>13. Len(new) = 1 => Len(lines) = 1 /\ Len(new[1]) = Len(lines[1]) + 1 /\ m = Len(new[1])
  BY <1>2, <1>3, <1>8 DEF n, m
<1>14. GrownAt(lines, new, kid, n, m)
  BY <1>9, <1>10, <1>11, <1>12, <1>13 DEF GrownAt
<1> QED
  BY <1>14 DEF new, more, rest, old

PackTo(lines, kid, budget) ==
  IF Last(lines) # <<>> /\ WidthOf(Last(lines)) + Measure(kid) > budget
  THEN Append(lines, <<kid>>)
  ELSE Append(Front(lines), Append(Last(lines), kid))

(* Each node packed is put after all the others. *)
LEMMA PackGrows ==
  ASSUME NEW lines \in LineRows, NEW kid \in Trees, NEW budget
  PROVE  \E n, m : GrownAt(lines, PackTo(lines, kid, budget), kid, n, m)
BY LineStarted, LineContinued DEF PackTo

(* Some nodes of a row in lines, one after the other: the line and the place *)
(* in it of each.                                                            *)
Laid(lines, kids, m, line, pos) ==
  /\ lines \in LineRows
  /\ \A k \in 1 .. m : At(lines, line[k], pos[k]) /\ lines[line[k]][pos[k]] = kids[k]
  /\ \A l, p : At(lines, l, p) => \E k \in 1 .. m : line[k] = l /\ pos[k] = p
  /\ \A j, k \in 1 .. m : j < k => line[j] < line[k] \/ (line[j] = line[k] /\ pos[j] < pos[k])
  /\ Len(lines) = 1 => Len(lines[1]) = m /\ \A k \in 1 .. m : pos[k] = k

(* One node more is laid after the others. *)
LEMMA LaidMore ==
  ASSUME NEW lines, NEW kids, NEW m \in Nat, NEW line, NEW pos, Laid(lines, kids, m, line, pos),
         NEW new, NEW n, NEW h, GrownAt(lines, new, kids[m + 1], n, h)
  PROVE  \E line2, pos2 : Laid(new, kids, m + 1, line2, pos2)
<1> DEFINE g == m + 1
           line2 == [k \in 1 .. g |-> IF k = g THEN n ELSE line[k]]
           pos2 == [k \in 1 .. g |-> IF k = g THEN h ELSE pos[k]]
<1>1. g \in 1 .. g /\ \A k : k \in 1 .. g <=> k \in 1 .. m \/ k = g
  OBVIOUS
<1>2. \A k \in 1 .. m : k < g /\ k # g
  OBVIOUS
<1>3. g = m + 1
  OBVIOUS
<1> HIDE DEF g
<1>4. line2[g] = n /\ pos2[g] = h /\ \A k \in 1 .. m : line2[k] = line[k] /\ pos2[k] = pos[k]
  BY <1>1, <1>2
<1> HIDE DEF line2, pos2
<1>5. /\ \A k \in 1 .. m : At(lines, line[k], pos[k]) /\ lines[line[k]][pos[k]] = kids[k]
      /\ \A l, p : At(lines, l, p) => \E k \in 1 .. m : line[k] = l /\ pos[k] = p
      /\ \A j, k \in 1 .. m : j < k => line[j] < line[k] \/ (line[j] = line[k] /\ pos[j] < pos[k])
      /\ Len(lines) = 1 => Len(lines[1]) = m /\ \A k \in 1 .. m : pos[k] = k
  BY DEF Laid
<1>6. /\ new \in LineRows
      /\ At(new, n, h) /\ new[n][h] = kids[g]
      /\ \A l, p : At(lines, l, p) => At(new, l, p) /\ new[l][p] = lines[l][p] /\ (l < n \/ (l = n /\ p < h))
      /\ \A l, p : At(new, l, p) => At(lines, l, p) \/ (l = n /\ p = h)
      /\ Len(new) = 1 => Len(lines) = 1 /\ Len(new[1]) = Len(lines[1]) + 1 /\ h = Len(new[1])
  BY <1>3 DEF GrownAt
<1>7. ASSUME NEW k \in 1 .. g PROVE At(new, line2[k], pos2[k]) /\ new[line2[k]][pos2[k]] = kids[k]
  <2>1. CASE k = g
    BY <1>4, <1>6, <2>1
  <2>2. CASE k \in 1 .. m
    BY <1>4, <1>5, <1>6, <2>2
  <2> QED
    BY <1>1, <2>1, <2>2
<1>8. ASSUME NEW l, NEW p, At(new, l, p) PROVE \E k \in 1 .. g : line2[k] = l /\ pos2[k] = p
  <2>1. CASE l = n /\ p = h
    BY <1>1, <1>4, <2>1
  <2>2. CASE At(lines, l, p)
    <3>1. PICK k \in 1 .. m : line[k] = l /\ pos[k] = p
      BY <1>5, <2>2
    <3> QED
      BY <1>1, <1>4, <3>1
  <2> QED
    BY <1>6, <1>8, <2>1, <2>2
<1>9. ASSUME NEW j \in 1 .. g, NEW k \in 1 .. g, j < k
      PROVE  line2[j] < line2[k] \/ (line2[j] = line2[k] /\ pos2[j] < pos2[k])
  <2>1. j \in 1 .. m
    BY <1>3, <1>9
  <2>2. CASE k = g
    <3>1. At(lines, line[j], pos[j])
      BY <1>5, <2>1
    <3>2. line[j] < n \/ (line[j] = n /\ pos[j] < h)
      BY <1>6, <3>1
    <3> QED
      BY <1>4, <2>1, <2>2, <3>2
  <2>3. CASE k \in 1 .. m
    <3>1. line[j] < line[k] \/ (line[j] = line[k] /\ pos[j] < pos[k])
      BY <1>5, <1>9, <2>1, <2>3
    <3> QED
      BY <1>4, <2>1, <2>3, <3>1
  <2> QED
    BY <1>1, <2>2, <2>3
<1>10. ASSUME Len(new) = 1 PROVE Len(new[1]) = g /\ \A k \in 1 .. g : pos2[k] = k
  <2>1. Len(lines) = 1 /\ Len(new[1]) = Len(lines[1]) + 1 /\ h = Len(new[1])
    BY <1>6, <1>10
  <2>2. Len(lines[1]) = m /\ \A k \in 1 .. m : pos[k] = k
    BY <1>5, <2>1
  <2>3. h = g /\ Len(new[1]) = g
    BY <1>3, <2>1, <2>2
  <2>4. ASSUME NEW k \in 1 .. g PROVE pos2[k] = k
    <3>1. CASE k = g
      BY <1>4, <2>3, <3>1
    <3>2. CASE k \in 1 .. m
      BY <1>4, <2>2, <3>2
    <3> QED
      BY <1>1, <3>1, <3>2
  <2> QED
    BY <2>3, <2>4
<1>11. Laid(new, kids, g, line2, pos2)
  BY <1>6, <1>7, <1>8, <1>9, <1>10 DEF Laid
<1> QED
  BY <1>3, <1>11

(* So are all, as they are packed. *)
LEMMA PackedLaid ==
  ASSUME NEW kids \in Seq(Trees), NEW budget
  PROVE  \E line, pos : Laid(Packed(kids, budget), kids, Len(kids), line, pos)
<1> DEFINE n == Len(kids)
           none == <<>>
           first == <<none>>
           next == [k \in 0 .. n |-> [v \in LineRows |-> IF k = 0 THEN first ELSE PackTo(v, kids[k], budget)]]
           Is(f) == f = [k \in 0 .. Len(kids) |-> IF k = 0 THEN first ELSE PackTo(f[k - 1], kids[k], budget)]
           packed == CHOOSE f : Is(f)
<1>1. n \in Nat /\ \A k \in 1 .. n : kids[k] \in Trees /\ k - 1 \in 0 .. n /\ k \in 0 .. n /\ k # 0
  OBVIOUS
<1>2. first \in LineRows /\ Len(first) = 1 /\ first[1] = none /\ Len(none) = 0
  <2>1. none \in Seq(Trees)
    OBVIOUS
  <2> HIDE DEF none
  <2>2. first \in Seq(Seq(Trees)) /\ Len(first) = 1 /\ first[1] = none
    BY <2>1, SingleRow
  <2>3. Len(none) = 0
    BY DEF none
  <2> HIDE DEF first
  <2>4. first \in LineRows
    <3>1. Len(first) >= 1
      BY <2>2
    <3> QED
      BY <2>2, <3>1 DEF LineRows
  <2> QED
    BY <2>2, <2>3, <2>4
<1>3. \A k \in 0 .. n : k # 0 => \A v \in LineRows : next[k][v] = PackTo(v, kids[k], budget) /\ PackTo(v, kids[k], budget) \in LineRows
  <2> SUFFICES ASSUME NEW k \in 0 .. n, k # 0, NEW v \in LineRows
               PROVE  next[k][v] = PackTo(v, kids[k], budget) /\ PackTo(v, kids[k], budget) \in LineRows
    OBVIOUS
  <2>1. kids[k] \in Trees
    BY <1>1
  <2>2. PackTo(v, kids[k], budget) \in LineRows
    BY <2>1, PackGrows DEF GrownAt
  <2> HIDE DEF first, n
  <2> QED
    BY <2>2
<1> HIDE DEF first
<1>4. PICK f \in [0 .. n -> LineRows] : Runs(f, 0, n, first, next)
  <2>1. Advances(0, n, LineRows, next)
    <3> HIDE DEF next
    <3> QED
      BY <1>3 DEF Advances
  <2> HIDE DEF n, next
  <2> QED
    BY <1>1, <1>2, <2>1, Along
<1>5. ASSUME NEW k \in 0 .. n PROVE f[k] = IF k = 0 THEN first ELSE PackTo(f[k - 1], kids[k], budget)
  <2>1. CASE k = 0
    <3> HIDE DEF next
    <3> QED
      BY <1>1, <1>4, <2>1 DEF Runs
  <2>2. CASE k # 0
    <3>0. k - 1 \in 0 .. n
      BY <1>1, <2>2
    <3> HIDE DEF next, n
    <3>1. f[k - 1] \in LineRows
      BY <3>0
    <3>2. f[k] = next[k][f[k - 1]]
      BY <1>4, <2>2 DEF Runs
    <3> QED
      BY <1>3, <2>2, <3>1, <3>2
  <2> QED
    BY <2>1, <2>2
<1>6. Is(f)
  <2> HIDE DEF next
  <2> QED
    BY <1>4, <1>5
<1>7. Is(packed)
  <2> HIDE DEF Is
  <2> QED
    BY <1>6
<1>8. Packed(kids, budget) = packed[n]
  BY DEF Packed, PackTo, first
<1>9. \A k \in 0 .. n : packed[k] = IF k = 0 THEN first ELSE PackTo(packed[k - 1], kids[k], budget)
  <2> HIDE DEF packed
  <2> QED
    BY <1>7
<1> HIDE DEF packed, Is, next, n
<1> DEFINE Fine(k) == \E line, pos : Laid(packed[k], kids, k, line, pos)
           S == {k \in 0 .. n : Fine(k)}
<1>10. 0 \in S
  <2>1. packed[0] = first /\ 0 \in 0 .. n
    BY <1>1, <1>9
  <2>2. \A l, p : ~At(first, l, p)
    <3> SUFFICES ASSUME NEW l, NEW p, At(first, l, p) PROVE FALSE
      OBVIOUS
    <3>1. l \in 1 .. 1 /\ p \in 1 .. Len(first[l])
      BY <1>2 DEF At
    <3>2. l = 1 /\ p \in 1 .. 0
      BY <1>2, <3>1
    <3> QED
      BY <3>2
  <2>3. 1 .. 0 = {}
    OBVIOUS
  <2>4. Laid(first, kids, 0, <<>>, <<>>)
    BY <1>2, <2>2, <2>3 DEF Laid
  <2> QED
    BY <2>1, <2>4
<1>11. ASSUME NEW k \in 0 + 1 .. n, k - 1 \in S PROVE k \in S
  <2> DEFINE h == k - 1
  <2>1. k \in 1 .. n /\ k \in 0 .. n /\ k # 0 /\ h \in Nat /\ k = h + 1 /\ h \in S
    BY <1>1, <1>11
  <2> HIDE DEF h
  <2>2. PICK line, pos : Laid(packed[h], kids, h, line, pos)
    BY <2>1
  <2>3. packed[k] = PackTo(packed[h], kids[k], budget)
    BY <1>9, <2>1 DEF h
  <2>4. packed[h] \in LineRows /\ kids[k] \in Trees
    BY <1>1, <2>1, <2>2 DEF Laid
  <2>5. PICK l, p : GrownAt(packed[h], packed[k], kids[h + 1], l, p)
    BY <2>1, <2>3, <2>4, PackGrows
  <2>6. \E line2, pos2 : Laid(packed[k], kids, h + 1, line2, pos2)
    BY <2>1, <2>2, <2>5, LaidMore
  <2> QED
    BY <2>1, <2>6
<1> HIDE DEF S
<1>12. \A k \in 0 .. n : k \in S
  BY <1>1, <1>10, <1>11, AlongHolds
<1>13. n \in S
  BY <1>1, <1>12
<1> QED
  BY <1>8, <1>13 DEF S, n

(* The last node of all in a line of its own. *)
LEMMA LaidBelow ==
  ASSUME NEW lines, NEW kids, NEW m \in Nat, NEW line, NEW pos, Laid(lines, kids, m, line, pos),
         Len(lines) > 1, Len(Last(lines)) > 1
  PROVE  \E line2, pos2 : Laid(Front(lines) \o <<Front(Last(lines)), <<Last(Last(lines))>>>>, kids, m, line2, pos2)
<1> DEFINE n == Len(lines)
           old == Last(lines)
           kid == Last(old)
           rest == Front(lines)
           less == Front(old)
           one == <<kid>>
           two == <<less, one>>
           new == rest \o two
           e == Len(old)
           h == n + 1
           line2 == [k \in 1 .. m |-> IF k = m THEN h ELSE line[k]]
           pos2 == [k \in 1 .. m |-> IF k = m THEN 1 ELSE pos[k]]
<1>1. lines \in Seq(Seq(Trees)) /\ n \in Nat /\ n > 1 /\ n >= 1
  BY DEF Laid, LineRows
<1>2. /\ rest \in Seq(Seq(Trees)) /\ Len(rest) = n - 1 /\ (\A i \in 1 .. n - 1 : rest[i] = lines[i])
      /\ old = lines[n] /\ old \in Seq(Trees)
  BY <1>1, FrontIs
<1>3. e \in Nat /\ e > 1
  BY <1>2
<1>4. /\ less \in Seq(Trees) /\ Len(less) = e - 1 /\ (\A i \in 1 .. e - 1 : less[i] = old[i])
      /\ kid = old[e] /\ kid \in Trees
  <2>1. e >= 1
    BY <1>3
  <2> QED
    BY <1>2, <2>1, FrontIs
<1> HIDE DEF rest, old, less, kid
<1>5. one \in Seq(Trees) /\ Len(one) = 1 /\ one[1] = kid
  BY <1>4, SingleRow
<1> HIDE DEF one
<1>6. two \in Seq(Seq(Trees)) /\ Len(two) = 2 /\ two[1] = less /\ two[2] = one
  <2> DEFINE T == Seq(Trees)
  <2>1. less \in T /\ one \in T
    BY <1>4, <1>5
  <2> HIDE DEF T
  <2>2. two \in Seq(T) /\ Len(two) = 2 /\ two[1] = less /\ two[2] = one
    BY <2>1
  <2> QED
    BY <2>2 DEF T
<1> HIDE DEF two, n, e
<1>7. /\ new \in Seq(Seq(Trees)) /\ Len(new) = h /\ (\A i \in 1 .. n - 1 : new[i] = lines[i])
      /\ new[n] = less /\ new[h] = one
  <2> DEFINE T == Seq(Trees)
  <2>1. rest \in Seq(T) /\ two \in Seq(T)
    BY <1>2, <1>6
  <2> HIDE DEF T
  <2>2. new \in Seq(T) /\ Len(new) = Len(rest) + Len(two)
    BY <2>1, Joined
  <2>3. \A i \in 1 .. Len(rest) : new[i] = rest[i]
    BY <2>1
  <2>4. new[Len(rest) + 1] = two[1] /\ new[Len(rest) + 2] = two[2]
    <3>1. \A i \in 1 .. Len(two) : new[Len(rest) + i] = two[i]
      BY <2>1, JoinedAt
    <3>2. 1 \in 1 .. Len(two) /\ 2 \in 1 .. Len(two)
      BY <1>6
    <3> HIDE DEF new
    <3> QED
      BY <3>1, <3>2
  <2>5. Len(rest) + 1 = n /\ Len(rest) + 2 = h /\ Len(rest) + Len(two) = h
    BY <1>1, <1>2, <1>6
  <2> HIDE DEF new, h
  <2> QED
    BY <1>2, <1>6, <2>2, <2>3, <2>4, <2>5 DEF T
<1> HIDE DEF new
<1>8. /\ h \in Nat /\ h >= 2 /\ h > n
      /\ \A l : l \in 1 .. h <=> l \in 1 .. n - 1 \/ l = n \/ l = h
      /\ \A l : l \in 1 .. n <=> l \in 1 .. n - 1 \/ l = n
      /\ \A l \in 1 .. n : l < h /\ l # h
  BY <1>1
<1> HIDE DEF h
<1>9. /\ \A k \in 1 .. m : At(lines, line[k], pos[k]) /\ lines[line[k]][pos[k]] = kids[k]
      /\ \A l, p : At(lines, l, p) => \E k \in 1 .. m : line[k] = l /\ pos[k] = p
      /\ \A j, k \in 1 .. m : j < k => line[j] < line[k] \/ (line[j] = line[k] /\ pos[j] < pos[k])
  BY DEF Laid
<1>10. \A l, p : At(lines, l, p) <=> (l \in 1 .. n - 1 /\ p \in 1 .. Len(lines[l])) \/ (l = n /\ p \in 1 .. e)
  BY <1>2, <1>8 DEF At, n, e
<1>11. \A l, p : At(new, l, p) <=> \/ l \in 1 .. n - 1 /\ p \in 1 .. Len(lines[l])
                                   \/ l = n /\ p \in 1 .. e - 1
                                   \/ l = h /\ p = 1
  <2> SUFFICES ASSUME NEW l, NEW p
               PROVE  At(new, l, p) <=> \/ l \in 1 .. n - 1 /\ p \in 1 .. Len(lines[l])
                                        \/ l = n /\ p \in 1 .. e - 1
                                        \/ l = h /\ p = 1
    OBVIOUS
  <2>1. n \notin 1 .. n - 1 /\ h \notin 1 .. n - 1 /\ h # n
    BY <1>1, <1>8
  <2>2. p \in 1 .. 1 <=> p = 1
    OBVIOUS
  <2> QED
    BY <1>4, <1>5, <1>7, <1>8, <2>1, <2>2 DEF At
<1>12. e \in 1 .. e /\ (\A p : p \in 1 .. e <=> p \in 1 .. e - 1 \/ p = e) /\ (\A p \in 1 .. e : p <= e) /\ e \notin 1 .. e - 1
  BY <1>3
<1>13. m >= 1 /\ m \in 1 .. m /\ line[m] = n /\ pos[m] = e
  <2>0. At(lines, n, e)
    BY <1>10, <1>12
  <2>1. PICK k \in 1 .. m : line[k] = n /\ pos[k] = e
    BY <1>9, <2>0
  <2>2. m >= 1 /\ m \in 1 .. m /\ k <= m
    OBVIOUS
  <2>3. CASE k < m
    <3>1. line[k] < line[m] \/ (line[k] = line[m] /\ pos[k] < pos[m])
      BY <1>9, <2>2, <2>3
    <3>2. At(lines, line[m], pos[m])
      BY <1>9, <2>2
    <3>3. line[m] \in 1 .. n - 1 \/ (line[m] = n /\ pos[m] \in 1 .. e)
      BY <1>10, <3>2
    <3>4. CASE line[m] \in 1 .. n - 1
      BY <1>1, <2>1, <3>1, <3>4
    <3>5. CASE line[m] = n /\ pos[m] \in 1 .. e
      <4> DEFINE p == pos[m]
      <4>1. n < n \/ e < p
        BY <2>1, <3>1, <3>5
      <4>2. p \in 1 .. e
        BY <3>5
      <4> HIDE DEF p
      <4> QED
        BY <1>1, <1>3, <4>1, <4>2
    <3> QED
      BY <3>3, <3>4, <3>5
  <2> QED
    BY <2>1, <2>2, <2>3
<1>14. line2[m] = h /\ pos2[m] = 1 /\ \A k \in 1 .. m : k # m => line2[k] = line[k] /\ pos2[k] = pos[k]
  BY <1>13
<1> HIDE DEF line2, pos2
<1>15. ASSUME NEW k \in 1 .. m, k # m
       PROVE  \/ line[k] \in 1 .. n - 1 /\ pos[k] \in 1 .. Len(lines[line[k]])
              \/ line[k] = n /\ pos[k] \in 1 .. e - 1
  <2>1. line[k] < n \/ (line[k] = n /\ pos[k] < e)
    <3>1. k < m
      BY <1>15
    <3> QED
      BY <1>9, <1>13, <3>1
  <2>2. (line[k] \in 1 .. n - 1 /\ pos[k] \in 1 .. Len(lines[line[k]])) \/ (line[k] = n /\ pos[k] \in 1 .. e)
    BY <1>9, <1>10
  <2>3. CASE line[k] = n /\ pos[k] \in 1 .. e
    <3>1. ~(n < n)
      BY <1>1
    <3>2. pos[k] < e /\ pos[k] \in 1 .. e
      BY <2>1, <2>3, <3>1
    <3>3. pos[k] # e
      BY <1>3, <3>2
    <3> QED
      BY <1>12, <2>3, <3>3
  <2> QED
    BY <2>2, <2>3
<1>16. ASSUME NEW k \in 1 .. m PROVE At(new, line2[k], pos2[k]) /\ new[line2[k]][pos2[k]] = kids[k]
  <2>1. CASE k = m
    <3>1. kids[m] = old[e]
      BY <1>2, <1>9, <1>13
    <3>2. new[h][1] = kid
      BY <1>5, <1>7
    <3> QED
      BY <1>4, <1>11, <1>14, <2>1, <3>1, <3>2
  <2>2. CASE k # m
    <3>1. At(new, line[k], pos[k])
      BY <1>11, <1>15, <2>2
    <3>2. lines[line[k]][pos[k]] = kids[k]
      BY <1>9
    <3>3. CASE line[k] \in 1 .. n - 1 /\ pos[k] \in 1 .. Len(lines[line[k]])
      BY <1>7, <1>14, <2>2, <3>1, <3>2, <3>3
    <3>4. CASE line[k] = n /\ pos[k] \in 1 .. e - 1
      BY <1>2, <1>4, <1>7, <1>14, <2>2, <3>1, <3>2, <3>4
    <3> QED
      BY <1>15, <2>2, <3>3, <3>4
  <2> QED
    BY <2>1, <2>2
<1>17. ASSUME NEW l, NEW p, At(new, l, p) PROVE \E k \in 1 .. m : line2[k] = l /\ pos2[k] = p
  <2>1. CASE l = h /\ p = 1
    BY <1>13, <1>14, <2>1
  <2>2. CASE ~(l = h /\ p = 1)
    <3>1. At(lines, l, p) /\ ~(l = n /\ p = e)
      BY <1>1, <1>10, <1>11, <1>12, <1>17, <2>2
    <3>2. PICK k \in 1 .. m : line[k] = l /\ pos[k] = p
      BY <1>9, <3>1
    <3>3. k # m
      BY <1>13, <3>1, <3>2
    <3> QED
      BY <1>14, <3>2, <3>3
  <2> QED
    BY <2>1, <2>2
<1>18. ASSUME NEW j \in 1 .. m, NEW k \in 1 .. m, j < k
       PROVE  line2[j] < line2[k] \/ (line2[j] = line2[k] /\ pos2[j] < pos2[k])
  <2>1. j # m
    BY <1>18
  <2>2. CASE k = m
    <3>1. line[j] \in 1 .. n
      BY <1>8, <1>15, <2>1
    <3>2. line[j] < h
      BY <1>8, <3>1
    <3> QED
      BY <1>14, <2>1, <2>2, <3>2
  <2>3. CASE k # m
    BY <1>9, <1>14, <1>18, <2>1, <2>3
  <2> QED
    BY <2>2, <2>3
<1>19. new \in LineRows /\ Len(new) # 1
  BY <1>7, <1>8 DEF LineRows
<1>20. Laid(new, kids, m, line2, pos2)
  BY <1>16, <1>17, <1>18, <1>19 DEF Laid
<1> QED
  BY <1>20 DEF new, two, one, rest, less, kid, old

(* However they are packed, the nodes are laid in order, each once. *)
LEMMA LinesLaid ==
  ASSUME NEW kids \in Seq(Trees), NEW budget
  PROVE  \E line, pos : Laid(WithRoom(Packed(kids, budget), budget), kids, Len(kids), line, pos)
<1> DEFINE lines == Packed(kids, budget)
           m == Len(kids)
<1>1. m \in Nat
  OBVIOUS
<1>2. PICK line, pos : Laid(lines, kids, m, line, pos)
  BY PackedLaid
<1> HIDE DEF lines, m
<1>3. CASE WithRoom(lines, budget) = lines
  BY <1>2, <1>3 DEF lines, m
<1>4. CASE WithRoom(lines, budget) # lines
  <2>1. /\ Len(lines) > 1 /\ Len(Last(lines)) > 1
        /\ WithRoom(lines, budget) = Front(lines) \o <<Front(Last(lines)), <<Last(Last(lines))>>>>
    BY <1>4 DEF WithRoom
  <2> QED
    BY <1>1, <1>2, <2>1, LaidBelow DEF lines, m
<1> QED
  BY <1>3, <1>4

------------------------------------------------------------------------------
(* Room. *)

(* Where a node of a line starts, where it ends, and where the coil is. *)
LeftAt(lines, span, l, p) == Offset(span, l) + Start(l) + Before(lines[l], p)

RightAt(lines, span, l, p) == LeftAt(lines, span, l, p) + Measure(lines[l][p])

EndAt(lines, span) == Offset(span, Len(lines)) + span - TAIL - (CoilWidth \div 2) - 16

(* No line is wider than the drawing. *)
Spread(lines, span) ==
  /\ lines \in LineRows /\ span \in Nat
  /\ \A l \in 1 .. Len(lines) : LineWidth(lines, l) <= span

(* A product of naturals is one. *)
LEMMA OneByOne ==
  ASSUME NEW d \in Nat, NEW s \in Nat
  PROVE  d * s \in Nat
OBVIOUS

(* Each line starts where the one before ends, but for the markers. *)
LEMMA OffsetsGrow ==
  ASSUME NEW span \in Nat, span >= 30, NEW l \in Nat, NEW h \in Nat, 1 <= l
  PROVE  /\ Offset(span, l) \in Int /\ Offset(span, l) >= 0
         /\ l < h => Offset(span, l) + span - 30 <= Offset(span, h)
<1> DEFINE s == span - 30
           a == l - 1
           d == h - l - 1
<1>1. s \in Nat /\ a \in Nat
  OBVIOUS
<1>2. Offset(span, l) = a * s /\ Offset(span, h) = (h - 1) * s
  BY DEF Offset, LEAD
<1>3. a * s \in Nat
  BY <1>1, OneByOne
<1>4. CASE l < h
  <2>1. d \in Nat /\ h - 1 = a + 1 + d
    BY <1>4
  <2>2. d * s \in Nat
    BY <1>1, <2>1, OneByOne
  <2> HIDE DEF s, d, a
  <2>3. (a + 1 + d) * s = a * s + s + d * s
    BY <1>1, <2>1
  <2>4. (h - 1) * s = a * s + s + d * s
    BY <2>1, <2>3
  <2>5. a * s + s <= (h - 1) * s
    BY <1>1, <1>3, <2>2, <2>4
  <2>6. Offset(span, l) + s <= Offset(span, h) /\ Offset(span, l) \in Nat
    BY <1>2, <1>3, <2>5
  <2>7. Offset(span, l) + s = Offset(span, l) + span - 30
    BY <2>6 DEF s
  <2> QED
    BY <2>6, <2>7
<1> HIDE DEF s, a
<1> QED
  BY <1>2, <1>3, <1>4

(* How wide a line is. *)
LEMMA LineWidthIs ==
  ASSUME NEW lines \in LineRows, NEW l \in 1 .. Len(lines)
  PROVE  /\ lines[l] \in Seq(Trees) /\ WidthOf(lines[l]) \in Nat /\ Start(l) \in Nat
         /\ LineWidth(lines, l) \in Nat
         /\ LineWidth(lines, l) >= Start(l) + WidthOf(lines[l]) + 66 \/ l = Len(lines)
         /\ l = Len(lines) => LineWidth(lines, l) = Start(l) + WidthOf(lines[l]) + 56 + CoilWidth
         /\ LineWidth(lines, l) >= 38
<1>1. lines[l] \in Seq(Trees)
  BY DEF LineRows
<1>2. WidthOf(lines[l]) \in Nat
  BY <1>1, RowPlaces
<1>3. Start(l) \in Nat /\ Start(l) >= 22
  BY DEF Start, LEAD, MARKER
<1>4. CoilWidth \in Nat
  BY WidthsAssumption
<1> DEFINE w == WidthOf(lines[l])
           n == Len(lines)
           o == Start(l)
<1>5. LineWidth(lines, l) = o + w + 16 + (IF l = n THEN 40 + CoilWidth ELSE 50)
  BY DEF LineWidth, TAIL, MARKER
<1>6. w \in Nat /\ o \in Nat /\ o >= 22
  BY <1>2, <1>3
<1> HIDE DEF w, n, o
<1>7. CASE l = n
  <2>1. LineWidth(lines, l) = o + w + 56 + CoilWidth
    BY <1>4, <1>5, <1>6, <1>7
  <2> QED
    BY <1>1, <1>4, <1>6, <1>7, <2>1 DEF w, n, o
<1>8. CASE l # n
  <2>1. LineWidth(lines, l) = o + w + 66
    BY <1>5, <1>6, <1>8
  <2> QED
    BY <1>1, <1>6, <1>8, <2>1 DEF w, n, o
<1> QED
  BY <1>7, <1>8

(* Along the wire, the nodes are in the order of the lines and of each line, *)
(* and the coil is after them all.                                           *)
LEMMA LinesInOrder ==
  ASSUME NEW lines, NEW span, Spread(lines, span)
  PROVE  /\ EndAt(lines, span) \in Int
         /\ \A l, p : At(lines, l, p) =>
               /\ LeftAt(lines, span, l, p) \in Int /\ RightAt(lines, span, l, p) \in Int
               /\ 0 <= LeftAt(lines, span, l, p) /\ RightAt(lines, span, l, p) <= EndAt(lines, span)
         /\ \A l, p, h, q : At(lines, l, p) /\ At(lines, h, q) /\ (l < h \/ (l = h /\ p < q)) =>
               RightAt(lines, span, l, p) <= LeftAt(lines, span, h, q)
<1> DEFINE n == Len(lines)
           coil == CoilWidth \div 2
<1>1. lines \in LineRows /\ span \in Nat /\ n \in Nat /\ n >= 1 /\ n \in 1 .. n
  BY DEF Spread, LineRows
<1>2. coil \in Nat /\ coil <= CoilWidth /\ CoilWidth \in Nat
  BY WidthsAssumption
<1> HIDE DEF coil, n
<1>3. span >= 38 + CoilWidth /\ span >= 30
  <2>1. LineWidth(lines, n) = Start(n) + WidthOf(lines[n]) + 56 + CoilWidth /\ LineWidth(lines, n) <= span
        /\ Start(n) \in Nat /\ WidthOf(lines[n]) \in Nat
    BY <1>1, LineWidthIs DEF Spread, n
  <2> QED
    BY <1>1, <1>2, <2>1
<1>4. \A l \in 1 .. n : Offset(span, l) \in Int /\ Offset(span, l) >= 0
  BY <1>1, <1>3, OffsetsGrow
<1>5. \A l, h \in 1 .. n : l < h => Offset(span, l) + span - 30 <= Offset(span, h)
  BY <1>1, <1>3, OffsetsGrow
<1>6. EndAt(lines, span) = Offset(span, n) + span - 32 - coil
  <2>1. Offset(span, n) \in Int
    BY <1>1, <1>4
  <2> QED
    BY <1>1, <1>2, <2>1 DEF EndAt, TAIL, coil, n
<1>7. EndAt(lines, span) \in Int
  BY <1>1, <1>2, <1>4, <1>6
<1>8. ASSUME NEW l, NEW p, At(lines, l, p)
      PROVE  /\ l \in 1 .. n /\ Offset(span, l) \in Int /\ Offset(span, l) >= 0
             /\ LeftAt(lines, span, l, p) \in Int /\ RightAt(lines, span, l, p) \in Int
             /\ Offset(span, l) <= LeftAt(lines, span, l, p)
             /\ l # n => RightAt(lines, span, l, p) <= Offset(span, l) + span - 66
             /\ l = n => RightAt(lines, span, l, p) <= Offset(span, l) + span - 56 - CoilWidth
  <2> DEFINE s == lines[l]
             w == WidthOf(s)
             b == Before(s, p)
             m == Measure(s[p])
             o == Offset(span, l)
  <2>1. l \in 1 .. n /\ p \in 1 .. Len(s)
    BY <1>8 DEF At, n
  <2>2. /\ s \in Seq(Trees) /\ w \in Nat /\ Start(l) \in Nat /\ LineWidth(lines, l) \in Nat
        /\ LineWidth(lines, l) >= Start(l) + w + 66 \/ l = n
        /\ l = n => LineWidth(lines, l) = Start(l) + w + 56 + CoilWidth
    BY <1>1, <2>1, LineWidthIs DEF n
  <2>3. LineWidth(lines, l) <= span
    BY <2>1 DEF Spread, n
  <2>4. s[p] \in Trees
    BY <2>1, <2>2
  <2>5. b \in Nat /\ b + m <= w /\ m \in Nat
    BY <2>1, <2>2, <2>4, RowPlaces, MeasureUnfolds
  <2>6. o \in Int /\ o >= 0
    BY <1>4, <2>1
  <2>7. LeftAt(lines, span, l, p) = o + Start(l) + b /\ RightAt(lines, span, l, p) = LeftAt(lines, span, l, p) + m
    BY DEF LeftAt, RightAt
  <2> HIDE DEF s, w, b, m, o
  <2>8. LeftAt(lines, span, l, p) \in Int /\ RightAt(lines, span, l, p) \in Int /\ o <= LeftAt(lines, span, l, p)
        /\ RightAt(lines, span, l, p) <= o + Start(l) + w
    BY <2>2, <2>5, <2>6, <2>7
  <2>9. CASE l # n
    <3>1. Start(l) + w + 66 <= span
      BY <1>1, <2>2, <2>3, <2>9
    <3> QED
      BY <1>1, <2>1, <2>2, <2>6, <2>8, <2>9, <3>1 DEF o
  <2>10. CASE l = n
    <3>1. Start(l) + w + 56 + CoilWidth <= span
      BY <2>2, <2>3, <2>10
    <3> QED
      BY <1>1, <1>2, <2>1, <2>2, <2>6, <2>8, <2>10, <3>1 DEF o
  <2> QED
    BY <2>9, <2>10
<1>9. ASSUME NEW l, NEW p, At(lines, l, p)
      PROVE  0 <= LeftAt(lines, span, l, p) /\ RightAt(lines, span, l, p) <= EndAt(lines, span)
  <2> DEFINE o == Offset(span, l)
             u == Offset(span, n)
             x == RightAt(lines, span, l, p)
             y == LeftAt(lines, span, l, p)
  <2>1. /\ l \in 1 .. n /\ o \in Int /\ o >= 0 /\ x \in Int /\ y \in Int /\ o <= y
        /\ l # n => x <= o + span - 66
        /\ l = n => x <= o + span - 56 - CoilWidth
    BY <1>8, <1>9
  <2>2. u \in Int /\ u >= 0 /\ EndAt(lines, span) = u + span - 32 - coil
    BY <1>1, <1>4, <1>6
  <2>3. l # n => o + span - 30 <= u
    BY <1>1, <1>5, <2>1
  <2>4. l = n => o = u
    OBVIOUS
  <2> HIDE DEF o, u, x, y
  <2>5. 0 <= y /\ x <= EndAt(lines, span)
    BY <1>1, <1>2, <1>3, <2>1, <2>2, <2>3, <2>4
  <2> QED
    BY <2>5 DEF x, y
<1>10. ASSUME NEW l, NEW p, NEW h, NEW q, At(lines, l, p), At(lines, h, q), l < h \/ (l = h /\ p < q)
       PROVE  RightAt(lines, span, l, p) <= LeftAt(lines, span, h, q)
  <2>1. CASE l < h
    <3> DEFINE o == Offset(span, l)
               u == Offset(span, h)
               x == RightAt(lines, span, l, p)
               y == LeftAt(lines, span, h, q)
    <3>1. /\ l \in 1 .. n /\ o \in Int /\ x \in Int
          /\ l # n => x <= o + span - 66
      BY <1>8, <1>10
    <3>2. h \in 1 .. n /\ u \in Int /\ y \in Int /\ u <= y
      BY <1>8, <1>10
    <3>3. l # n
      BY <1>1, <2>1, <3>1, <3>2
    <3>4. o + span - 30 <= u
      BY <1>5, <2>1, <3>1, <3>2
    <3> HIDE DEF o, u, x, y
    <3>5. x <= y
      BY <1>1, <3>1, <3>2, <3>3, <3>4
    <3> QED
      BY <3>5 DEF x, y
  <2>2. CASE l = h /\ p < q
    <3> DEFINE s == lines[l]
               b == Before(s, p)
               c == Before(s, q)
               m == Measure(s[p])
               o == Offset(span, l) + Start(l)
    <3>1. l \in 1 .. n /\ p \in 1 .. Len(s) /\ q \in 1 .. Len(s)
      BY <1>10, <2>2 DEF At, n
    <3>2. s \in Seq(Trees) /\ Start(l) \in Nat
      BY <1>1, <3>1, LineWidthIs DEF n
    <3>3. s[p] \in Trees
      BY <3>1, <3>2
    <3>4. b \in Nat /\ c \in Nat /\ m \in Nat /\ b + m <= c
      BY <2>2, <3>1, <3>2, <3>3, RowPlaces, MeasureUnfolds
    <3>5. o \in Int
      BY <1>4, <3>1, <3>2
    <3>6. RightAt(lines, span, l, p) = o + b + m /\ LeftAt(lines, span, h, q) = o + c
      BY <2>2 DEF LeftAt, RightAt
    <3> HIDE DEF s, b, c, m, o
    <3> QED
      BY <3>4, <3>5, <3>6
  <2> QED
    BY <1>10, <2>1, <2>2
<1> QED
  BY <1>7, <1>8, <1>9, <1>10

------------------------------------------------------------------------------
(* The drawing's width. *)

(* The greatest of two, *)
LEMMA MaxOfTwo ==
  ASSUME NEW a \in Int, NEW b \in Int
  PROVE  Max({a, b}) \in {a, b} /\ Max({a, b}) >= a /\ Max({a, b}) >= b
<1> DEFINE S == {a, b}
<1>1. \E x \in S : \A y \in S : x >= y
  OBVIOUS
<1>2. Max(S) \in S /\ \A y \in S : Max(S) >= y
  <2> HIDE DEF S
  <2> QED
    BY <1>1 DEF Max
<1> QED
  BY <1>2

(* the least of two, *)
LEMMA MinOfTwo ==
  ASSUME NEW a \in Int, NEW b \in Int
  PROVE  Min({a, b}) \in {a, b}
<1> DEFINE S == {a, b}
<1>1. \E x \in S : \A y \in S : x <= y
  OBVIOUS
<1>2. Min(S) \in S
  <2> HIDE DEF S
  <2> QED
    BY <1>1 DEF Min
<1> QED
  BY <1>2

(* and the greatest of three. *)
LEMMA MaxOfThree ==
  ASSUME NEW a \in Int, NEW b \in Int, NEW c \in Int
  PROVE  Max({a, b, c}) \in {a, b, c} /\ Max({a, b, c}) >= a /\ Max({a, b, c}) >= b
<1> DEFINE S == {a, b, c}
<1>1. \E x \in S : \A y \in S : x >= y
  OBVIOUS
<1>2. Max(S) \in S /\ \A y \in S : Max(S) >= y
  <2> HIDE DEF S
  <2> QED
    BY <1>1 DEF Max
<1> QED
  BY <1>2

(* The widest line has room. *)
LEMMA WidestLine ==
  ASSUME NEW lines \in LineRows
  PROVE  LET need == Max({LineWidth(lines, line) : line \in DOMAIN lines})
         IN  need \in Nat /\ \A l \in 1 .. Len(lines) : LineWidth(lines, l) <= need
<1> DEFINE n == Len(lines)
           w == [l \in 1 .. n |-> LineWidth(lines, l)]
           S == {LineWidth(lines, line) : line \in DOMAIN lines}
           T == Numbers(0, w, n)
<1>1. n \in Nat /\ n >= 1 /\ DOMAIN lines = 1 .. n
  BY DEF LineRows
<1>2. \A l \in 1 .. n : LineWidth(lines, l) \in Nat /\ w[l] = LineWidth(lines, l)
  BY LineWidthIs
<1>3. \A l \in 1 .. n : w[l] \in Int /\ w[l] \in Nat
  BY <1>2
<1>4. S = {w[l] : l \in 1 .. n}
  BY <1>1, <1>2
<1> HIDE DEF w, n, S
<1>5. T = {0} \union S
  BY <1>4 DEF Numbers
<1>6. Max(T) \in T /\ \A x \in T : x <= Max(T)
  BY <1>1, <1>3, RowMax
<1> HIDE DEF T
<1>7. 1 \in 1 .. n
  BY <1>1
<1>8. w[1] \in S /\ \A x \in S : x \in Nat
  BY <1>3, <1>4, <1>7
<1>9. \E x \in S : \A y \in S : x >= y
  <2>1. CASE Max(T) \in S
    <3>1. \A y \in S : y <= Max(T)
      BY <1>5, <1>6
    <3>2. \A y \in S : Max(T) >= y
      BY <1>8, <2>1, <3>1
    <3> QED
      BY <2>1, <3>2
  <2>2. CASE Max(T) = 0
    <3>1. \A y \in S : y <= 0 /\ y \in Nat
      BY <1>5, <1>6, <1>8, <2>2
    <3>2. \A y \in S : y = 0
      BY <3>1
    <3> QED
      BY <1>8, <3>2
  <2> QED
    BY <1>5, <1>6, <2>1, <2>2
<1>10. Max(S) \in S /\ \A y \in S : Max(S) >= y
  BY <1>9 DEF Max
<1>11. Max(S) \in Nat /\ \A l \in 1 .. n : w[l] <= Max(S)
  <2>1. Max(S) \in Nat
    BY <1>8, <1>10
  <2>2. \A l \in 1 .. n : Max(S) >= w[l] /\ w[l] \in Nat
    BY <1>3, <1>4, <1>10
  <2> QED
    BY <2>1, <2>2
<1> QED
  BY <1>2, <1>11 DEF S, n

(* A line of one node is as wide as the node. *)
LEMMA AloneIs ==
  ASSUME NEW t \in Trees
  PROVE  <<t>> \in Seq(Trees) /\ Len(<<t>>) = 1 /\ <<t>>[1] = t /\ WidthOf(<<t>>) = Measure(t) /\ Before(<<t>>, 1) = 0
<1> DEFINE s == <<t>>
<1>1. s \in Seq(Trees) /\ Len(s) = 1 /\ s[1] = t
  OBVIOUS
<1> HIDE DEF s
<1>2. \A k \in 1 .. Len(s) : s[k] = t /\ k = 1
  BY <1>1
<1>3. Measure(t) \in Nat
  BY MeasureUnfolds
<1>4. \A k \in 1 .. Len(s) : Measure(s[k]) \in Nat
  BY <1>2, <1>3
<1>5. 1 \in 1 .. Len(s)
  BY <1>1
<1>6. Before(s, 1) = 0 /\ Before(s, 1 + 1) = Before(s, 1) + Measure(s[1]) /\ WidthOf(s) = Before(s, Len(s) + 1)
  BY <1>1, <1>4, <1>5, RowEdges
<1>7. WidthOf(s) = Measure(t)
  <2>1. Len(s) + 1 = 1 + 1
    BY <1>1
  <2> QED
    BY <1>1, <1>3, <1>6, <2>1
<1> QED
  BY <1>1, <1>6, <1>7 DEF s

(* A line of all the nodes. *)
LEMMA OneLineIs ==
  ASSUME NEW lines, NEW kids \in Seq(Trees), NEW line, NEW pos, Laid(lines, kids, Len(kids), line, pos),
         Len(lines) = 1
  PROVE  lines[1] = kids
<1> DEFINE m == Len(kids)
           s == lines[1]
<1>1. m \in Nat
  OBVIOUS
<1>2. lines \in Seq(Seq(Trees)) /\ 1 \in 1 .. Len(lines)
  BY DEF Laid, LineRows
<1>3. s \in Seq(Trees)
  <2> DEFINE T == Seq(Trees)
  <2>1. lines \in Seq(T)
    BY <1>2
  <2> HIDE DEF T
  <2>2. lines[1] \in T
    BY <1>2, <2>1
  <2> QED
    BY <2>2 DEF T
<1>4. Len(s) = m /\ \A k \in 1 .. m : pos[k] = k
  BY DEF Laid
<1>5. \A k \in 1 .. m : line[k] = 1
  <2> SUFFICES ASSUME NEW k \in 1 .. m PROVE line[k] = 1
    OBVIOUS
  <2>1. line[k] \in 1 .. 1
    BY DEF Laid, At
  <2> QED
    BY <2>1
<1>6. \A k \in 1 .. m : s[k] = kids[k]
  BY <1>4, <1>5 DEF Laid
<1> HIDE DEF s
<1>7. s = kids
  BY <1>3, <1>4, <1>6, SeqEqual
<1> QED
  BY <1>7 DEF s

(* The lines of a circuit: itself, or its children laid, with room *)
(* for each.                                                       *)
LEMMA LinesAre ==
  ASSUME NEW t, Wirable(t), NEW box \in Nat
  PROVE  \/ Lines(t, box) = <<<<t>>>> /\ Spread(<<<<t>>>>, Span(t, box))
         \/ /\ t.type = "and" /\ Spread(Lines(t, box), Span(t, box))
            /\ \E line, pos : Laid(Lines(t, box), t.children, Len(t.children), line, pos)
<1> DEFINE lines == Lines(t, box)
           span == Span(t, box)
           need == Max({LineWidth(lines, line) : line \in DOMAIN lines})
           nat == Natural(t)
           kids == t.children
<1>1. t \in Trees /\ IsGroup(t) /\ kids \in Seq(Trees)
  BY GroupCase DEF Wirable
<1>2. Measure(t) \in Nat /\ (t.type = "and" => Measure(t) = WidthOf(kids))
  BY <1>1, MeasureUnfolds
<1>3. nat \in Nat /\ nat = 78 + Measure(t) + CoilWidth /\ CoilWidth \in Nat
  BY <1>2, WidthsAssumption DEF Natural, LEAD, TAIL
<1>4. span = IF Len(lines) > 1 THEN Max({box, need, Min({box, need + 400})}) ELSE Max({box, nat})
  BY DEF Span
<1>5. ASSUME lines \in LineRows, Len(lines) = 1 => WidthOf(lines[1]) = Measure(t)
      PROVE  Spread(lines, span)
  <2>1. Len(lines) \in Nat /\ Len(lines) >= 1
    BY <1>5 DEF LineRows
  <2>2. CASE Len(lines) > 1
    <3>1. need \in Nat /\ \A l \in 1 .. Len(lines) : LineWidth(lines, l) <= need
      BY <1>5, WidestLine
    <3>2. \A l \in 1 .. Len(lines) : LineWidth(lines, l) \in Nat
      BY <1>5, LineWidthIs
    <3> DEFINE c == Min({box, need + 400})
    <3>3. span = Max({box, need, c})
      BY <1>4, <2>2
    <3> HIDE DEF need, span, lines
    <3>4. need + 400 \in Int
      BY <3>1
    <3>5. c \in {box, need + 400}
      BY <3>4, MinOfTwo
    <3>6. c \in Nat
      BY <3>1, <3>5
    <3> HIDE DEF c
    <3>7. span \in {box, need, c} /\ span >= need
      BY <3>1, <3>3, <3>6, MaxOfThree
    <3>8. span \in Nat
      BY <3>1, <3>6, <3>7
    <3>9. \A l \in 1 .. Len(lines) : LineWidth(lines, l) <= span
      BY <3>1, <3>2, <3>7, <3>8
    <3> QED
      BY <1>5, <3>8, <3>9 DEF Spread
  <2>3. CASE Len(lines) = 1
    <3>1. span = Max({box, nat})
      BY <1>4, <2>3
    <3> HIDE DEF span, lines, nat
    <3>2. span \in {box, nat} /\ span >= nat
      <4>1. box \in Int /\ nat \in Int
        BY <1>3
      <4> QED
        BY <3>1, <4>1, MaxOfTwo
    <3>3. span \in Nat
      BY <1>3, <3>2
    <3>4. 1 \in 1 .. Len(lines) /\ \A l \in 1 .. Len(lines) : l = 1
      BY <2>3
    <3>5. LineWidth(lines, 1) = Start(1) + WidthOf(lines[1]) + 56 + CoilWidth
      BY <1>5, <2>3, <3>4, LineWidthIs
    <3>6. Start(1) = 22
      BY DEF Start, LEAD
    <3>7. LineWidth(lines, 1) = nat
      BY <1>2, <1>3, <1>5, <2>3, <3>5, <3>6
    <3>8. nat <= span
      BY <1>3, <3>2, <3>3
    <3> QED
      BY <1>5, <3>3, <3>4, <3>7, <3>8 DEF Spread
  <2>4. Len(lines) > 1 \/ Len(lines) = 1
    <3> HIDE DEF lines
    <3> QED
      BY <2>1
  <2> QED
    BY <2>2, <2>3, <2>4
<1>6. CASE Folds(t, box)
  <2> DEFINE budget == box - LEAD - TAIL - 2 * MARKER - 24
  <2>1. t.type = "and" /\ lines = WithRoom(Packed(kids, budget), budget)
    BY <1>6 DEF Folds, Lines
  <2>2. PICK line, pos : Laid(WithRoom(Packed(kids, budget), budget), kids, Len(kids), line, pos)
    <3> HIDE DEF budget
    <3> QED
      BY <1>1, LinesLaid
  <2>3. Laid(lines, kids, Len(kids), line, pos)
    BY <2>1, <2>2
  <2> HIDE DEF lines, budget
  <2>4. lines \in LineRows
    BY <2>3 DEF Laid
  <2>5. Len(lines) = 1 => WidthOf(lines[1]) = Measure(t)
    <3>1. Len(lines) = 1 => lines[1] = kids
      BY <1>1, <2>3, OneLineIs
    <3> QED
      BY <1>2, <2>1, <3>1
  <2>6. Spread(lines, span)
    BY <1>5, <2>4, <2>5
  <2> QED
    BY <2>1, <2>3, <2>6 DEF lines
<1>7. CASE ~Folds(t, box)
  <2>1. lines = <<<<t>>>>
    BY <1>7 DEF Lines
  <2>2. <<t>> \in Seq(Trees) /\ WidthOf(<<t>>) = Measure(t)
    BY <1>1, AloneIs
  <2> HIDE DEF lines
  <2> DEFINE T == Seq(Trees)
             one == <<t>>
  <2>3. lines = <<one>> /\ one \in T
    BY <2>1, <2>2
  <2> HIDE DEF one, T
  <2>4. lines \in Seq(T) /\ Len(lines) = 1 /\ lines[1] = one
    BY <2>3
  <2>5. lines \in LineRows /\ WidthOf(lines[1]) = Measure(t)
    BY <2>2, <2>4 DEF LineRows, T, one
  <2>6. Spread(lines, span)
    BY <1>5, <2>5
  <2> QED
    BY <2>1, <2>6 DEF lines
<1> QED
  BY <1>6, <1>7

------------------------------------------------------------------------------
(* The whole drawing. *)

DrawingIn(lines, span) ==
  UNION {UNION {Draw(lines[line][k], LeftAt(lines, span, line, k)) : k \in DOMAIN lines[line]} :
            line \in DOMAIN lines}

(* What is drawn is drawn at some place of some line. *)
LEMMA DrawingHas ==
  ASSUME NEW lines \in LineRows, NEW span
  PROVE  \A d : d \in DrawingIn(lines, span) <=>
                   \E l, p : At(lines, l, p) /\ d \in Draw(lines[l][p], LeftAt(lines, span, l, p))
<1>1. DOMAIN lines = 1 .. Len(lines)
  BY DEF LineRows
<1>2. \A l \in 1 .. Len(lines) : DOMAIN lines[l] = 1 .. Len(lines[l])
  <2> SUFFICES ASSUME NEW l \in 1 .. Len(lines) PROVE DOMAIN lines[l] = 1 .. Len(lines[l])
    OBVIOUS
  <2>1. lines[l] \in Seq(Trees)
    BY LineWidthIs
  <2> QED
    BY <2>1
<1>3. \A l, p : At(lines, l, p) <=> l \in DOMAIN lines /\ p \in DOMAIN lines[l]
  BY <1>1, <1>2 DEF At
<1> QED
  BY <1>3 DEF DrawingIn

(* What is drawn in a stretch is drawn in a longer one. *)
LEMMA DrawnWider ==
  ASSUME NEW D, NEW t, NEW from \in Int, NEW to \in Int, Drawn(D, t, from, to),
         NEW low \in Int, NEW high \in Int, low <= from, to <= high
  PROVE  Drawn(D, t, low, high)
<1>1. \A d \in D : d.gx \in Int
  BY DEF Drawn, Spots
<1>2. \A d \in D : low + 52 <= d.gx /\ d.gx + 52 <= high
  BY <1>1 DEF Drawn
<1> QED
  BY <1>2 DEF Drawn

(* Folded: the root's children are drawn where they are laid. *)
LEMMA FoldedDrawn ==
  ASSUME NEW t, Wirable(t), t.type = "and", NEW lines, NEW span, Spread(lines, span),
         NEW line, NEW pos, Laid(lines, t.children, Len(t.children), line, pos)
  PROVE  Drawn(DrawingIn(lines, span), t, 0, EndAt(lines, span))
<1> DEFINE kids == t.children
           m == Len(kids)
           lefts == [k \in 1 .. m |-> LeftAt(lines, span, line[k], pos[k])]
           rights == [k \in 1 .. m |-> RightAt(lines, span, line[k], pos[k])]
           D == [k \in 1 .. m |-> Draw(kids[k], lefts[k])]
           to == EndAt(lines, span)
<1>1. t \in Trees /\ IsGroup(t) /\ GatesDiffer(t)
  BY DEF Wirable
<1>2. DOMAIN kids = 1 .. m /\ \A k \in 1 .. m : kids[k] \in Trees
  BY <1>1, GroupIs DEF IsRow
<1>3. \A k \in 1 .. m : GatesDiffer(kids[k])
  BY <1>1, <1>2, GroupIs DEF RowDiffers
<1>4. lines \in LineRows
  BY DEF Spread
<1>5. \A k \in 1 .. m : At(lines, line[k], pos[k]) /\ lines[line[k]][pos[k]] = kids[k]
  BY DEF Laid
<1>6. \A l, p : At(lines, l, p) => \E k \in 1 .. m : line[k] = l /\ pos[k] = p
  BY DEF Laid
<1>7. \A j, k \in 1 .. m : j < k => line[j] < line[k] \/ (line[j] = line[k] /\ pos[j] < pos[k])
  BY DEF Laid
<1>8. \A k \in 1 .. m : /\ lefts[k] = LeftAt(lines, span, line[k], pos[k])
                        /\ rights[k] = RightAt(lines, span, line[k], pos[k])
                        /\ D[k] = Draw(kids[k], lefts[k])
  OBVIOUS
<1>9. DOMAIN D = 1 .. m
  OBVIOUS
<1> HIDE DEF m, kids, lefts, rights, D, to
<1>10. to \in Int
  BY LinesInOrder DEF to
<1>11. \A k \in 1 .. m : lefts[k] \in Int /\ rights[k] \in Int /\ 0 <= lefts[k] /\ rights[k] <= to
  BY <1>5, <1>8, LinesInOrder DEF to
<1>12. \A j, k \in 1 .. m : j < k => rights[j] <= lefts[k]
  BY <1>5, <1>7, <1>8, LinesInOrder
<1>13. ASSUME NEW k \in 1 .. m PROVE Drawn(D[k], kids[k], lefts[k], rights[k])
  <2>1. rights[k] = lefts[k] + Measure(kids[k])
    BY <1>5, <1>8 DEF RightAt
  <2>2. Drawn(Draw(kids[k], lefts[k]), kids[k], lefts[k], lefts[k] + Measure(kids[k]))
    BY <1>2, <1>3, <1>11, DrawIs
  <2> QED
    BY <1>8, <2>1, <2>2
<1>14. InStretch(t, D, lefts, rights, 0, to)
  BY <1>2, <1>10, <1>11, <1>12, <1>13 DEF InStretch, kids
<1>15. Drawn(AllDrawn(t, D), t, 0, to)
  BY <1>1, <1>14, RowDrawn
<1>16. AllDrawn(t, D) = DrawingIn(lines, span)
  <2>1. \A d : d \in AllDrawn(t, D) <=> \E k \in 1 .. m : d \in D[k]
    BY <1>2 DEF AllDrawn, kids
  <2>2. \A k \in 1 .. m : D[k] = Draw(lines[line[k]][pos[k]], LeftAt(lines, span, line[k], pos[k]))
    BY <1>5, <1>8
  <2>3. ASSUME NEW d, d \in AllDrawn(t, D) PROVE d \in DrawingIn(lines, span)
    <3>1. PICK k \in 1 .. m : d \in D[k]
      BY <2>1, <2>3
    <3>2. At(lines, line[k], pos[k]) /\ d \in Draw(lines[line[k]][pos[k]], LeftAt(lines, span, line[k], pos[k]))
      BY <1>5, <2>2, <3>1
    <3> QED
      BY <1>4, <3>2, DrawingHas
  <2>4. ASSUME NEW d, d \in DrawingIn(lines, span) PROVE d \in AllDrawn(t, D)
    <3>1. PICK l, p : At(lines, l, p) /\ d \in Draw(lines[l][p], LeftAt(lines, span, l, p))
      BY <1>4, <2>4, DrawingHas
    <3>2. PICK k \in 1 .. m : line[k] = l /\ pos[k] = p
      BY <1>6, <3>1
    <3>3. d \in D[k]
      BY <2>2, <3>1, <3>2
    <3> QED
      BY <2>1, <3>3
  <2> QED
    BY <2>3, <2>4
<1> QED
  BY <1>15, <1>16 DEF to

(* Not folded: the root is one line. *)
LEMMA UnfoldedDrawn ==
  ASSUME NEW t, Wirable(t), NEW span, Spread(<<<<t>>>>, span)
  PROVE  Drawn(DrawingIn(<<<<t>>>>, span), t, 0, EndAt(<<<<t>>>>, span))
<1> DEFINE lines == <<<<t>>>>
           one == <<t>>
           from == LeftAt(lines, span, 1, 1)
           to == EndAt(lines, span)
<1>1. t \in Trees /\ GatesDiffer(t)
  BY DEF Wirable
<1>2. one \in Seq(Trees) /\ Len(one) = 1 /\ one[1] = t
  BY <1>1, AloneIs
<1>3. lines = <<one>>
  OBVIOUS
<1>4. lines \in LineRows /\ Spread(lines, span)
  BY DEF Spread
<1> HIDE DEF lines, one
<1>5. Len(lines) = 1 /\ lines[1] = one
  BY <1>3
<1>6. \A l, p : At(lines, l, p) <=> l = 1 /\ p = 1
  <2> SUFFICES ASSUME NEW l, NEW p PROVE At(lines, l, p) <=> l = 1 /\ p = 1
    OBVIOUS
  <2>1. l \in 1 .. 1 <=> l = 1
    OBVIOUS
  <2>2. p \in 1 .. 1 <=> p = 1
    OBVIOUS
  <2> QED
    BY <1>2, <1>5, <2>1, <2>2 DEF At
<1>7. /\ to \in Int /\ from \in Int /\ 0 <= from
      /\ RightAt(lines, span, 1, 1) \in Int /\ RightAt(lines, span, 1, 1) <= to
  BY <1>4, <1>6, LinesInOrder
<1>8. RightAt(lines, span, 1, 1) = from + Measure(t)
  BY <1>2, <1>5 DEF RightAt
<1> HIDE DEF from, to
<1>9. Drawn(Draw(t, from), t, from, from + Measure(t))
  BY <1>1, <1>7, DrawIs
<1>10. Drawn(Draw(t, from), t, 0, to)
  <2>1. from + Measure(t) \in Int /\ from + Measure(t) <= to
    BY <1>7, <1>8
  <2> QED
    BY <1>7, <1>9, <2>1, DrawnWider
<1>11. DrawingIn(lines, span) = Draw(t, from)
  <2>1. \A d : d \in DrawingIn(lines, span) <=> d \in Draw(lines[1][1], LeftAt(lines, span, 1, 1))
    BY <1>4, <1>6, DrawingHas
  <2>2. lines[1][1] = t
    BY <1>2, <1>5
  <2> QED
    BY <2>1, <2>2 DEF from
<1> QED
  BY <1>10, <1>11 DEF lines, to

(* The gates of series are in order along the wire, before the coil. *)
LEMMA CircuitDrawn ==
  ASSUME NEW t, Wirable(t), NEW box \in Nat
  PROVE  Drawn(DrawingIn(Lines(t, box), Span(t, box)), t, 0, CoilPlace(t, box))
<1>1. CoilPlace(t, box) = EndAt(Lines(t, box), Span(t, box))
  BY DEF CoilPlace, EndAt
<1>2. CASE Lines(t, box) = <<<<t>>>> /\ Spread(<<<<t>>>>, Span(t, box))
  BY <1>1, <1>2, UnfoldedDrawn
<1>3. CASE /\ t.type = "and" /\ Spread(Lines(t, box), Span(t, box))
           /\ \E line, pos : Laid(Lines(t, box), t.children, Len(t.children), line, pos)
  <2>1. PICK line, pos : Laid(Lines(t, box), t.children, Len(t.children), line, pos)
    BY <1>3
  <2> QED
    BY <1>1, <1>3, <2>1, FoldedDrawn
<1> QED
  BY <1>2, <1>3, LinesAre

(* The places of gates in series are in order, and before the coil. *)
LEMMA PlacesAre ==
  ASSUME NEW t, Wirable(t), NEW box \in Nat
  PROVE  /\ CoilPlace(t, box) \in Int
         /\ \A a \in GatesOf(t) : Places(t, box)[a] \in Int /\ Places(t, box)[a] + 52 <= CoilPlace(t, box)
         /\ \A a, b \in GatesOf(t) : Series(t, a, b) => Places(t, box)[a] + 104 <= Places(t, box)[b]
<1> DEFINE lines == Lines(t, box)
           span == Span(t, box)
           drawn == DrawingIn(lines, span)
           places == Places(t, box)
           coil == CoilPlace(t, box)
<1>1. Drawn(drawn, t, 0, coil)
  BY CircuitDrawn
<1>2. \A a \in GatesOf(t) : places[a] = (CHOOSE d \in drawn : d.id = a).gx
  BY DEF Places, DrawingIn, LeftAt
<1>3. coil \in Int
  <2>1. coil = EndAt(lines, span)
    BY DEF CoilPlace, EndAt
  <2>2. Spread(lines, span)
    BY LinesAre
  <2> QED
    BY <2>1, <2>2, LinesInOrder
<1> HIDE DEF lines, span, drawn, places, coil
<1>4. ASSUME NEW a \in GatesOf(t) PROVE \E d \in drawn : d.id = a /\ d.gx = places[a]
  <2>1. PICK d \in drawn : d.id = a
    BY <1>1 DEF Drawn
  <2>2. (CHOOSE e \in drawn : e.id = a) \in drawn /\ (CHOOSE e \in drawn : e.id = a).id = a
    BY <2>1
  <2> QED
    BY <1>2, <2>2
<1>5. ASSUME NEW a \in GatesOf(t) PROVE places[a] \in Int /\ places[a] + 52 <= coil
  <2>1. PICK d \in drawn : d.id = a /\ d.gx = places[a]
    BY <1>4
  <2>2. d \in Spots /\ d.gx + 52 <= coil
    BY <1>1 DEF Drawn
  <2> QED
    BY <2>1, <2>2 DEF Spots
<1>6. ASSUME NEW a \in GatesOf(t), NEW b \in GatesOf(t), Series(t, a, b) PROVE places[a] + 104 <= places[b]
  <2>1. PICK d \in drawn : d.id = a /\ d.gx = places[a]
    BY <1>4
  <2>2. PICK e \in drawn : e.id = b /\ e.gx = places[b]
    BY <1>4
  <2>3. Series(t, d.id, e.id)
    BY <1>6, <2>1, <2>2
  <2>4. d.gx + 104 <= e.gx
    BY <1>1, <2>3 DEF Drawn
  <2> QED
    BY <2>1, <2>2, <2>4
<1> QED
  BY <1>3, <1>5, <1>6 DEF places, coil

------------------------------------------------------------------------------
(* Power in order. *)

(* Power reaches a place after it has held on a live gate before the place. *)
LEMMA DelayGrows ==
  ASSUME NEW live, IsFiniteSet(live), NEW places, \A id \in live : places[id] \in Int,
         NEW a \in live, NEW there \in Int, places[a] + 52 <= there
  PROVE  DelayAt(places[a], places, live) + Hold < DelayAt(there, places, live)
<1> DEFINE A == {id \in live : places[id] < places[a] - 1}
           B == {id \in live : places[id] < there - 1}
           n == Cardinality(A)
           m == Cardinality(B)
<1>1. places[a] \in Int /\ Hold \in Nat
  BY WidthsAssumption
<1>2. A \subseteq live /\ B \subseteq live /\ a \notin A
  BY <1>1
<1>3. A \union {a} \subseteq B
  <2>1. a \in B
    BY <1>1
  <2>2. A \subseteq B
    BY <1>1
  <2> QED
    BY <2>1, <2>2
<1>4. DelayAt(places[a], places, live) = places[a] + Hold * n /\ DelayAt(there, places, live) = there + Hold * m
  BY DEF DelayAt
<1> HIDE DEF A, B
<1>5. IsFiniteSet(A) /\ IsFiniteSet(B)
  BY <1>2, FS_Subset
<1>6. Cardinality(A \union {a}) = n + 1 /\ IsFiniteSet(A \union {a})
  BY <1>2, <1>5, FS_AddElement
<1>7. Cardinality(A \union {a}) <= m
  BY <1>3, <1>5, FS_Subset
<1>8. n \in Nat /\ m \in Nat
  BY <1>5, FS_CardinalityType
<1> HIDE DEF n, m
<1> DEFINE d == m - n - 1
<1>9. d \in Nat /\ m = n + 1 + d
  BY <1>6, <1>7, <1>8
<1> HIDE DEF d
<1>10. d * Hold \in Nat
  BY <1>1, <1>9, OneByOne
<1>11. Hold * m = Hold * n + Hold + d * Hold
  BY <1>1, <1>8, <1>9
<1>12. Hold * n \in Nat
  BY <1>1, <1>8, OneByOne
<1> QED
  BY <1>1, <1>4, <1>10, <1>11, <1>12

(* The live gates are gates of the circuit. *)
LEMMA LiveIs ==
  ASSUME NEW t, Wirable(t), NEW live \in LiveSets(t)
  PROVE  live \subseteq GatesOf(t) /\ IsFiniteSet(live)
<1>1. PICK found \in [GatesOf(t) -> {"held", "open"}] : live = Live(t, found)
  BY DEF LiveSets
<1>2. \A id \in GatesOf(t) : found[id] \in Findings
  BY DEF Findings
<1>3. PowerTells(t, found, TRUE)
  BY <1>2, WalkTells DEF Wirable
<1>4. \A gate \in PowerPath(t, found).gates : gate.id \in GatesOf(t)
  BY <1>3 DEF PowerTells, PowerIs, PowerPath
<1>5. live \subseteq GatesOf(t)
  BY <1>1, <1>4 DEF Live
<1>6. IsFiniteSet(GatesOf(t))
  BY GatesFinite DEF Wirable
<1> QED
  BY <1>5, <1>6, FS_Subset

(* In every circuit of the invariant power arrives in order. *)
LEMMA PowerInOrderThen ==
  ASSUME CircuitInv
  PROVE  PowerInOrder
<1> SUFFICES ASSUME NEW box \in Boxes, NEW live \in LiveSets(circuit), NEW a \in live
             PROVE  LET places == Places(circuit, box)
                        reached == [id \in live |-> DelayAt(places[id], places, live)]
                        inSeries == {pair \in GatesOf(circuit) \X GatesOf(circuit) : Series(circuit, pair[1], pair[2])}
                    IN  /\ \A b \in live : <<a, b>> \in inSeries => reached[a] + Hold < reached[b]
                        /\ reached[a] + Hold < DelayAt(CoilPlace(circuit, box), places, live)
  BY DEF PowerInOrder
<1> DEFINE places == Places(circuit, box)
           coil == CoilPlace(circuit, box)
<1>1. Wirable(circuit) /\ box \in Nat
  BY BoxesAssumption DEF CircuitInv, Wirable
<1>2. live \subseteq GatesOf(circuit) /\ IsFiniteSet(live)
  BY <1>1, LiveIs
<1>3. /\ coil \in Int
      /\ \A x \in GatesOf(circuit) : places[x] \in Int /\ places[x] + 52 <= coil
      /\ \A x, y \in GatesOf(circuit) : Series(circuit, x, y) => places[x] + 104 <= places[y]
  BY <1>1, PlacesAre
<1> HIDE DEF places, coil
<1>4. \A id \in live : places[id] \in Int
  BY <1>2, <1>3
<1>5. places[a] + 52 <= coil
  BY <1>2, <1>3
<1>6. DelayAt(places[a], places, live) + Hold < DelayAt(coil, places, live)
  BY <1>2, <1>3, <1>4, <1>5, DelayGrows
<1>7. ASSUME NEW b \in live, Series(circuit, a, b)
      PROVE  DelayAt(places[a], places, live) + Hold < DelayAt(places[b], places, live)
  <2>1. places[a] + 104 <= places[b]
    BY <1>2, <1>3, <1>7
  <2>2. places[a] \in Int /\ places[b] \in Int
    BY <1>4
  <2>3. places[a] + 52 <= places[b]
    BY <2>1, <2>2
  <2> QED
    BY <1>2, <1>4, <2>2, <2>3, DelayGrows
<1> QED
  BY <1>6, <1>7 DEF places, coil

(* A drawing at any width lets power through a live gate, and holds it there, *)
(* before it reaches a live gate further on in series and before it reaches   *)
(* the coil: whatever the gates, their widths and the edits were, and however *)
(* the lines are folded.                                                      *)
THEOREM PowerArrivesInOrder == EditSpec => []PowerInOrder
<1>1. CircuitInv => PowerInOrder
  BY PowerInOrderThen
<1> QED
  BY <1>1, CircuitsStayWired, PTL
=============================================================================
