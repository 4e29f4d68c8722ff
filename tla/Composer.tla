------------------------------ MODULE Composer ------------------------------
(***************************************************************************)
(* The composer sheet over the shell's circuits: a new circuit's, or that   *)
(* of one the server has.  Its calls, to load the circuit, wire a sentence, *)
(* backtest the draft and save it, are asked and land in steps of their     *)
(* own, in any order, and what the sheet had asked for is not looked at     *)
(* once it is gone, but for a save.                                         *)
(*                                                                         *)
(* A condition is whole: CircuitEdits has its edits.  An effect runs with   *)
(* the event that changes what it depends on.                               *)
(***************************************************************************)
EXTENDS CircuitList, FiniteSets

CONSTANTS
    Complete,     \* conditions that can be backtested and saved
    Incomplete,   \* conditions with a gate that lacks its value
    Sentences, First, \* what a user describes, and what a new circuit starts with
    Proposed,     \* the condition proposed for each sentence, if it is understood
    MaxWires,     \* how many sentences are being wired at once at most
    MaxSaves      \* how many saves are under way at once at most

ASSUME ComposerAssumption ==
    /\ First \in Sentences
    /\ Proposed \in [Sentences -> Complete \union {None}]

VARIABLES
    stored,    \* the circuit's condition, as the server has it
    sheet,     \* the sheet shown: another, a new circuit's composer or that of the circuit
    load,      \* how the circuit's load is going, and its answer once there is one
    draft,     \* the draft's condition: none when the sentence was not understood
    wiring,    \* how the wiring shows
    wires,     \* the sentences being wired
    backtest,  \* what was backtested, and how the backtest shows
    tests,     \* the backtests waited for: conditions and whether the timer has fired
    saving,    \* how the save shows
    saves,     \* saves under way
    touched    \* history: the circuit's draft was edited here, or asked to be wired

composeVars == <<load, draft, wiring, wires, backtest, tests, saving, touched>>
vars == <<listVars, stored, sheet, composeVars, saves>>

Conditions == Complete \union Incomplete

(* There is a draft once the circuit has loaded; a new circuit's at once. *)
Drafted == sheet = "new" \/ (sheet = "edit" /\ load.is = "loaded")

------------------------------------------------------------------------------
(* The draft, and the backtest's effect. *)

IdleBacktest == [status |-> "idle", of |-> None]

(* What the effect depends on: the condition, if it can be backtested. *)
ConditionKey(condition) == IF condition \in Complete THEN condition ELSE None

(* Mutant: a backtest for another condition is still waited for. *)
AllWaitedFor(waited) == waited

(* The effect's cleanup: timer and answer are let go. *)
Waited(waited) == {}

(* The effect runs: it asks for nothing when there is nothing to test. *)
RunBacktest(condition) ==
    IF ConditionKey(condition) = None
    THEN tests' = Waited(tests) /\ UNCHANGED backtest
    ELSE /\ tests' = Waited(tests) \union {[of |-> condition, step |-> "timer"]}
         /\ backtest' = [backtest EXCEPT !.status = "loading"]

(* The draft's condition changes, and with it what the effect depends on. *)
SetDraft(condition) ==
    /\ draft' = condition
    /\ IF ConditionKey(condition) = ConditionKey(draft)
       THEN UNCHANGED <<backtest, tests>>
       ELSE RunBacktest(condition)

(* The backtest that is of the draft as it stands: its first match lights it. *)
Fresh(tested, condition) == IF tested = ConditionKey(condition) THEN tested ELSE None

------------------------------------------------------------------------------
(* Sheets. *)

(* Mutant: the next composer is the same one, and looks at the same calls. *)
StillLive(calls) == calls

(* What a sheet that is gone had asked for. *)
Unmounted(calls) == {}

LoadingCircuit == [is |-> "loading"]

Blank(asked) ==
    /\ load' = LoadingCircuit
    /\ draft' = None
    /\ backtest' = IdleBacktest /\ tests' = Unmounted(tests)
    /\ saving' = "idle"
    /\ touched' = FALSE
    /\ wires' = Unmounted(wires) \union asked
    /\ wiring' = IF asked = {} THEN "idle" ELSE "loading"

(* A sheet is gone, and what it had in hand with it, but for its saves. *)
Mount(next, remaining) ==
    /\ sheet' = next
    /\ saves' = {[save EXCEPT !.here = FALSE] : save \in remaining}
    /\ onList' = (next = "circuits")
    /\ busy' = None
    /\ Blank(IF next = "new" THEN {First} ELSE {})

GoTo(next) ==
    /\ next # sheet
    /\ Mount(next, saves)
    /\ UNCHANGED <<written, rules, lists, toggles, lost, stored>>

------------------------------------------------------------------------------
(* The circuit is loaded. *)

AnswerLoad ==
    /\ sheet = "edit" /\ load = LoadingCircuit
    /\ load' = [is |-> "answered", condition |-> stored]
    /\ UNCHANGED <<listVars, stored, sheet, draft, wiring, wires, backtest, tests, saving, saves, touched>>

(* Answered, and its tokens known. *)
LandLoad ==
    /\ sheet = "edit" /\ load.is = "answered"
    /\ load' = [load EXCEPT !.is = "loaded"]
    /\ SetDraft(load.condition)
    /\ UNCHANGED <<listVars, stored, sheet, wiring, wires, saving, saves, touched>>

FailLoad ==
    /\ sheet = "edit" /\ load.is \in {"loading", "answered"}
    /\ load' = [is |-> "error"]
    /\ UNCHANGED <<listVars, stored, sheet, draft, wiring, wires, backtest, tests, saving, saves, touched>>

RetryLoad ==
    /\ sheet = "edit" /\ load.is = "error"
    /\ load' = LoadingCircuit
    /\ UNCHANGED <<listVars, stored, sheet, draft, wiring, wires, backtest, tests, saving, saves, touched>>

------------------------------------------------------------------------------
(* A sentence is wired. *)

(* By the form, which waits for one at a time, or an example or a Retry, *)
(* which do not.                                                          *)
Wire(sentence) ==
    /\ Drafted
    /\ sentence \notin wires /\ Cardinality(wires) < MaxWires
    /\ wires' = wires \union {sentence}
    /\ wiring' = "loading"
    /\ touched' = (sheet = "edit")
    /\ UNCHANGED <<listVars, stored, sheet, load, draft, backtest, tests, saving, saves>>

(* Understood or not, the draft is this sentence's now. *)
LandWire(sentence) ==
    /\ sentence \in wires
    /\ wires' = wires \ {sentence}
    /\ wiring' = "idle"
    /\ IF Drafted
       THEN SetDraft(Proposed[sentence])
       ELSE UNCHANGED <<draft, backtest, tests>>
    /\ UNCHANGED <<listVars, stored, sheet, load, saving, saves, touched>>

FailWire(sentence) ==
    /\ sentence \in wires
    /\ wires' = wires \ {sentence}
    /\ wiring' = "error"
    /\ UNCHANGED <<listVars, stored, sheet, load, draft, backtest, tests, saving, saves, touched>>

(* A gate is changed, added or removed. *)
Edit(condition) ==
    /\ Drafted /\ draft # None
    /\ condition # draft
    /\ SetDraft(condition)
    /\ touched' = (sheet = "edit")
    /\ UNCHANGED <<listVars, stored, sheet, load, wiring, wires, saving, saves>>

------------------------------------------------------------------------------
(* The draft is backtested. *)

FireTimer(test) ==
    /\ test \in tests /\ test.step = "timer"
    /\ tests' = (tests \ {test}) \union {[test EXCEPT !.step = "asked"]}
    /\ UNCHANGED <<listVars, stored, sheet, load, draft, wiring, wires, backtest, saving, saves, touched>>

LandTest(test) ==
    /\ test \in tests /\ test.step = "asked"
    /\ tests' = tests \ {test}
    /\ backtest' = [status |-> "idle", of |-> test.of]
    /\ UNCHANGED <<listVars, stored, sheet, load, draft, wiring, wires, saving, saves, touched>>

FailTest(test) ==
    /\ test \in tests /\ test.step = "asked"
    /\ tests' = tests \ {test}
    /\ backtest' = [status |-> "error", of |-> None]
    /\ UNCHANGED <<listVars, stored, sheet, load, draft, wiring, wires, saving, saves, touched>>

RetryTest ==
    /\ Drafted /\ draft \in Complete /\ backtest.status = "error"
    /\ RunBacktest(draft)
    /\ UNCHANGED <<listVars, stored, sheet, load, draft, wiring, wires, saving, saves, touched>>

------------------------------------------------------------------------------
(* The draft is saved. *)

CanSave == Drafted /\ draft \in Complete /\ saving # "loading"

(* What is saved is the draft as it stands, whatever becomes of it meanwhile. *)
Save ==
    /\ CanSave
    /\ Cardinality(saves) < MaxSaves
    /\ saving' = "loading"
    /\ saves' = saves \union {[for |-> sheet, condition |-> draft, step |-> "asked", here |-> TRUE]}
    /\ UNCHANGED <<listVars, stored, sheet, load, draft, wiring, wires, backtest, tests, touched>>

CarryOutSave(save) ==
    /\ save \in saves /\ save.step = "asked"
    /\ Write
    /\ stored' = IF save.for = "edit" THEN save.condition ELSE stored
    /\ saves' = (saves \ {save}) \union {[save EXCEPT !.step = "done"]}
    /\ UNCHANGED <<rules, lists, onList, busy, toggles, lost, sheet, composeVars>>

(* The circuits are loaded afresh, and the journal is shown, though the user *)
(* may have gone elsewhere since.                                             *)
LandSave(save) ==
    /\ save \in saves /\ save.step = "done"
    /\ Refresh
    /\ Mount("journal", saves \ {save})
    /\ UNCHANGED <<written, toggles, stored>>

FailSave(save) ==
    /\ save \in saves
    /\ saves' = saves \ {save}
    /\ lost' = (lost \/ save.step = "done")
    /\ saving' = IF save.here THEN "error" ELSE saving
    /\ UNCHANGED <<written, rules, lists, onList, busy, toggles, stored, sheet,
                   load, draft, wiring, wires, backtest, tests, touched>>

------------------------------------------------------------------------------
Init ==
    /\ ListInit
    /\ stored \in Complete
    /\ sheet \in {IF onList THEN "circuits" ELSE "journal"}
    /\ load = LoadingCircuit /\ draft = None /\ touched = FALSE
    /\ wiring = "idle" /\ wires = {}
    /\ backtest = IdleBacktest /\ tests = {}
    /\ saving = "idle" /\ saves = {}

ComposerStep ==
    \/ \E next \in {"journal", "circuits", "new", "edit"} : GoTo(next)
    \/ AnswerLoad \/ LandLoad \/ FailLoad \/ RetryLoad
    \/ \E sentence \in Sentences : Wire(sentence) \/ LandWire(sentence) \/ FailWire(sentence)
    \/ \E condition \in Conditions : Edit(condition)
    \/ \E test \in tests : FireTimer(test) \/ LandTest(test) \/ FailTest(test)
    \/ RetryTest \/ Save
    \/ \E save \in saves : CarryOutSave(save) \/ LandSave(save) \/ FailSave(save)

Next ==
    \/ ComposerStep
    \/ ListStep /\ UNCHANGED <<stored, sheet, composeVars, saves>>

(* The timer fires and a backtest is answered, or fails, in the end; the user *)
(* does as they please, and the other calls may take for ever.                 *)
Spec ==
    /\ Init /\ [][Next]_vars
    /\ WF_vars(\E test \in tests : FireTimer(test))
    /\ WF_vars(\E test \in tests : LandTest(test) \/ FailTest(test))

------------------------------------------------------------------------------
(* "A fresh composer per circuit, so moving between two edits never carries a *)
(* draft over": until it is wired or edited here, an edited circuit's draft   *)
(* is what the server answered for it, whatever was being wired, loaded or    *)
(* saved on the sheets before.                                                *)
NothingCarriedOver ==
    sheet = "edit" /\ Drafted /\ ~touched => draft = load.condition

(* A draft that stays as it is has its own backtest shown in the end, or its *)
(* failure, however often it changed and changed back while backtests of it  *)
(* and of others were waited for.                                             *)
BacktestSettles ==
    \A condition \in Complete :
        Drafted /\ draft = condition
            ~> \/ ~Drafted \/ draft # condition
               \/ Fresh(backtest.of, draft) = condition \/ backtest.status = "error"

(* With nothing under way, the circuits shown are those the server has: no   *)
(* load asked for before a write was carried out lands after the one that    *)
(* the write's answer asks for.  A write that was carried out but failed to   *)
(* answer is not known of, and is left out until the circuits are loaded.     *)
QuietShowsSaved ==
    /\ saves = {} /\ \A slot \in Slots : toggles[slot] = "none"
    /\ lists = {} /\ rules.status = "ready" /\ ~lost
    => rules.data = written
=============================================================================
