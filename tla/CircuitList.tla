----------------------------- MODULE CircuitList -----------------------------
(***************************************************************************)
(* The circuits as the console's shell holds them, and the switches of the  *)
(* circuits sheet.  The server's circuits are told apart by how often they  *)
(* were written; only this tab writes them.  A request is asked, is         *)
(* answered by the server and lands in steps of their own; one that fails   *)
(* may have been carried out all the same.                                  *)
(***************************************************************************)
EXTENDS Naturals

CONSTANTS
    None,        \* no data, no request
    MaxWritten,  \* how many writes the server carries out at most
    MaxToggles   \* how many switches are under way at once at most

ASSUME ListAssumption == MaxWritten \in Nat /\ MaxToggles \in Nat

VARIABLES
    written,   \* how many writes the server has carried out
    rules,     \* the shell's resource: the circuits as of so many writes
    lists,     \* requests for the circuits under way
    onList,    \* the circuits sheet is the one shown
    busy,      \* what its switch waits for, if for anything
    toggles,   \* switches under way, by slot
    lost       \* history: a write failed that had been carried out, and no load was asked for since

listVars == <<written, rules, lists, onList, busy, toggles, lost>>

Resources == INSTANCE Resource

Versions == 0 .. MaxWritten

Slots == 1 .. MaxToggles

------------------------------------------------------------------------------
(* The shell's resource. *)

(* Mutant: the effect's cleanup lets the answer of the load before land. *)
AlsoAsked(requests) == requests \union {None}

(* An effect's cleanup, and its own request: yet to be answered. *)
Reasked(requests) == {None}

(* refresh(): the circuits are loaded afresh. *)
Refresh ==
    /\ rules' = Resources!Restarted(rules)
    /\ lists' = Reasked(lists)
    /\ lost' = FALSE

(* Retry, where the circuits failed to load. *)
RetryList ==
    /\ onList /\ rules.status = "error"
    /\ Refresh
    /\ UNCHANGED <<written, onList, busy, toggles>>

AnswerList ==
    /\ None \in lists
    /\ lists' = (lists \ {None}) \union {written}
    /\ UNCHANGED <<written, rules, onList, busy, toggles, lost>>

LandList(version) ==
    /\ version \in lists \ {None}
    /\ lists' = lists \ {version}
    /\ rules' = Resources!Landed(rules, version)
    /\ UNCHANGED <<written, onList, busy, toggles, lost>>

FailList ==
    /\ \E request \in lists : lists' = lists \ {request}
    /\ rules' = Resources!FailureLanded(rules)
    /\ UNCHANGED <<written, onList, busy, toggles, lost>>

------------------------------------------------------------------------------
(* The circuits sheet. *)

(* A switch is there once the circuits have loaded, and again on each visit, *)
(* whatever an earlier visit's is waiting for.                               *)
Toggle(slot) ==
    /\ onList /\ rules.data # None
    /\ busy = None
    /\ toggles[slot] = "none"
    /\ busy' = slot
    /\ toggles' = [toggles EXCEPT ![slot] = "asked"]
    /\ UNCHANGED <<written, rules, lists, onList, lost>>

Write == written < MaxWritten /\ written' = written + 1

CarryOut(slot) ==
    /\ toggles[slot] = "asked"
    /\ Write
    /\ toggles' = [toggles EXCEPT ![slot] = "done"]
    /\ UNCHANGED <<rules, lists, onList, busy, lost>>

(* The switch is free again, unless it is of a later visit. *)
ToggleOver(slot) ==
    /\ toggles' = [toggles EXCEPT ![slot] = "none"]
    /\ busy' = IF busy = slot THEN None ELSE busy

LandToggle(slot) ==
    /\ toggles[slot] = "done"
    /\ ToggleOver(slot)
    /\ Refresh
    /\ UNCHANGED <<written, onList>>

FailToggle(slot) ==
    /\ toggles[slot] # "none"
    /\ ToggleOver(slot)
    /\ lost' = (lost \/ toggles[slot] = "done")
    /\ UNCHANGED <<written, rules, lists, onList>>

------------------------------------------------------------------------------
ListInit ==
    /\ written = 0
    /\ rules = Resources!Unloaded
    /\ lists = {None}
    /\ onList \in BOOLEAN
    /\ busy = None
    /\ toggles = [slot \in Slots |-> "none"]
    /\ lost = FALSE

ListStep ==
    \/ RetryList \/ AnswerList \/ FailList
    \/ \E version \in Versions : LandList(version)
    \/ \E slot \in Slots : Toggle(slot) \/ CarryOut(slot) \/ LandToggle(slot) \/ FailToggle(slot)
=============================================================================
