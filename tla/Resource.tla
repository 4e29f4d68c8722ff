------------------------------ MODULE Resource ------------------------------
(***************************************************************************)
(* The console's useResource: a value loaded on mount and whenever what it *)
(* depends on changes.  While a new load is under way the last one's data  *)
(* stays, and the cleanup of the effect that asked before it lets that     *)
(* one's answer go, which whoever keeps the requests models by             *)
(* withdrawing it.                                                         *)
(***************************************************************************)
CONSTANT None   \* no data

ResourceOf(Data) == [status : {"loading", "ready", "error"}, data : Data \union {None}]

Unloaded == [status |-> "loading", data |-> None]

Restarted(r) == [r EXCEPT !.status = "loading"]

(* Mutant: data that is there is kept. *)
LandedOnce(r, data) == [r EXCEPT !.status = "ready", !.data = IF @ = None THEN data ELSE @]

Landed(r, data) == [r EXCEPT !.status = "ready", !.data = data]

FailureLanded(r) == [r EXCEPT !.status = "error", !.data = None]
=============================================================================
