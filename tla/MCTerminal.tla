------------------------------ MODULE MCTerminal ------------------------------
(* Two codes of one key, one of another, and one the game does not know; a   *)
(* journal with a channel tuned and without; a command to each kind of sheet. *)
EXTENDS Terminal

SmallCodes == {"ArrowUp", "KeyW", "ControlLeft", "CapsLock"}

SmallSearches == {"plain", "channel"}

SmallTyped == {"doom", "journal", "help"}
=============================================================================
