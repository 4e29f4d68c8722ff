------------------------------ MODULE DoomKeys ------------------------------
(***************************************************************************)
(* The keyboard of a game on the screen: the keys the user holds, those the *)
(* screen knows to be held, the machine's queue of key events, and the keys *)
(* the game takes to be down once it has polled some of them.               *)
(***************************************************************************)
EXTENDS Sequences, SequencesExt, FiniteSets

CONSTANTS
    None,      \* no key
    Codes,     \* the physical keys there are
    MaxQueue   \* key events between two tics, a blur's apart

ASSUME KeysAssumption == MaxQueue \in Nat

VARIABLES
    focused,   \* the screen has the keyboard
    pressed,   \* the physical keys that the user holds
    held,      \* those the screen has sent a key for and not released
    queue,     \* the key events that the machine has yet to hand over
    down       \* the keys that are down, to the game

keyVars == <<focused, pressed, held, queue, down>>

(* The game's key for a physical one, for some that two codes share. *)
Bound ==
    [ArrowUp |-> "up", KeyW |-> "up", ArrowDown |-> "back", KeyS |-> "back",
     Comma |-> "strafe", KeyA |-> "strafe", Space |-> "use", KeyE |-> "use",
     ControlLeft |-> "fire", ControlRight |-> "fire", Escape |-> "menu"]

(* A key the game does not know is left to the browser. *)
DoomKey(code) == IF code \in DOMAIN Bound THEN Bound[code] ELSE None

KeysOf(codes) == {DoomKey(code) : code \in codes}

Key(isDown, key) == [down |-> isDown, key |-> key]

------------------------------------------------------------------------------
(* No later event is about the same key. *)
IsLast(events, i) == \A j \in DOMAIN events : events[j].key = events[i].key => j <= i

(* What the game makes of key events, in their order: the last one about a *)
(* key says whether it is down, and a key without one stays as it was.     *)
Polled(events, keys) ==
    {key \in keys \union {event.key : event \in ToSet(events)} :
        \A i \in DOMAIN events : events[i].key = key /\ IsLast(events, i) => events[i].down}

(* Mutant: a code's release is its key's, whatever else holds it. *)
NoneHolds(codes, key) == FALSE

(* A key stays down while any of its codes is held. *)
StillHeld(codes, key) == key \in KeysOf(codes)

(* A key is pressed, or repeats. *)
KeyDown(code, taking) ==
    /\ Len(queue) < MaxQueue
    /\ pressed' = pressed \union {code}
    /\ IF focused /\ taking /\ DoomKey(code) # None
       THEN /\ held' = held \union {code}
            /\ queue' = Append(queue, Key(TRUE, DoomKey(code)))
       ELSE UNCHANGED <<held, queue>>
    /\ UNCHANGED <<focused, down>>

(* What a release sends, once its code is no longer held. *)
Released(code, remaining) ==
    IF StillHeld(remaining, DoomKey(code)) THEN <<>> ELSE <<Key(FALSE, DoomKey(code))>>

KeyUp(code) ==
    /\ Len(queue) < MaxQueue
    /\ code \in pressed
    /\ pressed' = pressed \ {code}
    /\ IF focused /\ code \in held
       THEN /\ held' = held \ {code}
            /\ queue' = queue \o Released(code, held')
       ELSE UNCHANGED <<held, queue>>
    /\ UNCHANGED <<focused, down>>

(* Every held code is released, one after the other, which releases each   *)
(* key with the last of its codes; in which order is all one to the game.  *)
Blur ==
    /\ focused
    /\ focused' = FALSE
    /\ held' = {}
    /\ queue' = queue \o SetToSeq({Key(FALSE, key) : key \in KeysOf(held)})
    /\ UNCHANGED <<pressed, down>>

Focus ==
    /\ ~focused
    /\ focused' = TRUE
    /\ UNCHANGED <<pressed, held, queue, down>>

(* A tic: the game polls until there is no event left. *)
Poll ==
    /\ down' = Polled(queue, down)
    /\ queue' = <<>>
    /\ UNCHANGED <<focused, pressed, held>>

(* A new machine, or none. *)
FreshKeys(hasFocus) ==
    /\ focused' = hasFocus
    /\ held' = {} /\ queue' = <<>> /\ down' = {}
    /\ UNCHANGED pressed

KeysInit == focused = FALSE /\ pressed = {} /\ held = {} /\ queue = <<>> /\ down = {}
=============================================================================
