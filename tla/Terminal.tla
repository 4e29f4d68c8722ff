------------------------------ MODULE Terminal ------------------------------
(***************************************************************************)
(* The service terminal in the console's shell, and its runs of DOOM.  Each *)
(* run is a screen of its own: mounted, it waits for the engine and the     *)
(* WAD, which a page load fetches once, boots a machine, and ticks it until *)
(* the game is over; unmounted, it is cancelled, and whatever it waits for  *)
(* still comes.                                                             *)
(*                                                                         *)
(* The engine is left out but for its polling of keys: a boot or a tic goes *)
(* well, ends the game or crashes.  The log, the picture, the mouse, sound  *)
(* and the disk are left out, and so are the browser's history and a reload. *)
(***************************************************************************)
EXTENDS DoomKeys, Shell, Naturals

CONSTANTS
    MaxRuns,   \* how many runs there are in all
    MaxBytes   \* how far the count of bytes goes

ASSUME TerminalAssumption == MaxRuns \in Nat /\ MaxBytes \in Nat /\ None \notin Nat

VARIABLES
    phase,     \* what the terminal is at, or that another sheet is shown
    screen,    \* the run whose screen is mounted, or none
    runs,      \* every run: how far it is, and whether it was cancelled
    assets,    \* the page's download
    loaded,    \* the bytes counted
    onLoaded,  \* the run that is told of them, or none
    shown,     \* the bytes that the terminal shows
    stray      \* the rest of a download that failed still comes in

runVars == <<phase, screen, runs, assets, loaded, onLoaded, shown, stray>>
vars == <<shellVars, keyVars, runVars>>

Runs == 1 .. MaxRuns

Unused == {run \in Runs : runs[run].step = "none"}

(* Mutant: what a cancelled run waited for still counts. *)
AnyRun(run) == TRUE

(* What a run has yet to look at after each wait. *)
Wanted(run) == ~runs[run].cancelled

At(run, step) == runs' = [runs EXCEPT ![run].step = step]

------------------------------------------------------------------------------
(* Screens. *)

(* Mutant: the run that started the download goes on being told of it. *)
FirstListener(run) == IF assets = "none" THEN run ELSE onLoaded

(* The run that waits for the download now, whoever started it. *)
Listener(run) == run

(* A screen is mounted: its run loads the assets, or waits with the rest. *)
Mount ==
    /\ \E run \in Unused :
           /\ \A other \in Unused : run <= other
           /\ screen' = run
           /\ runs' = [runs EXCEPT ![run] = [step |-> "assets", cancelled |-> FALSE]]
           /\ onLoaded' = Listener(run)
    /\ phase' = "loading"
    /\ IF assets = "none"
       THEN assets' = "loading" /\ loaded' = 0
       ELSE UNCHANGED <<assets, loaded>>
    /\ shown' = loaded'
    /\ FreshKeys(FALSE)
    /\ UNCHANGED stray

(* Cancelled: a machine ticks no more, but a boot or a wait goes on. *)
Unmount ==
    /\ screen' = None
    /\ runs' = IF screen = None THEN runs
               ELSE [runs EXCEPT ![screen].cancelled = TRUE,
                                 ![screen].step = IF @ = "live" THEN "over" ELSE @]
    /\ FreshKeys(FALSE)

(* A sheet is navigated to: the terminal, whose first run starts with it, or *)
(* another, and the run that there was is gone.                              *)
Go(to, s) ==
    /\ Show(to, s)
    /\ CASE phase = "away" /\ to = "terminal" -> Mount
         [] phase # "away" /\ to # "terminal" ->
                /\ phase' = "away"
                /\ Unmount
                /\ UNCHANGED <<assets, loaded, onLoaded, shown, stray>>
         [] OTHER -> UNCHANGED <<keyVars, runVars>>

Tab(to) ==
    /\ Go(to, remembered)
    /\ FocusTaken

Tune(s) == Search(s) /\ FocusTaken /\ UNCHANGED <<keyVars, runVars>>

(* A save that lands, or a link of another sheet, has a search of its own. *)
Land(s) == Go("journal", s) /\ UNCHANGED lineVars

(* The journal's keys bring it back from the sheets that have none. *)
JournalKey ==
    /\ sheet \in {"circuits", "new"} /\ ~typing
    /\ Go("journal", remembered)
    /\ UNCHANGED lineVars

RunLine(to) == Command(to) /\ Go(to, remembered)

(* The screen loses the keyboard to the command line. *)
TakeFocus ==
    /\ OpenLine \/ ClickLine
    /\ IF focused THEN Blur ELSE UNCHANGED keyVars
    /\ UNCHANGED <<sheetVars, runVars>>

LineStep ==
    \/ TakeFocus
    \/ (\E text \in Typed \union {""} : TypeLine(text)) /\ UNCHANGED <<sheetVars, keyVars, runVars>>
    \/ (Escape \/ Reply) /\ UNCHANGED <<sheetVars, keyVars, runVars>>

(* The prompt takes DOOM, and EXIT to a plain journal; it gets the keyboard *)
(* whenever it comes up.                                                    *)
RunDoom == phase = "prompt" /\ Mount /\ FocusTaken /\ UNCHANGED sheetVars

Exit == phase = "prompt" /\ Go("journal", Plain) /\ FocusTaken

Stop ==
    /\ phase \in {"loading", "running"}
    /\ phase' = "prompt"
    /\ Unmount
    /\ FocusTaken
    /\ UNCHANGED <<sheetVars, assets, loaded, onLoaded, shown, stray>>

(* The run is over; the terminal is told if it still looks. *)
Finish(run) ==
    /\ IF Wanted(run)
       THEN /\ phase' = "prompt"
            /\ screen' = None
            /\ FreshKeys(FALSE)
            /\ FocusTaken
       ELSE UNCHANGED <<phase, screen, keyVars, lineVars>>
    /\ runs' = [runs EXCEPT ![run] = [step |-> "over", cancelled |-> TRUE]]
    /\ UNCHANGED sheetVars

------------------------------------------------------------------------------
(* The download. *)

(* Bytes are counted, and the run that listens says so if it still looks. *)
Count ==
    /\ loaded < MaxBytes
    /\ loaded' = loaded + 1
    /\ shown' = IF onLoaded # None /\ Wanted(onLoaded) THEN loaded' ELSE shown
    /\ UNCHANGED <<shellVars, keyVars, phase, screen, runs, assets, onLoaded, stray>>

Bytes == assets = "loading" /\ Count

(* The other file of a download that failed goes on being read. *)
StrayBytes == stray /\ Count

StrayEnds ==
    /\ stray /\ stray' = FALSE
    /\ UNCHANGED <<shellVars, keyVars, phase, screen, runs, assets, loaded, onLoaded, shown>>

Downloaded ==
    /\ assets = "loading"
    /\ assets' = "ready"
    /\ UNCHANGED <<shellVars, keyVars, phase, screen, runs, loaded, onLoaded, shown, stray>>

Waiting == {run \in Runs : runs[run].step = "assets"}

(* Mutant: what starting rejects with goes unhandled. *)
Unhandled(rejected) == {}

(* Of the runs whose start is rejected, those that the terminal is told of. *)
Told(rejected) == {run \in rejected : Wanted(run)}

(* The next run downloads again; all that wait for this download are over. *)
FailDownload ==
    /\ assets = "loading"
    /\ assets' = "none"
    /\ \/ stray' = TRUE
       \/ UNCHANGED stray
    /\ runs' = [run \in Runs |->
                   IF run \in Waiting THEN [step |-> "over", cancelled |-> TRUE] ELSE runs[run]]
    /\ IF Told(Waiting) # {}
       THEN phase' = "prompt" /\ screen' = None /\ FreshKeys(FALSE) /\ FocusTaken
       ELSE UNCHANGED <<phase, screen, keyVars, lineVars>>
    /\ UNCHANGED <<sheetVars, loaded, onLoaded, shown>>

------------------------------------------------------------------------------
(* Runs. *)

(* The assets are there: a run that is still wanted boots. *)
Arrive(run) ==
    /\ runs[run].step = "assets" /\ assets = "ready"
    /\ At(run, IF Wanted(run) THEN "booting" ELSE "over")
    /\ UNCHANGED <<shellVars, keyVars, phase, screen, assets, loaded, onLoaded, shown, stray>>

(* Booted: the game is on, and has the keyboard. *)
Start(run) ==
    /\ runs[run].step = "booting"
    /\ IF Wanted(run)
       THEN /\ At(run, "live")
            /\ phase' = "running"
            /\ FreshKeys(TRUE)
            /\ FocusTaken
       ELSE /\ At(run, "over")
            /\ UNCHANGED <<phase, keyVars, lineVars>>
    /\ UNCHANGED <<sheetVars, screen, assets, loaded, onLoaded, shown, stray>>

(* The game quit, or crashed, while it started or in a tic. *)
Quit(run) ==
    /\ runs[run].step \in {"booting", "live"}
    /\ Finish(run)
    /\ UNCHANGED <<assets, loaded, onLoaded, shown, stray>>

Tick(run) == runs[run].step = "live" /\ Poll /\ UNCHANGED <<shellVars, runVars>>

KeyStep ==
    /\ \/ \E code \in Codes : KeyDown(code, phase = "running") \/ KeyUp(code)
       \/ phase = "running" /\ Blur
    /\ UNCHANGED <<shellVars, runVars>>

ClickScreen ==
    /\ phase = "running" /\ Focus
    /\ FocusTaken
    /\ UNCHANGED <<sheetVars, runVars>>

------------------------------------------------------------------------------
Init ==
    /\ ShellInit
    /\ phase = "away" /\ screen = None
    /\ runs = [run \in Runs |-> [step |-> "none", cancelled |-> FALSE]]
    /\ assets = "none" /\ loaded = 0 /\ onLoaded = None /\ shown = 0 /\ stray = FALSE
    /\ KeysInit

Next ==
    \/ \E to \in {"journal", "circuits", "new"} : Tab(to)
    \/ \E s \in Searches : Tune(s) \/ Land(s)
    \/ JournalKey
    \/ \E to \in {"journal", "circuits", "new", "terminal"} : RunLine(to)
    \/ LineStep
    \/ RunDoom \/ Exit \/ Stop
    \/ Bytes \/ StrayBytes \/ StrayEnds \/ Downloaded \/ FailDownload
    \/ \E run \in Runs : Arrive(run) \/ Start(run) \/ Quit(run) \/ Tick(run)
    \/ KeyStep \/ ClickScreen

(* A download ends, well or not, and so do waits and boots; nothing else need *)
(* ever happen.                                                                *)
Spec ==
    /\ Init /\ [][Next]_vars
    /\ WF_vars(Downloaded \/ FailDownload)
    /\ WF_vars(\E run \in Runs : Arrive(run))
    /\ WF_vars(\E run \in Runs : Start(run) \/ (runs[run].step = "booting" /\ Quit(run)))

------------------------------------------------------------------------------
(* No key sticks: once the queue is polled, the keys that are down to the    *)
(* game are those of the codes held, "it stays down while either is", and    *)
(* the codes held are the user's, none of them once the focus is gone.       *)
NoStuckKey ==
    phase = "running" =>
        /\ Polled(queue, down) = KeysOf(held)
        /\ held \subseteq pressed
        /\ ~focused => held = {}

(* The journal comes back as it was left, by its tab, its keys and the       *)
(* command line, whatever sheets were shown in between.                      *)
BackAsLeft ==
    [][sheet # "journal" /\ (Tab("journal") \/ JournalKey \/ RunLine("journal"))
           => search' = left]_vars

(* The keyboard is the game's or the command line's, not both's: a game that *)
(* starts or ends while a command is typed takes it, and the command line is *)
(* not left open with nothing in it.                                         *)
KeyboardOfOne == ~(typing /\ focused) /\ (line = "" => typing)

(* However runs are stopped, left and started over while a download or a     *)
(* boot is still to come, the terminal is at what its own run is at, and no   *)
(* other run is wanted or ticks.                                             *)
PhaseOfItsRun ==
    LET active == {run \in Runs : runs[run].step # "none" /\ ~runs[run].cancelled} IN
    /\ phase = "away" <=> sheet # "terminal"
    /\ active = IF screen = None THEN {} ELSE {screen}
    /\ \A run \in Runs : runs[run].step = "live" => phase = "running" /\ run = screen
    /\ phase = "running" => screen # None /\ runs[screen].step = "live"
    /\ phase = "loading" => screen # None /\ runs[screen].step \in {"assets", "booting"}

(* "The run waiting on the download now, which may not be the one that       *)
(* started it": a terminal that loads shows the bytes counted so far, even   *)
(* if an earlier run, stopped since, started the download.                   *)
ProgressShown == phase = "loading" => shown = loaded

(* A terminal that loads goes on to run or comes back to the prompt, though   *)
(* downloads fail, and fail for several runs at once, and boots crash.        *)
LoadingEnds == phase = "loading" ~> phase # "loading"
=============================================================================
