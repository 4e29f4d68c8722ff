---------------------------- MODULE TerminalProofs ----------------------------
(***************************************************************************)
(* What holds of the terminal, of its runs of DOOM and of the shell around  *)
(* it for any number of runs, bytes, keys and searches, proved.             *)
(***************************************************************************)
EXTENDS Terminal, FiniteSetTheorems, SequenceTheorems, TLAPS

------------------------------------------------------------------------------
(* The keyboard. *)

(* Who takes the focus leaves no command line typed into, and no empty one. *)
LEMMA FocusTakenFrees ==
    ASSUME line = "" => typing, FocusTaken
    PROVE  ~typing' /\ line' # ""
<1>1. CASE typing
  BY <1>1 DEF FocusTaken, LineLeft, Closed
<1>2. CASE ~typing
  <2>1. line' = line /\ typing' = typing
    BY <1>2 DEF FocusTaken, lineVars
  <2> QED
    BY <1>2, <2>1
<1> QED
  BY <1>1, <1>2

(* A sheet that comes or goes takes no focus from the command line. *)
LEMMA GoKeepsFocus ==
    ASSUME NEW to, NEW s, Go(to, s)
    PROVE  focused' = focused \/ ~focused'
<1>1. CASE phase = "away" /\ to = "terminal"
  BY <1>1 DEF Go, Mount, FreshKeys
<1>2. CASE phase # "away" /\ to # "terminal"
  BY <1>2 DEF Go, Unmount, FreshKeys
<1>3. CASE ~(phase = "away" /\ to = "terminal") /\ ~(phase # "away" /\ to # "terminal")
  BY <1>3 DEF Go, keyVars
<1> QED
  BY <1>1, <1>2, <1>3

LEMMA KeyboardLeftAlone ==
    ASSUME KeyboardOfOne, line' = line, typing' = typing, focused' = focused
    PROVE  KeyboardOfOne'
BY Zenon DEF KeyboardOfOne

LEMMA SheetsShareKeyboard ==
    ASSUME KeyboardOfOne,
           \/ \E to \in {"journal", "circuits", "new"} : Tab(to)
           \/ \E s \in Searches : Tune(s) \/ Land(s)
           \/ JournalKey
           \/ \E to \in {"journal", "circuits", "new", "terminal"} : RunLine(to)
           \/ RunDoom \/ Exit \/ Stop
    PROVE  KeyboardOfOne'
<1>1. CASE \/ \E to \in {"journal", "circuits", "new"} : Tab(to)
           \/ \E s \in Searches : Tune(s)
           \/ RunDoom \/ Exit \/ Stop
  <2>1. FocusTaken
    BY <1>1 DEF Tab, Tune, RunDoom, Exit, Stop
  <2> QED
    BY <2>1, FocusTakenFrees DEF KeyboardOfOne
<1>2. CASE (\E s \in Searches : Land(s)) \/ JournalKey
  <2>1. line' = line /\ typing' = typing /\ \E to, s : Go(to, s)
    BY <1>2 DEF Land, JournalKey, lineVars
  <2> QED
    BY <2>1, GoKeepsFocus DEF KeyboardOfOne
<1>3. CASE \E to \in {"journal", "circuits", "new", "terminal"} : RunLine(to)
  <2>1. line' = "closed" /\ ~typing'
    BY <1>3 DEF RunLine, Command, Close, Closed
  <2> QED
    BY <2>1 DEF KeyboardOfOne
<1> QED
  BY <1>1, <1>2, <1>3

LEMMA LineSharesKeyboard ==
    ASSUME KeyboardOfOne, LineStep
    PROVE  KeyboardOfOne'
<1>1. CASE TakeFocus
  <2>1. typing' /\ ~focused'
    BY <1>1 DEF TakeFocus, OpenLine, ClickLine, Blur, keyVars
  <2> QED
    BY <2>1 DEF KeyboardOfOne
<1>2. CASE \E text \in Typed \union {""} : TypeLine(text) /\ UNCHANGED <<sheetVars, keyVars, runVars>>
  <2>1. typing /\ typing' = typing /\ focused' = focused
    BY <1>2 DEF TypeLine, keyVars
  <2> QED
    BY <2>1 DEF KeyboardOfOne
<1>3. CASE (Escape \/ Reply) /\ UNCHANGED <<sheetVars, keyVars, runVars>>
  <2>1. /\ typing /\ focused' = focused
        /\ (line' = "closed" /\ ~typing') \/ typing' = typing
    BY <1>3 DEF Escape, Reply, Close, Closed, keyVars
  <2> QED
    BY <2>1 DEF KeyboardOfOne
<1> QED
  BY <1>1, <1>2, <1>3 DEF LineStep

LEMMA RunsShareKeyboard ==
    ASSUME KeyboardOfOne,
           \/ Bytes \/ StrayBytes \/ StrayEnds \/ Downloaded \/ FailDownload
           \/ \E run \in Runs : Arrive(run) \/ Start(run) \/ Quit(run) \/ Tick(run)
           \/ KeyStep \/ ClickScreen
    PROVE  KeyboardOfOne'
<1>1. CASE \/ Bytes \/ StrayBytes \/ StrayEnds \/ Downloaded
           \/ \E run \in Runs : Arrive(run) \/ Tick(run)
  <2>1. line' = line /\ typing' = typing
    BY <1>1 DEF Bytes, StrayBytes, Count, StrayEnds, Downloaded, Arrive, Tick, shellVars, lineVars
  <2>2. focused' = focused
    BY <1>1 DEF Bytes, StrayBytes, Count, StrayEnds, Downloaded, Arrive, Tick, Poll, keyVars
  <2> QED
    BY <2>1, <2>2, KeyboardLeftAlone
<1>2. CASE FailDownload \/ \E run \in Runs : Start(run) \/ Quit(run)
  <2>1. FocusTaken \/ UNCHANGED <<lineVars, keyVars>>
    <3>1. FailDownload => FocusTaken \/ UNCHANGED <<lineVars, keyVars>>
      BY DEF FailDownload
    <3>2. ASSUME NEW run \in Runs
          PROVE  Start(run) \/ Quit(run) => FocusTaken \/ UNCHANGED <<lineVars, keyVars>>
      BY Zenon DEF Start, Quit, Finish
    <3> QED
      BY <1>2, <3>1, <3>2
  <2>2. CASE UNCHANGED <<lineVars, keyVars>>
    BY <2>2, KeyboardLeftAlone DEF lineVars, keyVars
  <2> QED
    BY <2>1, <2>2, FocusTakenFrees DEF KeyboardOfOne
<1>3. CASE KeyStep
  <2>1. line' = line /\ typing' = typing
    BY <1>3 DEF KeyStep, shellVars, lineVars
  <2>2. focused' = focused \/ focused' = FALSE
    BY <1>3 DEF KeyStep, KeyDown, KeyUp, Blur
  <2> QED
    BY <2>1, <2>2, KeyboardLeftAlone DEF KeyboardOfOne
<1>4. CASE ClickScreen
  BY <1>4, FocusTakenFrees DEF ClickScreen, KeyboardOfOne
<1> QED
  BY <1>1, <1>2, <1>3, <1>4

(* A game that starts, ends or is clicked takes the keyboard from a command *)
(* that is typed, and a command line from a game: never do both have it.    *)
THEOREM KeyboardHasOneOwner == Spec => []KeyboardOfOne
<1>1. Init => KeyboardOfOne
  BY DEF Init, ShellInit, KeysInit, KeyboardOfOne, Closed
<1>2. KeyboardOfOne /\ [Next]_vars => KeyboardOfOne'
  <2> SUFFICES ASSUME KeyboardOfOne, [Next]_vars PROVE KeyboardOfOne'
    OBVIOUS
  <2>1. CASE UNCHANGED vars
    BY <2>1, KeyboardLeftAlone DEF vars, shellVars, lineVars, keyVars
  <2> QED
    BY <2>1, SheetsShareKeyboard, LineSharesKeyboard, RunsShareKeyboard DEF Next
<1> QED
  BY <1>1, <1>2, PTL DEF Spec

------------------------------------------------------------------------------
(* The journal's search. *)

(* A journal that is shown is remembered as it is; one that is not, as it   *)
(* was when it was left.                                                    *)
SearchRemembered ==
    remembered = IF sheet = "journal" THEN search ELSE left

LEMMA ShowRemembers ==
    ASSUME SearchRemembered, NEW to, NEW s, Show(to, s)
    PROVE  SearchRemembered'
BY DEF SearchRemembered, Show, Remembered

LEMMA EveryStepRemembers ==
    ASSUME SearchRemembered, [Next]_vars
    PROVE  SearchRemembered'
<1>1. CASE UNCHANGED sheetVars
  BY <1>1 DEF sheetVars, SearchRemembered
<1>2. CASE \E to, s : Show(to, s)
  BY <1>2, ShowRemembers
<1>3. (\E to, s : Go(to, s)) => \E to, s : Show(to, s)
  BY DEF Go
<1>4. ASSUME NEW to, Tab(to) \/ RunLine(to)
      PROVE  SearchRemembered'
  BY <1>2, <1>3, <1>4 DEF Tab, RunLine
<1>5. ASSUME NEW s, Tune(s) \/ Land(s)
      PROVE  SearchRemembered'
  BY <1>2, <1>3, <1>5 DEF Tune, Search, Land
<1>6. CASE JournalKey \/ Exit
  BY <1>2, <1>3, <1>6 DEF JournalKey, Exit
<1>7. CASE LineStep \/ RunDoom \/ Stop
  BY <1>1, <1>7 DEF LineStep, TakeFocus, RunDoom, Stop
<1>8. CASE Bytes \/ StrayBytes \/ StrayEnds \/ Downloaded \/ FailDownload
  BY <1>1, <1>8 DEF Bytes, StrayBytes, Count, StrayEnds, Downloaded, FailDownload, shellVars
<1>9. ASSUME NEW run \in Runs, Arrive(run) \/ Start(run) \/ Quit(run) \/ Tick(run)
      PROVE  SearchRemembered'
  BY <1>1, <1>9 DEF Arrive, Start, Quit, Finish, Tick, shellVars
<1>10. CASE KeyStep \/ ClickScreen
  BY <1>1, <1>10 DEF KeyStep, ClickScreen, shellVars
<1>11. CASE UNCHANGED vars
  BY <1>1, <1>11 DEF vars, shellVars
<1> QED
  BY <1>4, <1>5, <1>6, <1>7, <1>8, <1>9, <1>10, <1>11 DEF Next

(* By its tab, its keys and the command line the journal comes back with the *)
(* channel and the match it was left with (Shell's journalSearch).           *)
THEOREM JournalComesBack == Spec => BackAsLeft
<1>1. Init => SearchRemembered
  BY DEF Init, ShellInit, SearchRemembered
<1>2. SearchRemembered /\ [Next]_vars => SearchRemembered'
  BY EveryStepRemembers
<1>3. SearchRemembered =>
        [sheet # "journal" /\ (Tab("journal") \/ JournalKey \/ RunLine("journal"))
            => search' = left]_vars
  <2>1. ASSUME SearchRemembered, sheet # "journal", Go("journal", remembered)
        PROVE  search' = left
    BY <2>1 DEF SearchRemembered, Go, Show
  <2> QED
    BY <2>1 DEF Tab, JournalKey, RunLine
<1> QED
  BY <1>1, <1>2, <1>3, PTL DEF Spec, BackAsLeft

------------------------------------------------------------------------------
(* Runs. *)

Steps == {"none", "assets", "booting", "live", "over"}

RunTypes ==
    /\ runs \in [Runs -> [step : Steps, cancelled : BOOLEAN]]
    /\ screen \in Runs \union {None}
    /\ phase \in {"away", "prompt", "loading", "running"}

Wants(run) == runs[run].step # "none" /\ Wanted(run)

(* A terminal that loads or runs has a screen, whose run alone is wanted and *)
(* is told of the bytes; only the one that runs ticks.                       *)
RunInv ==
    /\ RunTypes
    /\ phase = "away" <=> sheet # "terminal"
    /\ screen = None <=> phase \in {"away", "prompt"}
    /\ \A run \in Runs : Wants(run) <=> run = screen
    /\ \A run \in Runs : runs[run].step = "live" => phase = "running" /\ run = screen
    /\ phase = "running" => runs[screen].step = "live"
    /\ phase = "loading" =>
           /\ runs[screen].step \in {"assets", "booting"}
           /\ onLoaded = screen
           /\ shown = loaded

LEMMA NoneIsNoRun == None \notin Runs
BY TerminalAssumption DEF Runs

LEMMA RunsInitial == Init => RunInv
<1> SUFFICES ASSUME Init PROVE RunInv
  OBVIOUS
<1>1. RunTypes
  BY DEF Init, RunTypes, Steps
<1>2. \A run \in Runs : runs[run].step = "none"
  BY DEF Init
<1> QED
  BY <1>1, <1>2, NoneIsNoRun DEF Init, ShellInit, RunInv, Wants

(* What leaves the runs and the terminal alone. *)
LEMMA RunsLeftAlone ==
    ASSUME RunInv, UNCHANGED <<sheet, runVars>>
    PROVE  RunInv'
BY DEF RunInv, RunTypes, Wants, Wanted, runVars

LEMMA MountKeeps ==
    ASSUME RunInv, screen = None, Mount, sheet' = "terminal"
    PROVE  RunInv'
<1>1. PICK run \in Unused :
        /\ screen' = run /\ onLoaded' = run
        /\ runs' = [runs EXCEPT ![run] = [step |-> "assets", cancelled |-> FALSE]]
  BY DEF Mount, Listener
<1>2. /\ run \in Runs /\ runs[run].step = "none"
      /\ shown' = loaded' /\ phase' = "loading"
  BY DEF Mount, Unused
<1>3. runs'[run].step = "assets" /\ ~runs'[run].cancelled
  BY <1>1, <1>2 DEF RunInv, RunTypes
<1>4. \A other \in Runs : other # run => runs'[other] = runs[other]
  BY <1>1 DEF RunInv, RunTypes
<1>5. RunTypes'
  BY <1>1, <1>2 DEF RunInv, RunTypes, Steps
<1>6. \A other \in Runs : Wants(other)' <=> other = screen'
  BY <1>1, <1>2, <1>3, <1>4, NoneIsNoRun DEF RunInv, Wants, Wanted
<1>7. \A other \in Runs : runs'[other].step # "live"
  BY <1>3, <1>4, NoneIsNoRun DEF RunInv
<1> QED
  BY <1>1, <1>2, <1>3, <1>5, <1>6, <1>7, NoneIsNoRun DEF RunInv

(* No run is wanted without a screen, and none ticks. *)
LEMMA UnmountKeeps ==
    ASSUME RunInv, Unmount,
           phase' \in {"away", "prompt"}, phase' = "away" <=> sheet' # "terminal"
    PROVE  RunInv'
<1>1. screen' = None
  BY DEF Unmount
<1>2. CASE screen = None
  <2>1. runs' = runs
    BY <1>2 DEF Unmount
  <2> QED
    BY <1>1, <1>2, <2>1 DEF RunInv, RunTypes, Wants, Wanted
<1>3. CASE screen # None
  <2>1. screen \in Runs /\ runs[screen] \in [step : Steps, cancelled : BOOLEAN]
    BY <1>3 DEF RunInv, RunTypes
  <2>2. runs' = [runs EXCEPT ![screen].cancelled = TRUE,
                             ![screen].step = IF @ = "live" THEN "over" ELSE @]
    BY <1>3 DEF Unmount
  <2>3. /\ runs' \in [Runs -> [step : Steps, cancelled : BOOLEAN]]
        /\ runs'[screen].cancelled /\ runs'[screen].step # "live"
        /\ \A run \in Runs : run # screen => runs'[run] = runs[run]
    BY <2>1, <2>2 DEF RunInv, RunTypes, Steps
  <2>4. \A run \in Runs : ~Wants(run)'
    BY <2>3 DEF RunInv, Wants, Wanted
  <2>5. \A run \in Runs : runs'[run].step # "live"
    BY <2>3 DEF RunInv
  <2> QED
    BY <1>1, <2>3, <2>4, <2>5, NoneIsNoRun DEF RunInv, RunTypes
<1> QED
  BY <1>2, <1>3

LEMMA GoKeeps ==
    ASSUME RunInv, NEW to, NEW s, Go(to, s)
    PROVE  RunInv'
<1>1. sheet' = to
  BY DEF Go, Show
<1>2. CASE phase = "away" /\ to = "terminal"
  <2>1. Mount
    BY <1>2 DEF Go
  <2> QED
    BY <1>1, <1>2, <2>1, MountKeeps DEF RunInv
<1>3. CASE phase # "away" /\ to # "terminal"
  <2>1. phase' = "away" /\ Unmount
    BY <1>3 DEF Go
  <2> QED
    BY <1>1, <1>3, <2>1, UnmountKeeps
<1>4. CASE ~(phase = "away" /\ to = "terminal") /\ ~(phase # "away" /\ to # "terminal")
  <2>1. UNCHANGED runVars
    BY <1>4 DEF Go
  <2>2. (sheet' = "terminal") <=> (sheet = "terminal")
    BY <1>1, <1>4 DEF RunInv
  <2> QED
    BY <2>1, <2>2 DEF RunInv, RunTypes, Wants, Wanted, runVars
<1> QED
  BY <1>2, <1>3, <1>4

(* A run's own step: a run that goes on, boots or is over. *)
LEMMA ArriveKeeps ==
    ASSUME RunInv, NEW run \in Runs, Arrive(run)
    PROVE  RunInv'
<1>1. /\ UNCHANGED <<sheet, phase, screen, loaded, onLoaded, shown>>
      /\ runs[run].step = "assets"
      /\ runs' = [runs EXCEPT ![run].step = IF Wanted(run) THEN "booting" ELSE "over"]
  BY DEF Arrive, At, shellVars, sheetVars
<1>2. runs[run] \in [step : Steps, cancelled : BOOLEAN]
  BY DEF RunInv, RunTypes
<1>3. /\ runs' \in [Runs -> [step : Steps, cancelled : BOOLEAN]]
      /\ runs'[run].cancelled = runs[run].cancelled
      /\ runs'[run].step = IF Wanted(run) THEN "booting" ELSE "over"
      /\ \A other \in Runs : other # run => runs'[other] = runs[other]
  BY <1>1, <1>2 DEF RunInv, RunTypes, Steps
<1>4. \A other \in Runs : Wants(other)' <=> Wants(other)
  BY <1>1, <1>3 DEF Wants, Wanted
<1>5. screen = run => Wanted(run)
  BY <1>2 DEF RunInv, Wants
<1>6. \A other \in Runs : runs'[other].step = "live" => runs[other].step = "live"
  BY <1>3
<1>7. phase = "running" => screen # run
  BY <1>1 DEF RunInv
<1>8. RunTypes'
  BY <1>1, <1>3 DEF RunInv, RunTypes
<1>9. (phase = "running" \/ phase = "loading") => screen \in Runs
  BY DEF RunInv, RunTypes
<1>10. phase = "running" => runs'[screen].step = "live"
  BY <1>3, <1>7, <1>9 DEF RunInv
<1>11. phase = "loading" => runs'[screen].step \in {"assets", "booting"}
  BY <1>3, <1>5, <1>9 DEF RunInv
<1> QED
  BY <1>1, <1>4, <1>6, <1>8, <1>10, <1>11 DEF RunInv

LEMMA StartKeeps ==
    ASSUME RunInv, NEW run \in Runs, Start(run)
    PROVE  RunInv'
<1>1. UNCHANGED <<sheet, screen, loaded, onLoaded, shown>> /\ runs[run].step = "booting"
  BY DEF Start, sheetVars
<1>2. runs[run] \in [step : Steps, cancelled : BOOLEAN]
  BY DEF RunInv, RunTypes
<1>3. CASE Wanted(run)
  <2>1. phase' = "running" /\ runs' = [runs EXCEPT ![run].step = "live"]
    BY <1>3 DEF Start, At
  <2>2. screen = run
    BY <1>1, <1>3 DEF RunInv, Wants
  <2>3. /\ runs' \in [Runs -> [step : Steps, cancelled : BOOLEAN]]
        /\ runs'[run].cancelled = runs[run].cancelled
        /\ runs'[run].step = "live"
        /\ \A other \in Runs : other # run => runs'[other] = runs[other]
    BY <1>2, <2>1 DEF RunInv, RunTypes, Steps
  <2>4. \A other \in Runs : Wants(other)' <=> Wants(other)
    BY <1>1, <2>3 DEF Wants, Wanted
  <2>5. phase # "away" /\ screen # None
    BY <2>2, NoneIsNoRun DEF RunInv
  <2> QED
    BY <1>1, <2>1, <2>2, <2>3, <2>4, <2>5 DEF RunInv, RunTypes
<1>4. CASE ~Wanted(run)
  <2>1. phase' = phase /\ runs' = [runs EXCEPT ![run].step = "over"]
    BY <1>4 DEF Start, At
  <2>2. screen # run
    BY <1>4 DEF RunInv, Wants
  <2>3. /\ runs' \in [Runs -> [step : Steps, cancelled : BOOLEAN]]
        /\ runs'[run].cancelled = runs[run].cancelled
        /\ runs'[run].step = "over"
        /\ \A other \in Runs : other # run => runs'[other] = runs[other]
    BY <1>2, <2>1 DEF RunInv, RunTypes, Steps
  <2>4. \A other \in Runs : Wants(other)' <=> Wants(other)
    BY <1>1, <2>3 DEF Wants, Wanted
  <2>5. screen # None => screen \in Runs /\ runs'[screen] = runs[screen]
    BY <2>2, <2>3 DEF RunInv, RunTypes
  <2>6. \A other \in Runs : runs'[other].step = "live" => runs[other].step = "live"
    BY <2>3
  <2> QED
    BY <1>1, <2>1, <2>3, <2>4, <2>5, <2>6 DEF RunInv, RunTypes
<1> QED
  BY <1>3, <1>4

(* Runs that are over are not wanted; the terminal of one that was is back   *)
(* at the prompt.                                                            *)
LEMMA OverKeeps ==
    ASSUME RunInv, NEW ended \in SUBSET Runs, UNCHANGED <<sheet, loaded, onLoaded, shown>>,
           \A run \in ended : runs[run].step # "none",
           runs' = [run \in Runs |->
                       IF run \in ended THEN [step |-> "over", cancelled |-> TRUE] ELSE runs[run]],
           IF Told(ended) # {} THEN phase' = "prompt" /\ screen' = None ELSE UNCHANGED <<phase, screen>>
    PROVE  RunInv'
<1>1. RunTypes'
  BY DEF RunInv, RunTypes, Steps
<1>2. \A run \in ended : runs'[run].cancelled /\ runs'[run].step = "over"
  OBVIOUS
<1>3. \A run \in Runs \ ended : runs'[run] = runs[run]
  OBVIOUS
<1>4. Told(ended) = {} <=> screen \notin ended
  BY NoneIsNoRun DEF RunInv, Told, Wants
<1>5. \A run \in Runs : Wants(run)' <=> run \notin ended /\ run = screen
  BY <1>2, <1>3 DEF RunInv, Wants, Wanted
<1>6. \A run \in Runs : runs'[run].step = "live" => run \notin ended /\ runs[run].step = "live"
  BY <1>2, <1>3
<1>7. CASE screen \in ended
  <2>1. phase' = "prompt" /\ screen' = None
    BY <1>4, <1>7
  <2>2. sheet' = "terminal"
    BY <1>7, NoneIsNoRun DEF RunInv
  <2>3. \A run \in Runs : ~Wants(run)' /\ runs'[run].step # "live"
    BY <1>5, <1>6, <1>7 DEF RunInv
  <2> QED
    BY <1>1, <2>1, <2>2, <2>3, NoneIsNoRun DEF RunInv
<1>8. CASE screen \notin ended
  <2>1. UNCHANGED <<phase, screen>>
    BY <1>4, <1>8
  <2>2. screen # None => runs'[screen] = runs[screen]
    BY <1>3, <1>8 DEF RunInv, RunTypes
  <2>3. \A run \in Runs : Wants(run)' <=> run = screen
    BY <1>5, <1>8
  <2> QED
    BY <1>1, <1>6, <2>1, <2>2, <2>3 DEF RunInv
<1> QED
  BY <1>7, <1>8

LEMMA QuitKeeps ==
    ASSUME RunInv, NEW run \in Runs, Quit(run)
    PROVE  RunInv'
<1>1. /\ UNCHANGED <<sheet, loaded, onLoaded, shown>>
      /\ runs[run].step # "none"
      /\ runs' = [runs EXCEPT ![run] = [step |-> "over", cancelled |-> TRUE]]
      /\ IF Wanted(run) THEN phase' = "prompt" /\ screen' = None ELSE UNCHANGED <<phase, screen>>
  BY DEF Quit, Finish, sheetVars
<1>2. Told({run}) = IF Wanted(run) THEN {run} ELSE {}
  BY DEF Told
<1>3. runs' = [r \in Runs |->
                  IF r \in {run} THEN [step |-> "over", cancelled |-> TRUE] ELSE runs[r]]
  BY <1>1 DEF RunInv, RunTypes
<1> QED
  BY <1>1, <1>2, <1>3, OverKeeps

LEMMA FailDownloadKeeps ==
    ASSUME RunInv, FailDownload
    PROVE  RunInv'
<1>1. UNCHANGED <<sheet, loaded, onLoaded, shown>>
  BY DEF FailDownload, sheetVars
<1>2. Waiting \in SUBSET Runs /\ \A run \in Waiting : runs[run].step # "none"
  BY DEF Waiting
<1>3. /\ runs' = [run \in Runs |->
                      IF run \in Waiting THEN [step |-> "over", cancelled |-> TRUE] ELSE runs[run]]
      /\ IF Told(Waiting) # {} THEN phase' = "prompt" /\ screen' = None
         ELSE UNCHANGED <<phase, screen>>
  BY DEF FailDownload
<1> QED
  BY <1>1, <1>2, <1>3, OverKeeps

(* Bytes are shown as they are counted: the run that loads is the one told.  *)
LEMMA CountKeeps ==
    ASSUME RunInv, Count
    PROVE  RunInv'
<1>1. UNCHANGED <<sheet, phase, screen, runs, onLoaded>>
  BY DEF Count, shellVars, sheetVars
<1>2. phase = "loading" => screen \in Runs /\ Wanted(screen) /\ onLoaded = screen
  BY DEF RunInv, RunTypes, Wants
<1>3. phase = "loading" => shown' = loaded'
  BY <1>2, NoneIsNoRun DEF Count
<1> QED
  BY <1>1, <1>3 DEF RunInv, RunTypes, Wants, Wanted

LEMMA StepKeepsRuns ==
    ASSUME RunInv, [Next]_vars
    PROVE  RunInv'
<1>1. ASSUME NEW to, Tab(to) \/ RunLine(to)
      PROVE  RunInv'
  BY <1>1, GoKeeps DEF Tab, RunLine
<1>2. ASSUME NEW s, Land(s)
      PROVE  RunInv'
  BY <1>2, GoKeeps DEF Land
<1>3. ASSUME NEW s, Tune(s)
      PROVE  RunInv'
  <2>1. sheet' = sheet /\ UNCHANGED runVars
    BY <1>3 DEF Tune, Search, Show
  <2> QED
    BY <2>1, RunsLeftAlone
<1>4. CASE JournalKey \/ Exit
  BY <1>4, GoKeeps DEF JournalKey, Exit
<1>5. CASE RunDoom
  <2>1. Mount /\ screen = None /\ sheet' = "terminal"
    BY <1>5 DEF RunDoom, RunInv, sheetVars
  <2> QED
    BY <2>1, MountKeeps
<1>6. CASE Stop
  <2>1. Unmount /\ phase' = "prompt" /\ sheet' = "terminal"
    BY <1>6 DEF Stop, RunInv, sheetVars
  <2> QED
    BY <2>1, UnmountKeeps
<1>7. CASE Bytes \/ StrayBytes
  BY <1>7, CountKeeps DEF Bytes, StrayBytes
<1>8. CASE StrayEnds \/ Downloaded
  <2>1. UNCHANGED <<sheet, phase, screen, runs, loaded, onLoaded, shown>>
    BY <1>8 DEF StrayEnds, Downloaded, shellVars, sheetVars
  <2> QED
    BY <2>1 DEF RunInv, RunTypes, Wants, Wanted
<1>9. CASE LineStep \/ KeyStep \/ ClickScreen \/ (\E run \in Runs : Tick(run)) \/ UNCHANGED vars
  <2>1. UNCHANGED <<sheet, runVars>>
    BY <1>9 DEF LineStep, TakeFocus, KeyStep, ClickScreen, Tick, vars, shellVars, sheetVars
  <2> QED
    BY <2>1, RunsLeftAlone
<1>10. ASSUME NEW run \in Runs, Arrive(run) \/ Start(run) \/ Quit(run)
       PROVE  RunInv'
  BY <1>10, ArriveKeeps, StartKeeps, QuitKeeps
<1> QED
  BY <1>1, <1>2, <1>3, <1>4, <1>5, <1>6, <1>7, <1>8, <1>9, <1>10, FailDownloadKeeps DEF Next

(* However many runs are stopped, left and started over while downloads and  *)
(* boots go on, the terminal is at what its own run is at, and no other run   *)
(* is wanted or ticks (DoomScreen's cancelled, and ServiceTerminal's phase).  *)
THEOREM TerminalFollowsItsRun == Spec => []PhaseOfItsRun
<1>1. RunInv => PhaseOfItsRun
  <2> SUFFICES ASSUME RunInv PROVE PhaseOfItsRun
    OBVIOUS
  <2>1. {run \in Runs : runs[run].step # "none" /\ ~runs[run].cancelled}
            = IF screen = None THEN {} ELSE {screen}
    BY NoneIsNoRun DEF RunInv, RunTypes, Wants, Wanted
  <2> QED
    BY <2>1 DEF RunInv, PhaseOfItsRun
<1> QED
  BY <1>1, RunsInitial, StepKeepsRuns, PTL DEF Spec

(* A terminal that loads shows the bytes counted so far, whichever run        *)
(* started the download that it waits for (assets.ts's onLoaded).             *)
THEOREM BytesAreShown == Spec => []ProgressShown
<1>1. RunInv => ProgressShown
  BY DEF RunInv, ProgressShown
<1> QED
  BY <1>1, RunsInitial, StepKeepsRuns, PTL DEF Spec
------------------------------------------------------------------------------
(* The keys. *)

GameKeys == {"up", "back", "strafe", "use", "fire", "menu"}
KeyEvents == [down : BOOLEAN, key : GameKeys]

(* The types that the keys take: only a key that the game knows is sent.     *)
KeyTypes == queue \in Seq(KeyEvents) /\ held \subseteq DOMAIN Bound

KeysInv == KeyTypes /\ NoStuckKey

LEMMA KnownKeys == \A code \in DOMAIN Bound : DoomKey(code) = Bound[code] /\ Bound[code] \in GameKeys
BY DEF DoomKey, Bound, GameKeys

(* A further event decides its own key and no other. *)
LEMMA PolledOneMore ==
    ASSUME NEW events \in Seq(KeyEvents), NEW event \in KeyEvents, NEW keys
    PROVE  Polled(Append(events, event), keys) =
               IF event.down THEN Polled(events, keys) \union {event.key}
               ELSE Polled(events, keys) \ {event.key}
<1> DEFINE more == Append(events, event)
           n == Len(events)
<1>1. /\ DOMAIN more = 1 .. n + 1 /\ DOMAIN events = 1 .. n /\ n \in Nat
      /\ more[n + 1] = event
      /\ \A i \in 1 .. n : more[i] = events[i]
  OBVIOUS
<1>2. {e.key : e \in ToSet(more)} = {e.key : e \in ToSet(events)} \union {event.key}
  BY <1>1 DEF ToSet
<1>3. IsLast(more, n + 1)
  BY <1>1 DEF IsLast
<1>4. ASSUME NEW i \in 1 .. n
      PROVE  IsLast(more, i) <=> IsLast(events, i) /\ events[i].key # event.key
  BY <1>1 DEF IsLast
<1> HIDE DEF more, n
<1>5. ASSUME NEW key, key # event.key
      PROVE  key \in Polled(more, keys) <=> key \in Polled(events, keys)
  <2>1. key \in {e.key : e \in ToSet(more)} <=> key \in {e.key : e \in ToSet(events)}
    BY <1>2, <1>5
  <2>2. (\A i \in DOMAIN more : more[i].key = key /\ IsLast(more, i) => more[i].down)
          <=> \A i \in DOMAIN events : events[i].key = key /\ IsLast(events, i) => events[i].down
    <3>1. \A i \in 1 .. n : more[i].key = key /\ IsLast(more, i)
                              <=> events[i].key = key /\ IsLast(events, i)
      BY <1>1, <1>4, <1>5
    <3>2. more[n + 1].key # key
      BY <1>1, <1>5
    <3>3. \A i : i \in DOMAIN more <=> i \in 1 .. n \/ i = n + 1
      BY <1>1
    <3> QED
      BY <1>1, <3>1, <3>2, <3>3
  <2> QED
    BY <2>1, <2>2, Zenon DEF Polled
<1>6. event.key \in Polled(more, keys) <=> event.down
  <2>1. event.key \in {e.key : e \in ToSet(more)}
    BY <1>2
  <2>2. \A i \in 1 .. n : ~(more[i].key = event.key /\ IsLast(more, i))
    BY <1>1, <1>4
  <2>3. (\A i \in DOMAIN more : more[i].key = event.key /\ IsLast(more, i) => more[i].down)
          <=> event.down
    <3>1. \A i : i \in DOMAIN more <=> i \in 1 .. n \/ i = n + 1
      BY <1>1
    <3> QED
      BY <1>1, <1>3, <2>2, <3>1
  <2> QED
    BY <2>1, <2>3, Zenon DEF Polled
<1> QED
  BY <1>5, <1>6 DEF more

(* A release of each key that was down leaves none down. *)
LEMMA PolledReleases ==
    ASSUME NEW events \in Seq(KeyEvents), NEW releases \in Seq(KeyEvents), NEW keys,
           \A i \in DOMAIN releases : releases[i].down = FALSE,
           \A i, j \in DOMAIN releases : releases[i].key = releases[j].key => i = j,
           \A key \in Polled(events, keys) : \E i \in DOMAIN releases : releases[i].key = key
    PROVE  Polled(events \o releases, keys) = {}
<1> DEFINE all == events \o releases
           n == Len(events)
           m == Len(releases)
<1>1. /\ n \in Nat /\ m \in Nat
      /\ DOMAIN events = 1 .. n /\ DOMAIN releases = 1 .. m /\ DOMAIN all = 1 .. n + m
      /\ \A i \in 1 .. n : all[i] = events[i]
      /\ \A i \in 1 .. m : all[n + i] = releases[i]
      /\ \A i \in n + 1 .. n + m : i - n \in 1 .. m /\ all[i] = releases[i - n]
  <2>1. n \in Nat /\ m \in Nat /\ DOMAIN events = 1 .. n /\ DOMAIN releases = 1 .. m
    OBVIOUS
  <2>2. DOMAIN all = 1 .. n + m /\ \A i \in 1 .. n + m :
          all[i] = IF i <= n THEN events[i] ELSE releases[i - n]
    BY <2>1
  <2>3. \A i \in 1 .. n : all[i] = events[i]
    BY <2>1, <2>2
  <2>4. \A i \in n + 1 .. n + m : i - n \in 1 .. m /\ all[i] = releases[i - n]
    BY <2>1, <2>2
  <2>5. \A i \in 1 .. m : all[n + i] = releases[i]
    BY <2>1, <2>2
  <2> HIDE DEF all
  <2> QED
    BY <2>1, <2>2, <2>3, <2>4, <2>5
<1>2. ToSet(all) = ToSet(events) \union ToSet(releases)
  <2>1. /\ ToSet(events) = {events[i] : i \in 1 .. n}
        /\ ToSet(releases) = {releases[i] : i \in 1 .. m}
        /\ ToSet(all) = {all[i] : i \in 1 .. n + m}
    BY <1>1 DEF ToSet
  <2> HIDE DEF all, n, m
  <2>2. \A i \in 1 .. n : i \in 1 .. n + m
    BY <1>1
  <2>3. \A i \in 1 .. m : n + i \in 1 .. n + m
    BY <1>1
  <2>4. \A i \in 1 .. n + m : i \in 1 .. n \/ i \in n + 1 .. n + m
    BY <1>1
  <2>5. ToSet(all) \subseteq ToSet(events) \union ToSet(releases)
    BY <1>1, <2>1, <2>4
  <2>6. ToSet(events) \subseteq ToSet(all)
    BY <1>1, <2>1, <2>2
  <2>7. ToSet(releases) \subseteq ToSet(all)
    BY <1>1, <2>1, <2>3
  <2> QED
    BY <2>5, <2>6, <2>7
<1> SUFFICES ASSUME NEW key \in Polled(all, keys) PROVE FALSE
  OBVIOUS
<1> HIDE DEF all, n, m
<1>3. CASE \E i \in 1 .. m : releases[i].key = key
  <2>1. PICK i \in 1 .. m : releases[i].key = key
    BY <1>3
  <2>2. n + i \in DOMAIN all /\ all[n + i].key = key /\ all[n + i].down = FALSE
    <3>1. n + i \in DOMAIN all /\ all[n + i] = releases[i] /\ i \in DOMAIN releases
      BY <1>1, <2>1
    <3> QED
      BY <2>1, <3>1
  <2>3. IsLast(all, n + i)
    <3>1. ASSUME NEW j \in n + 1 .. n + m, all[j].key = key PROVE j = n + i
      <4>1. j - n \in DOMAIN releases /\ all[j] = releases[j - n] /\ i \in DOMAIN releases
        BY <1>1
      <4>2. j - n = i
        BY <2>1, <3>1, <4>1
      <4> QED
        BY <1>1, <4>2
    <3>2. \A j \in DOMAIN all : j \in 1 .. n \/ j \in n + 1 .. n + m
      BY <1>1
    <3>3. \A j \in 1 .. n : j <= n + i
      BY <1>1, <2>1
    <3>4. \A j \in DOMAIN all : all[j].key = key => j <= n + i
      BY <1>1, <2>1, <3>1, <3>2, <3>3
    <3> QED
      BY <2>2, <3>4 DEF IsLast
  <2> QED
    BY <2>2, <2>3 DEF Polled
<1>4. CASE ~ \E i \in 1 .. m : releases[i].key = key
  <2>1. \A i \in 1 .. n : IsLast(events, i) /\ events[i].key = key => IsLast(all, i)
    BY <1>1, <1>4 DEF IsLast
  <2>2. key \notin {event.key : event \in ToSet(releases)}
    BY <1>1, <1>4 DEF ToSet
  <2>3. key \in Polled(events, keys)
    BY <1>1, <1>2, <2>1, <2>2 DEF Polled
  <2> QED
    BY <1>1, <1>4, <2>3
<1> QED
  BY <1>3, <1>4

(* A finite set's elements as a sequence, each of them once. *)
LEMMA SequenceOfSet ==
    ASSUME NEW S, IsFiniteSet(S)
    PROVE  /\ SetToSeq(S) \in Seq(S)
           /\ \A i, j \in DOMAIN SetToSeq(S) : SetToSeq(S)[i] = SetToSeq(S)[j] => i = j
           /\ \A x \in S : \E i \in DOMAIN SetToSeq(S) : SetToSeq(S)[i] = x
<1> DEFINE n == Cardinality(S)
           seq == SetToSeq(S)
<1>1. n \in Nat /\ IsFiniteSet(1 .. n) /\ Cardinality(1 .. n) = n
  BY FS_CardinalityType, FS_Interval
<1>2. PICK f : f \in Bijection(1 .. n, S)
  BY FS_CardinalityType DEF ExistsBijection
<1>3. f \in [1 .. n -> S] /\ IsInjective(f)
  BY <1>2 DEF Bijection, Injection, IsInjective
<1>4. seq \in [1 .. n -> S] /\ IsInjective(seq)
  <2>1. seq = CHOOSE g \in [1 .. n -> S] : IsInjective(g)
    BY DEF SetToSeq
  <2> HIDE DEF seq, n
  <2> QED
    BY <1>3, <2>1
<1>5. seq \in Surjection(1 .. n, S)
  <2>1. seq \in Injection(1 .. n, S)
    BY <1>4 DEF Injection, IsInjective
  <2> QED
    BY <1>1, <2>1, FS_Injection
<1> QED
  BY <1>1, <1>4, <1>5 DEF IsInjective, Surjection

LEMMA FewGameKeys == IsFiniteSet(GameKeys)
<1>1. IsFiniteSet({"up"})
  BY FS_Singleton
<1>2. IsFiniteSet({"up"} \union {"back"})
  BY <1>1, FS_AddElement
<1>3. IsFiniteSet(({"up"} \union {"back"}) \union {"strafe"})
  BY <1>2, FS_AddElement
<1>4. IsFiniteSet((({"up"} \union {"back"}) \union {"strafe"}) \union {"use"})
  BY <1>3, FS_AddElement
<1>5. IsFiniteSet(((({"up"} \union {"back"}) \union {"strafe"}) \union {"use"}) \union {"fire"})
  BY <1>4, FS_AddElement
<1>6. IsFiniteSet((((({"up"} \union {"back"}) \union {"strafe"}) \union {"use"})
                      \union {"fire"}) \union {"menu"})
  BY <1>5, FS_AddElement
<1>7. GameKeys = (((({"up"} \union {"back"}) \union {"strafe"}) \union {"use"})
                      \union {"fire"}) \union {"menu"}
  BY DEF GameKeys
<1> QED
  BY <1>6, <1>7

(* What a blur sends: a release of each key that is held. *)
LEMMA BlurReleases ==
    ASSUME KeyTypes
    PROVE  LET releases == SetToSeq({Key(FALSE, key) : key \in KeysOf(held)}) IN
               /\ releases \in Seq(KeyEvents)
               /\ \A i \in DOMAIN releases : releases[i].down = FALSE
               /\ \A i, j \in DOMAIN releases : releases[i].key = releases[j].key => i = j
               /\ \A key \in KeysOf(held) : \E i \in DOMAIN releases : releases[i].key = key
<1> DEFINE S == {Key(FALSE, key) : key \in KeysOf(held)}
           keyOf == [x \in S |-> x.key]
           releases == SetToSeq(S)
<1>1. KeysOf(held) \subseteq GameKeys
  BY KnownKeys DEF KeyTypes, KeysOf
<1>2. \A x \in S : x.down = FALSE /\ x.key \in GameKeys /\ x = Key(FALSE, x.key) /\ x \in KeyEvents
  <2>1. \A key \in GameKeys : /\ Key(FALSE, key).down = FALSE /\ Key(FALSE, key).key = key
                             /\ Key(FALSE, key) \in KeyEvents
    BY DEF Key, KeyEvents
  <2> QED
    BY <1>1, <2>1
<1>3. \A key \in KeysOf(held) : Key(FALSE, key) \in S /\ Key(FALSE, key).key = key
  BY DEF Key
<1> HIDE DEF S
<1>4. IsFiniteSet(S)
  <2>1. keyOf \in Injection(S, GameKeys)
    BY <1>2 DEF Injection, IsInjective
  <2> QED
    BY <2>1, FewGameKeys, FS_Injection
<1>5. /\ releases \in Seq(S)
      /\ \A i, j \in DOMAIN releases : releases[i] = releases[j] => i = j
      /\ \A x \in S : \E i \in DOMAIN releases : releases[i] = x
  BY <1>4, SequenceOfSet
<1> HIDE DEF releases
<1>6. \A i \in DOMAIN releases : releases[i] \in S
  BY <1>5
<1>7. releases \in Seq(KeyEvents)
  <2>1. Len(releases) \in Nat /\ DOMAIN releases = 1 .. Len(releases)
        /\ releases = [i \in 1 .. Len(releases) |-> releases[i]]
    BY <1>5
  <2>2. \A i \in 1 .. Len(releases) : releases[i] \in KeyEvents
    BY <1>2, <1>6, <2>1
  <2> QED
    BY <2>1, <2>2
<1>8. \A i, j \in DOMAIN releases : releases[i].key = releases[j].key => i = j
  <2> SUFFICES ASSUME NEW i \in DOMAIN releases, NEW j \in DOMAIN releases,
                      releases[i].key = releases[j].key
               PROVE  releases[i] = releases[j]
    BY <1>5
  <2> QED
    BY <1>2, <1>6
<1>9. ASSUME NEW key \in KeysOf(held)
      PROVE  \E i \in DOMAIN releases : releases[i].key = key
  <2>1. PICK i \in DOMAIN releases : releases[i] = Key(FALSE, key)
    BY <1>3, <1>5
  <2> QED
    BY <1>3, <2>1
<1> QED
  BY <1>2, <1>6, <1>7, <1>8, <1>9 DEF releases, S

LEMMA FreshKeysKeep ==
    ASSUME NEW hasFocus, FreshKeys(hasFocus)
    PROVE  KeysInv'
<1>1. Polled(<<>>, {}) = {} /\ KeysOf({}) = {}
  BY DEF Polled, KeysOf, ToSet
<1> QED
  BY <1>1 DEF FreshKeys, KeysInv, KeyTypes, NoStuckKey

LEMMA KeysLeftAlone ==
    ASSUME KeysInv, UNCHANGED keyVars, phase' = "running" => phase = "running"
    PROVE  KeysInv'
BY DEF KeysInv, KeyTypes, NoStuckKey, keyVars

LEMMA KeyDownKeeps ==
    ASSUME KeysInv, NEW code, KeyDown(code, phase = "running"), phase' = phase
    PROVE  KeysInv'
<1> DEFINE sent == Key(TRUE, DoomKey(code))
<1>1. CASE focused /\ phase = "running" /\ DoomKey(code) # None
  <2>1. code \in DOMAIN Bound
    BY <1>1 DEF DoomKey
  <2>2. DoomKey(code) \in GameKeys /\ sent \in KeyEvents
    BY <2>1, KnownKeys DEF Key, KeyEvents
  <2>3. /\ held' = held \union {code} /\ queue' = Append(queue, sent)
        /\ pressed' = pressed \union {code} /\ UNCHANGED <<focused, down>>
    BY <1>1 DEF KeyDown
  <2>4. KeysOf(held') = KeysOf(held) \union {DoomKey(code)}
    BY <2>3 DEF KeysOf
  <2>5. Polled(queue', down) = Polled(queue, down) \union {DoomKey(code)}
    <3>1. sent.down /\ sent.key = DoomKey(code)
      BY DEF Key
    <3> HIDE DEF sent
    <3> QED
      BY <2>2, <2>3, <3>1, PolledOneMore DEF KeysInv, KeyTypes
  <2>6. KeyTypes'
    BY <2>1, <2>2, <2>3, AppendProperties DEF KeysInv, KeyTypes
  <2> QED
    BY <1>1, <2>3, <2>4, <2>5, <2>6 DEF KeysInv, NoStuckKey
<1>2. CASE ~(focused /\ phase = "running" /\ DoomKey(code) # None)
  <2>1. UNCHANGED <<held, queue, focused, down>> /\ pressed \subseteq pressed'
    BY <1>2 DEF KeyDown
  <2> QED
    BY <2>1 DEF KeysInv, KeyTypes, NoStuckKey
<1> QED
  BY <1>1, <1>2

LEMMA KeyUpKeeps ==
    ASSUME KeysInv, NEW code, KeyUp(code), phase' = phase
    PROVE  KeysInv'
<1>1. CASE focused /\ code \in held
  <2>1. /\ held' = held \ {code} /\ queue' = queue \o Released(code, held')
        /\ pressed' = pressed \ {code} /\ UNCHANGED <<focused, down>>
    BY <1>1 DEF KeyUp
  <2>2. DoomKey(code) \in GameKeys /\ code \in DOMAIN Bound
    BY <1>1, KnownKeys DEF KeysInv, KeyTypes
  <2>3. KeysOf(held) = KeysOf(held') \union {DoomKey(code)}
    BY <1>1, <2>1 DEF KeysOf
  <2>4. CASE DoomKey(code) \in KeysOf(held')
    <3>1. queue' = queue
      BY <2>1, <2>4 DEF Released, StillHeld, KeysInv, KeyTypes
    <3>2. KeysOf(held') = KeysOf(held)
      BY <2>3, <2>4
    <3> QED
      BY <2>1, <3>1, <3>2 DEF KeysInv, KeyTypes, NoStuckKey
  <2>5. CASE DoomKey(code) \notin KeysOf(held')
    <3> DEFINE sent == Key(FALSE, DoomKey(code))
    <3>1. sent \in KeyEvents /\ ~sent.down /\ sent.key = DoomKey(code)
      BY <2>2 DEF Key, KeyEvents
    <3> HIDE DEF sent
    <3>2. queue' = queue \o <<sent>>
      BY <2>1, <2>5 DEF Released, StillHeld, sent
    <3>3. queue' = Append(queue, sent)
      BY <3>1, <3>2 DEF KeysInv, KeyTypes
    <3>4. Polled(queue', down) = Polled(queue, down) \ {DoomKey(code)}
      BY <3>1, <3>3, PolledOneMore DEF KeysInv, KeyTypes
    <3>5. KeysOf(held') = KeysOf(held) \ {DoomKey(code)}
      BY <2>3, <2>5
    <3>6. KeyTypes'
      <4>1. queue' \in Seq(KeyEvents)
        BY <3>1, <3>3, AppendProperties DEF KeysInv, KeyTypes
      <4>2. held' \subseteq DOMAIN Bound
        BY <2>1 DEF KeysInv, KeyTypes
      <4> QED
        BY <4>1, <4>2 DEF KeyTypes
    <3> QED
      BY <2>1, <3>4, <3>5, <3>6 DEF KeysInv, NoStuckKey
  <2> QED
    BY <2>4, <2>5
<1>2. CASE ~(focused /\ code \in held)
  <2>1. UNCHANGED <<held, queue, focused, down>> /\ pressed' = pressed \ {code}
    BY <1>2 DEF KeyUp
  <2>2. phase = "running" => code \notin held
    BY <1>2 DEF KeysInv, NoStuckKey
  <2> QED
    BY <2>1, <2>2 DEF KeysInv, KeyTypes, NoStuckKey
<1> QED
  BY <1>1, <1>2

LEMMA BlurKeeps ==
    ASSUME KeysInv, Blur, phase' = phase
    PROVE  KeysInv'
<1> DEFINE releases == SetToSeq({Key(FALSE, key) : key \in KeysOf(held)})
<1>1. /\ held' = {} /\ queue' = queue \o releases /\ UNCHANGED <<pressed, down>>
      /\ KeyTypes
  BY DEF Blur, KeysInv
<1>2. /\ releases \in Seq(KeyEvents)
      /\ \A i \in DOMAIN releases : releases[i].down = FALSE
      /\ \A i, j \in DOMAIN releases : releases[i].key = releases[j].key => i = j
      /\ \A key \in KeysOf(held) : \E i \in DOMAIN releases : releases[i].key = key
  BY <1>1, BlurReleases
<1> HIDE DEF releases
<1>3. KeyTypes'
  BY <1>1, <1>2, ConcatProperties DEF KeyTypes
<1>4. ASSUME phase = "running"
      PROVE  Polled(queue', down') = {}
  <2>1. Polled(queue, down) = KeysOf(held)
    BY <1>4 DEF KeysInv, NoStuckKey
  <2>2. queue \in Seq(KeyEvents)
    BY <1>1 DEF KeyTypes
  <2>3. \A key \in Polled(queue, down) : \E i \in DOMAIN releases : releases[i].key = key
    BY <1>2, <2>1
  <2>4. Polled(queue \o releases, down) = {}
    BY <1>2, <2>2, <2>3, PolledReleases, Zenon
  <2> QED
    BY <1>1, <2>4
<1>5. KeysOf(held') = {}
  BY <1>1 DEF KeysOf
<1> QED
  BY <1>1, <1>3, <1>4, <1>5 DEF KeysInv, NoStuckKey

LEMMA PollKeeps ==
    ASSUME KeysInv, Poll, phase' = phase
    PROVE  KeysInv'
<1>1. Polled(<<>>, Polled(queue, down)) = Polled(queue, down)
  BY DEF Polled, ToSet
<1> QED
  BY <1>1 DEF Poll, KeysInv, KeyTypes, NoStuckKey

(* What is not about keys leaves them as they are, or starts them afresh, as *)
(* whatever comes to run does.                                               *)
LEMMA OtherStepsLeaveKeys ==
    ASSUME Next, ~TakeFocus, ~KeyStep, ~ClickScreen, \A run \in Runs : ~Tick(run)
    PROVE  \/ \E hasFocus \in BOOLEAN : FreshKeys(hasFocus)
           \/ UNCHANGED keyVars /\ (phase' = "running" => phase = "running")
<1> DEFINE Leaves == \/ \E hasFocus \in BOOLEAN : FreshKeys(hasFocus)
                     \/ UNCHANGED keyVars /\ (phase' = "running" => phase = "running")
<1>1. ASSUME NEW to, NEW s, Go(to, s)
      PROVE  Leaves
  BY <1>1 DEF Go, Mount, Unmount, runVars
<1>2. ASSUME NEW to, Tab(to) \/ RunLine(to)
      PROVE  Leaves
  BY <1>1, <1>2 DEF Tab, RunLine
<1>3. ASSUME NEW s, Tune(s) \/ Land(s)
      PROVE  Leaves
  BY <1>1, <1>3 DEF Tune, Land, runVars
<1>4. CASE JournalKey \/ Exit
  BY <1>1, <1>4 DEF JournalKey, Exit
<1>5. CASE LineStep
  BY <1>5 DEF LineStep, runVars
<1>6. CASE RunDoom \/ Stop
  BY <1>6 DEF RunDoom, Stop, Mount, Unmount
<1>7. CASE Bytes \/ StrayBytes \/ StrayEnds \/ Downloaded
  BY <1>7 DEF Bytes, StrayBytes, Count, StrayEnds, Downloaded
<1>8. CASE FailDownload
  BY <1>8 DEF FailDownload
<1>9. ASSUME NEW run \in Runs, Arrive(run) \/ Start(run) \/ Quit(run)
      PROVE  Leaves
  BY <1>9 DEF Arrive, Start, Quit, Finish
<1> QED
  BY <1>2, <1>3, <1>4, <1>5, <1>6, <1>7, <1>8, <1>9 DEF Next

LEMMA StepKeepsKeys ==
    ASSUME KeysInv, [Next]_vars
    PROVE  KeysInv'
<1>1. CASE TakeFocus
  <2>1. phase' = phase /\ (Blur \/ UNCHANGED keyVars)
    BY <1>1 DEF TakeFocus, runVars
  <2> QED
    BY <2>1, BlurKeeps, KeysLeftAlone
<1>2. CASE KeyStep
  <2>1. /\ phase' = phase
        /\ \/ \E code \in Codes : KeyDown(code, phase = "running") \/ KeyUp(code)
           \/ Blur
    BY <1>2 DEF KeyStep, runVars
  <2> QED
    BY <2>1, KeyDownKeeps, KeyUpKeeps, BlurKeeps
<1>3. CASE ClickScreen
  BY <1>3 DEF ClickScreen, Focus, runVars, KeysInv, KeyTypes, NoStuckKey
<1>4. CASE \E run \in Runs : Tick(run)
  BY <1>4, PollKeeps DEF Tick, runVars
<1>5. CASE UNCHANGED vars
  BY <1>5, KeysLeftAlone DEF vars, runVars
<1> QED
  BY <1>1, <1>2, <1>3, <1>4, <1>5, OtherStepsLeaveKeys, FreshKeysKeep, KeysLeftAlone

(* Once the queue is polled, the keys that are down to the game are those of *)
(* the codes that the user holds, whatever is pressed, repeated and released *)
(* of two codes of one key, and none once the focus is gone (DoomScreen's    *)
(* onKeyDown, release and onBlur).                                           *)
THEOREM NoKeySticks == Spec => []NoStuckKey
<1>1. Init => KeysInv
  BY DEF Init, KeysInit, KeysInv, KeyTypes, NoStuckKey
<1>2. KeysInv /\ [Next]_vars => KeysInv'
  BY StepKeepsKeys
<1>3. KeysInv => NoStuckKey
  BY DEF KeysInv
<1> QED
  BY <1>1, <1>2, <1>3, PTL DEF Spec
=============================================================================
