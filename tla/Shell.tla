-------------------------------- MODULE Shell --------------------------------
(***************************************************************************)
(* The console's shell: the sheet shown, the journal's search in the URL    *)
(* and as it was last, and the command line at the end of the status line.  *)
(* What a sheet does when it is shown or gone is its own.                   *)
(***************************************************************************)
CONSTANTS
    Searches,  \* what the journal's URL can search: a channel and a match
    Plain,     \* neither of them
    Typed,     \* what is typed into the command line, but for nothing
    Nothing    \* no sheet, no search

ASSUME ShellAssumption == Plain \in Searches

VARIABLES
    sheet,       \* the sheet shown
    search,      \* the journal's, if it is the one
    remembered,  \* what brings the journal back as it was
    left,        \* history: the journal's search when it was left
    line,        \* the command line: closed, or what is typed into it
    typing       \* the command line has the keyboard

lineVars == <<line, typing>>
sheetVars == <<sheet, search, remembered, left>>
shellVars == <<sheetVars, lineVars>>

(* Mutant: a journal that searches for nothing is not worth remembering. *)
NotPlain(s) == IF s = Plain THEN remembered ELSE s

(* The journal's effect on its URL. *)
Remembered(s) == s

(* A sheet is navigated to; the journal with a search. *)
Show(to, s) ==
    /\ sheet' = to
    /\ search' = IF to = "journal" THEN s ELSE Nothing
    /\ remembered' = IF to = "journal" THEN Remembered(s) ELSE remembered
    /\ left' = IF sheet = "journal" /\ to # "journal" THEN search ELSE left

(* The journal tunes to a channel or selects a match. *)
Search(s) == sheet = "journal" /\ Show("journal", s)

------------------------------------------------------------------------------
(* The command line. *)

Closed == "closed"

Close == line' = Closed /\ typing' = FALSE

(* By its cursor, or by ":" where nothing else is typed into. *)
OpenLine ==
    /\ line = Closed
    /\ line' = "" /\ typing' = TRUE

ClickLine ==
    /\ line # Closed /\ ~typing
    /\ typing' = TRUE
    /\ UNCHANGED line

TypeLine(text) ==
    /\ typing
    /\ line' = text
    /\ UNCHANGED typing

Escape == typing /\ Close

(* Mutant: the line stays as it is when it loses the focus. *)
LeftOpen == line

(* An empty line closes when it loses the focus. *)
LineLeft == IF line = "" THEN Closed ELSE line

(* Something else gets the focus. *)
FocusTaken ==
    IF typing THEN line' = LineLeft /\ typing' = FALSE ELSE UNCHANGED lineVars

(* The sheet that a typed line goes to, if any. *)
RunCommand(text) ==
    CASE text = "doom"     -> "terminal"
      [] text = "journal"  -> "journal"
      [] text = "circuits" -> "circuits"
      [] text = "new"      -> "new"
      [] OTHER             -> Nothing

(* Enter: an empty line closes, one that goes to no sheet gets a reply. *)
Reply ==
    /\ typing /\ RunCommand(line) = Nothing
    /\ IF line = "" THEN Close ELSE line' = "" /\ UNCHANGED typing

(* One that goes to a sheet closes behind it. *)
Command(to) ==
    /\ typing /\ RunCommand(line) = to /\ to # Nothing
    /\ Close

------------------------------------------------------------------------------
ShellInit ==
    /\ sheet = "journal" /\ search \in Searches
    /\ remembered = search /\ left = search
    /\ line = Closed /\ typing = FALSE
=============================================================================
