----------------------------- MODULE JournalSheet -----------------------------
(***************************************************************************)
(* The console's journal sheet over the journal it pages.  The user tunes  *)
(* to a channel, selects matches, asks for older rows, retries and leaves; *)
(* each load is a request the server answers and whose answer lands in a   *)
(* step of its own, in any order, or fails.                                *)
(*                                                                         *)
(* The list is kept as its pages, each a set of rows, newest first, and a  *)
(* row as it was read: at the position its match had then.  React runs a   *)
(* render's effects before the next event, so an event's effects           *)
(* are part of its action, and an effect's cleanup, after which an answer  *)
(* is not looked at, withdraws the request.                                *)
(***************************************************************************)
EXTENDS Journal, Sequences, Functions

CONSTANT Slots   \* names for older pages under way: as many as there can be at once

VARIABLES
    mounted,   \* the journal sheet is the one shown
    channel,   \* ?channel= in the URL
    selected,  \* ?match= in the URL
    journal,   \* the list: its status, pages, next cursor and more
    detail,    \* the resource that loads the selected match
    inspect,   \* the trace's inspector: on a gate of the match named, or on the coil
    asks,      \* requests under way
    steady,    \* history: what the channel held when this load was answered, and has since,
               \*   and which was not moved to a newer position
    mixed      \* history: an older page asked for in another load landed in this one

listVars == <<journal, steady, mixed>>
sheetVars == <<mounted, channel, selected, journal, detail, inspect, asks, steady, mixed>>
vars == <<journalVars, sheetVars>>

Resources == INSTANCE Resource

(* What a list's request has been answered: nothing yet, a failure or a page. *)
Unanswered == [is |-> "asked"]
Failure == [is |-> "failed"]
Answers == {Unanswered, Failure}
    \union [is : {"page"}, rows : SUBSET Rows, next : Positions \union {None}]

ListAsks == [for : {"list"}, channel : Channels, cursor : {None}, answer : Answers]
OlderAsks ==
    [for : {"older"}, slot : Slots, channel : Channels, cursor : Positions,
     answer : Answers, late : BOOLEAN]
DetailAsks == [for : {"detail"}, match : Matches]
Asks == ListAsks \union OlderAsks \union DetailAsks

Lists ==
    [status : {"loading", "ready", "error"}, pages : Seq(SUBSET Rows),
     next : Positions \union {None}, more : {"idle", "loading", "error"}]

------------------------------------------------------------------------------
(* The effects. *)

LoadingList == [status |-> "loading", pages |-> <<>>, next |-> None, more |-> "idle"]

ListAsk(c) == [for |-> "list", channel |-> c, cursor |-> None, answer |-> Unanswered]

DetailAsk(match) == IF match = None THEN {} ELSE {[for |-> "detail", match |-> match]}

(* Mutant: the detail's cleanup withdraws nothing. *)
NoneWithdrawn(kind, requests) == requests

(* An effect's cleanup. *)
Withdrawn(kind, requests) == {ask \in requests : ask.for # kind}

(* Older pages have no cleanup: from now on they are of an earlier load. *)
Outlasting(requests) ==
    {IF ask.for = "older" THEN [ask EXCEPT !.late = TRUE] ELSE ask : ask \in requests}

RowsShown(j) == UNION Range(j.pages)

MatchesShown(j) == MatchesOf(RowsShown(j))

(* With nothing selected, the match of a ready list's first row is. *)
AutoSelected(j, match) ==
    IF match = None /\ j.status = "ready" /\ RowsShown(j) # {}
    THEN LET first == CHOOSE p \in DOMAIN j.pages :
                          j.pages[p] # {} /\ \A q \in 1 .. (p - 1) : j.pages[q] = {}
         IN  (CHOOSE row \in j.pages[first] : \A other \in j.pages[first] : other.at =< row.at).match
    ELSE match

(* The list loads afresh: on mount, for a new channel, on Retry. *)
LoadList ==
    /\ journal' = LoadingList
    /\ steady' = Matches
    /\ mixed' = FALSE

ListAsked(c, requests) == Outlasting(Withdrawn("list", requests)) \union {ListAsk(c)}

(* The detail loads the selection, and has nothing to ask for without one. *)
LoadDetail(from, match) ==
    detail' = IF match = None
              THEN Resources!Landed(from, None)
              ELSE Resources!Restarted(from)

DetailAsked(match, requests) == Withdrawn("detail", requests) \union DetailAsk(match)

(* The URL's match becomes this one; the detail's effect runs if it changed. *)
Show(match, requests) ==
    /\ selected' = match
    /\ IF match = selected
       THEN asks' = requests /\ UNCHANGED detail
       ELSE asks' = DetailAsked(match, requests) /\ LoadDetail(detail, match)

(* select(): the inspector goes back to the coil. *)
Choose(match, requests) == Show(match, requests) /\ inspect' = None

(* The effect that selects when nothing is, on what list there now is. *)
AutoSelect(j, requests) ==
    LET match == AutoSelected(j, selected) IN
    IF match = selected
    THEN Show(selected, requests) /\ UNCHANGED inspect
    ELSE Choose(match, requests)

------------------------------------------------------------------------------
(* The user. *)

(* What the list pane shows: its buttons come with it. *)
Body ==
    IF journal.status = "loading" THEN "skeleton"
    ELSE IF journal.status = "error" THEN "retry"
    ELSE IF RowsShown(journal) = {} THEN "empty"
    ELSE "rows"

OffersMore == Body = "rows" /\ journal.next # None /\ journal.more # "loading"

(* What the trace pane shows. *)
TracePane ==
    IF selected = None THEN "none"
    ELSE IF detail.data = selected THEN "trace"
    ELSE IF detail.status = "error" THEN "error"
    ELSE "loading"

(* Tuning replaces the URL's parameters: the channel loads if it is another, *)
(* and nothing is selected until a list is there to select from.             *)
Tune(target) ==
    /\ mounted
    /\ channel' = target
    /\ IF target = channel
       THEN /\ IF AutoSelected(journal, None) = None
               THEN Show(None, asks) /\ UNCHANGED inspect
               ELSE Choose(AutoSelected(journal, None), asks)
            /\ UNCHANGED listVars
       ELSE LoadList /\ Show(None, ListAsked(target, asks)) /\ UNCHANGED inspect
    /\ UNCHANGED mounted

Select(match) ==
    /\ mounted
    /\ Body = "rows" /\ match \in MatchesShown(journal)
    /\ Choose(match, asks)
    /\ UNCHANGED <<mounted, channel, listVars>>

(* A chip of "Also energised by this transaction": of any rule of the owner's. *)
Jump(match) ==
    /\ mounted
    /\ TracePane = "trace"
    /\ match # selected /\ TransactionOf[match] = TransactionOf[selected]
    /\ stage[match] # "new"
    /\ channel' = All
    /\ IF channel = All
       THEN Choose(match, asks) /\ UNCHANGED listVars
       ELSE LoadList /\ Choose(match, ListAsked(All, asks))
    /\ UNCHANGED mounted

LoadMore(slot) ==
    /\ mounted
    /\ OffersMore
    /\ \A ask \in asks : ask.for = "older" => ask.slot # slot
    /\ journal' = [journal EXCEPT !.more = "loading"]
    /\ asks' = asks \union
           {[for |-> "older", slot |-> slot, channel |-> channel,
             cursor |-> journal.next, answer |-> Unanswered, late |-> FALSE]}
    /\ UNCHANGED <<mounted, channel, selected, detail, inspect, steady, mixed>>

Retry ==
    /\ mounted
    /\ Body = "retry"
    /\ LoadList
    /\ asks' = ListAsked(channel, asks)
    /\ UNCHANGED <<mounted, channel, selected, detail, inspect>>

RetryDetail ==
    /\ mounted
    /\ detail.status = "error"
    /\ LoadDetail(detail, selected)
    /\ asks' = DetailAsked(selected, asks)
    /\ UNCHANGED <<mounted, channel, selected, inspect, listVars>>

(* A gate of the circuit is picked, or a row of the chain of gates. *)
Inspect ==
    /\ mounted /\ TracePane = "trace"
    /\ inspect' = selected
    /\ UNCHANGED <<mounted, channel, selected, detail, asks, listVars>>

Unpin ==
    /\ mounted /\ TracePane = "trace"
    /\ inspect' = None
    /\ UNCHANGED <<mounted, channel, selected, detail, asks, listVars>>

(* Another sheet: what this one held is gone, and what it asked for with it. *)
Leave ==
    /\ mounted
    /\ mounted' = FALSE
    /\ asks' = {}
    /\ LoadList
    /\ detail' = Resources!Unloaded
    /\ inspect' = None
    /\ UNCHANGED <<channel, selected>>

(* Back, by a tab that remembers the URL or a link that has its own. *)
Return(c, match) ==
    /\ ~mounted
    /\ mounted' = TRUE
    /\ <<c, match>> = <<channel, selected>> \/ match = None
    /\ channel' = c
    /\ selected' = match
    /\ LoadList
    /\ LoadDetail(detail, match)
    /\ asks' = {ListAsk(c)} \union DetailAsk(match)
    /\ UNCHANGED inspect

------------------------------------------------------------------------------
(* Answers. *)

(* The server answers a list's request, or the request fails. *)
Answer(ask) ==
    /\ ask.for # "detail" /\ ask.answer = Unanswered
    /\ \E answer \in {PageOf(ask.channel, ask.cursor), Failure} :
           asks' = (asks \ {ask}) \union {[ask EXCEPT !.answer = answer]}
    /\ steady' = IF ask.for = "list" THEN Held(ask.channel) ELSE steady
    /\ UNCHANGED <<mounted, channel, selected, journal, detail, inspect, mixed>>

LandList(ask) ==
    /\ ask.for = "list" /\ ask.answer # Unanswered
    /\ journal' =
           IF ask.answer = Failure
           THEN [LoadingList EXCEPT !.status = "error"]
           ELSE [LoadingList EXCEPT !.status = "ready",
                     !.pages = <<ask.answer.rows>>, !.next = ask.answer.next]
    /\ mixed' = FALSE
    /\ AutoSelect(journal', asks \ {ask})
    /\ UNCHANGED <<mounted, channel, steady>>

(* Mutant: an older page lands on any channel's list. *)
AnyChannel(ask) == TRUE

(* An older page lands on whatever list its channel has by then. *)
SameChannel(ask) == ask.channel = channel

LandOlder(ask) ==
    /\ ask.for = "older" /\ ask.answer # Unanswered
    /\ journal' =
           IF ~SameChannel(ask) THEN journal
           ELSE IF ask.answer = Failure THEN [journal EXCEPT !.more = "error"]
           ELSE [journal EXCEPT !.pages = Append(@, ask.answer.rows),
                     !.next = ask.answer.next, !.more = "idle"]
    /\ mixed' = (mixed \/ (SameChannel(ask) /\ ask.late))
    /\ AutoSelect(journal', asks \ {ask})
    /\ UNCHANGED <<mounted, channel, steady>>

(* A match's request is answered, or fails: what it finds does not change. *)
LandDetail(ask) ==
    /\ ask.for = "detail"
    /\ asks' = asks \ {ask}
    /\ detail' \in {Resources!FailureLanded(detail), Resources!Landed(detail, ask.match)}
    /\ UNCHANGED <<mounted, channel, selected, inspect, listVars>>

------------------------------------------------------------------------------
Init ==
    /\ JournalInit
    /\ mounted = TRUE
    /\ channel \in Channels
    /\ selected \in Matches \union {None}
    /\ journal = LoadingList
    /\ detail = IF selected = None
                THEN Resources!Landed(Resources!Unloaded, None)
                ELSE Resources!Unloaded
    /\ inspect = None
    /\ asks = {ListAsk(channel)} \union DetailAsk(selected)
    /\ steady = Matches
    /\ mixed = FALSE

UserStep ==
    \/ \E c \in Channels : Tune(c)
    \/ \E m \in Matches : Select(m) \/ Jump(m)
    \/ \E slot \in Slots : LoadMore(slot)
    \/ Retry \/ RetryDetail \/ Inspect \/ Unpin \/ Leave
    \/ \E c \in Channels, m \in Matches \union {None} : Return(c, m)

AnswerStep == \E ask \in asks : Answer(ask) \/ LandList(ask) \/ LandOlder(ask) \/ LandDetail(ask)

ServerStep ==
    /\ JournalStep
    /\ steady' = {m \in steady :
                      /\ stage'[m] # "deleted" /\ RuleOf[m] \in armed'
                      /\ position'[m] =< position[m]}
    /\ UNCHANGED <<mounted, channel, selected, journal, detail, inspect, asks, mixed>>

Next ==
    \/ (UserStep \/ AnswerStep) /\ UNCHANGED journalVars
    \/ ServerStep

(* A match's request is answered, or fails, in the end; the user and the *)
(* journal do as they please.                                            *)
Spec ==
    /\ Init /\ [][Next]_vars
    /\ \A match \in Matches :
           WF_vars((\E ask \in DetailAsk(match) \cap asks : LandDetail(ask)) /\ UNCHANGED journalVars)

------------------------------------------------------------------------------
SheetTypeOK ==
    /\ stage \in [Matches -> {"new", "recorded", "deleted"}]
    /\ position \in [Matches -> Positions]
    /\ armed \subseteq Rules
    /\ mounted \in BOOLEAN
    /\ channel \in Channels
    /\ selected \in Matches \union {None}
    /\ journal \in Lists
    /\ detail \in Resources!ResourceOf(Matches)
    /\ inspect \in Matches \union {None}
    /\ asks \subseteq Asks
    /\ steady \subseteq Matches
    /\ mixed \in BOOLEAN

(* The rows listed are the tuned channel's own, however late an answer lands *)
(* and whichever channel it was asked for: the checks of live and of the     *)
(* channel in JournalSheet's load effect and loadMore.                       *)
RowsOfChannel == \A m \in MatchesShown(journal) : OnChannel(channel, m)

ListFaithful ==
    /\ \A p, q \in DOMAIN journal.pages :
           p < q => \A row \in journal.pages[p], older \in journal.pages[q] : older.at < row.at
    /\ journal.status = "ready" =>
           \A m \in steady :
               OnChannel(channel, m) /\ (journal.next = None \/ journal.next =< position[m])
                   => m \in MatchesShown(journal)

(* The list is newest first, by where its matches were when each page was    *)
(* read, so it has a match twice only if storing blocks again moved it       *)
(* between two pages, to an older position.  And down to where the next page *)
(* starts it leaves out nothing that the channel held from the load's answer *)
(* on, but for what was moved to a newer position since.  A list on which an *)
(* older page of an earlier load landed is exempt from both.                 *)
OnlyMixedOrMovedMislists == mixed \/ ListFaithful

(* What a ready detail holds is the selection's, as useResource says that a  *)
(* stale response never lands, and a gate inspected is one of the match      *)
(* shown: not one picked on the match shown before it.                       *)
TraceOfSelection ==
    /\ mounted /\ detail.status = "ready" => detail.data = selected
    /\ TracePane = "trace" /\ inspect # None => inspect = selected

(* A match that stays selected has its trace, or its failure, shown in the   *)
(* end, whatever was selected before it and in whatever order answers land.  *)
TraceSettles ==
    \A match \in Matches :
        mounted /\ selected = match ~> ~mounted \/ selected # match \/ TracePane # "loading"
=============================================================================
