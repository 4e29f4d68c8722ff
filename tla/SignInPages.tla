---------------------------- MODULE SignInPages ----------------------------
(***************************************************************************)
(* One browser tab on the signed-out pages and in and out of the console:  *)
(* the sign-in, registration and link pages, the guard of the console's    *)
(* sheets, and the handler of a 401 it installs while it is mounted.  A    *)
(* call is asked and lands in steps of their own, in any order; that a     *)
(* session starts or ends before an answer lands, or that an answer is     *)
(* lost, is among what happens elsewhere.  A page load drops whatever the  *)
(* tab had under way, and only sessionStorage outlives it.                 *)
(*                                                                         *)
(* A navigation changes the URL at once, and what is rendered follows in a *)
(* step of its own, as a second 401 can come between the two.              *)
(***************************************************************************)
EXTENDS LoginLinks, Naturals

CONSTANTS
    Sheets,     \* the console's sheets, by their URL
    Default,    \* the sheet to land on when none is remembered
    Ours,       \* the requests that this tab makes
    Calls,      \* names for sign-in calls under way: as many as there can be at once
    MaxDenied,  \* how many of the console's calls are denied at once at most
    MaxTimers   \* how many lock timers a visitor starts before the first fires

ASSUME PagesAssumption ==
    /\ Default \in Sheets /\ Ours \subseteq Requests /\ MaxDenied \in Nat /\ MaxTimers \in Nat
    /\ Sheets \cap {"signin", "link", "register", "consume", None} = {}

VARIABLES
    session,    \* the server has a session for this browser
    path,       \* the URL; "link" is /signin?via=link
    shown,      \* the URL that is rendered
    panel,      \* the state of the rendered page: its panel, or the guard's status
    signal,     \* the page's signal; a locked one is still called locking
    cooldown,   \* the link panel counts down to another link
    sending,    \* the page has asked for a link to be sent
    calls,      \* sign-in calls: who asked, a form, its page, or one since gone, and for a link
    denied,     \* how many of the console's calls are answered 401 and have yet to land
    leaving,    \* the call that signs out is under way
    timers,     \* lock timers that have yet to fire
    stored,     \* the destination in sessionStorage
    turned      \* history: where the visitor was last turned away from, until a landing

pageVars == <<path, shown, panel, signal, cooldown, sending>>
callVars == <<calls, denied, leaving, timers>>
vars == <<linkVars, session, pageVars, callVars, stored, turned>>

SignInPaths == {"signin", "link"}
AuthPaths == SignInPaths \union {"register", "consume"}

NoCall == [by |-> "nobody", request |-> None]

Settled == shown = path
Locking == signal = "locking"

------------------------------------------------------------------------------
(* Destinations and signals. *)

(* Mutant: a sign-in page is a destination like any other. *)
AnyPath(p) == TRUE

(* The pages that a sign-in can lead to. *)
Rememberable(p) == p \notin {"signin", "register"}

(* Turned away: the URL is remembered, and the sign-in page replaces it. *)
TurnAway ==
    /\ stored' = IF Rememberable(path) THEN path ELSE stored
    /\ turned' = IF path \in Sheets THEN path ELSE turned
    /\ path' = "signin"

Destination == IF stored = None THEN Default ELSE stored

(* Mutant: a request for a link that fails leaves the signal tuning. *)
Unfaulted(sig) == sig

(* fault(): the signal drops, and fades to none some time after. *)
Faulted(sig) == "fault"

------------------------------------------------------------------------------
(* Rendering. *)

(* What a page starts with: a guard is checking, as it asks who is signed in. *)
FirstPanel(p) ==
    CASE p = "signin"   -> "password"
      [] p = "link"     -> "enter"
      [] p = "register" -> "register"
      [] p \in Sheets   -> "checking"

Mounted(p) ==
    /\ panel' = FirstPanel(p)
    /\ signal' = "none"
    /\ cooldown' = FALSE
    /\ sending' = FALSE

(* The form that made a call is gone; its page may be. *)
Orphaned(by) ==
    [c \in Calls |-> IF calls[c].by \in {"form", "page"} THEN [calls[c] EXCEPT !.by = by] ELSE calls[c]]

(* The panel follows the query string, but never out of expired. *)
Followed(p) ==
    CASE panel = "expired"                -> "expired"
      [] p = "link" /\ panel = "sent"     -> "sent"
      [] p = "link" /\ panel \notin {"sent", "expired"} -> "enter"
      [] p = "signin" /\ panel # "expired" -> "password"

FormGone(next) == IF next = "password" THEN calls ELSE Orphaned("page")

Render ==
    /\ ~Settled
    /\ shown' = path
    /\ IF {shown, path} \subseteq Sheets
       THEN UNCHANGED <<panel, signal, cooldown, sending, calls>>
       ELSE IF {shown, path} \subseteq SignInPaths
       THEN /\ panel' = Followed(path)
            /\ calls' = FormGone(panel')
            /\ UNCHANGED <<signal, cooldown, sending>>
       ELSE Mounted(path) /\ calls' = Orphaned("gone")
    /\ UNCHANGED <<linkVars, session, path, denied, leaving, timers, stored, turned>>

------------------------------------------------------------------------------
(* The visitor. *)

(* A page load: what the tab had under way is gone. *)
Loaded(p) ==
    /\ path' = p /\ shown' = p
    /\ denied' = 0 /\ leaving' = FALSE /\ timers' = 0
    /\ UNCHANGED <<session, stored, turned>>

Visit(p) ==
    /\ Loaded(p) /\ Mounted(p)
    /\ calls' = [c \in Calls |-> NoCall]
    /\ UNCHANGED linkVars

(* A link from an email, or one whose token was left out. *)
VisitLink(r, l) ==
    /\ Loaded("consume")
    /\ Open(r, l)
    /\ \E first \in Calls :
           calls' = [c \in Calls |->
                        IF c = first THEN [by |-> "form", request |-> r] ELSE NoCall]
    /\ panel' = "working" /\ signal' = "tuning"
    /\ cooldown' = FALSE /\ sending' = FALSE

VisitTokenless ==
    /\ Loaded("consume")
    /\ calls' = [c \in Calls |-> NoCall]
    /\ panel' = "expired" /\ signal' = "none"
    /\ cooldown' = FALSE /\ sending' = FALSE
    /\ UNCHANGED linkVars

(* A tab, a link of a panel, or the browser's way back. *)
GoTo(p) ==
    /\ Settled /\ shown \in AuthPaths /\ panel # "working"
    /\ p # path
    /\ panel = "failed" => p = "signin"
    /\ path' = p
    /\ UNCHANGED <<linkVars, session, shown, panel, signal, cooldown, sending, callVars, stored, turned>>

Browse(sheet) ==
    /\ Settled /\ panel = "authenticated"
    /\ sheet # path
    /\ path' = sheet
    /\ UNCHANGED <<linkVars, session, shown, panel, signal, cooldown, sending, callVars, stored, turned>>

(* What the panels offer: a form whose call is under way does not. *)
FormIdle == \A c \in Calls : calls[c].by # "form"

PasswordOffered == Settled /\ panel = "password" /\ signal \in {"none", "fault"} /\ FormIdle

RegistrationOffered == Settled /\ panel = "register" /\ ~Locking /\ FormIdle

LinkOffered == Settled /\ panel = "enter" /\ ~Locking /\ ~sending

ResendOffered == Settled /\ panel = "sent" /\ ~Locking /\ ~sending /\ ~cooldown

RestartOffered == Settled /\ panel \in {"expired", "sent"} /\ ~Locking

(* A form's username and password are sent. *)
Called(c) ==
    /\ calls[c] = NoCall /\ timers < MaxTimers
    /\ calls' = [calls EXCEPT ![c] = [by |-> "form", request |-> None]]
    /\ UNCHANGED <<linkVars, session, pageVars, denied, leaving, timers, stored, turned>>

Submit(c) == PasswordOffered /\ Called(c)

Register(c) == RegistrationOffered /\ Called(c)

(* A link is asked for, or another one. *)
Send ==
    /\ LinkOffered \/ ResendOffered
    /\ sending' = TRUE /\ signal' = "tuning"
    /\ UNCHANGED <<linkVars, session, path, shown, panel, cooldown, callVars, stored, turned>>

Restart ==
    /\ RestartOffered
    /\ panel' = "enter" /\ cooldown' = FALSE
    /\ UNCHANGED <<linkVars, session, path, shown, signal, sending, callVars, stored, turned>>

SignOut ==
    /\ Settled /\ panel = "authenticated"
    /\ ~leaving /\ leaving' = TRUE
    /\ UNCHANGED <<linkVars, session, pageVars, calls, denied, timers, stored, turned>>

------------------------------------------------------------------------------
(* The server, and what goes on elsewhere. *)

(* The console asks for something of its own, and there is no session. *)
Deny ==
    /\ panel = "authenticated" /\ ~session
    /\ denied < MaxDenied
    /\ denied' = denied + 1
    /\ UNCHANGED <<linkVars, session, pageVars, calls, leaving, timers, stored, turned>>

(* A link's request goes its way, whoever made it. *)
RedeemStep(r) ==
    /\ \/ Redeem(r) /\ UNCHANGED session
       \/ SignIn(r) /\ session' = (session \/ r \in Ours)
       \/ Refuse(r) /\ UNCHANGED session
    /\ UNCHANGED <<pageVars, callVars, stored, turned>>

(* Links are sent, lapse and are opened elsewhere; this browser's session *)
(* ends, or one starts, from another tab or by a call whose answer is lost. *)
Elsewhere ==
    /\ \/ (\E l \in Links : IssueLink(l) \/ Lapse(l)) /\ UNCHANGED session
       \/ (\E r \in Requests \ Ours, l \in Links : Open(r, l)) /\ UNCHANGED session
       \/ session' = ~session /\ UNCHANGED linkVars
    /\ UNCHANGED <<pageVars, callVars, stored, turned>>

------------------------------------------------------------------------------
(* Landings.  An answer that is lost lands as a failure. *)

(* A call's answer can say this: a link's is its request's outcome. *)
AcceptedBy(c) ==
    IF calls[c].request = None THEN calls[c].by # "nobody"
    ELSE redeems[calls[c].request].step = "signed_in"

TokenRefused(c) ==
    calls[c].request # None /\ redeems[calls[c].request].step \in {"expired", "refused"}

(* lock(): the signal of the page locks, if the page is still there, and a *)
(* timer starts that hands over to the console.                            *)
LandAccepted(c) ==
    /\ AcceptedBy(c)
    /\ session' \in {TRUE, session}
    /\ timers' = timers + 1
    /\ IF calls[c].by = "gone"
       THEN calls' = [calls EXCEPT ![c] = NoCall] /\ UNCHANGED signal
       ELSE calls' = [Orphaned("page") EXCEPT ![c] = NoCall] /\ signal' = "locking"
    /\ UNCHANGED <<linkVars, path, shown, panel, cooldown, sending, denied, leaving, stored, turned>>

(* A failure drops the signal of its page, though the form may be gone. *)
RejectPassword == shown \in SignInPaths /\ signal' = "fault" /\ UNCHANGED panel

RejectRegistration == shown = "register" /\ signal' = "fault" /\ UNCHANGED panel

RejectLink(c) ==
    /\ shown = "consume" /\ signal' = "none"
    /\ panel' \in {"failed"} \union (IF TokenRefused(c) THEN {"expired"} ELSE {})

LandRefused(c) ==
    /\ calls[c].by # "nobody"
    /\ calls' = [calls EXCEPT ![c] = NoCall]
    /\ IF calls[c].by = "gone"
       THEN UNCHANGED <<panel, signal>>
       ELSE RejectPassword \/ RejectRegistration \/ RejectLink(c)
    /\ UNCHANGED <<linkVars, session, path, shown, cooldown, sending, denied, leaving,
                   timers, stored, turned>>

LandSent ==
    /\ sending /\ sending' = FALSE
    /\ panel' = "sent" /\ cooldown' = TRUE /\ signal' = "none"
    /\ calls' = FormGone("sent")
    /\ UNCHANGED <<linkVars, session, path, shown, denied, leaving, timers, stored, turned>>

LandUnsent ==
    /\ sending /\ sending' = FALSE
    /\ signal' = Faulted(signal)
    /\ UNCHANGED <<linkVars, session, path, shown, panel, cooldown, callVars, stored, turned>>

(* Who is signed in: an operator, or the visitor is turned away, which is *)
(* also what comes of a failure.                                          *)
LandMe ==
    /\ panel = "checking"
    /\ \/ session /\ panel' = "authenticated" /\ UNCHANGED <<path, stored, turned>>
       \/ panel' = "anonymous" /\ TurnAway
    /\ UNCHANGED <<linkVars, session, shown, signal, cooldown, sending, callVars>>

(* A 401 turns the visitor away while a guard is mounted, whatever guard. *)
LandDenied ==
    /\ denied > 0 /\ denied' = denied - 1
    /\ IF shown \in Sheets THEN TurnAway ELSE UNCHANGED <<path, stored, turned>>
    /\ UNCHANGED <<linkVars, session, shown, panel, signal, cooldown, sending, calls, leaving, timers>>

(* Signed out or not, the sign-in page is next. *)
LandSignOut ==
    /\ leaving /\ leaving' = FALSE
    /\ session' \in {FALSE, session}
    /\ path' = "signin"
    /\ UNCHANGED <<linkVars, shown, panel, signal, cooldown, sending, calls, denied, timers, stored, turned>>

(* The lock's timer: on to the destination, which is read once and cleared. *)
HandOver ==
    /\ timers > 0 /\ timers' = timers - 1
    /\ path' = Destination
    /\ stored' = None /\ turned' = None
    /\ UNCHANGED <<linkVars, session, shown, panel, signal, cooldown, sending, calls, denied, leaving>>

FaultFades ==
    /\ signal = "fault" /\ signal' = "none"
    /\ UNCHANGED <<linkVars, session, path, shown, panel, cooldown, sending, callVars, stored, turned>>

CoolsDown ==
    /\ cooldown /\ cooldown' = FALSE
    /\ UNCHANGED <<linkVars, session, path, shown, panel, signal, sending, callVars, stored, turned>>

------------------------------------------------------------------------------
Init ==
    /\ LinksInit
    /\ session \in BOOLEAN
    /\ path \in {"signin", "register"} \union Sheets
    /\ shown = path
    /\ panel = FirstPanel(path)
    /\ signal = "none" /\ cooldown = FALSE /\ sending = FALSE
    /\ calls = [c \in Calls |-> NoCall]
    /\ denied = 0 /\ leaving = FALSE /\ timers = 0
    /\ stored = None /\ turned = None

VisitorStep ==
    \/ \E p \in {"signin", "link", "register"} : Visit(p) \/ GoTo(p)
    \/ \E sheet \in Sheets : Visit(sheet) \/ Browse(sheet)
    \/ \E r \in Ours, l \in Links : VisitLink(r, l)
    \/ VisitTokenless
    \/ \E c \in Calls : Submit(c) \/ Register(c)
    \/ Send \/ Restart \/ SignOut

LandStep ==
    \/ \E c \in Calls : LandAccepted(c) \/ LandRefused(c)
    \/ LandSent \/ LandUnsent \/ LandMe \/ LandDenied \/ LandSignOut

Next ==
    \/ VisitorStep \/ LandStep \/ Render \/ HandOver \/ FaultFades \/ CoolsDown
    \/ Deny \/ Elsewhere
    \/ \E r \in Requests : RedeemStep(r)

(* Whatever is asked lands, as an answer or a failure; timers fire, pages  *)
(* are rendered and links' requests end.  Visitors do as they please.      *)
Spec ==
    /\ Init /\ [][Next]_vars
    /\ WF_vars(HandOver) /\ WF_vars(LandSent \/ LandUnsent)
    /\ \A c \in Calls : WF_vars(LandAccepted(c) \/ LandRefused(c))

------------------------------------------------------------------------------
PagesTypeOK ==
    /\ LinksTypeOK
    /\ session \in BOOLEAN
    /\ path \in AuthPaths \union Sheets
    /\ shown \in AuthPaths \union Sheets
    /\ panel \in {"password", "enter", "sent", "expired", "register", "working", "failed",
                  "checking", "authenticated", "anonymous"}
    /\ signal \in {"none", "tuning", "fault", "locking"}
    /\ cooldown \in BOOLEAN
    /\ sending \in BOOLEAN
    /\ calls \in [Calls -> [by : {"nobody", "form", "page", "gone"}, request : Requests \union {None}]]
    /\ denied \in 0 .. MaxDenied
    /\ leaving \in BOOLEAN
    /\ timers \in Nat
    /\ stored \in AuthPaths \union Sheets \union {None}
    /\ turned \in Sheets \union {None}

(* A sign-in lands where the visitor was last turned away from, and on the *)
(* journal if nowhere: a burst of 401s, or one that comes with the visitor *)
(* on the way to another sheet, does not lose the destination.             *)
ResumesJourney == [][HandOver => path' = IF turned = None THEN Default ELSE turned]_vars

(* A page that is tuning, or whose lock's timer runs, comes back to its form *)
(* or hands over to the console, whichever calls land and in whatever order: *)
(* no form stays disabled behind a signal.                                   *)
SignalSettles ==
    signal = "tuning" \/ timers > 0 ~> signal \in {"none", "fault"} \/ path \in Sheets
=============================================================================
