---------------------------- MODULE SignInProofs ----------------------------
(***************************************************************************)
(* What holds of the sign-in pages and their links for any number of       *)
(* links, requests, sheets and calls under way, proved.                    *)
(*                                                                         *)
(* A link signs in once because a request that has won it left it spent,   *)
(* and no link comes back from that.  A sign-in resumes where the visitor  *)
(* was turned away because what is remembered is what they were turned     *)
(* away from: whatever is turned away while a sheet is rendered is on a    *)
(* sheet, or on the sign-in page, which is not remembered.                 *)
(***************************************************************************)
EXTENDS SignInPages, TLAPS

(* A request that has won a link, whatever came of it. *)
Winner(r) == redeems[r].step \in {"won", "signed_in"}

(* What has won a link has spent it, and no other request has. *)
WonOnce ==
    /\ \A r \in Requests : redeems[r].step # "idle" => redeems[r].link \in Links
    /\ \A r \in Requests : redeems[r].step = "asked" => links[redeems[r].link] # "unsent"
    /\ \A r \in Requests : Winner(r) => links[redeems[r].link] = "spent"
    /\ \A r, s \in Requests :
           Winner(r) /\ Winner(s) /\ redeems[r].link = redeems[s].link => r = s

LinksInv == LinksTypeOK /\ WonOnce

------------------------------------------------------------------------------
(* Links. *)

LEMMA LinksInitial == LinksInit => LinksInv
BY LinksAssumption DEF LinksInit, LinksInv, LinksTypeOK, WonOnce, Winner, RedeemSteps

LEMMA OtherLinkSteps ==
    ASSUME LinksInv, NEW l \in Links, IssueLink(l) \/ Lapse(l)
    PROVE  LinksInv'
<1> USE DEF LinksInv, LinksTypeOK
<1>1. LinksTypeOK'
  BY DEF IssueLink, Lapse
<1>2. redeems' = redeems
  BY DEF IssueLink, Lapse
<1>3. \A k \in Links : links[k] = "spent" => links'[k] = "spent"
  BY DEF IssueLink, Lapse
<1>4. \A k \in Links : links[k] # "unsent" => links'[k] # "unsent"
  BY DEF IssueLink, Lapse
<1>5. WonOnce'
  BY <1>2, <1>3, <1>4 DEF WonOnce, Winner, RedeemSteps
<1> QED
  BY <1>1, <1>5

LEMMA OpenKeepsLinks ==
    ASSUME LinksInv, NEW r \in Requests, NEW l \in Links, Open(r, l)
    PROVE  LinksInv'
<1> USE DEF LinksInv, LinksTypeOK, RedeemSteps
<1>1. LinksTypeOK'
  BY DEF Open
<1>2. redeems'[r] = [step |-> "asked", link |-> l] /\ links[l] # "unsent" /\ links' = links
  BY DEF Open
<1>3. \A s \in Requests : s # r => redeems'[s] = redeems[s]
  BY DEF Open
<1>4. WonOnce'
  BY <1>2, <1>3 DEF WonOnce, Winner
<1> QED
  BY <1>1, <1>4

LEMMA RedeemKeepsLinks ==
    ASSUME LinksInv, NEW r \in Requests, Redeem(r)
    PROVE  LinksInv'
<1> USE DEF LinksInv, LinksTypeOK, RedeemSteps
<1> DEFINE l == redeems[r].link
<1>1. l \in Links /\ redeems[r].step = "asked"
  BY DEF Redeem, WonOnce
<1>2. \A s \in Requests : s # r => redeems'[s] = redeems[s]
  BY DEF Redeem, To
<1>3. redeems'[r].link = l
  BY DEF Redeem, To
<1>4. CASE Redeemable(l)
  <2>1. links' = [links EXCEPT ![l] = "spent"] /\ redeems'[r].step = "won"
    BY <1>4 DEF Redeem, To
  <2>2. LinksTypeOK'
    BY <1>1, <1>4, <2>1 DEF Redeem, To
  <2>3. \A s \in Requests : Winner(s) => redeems[s].link # l
    BY <1>4 DEF WonOnce, Redeemable
  <2>4. WonOnce'
    BY <1>1, <1>2, <1>3, <2>1, <2>3 DEF WonOnce, Winner
  <2> QED
    BY <2>2, <2>4
<1>5. CASE ~Redeemable(l)
  <2>1. links' = links /\ redeems'[r].step \in {"expired", "refused"}
    BY <1>5 DEF Redeem, To
  <2>2. LinksTypeOK'
    BY <1>1, <1>5, <2>1 DEF Redeem, To
  <2>3. WonOnce'
    BY <1>1, <1>2, <1>3, <2>1 DEF WonOnce, Winner
  <2> QED
    BY <2>2, <2>3
<1> QED
  BY <1>4, <1>5

LEMMA OutcomeKeepsLinks ==
    ASSUME LinksInv, NEW r \in Requests, SignIn(r) \/ Refuse(r)
    PROVE  LinksInv'
<1> USE DEF LinksInv, LinksTypeOK, RedeemSteps
<1>1. links' = links /\ redeems[r].step = "won" /\ redeems'[r].link = redeems[r].link
  BY DEF SignIn, Refuse, To
<1>2. redeems'[r].step \in {"signed_in", "refused"}
  BY DEF SignIn, Refuse, To
<1>3. \A s \in Requests : s # r => redeems'[s] = redeems[s]
  BY DEF SignIn, Refuse, To
<1>4. LinksTypeOK'
  BY <1>1 DEF SignIn, Refuse, To
<1>5. WonOnce'
  BY <1>1, <1>2, <1>3 DEF WonOnce, Winner
<1> QED
  BY <1>4, <1>5

(* Every other step leaves the links alone. *)
LEMMA LinksStep ==
    ASSUME LinksInv, [Next]_vars
    PROVE  LinksInv'
<1>1. CASE UNCHANGED linkVars
  BY <1>1 DEF linkVars, LinksInv, LinksTypeOK, WonOnce, Winner
<1>2. CASE VisitorStep
  <2>1. CASE \E r \in Ours, l \in Links : VisitLink(r, l)
    BY <2>1, OpenKeepsLinks, PagesAssumption DEF VisitLink
  <2>2. CASE ~ \E r \in Ours, l \in Links : VisitLink(r, l)
    <3>1. UNCHANGED linkVars
      BY <1>2, <2>2 DEF VisitorStep, Visit, GoTo, Browse, VisitTokenless, Submit, Register,
         Called, Send, Restart, SignOut
    <3> QED
      BY <3>1, <1>1
  <2> QED
    BY <2>1, <2>2
<1>3. CASE LandStep
  <2>1. UNCHANGED linkVars
    BY <1>3 DEF LandStep, LandAccepted, LandRefused, LandSent, LandUnsent, LandMe, LandDenied,
       LandSignOut
  <2> QED
    BY <2>1, <1>1
<1>4. CASE Render \/ HandOver \/ FaultFades \/ CoolsDown \/ Deny
  <2>1. UNCHANGED linkVars
    BY <1>4 DEF Render, HandOver, FaultFades, CoolsDown, Deny
  <2> QED
    BY <2>1, <1>1
<1>5. CASE Elsewhere
  <2>1. CASE \E l \in Links : IssueLink(l) \/ Lapse(l)
    BY <2>1, OtherLinkSteps
  <2>2. CASE \E r \in Requests \ Ours, l \in Links : Open(r, l)
    BY <2>2, OpenKeepsLinks
  <2>3. CASE UNCHANGED linkVars
    BY <2>3, <1>1
  <2> QED
    BY <1>5, <2>1, <2>2, <2>3 DEF Elsewhere
<1>6. CASE \E r \in Requests : RedeemStep(r)
  BY <1>6, RedeemKeepsLinks, OutcomeKeepsLinks DEF RedeemStep
<1>7. CASE UNCHANGED vars
  BY <1>7, <1>1 DEF vars
<1> QED
  BY <1>2, <1>3, <1>4, <1>5, <1>6, <1>7 DEF Next

(* No two requests sign in by one link, of any number of links and requests *)
(* to redeem them, this tab's and others' (consume_login_token's UPDATE).    *)
THEOREM LinkOpensOneSession == Spec => []LinkSignsInOnce
<1>1. Init => LinksInv
  BY LinksInitial DEF Init
<1>2. LinksInv /\ [Next]_vars => LinksInv'
  BY LinksStep
<1>3. LinksInv => LinkSignsInOnce
  BY DEF LinksInv, WonOnce, Winner, LinkSignsInOnce
<1> QED
  BY <1>1, <1>2, <1>3, PTL DEF Spec

------------------------------------------------------------------------------
(* Pages. *)

(* What is remembered is what the visitor was turned away from, and where a *)
(* sheet is rendered the URL is a sheet's or is leaving for the sign-in page. *)
JourneyInv ==
    /\ stored = turned
    /\ shown \in Sheets => path \in Sheets \union {"signin"}
    /\ path = "consume" => shown = "consume"
    /\ panel \in {"checking", "authenticated", "anonymous"} => shown \in Sheets

PagesInv == PagesTypeOK /\ JourneyInv

LEMMA FirstPanelOf ==
    ASSUME NEW p
    PROVE  /\ p = "signin" => FirstPanel(p) = "password"
           /\ p = "link" => FirstPanel(p) = "enter"
           /\ p = "register" => FirstPanel(p) = "register"
           /\ p \in Sheets => FirstPanel(p) = "checking"
<1>1. p = "signin" => FirstPanel(p) = "password"
  BY PagesAssumption DEF FirstPanel
<1>2. p = "link" => FirstPanel(p) = "enter"
  BY PagesAssumption DEF FirstPanel
<1>3. p = "register" => FirstPanel(p) = "register"
  BY PagesAssumption DEF FirstPanel
<1>4. p \in Sheets => FirstPanel(p) = "checking"
  BY PagesAssumption DEF FirstPanel
<1> QED
  BY <1>1, <1>2, <1>3, <1>4

LEMMA FollowedIsAPanel ==
    ASSUME NEW p \in SignInPaths
    PROVE  Followed(p) \in {"password", "enter", "sent", "expired"}
BY DEF Followed, SignInPaths

LEMMA OrphanedTypes ==
    ASSUME NEW by \in {"page", "gone"},
           calls \in [Calls -> [by : {"nobody", "form", "page", "gone"}, request : Requests \union {None}]]
    PROVE  Orphaned(by) \in [Calls -> [by : {"nobody", "form", "page", "gone"}, request : Requests \union {None}]]
BY DEF Orphaned

(* A page load leaves a page whose calls are its own. *)
LEMMA VisitKeepsPages ==
    ASSUME PagesInv, LinksTypeOK',
           \/ \E p \in {"signin", "link", "register"} \union Sheets : Visit(p)
           \/ \E r \in Ours, l \in Links : VisitLink(r, l)
           \/ VisitTokenless
    PROVE  PagesInv'
<1> USE DEF PagesInv, PagesTypeOK, JourneyInv, AuthPaths, SignInPaths, NoCall
<1>1. ASSUME NEW p \in {"signin", "link", "register"} \union Sheets, Visit(p)
      PROVE  PagesInv'
  <2>1. UNCHANGED <<session, stored, turned>> /\ path' = p /\ shown' = p
    BY <1>1 DEF Visit, Loaded
  <2>2. denied' \in 0 .. MaxDenied /\ leaving' = FALSE /\ timers' = 0
    BY <1>1, PagesAssumption DEF Visit, Loaded
  <2>3. /\ panel' = FirstPanel(p) /\ signal' = "none" /\ cooldown' = FALSE /\ sending' = FALSE
        /\ calls' = [c \in Calls |-> NoCall]
    BY <1>1 DEF Visit, Mounted
  <2>4. session' \in BOOLEAN /\ cooldown' \in BOOLEAN /\ sending' \in BOOLEAN /\ leaving' \in BOOLEAN
    BY <2>1, <2>2, <2>3
  <2>5. PagesTypeOK'
    BY <2>1, <2>2, <2>3, <2>4, FirstPanelOf
  <2>6. JourneyInv'
    BY <2>1, <2>3, FirstPanelOf, PagesAssumption
  <2> QED
    BY <2>5, <2>6
<1>2. ASSUME NEW r \in Ours, NEW l \in Links, VisitLink(r, l)
      PROVE  PagesInv'
  <2>1. /\ UNCHANGED <<session, stored, turned>> /\ path' = "consume" /\ shown' = "consume"
        /\ denied' = 0 /\ leaving' = FALSE /\ timers' = 0
        /\ panel' = "working" /\ signal' = "tuning" /\ cooldown' = FALSE /\ sending' = FALSE
    BY <1>2 DEF VisitLink, Loaded
  <2>2. calls' \in [Calls -> [by : {"nobody", "form", "page", "gone"}, request : Requests \union {None}]]
    BY <1>2, PagesAssumption DEF VisitLink
  <2>3. session' \in BOOLEAN /\ cooldown' \in BOOLEAN /\ sending' \in BOOLEAN /\ leaving' \in BOOLEAN
    BY <2>1
  <2>4. PagesTypeOK'
    BY <2>1, <2>2, <2>3, PagesAssumption
  <2>5. JourneyInv'
    BY <2>1, PagesAssumption
  <2> QED
    BY <2>4, <2>5
<1>3. ASSUME VisitTokenless
      PROVE  PagesInv'
  <2>1. /\ UNCHANGED <<session, stored, turned>> /\ path' = "consume" /\ shown' = "consume"
        /\ denied' = 0 /\ leaving' = FALSE /\ timers' = 0
        /\ panel' = "expired" /\ signal' = "none" /\ cooldown' = FALSE /\ sending' = FALSE
        /\ calls' = [c \in Calls |-> NoCall]
    BY <1>3 DEF VisitTokenless, Loaded
  <2>2. session' \in BOOLEAN /\ cooldown' \in BOOLEAN /\ sending' \in BOOLEAN /\ leaving' \in BOOLEAN
    BY <2>1
  <2>3. PagesTypeOK'
    BY <2>1, <2>2, PagesAssumption
  <2>4. JourneyInv'
    BY <2>1, PagesAssumption
  <2> QED
    BY <2>3, <2>4
<1> QED
  BY <1>1, <1>2, <1>3

(* A navigation is to a sheet from a sheet, and to another page from a page. *)
LEMMA NavigationKeepsPages ==
    ASSUME PagesInv, LinksTypeOK',
           \/ \E p \in {"signin", "link", "register"} : GoTo(p)
           \/ \E sheet \in Sheets : Browse(sheet)
    PROVE  PagesInv'
<1> USE DEF PagesInv, PagesTypeOK, JourneyInv, AuthPaths, SignInPaths, callVars
<1>1. ASSUME NEW p \in {"signin", "link", "register"}, GoTo(p)
      PROVE  PagesInv'
  BY <1>1, PagesAssumption DEF GoTo
<1>2. ASSUME NEW sheet \in Sheets, Browse(sheet)
      PROVE  PagesInv'
  BY <1>2, PagesAssumption DEF Browse
<1> QED
  BY <1>1, <1>2

(* Asking changes neither the URL nor what is rendered. *)
LEMMA AskingKeepsPages ==
    ASSUME PagesInv, LinksTypeOK',
           (\E c \in Calls : Submit(c) \/ Register(c)) \/ Send \/ Restart \/ SignOut \/ Deny
    PROVE  PagesInv'
<1> USE DEF PagesInv, PagesTypeOK, JourneyInv, pageVars, callVars
<1>1. ASSUME NEW c \in Calls, Submit(c) \/ Register(c)
      PROVE  PagesInv'
  BY <1>1 DEF Submit, Register, Called
<1>2. ASSUME Send \/ Restart
      PROVE  PagesInv'
  <2>1. session' \in BOOLEAN /\ cooldown' \in BOOLEAN /\ sending' \in BOOLEAN /\ leaving' \in BOOLEAN
    BY <1>2 DEF Send, Restart
  <2> QED
    BY <1>2, <2>1 DEF Send, Restart
<1>3. ASSUME SignOut
      PROVE  PagesInv'
  BY <1>3 DEF SignOut
<1>4. ASSUME Deny
      PROVE  PagesInv'
  BY <1>4, PagesAssumption DEF Deny
<1> QED
  BY <1>1, <1>2, <1>3, <1>4

LEMMA RenderKeepsPages ==
    ASSUME PagesInv, LinksTypeOK', Render
    PROVE  PagesInv'
<1> USE DEF PagesInv, PagesTypeOK, JourneyInv, AuthPaths, SignInPaths
<1>1. UNCHANGED <<session, path, denied, leaving, timers, stored, turned>> /\ shown' = path
  BY DEF Render
<1>2. path # "consume"
  BY DEF Render, Settled
<1>3. CASE {shown, path} \subseteq Sheets
  <2>1. UNCHANGED <<panel, signal, cooldown, sending, calls>>
    BY <1>3 DEF Render
  <2> QED
    BY <1>1, <1>2, <1>3, <2>1
<1>4. CASE {shown, path} \subseteq SignInPaths
  <2>1. ~({shown, path} \subseteq Sheets)
    BY <1>4, PagesAssumption
  <2>2. /\ panel' = Followed(path) /\ calls' = FormGone(panel')
        /\ UNCHANGED <<signal, cooldown, sending>>
    BY <1>4, <2>1 DEF Render
  <2>3. panel' \in {"password", "enter", "sent", "expired"}
    BY <1>4, <2>2, FollowedIsAPanel
  <2>4. calls' \in [Calls -> [by : {"nobody", "form", "page", "gone"}, request : Requests \union {None}]]
    BY <2>2, OrphanedTypes DEF FormGone
  <2> QED
    BY <1>1, <1>2, <2>2, <2>3, <2>4, PagesAssumption
<1>5. CASE ~({shown, path} \subseteq Sheets) /\ ~({shown, path} \subseteq SignInPaths)
  <2>1. Mounted(path) /\ calls' = Orphaned("gone")
    BY <1>5 DEF Render
  <2>2. panel' = FirstPanel(path) /\ signal' = "none"
    BY <2>1 DEF Mounted
  <2>3. session' \in BOOLEAN /\ cooldown' \in BOOLEAN /\ sending' \in BOOLEAN /\ leaving' \in BOOLEAN
    BY <1>1, <2>1 DEF Mounted
  <2>4. calls' \in [Calls -> [by : {"nobody", "form", "page", "gone"}, request : Requests \union {None}]]
    BY <2>1, OrphanedTypes
  <2>5. path \in {"signin", "link", "register"} \union Sheets
    BY <1>2
  <2> QED
    BY <1>1, <1>2, <2>2, <2>3, <2>4, <2>5, FirstPanelOf, PagesAssumption
<1> QED
  BY <1>3, <1>4, <1>5

(* What lands on a form changes its signal, and a refused link its panel. *)
LEMMA CallLandingKeepsPages ==
    ASSUME PagesInv, LinksTypeOK', NEW c \in Calls, LandAccepted(c) \/ LandRefused(c)
    PROVE  PagesInv'
<1> USE DEF PagesInv, PagesTypeOK, JourneyInv, AuthPaths, SignInPaths
<1>1. CASE LandAccepted(c)
  <2>1. UNCHANGED <<path, shown, panel, cooldown, sending, denied, leaving, stored, turned>>
    BY <1>1 DEF LandAccepted
  <2>2. session' \in BOOLEAN
    BY <1>1 DEF LandAccepted
  <2>3. timers' \in Nat /\ signal' \in {signal, "locking"}
    BY <1>1 DEF LandAccepted
  <2>4. calls' = [calls EXCEPT ![c] = NoCall] \/ calls' = [Orphaned("page") EXCEPT ![c] = NoCall]
    BY <1>1 DEF LandAccepted
  <2>5. NoCall \in [by : {"nobody", "form", "page", "gone"}, request : Requests \union {None}]
    BY DEF NoCall
  <2>6. Orphaned("page") \in [Calls -> [by : {"nobody", "form", "page", "gone"}, request : Requests \union {None}]]
    BY OrphanedTypes
  <2>7. calls' \in [Calls -> [by : {"nobody", "form", "page", "gone"}, request : Requests \union {None}]]
    BY <2>4, <2>5, <2>6
  <2> QED
    BY <2>1, <2>2, <2>3, <2>7
<1>2. CASE LandRefused(c)
  <2>1. UNCHANGED <<session, path, shown, cooldown, sending, denied, leaving, timers, stored, turned>>
    BY <1>2 DEF LandRefused
  <2>2. calls' \in [Calls -> [by : {"nobody", "form", "page", "gone"}, request : Requests \union {None}]]
    BY <1>2 DEF LandRefused, NoCall
  <2>3. signal' \in {signal, "fault", "none"} /\ panel' \in {panel, "failed", "expired"}
    BY <1>2 DEF LandRefused, RejectPassword, RejectRegistration, RejectLink
  <2> QED
    BY <2>1, <2>2, <2>3
<1> QED
  BY <1>1, <1>2

LEMMA SendLandingKeepsPages ==
    ASSUME PagesInv, LinksTypeOK', LandSent \/ LandUnsent
    PROVE  PagesInv'
<1> USE DEF PagesInv, PagesTypeOK, JourneyInv, AuthPaths, SignInPaths
<1>1. UNCHANGED <<session, path, shown, denied, leaving, timers, stored, turned>>
  BY DEF LandSent, LandUnsent, callVars
<1>2. session' \in BOOLEAN /\ cooldown' \in BOOLEAN /\ sending' \in BOOLEAN /\ leaving' \in BOOLEAN
  BY DEF LandSent, LandUnsent, callVars
<1>3. signal' \in {"none", "fault"} /\ panel' \in {panel, "sent"}
  BY DEF LandSent, LandUnsent, Faulted
<1>4. calls' \in {calls, Orphaned("page")}
  BY DEF LandSent, LandUnsent, callVars, FormGone
<1>5. calls' \in [Calls -> [by : {"nobody", "form", "page", "gone"}, request : Requests \union {None}]]
  BY <1>4, OrphanedTypes
<1> QED
  BY <1>1, <1>2, <1>3, <1>5

(* Turned away from a sheet that is rendered, or from the sign-in page. *)
LEMMA TurnAwayRemembers ==
    ASSUME PagesInv, TurnAway, shown \in Sheets
    PROVE  /\ path' = "signin"
           /\ stored' = turned'
           /\ turned' \in Sheets \union {None}
<1> USE DEF PagesInv, PagesTypeOK, JourneyInv
<1>1. path' = "signin"
  BY DEF TurnAway
<1>2. CASE path \in Sheets
  <2>1. Rememberable(path)
    BY <1>2, PagesAssumption DEF Rememberable
  <2> QED
    BY <1>1, <1>2, <2>1 DEF TurnAway
<1>3. CASE path = "signin"
  <2>1. ~Rememberable(path) /\ path \notin Sheets
    BY <1>3, PagesAssumption DEF Rememberable
  <2> QED
    BY <1>1, <1>3, <2>1 DEF TurnAway
<1> QED
  BY <1>2, <1>3

LEMMA GuardLandingKeepsPages ==
    ASSUME PagesInv, LinksTypeOK', LandMe \/ LandDenied \/ LandSignOut
    PROVE  PagesInv'
<1> USE DEF PagesInv, PagesTypeOK, JourneyInv, AuthPaths, SignInPaths
<1>1. CASE LandMe
  <2>1. UNCHANGED <<session, shown, signal, cooldown, sending, calls, denied, leaving, timers>>
    BY <1>1 DEF LandMe, callVars
  <2>2. shown \in Sheets /\ panel' \in {"authenticated", "anonymous"}
    BY <1>1 DEF LandMe
  <2>3. UNCHANGED <<path, stored, turned>> \/ TurnAway
    BY <1>1 DEF LandMe
  <2>4. CASE UNCHANGED <<path, stored, turned>>
    BY <2>1, <2>2, <2>4
  <2>5. CASE TurnAway
    BY <2>1, <2>2, <2>5, TurnAwayRemembers
  <2> QED
    BY <2>3, <2>4, <2>5
<1>2. CASE LandDenied
  <2>1. UNCHANGED <<session, shown, panel, signal, cooldown, sending, calls, leaving, timers>>
    BY <1>2 DEF LandDenied
  <2>2. denied' \in 0 .. MaxDenied
    BY <1>2, PagesAssumption DEF LandDenied
  <2>3. CASE shown \in Sheets
    BY <1>2, <2>1, <2>2, <2>3, TurnAwayRemembers DEF LandDenied
  <2>4. CASE shown \notin Sheets
    BY <1>2, <2>1, <2>2, <2>4 DEF LandDenied
  <2> QED
    BY <2>3, <2>4
<1>3. CASE LandSignOut
  <2>1. UNCHANGED <<shown, panel, signal, cooldown, sending, calls, denied, timers, stored, turned>>
    BY <1>3 DEF LandSignOut
  <2>2. session' \in BOOLEAN /\ leaving' \in BOOLEAN /\ path' = "signin"
    BY <1>3 DEF LandSignOut
  <2> QED
    BY <2>1, <2>2
<1> QED
  BY <1>1, <1>2, <1>3

LEMMA TimersKeepPages ==
    ASSUME PagesInv, LinksTypeOK', HandOver \/ FaultFades \/ CoolsDown
    PROVE  PagesInv'
<1> USE DEF PagesInv, PagesTypeOK, JourneyInv, AuthPaths, SignInPaths
<1>1. CASE HandOver
  <2>1. UNCHANGED <<session, shown, panel, signal, cooldown, sending, calls, denied, leaving>>
    BY <1>1 DEF HandOver
  <2>2. path' \in Sheets /\ stored' = None /\ turned' = None
    BY <1>1, PagesAssumption DEF HandOver, Destination
  <2>3. timers' \in Nat
    BY <1>1 DEF HandOver
  <2> QED
    BY <2>1, <2>2, <2>3, PagesAssumption
<1>2. CASE FaultFades
  BY <1>2 DEF FaultFades, callVars
<1>3. CASE CoolsDown
  <2>1. UNCHANGED <<session, path, shown, panel, signal, sending, callVars, stored, turned>>
    BY <1>3 DEF CoolsDown
  <2>2. cooldown' \in BOOLEAN
    BY <1>3 DEF CoolsDown
  <2> QED
    BY <2>1, <2>2 DEF callVars
<1> QED
  BY <1>1, <1>2, <1>3

LEMMA ServerKeepsPages ==
    ASSUME PagesInv, LinksTypeOK', Elsewhere \/ \E r \in Requests : RedeemStep(r)
    PROVE  PagesInv'
<1>1. UNCHANGED <<pageVars, callVars, stored, turned>>
  BY DEF Elsewhere, RedeemStep
<1>2. session' \in BOOLEAN
  BY DEF Elsewhere, RedeemStep, PagesInv, PagesTypeOK
<1> QED
  BY <1>1, <1>2 DEF PagesInv, PagesTypeOK, JourneyInv, pageVars, callVars

LEMMA PagesInitial == Init => PagesInv
<1> SUFFICES ASSUME Init PROVE PagesInv
  OBVIOUS
<1>1. LinksTypeOK
  BY LinksInitial DEF Init, LinksInv
<1>2. path \in {"signin", "register"} \union Sheets /\ panel = FirstPanel(path)
  BY DEF Init
<1>3. session \in BOOLEAN /\ cooldown \in BOOLEAN /\ sending \in BOOLEAN /\ leaving \in BOOLEAN
  BY DEF Init
<1>4. PagesTypeOK
  BY <1>1, <1>2, <1>3, FirstPanelOf, PagesAssumption
     DEF Init, PagesTypeOK, AuthPaths, SignInPaths, NoCall
<1>5. JourneyInv
  BY <1>2, FirstPanelOf, PagesAssumption DEF Init, JourneyInv
<1> QED
  BY <1>4, <1>5 DEF PagesInv

LEMMA PagesStep ==
    ASSUME LinksInv, PagesInv, [Next]_vars
    PROVE  PagesInv'
<1>1. LinksTypeOK'
  BY LinksStep DEF LinksInv
<1>2. CASE VisitorStep
  BY <1>1, <1>2, VisitKeepsPages, NavigationKeepsPages, AskingKeepsPages DEF VisitorStep
<1>3. CASE LandStep
  BY <1>1, <1>3, CallLandingKeepsPages, SendLandingKeepsPages, GuardLandingKeepsPages DEF LandStep
<1>4. CASE Render \/ HandOver \/ FaultFades \/ CoolsDown \/ Deny
  BY <1>1, <1>4, RenderKeepsPages, TimersKeepPages, AskingKeepsPages
<1>5. CASE Elsewhere \/ \E r \in Requests : RedeemStep(r)
  BY <1>1, <1>5, ServerKeepsPages
<1>6. CASE UNCHANGED vars
  BY <1>1, <1>6 DEF vars, PagesInv, PagesTypeOK, JourneyInv, pageVars, callVars
<1> QED
  BY <1>2, <1>3, <1>4, <1>5, <1>6 DEF Next

(* Every behaviour of the pages keeps its types, with any number of calls, *)
(* requests and sheets.                                                    *)
THEOREM PagesTypeCorrect == Spec => []PagesTypeOK
<1>1. Init => LinksInv /\ PagesInv
  BY LinksInitial, PagesInitial DEF Init
<1>2. LinksInv /\ PagesInv /\ [Next]_vars => (LinksInv /\ PagesInv)'
  BY LinksStep, PagesStep
<1>3. PagesInv => PagesTypeOK
  BY DEF PagesInv
<1> QED
  BY <1>1, <1>2, <1>3, PTL DEF Spec

(* A sign-in lands where the visitor was last turned away from, whatever    *)
(* burst of 401s, sign-out or visit came in between (takeDestination).      *)
THEOREM SignInResumesJourney == Spec => ResumesJourney
<1>1. Init => LinksInv /\ PagesInv
  BY LinksInitial, PagesInitial DEF Init
<1>2. LinksInv /\ PagesInv /\ [Next]_vars => (LinksInv /\ PagesInv)'
  BY LinksStep, PagesStep
<1>3. PagesInv => [HandOver => path' = IF turned = None THEN Default ELSE turned]_vars
  BY DEF PagesInv, JourneyInv, HandOver, Destination
<1> QED
  BY <1>1, <1>2, <1>3, PTL DEF Spec, ResumesJourney
=============================================================================
