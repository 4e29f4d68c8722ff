----------------------------- MODULE LoginLinks -----------------------------
(***************************************************************************)
(* Sign-in links, as the server keeps them: issued, spent by the one       *)
(* conditional UPDATE that redeems them, or past their time.  Each request *)
(* to redeem one runs on its own, and may fail after the UPDATE: it is not *)
(* undone, as the view runs outside a transaction.                         *)
(***************************************************************************)
CONSTANTS
    None,       \* no link
    Links,
    Requests    \* the requests that ever come

ASSUME LinksAssumption == None \notin Links

VARIABLES
    links,      \* of each link: "unsent", "live", "spent" or "lapsed"
    redeems     \* of each request: its step and the link it is for

linkVars == <<links, redeems>>

RedeemSteps == {"idle", "asked", "won", "signed_in", "expired", "refused"}

LinksInit ==
    /\ links = [l \in Links |-> "unsent"]
    /\ redeems = [r \in Requests |-> [step |-> "idle", link |-> None]]

To(r, step) == redeems' = [redeems EXCEPT ![r].step = step]

IssueLink(l) ==
    /\ links[l] = "unsent"
    /\ links' = [links EXCEPT ![l] = "live"]
    /\ UNCHANGED redeems

Lapse(l) ==
    /\ links[l] = "live"
    /\ links' = [links EXCEPT ![l] = "lapsed"]
    /\ UNCHANGED redeems

(* Someone opens a link that was sent. *)
Open(r, l) ==
    /\ redeems[r].step = "idle"
    /\ links[l] # "unsent"
    /\ redeems' = [redeems EXCEPT ![r] = [step |-> "asked", link |-> l]]
    /\ UNCHANGED links

(* Mutant: the UPDATE looks at the time only. *)
Unexpired(l) == links[l] \in {"live", "spent"}

Redeemable(l) == links[l] = "live"

(* The conditional UPDATE, and what its count says. *)
Redeem(r) ==
    LET l == redeems[r].link IN
    /\ redeems[r].step = "asked"
    /\ links' = IF Redeemable(l) THEN [links EXCEPT ![l] = "spent"] ELSE links
    /\ To(r, IF Redeemable(l) THEN "won"
             ELSE IF links[l] = "lapsed" THEN "expired" ELSE "refused")

(* The address is still allowed, and its user found or created. *)
SignIn(r) ==
    /\ redeems[r].step = "won"
    /\ To(r, "signed_in")
    /\ UNCHANGED links

(* The allowlist has shrunk, or the request fails on the way. *)
Refuse(r) ==
    /\ redeems[r].step = "won"
    /\ To(r, "refused")
    /\ UNCHANGED links

LinksTypeOK ==
    /\ links \in [Links -> {"unsent", "live", "spent", "lapsed"}]
    /\ redeems \in [Requests -> [step : RedeemSteps, link : Links \union {None}]]

(* No two requests sign in by one link, however they overlap: the UPDATE of *)
(* consume_login_token alone decides which one does.                        *)
LinkSignsInOnce ==
    \A r, s \in Requests :
        /\ redeems[r].step = "signed_in" /\ redeems[s].step = "signed_in"
        /\ redeems[r].link = redeems[s].link
        => r = s
=============================================================================
