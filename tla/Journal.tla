------------------------------- MODULE Journal -------------------------------
(***************************************************************************)
(* One owner's match journal, as the server pages it.  A match's position  *)
(* in the journal is a number, the newer the higher: it stands for the     *)
(* keys the journal is ordered by, of which the first two are where the    *)
(* match's transaction is on the chain.  Evaluation records matches in any *)
(* order of positions, a new tree deletes its rule's matches, a rule can   *)
(* be switched off and on, and storing blocks again moves the matches of   *)
(* transactions that a reorganisation has put elsewhere.                   *)
(***************************************************************************)
EXTENDS Integers, FiniteSets

CONSTANTS
    None,            \* no cursor, no further page
    All,             \* the channel of every armed rule
    Rules,
    Matches,         \* the matches that are ever recorded
    RuleOf,          \* the rule of each match
    TransactionOf,   \* and its transaction
    Positions,
    FirstPosition,   \* the position of each match at first
    Late,            \* the matches that may be recorded while the journal is read
    Switched,        \* the rules that are switched off and on
    Reincluded,      \* the transactions that may be put elsewhere on the chain
    PageSize

ASSUME JournalAssumption ==
    /\ IsFiniteSet(Matches)
    /\ IsFiniteSet(Positions) /\ Positions \subseteq Int
    /\ RuleOf \in [Matches -> Rules]
    /\ FirstPosition \in [Matches -> Positions]
    /\ Late \subseteq Matches /\ Switched \subseteq Rules
    /\ PageSize \in Nat \ {0}
    /\ All \notin Rules
    /\ None \notin Matches \union Positions \union Rules \union {All}

VARIABLES
    stage,      \* of each match: "new", "recorded" or "deleted"
    position,   \* of each match: where it is in the journal
    armed       \* the enabled rules

journalVars == <<stage, position, armed>>

Channels == Rules \union {All}

OnChannel(channel, m) == channel \in {All, RuleOf[m]}

(* What the channel's journal holds. *)
Held(channel) ==
    {m \in Matches : stage[m] = "recorded" /\ RuleOf[m] \in armed /\ OnChannel(channel, m)}

(* A row of the journal: a match, and the position it was read at. *)
Rows == [match : Matches, at : Positions]

RowOf(m) == [match |-> m, at |-> position[m]]

MatchesOf(rows) == {row.match : row \in rows}

(* Mutant: a cursor that starts the next page at its row. *)
FromCursor(cursor, rows) == {row \in rows : cursor = None \/ row.at =< cursor}

(* The rows a page starts from: those older than its cursor, a position. *)
OlderThan(cursor, rows) == {row \in rows : cursor = None \/ row.at < cursor}

Newest(n, rows) == {row \in rows : Cardinality({other \in rows : other.at > row.at}) < n}

(* The position of the last row. *)
Oldest(rows) == (CHOOSE row \in rows : \A other \in rows : row.at =< other.at).at

(* A page: the newest rows past the cursor, and where the next page starts *)
(* when more rows follow.                                                  *)
PageOf(channel, cursor) ==
    LET follow == OlderThan(cursor, {RowOf(m) : m \in Held(channel)})
        rows   == Newest(PageSize, follow)
    IN  [is |-> "page", rows |-> rows, next |-> IF rows = follow THEN None ELSE Oldest(rows)]

JournalInit ==
    /\ stage = [m \in Matches |-> IF m \in Late THEN "new" ELSE "recorded"]
    /\ position = FirstPosition
    /\ armed = Rules

(* Evaluation records a match, wherever its transaction is by then. *)
RecordMatch(m) ==
    /\ stage[m] = "new"
    /\ stage' = [stage EXCEPT ![m] = "recorded"]
    /\ UNCHANGED <<position, armed>>

(* A tree change deletes the rule's matches. *)
DeleteMatches(rule) ==
    LET gone == {m \in Matches : stage[m] = "recorded" /\ RuleOf[m] = rule} IN
    /\ gone # {}
    /\ stage' = [m \in Matches |-> IF m \in gone THEN "deleted" ELSE stage[m]]
    /\ UNCHANGED <<position, armed>>

Switch(rule) ==
    /\ armed' = IF rule \in armed THEN armed \ {rule} ELSE armed \union {rule}
    /\ UNCHANGED <<stage, position>>

(* Blocks stored again put transactions elsewhere, and their matches with   *)
(* them.  No two matches are ever at one position, and those of a           *)
(* transaction keep their order, which is by rule.                          *)
Reinclude(places) ==
    /\ places # position
    /\ \A m \in Matches : TransactionOf[m] \notin Reincluded => places[m] = position[m]
    /\ \A m, k \in Matches :
           /\ m # k => places[m] # places[k]
           /\ TransactionOf[m] = TransactionOf[k] =>
                  (places[m] < places[k] <=> position[m] < position[k])
    /\ position' = places
    /\ UNCHANGED <<stage, armed>>

JournalStep ==
    \/ \E m \in Matches : RecordMatch(m)
    \/ \E rule \in Rules : DeleteMatches(rule)
    \/ \E rule \in Switched : Switch(rule)
    \/ \E places \in [Matches -> Positions] : Reinclude(places)
=============================================================================
