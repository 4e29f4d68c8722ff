------------------------------ MODULE TokenNames ------------------------------
(***************************************************************************)
(* The names the console has for tokens.  It learns them from what searches *)
(* find, and looks up the tokens of the conditions it loads: one lookup for *)
(* a token at a time, whose answer is kept for good, also when the catalog  *)
(* has no such token, unless it failed.                                     *)
(***************************************************************************)
CONSTANTS
    Tokens,     \* the tokens conditions name
    Catalogued  \* those the catalog has to begin with

ASSUME TokensAssumption == Catalogued \subseteq Tokens

VARIABLES
    catalog,  \* the server's tokens
    known,    \* what the console knows of each token
    lookups   \* the lookups under way, and their answers

nameVars == <<catalog, known, lookups>>

Unanswered == "asked"

(* What a search found is known by name. *)
Learn(found) == [t \in Tokens |-> IF t \in found THEN "named" ELSE known[t]]

(* A load asks for the tokens of its conditions, and waits: for a lookup that *)
(* is already under way, or for nothing when the token is known.              *)
Ensure(token) ==
    /\ known[token] = "unasked"
    /\ \A lookup \in lookups : lookup.of # token
    /\ lookups' = lookups \union {[of |-> token, answer |-> Unanswered]}
    /\ UNCHANGED <<catalog, known>>

(* The server looks in the catalog, or the request fails. *)
AnswerLookup(lookup) ==
    /\ lookup.answer = Unanswered
    /\ \E answer \in {IF lookup.of \in catalog THEN "named" ELSE "missing", "failed"} :
           lookups' = (lookups \ {lookup}) \union {[lookup EXCEPT !.answer = answer]}
    /\ UNCHANGED <<catalog, known>>

(* Mutant: a lookup that failed is taken for a token that is not there. *)
MissingIfFailed(lookup) == IF lookup.answer = "failed" THEN "missing" ELSE lookup.answer

(* A failure leaves what is known as it is by then. *)
Noted(lookup) == IF lookup.answer = "failed" THEN known[lookup.of] ELSE lookup.answer

LandLookup(lookup) ==
    /\ lookup.answer # Unanswered
    /\ known' = [known EXCEPT ![lookup.of] = Noted(lookup)]
    /\ lookups' = lookups \ {lookup}
    /\ UNCHANGED catalog

(* The server's operator loads tokens into the catalog. *)
Catalogue(token) ==
    /\ token \notin catalog
    /\ catalog' = catalog \union {token}
    /\ UNCHANGED <<known, lookups>>

NamesInit ==
    /\ catalog = Catalogued
    /\ known = [t \in Tokens |-> "unasked"]
    /\ lookups = {}

NamesStep ==
    \/ \E token \in Tokens : Ensure(token) \/ Catalogue(token)
    \/ \E lookup \in lookups : AnswerLookup(lookup) \/ LandLookup(lookup)
=============================================================================
