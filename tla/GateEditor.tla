------------------------------ MODULE GateEditor ------------------------------
(***************************************************************************)
(* The composer's editor of the selected gate: its source, field, operator  *)
(* and value.  The vocabulary says which fields a source has, their types   *)
(* and operators; the type and operator say what control the value has.  A  *)
(* token's is a picker, which searches the catalog as the user types: a     *)
(* search waits for a timer, is asked and lands, unless the effect that     *)
(* started it has been cleaned up since.                                    *)
(*                                                                         *)
(* A text is what it can be read as.  The list that an address can be in is *)
(* one of those that circuits have, the edited one's own included, so there *)
(* is always one to select from and none is typed.                          *)
(***************************************************************************)
EXTENDS TokenNames, Naturals, SequencesExt

CONSTANTS
    Vocabulary,  \* the fields of each source, in order, with their types and operators
    Given,       \* gates that proposals and saved circuits have
    Queries,     \* what is typed to search tokens
    Matching,    \* the tokens that the catalog would find for each, if it had them
    Blank,       \* the empty query
    MaxBlurs,    \* how many times the picker has just lost the focus at most
    None         \* no gate, no vocabulary, no address

Operators == {"eq", "ne", "in", "gt", "gte", "lt", "lte"}
FieldTypes == {"amount", "native_amount", "token", "bool", "signature", "address"}

(* A source has a field at least, each of a name of its own, with operators   *)
(* to test it; only an address can be in a list.                              *)
ASSUME VocabularyAssumption ==
    \A source \in DOMAIN Vocabulary :
        LET fields == Vocabulary[source] IN
        /\ fields \in Seq([key : STRING, type : FieldTypes, operators : Seq(Operators)])
        /\ fields # <<>>
        /\ \A i, j \in DOMAIN fields : fields[i].key = fields[j].key => i = j
        /\ \A i \in DOMAIN fields :
               /\ fields[i].operators # <<>>
               /\ "in" \in ToSet(fields[i].operators) => fields[i].type = "address"

ASSUME QueriesAssumption == Blank \in Queries /\ Matching \in [Queries -> SUBSET Tokens]

VARIABLES
    node,        \* the selected gate's comparison, or none
    vocabulary,  \* the resource that loads the vocabulary
    circuits,    \* whether the shell's circuits, with their address lists, are there
    picker,      \* the token picker: whether it is open, its query and its results
    searches,    \* its searches under way
    focused,     \* it has the focus
    blurs        \* timers that close it

gateVars == <<node, vocabulary, circuits>>
pickerVars == <<picker, searches, focused, blurs>>
vars == <<nameVars, gateVars, pickerVars>>

Resources == INSTANCE Resource

------------------------------------------------------------------------------
(* Gates. *)

Text(says) == [is |-> "text", says |-> says]
Flag(holds) == [is |-> "flag", holds |-> holds]
List(addresses) == [is |-> "list", addresses |-> addresses]
Token(address) == [is |-> "token", address |-> address]

(* What a text can be read as: nothing, blanks, an amount, one with its     *)
(* digits grouped, an address, one in mixed case, or words.                 *)
Typed == {"", "spaces", "amount", "grouped", "address", "checksummed", "words"}

Comparison(source, field, operator, value) ==
    [source |-> source, field |-> field.key, operator |-> operator, value |-> value]

Keys(source) == {field.key : field \in ToSet(Vocabulary[source])}

Named(source, key) == CHOOSE field \in ToSet(Vocabulary[source]) : field.key = key

FieldOf(gate) == Named(gate.source, gate.field)

(* Without a vocabulary, the type is what the value looks like. *)
InferredType(gate) ==
    LET value == gate.value IN
    CASE value.is = "flag"  -> "bool"
      [] value.is = "list"  -> "address"
      [] value.is = "token" -> "token"
      [] value.is = "text" /\ value.says \in {"address", "checksummed"} -> "address"
      [] value.is = "text" /\ value.says = "amount" ->
             IF gate.source = "transaction" THEN "native_amount" ELSE "amount"
      [] OTHER -> "signature"

TypeOf(gate) == IF vocabulary.data = None THEN InferredType(gate) ELSE FieldOf(gate).type

(* Every gate has a value its field can test: the draft can be saved. *)
IsComplete(gate) ==
    LET value == gate.value IN
    CASE TypeOf(gate) \in {"amount", "native_amount"} -> value = Text("amount")
      [] TypeOf(gate) = "token"     -> value.is = "token" /\ value.address # None
      [] TypeOf(gate) = "bool"      -> value.is = "flag"
      [] TypeOf(gate) = "signature" -> value.is = "text" /\ value.says \notin {"", "spaces"}
      [] TypeOf(gate) = "address"   ->
             IF gate.operator # "in" THEN value = Text("address")
             ELSE value.is = "list" /\ value.addresses # {}
                  /\ \A address \in value.addresses : address = "address"

TakesOperator(gate) == gate.operator \in ToSet(FieldOf(gate).operators)

(* The value is one of the field's type, with its addresses written so. *)
ValueFits(gate, written) ==
    LET value == gate.value
        type == FieldOf(gate).type
    IN  CASE type \in {"amount", "native_amount"} -> value = Text("amount")
          [] type = "token"     -> value.is = "token" /\ value.address # None
          [] type = "bool"      -> value.is = "flag"
          [] type = "signature" -> value.is = "text" /\ value.says \notin {"", "spaces"}
          [] type = "address" /\ gate.operator # "in" -> value.is = "text" /\ value.says \in written
          [] type = "address" /\ gate.operator = "in" ->
                 value.is = "list" /\ value.addresses # {} /\ value.addresses \subseteq written

(* What is checked when the draft is backtested, and when it is saved: the   *)
(* server takes addresses in any case.                                       *)
BacktestTakes(gate) == TakesOperator(gate) /\ ValueFits(gate, {"address"})
ServerTakes(gate) == TakesOperator(gate) /\ ValueFits(gate, {"address", "checksummed"})

Values ==
    [is : {"text"}, says : Typed] \union [is : {"flag"}, holds : BOOLEAN]
        \union [is : {"list"}, addresses : SUBSET {"address", "checksummed"}]
        \union [is : {"token"}, address : Tokens \union {None}]

Gates == [source : DOMAIN Vocabulary, field : STRING, operator : Operators, value : Values]

(* The server has checked the gates it proposes and those it keeps. *)
ASSUME GivenAssumption ==
    \A gate \in Given : gate \in Gates /\ gate.field \in Keys(gate.source) /\ ServerTakes(gate)

(* A fresh value: a list that there is already for an address to be in, and  *)
(* otherwise a blank.                                                        *)
DefaultValue(type, operator) ==
    CASE type = "token" -> Token(None)
      [] type = "bool"  -> Flag(FALSE)
      [] type = "address" /\ operator = "in" -> List(IF circuits THEN {"address"} ELSE {})
      [] OTHER -> Text("")

(* What is kept of what is typed into a field. *)
Kept(type, says) ==
    CASE type = "signature" -> says
      [] type = "address" ->
             CASE says = "spaces" -> "" [] says = "checksummed" -> "address" [] OTHER -> says
      [] OTHER ->
             CASE says = "spaces" -> "" [] says = "grouped" -> "amount" [] OTHER -> says

------------------------------------------------------------------------------
(* The picker. *)

Closed == [open |-> FALSE, query |-> Blank, status |-> "loading", tokens |-> {}]

HasPicker(gate) == gate # None /\ vocabulary.data # None /\ TypeOf(gate) = "token"

OnToken == HasPicker(node)

(* Mutant: a search is let go of only by another query's, not by closing. *)
OnQueryOnly(p) == p.query

(* What the search's effect depends on. *)
Sought(p) == <<p.open, p.query>>

(* Mutant: a search that is under way still lands. *)
AllGoOn(under) == under

(* The effect's cleanup clears the timer and lets the answer go. *)
LetGo(under) == {}

(* An open picker searches for its query, and keeps its results meanwhile. *)
Search(p) ==
    IF p.open
    THEN /\ picker' = [p EXCEPT !.status = "loading"]
         /\ searches' = LetGo(searches) \union {[for |-> p.query, step |-> "timer"]}
    ELSE picker' = p /\ searches' = LetGo(searches)

(* The picker becomes this; the effect runs if what it depends on changed. *)
Become(p) ==
    IF Sought(p) = Sought(picker) THEN picker' = p /\ UNCHANGED searches ELSE Search(p)

(* As a pick and Escape leave it. *)
Shut == [picker EXCEPT !.open = FALSE, !.query = Blank]

(* A picker that is not there: one that comes later starts anew. *)
NoPicker == picker' = Closed /\ searches' = {} /\ focused' = FALSE /\ blurs' = 0

(* The gate changes; the picker stays if there still is one. *)
SetNode(gate) ==
    /\ node' = gate
    /\ IF OnToken /\ HasPicker(gate) THEN UNCHANGED pickerVars ELSE NoPicker

Focus ==
    /\ OnToken /\ ~focused
    /\ focused' = TRUE
    /\ Become([picker EXCEPT !.open = TRUE])
    /\ UNCHANGED <<nameVars, gateVars, blurs>>

(* The list closes a moment after the focus has gone. *)
Blur ==
    /\ OnToken /\ focused /\ blurs < MaxBlurs
    /\ focused' = FALSE
    /\ blurs' = blurs + 1
    /\ UNCHANGED <<nameVars, gateVars, picker, searches>>

BlurCloses ==
    /\ blurs > 0
    /\ blurs' = blurs - 1
    /\ Become([picker EXCEPT !.open = FALSE])
    /\ UNCHANGED <<nameVars, gateVars, focused>>

TypeQuery(query) ==
    /\ OnToken /\ focused
    /\ Become([picker EXCEPT !.query = query, !.open = TRUE])
    /\ UNCHANGED <<nameVars, gateVars, focused, blurs>>

(* An arrow opens the list; in an open one it only moves the highlight. *)
Arrow ==
    /\ OnToken /\ focused /\ ~picker.open
    /\ Become([picker EXCEPT !.open = TRUE])
    /\ UNCHANGED <<nameVars, gateVars, focused, blurs>>

Escape ==
    /\ OnToken /\ focused
    /\ Become(Shut)
    /\ UNCHANGED <<nameVars, gateVars, focused, blurs>>

RetrySearch ==
    /\ OnToken /\ picker.open /\ picker.status = "error"
    /\ Search(picker)
    /\ UNCHANGED <<nameVars, gateVars, focused, blurs>>

(* A token of the list is clicked, or Enter takes the highlighted one, also *)
(* while a search for what was typed since is under way.                    *)
PickToken(token) ==
    /\ OnToken /\ picker.open
    /\ token \in picker.tokens
    /\ node' = [node EXCEPT !.value = Token(token)]
    /\ Become(Shut)
    /\ UNCHANGED <<nameVars, vocabulary, circuits, focused, blurs>>

SearchTimer(search) ==
    /\ search.step = "timer"
    /\ searches' = (searches \ {search}) \union {[search EXCEPT !.step = "asked"]}
    /\ UNCHANGED <<nameVars, gateVars, picker, focused, blurs>>

LandSearch(search) ==
    /\ search.step = "asked"
    /\ LET found == Matching[search.for] \intersect catalog IN
           \/ /\ picker' = [picker EXCEPT !.status = "ready", !.tokens = found]
              /\ known' = Learn(found)
           \/ /\ picker' = [picker EXCEPT !.status = "error", !.tokens = {}]
              /\ UNCHANGED known
    /\ searches' = searches \ {search}
    /\ UNCHANGED <<catalog, lookups, gateVars, focused, blurs>>

------------------------------------------------------------------------------
(* The gate. *)

Editing == node # None /\ vocabulary.data # None

(* Another gate is selected, none is, or one is wired next to the selected. *)
Choose(gate) == SetNode(gate) /\ UNCHANGED <<nameVars, vocabulary, circuits>>

FreshGate(source) ==
    LET key == IF source = "token_transfer" THEN "amount" ELSE "value" IN
    [source |-> source, field |-> key, operator |-> "gte", value |-> Text("")]

(* Each source has the field of a fresh gate, and it is an amount. *)
ASSUME FreshAssumption ==
    \A source \in DOMAIN Vocabulary :
        LET gate == FreshGate(source) IN
        /\ gate.field \in Keys(source) /\ TakesOperator(gate)
        /\ FieldOf(gate).type \in {"amount", "native_amount"}

AddGate == Editing /\ Choose(FreshGate(node.source))

(* Another source starts at its first field; another field is given its     *)
(* first operator and a fresh value.                                        *)
Reset(source, key) ==
    /\ Editing
    /\ LET field == IF key \in Keys(source) THEN Named(source, key) ELSE Vocabulary[source][1]
           operator == field.operators[1]
       IN  SetNode(Comparison(source, field, operator, DefaultValue(field.type, operator)))
    /\ UNCHANGED <<nameVars, vocabulary, circuits>>

ChangeSource(source) == Editing /\ source # node.source /\ Reset(source, None)

ChangeField(key) ==
    Editing /\ key \in Keys(node.source) \ {node.field} /\ Reset(node.source, key)

(* Mutant: the value stays whatever the operator. *)
NeverFresh(operator) == FALSE

(* To be in a list and to be an address take values of different kinds. *)
TakesFresh(operator) ==
    TypeOf(node) = "address" /\ (operator = "in") # (node.operator = "in")

SetOperator(operator) ==
    /\ Editing
    /\ operator \in ToSet(FieldOf(node).operators)
    /\ SetNode([node EXCEPT !.operator = operator,
                   !.value = IF TakesFresh(operator) THEN DefaultValue(TypeOf(node), operator) ELSE @])
    /\ UNCHANGED <<nameVars, vocabulary, circuits>>

(* What the value is edited with. *)
Control ==
    CASE TypeOf(node) = "token" -> "picker"
      [] TypeOf(node) = "bool"  -> "flag"
      [] TypeOf(node) = "address" /\ node.operator = "in" -> "list"
      [] OTHER -> "text"

Lists == (IF circuits THEN {List({"address"})} ELSE {})
             \union (IF node.operator = "in" THEN {node.value} ELSE {})

SetValue(value) ==
    /\ node' = [node EXCEPT !.value = value]
    /\ UNCHANGED <<nameVars, vocabulary, circuits, pickerVars>>

TypeValue(says) == Editing /\ Control = "text" /\ SetValue(Text(Kept(TypeOf(node), says)))

ChooseFlag(holds) == Editing /\ Control = "flag" /\ SetValue(Flag(holds))

ChooseList(list) == Editing /\ Control = "list" /\ list \in Lists /\ SetValue(list)

(* The vocabulary lands, or fails and is asked for again. *)
LandVocabulary ==
    /\ vocabulary.status = "loading"
    /\ vocabulary' \in {Resources!Landed(vocabulary, "fields"), Resources!FailureLanded(vocabulary)}
    /\ NoPicker
    /\ UNCHANGED <<nameVars, node, circuits>>

ReloadVocabulary ==
    /\ node # None /\ vocabulary.data = None /\ vocabulary.status = "error"
    /\ vocabulary' = Resources!Restarted(vocabulary)
    /\ UNCHANGED <<nameVars, node, circuits, pickerVars>>

CircuitsLoad ==
    /\ ~circuits /\ circuits' = TRUE
    /\ UNCHANGED <<nameVars, node, vocabulary, pickerVars>>

------------------------------------------------------------------------------
Init ==
    /\ NamesInit
    /\ node = None
    /\ vocabulary = Resources!Unloaded
    /\ circuits \in BOOLEAN
    /\ picker = Closed /\ searches = {} /\ focused = FALSE /\ blurs = 0

Next ==
    \/ \E gate \in Given \union {None} : Choose(gate)
    \/ AddGate
    \/ \E source \in DOMAIN Vocabulary : ChangeSource(source)
    \/ \E key \in UNION {Keys(source) : source \in DOMAIN Vocabulary} : ChangeField(key)
    \/ \E operator \in Operators : SetOperator(operator)
    \/ \E says \in Typed : TypeValue(says)
    \/ \E holds \in BOOLEAN : ChooseFlag(holds)
    \/ \E addresses \in SUBSET {"address"} : ChooseList(List(addresses))
    \/ LandVocabulary \/ ReloadVocabulary \/ CircuitsLoad
    \/ Focus \/ Blur \/ BlurCloses \/ Arrow \/ Escape \/ RetrySearch
    \/ \E query \in Queries : TypeQuery(query)
    \/ \E token \in Tokens : PickToken(token)
    \/ \E search \in searches : SearchTimer(search) \/ LandSearch(search)
    \/ NamesStep /\ UNCHANGED <<gateVars, pickerVars>>

(* Timers fire and searches are answered, well or not; nothing else need be. *)
Spec ==
    /\ Init /\ [][Next]_vars
    /\ WF_vars(\E search \in searches : SearchTimer(search) \/ LandSearch(search))

------------------------------------------------------------------------------
(* However source, field, operator and value are changed in turn, the value   *)
(* is of the kind its control edits, a list above all, which the drawing and  *)
(* the editor read the addresses of; and a gate that counts as complete is    *)
(* one that backtests and saves, also while the vocabulary is still to come   *)
(* and the type is read off the value.                                        *)
GateFits ==
    node # None =>
        /\ node.value.is =
               CASE Control = "picker" -> "token" [] OTHER -> Control
        /\ IsComplete(node) => BacktestTakes(node) /\ ServerTakes(node)

(* Tokens listed as found are found for what is typed now, not for a query   *)
(* typed over since, in an order in which the answers come or otherwise.     *)
ResultsOfQuery ==
    picker.open /\ picker.status = "ready" => picker.tokens \subseteq Matching[picker.query]

(* A name once known is lost in one kind of step only, whatever lookups that  *)
(* other sheets started fail or come late: the one in which a lookup of that *)
(* token, answered "missing" before the catalog had it, lands over the name. *)
NamesStay ==
    [][\A token \in Tokens :
           known[token] = "named" /\ known'[token] # "named" =>
               [of |-> token, answer |-> "missing"] \in lookups \ lookups']_vars

(* A list that stays open on a query stops searching, with what it found or  *)
(* with the failure, however often it was closed and typed over before.      *)
SearchSettles ==
    \A query \in Queries :
        OnToken /\ picker.open /\ picker.query = query
            ~> ~OnToken \/ ~picker.open \/ picker.query # query \/ picker.status # "loading"
=============================================================================
