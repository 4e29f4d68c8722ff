--------------------------- MODULE GateEditorProofs ---------------------------
(***************************************************************************)
(* Theorems about the gate editor, for every vocabulary, set of gates and   *)
(* of tokens, and any number of searches and lookups.  Each is an invariant *)
(* of its own part: the gate, the picker, the names.                        *)
(***************************************************************************)
EXTENDS GateEditor, SequenceTheorems, TLAPS

------------------------------------------------------------------------------
(* The fields. *)

Fields == [key : STRING, type : FieldTypes, operators : Seq(Operators)]

(* What a gate names, its source has, and no two fields have one name. *)
LEMMA NamedIsThere ==
    ASSUME NEW source \in DOMAIN Vocabulary, NEW key \in Keys(source)
    PROVE  /\ Named(source, key) \in ToSet(Vocabulary[source])
           /\ Named(source, key).key = key
PROOF
<1>1. PICK field \in ToSet(Vocabulary[source]) : field.key = key
  BY DEF Keys
<1> QED
  BY <1>1 DEF Named

(* A field of the vocabulary has an operator, and only an address takes "in". *)
LEMMA FieldHasOperators ==
    ASSUME NEW source \in DOMAIN Vocabulary, NEW field \in ToSet(Vocabulary[source])
    PROVE  /\ field \in Fields
           /\ field.key \in Keys(source)
           /\ Named(source, field.key) = field
           /\ field.operators[1] \in ToSet(field.operators)
           /\ ToSet(field.operators) \subseteq Operators
           /\ "in" \in ToSet(field.operators) => field.type = "address"
PROOF
<1> DEFINE fields == Vocabulary[source]
<1>1. /\ fields \in Seq(Fields)
      /\ \A i, j \in DOMAIN fields : fields[i].key = fields[j].key => i = j
      /\ \A i \in DOMAIN fields :
             /\ fields[i].operators # <<>>
             /\ "in" \in ToSet(fields[i].operators) => fields[i].type = "address"
  BY VocabularyAssumption DEF Fields
<1>2. PICK i \in DOMAIN fields : fields[i] = field
  BY DEF ToSet
<1>3. field \in Fields
  BY <1>1, <1>2, ElementOfSeq
<1>4. field.key \in Keys(source)
  BY DEF Keys
<1>5. Named(source, field.key) = field
  <2> DEFINE named == Named(source, field.key)
  <2>1. named \in ToSet(fields) /\ named.key = field.key
    BY <1>4, NamedIsThere
  <2>2. PICK j \in DOMAIN fields : fields[j] = named
    BY <2>1 DEF ToSet
  <2> QED
    BY <1>1, <1>2, <2>1, <2>2
<1>6. field.operators \in Seq(Operators) /\ field.operators # <<>>
  BY <1>1, <1>2, <1>3 DEF Fields
<1>7. 1 \in DOMAIN field.operators
  <2>1. Len(field.operators) # 0
    BY <1>6, EmptySeq
  <2> QED
    BY <1>6, <2>1, LenProperties
<1>8. ToSet(field.operators) \subseteq Operators
  BY <1>6, ElementOfSeq, LenProperties DEF ToSet
<1> QED
  BY <1>1, <1>2, <1>3, <1>4, <1>5, <1>7, <1>8 DEF ToSet

(* Each source has a first field. *)
LEMMA FirstField ==
    ASSUME NEW source \in DOMAIN Vocabulary
    PROVE  Vocabulary[source][1] \in ToSet(Vocabulary[source])
PROOF
<1>1. Vocabulary[source] \in Seq(Fields) /\ Vocabulary[source] # <<>>
  BY VocabularyAssumption DEF Fields
<1>2. Len(Vocabulary[source]) # 0
  BY <1>1, EmptySeq
<1> QED
  BY <1>1, <1>2, LenProperties DEF ToSet

------------------------------------------------------------------------------
(* The gate. *)

(* What a value of this type is, taken by this operator. *)
KindOf(type, operator) ==
    CASE type = "token" -> "token"
      [] type = "bool"  -> "flag"
      [] type = "address" /\ operator = "in" -> "list"
      [] OTHER -> "text"

(* The gate is of the vocabulary, and its value of the kind its field tests. *)
Fits(gate) ==
    /\ gate \in Gates
    /\ gate.field \in Keys(gate.source)
    /\ TakesOperator(gate)
    /\ gate.value.is = KindOf(FieldOf(gate).type, gate.operator)

(* Until the vocabulary has landed the gate is as it was given; once it has, *)
(* it is there for good.                                                     *)
GateInv ==
    /\ circuits \in BOOLEAN
    /\ node # None => Fits(node)
    /\ vocabulary \in Resources!ResourceOf({"fields"})
    /\ vocabulary.data = None => node \in Given \union {None}
    /\ vocabulary.data # None => vocabulary.status = "ready"

LEMMA AmountIsText ==
    ASSUME NEW type \in {"amount", "native_amount"}, NEW operator
    PROVE  KindOf(type, operator) = "text"
PROOF
BY DEF KindOf

(* A fresh value is of the kind asked for. *)
LEMMA DefaultFits ==
    ASSUME NEW type \in FieldTypes, NEW operator \in Operators, circuits \in BOOLEAN
    PROVE  /\ DefaultValue(type, operator) \in Values
           /\ DefaultValue(type, operator).is = KindOf(type, operator)
PROOF
BY DEF FieldTypes, DefaultValue, Values, KindOf, Text, Flag, List, Token, Typed

(* A gate the server takes has a value of the kind its field tests. *)
LEMMA GivenFits ==
    ASSUME NEW gate \in Given
    PROVE  Fits(gate)
PROOF
<1>1. gate \in Gates /\ gate.field \in Keys(gate.source) /\ ServerTakes(gate)
  BY GivenAssumption
<1>2. gate.source \in DOMAIN Vocabulary
  BY <1>1 DEF Gates
<1>3. FieldOf(gate) \in Fields
  BY <1>1, <1>2, NamedIsThere, FieldHasOperators DEF FieldOf
<1>4. FieldOf(gate).type \in FieldTypes
  BY <1>3 DEF Fields
<1>5. gate.value.is = KindOf(FieldOf(gate).type, gate.operator)
  <2> DEFINE type == FieldOf(gate).type
  <2>1. CASE type \in {"amount", "native_amount"}
    <3>1. gate.value = Text("amount")
      BY <1>1, <2>1 DEF ServerTakes, ValueFits
    <3>2. KindOf(type, gate.operator) = "text"
      BY <2>1, AmountIsText
    <3> QED
      BY <3>1, <3>2 DEF Text
  <2>2. CASE type = "token"
    BY <1>1, <2>2 DEF ServerTakes, ValueFits, KindOf
  <2>3. CASE type = "bool"
    BY <1>1, <2>3 DEF ServerTakes, ValueFits, KindOf
  <2>4. CASE type = "signature"
    BY <1>1, <2>4 DEF ServerTakes, ValueFits, KindOf
  <2>5. CASE type = "address" /\ gate.operator = "in"
    BY <1>1, <2>5 DEF ServerTakes, ValueFits, KindOf
  <2>6. CASE type = "address" /\ gate.operator # "in"
    BY <1>1, <2>6 DEF ServerTakes, ValueFits, KindOf
  <2> QED
    BY <1>4, <2>1, <2>2, <2>3, <2>4, <2>5, <2>6 DEF FieldTypes
<1> QED
  BY <1>1, <1>5 DEF Fits, ServerTakes

(* A gate that fits keeps fitting with another value of the kind. *)
LEMMA AnotherValueFits ==
    ASSUME NEW gate, Fits(gate), NEW value \in Values,
           value.is = KindOf(FieldOf(gate).type, gate.operator)
    PROVE  Fits([gate EXCEPT !.value = value])
PROOF
<1> DEFINE changed == [gate EXCEPT !.value = value]
<1>1. /\ changed \in Gates
      /\ changed.source = gate.source /\ changed.field = gate.field
      /\ changed.operator = gate.operator /\ changed.value = value
  BY DEF Fits, Gates
<1>2. FieldOf(changed) = FieldOf(gate)
  BY <1>1 DEF FieldOf
<1> QED
  BY <1>1, <1>2 DEF Fits, TakesOperator

(* A gate made anew, of any of the source's fields, fits. *)
LEMMA ResetFits ==
    ASSUME NEW source \in DOMAIN Vocabulary, NEW field \in ToSet(Vocabulary[source]),
           circuits \in BOOLEAN
    PROVE  Fits(Comparison(source, field, field.operators[1],
                           DefaultValue(field.type, field.operators[1])))
PROOF
<1> DEFINE operator == field.operators[1]
           gate == Comparison(source, field, operator, DefaultValue(field.type, operator))
<1>1. /\ field \in Fields /\ field.key \in Keys(source) /\ Named(source, field.key) = field
      /\ operator \in ToSet(field.operators) /\ operator \in Operators
  BY FieldHasOperators
<1>2. field.type \in FieldTypes /\ field.key \in STRING
  BY <1>1 DEF Fields
<1>3. /\ DefaultValue(field.type, operator) \in Values
      /\ DefaultValue(field.type, operator).is = KindOf(field.type, operator)
  BY <1>1, <1>2, DefaultFits
<1>4. gate \in Gates
  BY <1>1, <1>2, <1>3 DEF Gates, Comparison
<1>5. FieldOf(gate) = field
  BY <1>1 DEF FieldOf, Comparison
<1> QED
  BY <1>1, <1>3, <1>4, <1>5 DEF Fits, TakesOperator, Comparison

(* So does a fresh one, next to the selected. *)
LEMMA FreshFits ==
    ASSUME NEW source \in DOMAIN Vocabulary
    PROVE  Fits(FreshGate(source))
PROOF
<1> DEFINE key == IF source = "token_transfer" THEN "amount" ELSE "value"
           gate == [source |-> source, field |-> key, operator |-> "gte", value |-> Text("")]
<1>1. FreshGate(source) = gate
  BY DEF FreshGate
<1>2. /\ gate.field \in Keys(source) /\ TakesOperator(gate)
      /\ FieldOf(gate).type \in {"amount", "native_amount"}
  BY <1>1, FreshAssumption
<1>3. Text("") \in Values /\ Text("").is = "text" /\ "gte" \in Operators
  BY DEF Values, Text, Typed, Operators
<1>4. key \in STRING
  <2>1. PICK field \in ToSet(Vocabulary[source]) : field.key = key
    BY <1>2 DEF Keys
  <2> QED
    BY <2>1, FieldHasOperators DEF Fields
<1>5. gate \in Gates
  BY <1>3, <1>4 DEF Gates
<1>6. KindOf(FieldOf(gate).type, gate.operator) = "text"
  BY <1>2, AmountIsText
<1>7. gate.value.is = "text" /\ gate.source = source
  BY <1>3
<1>8. Fits(gate)
  BY <1>2, <1>5, <1>6, <1>7 DEF Fits
<1> QED
  BY <1>1, <1>8

(* The vocabulary is there, or the gate is as it was given. *)
LEMMA EditingFits ==
    ASSUME GateInv, Editing
    PROVE  /\ Fits(node) /\ node.source \in DOMAIN Vocabulary
           /\ FieldOf(node) \in ToSet(Vocabulary[node.source])
           /\ TypeOf(node) = FieldOf(node).type /\ TypeOf(node) \in FieldTypes
PROOF
<1>1. Fits(node) /\ node.source \in DOMAIN Vocabulary
  BY DEF GateInv, Editing, Fits, Gates
<1>2. FieldOf(node) \in ToSet(Vocabulary[node.source])
  BY <1>1, NamedIsThere DEF Fits, FieldOf
<1>3. FieldOf(node) \in Fields
  BY <1>1, <1>2, FieldHasOperators
<1> QED
  BY <1>1, <1>2, <1>3 DEF Editing, TypeOf, Fields

LEMMA EditsFit ==
    ASSUME GateInv,
           \/ AddGate
           \/ \E source \in DOMAIN Vocabulary : ChangeSource(source)
           \/ \E key \in UNION {Keys(source) : source \in DOMAIN Vocabulary} : ChangeField(key)
           \/ \E operator \in Operators : SetOperator(operator)
    PROVE  Fits(node') /\ UNCHANGED <<vocabulary, circuits>> /\ vocabulary.data # None
PROOF
<1> USE DEF Editing
<1> circuits \in BOOLEAN
  BY DEF GateInv
<1>1. CASE AddGate
  BY <1>1, EditingFits, FreshFits DEF AddGate, Choose, SetNode
<1>2. ASSUME NEW source \in DOMAIN Vocabulary, NEW key, Reset(source, key)
      PROVE  Fits(node') /\ UNCHANGED <<vocabulary, circuits>> /\ vocabulary.data # None
  <2> DEFINE field == IF key \in Keys(source) THEN Named(source, key) ELSE Vocabulary[source][1]
  <2>1. field \in ToSet(Vocabulary[source])
    BY NamedIsThere, FirstField
  <2>2. node' = Comparison(source, field, field.operators[1],
                           DefaultValue(field.type, field.operators[1]))
    BY <1>2 DEF Reset, SetNode
  <2>3. Fits(node')
    BY <2>1, <2>2, ResetFits
  <2> QED
    BY <1>2, <2>3 DEF Reset
<1>3. CASE \E source \in DOMAIN Vocabulary : ChangeSource(source)
  BY <1>2, <1>3 DEF ChangeSource
<1>4. CASE \E key \in UNION {Keys(source) : source \in DOMAIN Vocabulary} : ChangeField(key)
  BY <1>2, <1>4, EditingFits DEF ChangeField
<1>5. CASE \E operator \in Operators : SetOperator(operator)
  <2>1. PICK operator \in Operators : SetOperator(operator)
    BY <1>5
  <2> DEFINE type == FieldOf(node).type
             moved == [node EXCEPT !.operator = operator]
             value == IF TakesFresh(operator) THEN DefaultValue(type, operator) ELSE node.value
  <2>2. /\ Fits(node) /\ TypeOf(node) = type /\ type \in FieldTypes
        /\ operator \in ToSet(FieldOf(node).operators)
        /\ vocabulary.data # None /\ UNCHANGED <<vocabulary, circuits>>
    BY <2>1, EditingFits DEF SetOperator
  <2>3. node' = [node EXCEPT !.operator = operator, !.value = value]
    BY <2>1, <2>2 DEF SetOperator, SetNode
  <2>4. value \in Values /\ value.is = KindOf(type, operator)
    <3>1. CASE TakesFresh(operator)
      BY <2>2, <3>1, DefaultFits
    <3>2. CASE ~TakesFresh(operator)
      <4>1. KindOf(type, operator) = KindOf(type, node.operator)
        BY <2>2, <3>2 DEF TakesFresh, KindOf
      <4> QED
        BY <2>2, <3>2, <4>1 DEF Fits, Gates
    <3> QED
      BY <3>1, <3>2
  <2>5. /\ node' \in Gates /\ node'.source = node.source /\ node'.field = node.field
        /\ node'.operator = operator /\ node'.value = value
    BY <2>2, <2>3, <2>4 DEF Fits, Gates
  <2>6. Named(node'.source, node'.field) = FieldOf(node)
    BY <2>5 DEF FieldOf
  <2>7. Fits(node')
    BY <2>2, <2>4, <2>5, <2>6 DEF Fits, TakesOperator, FieldOf
  <2> QED
    BY <2>2, <2>7
<1> QED
  BY <1>1, <1>3, <1>4, <1>5

(* The value is changed by the control there is for it. *)
LEMMA ValuesFit ==
    ASSUME GateInv,
           \/ \E says \in Typed : TypeValue(says)
           \/ \E holds \in BOOLEAN : ChooseFlag(holds)
           \/ \E addresses \in SUBSET {"address"} : ChooseList(List(addresses))
           \/ \E token \in Tokens : PickToken(token)
    PROVE  Fits(node') /\ UNCHANGED <<vocabulary, circuits>> /\ vocabulary.data # None
PROOF
<1> DEFINE kind == KindOf(FieldOf(node).type, node.operator)
<1>1. ASSUME NEW value \in Values, value.is = kind, node' = [node EXCEPT !.value = value],
             UNCHANGED <<vocabulary, circuits>>, Editing
      PROVE  Fits(node') /\ UNCHANGED <<vocabulary, circuits>> /\ vocabulary.data # None
  <2>1. Fits([node EXCEPT !.value = value])
    BY <1>1, EditingFits, AnotherValueFits
  <2> QED
    BY <1>1, <2>1 DEF Editing
<1>2. CASE \E says \in Typed : TypeValue(says)
  <2>1. PICK says \in Typed : TypeValue(says)
    BY <1>2
  <2> DEFINE value == Text(Kept(TypeOf(node), says))
  <2>2. TypeOf(node) = FieldOf(node).type /\ TypeOf(node) \in FieldTypes
    BY <2>1, EditingFits DEF TypeValue
  <2>3. Kept(TypeOf(node), says) \in Typed
    BY <2>2 DEF Kept, Typed, FieldTypes
  <2>4. value \in Values /\ value.is = "text"
    BY <2>3 DEF Values, Text
  <2>5. kind = "text"
    BY <2>1, <2>2 DEF TypeValue, Control, KindOf, FieldTypes
  <2> QED
    BY <1>1, <2>1, <2>4, <2>5 DEF TypeValue, SetValue
<1>3. CASE \E holds \in BOOLEAN : ChooseFlag(holds)
  <2>1. PICK holds \in BOOLEAN : ChooseFlag(holds)
    BY <1>3
  <2>2. TypeOf(node) = FieldOf(node).type /\ TypeOf(node) \in FieldTypes
    BY <2>1, EditingFits DEF ChooseFlag
  <2>3. Flag(holds) \in Values /\ Flag(holds).is = "flag"
    BY DEF Values, Flag
  <2>4. kind = "flag"
    BY <2>1, <2>2 DEF ChooseFlag, Control, KindOf, FieldTypes
  <2> QED
    BY <1>1, <2>1, <2>3, <2>4 DEF ChooseFlag, SetValue
<1>4. CASE \E addresses \in SUBSET {"address"} : ChooseList(List(addresses))
  <2>1. PICK addresses \in SUBSET {"address"} : ChooseList(List(addresses))
    BY <1>4
  <2>2. TypeOf(node) = FieldOf(node).type /\ TypeOf(node) \in FieldTypes
    BY <2>1, EditingFits DEF ChooseList
  <2>3. List(addresses) \in Values /\ List(addresses).is = "list"
    BY DEF Values, List
  <2>4. kind = "list"
    BY <2>1, <2>2 DEF ChooseList, Control, KindOf, FieldTypes
  <2> QED
    BY <1>1, <2>1, <2>3, <2>4 DEF ChooseList, SetValue
<1>5. CASE \E token \in Tokens : PickToken(token)
  <2>1. PICK token \in Tokens : PickToken(token)
    BY <1>5
  <2>2. Editing /\ TypeOf(node) = "token"
    BY <2>1 DEF PickToken, OnToken, HasPicker, Editing
  <2>3. Token(token) \in Values /\ Token(token).is = "token"
    BY DEF Values, Token
  <2>4. kind = "token"
    BY <2>2, EditingFits DEF KindOf
  <2> QED
    BY <1>1, <2>1, <2>2, <2>3, <2>4 DEF PickToken
<1> QED
  BY <1>2, <1>3, <1>4, <1>5

(* The vocabulary lands once, and nothing has been edited before. *)
LEMMA LoadsKeepGate ==
    ASSUME GateInv, LandVocabulary \/ ReloadVocabulary \/ CircuitsLoad
    PROVE  GateInv'
PROOF
<1> USE DEF GateInv, Fits, Gates, TakesOperator, FieldOf
<1>1. CASE LandVocabulary
  <2>1. vocabulary.data = None
    BY <1>1 DEF LandVocabulary
  <2>2. CASE vocabulary' = Resources!Landed(vocabulary, "fields")
    BY <1>1, <2>1, <2>2 DEF LandVocabulary, Resources!Landed, Resources!ResourceOf
  <2>3. CASE vocabulary' = Resources!FailureLanded(vocabulary)
    BY <1>1, <2>1, <2>3 DEF LandVocabulary, Resources!FailureLanded, Resources!ResourceOf
  <2> QED
    BY <1>1, <2>2, <2>3 DEF LandVocabulary
<1>2. CASE ReloadVocabulary
  BY <1>2 DEF ReloadVocabulary, Resources!Restarted, Resources!ResourceOf
<1>3. CASE CircuitsLoad
  BY <1>3 DEF CircuitsLoad
<1> QED
  BY <1>1, <1>2, <1>3

(* The picker's other steps and the names leave the gate alone. *)
OnlyPicker ==
    \/ Focus \/ Blur \/ BlurCloses \/ Arrow \/ Escape \/ RetrySearch
    \/ \E query \in Queries : TypeQuery(query)
    \/ \E search \in searches : SearchTimer(search) \/ LandSearch(search)

LEMMA GateLeftAlone ==
    ASSUME GateInv, UNCHANGED gateVars
    PROVE  GateInv'
PROOF
BY DEF GateInv, gateVars, Fits, Gates, TakesOperator, FieldOf

LEMMA StepKeepsGate ==
    ASSUME GateInv, [Next]_vars
    PROVE  GateInv'
PROOF
<1>1. ASSUME Fits(node'), UNCHANGED <<vocabulary, circuits>>, vocabulary.data # None
      PROVE  GateInv'
  BY <1>1 DEF GateInv, Fits, Gates, TakesOperator, FieldOf
<1>2. CASE \E gate \in Given \union {None} : Choose(gate)
  <2>1. PICK gate \in Given \union {None} : node' = gate /\ UNCHANGED <<vocabulary, circuits>>
    BY <1>2 DEF Choose, SetNode
  <2>2. gate # None => Fits(gate)
    BY GivenFits
  <2> QED
    BY <2>1, <2>2 DEF GateInv, Fits, Gates, TakesOperator, FieldOf
<1>3. CASE \/ AddGate
           \/ \E source \in DOMAIN Vocabulary : ChangeSource(source)
           \/ \E key \in UNION {Keys(source) : source \in DOMAIN Vocabulary} : ChangeField(key)
           \/ \E operator \in Operators : SetOperator(operator)
  BY <1>1, <1>3, EditsFit
<1>4. CASE \/ \E says \in Typed : TypeValue(says)
           \/ \E holds \in BOOLEAN : ChooseFlag(holds)
           \/ \E addresses \in SUBSET {"address"} : ChooseList(List(addresses))
           \/ \E token \in Tokens : PickToken(token)
  BY <1>1, <1>4, ValuesFit
<1>5. CASE LandVocabulary \/ ReloadVocabulary \/ CircuitsLoad
  BY <1>5, LoadsKeepGate
<1>6. CASE OnlyPicker
  BY <1>6, GateLeftAlone
     DEF OnlyPicker, Focus, Blur, BlurCloses, Arrow, Escape, RetrySearch, TypeQuery, SearchTimer,
         LandSearch
<1>7. CASE UNCHANGED gateVars
  BY <1>7, GateLeftAlone
<1> QED
  BY <1>2, <1>3, <1>4, <1>5, <1>6, <1>7 DEF Next, OnlyPicker, vars, pickerVars

LEMMA AddressFits ==
    ASSUME NEW gate, FieldOf(gate).type = "address", gate.operator # "in",
           gate.value = Text("address")
    PROVE  ValueFits(gate, {"address"})
PROOF
<1>1. gate.value.is = "text" /\ gate.value.says = "address"
  BY DEF Text
<1> QED
  BY <1>1 DEF ValueFits

LEMMA ListFits ==
    ASSUME NEW gate, FieldOf(gate).type = "address", gate.operator = "in",
           gate.value.is = "list", gate.value.addresses # {},
           \A address \in gate.value.addresses : address = "address"
    PROVE  ValueFits(gate, {"address"})
PROOF
<1>1. gate.value.addresses \subseteq {"address"}
  OBVIOUS
<1> QED
  BY <1>1 DEF ValueFits

(* Complete, by whatever type there is for it, is what the type of its field *)
(* takes: a value that looks like another type's is a signature.             *)
LEMMA CompleteIsTaken ==
    ASSUME GateInv, node # None, IsComplete(node)
    PROVE  BacktestTakes(node) /\ ServerTakes(node)
PROOF
<1> DEFINE field == FieldOf(node)
           value == node.value
<1>1. /\ Fits(node) /\ field \in ToSet(Vocabulary[node.source])
      /\ field.type \in FieldTypes
      /\ "in" \in ToSet(field.operators) => field.type = "address"
  BY NamedIsThere, FieldHasOperators DEF GateInv, Fits, Gates, FieldOf, Fields
<1>2. node.operator = "in" => field.type = "address"
  BY <1>1 DEF Fits, TakesOperator
<1>3. ValueFits(node, {"address"})
  <2>1. CASE vocabulary.data # None
    <3>1. TypeOf(node) = field.type
      BY <2>1 DEF TypeOf
    <3>2. CASE field.type \in {"amount", "native_amount", "token", "bool", "signature"}
      BY <3>1, <3>2 DEF IsComplete, ValueFits
    <3>3. CASE field.type = "address" /\ node.operator # "in"
      <4>1. value = Text("address")
        BY <3>1, <3>3 DEF IsComplete
      <4> QED
        BY <3>3, <4>1, AddressFits
    <3>4. CASE field.type = "address" /\ node.operator = "in"
      <4>1. /\ value.is = "list" /\ value.addresses # {}
            /\ \A address \in value.addresses : address = "address"
        BY <3>1, <3>4 DEF IsComplete
      <4> QED
        BY <3>4, <4>1, ListFits
    <3> QED
      BY <1>1, <3>2, <3>3, <3>4 DEF FieldTypes
  <2>2. CASE vocabulary.data = None
    <3>1. node \in Given
      BY <2>2 DEF GateInv
    <3>2. ValueFits(node, {"address", "checksummed"}) /\ value \in Values
      BY <3>1, GivenAssumption DEF ServerTakes, Gates
    <3>3. TypeOf(node) = InferredType(node)
      BY <2>2 DEF TypeOf
    <3>4. CASE field.type \in {"amount", "native_amount", "token", "bool", "signature"}
      BY <3>2, <3>4 DEF ValueFits
    <3>5. CASE field.type = "address" /\ node.operator # "in"
      <4>1. value.is = "text" /\ value.says \in {"address", "checksummed"}
        BY <3>2, <3>5 DEF ValueFits
      <4>2. TypeOf(node) = "address"
        BY <3>3, <4>1 DEF InferredType
      <4>3. value = Text("address")
        BY <3>5, <4>2 DEF IsComplete
      <4> QED
        BY <3>5, <4>3, AddressFits
    <3>6. CASE field.type = "address" /\ node.operator = "in"
      <4>1. value.is = "list"
        BY <3>2, <3>6 DEF ValueFits
      <4>2. TypeOf(node) = "address"
        BY <3>3, <4>1 DEF InferredType
      <4>3. value.addresses # {} /\ \A address \in value.addresses : address = "address"
        BY <3>6, <4>2 DEF IsComplete
      <4> QED
        BY <3>6, <4>1, <4>3, ListFits
    <3> QED
      BY <1>1, <3>4, <3>5, <3>6 DEF FieldTypes
  <2> QED
    BY <2>1, <2>2
<1>4. ValueFits(node, {"address", "checksummed"})
  BY <1>1, <1>3 DEF ValueFits, FieldTypes
<1> QED
  BY <1>1, <1>3, <1>4 DEF BacktestTakes, ServerTakes, Fits

LEMMA GateInvFits ==
    ASSUME GateInv
    PROVE  GateFits
PROOF
<1> SUFFICES ASSUME node # None
             PROVE  /\ node.value.is = CASE Control = "picker" -> "token" [] OTHER -> Control
                    /\ IsComplete(node) => BacktestTakes(node) /\ ServerTakes(node)
  BY DEF GateFits
<1> DEFINE field == FieldOf(node)
           kind == KindOf(TypeOf(node), node.operator)
<1>1. /\ Fits(node)
      /\ field.type \in FieldTypes
      /\ "in" \in ToSet(field.operators) => field.type = "address"
  BY NamedIsThere, FieldHasOperators DEF GateInv, Fits, Gates, FieldOf, Fields
<1>2. node.value.is = kind
  <2>1. CASE vocabulary.data # None
    BY <1>1, <2>1 DEF Fits, TypeOf
  <2>2. CASE vocabulary.data = None
    <3>1. TypeOf(node) = InferredType(node) /\ node.value \in Values
      BY <1>1, <2>2 DEF TypeOf, Fits, Gates
    <3>2. node.operator = "in" => node.value.is = "list"
      BY <1>1 DEF Fits, TakesOperator, KindOf
    <3>3. node.value.is = "list" => node.operator = "in"
      BY <1>1 DEF Fits, KindOf, FieldTypes
    <3>4. node.value.is \in {"text", "flag", "list", "token"}
      BY <3>1 DEF Values
    <3> QED
      BY <3>1, <3>2, <3>3, <3>4 DEF InferredType, KindOf
  <2> QED
    BY <2>1, <2>2
<1>3. kind = CASE Control = "picker" -> "token" [] OTHER -> Control
  BY DEF Control, KindOf
<1> QED
  BY <1>2, <1>3, CompleteIsTaken

(* However source, field, operator and value are changed in turn, before the *)
(* vocabulary has landed and after, the value is of the kind its control      *)
(* edits, and what counts as complete backtests and saves.                    *)
THEOREM GateAlwaysFits == Spec => []GateFits
PROOF
<1>1. Init => GateInv
  BY DEF Init, GateInv, Resources!Unloaded, Resources!ResourceOf
<1>2. GateInv /\ [Next]_vars => GateInv'
  BY StepKeepsGate
<1>3. GateInv => GateFits
  BY GateInvFits
<1> QED
  BY <1>1, <1>2, <1>3, PTL DEF Spec

------------------------------------------------------------------------------
(* The picker. *)

Pickers ==
    [open : BOOLEAN, query : Queries, status : {"loading", "ready", "error"}, tokens : SUBSET Tokens]

Searches == [for : Queries, step : {"timer", "asked"}]

(* A search under way is one of an open picker, for what it holds now. *)
PickerInv ==
    /\ picker \in Pickers
    /\ searches \subseteq Searches
    /\ \A search \in searches : picker.open /\ search.for = picker.query
    /\ ResultsOfQuery

LEMMA PickerLeftAlone ==
    ASSUME PickerInv, UNCHANGED <<picker, searches>>
    PROVE  PickerInv'
PROOF
BY DEF PickerInv, ResultsOfQuery

LEMMA NoPickerKeeps ==
    ASSUME NoPicker
    PROVE  PickerInv'
PROOF
BY QueriesAssumption DEF NoPicker, Closed, PickerInv, Pickers, Searches, ResultsOfQuery

(* Searching anew lets go of all that was sought before. *)
LEMMA SearchKeeps ==
    ASSUME NEW p \in Pickers, Search(p)
    PROVE  PickerInv'
PROOF
<1>1. CASE p.open
  <2>1. picker' = [p EXCEPT !.status = "loading"]
    BY <1>1 DEF Search
  <2>2. searches' = {[for |-> p.query, step |-> "timer"]}
    BY <1>1 DEF Search, LetGo
  <2>3. picker' \in Pickers /\ picker'.open /\ picker'.query = p.query /\ picker'.status = "loading"
    BY <1>1, <2>1 DEF Pickers
  <2>4. p.query \in Queries
    BY DEF Pickers
  <2> QED
    BY <2>2, <2>3, <2>4 DEF PickerInv, Searches, ResultsOfQuery
<1>2. CASE ~p.open
  BY <1>2 DEF Search, LetGo, PickerInv, ResultsOfQuery
<1> QED
  BY <1>1, <1>2

(* Only opening, closing and typing over need care; they search anew. *)
LEMMA BecomeKeeps ==
    ASSUME PickerInv, NEW open \in BOOLEAN, NEW query \in Queries,
           Become([picker EXCEPT !.open = open, !.query = query])
    PROVE  PickerInv'
PROOF
<1> DEFINE p == [picker EXCEPT !.open = open, !.query = query]
<1>1. p \in Pickers /\ p.open = open /\ p.query = query
  BY DEF PickerInv, Pickers
<1>2. CASE Sought(p) = Sought(picker)
  <2>1. p.open = picker.open /\ p.query = picker.query
    BY <1>2 DEF Sought
  <2>2. p = picker
    BY <1>1, <2>1 DEF PickerInv, Pickers
  <2> QED
    BY <1>2, <2>2, PickerLeftAlone DEF Become
<1>3. CASE Sought(p) # Sought(picker)
  BY <1>1, <1>3, SearchKeeps DEF Become
<1> QED
  BY <1>2, <1>3

(* Focus, Blur, keys and picks. *)
LEMMA KeysKeepPicker ==
    ASSUME PickerInv,
           \/ Focus \/ Blur \/ BlurCloses \/ Arrow \/ Escape \/ RetrySearch
           \/ \E query \in Queries : TypeQuery(query)
           \/ \E token \in Tokens : PickToken(token)
    PROVE  PickerInv'
PROOF
<1>1. picker \in Pickers /\ picker.open \in BOOLEAN /\ picker.query \in Queries
  BY DEF PickerInv, Pickers
<1>2. ASSUME NEW open \in BOOLEAN, Become([picker EXCEPT !.open = open])
      PROVE  PickerInv'
  <2>1. [picker EXCEPT !.open = open] = [picker EXCEPT !.open = open, !.query = picker.query]
    BY <1>1 DEF Pickers
  <2> QED
    BY <1>1, <1>2, <2>1, BecomeKeeps
<1>3. Become(Shut) => PickerInv'
  BY QueriesAssumption, BecomeKeeps DEF Shut
<1>4. CASE Focus \/ BlurCloses \/ Arrow
  BY <1>2, <1>4 DEF Focus, BlurCloses, Arrow
<1>5. CASE Blur
  BY <1>5, PickerLeftAlone DEF Blur
<1>6. CASE Escape
  BY <1>3, <1>6 DEF Escape
<1>7. CASE RetrySearch
  BY <1>1, <1>7, SearchKeeps DEF RetrySearch
<1>8. CASE \E query \in Queries : TypeQuery(query)
  <2>1. PICK query \in Queries : Become([picker EXCEPT !.query = query, !.open = TRUE])
    BY <1>8 DEF TypeQuery
  <2>2. [picker EXCEPT !.query = query, !.open = TRUE] = [picker EXCEPT !.open = TRUE, !.query = query]
    BY <1>1 DEF Pickers
  <2> QED
    BY <2>1, <2>2, BecomeKeeps
<1>9. CASE \E token \in Tokens : PickToken(token)
  BY <1>3, <1>9 DEF PickToken
<1> QED
  BY <1>4, <1>5, <1>6, <1>7, <1>8, <1>9

(* A search comes for the query it was asked, which is the picker's. *)
LEMMA SearchesKeepPicker ==
    ASSUME PickerInv, NEW search \in searches, SearchTimer(search) \/ LandSearch(search)
    PROVE  PickerInv'
PROOF
<1>1. /\ search \in Searches /\ picker \in Pickers
      /\ picker.open /\ search.for = picker.query
  BY DEF PickerInv
<1>2. CASE SearchTimer(search)
  <2> DEFINE asked == [search EXCEPT !.step = "asked"]
  <2>1. asked \in Searches /\ asked.for = picker.query
    BY <1>1 DEF Searches
  <2>2. searches' = (searches \ {search}) \union {asked} /\ picker' = picker
    BY <1>2 DEF SearchTimer
  <2> QED
    BY <1>1, <2>1, <2>2 DEF PickerInv, ResultsOfQuery
<1>3. CASE LandSearch(search)
  <2> DEFINE found == Matching[search.for] \intersect catalog
             ready == [picker EXCEPT !.status = "ready", !.tokens = found]
             failed == [picker EXCEPT !.status = "error", !.tokens = {}]
  <2>1. picker' \in {ready, failed} /\ searches' = searches \ {search}
    BY <1>3 DEF LandSearch
  <2>2. found \subseteq Matching[picker.query] /\ Matching[picker.query] \subseteq Tokens
    BY <1>1, QueriesAssumption DEF Pickers
  <2>3. /\ ready \in Pickers /\ ready.open = picker.open /\ ready.query = picker.query
        /\ ready.tokens = found
    BY <1>1, <2>2 DEF Pickers
  <2>4. /\ failed \in Pickers /\ failed.open = picker.open /\ failed.query = picker.query
        /\ failed.status = "error"
    BY <1>1 DEF Pickers
  <2> HIDE DEF ready, failed, found
  <2>5. CASE picker' = ready
    BY <2>1, <2>2, <2>3, <2>5 DEF PickerInv, ResultsOfQuery
  <2>6. CASE picker' = failed
    BY <2>1, <2>4, <2>6 DEF PickerInv, ResultsOfQuery
  <2> QED
    BY <2>1, <2>5, <2>6
<1> QED
  BY <1>2, <1>3

LEMMA StepKeepsPicker ==
    ASSUME PickerInv, [Next]_vars
    PROVE  PickerInv'
PROOF
<1>1. ASSUME NEW gate, SetNode(gate)
      PROVE  PickerInv'
  BY <1>1, NoPickerKeeps, PickerLeftAlone DEF SetNode, pickerVars
<1>2. CASE \E gate \in Given \union {None} : Choose(gate)
  BY <1>1, <1>2 DEF Choose
<1>3. CASE AddGate
  BY <1>1, <1>3 DEF AddGate, Choose
<1>4. CASE \E source \in DOMAIN Vocabulary : ChangeSource(source)
  BY <1>1, <1>4 DEF ChangeSource, Reset
<1>5. CASE \E key \in UNION {Keys(source) : source \in DOMAIN Vocabulary} : ChangeField(key)
  BY <1>1, <1>5 DEF ChangeField, Reset
<1>6. CASE \E operator \in Operators : SetOperator(operator)
  BY <1>1, <1>6 DEF SetOperator
<1>7. CASE LandVocabulary
  BY <1>7, NoPickerKeeps DEF LandVocabulary
<1>8. CASE \/ \E says \in Typed : TypeValue(says)
           \/ \E holds \in BOOLEAN : ChooseFlag(holds)
           \/ \E addresses \in SUBSET {"address"} : ChooseList(List(addresses))
           \/ ReloadVocabulary \/ CircuitsLoad
           \/ NamesStep /\ UNCHANGED <<gateVars, pickerVars>>
           \/ UNCHANGED vars
  BY <1>8, PickerLeftAlone
     DEF TypeValue, ChooseFlag, ChooseList, SetValue, ReloadVocabulary, CircuitsLoad, pickerVars, vars
<1> QED
  BY <1>2, <1>3, <1>4, <1>5, <1>6, <1>7, <1>8, KeysKeepPicker, SearchesKeepPicker DEF Next

(* What the open list shows as found was found for the query it holds now,   *)
(* with any number of searches, typed over, closed and come back to.         *)
THEOREM ResultsAreOfQuery == Spec => []ResultsOfQuery
PROOF
<1>1. Init => PickerInv
  BY QueriesAssumption DEF Init, Closed, PickerInv, Pickers, Searches, ResultsOfQuery
<1>2. PickerInv /\ [Next]_vars => PickerInv'
  BY StepKeepsPicker
<1>3. PickerInv => ResultsOfQuery
  BY DEF PickerInv
<1> QED
  BY <1>1, <1>2, <1>3, PTL DEF Spec

------------------------------------------------------------------------------
(* The names. *)

Lookups == [of : Tokens, answer : {Unanswered, "named", "missing", "failed"}]

NamesInv ==
    /\ known \in [Tokens -> {"unasked", "named", "missing"}]
    /\ lookups \subseteq Lookups

(* Nothing but the landing of such an answer makes a name known unknown again. *)
NameStays ==
    \A token \in Tokens :
        known[token] = "named" /\ known'[token] # "named" =>
            [of |-> token, answer |-> "missing"] \in lookups \ lookups'

LEMMA NamesLeftAlone ==
    ASSUME NamesInv, UNCHANGED <<known, lookups>>
    PROVE  NamesInv' /\ NameStays
PROOF
BY DEF NamesInv, NameStays

(* A search that found tokens names them, and forgets no other. *)
LEMMA LearningKeepsNames ==
    ASSUME NamesInv, NEW found, known' = Learn(found), UNCHANGED lookups
    PROVE  NamesInv' /\ NameStays
PROOF
BY DEF NamesInv, NameStays, Learn

LEMMA LookupsKeepNames ==
    ASSUME NamesInv, NamesStep
    PROVE  NamesInv' /\ NameStays
PROOF
<1>1. CASE \E token \in Tokens : Ensure(token)
  <2>1. PICK token \in Tokens : Ensure(token)
    BY <1>1
  <2> DEFINE lookup == [of |-> token, answer |-> Unanswered]
  <2>2. lookup \in Lookups
    BY DEF Lookups
  <2>3. lookups' = lookups \union {lookup} /\ known' = known
    BY <2>1 DEF Ensure
  <2> QED
    BY <2>2, <2>3 DEF NamesInv, NameStays
<1>2. CASE \E token \in Tokens : Catalogue(token)
  BY <1>2, NamesLeftAlone DEF Catalogue
<1>3. CASE \E lookup \in lookups : AnswerLookup(lookup)
  <2>1. PICK lookup \in lookups : AnswerLookup(lookup)
    BY <1>3
  <2>2. PICK answer \in {"named", "missing", "failed"} :
            lookups' = (lookups \ {lookup}) \union {[lookup EXCEPT !.answer = answer]}
    BY <2>1 DEF AnswerLookup
  <2>3. [lookup EXCEPT !.answer = answer] \in Lookups
    BY DEF NamesInv, Lookups
  <2>4. known' = known
    BY <2>1 DEF AnswerLookup
  <2> QED
    BY <2>2, <2>3, <2>4 DEF NamesInv, NameStays
<1>4. CASE \E lookup \in lookups : LandLookup(lookup)
  <2>1. PICK lookup \in lookups : LandLookup(lookup)
    BY <1>4
  <2> DEFINE of == lookup.of
  <2>2. lookup \in Lookups /\ lookup = [of |-> of, answer |-> lookup.answer]
    BY DEF NamesInv, Lookups
  <2>3. lookup.answer \in {"named", "missing", "failed"} /\ of \in Tokens
    BY <2>1, <2>2 DEF LandLookup, Lookups
  <2>4. known' = [known EXCEPT ![of] = Noted(lookup)] /\ lookups' = lookups \ {lookup}
    BY <2>1 DEF LandLookup
  <2>5. Noted(lookup) \in {"unasked", "named", "missing"}
    BY <2>3 DEF Noted, NamesInv
  <2>6. NamesInv'
    BY <2>3, <2>4, <2>5 DEF NamesInv
  <2>7. ASSUME NEW token \in Tokens, known[token] = "named", known'[token] # "named"
        PROVE  [of |-> token, answer |-> "missing"] \in lookups \ lookups'
    <3>1. token = of /\ Noted(lookup) # "named"
      BY <2>3, <2>4, <2>7 DEF NamesInv
    <3>2. lookup.answer = "missing"
      BY <2>3, <2>7, <3>1 DEF Noted
    <3> QED
      BY <2>1, <2>2, <2>4, <3>1, <3>2
  <2> QED
    BY <2>6, <2>7 DEF NameStays
<1> QED
  BY <1>1, <1>2, <1>3, <1>4 DEF NamesStep

LEMMA StepKeepsNames ==
    ASSUME NamesInv, [Next]_vars
    PROVE  NamesInv' /\ NameStays
PROOF
<1>1. CASE NamesStep
  BY <1>1, LookupsKeepNames
<1>2. CASE \E search \in searches : LandSearch(search)
  BY <1>2, LearningKeepsNames, NamesLeftAlone DEF LandSearch
<1>3. CASE UNCHANGED nameVars
  BY <1>3, NamesLeftAlone DEF nameVars
<1> QED
  BY <1>1, <1>2, <1>3
     DEF Next, Choose, AddGate, ChangeSource, ChangeField, Reset, SetOperator, TypeValue, ChooseFlag,
         ChooseList, SetValue, LandVocabulary, ReloadVocabulary, CircuitsLoad, Focus, Blur,
         BlurCloses, Arrow, Escape, RetrySearch, TypeQuery, PickToken, SearchTimer, vars

(* With any number of lookups and searches answered in any order, failed or   *)
(* late, a name known is lost only in a step in which a lookup of its token,  *)
(* answered "missing" (search_tokens did not find it then), lands             *)
(* (ConsoleProvider's ensureTokens).                                          *)
THEOREM NamesAreKept == Spec => NamesStay
PROOF
<1>1. Init => NamesInv
  BY DEF Init, NamesInit, NamesInv
<1>2. NamesInv /\ [Next]_vars => NamesInv' /\ [NameStays]_vars
  BY StepKeepsNames
<1>3. NamesStay <=> [][NameStays]_vars
  BY PTL DEF NamesStay, NameStays
<1> QED
  BY <1>1, <1>2, <1>3, PTL DEF Spec
=============================================================================
