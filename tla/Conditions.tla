------------------------------ MODULE Conditions ------------------------------
(***************************************************************************)
(* A rule's tree of conditions, and whether it holds (rules/onchain.py     *)
(* _compile, _key, _range_key).                                            *)
(*                                                                         *)
(* A tree is a comparison of one field with its values, or an AND or OR of *)
(* a sequence of trees.  It is tried against a binding: what each field    *)
(* reads of a transaction and of one of its token transfers, None where    *)
(* there is nothing to compare.  The vocabulary names no field of another  *)
(* source, so a stored tree reads none.                                    *)
(***************************************************************************)
EXTENDS Integers, FiniteSetsExt, SequencesExt

CONSTANTS
  Trees,           \* the trees there may be, with the trees they contain
  TextFields,      \* fields compared for equality
  NumberFields,    \* fields compared in order
  TransferFields,  \* the fields read of a token transfer, the rest being the transaction's
  Fields,          \* every field of the vocabulary, those of no such kind included
  FiledAs,         \* what a text value is filed under: a token's address, without its chain
  None             \* nothing to compare, no tree

Operators == {"eq", "ne", "in", "gt", "gte", "lt", "lte"}

(* The operators that bound a number, and those that do from below. *)
Bounds == {"gt", "gte", "lt", "lte"}
LowerBounds == {"gt", "gte"}

IsComparison(t) == t.type = "COMPARISON"

Children(t) == IF IsComparison(t) THEN {} ELSE ToSet(t.children)

(* How many groups are in each other. *)
Depth[t \in Trees] == IF Children(t) = {} THEN 0 ELSE 1 + Max({Depth[c] : c \in Children(t)})

(* The vocabulary, and what validation leaves of the trees: a group has    *)
(* trees of less depth, a text is compared with texts, a number with one.  *)
ASSUME VocabularyAssumption ==
  /\ TextFields \cup NumberFields \subseteq Fields
  /\ IsFiniteSet(TextFields)
  /\ IsFiniteSet(DOMAIN FiledAs)

ASSUME TreesAssumption ==
  /\ None \notin Trees
  /\ \A t \in Trees :
       /\ Depth[t] \in Nat
       /\ \A c \in Children(t) : c \in Trees /\ Depth[c] < Depth[t]
       /\ IF IsComparison(t)
          THEN /\ t.field \in TextFields /\ t.operator \in {"eq", "in"} =>
                    t.values \in Seq(DOMAIN FiledAs) /\ t.values # <<>>
               /\ t.field \in NumberFields /\ t.operator \in Bounds => t.values[1] \in Int
          ELSE t.type \in {"AND", "OR"} /\ t.children \in Seq(Trees)

(* A tree the evaluator can judge: there is one, and it has no empty group *)
(* and no unknown field or operator.                                       *)
Judged[t \in Trees] ==
  IF IsComparison(t) THEN t.field \in Fields /\ t.operator \in Operators
  ELSE t.children # <<>> /\ \A c \in Children(t) : Judged[c]

CanJudge(t) == t # None /\ Judged[t]

FieldsRead[t \in Trees] ==
  IF IsComparison(t) THEN {t.field} ELSE UNION {FieldsRead[c] : c \in Children(t)}

ReadsTransfers(t) == FieldsRead[t] \cap TransferFields # {}

(* What a comparison's operator makes of the value read.  Nothing to       *)
(* compare holds of none, ne included.                                     *)
Compares(t, v) ==
  /\ v # None
  /\ \/ t.operator = "eq" /\ v = t.values[1]
     \/ t.operator = "ne" /\ v # t.values[1]
     \/ t.operator = "in" /\ v \in ToSet(t.values)
     \/ t.operator = "gt" /\ v > t.values[1]
     \/ t.operator = "gte" /\ v >= t.values[1]
     \/ t.operator = "lt" /\ v < t.values[1]
     \/ t.operator = "lte" /\ v <= t.values[1]

(* _compile: whether a tree holds of a binding. *)
Holds(tree, bound) ==
  LET held[t \in Trees] ==
        IF IsComparison(t) THEN Compares(t, bound[t.field])
        ELSE IF t.type = "AND" THEN \A c \in Children(t) : held[c]
        ELSE \E c \in Children(t) : held[c]
  IN held[tree]

Values == {FiledAs[v] : v \in DOMAIN FiledAs}

(* _equal_values: the values a comparison holds only when its field equals *)
(* one of, as they are filed; none for another comparison.                 *)
EqualValues(t) ==
  IF t.field \in TextFields /\ t.operator \in {"eq", "in"}
  THEN {FiledAs[v] : v \in ToSet(t.values)} ELSE {}

(* The keys of an OR's branches together: each field with every branch's values. *)
Merged(keys) ==
  [f \in UNION {DOMAIN keys[i] : i \in DOMAIN keys} |->
    UNION {keys[i][f] : i \in {j \in DOMAIN keys : f \in DOMAIN keys[j]}}]

(* The values of a key's fields. *)
ValuesOf(key) == UNION {{f} \X key[f] : f \in DOMAIN key}

(* _crowding: how many times a rule is filed under a key's values already, *)
(* how many values they are, and how many fields are a transfer's.         *)
CrowdingOf(filedUnder, key) ==
  <<Cardinality(UNION {{k} \X filedUnder[k] : k \in ValuesOf(key)}),
    Cardinality(ValuesOf(key)),
    Cardinality(DOMAIN key \cap TransferFields)>>

(* Tuples compare by their components in turn. *)
LessCrowded(a, b) ==
  \/ a[1] < b[1]
  \/ a[1] = b[1] /\ a[2] < b[2]
  \/ a[1] = b[1] /\ a[2] = b[2] /\ a[3] < b[3]

(* The first of some children's keys whose crowding is the least. *)
LeastCrowded(keys, filedUnder) ==
  LET crowded == {<<i, CrowdingOf(filedUnder, keys[i])>> : i \in DOMAIN keys}
      least == CHOOSE k \in crowded : \A l \in crowded :
                 /\ ~LessCrowded(l[2], k[2])
                 /\ l[1] < k[1] => LessCrowded(k[2], l[2])
  IN keys[least[1]]

(* _key: the text fields a tree holds only when one of equals one of its   *)
(* values, None with none.  An AND has its least crowded child's.          *)
Key(tree, filedUnder) ==
  LET key[t \in Trees] ==
        IF IsComparison(t)
        THEN IF EqualValues(t) = {} THEN None ELSE [f \in {t.field} |-> EqualValues(t)]
        ELSE LET keyed == {i \in DOMAIN t.children : key[t.children[i]] # None}
                 keys == [i \in keyed |-> key[t.children[i]]]
             IN IF keyed = {} \/ (t.type = "OR" /\ keyed # DOMAIN t.children) THEN None
                ELSE IF t.type = "OR" THEN Merged(keys)
                ELSE LeastCrowded(keys, filedUnder)
  IN key[tree]

(* _range_key: a number field a tree holds only when past a threshold, and *)
(* on which side, None with none.  An AND has its first child's.           *)
RangeKey(tree) ==
  LET range[t \in Trees] ==
        IF IsComparison(t)
        THEN IF t.field \in NumberFields /\ t.operator \in Bounds
             THEN [field |-> t.field, lower |-> t.operator \in LowerBounds,
                   threshold |-> t.values[1]]
             ELSE None
        ELSE LET found == {i \in DOMAIN t.children : range[t.children[i]] # None}
             IN IF t.type = "AND" /\ found # {} THEN range[t.children[Min(found)]] ELSE None
  IN range[tree]
=============================================================================
