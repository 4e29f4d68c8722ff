--------------------------- MODULE RuleIndexProofs ---------------------------
(***************************************************************************)
(* The index of many rules, proved for any trees, rules and transactions:  *)
(* it matches what its rules match when each is tried alone, and what is   *)
(* filed is what the record of filings says.                               *)
(*                                                                         *)
(* Trees are finite, so what is computed by recursion on one has the value *)
(* its equation says, and a claim that fails of a tree fails of one whose  *)
(* children it holds of.  That shows a key to be sound (a tree holds only  *)
(* when one of its key's fields has one of that field's values), whatever  *)
(* the crowding that chose it, and a threshold to be (a tree holds only    *)
(* past it).  A rule's pair is found by halving, which is right of what is *)
(* in order; puts and discards keep it in order and the counts exact, so a *)
(* rule is a candidate wherever it holds.                                  *)
(***************************************************************************)
EXTENDS RuleIndex, FiniteSetTheorems, SequenceTheorems, WellFoundedInduction, TLAPS

(* A set of numbers has a least. *)
LEMMA LeastNatural ==
  ASSUME NEW T \in SUBSET Nat, T # {}
  PROVE  \E n \in T : \A m \in T : n <= m
<1> DEFINE R == {ss \in Nat \X Nat : ss[1] < ss[2]}
<1>1. IsWellFoundedOn(R, Nat)
  BY NatLessThanWellFounded DEF OpToRel
<1>2. \E n \in T : \A m \in T : <<m, n>> \notin R
  <2> HIDE DEF R
  <2> QED
    BY <1>1, WFMin
<1>3. PICK n \in T : \A m \in T : <<m, n>> \notin R
  BY <1>2
<1>4. \A m \in T : n <= m
  <2> SUFFICES ASSUME NEW m \in T PROVE n <= m
    OBVIOUS
  <2>1. m \in Nat /\ n \in Nat /\ <<m, n>> \notin R
    BY <1>3
  <2> QED
    BY <2>1
<1> QED
  BY <1>4

(* Of a set of ranked things one has the least rank. *)
LEMMA LeastRanked ==
  ASSUME NEW D, NEW rank, \A d \in D : rank[d] \in Nat, D # {}
  PROVE  \E d \in D : \A e \in D : rank[d] <= rank[e]
<1> DEFINE T == {rank[d] : d \in D}
<1>1. T \in SUBSET Nat /\ T # {}
  OBVIOUS
<1>2. PICK n \in T : \A m \in T : n <= m
  <2> HIDE DEF T
  <2> QED
    BY <1>1, LeastNatural
<1> QED
  BY <1>2

------------------------------------------------------------------------------
(* Recursion on what is ranked: each value is made of the values of things *)
(* of less rank (sons), and there is a function with such values.          *)
Ranked(D, rank, sons) ==
  \A d \in D : rank[d] \in Nat /\ \A e \in sons[d] : e \in D /\ rank[e] < rank[d]

Recurs(f, sons, step, d) == f[d] = step[d][[e \in sons[d] |-> f[e]]]

RecursTo(f, D, rank, sons, step, n) == \A d \in D : rank[d] < n => Recurs(f, sons, step, d)

(* Two such functions agree as far as both are. *)
LEMMA RecursionsAgree ==
  ASSUME NEW D, NEW rank, NEW sons, Ranked(D, rank, sons), NEW step, NEW n \in Nat,
         NEW f, RecursTo(f, D, rank, sons, step, n),
         NEW g, RecursTo(g, D, rank, sons, step, n),
         NEW d \in D, rank[d] < n
  PROVE  f[d] = g[d]
<1> DEFINE Bad == {e \in D : rank[e] < n /\ f[e] # g[e]}
<1> SUFFICES ASSUME Bad # {} PROVE FALSE
  OBVIOUS
<1>1. PICK e \in Bad : \A c \in Bad : rank[e] <= rank[c]
  <2>1. \A e \in Bad : rank[e] \in Nat
    BY DEF Ranked
  <2> HIDE DEF Bad
  <2> QED
    BY <2>1, LeastRanked
<1>2. \A c \in sons[e] : f[c] = g[c]
  <2> SUFFICES ASSUME NEW c \in sons[e], f[c] # g[c] PROVE FALSE
    OBVIOUS
  <2>1. c \in D /\ rank[c] < rank[e] /\ rank[e] < n /\ rank[c] \in Nat /\ rank[e] \in Nat
    BY DEF Ranked
  <2>2. c \in Bad
    BY <2>1
  <2> QED
    BY <1>1, <2>1, <2>2
<1>3. [c \in sons[e] |-> f[c]] = [c \in sons[e] |-> g[c]]
  BY <1>2
<1>4. Recurs(f, sons, step, e) /\ Recurs(g, sons, step, e)
  BY DEF RecursTo
<1> QED
  BY <1>3, <1>4 DEF Recurs

Steps(D, V, sons, step) == \A d \in D : \A vals \in [sons[d] -> V] : step[d][vals] \in V

(* There is one as far as any rank. *)
LEMMA RecursionReaches ==
  ASSUME NEW D, NEW V, V # {}, NEW rank, NEW sons, Ranked(D, rank, sons),
         NEW step, Steps(D, V, sons, step), NEW n \in Nat
  PROVE  \E f \in [D -> V] : RecursTo(f, D, rank, sons, step, n)
<1> DEFINE Reached(m) == \E f \in [D -> V] : RecursTo(f, D, rank, sons, step, m)
           Bad == {m \in Nat : ~Reached(m)}
<1> SUFFICES ASSUME Bad # {} PROVE FALSE
  OBVIOUS
<1>1. PICK m \in Bad : \A k \in Bad : m <= k
  <2>1. Bad \in SUBSET Nat
    OBVIOUS
  <2> HIDE DEF Bad
  <2> QED
    BY <2>1, LeastNatural
<1>2. CASE m = 0
  <2>1. PICK v \in V : TRUE
    OBVIOUS
  <2>2. [d \in D |-> v] \in [D -> V]
    OBVIOUS
  <2>3. \A d \in D : ~(rank[d] < m)
    BY <1>2 DEF Ranked
  <2>4. Reached(m)
    BY <2>2, <2>3 DEF RecursTo
  <2> QED
    BY <1>1, <2>4
<1>3. CASE m # 0
  <2>1. m - 1 \in Nat /\ m \in Nat
    BY <1>3
  <2>2. Reached(m - 1)
    BY <1>1, <2>1
  <2>3. PICK f \in [D -> V] : RecursTo(f, D, rank, sons, step, m - 1)
    BY <2>2
  <2> DEFINE g == [d \in D |-> IF rank[d] < m THEN step[d][[e \in sons[d] |-> f[e]]] ELSE f[d]]
  <2>4. g \in [D -> V]
    <3> SUFFICES ASSUME NEW d \in D PROVE g[d] \in V
      OBVIOUS
    <3>1. [e \in sons[d] |-> f[e]] \in [sons[d] -> V]
      BY DEF Ranked
    <3> QED
      BY <3>1 DEF Steps
  <2>5. ASSUME NEW d \in D, rank[d] < m
        PROVE  Recurs(g, sons, step, d)
    <3>1. \A e \in sons[d] : g[e] = f[e]
      <4> SUFFICES ASSUME NEW e \in sons[d] PROVE g[e] = f[e]
        OBVIOUS
      <4>1. e \in D /\ rank[e] \in Nat /\ rank[d] \in Nat /\ rank[e] < rank[d]
        BY DEF Ranked
      <4>2. rank[e] < m - 1
        BY <4>1, <2>1, <2>5
      <4>3. f[e] = step[e][[c \in sons[e] |-> f[c]]]
        BY <2>3, <4>1, <4>2 DEF Recurs, RecursTo
      <4> QED
        BY <4>1, <4>3
    <3>2. [e \in sons[d] |-> g[e]] = [e \in sons[d] |-> f[e]]
      BY <3>1
    <3> QED
      BY <2>5, <3>2 DEF Recurs
  <2> HIDE DEF g
  <2>6. Reached(m)
    BY <2>4, <2>5 DEF RecursTo
  <2> QED
    BY <1>1, <2>6
<1> QED
  BY <1>2, <1>3

(* There is a function each of whose values is the step of its sons'. *)
LEMMA Recursion ==
  ASSUME NEW D, NEW V, V # {}, NEW rank, NEW sons, Ranked(D, rank, sons),
         NEW step, Steps(D, V, sons, step)
  PROVE  \E f \in [D -> V] : \A d \in D : Recurs(f, sons, step, d)
<1> DEFINE Reaches(f, n) == f \in [D -> V] /\ RecursTo(f, D, rank, sons, step, n)
           far(n) == CHOOSE f : Reaches(f, n)
           g == [d \in D |-> far(rank[d] + 1)[d]]
<1>1. ASSUME NEW n \in Nat PROVE Reaches(far(n), n)
  <2>1. \E f : Reaches(f, n)
    BY RecursionReaches
  <2> QED
    BY <2>1
<1> HIDE DEF far
<1>2. g \in [D -> V]
  BY <1>1 DEF Ranked
<1>3. ASSUME NEW d \in D PROVE Recurs(g, sons, step, d)
  <2>1. rank[d] + 1 \in Nat /\ rank[d] \in Nat /\ rank[d] < rank[d] + 1
    BY DEF Ranked
  <2> DEFINE f == far(rank[d] + 1)
  <2>2. RecursTo(f, D, rank, sons, step, rank[d] + 1)
    BY <1>1, <2>1
  <2> HIDE DEF f
  <2>3. ASSUME NEW e \in sons[d] PROVE g[e] = f[e]
    <3>1. e \in D /\ rank[e] + 1 \in Nat /\ rank[e] \in Nat /\ rank[e] < rank[d]
      BY DEF Ranked
    <3> DEFINE h == far(rank[e] + 1)
    <3>2. RecursTo(h, D, rank, sons, step, rank[e] + 1)
      BY <1>1, <3>1
    <3> HIDE DEF h
    <3>3. RecursTo(f, D, rank, sons, step, rank[e] + 1)
      <4>1. \A c \in D : rank[c] < rank[e] + 1 => rank[c] < rank[d] + 1
        BY <2>1, <3>1 DEF Ranked
      <4> QED
        BY <2>2, <4>1 DEF RecursTo
    <3>4. rank[e] < rank[e] + 1
      BY <3>1
    <3>5. f[e] = h[e]
      BY <3>1, <3>2, <3>3, <3>4, RecursionsAgree
    <3> QED
      BY <3>1, <3>5 DEF h
  <2>4. [e \in sons[d] |-> g[e]] = [e \in sons[d] |-> f[e]]
    BY <2>3
  <2>5. f[d] = step[d][[e \in sons[d] |-> f[e]]]
    BY <2>1, <2>2 DEF Recurs, RecursTo
  <2>6. g[d] = f[d]
    BY DEF f
  <2> QED
    BY <2>4, <2>5, <2>6 DEF Recurs
<1> HIDE DEF g
<1> QED
  BY <1>2, <1>3

------------------------------------------------------------------------------
(* Trees. *)

Branches == [t \in Trees |-> Children(t)]

(* A tree's children are trees of less depth. *)
LEMMA ChildrenAreTrees ==
  ASSUME NEW t \in Trees
  PROVE  \A c \in Children(t) : c \in Trees /\ Depth[c] < Depth[t]
BY TreesAssumption

(* So trees are ranked by their depth, with children for sons. *)
LEMMA TreesAreRanked == Ranked(Trees, Depth, Branches)
BY TreesAssumption DEF Ranked, Branches

(* Of some trees there is one with none of them below it: what fails of a  *)
(* tree fails of one whose children it holds of.                           *)
LEMMA SmallestTree ==
  ASSUME NEW S \in SUBSET Trees, S # {}
  PROVE  \E t \in S : \A c \in Children(t) : c \in Trees /\ c \notin S
<1>1. \A t \in S : Depth[t] \in Nat
  BY TreesAssumption
<1>2. PICK t \in S : \A u \in S : Depth[t] <= Depth[u]
  BY <1>1, LeastRanked
<1>3. \A c \in Children(t) : c \in Trees /\ Depth[c] < Depth[t] /\ Depth[c] \in Nat
  BY TreesAssumption
<1>4. \A c \in Children(t) : c \notin S
  BY <1>1, <1>2, <1>3
<1> QED
  BY <1>3, <1>4

(* There is a function of trees with each value made of the children's. *)
LEMMA TreeRecursion ==
  ASSUME NEW V, V # {}, NEW step, Steps(Trees, V, Branches, step)
  PROVE  \E f \in [Trees -> V] : \A t \in Trees : Recurs(f, Branches, step, t)
BY TreesAreRanked, Recursion

(* Whether a tree holds. *)

HoldsAt(held, bound, t) ==
  IF IsComparison(t) THEN Compares(t, bound[t.field])
  ELSE IF t.type = "AND" THEN \A c \in Children(t) : held[c]
  ELSE \E c \in Children(t) : held[c]

HeldOf(bound) == CHOOSE held : held = [t \in Trees |-> HoldsAt(held, bound, t)]

(* Holds is such a function. *)
LEMMA HoldsChosen ==
  ASSUME NEW tree, NEW bound
  PROVE  Holds(tree, bound) = HeldOf(bound)[tree]
BY DEF Holds, HeldOf, HoldsAt

(* And so its own equation is true of it. *)
LEMMA HeldExists ==
  ASSUME NEW bound
  PROVE  HeldOf(bound) = [t \in Trees |-> HoldsAt(HeldOf(bound), bound, t)]
<1> DEFINE step == [t \in Trees |-> [held \in [Children(t) -> BOOLEAN] |-> HoldsAt(held, bound, t)]]
<1>1. Steps(Trees, BOOLEAN, Branches, step)
  <2> SUFFICES ASSUME NEW t \in Trees, NEW held \in [Children(t) -> BOOLEAN]
               PROVE  HoldsAt(held, bound, t) \in BOOLEAN
    BY DEF Steps, Branches
  <2> QED
    BY DEF HoldsAt, Compares
<1>2. PICK f \in [Trees -> BOOLEAN] : \A t \in Trees : Recurs(f, Branches, step, t)
  <2> HIDE DEF step
  <2> QED
    BY <1>1, TreeRecursion
<1>3. ASSUME NEW t \in Trees PROVE f[t] = HoldsAt(f, bound, t)
  <2>1. [c \in Children(t) |-> f[c]] \in [Children(t) -> BOOLEAN]
    BY ChildrenAreTrees
  <2>2. f[t] = HoldsAt([c \in Children(t) |-> f[c]], bound, t)
    BY <1>2, <2>1 DEF Recurs, Branches
  <2> QED
    BY <2>2 DEF HoldsAt
<1>4. f = [t \in Trees |-> HoldsAt(f, bound, t)]
  BY <1>3
<1> QED
  BY <1>4 DEF HeldOf

(* Whether a tree holds is decided by whether its children do. *)
LEMMA HoldsUnfolds ==
  ASSUME NEW bound, NEW t \in Trees
  PROVE  /\ Holds(t, bound) \in BOOLEAN
         /\ IsComparison(t) => (Holds(t, bound) <=> Compares(t, bound[t.field]))
         /\ ~IsComparison(t) /\ t.type = "AND" =>
              (Holds(t, bound) <=> \A c \in Children(t) : Holds(c, bound))
         /\ ~IsComparison(t) /\ t.type = "OR" =>
              (Holds(t, bound) <=> \E c \in Children(t) : Holds(c, bound))
<1>1. Holds(t, bound) = HoldsAt(HeldOf(bound), bound, t)
  BY HoldsChosen, HeldExists
<1>2. \A c \in Children(t) : Holds(c, bound) = HeldOf(bound)[c]
  BY HoldsChosen
<1> QED
  BY <1>1, <1>2 DEF HoldsAt, Compares

(* The fields a tree reads. *)

FieldsAt(read, t) == IF IsComparison(t) THEN {t.field} ELSE UNION {read[c] : c \in Children(t)}

(* A group reads what its children read. *)
LEMMA FieldsUnfold ==
  ASSUME NEW t \in Trees
  PROVE  FieldsRead[t] = FieldsAt(FieldsRead, t)
<1> DEFINE names == {u.field : u \in {v \in Trees : IsComparison(v)}}
           step == [u \in Trees |-> [read \in [Children(u) -> SUBSET names] |-> FieldsAt(read, u)]]
<1>1. Steps(Trees, SUBSET names, Branches, step)
  <2> SUFFICES ASSUME NEW u \in Trees, NEW read \in [Children(u) -> SUBSET names]
               PROVE  FieldsAt(read, u) \in SUBSET names
    BY DEF Steps, Branches
  <2> QED
    BY DEF FieldsAt
<1>2. PICK f \in [Trees -> SUBSET names] : \A u \in Trees : Recurs(f, Branches, step, u)
  <2>1. SUBSET names # {}
    OBVIOUS
  <2> HIDE DEF step, names
  <2> QED
    BY <1>1, <2>1, TreeRecursion
<1>3. ASSUME NEW u \in Trees PROVE f[u] = FieldsAt(f, u)
  <2>1. [c \in Children(u) |-> f[c]] \in [Children(u) -> SUBSET names]
    BY ChildrenAreTrees
  <2>2. f[u] = FieldsAt([c \in Children(u) |-> f[c]], u)
    <3> HIDE DEF names
    <3> QED
      BY <1>2, <2>1 DEF Recurs, Branches
  <2> QED
    BY <2>2 DEF FieldsAt
<1>4. f = [u \in Trees |-> FieldsAt(f, u)]
  BY <1>3
<1>5. FieldsRead = CHOOSE g : g = [u \in Trees |-> FieldsAt(g, u)]
  BY DEF FieldsRead, FieldsAt
<1>6. FieldsRead = [u \in Trees |-> FieldsAt(FieldsRead, u)]
  BY <1>4, <1>5
<1> QED
  BY <1>6

(* Whether a tree holds depends on the fields it reads alone. *)
LEMMA HoldsOfFieldsRead ==
  ASSUME NEW tree \in Trees, NEW b, NEW d, \A f \in FieldsRead[tree] : b[f] = d[f]
  PROVE  Holds(tree, b) <=> Holds(tree, d)
<1> DEFINE Bad == {t \in Trees : /\ \A f \in FieldsRead[t] : b[f] = d[f]
                                 /\ ~(Holds(t, b) <=> Holds(t, d))}
<1> SUFFICES ASSUME Bad # {} PROVE FALSE
  OBVIOUS
<1>1. PICK t \in Bad : \A c \in Children(t) : c \in Trees /\ c \notin Bad
  <2>1. Bad \in SUBSET Trees
    OBVIOUS
  <2> HIDE DEF Bad
  <2> QED
    BY <2>1, SmallestTree
<1>2. CASE IsComparison(t)
  <2>1. b[t.field] = d[t.field]
    BY <1>2, FieldsUnfold DEF FieldsAt
  <2>2. /\ Holds(t, b) <=> Compares(t, b[t.field])
        /\ Holds(t, d) <=> Compares(t, d[t.field])
    BY <1>2, HoldsUnfolds
  <2> QED
    BY <2>1, <2>2
<1>3. CASE ~IsComparison(t)
  <2>1. ASSUME NEW c \in Children(t) PROVE Holds(c, b) <=> Holds(c, d)
    <3>1. FieldsRead[c] \subseteq FieldsRead[t]
      BY <1>3, FieldsUnfold DEF FieldsAt
    <3> QED
      BY <1>1, <3>1
  <2>2. t.type \in {"AND", "OR"}
    BY <1>3, TreesAssumption
  <2> QED
    BY <1>3, <2>1, <2>2, HoldsUnfolds
<1> QED
  BY <1>2, <1>3

(* A tree that can be judged reads fields of the vocabulary. *)

JudgedAt(judged, t) ==
  IF IsComparison(t) THEN t.field \in Fields /\ t.operator \in Operators
  ELSE t.children # <<>> /\ \A c \in Children(t) : judged[c]

(* A group can be judged when its children can. *)
LEMMA JudgedUnfolds ==
  ASSUME NEW t \in Trees
  PROVE  Judged[t] = JudgedAt(Judged, t)
<1> DEFINE step == [u \in Trees |-> [judged \in [Children(u) -> BOOLEAN] |-> JudgedAt(judged, u)]]
<1>1. Steps(Trees, BOOLEAN, Branches, step)
  <2> SUFFICES ASSUME NEW u \in Trees, NEW judged \in [Children(u) -> BOOLEAN]
               PROVE  JudgedAt(judged, u) \in BOOLEAN
    BY DEF Steps, Branches
  <2> QED
    BY DEF JudgedAt
<1>2. PICK f \in [Trees -> BOOLEAN] : \A u \in Trees : Recurs(f, Branches, step, u)
  <2>1. BOOLEAN # {}
    OBVIOUS
  <2> HIDE DEF step
  <2> QED
    BY <1>1, <2>1, TreeRecursion
<1>3. ASSUME NEW u \in Trees PROVE f[u] = JudgedAt(f, u)
  <2>1. [c \in Children(u) |-> f[c]] \in [Children(u) -> BOOLEAN]
    BY ChildrenAreTrees
  <2>2. f[u] = JudgedAt([c \in Children(u) |-> f[c]], u)
    BY <1>2, <2>1 DEF Recurs, Branches
  <2> QED
    BY <2>2 DEF JudgedAt
<1>4. f = [u \in Trees |-> JudgedAt(f, u)]
  BY <1>3
<1>5. Judged = CHOOSE g : g = [u \in Trees |-> JudgedAt(g, u)]
  BY DEF Judged, JudgedAt
<1>6. Judged = [u \in Trees |-> JudgedAt(Judged, u)]
  BY <1>4, <1>5
<1> QED
  BY <1>6

(* A tree that can be judged reads nothing outside the vocabulary. *)
LEMMA JudgedFields ==
  ASSUME NEW tree \in Trees, Judged[tree]
  PROVE  FieldsRead[tree] \subseteq Fields
<1> DEFINE Bad == {t \in Trees : Judged[t] /\ ~(FieldsRead[t] \subseteq Fields)}
<1> SUFFICES ASSUME Bad # {} PROVE FALSE
  OBVIOUS
<1>1. PICK t \in Bad : \A c \in Children(t) : c \in Trees /\ c \notin Bad
  <2>1. Bad \in SUBSET Trees
    OBVIOUS
  <2> HIDE DEF Bad
  <2> QED
    BY <2>1, SmallestTree
<1>2. JudgedAt(Judged, t) /\ FieldsRead[t] = FieldsAt(FieldsRead, t)
  BY JudgedUnfolds, FieldsUnfold
<1>3. CASE IsComparison(t)
  BY <1>2, <1>3 DEF JudgedAt, FieldsAt
<1>4. CASE ~IsComparison(t)
  <2>1. \A c \in Children(t) : FieldsRead[c] \subseteq Fields
    BY <1>1, <1>2, <1>4 DEF JudgedAt
  <2> QED
    BY <1>2, <1>4, <2>1 DEF FieldsAt
<1> QED
  BY <1>3, <1>4

------------------------------------------------------------------------------
(* The key a tree is filed under: it holds only when that is met. *)

Keys == UNION {[fields -> SUBSET Values] : fields \in SUBSET TextFields}

(* What is filed under each text field's values. *)
FiledSets == [TextFields \X Values -> SUBSET RuleIds]

(* A key is a function of some text fields to sets of values. *)
LEMMA KeysAre ==
  ASSUME NEW key
  PROVE  key \in Keys <=> /\ DOMAIN key \subseteq TextFields
                          /\ key = [f \in DOMAIN key |-> key[f]]
                          /\ \A f \in DOMAIN key : key[f] \subseteq Values
BY DEF Keys

(* Texts are filed under finitely many values. *)
LEMMA ValuesFinite == IsFiniteSet(Values) /\ IsFiniteSet(TextFields)
<1> DEFINE filing == [v \in DOMAIN FiledAs |-> FiledAs[v]]
<1>1. filing \in Surjection(DOMAIN FiledAs, Values)
  BY DEF Values, Surjection
<1> QED
  BY <1>1, VocabularyAssumption, FS_Surjection

(* A key's crowding is three numbers. *)
LEMMA CrowdingCounts ==
  ASSUME NEW key \in Keys, NEW u \in FiledSets
  PROVE  \A n \in 1 .. 3 : CrowdingOf(u, key)[n] \in Nat
<1> DEFINE under == UNION {{k} \X u[k] : k \in ValuesOf(key)}
<1>1. ValuesOf(key) \subseteq TextFields \X Values
  BY KeysAre DEF ValuesOf
<1>2. under \subseteq (TextFields \X Values) \X RuleIds
  BY <1>1 DEF FiledSets
<1>3. IsFiniteSet(TextFields \X Values)
  BY ValuesFinite, FS_Product
<1>4. IsFiniteSet((TextFields \X Values) \X RuleIds)
  BY <1>3, RuleIdsAssumption, FS_Product
<1>5. DOMAIN key \cap TransferFields \subseteq TextFields
  BY KeysAre
<1>6. /\ IsFiniteSet(under)
      /\ IsFiniteSet(ValuesOf(key))
      /\ IsFiniteSet(DOMAIN key \cap TransferFields)
  <2> HIDE DEF under
  <2> QED
    BY <1>1, <1>2, <1>3, <1>4, <1>5, ValuesFinite, FS_Subset
<1>7. /\ Cardinality(under) \in Nat
      /\ Cardinality(ValuesOf(key)) \in Nat
      /\ Cardinality(DOMAIN key \cap TransferFields) \in Nat
  BY <1>6, FS_CardinalityType
<1>8. /\ CrowdingOf(u, key)[1] = Cardinality(under)
      /\ CrowdingOf(u, key)[2] = Cardinality(ValuesOf(key))
      /\ CrowdingOf(u, key)[3] = Cardinality(DOMAIN key \cap TransferFields)
  BY DEF CrowdingOf
<1> HIDE DEF under
<1> QED
  BY <1>7, <1>8

(* Of some tuples of numbers there is a first least. *)
LEMMA LeastTuple ==
  ASSUME NEW I \in SUBSET Nat, I # {},
         NEW c, \A i \in I : \A n \in 1 .. 3 : c[i][n] \in Nat
  PROVE  \E i \in I : \A j \in I : /\ ~LessCrowded(c[j], c[i])
                                   /\ j < i => LessCrowded(c[i], c[j])
<1> DEFINE first == [i \in I |-> c[i][1]]
           second == [i \in I |-> c[i][2]]
           third == [i \in I |-> c[i][3]]
<1>1. /\ \A i \in I : first[i] = c[i][1] /\ second[i] = c[i][2] /\ third[i] = c[i][3]
      /\ \A i \in I : first[i] \in Nat /\ second[i] \in Nat /\ third[i] \in Nat
  OBVIOUS
<1> HIDE DEF first, second, third
<1>2. PICK a \in I : \A j \in I : first[a] <= first[j]
  BY <1>1, LeastRanked
<1> DEFINE I1 == {i \in I : first[i] = first[a]}
<1>3. PICK b \in I1 : \A j \in I1 : second[b] <= second[j]
  <2>1. I1 # {} /\ \A i \in I1 : second[i] \in Nat
    BY <1>1
  <2> HIDE DEF I1
  <2> QED
    BY <2>1, LeastRanked
<1> DEFINE I2 == {i \in I1 : second[i] = second[b]}
<1>4. PICK d \in I2 : \A j \in I2 : third[d] <= third[j]
  <2>1. I2 # {} /\ \A i \in I2 : third[i] \in Nat
    BY <1>1
  <2> HIDE DEF I2
  <2> QED
    BY <2>1, LeastRanked
<1> DEFINE I3 == {i \in I2 : third[i] = third[d]}
<1>5. PICK e \in I3 : \A j \in I3 : e <= j
  <2>1. I3 \in SUBSET Nat /\ I3 # {}
    OBVIOUS
  <2> HIDE DEF I3
  <2> QED
    BY <2>1, LeastNatural
<1>6. /\ e \in I /\ first[e] = first[a] /\ second[e] = second[b] /\ third[e] = third[d]
  OBVIOUS
<1>7. ASSUME NEW j \in I
      PROVE  ~LessCrowded(c[j], c[e]) /\ (j < e => LessCrowded(c[e], c[j]))
  <2>1. /\ first[e] <= first[j]
        /\ first[e] = first[j] => second[e] <= second[j]
        /\ first[e] = first[j] /\ second[e] = second[j] => third[e] <= third[j]
        /\ first[e] = first[j] /\ second[e] = second[j] /\ third[e] = third[j] => e <= j
    BY <1>2, <1>3, <1>4, <1>5, <1>6
  <2>2. /\ first[e] \in Nat /\ second[e] \in Nat /\ third[e] \in Nat /\ e \in Nat
        /\ first[j] \in Nat /\ second[j] \in Nat /\ third[j] \in Nat /\ j \in Nat
    BY <1>1, <1>6
  <2>3. /\ c[e][1] = first[e] /\ c[e][2] = second[e] /\ c[e][3] = third[e]
        /\ c[j][1] = first[j] /\ c[j][2] = second[j] /\ c[j][3] = third[j]
    BY <1>1, <1>6
  <2> QED
    BY <2>1, <2>2, <2>3 DEF LessCrowded
<1> QED
  BY <1>6, <1>7

(* The least crowded of some keys is one of them. *)
LEMMA LeastCrowdedIsOne ==
  ASSUME NEW I \in SUBSET Nat, I # {}, NEW keys \in [I -> Keys], NEW u \in FiledSets
  PROVE  \E i \in I : LeastCrowded(keys, u) = keys[i]
<1> DEFINE crowding == [i \in I |-> CrowdingOf(u, keys[i])]
           crowded == {<<i, CrowdingOf(u, keys[i])>> : i \in DOMAIN keys}
           Least(k) == \A l \in crowded : /\ ~LessCrowded(l[2], k[2])
                                          /\ l[1] < k[1] => LessCrowded(k[2], l[2])
           least == CHOOSE k \in crowded : Least(k)
<1>1. /\ \A i \in I : <<i, crowding[i]>> \in crowded
      /\ \A k \in crowded : k[1] \in I /\ k[2] = crowding[k[1]]
  OBVIOUS
<1>2. \A i \in I : \A n \in 1 .. 3 : crowding[i][n] \in Nat
  BY CrowdingCounts
<1>3. LeastCrowded(keys, u) = keys[least[1]]
  BY DEF LeastCrowded
<1> HIDE DEF crowding, crowded
<1>4. PICK i \in I : \A j \in I : /\ ~LessCrowded(crowding[j], crowding[i])
                                  /\ j < i => LessCrowded(crowding[i], crowding[j])
  BY <1>2, LeastTuple
<1>5. <<i, crowding[i]>> \in crowded /\ Least(<<i, crowding[i]>>)
  BY <1>1, <1>4
<1>6. least \in crowded
  <2> HIDE DEF Least
  <2> QED
    BY <1>5
<1> HIDE DEF least
<1> QED
  BY <1>1, <1>3, <1>6

(* A merged key has every value of each of the keys. *)
LEMMA MergedIsKey ==
  ASSUME NEW I, NEW keys \in [I -> Keys]
  PROVE  /\ Merged(keys) \in Keys
         /\ \A i \in I : \A f \in DOMAIN keys[i] :
              f \in DOMAIN Merged(keys) /\ keys[i][f] \subseteq Merged(keys)[f]
<1>1. \A i \in I : keys[i] \in Keys
  OBVIOUS
<1>2. \A i \in I : DOMAIN keys[i] \subseteq TextFields /\ \A f \in DOMAIN keys[i] : keys[i][f] \subseteq Values
  BY <1>1, KeysAre
<1>3. DOMAIN keys = I
  OBVIOUS
<1> DEFINE fields == UNION {DOMAIN keys[i] : i \in I}
           of(f) == UNION {keys[i][f] : i \in {j \in I : f \in DOMAIN keys[j]}}
<1>4. Merged(keys) = [f \in fields |-> of(f)]
  BY <1>3 DEF Merged
<1>5. fields \subseteq TextFields
  BY <1>2
<1>6. ASSUME NEW f \in fields PROVE of(f) \subseteq Values
  BY <1>2
<1>7. [f \in fields |-> of(f)] \in [fields -> SUBSET Values]
  <2> HIDE DEF of, fields
  <2> QED
    BY <1>6
<1>8. Merged(keys) \in Keys
  <2> HIDE DEF of, fields
  <2> QED
    BY <1>4, <1>5, <1>7 DEF Keys
<1>9. ASSUME NEW i \in I, NEW f \in DOMAIN keys[i]
      PROVE  f \in DOMAIN Merged(keys) /\ keys[i][f] \subseteq Merged(keys)[f]
  <2>1. f \in fields /\ keys[i][f] \subseteq of(f)
    OBVIOUS
  <2> HIDE DEF of, fields
  <2> QED
    BY <1>4, <2>1
<1> QED
  BY <1>8, <1>9

(* A group's key, of its children's. *)
Keyed(key, t) == {i \in DOMAIN t.children : key[t.children[i]] # None}

KeyAt(key, u, t) ==
  IF IsComparison(t)
  THEN IF EqualValues(t) = {} THEN None ELSE [f \in {t.field} |-> EqualValues(t)]
  ELSE LET keyed == {i \in DOMAIN t.children : key[t.children[i]] # None}
           keys == [i \in keyed |-> key[t.children[i]]]
       IN IF keyed = {} \/ (t.type = "OR" /\ keyed # DOMAIN t.children) THEN None
          ELSE IF t.type = "OR" THEN Merged(keys)
          ELSE LeastCrowded(keys, u)

KeyOf(u) == CHOOSE key : key = [t \in Trees |-> KeyAt(key, u, t)]

(* Key is what its recursion chooses. *)
LEMMA KeyChosen ==
  ASSUME NEW tree, NEW u
  PROVE  Key(tree, u) = KeyOf(u)[tree]
BY DEF Key, KeyOf, KeyAt

(* A comparison's key is a key, of its own values. *)
LEMMA ComparisonKey ==
  ASSUME NEW t \in Trees, IsComparison(t), EqualValues(t) # {}
  PROVE  /\ [f \in {t.field} |-> EqualValues(t)] \in Keys
         /\ t.field \in TextFields /\ t.operator \in {"eq", "in"}
         /\ t.values \in Seq(DOMAIN FiledAs) /\ t.values # <<>>
         /\ EqualValues(t) = {FiledAs[v] : v \in ToSet(t.values)}
<1>1. t.field \in TextFields /\ t.operator \in {"eq", "in"}
  BY DEF EqualValues
<1>2. t.values \in Seq(DOMAIN FiledAs) /\ t.values # <<>>
  BY <1>1, TreesAssumption
<1>3. EqualValues(t) = {FiledAs[v] : v \in ToSet(t.values)}
  BY <1>1 DEF EqualValues
<1>4. ToSet(t.values) \subseteq DOMAIN FiledAs
  BY <1>2 DEF ToSet
<1>5. EqualValues(t) \subseteq Values
  BY <1>3, <1>4 DEF Values
<1>6. [f \in {t.field} |-> EqualValues(t)] \in Keys
  BY <1>1, <1>5, KeysAre
<1> QED
  BY <1>1, <1>2, <1>3, <1>6

(* A group's children are at the places of its sequence. *)
LEMMA GroupOfTrees ==
  ASSUME NEW t \in Trees, ~IsComparison(t)
  PROVE  /\ t.type \in {"AND", "OR"}
         /\ DOMAIN t.children \subseteq Nat
         /\ \A i \in DOMAIN t.children : t.children[i] \in Children(t)
         /\ \A c \in Children(t) : \E i \in DOMAIN t.children : c = t.children[i]
<1>1. t.type \in {"AND", "OR"} /\ t.children \in Seq(Trees)
  BY TreesAssumption
<1>2. DOMAIN t.children = 1 .. Len(t.children) /\ Len(t.children) \in Nat
  BY <1>1
<1> QED
  BY <1>1, <1>2 DEF Children, ToSet

(* A tree's key is a key or none when its children's are. *)
LEMMA KeyTyped ==
  ASSUME NEW u \in FiledSets, NEW t \in Trees,
         NEW key, \A c \in Children(t) : key[c] \in Keys \cup {None}
  PROVE  KeyAt(key, u, t) \in Keys \cup {None}
<1>1. CASE IsComparison(t)
  BY <1>1, ComparisonKey DEF KeyAt
<1>2. CASE ~IsComparison(t)
  <2> DEFINE keyed == Keyed(key, t)
             keys == [i \in keyed |-> key[t.children[i]]]
  <2>1. keyed \in SUBSET Nat /\ keys \in [keyed -> Keys]
    BY <1>2, GroupOfTrees DEF Keyed
  <2>2. KeyAt(key, u, t) \in {None, Merged(keys)} \/ (keyed # {} /\ KeyAt(key, u, t) = LeastCrowded(keys, u))
    BY <1>2 DEF KeyAt, Keyed
  <2> HIDE DEF keyed, keys
  <2>3. keyed # {} => LeastCrowded(keys, u) \in Keys
    BY <2>1, LeastCrowdedIsOne
  <2>4. Merged(keys) \in Keys
    BY <2>1, MergedIsKey
  <2> QED
    BY <2>2, <2>3, <2>4
<1> QED
  BY <1>1, <1>2

(* A tree's key is made of its children's keys. *)
LEMMA KeyUnfolds ==
  ASSUME NEW u \in FiledSets, NEW t \in Trees
  PROVE  KeyOf(u)[t] \in Keys \cup {None} /\ KeyOf(u)[t] = KeyAt(KeyOf(u), u, t)
<1> DEFINE V == Keys \cup {None}
           step == [s \in Trees |-> [key \in [Children(s) -> V] |-> KeyAt(key, u, s)]]
<1>1. Steps(Trees, V, Branches, step)
  <2> SUFFICES ASSUME NEW s \in Trees, NEW key \in [Children(s) -> V]
               PROVE  KeyAt(key, u, s) \in V
    BY DEF Steps, Branches
  <2>1. \A c \in Children(s) : key[c] \in V
    OBVIOUS
  <2> QED
    BY <2>1, KeyTyped
<1>2. V # {}
  OBVIOUS
<1>3. PICK f \in [Trees -> V] : \A s \in Trees : Recurs(f, Branches, step, s)
  <2> HIDE DEF step, V
  <2> QED
    BY <1>1, <1>2, TreeRecursion
<1>4. ASSUME NEW s \in Trees PROVE f[s] = KeyAt(f, u, s)
  <2> DEFINE below == [c \in Children(s) |-> f[c]]
  <2>1. below \in [Children(s) -> V]
    BY ChildrenAreTrees
  <2>2. f[s] = KeyAt(below, u, s)
    <3> HIDE DEF V
    <3> QED
      BY <1>3, <2>1 DEF Recurs, Branches
  <2>3. KeyAt(below, u, s) = KeyAt(f, u, s)
    <3>1. CASE IsComparison(s)
      BY <3>1 DEF KeyAt
    <3>2. CASE ~IsComparison(s)
      <4>1. \A i \in DOMAIN s.children : below[s.children[i]] = f[s.children[i]]
        BY <3>2, GroupOfTrees
      <4>2. Keyed(below, s) = Keyed(f, s)
        BY <4>1 DEF Keyed
      <4>3. [i \in Keyed(below, s) |-> below[s.children[i]]] = [i \in Keyed(f, s) |-> f[s.children[i]]]
        BY <4>1, <4>2 DEF Keyed
      <4> HIDE DEF below
      <4> QED
        BY <3>2, <4>2, <4>3 DEF KeyAt, Keyed
    <3> QED
      BY <3>1, <3>2
  <2> QED
    BY <2>2, <2>3
<1>5. f = [s \in Trees |-> KeyAt(f, u, s)]
  BY <1>4
<1>6. KeyOf(u) = [s \in Trees |-> KeyAt(KeyOf(u), u, s)]
  BY <1>5 DEF KeyOf
<1>7. KeyOf(u)[t] = KeyAt(KeyOf(u), u, t)
  BY <1>6
<1>8. \A s \in Trees : KeyOf(u)[s] \in V
  <2> DEFINE Bad == {s \in Trees : KeyOf(u)[s] \notin V}
  <2> SUFFICES ASSUME Bad # {} PROVE FALSE
    OBVIOUS
  <2>1. PICK s \in Bad : \A c \in Children(s) : c \in Trees /\ c \notin Bad
    <3>1. Bad \in SUBSET Trees
      OBVIOUS
    <3> HIDE DEF Bad
    <3> QED
      BY <3>1, SmallestTree
  <2>2. \A c \in Children(s) : KeyOf(u)[c] \in V
    BY <2>1
  <2>3. KeyOf(u)[s] = KeyAt(KeyOf(u), u, s)
    BY <1>6
  <2> QED
    BY <2>2, <2>3, KeyTyped
<1> QED
  BY <1>7, <1>8

(* One of a key's fields has one of that field's values. *)
Shows(key, bound) ==
  \E f \in DOMAIN key : bound[f] # None /\ FiledAs[bound[f]] \in key[f]

(* By induction on the tree: an AND's key is that of a child that must     *)
(* hold, and of an OR's branches one holds, whose key is in the merged     *)
(* one.                                                                    *)
LEMMA KeySound ==
  ASSUME NEW u \in FiledSets, NEW tree \in Trees, NEW bound,
         Key(tree, u) # None, Holds(tree, bound)
  PROVE  Shows(Key(tree, u), bound)
<1> DEFINE key == KeyOf(u)
           Bad == {t \in Trees : key[t] # None /\ Holds(t, bound) /\ ~Shows(key[t], bound)}
<1> SUFFICES ASSUME Bad # {} PROVE FALSE
  BY KeyChosen
<1>1. PICK t \in Bad : \A c \in Children(t) : c \in Trees /\ c \notin Bad
  <2>1. Bad \in SUBSET Trees
    OBVIOUS
  <2> HIDE DEF Bad
  <2> QED
    BY <2>1, SmallestTree
<1>2. key[t] = KeyAt(key, u, t)
  BY KeyUnfolds
<1>3. \A s \in Trees : key[s] \in Keys \cup {None}
  BY KeyUnfolds
<1> HIDE DEF key
<1>4. CASE IsComparison(t)
  <2>1. EqualValues(t) # {} /\ key[t] = [f \in {t.field} |-> EqualValues(t)]
    BY <1>2, <1>4 DEF KeyAt
  <2>2. Compares(t, bound[t.field])
    BY <1>4, HoldsUnfolds
  <2>3. bound[t.field] # None /\ bound[t.field] \in ToSet(t.values)
    <3>1. t.operator \in {"eq", "in"} /\ t.values \in Seq(DOMAIN FiledAs) /\ t.values # <<>>
      BY <1>4, <2>1, ComparisonKey
    <3>2. t.values[1] \in ToSet(t.values)
      BY <3>1 DEF ToSet
    <3> QED
      BY <2>2, <3>1, <3>2 DEF Compares
  <2>4. FiledAs[bound[t.field]] \in EqualValues(t)
    <3>1. EqualValues(t) = {FiledAs[v] : v \in ToSet(t.values)}
      BY <1>4, <2>1, ComparisonKey
    <3> QED
      BY <2>3, <3>1
  <2> QED
    BY <2>1, <2>3, <2>4 DEF Shows
<1>5. CASE ~IsComparison(t)
  <2> DEFINE keyed == Keyed(key, t)
             keys == [i \in keyed |-> key[t.children[i]]]
  <2>1. keyed \in SUBSET Nat /\ keys \in [keyed -> Keys]
    BY <1>1, <1>3, <1>5, GroupOfTrees DEF Keyed
  <2>2. ASSUME NEW i \in keyed, Holds(t.children[i], bound)
        PROVE  Shows(keys[i], bound)
    BY <1>1, <1>5, <2>2, GroupOfTrees DEF Keyed
  <2>3. CASE t.type = "AND"
    <3>1. keyed # {} /\ key[t] = LeastCrowded(keys, u)
      BY <1>2, <1>5, <2>3 DEF KeyAt, Keyed
    <3>2. \A i \in keyed : Holds(t.children[i], bound)
      BY <1>5, <2>3, GroupOfTrees, HoldsUnfolds DEF Keyed
    <3> HIDE DEF keyed, keys
    <3>3. PICK i \in keyed : LeastCrowded(keys, u) = keys[i]
      BY <2>1, <3>1, LeastCrowdedIsOne
    <3> QED
      BY <2>2, <3>1, <3>2, <3>3
  <2>4. CASE t.type = "OR"
    <3>1. keyed = DOMAIN t.children /\ key[t] = Merged(keys)
      BY <1>2, <1>5, <2>4 DEF KeyAt, Keyed
    <3>2. PICK c \in Children(t) : Holds(c, bound)
      BY <1>5, <2>4, HoldsUnfolds
    <3>3. PICK i \in keyed : c = t.children[i]
      BY <1>5, <3>1, GroupOfTrees
    <3> HIDE DEF keyed, keys
    <3>4. PICK f \in DOMAIN keys[i] : bound[f] # None /\ FiledAs[bound[f]] \in keys[i][f]
      BY <2>2, <3>2, <3>3 DEF Shows
    <3>5. f \in DOMAIN Merged(keys) /\ keys[i][f] \subseteq Merged(keys)[f]
      BY <2>1, MergedIsKey
    <3> QED
      BY <3>1, <3>4, <3>5 DEF Shows
  <2> QED
    BY <1>5, <2>3, <2>4, GroupOfTrees
<1> QED
  BY <1>4, <1>5

------------------------------------------------------------------------------
(* The threshold a tree is filed at: it holds only past that. *)

RangeKeys == [field : NumberFields, lower : BOOLEAN, threshold : Int]

RangeAt(range, t) ==
  IF IsComparison(t)
  THEN IF t.field \in NumberFields /\ t.operator \in Bounds
       THEN [field |-> t.field, lower |-> t.operator \in LowerBounds, threshold |-> t.values[1]]
       ELSE None
  ELSE LET found == {i \in DOMAIN t.children : range[t.children[i]] # None}
       IN IF t.type = "AND" /\ found # {} THEN range[t.children[Min(found)]] ELSE None

RangeOf == CHOOSE range : range = [t \in Trees |-> RangeAt(range, t)]

(* RangeKey is what its recursion chooses. *)
LEMMA RangeChosen == ASSUME NEW tree PROVE RangeKey(tree) = RangeOf[tree]
BY DEF RangeKey, RangeOf, RangeAt

(* The least of some numbers is one of them, and no more than any. *)
LEMMA MinIsOne ==
  ASSUME NEW S \in SUBSET Nat, S # {}
  PROVE  Min(S) \in S /\ \A n \in S : Min(S) <= n
<1>1. \E n \in S : \A m \in S : n <= m
  BY LeastNatural
<1> QED
  BY <1>1 DEF Min

(* A group's threshold is that of one of its children. *)
LEMMA RangeOfGroup ==
  ASSUME NEW t \in Trees, ~IsComparison(t), NEW range, RangeAt(range, t) # None
  PROVE  t.type = "AND" /\ \E c \in Children(t) : range[c] # None /\ RangeAt(range, t) = range[c]
<1> DEFINE found == {i \in DOMAIN t.children : range[t.children[i]] # None}
<1>1. t.type = "AND" /\ found # {} /\ RangeAt(range, t) = range[t.children[Min(found)]]
  BY DEF RangeAt
<1>2. found \in SUBSET Nat
  BY GroupOfTrees
<1>3. Min(found) \in found
  <2> HIDE DEF found
  <2> QED
    BY <1>1, <1>2, MinIsOne
<1>4. t.children[Min(found)] \in Children(t) /\ range[t.children[Min(found)]] # None
  <2>1. \A i \in found : t.children[i] \in Children(t) /\ range[t.children[i]] # None
    BY GroupOfTrees
  <2> HIDE DEF found
  <2> QED
    BY <1>3, <2>1
<1> HIDE DEF found
<1> QED
  BY <1>1, <1>4

(* A tree's threshold is one, or none, when its children's are. *)
LEMMA RangeTyped ==
  ASSUME NEW t \in Trees, NEW range, \A c \in Children(t) : range[c] \in RangeKeys \cup {None}
  PROVE  RangeAt(range, t) \in RangeKeys \cup {None}
<1>1. CASE IsComparison(t)
  BY <1>1, TreesAssumption DEF RangeAt, RangeKeys
<1>2. CASE ~IsComparison(t)
  BY <1>2, RangeOfGroup
<1> QED
  BY <1>1, <1>2

(* A tree's threshold is made of its children's. *)
LEMMA RangeUnfolds ==
  ASSUME NEW t \in Trees
  PROVE  RangeOf[t] \in RangeKeys \cup {None} /\ RangeOf[t] = RangeAt(RangeOf, t)
<1> DEFINE V == RangeKeys \cup {None}
           step == [s \in Trees |-> [range \in [Children(s) -> V] |-> RangeAt(range, s)]]
<1>1. Steps(Trees, V, Branches, step)
  <2> SUFFICES ASSUME NEW s \in Trees, NEW range \in [Children(s) -> V]
               PROVE  RangeAt(range, s) \in V
    BY DEF Steps, Branches
  <2>1. \A c \in Children(s) : range[c] \in V
    OBVIOUS
  <2> QED
    BY <2>1, RangeTyped
<1>2. V # {}
  OBVIOUS
<1>3. PICK f \in [Trees -> V] : \A s \in Trees : Recurs(f, Branches, step, s)
  <2> HIDE DEF step, V
  <2> QED
    BY <1>1, <1>2, TreeRecursion
<1>4. ASSUME NEW s \in Trees PROVE f[s] = RangeAt(f, s)
  <2> DEFINE below == [c \in Children(s) |-> f[c]]
  <2>1. below \in [Children(s) -> V]
    BY ChildrenAreTrees
  <2>2. f[s] = RangeAt(below, s)
    <3> HIDE DEF V
    <3> QED
      BY <1>3, <2>1 DEF Recurs, Branches
  <2>3. RangeAt(below, s) = RangeAt(f, s)
    <3>1. CASE IsComparison(s)
      BY <3>1 DEF RangeAt
    <3>2. CASE ~IsComparison(s)
      <4> DEFINE found(range) == {i \in DOMAIN s.children : range[s.children[i]] # None}
      <4>1. \A i \in DOMAIN s.children : below[s.children[i]] = f[s.children[i]]
        BY <3>2, GroupOfTrees
      <4>2. found(below) = found(f) /\ found(f) \in SUBSET Nat /\ found(f) \subseteq DOMAIN s.children
        BY <3>2, <4>1, GroupOfTrees
      <4> HIDE DEF below
      <4>3. RangeAt(below, s) = IF s.type = "AND" /\ found(below) # {}
                                THEN below[s.children[Min(found(below))]] ELSE None
        BY <3>2 DEF RangeAt
      <4>4. RangeAt(f, s) = IF s.type = "AND" /\ found(f) # {}
                            THEN f[s.children[Min(found(f))]] ELSE None
        BY <3>2 DEF RangeAt
      <4> HIDE DEF found
      <4>5. found(f) # {} => Min(found(f)) \in DOMAIN s.children
        BY <4>2, MinIsOne
      <4> QED
        BY <4>1, <4>2, <4>3, <4>4, <4>5
    <3> QED
      BY <3>1, <3>2
  <2> QED
    BY <2>2, <2>3
<1>5. f = [s \in Trees |-> RangeAt(f, s)]
  BY <1>4
<1>6. RangeOf = [s \in Trees |-> RangeAt(RangeOf, s)]
  BY <1>5 DEF RangeOf
<1>7. RangeOf[t] = RangeAt(RangeOf, t)
  BY <1>6
<1>8. \A s \in Trees : RangeOf[s] \in V
  <2> DEFINE Bad == {s \in Trees : RangeOf[s] \notin V}
  <2> SUFFICES ASSUME Bad # {} PROVE FALSE
    OBVIOUS
  <2>1. PICK s \in Bad : \A c \in Children(s) : c \in Trees /\ c \notin Bad
    <3>1. Bad \in SUBSET Trees
      OBVIOUS
    <3> HIDE DEF Bad
    <3> QED
      BY <3>1, SmallestTree
  <2>2. \A c \in Children(s) : RangeOf[c] \in V
    BY <2>1
  <2>3. RangeOf[s] = RangeAt(RangeOf, s)
    BY <1>6
  <2> QED
    BY <2>2, <2>3, RangeTyped
<1> QED
  BY <1>7, <1>8

(* A field reads a number past a threshold, or at it. *)
PastThreshold(range, bound) ==
  /\ bound[range.field] # None
  /\ IF range.lower THEN range.threshold <= bound[range.field]
                    ELSE bound[range.field] <= range.threshold

(* The side of a threshold, as the record has it. *)
LEMMA LowerOfRecord ==
  ASSUME NEW f, NEW o, NEW n, NEW r,
         r = [field |-> f, lower |-> o \in LowerBounds, threshold |-> n]
  PROVE  r.lower = (o \in LowerBounds)
OBVIOUS

(* By induction on the tree: an AND's threshold is that of a child that    *)
(* must hold.                                                              *)
LEMMA RangeSound ==
  ASSUME NEW tree \in Trees, NEW bound,
         \A f \in NumberFields : bound[f] # None => bound[f] \in Int,
         RangeKey(tree) # None, Holds(tree, bound)
  PROVE  PastThreshold(RangeKey(tree), bound)
<1> DEFINE range == RangeOf
           Bad == {t \in Trees : range[t] # None /\ Holds(t, bound) /\ ~PastThreshold(range[t], bound)}
<1> SUFFICES ASSUME Bad # {} PROVE FALSE
  BY RangeChosen
<1>1. PICK t \in Bad : \A c \in Children(t) : c \in Trees /\ c \notin Bad
  <2>1. Bad \in SUBSET Trees
    OBVIOUS
  <2> HIDE DEF Bad
  <2> QED
    BY <2>1, SmallestTree
<1>2. range[t] = RangeAt(range, t)
  BY RangeUnfolds
<1> HIDE DEF range
<1>3. CASE IsComparison(t)
  <2>1. /\ t.field \in NumberFields /\ t.operator \in Bounds
        /\ range[t] = [field |-> t.field, lower |-> t.operator \in LowerBounds,
                       threshold |-> t.values[1]]
    BY <1>2, <1>3 DEF RangeAt
  <2>2. Compares(t, bound[t.field])
    BY <1>3, HoldsUnfolds
  <2>3. t.values[1] \in Int /\ bound[t.field] # None /\ bound[t.field] \in Int
    BY <1>3, <2>1, <2>2, TreesAssumption DEF Compares
  <2>4. IF t.operator \in LowerBounds THEN t.values[1] <= bound[t.field]
                                      ELSE bound[t.field] <= t.values[1]
    BY <2>1, <2>2, <2>3 DEF Compares, Bounds, LowerBounds
  <2>5. range[t].field = t.field /\ range[t].threshold = t.values[1]
    BY <2>1
  <2>6. range[t].lower = (t.operator \in LowerBounds)
    BY <2>1, LowerOfRecord
  <2>7. PastThreshold(range[t], bound)
    BY <2>3, <2>4, <2>5, <2>6 DEF PastThreshold
  <2> QED
    BY <2>7
<1>4. CASE ~IsComparison(t)
  <2>1. t.type = "AND" /\ \E c \in Children(t) : range[c] # None /\ range[t] = range[c]
    <3>1. range[t] # None
      OBVIOUS
    <3> QED
      BY <1>2, <1>4, <3>1, RangeOfGroup
  <2>2. PICK c \in Children(t) : range[c] # None /\ range[t] = range[c]
    BY <2>1
  <2>3. Holds(c, bound)
    BY <1>4, <2>1, HoldsUnfolds
  <2>4. PastThreshold(range[c], bound)
    BY <1>1, <2>2, <2>3
  <2> QED
    BY <2>2, <2>4
<1> QED
  BY <1>3, <1>4

------------------------------------------------------------------------------
(* Halving finds how far the elements that come before reach. *)

(* The middle of two numbers is before the second. *)
LEMMA Middle ==
  ASSUME NEW a \in Nat, NEW b \in Nat, a < b
  PROVE  /\ (a + b) \div 2 \in Nat
         /\ a <= (a + b) \div 2
         /\ (a + b) \div 2 < b
OBVIOUS

ReachAt(reach, s, before, p) ==
  LET mid == (p[1] + p[2]) \div 2 IN
  IF p[1] >= p[2] THEN p[1]
  ELSE IF s[mid + 1] \in before THEN reach[<<mid + 1, p[2]>>] ELSE reach[<<p[1], mid>>]

ReachOf(s, before) ==
  CHOOSE reach : reach = [p \in (0 .. Len(s)) \X (0 .. Len(s)) |-> ReachAt(reach, s, before, p)]

(* Bisect is what its recursion chooses. *)
LEMMA BisectChosen ==
  ASSUME NEW s, NEW before
  PROVE  Bisect(s, before) = ReachOf(s, before)[<<0, Len(s)>>]
BY DEF Bisect, ReachOf, ReachAt

(* Halving a stretch is halving one of its halves. *)
LEMMA ReachUnfolds ==
  ASSUME NEW P, NEW s \in Seq(P), NEW before
  PROVE  \A p \in (0 .. Len(s)) \X (0 .. Len(s)) :
           ReachOf(s, before)[p] = ReachAt(ReachOf(s, before), s, before, p)
<1> DEFINE n == Len(s)
           D == (0 .. n) \X (0 .. n)
           mid(p) == (p[1] + p[2]) \div 2
           rank == [p \in D |-> IF p[1] < p[2] THEN p[2] - p[1] ELSE 0]
           sons == [p \in D |-> IF p[1] < p[2] THEN {<<mid(p) + 1, p[2]>>, <<p[1], mid(p)>>} ELSE {}]
           step == [p \in D |-> [reach \in [sons[p] -> 0 .. n] |-> ReachAt(reach, s, before, p)]]
<1>1. n \in Nat
  OBVIOUS
<1> HIDE DEF n
<1>2. ASSUME NEW p \in D, p[1] < p[2]
      PROVE  /\ mid(p) \in Nat /\ p[1] <= mid(p) /\ mid(p) < p[2]
             /\ p[1] \in 0 .. n /\ p[2] \in 0 .. n
             /\ <<mid(p) + 1, p[2]>> \in D /\ <<p[1], mid(p)>> \in D
  <2>1. p[1] \in 0 .. n /\ p[2] \in 0 .. n
    OBVIOUS
  <2>2. p[1] \in Nat /\ p[2] \in Nat
    BY <1>1, <2>1
  <2>3. mid(p) \in Nat /\ p[1] <= mid(p) /\ mid(p) < p[2]
    BY <1>2, <2>2, Middle
  <2> HIDE DEF mid
  <2>4. mid(p) + 1 \in 0 .. n /\ mid(p) \in 0 .. n
    BY <1>1, <2>1, <2>2, <2>3
  <2> QED
    BY <2>1, <2>3, <2>4
<1>3. Ranked(D, rank, sons)
  <2> SUFFICES ASSUME NEW p \in D
               PROVE  rank[p] \in Nat /\ \A q \in sons[p] : q \in D /\ rank[q] < rank[p]
    BY DEF Ranked
  <2>1. p[1] \in Nat /\ p[2] \in Nat
    BY <1>1
  <2>2. CASE p[1] < p[2]
    <3>1. /\ mid(p) \in Nat /\ p[1] <= mid(p) /\ mid(p) < p[2]
          /\ <<mid(p) + 1, p[2]>> \in D /\ <<p[1], mid(p)>> \in D
      BY <1>2, <2>2
    <3>2. sons[p] = {<<mid(p) + 1, p[2]>>, <<p[1], mid(p)>>}
      BY <2>2
    <3> HIDE DEF mid
    <3>3. /\ rank[p] = p[2] - p[1]
          /\ rank[<<mid(p) + 1, p[2]>>] = IF mid(p) + 1 < p[2] THEN p[2] - (mid(p) + 1) ELSE 0
          /\ rank[<<p[1], mid(p)>>] = IF p[1] < mid(p) THEN mid(p) - p[1] ELSE 0
      BY <2>2, <3>1
    <3> HIDE DEF rank, sons, D
    <3>4. /\ rank[p] \in Nat
          /\ rank[<<mid(p) + 1, p[2]>>] < rank[p]
          /\ rank[<<p[1], mid(p)>>] < rank[p]
      BY <2>1, <2>2, <3>1, <3>3
    <3> QED
      BY <3>1, <3>2, <3>4
  <2>3. CASE ~(p[1] < p[2])
    BY <2>3
  <2> QED
    BY <2>2, <2>3
<1>4. Steps(D, 0 .. n, sons, step)
  <2> SUFFICES ASSUME NEW p \in D, NEW reach \in [sons[p] -> 0 .. n]
               PROVE  ReachAt(reach, s, before, p) \in 0 .. n
    BY DEF Steps
  <2>1. p[1] \in 0 .. n /\ p[2] \in 0 .. n
    OBVIOUS
  <2>2. CASE p[1] < p[2]
    <3>1. sons[p] = {<<mid(p) + 1, p[2]>>, <<p[1], mid(p)>>}
      BY <2>2
    <3>2. reach[<<mid(p) + 1, p[2]>>] \in 0 .. n /\ reach[<<p[1], mid(p)>>] \in 0 .. n
      <4> HIDE DEF mid, sons
      <4> QED
        BY <3>1
    <3>3. ReachAt(reach, s, before, p) \in {reach[<<mid(p) + 1, p[2]>>], reach[<<p[1], mid(p)>>]}
      BY <1>1, <2>1, <2>2 DEF ReachAt
    <3> HIDE DEF mid
    <3> QED
      BY <3>2, <3>3
  <2>3. CASE ~(p[1] < p[2])
    BY <1>1, <2>1, <2>3 DEF ReachAt
  <2> QED
    BY <2>2, <2>3
<1>5. 0 \in 0 .. n
  BY <1>1
<1>6. PICK f \in [D -> 0 .. n] : \A p \in D : Recurs(f, sons, step, p)
  <2> HIDE DEF D, rank, sons, step
  <2> QED
    BY <1>3, <1>4, <1>5, Recursion
<1>7. ASSUME NEW p \in D PROVE f[p] = ReachAt(f, s, before, p)
  <2> DEFINE below == [q \in sons[p] |-> f[q]]
  <2>1. sons[p] \subseteq D
    BY <1>3 DEF Ranked
  <2>2. below \in [sons[p] -> 0 .. n]
    <3> HIDE DEF sons, D
    <3> QED
      BY <2>1
  <2>3. step[p][below] = ReachAt(below, s, before, p)
    BY <2>2
  <2>4. f[p] = step[p][below]
    BY <1>6 DEF Recurs
  <2>5. CASE p[1] < p[2]
    <3>1. <<mid(p) + 1, p[2]>> \in sons[p] /\ <<p[1], mid(p)>> \in sons[p]
      BY <2>5
    <3>2. /\ below[<<mid(p) + 1, p[2]>>] = f[<<mid(p) + 1, p[2]>>]
          /\ below[<<p[1], mid(p)>>] = f[<<p[1], mid(p)>>]
      <4> HIDE DEF mid, sons
      <4> QED
        BY <3>1
    <3>3. ReachAt(below, s, before, p) = ReachAt(f, s, before, p)
      <4> HIDE DEF below, sons
      <4> QED
        BY <3>2 DEF ReachAt
    <3> QED
      BY <2>3, <2>4, <3>3
  <2>6. CASE ~(p[1] < p[2])
    <3>1. p[1] >= p[2]
      BY <1>1, <2>6
    <3>2. ReachAt(below, s, before, p) = ReachAt(f, s, before, p)
      <4> HIDE DEF below
      <4> QED
        BY <3>1 DEF ReachAt
    <3> QED
      BY <2>3, <2>4, <3>2
  <2> QED
    BY <2>5, <2>6
<1>8. f = [p \in D |-> ReachAt(f, s, before, p)]
  BY <1>7
<1>9. ReachOf(s, before) = [p \in D |-> ReachAt(ReachOf(s, before), s, before, p)]
  BY <1>8 DEF ReachOf, n
<1> QED
  BY <1>9 DEF n

(* Halving finds where the elements that come before end, when they are    *)
(* those of a prefix.                                                      *)
LEMMA BisectCuts ==
  ASSUME NEW P, NEW s \in Seq(P), NEW before,
         \A i, j \in 1 .. Len(s) : i < j /\ s[j] \in before => s[i] \in before
  PROVE  /\ Bisect(s, before) \in 0 .. Len(s)
         /\ \A i \in 1 .. Len(s) : s[i] \in before <=> i <= Bisect(s, before)
<1> DEFINE n == Len(s)
           D == (0 .. n) \X (0 .. n)
           reach == ReachOf(s, before)
           Cuts(c) == c \in 0 .. n /\ \A i \in 1 .. n : s[i] \in before <=> i <= c
           Within(p) == /\ p[1] <= p[2]
                        /\ \A i \in 1 .. n : i <= p[1] => s[i] \in before
                        /\ \A i \in 1 .. n : p[2] < i => s[i] \notin before
           Bad == {p \in D : Within(p) /\ ~Cuts(reach[p])}
           width == [p \in Bad |-> p[2] - p[1]]
<1>1. n \in Nat
  OBVIOUS
<1>2. \A p \in D : reach[p] = ReachAt(reach, s, before, p)
  BY ReachUnfolds
<1>3. \A i, j \in 1 .. n : i < j /\ s[j] \in before => s[i] \in before
  OBVIOUS
<1> HIDE DEF n, reach
<1>4. Bad = {}
  <2> SUFFICES ASSUME Bad # {} PROVE FALSE
    OBVIOUS
  <2>1. \A p \in Bad : width[p] \in Nat
    BY <1>1
  <2>2. PICK p \in Bad : \A q \in Bad : width[p] <= width[q]
    <3> HIDE DEF Bad, width
    <3> QED
      BY <2>1, LeastRanked
  <2> DEFINE a == p[1]
             b == p[2]
             mid == (a + b) \div 2
  <2>3. /\ a \in 0 .. n /\ b \in 0 .. n /\ a <= b /\ p = <<a, b>>
        /\ \A i \in 1 .. n : i <= a => s[i] \in before
        /\ \A i \in 1 .. n : b < i => s[i] \notin before
        /\ ~Cuts(reach[p])
        /\ width[p] = b - a
    OBVIOUS
  <2>4. ASSUME NEW c \in 0 .. n, NEW d \in 0 .. n, d - c < b - a, Within(<<c, d>>)
        PROVE  Cuts(reach[<<c, d>>])
    <3> SUFFICES ASSUME <<c, d>> \in Bad PROVE FALSE
      BY <2>4
    <3>1. width[<<c, d>>] = d - c
      OBVIOUS
    <3> HIDE DEF Bad, width
    <3>2. b - a <= d - c
      BY <2>2, <2>3, <3>1
    <3> HIDE DEF a, b
    <3> QED
      BY <1>1, <2>3, <2>4, <3>2
  <2>5. reach[p] = ReachAt(reach, s, before, p)
    BY <1>2
  <2> HIDE DEF Bad, width
  <2>6. CASE a = b
    <3>1. reach[p] = a
      BY <1>1, <2>3, <2>5, <2>6 DEF ReachAt
    <3>2. Cuts(a)
      <4> HIDE DEF a, b
      <4> QED
        BY <1>1, <2>3, <2>6
    <3> QED
      BY <2>3, <3>1, <3>2
  <2>7. CASE a # b
    <3>1. a \in Nat /\ b \in Nat /\ a < b
      <4> HIDE DEF a, b
      <4> QED
        BY <1>1, <2>3, <2>7
    <3>2. reach[p] = IF s[mid + 1] \in before THEN reach[<<mid + 1, b>>] ELSE reach[<<a, mid>>]
      BY <2>5, <3>1 DEF ReachAt
    <3>3. mid \in Nat /\ a <= mid /\ mid < b
      BY <3>1, Middle
    <3> HIDE DEF mid, a, b
    <3>4. mid + 1 \in 1 .. n /\ mid + 1 \in 0 .. n /\ mid \in 0 .. n
      BY <1>1, <2>3, <3>1, <3>3
    <3>5. CASE s[mid + 1] \in before
      <4>1. Within(<<mid + 1, b>>)
        <5>1. ASSUME NEW i \in 1 .. n, i <= mid + 1 PROVE s[i] \in before
          <6>1. i = mid + 1 \/ i < mid + 1
            BY <1>1, <3>3, <5>1
          <6> QED
            BY <1>3, <3>4, <3>5, <6>1
        <5>2. mid + 1 <= b
          BY <3>1, <3>3
        <5> QED
          BY <2>3, <5>1, <5>2
      <4>2. b - (mid + 1) < b - a
        BY <3>1, <3>3
      <4>3. Cuts(reach[<<mid + 1, b>>])
        BY <2>3, <2>4, <3>4, <4>1, <4>2
      <4> QED
        BY <2>3, <3>2, <3>5, <4>3
    <3>6. CASE s[mid + 1] \notin before
      <4>1. Within(<<a, mid>>)
        <5>1. ASSUME NEW i \in 1 .. n, mid < i PROVE s[i] \notin before
          <6>1. i = mid + 1 \/ mid + 1 < i
            BY <1>1, <3>3, <5>1
          <6> QED
            BY <1>3, <3>4, <3>6, <6>1
        <5> QED
          BY <2>3, <3>3, <5>1
      <4>2. mid - a < b - a
        BY <3>1, <3>3
      <4>3. Cuts(reach[<<a, mid>>])
        BY <2>3, <2>4, <3>4, <4>1, <4>2
      <4> QED
        BY <2>3, <3>2, <3>6, <4>3
    <3> QED
      BY <3>5, <3>6
  <2> QED
    BY <2>6, <2>7
<1>5. Within(<<0, n>>) /\ <<0, n>> \in D
  BY <1>1
<1>6. Cuts(reach[<<0, n>>])
  BY <1>4, <1>5
<1>7. Bisect(s, before) = reach[<<0, n>>]
  BY BisectChosen DEF n, reach
<1> QED
  BY <1>6, <1>7 DEF n

------------------------------------------------------------------------------
(* Ranges: pairs in order, put in and taken out. *)

Pairs == Int \X RuleIds

(* Pairs are ordered totally. *)
LEMMA PairOrder ==
  /\ \A p \in Pairs : ~PairLess(p, p)
  /\ \A p, q \in Pairs : PairLess(p, q) \/ p = q \/ PairLess(q, p)
  /\ \A p, q, r \in Pairs : PairLess(p, q) /\ PairLess(q, r) => PairLess(p, r)
<1>1. \A p \in Pairs : p = <<p[1], p[2]>> /\ p[1] \in Int /\ p[2] \in Int
  <2>1. \A p \in Pairs : p = <<p[1], p[2]>> /\ p[1] \in Int /\ p[2] \in RuleIds
    BY DEF Pairs
  <2>2. \A r \in RuleIds : r \in Int
    BY RuleIdsAssumption
  <2> QED
    BY <2>1, <2>2
<1>2. \A p, q \in Pairs : p[1] = q[1] /\ p[2] = q[2] => p = q
  BY <1>1
<1> QED
  BY <1>1, <1>2 DEF PairLess

(* A sequence's elements are at its places. *)
LEMMA ElementsOf ==
  ASSUME NEW P, NEW s \in Seq(P)
  PROVE  /\ Len(s) \in Nat /\ DOMAIN s = 1 .. Len(s)
         /\ \A i \in 1 .. Len(s) : s[i] \in ToSet(s) /\ s[i] \in P
         /\ \A e \in ToSet(s) : e \in P /\ \E i \in 1 .. Len(s) : s[i] = e
BY DEF ToSet

(* As many places as elements is each element once. *)
LEMMA OnceEach ==
  ASSUME NEW P, NEW s \in Seq(P)
  PROVE  /\ IsFiniteSet(ToSet(s))
         /\ Len(s) = Cardinality(ToSet(s)) <=>
              \A i, j \in 1 .. Len(s) : s[i] = s[j] => i = j
<1> DEFINE S == 1 .. Len(s)
<1> s \in [S -> ToSet(s)]
  BY ElementsOf
<1>1. s \in Surjection(S, ToSet(s))
  BY ElementsOf DEF Surjection
<1>2. IsFiniteSet(S) /\ Cardinality(S) = Len(s)
  <2>1. 1 \in Int /\ Len(s) \in Int /\ Len(s) \in Nat
    OBVIOUS
  <2>2. IsFiniteSet(S) /\ Cardinality(S) = IF 1 > Len(s) THEN 0 ELSE Len(s) - 1 + 1
    BY <2>1, FS_Interval
  <2> QED
    BY <2>1, <2>2
<1>3. /\ IsFiniteSet(ToSet(s))
      /\ Cardinality(ToSet(s)) = Cardinality(S) <=> s \in Injection(S, ToSet(s))
  BY <1>1, <1>2, FS_Surjection
<1>4. s \in Injection(S, ToSet(s)) <=> \A i, j \in S : s[i] = s[j] => i = j
  BY DEF Injection, IsInjective
<1> QED
  BY <1>2, <1>3, <1>4

(* A sequence in order has no element twice. *)
LEMMA InOrderOnce ==
  ASSUME NEW s \in Seq(Pairs), InOrder(s)
  PROVE  \A i, j \in 1 .. Len(s) : s[i] = s[j] => i = j
<1> SUFFICES ASSUME NEW i \in 1 .. Len(s), NEW j \in 1 .. Len(s), s[i] = s[j], i # j
             PROVE  FALSE
  OBVIOUS
<1>1. i < j \/ j < i
  OBVIOUS
<1>2. PairLess(s[i], s[j]) \/ PairLess(s[j], s[i])
  BY <1>1, ElementsOf DEF InOrder
<1>3. s[i] \in Pairs
  BY ElementsOf
<1> QED
  BY <1>2, <1>3, PairOrder

(* What SubSeq and concatenation have at each place. *)
LEMMA SubSeqIs ==
  ASSUME NEW P, NEW s \in Seq(P), NEW a \in 1 .. Len(s) + 1, NEW b \in 0 .. Len(s), a <= b + 1
  PROVE  /\ SubSeq(s, a, b) \in Seq(P)
         /\ Len(SubSeq(s, a, b)) = b - a + 1
         /\ \A i \in 1 .. b - a + 1 : SubSeq(s, a, b)[i] = s[a + i - 1]
OBVIOUS

LEMMA ConcatIs ==
  ASSUME NEW P, NEW s \in Seq(P), NEW t \in Seq(P)
  PROVE  /\ s \o t \in Seq(P)
         /\ Len(s \o t) = Len(s) + Len(t)
         /\ \A i \in 1 .. Len(s) + Len(t) :
              (s \o t)[i] = IF i <= Len(s) THEN s[i] ELSE t[i - Len(s)]
OBVIOUS

(* An element put in after the first c. *)
LEMMA InsertAtIs ==
  ASSUME NEW P, NEW s \in Seq(P), NEW c \in 0 .. Len(s), NEW e \in P
  PROVE  /\ InsertAt(s, c + 1, e) \in Seq(P)
         /\ Len(InsertAt(s, c + 1, e)) = Len(s) + 1
         /\ \A i \in 1 .. Len(s) + 1 : InsertAt(s, c + 1, e)[i] =
              IF i <= c THEN s[i] ELSE IF i = c + 1 THEN e ELSE s[i - 1]
<1> DEFINE n == Len(s)
           a == SubSeq(s, 1, c)
           b == SubSeq(s, c + 1, n)
           d == a \o <<e>>
<1>1. n \in Nat /\ c \in Nat /\ c <= n
  OBVIOUS
<1>2. InsertAt(s, c + 1, e) = d \o b
  <2>1. (c + 1) - 1 = c
    BY <1>1
  <2> QED
    BY <2>1 DEF InsertAt
<1>3. a \in Seq(P) /\ Len(a) = c /\ \A i \in 1 .. c : a[i] = s[i]
  <2>1. c - 1 + 1 = c /\ 1 \in 1 .. n + 1 /\ c \in 0 .. n /\ 1 <= c + 1
    BY <1>1
  <2>2. \A i \in 1 .. c : 1 + i - 1 = i
    BY <1>1
  <2> QED
    BY <2>1, <2>2, SubSeqIs
<1>4. b \in Seq(P) /\ Len(b) = n - c /\ \A i \in 1 .. n - c : b[i] = s[c + i]
  <2>1. n - (c + 1) + 1 = n - c /\ c + 1 \in 1 .. n + 1 /\ n \in 0 .. n /\ c + 1 <= n + 1
    BY <1>1
  <2>2. \A i \in 1 .. n - c : c + 1 + i - 1 = c + i
    BY <1>1
  <2> QED
    BY <2>1, <2>2, SubSeqIs
<1> HIDE DEF a, b, n
<1>5. d \in Seq(P) /\ Len(d) = c + 1 /\ \A i \in 1 .. c + 1 : d[i] = IF i <= c THEN s[i] ELSE e
  <2>1. <<e>> \in Seq(P) /\ Len(<<e>>) = 1 /\ <<e>>[1] = e
    OBVIOUS
  <2>2. /\ d \in Seq(P) /\ Len(d) = c + 1
        /\ \A i \in 1 .. c + 1 : d[i] = IF i <= c THEN a[i] ELSE <<e>>[i - c]
    BY <1>3, <2>1, ConcatIs
  <2>3. \A i \in 1 .. c + 1 : i <= c \/ i - c = 1
    BY <1>1
  <2>4. \A i \in 1 .. c + 1 : i <= c => i \in 1 .. c
    BY <1>1
  <2> QED
    BY <1>3, <2>1, <2>2, <2>3, <2>4
<1> HIDE DEF d
<1>6. /\ d \o b \in Seq(P) /\ Len(d \o b) = c + 1 + (n - c)
      /\ \A i \in 1 .. c + 1 + (n - c) : (d \o b)[i] = IF i <= c + 1 THEN d[i] ELSE b[i - (c + 1)]
  <2>1. /\ d \o b \in Seq(P) /\ Len(d \o b) = Len(d) + Len(b)
        /\ \A i \in 1 .. Len(d) + Len(b) : (d \o b)[i] = IF i <= Len(d) THEN d[i] ELSE b[i - Len(d)]
    BY <1>4, <1>5, ConcatIs
  <2>2. Len(d) = c + 1 /\ Len(b) = n - c
    BY <1>4, <1>5
  <2> QED
    BY <2>1, <2>2
<1>7. c + 1 + (n - c) = n + 1
  BY <1>1
<1>8. ASSUME NEW i \in 1 .. n + 1
      PROVE  (d \o b)[i] = IF i <= c THEN s[i] ELSE IF i = c + 1 THEN e ELSE s[i - 1]
  <2>1. (d \o b)[i] = IF i <= c + 1 THEN d[i] ELSE b[i - (c + 1)]
    BY <1>6, <1>7
  <2>2. CASE i <= c + 1
    <3>1. i \in 1 .. c + 1 /\ (~(i <= c) => i = c + 1)
      BY <1>1, <2>2
    <3> QED
      BY <1>1, <1>5, <2>1, <2>2, <3>1
  <2>3. CASE ~(i <= c + 1)
    <3>1. i - (c + 1) \in 1 .. n - c /\ c + (i - (c + 1)) = i - 1 /\ ~(i <= c) /\ i # c + 1
      BY <1>1, <2>3
    <3> QED
      BY <1>4, <2>1, <2>3, <3>1
  <2> QED
    BY <2>2, <2>3
<1> QED
  BY <1>2, <1>6, <1>7, <1>8 DEF n

(* The element after the first c taken out. *)
LEMMA RemoveAtIs ==
  ASSUME NEW P, NEW s \in Seq(P), NEW c \in 0 .. Len(s), c < Len(s)
  PROVE  /\ RemoveAt(s, c + 1) \in Seq(P)
         /\ Len(RemoveAt(s, c + 1)) = Len(s) - 1
         /\ \A i \in 1 .. Len(s) - 1 : RemoveAt(s, c + 1)[i] =
              IF i <= c THEN s[i] ELSE s[i + 1]
<1> DEFINE n == Len(s)
           a == SubSeq(s, 1, c)
           b == SubSeq(s, c + 2, n)
<1>1. n \in Nat /\ c \in Nat /\ c < n
  OBVIOUS
<1>2. RemoveAt(s, c + 1) = a \o b
  <2>1. (c + 1) - 1 = c /\ (c + 1) + 1 = c + 2
    BY <1>1
  <2> QED
    BY <2>1 DEF RemoveAt
<1>3. a \in Seq(P) /\ Len(a) = c /\ \A i \in 1 .. c : a[i] = s[i]
  <2>1. c - 1 + 1 = c /\ 1 \in 1 .. n + 1 /\ c \in 0 .. n /\ 1 <= c + 1
    BY <1>1
  <2>2. \A i \in 1 .. c : 1 + i - 1 = i
    BY <1>1
  <2> QED
    BY <2>1, <2>2, SubSeqIs
<1>4. b \in Seq(P) /\ Len(b) = n - c - 1 /\ \A i \in 1 .. n - c - 1 : b[i] = s[c + 1 + i]
  <2>1. n - (c + 2) + 1 = n - c - 1 /\ c + 2 \in 1 .. n + 1 /\ n \in 0 .. n /\ c + 2 <= n + 1
    BY <1>1
  <2>2. /\ b \in Seq(P) /\ Len(b) = n - (c + 2) + 1
        /\ \A i \in 1 .. n - (c + 2) + 1 : b[i] = s[c + 2 + i - 1]
    BY <2>1, SubSeqIs
  <2>3. \A i \in 1 .. n - c - 1 : c + 2 + i - 1 = c + 1 + i
    BY <1>1
  <2> QED
    BY <2>1, <2>2, <2>3
<1> HIDE DEF a, b, n
<1>5. /\ a \o b \in Seq(P) /\ Len(a \o b) = c + (n - c - 1)
      /\ \A i \in 1 .. c + (n - c - 1) : (a \o b)[i] = IF i <= c THEN a[i] ELSE b[i - c]
  <2>1. /\ a \o b \in Seq(P) /\ Len(a \o b) = Len(a) + Len(b)
        /\ \A i \in 1 .. Len(a) + Len(b) : (a \o b)[i] = IF i <= Len(a) THEN a[i] ELSE b[i - Len(a)]
    BY <1>3, <1>4, ConcatIs
  <2>2. Len(a) = c /\ Len(b) = n - c - 1
    BY <1>3, <1>4
  <2> QED
    BY <2>1, <2>2
<1>6. c + (n - c - 1) = n - 1
  BY <1>1
<1>7. ASSUME NEW i \in 1 .. n - 1
      PROVE  (a \o b)[i] = IF i <= c THEN s[i] ELSE s[i + 1]
  <2>1. (a \o b)[i] = IF i <= c THEN a[i] ELSE b[i - c]
    BY <1>5, <1>6
  <2>2. CASE i <= c
    <3>1. i \in 1 .. c
      BY <1>1, <2>2
    <3> QED
      BY <1>3, <2>1, <2>2, <3>1
  <2>3. CASE ~(i <= c)
    <3>1. i - c \in 1 .. n - c - 1 /\ c + 1 + (i - c) = i + 1
      BY <1>1, <2>3
    <3> QED
      BY <1>4, <2>1, <2>3, <3>1
  <2> QED
    BY <2>2, <2>3
<1> QED
  BY <1>2, <1>5, <1>6, <1>7 DEF n

(* A pair put in where halving says leaves the pairs in order. *)
LEMMA InsertInOrder ==
  ASSUME NEW s \in Seq(Pairs), InOrder(s), NEW p \in Pairs, p \notin ToSet(s)
  PROVE  LET t == InsertAt(s, Bisect(s, {q \in ToSet(s) : ~PairLess(p, q)}) + 1, p)
         IN t \in Seq(Pairs) /\ InOrder(t) /\ ToSet(t) = ToSet(s) \cup {p} /\ Len(t) = Len(s) + 1
<1> DEFINE n == Len(s)
           before == {q \in ToSet(s) : ~PairLess(p, q)}
           c == Bisect(s, before)
           t == InsertAt(s, c + 1, p)
<1>1. n \in Nat /\ \A i \in 1 .. n : s[i] \in ToSet(s) /\ s[i] \in Pairs
  BY ElementsOf
<1>2. \A i, j \in 1 .. n : i < j => PairLess(s[i], s[j])
  BY ElementsOf DEF InOrder
<1>3. \A i, j \in 1 .. n : i < j /\ s[j] \in before => s[i] \in before
  BY <1>1, <1>2, PairOrder
<1>4. c \in 0 .. n /\ \A i \in 1 .. n : s[i] \in before <=> i <= c
  <2> HIDE DEF before
  <2> QED
    BY <1>3, BisectCuts
<1>5. ASSUME NEW i \in 1 .. n
      PROVE  (i <= c => PairLess(s[i], p)) /\ (c < i => PairLess(p, s[i]))
  <2>1. s[i] # p /\ s[i] \in Pairs
    BY <1>1
  <2>2. i <= c <=> ~PairLess(p, s[i])
    BY <1>1, <1>4
  <2> HIDE DEF c
  <2>3. c < i => ~(i <= c)
    BY <1>4
  <2> QED
    BY <2>1, <2>2, <2>3, PairOrder
<1> HIDE DEF c, before
<1>6. /\ t \in Seq(Pairs) /\ Len(t) = n + 1
      /\ \A i \in 1 .. n + 1 : t[i] = IF i <= c THEN s[i] ELSE IF i = c + 1 THEN p ELSE s[i - 1]
  BY <1>4, InsertAtIs
<1> HIDE DEF t
<1>7. InOrder(t)
  <2> SUFFICES ASSUME NEW i \in 1 .. n + 1, NEW j \in 1 .. n + 1, i < j
               PROVE  PairLess(t[i], t[j])
    BY <1>6, ElementsOf DEF InOrder
  <2>1. CASE j <= c
    <3>1. i \in 1 .. n /\ j \in 1 .. n /\ i <= c
      BY <1>1, <1>4, <2>1
    <3> QED
      BY <1>2, <1>6, <2>1, <3>1
  <2>2. CASE j = c + 1
    <3>1. i \in 1 .. n /\ i <= c /\ ~(j <= c)
      BY <1>1, <1>4, <2>2
    <3> QED
      BY <1>5, <1>6, <2>2, <3>1
  <2>3. CASE c + 1 < j
    <3>1. j - 1 \in 1 .. n /\ t[j] = s[j - 1] /\ c < j - 1
      BY <1>1, <1>4, <1>6, <2>3
    <3>2. CASE i <= c
      <4>1. i \in 1 .. n /\ i < j - 1
        BY <1>1, <1>4, <3>1, <3>2
      <4> QED
        BY <1>2, <1>6, <3>1, <3>2, <4>1
    <3>3. CASE i = c + 1
      BY <1>4, <1>5, <1>6, <3>1, <3>3
    <3>4. CASE c + 1 < i
      <4>1. i - 1 \in 1 .. n /\ t[i] = s[i - 1] /\ i - 1 < j - 1
        BY <1>1, <1>4, <1>6, <3>4
      <4> QED
        BY <1>2, <3>1, <4>1
    <3> QED
      BY <1>4, <3>2, <3>3, <3>4
  <2> QED
    BY <1>4, <2>1, <2>2, <2>3
<1>8. ToSet(t) = ToSet(s) \cup {p}
  <2>1. ASSUME NEW e \in ToSet(t) PROVE e \in ToSet(s) \cup {p}
    <3>1. PICK i \in 1 .. n + 1 : t[i] = e
      BY <1>6, ElementsOf
    <3>2. i <= c => i \in 1 .. n
      BY <1>1, <1>4
    <3>3. ~(i <= c) /\ i # c + 1 => i - 1 \in 1 .. n
      BY <1>1, <1>4
    <3> QED
      BY <1>1, <1>6, <3>1, <3>2, <3>3
  <2>2. p \in ToSet(t)
    <3>1. c + 1 \in 1 .. n + 1 /\ t[c + 1] = p
      BY <1>1, <1>4, <1>6
    <3> QED
      BY <1>6, <3>1, ElementsOf
  <2>3. ASSUME NEW e \in ToSet(s) PROVE e \in ToSet(t)
    <3>1. PICK i \in 1 .. n : s[i] = e
      BY ElementsOf
    <3>2. CASE i <= c
      <4>1. i \in 1 .. n + 1 /\ t[i] = e
        BY <1>1, <1>6, <3>1, <3>2
      <4> QED
        BY <1>6, <4>1, ElementsOf
    <3>3. CASE c < i
      <4>1. i + 1 \in 1 .. n + 1 /\ t[i + 1] = e
        BY <1>1, <1>4, <1>6, <3>1, <3>3
      <4> QED
        BY <1>6, <4>1, ElementsOf
    <3> QED
      BY <1>4, <3>2, <3>3
  <2> QED
    BY <2>1, <2>2, <2>3
<1> QED
  BY <1>6, <1>7, <1>8 DEF t, c, before

(* A pair taken out where halving finds it leaves the others, in order. *)
LEMMA RemoveInOrder ==
  ASSUME NEW s \in Seq(Pairs), InOrder(s), NEW p \in ToSet(s)
  PROVE  LET t == RemovePair(s, p)
         IN t \in Seq(Pairs) /\ InOrder(t) /\ ToSet(t) = ToSet(s) \ {p} /\ Len(t) = Len(s) - 1
<1> DEFINE n == Len(s)
           before == {q \in ToSet(s) : PairLess(q, p)}
           c == Bisect(s, before)
           t == RemoveAt(s, c + 1)
<1>1. n \in Nat /\ p \in Pairs /\ \A i \in 1 .. n : s[i] \in ToSet(s) /\ s[i] \in Pairs
  BY ElementsOf
<1>2. \A i, j \in 1 .. n : i < j => PairLess(s[i], s[j])
  BY ElementsOf DEF InOrder
<1>3. \A i, j \in 1 .. n : i < j /\ s[j] \in before => s[i] \in before
  BY <1>1, <1>2, PairOrder
<1>4. c \in 0 .. n /\ \A i \in 1 .. n : s[i] \in before <=> i <= c
  <2> HIDE DEF before
  <2> QED
    BY <1>3, BisectCuts
<1>5. PICK k \in 1 .. n : s[k] = p
  BY ElementsOf
<1>6. k = c + 1
  <2>1. ~(k <= c)
    BY <1>1, <1>4, <1>5, PairOrder
  <2>2. \A i \in 1 .. n : i < k => s[i] \in before
    BY <1>1, <1>2, <1>5
  <2> HIDE DEF c, before
  <2>3. ~(c + 1 < k)
    <3> SUFFICES ASSUME c + 1 < k PROVE FALSE
      OBVIOUS
    <3>1. c + 1 \in 1 .. n
      BY <1>1, <1>4
    <3> QED
      BY <1>4, <2>2, <3>1
  <2> QED
    BY <1>1, <1>4, <2>1, <2>3
<1>7. \A i \in 1 .. n : s[i] = p => i = k
  BY <1>5, InOrderOnce
<1> HIDE DEF c, before
<1>8. /\ t \in Seq(Pairs) /\ Len(t) = n - 1
      /\ \A i \in 1 .. n - 1 : t[i] = IF i < k THEN s[i] ELSE s[i + 1]
  <2>1. c < n /\ \A i \in 1 .. n - 1 : i <= c <=> i < k
    BY <1>1, <1>4, <1>6
  <2> QED
    BY <1>4, <2>1, RemoveAtIs
<1> HIDE DEF t
<1>9. InOrder(t)
  <2> DOMAIN t = 1 .. n - 1
    BY <1>8, ElementsOf
  <2> SUFFICES ASSUME NEW i \in 1 .. n - 1, NEW j \in 1 .. n - 1, i < j
               PROVE  PairLess(t[i], t[j])
    BY DEF InOrder
  <2>1. /\ i \in 1 .. n /\ j \in 1 .. n /\ i + 1 \in 1 .. n /\ j + 1 \in 1 .. n
        /\ i < j + 1 /\ i + 1 < j + 1
    BY <1>1
  <2>2. CASE i < k /\ j < k
    BY <1>2, <1>8, <2>1, <2>2
  <2>3. CASE i < k /\ ~(j < k)
    BY <1>2, <1>8, <2>1, <2>3
  <2>4. CASE ~(i < k) /\ ~(j < k)
    BY <1>2, <1>8, <2>1, <2>4
  <2> QED
    BY <1>1, <2>2, <2>3, <2>4
<1>10. ToSet(t) = ToSet(s) \ {p}
  <2>1. ASSUME NEW e \in ToSet(t) PROVE e \in ToSet(s) \ {p}
    <3>1. PICK i \in 1 .. n - 1 : t[i] = e
      BY <1>8, ElementsOf
    <3>2. i \in 1 .. n /\ i + 1 \in 1 .. n /\ (~(i < k) => i + 1 # k)
      BY <1>1
    <3> QED
      BY <1>1, <1>7, <1>8, <3>1, <3>2
  <2>2. ASSUME NEW e \in ToSet(s), e # p PROVE e \in ToSet(t)
    <3>1. PICK i \in 1 .. n : s[i] = e
      BY ElementsOf
    <3>2. i # k
      BY <1>5, <2>2, <3>1
    <3>3. CASE i < k
      <4>1. i \in 1 .. n - 1 /\ t[i] = e
        BY <1>1, <1>8, <3>1, <3>3
      <4> QED
        BY <1>8, <4>1, ElementsOf
    <3>4. CASE k < i
      <4>1. i - 1 \in 1 .. n - 1 /\ ~(i - 1 < k) /\ (i - 1) + 1 = i
        BY <1>1, <3>4
      <4>2. t[i - 1] = e
        BY <1>8, <3>1, <4>1
      <4> QED
        BY <1>8, <4>1, <4>2, ElementsOf
    <3> QED
      BY <1>1, <3>2, <3>3, <3>4
  <2> QED
    BY <2>1, <2>2
<1> QED
  BY <1>8, <1>9, <1>10 DEF t, c, before, RemovePair

(* What is past a value is found among the pairs. *)
LEMMA PastHas ==
  ASSUME NEW s \in Seq(Pairs), InOrder(s), NEW v \in Int, NEW lower \in BOOLEAN,
         NEW p \in ToSet(s), IF lower THEN p[1] <= v ELSE v <= p[1]
  PROVE  p[2] \in Past(s, v, lower)
<1> DEFINE n == Len(s)
<1>1. n \in Nat /\ \A i \in 1 .. n : s[i] \in ToSet(s) /\ s[i] \in Pairs
  BY ElementsOf
<1>2. \A q \in Pairs : q[1] \in Int
  BY DEF Pairs
<1>3. \A i, j \in 1 .. n : i < j => s[i][1] <= s[j][1]
  <2> SUFFICES ASSUME NEW i \in 1 .. n, NEW j \in 1 .. n, i < j PROVE s[i][1] <= s[j][1]
    OBVIOUS
  <2>1. PairLess(s[i], s[j])
    BY ElementsOf DEF InOrder
  <2>2. s[i][1] \in Int /\ s[j][1] \in Int
    BY <1>1, <1>2
  <2> QED
    BY <2>1, <2>2 DEF PairLess
<1>4. PICK k \in 1 .. n : s[k] = p
  BY ElementsOf
<1>5. p[1] \in Int
  BY <1>1, <1>2, <1>4
<1>6. CASE lower
  <2> DEFINE before == {q \in ToSet(s) : q[1] <= v}
             c == Bisect(s, before)
             t == SubSeq(s, 1, c)
  <2>1. \A i, j \in 1 .. n : i < j /\ s[j] \in before => s[i] \in before
    <3> SUFFICES ASSUME NEW i \in 1 .. n, NEW j \in 1 .. n, i < j, s[j][1] <= v PROVE s[i][1] <= v
      BY <1>1
    <3>1. s[i][1] <= s[j][1] /\ s[i][1] \in Int /\ s[j][1] \in Int
      BY <1>1, <1>2, <1>3
    <3> QED
      BY <3>1
  <2>2. p \in before
    BY <1>6
  <2>3. c \in 0 .. n /\ k <= c
    <3> HIDE DEF before
    <3> QED
      BY <1>4, <2>1, <2>2, BisectCuts
  <2>4. Past(s, v, lower) = {q[2] : q \in ToSet(t)}
    BY <1>6 DEF Past
  <2> HIDE DEF c, before
  <2>5. t \in Seq(Pairs) /\ k \in 1 .. Len(t) /\ t[k] = p
    <3>1. /\ t \in Seq(Pairs) /\ Len(t) = c - 1 + 1
          /\ \A i \in 1 .. c - 1 + 1 : t[i] = s[1 + i - 1]
      BY <1>1, <2>3, SubSeqIs
    <3>2. k \in 1 .. c - 1 + 1 /\ 1 + k - 1 = k
      BY <1>1, <2>3
    <3> QED
      BY <1>4, <3>1, <3>2
  <2>6. p \in ToSet(t)
    BY <2>5, ElementsOf
  <2> QED
    BY <2>4, <2>6
<1>7. CASE ~lower
  <2> DEFINE before == {q \in ToSet(s) : q[1] < v}
             c == Bisect(s, before)
             t == SubSeq(s, c + 1, n)
  <2>1. \A i, j \in 1 .. n : i < j /\ s[j] \in before => s[i] \in before
    <3> SUFFICES ASSUME NEW i \in 1 .. n, NEW j \in 1 .. n, i < j, s[j][1] < v PROVE s[i][1] < v
      BY <1>1
    <3>1. s[i][1] <= s[j][1] /\ s[i][1] \in Int /\ s[j][1] \in Int
      BY <1>1, <1>2, <1>3
    <3> QED
      BY <3>1
  <2>2. p \notin before
    BY <1>5, <1>7
  <2>3. c \in 0 .. n /\ ~(k <= c)
    <3> HIDE DEF before
    <3> QED
      BY <1>4, <2>1, <2>2, BisectCuts
  <2>4. Past(s, v, lower) = {q[2] : q \in ToSet(t)}
    BY <1>7 DEF Past
  <2> HIDE DEF c, before
  <2>5. t \in Seq(Pairs) /\ k - c \in 1 .. Len(t) /\ t[k - c] = p
    <3>1. /\ t \in Seq(Pairs) /\ Len(t) = n - (c + 1) + 1
          /\ \A i \in 1 .. n - (c + 1) + 1 : t[i] = s[c + 1 + i - 1]
      <4>1. c + 1 \in 1 .. n + 1 /\ n \in 0 .. n /\ c + 1 <= n + 1
        BY <1>1, <2>3
      <4> QED
        BY <4>1, SubSeqIs
    <3>2. k - c \in 1 .. n - (c + 1) + 1 /\ c + 1 + (k - c) - 1 = k
      BY <1>1, <2>3
    <3> QED
      BY <1>4, <3>1, <3>2
  <2>6. p \in ToSet(t)
    BY <2>5, ElementsOf
  <2> QED
    BY <2>4, <2>6
<1> QED
  BY <1>6, <1>7

(* A pair appended is added, once. *)
LEMMA AppendHas ==
  ASSUME NEW s \in Seq(Pairs), NEW p \in Pairs
  PROVE  /\ Append(s, p) \in Seq(Pairs)
         /\ ToSet(Append(s, p)) = ToSet(s) \cup {p}
         /\ Len(Append(s, p)) = Len(s) + 1
<1> DEFINE t == Append(s, p)
<1>1. /\ t \in Seq(Pairs) /\ Len(t) = Len(s) + 1
      /\ \A i \in 1 .. Len(s) : t[i] = s[i]
      /\ t[Len(s) + 1] = p
  OBVIOUS
<1> HIDE DEF t
<1>2. Len(s) \in Nat
  OBVIOUS
<1>3. ASSUME NEW e \in ToSet(t) PROVE e \in ToSet(s) \cup {p}
  <2>1. PICK i \in 1 .. Len(s) + 1 : t[i] = e
    BY <1>1, ElementsOf
  <2>2. i \in 1 .. Len(s) \/ i = Len(s) + 1
    BY <1>2
  <2> QED
    BY <1>1, <2>1, <2>2, ElementsOf
<1>4. ASSUME NEW e \in ToSet(s) PROVE e \in ToSet(t)
  <2>1. PICK i \in 1 .. Len(s) : s[i] = e
    BY ElementsOf
  <2>2. i \in 1 .. Len(t) /\ t[i] = e
    BY <1>1, <1>2, <2>1
  <2> QED
    BY <1>1, <2>2, ElementsOf
<1>5. p \in ToSet(t)
  <2>1. Len(s) + 1 \in 1 .. Len(t)
    BY <1>1, <1>2
  <2> QED
    BY <1>1, <2>1, ElementsOf
<1>6. ToSet(t) = ToSet(s) \cup {p}
  BY <1>3, <1>4, <1>5
<1> QED
  BY <1>1, <1>6 DEF t

(* Pairs can be put in order: one by one, each where halving puts it.      *)
LEMMA OrderExists ==
  ASSUME NEW S \in SUBSET Pairs, IsFiniteSet(S)
  PROVE  \E t \in Seq(Pairs) : ToSet(t) = S /\ InOrder(t) /\ Len(t) = Cardinality(S)
<1> DEFINE Ordered(T) == \E t \in Seq(Pairs) : ToSet(t) = T /\ InOrder(t) /\ Len(t) = Cardinality(T)
           Bad == {T \in SUBSET S : ~Ordered(T)}
           size == [T \in Bad |-> Cardinality(T)]
<1> SUFFICES ASSUME Bad # {} PROVE FALSE
  OBVIOUS
<1>1. \A T \in SUBSET S : IsFiniteSet(T) /\ Cardinality(T) \in Nat
  BY FS_Subset, FS_CardinalityType
<1>2. PICK T \in Bad : \A U \in Bad : size[T] <= size[U]
  <2>1. \A T \in Bad : size[T] \in Nat
    BY <1>1
  <2> HIDE DEF Bad, size
  <2> QED
    BY <2>1, LeastRanked
<1>3. T \in SUBSET S /\ ~Ordered(T) /\ size[T] = Cardinality(T)
  OBVIOUS
<1>4. CASE T = {}
  <2>1. << >> \in Seq(Pairs) /\ ToSet(<< >>) = {} /\ Len(<< >>) = 0
    BY DEF ToSet
  <2>2. InOrder(<< >>)
    BY DEF InOrder
  <2>3. Cardinality({}) = 0
    BY FS_EmptySet
  <2> QED
    BY <1>3, <1>4, <2>1, <2>2, <2>3
<1>5. CASE T # {}
  <2>1. PICK p \in T : TRUE
    BY <1>5
  <2> DEFINE U == T \ {p}
  <2>2. U \in SUBSET S /\ Cardinality(U) = Cardinality(T) - 1 /\ Cardinality(T) \in Nat
    BY <1>1, <1>3, FS_RemoveElement
  <2>3. U \notin Bad
    <3> SUFFICES ASSUME U \in Bad PROVE FALSE
      OBVIOUS
    <3>1. size[U] = Cardinality(U)
      OBVIOUS
    <3> HIDE DEF Bad, size, U
    <3> QED
      BY <1>2, <1>3, <2>2, <3>1
  <2>4. Ordered(U)
    BY <2>2, <2>3
  <2>5. PICK s \in Seq(Pairs) : ToSet(s) = U /\ InOrder(s) /\ Len(s) = Cardinality(U)
    BY <2>4
  <2>6. p \in Pairs /\ p \notin ToSet(s)
    BY <1>3, <2>5
  <2>7. \E t \in Seq(Pairs) : InOrder(t) /\ ToSet(t) = ToSet(s) \cup {p} /\ Len(t) = Len(s) + 1
    BY <2>5, <2>6, InsertInOrder
  <2>8. ToSet(s) \cup {p} = T /\ Len(s) + 1 = Cardinality(T)
    BY <2>2, <2>5
  <2>9. Ordered(T)
    BY <2>7, <2>8
  <2> QED
    BY <1>3, <2>9
<1> QED
  BY <1>4, <1>5

(* Sorting leaves the same pairs, in order. *)
LEMMA SortedIs ==
  ASSUME NEW s \in Seq(Pairs), Len(s) = Cardinality(ToSet(s))
  PROVE  /\ Sorted(s) \in Seq(Pairs) /\ InOrder(Sorted(s))
         /\ ToSet(Sorted(s)) = ToSet(s) /\ Len(Sorted(s)) = Len(s)
<1> DEFINE Sorts(t) == ToSet(t) = ToSet(s) /\ InOrder(t)
<1>1. IsFiniteSet(ToSet(s)) /\ ToSet(s) \in SUBSET Pairs
  BY OnceEach, ElementsOf
<1>2. PICK t \in Seq(Pairs) : ToSet(t) = ToSet(s) /\ InOrder(t) /\ Len(t) = Cardinality(ToSet(s))
  BY <1>1, OrderExists
<1>3. DOMAIN t = DOMAIN s /\ DOMAIN s = 1 .. Len(s) /\ Len(s) \in Nat
  BY <1>2, ElementsOf
<1>4. t \in [DOMAIN s -> ToSet(s)]
  <2>1. t = [i \in DOMAIN t |-> t[i]]
    OBVIOUS
  <2>2. \A i \in DOMAIN t : t[i] \in ToSet(t)
    BY ElementsOf
  <2> QED
    BY <1>2, <1>3, <2>1, <2>2
<1>5. Sorted(s) = CHOOSE u \in [DOMAIN s -> ToSet(s)] : Sorts(u)
  BY DEF Sorted
<1>6. Sorted(s) \in [DOMAIN s -> ToSet(s)] /\ Sorts(Sorted(s))
  <2>1. Sorts(t)
    BY <1>2
  <2> HIDE DEF Sorts
  <2> QED
    BY <1>4, <1>5, <2>1
<1>7. Sorted(s) \in [1 .. Len(s) -> Pairs]
  BY <1>1, <1>3, <1>6
<1>8. Sorted(s) \in Seq(Pairs) /\ Len(Sorted(s)) = Len(s)
  BY <1>3, <1>7
<1> QED
  BY <1>6, <1>8

------------------------------------------------------------------------------
(* Filing, and what undoes it. *)

IndexTypes ==
  /\ rules \in [RuleIds -> Trees \cup {None}]
  /\ refused \subseteq RuleIds
  /\ filings \in [RuleIds -> Filings \cup {None}]
  /\ readers \subseteq RuleIds
  /\ everywhere \subseteq RuleIds
  /\ equal \in FiledSets
  /\ equalFields \in [TextFields -> Int]
  /\ ranges \in [NumberFields \X BOOLEAN -> Seq(Pairs)]
  /\ bulk \in BOOLEAN

(* A rule is filed by its tree, which can be judged, whatever was filed    *)
(* under the values then.                                                  *)
FiledByTree ==
  \A r \in RuleIds : rules[r] # None =>
    /\ CanJudge(rules[r])
    /\ \E u \in FiledSets : filings[r] = FilingOf(rules[r], u)

IndexInv == IndexTypes /\ FiledByTree /\ FiledAsRecorded

(* A tree is filed by its key, by its threshold, or tried everywhere. *)
LEMMA FilingIs ==
  ASSUME NEW t \in Trees, NEW u \in FiledSets
  PROVE  LET filing == FilingOf(t, u) IN
         \/ /\ filing = [kind |-> "equal", keys |-> Key(t, u)]
            /\ Key(t, u) \in Keys /\ Key(t, u) # None
         \/ /\ filing = [kind |-> "range", range |-> RangeKey(t)]
            /\ RangeKey(t) \in RangeKeys /\ RangeKey(t) # None
         \/ filing = [kind |-> "everywhere"]
<1>1. Key(t, u) \in Keys \cup {None}
  BY KeyUnfolds, KeyChosen
<1>2. RangeKey(t) \in RangeKeys \cup {None}
  BY RangeUnfolds, RangeChosen
<1> QED
  BY <1>1, <1>2 DEF FilingOf

(* Those are ways a rule may be filed. *)
LEMMA FilingTyped ==
  ASSUME NEW t \in Trees, NEW u \in FiledSets
  PROVE  FilingOf(t, u) \in Filings
<1>1. CASE FilingOf(t, u) = [kind |-> "equal", keys |-> Key(t, u)] /\ Key(t, u) \in Keys
  BY <1>1 DEF Filings, Keys
<1>2. CASE FilingOf(t, u) = [kind |-> "range", range |-> RangeKey(t)] /\ RangeKey(t) \in RangeKeys
  BY <1>2 DEF Filings, RangeKeys
<1>3. CASE FilingOf(t, u) = [kind |-> "everywhere"]
  BY <1>3 DEF Filings
<1> QED
  BY <1>1, <1>2, <1>3, FilingIs

(* Where a filing files. *)
Under(filing, f, v) == filing.kind = "equal" /\ f \in DOMAIN filing.keys /\ v \in filing.keys[f]

At(filing, k) == filing.kind = "range" /\ k = <<filing.range.field, filing.range.lower>>

(* A filing at a range has a number for its threshold. *)
LEMMA FilesAt ==
  ASSUME NEW filing \in Filings, NEW k, At(filing, k)
  PROVE  filing.range.threshold \in Int /\ k \in NumberFields \X BOOLEAN
<1>1. filing.kind = "range"
  BY DEF At
<1>2. filing \in [kind : {"range"}, range : RangeKeys]
  BY <1>1 DEF Filings, RangeKeys
<1>3. filing.range \in RangeKeys
  BY <1>2
<1>4. /\ filing.range.threshold \in Int
      /\ filing.range.field \in NumberFields
      /\ filing.range.lower \in BOOLEAN
  BY <1>3 DEF RangeKeys
<1> QED
  BY <1>4 DEF At

(* How many filings there are under the values of a field: with a rule     *)
(* filed, as many more as values it is filed under.                        *)
Count(u, f) == Cardinality(UNION {{v} \X u[<<f, v>>] : v \in Values})

LEMMA CountOf ==
  ASSUME NEW u \in FiledSets, NEW w \in FiledSets, NEW f \in TextFields, NEW r \in RuleIds,
         \A v \in Values : w[<<f, v>>] = u[<<f, v>>] \ {r}
  PROVE  /\ Count(u, f) \in Nat /\ Count(w, f) \in Nat
         /\ Cardinality({v \in Values : r \in u[<<f, v>>]}) \in Nat
         /\ Count(u, f) = Count(w, f) + Cardinality({v \in Values : r \in u[<<f, v>>]})
<1> DEFINE A == UNION {{v} \X u[<<f, v>>] : v \in Values}
           B == UNION {{v} \X w[<<f, v>>] : v \in Values}
           V == {v \in Values : r \in u[<<f, v>>]}
           C == V \X {r}
<1>1. \A v \in Values : u[<<f, v>>] \subseteq RuleIds
  BY DEF FiledSets
<1>2. A \subseteq Values \X RuleIds
  <2> SUFFICES ASSUME NEW v \in Values, NEW e \in {v} \X u[<<f, v>>]
               PROVE  e \in Values \X RuleIds
    OBVIOUS
  <2> QED
    BY <1>1
<1>3. A = B \cup C /\ B \cap C = {}
  <2>1. ASSUME NEW v \in Values
        PROVE  /\ {v} \X u[<<f, v>>] \subseteq B \cup C
               /\ {v} \X w[<<f, v>>] \subseteq A
               /\ ({v} \X w[<<f, v>>]) \cap C = {}
    <3>1. ASSUME NEW x \in u[<<f, v>>] PROVE <<v, x>> \in B \cup C
      <4>1. CASE x = r
        BY <4>1
      <4>2. CASE x # r
        <5>1. <<v, x>> \in {v} \X w[<<f, v>>]
          BY <4>2
        <5> QED
          BY <5>1
      <4> QED
        BY <4>1, <4>2
    <3>2. {v} \X u[<<f, v>>] \subseteq B \cup C
      <4> SUFFICES ASSUME NEW e \in {v} \X u[<<f, v>>] PROVE e \in B \cup C
        OBVIOUS
      <4>1. PICK x \in u[<<f, v>>] : e = <<v, x>>
        OBVIOUS
      <4> QED
        BY <3>1, <4>1
    <3>3. {v} \X w[<<f, v>>] \subseteq {v} \X u[<<f, v>>]
      OBVIOUS
    <3>4. r \notin w[<<f, v>>]
      OBVIOUS
    <3> QED
      BY <3>2, <3>3, <3>4
  <2>2. C \subseteq A
    <3> SUFFICES ASSUME NEW v \in V PROVE <<v, r>> \in A
      OBVIOUS
    <3>1. <<v, r>> \in {v} \X u[<<f, v>>]
      OBVIOUS
    <3> QED
      BY <3>1
  <2>3. A \subseteq B \cup C
    BY <2>1
  <2>4. B \subseteq A
    <3> HIDE DEF A
    <3> QED
      BY <2>1
  <2>5. \A e \in B : e \notin C
    <3> HIDE DEF C
    <3> QED
      BY <2>1
  <2> HIDE DEF A, B, C
  <2> QED
    BY <2>2, <2>3, <2>4, <2>5
<1>4. IsFiniteSet(Values \X RuleIds)
  BY ValuesFinite, RuleIdsAssumption, FS_Product
<1>5. V \subseteq Values
  OBVIOUS
<1> HIDE DEF A, B, V
<1>6. IsFiniteSet(A) /\ IsFiniteSet(B) /\ IsFiniteSet(C) /\ IsFiniteSet(V)
  <2>1. B \subseteq A /\ C \subseteq A
    BY <1>3
  <2>2. IsFiniteSet(A)
    BY <1>2, <1>4, FS_Subset
  <2> QED
    BY <1>5, <2>1, <2>2, ValuesFinite, FS_Subset
<1>7. /\ Cardinality(A) \in Nat /\ Cardinality(B) \in Nat
      /\ Cardinality(C) \in Nat /\ Cardinality(V) \in Nat
  BY <1>6, FS_CardinalityType
<1>8. Cardinality(C) = Cardinality(V)
  <2>1. Cardinality(C) = Cardinality(V) * Cardinality({r})
    BY <1>6, FS_Singleton, FS_Product
  <2>2. Cardinality({r}) = 1
    BY FS_Singleton
  <2> QED
    BY <1>7, <2>1, <2>2
<1>9. Cardinality(A) = Cardinality(B) + Cardinality(C)
  <2>1. Cardinality(A) = Cardinality(B) + Cardinality(C) - Cardinality(B \cap C)
    BY <1>3, <1>6, FS_Union
  <2>2. Cardinality(B \cap C) = 0
    BY <1>3, FS_EmptySet
  <2> QED
    BY <1>7, <2>1, <2>2
<1> QED
  BY <1>7, <1>8, <1>9 DEF A, B, V, Count

(* A rule whose filing is undone is filed under no value. *)
LEMMA EqualTaken ==
  ASSUME IndexTypes, FiledAsRecorded, NEW r \in RuleIds
  PROVE  /\ EqualWithout(r) \in FiledSets
         /\ \A k \in TextFields \X Values : EqualWithout(r)[k] = equal[k] \ {r}
<1>1. DOMAIN equal = TextFields \X Values
  BY DEF IndexTypes, FiledSets
<1>2. \A k \in TextFields \X Values : r \in equal[k] <=> FiledUnder(r, k[1], k[2])
  BY <1>1 DEF FiledAsRecorded
<1>3. \A k \in TextFields \X Values : EqualWithout(r)[k] = equal[k] \ {r}
  BY <1>1, <1>2 DEF EqualWithout
<1>4. EqualWithout(r) = [k \in TextFields \X Values |-> EqualWithout(r)[k]]
  BY <1>1 DEF EqualWithout
<1>5. \A k \in TextFields \X Values : EqualWithout(r)[k] \in SUBSET RuleIds
  BY <1>3 DEF IndexTypes, FiledSets
<1>6. EqualWithout(r) \in FiledSets
  BY <1>4, <1>5 DEF FiledSets
<1> QED
  BY <1>3, <1>6

(* The counts that are left are of what is left. *)
LEMMA FieldsTaken ==
  ASSUME IndexTypes, FiledAsRecorded, NEW r \in RuleIds
  PROVE  /\ FieldsWithout(r) \in [TextFields -> Int]
         /\ \A f \in TextFields : FieldsWithout(r)[f] = Count(EqualWithout(r), f)
<1>1. ASSUME NEW f \in TextFields
      PROVE  /\ FieldsWithout(r)[f] = Count(EqualWithout(r), f)
             /\ Count(EqualWithout(r), f) \in Int
  <2>1. equal \in FiledSets /\ EqualWithout(r) \in FiledSets
    BY EqualTaken DEF IndexTypes
  <2>2. \A v \in Values : <<f, v>> \in TextFields \X Values
    OBVIOUS
  <2>3. \A v \in Values : EqualWithout(r)[<<f, v>>] = equal[<<f, v>>] \ {r}
    BY <2>2, EqualTaken
  <2>4. {v \in Values : r \in equal[<<f, v>>]} = {v \in Values : FiledUnder(r, f, v)}
    <3>1. DOMAIN equal = TextFields \X Values
      BY <2>1 DEF FiledSets
    <3>2. \A v \in Values : r \in equal[<<f, v>>] <=> FiledUnder(r, f, v)
      <4> SUFFICES ASSUME NEW v \in Values PROVE r \in equal[<<f, v>>] <=> FiledUnder(r, f, v)
        OBVIOUS
      <4>1. <<f, v>> \in DOMAIN equal
        BY <3>1
      <4>2. r \in equal[<<f, v>>] <=> FiledUnder(r, <<f, v>>[1], <<f, v>>[2])
        BY <4>1 DEF FiledAsRecorded
      <4> QED
        BY <4>2
    <3> QED
      BY <3>2
  <2>5. equalFields[f] = Count(equal, f)
    BY DEF FiledAsRecorded, Count
  <2>6. FieldsWithout(r)[f] = equalFields[f] - Cardinality({v \in Values : FiledUnder(r, f, v)})
    BY DEF FieldsWithout
  <2>7. /\ Count(equal, f) \in Nat /\ Count(EqualWithout(r), f) \in Nat
        /\ Cardinality({v \in Values : r \in equal[<<f, v>>]}) \in Nat
        /\ Count(equal, f) =
             Count(EqualWithout(r), f) + Cardinality({v \in Values : r \in equal[<<f, v>>]})
    BY <2>1, <2>3, CountOf
  <2> DEFINE taken == Cardinality({v \in Values : FiledUnder(r, f, v)})
  <2>8. /\ taken \in Nat /\ Count(equal, f) = Count(EqualWithout(r), f) + taken
        /\ FieldsWithout(r)[f] = Count(equal, f) - taken
    BY <2>4, <2>5, <2>6, <2>7
  <2> HIDE DEF taken
  <2> QED
    BY <2>7, <2>8
<1>2. FieldsWithout(r) = [f \in TextFields |-> FieldsWithout(r)[f]]
  BY DEF FieldsWithout
<1>3. \A f \in TextFields : FieldsWithout(r)[f] \in Int
  BY <1>1
<1>4. FieldsWithout(r) \in [TextFields -> Int]
  BY <1>2, <1>3
<1> QED
  BY <1>1, <1>4

(* A range holds each of its pairs once, in order unless it is being       *)
(* constructed.                                                            *)
Arranged(s) == Len(s) = Cardinality(ToSet(s)) /\ (bulk \/ InOrder(s))

(* The rule's pair, and no other, is taken out of its range. *)
LEMMA RangesTaken ==
  ASSUME IndexTypes, FiledAsRecorded, NEW r \in RuleIds, bulk => filings[r] = None
  PROVE  /\ RangesWithout(r) \in [NumberFields \X BOOLEAN -> Seq(Pairs)]
         /\ \A k \in NumberFields \X BOOLEAN :
              /\ ToSet(RangesWithout(r)[k]) =
                   {PairOf(q) : q \in {x \in RuleIds \ {r} : FiledAt(x, k)}}
              /\ Arranged(RangesWithout(r)[k])
<1>1. DOMAIN ranges = NumberFields \X BOOLEAN
  BY DEF IndexTypes
<1>2. ASSUME NEW k \in NumberFields \X BOOLEAN
      PROVE  /\ RangesWithout(r)[k] \in Seq(Pairs)
             /\ ToSet(RangesWithout(r)[k]) =
                  {PairOf(q) : q \in {x \in RuleIds \ {r} : FiledAt(x, k)}}
             /\ Arranged(RangesWithout(r)[k])
  <2> DEFINE s == ranges[k]
             t == RangesWithout(r)[k]
  <2>1. /\ s \in Seq(Pairs)
        /\ ToSet(s) = {PairOf(q) : q \in {x \in RuleIds : FiledAt(x, k)}}
        /\ Len(s) = Cardinality(ToSet(s)) /\ (bulk \/ InOrder(s))
    BY <1>1 DEF IndexTypes, FiledAsRecorded
  <2>2. t = IF FiledAt(r, k) THEN RemovePair(s, PairOf(r)) ELSE s
    BY <1>1 DEF RangesWithout
  <2> HIDE DEF s, t
  <2>3. CASE FiledAt(r, k)
    <3>1. InOrder(s)
      BY <2>1, <2>3 DEF FiledAt, IsFiled
    <3>2. PairOf(r) \in ToSet(s)
      BY <2>1, <2>3
    <3>3. /\ t \in Seq(Pairs) /\ InOrder(t)
          /\ ToSet(t) = ToSet(s) \ {PairOf(r)} /\ Len(t) = Len(s) - 1
      BY <2>1, <2>2, <2>3, <3>1, <3>2, RemoveInOrder
    <3>4. Cardinality(ToSet(t)) = Len(t)
      <4>1. IsFiniteSet(ToSet(s))
        BY <2>1, OnceEach
      <4>2. Cardinality(ToSet(s) \ {PairOf(r)}) = Cardinality(ToSet(s)) - 1
        BY <3>2, <4>1, FS_RemoveElement
      <4> QED
        BY <2>1, <3>3, <4>2
    <3>5. \A q \in RuleIds : PairOf(q) = PairOf(r) => q = r
      BY DEF PairOf
    <3>6. ToSet(t) = {PairOf(q) : q \in {x \in RuleIds \ {r} : FiledAt(x, k)}}
      BY <2>1, <3>3, <3>5
    <3> QED
      BY <3>3, <3>4, <3>6 DEF Arranged, t
  <2>4. CASE ~FiledAt(r, k)
    <3>1. t = s
      BY <2>2, <2>4
    <3>2. {x \in RuleIds : FiledAt(x, k)} = {x \in RuleIds \ {r} : FiledAt(x, k)}
      BY <2>4
    <3> QED
      BY <2>1, <3>1, <3>2 DEF Arranged, t
  <2> QED
    BY <2>3, <2>4
<1>3. RangesWithout(r) = [k \in NumberFields \X BOOLEAN |-> RangesWithout(r)[k]]
  BY <1>1 DEF RangesWithout
<1>4. RangesWithout(r) \in [NumberFields \X BOOLEAN -> Seq(Pairs)]
  BY <1>2, <1>3
<1> QED
  BY <1>2, <1>4

(* A pair added to a range is there once, with all the others. *)
LEMMA PairAdded ==
  ASSUME NEW s \in Seq(Pairs), Arranged(s), NEW p \in Pairs, p \notin ToSet(s)
  PROVE  /\ AddPair(s, p) \in Seq(Pairs)
         /\ ToSet(AddPair(s, p)) = ToSet(s) \cup {p}
         /\ Arranged(AddPair(s, p))
<1> DEFINE t == AddPair(s, p)
<1>1. /\ t \in Seq(Pairs) /\ ToSet(t) = ToSet(s) \cup {p} /\ Len(t) = Len(s) + 1
      /\ bulk \/ InOrder(t)
  <2>1. CASE bulk
    <3>1. t = Append(s, p)
      BY <2>1 DEF AddPair
    <3> QED
      BY <2>1, <3>1, AppendHas
  <2>2. CASE ~bulk
    <3>1. t = InsertAt(s, Bisect(s, {q \in ToSet(s) : ~PairLess(p, q)}) + 1, p)
      BY <2>2 DEF AddPair
    <3>2. InOrder(s)
      BY <2>2 DEF Arranged
    <3> HIDE DEF t
    <3> QED
      BY <3>1, <3>2, InsertInOrder
  <2> QED
    BY <2>1, <2>2
<1> HIDE DEF t
<1>2. Len(t) = Cardinality(ToSet(t))
  <2>1. IsFiniteSet(ToSet(s))
    BY OnceEach
  <2>2. Cardinality(ToSet(s) \cup {p}) = Cardinality(ToSet(s)) + 1
    BY <2>1, FS_AddElement
  <2> QED
    BY <1>1, <2>2 DEF Arranged
<1> QED
  BY <1>1, <1>2 DEF Arranged, t

------------------------------------------------------------------------------
(* Each step leaves what is filed as recorded. *)

(* A rule refused or discarded is nowhere, and the others where they were. *)
LEMMA TakenOut ==
  ASSUME IndexInv, NEW r \in RuleIds, bulk => filings[r] = None,
         TakeOut(r), refused' \subseteq refused \cup {r}, bulk' = bulk
  PROVE  IndexInv'
<1>1. IndexTypes /\ FiledByTree /\ FiledAsRecorded
  BY DEF IndexInv
<1>2. /\ rules' \in [RuleIds -> Trees \cup {None}] /\ rules'[r] = None
      /\ filings' \in [RuleIds -> Filings \cup {None}] /\ filings'[r] = None
      /\ \A q \in RuleIds \ {r} : rules'[q] = rules[q] /\ filings'[q] = filings[q]
  BY <1>1 DEF IndexTypes, TakeOut
<1>3. IndexTypes'
  BY <1>1, <1>2, EqualTaken, FieldsTaken, RangesTaken DEF IndexTypes, TakeOut
<1>4. FiledByTree'
  BY <1>1, <1>2 DEF FiledByTree
<1>5. ASSUME NEW q \in RuleIds
      PROVE  /\ filings'[q] # None <=> rules'[q] # None
             /\ q \in refused' => filings'[q] = None
             /\ q \in readers' <=> rules'[q] # None /\ ReadsTransfers(rules'[q])
             /\ q \in everywhere' <=> IsFiled(q, "everywhere")'
             /\ \A k \in TextFields \X Values : q \in equal'[k] <=> FiledUnder(q, k[1], k[2])'
  <2>1. equal' = EqualWithout(r) /\ readers' = readers \ {r} /\ everywhere' = everywhere \ {r}
    BY DEF TakeOut
  <2>2. DOMAIN equal = TextFields \X Values
    BY <1>1 DEF IndexTypes, FiledSets
  <2>3. CASE q = r
    BY <1>1, <1>2, <2>1, <2>3, EqualTaken DEF IsFiled, FiledUnder
  <2>4. CASE q # r
    <3>1. /\ rules'[q] = rules[q] /\ filings'[q] = filings[q]
          /\ q \in refused' => q \in refused
      BY <1>2, <2>4
    <3>2. \A k \in TextFields \X Values : q \in equal'[k] <=> q \in equal[k]
      BY <1>1, <2>1, <2>4, EqualTaken
    <3>3. /\ IsFiled(q, "everywhere")' <=> IsFiled(q, "everywhere")
          /\ \A k : FiledUnder(q, k[1], k[2])' <=> FiledUnder(q, k[1], k[2])
      BY <3>1 DEF IsFiled, FiledUnder
    <3> QED
      BY <1>1, <2>1, <2>2, <2>4, <3>1, <3>2, <3>3 DEF FiledAsRecorded
  <2> QED
    BY <2>3, <2>4
<1>6. ASSUME NEW k \in NumberFields \X BOOLEAN
      PROVE  /\ ToSet(ranges'[k]) = {PairOf(q)' : q \in {x \in RuleIds : FiledAt(x, k)'}}
             /\ Len(ranges'[k]) = Cardinality(ToSet(ranges'[k]))
             /\ bulk' \/ InOrder(ranges'[k])
  <2>1. ranges'[k] = RangesWithout(r)[k]
    BY DEF TakeOut
  <2>2. \A q \in RuleIds : FiledAt(q, k)' <=> q # r /\ FiledAt(q, k)
    BY <1>2 DEF FiledAt, IsFiled
  <2>3. \A q \in RuleIds \ {r} : PairOf(q)' = PairOf(q)
    BY <1>2 DEF PairOf
  <2>4. {PairOf(q)' : q \in {x \in RuleIds : FiledAt(x, k)'}} =
          {PairOf(q) : q \in {x \in RuleIds \ {r} : FiledAt(x, k)}}
    BY <2>2, <2>3
  <2> QED
    BY <1>1, <2>1, <2>4, RangesTaken DEF Arranged
<1>7. ASSUME NEW f \in TextFields
      PROVE  equalFields'[f] = Cardinality(UNION {{v} \X equal'[<<f, v>>] : v \in Values})
  <2>1. equalFields' = FieldsWithout(r) /\ equal' = EqualWithout(r)
    BY DEF TakeOut
  <2>2. FieldsWithout(r)[f] = Count(EqualWithout(r), f)
    BY <1>1, FieldsTaken
  <2> QED
    BY <2>1, <2>2 DEF Count
<1>8. DOMAIN equal' = TextFields \X Values /\ DOMAIN ranges' = NumberFields \X BOOLEAN
  BY <1>3 DEF IndexTypes, FiledSets
<1>9. FiledAsRecorded'
  BY <1>5, <1>6, <1>7, <1>8 DEF FiledAsRecorded
<1> QED
  BY <1>3, <1>4, <1>9 DEF IndexInv

(* A rule put is where its new filing says, and the others where they      *)
(* were.                                                                   *)
LEMMA Filed ==
  ASSUME IndexInv, NEW r \in RuleIds, NEW t \in Trees, bulk => filings[r] = None,
         PutJudged(r, t), bulk' = bulk
  PROVE  IndexInv'
<1> DEFINE before == EqualWithout(r)
           filing == FilingOf(t, before)
           named(f) == {v \in Values : Under(filing, f, v)}
<1>1. IndexTypes /\ FiledByTree /\ FiledAsRecorded
  BY DEF IndexInv
<1>2. before \in FiledSets /\ \A k \in TextFields \X Values : before[k] = equal[k] \ {r}
  BY <1>1, EqualTaken
<1>3. filing \in Filings
  BY <1>2, FilingTyped
<1>4. /\ refused' = refused \ {r}
      /\ rules' = [rules EXCEPT ![r] = t]
      /\ filings' = [filings EXCEPT ![r] = filing]
      /\ readers' = IF ReadsTransfers(t) THEN readers \cup {r} ELSE readers \ {r}
      /\ everywhere' = IF filing.kind = "everywhere" THEN everywhere \cup {r} ELSE everywhere \ {r}
      /\ equal' = [k \in DOMAIN equal |-> before[k] \cup {x \in {r} : Under(filing, k[1], k[2])}]
      /\ equalFields' = [f \in TextFields |-> FieldsWithout(r)[f] + Cardinality(named(f))]
      /\ ranges' = [k \in DOMAIN ranges |->
           IF At(filing, k) THEN AddPair(RangesWithout(r)[k], <<filing.range.threshold, r>>)
           ELSE RangesWithout(r)[k]]
  BY DEF PutJudged, Under, At
<1> HIDE DEF before, filing, named
<1>5. /\ rules' \in [RuleIds -> Trees \cup {None}] /\ rules'[r] = t /\ t # None
      /\ filings' \in [RuleIds -> Filings \cup {None}] /\ filings'[r] = filing /\ filing # None
      /\ \A q \in RuleIds \ {r} : rules'[q] = rules[q] /\ filings'[q] = filings[q]
  BY <1>1, <1>3, <1>4, TreesAssumption, NoFilingAssumption DEF IndexTypes
<1>6. /\ DOMAIN equal = TextFields \X Values
      /\ DOMAIN ranges = NumberFields \X BOOLEAN
  BY <1>1 DEF IndexTypes, FiledSets
<1>7. ASSUME NEW k \in TextFields \X Values
      PROVE  /\ equal'[k] \in SUBSET RuleIds
             /\ \A q \in RuleIds \ {r} : q \in equal'[k] <=> q \in equal[k]
             /\ r \in equal'[k] <=> Under(filing, k[1], k[2])
             /\ before[k] = equal'[k] \ {r}
  <2>1. equal'[k] = (equal[k] \ {r}) \cup {x \in {r} : Under(filing, k[1], k[2])}
    BY <1>2, <1>4, <1>6
  <2>2. equal[k] \in SUBSET RuleIds
    BY <1>1 DEF IndexTypes, FiledSets
  <2> QED
    BY <1>2, <2>1, <2>2
<1>8. equal' \in FiledSets
  <2>1. equal' = [k \in TextFields \X Values |-> equal'[k]]
    BY <1>4, <1>6
  <2> QED
    BY <1>7, <2>1 DEF FiledSets
<1>9. ASSUME NEW f \in TextFields
      PROVE  equalFields'[f] = Count(equal', f) /\ Count(equal', f) \in Int
  <2> DEFINE new == {v \in Values : r \in equal'[<<f, v>>]}
  <2>1. \A v \in Values : /\ before[<<f, v>>] = equal'[<<f, v>>] \ {r}
                          /\ r \in equal'[<<f, v>>] <=> Under(filing, f, v)
    <3> SUFFICES ASSUME NEW v \in Values
                 PROVE  /\ before[<<f, v>>] = equal'[<<f, v>>] \ {r}
                        /\ r \in equal'[<<f, v>>] <=> Under(filing, f, v)
      OBVIOUS
    <3>1. <<f, v>> \in TextFields \X Values /\ <<f, v>>[1] = f /\ <<f, v>>[2] = v
      OBVIOUS
    <3> QED
      BY <1>7, <3>1
  <2>2. named(f) = new
    BY <2>1 DEF named
  <2>3. /\ Count(equal', f) \in Nat /\ Count(before, f) \in Nat /\ Cardinality(new) \in Nat
        /\ Count(equal', f) = Count(before, f) + Cardinality(new)
    BY <1>2, <1>8, <2>1, CountOf
  <2>4. FieldsWithout(r)[f] = Count(before, f)
    BY <1>1, FieldsTaken DEF before
  <2>5. equalFields'[f] = FieldsWithout(r)[f] + Cardinality(named(f))
    BY <1>4
  <2> HIDE DEF new
  <2> QED
    BY <2>2, <2>3, <2>4, <2>5
<1>10. ASSUME NEW k \in NumberFields \X BOOLEAN
       PROVE  /\ ranges'[k] \in Seq(Pairs)
              /\ ToSet(ranges'[k]) = {PairOf(q)' : q \in {x \in RuleIds : FiledAt(x, k)'}}
              /\ Arranged(ranges'[k])
  <2> DEFINE s == RangesWithout(r)[k]
  <2>1. /\ s \in Seq(Pairs)
        /\ ToSet(s) = {PairOf(q) : q \in {x \in RuleIds \ {r} : FiledAt(x, k)}}
        /\ Arranged(s)
    BY <1>1, RangesTaken
  <2>2. \A q \in RuleIds \ {r} : (FiledAt(q, k)' <=> FiledAt(q, k)) /\ PairOf(q)' = PairOf(q)
    BY <1>5 DEF FiledAt, IsFiled, PairOf
  <2>3. FiledAt(r, k)' <=> At(filing, k)
    BY <1>5 DEF FiledAt, IsFiled, At
  <2>4. PairOf(r)' = <<filing.range.threshold, r>>
    BY <1>5 DEF PairOf
  <2>5. ranges'[k] = IF At(filing, k) THEN AddPair(s, <<filing.range.threshold, r>>) ELSE s
    BY <1>4, <1>6
  <2> HIDE DEF s
  <2>6. CASE At(filing, k)
    <3> DEFINE p == <<filing.range.threshold, r>>
    <3>1. p \in Pairs
      BY <1>3, <2>6, FilesAt DEF Pairs
    <3>2. p \notin ToSet(s)
      BY <2>1 DEF PairOf
    <3>3. /\ ranges'[k] \in Seq(Pairs) /\ ToSet(ranges'[k]) = ToSet(s) \cup {p}
          /\ Arranged(ranges'[k])
      <4>1. ranges'[k] = AddPair(s, p)
        BY <2>5, <2>6
      <4> HIDE DEF p
      <4> QED
        BY <2>1, <3>1, <3>2, <4>1, PairAdded
    <3>4. {x \in RuleIds : FiledAt(x, k)'} = {x \in RuleIds \ {r} : FiledAt(x, k)} \cup {r}
      BY <2>2, <2>3, <2>6
    <3>5. ToSet(s) \cup {p} = {PairOf(q)' : q \in {x \in RuleIds : FiledAt(x, k)'}}
      <4> DEFINE others == {x \in RuleIds \ {r} : FiledAt(x, k)}
      <4>1. \A q \in others : PairOf(q)' = PairOf(q)
        BY <2>2
      <4>2. {x \in RuleIds : FiledAt(x, k)'} = others \cup {r} /\ ToSet(s) = {PairOf(q) : q \in others}
        BY <2>1, <3>4
      <4> HIDE DEF others
      <4> QED
        BY <2>4, <4>1, <4>2
    <3> QED
      BY <3>3, <3>5
  <2>7. CASE ~At(filing, k)
    <3>1. {x \in RuleIds : FiledAt(x, k)'} = {x \in RuleIds \ {r} : FiledAt(x, k)}
      BY <2>2, <2>3, <2>7
    <3>2. ToSet(s) = {PairOf(q)' : q \in {x \in RuleIds : FiledAt(x, k)'}}
      BY <2>1, <2>2, <3>1
    <3> QED
      BY <2>1, <2>5, <2>7, <3>2
  <2> QED
    BY <2>6, <2>7
<1>11. IndexTypes'
  <2>1. ranges' \in [NumberFields \X BOOLEAN -> Seq(Pairs)]
    <3>1. ranges' = [k \in NumberFields \X BOOLEAN |-> ranges'[k]]
      BY <1>4, <1>6
    <3> QED
      BY <1>10, <3>1
  <2>2. equalFields' \in [TextFields -> Int]
    <3>1. equalFields' = [f \in TextFields |-> equalFields'[f]]
      BY <1>4
    <3>2. \A f \in TextFields : equalFields'[f] \in Int
      BY <1>9
    <3> QED
      BY <3>1, <3>2
  <2> QED
    BY <1>1, <1>4, <1>5, <1>8, <2>1, <2>2 DEF IndexTypes
<1>12. FiledByTree'
  <2> SUFFICES ASSUME NEW q \in RuleIds, rules'[q] # None
               PROVE  /\ CanJudge(rules'[q])
                      /\ \E u \in FiledSets : filings'[q] = FilingOf(rules'[q], u)
    BY DEF FiledByTree
  <2>1. CASE q = r
    BY <1>2, <1>5, <2>1 DEF filing, PutJudged
  <2>2. CASE q # r
    BY <1>1, <1>5, <2>2 DEF FiledByTree
  <2> QED
    BY <2>1, <2>2
<1>13. ASSUME NEW q \in RuleIds
       PROVE  /\ filings'[q] # None <=> rules'[q] # None
              /\ q \in refused' => filings'[q] = None
              /\ q \in readers' <=> rules'[q] # None /\ ReadsTransfers(rules'[q])
              /\ q \in everywhere' <=> IsFiled(q, "everywhere")'
              /\ \A k \in TextFields \X Values : q \in equal'[k] <=> FiledUnder(q, k[1], k[2])'
  <2>1. CASE q = r
    <3>1. /\ IsFiled(r, "everywhere")' <=> filing.kind = "everywhere"
          /\ \A k : FiledUnder(r, k[1], k[2])' <=> Under(filing, k[1], k[2])
      BY <1>5 DEF IsFiled, FiledUnder, Under
    <3> QED
      BY <1>4, <1>5, <1>7, <2>1, <3>1
  <2>2. CASE q # r
    <3>1. rules'[q] = rules[q] /\ filings'[q] = filings[q]
      BY <1>5, <2>2
    <3>2. /\ IsFiled(q, "everywhere")' <=> IsFiled(q, "everywhere")
          /\ \A k : FiledUnder(q, k[1], k[2])' <=> FiledUnder(q, k[1], k[2])
      BY <3>1 DEF IsFiled, FiledUnder
    <3>3. /\ q \in refused' <=> q \in refused
          /\ q \in readers' <=> q \in readers
          /\ q \in everywhere' <=> q \in everywhere
      BY <1>4, <2>2
    <3>4. \A k \in TextFields \X Values : q \in equal'[k] <=> q \in equal[k]
      BY <1>7, <2>2
    <3> QED
      BY <1>1, <1>6, <3>1, <3>2, <3>3, <3>4 DEF FiledAsRecorded
  <2> QED
    BY <2>1, <2>2
<1>14. DOMAIN equal' = TextFields \X Values /\ DOMAIN ranges' = NumberFields \X BOOLEAN
  BY <1>4, <1>6
<1>15. FiledAsRecorded'
  <2>1. \A k \in NumberFields \X BOOLEAN :
          /\ ToSet(ranges'[k]) = {PairOf(q)' : q \in {x \in RuleIds : FiledAt(x, k)'}}
          /\ Len(ranges'[k]) = Cardinality(ToSet(ranges'[k]))
          /\ bulk' \/ InOrder(ranges'[k])
    BY <1>10 DEF Arranged
  <2>2. \A f \in TextFields :
          equalFields'[f] = Cardinality(UNION {{v} \X equal'[<<f, v>>] : v \in Values})
    BY <1>9 DEF Count
  <2> QED
    BY <1>13, <1>14, <2>1, <2>2 DEF FiledAsRecorded
<1> QED
  BY <1>11, <1>12, <1>15 DEF IndexInv

(* The constructor's sort leaves each range in order. *)
LEMMA SortedWhenConstructed ==
  ASSUME IndexInv, Constructed
  PROVE  IndexInv'
<1>1. IndexTypes /\ FiledByTree /\ FiledAsRecorded
  BY DEF IndexInv
<1>2. DOMAIN ranges = NumberFields \X BOOLEAN /\ DOMAIN ranges' = DOMAIN ranges
  BY <1>1 DEF IndexTypes, Constructed
<1>3. ASSUME NEW k \in NumberFields \X BOOLEAN
      PROVE  /\ ranges'[k] \in Seq(Pairs) /\ InOrder(ranges'[k])
             /\ ToSet(ranges'[k]) = ToSet(ranges[k])
             /\ Len(ranges'[k]) = Cardinality(ToSet(ranges'[k]))
  <2>1. ranges[k] \in Seq(Pairs) /\ Len(ranges[k]) = Cardinality(ToSet(ranges[k]))
    BY <1>1, <1>2 DEF IndexTypes, FiledAsRecorded
  <2>2. ranges'[k] = Sorted(ranges[k])
    BY <1>2 DEF Constructed
  <2> QED
    BY <2>1, <2>2, SortedIs
<1>4. IndexTypes'
  <2>1. ranges' = [k \in NumberFields \X BOOLEAN |-> ranges'[k]]
    BY <1>2 DEF Constructed
  <2>2. ranges' \in [NumberFields \X BOOLEAN -> Seq(Pairs)]
    BY <1>3, <2>1
  <2> QED
    BY <1>1, <2>2 DEF IndexTypes, Constructed
<1>5. FiledByTree'
  BY <1>1 DEF FiledByTree, Constructed
<1>6. FiledAsRecorded'
  <2>1. UNCHANGED <<rules, refused, filings, readers, everywhere, equal, equalFields>>
    BY DEF Constructed
  <2>2. ASSUME NEW k \in NumberFields \X BOOLEAN
        PROVE  /\ ToSet(ranges'[k]) = {PairOf(q)' : q \in {x \in RuleIds : FiledAt(x, k)'}}
               /\ Len(ranges'[k]) = Cardinality(ToSet(ranges'[k]))
               /\ bulk' \/ InOrder(ranges'[k])
    <3>1. ToSet(ranges[k]) = {PairOf(q) : q \in {x \in RuleIds : FiledAt(x, k)}}
      BY <1>1, <1>2 DEF FiledAsRecorded
    <3>2. \A q \in RuleIds : (FiledAt(q, k)' <=> FiledAt(q, k)) /\ PairOf(q)' = PairOf(q)
      BY <2>1 DEF FiledAt, IsFiled, PairOf
    <3>3. {PairOf(q)' : q \in {x \in RuleIds : FiledAt(x, k)'}} =
            {PairOf(q) : q \in {x \in RuleIds : FiledAt(x, k)}}
      BY <3>2
    <3> QED
      BY <1>3, <3>1, <3>3
  <2> QED
    BY <1>1, <1>2, <2>1, <2>2 DEF FiledAsRecorded, IsFiled, FiledUnder
<1> QED
  BY <1>4, <1>5, <1>6 DEF IndexInv

------------------------------------------------------------------------------
(* Whatever is put and discarded, what is filed is as recorded. *)
LEMMA IndexInvAlways == Spec => []IndexInv
<1>1. Init => IndexInv
  <2> SUFFICES ASSUME Init PROVE IndexInv
    OBVIOUS
  <2>1. /\ rules = [r \in RuleIds |-> None] /\ refused = {}
        /\ filings = [r \in RuleIds |-> None] /\ readers = {} /\ everywhere = {}
        /\ equal = [k \in TextFields \X Values |-> {}]
        /\ equalFields = [f \in TextFields |-> 0]
        /\ ranges = [k \in NumberFields \X BOOLEAN |-> <<>>] /\ bulk = TRUE
    BY DEF Init, Empty
  <2>2. <<>> \in Seq(Pairs) /\ Len(<<>>) = 0 /\ ToSet(<<>>) = {}
    BY DEF ToSet
  <2>3. Cardinality({}) = 0
    BY FS_EmptySet
  <2>4. IndexTypes /\ FiledByTree
    BY <2>1, <2>2 DEF IndexTypes, FiledByTree, FiledSets
  <2>5. \A r \in RuleIds :
          /\ filings[r] # None <=> rules[r] # None
          /\ r \in refused => filings[r] = None
          /\ r \in readers <=> rules[r] # None /\ ReadsTransfers(rules[r])
          /\ r \in everywhere <=> IsFiled(r, "everywhere")
          /\ \A k \in DOMAIN equal : r \in equal[k] <=> FiledUnder(r, k[1], k[2])
    BY <2>1 DEF IsFiled, FiledUnder
  <2>6. \A k \in DOMAIN ranges :
          /\ ToSet(ranges[k]) = {PairOf(r) : r \in {q \in RuleIds : FiledAt(q, k)}}
          /\ Len(ranges[k]) = Cardinality(ToSet(ranges[k]))
          /\ bulk \/ InOrder(ranges[k])
    <3> SUFFICES ASSUME NEW k \in NumberFields \X BOOLEAN
                 PROVE  /\ ToSet(<<>>) = {PairOf(r) : r \in {q \in RuleIds : FiledAt(q, k)}}
                        /\ Len(<<>>) = Cardinality(ToSet(<<>>))
      BY <2>1
    <3>1. {q \in RuleIds : FiledAt(q, k)} = {}
      BY <2>1 DEF FiledAt, IsFiled
    <3> QED
      BY <2>2, <2>3, <3>1
  <2>7. \A f \in TextFields :
          equalFields[f] = Cardinality(UNION {{v} \X equal[<<f, v>>] : v \in Values})
    <3> SUFFICES ASSUME NEW f \in TextFields
                 PROVE  0 = Cardinality(UNION {{v} \X equal[<<f, v>>] : v \in Values})
      BY <2>1
    <3>1. \A v \in Values : {v} \X equal[<<f, v>>] = {}
      BY <2>1
    <3>2. UNION {{v} \X equal[<<f, v>>] : v \in Values} = {}
      BY <3>1
    <3> QED
      BY <2>3, <3>2
  <2>8. FiledAsRecorded
    BY <2>5, <2>6, <2>7 DEF FiledAsRecorded
  <2> QED
    BY <2>4, <2>8 DEF IndexInv
<1>2. IndexInv /\ [Next]_vars => IndexInv'
  <2> SUFFICES ASSUME IndexInv, [Next]_vars PROVE IndexInv'
    OBVIOUS
  <2>1. CASE UNCHANGED vars
    BY <2>1 DEF IndexInv, IndexTypes, FiledByTree, FiledAsRecorded, IsFiled, FiledUnder,
                FiledAt, PairOf, vars, filed
  <2>2. ASSUME NEW r \in RuleIds, NEW t \in RuleTrees, Put(r, t) PROVE IndexInv'
    <3>1. bulk' = bulk /\ (bulk => filings[r] = None)
      BY <2>2 DEF Put
    <3>2. CASE PutRefused(r, t)
      BY <3>1, <3>2, TakenOut DEF PutRefused
    <3>3. CASE PutJudged(r, t)
      <4>1. t \in Trees
        BY <3>3, RuleTreesAssumption DEF PutJudged, CanJudge
      <4> QED
        BY <3>1, <3>3, <4>1, Filed
    <3> QED
      BY <2>2, <3>2, <3>3 DEF Put
  <2>3. ASSUME NEW r \in RuleIds, Discard(r) PROVE IndexInv'
    <3>1. ~bulk /\ TakeOut(r) /\ bulk' = bulk /\ refused' \subseteq refused \cup {r}
      BY <2>3 DEF Discard
    <3> QED
      BY <3>1, TakenOut
  <2>4. CASE Constructed
    BY <2>4, SortedWhenConstructed
  <2> QED
    BY <2>1, <2>2, <2>3, <2>4 DEF Next
<1> QED
  BY <1>1, <1>2, PTL DEF Spec

(* After any puts and discards a rule is filed where its own filing says   *)
(* and nowhere else, each range is in order, and the counts by which a     *)
(* field is looked up at all are of what is filed under it (RuleIndex.put, *)
(* discard, _file, _unfile, the constructor's sort).                       *)
THEOREM IndexFiledAsRecorded == Spec => []FiledAsRecorded
BY IndexInvAlways, PTL DEF IndexInv

------------------------------------------------------------------------------
(* Trying the rules. *)

(* What a binding reads of a text field is a text, and of a number field a *)
(* number.                                                                 *)
Typed(bound) ==
  /\ \A f \in TextFields : bound[f] # None => bound[f] \in DOMAIN FiledAs
  /\ \A f \in NumberFields : bound[f] # None => bound[f] \in Int

(* A rule that holds of a binding is tried against it. *)
LEMMA CandidateWhenHolds ==
  ASSUME IndexInv, ~bulk, NEW r \in RuleIds, rules[r] # None, NEW bound, Typed(bound),
         Holds(rules[r], bound)
  PROVE  r \in Candidates(bound)
<1> DEFINE t == rules[r]
<1>1. IndexTypes /\ FiledByTree /\ FiledAsRecorded
  BY DEF IndexInv
<1>2. t \in Trees /\ filings[r] # None
  BY <1>1 DEF IndexTypes, FiledAsRecorded
<1>3. PICK u \in FiledSets : filings[r] = FilingOf(t, u)
  BY <1>1 DEF FiledByTree
<1> HIDE DEF t
<1>4. Holds(t, bound)
  BY DEF t
<1>5. CASE filings[r] = [kind |-> "equal", keys |-> Key(t, u)] /\ Key(t, u) \in Keys /\ Key(t, u) # None
  <2>1. PICK f \in DOMAIN Key(t, u) : bound[f] # None /\ FiledAs[bound[f]] \in Key(t, u)[f]
    BY <1>2, <1>4, <1>5, KeySound DEF Shows
  <2> DEFINE v == FiledAs[bound[f]]
  <2>2. f \in TextFields /\ v \in Values
    BY <1>5, <2>1, KeysAre
  <2>3. FiledUnder(r, f, v)
    BY <1>2, <1>5, <2>1 DEF FiledUnder, IsFiled
  <2> HIDE DEF v
  <2>4. r \in equal[<<f, v>>]
    <3>1. <<f, v>> \in DOMAIN equal
      BY <1>1, <2>2 DEF IndexTypes, FiledSets
    <3>2. r \in equal[<<f, v>>] <=> FiledUnder(r, <<f, v>>[1], <<f, v>>[2])
      BY <1>1, <3>1 DEF FiledAsRecorded
    <3> QED
      BY <2>3, <3>2
  <2>5. equalFields[f] > 0
    <3> DEFINE new == {w \in Values : r \in equal[<<f, w>>]}
               without == [k \in TextFields \X Values |-> equal[k] \ {r}]
    <3>1. without \in FiledSets /\ equal \in FiledSets
      BY <1>1 DEF IndexTypes, FiledSets
    <3>2. \A w \in Values : without[<<f, w>>] = equal[<<f, w>>] \ {r}
      BY <2>2
    <3>3. v \in new /\ new \subseteq Values
      BY <2>2, <2>4
    <3> HIDE DEF without
    <3>4. /\ Count(equal, f) \in Nat /\ Count(without, f) \in Nat /\ Cardinality(new) \in Nat
          /\ Count(equal, f) = Count(without, f) + Cardinality(new)
      BY <2>2, <3>1, <3>2, CountOf
    <3> HIDE DEF new
    <3>5. Cardinality(new) # 0
      <4>1. IsFiniteSet(new)
        BY <3>3, ValuesFinite, FS_Subset
      <4> QED
        BY <3>3, <4>1, FS_EmptySet
    <3>6. equalFields[f] = Count(equal, f)
      BY <1>1, <2>2 DEF FiledAsRecorded, Count
    <3> QED
      BY <3>4, <3>5, <3>6
  <2>6. f \in {g \in TextFields : equalFields[g] > 0 /\ bound[g] # None}
    BY <2>1, <2>2, <2>5
  <2> QED
    BY <2>4, <2>6 DEF Candidates, v
<1>6. CASE filings[r] = [kind |-> "range", range |-> RangeKey(t)] /\ RangeKey(t) \in RangeKeys /\ RangeKey(t) # None
  <2> DEFINE range == RangeKey(t)
             k == <<range.field, range.lower>>
             v == bound[range.field]
             p == PairOf(r)
  <2>1. range.field \in NumberFields /\ range.lower \in BOOLEAN /\ range.threshold \in Int
    BY <1>6 DEF RangeKeys
  <2>2. PastThreshold(range, bound)
    BY <1>2, <1>4, <1>6, RangeSound DEF Typed
  <2>3. v # None /\ v \in Int
    BY <2>1, <2>2 DEF PastThreshold, Typed
  <2>4. k \in DOMAIN ranges /\ ranges[k] \in Seq(Pairs)
    BY <1>1, <2>1 DEF IndexTypes
  <2>5. filings[r].range = range /\ FiledAt(r, k)
    BY <1>2, <1>6 DEF FiledAt, IsFiled
  <2>6. p \in ToSet(ranges[k]) /\ InOrder(ranges[k])
    BY <1>1, <2>4, <2>5 DEF FiledAsRecorded
  <2>7. p[1] = range.threshold /\ p[2] = r
    BY <2>5 DEF PairOf
  <2>8. IF range.lower THEN p[1] <= v ELSE v <= p[1]
    BY <2>2, <2>7 DEF PastThreshold
  <2> HIDE DEF p, v
  <2>9. p[2] \in Past(ranges[k], v, range.lower)
    BY <2>1, <2>3, <2>4, <2>6, <2>8, PastHas
  <2>10. k[1] = range.field /\ k[2] = range.lower
    OBVIOUS
  <2> HIDE DEF k, range
  <2>11. v = bound[k[1]]
    BY <2>10 DEF v
  <2>12. r \in Past(ranges[k], bound[k[1]], k[2])
    BY <2>7, <2>9, <2>10, <2>11
  <2> DEFINE read == {l \in DOMAIN ranges : bound[l[1]] # None}
             past == {Past(ranges[l], bound[l[1]], l[2]) : l \in read}
  <2>13. k \in read
    BY <2>3, <2>4, <2>11
  <2>14. Past(ranges[k], bound[k[1]], k[2]) \in past
    <3> HIDE DEF read
    <3> QED
      BY <2>13, Zenon
  <2>15. UNION past \subseteq Candidates(bound)
    BY DEF Candidates
  <2> HIDE DEF past
  <2> QED
    BY <2>12, <2>14, <2>15
<1>7. CASE filings[r] = [kind |-> "everywhere"]
  <2>1. IsFiled(r, "everywhere")
    BY <1>2, <1>7 DEF IsFiled
  <2>2. r \in everywhere
    BY <1>1, <2>1 DEF FiledAsRecorded
  <2> QED
    BY <2>2 DEF Candidates
<1> QED
  BY <1>2, <1>3, <1>5, <1>6, <1>7, FilingIs

(* A transaction has a binding or more, each of what can be compared. *)
LEMMA BindingsAre ==
  ASSUME NEW x \in Transactions, NEW read
  PROVE  /\ DOMAIN BindingsOf(x, read) \subseteq Nat \ {0}
         /\ DOMAIN BindingsOf(x, read) # {}
         /\ \A i \in DOMAIN BindingsOf(x, read) : Typed(Bound(x, BindingsOf(x, read)[i]))
<1>1. x.transfers \in Seq(ToSet(x.transfers))
  BY TransactionsAssumption
<1>2. CASE BindingsOf(x, read) = x.transfers /\ x.transfers # <<>>
  <2>1. /\ Len(x.transfers) \in Nat /\ DOMAIN x.transfers = 1 .. Len(x.transfers)
        /\ Len(x.transfers) # 0
        /\ \A i \in DOMAIN x.transfers : x.transfers[i] \in ToSet(x.transfers)
    BY <1>1, <1>2 DEF ToSet
  <2>2. \A i \in DOMAIN x.transfers : Typed(Bound(x, x.transfers[i]))
    BY <2>1, TransactionsAssumption DEF Typed
  <2>3. 1 \in DOMAIN x.transfers
    BY <2>1
  <2> QED
    BY <1>2, <2>1, <2>2, <2>3
<1>3. CASE BindingsOf(x, read) = <<Unbound>>
  <2>1. Typed(Bound(x, Unbound))
    BY TransactionsAssumption DEF Typed
  <2>2. DOMAIN <<Unbound>> = {1} /\ <<Unbound>>[1] = Unbound
    OBVIOUS
  <2> QED
    BY <1>3, <2>1, <2>2
<1> QED
  BY <1>2, <1>3 DEF BindingsOf

(* The first of some places is 0 only with none. *)
LEMMA FirstIsOne ==
  ASSUME NEW S \in SUBSET (Nat \ {0})
  PROVE  FirstOf(S) # 0 <=> S # {}
BY MinIsOne DEF FirstOf

(* The index tries a rule where it holds; where it compares no transfer,   *)
(* every binding is as good.                                               *)
LEMMA AsAlone ==
  ASSUME IndexInv
  PROVE  MatchesAsAlone
<1> SUFFICES ASSUME ~bulk, NEW r \in RuleIds, NEW x \in Transactions, rules[r] # None
             PROVE  /\ MatchedWith(r, x) # 0 <=> MatchedAlone(r, x) # 0
                    /\ ReadsTransfers(rules[r]) => MatchedWith(r, x) = MatchedAlone(r, x)
  BY DEF MatchesAsAlone
<1> DEFINE t == rules[r]
           with == BindingsOf(x, readers # {})
           alone == BindingsOf(x, ReadsTransfers(t))
           held(bindings) == {i \in DOMAIN bindings : Holds(t, Bound(x, bindings[i]))}
<1>1. IndexTypes /\ FiledByTree /\ FiledAsRecorded
  BY DEF IndexInv
<1>2. t \in Trees /\ Judged[t]
  BY <1>1 DEF IndexTypes, FiledByTree, CanJudge
<1>3. MatchedAlone(r, x) = FirstOf(held(alone))
  BY DEF MatchedAlone
<1>4. MatchedWith(r, x) = FirstOf(held(with))
  <2>1. \A i \in DOMAIN with :
          Holds(t, Bound(x, with[i])) => r \in Candidates(Bound(x, with[i]))
    BY BindingsAre, CandidateWhenHolds
  <2>2. held(with) = {i \in DOMAIN with :
          r \in Candidates(Bound(x, with[i])) /\ Holds(t, Bound(x, with[i]))}
    BY <2>1
  <2>3. MatchedWith(r, x) = FirstOf({i \in DOMAIN with :
          r \in Candidates(Bound(x, with[i])) /\ Holds(t, Bound(x, with[i]))})
    BY DEF MatchedWith
  <2> QED
    BY <2>2, <2>3
<1>5. CASE ReadsTransfers(t)
  <2>1. r \in readers
    BY <1>1, <1>5 DEF FiledAsRecorded
  <2>2. (readers # {}) = ReadsTransfers(t)
    BY <1>5, <2>1 DEF ReadsTransfers
  <2>3. with = alone
    BY <2>2
  <2> QED
    BY <1>3, <1>4, <2>3
<1>6. CASE ~ReadsTransfers(t)
  <2>1. ASSUME NEW a, NEW b PROVE Holds(t, Bound(x, a)) <=> Holds(t, Bound(x, b))
    <3>1. FieldsRead[t] \subseteq Fields \ TransferFields
      BY <1>2, <1>6, JudgedFields DEF ReadsTransfers
    <3>2. \A f \in FieldsRead[t] : Bound(x, a)[f] = Bound(x, b)[f]
      BY <3>1 DEF Bound
    <3> QED
      BY <1>2, <3>2, HoldsOfFieldsRead
  <2>2. /\ held(with) \in SUBSET (Nat \ {0})
        /\ held(alone) \in SUBSET (Nat \ {0})
        /\ DOMAIN with # {} /\ DOMAIN alone # {}
    BY BindingsAre
  <2> HIDE DEF t, with, alone
  <2>3. held(with) # {} <=> held(alone) # {}
    BY <2>1, <2>2
  <2> HIDE DEF held
  <2> QED
    BY <1>3, <1>4, <1>6, <2>2, <2>3, FirstIsOne DEF t
<1> QED
  BY <1>5, <1>6

(* The index matches a rule with the transactions it matches when it is    *)
(* tried alone against every one, and by the same transfer if it compares  *)
(* any, however the rule came to be filed and whatever was filed and       *)
(* undone around it (bindings_for_rules, bindings_in_block).               *)
THEOREM IndexMatchesAsAlone == Spec => []MatchesAsAlone
BY IndexInvAlways, AsAlone, PTL
=============================================================================
