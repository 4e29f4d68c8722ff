-------------------------- MODULE EnabledRulesProofs --------------------------
(***************************************************************************)
(* The index of the enabled rules, and what the console shows of matches,  *)
(* proved for any number of rules and of processes that evaluate.          *)
(*                                                                         *)
(* The index: with any number of requests writing rules at once, what      *)
(* bears the time of its rule's last write is of the rule as it is, for a  *)
(* rule is written at times that only go up; so what a call reads of the   *)
(* rules not written since it began stands.  A call that finds the         *)
(* fingerprint as it was reads nothing.  Its sums tell a changed catalog   *)
(* from an unchanged one: of as many rules, those written since are later  *)
(* than all there were, and the sum of the times goes up.  The lemmas on   *)
(* sums come first.                                                        *)
(*                                                                         *)
(* The matches: rows, index and matches are read and written by statements *)
(* that others fall between, so what a match names may be of a tree long   *)
(* gone.  What holds of all of it is that a revision is never ahead of its *)
(* rule's, and that what names the rule's own revision has the rule's own  *)
(* tree: the revision is read before the tree, and a tree is replaced only *)
(* with a later revision.  With two requests at once both may save one     *)
(* revision, so this takes one request writing rules at a time.            *)
(***************************************************************************)
EXTENDS EnabledRules, FiniteSetTheorems, WellFoundedInduction, TLAPS

EnabledRulesTypeOK == CatalogTypeOK /\ IndexTypeOK
------------------------------------------------------------------------------
(* Sums over finite sets. *)

(* A set of numbers has a least. *)
LEMMA LeastNatural ==
  ASSUME NEW T \in SUBSET Nat, T # {}
  PROVE  \E n \in T : \A m \in T : n <= m
<1> DEFINE R == {ss \in Nat \X Nat : ss[1] < ss[2]}
<1>1. IsWellFoundedOn(R, Nat)
  BY NatLessThanWellFounded DEF OpToRel
<1>2. \E n \in T : \A m \in T : <<m, n>> \notin R
  <2> HIDE DEF R
  <2> QED
    BY <1>1, WFMin
<1>3. PICK n \in T : \A m \in T : <<m, n>> \notin R
  BY <1>2
<1>4. \A m \in T : n <= m
  <2> SUFFICES ASSUME NEW m \in T PROVE n <= m
    OBVIOUS
  <2>1. m \in Nat /\ n \in Nat /\ <<m, n>> \notin R
    BY <1>3
  <2> QED
    BY <2>1
<1> QED
  BY <1>4

(* The element the fold takes first, and the function it builds: the sum   *)
(* of f over each of the subsets of S.                                     *)
First(s) == CHOOSE x \in s : TRUE

Sums(g, f, S) ==
  g = [s \in SUBSET S |-> IF s = {} THEN 0 ELSE f[First(s)] + g[s \ {First(s)}]]

SumOf(f, S) == CHOOSE g : Sums(g, f, S)

(* The sum over a set, as the library defines it.                         *)
LEMMA SumChosen ==
  ASSUME NEW f, NEW S
  PROVE  FoldFunctionOnSet(+, 0, f, S) = SumOf(f, S)[S]
BY DEF FoldFunctionOnSet, MapThenFoldSet, Sums, First, SumOf

(* A set of finite sets has a smallest. *)
LEMMA SmallestSet ==
  ASSUME NEW C, C # {}, \A s \in C : IsFiniteSet(s)
  PROVE  \E s \in C : \A t \in C : Cardinality(s) <= Cardinality(t)
<1> DEFINE T == {Cardinality(s) : s \in C}
<1>1. T \in SUBSET Nat /\ T # {}
  BY FS_CardinalityType
<1>2. PICK n \in T : \A m \in T : n <= m
  <2> HIDE DEF T
  <2> QED
    BY <1>1, LeastNatural
<1> QED
  BY <1>2

LEMMA WithoutOne ==
  ASSUME NEW S, IsFiniteSet(S), NEW x \in S
  PROVE  /\ IsFiniteSet(S \ {x})
         /\ Cardinality(S) = Cardinality(S \ {x}) + 1
         /\ Cardinality(S \ {x}) \in Nat
<1>1. IsFiniteSet(S \ {x}) /\ Cardinality(S \ {x}) = Cardinality(S) - 1
  BY FS_RemoveElement
<1>2. Cardinality(S) \in Nat /\ Cardinality(S \ {x}) \in Nat
  BY <1>1, FS_CardinalityType
<1> QED
  BY <1>1, <1>2

(* The sums over a set's subsets are the same, whichever set is taken.     *)
LEMMA SumsAgree ==
  ASSUME NEW f, NEW S, NEW T, IsFiniteSet(S), S \subseteq T,
         NEW g, NEW h, Sums(g, f, S), Sums(h, f, T)
  PROVE  g[S] = h[S]
<1> DEFINE Bad == {s \in SUBSET S : g[s] # h[s]}
<1> SUFFICES ASSUME Bad # {} PROVE FALSE
  OBVIOUS
<1>1. \A s \in Bad : IsFiniteSet(s)
  BY FS_Subset
<1>2. PICK s \in Bad : \A t \in Bad : Cardinality(s) <= Cardinality(t)
  <2> HIDE DEF Bad
  <2> QED
    BY <1>1, SmallestSet
<1>3. s \in SUBSET T
  OBVIOUS
<1>4. CASE s = {}
  BY <1>3, <1>4 DEF Sums
<1>5. CASE s # {}
  <2> DEFINE x == First(s)
  <2>1. x \in s
    BY <1>5 DEF First
  <2> HIDE DEF x
  <2>2. s \ {x} \notin Bad
    BY <1>1, <1>2, <2>1, WithoutOne
  <2>3. g[s \ {x}] = h[s \ {x}]
    BY <2>2
  <2>4. g[s] = f[x] + g[s \ {x}] /\ h[s] = f[x] + h[s \ {x}]
    BY <1>3, <1>5 DEF Sums, x
  <2> QED
    BY <2>3, <2>4
<1> QED
  BY <1>4, <1>5

(* There is such a function, for a finite set: were there a smallest set   *)
(* without one, the sums of its subsets would make one.                    *)
LEMMA Summable ==
  ASSUME NEW f, NEW S, IsFiniteSet(S)
  PROVE  Sums(SumOf(f, S), f, S)
<1> DEFINE Bad == {s \in SUBSET S : ~Sums(SumOf(f, s), f, s)}
<1> SUFFICES ASSUME Bad # {} PROVE FALSE
  OBVIOUS
<1>1. \A s \in Bad : IsFiniteSet(s)
  BY FS_Subset
<1>2. PICK s \in Bad : \A t \in Bad : Cardinality(s) <= Cardinality(t)
  <2> HIDE DEF Bad
  <2> QED
    BY <1>1, SmallestSet
<1> DEFINE V(t) == SumOf(f, t)[t]
           x == First(s)
           h == [t \in SUBSET s |-> IF t = {} THEN 0
                   ELSE IF t = s THEN f[x] + V(s \ {x}) ELSE V(t)]
<1>3. \A t \in SUBSET s : t # s => Sums(SumOf(f, t), f, t)
  <2> SUFFICES ASSUME NEW t \in SUBSET s, t # s PROVE t \notin Bad
    OBVIOUS
  <2>1. IsFiniteSet(s) /\ IsFiniteSet(t)
    BY <1>1, FS_Subset
  <2>2. Cardinality(t) < Cardinality(s)
    BY <2>1, FS_Subset, FS_CardinalityType
  <2>3. Cardinality(s) \in Nat /\ Cardinality(t) \in Nat
    BY <2>1, FS_CardinalityType
  <2> QED
    BY <1>2, <2>2, <2>3
<1>4. \A t \in SUBSET s : t # {} => First(t) \in t
  BY DEF First
<1>5. \A t \in SUBSET s : t # {} /\ t # s =>
        V(t) = f[First(t)] + V(t \ {First(t)})
  <2> SUFFICES ASSUME NEW t \in SUBSET s, t # {}, t # s
               PROVE  V(t) = f[First(t)] + V(t \ {First(t)})
    OBVIOUS
  <2> DEFINE u == t \ {First(t)}
  <2>1. Sums(SumOf(f, t), f, t) /\ Sums(SumOf(f, u), f, u)
    BY <1>3
  <2>2. V(t) = f[First(t)] + SumOf(f, t)[u]
    BY <2>1 DEF Sums
  <2>3. IsFiniteSet(u)
    BY <1>1, FS_Subset
  <2>4. SumOf(f, u)[u] = SumOf(f, t)[u]
    <3> HIDE DEF V
    <3> QED
    BY <2>1, <2>3, SumsAgree
  <2> QED
    BY <2>2, <2>4
<1>6. V({}) = 0
  <2>1. CASE s = {}
    <3>1. Sums([t \in SUBSET {} |-> 0], f, {})
      BY DEF Sums
    <3> QED
      BY <2>1, <3>1 DEF SumOf, Sums
  <2>2. CASE s # {}
    BY <1>3, <2>2 DEF Sums
  <2> QED
    BY <2>1, <2>2
<1>7. Sums(h, f, s)
  <2> HIDE DEF V
  <2> SUFFICES ASSUME NEW t \in SUBSET s
               PROVE  h[t] = IF t = {} THEN 0 ELSE f[First(t)] + h[t \ {First(t)}]
    BY DEF Sums
  <2>1. \A u \in SUBSET s : u # s => h[u] = V(u)
    BY <1>6
  <2>2. CASE t = {}
    BY <2>2
  <2>3. CASE t = s /\ t # {}
    <3>1. h[t] = f[x] + V(s \ {x})
      BY <2>3
    <3>2. s \ {x} # s /\ s \ {x} \in SUBSET s
      BY <1>4, <2>3
    <3> QED
      BY <2>1, <2>3, <3>1, <3>2
  <2>4. CASE t # s /\ t # {}
    <3>1. t \ {First(t)} # s /\ t \ {First(t)} \in SUBSET s
      BY <2>4
    <3> QED
      BY <1>5, <2>1, <2>4, <3>1
  <2> QED
    BY <2>2, <2>3, <2>4
<1> QED
  <2> HIDE DEF h, V
  <2> QED
    BY <1>7 DEF SumOf

LEMMA SumEmpty ==
  ASSUME NEW f
  PROVE  SumFunctionOnSet(f, {}) = 0
<1>1. Sums(SumOf(f, {}), f, {})
  BY Summable, FS_EmptySet
<1>2. SumOf(f, {})[{}] = 0
  BY <1>1 DEF Sums
<1> QED
  BY <1>2, SumChosen DEF SumFunctionOnSet

LEMMA SumFirst ==
  ASSUME NEW f, NEW S, IsFiniteSet(S), S # {}
  PROVE  First(S) \in S /\ SumFunctionOnSet(f, S) = f[First(S)] + SumFunctionOnSet(f, S \ {First(S)})
<1> DEFINE T == S \ {First(S)}
<1>1. First(S) \in S
  BY DEF First
<1>2. IsFiniteSet(T)
  BY FS_Subset
<1>3. Sums(SumOf(f, S), f, S) /\ Sums(SumOf(f, T), f, T)
  BY <1>2, Summable
<1>4. SumOf(f, S)[S] = f[First(S)] + SumOf(f, S)[T]
  BY <1>3 DEF Sums
<1>5. SumOf(f, S)[T] = SumOf(f, T)[T]
  BY <1>2, <1>3, SumsAgree
<1> QED
  BY <1>1, <1>4, <1>5, SumChosen DEF SumFunctionOnSet

(* Whichever element is taken first.                                       *)
LEMMA SumOne ==
  ASSUME NEW R, NEW f \in [R -> Nat], NEW S \in SUBSET R, IsFiniteSet(S)
  PROVE  /\ SumFunctionOnSet(f, S) \in Nat
         /\ \A x \in S : SumFunctionOnSet(f, S) = f[x] + SumFunctionOnSet(f, S \ {x})
<1> DEFINE Good(s) == /\ SumFunctionOnSet(f, s) \in Nat
                      /\ \A x \in s : SumFunctionOnSet(f, s) = f[x] + SumFunctionOnSet(f, s \ {x})
           Bad == {s \in SUBSET S : ~Good(s)}
<1> SUFFICES ASSUME Bad # {} PROVE FALSE
  OBVIOUS
<1>1. \A s \in Bad : IsFiniteSet(s)
  BY FS_Subset
<1>2. PICK s \in Bad : \A t \in Bad : Cardinality(s) <= Cardinality(t)
  <2> HIDE DEF Bad
  <2> QED
    BY <1>1, SmallestSet
<1> HIDE DEF Good
<1>3. \A t \in SUBSET s : t # s => Good(t)
  <2> SUFFICES ASSUME NEW t \in SUBSET s, t # s PROVE t \notin Bad
    OBVIOUS
  <2> QED
    BY <1>1, <1>2, FS_Subset, FS_CardinalityType
<1>4. CASE s = {}
  BY <1>4, SumEmpty DEF Good
<1>5. CASE s # {}
  <2> DEFINE c == First(s)
  <2>1. c \in s /\ SumFunctionOnSet(f, s) = f[c] + SumFunctionOnSet(f, s \ {c})
    BY <1>1, <1>5, SumFirst
  <2> HIDE DEF c
  <2>2. SumFunctionOnSet(f, s \ {c}) \in Nat
    BY <1>3, <2>1 DEF Good
  <2>3. ASSUME NEW x \in s
        PROVE  SumFunctionOnSet(f, s) = f[x] + SumFunctionOnSet(f, s \ {x})
    <3>1. CASE x = c
      BY <2>1, <3>1
    <3>2. CASE x # c
      <4> DEFINE u == (s \ {c}) \ {x}
      <4>1. SumFunctionOnSet(f, s \ {c}) = f[x] + SumFunctionOnSet(f, u)
        BY <1>3, <2>1, <3>2 DEF Good
      <4>2. u = (s \ {x}) \ {c}
        OBVIOUS
      <4>3. SumFunctionOnSet(f, s \ {x}) = f[c] + SumFunctionOnSet(f, u)
        BY <1>3, <2>1, <3>2, <4>2 DEF Good
      <4>4. SumFunctionOnSet(f, u) \in Nat
        BY <1>3, <2>1 DEF Good
      <4> QED
        BY <2>1, <4>1, <4>3, <4>4
    <3> QED
      BY <3>1, <3>2
  <2>4. Good(s)
    BY <2>1, <2>2, <2>3 DEF Good
  <2> QED
    BY <2>4
<1> QED
  BY <1>4, <1>5

(* Two sets of as many rules, the second with every rule of the first as   *)
(* it was or else later than all of them: the same, if they sum the same.  *)
LEMMA SumTells ==
  ASSUME NEW R, NEW f \in [R -> Nat], NEW g \in [R -> Nat], NEW T \in Nat,
         NEW A \in SUBSET R, NEW B \in SUBSET R, IsFiniteSet(A), IsFiniteSet(B),
         Cardinality(A) = Cardinality(B),
         \A r \in A : f[r] <= T,
         \A r \in B : g[r] > T \/ (r \in A /\ f[r] = g[r])
  PROVE  /\ SumFunctionOnSet(f, A) <= SumFunctionOnSet(g, B)
         /\ SumFunctionOnSet(f, A) = SumFunctionOnSet(g, B) => \A r \in B : r \in A /\ f[r] = g[r]
<1> DEFINE Fits(a, b) == /\ Cardinality(a) = Cardinality(b)
                         /\ \A r \in b : g[r] > T \/ (r \in a /\ f[r] = g[r])
           Told(a, b) == /\ SumFunctionOnSet(f, a) <= SumFunctionOnSet(g, b)
                         /\ SumFunctionOnSet(f, a) = SumFunctionOnSet(g, b) => \A r \in b : r \in a /\ f[r] = g[r]
           Bad == {a \in SUBSET A : \E b \in SUBSET B : Fits(a, b) /\ ~Told(a, b)}
<1> SUFFICES ASSUME Bad # {} PROVE FALSE
  <2> HIDE DEF Told
  <2>1. Fits(A, B)
    OBVIOUS
  <2>2. Bad = {} => Told(A, B)
    BY <2>1
  <2> QED
    BY <2>2 DEF Told
<1>1. \A a \in SUBSET A, b \in SUBSET B : IsFiniteSet(a) /\ IsFiniteSet(b)
  BY FS_Subset
<1>2. PICK a \in Bad : \A t \in Bad : Cardinality(a) <= Cardinality(t)
  <2> HIDE DEF Bad
  <2>1. Bad \in SUBSET SUBSET A
    BY DEF Bad
  <2> QED
    BY <1>1, <2>1, SmallestSet
<1>3. PICK b \in SUBSET B : Fits(a, b) /\ ~Told(a, b)
  OBVIOUS
<1> HIDE DEF Told
<1>0. /\ a \in SUBSET A /\ IsFiniteSet(a) /\ IsFiniteSet(b)
      /\ Cardinality(a) = Cardinality(b)
      /\ \A r \in b : g[r] > T \/ (r \in a /\ f[r] = g[r])
      /\ \A r \in a : f[r] <= T /\ f[r] \in Nat
      /\ \A r \in b : g[r] \in Nat
  BY <1>1, <1>3
<1>7. ASSUME NEW x \in a, NEW y \in b
      PROVE  /\ Cardinality(a \ {x}) = Cardinality(b \ {y})
             /\ ~(Cardinality(a) <= Cardinality(a \ {x}))
  <2>1. Cardinality(a) = Cardinality(a \ {x}) + 1 /\ Cardinality(a \ {x}) \in Nat
    BY <1>0, WithoutOne
  <2>2. Cardinality(b) = Cardinality(b \ {y}) + 1 /\ Cardinality(b \ {y}) \in Nat
    BY <1>0, WithoutOne
  <2>3. Cardinality(a) = Cardinality(b)
    BY <1>0
  <2> HIDE DEF Bad, Fits
  <2> QED
    BY <2>1, <2>2, <2>3
<1>4. ASSUME NEW x \in a, NEW y \in b, Fits(a \ {x}, b \ {y})
      PROVE  Told(a \ {x}, b \ {y})
  <2>1. a \ {x} \notin Bad
    BY <1>2, <1>7
  <2> QED
    BY <1>0, <1>4, <2>1
<1>5. \A x \in a : SumFunctionOnSet(f, a) = f[x] + SumFunctionOnSet(f, a \ {x}) /\ SumFunctionOnSet(f, a \ {x}) \in Nat /\ f[x] \in Nat
  BY <1>1, SumOne
<1>6. \A y \in b : SumFunctionOnSet(g, b) = g[y] + SumFunctionOnSet(g, b \ {y}) /\ SumFunctionOnSet(g, b \ {y}) \in Nat /\ g[y] \in Nat
  BY <1>1, SumOne
<1>8. CASE a = {}
  <2>1. b = {}
    BY <1>1, <1>3, <1>8, FS_EmptySet
  <2> QED
    BY <1>3, <1>8, <2>1, SumEmpty DEF Told
<1>9. CASE \E r \in b : r \in a /\ f[r] = g[r]
  <2>1. PICK r \in b : r \in a /\ f[r] = g[r]
    BY <1>9
  <2>2. Fits(a \ {r}, b \ {r})
    BY <1>3, <1>7, <2>1
  <2>3. Told(a \ {r}, b \ {r})
    BY <1>4, <2>1, <2>2
  <2>4. /\ SumFunctionOnSet(f, a) = f[r] + SumFunctionOnSet(f, a \ {r}) /\ SumFunctionOnSet(f, a \ {r}) \in Nat
        /\ SumFunctionOnSet(g, b) = f[r] + SumFunctionOnSet(g, b \ {r}) /\ SumFunctionOnSet(g, b \ {r}) \in Nat
        /\ f[r] \in Nat
    BY <1>5, <1>6, <2>1
  <2>5. SumFunctionOnSet(f, a) <= SumFunctionOnSet(g, b)
    BY <2>3, <2>4 DEF Told
  <2>6. SumFunctionOnSet(f, a) = SumFunctionOnSet(g, b) => SumFunctionOnSet(f, a \ {r}) = SumFunctionOnSet(g, b \ {r})
    BY <2>4
  <2>7. Told(a, b)
    BY <2>1, <2>3, <2>5, <2>6 DEF Told
  <2> QED
    BY <1>3, <2>7
<1>10. CASE a # {} /\ \A r \in b : ~(r \in a /\ f[r] = g[r])
  <2>1. b # {}
    BY <1>1, <1>3, <1>10, FS_EmptySet
  <2>2. \E x \in a, y \in b : TRUE
    BY <1>10, <2>1
  <2> PICK x \in a, y \in b : TRUE
    BY <2>2
  <2>3. Fits(a \ {x}, b \ {y})
    BY <1>0, <1>7, <1>10
  <2>4. Told(a \ {x}, b \ {y})
    BY <1>4, <2>3
  <2>5. g[y] > T /\ f[x] <= T
    BY <1>0, <1>10
  <2>8. /\ SumFunctionOnSet(f, a) = f[x] + SumFunctionOnSet(f, a \ {x}) /\ SumFunctionOnSet(f, a \ {x}) \in Nat
        /\ SumFunctionOnSet(g, b) = g[y] + SumFunctionOnSet(g, b \ {y}) /\ SumFunctionOnSet(g, b \ {y}) \in Nat
        /\ f[x] \in Nat /\ g[y] \in Nat
    BY <1>5, <1>6
  <2>6. SumFunctionOnSet(f, a) < SumFunctionOnSet(g, b)
    BY <2>4, <2>5, <2>8 DEF Told
  <2>7. SumFunctionOnSet(f, a) \in Nat /\ SumFunctionOnSet(g, b) \in Nat
    BY <2>8
  <2> QED
    BY <1>3, <2>6, <2>7 DEF Told
<1> QED
  BY <1>8, <1>9, <1>10
------------------------------------------------------------------------------
(* Types. *)

LEMMA StampTypes ==
  ASSUME CatalogTypeOK, NEW r \in RuleIds, Stamp(r)
  PROVE  /\ clock' \in 0 .. MaxWrites
         /\ written' \in [RuleIds -> 0 .. clock']
         /\ written'[r] # 0
         /\ \A s \in RuleIds : s # r => written'[s] = written[s]
BY MaxWritesAssumption DEF CatalogTypeOK, Stamp

(* What a query reads is of the rules as they are. *)
LEMMA ReadEnabledIsCurrent ==
  ASSUME CatalogTypeOK, NEW S \in SUBSET RuleIds
  PROVE  /\ ReadEnabled(S) \in [RuleIds -> ReadRows \cup {None}]
         /\ \A r \in RuleIds : ReadEnabled(S)[r] # None =>
              /\ r \in S /\ rule[r] # None
              /\ ReadEnabled(S)[r].rev = rule[r].rev
<1>1. ASSUME NEW r \in S, rule[r] # None
      PROVE  [rev |-> rule[r].rev, at |-> written[r]] \in ReadRows
  BY <1>1 DEF CatalogTypeOK, Rows, ReadRows
<1> QED
  BY <1>1 DEF ReadEnabled, Enabled, Exists

RequestsRead == \A w \in Writers : wpc[w] # "idle" => mine[w] \in Copies

IndexTypes == EnabledRulesTypeOK /\ RequestsRead

(* A request writes one rule, later than all was written, or nothing. *)
WritesOne ==
  \/ UNCHANGED <<rule, tree, written, clock>>
  \/ \E r \in RuleIds :
       /\ clock' = clock + 1 /\ written' = [written EXCEPT ![r] = clock + 1]
       /\ \A s \in RuleIds : s # r => rule'[s] = rule[s] /\ tree'[s] = tree[s]

LEMMA RequestTypes ==
  ASSUME IndexTypes, NEW w \in Writers, RequestStep(w), UNCHANGED indexVars
  PROVE  IndexTypes' /\ WritesOne
<1> USE DEF IndexTypes, EnabledRulesTypeOK
<1>1. IndexTypeOK'
  BY DEF IndexTypeOK, indexVars
<1>2. ASSUME Answered(w)
      PROVE  /\ wpc' \in [Writers -> {"idle", "tree", "write"}]
             /\ mine' \in [Writers -> Copies \cup {None}]
             /\ RequestsRead'
  BY <1>2 DEF Answered, CatalogTypeOK, RequestsRead
<1>3. ASSUME NEW r \in RuleIds, Stamp(r)
      PROVE  clock' \in 0 .. MaxWrites /\ written' \in [RuleIds -> 0 .. clock']
  BY <1>3, StampTypes
<1>4. ASSUME NEW r \in RuleIds, NEW t \in Trees, NEW on \in BOOLEAN, Create(w, r, t, on)
      PROVE  IndexTypes' /\ WritesOne
  <2>1. CatalogTypeOK'
    BY <1>3, <1>4 DEF Create, CatalogTypeOK, Rows, TreeOrNone, requestVars
  <2>2. RequestsRead'
    BY <1>4 DEF Create, RequestsRead, requestVars
  <2>3. WritesOne
    BY <1>4 DEF Create, WritesOne, Stamp, CatalogTypeOK
  <2> QED
    BY <1>1, <2>1, <2>2, <2>3
<1>5. ASSUME NEW r \in RuleIds, ReadRule(w, r)
      PROVE  IndexTypes' /\ WritesOne
  <2>1. [rule |-> r, rev |-> rule[r].rev, tree |-> None] \in Copies
    BY <1>5 DEF ReadRule, CatalogTypeOK, Exists, Rows, Copies, TreeOrNone
  <2>2. CatalogTypeOK' /\ RequestsRead'
    BY <1>5, <2>1 DEF ReadRule, CatalogTypeOK, RequestsRead, catalogVars
  <2> QED
    BY <1>1, <1>5, <2>2 DEF ReadRule, WritesOne, catalogVars
<1>6. ASSUME ReadTree(w)
      PROVE  IndexTypes' /\ WritesOne
  <2>1. mine[w] \in Copies /\ tree[mine[w].rule] \in TreeOrNone
    BY <1>6 DEF ReadTree, RequestsRead, CatalogTypeOK, Copies
  <2>2. [mine[w] EXCEPT !.tree = tree[mine[w].rule]] \in Copies
    BY <2>1 DEF Copies
  <2>3. mine' = [mine EXCEPT ![w] = [mine[w] EXCEPT !.tree = tree[mine[w].rule]]]
    BY <1>6 DEF ReadTree
  <2>4. UNCHANGED catalogVars /\ wpc' = [wpc EXCEPT ![w] = "write"]
    BY <1>6 DEF ReadTree
  <2>5. CatalogTypeOK' /\ RequestsRead'
    BY <2>2, <2>3, <2>4 DEF CatalogTypeOK, RequestsRead, catalogVars
  <2> QED
    BY <1>1, <2>4, <2>5 DEF WritesOne, catalogVars
<1>7. ASSUME NEW sent \in TreeOrNone, NEW on \in BOOLEAN, Save(w, sent, on)
      PROVE  IndexTypes' /\ WritesOne
  <2> DEFINE r == mine[w].rule
  <2>1. mine[w] \in Copies /\ r \in RuleIds /\ mine[w].rev \in Nat
    BY <1>7 DEF Save, RequestsRead, Copies
  <2>2. [rev |-> SavedRevision(w, sent), enabled |-> on] \in Rows
    BY <2>1 DEF SavedRevision, Rows
  <2>3. Stamp(r) /\ Answered(w)
    BY <1>7 DEF Save
  <2>4. /\ rule' = [rule EXCEPT ![r] = [rev |-> SavedRevision(w, sent), enabled |-> on]]
        /\ tree' \in {tree, [tree EXCEPT ![r] = sent]}
        /\ matched' \subseteq matched
    BY <1>7 DEF Save
  <2>5. rule' \in [RuleIds -> Rows \cup {None}] /\ tree' \in [RuleIds -> TreeOrNone]
    BY <2>1, <2>2, <2>4 DEF CatalogTypeOK
  <2>6. CatalogTypeOK'
    BY <1>2, <1>3, <2>1, <2>3, <2>4, <2>5 DEF CatalogTypeOK
  <2>7. WritesOne
    BY <2>1, <2>3, <2>4 DEF Stamp, WritesOne, CatalogTypeOK
  <2> QED
    BY <1>1, <1>2, <2>3, <2>6, <2>7
<1>8. ASSUME Delete(w)
      PROVE  IndexTypes' /\ WritesOne
  <2> DEFINE r == mine[w].rule
  <2>1. r \in RuleIds
    BY <1>8 DEF Delete, RequestsRead, Copies
  <2>2. Stamp(r) /\ Answered(w)
    BY <1>8 DEF Delete
  <2>3. /\ rule' = [rule EXCEPT ![r] = None] /\ tree' = [tree EXCEPT ![r] = None]
        /\ matched' \subseteq matched
    BY <1>8 DEF Delete
  <2>4. CatalogTypeOK'
    BY <1>2, <1>3, <2>1, <2>2, <2>3 DEF CatalogTypeOK, TreeOrNone
  <2>5. WritesOne
    BY <2>1, <2>2, <2>3 DEF Stamp, WritesOne, CatalogTypeOK
  <2> QED
    BY <1>1, <1>2, <2>2, <2>4, <2>5
<1>9. ASSUME RequestFails(w)
      PROVE  IndexTypes' /\ WritesOne
  BY <1>1, <1>2, <1>9 DEF RequestFails, CatalogTypeOK, WritesOne, catalogVars
<1> QED
  BY <1>4, <1>5, <1>6, <1>7, <1>8, <1>9 DEF RequestStep

(* A run reads the catalog, and adds matches to it alone. *)
LEMMA RunTypes ==
  ASSUME IndexTypes, NEW e \in Runs, RunStep(e)
  PROVE  IndexTypes' /\ UNCHANGED <<rule, tree, written, clock>>
<1> USE DEF IndexTypes, EnabledRulesTypeOK
<1>1. ASSUME UNCHANGED <<catalogVars, requestVars>>, IndexTypeOK'
      PROVE  IndexTypes' /\ UNCHANGED <<rule, tree, written, clock>>
  BY <1>1 DEF CatalogTypeOK, RequestsRead, catalogVars, requestVars
<1>2. Nothing \in [RuleIds -> ReadRows \cup {None}] /\ Nothing \in [RuleIds -> Indexed \cup {None}]
  BY DEF Nothing
<1>3. Changed(e) \in SUBSET RuleIds /\ clock \in Nat
  BY DEF Changed, EnabledNow, CatalogTypeOK
<1>4. ASSUME NEW S \in SUBSET RuleIds
      PROVE  ReadEnabled(S) \in [RuleIds -> ReadRows \cup {None}]
  BY ReadEnabledIsCurrent
<1>5. ASSUME NEW r \in RuleIds, NEW t \in {tree[r], None}, read[e][r] # None
      PROVE  IndexedAs(e, r, t) \in Indexed
  <2>1. read[e][r] \in ReadRows
    BY <1>5 DEF IndexTypeOK
  <2>2. t \in TreeOrNone
    BY DEF CatalogTypeOK, TreeOrNone
  <2> QED
    BY <2>1, <2>2 DEF IndexedAs, Indexed, ReadRows
<1>6. CASE TakeFingerprint(e)
  <2>1. /\ read' \in {read, [read EXCEPT ![e] = Nothing]}
        /\ expected' \in {expected, [expected EXCEPT ![e] = {}]}
        /\ xpc' \in {[xpc EXCEPT ![e] = pc] : pc \in IndexPcs}
    BY <1>6 DEF TakeFingerprint, Ready, IndexPcs
  <2>2. /\ began' = [began EXCEPT ![e] = clock]
        /\ UNCHANGED <<catalogVars, requestVars, index, built>>
    BY <1>6 DEF TakeFingerprint
  <2>3. read' \in [Runs -> [RuleIds -> ReadRows \cup {None}]]
    BY <1>2, <2>1 DEF IndexTypeOK
  <2>4. expected' \in [Runs -> SUBSET RuleIds]
    BY <2>1 DEF IndexTypeOK
  <2>5. xpc' \in [Runs -> IndexPcs]
    BY <2>1 DEF IndexTypeOK
  <2>6. IndexTypeOK'
    BY <1>3, <2>2, <2>3, <2>4, <2>5 DEF IndexTypeOK
  <2> QED
    BY <1>1, <2>2, <2>6
<1>7. CASE ListRules(e)
  <2>1. [r \in RuleIds |-> IF Enabled(r) THEN index[e][r] ELSE None]
          \in [RuleIds -> Indexed \cup {None}]
    BY DEF IndexTypeOK
  <2> DEFINE one == [r \in RuleIds |-> IF Enabled(r) THEN index[e][r] ELSE None]
  <2>2. /\ read' \in {read, [read EXCEPT ![e] = Nothing]}
        /\ expected' \in {expected, [expected EXCEPT ![e] = {}], [expected EXCEPT ![e] = Changed(e)]}
        /\ xpc' \in {[xpc EXCEPT ![e] = pc] : pc \in IndexPcs}
        /\ index' \in {index, [index EXCEPT ![e] = one]}
        /\ UNCHANGED <<catalogVars, requestVars, built, newPrint, began>>
    BY <1>7 DEF ListRules, Ready, IndexPcs
  <2> HIDE DEF one
  <2>3. index' \in [Runs -> [RuleIds -> Indexed \cup {None}]]
    <3>1. one \in [RuleIds -> Indexed \cup {None}]
      BY <2>1 DEF one
    <3> QED
      BY <2>2, <3>1 DEF IndexTypeOK
  <2>4. read' \in [Runs -> [RuleIds -> ReadRows \cup {None}]]
    BY <1>2, <2>2 DEF IndexTypeOK
  <2>5. expected' \in [Runs -> SUBSET RuleIds]
    BY <1>3, <2>2 DEF IndexTypeOK
  <2>6. xpc' \in [Runs -> IndexPcs]
    BY <2>2 DEF IndexTypeOK
  <2>7. IndexTypeOK'
    BY <2>2, <2>3, <2>4, <2>5, <2>6 DEF IndexTypeOK
  <2> QED
    BY <1>1, <2>2, <2>7
<1>8. CASE ReadRules(e)
  <2>1. \E S \in SUBSET RuleIds : read' = [read EXCEPT ![e] = ReadEnabled(S)]
    BY <1>8 DEF ReadRules, IndexTypeOK
  <2>2. read' \in [Runs -> [RuleIds -> ReadRows \cup {None}]]
    BY <1>4, <2>1 DEF IndexTypeOK
  <2>3. xpc' \in [Runs -> IndexPcs]
    BY <1>8 DEF ReadRules, IndexTypeOK, IndexPcs
  <2>4. UNCHANGED <<catalogVars, requestVars, index, built, newPrint, expected, began>>
    BY <1>8 DEF ReadRules
  <2>5. IndexTypeOK'
    BY <2>2, <2>3, <2>4 DEF IndexTypeOK
  <2> QED
    BY <1>1, <2>4, <2>5
<1>9. CASE ReadAllTrees(e)
  <2> DEFINE one == [r \in RuleIds |->
               IF read[e][r] = None THEN None
               ELSE IndexedAs(e, r, IF Enabled(r) THEN tree[r] ELSE None)]
  <2>1. one \in [RuleIds -> Indexed \cup {None}]
    BY <1>5
  <2>2. index' = [index EXCEPT ![e] = one] /\ built' = [built EXCEPT ![e] = TRUE]
        /\ UNCHANGED <<catalogVars, requestVars, newPrint, began>>
        /\ Ready(e, newPrint[e])
    BY <1>9 DEF ReadAllTrees
  <2> HIDE DEF one
  <2>3. IndexTypeOK'
    BY <1>2, <2>1, <2>2 DEF Ready, IndexTypeOK, IndexPcs
  <2> QED
    BY <1>1, <2>2, <2>3
<1>10. CASE PutTrees(e)
  <2> DEFINE one == [r \in RuleIds |->
               IF r \notin expected[e] THEN index[e][r]
               ELSE IF read[e][r] = None THEN None ELSE IndexedAs(e, r, tree[r])]
  <2>1. one \in [RuleIds -> Indexed \cup {None}]
    BY <1>5 DEF IndexTypeOK
  <2>2. index' = [index EXCEPT ![e] = one]
        /\ UNCHANGED <<catalogVars, requestVars, built, newPrint, began>>
        /\ Ready(e, newPrint[e])
    BY <1>10 DEF PutTrees
  <2> HIDE DEF one
  <2>3. IndexTypeOK'
    BY <1>2, <2>1, <2>2 DEF Ready, IndexTypeOK, IndexPcs
  <2> QED
    BY <1>1, <2>2, <2>3
<1>11. ASSUME NEW S \in SUBSET RuleIds, Record(e, S)
       PROVE  IndexTypes' /\ UNCHANGED <<rule, tree, written, clock>>
  <2>1. UNCHANGED <<rule, tree, written, clock, requestVars, indexVars>>
    BY <1>11 DEF Record
  <2>2. matched' = matched \cup
          {[rule |-> r, rev |-> index[e][r].rev, ran |-> index[e][r].tree] : r \in S}
    BY <1>11 DEF Record
  <2>3. ASSUME NEW r \in S
        PROVE  [rule |-> r, rev |-> index[e][r].rev, ran |-> index[e][r].tree] \in Matches
    <3>1. index[e][r] \in Indexed /\ index[e][r].tree # None
      BY <1>11 DEF Record, IndexTypeOK
    <3> QED
      BY <3>1 DEF Indexed, Matches, TreeOrNone
  <2>4. CatalogTypeOK'
    BY <2>1, <2>2, <2>3 DEF CatalogTypeOK, requestVars
  <2>5. IndexTypeOK' /\ RequestsRead'
    BY <2>1 DEF IndexTypeOK, RequestsRead, requestVars, indexVars
  <2> QED
    BY <2>1, <2>4, <2>5
<1>12. CASE EndRun(e)
  <2>1. IndexTypeOK'
    BY <1>2, <1>12 DEF EndRun, IndexTypeOK, IndexPcs
  <2> QED
    BY <1>1, <1>12, <2>1 DEF EndRun
<1>13. CASE Restart(e)
  <2>1. IndexTypeOK'
    BY <1>2, <1>13 DEF Restart, IndexTypeOK, IndexPcs
  <2> QED
    BY <1>1, <1>13, <2>1 DEF Restart
<1> QED
  BY <1>6, <1>7, <1>8, <1>9, <1>10, <1>11, <1>12, <1>13 DEF RunStep
------------------------------------------------------------------------------
(* The index. *)

AsItStands(e, r) == index[e][r] = [rev |-> rule[r].rev, at |-> written[r], tree |-> tree[r]]
ReadAsItStands(e, r) == read[e][r] = [rev |-> rule[r].rev, at |-> written[r]]

(* Only a rule that was written is there, and only finitely many were. *)
WrittenOnce ==
  /\ \A r \in RuleIds : Exists(r) => written[r] # 0
  /\ IsFiniteSet({r \in RuleIds : written[r] # 0})

(* What bears the time of its rule's last write is of the rule as it is. *)
TimesTell(e) ==
  \A r \in RuleIds :
    /\ index[e][r] # None =>
         /\ index[e][r].at <= clock
         /\ index[e][r].at = written[r] => Enabled(r) /\ AsItStands(e, r)
    /\ read[e][r] # None =>
         /\ read[e][r].at <= clock
         /\ read[e][r].at = written[r] => Enabled(r) /\ ReadAsItStands(e, r)

IndexedStill(e, r) == IF Enabled(r) THEN AsItStands(e, r) ELSE index[e][r] = None
ReadStill(e, r) == IF Enabled(r) THEN ReadAsItStands(e, r) ELSE read[e][r] = None

(* How far a call has come with the rules not written since it began. *)
CallSees(e) ==
  /\ began[e] <= clock
  /\ \A r \in RuleIds : written[r] <= began[e] =>
       /\ xpc[e] \in {"put", "putTrees"} =>
            IF r \in expected[e] THEN Enabled(r) ELSE IndexedStill(e, r)
       /\ xpc[e] = "rebuildTrees" \/ (xpc[e] = "putTrees" /\ r \in expected[e]) =>
            ReadStill(e, r)
       /\ xpc[e] = "run" /\ Enabled(r) => AsItStands(e, r)

(* A fingerprint of rules written up to a time: every enabled rule not     *)
(* written since is one of them, as it was.                                *)
Tells(p, T) ==
  \E A \in SUBSET RuleIds, f \in [RuleIds -> Nat] :
    /\ IsFiniteSet(A)
    /\ p.count = Cardinality(A) /\ p.stamps = SumFunctionOnSet(f, A)
    /\ \A r \in A : f[r] <= T
    /\ \A r \in RuleIds : Enabled(r) /\ written[r] <= T => r \in A /\ f[r] = written[r]

(* The fingerprint kept is of a time the index is up to, or more.          *)
PrintTells(e) ==
  built[e] =>
    \E T \in 0 .. clock :
      /\ Tells(print[e], T)
      /\ \A r \in RuleIds : Enabled(r) /\ written[r] <= T => AsItStands(e, r)

NewPrintTells(e) == xpc[e] \notin {"idle", "run"} => Tells(newPrint[e], began[e])

PrintsOfRuns ==
  print = [e \in Runs |-> print[e]] /\ newPrint = [e \in Runs |-> newPrint[e]]

RunInv(e) == TimesTell(e) /\ CallSees(e) /\ PrintTells(e) /\ NewPrintTells(e)

IndexInv ==
  /\ IndexTypes
  /\ WrittenOnce
  /\ PrintsOfRuns
  /\ \A e \in Runs : RunInv(e)

LEMMA IndexInitial == EnabledRulesInit => IndexInv
<1> SUFFICES ASSUME EnabledRulesInit PROVE IndexInv
  OBVIOUS
<1> USE DEF EnabledRulesInit, CatalogInit, IndexInit, Nothing
<1>1. CatalogTypeOK
  BY MaxWritesAssumption DEF CatalogTypeOK, TreeOrNone
<1>2. IndexTypeOK /\ RequestsRead
  BY DEF IndexTypeOK, IndexPcs, RequestsRead
<1>3. WrittenOnce
  <2>1. {r \in RuleIds : written[r] # 0} = {}
    OBVIOUS
  <2> QED
    BY <2>1, FS_EmptySet DEF WrittenOnce, Exists
<1>4. PrintsOfRuns
  BY DEF PrintsOfRuns
<1>5. ASSUME NEW e \in Runs PROVE RunInv(e)
  BY DEF RunInv, TimesTell, CallSees, PrintTells, NewPrintTells, Enabled, Exists
<1> QED
  BY <1>1, <1>2, <1>3, <1>4, <1>5 DEF IndexInv, IndexTypes, EnabledRulesTypeOK

(* A write leaves all that was written before it as it was. *)
LEMMA WritesKeepIndex ==
  ASSUME IndexInv, IndexTypes', WritesOne, UNCHANGED indexVars
  PROVE  IndexInv'
<1> USE DEF IndexInv, IndexTypes, EnabledRulesTypeOK
<1>0. clock \in Nat /\ clock' \in Nat /\ clock <= clock'
  BY DEF CatalogTypeOK, WritesOne
<1>1. ASSUME NEW r \in RuleIds, written'[r] <= clock
      PROVE  rule'[r] = rule[r] /\ tree'[r] = tree[r] /\ written'[r] = written[r]
  BY <1>0, <1>1 DEF WritesOne, CatalogTypeOK
<1>2. \A r \in RuleIds : written[r] \in Nat /\ written'[r] \in Nat /\ written[r] <= clock
  BY DEF CatalogTypeOK
<1>3. WrittenOnce'
  <2>1. CASE UNCHANGED <<rule, tree, written, clock>>
    BY <2>1 DEF WrittenOnce, Exists
  <2>2. ASSUME NEW r \in RuleIds,
               written' = [written EXCEPT ![r] = clock + 1],
               \A s \in RuleIds : s # r => rule'[s] = rule[s]
        PROVE  WrittenOnce'
    <3>1. \A s \in RuleIds : written'[s] = IF s = r THEN clock + 1 ELSE written[s]
      BY <2>2 DEF CatalogTypeOK
    <3>2. {s \in RuleIds : written'[s] # 0} \subseteq {s \in RuleIds : written[s] # 0} \cup {r}
      BY <3>1
    <3>3. IsFiniteSet({s \in RuleIds : written[s] # 0} \cup {r})
      BY FS_AddElement DEF WrittenOnce
    <3>4. IsFiniteSet({s \in RuleIds : written'[s] # 0})
      BY <3>2, <3>3, FS_Subset
    <3>5. \A s \in RuleIds : rule'[s] # None => written'[s] # 0
      BY <1>0, <2>2, <3>1 DEF WrittenOnce, Exists
    <3> QED
      BY <3>4, <3>5 DEF WrittenOnce, Exists
  <2> QED
    BY <2>1, <2>2 DEF WritesOne
<1>4. PrintsOfRuns'
  BY DEF PrintsOfRuns, indexVars
<1>5. ASSUME NEW p, NEW T \in 0 .. clock, NEW A \in SUBSET RuleIds, NEW f,
             \A r \in RuleIds : Enabled(r) /\ written[r] <= T => r \in A /\ f[r] = written[r]
      PROVE  \A r \in RuleIds : Enabled(r)' /\ written'[r] <= T => r \in A /\ f[r] = written'[r]
  BY <1>0, <1>1, <1>2, <1>5 DEF Enabled, Exists
<1>6. ASSUME NEW e \in Runs PROVE RunInv(e)'
  <2>0. /\ index'[e] = index[e] /\ read'[e] = read[e] /\ xpc'[e] = xpc[e] /\ built'[e] = built[e]
        /\ expected'[e] = expected[e] /\ began'[e] = began[e]
        /\ print'[e] = print[e] /\ newPrint'[e] = newPrint[e]
    BY DEF indexVars
  <2>1. began[e] \in Nat /\ began[e] <= clock
    BY DEF RunInv, CallSees, IndexTypeOK
  <2>2. \A r \in RuleIds : /\ index[e][r] # None => index[e][r].at \in Nat
                           /\ read[e][r] # None => read[e][r].at \in Nat
    BY DEF IndexTypeOK, Indexed, ReadRows
  <2>3. TimesTell(e)'
    <3> SUFFICES ASSUME NEW r \in RuleIds
                 PROVE  /\ index[e][r] # None =>
                             /\ index[e][r].at <= clock'
                             /\ index[e][r].at = written'[r] => Enabled(r)' /\ AsItStands(e, r)'
                        /\ read[e][r] # None =>
                             /\ read[e][r].at <= clock'
                             /\ read[e][r].at = written'[r] => Enabled(r)' /\ ReadAsItStands(e, r)'
      BY <2>0 DEF TimesTell
    <3>1. /\ index[e][r] # None => index[e][r].at <= clock
          /\ read[e][r] # None => read[e][r].at <= clock
      BY DEF RunInv, TimesTell
    <3>2. /\ index[e][r] # None => index[e][r].at <= clock'
          /\ read[e][r] # None => read[e][r].at <= clock'
      BY <1>0, <2>2, <3>1
    <3>3. ASSUME written'[r] <= clock
          PROVE  /\ Enabled(r)' = Enabled(r) /\ AsItStands(e, r)' = AsItStands(e, r)
                 /\ ReadAsItStands(e, r)' = ReadAsItStands(e, r)
      BY <1>1, <2>0, <3>3 DEF Enabled, Exists, AsItStands, ReadAsItStands
    <3>4. written'[r] <= clock => written'[r] = written[r]
      BY <1>1
    <3> QED
      BY <3>1, <3>2, <3>3, <3>4 DEF RunInv, TimesTell
  <2>4. CallSees(e)'
    <3>1. began[e] <= clock'
      BY <1>0, <2>1
    <3> SUFFICES ASSUME NEW r \in RuleIds, written'[r] <= began[e]
                 PROVE  /\ xpc[e] \in {"put", "putTrees"} =>
                             IF r \in expected[e] THEN Enabled(r)' ELSE IndexedStill(e, r)'
                        /\ xpc[e] = "rebuildTrees" \/ (xpc[e] = "putTrees" /\ r \in expected[e]) =>
                             ReadStill(e, r)'
                        /\ xpc[e] = "run" /\ Enabled(r)' => AsItStands(e, r)'
      BY <2>0, <3>1 DEF CallSees
    <3>2. written'[r] <= clock
      BY <1>0, <1>2, <2>1
    <3>3. /\ Enabled(r)' = Enabled(r) /\ AsItStands(e, r)' = AsItStands(e, r)
          /\ IndexedStill(e, r)' = IndexedStill(e, r) /\ ReadStill(e, r)' = ReadStill(e, r)
          /\ written'[r] = written[r]
      BY <1>1, <2>0, <3>2
         DEF Enabled, Exists, AsItStands, ReadAsItStands, IndexedStill, ReadStill
    <3> QED
      BY <3>3 DEF RunInv, CallSees
  <2>5. ASSUME NEW p, NEW T \in 0 .. clock, Tells(p, T)
        PROVE  \E A \in SUBSET RuleIds, f \in [RuleIds -> Nat] :
                 /\ IsFiniteSet(A)
                 /\ p.count = Cardinality(A) /\ p.stamps = SumFunctionOnSet(f, A)
                 /\ \A r \in A : f[r] <= T
                 /\ \A r \in RuleIds : Enabled(r)' /\ written'[r] <= T => r \in A /\ f[r] = written'[r]
    BY <1>5, <2>5 DEF Tells
  <2>6. PrintTells(e)'
    <3> SUFFICES ASSUME built[e] PROVE PrintTells(e)'
      BY <2>0 DEF PrintTells
    <3>1. PICK T \in 0 .. clock :
            /\ Tells(print[e], T)
            /\ \A r \in RuleIds : Enabled(r) /\ written[r] <= T => AsItStands(e, r)
      BY DEF RunInv, PrintTells
    <3>2. T \in 0 .. clock'
      BY <1>0
    <3>3. Tells(print[e], T)'
      <4>1. \E A \in SUBSET RuleIds, f \in [RuleIds -> Nat] :
              /\ IsFiniteSet(A)
              /\ print[e].count = Cardinality(A) /\ print[e].stamps = SumFunctionOnSet(f, A)
              /\ \A r \in A : f[r] <= T
              /\ \A r \in RuleIds : Enabled(r)' /\ written'[r] <= T => r \in A /\ f[r] = written'[r]
        BY <2>5, <3>1
      <4> QED
        BY <2>0, <4>1 DEF Tells
    <3>4. \A r \in RuleIds : Enabled(r)' /\ written'[r] <= T => AsItStands(e, r)'
      <4> SUFFICES ASSUME NEW r \in RuleIds, Enabled(r)', written'[r] <= T
                   PROVE  AsItStands(e, r)'
        OBVIOUS
      <4>1. written'[r] <= clock
        BY <1>0, <1>2
      <4> QED
        BY <1>1, <2>0, <3>1, <4>1 DEF Enabled, Exists, AsItStands
    <3> QED
      BY <3>2, <3>3, <3>4 DEF PrintTells
  <2>7. NewPrintTells(e)'
    <3> SUFFICES ASSUME xpc[e] \notin {"idle", "run"} PROVE NewPrintTells(e)'
      BY <2>0 DEF NewPrintTells
    <3>1. Tells(newPrint[e], began[e]) /\ began[e] \in 0 .. clock
      BY <1>0, <2>1 DEF RunInv, NewPrintTells
    <3>3. Tells(newPrint[e], began[e])'
      <4>1. \E A \in SUBSET RuleIds, f \in [RuleIds -> Nat] :
              /\ IsFiniteSet(A)
              /\ newPrint[e].count = Cardinality(A) /\ newPrint[e].stamps = SumFunctionOnSet(f, A)
              /\ \A r \in A : f[r] <= began[e]
              /\ \A r \in RuleIds : Enabled(r)' /\ written'[r] <= began[e] => r \in A /\ f[r] = written'[r]
        BY <2>5, <3>1
      <4> QED
        BY <2>0, <4>1 DEF Tells
    <3> QED
      BY <3>3 DEF NewPrintTells
  <2> QED
    BY <2>3, <2>4, <2>6, <2>7 DEF RunInv
<1> QED
  BY <1>3, <1>4, <1>6

(* The enabled rules are finitely many: each was written.                  *)
LEMMA FewEnabled ==
  ASSUME IndexInv
  PROVE  EnabledNow \in SUBSET RuleIds /\ IsFiniteSet(EnabledNow)
<1>1. EnabledNow \subseteq {r \in RuleIds : written[r] # 0}
  BY DEF IndexInv, WrittenOnce, EnabledNow, Enabled
<1> QED
  BY <1>1, FS_Subset DEF IndexInv, WrittenOnce, EnabledNow

(* A fingerprint tells of the rules as they are. *)
LEMMA FingerprintTells ==
  ASSUME IndexInv
  PROVE  Tells(Fingerprint, clock)
<1>1. EnabledNow \in SUBSET RuleIds /\ IsFiniteSet(EnabledNow)
  BY FewEnabled
<1>2. written \in [RuleIds -> Nat] /\ \A r \in RuleIds : written[r] <= clock
  BY DEF IndexInv, IndexTypes, EnabledRulesTypeOK, CatalogTypeOK
<1>3. /\ Fingerprint.count = Cardinality(EnabledNow)
      /\ Fingerprint.stamps = SumFunctionOnSet(written, EnabledNow)
  BY DEF Fingerprint, SumFunctionOnSet
<1>4. \A r \in RuleIds : Enabled(r) => r \in EnabledNow
  BY DEF EnabledNow
<1> QED
  BY <1>1, <1>2, <1>3, <1>4 DEF Tells

(* The fingerprint found as it was: no enabled rule was written since.     *)
LEMMA SameFingerprint ==
  ASSUME IndexInv, NEW T \in 0 .. clock, NEW p, Tells(p, T), p = Fingerprint
  PROVE  \A r \in RuleIds : Enabled(r) => written[r] <= T
<1>1. EnabledNow \in SUBSET RuleIds /\ IsFiniteSet(EnabledNow)
  BY FewEnabled
<1>2. written \in [RuleIds -> Nat] /\ clock \in Nat
  BY DEF IndexInv, IndexTypes, EnabledRulesTypeOK, CatalogTypeOK
<1>3. p.count = Cardinality(EnabledNow) /\ p.stamps = SumFunctionOnSet(written, EnabledNow)
  BY DEF Fingerprint, SumFunctionOnSet
<1>4. PICK A \in SUBSET RuleIds, f \in [RuleIds -> Nat] :
        /\ IsFiniteSet(A)
        /\ p.count = Cardinality(A) /\ p.stamps = SumFunctionOnSet(f, A)
        /\ \A r \in A : f[r] <= T
        /\ \A r \in RuleIds : Enabled(r) /\ written[r] <= T => r \in A /\ f[r] = written[r]
  BY DEF Tells
<1>5. \A r \in EnabledNow : written[r] > T \/ (r \in A /\ f[r] = written[r])
  BY <1>2, <1>4 DEF EnabledNow
<1>6. \A r \in EnabledNow : r \in A /\ f[r] = written[r]
  <2>1. T \in Nat /\ IsFiniteSet(A) /\ Cardinality(A) = Cardinality(EnabledNow)
    BY <1>2, <1>3, <1>4
  <2>2. SumFunctionOnSet(f, A) = SumFunctionOnSet(written, EnabledNow)
    BY <1>3, <1>4
  <2>3. \A r \in A : f[r] <= T
    BY <1>4
  <2>4. SumFunctionOnSet(f, A) = SumFunctionOnSet(written, EnabledNow) =>
          \A r \in EnabledNow : r \in A /\ f[r] = written[r]
    BY <1>1, <1>2, <1>5, <2>1, <2>3, SumTells
  <2> QED
    BY <2>2, <2>4
<1> QED
  BY <1>4, <1>6 DEF EnabledNow

(* A step of one run leaves what the others have read and indexed alone.   *)
LEMMA OthersKeepIndex ==
  ASSUME IndexInv, IndexTypes', UNCHANGED <<rule, tree, written, clock>>, NEW e \in Runs,
         \A d \in Runs : d # e =>
           /\ index'[d] = index[d] /\ read'[d] = read[d] /\ xpc'[d] = xpc[d]
           /\ built'[d] = built[d] /\ expected'[d] = expected[d] /\ began'[d] = began[d]
           /\ print'[d] = print[d] /\ newPrint'[d] = newPrint[d],
         PrintsOfRuns', RunInv(e)'
  PROVE  IndexInv'
<1>1. WrittenOnce'
  BY DEF IndexInv, WrittenOnce, Exists
<1>2. ASSUME NEW d \in Runs, d # e PROVE RunInv(d)'
  <2>1. RunInv(d)
    BY DEF IndexInv
  <2> QED
    BY <1>2, <2>1 DEF RunInv, TimesTell, CallSees, PrintTells, NewPrintTells, Tells, AsItStands,
       ReadAsItStands, IndexedStill, ReadStill, Enabled, Exists
<1> QED
  BY <1>1, <1>2 DEF IndexInv


(* Calls of index. *)

LEMMA TakeFingerprintKeepsIndex ==
  ASSUME IndexInv, IndexTypes', NEW e \in Runs, TakeFingerprint(e)
  PROVE  IndexInv'
<1>1. UNCHANGED <<rule, tree, written, clock, index, built>> /\ clock \in Nat
  BY DEF TakeFingerprint, catalogVars, IndexInv, IndexTypes, EnabledRulesTypeOK, CatalogTypeOK
<1>2. RunInv(e) /\ IndexTypeOK
  BY DEF IndexInv, IndexTypes, EnabledRulesTypeOK
<1>3. /\ newPrint' = [newPrint EXCEPT ![e] = Fingerprint]
      /\ began' = [began EXCEPT ![e] = clock]
  BY DEF TakeFingerprint
<1>4. began'[e] = clock /\ newPrint'[e] = Fingerprint
  BY <1>2, <1>3 DEF IndexTypeOK, IndexInv, PrintsOfRuns
<1>5. \/ /\ xpc' \in {[xpc EXCEPT ![e] = "rebuild"], [xpc EXCEPT ![e] = "list"]}
         /\ UNCHANGED <<print, expected, read>>
      \/ /\ xpc' = [xpc EXCEPT ![e] = "run"]
         /\ built[e] /\ Fingerprint = print[e]
         /\ print' = [print EXCEPT ![e] = Fingerprint]
         /\ read' = [read EXCEPT ![e] = Nothing]
         /\ expected' = [expected EXCEPT ![e] = {}]
  BY DEF TakeFingerprint, Ready
<1>6. PrintsOfRuns' /\ print'[e] = print[e]
  BY <1>3, <1>5 DEF IndexInv, PrintsOfRuns
<1>7. \A d \in Runs : d # e =>
           /\ index'[d] = index[d] /\ read'[d] = read[d] /\ xpc'[d] = xpc[d]
           /\ built'[d] = built[d] /\ expected'[d] = expected[d] /\ began'[d] = began[d]
           /\ print'[d] = print[d] /\ newPrint'[d] = newPrint[d]
  BY <1>1, <1>2, <1>3, <1>5 DEF IndexTypeOK, IndexInv, PrintsOfRuns
<1>8. TimesTell(e)'
  <2>1. \A r \in RuleIds : read'[e][r] \in {read[e][r], None}
    BY <1>2, <1>5 DEF IndexTypeOK, Nothing
  <2> QED
    BY <1>1, <1>2, <2>1
       DEF RunInv, TimesTell, AsItStands, ReadAsItStands, Enabled, Exists
<1>9. PrintTells(e)'
  BY <1>1, <1>2, <1>6 DEF RunInv, PrintTells, Tells, AsItStands, Enabled, Exists
<1>10. NewPrintTells(e)'
  <2>1. Tells(Fingerprint, clock)
    BY FingerprintTells
  <2>2. Tells(newPrint'[e], began'[e])
    BY <1>4, <2>1
  <2> QED
    BY <1>1, <2>2 DEF NewPrintTells, Tells, Enabled, Exists
<1>11. CallSees(e)'
  <2>1. CASE xpc'[e] \in {"rebuild", "list"}
    BY <1>1, <1>4, <2>1 DEF CallSees
  <2>2. CASE xpc'[e] = "run" /\ built[e] /\ Fingerprint = print[e]
    <3>1. \A r \in RuleIds : Enabled(r) => AsItStands(e, r)
      <4>1. PICK T \in 0 .. clock :
              /\ Tells(print[e], T)
              /\ \A r \in RuleIds : Enabled(r) /\ written[r] <= T => AsItStands(e, r)
        BY <1>2, <2>2 DEF RunInv, PrintTells
      <4>2. \A r \in RuleIds : Enabled(r) => written[r] <= T
        BY <2>2, <4>1, SameFingerprint
      <4> QED
        BY <4>1, <4>2
    <3>2. \A r \in RuleIds : Enabled(r)' => AsItStands(e, r)'
      BY <1>1, <3>1 DEF AsItStands, Enabled, Exists
    <3> QED
      BY <1>1, <1>4, <2>2, <3>2 DEF CallSees
  <2> QED
    BY <1>2, <1>5, <2>1, <2>2 DEF IndexTypeOK
<1>12. RunInv(e)'
  BY <1>8, <1>9, <1>10, <1>11 DEF RunInv
<1> QED
  BY <1>1, <1>6, <1>7, <1>12, OthersKeepIndex

LEMMA ListRulesKeepsIndex ==
  ASSUME IndexInv, IndexTypes', NEW e \in Runs, ListRules(e)
  PROVE  /\ IndexInv'
         /\ \A r \in RuleIds : xpc'[e] = "run" /\ ~Enabled(r) => index'[e][r] = None
<1> DEFINE one == [r \in RuleIds |-> IF Enabled(r) THEN index[e][r] ELSE None]
<1>1. UNCHANGED <<rule, tree, written, clock, built, newPrint, began>> /\ xpc[e] = "list"
  BY DEF ListRules, catalogVars
<1>2. RunInv(e) /\ IndexTypeOK
  BY DEF IndexInv, IndexTypes, EnabledRulesTypeOK
<1>3. CASE Cardinality(Changed(e)) > Cardinality(EnabledNow) \div 2
  <2>1. xpc' = [xpc EXCEPT ![e] = "rebuild"] /\ UNCHANGED <<index, print, expected, read>>
    <3>1. ~(Cardinality(Changed(e)) <= Cardinality(EnabledNow) \div 2)
      <4>1. IsFiniteSet(EnabledNow) /\ Changed(e) \subseteq EnabledNow
        BY FewEnabled DEF Changed
      <4>2. Cardinality(EnabledNow) \in Nat /\ Cardinality(Changed(e)) \in Nat
        BY <4>1, FS_CardinalityType, FS_Subset
      <4> QED
        BY <1>3, <4>2
    <3> QED
      BY <3>1 DEF ListRules
  <2>2. RunInv(e)'
    <3>1. xpc'[e] = "rebuild"
      BY <1>2, <2>1 DEF IndexTypeOK
    <3>2. TimesTell(e)'
      BY <1>1, <1>2, <2>1 DEF RunInv, TimesTell, AsItStands, ReadAsItStands, Enabled, Exists
    <3>3. PrintTells(e)'
      BY <1>1, <1>2, <2>1 DEF RunInv, PrintTells, Tells, AsItStands, Enabled, Exists
    <3>4. NewPrintTells(e)'
      BY <1>1, <1>2, <2>1 DEF RunInv, NewPrintTells, Tells, Enabled, Exists
    <3>5. CallSees(e)'
      BY <1>1, <1>2, <3>1 DEF RunInv, CallSees
    <3> QED
      BY <3>2, <3>3, <3>4, <3>5 DEF RunInv
  <2>3. PrintsOfRuns'
    BY <1>1, <2>1 DEF IndexInv, PrintsOfRuns
  <2>4. IndexInv'
    BY <1>1, <1>2, <2>1, <2>2, <2>3, OthersKeepIndex DEF IndexTypeOK
  <2> QED
    BY <1>2, <2>1, <2>4 DEF IndexTypeOK
<1>4. CASE ~(Cardinality(Changed(e)) > Cardinality(EnabledNow) \div 2)
  <2>1. /\ index' = [index EXCEPT ![e] = one]
        /\ \/ /\ Changed(e) = {}
              /\ xpc' = [xpc EXCEPT ![e] = "run"]
              /\ print' = [print EXCEPT ![e] = newPrint[e]]
              /\ read' = [read EXCEPT ![e] = Nothing]
              /\ expected' = [expected EXCEPT ![e] = {}]
           \/ /\ Changed(e) # {}
              /\ expected' = [expected EXCEPT ![e] = Changed(e)]
              /\ xpc' = [xpc EXCEPT ![e] = "put"]
              /\ UNCHANGED <<print, read>>
    BY <1>4 DEF ListRules, Ready
  <2> HIDE DEF one
  <2>2. index'[e] = one /\ read'[e] \in {read[e], Nothing}
    BY <1>2, <2>1 DEF IndexTypeOK
  <2>3. \A r \in RuleIds : one[r] = IF Enabled(r) THEN index[e][r] ELSE None
    BY DEF one
  <2>4. TimesTell(e)'
    <3>1. \A r \in RuleIds : index'[e][r] \in {index[e][r], None} /\ read'[e][r] \in {read[e][r], None}
      BY <2>2, <2>3 DEF Nothing
    <3> QED
      BY <1>1, <1>2, <3>1
         DEF RunInv, TimesTell, AsItStands, ReadAsItStands, Enabled, Exists
  <2>5. \A r \in RuleIds : r \notin Changed(e) /\ Enabled(r) => AsItStands(e, r)
    BY <1>2 DEF Changed, EnabledNow, RunInv, TimesTell
  <2>6. \A r \in RuleIds : Enabled(r) /\ AsItStands(e, r) => AsItStands(e, r)'
    BY <1>1, <2>2, <2>3 DEF AsItStands
  <2>7. /\ PrintsOfRuns' /\ newPrint'[e] = newPrint[e] /\ built'[e] = built[e] /\ began'[e] = began[e]
        /\ (Changed(e) = {} => print'[e] = newPrint[e]) /\ (Changed(e) # {} => print'[e] = print[e])
    BY <1>1, <2>1 DEF IndexInv, PrintsOfRuns
  <2>9. Tells(newPrint[e], began[e]) /\ began[e] \in 0 .. clock
    BY <1>1, <1>2 DEF RunInv, NewPrintTells, CallSees, IndexTypeOK, IndexInv, IndexTypes,
       EnabledRulesTypeOK, CatalogTypeOK
  <2>10. NewPrintTells(e)'
    BY <1>1, <2>7, <2>9 DEF NewPrintTells, Tells, Enabled, Exists
  <2>11. PrintTells(e)'
    <3>1. CASE Changed(e) = {}
      <4>1. Tells(newPrint[e], began[e])'
        BY <1>1, <2>7, <2>9 DEF Tells, Enabled, Exists
      <4>2. \A r \in RuleIds : Enabled(r)' => AsItStands(e, r)'
        BY <1>1, <2>5, <2>6, <3>1 DEF Enabled, Exists
      <4> QED
        BY <1>1, <2>7, <2>9, <3>1, <4>1, <4>2 DEF PrintTells
    <3>2. CASE Changed(e) # {}
      <4> SUFFICES ASSUME built[e] PROVE PrintTells(e)'
        BY <2>7 DEF PrintTells
      <4>1. PICK T \in 0 .. clock :
              /\ Tells(print[e], T)
              /\ \A r \in RuleIds : Enabled(r) /\ written[r] <= T => AsItStands(e, r)
        BY <1>2 DEF RunInv, PrintTells
      <4>2. Tells(print[e], T)'
        BY <1>1, <2>7, <3>2, <4>1 DEF Tells, Enabled, Exists
      <4>3. \A r \in RuleIds : Enabled(r)' /\ written'[r] <= T => AsItStands(e, r)'
        BY <1>1, <2>6, <4>1 DEF Enabled, Exists
      <4> QED
        BY <1>1, <4>1, <4>2, <4>3 DEF PrintTells
    <3> QED
      BY <3>1, <3>2
  <2>12. CallSees(e)'
    <3>1. \A r \in RuleIds : r \notin Changed(e) => IndexedStill(e, r)'
      BY <1>1, <2>2, <2>3, <2>5, <2>6 DEF IndexedStill, Enabled, Exists
    <3>2. CASE Changed(e) = {}
      <4>1. xpc'[e] = "run"
        BY <1>2, <2>1, <3>2 DEF IndexTypeOK
      <4> QED
        BY <1>1, <1>2, <2>7, <3>1, <3>2, <4>1 DEF CallSees, RunInv, IndexedStill
    <3>3. CASE Changed(e) # {}
      <4>1. xpc'[e] = "put" /\ expected'[e] = Changed(e)
        BY <1>2, <2>1, <3>3 DEF IndexTypeOK
      <4>2. \A r \in Changed(e) : Enabled(r)'
        BY <1>1 DEF Changed, EnabledNow, Enabled, Exists
      <4> QED
        BY <1>1, <1>2, <2>7, <3>1, <4>1, <4>2 DEF CallSees, RunInv
    <3> QED
      BY <3>2, <3>3
  <2>13. RunInv(e)'
    BY <2>4, <2>10, <2>11, <2>12 DEF RunInv
  <2>14. \A d \in Runs : d # e =>
           /\ index'[d] = index[d] /\ read'[d] = read[d] /\ xpc'[d] = xpc[d]
           /\ built'[d] = built[d] /\ expected'[d] = expected[d] /\ began'[d] = began[d]
           /\ print'[d] = print[d] /\ newPrint'[d] = newPrint[d]
    BY <1>1, <1>2, <2>1 DEF IndexTypeOK, IndexInv, PrintsOfRuns
  <2>15. IndexInv'
    BY <1>1, <2>7, <2>13, <2>14, OthersKeepIndex
  <2> QED
    BY <2>2, <2>3, <2>15
<1> QED
  BY <1>3, <1>4

LEMMA ReadRulesKeepsIndex ==
  ASSUME IndexInv, IndexTypes', NEW e \in Runs, ReadRules(e)
  PROVE  IndexInv'
<1>1. /\ UNCHANGED <<rule, tree, written, clock, index, built, print, newPrint, expected, began>>
      /\ clock \in Nat
  BY DEF ReadRules, catalogVars, IndexInv, IndexTypes, EnabledRulesTypeOK, CatalogTypeOK
<1>2. RunInv(e) /\ IndexTypeOK
  BY DEF IndexInv, IndexTypes, EnabledRulesTypeOK
<1>3. PICK S \in SUBSET RuleIds :
        /\ read' = [read EXCEPT ![e] = ReadEnabled(S)]
        /\ \/ xpc[e] = "rebuild" /\ xpc' = [xpc EXCEPT ![e] = "rebuildTrees"] /\ S = RuleIds
           \/ xpc[e] = "put" /\ xpc' = [xpc EXCEPT ![e] = "putTrees"] /\ S = expected[e]
  BY <1>2 DEF ReadRules, IndexTypeOK
<1>4. \A r \in RuleIds :
        read'[e][r] = IF r \in S /\ Enabled(r)
                      THEN [rev |-> rule[r].rev, at |-> written[r]] ELSE None
  BY <1>2, <1>3 DEF IndexTypeOK, ReadEnabled
<1>6. TimesTell(e)'
  <2>1. \A r \in RuleIds : written[r] <= clock
    BY DEF IndexInv, IndexTypes, EnabledRulesTypeOK, CatalogTypeOK
  <2> SUFFICES ASSUME NEW r \in RuleIds
               PROVE  /\ index'[e][r] # None =>
                           /\ index'[e][r].at <= clock'
                           /\ index'[e][r].at = written'[r] => Enabled(r)' /\ AsItStands(e, r)'
                      /\ read'[e][r] # None =>
                           /\ read'[e][r].at <= clock'
                           /\ read'[e][r].at = written'[r] => Enabled(r)' /\ ReadAsItStands(e, r)'
    BY DEF TimesTell
  <2>2. index'[e][r] # None =>
          /\ index'[e][r].at <= clock'
          /\ index'[e][r].at = written'[r] => Enabled(r)' /\ AsItStands(e, r)'
    BY <1>1, <1>2 DEF RunInv, TimesTell, AsItStands, Enabled, Exists
  <2>3. read'[e][r] # None =>
          /\ read'[e][r].at <= clock'
          /\ Enabled(r)' /\ ReadAsItStands(e, r)'
    BY <1>1, <1>4, <2>1 DEF ReadAsItStands, Enabled, Exists
  <2> QED
    BY <2>2, <2>3
<1>7. PrintTells(e)'
  BY <1>1, <1>2 DEF RunInv, PrintTells, Tells, AsItStands, Enabled, Exists
<1>8. NewPrintTells(e)'
  BY <1>1, <1>2, <1>3 DEF RunInv, NewPrintTells, Tells, Enabled, Exists
<1>9. CallSees(e)'
  <2>1. /\ xpc'[e] = "rebuildTrees" /\ S = RuleIds
        \/ /\ xpc'[e] = "putTrees" /\ xpc[e] = "put" /\ S = expected[e]
    BY <1>2, <1>3 DEF IndexTypeOK
  <2>2. \A r \in S : ReadStill(e, r)'
    BY <1>1, <1>4 DEF ReadStill, ReadAsItStands, Enabled, Exists
  <2>3. \A r \in RuleIds : IndexedStill(e, r) => IndexedStill(e, r)'
    BY <1>1 DEF IndexedStill, AsItStands, Enabled, Exists
  <2>4. \A r \in RuleIds : Enabled(r) => Enabled(r)'
    BY <1>1 DEF Enabled, Exists
  <2> QED
    BY <1>1, <1>2, <2>1, <2>2, <2>3, <2>4 DEF RunInv, CallSees
<1>10. PrintsOfRuns'
  BY <1>1 DEF IndexInv, PrintsOfRuns
<1>11. RunInv(e)'
  BY <1>6, <1>7, <1>8, <1>9 DEF RunInv
<1>12. \A d \in Runs : d # e => xpc'[d] = xpc[d] /\ read'[d] = read[d]
  BY <1>2, <1>3 DEF IndexTypeOK
<1> QED
  BY <1>1, <1>10, <1>11, <1>12, OthersKeepIndex

(* The trees complete what was read: the rules as they stand, for those    *)
(* not written since the call began.                                       *)
LEMMA TreesKeepIndex ==
  ASSUME IndexInv, IndexTypes', NEW e \in Runs, ReadAllTrees(e) \/ PutTrees(e)
  PROVE  /\ IndexInv'
         /\ \A r \in RuleIds : written[r] <= began[e] /\ ~Enabled(r) => index'[e][r] = None
<1>1. /\ UNCHANGED <<rule, tree, written, clock, newPrint, began>>
      /\ read' = [read EXCEPT ![e] = Nothing]
      /\ xpc' = [xpc EXCEPT ![e] = "run"]
      /\ print' = [print EXCEPT ![e] = newPrint[e]]
      /\ expected' = [expected EXCEPT ![e] = {}]
      /\ built' \in {built, [built EXCEPT ![e] = TRUE]}
      /\ xpc[e] \in {"rebuildTrees", "putTrees"}
  BY DEF ReadAllTrees, PutTrees, Ready, catalogVars
<1>2. RunInv(e) /\ IndexTypeOK /\ clock \in Nat
  BY DEF IndexInv, IndexTypes, EnabledRulesTypeOK, CatalogTypeOK
<1>3. /\ \A d \in Runs : d # e => index'[d] = index[d]
      /\ \A r \in RuleIds :
           \/ /\ xpc[e] = "putTrees" /\ r \notin expected[e]
              /\ index'[e][r] = index[e][r]
           \/ /\ xpc[e] = "rebuildTrees" \/ r \in expected[e]
              /\ read[e][r] = None
              /\ index'[e][r] = None
           \/ /\ xpc[e] = "rebuildTrees" \/ r \in expected[e]
              /\ read[e][r] # None
              /\ \E t \in {tree[r], None} :
                   /\ Enabled(r) => t = tree[r]
                   /\ index'[e][r] = [rev |-> read[e][r].rev, at |-> read[e][r].at, tree |-> t]
  <2>1. CASE ReadAllTrees(e)
    <3> DEFINE one == [r \in RuleIds |->
                 IF read[e][r] = None THEN None
                 ELSE IndexedAs(e, r, IF Enabled(r) THEN tree[r] ELSE None)]
    <3>1. index' = [index EXCEPT ![e] = one] /\ xpc[e] = "rebuildTrees"
      BY <2>1 DEF ReadAllTrees
    <3>2. \A r \in RuleIds :
            one[r] = IF read[e][r] = None THEN None
                     ELSE [rev |-> read[e][r].rev, at |-> read[e][r].at,
                           tree |-> IF Enabled(r) THEN tree[r] ELSE None]
      BY DEF IndexedAs
    <3> HIDE DEF one
    <3>3. index'[e] = one /\ \A d \in Runs : d # e => index'[d] = index[d]
      BY <1>2, <3>1 DEF IndexTypeOK
    <3> QED
      BY <3>1, <3>2, <3>3
  <2>2. CASE PutTrees(e)
    <3> DEFINE one == [r \in RuleIds |->
                 IF r \notin expected[e] THEN index[e][r]
                 ELSE IF read[e][r] = None THEN None ELSE IndexedAs(e, r, tree[r])]
    <3>1. index' = [index EXCEPT ![e] = one] /\ xpc[e] = "putTrees"
      BY <2>2 DEF PutTrees
    <3>2. \A r \in RuleIds :
            one[r] = IF r \notin expected[e] THEN index[e][r]
                     ELSE IF read[e][r] = None THEN None
                     ELSE [rev |-> read[e][r].rev, at |-> read[e][r].at, tree |-> tree[r]]
      BY DEF IndexedAs
    <3> HIDE DEF one
    <3>3. index'[e] = one /\ \A d \in Runs : d # e => index'[d] = index[d]
      BY <1>2, <3>1 DEF IndexTypeOK
    <3> QED
      BY <3>1, <3>2, <3>3
  <2> QED
    BY <2>1, <2>2
<1>4. TimesTell(e)'
  <2> SUFFICES ASSUME NEW r \in RuleIds, index'[e][r] # None
               PROVE  /\ index'[e][r].at <= clock
                      /\ index'[e][r].at = written[r] => Enabled(r) /\ AsItStands(e, r)'
    BY <1>1, <1>2 DEF TimesTell, Enabled, Exists, IndexTypeOK, Nothing
  <2>1. CASE index'[e][r] = index[e][r]
    BY <1>1, <1>2, <2>1 DEF RunInv, TimesTell, AsItStands
  <2>2. ASSUME read[e][r] # None, NEW t, Enabled(r) => t = tree[r],
               index'[e][r] = [rev |-> read[e][r].rev, at |-> read[e][r].at, tree |-> t]
        PROVE  /\ index'[e][r].at <= clock
               /\ index'[e][r].at = written[r] => Enabled(r) /\ AsItStands(e, r)'
    <3>1. index'[e][r].at = read[e][r].at /\ read[e][r].at <= clock
      BY <1>2, <2>2 DEF RunInv, TimesTell
    <3>2. ASSUME read[e][r].at = written[r]
          PROVE  Enabled(r) /\ read[e][r].rev = rule[r].rev
      <4>1. Enabled(r) /\ ReadAsItStands(e, r)
        BY <1>2, <2>2, <3>2 DEF RunInv, TimesTell
      <4>2. read[e][r] = [rev |-> rule[r].rev, at |-> written[r]]
        BY <4>1 DEF ReadAsItStands
      <4> QED
        BY <4>1, <4>2
    <3> QED
      BY <1>1, <2>2, <3>1, <3>2 DEF AsItStands
  <2> QED
    BY <1>3, <2>1, <2>2
<1>5. \A r \in RuleIds : written[r] <= began[e] =>
        IF Enabled(r) THEN AsItStands(e, r)' ELSE index'[e][r] = None
  <2> SUFFICES ASSUME NEW r \in RuleIds, written[r] <= began[e]
               PROVE  IF Enabled(r) THEN AsItStands(e, r)' ELSE index'[e][r] = None
    OBVIOUS
  <2>1. CASE xpc[e] = "putTrees" /\ r \notin expected[e]
    BY <1>1, <1>2, <1>3, <2>1 DEF RunInv, CallSees, IndexedStill, AsItStands
  <2>2. CASE xpc[e] = "rebuildTrees" \/ r \in expected[e]
    <3>1. ReadStill(e, r)
      BY <1>1, <1>2, <2>2 DEF RunInv, CallSees
    <3>2. CASE ~Enabled(r)
      BY <1>1, <1>3, <2>2, <3>1, <3>2 DEF ReadStill
    <3>3. CASE Enabled(r)
      <4>1. read[e][r] = [rev |-> rule[r].rev, at |-> written[r]]
        BY <3>1, <3>3 DEF ReadStill, ReadAsItStands
      <4>2. read[e][r] # None
        <5>1. rule[r].rev \in Nat /\ written[r] \in Nat
          BY <3>3 DEF Enabled, Exists, IndexInv, IndexTypes, EnabledRulesTypeOK, CatalogTypeOK, Rows
        <5> QED
          BY <4>1, <5>1, NoRowAssumption DEF ReadRows
      <4>3. ~(xpc[e] = "putTrees" /\ r \notin expected[e])
        BY <2>2
      <4>4. index'[e][r] = [rev |-> read[e][r].rev, at |-> read[e][r].at, tree |-> tree[r]]
        BY <1>3, <3>3, <4>2, <4>3
      <4>5. index'[e][r] = [rev |-> rule[r].rev, at |-> written[r], tree |-> tree[r]]
        BY <4>1, <4>4
      <4>6. AsItStands(e, r)'
        BY <1>1, <4>5 DEF AsItStands
      <4> QED
        BY <3>3, <4>6
    <3> QED
      BY <3>2, <3>3
  <2> QED
    BY <1>1, <2>1, <2>2
<1>6. CallSees(e)'
  <2>1. xpc'[e] = "run"
    BY <1>1, <1>2 DEF IndexTypeOK
  <2> QED
    BY <1>1, <1>2, <1>5, <2>1 DEF RunInv, CallSees, Enabled, Exists
<1>7. PrintsOfRuns' /\ print'[e] = newPrint[e]
  BY <1>1 DEF IndexInv, PrintsOfRuns
<1>8. PrintTells(e)'
  <2>1. Tells(newPrint[e], began[e]) /\ began[e] \in 0 .. clock
    BY <1>1, <1>2 DEF RunInv, NewPrintTells, CallSees, IndexTypeOK
  <2>2. Tells(print[e], began[e])'
    BY <1>1, <1>7, <2>1 DEF Tells, Enabled, Exists
  <2> QED
    BY <1>1, <1>5, <2>1, <2>2 DEF PrintTells, Enabled, Exists
<1>9. NewPrintTells(e)'
  BY <1>1, <1>2 DEF NewPrintTells, IndexTypeOK
<1>10. RunInv(e)'
  BY <1>4, <1>6, <1>8, <1>9 DEF RunInv
<1>11. \A d \in Runs : d # e =>
         /\ read'[d] = read[d] /\ xpc'[d] = xpc[d]
         /\ built'[d] = built[d] /\ expected'[d] = expected[d] /\ began'[d] = began[d]
         /\ print'[d] = print[d] /\ newPrint'[d] = newPrint[d]
  BY <1>1, <1>2 DEF IndexTypeOK, IndexInv, PrintsOfRuns
<1>12. IndexInv'
  BY <1>1, <1>3, <1>7, <1>10, <1>11, OthersKeepIndex
<1> QED
  BY <1>5, <1>12

LEMMA RecordKeepsIndex ==
  ASSUME IndexInv, IndexTypes', NEW e \in Runs, NEW S \in SUBSET RuleIds, Record(e, S)
  PROVE  IndexInv'
<1>1. UNCHANGED <<rule, tree, written, clock, indexVars>>
  BY DEF Record
<1>2. IndexInv'
  <2>1. WrittenOnce' /\ PrintsOfRuns'
    BY <1>1 DEF IndexInv, WrittenOnce, PrintsOfRuns, Exists, indexVars
  <2>2. ASSUME NEW d \in Runs PROVE RunInv(d)'
    <3>1. RunInv(d)
      BY DEF IndexInv
    <3> QED
      BY <1>1, <3>1 DEF RunInv, TimesTell, CallSees, PrintTells, NewPrintTells, Tells, AsItStands,
         ReadAsItStands, IndexedStill, ReadStill, Enabled, Exists, indexVars
  <2> QED
    BY <2>1, <2>2 DEF IndexInv
<1> QED
  BY <1>2

LEMMA EndingKeepsIndex ==
  ASSUME IndexInv, IndexTypes', NEW e \in Runs, EndRun(e) \/ Restart(e)
  PROVE  IndexInv'
<1>1. /\ UNCHANGED <<rule, tree, written, clock, began>>
      /\ xpc' = [xpc EXCEPT ![e] = "idle"]
      /\ newPrint' = [newPrint EXCEPT ![e] = None]
      /\ read' = [read EXCEPT ![e] = Nothing]
      /\ expected' = [expected EXCEPT ![e] = {}]
      /\ \/ UNCHANGED <<index, built, print>>
         \/ /\ index' = [index EXCEPT ![e] = Nothing]
            /\ built' = [built EXCEPT ![e] = FALSE]
            /\ print' = [print EXCEPT ![e] = None]
  BY DEF EndRun, Restart, catalogVars
<1>2. RunInv(e) /\ IndexTypeOK
  BY DEF IndexInv, IndexTypes, EnabledRulesTypeOK
<1>3. xpc'[e] = "idle" /\ \A r \in RuleIds : read'[e][r] = None
  BY <1>1, <1>2 DEF IndexTypeOK, Nothing
<1>4. \/ index'[e] = index[e] /\ built'[e] = built[e] /\ print'[e] = print[e]
      \/ built'[e] = FALSE /\ \A r \in RuleIds : index'[e][r] = None
  BY <1>1, <1>2 DEF IndexTypeOK, Nothing
<1>5. TimesTell(e)'
  BY <1>1, <1>2, <1>3, <1>4 DEF RunInv, TimesTell, AsItStands, Enabled, Exists
<1>6. CallSees(e)' /\ NewPrintTells(e)'
  BY <1>1, <1>2, <1>3 DEF RunInv, CallSees, NewPrintTells
<1>7. PrintTells(e)'
  <2>1. CASE index'[e] = index[e] /\ built'[e] = built[e] /\ print'[e] = print[e]
    BY <1>1, <1>2, <2>1 DEF RunInv, PrintTells, Tells, AsItStands, Enabled, Exists
  <2>2. CASE built'[e] = FALSE
    BY <2>2 DEF PrintTells
  <2> QED
    BY <1>4, <2>1, <2>2
<1>8. PrintsOfRuns'
  BY <1>1 DEF IndexInv, PrintsOfRuns
<1>9. RunInv(e)'
  BY <1>5, <1>6, <1>7 DEF RunInv
<1>10. \A d \in Runs : d # e =>
         /\ index'[d] = index[d] /\ read'[d] = read[d] /\ xpc'[d] = xpc[d]
         /\ built'[d] = built[d] /\ expected'[d] = expected[d] /\ began'[d] = began[d]
         /\ print'[d] = print[d] /\ newPrint'[d] = newPrint[d]
  BY <1>1, <1>2 DEF IndexTypeOK, IndexInv, PrintsOfRuns
<1> QED
  BY <1>1, <1>8, <1>9, <1>10, OthersKeepIndex

LEMMA IndexStep ==
  ASSUME IndexInv, [EnabledRulesNext]_enabledVars
  PROVE  IndexInv'
<1>1. ASSUME NEW w \in Writers, RequestStep(w), UNCHANGED indexVars
      PROVE  IndexInv'
  <2>1. IndexTypes' /\ WritesOne
    BY <1>1, RequestTypes DEF IndexInv
  <2> QED
    BY <1>1, <2>1, WritesKeepIndex
<1>2. ASSUME NEW e \in Runs, RunStep(e)
      PROVE  IndexInv'
  <2>1. IndexTypes'
    BY <1>2, RunTypes DEF IndexInv
  <2> QED
    BY <1>2, <2>1, TakeFingerprintKeepsIndex, ListRulesKeepsIndex, ReadRulesKeepsIndex,
       TreesKeepIndex, RecordKeepsIndex, EndingKeepsIndex DEF RunStep
<1>3. CASE UNCHANGED enabledVars
  <2>1. IndexTypes' /\ WrittenOnce' /\ PrintsOfRuns'
    BY <1>3 DEF enabledVars, catalogVars, requestVars, indexVars, IndexInv, IndexTypes,
       EnabledRulesTypeOK, CatalogTypeOK, IndexTypeOK, RequestsRead, WrittenOnce, PrintsOfRuns, Exists
  <2>2. ASSUME NEW d \in Runs PROVE RunInv(d)'
    <3>1. RunInv(d)
      BY DEF IndexInv
    <3> QED
      BY <1>3, <3>1 DEF RunInv, TimesTell, CallSees, PrintTells, NewPrintTells, Tells, AsItStands,
         ReadAsItStands, IndexedStill, ReadStill, Enabled, Exists, enabledVars, catalogVars, indexVars
  <2> QED
    BY <2>1, <2>2 DEF IndexInv
<1> QED
  BY <1>1, <1>2, <1>3 DEF EnabledRulesNext

(* The index invariant holds, whoever writes. *)
LEMMA IndexHolds == EnabledRulesSpec => []IndexInv
<1>1. IndexInv /\ [EnabledRulesNext]_enabledVars => IndexInv'
  BY IndexStep
<1> QED
  BY IndexInitial, <1>1, PTL DEF EnabledRulesSpec

(* The types of the catalog and of every index hold, with any number of    *)
(* requests writing rules at once.                                         *)
THEOREM EnabledRulesTypeCorrect == EnabledRulesSpec => []EnabledRulesTypeOK
<1>1. IndexInv => EnabledRulesTypeOK
  BY DEF IndexInv, IndexTypes
<1> QED
  BY <1>1, IndexHolds, PTL

(* An enabled rule not written since the call of index began is indexed as *)
(* it stands when the call returns, however requests and earlier calls     *)
(* fell between its queries; the fingerprint included, which is the same   *)
(* only if nothing enabled was written (EnabledRules.index).               *)
THEOREM EnabledAreIndexed == EnabledRulesSpec => []EnabledIndexedAsTheyStand
<1>1. IndexInv => EnabledIndexedAsTheyStand
  BY DEF IndexInv, RunInv, CallSees, EnabledIndexedAsTheyStand, AsItStands
<1> QED
  BY <1>1, IndexHolds, PTL

(* A call that lists or reads the rules leaves none in the index that was  *)
(* disabled or deleted before the call began (_rebuild and _put read the   *)
(* enabled rules, and the listing drops the others).                       *)
THEOREM DisabledAreDropped == EnabledRulesSpec => OnlyEnabledListed
<1>1. ASSUME IndexInv, [EnabledRulesNext]_enabledVars, NEW e \in Runs, NEW r \in RuleIds,
             xpc[e] \in {"list", "rebuildTrees", "putTrees"}, xpc'[e] = "run",
             written[r] <= began[e], ~Enabled(r)
      PROVE  index'[e][r] = None
  <2>1. xpc'[e] # xpc[e] /\ xpc \in [Runs -> IndexPcs]
    BY <1>1 DEF IndexInv, IndexTypes, EnabledRulesTypeOK, IndexTypeOK
  <2>2. PICK d \in Runs : RunStep(d)
    BY <1>1, <2>1 DEF EnabledRulesNext, enabledVars, indexVars
  <2>3. ~EndRun(d) /\ ~Restart(d) /\ ~TakeFingerprint(d) /\ ~\E S \in SUBSET RuleIds : Record(d, S)
    BY <1>1, <2>1 DEF EndRun, Restart, TakeFingerprint, Ready, Record, indexVars
  <2>4. IndexTypes'
    BY <1>1, <2>2, RunTypes DEF IndexInv
  <2>5. d = e
    BY <2>1, <2>2, <2>3 DEF RunStep, ListRules, ReadRules, ReadAllTrees, PutTrees, Ready
  <2>6. CASE ListRules(e)
    BY <1>1, <2>4, <2>6, ListRulesKeepsIndex
  <2>7. CASE ReadAllTrees(e) \/ PutTrees(e)
    BY <1>1, <2>4, <2>7, TreesKeepIndex
  <2>8. CASE ReadRules(e)
    BY <1>1, <2>1, <2>8 DEF ReadRules
  <2> QED
    BY <2>2, <2>3, <2>5, <2>6, <2>7, <2>8 DEF RunStep
<1>2. IndexInv /\ [EnabledRulesNext]_enabledVars
        => [\A e \in Runs, r \in RuleIds :
              /\ xpc[e] \in {"list", "rebuildTrees", "putTrees"} /\ xpc'[e] = "run"
              /\ written[r] <= began[e] /\ ~Enabled(r)
              => index'[e][r] = None]_enabledVars
  BY <1>1
<1> QED
  BY <1>2, IndexHolds, PTL DEF EnabledRulesSpec, OnlyEnabledListed
------------------------------------------------------------------------------
(* Revisions. *)

(* A row, an index entry or a match of a revision: of the rule as it is, or *)
(* of an earlier revision.                                                  *)
Current(r, rev) == Exists(r) => rev <= rule[r].rev

(* What a request has read of its rule still stands. *)
RequestUpToDate ==
  \A w \in Writers : wpc[w] # "idle" =>
    /\ mine[w] \in Copies
    /\ Exists(mine[w].rule)
    /\ mine[w].rev = rule[mine[w].rule].rev
    /\ wpc[w] = "write" => mine[w].tree = tree[mine[w].rule]

MatchesOfRevisions ==
  \A m \in matched :
    /\ Current(m.rule, m.rev)
    /\ Exists(m.rule) /\ m.rev = rule[m.rule].rev => m.ran = tree[m.rule]

IndexOfRevisions ==
  \A e \in Runs, r \in RuleIds : index[e][r] # None =>
    /\ Current(r, index[e][r].rev)
    /\ Exists(r) /\ index[e][r].rev = rule[r].rev => index[e][r].tree \in {tree[r], None}

ReadOfRevisions ==
  \A e \in Runs, r \in RuleIds : read[e][r] # None => Current(r, read[e][r].rev)

(* Nothing names a rule that was never written. *)
Unwritten ==
  \A r \in RuleIds : written[r] = 0 =>
    /\ rule[r] = None
    /\ \A m \in matched : m.rule # r
    /\ \A e \in Runs : index[e][r] = None /\ read[e][r] = None

RevisionInv ==
  /\ EnabledRulesTypeOK
  /\ RequestUpToDate
  /\ MatchesOfRevisions
  /\ IndexOfRevisions
  /\ ReadOfRevisions
  /\ Unwritten

OneWriter == \A v, w \in Writers : v = w

LEMMA RevisionInitial == EnabledRulesInit => RevisionInv
<1> SUFFICES ASSUME EnabledRulesInit PROVE RevisionInv
  OBVIOUS
<1> USE DEF EnabledRulesInit, CatalogInit, IndexInit, Nothing
<1>1. CatalogTypeOK
  BY MaxWritesAssumption DEF CatalogTypeOK, TreeOrNone
<1>2. IndexTypeOK
  BY DEF IndexTypeOK, IndexPcs
<1> QED
  BY <1>1, <1>2 DEF RevisionInv, EnabledRulesTypeOK, RequestUpToDate, MatchesOfRevisions,
     IndexOfRevisions, ReadOfRevisions, Unwritten
------------------------------------------------------------------------------
(* Requests. *)

(* A request that only reads, or gives up, changes what it has read alone. *)
LEMMA ReadingKeepsRevisions ==
  ASSUME RevisionInv, OneWriter, NEW w \in Writers, UNCHANGED indexVars,
         (\E r \in RuleIds : ReadRule(w, r)) \/ ReadTree(w) \/ RequestFails(w)
  PROVE  RevisionInv'
<1> USE DEF RevisionInv, EnabledRulesTypeOK
<1>1. UNCHANGED <<catalogVars, indexVars>>
  BY DEF ReadRule, ReadTree, RequestFails
<1>2. ASSUME NEW r \in RuleIds, ReadRule(w, r)
      PROVE  CatalogTypeOK' /\ RequestUpToDate'
  <2>1. [rule |-> r, rev |-> rule[r].rev, tree |-> None] \in Copies
    BY <1>2 DEF ReadRule, CatalogTypeOK, Exists, Rows, Copies, TreeOrNone
  <2> QED
    BY <1>1, <1>2, <2>1
       DEF ReadRule, CatalogTypeOK, RequestUpToDate, OneWriter, catalogVars, Exists, Copies
<1>3. ASSUME ReadTree(w)
      PROVE  CatalogTypeOK' /\ RequestUpToDate'
  <2>1. mine[w] \in Copies /\ Exists(mine[w].rule) /\ mine[w].rev = rule[mine[w].rule].rev
    BY <1>3 DEF ReadTree, RequestUpToDate
  <2>2. mine'[w] = [mine[w] EXCEPT !.tree = tree[mine[w].rule]]
    BY <1>3 DEF ReadTree, CatalogTypeOK
  <2>3. mine'[w] \in Copies
    BY <2>1, <2>2 DEF Copies, CatalogTypeOK
  <2>4. /\ mine'[w].rule = mine[w].rule /\ mine'[w].rev = mine[w].rev
        /\ mine'[w].tree = tree[mine[w].rule]
    BY <2>1, <2>2 DEF Copies
  <2>5. mine' \in [Writers -> Copies \cup {None}] /\ wpc' \in [Writers -> {"idle", "tree", "write"}]
    BY <1>3, <2>3 DEF ReadTree, CatalogTypeOK
  <2>6. CatalogTypeOK'
    BY <1>1, <2>5 DEF CatalogTypeOK, catalogVars
  <2>7. RequestUpToDate'
    BY <1>1, <2>1, <2>3, <2>4 DEF RequestUpToDate, OneWriter, catalogVars, Exists
  <2> QED
    BY <2>6, <2>7
<1>4. ASSUME RequestFails(w)
      PROVE  CatalogTypeOK' /\ RequestUpToDate'
  BY <1>1, <1>4 DEF RequestFails, Answered, CatalogTypeOK, RequestUpToDate, OneWriter, catalogVars
<1>5. IndexTypeOK' /\ MatchesOfRevisions' /\ IndexOfRevisions' /\ ReadOfRevisions' /\ Unwritten'
  BY <1>1 DEF catalogVars, indexVars, IndexTypeOK, MatchesOfRevisions, IndexOfRevisions,
     ReadOfRevisions, Unwritten, Current, Exists
<1> QED
  BY <1>2, <1>3, <1>4, <1>5

(* A rule is created where nothing names it. *)
LEMMA CreateKeepsRevisions ==
  ASSUME RevisionInv, OneWriter, UNCHANGED indexVars,
         NEW w \in Writers, NEW r \in RuleIds, NEW t \in Trees, NEW on \in BOOLEAN,
         Create(w, r, t, on)
  PROVE  RevisionInv'
<1> USE DEF RevisionInv, EnabledRulesTypeOK
<1>1. /\ UNCHANGED <<matched, wpc, mine, index, read>>
      /\ written[r] = 0 /\ wpc[w] = "idle"
  BY DEF Create, requestVars, indexVars
<1>2. /\ rule' \in [RuleIds -> Rows \cup {None}]
      /\ tree' \in [RuleIds -> TreeOrNone]
      /\ \A s \in RuleIds : s # r => rule'[s] = rule[s] /\ tree'[s] = tree[s]
  BY DEF Create, CatalogTypeOK, Rows, TreeOrNone
<1>3. /\ clock' \in 0 .. MaxWrites /\ written' \in [RuleIds -> 0 .. clock']
      /\ written'[r] # 0 /\ \A s \in RuleIds : s # r => written'[s] = written[s]
  BY StampTypes DEF Create
<1>4. CatalogTypeOK'
  BY <1>1, <1>2, <1>3 DEF CatalogTypeOK
<1>5. IndexTypeOK'
  BY DEF IndexTypeOK, indexVars
<1>6. RequestUpToDate'
  BY <1>1 DEF RequestUpToDate, OneWriter
<1>7. MatchesOfRevisions'
  BY <1>1, <1>2 DEF MatchesOfRevisions, Unwritten, Current, Exists, CatalogTypeOK, Matches
<1>8. IndexOfRevisions'
  BY <1>1, <1>2 DEF IndexOfRevisions, Unwritten, Current, Exists
<1>9. ReadOfRevisions'
  BY <1>1, <1>2 DEF ReadOfRevisions, Unwritten, Current, Exists
<1>10. Unwritten'
  BY <1>1, <1>2, <1>3 DEF Unwritten
<1> QED
  BY <1>4, <1>5, <1>6, <1>7, <1>8, <1>9, <1>10

(* Under one writer, the row a request writes is the one it read: the      *)
(* revision goes up exactly when the tree changes.                         *)
LEMMA SaveKeepsRevisions ==
  ASSUME RevisionInv, OneWriter, UNCHANGED indexVars,
         NEW w \in Writers, NEW sent \in TreeOrNone, NEW on \in BOOLEAN,
         Save(w, sent, on)
  PROVE  RevisionInv'
<1> USE DEF RevisionInv, EnabledRulesTypeOK
<1> DEFINE r == mine[w].rule
<1>1. /\ mine[w] \in Copies /\ Exists(r) /\ mine[w].rev = rule[r].rev /\ mine[w].tree = tree[r]
      /\ r \in RuleIds /\ rule[r].rev \in Nat
  BY DEF Save, RequestUpToDate, Copies
<1>2. /\ UNCHANGED <<index, read>>
      /\ \A v \in Writers : wpc'[v] = "idle"
      /\ wpc' \in [Writers -> {"idle", "tree", "write"}]
      /\ mine' \in [Writers -> Copies \cup {None}]
  BY DEF Save, Answered, indexVars, OneWriter, CatalogTypeOK
<1>3. /\ clock' \in 0 .. MaxWrites /\ written' \in [RuleIds -> 0 .. clock']
      /\ written'[r] # 0 /\ \A s \in RuleIds : s # r => written'[s] = written[s]
  BY <1>1, StampTypes DEF Save
<1>4. \A s \in RuleIds : s # r => rule'[s] = rule[s] /\ tree'[s] = tree[s]
  BY DEF Save, CatalogTypeOK
<1>5. rule'[r] = [rev |-> SavedRevision(w, sent), enabled |-> on]
  BY <1>1 DEF Save, CatalogTypeOK
<1>6. IndexTypeOK' /\ RequestUpToDate'
  BY <1>2 DEF IndexTypeOK, indexVars, RequestUpToDate
<1>7. SavedRevision(w, sent) \in Nat
  BY <1>1 DEF SavedRevision
<1>8. rule' \in [RuleIds -> Rows \cup {None}]
  <2>1. [rev |-> SavedRevision(w, sent), enabled |-> on] \in Rows
    BY <1>7 DEF Rows
  <2> QED
    BY <2>1 DEF Save, CatalogTypeOK
<1>9. CASE Replaces(w, sent)
  <2>1. /\ rule'[r].rev = rule[r].rev + 1
        /\ tree' \in [RuleIds -> TreeOrNone]
        /\ matched' = {m \in matched : m.rule # r}
    BY <1>1, <1>5, <1>9 DEF Save, SavedRevision, CatalogTypeOK
  <2>2. CatalogTypeOK'
    BY <1>2, <1>3, <1>8, <2>1 DEF CatalogTypeOK
  <2>3. MatchesOfRevisions'
    BY <1>4, <2>1 DEF MatchesOfRevisions, Current, Exists, CatalogTypeOK, Matches
  <2>4. IndexOfRevisions'
    <3> SUFFICES ASSUME NEW e \in Runs, NEW s \in RuleIds, index[e][s] # None
                 PROVE  /\ Current(s, index[e][s].rev)'
                        /\ Exists(s)' /\ index'[e][s].rev = rule'[s].rev
                             => index'[e][s].tree \in {tree'[s], None}
      BY <1>2 DEF IndexOfRevisions
    <3>1. index[e][s].rev \in Nat
      BY DEF IndexTypeOK, Indexed
    <3>2. CASE s = r
      BY <1>1, <1>2, <2>1, <3>1, <3>2 DEF IndexOfRevisions, Current
    <3>3. CASE s # r
      BY <1>2, <1>4, <3>3 DEF IndexOfRevisions, Current, Exists
    <3> QED
      BY <3>2, <3>3
  <2>5. ReadOfRevisions'
    <3> SUFFICES ASSUME NEW e \in Runs, NEW s \in RuleIds, read[e][s] # None
                 PROVE  Current(s, read[e][s].rev)'
      BY <1>2 DEF ReadOfRevisions
    <3>1. read[e][s].rev \in Nat
      BY DEF IndexTypeOK, ReadRows
    <3>2. CASE s = r
      BY <1>1, <1>2, <2>1, <3>1, <3>2 DEF ReadOfRevisions, Current
    <3>3. CASE s # r
      BY <1>2, <1>4, <3>3 DEF ReadOfRevisions, Current, Exists
    <3> QED
      BY <3>2, <3>3
  <2>6. Unwritten'
    BY <1>2, <1>3, <1>4, <2>1 DEF Unwritten
  <2> QED
    BY <1>6, <2>2, <2>3, <2>4, <2>5, <2>6
<1>10. CASE ~Replaces(w, sent)
  <2>1. rule'[r].rev = rule[r].rev /\ tree' = tree /\ matched' = matched
    BY <1>1, <1>5, <1>10 DEF Save, SavedRevision
  <2>2. CatalogTypeOK'
    BY <1>2, <1>3, <1>8, <2>1 DEF CatalogTypeOK
  <2>3. \A s \in RuleIds : (Exists(s)' => Exists(s)) /\ rule'[s].rev = rule[s].rev
    BY <1>1, <1>4, <2>1 DEF Exists
  <2>4. MatchesOfRevisions'
    BY <2>1, <2>3 DEF MatchesOfRevisions, Current, CatalogTypeOK, Matches
  <2>5. IndexOfRevisions' /\ ReadOfRevisions'
    BY <1>2, <2>1, <2>3 DEF IndexOfRevisions, ReadOfRevisions, Current
  <2>6. Unwritten'
    BY <1>2, <1>3, <1>4, <2>1 DEF Unwritten
  <2> QED
    BY <1>6, <2>2, <2>4, <2>5, <2>6
<1> QED
  BY <1>9, <1>10

(* A deleted rule has no row for what names it to disagree with, and is    *)
(* not written again.                                                      *)
LEMMA DeleteKeepsRevisions ==
  ASSUME RevisionInv, OneWriter, UNCHANGED indexVars, NEW w \in Writers, Delete(w)
  PROVE  RevisionInv'
<1> USE DEF RevisionInv, EnabledRulesTypeOK
<1> DEFINE r == mine[w].rule
<1>1. r \in RuleIds
  BY DEF Delete, RequestUpToDate, Copies
<1>2. /\ UNCHANGED <<index, read>>
      /\ \A v \in Writers : wpc'[v] = "idle"
      /\ wpc' \in [Writers -> {"idle", "tree", "write"}]
      /\ mine' \in [Writers -> Copies \cup {None}]
  BY DEF Delete, Answered, indexVars, OneWriter, CatalogTypeOK
<1>3. /\ clock' \in 0 .. MaxWrites /\ written' \in [RuleIds -> 0 .. clock']
      /\ written'[r] # 0 /\ \A s \in RuleIds : s # r => written'[s] = written[s]
  BY <1>1, StampTypes DEF Delete
<1>4. /\ rule' \in [RuleIds -> Rows \cup {None}]
      /\ tree' \in [RuleIds -> TreeOrNone]
      /\ rule'[r] = None
      /\ \A s \in RuleIds : s # r => rule'[s] = rule[s] /\ tree'[s] = tree[s]
  BY <1>1 DEF Delete, CatalogTypeOK, TreeOrNone
<1>5. matched' \subseteq matched
  BY DEF Delete
<1>6. CatalogTypeOK'
  BY <1>2, <1>3, <1>4, <1>5 DEF CatalogTypeOK
<1>7. IndexTypeOK' /\ RequestUpToDate'
  BY <1>2 DEF IndexTypeOK, indexVars, RequestUpToDate
<1>8. MatchesOfRevisions'
  BY <1>4, <1>5 DEF MatchesOfRevisions, Current, Exists, CatalogTypeOK, Matches
<1>9. IndexOfRevisions' /\ ReadOfRevisions'
  BY <1>2, <1>4 DEF IndexOfRevisions, ReadOfRevisions, Current, Exists
<1>10. Unwritten'
  BY <1>2, <1>3, <1>4, <1>5 DEF Unwritten
<1> QED
  BY <1>6, <1>7, <1>8, <1>9, <1>10

LEMMA RequestKeepsRevisions ==
  ASSUME RevisionInv, OneWriter, UNCHANGED indexVars, NEW w \in Writers, RequestStep(w)
  PROVE  RevisionInv'
<1>1. CASE \E r \in RuleIds, t \in Trees, on \in BOOLEAN : Create(w, r, t, on)
  BY <1>1, CreateKeepsRevisions
<1>2. CASE (\E r \in RuleIds : ReadRule(w, r)) \/ ReadTree(w) \/ RequestFails(w)
  BY <1>2, ReadingKeepsRevisions
<1>3. CASE \E sent \in TreeOrNone, on \in BOOLEAN : Save(w, sent, on)
  BY <1>3, SaveKeepsRevisions
<1>4. CASE Delete(w)
  BY <1>4, DeleteKeepsRevisions
<1> QED
  BY <1>1, <1>2, <1>3, <1>4 DEF RequestStep

------------------------------------------------------------------------------
(* Calls of index, and runs. *)

(* A call that has not read trees yet changes what it has read, and at most *)
(* takes rules off the index.                                              *)
LEMMA ListingKeepsRevisions ==
  ASSUME RevisionInv, NEW e \in Runs, TakeFingerprint(e) \/ ListRules(e)
  PROVE  RevisionInv'
<1> USE DEF RevisionInv, EnabledRulesTypeOK
<1>1. UNCHANGED <<catalogVars, requestVars>>
  BY DEF TakeFingerprint, ListRules
<1>2. read' \in {read, [read EXCEPT ![e] = Nothing]}
  BY DEF TakeFingerprint, ListRules, Ready
<1>3. \A d \in Runs, r \in RuleIds : read'[d][r] \in {read[d][r], None}
  <2>1. CASE read' = read
    BY <2>1
  <2>2. CASE read' = [read EXCEPT ![e] = Nothing]
    <3> SUFFICES ASSUME NEW d \in Runs, NEW r \in RuleIds
                 PROVE  read'[d][r] \in {read[d][r], None}
      OBVIOUS
    <3>1. read'[d] = IF d = e THEN Nothing ELSE read[d]
      BY <2>2 DEF IndexTypeOK
    <3>2. Nothing[r] = None
      BY DEF Nothing
    <3> QED
      BY <3>1, <3>2
  <2> QED
    BY <1>2, <2>1, <2>2
<1>4. read' \in [Runs -> [RuleIds -> ReadRows \cup {None}]]
  BY <1>2 DEF Nothing, IndexTypeOK
<1>5. /\ index' \in [Runs -> [RuleIds -> Indexed \cup {None}]]
      /\ \A d \in Runs, r \in RuleIds : index'[d][r] \in {index[d][r], None}
  <2>1. CASE index' = index
    BY <2>1 DEF IndexTypeOK
  <2>2. CASE index' = [index EXCEPT ![e] =
               [r \in RuleIds |-> IF Enabled(r) THEN index[e][r] ELSE None]]
    BY <2>2 DEF IndexTypeOK
  <2> QED
    BY <2>1, <2>2 DEF TakeFingerprint, ListRules
<1>6. xpc' \in [Runs -> IndexPcs] /\ built' = built
  BY DEF TakeFingerprint, ListRules, Ready, IndexTypeOK, IndexPcs
<1>7. expected' \in [Runs -> SUBSET RuleIds]
  <2>1. Changed(e) \subseteq RuleIds
    BY DEF Changed, EnabledNow
  <2>2. expected' \in {expected, [expected EXCEPT ![e] = {}], [expected EXCEPT ![e] = Changed(e)]}
    BY DEF TakeFingerprint, ListRules, Ready
  <2> QED
    BY <2>1, <2>2 DEF IndexTypeOK
<1>8. began' \in [Runs -> Nat]
  <2>1. began' \in {began, [began EXCEPT ![e] = clock]}
    <3>1. CASE TakeFingerprint(e)
      BY <3>1 DEF TakeFingerprint
    <3>2. CASE ListRules(e)
      BY <3>2 DEF ListRules
    <3> QED
      BY <3>1, <3>2
  <2>2. clock \in Nat
    BY DEF CatalogTypeOK
  <2> QED
    BY <2>1, <2>2 DEF IndexTypeOK
<1>9. IndexTypeOK'
  BY <1>4, <1>5, <1>6, <1>7, <1>8 DEF IndexTypeOK
<1>10. CatalogTypeOK' /\ RequestUpToDate' /\ MatchesOfRevisions'
  BY <1>1 DEF catalogVars, requestVars, CatalogTypeOK, RequestUpToDate, MatchesOfRevisions,
     Current, Exists
<1>11. IndexOfRevisions' /\ ReadOfRevisions' /\ Unwritten'
  BY <1>1, <1>3, <1>5
     DEF catalogVars, IndexOfRevisions, ReadOfRevisions, Unwritten, Current, Exists
<1> QED
  BY <1>9, <1>10, <1>11

LEMMA ReadRulesKeepsRevisions ==
  ASSUME RevisionInv, NEW e \in Runs, ReadRules(e)
  PROVE  RevisionInv'
<1> USE DEF RevisionInv, EnabledRulesTypeOK
<1>1. UNCHANGED <<catalogVars, requestVars, index, built, expected, began>>
  BY DEF ReadRules
<1>2. PICK S \in SUBSET RuleIds : read' = [read EXCEPT ![e] = ReadEnabled(S)]
  BY DEF ReadRules, IndexTypeOK
<1>3. /\ ReadEnabled(S) \in [RuleIds -> ReadRows \cup {None}]
      /\ \A r \in RuleIds : ReadEnabled(S)[r] # None =>
           /\ rule[r] # None
           /\ ReadEnabled(S)[r].rev = rule[r].rev
  BY ReadEnabledIsCurrent
<1>4. read' \in [Runs -> [RuleIds -> ReadRows \cup {None}]]
  BY <1>2, <1>3 DEF IndexTypeOK
<1>5. xpc' \in [Runs -> IndexPcs]
  BY DEF ReadRules, IndexTypeOK, IndexPcs
<1>6. IndexTypeOK'
  BY <1>1, <1>4, <1>5 DEF IndexTypeOK
<1>7. CatalogTypeOK' /\ RequestUpToDate' /\ MatchesOfRevisions' /\ IndexOfRevisions'
  BY <1>1 DEF catalogVars, requestVars, CatalogTypeOK, RequestUpToDate, MatchesOfRevisions,
     IndexOfRevisions, Current, Exists
<1>8. \A d \in Runs, r \in RuleIds :
        read'[d][r] = IF d = e THEN ReadEnabled(S)[r] ELSE read[d][r]
  BY <1>2 DEF IndexTypeOK
<1>9. ReadOfRevisions'
  <2> SUFFICES ASSUME NEW d \in Runs, NEW r \in RuleIds, read'[d][r] # None
               PROVE  Current(r, read[d][r].rev)'
    BY DEF ReadOfRevisions
  <2>1. CASE d = e
    <3>1. read'[d][r].rev = rule[r].rev
      BY <1>3, <1>8, <2>1
    <3>2. rule' = rule /\ rule[r] \in Rows \cup {None}
      BY <1>1 DEF catalogVars, CatalogTypeOK
    <3> QED
      BY <3>1, <3>2 DEF Current, Exists, Rows
  <2>2. CASE d # e
    BY <1>1, <1>8, <2>2 DEF ReadOfRevisions, Current, Exists, catalogVars
  <2> QED
    BY <2>1, <2>2
<1>10. Unwritten'
  BY <1>1, <1>3, <1>8 DEF Unwritten, catalogVars
<1> QED
  BY <1>6, <1>7, <1>9, <1>10

(* A tree read after its row is the rule's, or the row is of an earlier    *)
(* revision.                                                               *)
LEMMA TreesKeepRevisions ==
  ASSUME RevisionInv, NEW e \in Runs, ReadAllTrees(e) \/ PutTrees(e)
  PROVE  RevisionInv'
<1> USE DEF RevisionInv, EnabledRulesTypeOK
<1>1. UNCHANGED <<catalogVars, requestVars, began>>
  BY DEF ReadAllTrees, PutTrees
<1>2. read' = [read EXCEPT ![e] = Nothing]
  BY DEF ReadAllTrees, PutTrees, Ready
<1>3. PICK one \in [RuleIds -> Indexed \cup {None}] :
        /\ index' = [index EXCEPT ![e] = one]
        /\ \A r \in RuleIds :
             \/ one[r] = None
             \/ one[r] = index[e][r]
             \/ /\ read[e][r] # None
                /\ \E t \in {tree[r], None} : one[r] = IndexedAs(e, r, t)
  <2>1. ASSUME NEW r \in RuleIds, NEW t \in {tree[r], None}, read[e][r] # None
        PROVE  IndexedAs(e, r, t) \in Indexed
    <3>1. read[e][r] \in ReadRows
      BY <2>1 DEF IndexTypeOK
    <3>2. t \in TreeOrNone
      BY DEF CatalogTypeOK, TreeOrNone
    <3> QED
      BY <3>1, <3>2 DEF IndexedAs, Indexed, ReadRows
  <2>2. CASE ReadAllTrees(e)
    <3> DEFINE one == [r \in RuleIds |->
                 IF read[e][r] = None THEN None
                 ELSE IndexedAs(e, r, IF Enabled(r) THEN tree[r] ELSE None)]
    <3>1. one \in [RuleIds -> Indexed \cup {None}]
      BY <2>1
    <3>2. index' = [index EXCEPT ![e] = one]
      BY <2>2 DEF ReadAllTrees
    <3>3. \A r \in RuleIds : read[e][r] # None =>
            \E t \in {tree[r], None} : one[r] = IndexedAs(e, r, t)
      OBVIOUS
    <3>4. \A r \in RuleIds : read[e][r] = None => one[r] = None
      OBVIOUS
    <3> HIDE DEF one
    <3> QED
      BY <3>1, <3>2, <3>3, <3>4
  <2>3. CASE PutTrees(e)
    <3> DEFINE one == [r \in RuleIds |->
                 IF r \notin expected[e] THEN index[e][r]
                 ELSE IF read[e][r] = None THEN None ELSE IndexedAs(e, r, tree[r])]
    <3>1. one \in [RuleIds -> Indexed \cup {None}]
      BY <2>1 DEF IndexTypeOK
    <3>2. index' = [index EXCEPT ![e] = one]
      BY <2>3 DEF PutTrees
    <3>3. \A r \in RuleIds :
            \/ one[r] = None
            \/ one[r] = index[e][r]
            \/ read[e][r] # None /\ one[r] = IndexedAs(e, r, tree[r])
      OBVIOUS
    <3> HIDE DEF one
    <3> QED
      BY <3>1, <3>2, <3>3
  <2> QED
    BY <2>2, <2>3
<1>4. /\ index' \in [Runs -> [RuleIds -> Indexed \cup {None}]]
      /\ read' \in [Runs -> [RuleIds -> ReadRows \cup {None}]]
  BY <1>2, <1>3 DEF IndexTypeOK, Nothing
<1>5. xpc' \in [Runs -> IndexPcs] /\ expected' \in [Runs -> SUBSET RuleIds]
  BY DEF ReadAllTrees, PutTrees, Ready, IndexTypeOK, IndexPcs
<1>6. built' \in [Runs -> BOOLEAN]
  BY DEF ReadAllTrees, PutTrees, IndexTypeOK
<1>7. IndexTypeOK'
  BY <1>1, <1>4, <1>5, <1>6 DEF IndexTypeOK
<1>8. CatalogTypeOK' /\ RequestUpToDate' /\ MatchesOfRevisions'
  BY <1>1 DEF catalogVars, requestVars, CatalogTypeOK, RequestUpToDate, MatchesOfRevisions,
     Current, Exists
<1>9. \A d \in Runs, r \in RuleIds :
        /\ read'[d][r] \in {read[d][r], None}
        /\ index'[d][r] = IF d = e THEN one[r] ELSE index[d][r]
  BY <1>2, <1>3 DEF IndexTypeOK, Nothing
<1>10. IndexOfRevisions'
  <2> SUFFICES ASSUME NEW d \in Runs, NEW r \in RuleIds, index'[d][r] # None
               PROVE  /\ Current(r, index'[d][r].rev)
                      /\ Exists(r) /\ index'[d][r].rev = rule[r].rev
                           => index'[d][r].tree \in {tree[r], None}
    BY <1>1 DEF catalogVars, IndexOfRevisions, Current, Exists
  <2>1. CASE index'[d][r] = index[d][r]
    BY <2>1 DEF IndexOfRevisions
  <2>2. CASE index'[d][r] # index[d][r]
    <3>1. d = e /\ read[e][r] # None
      BY <1>3, <1>9, <2>2
    <3>2. PICK t \in {tree[r], None} : index'[d][r] = IndexedAs(e, r, t)
      BY <1>3, <1>9, <2>2
    <3>3. index'[d][r].rev = read[e][r].rev /\ index'[d][r].tree = t
      BY <3>2 DEF IndexedAs
    <3> QED
      BY <3>1, <3>3 DEF ReadOfRevisions
  <2> QED
    BY <2>1, <2>2
<1>11. ReadOfRevisions'
  BY <1>1, <1>9 DEF catalogVars, ReadOfRevisions, Current, Exists
<1>12. Unwritten'
  BY <1>1, <1>3, <1>9 DEF catalogVars, Unwritten
<1> QED
  BY <1>7, <1>8, <1>10, <1>11, <1>12

(* A match names the revision its rule is indexed with, and the tree.      *)
LEMMA RecordKeepsRevisions ==
  ASSUME RevisionInv, NEW e \in Runs, NEW S \in SUBSET RuleIds, Record(e, S)
  PROVE  RevisionInv'
<1> USE DEF RevisionInv, EnabledRulesTypeOK
<1>1. UNCHANGED <<rule, tree, written, clock, requestVars, indexVars>>
  BY DEF Record
<1> DEFINE new == {[rule |-> r, rev |-> index[e][r].rev, ran |-> index[e][r].tree] : r \in S}
<1>2. matched' = matched \cup new
  BY DEF Record
<1>3. ASSUME NEW m \in new
      PROVE  /\ m \in Matches
             /\ index[e][m.rule] # None
             /\ m.rev = index[e][m.rule].rev /\ m.ran = index[e][m.rule].tree /\ m.ran # None
  <2>1. PICK r \in S : m = [rule |-> r, rev |-> index[e][r].rev, ran |-> index[e][r].tree]
    OBVIOUS
  <2>2. index[e][r] # None /\ index[e][r].tree # None
    BY DEF Record
  <2>3. index[e][r] \in Indexed
    BY <2>2 DEF IndexTypeOK
  <2> QED
    BY <2>1, <2>2, <2>3 DEF Indexed, Matches, TreeOrNone
<1>4. CatalogTypeOK'
  BY <1>1, <1>2, <1>3 DEF CatalogTypeOK, requestVars
<1>5. IndexTypeOK' /\ RequestUpToDate' /\ IndexOfRevisions' /\ ReadOfRevisions'
  BY <1>1 DEF requestVars, indexVars, IndexTypeOK, RequestUpToDate, IndexOfRevisions,
     ReadOfRevisions, Current, Exists
<1>6. MatchesOfRevisions'
  <2> SUFFICES ASSUME NEW m \in matched'
               PROVE  /\ Current(m.rule, m.rev)
                      /\ Exists(m.rule) /\ m.rev = rule[m.rule].rev => m.ran = tree[m.rule]
    BY <1>1 DEF MatchesOfRevisions, Current, Exists
  <2>1. CASE m \in matched
    BY <2>1 DEF MatchesOfRevisions
  <2>2. CASE m \in new
    <3>1. m.rule \in RuleIds
      BY <1>3, <2>2 DEF Matches
    <3> QED
      BY <1>3, <2>2, <3>1 DEF IndexOfRevisions
  <2> QED
    BY <1>2, <2>1, <2>2
<1>7. Unwritten'
  BY <1>1, <1>2, <1>3 DEF indexVars, Unwritten
<1> QED
  BY <1>4, <1>5, <1>6, <1>7

(* Ending or starting again forgets. *)
LEMMA EndingKeepsRevisions ==
  ASSUME RevisionInv, NEW e \in Runs, EndRun(e) \/ Restart(e)
  PROVE  RevisionInv'
<1> USE DEF RevisionInv, EnabledRulesTypeOK
<1>1. UNCHANGED <<catalogVars, requestVars, began>>
  BY DEF EndRun, Restart
<1>2. read' = [read EXCEPT ![e] = Nothing] /\ index' \in {index, [index EXCEPT ![e] = Nothing]}
  BY DEF EndRun, Restart
<1>3. xpc' \in [Runs -> IndexPcs] /\ expected' \in [Runs -> SUBSET RuleIds]
  BY DEF EndRun, Restart, IndexTypeOK, IndexPcs
<1>4. built' \in [Runs -> BOOLEAN]
  BY DEF EndRun, Restart, IndexTypeOK
<1>5. /\ index' \in [Runs -> [RuleIds -> Indexed \cup {None}]]
      /\ read' \in [Runs -> [RuleIds -> ReadRows \cup {None}]]
      /\ \A d \in Runs, r \in RuleIds :
           index'[d][r] \in {index[d][r], None} /\ read'[d][r] \in {read[d][r], None}
  <2>1. CASE index' = index
    BY <1>2, <2>1 DEF IndexTypeOK, Nothing
  <2>2. CASE index' = [index EXCEPT ![e] = Nothing]
    BY <1>2, <2>2 DEF IndexTypeOK, Nothing
  <2> QED
    BY <1>2, <2>1, <2>2
<1>6. IndexTypeOK'
  BY <1>1, <1>3, <1>4, <1>5 DEF IndexTypeOK
<1>7. CatalogTypeOK' /\ RequestUpToDate' /\ MatchesOfRevisions'
  BY <1>1 DEF catalogVars, requestVars, CatalogTypeOK, RequestUpToDate, MatchesOfRevisions,
     Current, Exists
<1>8. IndexOfRevisions' /\ ReadOfRevisions'
  <2>1. IndexOfRevisions'
    BY <1>1, <1>5 DEF catalogVars, IndexOfRevisions, Current, Exists
  <2>2. ReadOfRevisions'
    <3> SUFFICES ASSUME NEW d \in Runs, NEW r \in RuleIds, read'[d][r] # None
                 PROVE  Current(r, read[d][r].rev)'
      BY DEF ReadOfRevisions
    <3>1. read'[d][r] = read[d][r]
      BY <1>5
    <3>2. Current(r, read[d][r].rev)
      BY <3>1 DEF ReadOfRevisions
    <3> QED
      BY <1>1, <3>1, <3>2 DEF catalogVars, Current, Exists
  <2> QED
    BY <2>1, <2>2
<1>9. Unwritten'
  BY <1>1, <1>5 DEF catalogVars, Unwritten
<1> QED
  BY <1>6, <1>7, <1>8, <1>9

LEMMA RevisionStep ==
  ASSUME RevisionInv, OneWriter, [EnabledRulesNext]_enabledVars
  PROVE  RevisionInv'
<1>1. CASE \E w \in Writers : RequestStep(w) /\ UNCHANGED indexVars
  BY <1>1, RequestKeepsRevisions
<1>2. CASE \E e \in Runs : RunStep(e)
  BY <1>2, ListingKeepsRevisions, ReadRulesKeepsRevisions, TreesKeepRevisions,
     RecordKeepsRevisions, EndingKeepsRevisions DEF RunStep
<1>3. CASE UNCHANGED enabledVars
  BY <1>3 DEF enabledVars, catalogVars, requestVars, indexVars, RevisionInv, EnabledRulesTypeOK,
     CatalogTypeOK, IndexTypeOK, RequestUpToDate, MatchesOfRevisions, IndexOfRevisions,
     ReadOfRevisions, Unwritten, Current, Exists
<1> QED
  BY <1>1, <1>2, <1>3 DEF EnabledRulesNext

------------------------------------------------------------------------------
(* What the console shows. *)

LEMMA RevisionsHold == OneWriter /\ EnabledRulesSpec => []RevisionInv
<1>1. EnabledRulesInit => RevisionInv
  BY RevisionInitial
<1>2. OneWriter /\ RevisionInv /\ [EnabledRulesNext]_enabledVars => RevisionInv'
  BY RevisionStep
<1>3. OneWriter => []OneWriter
  BY DEF OneWriter
<1> QED
  BY <1>1, <1>2, <1>3, PTL DEF EnabledRulesSpec

(* Every match the console shows was made by its rule's current tree,      *)
(* however many rules are written and processes evaluate, if one request   *)
(* writes rules at a time (_save, _record).                                *)
THEOREM ShownRanCurrentTree == OneWriter /\ EnabledRulesSpec => []ShownMatchesRanCurrentTree
<1>1. RevisionInv => ShownMatchesRanCurrentTree
  BY DEF RevisionInv, MatchesOfRevisions, ShownMatchesRanCurrentTree, Shown, Enabled
<1> QED
  BY <1>1, RevisionsHold, PTL

(* A match that is shown stays until a request revises its rule: a step    *)
(* that leaves the rule's tree, and leaves it enabled, leaves its matches  *)
(* and its revision.                                                       *)
THEOREM ShownStays == OneWriter /\ EnabledRulesSpec => ShownUntilRevised
<1>1. ASSUME RevisionInv, OneWriter, [EnabledRulesNext]_enabledVars,
             NEW m \in matched, Shown(m), Enabled(m.rule)', tree'[m.rule] = tree[m.rule]
      PROVE  m \in matched' /\ Shown(m)'
  <2>1. m.rule \in RuleIds
    BY <1>1 DEF RevisionInv, EnabledRulesTypeOK, CatalogTypeOK, Matches
  <2>2. CASE UNCHANGED <<rule, matched>>
    BY <1>1, <2>2 DEF Shown, Enabled, Exists
  <2>3. ASSUME NEW w \in Writers, NEW r \in RuleIds, NEW t \in Trees, NEW on \in BOOLEAN,
               Create(w, r, t, on)
        PROVE  m \in matched' /\ Shown(m)'
    <3>1. r # m.rule
      BY <1>1, <2>3 DEF Create, Shown, Enabled
    <3> QED
      BY <1>1, <2>1, <2>3, <3>1
         DEF Create, Shown, Enabled, Exists, RevisionInv, EnabledRulesTypeOK, CatalogTypeOK
  <2>4. ASSUME NEW w \in Writers, NEW sent \in TreeOrNone, NEW on \in BOOLEAN, Save(w, sent, on)
        PROVE  m \in matched' /\ Shown(m)'
    <3>1. /\ mine[w].rule \in RuleIds /\ mine[w].rev = rule[mine[w].rule].rev
          /\ mine[w].tree = tree[mine[w].rule]
      BY <1>1, <2>4 DEF Save, RevisionInv, RequestUpToDate, Copies
    <3>2. CASE mine[w].rule = m.rule
      <4>1. ~Replaces(w, sent)
        BY <1>1, <2>1, <2>4, <3>1, <3>2
           DEF Save, Replaces, RevisionInv, EnabledRulesTypeOK, CatalogTypeOK
      <4>2. matched' = matched /\ rule'[m.rule].rev = rule[m.rule].rev
        BY <2>1, <2>4, <3>1, <3>2, <4>1, <1>1
           DEF Save, SavedRevision, RevisionInv, EnabledRulesTypeOK, CatalogTypeOK
      <4> QED
        BY <1>1, <4>2 DEF Shown, Enabled
    <3>3. CASE mine[w].rule # m.rule
      <4>1. m \in matched' /\ rule'[m.rule] = rule[m.rule]
        BY <1>1, <2>1, <2>4, <3>3 DEF Save, RevisionInv, EnabledRulesTypeOK, CatalogTypeOK
      <4> QED
        BY <1>1, <4>1 DEF Shown, Enabled
    <3> QED
      BY <3>2, <3>3
  <2>5. ASSUME NEW w \in Writers, Delete(w)
        PROVE  m \in matched' /\ Shown(m)'
    <3>1. mine[w].rule \in RuleIds
      BY <1>1, <2>5 DEF Delete, RevisionInv, RequestUpToDate, Copies
    <3>2. mine[w].rule # m.rule
      BY <1>1, <2>1, <2>5, <3>1
         DEF Delete, Enabled, Exists, RevisionInv, EnabledRulesTypeOK, CatalogTypeOK
    <3>3. m \in matched' /\ rule'[m.rule] = rule[m.rule]
      BY <1>1, <2>1, <2>5, <3>2 DEF Delete, RevisionInv, EnabledRulesTypeOK, CatalogTypeOK
    <3> QED
      BY <1>1, <3>3 DEF Shown, Enabled
  <2>6. ASSUME NEW e \in Runs, NEW S \in SUBSET RuleIds, Record(e, S)
        PROVE  m \in matched' /\ Shown(m)'
    BY <1>1, <2>6 DEF Record, Shown, Enabled, Exists
  <2>7. CASE \E w \in Writers : RequestStep(w)
    <3>1. ASSUME NEW w \in Writers,
                 (\E r \in RuleIds : ReadRule(w, r)) \/ ReadTree(w) \/ RequestFails(w)
          PROVE  UNCHANGED <<rule, matched>>
      BY <3>1 DEF ReadRule, ReadTree, RequestFails, catalogVars
    <3> QED
      BY <2>2, <2>3, <2>4, <2>5, <2>7, <3>1 DEF RequestStep
  <2>8. CASE \E e \in Runs : RunStep(e)
    <3>1. ASSUME NEW e \in Runs,
                 \/ TakeFingerprint(e) \/ ListRules(e) \/ ReadRules(e)
                 \/ ReadAllTrees(e) \/ PutTrees(e) \/ EndRun(e) \/ Restart(e)
          PROVE  UNCHANGED <<rule, matched>>
      BY <3>1 DEF TakeFingerprint, ListRules, ReadRules, ReadAllTrees, PutTrees, EndRun, Restart,
         catalogVars
    <3> QED
      BY <2>2, <2>6, <2>8, <3>1 DEF RunStep
  <2> QED
    BY <1>1, <2>2, <2>7, <2>8 DEF EnabledRulesNext, enabledVars, catalogVars
<1>2. RevisionInv /\ OneWriter /\ [EnabledRulesNext]_enabledVars
        => [\A m \in matched :
              Shown(m) /\ Enabled(m.rule)' /\ tree'[m.rule] = tree[m.rule] =>
                m \in matched' /\ Shown(m)']_enabledVars
  BY <1>1
<1>3. OneWriter => []OneWriter
  BY DEF OneWriter
<1> QED
  BY <1>2, <1>3, RevisionsHold, PTL DEF EnabledRulesSpec, ShownUntilRevised
=============================================================================
