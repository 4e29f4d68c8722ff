------------------------------ MODULE RuleIndex ------------------------------
(***************************************************************************)
(* The index of many rules an evaluation tries against each transaction    *)
(* (rules/onchain.py RuleIndex, bindings_for_rules), as rules are put in   *)
(* it, put again with another tree, and taken out.                         *)
(*                                                                         *)
(* A rule is filed under values its tree cannot hold without, or at a      *)
(* number it cannot hold short of, and is tried only where those are met.  *)
(* What is filed is undone from the record of how it was (filings).        *)
(***************************************************************************)
EXTENDS Conditions

CONSTANTS
  RuleIds,      \* the rules' ids
  RuleTrees,    \* the trees a rule may have, None for no conditions
  Transactions  \* a transaction's own fields, and its token transfers' in log order

ASSUME RuleTreesAssumption == RuleTrees \subseteq Trees \cup {None}

(* Ids are numbers, which order the rules filed at one threshold. *)
ASSUME RuleIdsAssumption == RuleIds \subseteq Nat /\ IsFiniteSet(RuleIds)

VARIABLES
  rules,        \* the tree each rule in the index is compiled from, None for the others
  refused,      \* the rules the evaluator cannot judge
  filings,      \* how each rule is filed, None for one that is not
  readers,      \* _transfer_readers: the rules comparing token transfers
  everywhere,   \* the rules tried against every transaction
  equal,        \* per text field and value, the rules filed under it
  equalFields,  \* per text field, how many filings there are under its values
  ranges,       \* per number field and side, the filed <<threshold, rule>>, in order
  bulk          \* whether the index is still being constructed

filed == <<filings, readers, everywhere, equal, equalFields, ranges>>
vars == <<rules, refused, filed, bulk>>

Empty ==
  /\ rules = [r \in RuleIds |-> None]
  /\ refused = {}
  /\ filings = [r \in RuleIds |-> None]
  /\ readers = {}
  /\ everywhere = {}
  /\ equal = [k \in TextFields \X Values |-> {}]
  /\ equalFields = [f \in TextFields |-> 0]
  /\ ranges = [k \in NumberFields \X BOOLEAN |-> <<>>]

(* The constructor begins: it puts each of its rules once, then sorts. *)
Init == Empty /\ bulk = TRUE

(***************************************************************************)
(* _Range: pairs of a threshold and a rule's id, kept in order.            *)
(***************************************************************************)
PairLess(p, q) == p[1] < q[1] \/ (p[1] = q[1] /\ p[2] < q[2])

(* bisect, on what may not be in order: how far the elements that come     *)
(* before reach, by halving.                                               *)
Bisect(s, before) ==
  LET reach[p \in (0 .. Len(s)) \X (0 .. Len(s))] ==
        LET mid == (p[1] + p[2]) \div 2 IN
        IF p[1] >= p[2] THEN p[1]
        ELSE IF s[mid + 1] \in before THEN reach[<<mid + 1, p[2]>>] ELSE reach[<<p[1], mid>>]
  IN reach[<<0, Len(s)>>]

InOrder(s) == \A i, j \in DOMAIN s : i < j => PairLess(s[i], s[j])

AddPair(s, p) ==
  IF bulk THEN Append(s, p) ELSE InsertAt(s, Bisect(s, {q \in ToSet(s) : ~PairLess(p, q)}) + 1, p)

RemovePair(s, p) == RemoveAt(s, Bisect(s, {q \in ToSet(s) : PairLess(q, p)}) + 1)

(* The rules a value could satisfy: below a lower bound's threshold none,  *)
(* above an upper one's none.                                              *)
Past(s, v, lower) ==
  {p[2] : p \in IF lower THEN ToSet(SubSeq(s, 1, Bisect(s, {q \in ToSet(s) : q[1] <= v})))
                ELSE ToSet(SubSeq(s, Bisect(s, {q \in ToSet(s) : q[1] < v}) + 1, Len(s)))}

(***************************************************************************)
(* Filing                                                                  *)
(***************************************************************************)
IsFiled(r, kind) == filings[r] # None /\ filings[r].kind = kind

FiledUnder(r, f, v) ==
  IsFiled(r, "equal") /\ f \in DOMAIN filings[r].keys /\ v \in filings[r].keys[f]

FiledAt(r, k) ==
  IsFiled(r, "range") /\ k = <<filings[r].range.field, filings[r].range.lower>>

PairOf(r) == <<filings[r].range.threshold, r>>

(* _unfile: what is filed once rule r's filing is undone. *)
EqualWithout(r) ==
  [k \in DOMAIN equal |-> IF FiledUnder(r, k[1], k[2]) THEN equal[k] \ {r} ELSE equal[k]]

(* Mistakes for FieldsWithout: one is taken off a field, however many of   *)
(* its values the rule is filed under, or those of every field are.        *)
FieldsLessOne(r) ==
  [f \in TextFields |->
    equalFields[f] - Cardinality({x \in {r} : \E v \in Values : FiledUnder(x, f, v)})]

FieldsWithout(r) ==
  [f \in TextFields |-> equalFields[f] - Cardinality({v \in Values : FiledUnder(r, f, v)})]

RangesWithout(r) ==
  [k \in DOMAIN ranges |->
    IF FiledAt(r, k) THEN RemovePair(ranges[k], PairOf(r)) ELSE ranges[k]]

(* How a rule may be filed; None is not a way. *)
Filings ==
  [kind : {"equal"}, keys : UNION {[fields -> SUBSET Values] : fields \in SUBSET TextFields}]
    \cup [kind : {"range"}, range : [field : NumberFields, lower : BOOLEAN, threshold : Int]]
    \cup [kind : {"everywhere"}]

ASSUME NoFilingAssumption == None \notin Filings

(* How _file files a tree, with what is filed under the values by then. *)
FilingOf(t, filedUnder) ==
  LET key == Key(t, filedUnder)
      range == RangeKey(t)
  IN IF key # None THEN [kind |-> "equal", keys |-> key]
     ELSE IF range # None THEN [kind |-> "range", range |-> range]
     ELSE [kind |-> "everywhere"]

(* discard's changes: the rule is taken out, refused or not. *)
TakeOut(r) ==
  /\ rules' = [rules EXCEPT ![r] = None]
  /\ filings' = [filings EXCEPT ![r] = None]
  /\ readers' = readers \ {r}
  /\ everywhere' = everywhere \ {r}
  /\ equal' = EqualWithout(r)
  /\ equalFields' = FieldsWithout(r)
  /\ ranges' = RangesWithout(r)

(* put of a rule with no conditions, or with a tree that cannot be judged. *)
PutRefused(r, t) ==
  /\ ~CanJudge(t)
  /\ TakeOut(r)
  /\ refused' = refused \cup {r}

(* put of a tree that can be judged: what the rule was filed under is      *)
(* undone, and it is filed by what is filed then.                          *)
PutJudged(r, t) ==
  LET equalBefore == EqualWithout(r)
      fieldsBefore == FieldsWithout(r)
      rangesBefore == RangesWithout(r)
      filing == FilingOf(t, equalBefore)
      under(f, v) == filing.kind = "equal" /\ f \in DOMAIN filing.keys /\ v \in filing.keys[f]
      at(k) == filing.kind = "range" /\ k = <<filing.range.field, filing.range.lower>>
  IN
  /\ CanJudge(t)
  /\ refused' = refused \ {r}
  /\ rules' = [rules EXCEPT ![r] = t]
  /\ filings' = [filings EXCEPT ![r] = filing]
  /\ readers' = IF ReadsTransfers(t) THEN readers \cup {r} ELSE readers \ {r}
  /\ everywhere' = IF filing.kind = "everywhere" THEN everywhere \cup {r} ELSE everywhere \ {r}
  /\ equal' = [k \in DOMAIN equal |->
       equalBefore[k] \cup {x \in {r} : under(k[1], k[2])}]
  /\ equalFields' = [f \in TextFields |->
       fieldsBefore[f] + Cardinality({v \in Values : under(f, v)})]
  /\ ranges' = [k \in DOMAIN ranges |->
       IF at(k) THEN AddPair(rangesBefore[k], <<filing.range.threshold, r>>)
       ELSE rangesBefore[k]]

(* put, in place of any version of the rule indexed.  The constructor puts *)
(* a rule once.                                                            *)
Put(r, t) ==
  /\ bulk => filings[r] = None /\ r \notin refused
  /\ PutRefused(r, t) \/ PutJudged(r, t)
  /\ UNCHANGED bulk

Discard(r) ==
  /\ ~bulk
  /\ TakeOut(r)
  /\ refused' = refused \ {r}
  /\ UNCHANGED bulk

(* A mistake for Sorted: the constructor leaves its appended pairs as they are. *)
AsPut(s) == s

(* The same pairs in order, no two of which are equal. *)
Sorted(s) == CHOOSE sorted \in [DOMAIN s -> ToSet(s)] :
  ToSet(sorted) = ToSet(s) /\ InOrder(sorted)

(* The constructor ends: each range is sorted, and puts insert in order.   *)
Constructed ==
  /\ bulk
  /\ bulk' = FALSE
  /\ ranges' = [k \in DOMAIN ranges |-> Sorted(ranges[k])]
  /\ UNCHANGED <<rules, refused, filings, readers, everywhere, equal, equalFields>>

Next ==
  \/ \E r \in RuleIds : (\E t \in RuleTrees : Put(r, t)) \/ Discard(r)
  \/ Constructed

Spec == Init /\ [][Next]_vars

(***************************************************************************)
(* Trying the rules                                                        *)
(***************************************************************************)
Unbound == [f \in TransferFields |-> None]

(* What a tree reads with one transfer bound. *)
Bound(x, transfer) == [f \in Fields |->
  IF f \in TransferFields THEN transfer[f] ELSE x.own[f]]

(* The bindings a transaction is tried with: one per transfer read, or one *)
(* with none.                                                              *)
BindingsOf(x, read) == IF read /\ x.transfers # <<>> THEN x.transfers ELSE <<Unbound>>

(* What is read: of a text field one of the texts, of a number field a     *)
(* number, of either nothing.                                              *)
ASSUME TransactionsAssumption ==
  \A x \in Transactions :
    /\ x.transfers \in Seq(ToSet(x.transfers))
    /\ \A transfer \in ToSet(x.transfers) \cup {Unbound} :
         /\ \A f \in TextFields :
              Bound(x, transfer)[f] # None => Bound(x, transfer)[f] \in DOMAIN FiledAs
         /\ \A f \in NumberFields :
              Bound(x, transfer)[f] # None => Bound(x, transfer)[f] \in Int

(* The first place of some, 0 with none. *)
FirstOf(places) == IF places = {} THEN 0 ELSE Min(places)

(* The rules worth trying against a binding. *)
Candidates(bound) ==
  everywhere
    \cup (UNION {equal[<<f, FiledAs[bound[f]]>>] :
                   f \in {g \in TextFields : equalFields[g] > 0 /\ bound[g] # None}})
    \cup (UNION {Past(ranges[k], bound[k[1]], k[2]) :
                   k \in {l \in DOMAIN ranges : bound[l[1]] # None}})

(* bindings_for_rules: the first binding by which the index matches rule r *)
(* with a transaction, 0 with none.  Transfers are read when any rule of   *)
(* it compares them.                                                       *)
MatchedWith(r, x) ==
  LET bindings == BindingsOf(x, readers # {}) IN
  FirstOf({i \in DOMAIN bindings :
    r \in Candidates(Bound(x, bindings[i])) /\ Holds(rules[r], Bound(x, bindings[i]))})

(* bindings_in_block: the binding by which the rule alone matches it. *)
MatchedAlone(r, x) ==
  LET bindings == BindingsOf(x, ReadsTransfers(rules[r])) IN
  FirstOf({i \in DOMAIN bindings : Holds(rules[r], Bound(x, bindings[i]))})

(***************************************************************************)
(* Properties                                                              *)
(***************************************************************************)

(* The index matches a rule with the transactions it matches when it is    *)
(* tried alone against every one, and by the same transfer if it compares  *)
(* any, however the rule came to be filed and whatever was filed and       *)
(* undone around it.                                                       *)
MatchesAsAlone ==
  ~bulk => \A r \in RuleIds, x \in Transactions :
    rules[r] # None =>
      /\ MatchedWith(r, x) # 0 <=> MatchedAlone(r, x) # 0
      /\ ReadsTransfers(rules[r]) => MatchedWith(r, x) = MatchedAlone(r, x)

(* After any puts and discards a rule is filed where its own filing says   *)
(* and nowhere else, each range is in order, and the counts by which a     *)
(* field is looked up at all are of what is filed under it.                *)
FiledAsRecorded ==
  /\ \A r \in RuleIds :
       /\ filings[r] # None <=> rules[r] # None
       /\ r \in refused => filings[r] = None
       /\ r \in readers <=> rules[r] # None /\ ReadsTransfers(rules[r])
       /\ r \in everywhere <=> IsFiled(r, "everywhere")
       /\ \A k \in DOMAIN equal : r \in equal[k] <=> FiledUnder(r, k[1], k[2])
  /\ \A k \in DOMAIN ranges :
       /\ ToSet(ranges[k]) = {PairOf(r) : r \in {q \in RuleIds : FiledAt(q, k)}}
       /\ Len(ranges[k]) = Cardinality(ToSet(ranges[k]))
       /\ bulk \/ InOrder(ranges[k])
  /\ \A f \in TextFields :
       equalFields[f] = Cardinality(UNION {{v} \X equal[<<f, v>>] : v \in Values})
=============================================================================
