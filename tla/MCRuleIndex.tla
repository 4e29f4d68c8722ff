----------------------------- MODULE MCRuleIndex -----------------------------
(***************************************************************************)
(* Three rules over two fields of a transaction and three of its           *)
(* transfers, with trees that are filed in each of the ways there are: by  *)
(* one value, several, either of two fields, the less crowded of two, a    *)
(* threshold on either side, and nothing.                                  *)
(***************************************************************************)
EXTENDS RuleIndex

CONSTANTS alice, bob, usdt, usdtOnBase

MCFields == {"sender", "value", "token", "amount", "token_recognised"}
MCFiledAs == [v \in {alice, bob, usdt, usdtOnBase} |-> IF v = usdtOnBase THEN usdt ELSE v]

Compare(f, o, vs) == [type |-> "COMPARISON", field |-> f, operator |-> o, values |-> vs]
And(ts) == [type |-> "AND", children |-> ts]
Or(ts) == [type |-> "OR", children |-> ts]

FromAlice == Compare("sender", "eq", <<alice>>)
FromEither == Compare("sender", "in", <<alice, bob>>)
NotFromAlice == Compare("sender", "ne", <<alice>>)
Usdt == Compare("token", "eq", <<usdt>>)
UsdtOnBase == Compare("token", "eq", <<usdtOnBase>>)
AtLeastTwo == Compare("amount", "gte", <<2>>)
OverOne == Compare("amount", "gt", <<1>>)
BelowTwo == Compare("amount", "lt", <<2>>)
ValueOverOne == Compare("value", "gt", <<1>>)
Recognised == Compare("token_recognised", "eq", <<TRUE>>)
Unknown == Compare("value", "~=", <<1>>)
AliceOrUsdt == Or(<<FromAlice, Usdt>>)

MCRuleTrees == {
  None, And(<<Unknown>>), And(<<>>),
  FromAlice, And(<<NotFromAlice>>), And(<<UsdtOnBase, AtLeastTwo>>),
  And(<<Usdt, FromEither>>), And(<<AliceOrUsdt, FromEither>>), AliceOrUsdt,
  Or(<<FromAlice, AtLeastTwo>>), And(<<Recognised, AtLeastTwo>>),
  And(<<BelowTwo, ValueOverOne>>), OverOne}

MCTrees == (MCRuleTrees \ {None}) \cup {
  FromAlice, FromEither, NotFromAlice, Usdt, UsdtOnBase, AtLeastTwo, OverOne, BelowTwo,
  ValueOverOne, Recognised, Unknown}

Transfer(t, a, k) ==
  [f \in {"token", "amount", "token_recognised"} |->
    CASE f = "token" -> t [] f = "amount" -> a [] OTHER -> k]

Sent(s, v, ts) == [own |-> [f \in {"sender", "value"} |-> IF f = "sender" THEN s ELSE v],
                   transfers |-> ts]

(* A transfer of an amount at, above and below the thresholds, and one of  *)
(* a token whose decimals are unknown; two in one transaction.             *)
MCTransactions == {
  Sent(alice, 1, <<>>), Sent(bob, 2, <<>>), Sent(None, 2, <<>>),
  Sent(alice, 2, <<Transfer(usdt, 1, TRUE)>>),
  Sent(bob, 1, <<Transfer(usdtOnBase, None, FALSE)>>),
  Sent(bob, 2, <<Transfer(usdt, 1, FALSE), Transfer(usdtOnBase, 2, TRUE)>>),
  Sent(alice, 1, <<Transfer(usdt, 2, FALSE), Transfer(usdt, 1, TRUE)>>)}
=============================================================================
