----------------------------- MODULE MCGateEditor -----------------------------
(* The served vocabulary without its second address field of each source; two *)
(* tokens, one of which comes to the catalog late.                            *)
EXTENDS GateEditor

CONSTANTS Usdt, Pepe

Field(key, type, operators) == [key |-> key, type |-> type, operators |-> operators]

Ordered == <<"gt", "gte", "lt", "lte", "eq">>
Same == <<"eq", "ne">>
Address == <<"eq", "ne", "in">>

SmallVocabulary ==
    [transaction |->
        <<Field("from_address", "address", Address), Field("value", "native_amount", Ordered),
          Field("method", "signature", Same)>>,
     token_transfer |->
        <<Field("token", "token", Same), Field("amount", "amount", Ordered),
          Field("to_address", "address", Address), Field("token_recognised", "bool", <<"eq">>)>>]

Proposed(source, key, operator, value) ==
    [source |-> source, field |-> key, operator |-> operator, value |-> value]

SmallGiven ==
    {Proposed("token_transfer", "token", "eq", Token(Pepe)),
     Proposed("token_transfer", "amount", "gte", Text("amount")),
     Proposed("token_transfer", "to_address", "in", List({"address"})),
     Proposed("transaction", "from_address", "eq", Text("checksummed")),
     Proposed("transaction", "method", "eq", Text("words"))}

SmallTokens == {Usdt, Pepe}
SmallCatalog == {Usdt}
SmallQueries == {"", "p"}
SmallMatching == [q \in SmallQueries |-> IF q = "p" THEN {Pepe} ELSE SmallTokens]
=============================================================================
