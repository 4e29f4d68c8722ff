SPECIFICATION Spec
CONSTANTS
    Usdt = Usdt
    Pepe = Pepe
    None = None
    Tokens <- SmallTokens
    Catalogued <- SmallCatalog
    Vocabulary <- SmallVocabulary
    Given <- SmallGiven
    Queries <- SmallQueries
    Matching <- SmallMatching
    Blank = ""
    MaxBlurs = 1
INVARIANTS
    GateFits
    ResultsOfQuery
PROPERTIES
    NamesStay
    SearchSettles
