\* One job at a time, two discoveries of the service; usdc is curated by both files.
SPECIFICATION Spec
CONSTANTS
    Tokens <- MCTokens
    Chains <- MCChains
    ChainOf <- MCChainOf
    Symbols <- MCSymbols
    SymbolAt <- MCSymbolAt
    SeedTier <- MCSeedTier
    Bundled <- UsdcBundled
    Connected = TRUE
    Jobs = {j1}
    Finders = {f1, f2}
    MaxRuns = 2
SYMMETRY FinderSymmetry
INVARIANTS
    TypeOK
    CuratedTickersResolve
    SyncsTakeEffect
PROPERTIES
    TrustNeverFalls
CHECK_DEADLOCK FALSE
