\* Fewer pages than positions; one move of the wallet during the request.
SPECIFICATION Spec
CONSTANTS
    Position <- MCPosition
    SlugOf <- MCSlugOf
    Queried = {"ethereum", "polygon"}
    MaxPages = 3
    MaxTrades = 1
    NoChain = NoChain
INVARIANTS
    TypeOK
    BarsWithinTotal
    
    CompleteOrReported
PROPERTIES
    Answered
CHECK_DEADLOCK FALSE
