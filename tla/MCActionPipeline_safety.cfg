SPECIFICATION PipelineSpec
CONSTANTS
    None = None
    NoNumber = NoNumber
    Places = 4
    Universes <- MCUniverses
    Calls = {"g1", "g2"}
    Rosters <- MCRosters
    Vaults = {None, "v"}
    OrderArgs <- MCOrderArgs
    Cloid = "cloid"
    Oid = "oid"
    CoinArgs <- MCCoinArgs
    Mids = {40, 12340}
    Slippage = 5
    Tokens <- MCTokenPair
    Amount = 100000
    Deadlines = {None, 7}
    TicksPerMs = 2
    MaxClock = 2
INVARIANTS
    PipelineTypeOK NamesResolve BucketsStayApart VerifiesExactly NonceRefusal
    ActionsHitTheirCoin NumbersArrive ReportIsReal
CHECK_DEADLOCK FALSE
