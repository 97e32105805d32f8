SPECIFICATION Spec
CONSTANTS
    c = c
    d = d
    Coins <- MCCoins
    NoCoin = NoCoin
    None = None
    Users = {u1, u2}
    Batches <- MCBatches
    Markets <- MCMarkets
    Closes <- MCCloses
    Clients <- MCClients
    Starts <- MCStarts
    Sweeps <- MCSweeps
    Quotes <- MCQuotes
    DexCoins <- MCDexCoins
    Pinned = FALSE
    MaxCalls = 3
    MaxOrders = 3
    MaxPosition = 2
SYMMETRY Symmetry
INVARIANTS
    TypeOK
    BatchIsAtomic
    CancelsWhatItReports
    ChecksHaveState
PROPERTY ImplementsExposure
\* Calls are bounded: once they are made and their orders gone nothing is left to do.
CHECK_DEADLOCK FALSE
