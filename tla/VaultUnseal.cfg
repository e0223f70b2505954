\* Genuine keys, spec threshold 3 over a Vault threshold of 2: one failed
\* submission per call is tolerated.
CONSTANTS
    k1 = k1
    k2 = k2
    k3 = k3
    timer = timer
    watcher = watcher
    KeyList <- MCKeyList
    Checkers <- MCCheckers
    Watchers <- MCWatchers
    Threshold = 3
    GoodShares = {k1, k2, k3}
    Undecodable = {}
    Malformed = {}
    KeySource = "secretRef"
    VaultThreshold = 2
    Retries = 3
    MaxReseals = 1
SPECIFICATION Spec
INVARIANT TypeOK
INVARIANT FailedKeysExplainSealed
PROPERTY ImplementsContract
