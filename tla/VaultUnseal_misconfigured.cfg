\* Misconfigured keys: k2 is not strict base64/UTF-8 and k3 is not a share
\* of this Vault (for example a share from before a rekey).
CONSTANTS
    k1 = k1
    k2 = k2
    k3 = k3
    timer = timer
    watcher = watcher
    KeyList <- MCKeyList
    Checkers <- MCCheckers
    Watchers <- MCWatchers
    Threshold = 3
    GoodShares = {k1, k2}
    Undecodable = {k2}
    Malformed = {}
    KeySource = "secret"
    VaultThreshold = 2
    Retries = 3
    MaxReseals = 1
SPECIFICATION Spec
PROPERTY CallsReturn
