\* Every spec with at most three inline keys, a threshold up to 4 or none,
\* a referenced Secret of one to three keys, and each field valid or not.
SPECIFICATION Spec
CONSTANTS
    MaxInlineKeys = 3
    MaxThreshold = 4
    MaxStoredKeys = 3
    NoThreshold = NoThreshold
INVARIANT TypeOK
INVARIANT CreateThresholdUnsealable
