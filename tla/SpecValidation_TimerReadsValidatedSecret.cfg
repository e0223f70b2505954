\* Violation run: TimerReadsValidatedSecret.  Same bounds as SpecValidation.cfg.
SPECIFICATION Spec
CONSTANTS
    MaxInlineKeys = 3
    MaxThreshold = 4
    MaxStoredKeys = 3
    NoThreshold = NoThreshold
INVARIANT TimerReadsValidatedSecret
