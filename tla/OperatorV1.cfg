\* Two objects that may list the same instance name, HA and non-HA
\* configurations, one edit and one restart.  The system may stop once the
\* bounded users are done and every object is gone or handled.
CONSTANTS
    o1 = o1
    o2 = o2
    n1 = n1
    n2 = n2
    cHA = cHA
    cPlain = cPlain
    cBad = cBad
    NoInst = NoInst
    NoSpec = NoSpec
    Objects <- MCObjects
    NameOrder <- MCNameOrder1
    Confs <- MCConfs
    UrlValid <- MCUrlValid
    HA <- MCHA
    Specs <- MCSpecs1Bad
    MaxUpdates = 1
    MaxRestarts = 1
SPECIFICATION Spec
INVARIANT TypeOK
INVARIANT RegisteredWatcherRunning
PROPERTY DeletionCompletes
CHECK_DEADLOCK FALSE
