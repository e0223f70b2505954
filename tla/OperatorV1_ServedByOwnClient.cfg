\* Violation run: ServedByOwnClient.  Two objects of one namespace list the
\* same instance name n1; no edits or restarts are needed.
CONSTANTS
    o1 = o1
    o2 = o2
    n1 = n1
    n2 = n2
    cHA = cHA
    cPlain = cPlain
    cBad = cBad
    NoInst = NoInst
    NoSpec = NoSpec
    Objects <- MCObjects
    NameOrder <- MCNameOrder1
    Confs <- MCConfs
    UrlValid <- MCUrlValid
    HA <- MCHA
    Specs <- MCSpecs1
    MaxUpdates = 0
    MaxRestarts = 0
SPECIFICATION Spec
PROPERTY ServedByOwnClient
CHECK_DEADLOCK FALSE
