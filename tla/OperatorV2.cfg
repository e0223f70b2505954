CONSTANTS
    r1 = r1
    sHA = sHA
    sPlain = sPlain
    sBadHA = sBadHA
    sBadUrl = sBadUrl
    NoSpec = NoSpec
    Resources <- MCResources
    Specs <- MCSpecs
    UrlValid <- MCUrlValid
    SpecValid <- MCSpecValid
    HA <- MCHA
    SecretRef <- MCSecretRef
    MaxUpdates = 2
    MaxRestarts = 1
SPECIFICATION Spec
INVARIANT TypeOK
INVARIANT GoneLeavesNoEntry
PROPERTY HandledBodyOwnsClient
PROPERTY RegistryConverges
CHECK_DEADLOCK FALSE
