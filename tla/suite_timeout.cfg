SPECIFICATION Spec
CONSTANTS
    EndpointCount = 4
    AlwaysRun <- MCAlwaysRun
    Keys = {"id", "price"}
    InitialContext = {"price"}
    Uses <- MCUses
    Stores <- MCStores
    Initial = Initial
    Missing = Missing
PROPERTY
    NothingStartsAfterTimeout
