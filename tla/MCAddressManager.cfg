CONSTANTS
    a = a
    b = b
    untrimmedA = untrimmedA
    s = s
    x = x
    y = y
    c1 = c1
    untrimmedC1 = untrimmedC1
    Blank = Blank
    NoApp = NoApp
    NoSelector = NoSelector
    Names <- MCNames
    Texts <- MCTexts
    Trim <- MCTrim
    Subscriptions = {s}
    Apps = {x, y}
    Selectors <- MCSelectors
    TrimSelectors <- MCTrimSelectors
    LoadedCRs <- MCLoadedCRs
    TypedCRs <- MCTypedCRs
    Payloads <- MCPayloads
    MaxRows = 2
SPECIFICATION Spec
INVARIANTS
    TypeOK
    OverlapsAreSpellings
    SwitchingViewsKeepsRows
    KeptExactlyIfRepresentable
PROPERTIES
    
    CancelDiscards
