CONSTANTS
    a = a
    b = b
    untrimmedA = untrimmedA
    s = s
    n1 = n1
    n2 = n2
    x = x
    y = y
    c1 = c1
    untrimmedC1 = untrimmedC1
    Blank = Blank
    NoApp = NoApp
    NoText = NoText
    NoSelector = NoSelector
    InvalidSelector = InvalidSelector
    Names = {a, b}
    Texts <- MCTexts
    Trim <- MCTrim
    Subscriptions = {s}
    Apps <- MCApps
    Selectors <- MCSelectors
    TrimSelectors <- MCTrimSelectors
    Namespaces = {n1, n2}
    AppNames = {x, y}
    Declared <- MCDeclared
    OpenedRows <- MCOpenedRows
    Others <- MCOthers
SPECIFICATION Spec
PROPERTY
    OwnerDecidesRouting
