CONSTANTS
    j = j
    k = k
    constructor = constructor
    v = v
    q = q
    n1 = n1
    n2 = n2
    x = x
    y = y
    a = a
    queue = queue
    t1 = t1
    t2 = t2
    t3 = t3
    f = f
    g = g
    untrimmedF = untrimmedF
    refusedText = refusedText
    n = n
    untrimmedN = untrimmedN
    m1 = m1
    m2 = m2
    Keys = {j, k, constructor}
    NoKey = NoKey
    Inherited = {constructor}
    Values = {v, NoValue}
    NoValue = NoValue
    EnvNames = {n}
    NoEnvName = NoEnvName
    EnvNameTexts <- MCEnvNameTexts
    TrimEnvName <- MCTrimEnvName
    FormMemories = {m1, m2}
    DefaultMemory = m2
    ZeroMemory = ZeroMemory
    BadMemory = BadMemory
    OtherMemory = OtherMemory
    NoMemory = NoMemory
    ClusterServices <- MCClusterServices
    ServiceTexts <- MCServiceTexts
    Quantities = {q}
    BadQuantity = BadQuantity
    NoObject = NoObject
    ClusterApps <- MCClusterApps
    AppTexts <- MCAppTexts
    ServiceLabels <- MCServiceLabels
    MaxLabelRows = 2
    MaxQuantities = 2
    Objects <- MCObjects
    SectionGroups = {"pod", "broker"}
    AllGroups = AllGroups
    Undefined = Undefined
    Pieces = {n1, n2, x, y, queue}
    Answers <- MCAnswers
    MaxLinks = 2
    MaxChanges = 2
    Tabs = {t1, t2, t3}
    PageOf <- MCPageOf
    NameTexts = {f, untrimmedF, g, NoName, refusedText}
    ProperTexts = {f, untrimmedF, g, NoName}
    TrimName <- MCTrimName
    NoName = NoName
    DefaultName <- MCDefaultName
    ModalClosed = ModalClosed
    MaxFavoriteCount = 1
    NotMounted = NotMounted
SPECIFICATION Spec
INVARIANTS
    TypeOK
    SavedLabelsAreTheRows
    SavedEnvIsUnambiguous
    AppIsTheForm
    WarningOfTheLastRound
    LinesToldApart
    NamesStayUnique
PROPERTIES
    SwitchTakesLabels
    CopyKeepsChoices
    SectionSettles
