\* A BrokerService edit page, three resource versions
CONSTANTS
    plain1 = plain1
    plain2 = plain2
    foreign = foreign
    dupRows = dupRows
    Contents = {plain1, plain2, foreign, dupRows}
    FormContents = {plain2, dupRows}
    CRContents = {plain1, plain2, foreign}
    Convertible = {plain1, plain2}
    Saveable = {plain1, plain2}
    FromCluster <- MCFromCluster
    FromYaml <- MCFromYaml
    ToYaml <- MCToYaml
    NoYaml = NoYaml
    MaxVersion = 3
SPECIFICATION Spec
INVARIANT TypeOK
INVARIANT NothingUnsavedWhenNotAsked
INVARIANT RefMatchesEditor
INVARIANT FlagsMatchCalls
PROPERTY NoLostUpdate
PROPERTY LoadsMoveForward
PROPERTY ControlsComeBack
PROPERTY ImplementsStore
