\* A BrokerApp edit page, three resource versions
CONSTANTS
    sized = sized
    unsized = unsized
    twoCaps = twoCaps
    invalid = invalid
    dupSized = dupSized
    dupUnsized = dupUnsized
    Contents = {sized, unsized, twoCaps, invalid, dupSized, dupUnsized}
    FormContents = {sized, unsized, invalid, dupSized, dupUnsized}
    CRContents = {sized, unsized, twoCaps, invalid}
    Convertible = {sized, unsized, twoCaps}
    Saveable = {sized, unsized, twoCaps}
    FromCluster <- MCFromCluster
    FromYaml <- MCFromYaml
    ToYaml <- MCToYaml
    WithoutQuantity <- MCWithoutQuantity
    NoYaml = NoYaml
    MaxVersion = 3
SPECIFICATION Spec
INVARIANT TypeOK
INVARIANT NothingUnsavedWhenNotAsked
INVARIANT DocumentsTruthful
PROPERTY NoLostUpdate
PROPERTY ControlsComeBack
PROPERTY ImplementsStore
