\* A BrokerApp edit page, a reload after a quantity was cleared
CONSTANTS
    sized = sized
    unsized = unsized
    twoCaps = twoCaps
    invalid = invalid
    dupSized = dupSized
    dupUnsized = dupUnsized
    Contents = {sized, unsized, twoCaps, invalid, dupSized, dupUnsized}
    FormContents = {sized, unsized, invalid, dupSized, dupUnsized}
    CRContents = {sized, unsized, twoCaps, invalid}
    Convertible = {sized, unsized, twoCaps}
    Saveable = {sized, unsized, twoCaps}
    FromCluster <- MCFromCluster
    FromYaml <- MCFromYaml
    ToYaml <- MCToYaml
    WithoutQuantity <- MCWithoutQuantity
    NoYaml = NoYaml
    MaxVersion = 2
SPECIFICATION Spec
PROPERTY ReloadShowsCluster
