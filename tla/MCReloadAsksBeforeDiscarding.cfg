\* A reload whose answer arrives after the user went on editing
CONSTANTS
    plain1 = plain1
    plain2 = plain2
    foreign = foreign
    dupRows = dupRows
    Contents = {plain1, plain2, foreign, dupRows}
    FormContents = {plain2, dupRows}
    CRContents = {plain1, plain2, foreign}
    Convertible = {plain1, plain2}
    Saveable = {plain1, plain2}
    FromCluster <- MCFromCluster
    FromYaml <- MCFromYaml
    ToYaml <- MCToYaml
    NoYaml = NoYaml
    MaxVersion = 2
SPECIFICATION Spec
PROPERTY ReloadAsksBeforeDiscarding
