SPECIFICATION Spec
CONSTANTS
    Configs <- MCConfigs
    Responses <- MCResponses
    PayloadSizes <- MCPayloadSizes
    Margin <- MCMargin
    MinRecord <- MCMinRecord
    MaxRecord <- MCMaxRecord
INVARIANTS
    TypeOK
    RecordsFit
    SlicesReassemble
