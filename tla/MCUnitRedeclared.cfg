SPECIFICATION RegistriesSpec
CONSTANTS
    Adapters = {"apt"}
    Redeclare = FALSE
    Names = 3
    MaxSeq = 4
    AllDocsPageSize = 2
    ChangePageSize = 1
    Projects = 2
    MaxSerial = 4
    Indexes = {"main", "src"}
    Release <- MCRelease
PROPERTY AptCatchesUp
CHECK_DEADLOCK FALSE
