SPECIFICATION RegistriesSpec
CONSTANTS
    Adapters = {"npm", "pypi", "apt"}
    Redeclare = TRUE
    Names = 3
    MaxSeq = 4
    AllDocsPageSize = 2
    ChangePageSize = 1
    Projects = 2
    MaxSerial = 4
    Indexes = {"main", "src"}
    Release <- MCRelease
INVARIANTS NpmFollows NpmServable PypiServable SnapshotIsWhole
PROPERTIES NpmCatchesUp PypiCatchesUp AptCatchesUp
CHECK_DEADLOCK FALSE
