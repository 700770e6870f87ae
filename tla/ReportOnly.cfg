CONSTANTS
    Named <- NameLists
    StoreLayout <- Stores
    LocalStore <- LocalStores
    OutputName <- Outputs
    Collection <- Collections
    SourceDir <- Sources
    Opaque <- Opaques
    Hidden <- Dotted
    HomeCache = ".cache"
    Layout <- Reporting
    Holder = {"proc"}
    Uses <- Using
    Spot <- Spots
    Nowhere = Nowhere
    AdviceKind = {"keep"}
    MaxDirEntries = 3
    MaxAdvised = 0
SPECIFICATION Spec
PROPERTIES
    ReportOnlyIsUntouched
