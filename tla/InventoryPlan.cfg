CONSTANTS
    Named <- NameLists
    StoreLayout <- Stores
    LocalStore <- LocalStores
    OutputName <- Outputs
    Collection <- Collections
    SourceDir <- Sources
    Opaque <- Opaques
    Hidden <- Dotted
    HomeCache = ".cache"
    Layout <- Machines
    Holder = {"proc", "reg", "svc", "cron", "pipe", "hand", "job"}
    Uses <- Using
    Spot <- Spots
    Nowhere = Nowhere
    AdviceKind = {"keep", "quarantine", "delete_candidate"}
    MaxDirEntries = 3
    MaxAdvised = 1
SPECIFICATION Spec
INVARIANTS
    MutationIsUnopposed
    DestinationsAreFree
    ReportOnlyEntryIsKept
PROPERTIES
    HeldThroughoutIsKept
    ArchiveOnlyIsUntouched
