\* Any read of a small library, below a library or a folder, through two changes to it.
CONSTANTS
    NameOrder <- AllNames
    DefaultLibrary = "Docs"
    Site <- TeamSite
    Places <- SmallPlaces
    Roots <- LibraryOrFolder
    WrongUrls <- OtherUrls
    RawPaths <- SentPaths
    Trees <- SmallTrees
    Sizes = {1, 2}
    FirstId = 20
    PAGE_SIZE = 1
    MAX_ITEMS = 3
    MAX_FILE_BYTES = 1
    MAX_RETRIES = 1
    MaxChanges = 2
SPECIFICATION Spec
INVARIANTS
    TypeOK
    StaysBelowRoot
    ListedWasThere
    ListingIsComplete
    ReadIsHonest
PROPERTY EveryReadEnds
