\* Three requests: creates, saves, publishes, an unpublish, failures anywhere.
CONSTANTS
    Requests <- ThreeRequests
    NoRequest = 0
    go = go
    tla = tla
    post = post
    empty = empty
    red = red
    blue = blue
    green = green
    Ids <- MCIds
    Slugs <- MCSlugs
    Bodies <- MCBodies
    EmptyBody <- empty
    Forms <- MCForms
    Workloads <- ThreeForms
    Seed <- MCSeed
SPECIFICATION FairSpec
INVARIANTS
    TypeOK
    SlugsUnique
    OneArticlePerCreate
    NoTornSave
    CategoriesOfSaves
    PublicWasSaved
    TagsNeverRefused
    NobodyWaitsInVain
    RedirectMeansCommitted
PROPERTIES
    LinksNeverMove
    BookSpec
    EveryRequestAnswered
