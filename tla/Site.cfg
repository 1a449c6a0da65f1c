\* One window over two articles, each created, saved, published, taken back.
CONSTANTS
    Windows = {w1}
    Ids <- MCIds
    Slugs <- MCSlugs
    NoSlug = "none"
    Contents <- MCContents
    Stamps <- MCStamps
    Unpublished = 0
    EmptyBody = "empty"
    Seed <- MCSeed
    Manifest <- MCManifest
    Families <- MCFamilies
    NoRepo = "no repo"
    Alphabet <- MCAlphabet
    ArticleTabs <- MCArticleTabs
    DocTabs <- MCDocTabs
SPECIFICATION Spec
INVARIANTS
    LinksLead
    ListingsInOrder
    TabsAgree
PROPERTIES
    DraftsStayPrivate
