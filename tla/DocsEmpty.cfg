\* The claim of documents.go:172 against a release whose manifest lists no docs.
CONSTANTS
    Releases <- Releases2
    Jobs <- NoJobs
    Pages <- AllPages
    Texts <- RolloutTexts
    NoRow = "none"
    Manifest <- EmptyManifest
    Migrations <- Migrations2
    InitRows <- RolloutRows
    InitProjects <- SeededProjects
    MaxCrashes = 1
SPECIFICATION Spec
PROPERTIES
    PruneDeletesUnlisted
