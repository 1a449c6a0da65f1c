\* The claim of documents.go:173-174 against two releases whose syncs cross.
CONSTANTS
    Releases <- Releases2
    Jobs <- NoJobs
    Pages <- AllPages
    Texts <- RolloutTexts
    NoRow = "none"
    Manifest <- Manifest2
    Migrations <- Migrations2
    InitRows <- RolloutRows
    InitProjects <- SeededProjects
    MaxCrashes = 1
SPECIFICATION Spec
INVARIANTS
    DroppedPagesGone
