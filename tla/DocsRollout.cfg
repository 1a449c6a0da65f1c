\* Three releases, the last of which cannot boot, a sync-db command, and a crash.
CONSTANTS
    Releases <- Releases4
    Jobs <- SyncJob
    Pages <- AllPages
    Texts <- RolloutTexts
    NoRow = "none"
    Manifest <- JobManifest
    Migrations <- JobMigrations
    InitRows <- RolloutRows
    InitProjects <- SeededProjects
    MaxCrashes = 1
SPECIFICATION FairSpec
INVARIANTS
    SyncIsExact
    CommonPagesServed
PROPERTIES
    RolloutCompletes
