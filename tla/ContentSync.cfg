\* Three runs, on contents that sync or are refused, killed anywhere.
CONSTANTS
    Inputs <- MCInputs
    Unreadable = unreadable
    NoManifest = nomanifest
    Torn = torn
    MaxRuns = 3
SPECIFICATION Spec
INVARIANTS
    TreeIsManifest
    OneFileEach
    RefusedChangesNothing
    NavIsDirectory
