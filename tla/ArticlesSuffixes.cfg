\* The claim of admin.go:71-72 against the creates of Articles.cfg.
CONSTANTS
    Requests <- ThreeRequests
    NoRequest = 0
    go = go
    tla = tla
    post = post
    empty = empty
    red = red
    blue = blue
    green = green
    Ids <- MCIds
    Slugs <- MCSlugs
    Bodies <- MCBodies
    EmptyBody <- empty
    Forms <- MCForms
    Workloads <- ThreeForms
    Seed <- MCSeed
SPECIFICATION Spec
INVARIANTS
    TakenSlugNeverErrors
