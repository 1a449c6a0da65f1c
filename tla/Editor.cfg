\* One author with two fetches in flight at most, and another author beside.
CONSTANTS
    f1 = f1
    f2 = f2
    Fetches = {f1, f2}
    Form = form
    Renders = {f1, f2, form}
    Documents <- Texts
    Diagrams = {"d1", "d2"}
    NoSVG = NoSVG
    NoDoc = NoDoc
    Sidecar = TRUE
    Languages <- SiteLanguages
    Topics <- ExampleTopics
    FirstBody <- Tabbed
    MaxEdits = 1
    MaxOthers = 1
SYMMETRY Symmetry
SPECIFICATION Spec
INVARIANTS
    RenderIsPure
    DerivedIdsFresh
    OutlineTruthful
    PageTellsTruth
PROPERTIES
    EditsSurvive
