\* The editor, with one fetch and one edit: pages whose h2 headings are counted.
CONSTANTS
    f1 = f1
    f2 = f2
    Fetches = {f1}
    Form = form
    Renders = {f1, form}
    Documents <- Texts
    Diagrams = {"d1", "d2"}
    NoSVG = NoSVG
    NoDoc = NoDoc
    Sidecar = TRUE
    Languages <- SiteLanguages
    Topics <- ExampleTopics
    FirstBody <- Tabbed
    MaxEdits = 1
    MaxOthers = 0
SPECIFICATION Spec
INVARIANTS
    OutlinePerChapter
