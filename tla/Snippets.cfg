\* Every file of up to six lines with two topics.
CONSTANTS
    Topics = {a, b}
    NoArg = none
    BadArg = bad
    Indents <- MCIndents
    MaxLines = 6
SPECIFICATION Spec
INVARIANTS
    RegionExact
    NothingDropped
    BareEndInnermost
    DedentFaithful
