CONSTANTS
    Width = 5
    Register = {2}
    Parameter = {"count", "level"}
    Layout <- MCLayout
    Input <- MCInput
    Raw <- MCRaw
    None = None
SPECIFICATION Spec
INVARIANT TypeOK
PROPERTIES SiblingsKept SetTogether GetsWhatWasThere WritesWithinLimits
