SPECIFICATION Spec
CONSTANTS
    Names = {"x", "y"}
    Aliases = {"x", "y"}
    Versions = {1, 2}
    Satisfying <- MCSatisfying
    Deps <- MCDeps
    Specs <- MCSpecs
    Handwritten <- MCHandwritten
    Additions <- MCAdditions
    Caret <- MCCaret
    Flags <- MCFlags
    Suspects <- MCSuspects
    Published <- MCPublished
    Upcoming <- MCUpcoming
INVARIANTS
    DeclaredIsInstalled
CHECK_DEADLOCK FALSE
