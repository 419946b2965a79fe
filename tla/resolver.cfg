SPECIFICATION LinkLiveSpec
CONSTANTS
    Names <- MCNames
    Published <- MCPublished
    Tags <- MCTags
    Prerelease <- MCPrerelease
    Satisfying <- MCSatisfying
    NamesPrerelease = {}
    Manifest <- MCManifest
    Dependencies <- MCDependencies
    OptionalDependencies <- MCOptional
    Commands <- MCCommands
    Leftovers <- MCLeftovers
    MaxRestarts = 1
INVARIANTS
    TypeOK
    Least
    EdgesResolved
    Complete
    SamePackages
    FailsForCause
    RequireFinds
    NoHoisting
    BinsRun
    LinkFailsForCause
PROPERTIES
    LinkingEnds
CHECK_DEADLOCK FALSE
