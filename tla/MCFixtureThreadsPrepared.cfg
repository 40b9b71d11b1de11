CONSTANTS
    fConstraint = fConstraint
    fResource = fResource
    fStonith = fStonith
    FixtureOrder <- MCFixtureOrder
    TimeoutCounter = 4
    AllTests <- MCAllTests
    ImportableModules = {}
    ArgvInput <- MCArgvInput
SPECIFICATION Spec
\* main() exits, normally or by an exception: the model stops there.
CHECK_DEADLOCK FALSE
INVARIANT PreparedOnlyIfAllSetUp
