CONSTANTS
    OtherIds <- MCOtherIds
    ResourceIds <- MCResourceIds
    ConstraintIds <- MCConstraintIds
    RawSetInput <- MCRawSetInput
    MaxSetsPerCommand = 2
SPECIFICATION Spec
INVARIANT ValidationExhaustive
