\* Terminates when every entity is gone, or in a crash.
SPECIFICATION Spec
CHECK_DEADLOCK FALSE
CONSTANTS
    Count = 3
    MaxIds = 9
    MaxCopies = 2
    MaxEdits = 3
    MaxCalls = 2
PROPERTIES
    InstancesMirror
    RoundTrip
    SourcesRestored
