\* Every user model, the application sets up to two modules.
SPECIFICATION Spec
CONSTANTS
    UserModels <- Models
    MaxSets = 2
    None = None
INVARIANT RequestsFindInterfaces
INVARIANT DetectionIsAccepted
\* A program whose configuration is refused stops.
CHECK_DEADLOCK FALSE
