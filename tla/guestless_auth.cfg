\* Every user model, as it is detected or with one module set.
SPECIFICATION Spec
CONSTANTS
    UserModels <- Models
    MaxSets = 1
    None = None
INVARIANT GuestsAreOptional
\* A program whose configuration is refused stops.
CHECK_DEADLOCK FALSE
