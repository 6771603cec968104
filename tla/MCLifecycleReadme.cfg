\* What README.md says of the metadata that ends the process.
CONSTANTS
    Listeners <- Both
    Requests = {r1}
    Metadata <- SoundMetadata
    Introspection = "required"
    NoDocument = NoDocument
    MaxChanges = 2
SPECIFICATION Spec
CHECK_DEADLOCK FALSE
INVARIANTS
    OnlyMisconfigurationIsFatal
