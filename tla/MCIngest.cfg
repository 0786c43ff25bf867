SPECIFICATION IngestSpec
CONSTANTS
    f1 = f1
    f2 = f2
    File = {f1, f2}
    KindChoices <- MCKindChoices
    LineText = {"a", "b", "noise"}
    TextOf <- MCTextOf
    Oversize = {"b"}
    Recap <- MCRecap
    Noise = "noise"
    None = None
    MaxLines = 2
    MaxMishaps = 1
    FilesPerPoll = 1
    UnitsPerFile = 3
INVARIANTS OffsetsSound
PROPERTIES PollersCatchUp
CHECK_DEADLOCK FALSE
