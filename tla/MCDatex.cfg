CONSTANTS
    IdOf <- MCIdOf
    StringIdOf <- MCIdOf
    MaxTableEntries = 100
    Base = 4
    Numbers <- SomeNumbers
    Texts <- SomeTexts
    Counts = {0, 1, 2}
    Fronts <- SomeFronts
    MaxValues = 5
    MaxDepth = 2
    Samples <- SomeSamples
SPECIFICATION EncoderSpec
INVARIANTS
    EncoderTypeOK
    RoundTrip
    OnlyWholeDecodes
    KeysDistinct
    CopiesExactly
    ReadsItself
    PatchMerges
