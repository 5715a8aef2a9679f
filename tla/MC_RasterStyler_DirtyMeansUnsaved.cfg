CONSTANTS
    L1 = L1
    L2 = L2
    NoLayer = NoLayer
    NoURL = NoURL
    NoType = NoType
    NoDoc = NoDoc
    Layers <- MCLayers
    Quantities = {0, 1}
    Types = {"ramp", "intervals"}
    DefaultType = "ramp"
    PresetDocs <- MCPresetDocs
    PresetSLD <- MCPresetSLD
    MaskBlocksInput = TRUE
    MaxOpen = 1
    MaxDocs = 3
    MaxEntries = 1
SPECIFICATION Spec
CHECK_DEADLOCK FALSE
INVARIANT DirtyMeansUnsaved
