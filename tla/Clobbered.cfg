SPECIFICATION WnSpec
CONSTANTS
    Layouts <- MCLayouts
    Presets = {p, q}
    AllocModes = {"model", "level"}
    MaxWindows = 3
    MaxOps = 6
PROPERTIES HiddenKept
SYMMETRY PresetSymmetry
CONSTRAINT Plain
CHECK_DEADLOCK FALSE
