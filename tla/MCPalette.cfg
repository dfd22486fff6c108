\* Two tabs of one browser, from anything that may be stored.
CONSTANTS
    Tab = {t1, t2}
    warm = warm
    ember = ember
    Colours = {warm, plain}
    Preset = {shipped, ember}
    Shipped = shipped
    PresetPalette <- Palettes
    Scheme = {light, dark}
    DefaultScheme = light
    None = None
    Malformed = Malformed
    OldPresets = FALSE
SPECIFICATION Spec
SYMMETRY Symmetry
CHECK_DEADLOCK FALSE
INVARIANT InStep
PROPERTY LinkShowsSender
