SPECIFICATION SettingsSpec
CONSTANTS
    Procs = {p1}
    Sessioners = {s1}
    Editors = {e1, e2}
    Bodies <- MCBodies
    Owners = {o1}
    MaxEdits = 1
    DbFails = TRUE
INVARIANTS
    SettingsTypeOK
    LiveIsEarned
    EditsTakeEffect
    ConsentKept
SYMMETRY Symmetry
