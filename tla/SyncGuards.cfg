SPECIFICATION FairGuardsSpec
CONSTANTS
    Syncs = {s1, s2}
    Backgrounds = {s2}
    Sends = {w1, w2}
    Repairs = {r1, r2}
    NoTask = NoTask
INVARIANTS
    GuardsTypeOK
    OneAtATime
    FlagsAreHeld
    NobodyIsTurnedAway
PROPERTY CallsReturn
