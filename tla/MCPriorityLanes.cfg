SPECIFICATION LanesSpec
CONSTANTS
    Work = {w1, w2, w3, w4}
    HighSlots = 8
    MediumSlots = 4
    LowSlots = 1
SYMMETRY WorkSymmetry
INVARIANT ServiceBounds
PROPERTY WorkConserving
