SPECIFICATION Spec
CONSTANTS
    b1 = b1
    b2 = b2
    Owners = {b1, b2}
    MaxPrefix = 3
    MaxNodes = 2
    MaxBytes = 3
    Requests = {r1, r2}
    Texts <- Prompts
    Splits <- TwoSplits
    Strategy <- Strategies
    Members <- BothIn
    Weights = {0}
    StartWeight <- Even
    RingOrder <- Clockwise
    Threshold = 1
    MaxRings = 1
    MaxChanges = 2
    MaxInserts = 2
INVARIANTS PoolsAgree NeverAGoneInstance TreeCounted  MarksAreOfTheInstance
PROPERTIES NoWeightNoPick
SYMMETRY RequestsAlike
CHECK_DEADLOCK FALSE
