SPECIFICATION PathSpec
CONSTANTS
    None = None  Missing = Missing  Zulu = Zulu
    AnyPolicy = 9  DefaultPolicy = 9  AnyPolicyOid = 0  PolicyOids = {0, 1, 2}
    LowerCase <- MCLowerCase
    RawInputs <- MCRawInputs  PathsOf <- MCPathsOf
    FirstYear = 1  WideYear = 2  LastYear = 3  HoursPerYear = 2  MaxOffset = 1
    Base = 2  FractionWidth = 2
INVARIANTS EveryConstraintHolds
CHECK_DEADLOCK FALSE
