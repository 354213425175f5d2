CONSTANTS
    Calls = {c1, c2}
    Modes = {"WalDurableGrouped"}
    Kinds = {"commit"}
    Faults = {"append"}
SPECIFICATION Spec
INVARIANT AckedIsDurable
