SPECIFICATION Spec
CONSTANTS
    Mints = {m1, m2}
    Names = {"n1", "n2"}
    Envs = {"dev", "live"}
    Chars = {"a", "_"}
    KeyIdLen = 1
    SecretLen = 1
    Old = Old
    None = None
SYMMETRY MintSymmetry
INVARIANTS
    TokenFindsItsRow
    OneWorkspacePerName
CHECK_DEADLOCK FALSE
