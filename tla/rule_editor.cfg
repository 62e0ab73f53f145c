SPECIFICATION Spec
CONSTANTS
    MAX_RULES = 4
    RULE_PAGE_SZ = 2
    str_to_l4 <- MCstr_to_l4
    str_to_l3 <- MCstr_to_l3
    Folded <- MCFolded
    Typed <- MCTyped
    Foreign <- MCForeign
    HeaderSize = 100
    RuleSize = 26
    MAX_NTFE_CFG_SZ = 16384
    MaxEdits = 2
INVARIANTS
    SavedFits
    OverrunOnlyForeign
PROPERTIES
    ImplementsSheet
