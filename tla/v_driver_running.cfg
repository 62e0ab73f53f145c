CONSTANTS
    None = None
    Adapter = {a1, a2}
    Module = {m1, m2}
    Thread = {t1}
SPECIFICATION Spec
SYMMETRY Symmetry
INVARIANTS
    SuspendGuarantee
CHECK_DEADLOCK FALSE
