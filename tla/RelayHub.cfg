CONSTANTS
    Nodes = {a, b}
    Tunnels = {t1, t2, t3}
    Requests = {r1}
    None = none
    Registries = {"reliable", "slow", "lossy"}
SPECIFICATION Spec
INVARIANTS ConnectedIsRoutable HeldOnInstalled
SYMMETRY Symmetry
CHECK_DEADLOCK FALSE
