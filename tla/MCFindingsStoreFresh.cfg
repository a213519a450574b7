SPECIFICATION Spec
CONSTANTS
    p = p  q = q  a = a  b = b
    None = None
    Run = {p, q}
    Check = {1}
    Reset = {a}
INVARIANT
    FreshAfterReset
