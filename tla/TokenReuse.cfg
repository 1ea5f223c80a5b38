SPECIFICATION Spec
CONSTANTS
    Users = {u1}
    Families = {f1, f2}
    Tokens = {t1, t2, t3, t4}
    Requests = {q1, q2}
    Lifetime = 1
    MaxTime = 2
SYMMETRY Symmetry
INVARIANT SingleUse
