SPECIFICATION Spec
CONSTANTS
    Writers = {w1, w2}
    Nobody = Nobody
    Bodies = {allow, deny}
    MaxSeq = 3
    MaxFaults = 1
    MaxDamage = 2
SYMMETRY MCSymmetry
INVARIANTS
    AppendsExtend
    UndamagedVerifies
    VerifiedIsHistory
CHECK_DEADLOCK FALSE
