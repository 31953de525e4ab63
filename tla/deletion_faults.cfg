SPECIFICATION Spec
CONSTANTS
    r1 = r1
    k1 = k1
    f1 = f1
    f2 = f2
    f3 = f3
    Recs = {r1}
    Clips = {k1}
    Source <- SourceDef
    Files = {f1, f2, f3}
    Owner <- OwnerDef
    Ops = {o1, o2}
    Boot = Boot
    None = None
    MaxEntries = 3
    Faults = {"crash", "dbFails", "txTimeout", "fsFails"}
SYMMETRY Symmetry
INVARIANTS TypeOK NothingLost
