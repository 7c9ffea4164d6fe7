SPECIFICATION FontsSpec
CONSTANTS
    f1 = f1
    f2 = f2
    m = m
    x = x
    o1 = o1
    o2 = o2
    o3 = o3
    s1 = s1
    s2 = s2
    Nil = Nil
    Ids = {f1, f2, m, x}
    Mmapped = {m}
    Missing = {x}
    Objects = {o1, o2, o3}
    Spans = {s1, s2}
    FileSize <- FileSizes
    MemLimits = {0, 1}
    MmappedLimits = {0, 1}
    MaxAsked = 1
SYMMETRY Alike
CHECK_DEADLOCK FALSE
INVARIANTS HeldFontAlive RefsAccounted
