SPECIFICATION SharingSpec
CONSTANTS
    q = q
    w = w
    Main = Main
    Nobody = Nobody
    Threads = {t1, t2}
    Objects = {q, w}
    KindOf <- Kinds
CHECK_DEADLOCK FALSE
INVARIANTS DestroyedOnce KeptByMaker
