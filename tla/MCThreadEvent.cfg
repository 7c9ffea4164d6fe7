SPECIFICATION EventFairSpec
CONSTANTS
    Users = {t1, t2, t3}
    NoUser = NoUser
INVARIANTS NoSleepWhileSet
PROPERTIES ImplementsFlag SetWakesAll
