SPECIFICATION Spec
CONSTANTS
    Tasks = {t1, t2}
    Addrs = {a1}
    Names = {n1, n2}
    Null = Null
INVARIANTS NameOutlivesQueue
