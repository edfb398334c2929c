SPECIFICATION Spec
CONSTANTS
    Quotes = {q1}
    Orders = {o1}
    Callbacks = {c1, c2}
    Workers = {w1, w2}
    Senders = {s1}
    Requests = {r1}
    HasEmail = {o1}
    Times = {1}
    None = None
    Faults = {"crash", "database"}
SYMMETRY Symmetry
CHECK_DEADLOCK FALSE
INVARIANTS NothingForUnpaid ReadyIsReadable
PROPERTIES ShownStays KeepsPromise
