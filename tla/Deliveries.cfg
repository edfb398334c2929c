SPECIFICATION FairSpec
CONSTANTS
    Orders = {o1}
    Senders = {s1, s2}
    Requests = {r1, r2, r3}
    None = None
    Faults = {"crash", "database"}
CHECK_DEADLOCK FALSE
INVARIANTS
    DeliveredOnce
    OneProviderInvoice
    RecordsAgree
PROPERTIES
    DeliveryStops
    EmailIsSettled
    ClaimIsSettled
