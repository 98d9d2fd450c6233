CONSTANTS
    alice = alice
    bob = bob
    m = m
    t1 = t1
    t2 = t2
    t3 = t3
    NoOne = NoOne
    NoText = NoText
    NoFact = NoFact
    Accounts = {alice, bob}
    Mids = {m}
    Texts = {t1, t2, t3}
    Facts <- OneId
    MaxPendingMutations = 5
    MaxRedeliveries = 1
    MaxDeletes = 1
    MaxCrashes = 1
SPECIFICATION Spec
INVARIANTS RowsAreAuthored Converged FlagsAreRight
PROPERTIES TombstoneIsFinal
CHECK_DEADLOCK FALSE
