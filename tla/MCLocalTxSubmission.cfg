CONSTANTS
    Clients = {c1, c2, c3}
    Txs = {t1, t2}
    Cap = 1
    MaxTime = 2
SPECIFICATION Spec
INVARIANT AckMeansPooled
