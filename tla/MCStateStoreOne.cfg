SPECIFICATION Spec
CONSTANTS
    daemon = daemon
    cli = cli
    mrWatcher = mrWatcher
    orphanRecovery = orphanRecovery
    trackMR = trackMR
    k1 = k1
    k2 = k2
    Proc = {daemon}
    Thread = {mrWatcher, orphanRecovery}
    Owner <- OneProcOwner
    Key = {k1, k2}
    NoThread = NoThread
    MaxVal = 2
    MaxFails = 0
    MaxStops = 2
INVARIANT NoLostUpdate
PROPERTY ImplementsAtomic
