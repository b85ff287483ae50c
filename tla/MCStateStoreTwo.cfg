SPECIFICATION Spec
CONSTANTS
    daemon = daemon
    cli = cli
    mrWatcher = mrWatcher
    orphanRecovery = orphanRecovery
    trackMR = trackMR
    k1 = k1
    k2 = k2
    Proc = {daemon, cli}
    Thread = {mrWatcher, trackMR}
    Owner <- TwoProcOwner
    Key = {k1, k2}
    NoThread = NoThread
    MaxVal = 1
    MaxFails = 1
    MaxStops = 1
INVARIANT NeverTorn
PROPERTY CleanCommit
