SPECIFICATION FairSpec
CONSTANTS
    stdout = stdout
    logfile = logfile
    Files = {stdout, logfile}
    Capacity = 2
    MaxMessages = 6
CHECK_DEADLOCK FALSE
INVARIANTS TypeOK RingHoldsPending PauseDrains NoPrintWhileReconfiguring NoSleepOverEntries
PROPERTIES PauseReturns ImplementsFifo
