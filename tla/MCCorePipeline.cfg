SPECIFICATION FairSpec
CONSTANTS
    Thread = {t1, t2}
    Log = {l1}
    ErrorLog = {l1}
    Command = {c1}
    InitialConsent = "granted"
    Choice = {"granted", "notGranted"}
    Registered <- CrashFirst
    NoCall = none
    MaxChanges = 1
    MaxStops = 1
INVARIANTS AgreeAtRest ScopeOutlivesWork LogSeesOwnView ConsentBinds
PROPERTIES CallsTakeEffect
CHECK_DEADLOCK FALSE
