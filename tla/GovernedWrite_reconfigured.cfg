\* One call, one worker, and a restart under another ledger config.
CONSTANTS
    k1 = k1
    f1 = f1
    c1 = c1
    r1 = r1
    Keys = {k1}
    Fingerprints = {f1}
    Calls = {c1}
    Tokens = {c1}
    Recoverers = {r1}
    Owners = {r1}
    NoOwner = NoOwner
    NoToken = NoToken
    NoBody = NoBody
    MaxCrashes = 1
    MaxReconfigs = 1
SPECIFICATION FairSpec
PROPERTIES EveryWriteSettles
CHECK_DEADLOCK FALSE
