\* One call, two overlapping recovery workers, a process death: recovery always ends.
CONSTANTS
    k1 = k1
    f1 = f1
    c1 = c1
    r1 = r1
    r2 = r2
    Keys = {k1}
    Fingerprints = {f1}
    Calls = {c1}
    Tokens = {c1}
    Recoverers = {r1, r2}
    Owners = {r1, r2}
    NoOwner = NoOwner
    NoToken = NoToken
    NoBody = NoBody
    MaxCrashes = 1
    MaxReconfigs = 0
SPECIFICATION FairSpec
PROPERTIES EveryWriteSettles
CHECK_DEADLOCK FALSE
