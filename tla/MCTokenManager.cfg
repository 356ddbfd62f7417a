\* Two sessions that share one login, every fault.
SPECIFICATION FairSpec
CONSTANTS
    s1 = s1
    s2 = s2
    work = work
    a = a
    b = b
    c = c
    NoOne = NoOne
    Processes = {s1, s2}
    Profiles = {work}
    Requests = {a, b, c}
    Home <- TwoHomes
    ProfileOf <- OneProfile
    MaxGeneration = 2
    Environment = {"disconnect", "crash", "lost_reply", "write_error", "external_refresh"}
INVARIANTS LockFollowsHolder CachedTokenPersisted CredentialSurvives RefreshTokenSpentOnce
PROPERTIES LockComesFree
