\* Against the README: retryable provider failures fail over.
SPECIFICATION Spec
CONSTANTS
    p1 = p1
    p2 = p2
    p3 = p3
    off = off
    r1 = r1
    r2 = r2
    Requests = {r1}
    Profiles = {p1, p2, p3, off}
    Enabled = {p1, p2, p3}
    OAuth = {p1}
    Kind <- MCKind
    Backups <- ChainBackups
    Unsupported = {}
    Answers = {"ok", "rate_limited", "unauthorized", "client_error", "server_error", "unreachable", "bad_body", "sse_overloaded", "sse_denied", "sse_overflow", "sse_cut"}
    MaxRetries = 2
    Threshold = 3
INVARIANT HealthFailuresFailOver
CHECK_DEADLOCK FALSE
