SPECIFICATION Spec
SYMMETRY Symmetry
CONSTANTS
    SshConns = {s1, s2, s3}
    IrcConns = {r1, r2}
    Ips = {i1}
    Users = {u1}
    MaxConnsPerIp = 2
    ConnLimit = 2
    MaxIrcPerUser = 1
    MaxDeletions = 1
    None = None
    Tasks = {t1, t2, t3, t4}
    MaxAttempts = 2
    Window = 3
    MaxDelay = 1
    MaxClock = 6
INVARIANTS
    AdmissionBalances
    PresenceAgrees
    SessionsAreReachable
PROPERTIES
    LimiterCounts
