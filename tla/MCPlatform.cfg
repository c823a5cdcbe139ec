\* One authorization request with up to three pairs of tokens, two refreshes
\* at once; two users with two requests, two pending invitations and a limit
\* of one key; two sign-in links; a restore with two people; three
\* organizations, one of them deleted, with one open runner and one run;
\* weeks of two hours, two loops and a PUT; one webhook, a chat and a ping;
\* files of two lines, three days; three packages; two reports and one
\* reader; weeks of three hours; an old installation moved by up to two calls.
SPECIFICATION PlatformSpec
CONSTANTS
    Codes = {c1}
    Grants = {g1, g2}
    MaxPairs = 3
    Handlers = {h1, h2}
    NoCode = NoCode
    Users = {a, b}
    Founder = a
    Requests = {r1, r2}
    MaxInvitations = 2
    MaxActiveKeys = 1
    Links = {l1, l2}
    Visits = {v1, v2}
    People = {p, q}
    Orgs = {o1, o2, o3}
    Doomed = {o1}
    MaxActive = 1
    MaxRuns = 1
    Senders = {s1, s2}
    Savers = {put1}
    Week = 2
    Phases = {0, 1}
    LastHour = 2
    MaxArmed = 2
    Hooks = {w1}
    Notices = {chat}
    Runs = {run1}
    Pings = {ping1}
    Keys = {k1, k2}
    NoKey = NoKey
    MaxHooks = 1
    MaxAttempts = 3
    Files <- MCFiles
    Days = {1, 2, 3}
    NoValue = NoValue
    Collected <- MCPackages
    MaxEvidence = 3
    Reported = {r1, r2}
    Looks = {look1}
    Harms = 1
    TimeZones <- MCZones
    Nows = {13}
    Happened <- MCHappened
    Situations <- MCSituations
    WeekHours = 3
    Lookback = 4
    PartialWindow = 2
    StaleAfter = 3
    ShortestRetention = 1
    OldRuns = {old1}
    MaxCalls = 2
SYMMETRY MCSymmetry
INVARIANTS
    PlatformTypeOK
    OneLivePair
    CondemnedForGood
    OwnerRemains
    KeyExcessBounded
    LinkOpensOneSession
    NothingComesBack
    RemindedOnce
    AcceptedOnce
    PeriodsAddUp
    ComparedWithTheLast
    ReadsTellTheTruth
    WeeksTellTheTruth
    NothingLostInMigration
PROPERTIES
    GrantPromiseKept
    RunnersKept
CHECK_DEADLOCK FALSE
