SPECIFICATION EdgesSpec
CONSTANTS
    Detail = {d1, d2}
    MaxRows = 4
    p = p
    q = q
    z = z
    Project = {p, q, z}
    Expansion <- MCExpansion
    Related <- MCRelated
    AllProjects = AllProjects
    NoneYet = NoneYet
    LastAt = 1
    MaxStored = 3
    PageSize = 1
    Batch200 = 1
    Retention = 2
    MaxLate = 1
    MaxRestarts <- MCRestarts
    Session = {s1}
    Topic = {a}
    Cues = {"causes"}
    MaxTime = 2
    MaxObservations = 3
    SupersedeLimit = 1
    Chosen = {"supersedes"}
    MaxMade = 1
    RecordId = {r}
    Device = {e1, e2}
    LastTime = 2
    Change = {c1, c2}
    Deletes = {c2}
    MaxPushes = 2
    MaxPages = 2
    SourceRow = {m1, m2}
    WithId = {m1}
    WithTime = {}
    SummaryRow = {m2}
    PrivateRow = {m1}
    Issue = {i}
    Chunk = {c}
    MaxVersion = 2
    MaxJobs = 2
    SampleLimit = 1
    NoImport = NoImport
    Name <- MCName
    Absolute <- MCAbsolute
    Base <- MCBase
    LowerCase <- MCLowerCase
    Ancestors <- MCAncestors
    Real <- MCReal
    GitRoot <- MCGitRoot
    NoRoot = "none"
    ConfigRoots <- MCConfigRoots
    MaxRecords = 3
    MaxChanges = 1
    Row = {o}
    NoTable = NoTable
    Release <- MCRelease
    MaxStarts = 2
    Server = {x, y}
    Idle = Idle
    CacheTime = 1
    Attempts = 1
    LastTick = 2
    MaxCalls = 2
    MaxFailures = 1
    Remote = {y}
    Events = {v1, v2}
    Key = {k1, k2}
    Rate = 3
    Burst = 2
    EndOfTime = 6
    Process = {x, y}
    SessionId = {s1, s2, s3}
    Kept = 2
    MaxSent = 4
    MaxRegistered = 3
    Nothing = Nothing
    TeamId = {g, h}
    Invitee = {u1, u2}
    Role = {admin, member}
    Nobody = Nobody
    MaxTeamCalls = 5
INVARIANTS
    VerifyExact
    FeedExact
    LinksFoundOnce
    SyncSound
    ImportsSound
    ProjectsFound
    SchemaServed
    AnswersHonest
    RateKept
    MembersAsTold
    FilesKept
CHECK_DEADLOCK FALSE
