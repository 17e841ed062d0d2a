SPECIFICATION Spec
CHECK_DEADLOCK FALSE
CONSTANTS
    h1 = h1
    h2 = h2
    h3 = h3
    h4 = h4
    i1 = i1
    i2 = i2
    s1 = s1
    e1 = e1
    d1 = d1
    d2 = d2
    none = none
    None = none
    Hosts = {h1, h2, h3, h4}
    Row <- MCRow
    Contents <- MCContents
    Squads = {s1}
    Externals = {e1}
    Devices = {d1, d2}
    Limit = 1
    Json = {"v2ray"}
    Rows <- MCRows
    Touched = {h4}
    Statuses = {"ACTIVE", "EXPIRED"}
    RuleSets <- MCRuleSets
    Says <- MCSays
    Settings <- MCSettings
    Inquiries <- MCInquiries
    Requests = {1}
    MaxRequests = 2
    MaxEdits = 2
    MaxFaults = 1
    Keep = 1
INVARIANTS HostsEarned RemarksDistinct TemplateFits HistoryKept
