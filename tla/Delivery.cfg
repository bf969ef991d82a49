CONSTANTS
    NoRow = NoRow
    Alarms = {a1}
    u1 = u1
    u2 = u2
    Users = {u1, u2}
    Policies = {p1, p2}
    Kinds <- GasDanger
    Forms <- PolicyForms
    MaxInserts = 2
    MaxEdits = 1
    MaxFailures = 1
    NoticeIds = {n1}
    Readers = {u1}
    NoticeForms <- DatedForms
    MaxDispatches = 2
    MaxBreaks = 1
    Happenings <- ZoneEvents
    MaxReports = 2
    MaxOutages = 2
    MaxLost = 1
    Days = {0, 1}
    MaxRows = 2
    MaxAge = 2
    MaxJobs = 2
    MaxSeconds = 1
    Keep = 1
    Chunk = 1
    MaxPolicyEdits = 1
SPECIFICATION MCSpec
CHECK_DEADLOCK FALSE
 
 
INVARIANT ChannelsAreApart
INVARIANT DeletionIsBackedUp
