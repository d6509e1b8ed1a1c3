SPECIFICATION FairSpec
CONSTANTS
    None = None
    Agents = {a1, a2}
    First <- MCFirst
    Servers <- MCServers
    Releases <- MCReleases
    MaxChanges = 3
    MaxKills = 1
    MaxFaults = 1
INVARIANTS
    TypeOK
    InstalledGood
PROPERTY
    UpdatesEnd
CHECK_DEADLOCK FALSE
