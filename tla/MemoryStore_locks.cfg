\* Two goroutines that watch one cluster and two readers, all after the same locks.
SPECIFICATION FairSpec
CONSTANTS
    east = east   west = west
    eastApps = eastApps   eastSys = eastSys   westApps = westApps
    web = web   api = api   dns = dns   job = job
    v1 = v1   v2 = v2
    wEast = wEast   wEast2 = wEast2   wWest = wWest
    all = all   apps = apps   getWeb = getWeb
    Clusters = {east, west}
    Spaces = {eastApps}
    Keys = {web}
    Versions = {v1}
    Absent = Absent
    None = None
    ClusterOf <- MCClusterOf
    SpaceOf <- MCSpaceOf
    Writers = {wEast, wEast2}
    WritesTo <- MCWritesTo
    Readers = {r1, r2}
    Queries = {all}
    Lookups = {}
    LookupKey <- MCLookupKey
    Opens <- MCOpens
    Matches <- MCMatches
    MaxCalls = 1
PROPERTIES CallsReturn ReadsReturn
CHECK_DEADLOCK TRUE
