\* One reader against the goroutines of two clusters, one of them with two namespaces.
SPECIFICATION Spec
CONSTANTS
    east = east   west = west
    eastApps = eastApps   eastSys = eastSys   westApps = westApps
    web = web   api = api   dns = dns   job = job
    v1 = v1   v2 = v2
    wEast = wEast   wEast2 = wEast2   wWest = wWest
    all = all   apps = apps   getWeb = getWeb
    Clusters = {east, west}
    Spaces = {eastApps, eastSys, westApps}
    Keys = {web, dns, job}
    Versions = {v1}
    Absent = Absent
    None = None
    ClusterOf <- MCClusterOf
    SpaceOf <- MCSpaceOf
    Writers = {wEast, wWest}
    WritesTo <- MCWritesTo
    Readers = {r1}
    Queries = {all, apps, getWeb}
    Lookups = {getWeb}
    LookupKey <- MCLookupKey
    Opens <- MCOpens
    Matches <- MCMatches
    MaxCalls = 2
INVARIANTS TypeOK NoNilMap RegularReads GaugeExactUnlessEmpty
PROPERTY ImplementsCache
CHECK_DEADLOCK TRUE
