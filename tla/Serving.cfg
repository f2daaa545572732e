\* Two requests of any kind while one generation replaces another.
SPECIFICATION FairSpec
CONSTANTS
    h1 = h1   h2 = h2   a = a   b = b   pods = pods   services = services   secret = secret
    Handlers = {h1, h2}
    Clusters = {a, b}
    NoCluster = NoCluster
    Resources = {pods, services}
    Workloads = {pods, services}
    Tokens = {secret}
    NoToken = NoToken
    Contents <- MCContents
    Requests <- MCRequests
    MaxGenerations = 2
INVARIANTS TypeOK Undisturbed ErrorsExplained ReachesItsClusters WatchLimit
PROPERTY RequestsEnd
CHECK_DEADLOCK FALSE
