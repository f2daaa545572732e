\* The options of a deletion.
SPECIFICATION Spec
CONSTANTS
    h1 = h1   h2 = h2   a = a   b = b   pods = pods   services = services   secret = secret
    Handlers = {h1}
    Clusters = {a, b}
    NoCluster = NoCluster
    Resources = {pods, services}
    Workloads = {pods, services}
    Tokens = {secret}
    NoToken = NoToken
    Contents <- MCContents
    Requests <- Deletions
    MaxGenerations = 2
INVARIANT PassedAsSent
CHECK_DEADLOCK FALSE
