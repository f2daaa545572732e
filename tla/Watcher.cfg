\* Changes, breaks, expiries and a stop in every order.
SPECIFICATION FairSpec
CONSTANTS
    web = web   api = api   dns = dns   apps = apps   sys = sys
    Keys = {web, dns}
    Namespaces = {apps, sys}
    NsOf <- MCNsOf
    None = None   Closed = Closed   Error = Error
    MaxRev = 3
    MaxBreaks = 2
INVARIANTS TypeOK CaughtUp NothingFromBefore
PROPERTIES AppliedGrows EventuallyInSync StopEnds
CHECK_DEADLOCK FALSE
