\* What handling the end of a stream does to the store.
SPECIFICATION Spec
CONSTANTS
    web = web   api = api   dns = dns   apps = apps   sys = sys
    Keys = {web, dns}
    Namespaces = {apps, sys}
    NsOf <- MCNsOf
    None = None   Closed = Closed   Error = Error
    MaxRev = 4
    MaxBreaks = 2
PROPERTY ResourcesSurviveServerBreak
CHECK_DEADLOCK FALSE
