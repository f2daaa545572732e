\* Sequences of calls on searches of up to two parts.
SPECIFICATION Spec
CONSTANTS
    web = web   api = api   east = east   west = west   apps = apps   sys = sys
    Sep = Sep   Space = Space
    Paging = Paging   Open = Open   Close = Close
    None = None   Blank = Blank   NoText = NoText   NoName = NoName
    Words = {web, api}
    Refusable = {api}
    Clusters = {east, west}
    Namespaces = {apps, sys}
    Default = east
    ClientParts <- MCClientParts
    Selectors <- MCSelectors
    PartLen = 2   Base = 3   Digits = 2
    MaxParts = 2
    MaxCalls = 4
INVARIANTS TypeOK SearchKept QueryArrives
CHECK_DEADLOCK FALSE
