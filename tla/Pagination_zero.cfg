\* Requests for page 0, and with page size 0.
SPECIFICATION Spec
CONSTANTS
    web = web   api = api   dns = dns   job = job   bad = bad
    Objects = {web, api}
    Labelled = {web, api}
    Rank <- MCRank
    NoNumber = NoNumber
    PageSizes = {0, 1}
    FirstPages = {0, 1}
    Half = 16
    MaxPage = 3
    MaxChanges = 0
PROPERTY ZeroMeansAll
CHECK_DEADLOCK FALSE
