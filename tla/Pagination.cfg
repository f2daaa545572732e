\* Walks over five objects, two pairs of which tie, from pages within and beyond the list.
SPECIFICATION FairSpec
CONSTANTS
    web = web   api = api   dns = dns   job = job   bad = bad
    Objects = {web, api, dns, job, bad}
    Labelled = {web, api, dns}
    Rank <- MCRank
    NoNumber = NoNumber
    PageSizes = {1, 2, 3}
    FirstPages = {0, 1, 2, 7}
    Half = 16
    MaxPage = 7
    MaxChanges = 2
INVARIANTS TypeOK WalkComplete
PROPERTIES NoPanic TotalHonest WalkEnds
CHECK_DEADLOCK FALSE
