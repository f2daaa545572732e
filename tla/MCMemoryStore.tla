--------------------------- MODULE MCMemoryStore ---------------------------
(***************************************************************************)
(* Instances of MemoryStore for TLC: the cluster east has two namespaces,  *)
(* west has one; one namespace holds two objects.  wEast2 is the goroutine *)
(* that a second entry for the same resource in the configuration starts.  *)
(***************************************************************************)
EXTENDS MemoryStore

CONSTANTS east, west, eastApps, eastSys, westApps, web, api, dns, job,
          v1, v2, wEast, wEast2, wWest, all, apps, getWeb

Namespaces == {eastApps, eastSys, westApps}

MCClusterOf ==
    [s \in Spaces |-> IF s = westApps THEN west ELSE east]

MCSpaceOf ==
    [k \in Keys |-> CASE k \in {web, api} -> eastApps
                      [] k = dns -> eastSys
                      [] k = job -> westApps]

MCWritesTo == [w \in Writers |-> IF w = wWest THEN west ELSE east]

MCLookupKey == [q \in Lookups |-> web]

\* "apps" asks for one namespace in every cluster.
MCOpens ==
    [q \in Queries |-> CASE q = apps -> Spaces \cap {eastApps, westApps}
                         [] q = getWeb -> {eastApps}
                         [] OTHER -> Spaces]

MCMatches ==
    [q \in Queries |->
        [k \in Keys |-> IF q = getWeb /\ k # web THEN {} ELSE Versions]]
=============================================================================
