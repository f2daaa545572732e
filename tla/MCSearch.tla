------------------------------ MODULE MCSearch ------------------------------
(* Instances of Search for TLC: words, and words with separators behind or in them;  *)
(* selectors for the calls, one of which cannot be written, and such as only the     *)
(* text of a part holds; a part whose text is blank, or no selector.                 *)
EXTENDS Search

CONSTANTS web, api, east, west, apps, sys

In(vs) == [op |-> "In", values |-> vs]
MCSelector(label, clusterExprs, namespaceExprs) ==
    [k \in ExprKeys |-> IF k = "cluster" THEN [label |-> label, exprs |-> clusterExprs]
                        ELSE [label |-> None, exprs |-> namespaceExprs]]

InBoth == MCSelector(None, <<In({east, west})>>, <<>>)
NotEast == MCSelector(None, <<[op |-> "NotIn", values |-> {east}]>>, <<>>)
ExistsInWest == MCSelector(None, <<[op |-> "Exists", values |-> {}], In({west})>>, <<>>)
EqualsWest == MCSelector(west, <<>>, <<>>)

MCSelectors == {NotEast, EqualsWest, Everything, MCSelector(None, <<In({})>>, <<>>)}

MCClientParts ==
    {<<web, Sep>>, <<web, Sep, api>>, Advanced(ExistsInWest), Advanced(Blank),
     <<Space>> \o Advanced(InBoth)}
=============================================================================
