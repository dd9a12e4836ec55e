-------------------------- MODULE MCServerRequests --------------------------
(* Model values and request sets for checking ServerRequests. *)
EXTENDS ServerRequests

CONSTANTS dev, o1

R(o, p, i) == [object |-> o, prop |-> p, index |-> i]
Rq(k, refs, broken) == [kind |-> k, refs |-> refs, broken |-> broken, empty |-> FALSE]
Nothing == [kind |-> "multiple", refs |-> <<>>, broken |-> FALSE, empty |-> TRUE]

Plain == R(o1, "plain", All)
Vendor == R(dev, "builtin", All)
List == R(dev, "object-list", All)
Third == R(dev, "object-list", 3)

\* Requests of each kind, well formed and broken; one too long for an APDU, one for
\* an object without properties, one for nothing.
AllRequests == {
    Rq("read", <<Plain>>, FALSE), Rq("read", <<Third>>, FALSE), Rq("read", <<Vendor>>, TRUE),
    Rq("multiple", <<Plain, Vendor>>, FALSE), Rq("multiple", <<List, Plain>>, TRUE),
    Rq("multiple", <<Vendor, R(dev, "object-types", All), Plain>>, FALSE),
    Rq("multiple", <<>>, FALSE), Nothing,
    Rq("who-is", <<>>, FALSE), Rq("who-is", <<>>, TRUE), Rq("who-is-elsewhere", <<>>, FALSE),
    Rq("other", <<>>, FALSE)}

\* One request for two properties.
TwoEntries == { Rq("multiple", <<Plain, Vendor>>, FALSE) }
=============================================================================
