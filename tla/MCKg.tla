----------------------------------- MODULE MCKg -----------------------------------
(* Two readers, two URIs and two outages: either one key and a client that writes *)
(* through the proxy, or two keys with room for one; and configurations of which   *)
(* one URI, or none, can be used.                                                  *)
EXTENDS Kg

CONSTANTS k1, k2, p, x, y

MCCallers == {k1, k2}
MCProxies == {p}
MCKeys == {x, y}
MCPlans == {[keys |-> {x}, proxies |-> {p}, outages |-> 2, unusable |-> {}],
            [keys |-> {x, y}, proxies |-> {}, outages |-> 2, unusable |-> {}],
            [keys |-> {x}, proxies |-> {p}, outages |-> 1, unusable |-> {1}],
            [keys |-> {x}, proxies |-> {p}, outages |-> 0, unusable |-> {1, 2}]}
=============================================================================
