---------------------------- MODULE MCConCtrl ----------------------------
EXTENDS ConCtrl
CONSTANTS a, b, pa, pb, none, noaddr

Macs == {a, b}
Proxies == {pa, pb}
Macs_of == [p \in Proxies |-> IF p = pa THEN a ELSE b]
List == <<a, b>>
OneMac == {a}
OneProxy == {pa}
OneMac_of == [p \in OneProxy |-> a]
OneList == <<a>>
==========================================================================
