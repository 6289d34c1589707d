-------------------------- MODULE MCProxyRecovery --------------------------
EXTENDS ProxyRecovery
CONSTANTS a, b

Two == {a, b}
One == {a}
============================================================================
