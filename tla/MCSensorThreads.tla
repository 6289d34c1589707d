-------------------------- MODULE MCSensorThreads --------------------------
EXTENDS SensorThreads
CONSTANTS a, b, t1, t2

Ids == {a, b}
Threads == {t1, t2}
============================================================================
