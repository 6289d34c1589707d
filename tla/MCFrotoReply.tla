--------------------------- MODULE MCFrotoReply ---------------------------
EXTENDS FrotoReply
===========================================================================
