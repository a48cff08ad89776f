---------------------------- MODULE MCWholeCalls ----------------------------
EXTENDS WholeCalls, MCMemoryCacheLRU
=============================================================================
