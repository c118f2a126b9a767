---------------------------- MODULE MCCacheHistory ----------------------------
EXTENDS CacheHistory, MCCacheValues
=============================================================================
