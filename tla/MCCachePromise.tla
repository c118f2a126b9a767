-------------------------- MODULE MCCachePromise ----------------------------
EXTENDS CachePromise, MCCacheValues
=============================================================================
