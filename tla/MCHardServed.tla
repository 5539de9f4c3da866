---------------------------- MODULE MCHardServed ----------------------------
\* HardServed on the instances of MCCacheHandler.
EXTENDS MCCacheHandler, HardServed

=============================================================================
