----------------------------- MODULE MCDropped ------------------------------
\* Dropped on the instances of MCCacheHandler.
EXTENDS MCCacheHandler, Dropped

=============================================================================
