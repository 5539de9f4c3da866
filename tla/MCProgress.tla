----------------------------- MODULE MCProgress -----------------------------
\* Progress on the instances of MCCacheHandler.
EXTENDS MCCacheHandler, Progress

=============================================================================
