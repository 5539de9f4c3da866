------------------------------- MODULE MCKept -------------------------------
\* Kept on the instances of MCCacheHandler.
EXTENDS MCCacheHandler, Kept

=============================================================================
