--------------------------- MODULE MCInvalidation ---------------------------
\* Invalidation and its refinement on the instances of MCCacheHandler.
EXTENDS MCCacheHandler, CacheRefinement

=============================================================================
