--------------------------- MODULE MCCacheHandler ---------------------------
(***************************************************************************)
(* Instances of CacheHandler for TLC: which pods and callers there are and *)
(* what the callers do.                                                    *)
(***************************************************************************)
EXTENDS CacheHandler, TLC

CONSTANTS a, b,          \* pods
          g, h, s, r, u, v \* callers: two readers, two writers, two updaters

\* All callers on pod a.
OnePod == [c \in Caller |-> a]

\* The second updater on a pod of its own.
TwoPods == [c \in Caller |-> IF c = v THEN b ELSE a]

\* Every caller sticks to one operation.
OneEach == [c \in Caller |-> CASE c \in {g, h} -> {"get"}
                               [] c \in {s, r} -> {"set"}
                               [] OTHER -> {"update"}]

\* The reader also writes, as Next.js does on a miss.
ReaderWrites == [c \in Caller |-> IF c = g THEN {"get", "set"} ELSE {"update"}]

\* Both read and update, and one also writes.
BothUpdate == [c \in Caller |-> IF c = g THEN {"get", "set", "update"} ELSE {"get", "update"}]

\* Every set of tags is all the tags.
Tagged == {Tag}

\* Callers that do the same on the same pod may change places.
AnyReader == Permutations({g, h} \cap Caller)
AnyWriter == Permutations({s, r} \cap Caller)
AnyUpdater == Permutations({u, v} \cap Caller)

\* With and without tags.
Maybe == {{}, Tag}

=============================================================================
