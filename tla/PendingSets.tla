---------------------------- MODULE PendingSets -----------------------------
(***************************************************************************)
(* The pendingSets map of a handler: a get() waits for the set()s of its   *)
(* key that are running when it is called.                                 *)
(***************************************************************************)
EXTENDS CacheHandler

VARIABLES
    racing, \* caller -> the set()s its get() found running, still running
    crowded \* the running set()s that have overlapped one of the same key

pvars == <<vars, racing, crowded>>

Running(c) == call[c].pc \in {"set_render", "set_store"}

\* The set() calls for key k running on pod p.
Setting(p, k) == {c \in Caller : PodOf[c] = p /\ Running(c) /\ call[c].key = k}

RecordRaces ==
    /\ racing' = [c \in Caller |->
                    IF call[c].pc = "idle" /\ call'[c].pc = "get_pending"
                      THEN Setting(PodOf[c], call'[c].key)
                    ELSE IF call'[c].pc = "idle" THEN {}
                    ELSE racing[c] \ {d \in Caller : call'[d].pc = "idle"}]
    /\ crowded' = {c \in Caller :
                      /\ Running(c)'
                      /\ \/ c \in crowded
                         \/ Setting(PodOf[c], call[c].key)' # {c}}

PInit ==
    /\ Init
    /\ racing = [c \in Caller |-> {}]
    /\ crowded = {}

PSpec == PInit /\ [][Next /\ RecordRaces]_pvars

(***************************************************************************)
(* Every promise pendingSets holds is that of a set() of the key still     *)
(* running on the pod, whatever order overlapping set()s end in: no entry  *)
(* of the map outlives its call (the finally block of set()).              *)
(***************************************************************************)
PendingSetsLive ==
    \A p \in Pod, k \in Key :
        pending[p][k] # None => pending[p][k] \in Setting(p, k)

(***************************************************************************)
(* A get() reads memcached only when every set() of its key that was       *)
(* running on its pod when it was called has ended (how-it-works.md: "a    *)
(* get() racing a pending set() for the same key awaits the write").       *)
(***************************************************************************)
GetAwaitsPendingSet ==
    \A c \in Caller :
        call[c].pc \in {"get_entry", "get_tags"} => racing[c] = {}

(***************************************************************************)
(* What of it the code keeps when set()s of one key overlap: a get() waits *)
(* for the set() that runs alone, by the promise set() registers before    *)
(* its first await.                                                        *)
(***************************************************************************)
GetAwaitsLoneSet ==
    \A c \in Caller :
        call[c].pc \in {"get_entry", "get_tags"} => racing[c] \subseteq crowded

-----------------------------------------------------------------------------
(* Why they hold.                                                          *)

\* The set()s that overlap one of their key are crowded, and run.
CrowdRuns ==
    \A c \in Caller :
        /\ c \in crowded => Running(c)
        /\ Running(c) /\ Setting(PodOf[c], call[c].key) # {c} => c \in crowded

\* A set() that runs alone is the one pendingSets holds for its key.
LoneRegistered ==
    \A c \in Caller :
        Running(c) /\ c \notin crowded => pending[PodOf[c]][call[c].key] = c

\* What a get() found running runs on, and the get() waits for it unless it
\* is crowded.
RacesAwaited ==
    \A c \in Caller : \A d \in racing[c] :
        /\ d \in Caller /\ Running(d)
        /\ d \in crowded \/ (call[c].pc = "get_pending" /\ call[c].awaits = d)

PendingInv ==
    /\ TypeOK
    /\ racing \in [Caller -> SUBSET Caller]
    /\ CrowdRuns
    /\ LoneRegistered
    /\ RacesAwaited
    /\ PendingSetsLive

=============================================================================
