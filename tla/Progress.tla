------------------------------ MODULE Progress ------------------------------
(***************************************************************************)
(* What must eventually happen.  A continuation whose promise is settled   *)
(* runs, and a command that is not answered times out after 750 ms; that   *)
(* is all a handler can count on, and the node need not answer.            *)
(***************************************************************************)
EXTENDS CacheHandler

\* Continuations run; the render behind a set() ends.
CallFairness == \A c \in Caller : WF_vars(Step(c))

\* Every await of the client settles in time.
TimeoutFairness ==
    \A c \in Caller : WF_vars(Timeout(c) /\ UNCHANGED handlerVars)

\* The node stays up: it executes what it is sent.
NodeFairness == \A p \in Pod : WF_vars(Exec(p) /\ UNCHANGED handlerVars)

ProgressSpec == Spec /\ CallFairness /\ TimeoutFairness

-----------------------------------------------------------------------------

Running(c) == call[c].pc \notin {"idle", "get_done"}

(***************************************************************************)
(* Every call of a handler returns, even if memcached never answers:       *)
(* nothing a render waits for can hang, not even a get() behind a set()    *)
(* that skipped its write, was given up or failed (the catch blocks and    *)
(* the finally of src/index.ts).                                           *)
(***************************************************************************)
EveryCallReturns == \A c \in Caller : Running(c) ~> ~Running(c)

\* A get() has read tag t and memcached held nothing readable for it.
ReadsCold(c, t) ==
    /\ call[c].pc = "get_tags"
    /\ t \in call[c].tags
    /\ reply[c] \in TagReply
    /\ ~Readable(reply[c].records[t])

(***************************************************************************)
(* While the node is up, a tag some get() found cold is seeded: a readable *)
(* record of it is stored, if only until the next eviction (the `add` of   *)
(* readTagRecords).                                                        *)
(***************************************************************************)
ColdTagHeals ==
    NodeFairness =>
    \A t \in Tag : (\E c \in Caller : ReadsCold(c, t)) ~> Readable(records[t])

=============================================================================
