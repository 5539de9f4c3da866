------------------------------ MODULE Returned ------------------------------
(***************************************************************************)
(* What updateTags guarantees once it has returned: the history of         *)
(* Invalidation, when each call of updateTags began, and the tags of which *)
(* another write may take back what it has stored.                         *)
(***************************************************************************)
EXTENDS Invalidation

VARIABLES
    began,    \* caller -> when its updateTags was called
    overtaken \* caller -> the tags of which an older record is stored after
              \*           that of its updateTags, or may be

rvars == <<ivars, began, overtaken>>

RInit ==
    /\ IInit
    /\ began = [c \in Caller |-> 0]
    /\ overtaken = [c \in Caller |-> {}]

\* c's call goes from place to place' in this step.
Moves(c, from, to) == call[c].pc = from /\ call'[c].pc = to

\* updateTags returns with its records stored.
Returns(c) == Moves(c, "update_write", "idle") /\ reply[c] = Ack

\* The callers whose updateTags without durations returns so, with t.
ReturnHard(t) ==
    {c \in Caller : Returns(c) /\ call[c].duration = Hard /\ t \in call[c].tags}

\* The record c writes of tag t is stored in this step, while an older one is
\* still on its way: from another pod, or from a call that was given up.
StoredEarly(c, t) ==
    \E p \in Pod : /\ sent[p] # <<>> /\ Head(sent[p]).by = c
                   /\ OnItsWay("set_tags", t, Head(sent[p]).at)
                   /\ Lands(p, t)

RecordCall ==
    /\ began' = [c \in Caller |-> IF Moves(c, "idle", "update_read") THEN Now(c)
                                  ELSE IF call'[c].pc = "idle" THEN 0
                                  ELSE began[c]]
    /\ overtaken' = [c \in Caller |->
                       IF call'[c].pc # "update_write" THEN {}
                       ELSE overtaken[c] \cup {t \in call[c].tags :
                               StoredEarly(c, t) \/ floor'[t] < floor[t]}]

RSpec == RInit /\ [][INext /\ RecordCall]_rvars

\* `last` with the start of the call of tag t that returns in this step, if
\* it is one of `callers`.
AfterReturn(last, t, callers) ==
    IF ReturnHard(t) \cap callers = {}
      THEN last
      ELSE Later(last, began[CHOOSE c \in ReturnHard(t) : TRUE])

\* A stamp is behind the time it was taken at by less than half a millisecond.
Behind == (Sub - 1) \div 2

(***************************************************************************)
(* When updateTags returns without an error, the invalidation of every tag *)
(* it was given stands, however its batch was interleaved with the others' *)
(* (bumpTags awaits the set of every tag, and is told of each).  The       *)
(* exceptions are the tags of which an older record was still on its way   *)
(* when its own was stored, or an older re-seed when it was evicted.       *)
(***************************************************************************)
ReturnedUnlessOvertaken ==
    [][\A c \in Caller : Returns(c) =>
          \A t \in call[c].tags \ overtaken[c] : floor'[t] >= began[c] - Behind]_rvars

(***************************************************************************)
(* On one connection there are no exceptions: when updateTags returns, its *)
(* invalidation stands, and no step ever takes that back: not a record of  *)
(* an earlier call still on its way, not an eviction or a restart and the  *)
(* re-seed that follows.                                                   *)
(***************************************************************************)
ReturnedInvalidationStands ==
    [][/\ \A c \in Caller : Returns(c) =>
              \A t \in call[c].tags : floor'[t] >= began[c]
       /\ \A t \in Tag : floor'[t] >= floor[t]]_rvars

-----------------------------------------------------------------------------
(***************************************************************************)
(* Why they hold: invariants every step preserves.                         *)
(***************************************************************************)

BeganInPast == \A c \in Caller : began[c] \in 0..Now(c)

\* The invalidation c's call makes of each of these tags stands, or an older
\* one may have taken its place.
Stands(c, tags) == \A t \in tags \ overtaken[c] : floor[t] >= began[c] - Behind

\* Of the records updateTags writes, those that are not on their way stand.
WrittenStands ==
    \A c \in Caller : call[c].pc = "update_write" =>
        /\ reply[c] = Ack => Stands(c, call[c].tags)
        /\ \A p \in Pod : \A command \in Commands(p) : command.by = c =>
              /\ command.at >= began[c] - Behind
              /\ Stands(c, call[c].tags \ command.tags)

(***************************************************************************)
(* The first property made inductive: what a batch has no longer on its    *)
(* way is stored.                                                          *)
(***************************************************************************)
ReturnedInv ==
    /\ StandingInv
    /\ AwaitInv
    /\ BeganInPast
    /\ WrittenStands

\* The commands that write tag records.
WritesRecord(command) == command.kind \in {"set_tags", "add_tags"}

\* Records are written in the order of their stamps.
QueueInOrder ==
    \A p \in Pod : \A i, j \in DOMAIN sent[p] :
        (i < j /\ WritesRecord(sent[p][i]) /\ WritesRecord(sent[p][j])) =>
            sent[p][i].at <= sent[p][j].at

\* No stamp is yet to come, and nothing on its way is older than what stands.
StampsBetween ==
    /\ \A p \in Pod : \A command \in Commands(p) : WritesRecord(command) =>
          /\ command.at <= clock[p]
          /\ \A t \in Tag : floor[t] <= command.at
    /\ \A t \in Tag, p \in Pod : floor[t] <= clock[p]

(***************************************************************************)
(* The second property made inductive, for times in whole milliseconds and *)
(* callers that share one connection: as its records are written in the    *)
(* order of their stamps, none that lands is late, and no re-seed is older *)
(* than a record it could replace.                                         *)
(***************************************************************************)
OrderedInv ==
    /\ QueueInOrder
    /\ StampsBetween
    /\ \A c \in Caller : overtaken[c] = {}

=============================================================================
