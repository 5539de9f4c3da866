---------------------------- MODULE Invalidation ----------------------------
(***************************************************************************)
(* What an invalidation of a tag guarantees, stated over CacheHandler with *)
(* two history variables: they record what has happened, and no action     *)
(* of the handlers or of the node reads them.                              *)
(***************************************************************************)
EXTENDS CacheHandler

VARIABLES
    floor, \* tag -> the latest invalidation that stands (see Lands)
    view   \* caller -> floor when its get() began, and its soft tags

historyVars == <<floor, view>>
ivars == <<vars, historyVars>>

View == [floor: [Tag -> Int], soft: SUBSET Tag]

Never == [t \in Tag |-> 0]
NoView == [floor |-> Never, soft |-> {}]

HistoryTypeOK ==
    /\ floor \in [Tag -> Int]
    /\ view \in [Caller -> View]

\* Every variable, of the system and of its history, holds a value of its
\* type.
ITypeOK == TypeOK /\ HistoryTypeOK

IInit ==
    /\ Init
    /\ floor = Never
    /\ view = [c \in Caller |-> NoView]

Later(m, n) == IF m >= n THEN m ELSE n

\* A record of tag t stamped before n is still on its way, written by
\* updateTags or by a re-seed.
OnItsWay(kind, t, n) ==
    \E p \in Pod : \E command \in Commands(p) :
        command.kind = kind /\ t \in command.tags /\ command.at < n

\* An invalidation stands from the moment its record is stored, unless an
\* older one is still on its way and will overwrite it.
Lands(p, t) ==
    LET n == Head(sent[p]).at
    IN  /\ ExecSetTag(p, t)
        /\ floor' = IF OnItsWay("set_tags", t, n)
                      THEN floor
                      ELSE [floor EXCEPT ![t] = Later(@, n)]
        /\ UNCHANGED view

\* It no longer does when its record is evicted and an older re-seed on its
\* way can take the place.
Forgets(t) ==
    /\ EvictRecord(t)
    /\ IF OnItsWay("add_tags", t, floor[t])
         THEN /\ floor' = [floor EXCEPT ![t] = 0]
              /\ view' = [c \in Caller |-> [view[c] EXCEPT !.floor[t] = 0]]
         ELSE UNCHANGED historyVars

Begins(c) ==
    \E k \in Key, tags \in SoftTags :
        /\ GetStart(c, k, Given(tags))
        /\ view' = [view EXCEPT ![c] = [floor |-> floor, soft |-> tags]]
        /\ UNCHANGED floor

Ends(c) ==
    /\ GetEnd(c)
    /\ view' = [view EXCEPT ![c] = NoView]
    /\ UNCHANGED floor

INext ==
    \/ \E c \in Caller : Begins(c) \/ Ends(c)
    \/ /\ \E c \in Caller : StartSet(c) \/ StartUpdate(c) \/ Step(c)
       /\ UNCHANGED historyVars
    \/ /\ \E p \in Pod : \/ ExecGet(p) \/ ExecSet(p) \/ ExecGets(p)
                         \/ \E t \in Tag : ExecAddTag(p, t)
       /\ UNCHANGED <<handlerVars, historyVars>>
    \/ /\ \E t \in Tag : Forgets(t) \/ \E p \in Pod : Lands(p, t)
       /\ UNCHANGED handlerVars
    \/ /\ Disturb \/ Restart
       /\ UNCHANGED <<handlerVars, historyVars>>
    \/ Tick /\ UNCHANGED historyVars

ISpec == IInit /\ [][INext]_ivars

-----------------------------------------------------------------------------

\* get() has handed an entry to Next.js.
Served(c, results) == call[c].pc = "get_done" /\ call[c].result \in results

\* The tags that concern the entry served: its own and the soft ones.
Concerned(c) == call[c].entry.tags \cup view[c].soft

(***************************************************************************)
(* A get() that begins when an invalidation of a tag stands never returns  *)
(* an entry stamped before it as fresh, when the tag is one of the entry's *)
(* own or one of the soft tags of the get(): whatever is evicted, lost or  *)
(* re-seeded meanwhile, as long as the clocks agree (readTagRecords,       *)
(* isHardExpired, isSoftStale).                                            *)
(***************************************************************************)
InvalidatedNeverFresh ==
    \A c \in Caller :
        Served(c, {"fresh"}) =>
            \A t \in Concerned(c) : call[c].entry.timestamp >= view[c].floor[t]

\* A stamp may be ahead of a clock: by what the clocks differ, and the half
\* millisecond that Math.round may add.
Ahead == Skew + Sub \div 2

\* A stamp may be behind an earlier one: by what the clocks differ, and less
\* than a millisecond, half taken off the one and half added to the other.
Slack == Skew + Sub - 1

\* c's get() finds its entry fresh in this step.
FindsFresh(c) ==
    call[c].pc = "get_tags" /\ call'[c].pc = "get_done" /\ call'[c].result = "fresh"

\* The record c has read of tag t is stamped ahead of c's clock.
StampedAhead(c, t) ==
    LET record == reply[c].records[t]
    IN  /\ Readable(record) /\ record.expired # None
        /\ Now(c) < record.expired /\ record.expired <= Now(c) + Ahead

(***************************************************************************)
(* What clocks that differ and stamps that are rounded cost (nowMs of      *)
(* index.ts and of tags.ts, Math.round of bumpTags): an entry that a get() *)
(* finds fresh is stamped at most Slack before the invalidation that stood *)
(* when it began, unless the record it has read is still in its future,    *)
(* which no record without `expire` is by more than Ahead.                 *)
(***************************************************************************)
FreshWithinSlack ==
    [][\A c \in Caller : FindsFresh(c) =>
          \A t \in Concerned(c) :
              \/ call[c].entry.timestamp >= view[c].floor[t] - Slack
              \/ StampedAhead(c, t)]_ivars

-----------------------------------------------------------------------------
(***************************************************************************)
(* Why they hold: an invariant every step preserves.                       *)
(***************************************************************************)

\* No pod's clock is further behind n than stamps may be ahead.
Reached(n, time) == \A p \in Pod : n <= time[p] + Ahead

\* Whoever reads `stored` once its stamp has come finds an entry stamped
\* before n invalidated.
Covers(stored, n, time) ==
    stored \in TagRecord =>
        \/ stored.stale \in Int /\ n <= stored.stale
        \/ /\ stored.expired \in Int /\ n <= stored.expired
           /\ Reached(stored.expired, time)

FloorsReached ==
    /\ \A t \in Tag : floor[t] \in Nat /\ Reached(floor[t], clock)
    /\ \A c \in Caller, t \in Tag : view[c].floor[t] \in 0..floor[t]

RecordsCover == \A t \in Tag : Covers(records[t], floor[t] - Slack, clock)

\* A record updateTags has sent covers its own stamp, which no invalidation
\* that stands is later than, but for the slack.
BumpsCover ==
    \A p \in Pod : \A command \in Commands(p) : command.kind = "set_tags" =>
        \A t \in command.tags :
            /\ floor[t] - Slack <= command.at /\ Reached(command.at, clock)
            /\ command.items[t] # None
            /\ Covers(command.items[t], command.at, clock)

\* A re-seed older than the invalidation that stands finds a record stored.
ReseedsHarmless ==
    \A p \in Pod : \A command \in Commands(p) : command.kind = "add_tags" =>
        \A t \in command.tags :
            /\ 0 <= command.at /\ Reached(command.at, clock)
            /\ records[t] = None => floor[t] - Slack <= command.at

RepliesCover ==
    \A c \in Caller :
        (call[c].pc = "get_tags" /\ reply[c] \in TagReply) =>
            \A t \in Tag : Covers(reply[c].records[t], view[c].floor[t] - Slack, clock)

\* A get() checks every tag that concerns the entry.
TagsChecked ==
    \A c \in Caller :
        /\ call[c].pc \in {"get_pending", "get_entry"} =>
              view[c].soft \subseteq call[c].tags
        /\ call[c].pc = "get_tags" => Concerned(c) \subseteq call[c].tags

(***************************************************************************)
(* The two properties made inductive: every record stored, sent or read    *)
(* covers the invalidation that must be respected where it is used.        *)
(***************************************************************************)
StandingInv ==
    /\ ITypeOK
    /\ FloorsReached
    /\ RecordsCover
    /\ BumpsCover
    /\ ReseedsHarmless
    /\ RepliesCover
    /\ TagsChecked
    /\ Slack = 0 => InvalidatedNeverFresh

-----------------------------------------------------------------------------
(* Whose answers arrive.                                                   *)

\* The await a command's caller is suspended at when it awaits the answer.
Suits(command, local) ==
    \/ command.kind = "get" /\ local.pc = "get_entry" /\ local.key = command.key
    \/ command.kind = "gets" /\ local.pc \in {"get_tags", "update_read"}
    \/ command.kind = "set" /\ local.pc = "set_store"
    \/ command.kind = "set_tags" /\ local.pc = "update_write"

(***************************************************************************)
(* Whoever is named by a command that is queued has no answer yet, is      *)
(* suspended at the await of this very command, and awaits no other.       *)
(***************************************************************************)
AwaitInv ==
    \A p \in Pod : \A i \in DOMAIN sent[p] :
        LET c == sent[p][i].by
        IN  c # None =>
                /\ PodOf[c] = p
                /\ reply[c] = NoReply
                /\ Suits(sent[p][i], call[c])
                /\ \A j \in DOMAIN sent[p] : sent[p][j].by = c => j = i

=============================================================================
