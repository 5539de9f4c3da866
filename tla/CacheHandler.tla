---------------------------- MODULE CacheHandler ----------------------------
(***************************************************************************)
(* The cache handlers of src/index.ts: one handler per pod, each serving   *)
(* any number of concurrent get, set and updateTags calls over the pod's   *)
(* connection to a shared memcached.                                       *)
(*                                                                         *)
(* A call is a sequence of steps cut at its awaits.  call[c] holds the     *)
(* local variables that live across an await and pc names the await the    *)
(* call is suspended at; a step of a call is everything its continuation   *)
(* does up to the next await.                                              *)
(***************************************************************************)
EXTENDS Memcached, FiniteSets

CONSTANTS
    Does,       \* which operations a caller calls
    SoftTags,   \* the sets of tags get() is given
    EntryTags,  \* the sets of tags an entry is rendered with
    Lifetimes,  \* the `expire` an entry is rendered with: finite or not
    Bumps,      \* the sets of tags updateTags is given
    Durations,  \* the durations updateTags is given
    Skew,       \* by how much the clocks of two pods may differ
    MaxClock,   \* bound: the last instant
    MaxSent     \* bound: no call starts while this many commands are queued

ASSUME HandlerAssumption ==
    /\ Does \in [Caller -> SUBSET {"get", "set", "update"}]
    /\ SoftTags \subseteq SUBSET Tag
    /\ EntryTags \subseteq SUBSET Tag
    /\ Lifetimes \subseteq {"finite", "infinite"}
    /\ Bumps \subseteq SUBSET Tag
    /\ Durations \subseteq Duration
    /\ Skew \in Nat /\ MaxClock \in Nat /\ MaxSent \in Nat

\* A get() that has not ended has no result.
ASSUME ResultAssumption == None \notin {"miss", "fresh", "stale"}

VARIABLES
    clock,   \* pod -> its time
    pending, \* pod -> key -> the set() whose promise pendingSets holds
    call     \* caller -> its local variables

handlerVars == <<clock, pending, call>>
vars == <<memcachedVars, handlerVars>>

Place == {"idle",
          "get_pending", "get_entry", "get_tags", "get_done",
          "set_render", "set_store",
          "update_read", "update_write"}

Locals == [pc: Place,
           key: Key \cup {None},
           tags: SUBSET Tag,
           duration: Duration \cup {None},
           entry: Entry \cup {None},
           awaits: Caller \cup {None},
           result: {None, "miss", "fresh", "stale"}]

\* The locals a continuation is going to read are set.
Call == {local \in Locals :
            /\ local.pc \in {"get_pending", "set_render", "set_store"} =>
                  local.key \in Key
            /\ local.pc \in {"get_tags", "set_render"} => local.entry \in Entry
            /\ local.pc = "update_read" => local.duration \in Duration
            /\ local.pc = "get_done" =>
                  /\ local.result # None
                  /\ local.result # "miss" => local.entry \in Entry}

Idle == [pc |-> "idle", key |-> None, tags |-> {}, duration |-> None,
         entry |-> None, awaits |-> None, result |-> None]

\* The pods keep their clocks close to each other.
Clocks == {time \in [Pod -> 0..MaxClock] :
              \A p, q \in Pod : time[p] <= time[q] + Skew}

HandlerTypeOK ==
    /\ clock \in Clocks
    /\ pending \in [Pod -> [Key -> Caller \cup {None}]]
    /\ call \in [Caller -> Call]

\* Every variable holds a value of its type.
TypeOK == MemcachedTypeOK /\ HandlerTypeOK

Init ==
    /\ MemcachedInit
    /\ clock = [p \in Pod |-> 0]
    /\ pending = [p \in Pod |-> [k \in Key |-> None]]
    /\ call = [c \in Caller |-> Idle]

\* The time on the pod of caller c.
Now(c) == clock[PodOf[c]]

\* Caller c calls an operation of its handler.
Starts(c, operation) ==
    /\ call[c].pc = "idle"
    /\ operation \in Does[c]
    /\ Len(sent[PodOf[c]]) < MaxSent

\* Caller c consumes its answer and awaits nothing more from the node.
Settled(c) ==
    /\ reply' = [reply EXCEPT ![c] = NoReply]
    /\ UNCHANGED sent

-----------------------------------------------------------------------------
(* get(cacheKey, softTags)                                                 *)

\* Mutant: the pending set() of the key is not awaited.
GetStartAtOnce(c, k, softTags) ==
    /\ Starts(c, "get")
    /\ call' = [call EXCEPT ![c] =
                   [Idle EXCEPT !.pc = "get_pending", !.key = k,
                                !.tags = softTags]]
    /\ UNCHANGED <<memcachedVars, clock, pending>>

GetStart(c, k, softTags) ==
    /\ Starts(c, "get")
    /\ call' = [call EXCEPT ![c] =
                   [Idle EXCEPT !.pc = "get_pending", !.key = k,
                                !.tags = softTags,
                                !.awaits = pending[PodOf[c]][k]]]
    /\ UNCHANGED <<memcachedVars, clock, pending>>

\* The pending set, if there was one, has resolved.
GetSend(c) ==
    /\ call[c].pc = "get_pending"
    /\ call[c].awaits = None
    /\ Send(c, [kind |-> "get", key |-> call[c].key, by |-> c])
    /\ call' = [call EXCEPT ![c] = [@ EXCEPT !.pc = "get_entry"]]
    /\ UNCHANGED <<entries, records, clock, pending>>

Return(c, entry, result) ==
    call' = [call EXCEPT ![c] = [Idle EXCEPT !.pc = "get_done",
                                             !.entry = entry,
                                             !.result = result]]

\* What memcached holds is an entry, within its revalidate span.
Usable(stored, now) ==
    /\ stored \in Entry
    /\ now <= stored.timestamp + stored.revalidate

\* Nothing found, nothing readable, or past its revalidate span.
GetMiss(c) ==
    /\ call[c].pc = "get_entry"
    /\ reply[c] \in EntryReply
    /\ ~Usable(reply[c].entry, Now(c))
    /\ Return(c, None, "miss")
    /\ Settled(c)
    /\ UNCHANGED <<entries, records, clock, pending>>

\* Mutant: the soft tags are not checked.
OwnTags(c) == reply[c].entry.tags

\* The tags of the entry found, and the implicit tags of the route.
AllTags(c) == reply[c].entry.tags \cup call[c].tags

Found(c) ==
    /\ call[c].pc = "get_entry"
    /\ reply[c] \in EntryReply
    /\ Usable(reply[c].entry, Now(c))

GetReadTags(c) ==
    /\ Found(c)
    /\ AllTags(c) # {}
    /\ call' = [call EXCEPT ![c] = [@ EXCEPT !.pc = "get_tags",
                                             !.tags = AllTags(c),
                                             !.entry = reply[c].entry]]
    /\ Send(c, [kind |-> "gets", by |-> c])
    /\ UNCHANGED <<entries, records, clock, pending>>

\* An entry without tags is served without a tag read.
GetUntagged(c) ==
    /\ Found(c)
    /\ AllTags(c) = {}
    /\ Return(c, reply[c].entry, "fresh")
    /\ Settled(c)
    /\ UNCHANGED <<entries, records, clock, pending>>

\* The verdict on an entry from what was read of its tags; `now` is the
\* tagCheckNow of the code, taken after the records were read.
Verdict(entry, tags, read, now) ==
    IF \E t \in tags : IsHardExpired(ReadAs(read[t], now), entry.timestamp, now)
      THEN "miss"
    ELSE IF \E t \in tags : IsSoftStale(ReadAs(read[t], now), entry.timestamp)
      THEN "stale"
    ELSE "fresh"

\* Mutant: only unreadable records are re-seeded.
ColdTagsUnreadable(read, tags) == {t \in tags : read[t] = Unreadable}

\* The tags a read found no readable record of.
ColdTags(read, tags) == {t \in tags : ~Readable(read[t])}

\* Mutant: the re-seed is stamped with the epoch.
ReseedEpoch(cold, now) ==
    [kind |-> "add_tags", tags |-> cold, at |-> 0, by |-> None]

\* The re-seed of the cold tags; nobody awaits it.
Reseed(cold, now) ==
    [kind |-> "add_tags", tags |-> cold, at |-> now, by |-> None]

GetCheck(c) ==
    /\ call[c].pc = "get_tags"
    /\ reply[c] \in TagReply
    /\ LET p == PodOf[c]
           cold == ColdTags(reply[c].records, call[c].tags)
           verdict == Verdict(call[c].entry, call[c].tags, reply[c].records, Now(c))
       IN  /\ sent' = IF cold = {}
                        THEN sent
                        ELSE [sent EXCEPT ![p] = Append(@, Reseed(cold, Now(c)))]
           /\ Return(c, IF verdict = "miss" THEN None ELSE call[c].entry,
                     verdict)
    /\ reply' = [reply EXCEPT ![c] = NoReply]
    /\ UNCHANGED <<entries, records, clock, pending>>

\* The catch of get(): a miss.
GetFail(c) ==
    /\ call[c].pc \in {"get_entry", "get_tags"}
    /\ reply[c] = Error
    /\ Return(c, None, "miss")
    /\ Settled(c)
    /\ UNCHANGED <<entries, records, clock, pending>>

\* Next.js takes the result.
GetEnd(c) ==
    /\ call[c].pc = "get_done"
    /\ call' = [call EXCEPT ![c] = Idle]
    /\ UNCHANGED <<memcachedVars, clock, pending>>

-----------------------------------------------------------------------------
(* set(cacheKey, pendingEntry)                                             *)

\* The entry is rendered from here on: Next.js stamps it at the start.
SetStart(c, k, tags, revalidate) ==
    /\ Starts(c, "set")
    /\ call' = [call EXCEPT ![c] =
                   [Idle EXCEPT !.pc = "set_render", !.key = k,
                                !.entry = [tags |-> tags,
                                           timestamp |-> Now(c),
                                           revalidate |-> revalidate]]]
    /\ pending' = [pending EXCEPT ![PodOf[c]][k] = c]
    /\ UNCHANGED <<memcachedVars, clock>>

\* encodeEntry: JSON has no Infinity, and decodeEntry accepts no null.
Encoded(entry, lifetime) == IF lifetime = "finite" THEN entry ELSE Unreadable

\* The render ends, its stream is drained, and the entry is written.
SetStore(c) ==
    /\ call[c].pc = "set_render"
    /\ \E lifetime \in Lifetimes :
          Send(c, [kind |-> "set", key |-> call[c].key,
                   entry |-> Encoded(call[c].entry, lifetime), by |-> c])
    /\ call' = [call EXCEPT ![c] = [@ EXCEPT !.pc = "set_store"]]
    /\ UNCHANGED <<entries, records, clock, pending>>

\* Mutant: the entry of the map is deleted, its promise never resolves.
FinishSetSilently(c) ==
    /\ pending' = [pending EXCEPT ![PodOf[c]][call[c].key] = None]
    /\ call' = [call EXCEPT ![c] = Idle]

\* The finally block of c's set(): its promise resolves, and whatever
\* pendingSets holds for the key is deleted.
FinishSet(c) ==
    /\ pending' = [pending EXCEPT ![PodOf[c]][call[c].key] = None]
    /\ call' = [d \in Caller |->
                   IF d = c THEN Idle
                   ELSE IF call[d].awaits = c
                     THEN [call[d] EXCEPT !.awaits = None]
                   ELSE call[d]]

\* Mutant: the early return leaves the map as it is.
SetSkipEarly(c) ==
    /\ call[c].pc = "set_render"
    /\ call' = [call EXCEPT ![c] = Idle]
    /\ UNCHANGED <<memcachedVars, clock, pending>>

\* The render rejects, has no stream, is dynamic (expire 0) or too large:
\* nothing is written.
SetSkip(c) ==
    /\ call[c].pc = "set_render"
    /\ FinishSet(c)
    /\ UNCHANGED <<memcachedVars, clock>>

\* Stored or failed, the call ends alike.
SetEnd(c) ==
    /\ call[c].pc = "set_store"
    /\ reply[c] \in {Ack, Error}
    /\ FinishSet(c)
    /\ Settled(c)
    /\ UNCHANGED <<entries, records, clock>>

-----------------------------------------------------------------------------
(* updateTags(tags, durations); without tags it returns at once            *)

UpdateStart(c, tags, duration) ==
    /\ Starts(c, "update")
    /\ tags # {}
    /\ call' = [call EXCEPT ![c] =
                   [Idle EXCEPT !.pc = "update_read", !.tags = tags,
                                !.duration = duration]]
    /\ Send(c, [kind |-> "gets", by |-> c])
    /\ UNCHANGED <<entries, records, clock, pending>>

UpdateWrite(c) ==
    /\ call[c].pc = "update_read"
    /\ reply[c] \in TagReply
    /\ LET now == Round(Now(c)) IN
          Send(c, [kind |-> "set_tags", tags |-> call[c].tags,
                   items |-> [t \in Tag |->
                                 Bumped(reply[c].records[t], now, call[c].duration)],
                   at |-> now, by |-> c])
    /\ call' = [call EXCEPT ![c] = [@ EXCEPT !.pc = "update_write"]]
    /\ UNCHANGED <<entries, records, clock, pending>>

\* Every record is stored.
UpdateEnd(c) ==
    /\ call[c].pc = "update_write"
    /\ reply[c] = Ack
    /\ call' = [call EXCEPT ![c] = Idle]
    /\ Settled(c)
    /\ UNCHANGED <<entries, records, clock, pending>>

\* The catch of updateTags: the invalidation is dropped.
UpdateFail(c) ==
    /\ call[c].pc \in {"update_read", "update_write"}
    /\ reply[c] = Error
    /\ call' = [call EXCEPT ![c] = Idle]
    /\ Settled(c)
    /\ UNCHANGED <<entries, records, clock, pending>>

-----------------------------------------------------------------------------

\* Some of the clocks advance; all of them when there is no skew.
Tick ==
    /\ clock' \in Clocks
    /\ \A p \in Pod : clock'[p] \in {clock[p], clock[p] + 1}
    /\ UNCHANGED <<memcachedVars, pending, call>>

\* Mutant: the tags of a route have never been invalidated.
ExpirationNever(tags) == 0

GetExpiration(tags) == Infinite

\* Next.js gives get() the soft tags that have no expiration to compare.
Given(tags) == IF GetExpiration(tags) = Infinite THEN tags ELSE {}

StartGet(c) == \E k \in Key, tags \in SoftTags : GetStart(c, k, Given(tags))
StartSet(c) == \E k \in Key, tags \in EntryTags, r \in Revalidate :
                  SetStart(c, k, tags, r)
StartUpdate(c) == \E tags \in Bumps, d \in Durations : UpdateStart(c, tags, d)

\* What a call does once it has started.
Step(c) ==
    \/ GetSend(c) \/ GetMiss(c) \/ GetReadTags(c) \/ GetUntagged(c)
    \/ GetCheck(c) \/ GetFail(c)
    \/ SetStore(c) \/ SetSkip(c) \/ SetEnd(c)
    \/ UpdateWrite(c) \/ UpdateEnd(c) \/ UpdateFail(c)

\* Faults that leave the records alone.
Disturb ==
    \/ \E k \in Key : EvictEntry(k)
    \/ \E p \in Pod : Disconnect(p)
    \/ \E c \in Caller : Timeout(c)

Next ==
    \/ \E c \in Caller : StartGet(c) \/ StartSet(c) \/ StartUpdate(c)
    \/ \E c \in Caller : Step(c) \/ GetEnd(c)
    \/ \E p \in Pod : Exec(p) /\ UNCHANGED handlerVars
    \/ /\ Disturb \/ Restart \/ \E t \in Tag : EvictRecord(t)
       /\ UNCHANGED handlerVars
    \/ Tick

Spec == Init /\ [][Next]_vars

=============================================================================
