------------------------ MODULE CacheRefinementProofs ------------------------
(***************************************************************************)
(* With a clock of whole milliseconds that all pods share, the handlers    *)
(* implement Cache: for any number of pods, callers, keys and tags, and    *)
(* any faults.                                                             *)
(***************************************************************************)
EXTENDS CacheRefinement, InvalidationProofs

-----------------------------------------------------------------------------
(* The refinement mapping.                                                 *)

\* The cells of the cache, and its lookups.
Cells == [k \in Key |-> Legible(entries[k])]
Lookups == [c \in Caller |-> Lookup(c)]

\* A lookup depends on these locals and this answer only.
LEMMA SameLookup ==
    ASSUME NEW d \in Caller,
           call'[d].pc = call[d].pc, call'[d].key = call[d].key,
           call'[d].entry = call[d].entry, call'[d].result = call[d].result,
           reply'[d] = reply[d] \/ call[d].pc # "get_entry",
           view'[d] = view[d]
    PROVE  Lookup(d)' = Lookup(d)
<1>1. HasEntry(d)' <=> HasEntry(d)
  BY DEF HasEntry
<1>2. Phase(d)' = Phase(d)
  BY <1>1 DEF Phase
<1>3. HasEntry(d) => reply'[d] = reply[d]
  BY DEF HasEntry
<1>. QED
  BY <1>1, <1>2, <1>3 DEF Lookup

\* Only the lookup of c changes.
LEMMA OneLookup ==
    ASSUME NEW c \in Caller, NEW new, Lookup(c)' = new,
           \A d \in Caller \ {c} : Lookup(d)' = Lookup(d)
    PROVE  Lookups' = [Lookups EXCEPT ![c] = new]
BY DEF Lookups

\* No lookup changes.
LEMMA NoLookupChanges ==
    ASSUME \A d \in Caller : Lookup(d)' = Lookup(d)
    PROVE  Lookups' = Lookups
BY DEF Lookups

\* Where a lookup is, by the await of its call.
LEMMA Phases ==
    ASSUME NEW c \in Caller
    PROVE  /\ call[c].pc \in {"idle", "set_render", "set_store", "update_read",
                              "update_write"} =>
                 Phase(c) = "idle" /\ ~HasEntry(c)
           /\ call[c].pc = "get_pending" => Phase(c) = "asked" /\ ~HasEntry(c)
           /\ call[c].pc = "get_entry" =>
                 Phase(c) = IF HasEntry(c) THEN "fetched" ELSE "asked"
           /\ call[c].pc = "get_tags" => Phase(c) = "fetched" /\ ~HasEntry(c)
           /\ call[c].pc = "get_done" => Phase(c) = "answered" /\ ~HasEntry(c)
BY DEF Phase, HasEntry

\* A call that begins is asked.
LEMMA RefinesBegins ==
    ASSUME StandingInv, NEW c \in Caller, Begins(c)
    PROVE  C!Next
<1>1. PICK k \in Key, tags \in SoftTags :
         /\ GetStart(c, k, Given(tags))
         /\ view' = [view EXCEPT ![c] = [floor |-> floor, soft |-> tags]]
  BY DEF Begins
<1>. DEFINE asked == [phase |-> "asked", key |-> k, soft |-> tags, since |-> floor,
                      entry |-> None, result |-> None]
<1>2. /\ call \in [Caller -> Locals] /\ view \in [Caller -> View] /\ TypeOK
      /\ tags \in SUBSET Tag
  BY HandlerAssumption
     DEF StandingInv, ITypeOK, TypeOK, HandlerTypeOK, Call, HistoryTypeOK
<1>3. Lookup(c).phase = "idle"
  BY <1>1, Phases DEF GetStart, Starts, Lookup
<1>4. Lookup(c)' = asked
  <2>. DEFINE local == [Idle EXCEPT !.pc = "get_pending", !.key = k,
                                    !.tags = Given(tags),
                                    !.awaits = pending[PodOf[c]][k]]
  <2>1. /\ local.pc = "get_pending" /\ local.key = k
        /\ local.entry = None /\ local.result = None
    BY DEF Idle
  <2>. HIDE DEF local
  <2>2. call'[c] = local
    BY <1>1, <1>2 DEF GetStart, local
  <2>3. Phase(c)' = "asked" /\ ~HasEntry(c)'
    BY <2>1, <2>2 DEF Phase, HasEntry
  <2>4. view'[c] = [floor |-> floor, soft |-> tags]
    BY <1>1, <1>2
  <2>. QED
    BY <2>1, <2>2, <2>3, <2>4 DEF Lookup
<1>5. ASSUME NEW d \in Caller \ {c}
      PROVE  Lookup(d)' = Lookup(d)
  <2>1. StartGet(c)
    BY <1>1 DEF StartGet
  <2>2. view'[d] = view[d]
    BY <1>1, <1>2
  <2>. QED
    BY <1>2, <2>1, <2>2, OthersStep, SameLookup
<1>6. Lookups' = [Lookups EXCEPT ![c] = asked]
  <2>. HIDE DEF asked
  <2>. QED
    BY <1>4, <1>5, OneLookup
<1>7. UNCHANGED <<entries, floor>>
  BY <1>1 DEF Begins, GetStart, memcachedVars
<1>8. C!Ask(c, k, tags)
  BY <1>3, <1>6, <1>7 DEF C!Ask, Lookups
<1>. QED
  BY <1>2, <1>8 DEF C!Next

\* A call whose result is taken is a lookup no more.
LEMMA RefinesEnds ==
    ASSUME StandingInv, NEW c \in Caller, Ends(c)
    PROVE  C!Next
<1>1. /\ call \in [Caller -> Locals] /\ view \in [Caller -> View] /\ TypeOK
  BY DEF StandingInv, ITypeOK, TypeOK, HandlerTypeOK, Call, HistoryTypeOK
<1>2. GetEnd(c) /\ view' = [view EXCEPT ![c] = NoView] /\ floor' = floor
  BY DEF Ends
<1>3. Lookup(c).phase = "answered"
  BY <1>2, Phases DEF GetEnd, Lookup
<1>4. Lookup(c)' = C!NoLookup
  <2>1. call'[c].pc = "idle"
    BY <1>1, <1>2 DEF GetEnd, Idle
  <2>2. Phase(c)' = "idle"
    BY <2>1 DEF Phase, HasEntry
  <2>. QED
    BY <2>2 DEF Lookup, C!NoLookup, C!Never, Never
<1>5. ASSUME NEW d \in Caller \ {c}
      PROVE  Lookup(d)' = Lookup(d)
  <2>1. view'[d] = view[d]
    BY <1>1, <1>2
  <2>. QED
    BY <1>1, <1>2, <2>1, OthersStep, SameLookup
<1>6. Lookups' = [Lookups EXCEPT ![c] = C!NoLookup]
  BY <1>4, <1>5, OneLookup
<1>7. UNCHANGED <<entries, floor>>
  BY <1>2 DEF GetEnd, memcachedVars
<1>8. C!Take(c)
  BY <1>3, <1>6, <1>7 DEF C!Take, Lookups
<1>. QED
  BY <1>8 DEF C!Next

\* A get() that returns answers its lookup.
LEMMA RefinesReturn ==
    ASSUME StandingInv, NEW c \in Caller, Step(c),
           UNCHANGED <<entries, historyVars>>,
           NEW entry, NEW result \in {"miss", "fresh", "stale"},
           Return(c, entry, result),
           Lookup(c).phase \in {"asked", "fetched"},
           C!Allowed(Lookup(c), result),
           entry = IF result = "miss" THEN None ELSE Lookup(c).entry
    PROVE  C!Next
<1>1. call \in [Caller -> Locals] /\ TypeOK
  BY DEF StandingInv, ITypeOK, TypeOK, HandlerTypeOK, Call
<1>. DEFINE answered == [phase |-> "answered", key |-> None, soft |-> view[c].soft,
                         since |-> view[c].floor, entry |-> entry,
                         result |-> result]
<1>2. Lookup(c)' = answered
  <2>. DEFINE local == [Idle EXCEPT !.pc = "get_done", !.entry = entry,
                                    !.result = result]
  <2>1. /\ local.pc = "get_done" /\ local.key = None
        /\ local.entry = entry /\ local.result = result
    BY DEF Idle
  <2>. HIDE DEF local
  <2>2. call'[c] = local
    BY <1>1 DEF Return, local
  <2>3. Phase(c)' = "answered" /\ ~HasEntry(c)'
    BY <2>1, <2>2 DEF Phase, HasEntry
  <2>. QED
    BY <2>1, <2>2, <2>3 DEF Lookup, historyVars
<1>3. ASSUME NEW d \in Caller \ {c}
      PROVE  Lookup(d)' = Lookup(d)
  BY <1>1, OthersStep, SameLookup DEF historyVars
<1>4. /\ Lookup(c).soft = view[c].soft /\ Lookup(c).since = view[c].floor
      /\ Lookups[c] = Lookup(c)
  BY DEF Lookup, Lookups
<1>5. Lookups' = [Lookups EXCEPT ![c] = answered]
  <2>. HIDE DEF answered
  <2>. QED
    BY <1>2, <1>3, OneLookup
<1>6. C!Answer(c, result)
  BY <1>4, <1>5 DEF C!Answer, Lookups, historyVars
<1>. QED
  BY <1>6 DEF C!Next

\* A step of a call answers its lookup, or none of the cache changes.
LEMMA RefinesCall ==
    ASSUME StandingInv, Slack = 0, NEW c \in Caller,
           StartSet(c) \/ StartUpdate(c) \/ Step(c), UNCHANGED historyVars
    PROVE  C!Next \/ UNCHANGED C!cacheVars
<1>0. /\ call \in [Caller -> Locals] /\ reply \in [Caller -> Reply]
      /\ call[c] \in Call /\ TypeOK
  BY DEF StandingInv, ITypeOK, TypeOK, HandlerTypeOK, MemcachedTypeOK, Call
<1>1. UNCHANGED <<entries, floor, view>>
  BY DEF StartSet, StartUpdate, Step, GetSend, GetMiss, GetReadTags, GetUntagged,
         GetCheck, GetFail, SetStart, SetStore, SetSkip, SetEnd, UpdateStart,
         UpdateWrite, UpdateEnd, UpdateFail, memcachedVars, historyVars
<1>2. ASSUME Lookup(c)' = Lookup(c)
      PROVE  UNCHANGED C!cacheVars
  <2>1. \A d \in Caller \ {c} : Lookup(d)' = Lookup(d)
    BY <1>0, <1>1, OthersStep, SameLookup
  <2>2. Lookups' = Lookups
    BY <1>2, <2>1, NoLookupChanges
  <2>. QED
    BY <1>1, <2>2 DEF C!cacheVars, Lookups
<1>3. ASSUME NEW entry, NEW result \in {"miss", "fresh", "stale"}, Step(c),
             Return(c, entry, result),
             Lookup(c).phase \in {"asked", "fetched"},
             C!Allowed(Lookup(c), result),
             entry = IF result = "miss" THEN None ELSE Lookup(c).entry
      PROVE  C!Next
  BY <1>1, <1>3, RefinesReturn
<1>4. CASE \/ StartSet(c) \/ StartUpdate(c)
           \/ SetStore(c) \/ SetSkip(c) \/ SetEnd(c)
           \/ UpdateWrite(c) \/ UpdateEnd(c) \/ UpdateFail(c)
  <2>. DEFINE Idles == {"idle", "set_render", "set_store", "update_read",
                        "update_write"}
  <2>1. call[c].pc \in Idles
    BY <1>4 DEF StartSet, StartUpdate, SetStart, UpdateStart, Starts, SetStore,
                SetSkip, SetEnd, UpdateWrite, UpdateEnd, UpdateFail
  <2>2. call'[c].pc \in Idles
    <3>1. \A k, entry : [Idle EXCEPT !.pc = "set_render", !.key = k,
                                    !.entry = entry].pc = "set_render"
      BY DEF Idle
    <3>2. \A tags, d : [Idle EXCEPT !.pc = "update_read", !.tags = tags,
                                   !.duration = d].pc = "update_read"
      BY DEF Idle
    <3>3. CASE StartSet(c)
      <4>1. PICK k \in Key, tags \in EntryTags, r \in Revalidate :
               SetStart(c, k, tags, r)
        BY <3>3 DEF StartSet
      <4>2. call'[c] = [Idle EXCEPT !.pc = "set_render", !.key = k,
                                    !.entry = [tags |-> tags, timestamp |-> Now(c),
                                               revalidate |-> r]]
        BY <1>0, <4>1 DEF SetStart
      <4>. QED
        BY <3>1, <4>2
    <3>4. CASE StartUpdate(c)
      <4>1. PICK tags \in Bumps, d \in Durations : UpdateStart(c, tags, d)
        BY <3>4 DEF StartUpdate
      <4>2. call'[c] = [Idle EXCEPT !.pc = "update_read", !.tags = tags,
                                    !.duration = d]
        BY <1>0, <4>1 DEF UpdateStart
      <4>. QED
        BY <3>2, <4>2
    <3>5. CASE SetStore(c) \/ UpdateWrite(c)
      BY <1>0, <3>5 DEF SetStore, UpdateWrite, Locals
    <3>6. CASE SetSkip(c) \/ SetEnd(c) \/ UpdateEnd(c) \/ UpdateFail(c)
      <4>1. call'[c] = Idle
        BY <1>0, <3>6 DEF SetSkip, SetEnd, FinishSet, UpdateEnd, UpdateFail
      <4>. QED
        BY <4>1 DEF Idle
    <3>. QED
      BY <1>4, <3>3, <3>4, <3>5, <3>6
  <2>3. Phase(c) = "idle" /\ Phase(c)' = "idle"
    BY <2>1, <2>2 DEF Phase, HasEntry
  <2>. QED
    BY <1>2, <2>3 DEF Lookup
<1>5. CASE GetSend(c)
  <2>1. /\ call[c].pc = "get_pending" /\ call'[c].pc = "get_entry"
        /\ call'[c].key = call[c].key /\ call'[c].entry = call[c].entry
        /\ call'[c].result = call[c].result
        /\ reply'[c] = NoReply
    BY <1>0, <1>5 DEF GetSend, Send, Locals
  <2>2. /\ Phase(c) = "asked" /\ ~HasEntry(c)
        /\ Phase(c)' = "asked" /\ ~HasEntry(c)'
    BY <2>1, ReplyAssumption DEF Phase, HasEntry
  <2>. QED
    BY <1>1, <1>2, <2>1, <2>2 DEF Lookup
<1>6. CASE GetReadTags(c)
  <2>1. /\ HasEntry(c) /\ reply[c].entry \in Entry
    BY <1>6 DEF GetReadTags, Found, Usable, HasEntry
  <2>2. /\ call'[c].pc = "get_tags" /\ call'[c].entry = reply[c].entry
        /\ call'[c].key = call[c].key /\ call'[c].result = call[c].result
    BY <1>0, <1>6 DEF GetReadTags, Locals
  <2>3. /\ Phase(c) = "fetched"
        /\ Phase(c)' = "fetched" /\ ~HasEntry(c)'
    BY <2>1, <2>2 DEF Phase, HasEntry
  <2>. QED
    BY <1>1, <1>2, <2>1, <2>2, <2>3 DEF Lookup, Legible
<1>7. CASE GetMiss(c) \/ GetFail(c)
  <2>1. Lookup(c).phase \in {"asked", "fetched"}
    BY <1>7, Phases DEF GetMiss, GetFail, Lookup
  <2>2. Return(c, None, "miss")
    BY <1>7 DEF GetMiss, GetFail
  <2>. QED
    BY <1>3, <1>7, <2>1, <2>2 DEF C!Allowed, Step
<1>8. CASE GetUntagged(c)
  <2>1. /\ HasEntry(c) /\ reply[c].entry \in Entry /\ call[c].pc = "get_entry"
        /\ reply[c].entry.tags \cup call[c].tags = {}
        /\ Return(c, reply[c].entry, "fresh")
    BY <1>8 DEF GetUntagged, Found, Usable, HasEntry, AllTags
  <2>2. Lookup(c).phase = "fetched" /\ Lookup(c).entry = reply[c].entry
    BY <2>1, Phases DEF Lookup, Legible
  <2>3. Lookup(c).soft = {}
    <3>1. view[c].soft \subseteq call[c].tags
      BY <2>1 DEF StandingInv, TagsChecked
    <3>. QED
      BY <2>1, <3>1 DEF Lookup
  <2>4. C!Allowed(Lookup(c), "fresh")
    BY <2>1, <2>2, <2>3 DEF C!Allowed
  <2>. QED
    BY <1>3, <1>8, <2>1, <2>2, <2>4 DEF Step
<1>9. CASE GetCheck(c)
  <2>. DEFINE verdict == Verdict(call[c].entry, call[c].tags, reply[c].records,
                                 Now(c))
  <2>1. verdict \in {"miss", "fresh", "stale"}
    BY DEF Verdict
  <2>2. Return(c, IF verdict = "miss" THEN None ELSE call[c].entry, verdict)
    BY <1>9 DEF GetCheck
  <2>3. call[c].pc = "get_tags" /\ call[c].entry \in Entry
    BY <1>0, <1>9 DEF GetCheck, Call
  <2>4. /\ Lookup(c).phase = "fetched" /\ Lookup(c).entry = call[c].entry
        /\ Lookup(c).soft = view[c].soft /\ Lookup(c).since = view[c].floor
    BY <2>3, Phases DEF Lookup
  <2>5. ASSUME verdict = "fresh", NEW t \in Concerned(c)
        PROVE  call[c].entry.timestamp >= view[c].floor[t]
    <3>1. /\ call[c].entry.timestamp \in Int /\ view[c].floor[t] \in Int
          /\ \/ call[c].entry.timestamp >= view[c].floor[t] - Slack
             \/ StampedAhead(c, t)
      BY <1>9, <2>5, CheckRespects
    <3>2. ~StampedAhead(c, t)
      <4>1. Now(c) \in Int /\ Ahead = 0
        BY <1>0, NowType, SlackType DEF TypeOK
      <4>2. t \in Tag /\ reply[c] \in TagReply
        BY <1>9, <2>5, CheckRespects DEF GetCheck
      <4>3. Readable(reply[c].records[t]) /\ reply[c].records[t].expired # None =>
               reply[c].records[t].expired \in Int
        BY <4>2 DEF Readable, TagRecord
      <4>. QED
        BY <4>1, <4>3 DEF StampedAhead
    <3>. QED
      BY <3>1, <3>2
  <2>. HIDE DEF verdict
  <2>6. C!Allowed(Lookup(c), verdict)
    BY <2>1, <2>3, <2>4, <2>5 DEF C!Allowed, Concerned
  <2>. QED
    BY <1>3, <1>9, <2>1, <2>2, <2>4, <2>6 DEF Step
<1>. QED
  BY <1>4, <1>5, <1>6, <1>7, <1>8, <1>9 DEF Step

\* A lookup keeps its answer when nobody reads the entry for it and nobody
\* who awaits an answer gets that of another command.
LEMMA SameLookups ==
    ASSUME UNCHANGED <<call, view>>,
           \A d \in Caller :
              reply'[d] = reply[d] \/ call[d].pc # "get_entry"
    PROVE  Lookups' = Lookups
BY SameLookup, NoLookupChanges

\* The command at the head of a queue suits the caller it names.
LEMMA HeadSuits ==
    ASSUME MemcachedTypeOK, AwaitInv, NEW p \in Pod, sent[p] # <<>>,
           Head(sent[p]).by # None
    PROVE  /\ Head(sent[p]).by \in Caller
           /\ reply[Head(sent[p]).by] = NoReply
           /\ Suits(Head(sent[p]), call[Head(sent[p]).by])
<1>1. sent[p] \in Seq(Command)
  BY DEF MemcachedTypeOK
<1>2. 1 \in DOMAIN sent[p] /\ Head(sent[p]) = sent[p][1]
  BY <1>1
<1>. QED
  BY <1>2, ByType DEF AwaitInv

\* Executing a command that is no get of an entry changes no lookup.
LEMMA HeadSpares ==
    ASSUME MemcachedTypeOK, AwaitInv, NEW p \in Pod, sent[p] # <<>>,
           Head(sent[p]).kind # "get", UNCHANGED <<call, view>>,
           NEW answer,
           reply' = Answered(Head(sent[p]), answer) \/ UNCHANGED reply
    PROVE  Lookups' = Lookups
<1>1. ASSUME NEW d \in Caller, reply'[d] # reply[d]
      PROVE  call[d].pc # "get_entry"
  <2>1. Head(sent[p]).by = d
    BY <1>1 DEF Answered, MemcachedTypeOK
  <2>. QED
    BY <2>1, HeadSuits, CallerAssumption DEF Suits
<1>. QED
  BY <1>1, SameLookups

\* The node reads a cell for a lookup, or writes one, or does nothing the
\* cache knows of.
LEMMA RefinesExec ==
    ASSUME StandingInv, AwaitInv, NEW p \in Pod, UNCHANGED <<call, view, floor>>,
           \/ ExecGet(p) \/ ExecSet(p) \/ ExecGets(p)
           \/ \E t \in Tag : ExecAddTag(p, t)
    PROVE  C!Next \/ UNCHANGED C!cacheVars
<1>. DEFINE head == Head(sent[p])
<1>0. /\ TypeOK /\ MemcachedTypeOK /\ call \in [Caller -> Locals]
      /\ entries \in [Key -> StoredEntry] /\ reply \in [Caller -> Reply]
      /\ view \in [Caller -> View]
  BY DEF StandingInv, ITypeOK, TypeOK, MemcachedTypeOK, HandlerTypeOK, Call,
         HistoryTypeOK
<1>1. sent[p] # <<>> /\ head \in Command
  BY <1>0, HeadType DEF ExecGet, ExecSet, ExecGets, ExecAddTag
<1>2. head.by # None =>
         head.by \in Caller /\ reply[head.by] = NoReply /\ Suits(head, call[head.by])
  BY <1>0, <1>1, HeadSuits
<1>3. ASSUME NEW answer, reply' = Answered(head, answer) \/ UNCHANGED reply,
             head.kind # "get"
      PROVE  Lookups' = Lookups
  BY <1>0, <1>1, <1>3, HeadSpares
<1>4. CASE ExecGet(p)
  <2>1. /\ head.kind = "get" /\ UNCHANGED entries
        /\ reply' = Answered(head, [entry |-> entries[head.key]])
    BY <1>4 DEF ExecGet
  <2>2. CASE head.by = None
    <3>1. Lookups' = Lookups
      BY <2>1, <2>2, SameLookups DEF Answered
    <3>. QED
      BY <2>1, <3>1 DEF C!cacheVars, Lookups
  <2>3. CASE head.by # None
    <3>0. PICK c \in Caller : c = head.by
      BY <1>2, <2>3
    <3>. DEFINE fetched == [phase |-> "fetched", key |-> call[c].key,
                            soft |-> view[c].soft, since |-> view[c].floor,
                            entry |-> Legible(entries[call[c].key]),
                            result |-> call[c].result]
    <3>1. /\ reply[c] = NoReply
          /\ call[c].pc = "get_entry" /\ call[c].key = head.key
      BY <1>2, <2>1, <2>3, <3>0 DEF Suits
    <3>2. head.key \in Key /\ [entry |-> entries[head.key]] \in EntryReply
      BY <1>0, <1>1, <2>1 DEF Command, EntryReply
    <3>3. reply'[c] = [entry |-> entries[head.key]]
      BY <1>0, <2>1, <2>3, <3>0 DEF Answered
    <3>4. ~HasEntry(c) /\ Phase(c) = "asked"
      BY <3>1, ReplyAssumption DEF HasEntry, Phase
    <3>5. HasEntry(c)' /\ Phase(c)' = "fetched"
      BY <3>1, <3>2, <3>3 DEF HasEntry, Phase
    <3>6. Lookup(c)' = fetched
      BY <3>1, <3>3, <3>5 DEF Lookup
    <3>7. ASSUME NEW d \in Caller \ {c}
          PROVE  Lookup(d)' = Lookup(d)
      <4>1. reply'[d] = reply[d]
        BY <1>0, <2>1, <2>3, <3>0 DEF Answered
      <4>. QED
        BY <4>1, SameLookup
    <3>8. Lookups' = [Lookups EXCEPT ![c] = fetched]
      <4>. HIDE DEF fetched
      <4>. QED
        BY <3>6, <3>7, OneLookup
    <3>9. Lookup(c) = [phase |-> "asked", key |-> call[c].key,
                       soft |-> view[c].soft, since |-> view[c].floor,
                       entry |-> call[c].entry, result |-> call[c].result]
      BY <3>4 DEF Lookup
    <3>10. fetched = [phase |-> "fetched", key |-> Lookup(c).key,
                      soft |-> Lookup(c).soft, since |-> Lookup(c).since,
                      entry |-> Cells[Lookup(c).key], result |-> Lookup(c).result]
      BY <3>1, <3>2, <3>9 DEF Cells
    <3>11. C!Fetch(c)
      <4>. HIDE DEF fetched
      <4>1. Lookups[c] = Lookup(c) /\ Lookup(c).phase = "asked"
        BY <3>9 DEF Lookups
      <4>. QED
        BY <2>1, <3>8, <3>10, <4>1 DEF C!Fetch, Lookups, Cells
    <3>. QED
      BY <3>11 DEF C!Next
  <2>. QED
    BY <2>2, <2>3
<1>5. CASE ExecSet(p)
  <2>1. /\ head.kind = "set" /\ reply' = Answered(head, Ack)
        /\ entries' = [entries EXCEPT ![head.key] = head.entry]
        /\ head.key \in Key
    BY <1>1, <1>5 DEF ExecSet, Command
  <2>2. Lookups' = Lookups
    BY <1>3, <2>1
  <2>3. Cells' = [Cells EXCEPT ![head.key] = Legible(head.entry)]
    BY <1>0, <2>1 DEF Cells
  <2>4. CASE head.entry \in Entry
    <3>1. C!Write(head.key)
      <4>1. Cells'[head.key] = head.entry
        BY <2>1, <2>3, <2>4 DEF Cells, Legible
      <4>. QED
        BY <2>2, <2>3, <2>4, <4>1 DEF C!Write, Cells, Lookups, Legible
    <3>. QED
      BY <2>1, <3>1 DEF C!Next
  <2>5. CASE head.entry \notin Entry
    <3>1. Cells' = [k \in Key |-> IF k \in {head.key} THEN None ELSE Cells[k]]
      BY <2>3, <2>5 DEF Cells, Legible
    <3>2. C!Lose({head.key})
      BY <2>2, <3>1 DEF C!Lose, Cells, Lookups
    <3>3. {head.key} \in SUBSET Key
      BY <2>1
    <3>. QED
      BY <3>2, <3>3 DEF C!Next
  <2>. QED
    BY <2>4, <2>5
<1>6. CASE ExecGets(p) \/ \E t \in Tag : ExecAddTag(p, t)
  <2>1. /\ UNCHANGED entries /\ head.kind # "get"
        /\ \/ reply' = Answered(head, [records |-> records])
           \/ reply' = Answered(head, Ack) \/ UNCHANGED reply
    BY <1>6 DEF ExecGets, ExecAddTag, Executed
  <2>2. Lookups' = Lookups
    BY <1>3, <2>1
  <2>. QED
    BY <2>1, <2>2 DEF C!cacheVars, Lookups
<1>. QED
  BY <1>4, <1>5, <1>6

\* An invalidation that stands is one of the cache's.
LEMMA RefinesLands ==
    ASSUME StandingInv, AwaitInv, NEW p \in Pod, NEW t \in Tag, Lands(p, t),
           UNCHANGED <<call, view>>
    PROVE  C!Next \/ UNCHANGED C!cacheVars
<1>. DEFINE head == Head(sent[p])
<1>0. /\ MemcachedTypeOK /\ floor \in [Tag -> Int] /\ sent[p] # <<>>
      /\ UNCHANGED entries /\ head.kind = "set_tags" /\ head.at \in Int
      /\ reply' = Answered(head, Ack) \/ UNCHANGED reply
  BY LandsType DEF StandingInv, ITypeOK, TypeOK, HistoryTypeOK, Lands, ExecSetTag,
                   Executed
<1>1. Lookups' = Lookups
  BY <1>0, HeadSpares
<1>2. floor' = floor \/ floor' = [floor EXCEPT ![t] = Later(@, head.at)]
  BY DEF Lands
<1>3. CASE floor' = floor
  BY <1>0, <1>1, <1>3 DEF C!cacheVars, Lookups
<1>4. CASE floor' # floor
  <2>1. floor'[t] = head.at /\ floor'[t] > floor[t]
        /\ floor' = [floor EXCEPT ![t] = floor'[t]]
    BY <1>0, <1>2, <1>4 DEF Later
  <2>2. C!Invalidate(t)
    BY <1>0, <1>1, <2>1 DEF C!Invalidate, Lookups
  <2>. QED
    BY <2>2 DEF C!Next
<1>. QED
  BY <1>3, <1>4

\* An invalidation that is lost is lost to the cache.
LEMMA RefinesForgets ==
    ASSUME StandingInv, NEW t \in Tag, Forgets(t), UNCHANGED call
    PROVE  C!Next \/ UNCHANGED C!cacheVars
<1>0. /\ view \in [Caller -> View] /\ UNCHANGED <<entries, reply>>
  BY DEF StandingInv, ITypeOK, HistoryTypeOK, Forgets, EvictRecord
<1>1. CASE UNCHANGED historyVars
  <2>1. Lookups' = Lookups
    BY <1>0, <1>1, SameLookups DEF historyVars
  <2>. QED
    BY <1>0, <1>1, <2>1 DEF C!cacheVars, Lookups, historyVars
<1>2. CASE /\ floor' = [floor EXCEPT ![t] = 0]
           /\ view' = [c \in Caller |-> [view[c] EXCEPT !.floor[t] = 0]]
  <2>1. ASSUME NEW c \in Caller
        PROVE  Lookup(c)' = [Lookup(c) EXCEPT !.since[t] = 0]
    <3>1. /\ view'[c].floor = [view[c].floor EXCEPT ![t] = 0]
          /\ view'[c].soft = view[c].soft
      BY <1>0, <1>2 DEF View
    <3>2. HasEntry(c)' = HasEntry(c) /\ Phase(c)' = Phase(c)
      BY <1>0 DEF HasEntry, Phase
    <3>3. CASE Phase(c) = "idle"
      <4>1. Lookup(c)' = Lookup(c)
        BY <3>2, <3>3 DEF Lookup
      <4>2. Never = [Never EXCEPT ![t] = 0]
        BY DEF Never
      <4>3. Lookup(c) = [phase |-> "idle", key |-> None, soft |-> {},
                         since |-> Never, entry |-> None, result |-> None]
        BY <3>3 DEF Lookup
      <4>. HIDE DEF Never
      <4>. QED
        BY <4>1, <4>2, <4>3
    <3>4. CASE Phase(c) # "idle"
      <4>. DEFINE entry == IF HasEntry(c) THEN Legible(reply[c].entry)
                                          ELSE call[c].entry
      <4>1. Lookup(c) = [phase |-> Phase(c), key |-> call[c].key,
                         soft |-> view[c].soft, since |-> view[c].floor,
                         entry |-> entry, result |-> call[c].result]
        BY <3>4 DEF Lookup
      <4>2. Lookup(c)' = [phase |-> Phase(c), key |-> call[c].key,
                          soft |-> view[c].soft,
                          since |-> [view[c].floor EXCEPT ![t] = 0],
                          entry |-> entry, result |-> call[c].result]
        BY <1>0, <3>1, <3>2, <3>4 DEF Lookup
      <4>. HIDE DEF entry
      <4>. QED
        BY <4>1, <4>2
    <3>. QED
      BY <3>3, <3>4
  <2>2. Lookups' = [c \in Caller |-> [Lookups[c] EXCEPT !.since[t] = 0]]
    BY <2>1 DEF Lookups
  <2>3. C!Forget(t)
    BY <1>0, <1>2, <2>2 DEF C!Forget, Lookups
  <2>. QED
    BY <2>3 DEF C!Next
<1>. QED
  BY <1>1, <1>2 DEF Forgets

\* A fault loses entries, or only commands and answers, which the cache does
\* not know of.
LEMMA RefinesFault ==
    ASSUME StandingInv, AwaitInv, Disturb \/ Restart, UNCHANGED <<call, view, floor>>
    PROVE  C!Next \/ UNCHANGED C!cacheVars
<1>0. MemcachedTypeOK
  BY DEF StandingInv, ITypeOK, TypeOK
<1>1. ASSUME UNCHANGED entries, Lookups' = Lookups
      PROVE  UNCHANGED C!cacheVars
  BY <1>1 DEF C!cacheVars, Lookups
<1>2. ASSUME NEW keys \in SUBSET Key, Lookups' = Lookups,
             Cells' = [k \in Key |-> IF k \in keys THEN None ELSE Cells[k]]
      PROVE  C!Next
  <2>1. C!Lose(keys)
    BY <1>2 DEF C!Lose, Cells, Lookups
  <2>. QED
    BY <2>1 DEF C!Next
\* A promise that is rejected had no answer.
<1>3. ASSUME \A d \in Caller : reply'[d] = reply[d]
                               \/ (Awaits(d) /\ reply'[d] = Error)
      PROVE  Lookups' = Lookups
  <2>1. ASSUME NEW d \in Caller, Awaits(d), reply'[d] = Error
        PROVE  Lookup(d)' = Lookup(d)
    <3>1. PodOf[d] \in Pod
      BY PodAssumption
    <3>2. PICK i \in DOMAIN sent[PodOf[d]] : sent[PodOf[d]][i].by = d
      BY <2>1 DEF Awaits, Commands
    <3>3. reply[d] = NoReply
      BY <3>1, <3>2, CallerAssumption DEF AwaitInv
    <3>4. ~HasEntry(d) /\ ~HasEntry(d)'
      BY <2>1, <3>3, ReplyAssumption DEF HasEntry
    <3>5. Phase(d)' = Phase(d)
      BY <3>4 DEF Phase
    <3>. QED
      BY <3>4, <3>5 DEF Lookup
  <2>. QED
    BY <1>3, <2>1, SameLookup, NoLookupChanges
<1>4. ASSUME NEW k \in Key, EvictEntry(k)
      PROVE  C!Next
  <2>1. Lookups' = Lookups
    BY <1>3, <1>4 DEF EvictEntry
  <2>2. Cells' = [j \in Key |-> IF j \in {k} THEN None ELSE Cells[j]]
    BY <1>0, <1>4 DEF EvictEntry, Cells, Legible, MemcachedTypeOK
  <2>3. {k} \in SUBSET Key
    OBVIOUS
  <2>. QED
    BY <1>2, <2>1, <2>2, <2>3
<1>5. CASE Restart
  <2>1. Lookups' = Lookups
    BY <1>3, <1>5 DEF Restart
  <2>2. Cells' = [j \in Key |-> IF j \in Key THEN None ELSE Cells[j]]
    BY <1>5 DEF Restart, Cells, Legible
  <2>. QED
    BY <1>2, <2>1, <2>2
<1>6. ASSUME NEW p \in Pod, Disconnect(p)
      PROVE  UNCHANGED C!cacheVars
  BY <1>1, <1>3, <1>6 DEF Disconnect
<1>7. ASSUME NEW c \in Caller, Timeout(c)
      PROVE  UNCHANGED C!cacheVars
  BY <1>0, <1>1, <1>3, <1>7 DEF Timeout, MemcachedTypeOK
<1>. QED
  BY <1>4, <1>5, <1>6, <1>7 DEF Disturb

\* Every step of the handlers is one of the cache, or changes nothing of it.
LEMMA RefinesStep ==
    ASSUME StandingInv, AwaitInv, Slack = 0, [INext]_ivars
    PROVE  [C!Next]_(C!cacheVars)
<1>1. ASSUME UNCHANGED <<entries, reply, call, floor, view>>
      PROVE  UNCHANGED C!cacheVars
  <2>1. Lookups' = Lookups
    BY <1>1, SameLookups
  <2>. QED
    BY <1>1, <2>1 DEF C!cacheVars, Lookups
<1>2. CASE Tick /\ UNCHANGED historyVars
  BY <1>1, <1>2 DEF Tick, memcachedVars, historyVars
<1>3. CASE UNCHANGED ivars
  BY <1>1, <1>3 DEF ivars, vars, memcachedVars, handlerVars, historyVars
<1>4. ASSUME NEW t \in Tag, UNCHANGED handlerVars,
             Forgets(t) \/ \E p \in Pod : Lands(p, t)
      PROVE  C!Next \/ UNCHANGED C!cacheVars
  BY <1>4, RefinesForgets, RefinesLands DEF Lands, handlerVars
<1>. QED
  BY <1>2, <1>3, <1>4, RefinesBegins, RefinesEnds, RefinesCall, RefinesExec,
     RefinesFault
     DEF INext, handlerVars, historyVars

\* Nothing is cached or looked up yet.
LEMMA RefinesInit == IInit => C!Init
<1>. SUFFICES ASSUME IInit PROVE C!Init
  OBVIOUS
<1>1. Cells = [k \in Key |-> None]
  BY DEF IInit, Init, MemcachedInit, Cells, Legible
<1>2. ASSUME NEW c \in Caller
      PROVE  Lookup(c) = C!NoLookup
  <2>1. call[c].pc = "idle"
    BY DEF IInit, Init, Idle
  <2>2. Phase(c) = "idle"
    BY <2>1, Phases
  <2>. QED
    BY <2>2 DEF Lookup, C!NoLookup, C!Never, Never
<1>. QED
  BY <1>1, <1>2 DEF C!Init, C!Never, Never, Cells, IInit

\* When times are whole milliseconds and the clocks agree, everything the
\* handlers do, with memcached, its connections, its tag records and all
\* their faults, the simple cache may do: each get() returns what memcached
\* held under its key at one instant of the call, and as fresh only what
\* respects the invalidations that stood when it began (get of index.ts).
THEOREM Implements ==
    ASSUME Sub = 1, Skew = 0
    PROVE  ISpec => ImplementsCache
<1>1. IInit => C!Init
  BY RefinesInit
<1>2. StandingInv /\ AwaitInv /\ [INext]_ivars => [C!Next]_(C!cacheVars)
  BY RefinesStep, SlackType
<1>3. ISpec => []StandingInv
  BY Standing
<1>. QED
  BY <1>1, <1>2, <1>3, Awaited, PTL DEF ISpec, C!Spec, ImplementsCache

=============================================================================
