------------------------- MODULE CacheHandlerProofs -------------------------
(***************************************************************************)
(* Type correctness of CacheHandler, for every value of its constants.     *)
(***************************************************************************)
EXTENDS CacheHandler, TLAPS

-----------------------------------------------------------------------------
(* What the operators of TagRecords return.                                *)

\* A read always concludes a tag record.
LEMMA ReadAsType ==
    ASSUME NEW stored \in StoredRecord, NEW now \in Int
    PROVE  ReadAs(stored, now) \in TagRecord
BY DEF ReadAs, Readable, ExpiredAt, TagRecord

\* Math.round returns an integer.
LEMMA RoundType ==
    ASSUME NEW time \in Int
    PROVE  Round(time) \in Int
<1>1. Sub \in Nat /\ Sub > 0
  BY SubAssumption
<1>2. /\ 2 * time + Sub \in Int
      /\ 2 * Sub \in Nat /\ 2 * Sub > 0
  BY <1>1
<1>3. (2 * time + Sub) \div (2 * Sub) \in Int
  BY <1>2
<1>. QED
  BY <1>1, <1>3 DEF Round

\* What bumpTags stores is a record or a text no reader accepts.
LEMMA BumpedType ==
    ASSUME NEW stored \in StoredRecord, NEW now \in Int,
           NEW duration \in Duration
    PROVE  Bumped(stored, now, duration) \in StoredRecord
<1>. DEFINE record == IF Readable(stored) THEN stored ELSE EmptyRecord
<1>1. record \in TagRecord
  BY DEF Readable, EmptyRecord, TagRecord
<1>2. [record EXCEPT !.expired = now] \in TagRecord
  BY <1>1 DEF TagRecord
<1>3. [record EXCEPT !.stale = now] \in TagRecord
  BY <1>1 DEF TagRecord
<1>4. ASSUME duration \notin {Hard, NoExpire, Infinite}
      PROVE  [expired |-> now + duration, stale |-> now] \in TagRecord
  BY <1>4 DEF Duration, TagRecord
<1>. QED
  BY <1>2, <1>3, <1>4 DEF Bumped, StoredRecord

-----------------------------------------------------------------------------
(* The connection.                                                         *)

\* The oldest command of a queue is a command, and so is all that follows.
LEMMA HeadType ==
    ASSUME MemcachedTypeOK, NEW p \in Pod, sent[p] # <<>>
    PROVE  /\ Head(sent[p]) \in Command
           /\ Tail(sent[p]) \in Seq(Command)
BY DEF MemcachedTypeOK

\* Writing a command leaves the connection well typed.
LEMMA SendType ==
    ASSUME MemcachedTypeOK, NEW c \in Caller, NEW command \in Command,
           Send(c, command)
    PROVE  /\ sent' \in [Pod -> Seq(Command)]
           /\ reply' \in [Caller -> Reply]
<1>1. PodOf[c] \in Pod
  BY PodAssumption
<1>2. Append(sent[PodOf[c]], command) \in Seq(Command)
  BY <1>1 DEF MemcachedTypeOK
<1>. QED
  BY <1>1, <1>2 DEF MemcachedTypeOK, Send, Reply

\* Whoever awaits a command is given an answer.
LEMMA AnsweredType ==
    ASSUME MemcachedTypeOK, NEW command \in Command, NEW answer \in Reply
    PROVE  Answered(command, answer) \in [Caller -> Reply]
<1>1. command.by \in Caller \cup {None}
  BY DEF Command, Awaiter
<1>. QED
  BY <1>1 DEF MemcachedTypeOK, Answered

\* A consumed answer leaves the connection well typed.
LEMMA SettledType ==
    ASSUME MemcachedTypeOK, NEW c \in Caller, Settled(c)
    PROVE  /\ sent' \in [Pod -> Seq(Command)]
           /\ reply' \in [Caller -> Reply]
BY DEF MemcachedTypeOK, Settled, Reply

\* Executing one tag of a batch leaves the connection well typed.
LEMMA ExecutedType ==
    ASSUME MemcachedTypeOK, NEW p \in Pod, NEW t \in Tag, sent[p] # <<>>,
           Head(sent[p]).kind \in {"set_tags", "add_tags"}, Executed(p, t)
    PROVE  /\ sent' \in [Pod -> Seq(Command)]
           /\ reply' \in [Caller -> Reply]
<1>. DEFINE command == Head(sent[p])
            rest == command.tags \ {t}
            left == [command EXCEPT !.tags = rest]
<1>1. command \in Command /\ Tail(sent[p]) \in Seq(Command)
  BY HeadType
<1>2. left \in Command
  BY <1>1 DEF Command
<1>3. <<left>> \o Tail(sent[p]) \in Seq(Command)
  BY <1>1, <1>2
<1>4. Answered(command, Ack) \in [Caller -> Reply]
  BY <1>1, AnsweredType DEF Reply
<1>5. reply' \in [Caller -> Reply]
  BY <1>4 DEF Executed, MemcachedTypeOK
<1>6. sent' \in [Pod -> Seq(Command)]
  BY <1>1, <1>3 DEF Executed, MemcachedTypeOK
<1>. QED
  BY <1>5, <1>6

-----------------------------------------------------------------------------
(* The node and its faults.                                                *)

\* The node executes only what is well typed, and stores only that.
LEMMA ExecType ==
    ASSUME MemcachedTypeOK, NEW p \in Pod, Exec(p)
    PROVE  MemcachedTypeOK'
<1>. DEFINE command == Head(sent[p])
<1>1. ASSUME sent[p] # <<>>
      PROVE  command \in Command /\ Tail(sent[p]) \in Seq(Command)
  BY <1>1, HeadType
<1>2. CASE ExecGet(p)
  <2>1. command \in Command /\ command.kind = "get" /\ Tail(sent[p]) \in Seq(Command)
    BY <1>1, <1>2 DEF ExecGet
  <2>2. command.key \in Key
    BY <2>1 DEF Command
  <2>3. [entry |-> entries[command.key]] \in Reply
    BY <2>2 DEF MemcachedTypeOK, Reply, EntryReply
  <2>4. reply' \in [Caller -> Reply]
    BY <1>2, <2>1, <2>3, AnsweredType DEF ExecGet
  <2>. QED
    BY <1>2, <2>1, <2>4 DEF ExecGet, MemcachedTypeOK
<1>3. CASE ExecSet(p)
  <2>1. command \in Command /\ command.kind = "set" /\ Tail(sent[p]) \in Seq(Command)
    BY <1>1, <1>3 DEF ExecSet
  <2>2. command.key \in Key /\ command.entry \in StoredEntry
    BY <2>1 DEF Command
  <2>3. reply' \in [Caller -> Reply]
    BY <1>3, <2>1, AnsweredType DEF ExecSet, Reply
  <2>. QED
    BY <1>3, <2>1, <2>2, <2>3 DEF ExecSet, MemcachedTypeOK
<1>4. CASE ExecGets(p)
  <2>1. command \in Command /\ Tail(sent[p]) \in Seq(Command)
    BY <1>1, <1>4 DEF ExecGets
  <2>2. [records |-> records] \in Reply
    BY DEF MemcachedTypeOK, Reply, TagReply
  <2>3. reply' \in [Caller -> Reply]
    BY <1>4, <2>1, <2>2, AnsweredType DEF ExecGets
  <2>. QED
    BY <1>4, <2>1, <2>3 DEF ExecGets, MemcachedTypeOK
<1>5. ASSUME NEW t \in Tag, ExecSetTag(p, t)
      PROVE  MemcachedTypeOK'
  <2>1. command \in Command /\ command.kind = "set_tags"
    BY <1>1, <1>5 DEF ExecSetTag
  <2>2. command.items[t] \in StoredRecord
    BY <2>1 DEF Command
  <2>3. sent' \in [Pod -> Seq(Command)] /\ reply' \in [Caller -> Reply]
    BY <1>5, ExecutedType DEF ExecSetTag
  <2>. QED
    BY <1>5, <2>2, <2>3 DEF ExecSetTag, MemcachedTypeOK
<1>6. ASSUME NEW t \in Tag, ExecAddTag(p, t)
      PROVE  MemcachedTypeOK'
  <2>1. command \in Command /\ command.kind = "add_tags"
    BY <1>1, <1>6 DEF ExecAddTag
  <2>2. ExpiredAt(command.at) \in StoredRecord
    BY <2>1 DEF Command, ExpiredAt, StoredRecord, TagRecord
  <2>3. sent' \in [Pod -> Seq(Command)] /\ reply' \in [Caller -> Reply]
    BY <1>6, ExecutedType DEF ExecAddTag
  <2>. QED
    BY <1>6, <2>2, <2>3 DEF ExecAddTag, MemcachedTypeOK
<1>. QED
  BY <1>2, <1>3, <1>4, <1>5, <1>6 DEF Exec

\* No fault of the node or its connections breaks a type.
LEMMA FaultType ==
    ASSUME MemcachedTypeOK,
           Disturb \/ Restart \/ \E t \in Tag : EvictRecord(t)
    PROVE  MemcachedTypeOK'
<1>1. ASSUME NEW k \in Key, EvictEntry(k)
      PROVE  MemcachedTypeOK'
  BY <1>1 DEF EvictEntry, MemcachedTypeOK, StoredEntry
<1>2. ASSUME NEW t \in Tag, EvictRecord(t)
      PROVE  MemcachedTypeOK'
  BY <1>2 DEF EvictRecord, MemcachedTypeOK, StoredRecord
<1>3. ASSUME NEW p \in Pod, Disconnect(p)
      PROVE  MemcachedTypeOK'
  <2>1. reply' \in [Caller -> Reply]
    BY <1>3 DEF Disconnect, MemcachedTypeOK, Reply
  <2>2. <<>> \in Seq(Command)
    OBVIOUS
  <2>. QED
    BY <1>3, <2>1, <2>2 DEF Disconnect, MemcachedTypeOK
<1>4. CASE Restart
  <2>1. reply' \in [Caller -> Reply]
    BY <1>4 DEF Restart, MemcachedTypeOK, Reply
  <2>2. <<>> \in Seq(Command)
    OBVIOUS
  <2>. QED
    BY <1>4, <2>1, <2>2 DEF Restart, MemcachedTypeOK, StoredEntry, StoredRecord
<1>5. ASSUME NEW c \in Caller, Timeout(c)
      PROVE  MemcachedTypeOK'
  <2>. DEFINE p == PodOf[c]
              orphan(command) == IF command.by = c
                                   THEN [command EXCEPT !.by = None]
                                   ELSE command
  <2>1. p \in Pod /\ sent[p] \in Seq(Command)
    BY PodAssumption DEF MemcachedTypeOK
  <2>2. ASSUME NEW command \in Command
        PROVE  orphan(command) \in Command
    BY DEF Command, Awaiter
  <2>3. [i \in DOMAIN sent[p] |-> orphan(sent[p][i])] \in Seq(Command)
    BY <2>1, <2>2
  <2>4. sent' \in [Pod -> Seq(Command)]
    BY <1>5, <2>1, <2>3 DEF Timeout, MemcachedTypeOK
  <2>5. reply' \in [Caller -> Reply]
    BY <1>5 DEF Timeout, MemcachedTypeOK, Reply
  <2>. QED
    BY <1>5, <2>4, <2>5 DEF Timeout, MemcachedTypeOK
<1>. QED
  BY <1>1, <1>2, <1>3, <1>4, <1>5 DEF Disturb

-----------------------------------------------------------------------------
(* The calls.                                                              *)

\* A call that has not begun has proper locals.
LEMMA IdleType == Idle \in Call
BY DEF Idle, Call, Locals, Place

\* A caller's time is a number.
LEMMA NowType ==
    ASSUME HandlerTypeOK, NEW c \in Caller
    PROVE  Now(c) \in Nat
BY PodAssumption, HandlerAssumption DEF Now, HandlerTypeOK, Clocks

\* The continuations of get() find and leave proper locals.
LEMMA GetStepType ==
    ASSUME TypeOK, NEW c \in Caller,
           \/ GetSend(c) \/ GetMiss(c) \/ GetReadTags(c) \/ GetUntagged(c)
           \/ GetCheck(c) \/ GetFail(c) \/ GetEnd(c)
    PROVE  TypeOK'
<1>. USE DEF TypeOK
<1>0. PodOf[c] \in Pod /\ c # None
  BY PodAssumption, CallerAssumption
<1>1. ASSUME NEW entry \in Entry \cup {None},
             NEW result \in {"miss", "fresh", "stale"},
             result # "miss" => entry \in Entry,
             Return(c, entry, result)
      PROVE  call' \in [Caller -> Call]
  <2>1. [Idle EXCEPT !.pc = "get_done", !.entry = entry, !.result = result]
          \in Call
    BY <1>1, IdleType, ResultAssumption DEF Call, Locals, Place
  <2>. QED
    BY <1>1, <2>1 DEF Return, HandlerTypeOK
<1>2. CASE GetSend(c)
  <2>1. call[c].key \in Key
    BY <1>2 DEF GetSend, HandlerTypeOK, Call
  <2>2. [kind |-> "get", key |-> call[c].key, by |-> c] \in Command
    BY <2>1 DEF Command, Awaiter
  <2>3. sent' \in [Pod -> Seq(Command)] /\ reply' \in [Caller -> Reply]
    BY <1>2, <2>2, SendType DEF GetSend
  <2>4. [call[c] EXCEPT !.pc = "get_entry"] \in Call
    BY DEF HandlerTypeOK, Call, Locals, Place
  <2>. QED
    BY <1>2, <2>3, <2>4 DEF GetSend, MemcachedTypeOK, HandlerTypeOK
<1>3. CASE GetMiss(c)
  BY <1>1, <1>3, SettledType DEF GetMiss, MemcachedTypeOK, HandlerTypeOK
<1>4. CASE GetReadTags(c)
  <2>1. [kind |-> "gets", by |-> c] \in Command
    BY DEF Command, Awaiter
  <2>2. sent' \in [Pod -> Seq(Command)] /\ reply' \in [Caller -> Reply]
    BY <1>4, <2>1, SendType DEF GetReadTags
  <2>3. reply[c].entry \in Entry
    BY <1>4 DEF GetReadTags, Found, Usable
  <2>4. AllTags(c) \in SUBSET Tag
    BY <2>3 DEF AllTags, Entry, HandlerTypeOK, Call, Locals
  <2>5. [call[c] EXCEPT !.pc = "get_tags", !.tags = AllTags(c),
                        !.entry = reply[c].entry] \in Call
    BY <2>3, <2>4 DEF HandlerTypeOK, Call, Locals, Place
  <2>. QED
    BY <1>4, <2>2, <2>5 DEF GetReadTags, MemcachedTypeOK, HandlerTypeOK
<1>5. CASE GetUntagged(c)
  <2>1. reply[c].entry \in Entry
    BY <1>5 DEF GetUntagged, Found, Usable
  <2>. QED
    BY <1>1, <1>5, <2>1, SettledType DEF GetUntagged, MemcachedTypeOK, HandlerTypeOK
<1>6. CASE GetCheck(c)
  <2>. DEFINE cold == ColdTags(reply[c].records, call[c].tags)
              verdict == Verdict(call[c].entry, call[c].tags,
                                 reply[c].records, Now(c))
  <2>1. call[c].tags \in SUBSET Tag /\ call[c].entry \in Entry
    BY <1>6 DEF GetCheck, HandlerTypeOK, Call, Locals
  <2>2. cold \in SUBSET Tag
    BY <2>1 DEF ColdTags
  <2>3. Reseed(cold, Now(c)) \in Command
    BY <2>2, NowType DEF Reseed, Command, Awaiter
  <2>4. sent' \in [Pod -> Seq(Command)]
    <3>1. Append(sent[PodOf[c]], Reseed(cold, Now(c))) \in Seq(Command)
      BY <1>0, <2>3 DEF MemcachedTypeOK
    <3>. QED
      BY <1>6, <1>0, <3>1 DEF GetCheck, MemcachedTypeOK
  <2>5. verdict \in {"miss", "fresh", "stale"}
    BY DEF Verdict
  <2>6. call' \in [Caller -> Call]
    <3>. HIDE DEF verdict
    <3>1. Return(c, IF verdict = "miss" THEN None ELSE call[c].entry, verdict)
      BY <1>6 DEF GetCheck, verdict
    <3>. QED
      BY <1>1, <2>1, <2>5, <3>1
  <2>7. reply' \in [Caller -> Reply]
    BY <1>6 DEF GetCheck, MemcachedTypeOK, Reply
  <2>. QED
    BY <1>6, <2>4, <2>6, <2>7 DEF GetCheck, MemcachedTypeOK, HandlerTypeOK
<1>7. CASE GetFail(c)
  BY <1>1, <1>7, SettledType DEF GetFail, MemcachedTypeOK, HandlerTypeOK
<1>8. CASE GetEnd(c)
  BY <1>8 DEF GetEnd, memcachedVars, MemcachedTypeOK, HandlerTypeOK, Idle, Call,
              Locals, Place
<1>. QED
  BY <1>2, <1>3, <1>4, <1>5, <1>6, <1>7, <1>8

\* The finally block of set() deletes one promise and releases its waiters.
LEMMA FinishSetType ==
    ASSUME HandlerTypeOK, NEW c \in Caller, call[c].key \in Key, FinishSet(c)
    PROVE  /\ call' \in [Caller -> Call]
           /\ pending' \in [Pod -> [Key -> Caller \cup {None}]]
<1>1. ASSUME NEW d \in Caller
      PROVE  [call[d] EXCEPT !.awaits = None] \in Call
  BY DEF HandlerTypeOK, Call, Locals
<1>2. call' \in [Caller -> Call]
  BY <1>1, IdleType DEF FinishSet, HandlerTypeOK
<1>3. pending' \in [Pod -> [Key -> Caller \cup {None}]]
  BY PodAssumption DEF FinishSet, HandlerTypeOK
<1>. QED
  BY <1>2, <1>3

\* The continuations of set() find and leave proper locals.
LEMMA SetStepType ==
    ASSUME TypeOK, NEW c \in Caller, SetStore(c) \/ SetSkip(c) \/ SetEnd(c)
    PROVE  TypeOK'
<1>. USE DEF TypeOK
<1>1. call[c].key \in Key
  BY DEF SetStore, SetSkip, SetEnd, HandlerTypeOK, Call
<1>2. CASE SetStore(c)
  <2>1. call[c].entry \in Entry
    BY <1>2 DEF SetStore, HandlerTypeOK, Call
  <2>2. PICK lifetime \in Lifetimes :
           Send(c, [kind |-> "set", key |-> call[c].key,
                    entry |-> Encoded(call[c].entry, lifetime), by |-> c])
    BY <1>2 DEF SetStore
  <2>3. Encoded(call[c].entry, lifetime) \in StoredEntry
    BY <2>1 DEF Encoded, StoredEntry
  <2>4. [kind |-> "set", key |-> call[c].key,
         entry |-> Encoded(call[c].entry, lifetime), by |-> c] \in Command
    BY <1>1, <2>3 DEF Command, Awaiter
  <2>5. sent' \in [Pod -> Seq(Command)] /\ reply' \in [Caller -> Reply]
    BY <2>2, <2>4, SendType
  <2>6. [call[c] EXCEPT !.pc = "set_store"] \in Call
    BY <1>1 DEF HandlerTypeOK, Call, Locals, Place
  <2>. QED
    BY <1>2, <2>5, <2>6 DEF SetStore, MemcachedTypeOK, HandlerTypeOK
<1>3. CASE SetSkip(c)
  BY <1>1, <1>3, FinishSetType
     DEF SetSkip, memcachedVars, MemcachedTypeOK, HandlerTypeOK
<1>4. CASE SetEnd(c)
  BY <1>1, <1>4, FinishSetType, SettledType
     DEF SetEnd, MemcachedTypeOK, HandlerTypeOK
<1>. QED
  BY <1>2, <1>3, <1>4

\* The continuations of updateTags find and leave proper locals.
LEMMA UpdateStepType ==
    ASSUME TypeOK, NEW c \in Caller,
           UpdateWrite(c) \/ UpdateEnd(c) \/ UpdateFail(c)
    PROVE  TypeOK'
<1>. USE DEF TypeOK
<1>1. CASE UpdateWrite(c)
  <2>. DEFINE now == Round(Now(c))
              items == [t \in Tag |-> Bumped(reply[c].records[t], now,
                                             call[c].duration)]
              command == [kind |-> "set_tags", tags |-> call[c].tags,
                          items |-> items, at |-> now, by |-> c]
  <2>1. /\ reply[c].records \in [Tag -> StoredRecord]
        /\ call[c].duration \in Duration
        /\ call[c].tags \in SUBSET Tag
    BY <1>1 DEF UpdateWrite, TagReply, HandlerTypeOK, Call, Locals
  <2>2. now \in Int
    BY RoundType, NowType
  <2>3. items \in [Tag -> StoredRecord]
    <3>. HIDE DEF now
    <3>. QED
      BY <2>1, <2>2, BumpedType
  <2>4. command \in Command
    BY <2>1, <2>2, <2>3 DEF Command, Awaiter
  <2>5. Send(c, command)
    BY <1>1 DEF UpdateWrite
  <2>6. sent' \in [Pod -> Seq(Command)] /\ reply' \in [Caller -> Reply]
    <3>. HIDE DEF command
    <3>. QED
      BY <2>4, <2>5, SendType
  <2>7. [call[c] EXCEPT !.pc = "update_write"] \in Call
    BY DEF HandlerTypeOK, Call, Locals, Place
  <2>. QED
    BY <1>1, <2>6, <2>7 DEF UpdateWrite, MemcachedTypeOK, HandlerTypeOK
<1>2. CASE UpdateEnd(c) \/ UpdateFail(c)
  BY <1>2, IdleType, SettledType
     DEF UpdateEnd, UpdateFail, MemcachedTypeOK, HandlerTypeOK
<1>. QED
  BY <1>1, <1>2

\* A call of the handler begins with proper locals.
LEMMA StartType ==
    ASSUME TypeOK, NEW c \in Caller,
           StartGet(c) \/ StartSet(c) \/ StartUpdate(c)
    PROVE  TypeOK'
<1>. USE DEF TypeOK
<1>1. CASE StartGet(c)
  <2>1. PICK k \in Key, tags \in SoftTags : GetStart(c, k, tags)
    BY <1>1 DEF StartGet, Given, GetExpiration
  <2>2. tags \in SUBSET Tag /\ pending[PodOf[c]][k] \in Caller \cup {None}
    BY HandlerAssumption, PodAssumption DEF HandlerTypeOK
  <2>3. [Idle EXCEPT !.pc = "get_pending", !.key = k, !.tags = tags,
                     !.awaits = pending[PodOf[c]][k]] \in Call
    BY <2>2, IdleType DEF Call, Locals, Place
  <2>. QED
    BY <2>1, <2>3 DEF GetStart, memcachedVars, MemcachedTypeOK, HandlerTypeOK
<1>2. CASE StartSet(c)
  <2>1. PICK k \in Key, tags \in EntryTags, r \in Revalidate :
           SetStart(c, k, tags, r)
    BY <1>2 DEF StartSet
  <2>2. [tags |-> tags, timestamp |-> Now(c), revalidate |-> r] \in Entry
    BY HandlerAssumption, NowType DEF Entry
  <2>3. [Idle EXCEPT !.pc = "set_render", !.key = k,
                     !.entry = [tags |-> tags, timestamp |-> Now(c),
                                revalidate |-> r]] \in Call
    BY <2>2, IdleType DEF Call, Locals, Place
  <2>4. pending' \in [Pod -> [Key -> Caller \cup {None}]]
    BY <2>1, PodAssumption DEF SetStart, HandlerTypeOK
  <2>. QED
    BY <2>1, <2>3, <2>4
       DEF SetStart, memcachedVars, MemcachedTypeOK, HandlerTypeOK
<1>3. CASE StartUpdate(c)
  <2>1. PICK tags \in Bumps, d \in Durations : UpdateStart(c, tags, d)
    BY <1>3 DEF StartUpdate
  <2>2. tags \in SUBSET Tag /\ d \in Duration
    BY HandlerAssumption
  <2>3. [Idle EXCEPT !.pc = "update_read", !.tags = tags, !.duration = d]
          \in Call
    BY <2>2, IdleType DEF Call, Locals, Place
  <2>4. [kind |-> "gets", by |-> c] \in Command
    BY DEF Command, Awaiter
  <2>5. sent' \in [Pod -> Seq(Command)] /\ reply' \in [Caller -> Reply]
    BY <2>1, <2>4, SendType DEF UpdateStart
  <2>. QED
    BY <2>1, <2>3, <2>5 DEF UpdateStart, MemcachedTypeOK, HandlerTypeOK
<1>. QED
  BY <1>1, <1>2, <1>3

-----------------------------------------------------------------------------

\* A handler that serves no call yet, and an empty node, are well typed.
LEMMA InitType == Init => TypeOK
BY HandlerAssumption, IdleType
   DEF Init, Clocks, MemcachedInit, TypeOK, MemcachedTypeOK, HandlerTypeOK, StoredEntry,
       StoredRecord, Reply

\* No step breaks a type.
LEMMA NextType == TypeOK /\ [Next]_vars => TypeOK'
<1>. SUFFICES ASSUME TypeOK, [Next]_vars PROVE TypeOK'
  OBVIOUS
<1>1. ASSUME NEW c \in Caller, StartGet(c) \/ StartSet(c) \/ StartUpdate(c)
      PROVE  TypeOK'
  BY <1>1, StartType
<1>2. ASSUME NEW c \in Caller, Step(c) \/ GetEnd(c)
      PROVE  TypeOK'
  BY <1>2, GetStepType, SetStepType, UpdateStepType DEF Step
<1>3. ASSUME NEW p \in Pod, Exec(p), UNCHANGED handlerVars
      PROVE  TypeOK'
  BY <1>3, ExecType DEF TypeOK, handlerVars, HandlerTypeOK
<1>4. ASSUME Disturb \/ Restart \/ \E t \in Tag : EvictRecord(t),
             UNCHANGED handlerVars
      PROVE  TypeOK'
  BY <1>4, FaultType DEF TypeOK, handlerVars, HandlerTypeOK
<1>5. CASE Tick
  BY <1>5, HandlerAssumption
     DEF Tick, TypeOK, memcachedVars, MemcachedTypeOK, HandlerTypeOK
<1>6. CASE UNCHANGED vars
  BY <1>6 DEF vars, memcachedVars, handlerVars, TypeOK, MemcachedTypeOK,
              HandlerTypeOK
<1>. QED
  BY <1>1, <1>2, <1>3, <1>4, <1>5, <1>6 DEF Next

\* Every variable of the handlers, their connections and the node always
\* holds a value of its type: in particular a continuation of get, set and
\* updateTags finds the locals it reads.
THEOREM TypeCorrect == Spec => []TypeOK
<1>1. Init => TypeOK
  BY InitType
<1>2. TypeOK /\ [Next]_vars => TypeOK'
  BY NextType
<1>. QED
  BY <1>1, <1>2, PTL DEF Spec

=============================================================================
