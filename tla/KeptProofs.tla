----------------------------- MODULE KeptProofs -----------------------------
(***************************************************************************)
(* A hard invalidation that returned uncontended outlives every soft one   *)
(* after it, or is put off by it: for any number of pods, callers, keys    *)
(* and tags, any clocks and durations, and any faults.                     *)
(***************************************************************************)
EXTENDS Kept, ReturnedProofs

-----------------------------------------------------------------------------
(* Records.                                                                *)

\* The types the other lemmas need.
LEMMA KeptTypes ==
    ASSUME KeptInv
    PROVE  /\ TypeOK /\ MemcachedTypeOK /\ HandlerTypeOK
           /\ StandingInv /\ AwaitInv
           /\ call \in [Caller -> Locals]
           /\ reply \in [Caller -> Reply]
           /\ records \in [Tag -> StoredRecord]
           /\ clock \in [Pod -> Int]
           /\ \A t \in Tag : kept[t] \in Int /\ 0 <= kept[t]
           /\ \A c \in Caller, t \in Tag :
                 due[c][t] \in Int /\ 0 <= due[c][t] /\ due[c][t] <= kept[t]
           /\ \A c \in Caller : /\ PodOf[c] \in Pod /\ c # None
                                /\ Now(c) \in Int /\ 0 <= Now(c)
                                /\ began[c] \in Int /\ 0 <= began[c]
                                /\ began[c] <= Now(c)
                                /\ call[c].tags \in SUBSET Tag
<1>1. /\ TypeOK /\ MemcachedTypeOK /\ HandlerTypeOK /\ StandingInv /\ AwaitInv
      /\ call \in [Caller -> Locals] /\ reply \in [Caller -> Reply]
      /\ records \in [Tag -> StoredRecord]
  BY DEF KeptInv, StandingInv, ITypeOK, TypeOK, HandlerTypeOK, MemcachedTypeOK, Call
<1>2. /\ \A t \in Tag : kept[t] \in Int /\ 0 <= kept[t]
      /\ \A c \in Caller, t \in Tag :
            due[c][t] \in Int /\ 0 <= due[c][t] /\ due[c][t] <= kept[t]
  BY DEF KeptInv, KeptReached
<1>3. \A c \in Caller : PodOf[c] \in Pod /\ c # None
  BY PodAssumption, CallerAssumption
<1>4. \A c \in Caller : Now(c) \in Nat /\ began[c] \in 0..Now(c)
  BY <1>1, NowType DEF KeptInv, BeganInPast
<1>5. \A c \in Caller : call[c].tags \in SUBSET Tag
  BY <1>1 DEF Locals
<1>6. clock \in [Pod -> Int]
  BY <1>1, ClockType
<1>. QED
  BY <1>1, <1>2, <1>3, <1>4, <1>5, <1>6

\* What a record holds it holds for ever.
LEMMA HoldsLater ==
    ASSUME NEW stored, NEW n, NEW time \in [Pod -> Int], NEW later \in [Pod -> Int],
           \A p \in Pod : time[p] <= later[p],
           Holds(stored, n, time)
    PROVE  Holds(stored, n, later)
BY ReachedLater DEF Holds

\* What holds an invalidation holds every earlier one.
LEMMA HoldsEarlier ==
    ASSUME NEW stored, NEW m \in Int, NEW n \in Int, m <= n, NEW time,
           Holds(stored, n, time)
    PROVE  Holds(stored, m, time)
BY SlackType DEF Holds

\* bumpTags keeps the hard invalidation it has read, puts it off, or puts its
\* own stamp in its place.
LEMMA BumpedHolds ==
    ASSUME NEW stored \in StoredRecord, NEW now \in Int, NEW n \in Int,
           n - Slack <= now, NEW duration \in Duration, NEW time, Reached(now, time)
    PROVE  /\ (Holds(stored, n, time) /\ Bumped(stored, now, duration) \in TagRecord) =>
                 Holds(Bumped(stored, now, duration), n, time)
           /\ duration = Hard => Holds(Bumped(stored, now, duration), n, time)
<1>. DEFINE record == IF Readable(stored) THEN stored ELSE EmptyRecord
            bumped == Bumped(stored, now, duration)
<1>1. record \in TagRecord
  BY DEF Readable, EmptyRecord, TagRecord
<1>2. CASE duration = Hard
  <2>1. bumped = [record EXCEPT !.expired = now]
    BY <1>2, DurationAssumption DEF Bumped
  <2>. HIDE DEF record
  <2>2. bumped \in TagRecord /\ bumped.expired = now
    BY <1>1, <2>1 DEF TagRecord
  <2>. HIDE DEF bumped
  <2>3. Holds(bumped, n, time)
    BY <2>2 DEF Holds
  <2>. QED
    BY <2>3 DEF bumped
<1>3. CASE duration = NoExpire
  <2>1. bumped = [record EXCEPT !.stale = now]
    BY <1>3, DurationAssumption DEF Bumped
  <2>2. Holds(stored, n, time) => record = stored
    BY DEF Holds, Readable
  <2>. HIDE DEF record
  <2>3. /\ bumped \in TagRecord /\ bumped.expired = record.expired
        /\ bumped.stale = now
    BY <1>1, <2>1 DEF TagRecord
  <2>. HIDE DEF bumped
  <2>4. Holds(stored, n, time) => Holds(bumped, n, time)
    BY <2>2, <2>3 DEF Holds
  <2>. QED
    BY <1>3, <2>4, DurationAssumption DEF bumped
<1>4. CASE duration = Infinite
  <2>1. bumped = Unreadable
    BY <1>4, DurationAssumption DEF Bumped
  <2>. HIDE DEF bumped
  <2>2. bumped \notin TagRecord
    BY <2>1, SentinelAssumption
  <2>. QED
    BY <1>4, <2>2, DurationAssumption DEF bumped
<1>5. CASE duration \in Nat
  <2>1. duration \notin {Hard, NoExpire, Infinite}
    BY <1>5, DurationAssumption
  <2>2. bumped = [expired |-> now + duration, stale |-> now]
    BY <2>1 DEF Bumped
  <2>3. /\ bumped \in TagRecord /\ bumped.expired = now + duration
        /\ bumped.stale = now
    BY <1>5, <2>2 DEF TagRecord
  <2>. HIDE DEF bumped
  <2>4. n - Slack <= now + duration /\ now + duration \in Int
    BY <1>5, SlackType
  <2>5. Holds(bumped, n, time)
    BY <2>3, <2>4 DEF Holds
  <2>. QED
    BY <2>5 DEF bumped
<1>. QED
  BY <1>2, <1>3, <1>4, <1>5 DEF Duration

-----------------------------------------------------------------------------
(* Steps.                                                                  *)

\* What becomes of a record.
LEMMA RecordChanges ==
    ASSUME StandingInv, INext, NEW t \in Tag
    PROVE  \/ records'[t] = records[t]
           \/ records'[t] = None
           \/ \E p \in Pod : /\ Lands(p, t) /\ UNCHANGED call
                             /\ Head(sent[p]) \in Commands(p)
                             /\ Head(sent[p]).kind = "set_tags"
                             /\ t \in Head(sent[p]).tags
                             /\ records'[t] = Head(sent[p]).items[t]
           \/ \E n \in Int : /\ records[t] = None
                             /\ records'[t] = ExpiredAt(n) /\ Reached(n, clock)
<1>0. /\ records \in [Tag -> StoredRecord] /\ MemcachedTypeOK
  BY DEF StandingInv, ITypeOK, TypeOK, MemcachedTypeOK
<1>1. CASE UNCHANGED records
  BY <1>1
<1>2. ASSUME NEW p \in Pod, NEW w \in Tag, Lands(p, w), UNCHANGED call
      PROVE  \/ records'[t] = records[t]
             \/ /\ Lands(p, t) /\ UNCHANGED call
                /\ Head(sent[p]) \in Commands(p)
                /\ Head(sent[p]).kind = "set_tags"
                /\ t \in Head(sent[p]).tags
                /\ records'[t] = Head(sent[p]).items[t]
  <2>1. records' = [records EXCEPT ![w] = Head(sent[p]).items[w]]
    BY <1>2 DEF Lands, ExecSetTag
  <2>2. CASE w # t
    BY <1>0, <2>1, <2>2
  <2>3. CASE w = t
    <3>1. records'[t] = Head(sent[p]).items[t]
      BY <1>0, <2>1, <2>3
    <3>2. /\ Head(sent[p]) \in Commands(p) /\ Head(sent[p]).kind = "set_tags"
          /\ t \in Head(sent[p]).tags
      BY <1>2, <2>3, LandsType DEF StandingInv
    <3>. QED
      BY <1>2, <2>3, <3>1, <3>2
  <2>. QED
    BY <2>2, <2>3
<1>3. ASSUME NEW p \in Pod, NEW w \in Tag, ExecAddTag(p, w)
      PROVE  \/ records'[t] = records[t]
             \/ \E n \in Int : /\ records[t] = None
                               /\ records'[t] = ExpiredAt(n) /\ Reached(n, clock)
  <2>. DEFINE head == Head(sent[p])
  <2>1. /\ head \in Commands(p) /\ head.kind = "add_tags" /\ w \in head.tags
        /\ head \in Command
    BY <1>0, <1>3, HeadSent, HeadType DEF ExecAddTag
  <2>2. Reached(head.at, clock) /\ head.at \in Int
    BY <2>1 DEF StandingInv, ReseedsHarmless, Command
  <2>. QED
    BY <1>0, <1>3, <2>2 DEF ExecAddTag
<1>4. ASSUME NEW w \in Tag, Forgets(w)
      PROVE  records'[t] = records[t] \/ records'[t] = None
  BY <1>0, <1>4 DEF Forgets, EvictRecord
<1>5. CASE Restart
  BY <1>5 DEF Restart
<1>. QED
  BY <1>1, <1>2, <1>3, <1>4, <1>5, Kinds

\* Where a batch on its way comes from.
LEMMA BatchSource ==
    ASSUME StandingInv, INext, NEW p \in Pod, NEW command \in Commands(p)',
           command.kind = "set_tags"
    PROVE  \/ \E old \in Commands(p) : From(command, old)
           \/ \E c \in Caller : /\ UpdateWrite(c) /\ command = Batch(c)
                                /\ UNCHANGED <<records, clock>>
<1>0. TypeOK /\ MemcachedTypeOK
  BY DEF StandingInv, ITypeOK, TypeOK
<1>1. CASE NothingNew
  BY <1>1, FromOld
<1>2. ASSUME NEW c \in Caller, UNCHANGED <<records, clock>>,
             \/ StartGet(c) \/ StartSet(c) \/ StartUpdate(c)
             \/ Step(c) \/ GetEnd(c)
      PROVE  \/ NothingNew
             \/ \E old \in Commands(p) : From(command, old)
             \/ UpdateWrite(c) /\ command = Batch(c)
  <2>1. UNCHANGED sent => NothingNew
    BY <1>0, SameNothingNew
  <2>2. ASSUME NEW new \in Command,
               sent' = [sent EXCEPT ![PodOf[c]] = Append(@, new)],
               \/ new.kind \in {"get", "set", "gets"}
               \/ UpdateWrite(c) /\ new = Batch(c)
               \/ new = Reseed(ColdTags(reply[c].records, call[c].tags), Now(c))
        PROVE  \/ \E old \in Commands(p) : From(command, old)
               \/ UpdateWrite(c) /\ command = Batch(c)
    <3>1. command = new \/ command \in Commands(p)
      BY <1>0, <2>2, SendNew
    <3>2. From(command, command)
      BY DEF From
    <3>3. command = new => UpdateWrite(c) /\ command = Batch(c)
      BY <2>2 DEF Reseed
    <3>. QED
      BY <3>1, <3>2, <3>3
  <2>. QED
    BY <1>0, <1>2, <2>1, <2>2, CallAppends
<1>3. UNCHANGED sent => NothingNew
  BY <1>0, SameNothingNew
<1>4. Restart => Commands(p)' = {}
  BY DEF Restart, Commands
<1>5. \A t \in Tag : Forgets(t) => UNCHANGED sent
  BY DEF Forgets, EvictRecord
<1>. QED
  BY <1>1, <1>2, <1>3, <1>4, <1>5, Kinds

\* Where an answer with records comes from.
LEMMA ReplySource ==
    ASSUME StandingInv, INext, NEW c \in Caller, reply'[c] \in TagReply
    PROVE  \/ /\ reply'[c] = reply[c]
              /\ call'[c].pc = call[c].pc /\ call'[c].tags = call[c].tags
              /\ call'[c].duration = call[c].duration
           \/ reply'[c] = [records |-> records] /\ UNCHANGED call
           \/ call'[c].pc \notin {"update_read", "get_tags"} /\ reply'[c] = reply[c]
<1>0. /\ TypeOK /\ MemcachedTypeOK /\ reply \in [Caller -> Reply]
      /\ call \in [Caller -> Locals]
  BY DEF StandingInv, ITypeOK, TypeOK, MemcachedTypeOK, HandlerTypeOK, Call
<1>1. CASE UNCHANGED <<reply, call>>
  BY <1>1
<1>2. CASE UNCHANGED call /\ (Disturb \/ Restart \/ \E p \in Pod : Exec(p))
  BY <1>0, <1>2, Answers
<1>3. ASSUME NEW d \in Caller,
             \/ StartGet(d) \/ StartSet(d) \/ StartUpdate(d)
             \/ Step(d) \/ GetEnd(d)
      PROVE  \/ /\ reply'[c] = reply[c]
                /\ call'[c].pc = call[c].pc /\ call'[c].tags = call[c].tags
                /\ call'[c].duration = call[c].duration
             \/ call'[c].pc \notin {"update_read", "get_tags"} /\ reply'[c] = reply[c]
  <2>1. CASE c # d
    BY <1>0, <1>3, <2>1, OthersStep
  <2>2. CASE c = d
    <3>1. reply'[c] = reply[c] \/ reply'[c] = NoReply
      BY <1>0, <1>3, <2>2
         DEF StartGet, StartSet, StartUpdate, Step, GetStart, GetSend, GetMiss,
             GetReadTags, GetUntagged, GetCheck, GetFail, GetEnd, SetStart, SetStore,
             SetSkip, SetEnd, UpdateStart, UpdateWrite, UpdateEnd, UpdateFail,
             Settled, Send, memcachedVars
    <3>2. reply'[c] = reply[c]
      BY <3>1, ReplyAssumption
    <3>3. CASE call'[c].pc = "update_read"
      <4>1. StartUpdate(c)
        BY <1>0, <1>3, <2>2, <3>3, OwnStep
      <4>2. reply'[c] = NoReply
        BY <1>0, <4>1 DEF StartUpdate, UpdateStart, Send
      <4>. QED
        BY <4>2, ReplyAssumption
    <3>4. CASE call'[c].pc = "get_tags"
      <4>1. GetReadTags(c)
        BY <1>0, <1>3, <2>2, <3>4, OwnStep
      <4>2. reply'[c] = NoReply
        BY <1>0, <4>1 DEF GetReadTags, Send
      <4>. QED
        BY <4>2, ReplyAssumption
    <3>. QED
      BY <3>2, <3>3, <3>4
  <2>. QED
    BY <2>1, <2>2
<1>4. \A t \in Tag : Forgets(t) => UNCHANGED reply
  BY DEF Forgets, EvictRecord
<1>. QED
  BY <1>1, <1>2, <1>3, <1>4, Kinds

\* A call that is going to write is the one that began, by its own step or
\* left alone by the others'.
LEMMA UpdaterStep ==
    ASSUME StandingInv, INext, NEW c \in Caller, call'[c].pc = "update_write"
    PROVE  \/ UpdateWrite(c)
           \/ /\ call[c].pc = "update_write"
              /\ call'[c].tags = call[c].tags
              /\ call'[c].duration = call[c].duration
<1>0. TypeOK
  BY DEF StandingInv, ITypeOK
<1>1. ASSUME NEW d \in Caller,
             \/ StartGet(d) \/ StartSet(d) \/ StartUpdate(d)
             \/ Step(d) \/ GetEnd(d)
      PROVE  \/ UpdateWrite(c)
             \/ /\ call[c].pc = "update_write"
                /\ call'[c].tags = call[c].tags
                /\ call'[c].duration = call[c].duration
  BY <1>0, <1>1, OthersStep, OwnStep
<1>. QED
  BY <1>1, Kinds

\* A queue loses only its head, and a batch only what is executed of it.
LEMMA RestSent ==
    ASSUME MemcachedTypeOK, NEW p \in Pod, Exec(p), NEW i \in DOMAIN sent[p], i # 1
    PROVE  sent[p][i] \in Commands(p)'
<1>1. sent[p] \in Seq(Command)
  BY DEF MemcachedTypeOK
<1>2. ASSUME sent'[p] = Tail(sent[p])
      PROVE  i - 1 \in DOMAIN sent'[p] /\ sent'[p][i - 1] = sent[p][i]
  BY <1>1, <1>2
<1>3. ASSUME NEW left, sent'[p] = <<left>> \o Tail(sent[p])
      PROVE  i \in DOMAIN sent'[p] /\ sent'[p][i] = sent[p][i]
  BY <1>1, <1>3
<1>4. sent'[p] = Tail(sent[p]) \/ \E left : sent'[p] = <<left>> \o Tail(sent[p])
  BY DEF MemcachedTypeOK, Exec, ExecGet, ExecSet, ExecGets, ExecSetTag, ExecAddTag,
         Executed
<1>. QED
  BY <1>2, <1>3, <1>4 DEF Commands

\* A record on its way stays on its way until it is stored, or its promise
\* rejects.
LEMMA SentStep ==
    ASSUME StandingInv, AwaitInv, INext, NEW c \in Caller, NEW t \in Tag,
           call[c].pc = "update_write", StillSent(c, t)
    PROVE  \/ StillSent(c, t)'
           \/ reply'[c] = Error
           \/ \E p \in Pod : Lands(p, t) /\ Head(sent[p]).by = c
<1>0. /\ TypeOK /\ MemcachedTypeOK /\ c # None
      /\ reply \in [Caller -> Reply] /\ sent \in [Pod -> Seq(Command)]
  BY CallerAssumption DEF StandingInv, ITypeOK, TypeOK, MemcachedTypeOK
<1>p. PICK p \in Pod : \E i \in DOMAIN sent[p] :
              sent[p][i].by = c /\ t \in sent[p][i].tags
  BY DEF StillSent, Commands
<1>1. PICK i \in DOMAIN sent[p] : sent[p][i].by = c /\ t \in sent[p][i].tags
  BY <1>p
<1>2. PodOf[c] = p /\ Suits(sent[p][i], call[c]) /\ sent[p][i] \in Command
  BY <1>0, <1>1 DEF AwaitInv
<1>3. sent[p][i].kind = "set_tags" /\ Awaits(c)
  BY <1>1, <1>2 DEF Suits, Awaits, Commands
<1>4. sent[p][i] \in Commands(p)' => StillSent(c, t)'
  <2>1. ASSUME NEW command \in Commands(p)', command.by = c, t \in command.tags
        PROVE  StillSent(c, t)'
    BY <2>1 DEF StillSent
  <2>. QED
    BY <1>1, <2>1
<1>5. UNCHANGED sent => sent[p][i] \in Commands(p)'
  BY DEF Commands
<1>6. ASSUME NEW d \in Caller,
             \/ StartGet(d) \/ StartSet(d) \/ StartUpdate(d)
             \/ Step(d) \/ GetEnd(d)
      PROVE  sent[p][i] \in Commands(p)'
  <2>1. ASSUME NEW new \in Command,
               sent' = [sent EXCEPT ![PodOf[d]] = Append(@, new)]
        PROVE  i \in DOMAIN sent'[p] /\ sent'[p][i] = sent[p][i]
    <3>1. sent'[p] = sent[p] \/ sent'[p] = Append(sent[p], new)
      BY <1>0, <2>1
    <3>2. sent[p] \in Seq(Command)
      BY <1>0
    <3>. QED
      BY <1>1, <3>1, <3>2
  <2>. QED
    BY <1>0, <1>5, <1>6, <2>1, CallAppends DEF Commands
<1>7. ASSUME NEW q \in Pod, Exec(q), q # p \/ i # 1
      PROVE  sent[p][i] \in Commands(p)'
  <2>1. CASE q # p
    <3>1. sent'[p] = sent[p]
      BY <1>0, <1>7, <2>1 DEF Exec, ExecGet, ExecSet, ExecGets, ExecSetTag,
                              ExecAddTag, Executed
    <3>. QED
      BY <3>1 DEF Commands
  <2>2. CASE i # 1 /\ q = p
    BY <1>0, <1>7, <2>2, RestSent
  <2>. QED
    BY <1>7, <2>1, <2>2
<1>8. i = 1 => Head(sent[p]) = sent[p][i]
  BY <1>0, <1>1
<1>9. CASE Disturb \/ Restart
  <2>1. ASSUME NEW key \in Key, EvictEntry(key)
        PROVE  sent[p][i] \in Commands(p)'
    BY <1>5, <2>1 DEF EvictEntry
  <2>2. Restart => reply'[c] = Error
    BY <1>3 DEF Restart
  <2>3. ASSUME NEW q \in Pod, Disconnect(q)
        PROVE  reply'[c] = Error \/ sent[p][i] \in Commands(p)'
    <3>1. CASE p = q
      BY <1>2, <1>3, <2>3, <3>1 DEF Disconnect
    <3>2. CASE p # q
      BY <1>0, <2>3, <3>2 DEF Disconnect, Commands
    <3>. QED
      BY <3>1, <3>2
  <2>4. ASSUME NEW d \in Caller, Timeout(d)
        PROVE  reply'[c] = Error \/ sent[p][i] \in Commands(p)'
    <3>1. CASE c = d
      BY <1>0, <2>4, <3>1 DEF Timeout
    <3>2. CASE c # d
      <4>1. i \in DOMAIN sent'[p] /\ sent'[p][i] = sent[p][i]
        <5>1. sent'[p] = sent[p]
              \/ sent'[p] = [j \in DOMAIN sent[p] |->
                               IF sent[p][j].by = d THEN [sent[p][j] EXCEPT !.by = None]
                               ELSE sent[p][j]]
          BY <1>0, <2>4 DEF Timeout
        <5>. QED
          BY <1>1, <3>2, <5>1
      <4>. QED
        BY <4>1 DEF Commands
    <3>. QED
      BY <3>1, <3>2
  <2>. QED
    BY <1>4, <1>9, <2>1, <2>2, <2>3, <2>4 DEF Disturb
<1>10. ASSUME NEW q \in Pod, Exec(q),
              \/ ExecGet(q) \/ ExecSet(q) \/ ExecGets(q)
              \/ \E w \in Tag : ExecAddTag(q, w)
       PROVE  StillSent(c, t)'
  <2>1. Head(sent[q]).kind # "set_tags"
    BY <1>10 DEF ExecGet, ExecSet, ExecGets, ExecAddTag
  <2>. QED
    BY <1>3, <1>4, <1>7, <1>8, <1>10, <2>1
<1>11. ASSUME NEW q \in Pod, Exec(q), NEW w \in Tag, Lands(q, w)
       PROVE  \/ StillSent(c, t)'
              \/ Lands(q, t) /\ Head(sent[q]).by = c
  <2>1. CASE q # p \/ i # 1
    BY <1>4, <1>7, <1>11, <2>1
  <2>2. CASE q = p /\ i = 1 /\ w = t
    BY <1>1, <1>8, <1>11, <2>2
  <2>3. CASE q = p /\ i = 1 /\ w # t
    <3>. DEFINE head == Head(sent[p])
                left == [head EXCEPT !.tags = head.tags \ {w}]
    <3>1. /\ head = sent[p][i] /\ head \in Command /\ head.by = c /\ t \in head.tags
          /\ head.kind = "set_tags"
      BY <1>1, <1>2, <1>3, <1>8, <2>3
    <3>2. left.by = c /\ t \in left.tags
      BY <2>3, <3>1 DEF Command
    <3>3. head.tags \ {w} # {}
      BY <2>3, <3>1
    <3>4. sent'[p] = <<left>> \o Tail(sent[p])
      BY <1>0, <1>11, <2>3, <3>3 DEF Lands, ExecSetTag, Executed
    <3>. HIDE DEF left, head
    <3>5. 1 \in DOMAIN sent'[p] /\ sent'[p][1] = left
      <4>1. Tail(sent[p]) \in Seq(Command)
        BY <1>0, <1>1
      <4>. QED
        BY <3>4, <4>1
    <3>6. left \in Commands(p)'
      BY <3>5 DEF Commands
    <3>. QED
      BY <3>2, <3>6 DEF StillSent
  <2>. QED
    BY <2>1, <2>2, <2>3
<1>12. \A w \in Tag : Forgets(w) => UNCHANGED sent
  BY DEF Forgets, EvictRecord
<1>. QED
  BY <1>4, <1>5, <1>6, <1>9, <1>10, <1>11, <1>12, Kinds

\* An answer that is an error stays until the call goes on.
LEMMA ErrorStays ==
    ASSUME StandingInv, AwaitInv, INext, NEW c \in Caller,
           call[c].pc = "update_write", call'[c].pc = "update_write",
           reply[c] = Error
    PROVE  reply'[c] = Error
<1>0. /\ TypeOK /\ MemcachedTypeOK /\ c # None /\ call \in [Caller -> Locals]
      /\ reply \in [Caller -> Reply] /\ sent \in [Pod -> Seq(Command)]
  BY CallerAssumption DEF StandingInv, ITypeOK, TypeOK, MemcachedTypeOK,
                          HandlerTypeOK, Call
<1>1. CASE Disturb \/ Restart
  BY <1>0, <1>1 DEF Disturb, EvictEntry, Disconnect, Timeout, Restart
<1>2. ASSUME NEW p \in Pod, Exec(p)
      PROVE  reply'[c] = Error
  <2>1. sent[p] # <<>> /\ 1 \in DOMAIN sent[p] /\ Head(sent[p]) = sent[p][1]
    <3>1. sent[p] # <<>> /\ sent[p] \in Seq(Command)
      BY <1>0, <1>2 DEF Exec, ExecGet, ExecSet, ExecGets, ExecSetTag, ExecAddTag
    <3>. QED
      BY <3>1
  <2>2. Head(sent[p]).by # c
    BY <1>0, <2>1, ReplyAssumption DEF AwaitInv
  <2>3. \A answer : Answered(Head(sent[p]), answer)[c] = reply[c]
    BY <1>0, <2>2 DEF Answered
  <2>4. reply'[c] = reply[c]
    BY <1>2, <2>3 DEF Exec, ExecGet, ExecSet, ExecGets, ExecSetTag, ExecAddTag,
                      Executed
  <2>. QED
    BY <2>4
<1>3. ASSUME NEW d \in Caller,
             \/ StartGet(d) \/ StartSet(d) \/ StartUpdate(d)
             \/ Step(d) \/ GetEnd(d)
      PROVE  reply'[c] = Error
  <2>1. CASE c # d
    BY <1>0, <1>3, <2>1, OthersStep
  <2>2. CASE c = d
    <3>1. UpdateWrite(c)
      BY <1>0, <1>3, <2>2, OwnStep
    <3>. QED
      BY <3>1 DEF UpdateWrite
  <2>. QED
    BY <2>1, <2>2
<1>4. \A w \in Tag : Forgets(w) => UNCHANGED reply
  BY DEF Forgets, EvictRecord
<1>. QED
  BY <1>1, <1>2, <1>3, <1>4, Kinds

-----------------------------------------------------------------------------
(* What is kept and due.                                                   *)

\* One call returns in a step, and nothing else happens.
LEMMA ReturnStep ==
    ASSUME StandingInv, INext, NEW c \in Caller, Returns(c)
    PROVE  /\ UNCHANGED <<records, clock, sent>>
           /\ \A d \in Caller \ {c} : /\ call'[d].pc = call[d].pc
                                      /\ call'[d].tags = call[d].tags
<1>0. TypeOK /\ call \in [Caller -> Locals]
  BY DEF StandingInv, ITypeOK, TypeOK, HandlerTypeOK, Call
<1>1. call[c].pc = "update_write" /\ call'[c].pc = "idle" /\ reply[c] = Ack
  BY DEF Returns, Moves
<1>2. ASSUME NEW d \in Caller, UNCHANGED <<records, clock>>,
             \/ StartGet(d) \/ StartSet(d) \/ StartUpdate(d)
             \/ Step(d) \/ GetEnd(d)
      PROVE  /\ UNCHANGED <<records, clock, sent>>
             /\ \A e \in Caller \ {c} : /\ call'[e].pc = call[e].pc
                                        /\ call'[e].tags = call[e].tags
  <2>1. c = d
    BY <1>0, <1>1, <1>2, OthersStep
  <2>2. UpdateEnd(c) \/ UpdateFail(c)
    BY <1>1, <1>2, <2>1
       DEF StartGet, StartSet, StartUpdate, Step, GetStart, SetStart, UpdateStart,
           Starts, GetEnd, GetSend, GetMiss, GetReadTags, GetUntagged, Found,
           GetCheck, GetFail, SetStore, SetSkip, SetEnd, UpdateWrite
  <2>3. UNCHANGED sent
    BY <2>2 DEF UpdateEnd, UpdateFail, Settled
  <2>. QED
    BY <1>0, <1>2, <2>1, <2>3, OthersStep
<1>. QED
  BY <1>1, <1>2, Kinds

\* Nobody else writes, or is going to write, a tag of an uncontended call
\* that returns, and what it has written is stored.
LEMMA ReturnAlone ==
    ASSUME KeptInv, INext, NEW c \in Caller, Returns(c),
           call[c].duration = Hard, c \notin contended, NEW t \in call[c].tags
    PROVE  /\ Holds(records[t], began[c], clock)
           /\ \A d \in Caller \ {c} : Updating(d) => t \notin call[d].tags
           /\ \A p \in Pod : \A command \in Commands(p) :
                 command.kind = "set_tags" => t \notin command.tags
<1>0. AwaitInv /\ c # None
  BY KeptTypes
<1>1. call[c].pc = "update_write" /\ reply[c] = Ack
  BY DEF Returns, Moves
<1>2. \A p \in Pod : \A command \in Commands(p) : command.by # c
  BY <1>0, <1>1, ReplyAssumption DEF AwaitInv, Commands
<1>3. ~Rivalled(c)
  BY <1>1 DEF KeptInv, Uncontended, Updating
<1>4. ~StillSent(c, t)
  BY <1>2 DEF StillSent
<1>5. Holds(records[t], began[c], clock)
  BY <1>1, <1>4, ReplyAssumption DEF KeptInv, HardWritten
<1>6. \A d \in Caller \ {c} : Updating(d) => t \notin call[d].tags
  BY <1>3 DEF Rivalled
<1>7. \A p \in Pod : \A command \in Commands(p) :
         command.kind = "set_tags" => t \notin command.tags
  BY <1>2, <1>3 DEF Rivalled
<1>. QED
  BY <1>5, <1>6, <1>7

\* What is kept is undone, stays, or is renewed by a call that returns.
LEMMA KeptChanges ==
    ASSUME KeptInv, INext, RecordKept, NEW t \in Tag
    PROVE  \/ Undone(t) /\ kept'[t] = 0
           \/ ~Undone(t) /\ kept'[t] = kept[t]
           \/ /\ ~Undone(t)
              /\ \E c \in Caller : /\ Returns(c) /\ call[c].duration = Hard
                                   /\ t \in call[c].tags /\ c \notin contended
                                   /\ kept[t] <= began[c] /\ kept'[t] = began[c]
<1>1. kept'[t] = IF Undone(t) THEN 0
                 ELSE AfterReturn(kept[t], t, Caller \ contended)
  BY DEF RecordKept
<1>2. CASE ReturnHard(t) \cap (Caller \ contended) = {}
  BY <1>1, <1>2 DEF AfterReturn
<1>3. CASE ReturnHard(t) \cap (Caller \ contended) # {}
  <2>1. PICK c \in Caller : c \in ReturnHard(t) /\ c \notin contended
    BY <1>3
  <2>2. /\ Returns(c) /\ call[c].duration = Hard /\ t \in call[c].tags
        /\ StandingInv
    BY <2>1 DEF ReturnHard, KeptInv
  <2>3. \A d \in Caller : Returns(d) => d = c
    BY <2>2, ReturnStep DEF Returns, Moves
  <2>4. (CHOOSE d \in ReturnHard(t) : TRUE) = c
    BY <2>1, <2>3 DEF ReturnHard
  <2>5. AfterReturn(kept[t], t, Caller \ contended) = Later(kept[t], began[c])
    BY <1>3, <2>4 DEF AfterReturn
  <2>6. kept[t] \in Int /\ began[c] \in Int
    BY KeptTypes
  <2>7. \/ Later(kept[t], began[c]) = kept[t]
        \/ Later(kept[t], began[c]) = began[c] /\ kept[t] <= began[c]
    BY <2>6 DEF Later
  <2>. QED
    BY <1>1, <2>1, <2>2, <2>5, <2>7
<1>. QED
  BY <1>2, <1>3

\* What is due stays, is undone or forgotten, or is what is kept when a get()
\* begins.
LEMMA DueChanges ==
    ASSUME KeptInv, INext, RecordKept, NEW c \in Caller, NEW t \in Tag
    PROVE  \/ due'[c][t] = 0
           \/ ~Undone(t) /\ due'[c][t] = due[c][t]
           \/ ~Undone(t) /\ due'[c][t] = kept[t] /\ call'[c].pc = "get_pending"
<1>1. due'[c] = IF Moves(c, "idle", "get_pending") THEN kept
                ELSE IF call'[c].pc = "idle" THEN Never
                ELSE [w \in Tag |-> IF Undone(w) THEN 0 ELSE due[c][w]]
  BY DEF RecordKept
<1>2. CASE Moves(c, "idle", "get_pending")
  <2>1. ~UNCHANGED call
    BY <1>2 DEF Moves
  <2>2. UNCHANGED records
    BY <2>1, Kinds DEF KeptInv
  <2>. QED
    BY <1>1, <1>2, <2>2 DEF Moves, Undone
<1>3. CASE ~Moves(c, "idle", "get_pending")
  BY <1>1, <1>3 DEF Never
<1>. QED
  BY <1>2, <1>3

\* What has happened stays so, and nobody is due more than is kept.
LEMMA ReachedStep ==
    ASSUME KeptInv, INext, RecordKept
    PROVE  KeptReached'
<1>0. /\ HandlerTypeOK /\ StandingInv /\ clock \in [Pod -> Int]
      /\ \A t \in Tag : kept[t] \in Int /\ 0 <= kept[t]
      /\ \A c \in Caller, t \in Tag :
            due[c][t] \in Int /\ 0 <= due[c][t] /\ due[c][t] <= kept[t]
      /\ \A c \in Caller : /\ PodOf[c] \in Pod /\ began[c] \in Int
                           /\ 0 <= began[c] /\ began[c] <= Now(c) /\ Now(c) \in Int
  BY KeptTypes
<1>1. clock' \in [Pod -> Int] /\ \A p \in Pod : clock[p] <= clock'[p]
  BY <1>0, ClockKept
<1>2. ASSUME NEW n \in Int, Reached(n, clock)
      PROVE  Reached(n, clock')
  BY <1>0, <1>1, <1>2, ReachedLater
<1>3. Reached(0, clock)
  BY <1>0, ClockType, SlackType DEF Reached
<1>4. ASSUME NEW c \in Caller
      PROVE  Reached(began[c], clock)
  <2>1. Reached(Now(c), clock)
    BY <1>0, ReachedNow DEF Now
  <2>. QED
    BY <1>0, <2>1, ReachedLater
<1>5. ASSUME NEW t \in Tag
      PROVE  /\ kept'[t] \in Int /\ 0 <= kept'[t]
             /\ Reached(kept'[t], clock')
             /\ ~Undone(t) => kept[t] <= kept'[t]
  <2>1. Reached(kept[t], clock)
    BY DEF KeptInv, KeptReached
  <2>2. \/ Undone(t) /\ kept'[t] = 0
        \/ kept'[t] = kept[t]
        \/ \E c \in Caller : kept[t] <= began[c] /\ kept'[t] = began[c]
    BY KeptChanges
  <2>. QED
    BY <1>0, <1>2, <1>3, <1>4, <2>1, <2>2
<1>6. ASSUME NEW c \in Caller, NEW t \in Tag
      PROVE  due'[c][t] \in 0..kept'[t]
  <2>1. \/ due'[c][t] = 0
        \/ ~Undone(t) /\ due'[c][t] = due[c][t]
        \/ ~Undone(t) /\ due'[c][t] = kept[t]
    BY DueChanges
  <2>. QED
    BY <1>0, <1>5, <2>1
<1>. QED
  BY <1>5, <1>6 DEF KeptReached

-----------------------------------------------------------------------------
(* The records, wherever they are.                                         *)

\* A call of updateTags that writes hands on what it has read.
LEMMA BatchHolds ==
    ASSUME KeptInv, NEW c \in Caller, UpdateWrite(c),
           NEW t \in Tag, NEW n \in Int, n <= Now(c) + Ahead
    PROVE  /\ (Holds(reply[c].records[t], n, clock)
                /\ Batch(c).items[t] \in TagRecord) =>
                 Holds(Batch(c).items[t], n, clock)
           /\ call[c].duration = Hard => Holds(Batch(c).items[t], n, clock)
<1>0. /\ HandlerTypeOK /\ PodOf[c] \in Pod /\ Now(c) \in Int
  BY KeptTypes
<1>1. reply[c] \in TagReply /\ call[c].pc = "update_read"
  BY DEF UpdateWrite
<1>2. reply[c].records[t] \in StoredRecord
  BY <1>1 DEF TagReply
<1>3. call[c].duration \in Duration
  BY <1>0, <1>1, DurationAssumption DEF HandlerTypeOK, Call
<1>4. /\ Round(Now(c)) \in Int /\ Reached(Round(Now(c)), clock)
      /\ n - Slack <= Round(Now(c))
  BY <1>0, RoundNow DEF Now
<1>5. Batch(c).items[t] = Bumped(reply[c].records[t], Round(Now(c)), call[c].duration)
  BY DEF Batch
<1>. QED
  BY <1>2, <1>3, <1>4, <1>5, BumpedHolds

\* The clocks of a step, and what has been reached by them.
LEMMA StaysHeld ==
    ASSUME StandingInv, INext, NEW stored, NEW n, Holds(stored, n, clock)
    PROVE  Holds(stored, n, clock')
<1>1. clock \in [Pod -> Int]
  BY ClockType DEF StandingInv, ITypeOK, TypeOK
<1>2. clock' \in [Pod -> Int] /\ \A p \in Pod : clock[p] <= clock'[p]
  BY ClockKept
<1>. QED
  BY <1>1, <1>2, HoldsLater

\* What is kept of a tag stays in its record.
LEMMA HoldStep ==
    ASSUME KeptInv, INext, RecordKept
    PROVE  RecordsHold'
<1>0. StandingInv /\ RecordsHold /\ BumpsHold
  BY DEF KeptInv
<1>. SUFFICES ASSUME NEW t \in Tag, kept'[t] > 0
              PROVE  Holds(records'[t], kept'[t], clock)
  BY <1>0, StaysHeld DEF RecordsHold
<1>1. CASE Undone(t) /\ kept'[t] = 0
  BY <1>1
<1>2. CASE ~Undone(t) /\ kept'[t] = kept[t]
  <2>1. Holds(records[t], kept[t], clock)
    BY <1>0, <1>2 DEF RecordsHold
  <2>2. records'[t] = records[t] \/ records'[t] \in TagRecord
    BY <1>2 DEF Undone, Readable
  <2>3. records[t] # None /\ None \notin TagRecord
    BY <2>1, SentinelAssumption DEF Holds
  <2>4. records'[t] = records[t]
        \/ \E p \in Pod : \E command \in Commands(p) :
              /\ command.kind = "set_tags" /\ t \in command.tags
              /\ records'[t] = command.items[t]
    BY <1>0, <2>2, <2>3, RecordChanges
  <2>. QED
    BY <1>0, <1>2, <2>1, <2>2, <2>4 DEF BumpsHold
<1>3. ASSUME NEW c \in Caller, Returns(c), call[c].duration = Hard,
             t \in call[c].tags, c \notin contended, kept'[t] = began[c]
      PROVE  Holds(records'[t], kept'[t], clock)
  <2>1. UNCHANGED records
    BY <1>0, <1>3, ReturnStep
  <2>2. Holds(records[t], began[c], clock)
    BY <1>3, ReturnAlone
  <2>. QED
    BY <1>3, <2>1, <2>2
<1>. QED
  BY <1>1, <1>2, <1>3, KeptChanges

\* Every record on its way hands it on.
LEMMA BumpStep ==
    ASSUME KeptInv, INext, RecordKept
    PROVE  BumpsHold'
<1>0. /\ StandingInv /\ BumpsHold /\ ReadsHold /\ KeptReached
      /\ clock \in [Pod -> Int]
      /\ \A w \in Tag : kept[w] \in Int
      /\ \A c \in Caller : PodOf[c] \in Pod /\ Now(c) \in Int
  BY KeptTypes DEF KeptInv
<1>. SUFFICES ASSUME NEW p \in Pod, NEW command \in Commands(p)',
                     command.kind = "set_tags", NEW t \in command.tags,
                     kept'[t] > 0, command.items[t] \in TagRecord
              PROVE  Holds(command.items[t], kept'[t], clock)
  BY <1>0, StaysHeld DEF BumpsHold
<1>1. t \in Tag
  <2>1. MemcachedTypeOK'
    BY <1>0, INextType DEF StandingInv, ITypeOK, TypeOK
  <2>2. command \in Command
    BY <2>1 DEF MemcachedTypeOK, Commands
  <2>. QED
    BY <2>2 DEF Command
<1>2. CASE ~Undone(t) /\ kept'[t] = kept[t]
  <2>1. ASSUME NEW old \in Commands(p), From(command, old)
        PROVE  Holds(command.items[t], kept[t], clock)
    BY <1>0, <1>2, <2>1 DEF From, BumpsHold
  <2>2. ASSUME NEW c \in Caller, UpdateWrite(c), command = Batch(c)
        PROVE  Holds(command.items[t], kept[t], clock)
    <3>1. /\ t \in call[c].tags /\ call[c].pc = "update_read"
          /\ reply[c] \in TagReply
      BY <2>2 DEF Batch, UpdateWrite
    <3>2. Holds(reply[c].records[t], kept[t], clock)
      BY <1>0, <1>1, <1>2, <3>1 DEF ReadsHold
    <3>3. kept[t] <= Now(c) + Ahead
      BY <1>0, <1>1 DEF KeptReached, Reached, Now
    <3>. QED
      BY <1>0, <1>1, <2>2, <3>2, <3>3, BatchHolds
  <2>. QED
    BY <1>0, <1>2, <2>1, <2>2, BatchSource
<1>3. ASSUME NEW c \in Caller, Returns(c), call[c].duration = Hard,
             t \in call[c].tags, c \notin contended
      PROVE  FALSE
  <2>1. UNCHANGED sent
    BY <1>0, <1>3, ReturnStep
  <2>2. command \in Commands(p)
    BY <2>1 DEF Commands
  <2>. QED
    BY <1>3, <2>2, ReturnAlone
<1>. QED
  BY <1>1, <1>2, <1>3, KeptChanges

\* Whoever has read the record of a tag has read what is kept of it, or what
\* was when its get() began.
LEMMA ReadStep ==
    ASSUME KeptInv, INext, RecordKept
    PROVE  ReadsHold'
<1>0. /\ StandingInv /\ ReadsHold /\ RecordsHold
      /\ \A w \in Tag : kept[w] \in Int
      /\ \A c \in Caller, w \in Tag : due[c][w] \in Int /\ due[c][w] <= kept[w]
      /\ \A c \in Caller : call[c].tags \in SUBSET Tag
  BY KeptTypes DEF KeptInv
<1>. SUFFICES ASSUME NEW c \in Caller, reply'[c] \in TagReply
              PROVE  /\ call'[c].pc = "update_read" =>
                           \A t \in call'[c].tags : kept'[t] > 0 =>
                              Holds(reply'[c].records[t], kept'[t], clock)
                     /\ call'[c].pc = "get_tags" =>
                           \A t \in Tag : due'[c][t] > 0 =>
                              Holds(reply'[c].records[t], due'[c][t], clock)
  BY <1>0, StaysHeld DEF ReadsHold
<1>1. \/ /\ reply'[c] = reply[c]
         /\ call'[c].pc = call[c].pc /\ call'[c].tags = call[c].tags
      \/ reply'[c] = [records |-> records] /\ UNCHANGED call
      \/ call'[c].pc \notin {"update_read", "get_tags"}
  BY <1>0, ReplySource
<1>2. ASSUME call'[c].pc = "update_read", NEW t \in call'[c].tags, kept'[t] > 0
      PROVE  Holds(reply'[c].records[t], kept'[t], clock)
  <2>1. call[c].pc = "update_read" /\ t \in call[c].tags /\ t \in Tag
    BY <1>0, <1>1, <1>2
  <2>2. CASE ~Undone(t) /\ kept'[t] = kept[t]
    BY <1>0, <1>1, <1>2, <2>1, <2>2 DEF ReadsHold, RecordsHold
  <2>3. ASSUME NEW d \in Caller, Returns(d), call[d].duration = Hard,
               t \in call[d].tags, d \notin contended
        PROVE  FALSE
    <3>1. c # d /\ Updating(c)
      BY <2>1, <2>3 DEF Returns, Moves, Updating
    <3>. QED
      BY <2>1, <2>3, <3>1, ReturnAlone
  <2>. QED
    BY <1>2, <2>1, <2>2, <2>3, KeptChanges
<1>3. ASSUME call'[c].pc = "get_tags", NEW t \in Tag, due'[c][t] > 0
      PROVE  Holds(reply'[c].records[t], due'[c][t], clock)
  <2>1. due'[c][t] = due[c][t]
    BY <1>3, DueChanges
  <2>2. CASE reply'[c] = reply[c] /\ call'[c].pc = call[c].pc
    BY <1>0, <1>3, <2>1, <2>2 DEF ReadsHold
  <2>3. CASE reply'[c] = [records |-> records]
    <3>1. kept[t] > 0 /\ Holds(records[t], kept[t], clock)
      BY <1>0, <1>3, <2>1 DEF RecordsHold
    <3>2. Holds(records[t], due[c][t], clock)
      BY <1>0, <3>1, HoldsEarlier
    <3>. QED
      BY <2>1, <2>3, <3>2
  <2>. QED
    BY <1>1, <1>3, <2>2, <2>3
<1>. QED
  BY <1>2, <1>3

-----------------------------------------------------------------------------
(* The record of a hard call, until it returns.                            *)

\* A call that goes on began when it did.
LEMMA BeganStays ==
    ASSUME RecordCall, NEW c \in Caller, call'[c].pc = "update_write"
    PROVE  began'[c] = began[c]
BY DEF RecordCall, Moves

\* A hard batch is what its call made of it.
LEMMA HardStep ==
    ASSUME KeptInv, INext, RecordCall
    PROVE  HardBatches'
<1>0. /\ StandingInv /\ AwaitInv /\ HardBatches /\ TypeOK
      /\ call \in [Caller -> Locals]
      /\ \A c \in Caller : /\ began[c] \in Int /\ Now(c) \in Int
                           /\ began[c] <= Now(c) /\ c # None
                           /\ call[c].tags \in SUBSET Tag
  BY KeptTypes DEF KeptInv
<1>1. AwaitInv'
  BY <1>0, AwaitStep
<1>. SUFFICES ASSUME NEW p \in Pod, NEW command \in Commands(p)', NEW c \in Caller,
                     command.by = c, call'[c].duration = Hard,
                     call'[c].pc = "update_write", NEW t \in command.tags
              PROVE  Holds(command.items[t], began[c], clock)
  BY <1>0, BeganStays, StaysHeld DEF HardBatches
<1>2. command.kind = "set_tags"
  <2>1. PICK i \in DOMAIN sent'[p] : command = sent'[p][i]
    BY DEF Commands
  <2>2. Suits(command, call'[c])
    BY <1>0, <1>1, <2>1 DEF AwaitInv, Suits
  <2>. QED
    BY <2>2 DEF Suits
<1>3. \/ UpdateWrite(c)
      \/ call[c].pc = "update_write" /\ call'[c].duration = call[c].duration
  BY <1>0, UpdaterStep
<1>4. ASSUME NEW old \in Commands(p), From(command, old)
      PROVE  Holds(command.items[t], began[c], clock)
  <2>1. /\ old.by = c /\ t \in old.tags
        /\ command.items[t] = old.items[t]
    BY <1>0, <1>2, <1>4 DEF From
  <2>2. reply[c] = NoReply
    BY <1>0, <2>1 DEF AwaitInv, Commands
  <2>3. ~UpdateWrite(c)
    BY <2>2, ReplyAssumption DEF UpdateWrite
  <2>. QED
    BY <1>0, <1>3, <2>1, <2>3 DEF HardBatches
<1>5. ASSUME NEW d \in Caller, UpdateWrite(d), command = Batch(d)
      PROVE  Holds(command.items[t], began[c], clock)
  <2>1. c = d /\ t \in call[c].tags
    BY <1>5 DEF Batch
  <2>2. t \in Tag
    BY <1>0, <2>1
  <2>3. call[c].duration = Hard
    <3>1. call'[c].duration = call[c].duration
      BY <1>0, <1>5, <2>1 DEF UpdateWrite
    <3>. QED
      BY <3>1
  <2>4. began[c] <= Now(c) + Ahead
    BY <1>0, SlackType
  <2>. QED
    BY <1>0, <1>5, <2>1, <2>2, <2>3, <2>4, BatchHolds
<1>. QED
  BY <1>0, <1>2, <1>4, <1>5, BatchSource

\* Unless another call meddles, it is stored in the end, or the call fails.
LEMMA WriteStep ==
    ASSUME KeptInv, INext, RecordCall, RecordKept
    PROVE  HardWritten'
<1>0. /\ StandingInv /\ AwaitInv /\ TypeOK /\ HardBatches /\ HardWritten
      /\ call \in [Caller -> Locals] /\ sent \in [Pod -> Seq(Command)]
      /\ \A c \in Caller : c # None /\ PodOf[c] \in Pod
  BY KeptTypes DEF KeptInv, MemcachedTypeOK
<1>. SUFFICES ASSUME NEW c \in Caller, call'[c].pc = "update_write",
                     call'[c].duration = Hard, c \notin contended',
                     NEW t \in call'[c].tags
              PROVE  \/ StillSent(c, t)'
                     \/ reply'[c] = Error
                     \/ Holds(records'[t], began[c], clock)
  BY <1>0, BeganStays, StaysHeld DEF HardWritten
<1>1. /\ c \notin contended
      /\ \A w \in call[c].tags : ~Undone(w)
  BY DEF RecordKept, Updating
<1>2. CASE UpdateWrite(c)
  <2>1. t \in call[c].tags
    <3>1. call'[c].tags = call[c].tags
      BY <1>0, <1>2 DEF UpdateWrite
    <3>. QED
      BY <3>1
  <2>2. Batch(c).by = c /\ t \in Batch(c).tags
    BY <2>1 DEF Batch
  <2>3. Batch(c) \in Command
    BY <1>0, <1>2, BatchType
  <2>4. sent' = [sent EXCEPT ![PodOf[c]] = Append(@, Batch(c))]
    BY <1>2 DEF UpdateWrite, Batch, Send
  <2>. DEFINE p == PodOf[c]
  <2>5. Batch(c) \in Commands(p)'
    <3>1. sent'[p] = Append(sent[p], Batch(c)) /\ sent[p] \in Seq(Command)
      BY <1>0, <2>4
    <3>2. /\ Len(sent[p]) + 1 \in DOMAIN sent'[p]
          /\ sent'[p][Len(sent[p]) + 1] = Batch(c)
      BY <2>3, <3>1
    <3>. QED
      BY <3>2 DEF Commands
  <2>6. \E command \in Commands(p)' : command.by = c /\ t \in command.tags
    BY <2>2, <2>5
  <2>. QED
    BY <1>0, <2>6 DEF StillSent
<1>3. CASE /\ call[c].pc = "update_write" /\ call'[c].tags = call[c].tags
           /\ call'[c].duration = call[c].duration
  <2>1. t \in call[c].tags /\ t \in Tag /\ ~Undone(t)
    BY <1>1, <1>3, KeptTypes
  <2>2. \/ StillSent(c, t) \/ reply[c] = Error \/ Holds(records[t], began[c], clock)
    BY <1>0, <1>1, <1>3 DEF HardWritten
  <2>3. ASSUME NEW p \in Pod, Lands(p, t), Head(sent[p]).by = c
        PROVE  Holds(records'[t], began[c], clock)
    <3>1. /\ Head(sent[p]) \in Commands(p) /\ t \in Head(sent[p]).tags
      BY <1>0, <2>1, <2>3, LandsType DEF StandingInv
    <3>2. records'[t] = Head(sent[p]).items[t]
      <4>1. records' = [records EXCEPT ![t] = Head(sent[p]).items[t]]
        BY <2>3 DEF Lands, ExecSetTag
      <4>2. records \in [Tag -> StoredRecord]
        BY KeptTypes
      <4>. QED
        BY <2>1, <4>1, <4>2
    <3>. QED
      BY <1>0, <1>3, <2>3, <3>1, <3>2 DEF HardBatches
  <2>4. CASE StillSent(c, t)
    BY <1>0, <1>3, <2>3, <2>4, SentStep, <2>1
  <2>5. CASE reply[c] = Error
    BY <1>0, <1>3, <2>5, ErrorStays
  <2>6. CASE Holds(records[t], began[c], clock)
    <3>1. records[t] # None /\ None \notin TagRecord
      BY <2>6, SentinelAssumption DEF Holds
    <3>2. ~Rivalled(c)
      BY <1>1, <1>3 DEF KeptInv, Uncontended, Updating
    <3>3. ASSUME NEW p \in Pod, Lands(p, t), Head(sent[p]) \in Commands(p),
                 Head(sent[p]).kind = "set_tags", t \in Head(sent[p]).tags
          PROVE  Head(sent[p]).by = c
      BY <2>1, <3>2, <3>3 DEF Rivalled
    <3>4. records'[t] # None \/ records'[t] = records[t]
      BY <2>1, <3>1 DEF Undone, Readable
    <3>5. records'[t] = records[t] \/ Holds(records'[t], began[c], clock)
      BY <1>0, <2>1, <2>3, <3>1, <3>3, <3>4, RecordChanges
    <3>. QED
      BY <2>6, <3>5
  <2>. QED
    BY <2>2, <2>4, <2>5, <2>6
<1>. QED
  BY <1>0, <1>2, <1>3, UpdaterStep

-----------------------------------------------------------------------------
(* What a get() serves.                                                    *)

\* A get() that is not a miss has respected what it was due, unless it finds
\* the record ahead of its clock.
LEMMA CheckKeeps ==
    ASSUME KeptInv, NEW c \in Caller, GetCheck(c), NEW result,
           result = Verdict(call[c].entry, call[c].tags, reply[c].records, Now(c)),
           result \in {"fresh", "stale"}, NEW t \in Concerned(c)
    PROVE  \/ call[c].entry.timestamp >= due[c][t] - Slack
           \/ StampedAhead(c, t)
           \/ result = "stale" /\ PutOff(c, t, due[c][t])
<1>. DEFINE stored == reply[c].records[t]
            timestamp == call[c].entry.timestamp
            n == due[c][t] - Slack
<1>1. call[c].pc = "get_tags" /\ reply[c] \in TagReply
  BY DEF GetCheck
<1>2. t \in call[c].tags
  BY <1>1 DEF KeptInv, StandingInv, TagsChecked
<1>3. t \in Tag /\ Now(c) \in Int /\ PodOf[c] \in Pod
  BY <1>2, KeptTypes
<1>4. due[c][t] \in Int /\ 0 <= due[c][t] /\ n \in Int /\ n <= due[c][t]
  BY <1>3, KeptTypes, SlackType
<1>5. timestamp \in Int /\ 0 <= timestamp
  BY <1>1, KeptTypes DEF HandlerTypeOK, Call, Entry
<1>6. /\ ~IsHardExpired(ReadAs(stored, Now(c)), timestamp, Now(c))
      /\ result = "fresh" => ~IsSoftStale(ReadAs(stored, Now(c)), timestamp)
  BY <1>2 DEF Verdict
<1>7. CASE due[c][t] > 0
  <2>1. Holds(stored, due[c][t], clock)
    BY <1>1, <1>3, <1>7 DEF KeptInv, ReadsHold
  <2>2. /\ stored \in TagRecord /\ stored.expired \in Int /\ n <= stored.expired
        /\ \/ Reached(stored.expired, clock)
           \/ stored.stale \in Int /\ n <= stored.stale
    BY <2>1 DEF Holds
  <2>3. ReadAs(stored, Now(c)) = stored /\ Readable(stored) /\ stored.expired # None
    BY <2>2, NoneAssumption DEF ReadAs, Readable
  <2>4. CASE stored.expired <= Now(c)
    <3>. HIDE DEF stored, timestamp, n
    <3>1. stored.expired <= timestamp
      BY <1>3, <1>5, <1>6, <2>2, <2>3, <2>4 DEF IsHardExpired
    <3>2. timestamp >= n
      BY <1>4, <1>5, <2>2, <3>1
    <3>. QED
      BY <3>2 DEF timestamp, n
  <2>5. CASE Now(c) < stored.expired /\ Reached(stored.expired, clock)
    <3>1. stored.expired <= Now(c) + Ahead
      BY <1>3, <2>5 DEF Reached, Now
    <3>. QED
      BY <2>3, <2>5, <3>1 DEF StampedAhead
  <2>6. CASE Now(c) < stored.expired /\ stored.stale \in Int /\ n <= stored.stale
    <3>1. stored.stale # None
      BY <2>6, NoneAssumption
    <3>2. CASE result = "stale"
      BY <2>3, <2>6, <3>1, <3>2 DEF PutOff
    <3>3. CASE result = "fresh"
      <4>. HIDE DEF stored, timestamp, n
      <4>1. stored.stale <= timestamp
        BY <1>5, <1>6, <2>3, <2>6, <3>1, <3>3 DEF IsSoftStale
      <4>2. timestamp >= n
        BY <1>4, <1>5, <2>6, <4>1
      <4>. QED
        BY <4>2 DEF timestamp, n
    <3>. QED
      BY <3>2, <3>3
  <2>. QED
    BY <1>3, <2>2, <2>4, <2>5, <2>6
<1>8. CASE ~(due[c][t] > 0)
  <2>1. timestamp >= n
    BY <1>4, <1>5, <1>8, SlackType
  <2>. QED
    BY <2>1
<1>. QED
  BY <1>7, <1>8

\* Only the last step of a get() that has read the tags finds an entry usable.
LEMMA UsableStep ==
    ASSUME KeptInv, INext, NEW c \in Caller, FindsUsable(c)
    PROVE  /\ GetCheck(c)
           /\ call'[c].result = Verdict(call[c].entry, call[c].tags,
                                        reply[c].records, Now(c))
<1>0. /\ TypeOK /\ StandingInv /\ call \in [Caller -> Locals]
      /\ call[c].pc = "get_tags" /\ call'[c].pc = "get_done"
      /\ call'[c].result \in {"fresh", "stale"}
  BY KeptTypes DEF FindsUsable
<1>1. GetMiss(c) \/ GetUntagged(c) \/ GetCheck(c) \/ GetFail(c)
  <2>1. PICK d \in Caller : \/ StartGet(d) \/ StartSet(d) \/ StartUpdate(d)
                            \/ Step(d) \/ GetEnd(d)
    BY <1>0, Kinds
  <2>2. c = d
    BY <1>0, <2>1, OthersStep
  <2>. QED
    BY <1>0, <2>1, <2>2, OwnStep
<1>2. ASSUME NEW entry, NEW result, Return(c, entry, result)
      PROVE  call'[c].result = result
  <2>1. [Idle EXCEPT !.pc = "get_done", !.entry = entry,
                     !.result = result].result = result
    BY DEF Idle
  <2>. QED
    BY <1>0, <1>2, <2>1 DEF Return
<1>3. GetCheck(c)
  <2>1. ~GetMiss(c) /\ ~GetUntagged(c)
    BY <1>0 DEF GetMiss, GetUntagged, Found
  <2>2. ~GetFail(c)
    BY <1>0, <1>2 DEF GetFail
  <2>. QED
    BY <1>1, <2>1, <2>2
<1>4. call'[c].result = Verdict(call[c].entry, call[c].tags, reply[c].records, Now(c))
  <2>. DEFINE verdict == Verdict(call[c].entry, call[c].tags, reply[c].records,
                                 Now(c))
  <2>1. Return(c, IF verdict = "miss" THEN None ELSE call[c].entry, verdict)
    BY <1>3 DEF GetCheck
  <2>. HIDE DEF verdict
  <2>2. call'[c].result = verdict
    BY <1>2, <2>1
  <2>. QED
    BY <2>2 DEF verdict
<1>. QED
  BY <1>3, <1>4

-----------------------------------------------------------------------------
(* The theorem.                                                            *)

\* Where no updateTags has returned, nothing is kept.
LEMMA KeptInit == KInit => KeptInv
<1>. SUFFICES ASSUME KInit PROVE KeptInv
  OBVIOUS
<1>. USE DEF KInit, RInit, IInit, Init, MemcachedInit
<1>1. StandingInv
  BY StandingInit
<1>2. AwaitInv /\ BeganInPast
  BY PodAssumption DEF AwaitInv, BeganInPast, Now
<1>3. KeptReached
  BY HandlerAssumption, SlackType DEF KeptReached, Never, Reached
<1>4. \A c \in Caller : call[c].pc = "idle"
  BY DEF Idle
<1>5. RecordsHold /\ BumpsHold /\ HardBatches
  BY DEF RecordsHold, BumpsHold, HardBatches, Commands, Never
<1>6. ReadsHold /\ Uncontended /\ HardWritten
  BY <1>4 DEF ReadsHold, Uncontended, Updating, HardWritten
<1>. QED
  BY <1>1, <1>2, <1>3, <1>5, <1>6 DEF KeptInv

\* The invariant is inductive.
LEMMA KeptStep == KeptInv /\ [INext /\ RecordCall /\ RecordKept]_kvars => KeptInv'
<1>1. ASSUME KeptInv, INext, RecordCall, RecordKept
      PROVE  KeptInv'
  <2>1. StandingInv'
    BY <1>1, StandingStep DEF KeptInv
  <2>2. AwaitInv'
    BY <1>1, AwaitStep DEF KeptInv, StandingInv, ITypeOK
  <2>3. BeganInPast'
    BY <1>1, BeganStep DEF KeptInv
  <2>4. KeptReached'
    BY <1>1, ReachedStep
  <2>5. RecordsHold' /\ BumpsHold' /\ ReadsHold'
    BY <1>1, HoldStep, BumpStep, ReadStep
  <2>6. Uncontended'
    BY <1>1 DEF RecordKept, Uncontended
  <2>7. HardBatches' /\ HardWritten'
    BY <1>1, HardStep, WriteStep
  <2>. QED
    BY <2>1, <2>2, <2>3, <2>4, <2>5, <2>6, <2>7 DEF KeptInv
<1>2. ASSUME KeptInv, UNCHANGED kvars
      PROVE  KeptInv'
  <2>1. UNCHANGED ivars /\ UNCHANGED rvars
    BY <1>2 DEF kvars, rvars
  <2>2. StandingInv' /\ AwaitInv'
    BY <1>2, <2>1, StandingStep, AwaitStep DEF KeptInv, StandingInv, ITypeOK
  <2>3. BeganInPast'
    BY <1>2, <2>1 DEF KeptInv, BeganInPast, Now, rvars, ivars, vars, handlerVars
  <2>4. KeptReached'
    BY <1>2, <2>1 DEF KeptInv, KeptReached, kvars, rvars, ivars, vars, handlerVars
  <2>5. RecordsHold' /\ BumpsHold' /\ ReadsHold' /\ HardBatches'
    BY <1>2, <2>1 DEF KeptInv, RecordsHold, BumpsHold, ReadsHold, HardBatches,
                      Commands, kvars, rvars, ivars, vars, handlerVars,
                      memcachedVars
  <2>6. Uncontended' /\ HardWritten'
    BY <1>2, <2>1 DEF KeptInv, Uncontended, Updating, Rivalled, HardWritten,
                      StillSent, Commands, kvars, rvars, ivars, vars, handlerVars,
                      memcachedVars
  <2>. QED
    BY <2>2, <2>3, <2>4, <2>5, <2>6 DEF KeptInv
<1>. QED
  BY <1>1, <1>2

\* The inductive invariant holds: a hard invalidation that returned alone is
\* in its record, or put off by it, in every record on its way that will
\* replace it, and in what every updateTags that is going to write has read
\* (bumpTags).
THEOREM KeptEverywhere == KSpec => []KeptInv
<1>. QED
  BY KeptInit, KeptStep, PTL DEF KSpec

\* No soft invalidation, nor any race of them, makes a get() serve an entry
\* that a hard one which returned uncontended before it began has expired,
\* unless the record was lost or given an `expire` that is still to come, and
\* in this case only as stale: with any durations and any clocks, less the
\* slack these cost.
THEOREM HardKept == KSpec => HardInvalidationKept
<1>. DEFINE Kept1 ==
              \A c \in Caller : FindsUsable(c) =>
                 \A t \in Concerned(c) :
                    \/ call[c].entry.timestamp >= due[c][t] - Slack
                    \/ StampedAhead(c, t)
                    \/ call'[c].result = "stale" /\ PutOff(c, t, due[c][t])
<1>1. KeptInv /\ [INext /\ RecordCall /\ RecordKept]_kvars => Kept1
  <2>. SUFFICES ASSUME KeptInv, [INext /\ RecordCall /\ RecordKept]_kvars,
                       NEW c \in Caller, FindsUsable(c), NEW t \in Concerned(c)
                PROVE  \/ call[c].entry.timestamp >= due[c][t] - Slack
                       \/ StampedAhead(c, t)
                       \/ call'[c].result = "stale" /\ PutOff(c, t, due[c][t])
    OBVIOUS
  <2>1. INext
    BY DEF FindsUsable, kvars, rvars, ivars, vars, handlerVars
  <2>2. /\ GetCheck(c) /\ call'[c].result \in {"fresh", "stale"}
        /\ call'[c].result = Verdict(call[c].entry, call[c].tags,
                                     reply[c].records, Now(c))
    BY <2>1, UsableStep DEF FindsUsable
  <2>. QED
    BY <2>2, CheckKeeps
<1>2. KSpec => [][Kept1]_kvars
  BY <1>1, KeptEverywhere, PTL DEF KSpec
<1>. QED
  BY <1>2 DEF HardInvalidationKept

=============================================================================
