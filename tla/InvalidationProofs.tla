------------------------- MODULE InvalidationProofs -------------------------
(***************************************************************************)
(* With a clock of whole milliseconds, a get() never returns as fresh an   *)
(* entry that an invalidation standing when it began has invalidated: for  *)
(* any number of pods, callers, keys and tags, and any faults.             *)
(***************************************************************************)
EXTENDS Invalidation, CacheHandlerProofs

-----------------------------------------------------------------------------
(* Records and what they cover.                                            *)

\* The clocks show whole instants, no earlier than the epoch.
LEMMA ClockType ==
    ASSUME HandlerTypeOK
    PROVE  /\ clock \in [Pod -> Int]
           /\ \A p \in Pod : 0 <= clock[p]
BY HandlerAssumption DEF HandlerTypeOK, Clocks

\* How far stamps are apart, whatever rounding adds or takes off.
LEMMA SlackType ==
    /\ Ahead \in Nat /\ Slack \in Nat /\ Ahead <= Slack
    /\ Sub = 1 /\ Skew = 0 => Ahead = 0 /\ Slack = 0
BY SubAssumption, HandlerAssumption DEF Ahead, Slack

\* The time of one pod is within the skew of every other's.
LEMMA ReachedNow ==
    ASSUME HandlerTypeOK, NEW p \in Pod
    PROVE  Reached(clock[p], clock)
BY ClockType, SubAssumption, HandlerAssumption DEF HandlerTypeOK, Clocks, Reached, Ahead

\* What has been reached stays reached, and so is all that is earlier.
LEMMA ReachedLater ==
    ASSUME NEW m \in Int, NEW n \in Int, m <= n,
           NEW time \in [Pod -> Int], NEW later \in [Pod -> Int],
           \A p \in Pod : time[p] <= later[p],
           Reached(n, time)
    PROVE  Reached(m, later)
BY SlackType DEF Reached

\* A record goes on covering what it covers, and covers all that is older.
LEMMA CoversLater ==
    ASSUME NEW stored, NEW m \in Int, NEW n \in Int, m <= n,
           NEW time \in [Pod -> Int], NEW later \in [Pod -> Int],
           \A p \in Pod : time[p] <= later[p],
           Covers(stored, n, time)
    PROVE  Covers(stored, m, later)
<1>1. CASE stored \notin TagRecord
  BY <1>1 DEF Covers
<1>2. CASE stored \in TagRecord /\ stored.stale \in Int /\ n <= stored.stale
  BY <1>2 DEF Covers
<1>3. CASE /\ stored \in TagRecord
           /\ stored.expired \in Int /\ n <= stored.expired
           /\ Reached(stored.expired, time)
  <2>1. Reached(stored.expired, later)
    BY <1>3, ReachedLater
  <2>. QED
    BY <1>3, <2>1 DEF Covers
<1>. QED
  BY <1>1, <1>2, <1>3 DEF Covers

\* Time does not go back on any pod.
LEMMA TickClock ==
    ASSUME HandlerTypeOK, Tick
    PROVE  /\ clock' \in [Pod -> Int]
           /\ \A p \in Pod : clock[p] <= clock'[p]
<1>1. clock' \in [Pod -> Int]
  BY HandlerAssumption DEF Tick, Clocks
<1>. QED
  BY <1>1, ClockType DEF Tick

\* What a quotient is.
LEMMA Quotient ==
    ASSUME NEW n \in Int, NEW d \in Nat \ {0}
    PROVE  /\ n \div d \in Int
           /\ d * (n \div d) <= n
           /\ n < d * (n \div d) + d
OBVIOUS

\* Math.round adds at most half a millisecond, and takes off less than that.
LEMMA RoundNear ==
    ASSUME NEW time \in Int
    PROVE  /\ Round(time) \in Int
           /\ Round(time) <= time + Sub \div 2
           /\ time <= Round(time) + (Sub - 1) \div 2
<1>. DEFINE quotient == (2 * time + Sub) \div (2 * Sub)
            rounded == Sub * quotient
<1>1. Sub \in Nat /\ Sub > 0
  BY SubAssumption
<1>2. /\ quotient \in Int
      /\ (2 * Sub) * quotient <= 2 * time + Sub
      /\ 2 * time + Sub < (2 * Sub) * quotient + 2 * Sub
  <2>1. 2 * time + Sub \in Int /\ 2 * Sub \in Nat \ {0}
    BY <1>1
  <2>. QED
    BY <2>1, Quotient
<1>. HIDE DEF quotient
<1>3. rounded \in Int /\ (2 * Sub) * quotient = 2 * rounded
  BY <1>1, <1>2
<1>4. 2 * rounded <= 2 * time + Sub /\ 2 * time < 2 * rounded + Sub
  BY <1>1, <1>2, <1>3
<1>. HIDE DEF rounded
<1>5. Round(time) = rounded
  BY DEF Round, rounded, quotient
<1>. QED
  BY <1>1, <1>3, <1>4, <1>5

\* It is the identity on whole milliseconds.
LEMMA RoundWhole ==
    ASSUME Sub = 1, NEW time \in Int
    PROVE  Round(time) = time
BY RoundNear

\* The stamp an updateTags takes of the present is one stamps may have, and
\* behind no other by more than the slack.
LEMMA RoundNow ==
    ASSUME HandlerTypeOK, NEW p \in Pod
    PROVE  /\ Round(clock[p]) \in Int
           /\ Reached(Round(clock[p]), clock)
           /\ \A n \in Int : n <= clock[p] + Ahead => n - Slack <= Round(clock[p])
<1>1. /\ clock \in [Pod -> Int] /\ Skew \in Nat /\ Sub \in Nat \ {0}
      /\ \A q \in Pod : clock[p] <= clock[q] + Skew
  BY ClockType, SubAssumption, HandlerAssumption DEF HandlerTypeOK, Clocks
<1>2. /\ Round(clock[p]) \in Int
      /\ Round(clock[p]) <= clock[p] + Sub \div 2
      /\ clock[p] <= Round(clock[p]) + (Sub - 1) \div 2
  BY <1>1, RoundNear
<1>3. Reached(Round(clock[p]), clock)
  BY <1>1, <1>2 DEF Reached, Ahead
<1>4. \A n \in Int : n <= clock[p] + Ahead => n - Slack <= Round(clock[p])
  BY <1>1, <1>2 DEF Ahead, Slack
<1>. QED
  BY <1>2, <1>3, <1>4

\* What bumpTags stores covers the instant it is stamped with.
LEMMA BumpedCovers ==
    ASSUME NEW stored \in StoredRecord, NEW now \in Int,
           NEW duration \in Duration, NEW time, Reached(now, time)
    PROVE  /\ Bumped(stored, now, duration) # None
           /\ Covers(Bumped(stored, now, duration), now, time)
<1>. DEFINE record == IF Readable(stored) THEN stored ELSE EmptyRecord
<1>1. record \in TagRecord
  BY DEF Readable, EmptyRecord, TagRecord
<1>2. CASE duration = Hard
  <2>. DEFINE bumped == [record EXCEPT !.expired = now]
  <2>0. Bumped(stored, now, duration) = bumped
    BY <1>2, DurationAssumption DEF Bumped
  <2>. HIDE DEF record
  <2>1. bumped \in TagRecord /\ bumped.expired = now
    BY <1>1 DEF TagRecord
  <2>2. Covers(bumped, now, time) /\ bumped # None
    <3>. HIDE DEF bumped
    <3>. QED
      BY <2>1, SentinelAssumption DEF Covers
  <2>. QED
    BY <2>0, <2>2
<1>3. CASE duration = NoExpire
  <2>. DEFINE bumped == [record EXCEPT !.stale = now]
  <2>0. Bumped(stored, now, duration) = bumped
    BY <1>3, DurationAssumption DEF Bumped
  <2>. HIDE DEF record
  <2>1. bumped \in TagRecord /\ bumped.stale = now
    BY <1>1 DEF TagRecord
  <2>2. Covers(bumped, now, time) /\ bumped # None
    <3>. HIDE DEF bumped
    <3>. QED
      BY <2>1, SentinelAssumption DEF Covers
  <2>. QED
    BY <2>0, <2>2
<1>4. CASE duration = Infinite
  <2>1. Bumped(stored, now, duration) = Unreadable
    BY <1>4, DurationAssumption DEF Bumped
  <2>. QED
    BY <2>1, SentinelAssumption DEF Covers
<1>5. CASE duration \notin {Hard, NoExpire, Infinite}
  <2>. DEFINE bumped == [expired |-> now + duration, stale |-> now]
  <2>1. Bumped(stored, now, duration) = bumped
    BY <1>5 DEF Bumped
  <2>2. bumped \in TagRecord /\ bumped.stale = now
    BY <1>5 DEF TagRecord, Duration
  <2>3. Covers(bumped, now, time) /\ bumped # None
    <3>. HIDE DEF bumped
    <3>. QED
      BY <2>2, SentinelAssumption DEF Covers
  <2>. QED
    BY <2>1, <2>3
<1>. QED
  BY <1>2, <1>3, <1>4, <1>5

\* What a get() concludes from a record that covers n, or from none at all,
\* unless the record is stamped ahead of its clock.
LEMMA ReadCovers ==
    ASSUME NEW stored \in StoredRecord, NEW n \in Int, NEW p \in Pod,
           NEW time \in [Pod -> Int], n <= time[p],
           NEW timestamp \in Int, Covers(stored, n, time),
           ~IsHardExpired(ReadAs(stored, time[p]), timestamp, time[p]),
           ~IsSoftStale(ReadAs(stored, time[p]), timestamp)
    PROVE  \/ n <= timestamp
           \/ /\ Readable(stored) /\ stored.expired # None
              /\ time[p] < stored.expired /\ stored.expired <= time[p] + Ahead
<1>1. CASE stored \in TagRecord
  <2>1. ReadAs(stored, time[p]) = stored /\ Readable(stored)
    BY <1>1 DEF ReadAs, Readable
  <2>2. /\ stored.expired \in Int \cup {None}
        /\ stored.stale \in Int \cup {None}
    BY <1>1 DEF TagRecord
  <2>. QED
    BY <1>1, <2>1, <2>2, NoneAssumption
       DEF Covers, Reached, IsHardExpired, IsSoftStale
<1>2. CASE stored \notin TagRecord
  BY <1>2, NoneAssumption DEF ReadAs, Readable, ExpiredAt, IsHardExpired
<1>. QED
  BY <1>1, <1>2

-----------------------------------------------------------------------------
(* What is on the connections.                                             *)

\* A command is what is left of an older one.
From(command, old) ==
    /\ command.kind = old.kind
    /\ command.kind \in {"set_tags", "add_tags"} =>
          command.tags \subseteq old.tags /\ command.at = old.at
    /\ command.kind = "set_tags" => command.items = old.items
    /\ command.by \in {None, old.by}

\* Past the first `shift` commands, pod q's queue is what it was.
Follows(q, shift) ==
    \A i \in DOMAIN sent'[q] :
        i + shift \in DOMAIN sent[q] /\ From(sent'[q][i], sent[q][i + shift])

\* The step writes no new command, and at most the oldest one is gone.
NothingNew == \A q \in Pod : \E shift \in {0, 1} : Follows(q, shift)

\* Then every command is left of one that was there.
LEMMA FromOld ==
    ASSUME NothingNew, NEW q \in Pod, NEW command \in Commands(q)'
    PROVE  \E old \in Commands(q) : From(command, old)
<1>1. PICK i \in DOMAIN sent'[q] : command = sent'[q][i]
  BY DEF Commands
<1>2. PICK shift \in {0, 1} : Follows(q, shift)
  BY DEF NothingNew
<1>3. i + shift \in DOMAIN sent[q] /\ From(command, sent[q][i + shift])
  BY <1>1, <1>2 DEF Follows
<1>. QED
  BY <1>3 DEF Commands

\* A queue left alone holds nothing new.
LEMMA SameFollows ==
    ASSUME MemcachedTypeOK, NEW q \in Pod, sent'[q] = sent[q]
    PROVE  Follows(q, 0)
<1>1. sent[q] \in Seq(Command)
  BY DEF MemcachedTypeOK
<1>2. \A i \in DOMAIN sent[q] : i + 0 = i
  BY <1>1
<1>. QED
  BY <1>2 DEF Follows, From

\* The queue that remains holds nothing new.
LEMMA TailElement ==
    ASSUME NEW s \in Seq(Command), s # <<>>, NEW i \in DOMAIN Tail(s)
    PROVE  i + 1 \in DOMAIN s /\ Tail(s)[i] = s[i + 1]
<1>1. Len(s) \in Nat /\ Len(s) # 0 /\ DOMAIN s = 1..Len(s)
  OBVIOUS
<1>2. Len(Tail(s)) = Len(s) - 1 /\ DOMAIN Tail(s) = 1..(Len(s) - 1)
  BY <1>1
<1>. QED
  BY <1>1, <1>2

\* The oldest command of a queue is one of those sent.
LEMMA HeadSent ==
    ASSUME MemcachedTypeOK, NEW p \in Pod, sent[p] # <<>>
    PROVE  Head(sent[p]) \in Commands(p)
<1>1. sent[p] \in Seq(Command)
  BY DEF MemcachedTypeOK
<1>2. 1 \in DOMAIN sent[p] /\ Head(sent[p]) = sent[p][1]
  BY <1>1
<1>. QED
  BY <1>2 DEF Commands

\* What is sent is commands.
LEMMA CommandsType ==
    ASSUME MemcachedTypeOK, NEW p \in Pod, NEW command \in Commands(p)
    PROVE  command \in Command
<1>1. sent[p] \in Seq(Command)
  BY DEF MemcachedTypeOK
<1>. QED
  BY <1>1 DEF Commands

\* A step that shortens the queue of one pod, leaves a batch with one tag
\* less at its head, or touches no queue writes nothing new.
LEMMA ShorterNothingNew ==
    ASSUME MemcachedTypeOK, NEW p \in Pod,
           sent' = [sent EXCEPT ![p] = Tail(@)], sent[p] # <<>>
    PROVE  NothingNew
<1>1. ASSUME NEW q \in Pod, q # p
      PROVE  Follows(q, 0)
  <2>1. sent'[q] = sent[q]
    BY <1>1 DEF MemcachedTypeOK
  <2>. QED
    BY <2>1, SameFollows
<1>2. Follows(p, 1)
  <2>1. sent[p] \in Seq(Command) /\ sent'[p] = Tail(sent[p])
    BY DEF MemcachedTypeOK
  <2>2. ASSUME NEW i \in DOMAIN sent'[p]
        PROVE  i + 1 \in DOMAIN sent[p] /\ sent'[p][i] = sent[p][i + 1]
    BY <2>1, <2>2, TailElement
  <2>. QED
    BY <2>2 DEF Follows, From
<1>. QED
  BY <1>1, <1>2 DEF NothingNew

\* Executing one tag of a batch writes nothing new.
LEMMA ExecutedNothingNew ==
    ASSUME MemcachedTypeOK, NEW p \in Pod, NEW t \in Tag, sent[p] # <<>>,
           Head(sent[p]).kind \in {"set_tags", "add_tags"}, Executed(p, t)
    PROVE  NothingNew
<1>. DEFINE head == Head(sent[p])
            rest == head.tags \ {t}
            left == [head EXCEPT !.tags = rest]
<1>1. CASE rest = {}
  BY <1>1, ShorterNothingNew DEF Executed
<1>2. CASE rest # {}
  <2>1. sent' = [sent EXCEPT ![p] = <<left>> \o Tail(@)]
    BY <1>2 DEF Executed
  <2>2. /\ head \in Command /\ Tail(sent[p]) \in Seq(Command)
        /\ sent[p] \in Seq(Command) /\ head = sent[p][1]
    BY HeadType DEF MemcachedTypeOK
  <2>3. From(left, head)
    BY <2>2 DEF From, Command
  <2>4. ASSUME NEW q \in Pod, q # p
        PROVE  Follows(q, 0)
    <3>1. sent'[q] = sent[q]
      BY <2>1, <2>4 DEF MemcachedTypeOK
    <3>. QED
      BY <3>1, SameFollows
  <2>5. Follows(p, 0)
    <3>. HIDE DEF left
    <3>1. sent'[p] = <<left>> \o Tail(sent[p])
      BY <2>1 DEF MemcachedTypeOK
    <3>2. ASSUME NEW i \in DOMAIN sent'[p]
          PROVE  /\ i + 0 = i /\ i \in DOMAIN sent[p]
                 /\ sent'[p][i] = IF i = 1 THEN left ELSE sent[p][i]
      BY <2>2, <3>1, <3>2
    <3>3. \A command : From(command, command)
      BY DEF From
    <3>. QED
      BY <2>2, <2>3, <3>2, <3>3 DEF Follows
  <2>. QED
    BY <2>4, <2>5 DEF NothingNew
<1>. QED
  BY <1>1, <1>2

\* A step that leaves the queues alone writes nothing new.
LEMMA SameNothingNew ==
    ASSUME MemcachedTypeOK, UNCHANGED sent
    PROVE  NothingNew
BY SameFollows DEF NothingNew

\* The node writes no command.
LEMMA ExecNothingNew ==
    ASSUME MemcachedTypeOK, NEW p \in Pod, Exec(p)
    PROVE  NothingNew
<1>1. CASE ExecGet(p) \/ ExecSet(p) \/ ExecGets(p)
  BY <1>1, ShorterNothingNew DEF ExecGet, ExecSet, ExecGets
<1>2. ASSUME NEW t \in Tag, ExecSetTag(p, t) \/ ExecAddTag(p, t)
      PROVE  NothingNew
  BY <1>2, ExecutedNothingNew DEF ExecSetTag, ExecAddTag
<1>. QED
  BY <1>1, <1>2 DEF Exec

\* A fault writes no command.
LEMMA DisturbNothingNew ==
    ASSUME MemcachedTypeOK, Disturb
    PROVE  NothingNew
<1>1. ASSUME NEW k \in Key, EvictEntry(k)
      PROVE  NothingNew
  BY <1>1, SameNothingNew DEF EvictEntry
<1>2. ASSUME NEW p \in Pod, Disconnect(p)
      PROVE  NothingNew
  <2>1. /\ sent'[p] = <<>>
        /\ \A q \in Pod \ {p} : sent'[q] = sent[q]
    BY <1>2 DEF Disconnect, MemcachedTypeOK
  <2>2. Follows(p, 0)
    BY <2>1 DEF Follows
  <2>. QED
    BY <2>1, <2>2, SameFollows DEF NothingNew
<1>3. ASSUME NEW c \in Caller, Timeout(c)
      PROVE  NothingNew
  <2>1. ASSUME NEW q \in Pod, NEW i \in DOMAIN sent'[q]
        PROVE  i + 0 \in DOMAIN sent[q] /\ From(sent'[q][i], sent[q][i + 0])
    <3>1. /\ i \in DOMAIN sent[q] /\ i + 0 = i
          /\ \/ sent'[q][i] = sent[q][i]
             \/ sent'[q][i] = [sent[q][i] EXCEPT !.by = None]
      <4>1. sent[q] \in Seq(Command)
        BY DEF MemcachedTypeOK
      <4>2. /\ i \in DOMAIN sent[q]
            /\ \/ sent'[q][i] = sent[q][i]
               \/ sent'[q][i] = [sent[q][i] EXCEPT !.by = None]
        BY <1>3, <2>1, PodAssumption DEF Timeout, MemcachedTypeOK
      <4>. QED
        BY <4>1, <4>2
    <3>2. sent[q][i] \in Command
      BY <3>1, CommandsType DEF Commands
    <3>3. From(sent'[q][i], sent[q][i])
      BY <3>1, <3>2 DEF From, Command
    <3>. QED
      BY <3>1, <3>3
  <2>. QED
    BY <2>1 DEF NothingNew, Follows
<1>. QED
  BY <1>1, <1>2, <1>3 DEF Disturb

\* Writing a command adds that command alone.
LEMMA SendNew ==
    ASSUME MemcachedTypeOK, NEW c \in Caller, NEW new \in Command,
           sent' = [sent EXCEPT ![PodOf[c]] = Append(@, new)],
           NEW q \in Pod, NEW command \in Commands(q)'
    PROVE  command = new \/ command \in Commands(q)
<1>1. sent[q] \in Seq(Command)
  BY DEF MemcachedTypeOK
<1>2. PICK i \in DOMAIN sent'[q] : command = sent'[q][i]
  BY DEF Commands
<1>3. CASE q # PodOf[c]
  BY <1>2, <1>3 DEF Commands, MemcachedTypeOK
<1>4. CASE q = PodOf[c]
  <2>1. sent'[q] = Append(sent[q], new)
    BY <1>4 DEF MemcachedTypeOK
  <2>2. command = new \/ (i \in DOMAIN sent[q] /\ command = sent[q][i])
    BY <1>1, <1>2, <2>1
  <2>. QED
    BY <2>2 DEF Commands
<1>. QED
  BY <1>3, <1>4

-----------------------------------------------------------------------------
(* Types.                                                                  *)

\* The history only watches: its steps are steps of CacheHandler.
LEMMA INextNext == INext => Next
<1>. SUFFICES ASSUME INext PROVE Next
  OBVIOUS
<1>1. ASSUME NEW c \in Caller, Begins(c) \/ Ends(c)
      PROVE  Next
  BY <1>1 DEF Begins, Ends, Next, StartGet
<1>2. ASSUME NEW c \in Caller, StartSet(c) \/ StartUpdate(c) \/ Step(c)
      PROVE  Next
  BY <1>2 DEF Next
<1>3. ASSUME NEW p \in Pod, UNCHANGED handlerVars,
             \/ ExecGet(p) \/ ExecSet(p) \/ ExecGets(p)
             \/ \E t \in Tag : ExecAddTag(p, t)
      PROVE  Next
  BY <1>3 DEF Exec, Next
<1>4. ASSUME NEW t \in Tag, UNCHANGED handlerVars,
             Forgets(t) \/ \E p \in Pod : Lands(p, t)
      PROVE  Next
  BY <1>4 DEF Forgets, Lands, Exec, Next
<1>5. ASSUME Disturb \/ Restart, UNCHANGED handlerVars
      PROVE  Next
  BY <1>5 DEF Next
<1>6. CASE Tick
  BY <1>6 DEF Next
<1>. QED
  BY <1>1, <1>2, <1>3, <1>4, <1>5, <1>6 DEF INext

\* The history begins well typed.
LEMMA IInitType == IInit => ITypeOK
BY InitType DEF IInit, ITypeOK, HistoryTypeOK, Never, NoView, View

\* The record a batch stores is one updateTags has sent.
LEMMA LandsType ==
    ASSUME ITypeOK, NEW p \in Pod, NEW t \in Tag, Lands(p, t)
    PROVE  /\ Head(sent[p]) \in Commands(p)
           /\ Head(sent[p]).kind = "set_tags" /\ t \in Head(sent[p]).tags
           /\ Head(sent[p]).at \in Int
<1>1. sent[p] # <<>> /\ Head(sent[p]).kind = "set_tags" /\ t \in Head(sent[p]).tags
  BY DEF Lands, ExecSetTag
<1>2. Head(sent[p]) \in Commands(p) /\ Head(sent[p]) \in Command
  BY <1>1, HeadSent, HeadType DEF ITypeOK, TypeOK
<1>. QED
  BY <1>1, <1>2 DEF Command

\* No step breaks a type of the system or of its history.
LEMMA INextType == ITypeOK /\ [INext]_ivars => ITypeOK'
<1>. SUFFICES ASSUME ITypeOK, [INext]_ivars PROVE ITypeOK'
  OBVIOUS
<1>1. TypeOK'
  BY INextNext, NextType DEF ITypeOK, ivars
<1>2. HistoryTypeOK'
  <2>. USE DEF ITypeOK, HistoryTypeOK
  <2>1. ASSUME NEW c \in Caller, Begins(c)
        PROVE  HistoryTypeOK'
    <3>1. PICK tags \in SoftTags :
            view' = [view EXCEPT ![c] = [floor |-> floor, soft |-> tags]]
      BY <2>1 DEF Begins
    <3>2. [floor |-> floor, soft |-> tags] \in View
      BY HandlerAssumption DEF View
    <3>. QED
      BY <2>1, <3>1, <3>2 DEF Begins
  <2>2. ASSUME NEW c \in Caller, Ends(c)
        PROVE  HistoryTypeOK'
    BY <2>2 DEF Ends, NoView, Never, View
  <2>3. ASSUME NEW t \in Tag, Forgets(t)
        PROVE  HistoryTypeOK'
    <3>1. ASSUME NEW c \in Caller
          PROVE  [view[c] EXCEPT !.floor[t] = 0] \in View
      BY DEF View
    <3>. QED
      BY <2>3, <3>1 DEF Forgets, historyVars
  <2>4. ASSUME NEW p \in Pod, NEW t \in Tag, Lands(p, t)
        PROVE  HistoryTypeOK'
    BY <2>4, LandsType DEF Lands, Later
  <2>5. CASE UNCHANGED historyVars
    BY <2>5 DEF historyVars
  <2>. QED
    BY <2>1, <2>2, <2>3, <2>4, <2>5 DEF INext, ivars, historyVars
<1>. QED
  BY <1>1, <1>2 DEF ITypeOK

\* Every variable, of the system and of its history, always holds a value of
\* its type.
THEOREM ITypeCorrect == ISpec => []ITypeOK
<1>1. IInit => ITypeOK
  BY IInitType
<1>2. ITypeOK /\ [INext]_ivars => ITypeOK'
  BY INextType
<1>. QED
  BY <1>1, <1>2, PTL DEF ISpec

-----------------------------------------------------------------------------
(* The conjuncts of the invariant, one lemma each.                         *)

\* A step of a call touches no record and takes no time.
LEMMA CallFrame ==
    ASSUME NEW c \in Caller,
           \/ StartGet(c) \/ StartSet(c) \/ StartUpdate(c)
           \/ Step(c) \/ GetEnd(c)
    PROVE  UNCHANGED <<records, clock>>
BY DEF StartGet, StartSet, StartUpdate, Step, GetStart, GetSend, GetMiss,
       GetReadTags, GetUntagged, GetCheck, GetFail, GetEnd, SetStart, SetStore,
       SetSkip, SetEnd, UpdateStart, UpdateWrite, UpdateEnd, UpdateFail,
       memcachedVars

\* Of all the steps, these are the ones the history and the records may
\* change in, or time passes.
LEMMA Quiet ==
    ASSUME INext
    PROVE  \/ UNCHANGED <<records, clock, floor, view>>
           \/ \E c \in Caller : Begins(c) \/ Ends(c)
           \/ \E p \in Pod, t \in Tag :
                 \/ ExecAddTag(p, t) /\ UNCHANGED <<clock, floor, view>>
                 \/ Lands(p, t) /\ UNCHANGED clock
           \/ \E t \in Tag : Forgets(t) /\ UNCHANGED clock
           \/ Restart /\ UNCHANGED <<clock, floor, view>>
           \/ Tick /\ UNCHANGED <<records, floor, view>>
<1>1. ASSUME NEW c \in Caller, StartSet(c) \/ StartUpdate(c) \/ Step(c)
      PROVE  UNCHANGED <<records, clock>>
  BY <1>1, CallFrame
<1>2. ASSUME NEW p \in Pod, ExecGet(p) \/ ExecSet(p) \/ ExecGets(p)
      PROVE  UNCHANGED records
  BY <1>2 DEF ExecGet, ExecSet, ExecGets
<1>3. Disturb => UNCHANGED records
  BY DEF Disturb, EvictEntry, Disconnect, Timeout
<1>4. Tick => UNCHANGED records
  BY DEF Tick, memcachedVars
<1>. QED
  BY <1>1, <1>2, <1>3, <1>4 DEF INext, historyVars, handlerVars

\* No invalidation stands that is yet to come, and no get() has seen a later
\* one than stands.
LEMMA FloorsStep ==
    ASSUME StandingInv, INext
    PROVE  FloorsReached'
<1>. USE DEF FloorsReached
<1>0. /\ floor \in [Tag -> Int]
      /\ view \in [Caller -> View]
      /\ \A c \in Caller : view[c].floor \in [Tag -> Int]
      /\ clock \in [Pod -> Int] /\ HandlerTypeOK
      /\ \A p \in Pod : 0 <= clock[p]
      /\ FloorsReached
  BY ClockType DEF StandingInv, ITypeOK, HistoryTypeOK, TypeOK, View
<1>1. CASE UNCHANGED <<clock, floor, view>>
  BY <1>1, <1>0
<1>2. ASSUME NEW c \in Caller, Begins(c)
      PROVE  FloorsReached'
  <2>1. UNCHANGED clock
    BY <1>2 DEF Begins, GetStart
  <2>. QED
    BY <1>0, <1>2, <2>1 DEF Begins
<1>3. ASSUME NEW c \in Caller, Ends(c)
      PROVE  FloorsReached'
  <2>1. UNCHANGED clock
    BY <1>3 DEF Ends, GetEnd
  <2>. QED
    BY <1>0, <1>3, <2>1 DEF Ends, NoView, Never
<1>4. ASSUME NEW p \in Pod, NEW t \in Tag, Lands(p, t), UNCHANGED clock
      PROVE  FloorsReached'
  <2>1. Reached(Head(sent[p]).at, clock)
    BY <1>4, LandsType DEF StandingInv, BumpsCover
  <2>2. Head(sent[p]).at \in Int
    BY <1>4, LandsType DEF StandingInv
  <2>3. ASSUME NEW w \in Tag
        PROVE  \/ floor'[w] = floor[w]
               \/ floor'[w] = Head(sent[p]).at /\ floor[w] <= floor'[w]
    BY <1>0, <1>4, <2>2 DEF Lands, Later
  <2>4. ASSUME NEW w \in Tag
        PROVE  /\ floor'[w] \in Nat /\ Reached(floor'[w], clock)
               /\ floor[w] <= floor'[w]
    BY <1>0, <2>1, <2>2, <2>3
  <2>5. UNCHANGED view
    BY <1>4 DEF Lands
  <2>. QED
    BY <1>0, <1>4, <2>4, <2>5
<1>5. ASSUME NEW t \in Tag, Forgets(t), UNCHANGED clock
      PROVE  FloorsReached'
  <2>1. CASE UNCHANGED <<floor, view>>
    BY <1>0, <1>5, <2>1
  <2>2. CASE /\ floor' = [floor EXCEPT ![t] = 0]
             /\ view' = [c \in Caller |-> [view[c] EXCEPT !.floor[t] = 0]]
    <3>1. ASSUME NEW c \in Caller
          PROVE  view'[c].floor = [view[c].floor EXCEPT ![t] = 0]
      BY <1>0, <2>2 DEF View
    <3>2. \A w \in Tag : floor'[w] = IF w = t THEN 0 ELSE floor[w]
      BY <1>0, <2>2
    <3>3. \A c \in Caller, w \in Tag :
             view'[c].floor[w] = IF w = t THEN 0 ELSE view[c].floor[w]
      BY <1>0, <3>1
    <3>4. Reached(0, clock)
      BY <1>0, SlackType DEF Reached
    <3>. QED
      BY <1>0, <1>5, <3>2, <3>3, <3>4
  <2>. QED
    BY <1>5, <2>1, <2>2 DEF Forgets, historyVars
<1>6. CASE Tick /\ UNCHANGED <<floor, view>>
  <2>1. /\ clock' \in [Pod -> Int]
        /\ \A p \in Pod : clock[p] <= clock'[p]
    BY <1>0, <1>6, TickClock
  <2>2. \A t \in Tag : Reached(floor[t], clock')
    BY <1>0, <2>1, ReachedLater
  <2>. QED
    BY <1>0, <1>6, <2>2
<1>. QED
  BY <1>1, <1>2, <1>3, <1>4, <1>5, <1>6, Quiet

\* What is stored of a tag goes on covering the invalidation that stands.
LEMMA RecordsStep ==
    ASSUME StandingInv, INext
    PROVE  RecordsCover'
<1>. USE DEF RecordsCover
<1>0. /\ floor \in [Tag -> Int]
      /\ records \in [Tag -> StoredRecord]
      /\ clock \in [Pod -> Int] /\ HandlerTypeOK
      /\ RecordsCover /\ Slack \in Nat
  BY ClockType, SlackType
     DEF StandingInv, ITypeOK, HistoryTypeOK, TypeOK, MemcachedTypeOK
<1>1. CASE UNCHANGED <<records, clock, floor>>
  BY <1>1, <1>0
<1>2. ASSUME NEW c \in Caller, Begins(c) \/ Ends(c)
      PROVE  RecordsCover'
  BY <1>0, <1>2 DEF Begins, Ends, GetStart, GetEnd, memcachedVars
<1>3. ASSUME NEW p \in Pod, NEW t \in Tag, ExecAddTag(p, t),
             UNCHANGED <<clock, floor>>
      PROVE  RecordsCover'
  <2>. DEFINE at == Head(sent[p]).at
  <2>1. CASE records[t] # None
    BY <1>0, <1>3, <2>1 DEF ExecAddTag
  <2>2. CASE records[t] = None
    <3>1. Head(sent[p]) \in Commands(p) /\ Head(sent[p]).kind = "add_tags"
          /\ t \in Head(sent[p]).tags /\ Head(sent[p]) \in Command
      BY <1>3, HeadSent, HeadType DEF ExecAddTag, StandingInv, ITypeOK, TypeOK
    <3>2. at \in Int /\ floor[t] - Slack <= at /\ Reached(at, clock)
      BY <2>2, <3>1 DEF StandingInv, ReseedsHarmless, Command
    <3>3. Covers(ExpiredAt(at), floor[t] - Slack, clock)
      BY <3>2 DEF Covers, ExpiredAt
    <3>4. records' = [records EXCEPT ![t] = ExpiredAt(at)]
      BY <1>3, <2>2 DEF ExecAddTag
    <3>. QED
      BY <1>0, <1>3, <3>3, <3>4
  <2>. QED
    BY <2>1, <2>2
<1>4. ASSUME NEW p \in Pod, NEW t \in Tag, Lands(p, t), UNCHANGED clock
      PROVE  RecordsCover'
  <2>. DEFINE head == Head(sent[p])
  <2>1. /\ floor[t] - Slack <= head.at /\ head.at \in Int
        /\ Covers(head.items[t], head.at, clock)
    BY <1>4, LandsType DEF StandingInv, BumpsCover
  <2>2. records' = [records EXCEPT ![t] = head.items[t]]
    BY <1>4 DEF Lands, ExecSetTag
  <2>3. floor' = floor \/ floor' = [floor EXCEPT ![t] = head.at]
    BY <1>0, <1>4, <2>1 DEF Lands, Later
  <2>4. floor'[t] - Slack <= head.at /\ floor'[t] \in Int
    BY <1>0, <2>1, <2>3
  <2>5. Covers(head.items[t], floor'[t] - Slack, clock)
    BY <1>0, <2>1, <2>4, CoversLater
  <2>. QED
    BY <1>0, <1>4, <2>2, <2>3, <2>5
<1>5. ASSUME NEW t \in Tag, Forgets(t), UNCHANGED clock
      PROVE  RecordsCover'
  <2>1. records' = [records EXCEPT ![t] = None]
    BY <1>5 DEF Forgets, EvictRecord
  <2>2. floor' = floor \/ floor' = [floor EXCEPT ![t] = 0]
    BY <1>5 DEF Forgets, historyVars
  <2>3. \A n \in Int : Covers(None, n, clock)
    BY SentinelAssumption DEF Covers
  <2>. QED
    BY <1>0, <1>5, <2>1, <2>2, <2>3
<1>6. CASE Restart
  BY <1>6, SentinelAssumption DEF Restart, Covers
<1>7. CASE Tick /\ UNCHANGED <<records, floor>>
  <2>1. /\ clock' \in [Pod -> Int]
        /\ \A p \in Pod : clock[p] <= clock'[p]
    BY <1>0, <1>7, TickClock
  <2>. QED
    BY <1>0, <1>7, <2>1, CoversLater
<1>. QED
  BY <1>1, <1>2, <1>3, <1>4, <1>5, <1>6, <1>7, Quiet

\* The batch of c's updateTags.
Batch(c) ==
    [kind |-> "set_tags", tags |-> call[c].tags,
     items |-> [t \in Tag |-> Bumped(reply[c].records[t], Round(Now(c)),
                                     call[c].duration)],
     at |-> Round(Now(c)), by |-> c]

\* It is a command.
LEMMA BatchType ==
    ASSUME TypeOK, NEW c \in Caller, UpdateWrite(c)
    PROVE  Batch(c) \in Command
<1>. DEFINE now == Round(Now(c))
            items == [t \in Tag |-> Bumped(reply[c].records[t], now,
                                           call[c].duration)]
<1>1. /\ reply[c].records \in [Tag -> StoredRecord]
      /\ call[c].duration \in Duration
      /\ call[c].tags \in SUBSET Tag
  BY DEF UpdateWrite, TagReply, TypeOK, HandlerTypeOK, Call, Locals
<1>2. now \in Int
  BY RoundType, NowType DEF TypeOK
<1>3. items \in [Tag -> StoredRecord]
  <2>. HIDE DEF now
  <2>. QED
    BY <1>1, <1>2, BumpedType
<1>4. Batch(c) = [kind |-> "set_tags", tags |-> call[c].tags,
                  items |-> items, at |-> now, by |-> c]
  BY DEF Batch
<1>. HIDE DEF items, now
<1>. QED
  BY <1>1, <1>2, <1>3, <1>4 DEF Command, Awaiter

\* What a step of a call writes, at the end of the queue of its pod.
LEMMA CallAppends ==
    ASSUME TypeOK, NEW c \in Caller,
           \/ StartGet(c) \/ StartSet(c) \/ StartUpdate(c)
           \/ Step(c) \/ GetEnd(c)
    PROVE  \/ UNCHANGED sent
           \/ \E new \in Command :
                 /\ sent' = [sent EXCEPT ![PodOf[c]] = Append(@, new)]
                 /\ \/ new.kind \in {"get", "set", "gets"}
                    \/ UpdateWrite(c) /\ new = Batch(c)
                    \/ /\ GetCheck(c)
                       /\ new = Reseed(ColdTags(reply[c].records, call[c].tags),
                                       Now(c))
<1>. USE DEF TypeOK
<1>1. CASE GetSend(c)
  <2>1. [kind |-> "get", key |-> call[c].key, by |-> c] \in Command
    BY <1>1 DEF GetSend, HandlerTypeOK, Call, Command, Awaiter
  <2>. QED
    BY <1>1, <2>1 DEF GetSend, Send
<1>2. CASE GetReadTags(c) \/ StartUpdate(c)
  <2>1. [kind |-> "gets", by |-> c] \in Command
    BY DEF Command, Awaiter
  <2>2. Send(c, [kind |-> "gets", by |-> c])
    BY <1>2 DEF GetReadTags, StartUpdate, UpdateStart
  <2>. QED
    BY <2>1, <2>2 DEF Send
<1>3. CASE SetStore(c)
  <2>1. PICK lifetime \in Lifetimes :
           Send(c, [kind |-> "set", key |-> call[c].key,
                    entry |-> Encoded(call[c].entry, lifetime), by |-> c])
    BY <1>3 DEF SetStore
  <2>2. Encoded(call[c].entry, lifetime) \in StoredEntry /\ call[c].key \in Key
    BY <1>3 DEF SetStore, HandlerTypeOK, Call, Encoded, StoredEntry
  <2>3. [kind |-> "set", key |-> call[c].key,
         entry |-> Encoded(call[c].entry, lifetime), by |-> c] \in Command
    BY <2>2 DEF Command, Awaiter
  <2>. QED
    BY <2>1, <2>3 DEF Send
<1>4. CASE UpdateWrite(c)
  <2>1. Batch(c) \in Command
    BY <1>4, BatchType
  <2>2. Send(c, Batch(c))
    BY <1>4 DEF UpdateWrite, Batch
  <2>. QED
    BY <1>4, <2>1, <2>2 DEF Send
<1>5. CASE GetCheck(c)
  <2>. DEFINE new == Reseed(ColdTags(reply[c].records, call[c].tags), Now(c))
  <2>1. sent' = sent \/ sent' = [sent EXCEPT ![PodOf[c]] = Append(@, new)]
    BY <1>5 DEF GetCheck
  <2>2. new \in Command
    BY <1>5, NowType DEF GetCheck, Reseed, ColdTags, Command, Awaiter,
                         HandlerTypeOK, Call, Locals
  <2>. QED
    BY <1>5, <2>1, <2>2
<1>. QED
  BY <1>1, <1>2, <1>3, <1>4, <1>5
     DEF StartGet, StartSet, Step, GetStart, GetMiss, GetUntagged, GetFail, GetEnd,
         SetStart, SetSkip, SetEnd, UpdateEnd, UpdateFail, Settled, memcachedVars

\* The records of a batch cover its stamp, the present rounded.
LEMMA BatchCovers ==
    ASSUME TypeOK, NEW c \in Caller, UpdateWrite(c), NEW t \in Tag
    PROVE  /\ Batch(c).items[t] # None
           /\ Covers(Batch(c).items[t], Round(Now(c)), clock)
<1>1. /\ reply[c].records[t] \in StoredRecord
      /\ call[c].duration \in Duration
  BY DEF UpdateWrite, TagReply, TypeOK, HandlerTypeOK, Call, Locals
<1>2. Round(Now(c)) \in Int /\ Reached(Round(Now(c)), clock)
  BY RoundNow, PodAssumption DEF Now, TypeOK
<1>. QED
  BY <1>1, <1>2, BumpedCovers DEF Batch

\* What a step of a call may write: of the commands that change a record,
\* only ones stamped with the present.
LEMMA CallSends ==
    ASSUME TypeOK, NEW c \in Caller,
           \/ StartGet(c) \/ StartSet(c) \/ StartUpdate(c)
           \/ Step(c) \/ GetEnd(c),
           NEW p \in Pod, NEW command \in Commands(p)'
    PROVE  \/ command \in Commands(p)
           \/ command.kind \in {"get", "set", "gets"}
           \/ /\ command.kind = "set_tags" /\ command.at = Round(Now(c))
              /\ \A t \in command.tags :
                    /\ command.items[t] # None
                    /\ Covers(command.items[t], command.at, clock)
           \/ command.kind = "add_tags" /\ command.at = Now(c)
<1>0. MemcachedTypeOK
  BY DEF TypeOK
<1>1. CASE UNCHANGED sent
  BY <1>1 DEF Commands
<1>2. ASSUME NEW new \in Command,
             sent' = [sent EXCEPT ![PodOf[c]] = Append(@, new)],
             new.kind \in {"get", "set", "gets"}
      PROVE  command \in Commands(p) \/ command.kind \in {"get", "set", "gets"}
  BY <1>0, <1>2, SendNew
<1>3. ASSUME Batch(c) \in Command, UpdateWrite(c),
             sent' = [sent EXCEPT ![PodOf[c]] = Append(@, Batch(c))]
      PROVE  \/ command \in Commands(p)
             \/ /\ command.kind = "set_tags" /\ command.at = Round(Now(c))
                /\ \A t \in command.tags :
                      /\ command.items[t] # None
                      /\ Covers(command.items[t], command.at, clock)
  <2>1. command = Batch(c) \/ command \in Commands(p)
    BY <1>0, <1>3, SendNew
  <2>2. Batch(c).kind = "set_tags" /\ Batch(c).at = Round(Now(c))
    BY DEF Batch
  <2>3. Batch(c).tags \in SUBSET Tag
    BY <1>3, <2>2 DEF Command
  <2>. QED
    BY <1>3, <2>1, <2>2, <2>3, BatchCovers
<1>4. ASSUME NEW cold, Reseed(cold, Now(c)) \in Command,
             sent' = [sent EXCEPT ![PodOf[c]] = Append(@, Reseed(cold, Now(c)))]
      PROVE  \/ command \in Commands(p)
             \/ command.kind = "add_tags" /\ command.at = Now(c)
  <2>1. command = Reseed(cold, Now(c)) \/ command \in Commands(p)
    BY <1>0, <1>4, SendNew
  <2>. QED
    BY <2>1 DEF Reseed
<1>. QED
  BY <1>1, <1>2, <1>3, <1>4, CallAppends

\* What updateTags has sent goes on covering its stamp.
LEMMA BumpsStep ==
    ASSUME StandingInv, INext
    PROVE  BumpsCover'
<1>0. /\ floor \in [Tag -> Int]
      /\ clock \in [Pod -> Int] /\ HandlerTypeOK /\ Slack \in Nat
      /\ MemcachedTypeOK /\ TypeOK
      /\ BumpsCover
      /\ \A t \in Tag : Reached(floor[t], clock)
  BY ClockType, SlackType
     DEF StandingInv, ITypeOK, HistoryTypeOK, TypeOK, FloorsReached
<1>. SUFFICES ASSUME NEW p \in Pod, NEW command \in Commands(p)',
                     command.kind = "set_tags", NEW t \in command.tags
              PROVE  /\ floor'[t] - Slack <= command.at /\ Reached(command.at, clock')
                     /\ command.items[t] # None
                     /\ Covers(command.items[t], command.at, clock')
  BY DEF BumpsCover
<1>1. ASSUME NEW old \in Commands(p), From(command, old)
      PROVE  /\ t \in Tag /\ command.at \in Int
             /\ floor[t] - Slack <= command.at /\ Reached(command.at, clock)
             /\ command.items[t] # None
             /\ Covers(command.items[t], command.at, clock)
             /\ old.kind = "set_tags" /\ t \in old.tags /\ old.at = command.at
  BY <1>0, <1>1, CommandsType DEF From, BumpsCover, Command
<1>2. From(command, command)
  BY DEF From
<1>3. CASE NothingNew /\ UNCHANGED <<clock, floor>>
  BY <1>1, <1>3, FromOld
<1>4. ASSUME NEW c \in Caller, UNCHANGED <<clock, floor>>,
             \/ StartGet(c) \/ StartSet(c) \/ StartUpdate(c)
             \/ Step(c) \/ GetEnd(c)
      PROVE  /\ floor'[t] - Slack <= command.at /\ Reached(command.at, clock')
             /\ command.items[t] # None
             /\ Covers(command.items[t], command.at, clock')
  <2>1. CASE command \in Commands(p)
    BY <1>1, <1>2, <1>4, <2>1
  <2>2. CASE command \notin Commands(p)
    <3>1. /\ command.at = Round(Now(c))
          /\ command.items[t] # None
          /\ Covers(command.items[t], command.at, clock)
      BY <1>0, <1>4, <2>2, CallSends
    <3>2. t \in Tag
      <4>1. MemcachedTypeOK'
        BY INextType DEF StandingInv, ITypeOK, TypeOK
      <4>2. command \in Command
        BY <4>1 DEF MemcachedTypeOK, Commands
      <4>. QED
        BY <4>2 DEF Command
    <3>3. Reached(command.at, clock) /\ floor[t] - Slack <= command.at
      <4>1. floor[t] \in Int /\ floor[t] <= Now(c) + Ahead
        BY <1>0, <3>2, PodAssumption DEF Now, Reached
      <4>. QED
        BY <1>0, <3>1, <4>1, RoundNow, PodAssumption DEF Now
    <3>. QED
      BY <1>0, <1>4, <3>1, <3>2, <3>3
  <2>. QED
    BY <2>1, <2>2
<1>5. ASSUME NEW q \in Pod, NEW w \in Tag, Lands(q, w), UNCHANGED clock
      PROVE  /\ floor'[t] - Slack <= command.at /\ Reached(command.at, clock')
             /\ command.items[t] # None
             /\ Covers(command.items[t], command.at, clock')
  <2>. DEFINE n == Head(sent[q]).at
  <2>1. NothingNew
    BY <1>0, <1>5, ExecNothingNew DEF Lands, Exec
  <2>2. PICK old \in Commands(p) : From(command, old)
    BY <2>1, FromOld
  <2>3. n \in Int
    BY <1>5, LandsType DEF StandingInv
  <2>4. floor'[t] - Slack <= command.at
    <3>1. CASE floor' = floor
      BY <1>1, <2>2, <3>1
    <3>2. CASE floor' # floor
      <4>1. ~OnItsWay("set_tags", w, n)
            /\ floor' = [floor EXCEPT ![w] = Later(@, n)]
        BY <1>5, <3>2 DEF Lands
      <4>2. CASE t = w
        <5>1. ~(old.at < n)
          BY <1>1, <2>2, <4>1, <4>2 DEF OnItsWay
        <5>. QED
          BY <1>0, <1>1, <2>2, <2>3, <4>1, <4>2, <5>1 DEF Later
      <4>3. CASE t # w
        BY <1>0, <1>1, <2>2, <4>1, <4>3
      <4>. QED
        BY <4>2, <4>3
    <3>. QED
      BY <3>1, <3>2
  <2>. QED
    BY <1>1, <1>5, <2>2, <2>4
<1>6. ASSUME NEW w \in Tag, Forgets(w), UNCHANGED clock
      PROVE  /\ floor'[t] - Slack <= command.at /\ Reached(command.at, clock')
             /\ command.items[t] # None
             /\ Covers(command.items[t], command.at, clock')
  <2>1. NothingNew
    BY <1>0, <1>6, SameNothingNew DEF Forgets, EvictRecord
  <2>2. PICK old \in Commands(p) : From(command, old)
    BY <2>1, FromOld
  <2>3. floor'[t] <= floor[t] /\ floor'[t] \in Int
    BY <1>0, <1>1, <1>6, <2>2 DEF Forgets, historyVars, StandingInv, FloorsReached
  <2>. QED
    BY <1>0, <1>1, <1>6, <2>2, <2>3
<1>7. CASE Restart
  BY <1>7 DEF Restart, Commands
<1>8. CASE Tick /\ UNCHANGED floor
  <2>1. /\ clock' \in [Pod -> Int] /\ UNCHANGED sent
        /\ \A q \in Pod : clock[q] <= clock'[q]
    BY <1>0, <1>8, TickClock DEF Tick, memcachedVars
  <2>2. PICK old \in Commands(p) : From(command, old)
    BY <1>0, <2>1, SameNothingNew, FromOld
  <2>3. Covers(command.items[t], command.at, clock') /\ Reached(command.at, clock')
    BY <1>0, <1>1, <2>1, <2>2, CoversLater, ReachedLater
  <2>. QED
    BY <1>0, <1>1, <1>8, <2>1, <2>2, <2>3
<1>. QED
  <2>1. ASSUME NEW q \in Pod, UNCHANGED handlerVars, UNCHANGED historyVars,
               \/ ExecGet(q) \/ ExecSet(q) \/ ExecGets(q)
               \/ \E w \in Tag : ExecAddTag(q, w)
        PROVE  NothingNew /\ UNCHANGED <<clock, floor>>
    BY <1>0, <2>1, ExecNothingNew DEF Exec, handlerVars, historyVars
  <2>2. ASSUME Disturb, UNCHANGED handlerVars, UNCHANGED historyVars
        PROVE  NothingNew /\ UNCHANGED <<clock, floor>>
    BY <1>0, <2>2, DisturbNothingNew DEF handlerVars, historyVars
  <2>3. ASSUME NEW c \in Caller, Begins(c) \/ Ends(c)
        PROVE  /\ UNCHANGED <<clock, floor>>
               /\ StartGet(c) \/ GetEnd(c)
    BY <2>3 DEF Begins, Ends, StartGet, GetStart, GetEnd
  <2>4. ASSUME NEW c \in Caller, StartSet(c) \/ StartUpdate(c) \/ Step(c),
               UNCHANGED historyVars
        PROVE  UNCHANGED <<clock, floor>>
    BY <2>4, CallFrame DEF historyVars
  <2>. QED
    BY <1>3, <1>4, <1>5, <1>6, <1>7, <1>8, <2>1, <2>2, <2>3, <2>4
       DEF INext, handlerVars, historyVars

\* The steps, as far as the records, the queues and the history go.
LEMMA Kinds ==
    ASSUME StandingInv, INext
    PROVE  \/ /\ NothingNew
              /\ UNCHANGED <<records, clock, floor, view, call>>
              /\ \/ Disturb
                 \/ \E p \in Pod : /\ Exec(p)
                                   /\ ExecGet(p) \/ ExecSet(p) \/ ExecGets(p)
           \/ \E c \in Caller :
                 /\ UNCHANGED <<records, clock, floor>>
                 /\ \/ /\ StartSet(c) \/ StartUpdate(c) \/ Step(c)
                       /\ UNCHANGED view
                    \/ Begins(c) /\ StartGet(c)
                    \/ Ends(c) /\ GetEnd(c)
           \/ \E p \in Pod, t \in Tag :
                 /\ UNCHANGED <<clock, view, call>>
                 /\ NothingNew /\ Exec(p)
                 /\ \/ ExecAddTag(p, t) /\ UNCHANGED floor
                    \/ Lands(p, t)
           \/ \E t \in Tag : Forgets(t) /\ UNCHANGED <<clock, call>>
           \/ Restart /\ UNCHANGED <<clock, floor, view, call>>
           \/ Tick /\ UNCHANGED <<records, sent, reply, floor, view, call>>
<1>0. MemcachedTypeOK
  BY DEF StandingInv, ITypeOK, TypeOK
<1>1. ASSUME NEW c \in Caller, StartSet(c) \/ StartUpdate(c) \/ Step(c)
      PROVE  UNCHANGED <<records, clock>>
  BY <1>1, CallFrame
<1>2. ASSUME NEW c \in Caller, Begins(c)
      PROVE  StartGet(c) /\ UNCHANGED <<records, clock, floor>>
  BY <1>2 DEF Begins, StartGet, GetStart, memcachedVars
<1>3. ASSUME NEW c \in Caller, Ends(c)
      PROVE  GetEnd(c) /\ UNCHANGED <<records, clock, floor>>
  BY <1>3 DEF Ends, GetEnd, memcachedVars
<1>4. ASSUME NEW p \in Pod, ExecGet(p) \/ ExecSet(p) \/ ExecGets(p)
      PROVE  NothingNew /\ Exec(p) /\ UNCHANGED records
  <2>1. Exec(p)
    BY <1>4 DEF Exec
  <2>. QED
    BY <1>0, <1>4, <2>1, ExecNothingNew DEF ExecGet, ExecSet, ExecGets
<1>5. ASSUME NEW p \in Pod, NEW t \in Tag, ExecAddTag(p, t) \/ Lands(p, t)
      PROVE  NothingNew /\ Exec(p)
  <2>1. Exec(p)
    BY <1>5 DEF Exec, Lands
  <2>. QED
    BY <1>0, <2>1, ExecNothingNew
<1>6. Disturb => NothingNew /\ UNCHANGED records
  BY <1>0, DisturbNothingNew DEF Disturb, EvictEntry, Disconnect, Timeout
<1>7. Tick => UNCHANGED <<records, sent, reply, call>>
  BY DEF Tick, memcachedVars
<1>8. ASSUME NEW p \in Pod, NEW t \in Tag, Lands(p, t)
      PROVE  UNCHANGED view
  BY <1>8 DEF Lands
<1>. QED
  BY <1>1, <1>2, <1>3, <1>4, <1>5, <1>6, <1>7, <1>8
     DEF INext, historyVars, handlerVars

\* A re-seed on its way stays unable to undo the invalidation that stands.
LEMMA ReseedsStep ==
    ASSUME StandingInv, INext
    PROVE  ReseedsHarmless'
<1>0. /\ floor \in [Tag -> Int]
      /\ records \in [Tag -> StoredRecord]
      /\ clock \in [Pod -> Int] /\ Slack \in Nat
      /\ \A p \in Pod : 0 <= clock[p]
      /\ TypeOK /\ HandlerTypeOK
      /\ \A t \in Tag : 0 <= floor[t] /\ Reached(floor[t], clock)
      /\ ReseedsHarmless /\ BumpsCover
  BY ClockType, SlackType
     DEF StandingInv, ITypeOK, HistoryTypeOK, TypeOK, MemcachedTypeOK, FloorsReached
<1>. DEFINE Harmless(command, t) ==
              /\ 0 <= command.at /\ Reached(command.at, clock')
              /\ records'[t] = None => floor'[t] - Slack <= command.at
<1>. SUFFICES ASSUME NEW p \in Pod, NEW command \in Commands(p)',
                     command.kind = "add_tags", NEW t \in command.tags
              PROVE  Harmless(command, t)
  BY DEF ReseedsHarmless
<1>1. ASSUME NEW old \in Commands(p), From(command, old)
      PROVE  /\ t \in Tag /\ command.at \in Int
             /\ 0 <= command.at /\ Reached(command.at, clock)
             /\ records[t] = None => floor[t] - Slack <= command.at
             /\ old.kind = "add_tags" /\ t \in old.tags /\ old.at = command.at
  BY <1>0, <1>1, CommandsType DEF From, ReseedsHarmless, Command, TypeOK
<1>2. From(command, command)
  BY DEF From
<1>3. CASE NothingNew /\ UNCHANGED <<records, clock, floor>>
  BY <1>1, <1>3, FromOld
<1>4. ASSUME NEW c \in Caller, UNCHANGED <<records, clock, floor>>,
             \/ StartGet(c) \/ StartSet(c) \/ StartUpdate(c)
             \/ Step(c) \/ GetEnd(c)
      PROVE  Harmless(command, t)
  <2>1. CASE command \in Commands(p)
    BY <1>1, <1>2, <1>4, <2>1
  <2>2. CASE command \notin Commands(p)
    <3>1. command.at = Now(c)
      BY <1>0, <1>4, <2>2, CallSends
    <3>2. t \in Tag
      <4>1. MemcachedTypeOK'
        BY INextType DEF StandingInv, ITypeOK, TypeOK
      <4>2. command \in Command
        BY <4>1 DEF MemcachedTypeOK, Commands
      <4>. QED
        BY <4>2 DEF Command
    <3>3. /\ 0 <= command.at /\ Reached(command.at, clock)
          /\ floor[t] - Slack <= command.at
      BY <1>0, <3>1, <3>2, ReachedNow, SlackType, PodAssumption DEF Now, Reached
    <3>. QED
      BY <1>0, <1>4, <3>1, <3>2, <3>3
  <2>. QED
    BY <2>1, <2>2
<1>5. ASSUME NEW q \in Pod, NEW w \in Tag, NothingNew, UNCHANGED clock,
             (ExecAddTag(q, w) /\ UNCHANGED floor) \/ Lands(q, w)
      PROVE  Harmless(command, t)
  <2>1. PICK old \in Commands(p) : From(command, old)
    BY <1>5, FromOld
  <2>2. CASE t # w
    <3>1. records'[t] = records[t]
      BY <1>0, <1>1, <1>5, <2>1, <2>2 DEF ExecAddTag, Lands, ExecSetTag
    <3>2. floor'[t] = floor[t]
      BY <1>0, <1>1, <1>5, <2>1, <2>2 DEF Lands
    <3>. QED
      BY <1>1, <1>5, <2>1, <3>1, <3>2
  <2>3. CASE t = w
    <3>1. records'[w] # None
      <4>1. CASE ExecAddTag(q, w)
        <5>1. ExpiredAt(Head(sent[q]).at) # None
          <6>1. Head(sent[q]).at \in Int
            BY <1>0, <4>1, HeadType DEF ExecAddTag, TypeOK, Command
          <6>. QED
            BY <6>1, SentinelAssumption DEF ExpiredAt, TagRecord
        <5>. QED
          BY <1>0, <4>1, <5>1 DEF ExecAddTag
      <4>2. CASE Lands(q, w)
        <5>1. Head(sent[q]).items[w] # None
          BY <1>0, <4>2, LandsType DEF BumpsCover, StandingInv
        <5>. QED
          BY <1>0, <4>2, <5>1 DEF Lands, ExecSetTag
      <4>. QED
        BY <1>5, <4>1, <4>2
    <3>. QED
      BY <1>1, <1>5, <2>1, <2>3, <3>1
  <2>. QED
    BY <2>2, <2>3
<1>6. ASSUME NEW w \in Tag, Forgets(w), UNCHANGED clock
      PROVE  Harmless(command, t)
  <2>0. UNCHANGED sent
    BY <1>6 DEF Forgets, EvictRecord
  <2>1. command \in Commands(p)
    BY <2>0 DEF Commands
  <2>2. CASE t # w
    <3>1. records'[t] = records[t] /\ floor'[t] = floor[t]
      BY <1>0, <1>1, <1>2, <1>6, <2>1, <2>2
         DEF Forgets, EvictRecord, historyVars
    <3>. QED
      BY <1>1, <1>2, <1>6, <2>1, <3>1
  <2>3. CASE t = w
    <3>1. CASE OnItsWay("add_tags", w, floor[w])
      BY <1>0, <1>1, <1>2, <1>6, <2>1, <2>3, <3>1 DEF Forgets
    <3>2. CASE ~OnItsWay("add_tags", w, floor[w])
      <4>1. ~(command.at < floor[w])
        BY <2>1, <2>3, <3>2 DEF OnItsWay
      <4>. QED
        BY <1>0, <1>1, <1>2, <1>6, <2>1, <2>3, <3>2, <4>1
           DEF Forgets, historyVars
    <3>. QED
      BY <3>1, <3>2
  <2>. QED
    BY <2>2, <2>3
<1>7. CASE Restart
  BY <1>7 DEF Restart, Commands
<1>8. CASE Tick /\ UNCHANGED <<records, sent, floor>>
  <2>1. /\ clock' \in [Pod -> Int]
        /\ \A q \in Pod : clock[q] <= clock'[q]
    BY <1>0, <1>8, TickClock
  <2>2. command \in Commands(p)
    BY <1>8 DEF Commands
  <2>3. Reached(command.at, clock')
    BY <1>0, <1>1, <1>2, <2>1, <2>2, ReachedLater
  <2>. QED
    BY <1>0, <1>1, <1>2, <1>8, <2>2, <2>3
<1>. QED
  BY <1>3, <1>4, <1>5, <1>6, <1>7, <1>8, Kinds

-----------------------------------------------------------------------------
(* What a get() was told, and what it concludes.                           *)

\* Of the answers, only that to a multi-get carries records: those stored.
LEMMA Answers ==
    ASSUME MemcachedTypeOK, NEW c \in Caller,
           Disturb \/ Restart \/ (\E p \in Pod : Exec(p)),
           reply'[c] \in TagReply
    PROVE  reply'[c] = reply[c] \/ reply'[c] = [records |-> records]
<1>1. Error \notin TagReply /\ Ack \notin TagReply
  BY ReplyAssumption
<1>2. CASE Disturb \/ Restart
  BY <1>1, <1>2
     DEF Disturb, EvictEntry, Disconnect, Timeout, Restart, MemcachedTypeOK
<1>3. ASSUME NEW command \in Command, NEW answer, answer \notin TagReply,
             reply' = Answered(command, answer)
      PROVE  reply'[c] = reply[c]
  BY <1>3 DEF Answered, MemcachedTypeOK
<1>4. ASSUME NEW p \in Pod, Exec(p)
      PROVE  reply'[c] = reply[c] \/ reply'[c] = [records |-> records]
  <2>. DEFINE command == Head(sent[p])
  <2>0. sent[p] # <<>> => command \in Command
    BY HeadType
  <2>1. CASE ExecGet(p)
    <3>1. [entry |-> entries[command.key]] \notin TagReply
      BY DEF TagReply
    <3>. QED
      BY <1>3, <2>0, <2>1, <3>1 DEF ExecGet
  <2>2. CASE ExecSet(p)
    BY <1>1, <1>3, <2>0, <2>2 DEF ExecSet
  <2>3. CASE ExecGets(p)
    BY <2>0, <2>3 DEF ExecGets, Answered, MemcachedTypeOK
  <2>4. ASSUME NEW t \in Tag, ExecSetTag(p, t) \/ ExecAddTag(p, t)
        PROVE  reply'[c] = reply[c]
    <3>1. sent[p] # <<>> /\ Executed(p, t)
      BY <2>4 DEF ExecSetTag, ExecAddTag
    <3>. QED
      BY <1>1, <1>3, <2>0, <3>1 DEF Executed
  <2>. QED
    BY <1>4, <2>1, <2>2, <2>3, <2>4 DEF Exec
<1>. QED
  BY <1>2, <1>4

\* A step of one call leaves to another all but what it awaits.
LEMMA OthersStep ==
    ASSUME TypeOK, NEW c \in Caller, NEW d \in Caller, c # d,
           \/ StartGet(d) \/ StartSet(d) \/ StartUpdate(d)
           \/ Step(d) \/ GetEnd(d)
    PROVE  /\ call'[c].pc = call[c].pc
           /\ call'[c].tags = call[c].tags
           /\ call'[c].entry = call[c].entry
           /\ call'[c].result = call[c].result
           /\ call'[c].key = call[c].key
           /\ call'[c].duration = call[c].duration
           /\ reply'[c] = reply[c]
<1>. DEFINE Same(w) == /\ w.pc = call[c].pc /\ w.tags = call[c].tags
                       /\ w.entry = call[c].entry /\ w.result = call[c].result
                       /\ w.key = call[c].key /\ w.duration = call[c].duration
<1>1. call[c] \in Locals
  BY DEF TypeOK, HandlerTypeOK, Call
<1>2. Same([call[c] EXCEPT !.awaits = None])
  BY <1>1 DEF Locals
<1>3. ASSUME FinishSet(d)
      PROVE  Same(call'[c])
  <2>1. call'[c] = [call[c] EXCEPT !.awaits = None] \/ call'[c] = call[c]
    BY <1>3 DEF FinishSet
  <2>2. Same(call'[c])
    BY <1>2, <2>1
  <2>. QED
    BY <2>2
<1>4. ASSUME ~FinishSet(d)
      PROVE  call'[c] = call[c]
  <2>1. call \in [Caller -> Locals]
    BY DEF TypeOK, HandlerTypeOK, Call
  <2>2. ASSUME NEW new, call' = [call EXCEPT ![d] = new]
        PROVE  call'[c] = call[c]
    BY <2>1, <2>2
  <2>3. CASE StartGet(d) \/ StartSet(d) \/ StartUpdate(d) \/ GetEnd(d)
    BY <2>2, <2>3 DEF StartGet, StartSet, StartUpdate, GetStart, SetStart,
                      UpdateStart, GetEnd
  <2>4. CASE GetSend(d) \/ GetReadTags(d) \/ SetStore(d) \/ UpdateWrite(d)
             \/ UpdateEnd(d) \/ UpdateFail(d)
    <3>1. \E new : call' = [call EXCEPT ![d] = new]
      BY <2>4 DEF GetSend, GetReadTags, SetStore, UpdateWrite, UpdateEnd, UpdateFail
    <3>. QED
      BY <2>2, <3>1
  <2>5. CASE GetMiss(d) \/ GetUntagged(d) \/ GetCheck(d) \/ GetFail(d)
    <3>1. \E entry, result : Return(d, entry, result)
      BY <2>5 DEF GetMiss, GetUntagged, GetCheck, GetFail
    <3>. QED
      BY <2>2, <3>1 DEF Return
  <2>. QED
    BY <1>4, <2>3, <2>4, <2>5 DEF Step, SetSkip, SetEnd
<1>5. reply'[c] = reply[c]
  BY DEF TypeOK, MemcachedTypeOK, StartGet, StartSet, StartUpdate, Step, GetStart,
         GetSend, GetMiss, GetReadTags, GetUntagged, GetCheck, GetFail, GetEnd,
         SetStart, SetStore, SetSkip, SetEnd, UpdateStart, UpdateWrite, UpdateEnd,
         UpdateFail, Settled, Send, memcachedVars
<1>. QED
  BY <1>1, <1>3, <1>4, <1>5

\* Where a step of a call takes it.
LEMMA OwnStep ==
    ASSUME TypeOK, NEW c \in Caller,
           \/ StartGet(c) \/ StartSet(c) \/ StartUpdate(c)
           \/ Step(c) \/ GetEnd(c)
    PROVE  /\ call'[c].pc = "get_pending" => StartGet(c)
           /\ call'[c].pc = "get_entry" => GetSend(c)
           /\ call'[c].pc = "get_tags" => GetReadTags(c)
           /\ call'[c].pc = "get_done" =>
                 GetMiss(c) \/ GetUntagged(c) \/ GetCheck(c) \/ GetFail(c)
           /\ call'[c].pc = "update_read" => StartUpdate(c)
           /\ call'[c].pc = "update_write" => UpdateWrite(c)
           /\ StartSet(c) \/ StartUpdate(c) \/ Step(c) =>
                 call'[c].pc # "get_pending"
           /\ StartGet(c) => call'[c].pc = "get_pending"
           /\ GetEnd(c) => call'[c].pc = "idle"
<1>0. call \in [Caller -> Locals]
  BY DEF TypeOK, HandlerTypeOK, Call
<1>. USE DEF Locals, Idle
<1>1. ASSUME StartSet(c)
      PROVE  call'[c].pc = "set_render"
  <2>1. \A k, entry : [Idle EXCEPT !.pc = "set_render", !.key = k,
                                  !.entry = entry].pc = "set_render"
    OBVIOUS
  <2>. HIDE DEF Idle, Locals
  <2>2. PICK k \in Key, tags \in EntryTags, r \in Revalidate : SetStart(c, k, tags, r)
    BY <1>1 DEF StartSet
  <2>3. \E entry : call' = [call EXCEPT ![c] = [Idle EXCEPT !.pc = "set_render",
                                                          !.key = k,
                                                          !.entry = entry]]
    BY <2>2 DEF SetStart
  <2>. QED
    BY <1>0, <2>1, <2>3
<1>2. ASSUME StartUpdate(c)
      PROVE  call'[c].pc = "update_read"
  <2>1. \A tags, duration : [Idle EXCEPT !.pc = "update_read", !.tags = tags,
                                !.duration = duration].pc = "update_read"
    OBVIOUS
  <2>. HIDE DEF Idle, Locals
  <2>2. PICK tags \in Bumps, duration \in Durations : UpdateStart(c, tags, duration)
    BY <1>2 DEF StartUpdate
  <2>3. call' = [call EXCEPT ![c] = [Idle EXCEPT !.pc = "update_read",
                                                 !.tags = tags,
                                                 !.duration = duration]]
    BY <2>2 DEF UpdateStart
  <2>. QED
    BY <1>0, <2>1, <2>3
<1>3. StartGet(c) => call'[c].pc = "get_pending"
  <2>1. \A k, tags, awaits :
           [Idle EXCEPT !.pc = "get_pending", !.key = k, !.tags = tags,
                        !.awaits = awaits].pc = "get_pending"
    OBVIOUS
  <2>. QED
    BY <1>0, <2>1 DEF StartGet, GetStart
<1>4. GetEnd(c) => call'[c].pc = "idle"
  BY <1>0 DEF GetEnd
<1>5. GetSend(c) => call'[c].pc = "get_entry"
  BY <1>0 DEF GetSend
<1>6. GetReadTags(c) => call'[c].pc = "get_tags"
  BY <1>0 DEF GetReadTags
<1>7. GetMiss(c) \/ GetUntagged(c) \/ GetCheck(c) \/ GetFail(c)
      => call'[c].pc = "get_done"
  <2>1. \A entry, result : [Idle EXCEPT !.pc = "get_done", !.entry = entry,
                                       !.result = result].pc = "get_done"
    OBVIOUS
  <2>2. ASSUME NEW entry, NEW result, Return(c, entry, result)
        PROVE  call'[c].pc = "get_done"
    BY <1>0, <2>1, <2>2 DEF Return
  <2>. QED
    BY <2>2 DEF GetMiss, GetUntagged, GetCheck, GetFail
<1>8. SetStore(c) => call'[c].pc = "set_store"
  BY <1>0 DEF SetStore
<1>9. SetSkip(c) \/ SetEnd(c) => call'[c].pc = "idle"
  BY <1>0 DEF SetSkip, SetEnd, FinishSet
<1>10. UpdateWrite(c) => call'[c].pc = "update_write"
  BY <1>0 DEF UpdateWrite
<1>11. UpdateEnd(c) \/ UpdateFail(c) => call'[c].pc = "idle"
  BY <1>0 DEF UpdateEnd, UpdateFail
<1>. QED
  BY <1>1, <1>2, <1>3, <1>4, <1>5, <1>6, <1>7, <1>8, <1>9, <1>10, <1>11 DEF Step

\* Forgetting an invalidation asks no get() for more than before.
LEMMA ForgetsView ==
    ASSUME ITypeOK, FloorsReached, NEW w \in Tag, Forgets(w),
           NEW c \in Caller, NEW t \in Tag
    PROVE  /\ view[c].floor[t] \in Int /\ view'[c].floor[t] \in Int
           /\ 0 <= view'[c].floor[t] /\ view'[c].floor[t] <= view[c].floor[t]
<1>1. view[c] \in View /\ view[c].floor \in [Tag -> Int]
  BY DEF ITypeOK, HistoryTypeOK, View
<1>2. view[c].floor[t] \in Int /\ 0 <= view[c].floor[t]
  BY <1>1 DEF FloorsReached
<1>3. CASE UNCHANGED view
  BY <1>2, <1>3
<1>4. CASE view' = [d \in Caller |-> [view[d] EXCEPT !.floor[w] = 0]]
  <2>1. view'[c].floor = [view[c].floor EXCEPT ![w] = 0]
    BY <1>1, <1>4 DEF View
  <2>. QED
    BY <1>1, <1>2, <2>1
<1>. QED
  BY <1>3, <1>4 DEF Forgets, historyVars

\* What a get() was told goes on covering what it must respect.
LEMMA RepliesStep ==
    ASSUME StandingInv, INext
    PROVE  RepliesCover'
<1>0. /\ floor \in [Tag -> Int]
      /\ \A c \in Caller : view[c].floor \in [Tag -> Int]
      /\ clock \in [Pod -> Int] /\ HandlerTypeOK /\ Slack \in Nat
      /\ TypeOK /\ MemcachedTypeOK
      /\ \A c \in Caller, t \in Tag :
            0 <= view[c].floor[t] /\ view[c].floor[t] <= floor[t]
      /\ RepliesCover /\ RecordsCover
  BY ClockType, SlackType
     DEF StandingInv, ITypeOK, HistoryTypeOK, TypeOK, View, FloorsReached
<1>. SUFFICES ASSUME NEW c \in Caller, call'[c].pc = "get_tags",
                     reply'[c] \in TagReply, NEW t \in Tag
              PROVE  Covers(reply'[c].records[t], view'[c].floor[t] - Slack, clock')
  BY DEF RepliesCover
<1>1. ASSUME call[c].pc = "get_tags", reply[c] \in TagReply
      PROVE  Covers(reply[c].records[t], view[c].floor[t] - Slack, clock)
  BY <1>0, <1>1 DEF RepliesCover
<1>2. ASSUME UNCHANGED <<clock, view, call>>,
             Disturb \/ Restart \/ \E p \in Pod : Exec(p)
      PROVE  Covers(reply'[c].records[t], view'[c].floor[t] - Slack, clock')
  <2>1. reply'[c] = reply[c] \/ reply'[c] = [records |-> records]
    BY <1>0, <1>2, Answers
  <2>2. Covers(records[t], view[c].floor[t] - Slack, clock)
    BY <1>0, CoversLater DEF RecordsCover
  <2>. QED
    BY <1>1, <1>2, <2>1, <2>2
<1>3. ASSUME NEW d \in Caller, UNCHANGED clock,
             \/ (StartSet(d) \/ StartUpdate(d) \/ Step(d)) /\ UNCHANGED view
             \/ Begins(d) /\ StartGet(d)
             \/ Ends(d) /\ GetEnd(d)
      PROVE  Covers(reply'[c].records[t], view'[c].floor[t] - Slack, clock')
  <2>1. CASE c = d
    <3>1. GetReadTags(c)
      BY <1>0, <1>3, <2>1, OwnStep
    <3>2. reply'[c] = NoReply
      BY <1>0, <3>1 DEF GetReadTags, Send, MemcachedTypeOK
    <3>. QED
      BY <3>2, ReplyAssumption
  <2>2. CASE c # d
    <3>1. call'[c].pc = call[c].pc /\ reply'[c] = reply[c]
      BY <1>0, <1>3, <2>2, OthersStep
    <3>2. view'[c] = view[c]
      BY <1>3, <2>2 DEF Begins, Ends, StandingInv, ITypeOK, HistoryTypeOK
    <3>. QED
      BY <1>1, <1>3, <3>1, <3>2
  <2>. QED
    BY <2>1, <2>2
<1>4. ASSUME NEW w \in Tag, Forgets(w), UNCHANGED <<clock, call>>
      PROVE  Covers(reply'[c].records[t], view'[c].floor[t] - Slack, clock')
  <2>1. UNCHANGED reply
    BY <1>4 DEF Forgets, EvictRecord
  <2>2. view'[c].floor[t] \in Int /\ view'[c].floor[t] <= view[c].floor[t]
    BY <1>4, ForgetsView DEF StandingInv
  <2>. QED
    BY <1>0, <1>1, <1>4, <2>1, <2>2, CoversLater
<1>5. CASE Tick /\ UNCHANGED <<reply, view, call>>
  <2>1. /\ clock' \in [Pod -> Int]
        /\ \A p \in Pod : clock[p] <= clock'[p]
    BY <1>0, <1>5, TickClock
  <2>. QED
    BY <1>0, <1>1, <1>5, <2>1, CoversLater
<1>. QED
  BY <1>2, <1>3, <1>4, <1>5, Kinds

\* A get() goes on checking its soft tags and those of the entry found.
LEMMA TagsStep ==
    ASSUME StandingInv, INext
    PROVE  TagsChecked'
<1>0. /\ TypeOK /\ TagsChecked
      /\ view \in [Caller -> View]
  BY DEF StandingInv, ITypeOK, HistoryTypeOK
<1>. DEFINE Checked(local, soft) ==
              /\ local.pc \in {"get_pending", "get_entry"} => soft \subseteq local.tags
              /\ local.pc = "get_tags" =>
                    local.entry.tags \cup soft \subseteq local.tags
<1>. SUFFICES ASSUME NEW c \in Caller
              PROVE  Checked(call'[c], view'[c].soft)
  BY DEF TagsChecked, Concerned
<1>1. Checked(call[c], view[c].soft)
  BY <1>0 DEF TagsChecked, Concerned
<1>2. ASSUME UNCHANGED call, view'[c].soft = view[c].soft
      PROVE  Checked(call'[c], view'[c].soft)
  BY <1>1, <1>2
<1>3. ASSUME NEW d \in Caller,
             \/ (StartSet(d) \/ StartUpdate(d) \/ Step(d)) /\ UNCHANGED view
             \/ Begins(d) /\ StartGet(d)
             \/ Ends(d) /\ GetEnd(d)
      PROVE  Checked(call'[c], view'[c].soft)
  <2>1. CASE c # d
    <3>1. /\ call'[c].pc = call[c].pc /\ call'[c].tags = call[c].tags
          /\ call'[c].entry = call[c].entry
      BY <1>0, <1>3, <2>1, OthersStep
    <3>2. view'[c] = view[c]
      BY <1>0, <1>3, <2>1 DEF Begins, Ends
    <3>. QED
      BY <1>1, <3>1, <3>2
  <2>2. CASE c = d
    <3>. USE <1>0, <1>3, <2>2
    <3>1. call \in [Caller -> Locals]
      BY DEF TypeOK, HandlerTypeOK, Call
    <3>2. ASSUME Begins(c), StartGet(c)
          PROVE  view'[c].soft = call'[c].tags /\ call'[c].pc = "get_pending"
      <4>1. PICK k \in Key, tags \in SoftTags :
              /\ GetStart(c, k, Given(tags))
              /\ view' = [view EXCEPT ![c] = [floor |-> floor, soft |-> tags]]
        BY <3>2 DEF Begins
      <4>2. view'[c].soft = tags
        BY <4>1
      <4>3. call'[c].tags = Given(tags) /\ call'[c].pc = "get_pending"
        <5>1. \A awaits :
                LET new == [Idle EXCEPT !.pc = "get_pending", !.key = k,
                                        !.tags = Given(tags), !.awaits = awaits]
                IN  new.tags = Given(tags) /\ new.pc = "get_pending"
          BY DEF Idle
        <5>. QED
          BY <3>1, <4>1, <5>1 DEF GetStart
      <4>. QED
        BY <4>2, <4>3 DEF Given, GetExpiration
    <3>3. ASSUME GetSend(c), UNCHANGED view
          PROVE  Checked(call'[c], view'[c].soft)
      <4>1. call'[c] = [call[c] EXCEPT !.pc = "get_entry"]
        BY <3>1, <3>3 DEF GetSend
      <4>2. call'[c].tags = call[c].tags /\ call'[c].pc = "get_entry"
        BY <3>1, <4>1 DEF Locals
      <4>3. call[c].pc = "get_pending"
        BY <3>3 DEF GetSend
      <4>. QED
        BY <1>1, <3>3, <4>2, <4>3
    <3>4. ASSUME GetReadTags(c), UNCHANGED view
          PROVE  Checked(call'[c], view'[c].soft)
      <4>1. call'[c] = [call[c] EXCEPT !.pc = "get_tags", !.tags = AllTags(c),
                                       !.entry = reply[c].entry]
        BY <3>1, <3>4 DEF GetReadTags
      <4>2. /\ call'[c].tags = AllTags(c) /\ call'[c].entry = reply[c].entry
            /\ call'[c].pc = "get_tags"
        BY <3>1, <4>1 DEF Locals
      <4>3. call[c].pc = "get_entry"
        BY <3>4 DEF GetReadTags, Found
      <4>. QED
        BY <1>1, <3>4, <4>2, <4>3 DEF AllTags
    <3>5. CASE Begins(c) /\ StartGet(c)
      BY <3>2, <3>5
    <3>6. CASE Ends(c) /\ GetEnd(c)
      BY <3>6, OwnStep
    <3>7. CASE (StartSet(c) \/ StartUpdate(c) \/ Step(c)) /\ UNCHANGED view
      BY <3>3, <3>4, <3>7, OwnStep
    <3>. QED
      BY <3>5, <3>6, <3>7
  <2>. QED
    BY <2>1, <2>2
<1>4. ASSUME NEW w \in Tag, Forgets(w)
      PROVE  view'[c].soft = view[c].soft
  BY <1>0, <1>4 DEF Forgets, historyVars, View
<1>. QED
  BY <1>2, <1>3, <1>4, Kinds

\* An entry get() concludes is fresh is younger, but for the slack, than every
\* invalidation that stood for one of its tags or of the soft tags when the
\* get() began, unless the record read is stamped ahead.
LEMMA CheckRespects ==
    ASSUME StandingInv, NEW c \in Caller, GetCheck(c),
           Verdict(call[c].entry, call[c].tags, reply[c].records, Now(c)) = "fresh",
           NEW t \in Concerned(c)
    PROVE  /\ t \in Tag /\ call[c].entry.timestamp \in Int
           /\ view[c].floor[t] \in Int
           /\ \/ call[c].entry.timestamp >= view[c].floor[t] - Slack
              \/ StampedAhead(c, t)
<1>. DEFINE stored == reply[c].records[t]
            timestamp == call[c].entry.timestamp
            n == view[c].floor[t]
            p == PodOf[c]
<1>1. call[c].pc = "get_tags" /\ reply[c] \in TagReply
  BY DEF GetCheck
<1>2. t \in call[c].tags
  BY <1>1 DEF StandingInv, TagsChecked
<1>3. /\ call[c] \in Call /\ clock \in [Pod -> Int] /\ p \in Pod
      /\ Slack \in Nat /\ Ahead \in Nat /\ Ahead <= Slack
  BY ClockType, PodAssumption, SlackType
     DEF StandingInv, ITypeOK, TypeOK, HandlerTypeOK
<1>4. t \in Tag
  BY <1>2, <1>3 DEF Call, Locals
<1>5. timestamp \in Int
  BY <1>1, <1>3 DEF Call, Entry
<1>6. stored \in StoredRecord
  BY <1>1, <1>4 DEF TagReply
<1>7. n \in Int /\ n - Slack <= clock[p]
  <2>1. view[c].floor[t] \in 0..floor[t] /\ Reached(floor[t], clock) /\ floor[t] \in Nat
    BY <1>4 DEF StandingInv, FloorsReached
  <2>. QED
    BY <1>3, <2>1 DEF Reached
<1>8. Covers(stored, n - Slack, clock)
  BY <1>1, <1>4 DEF StandingInv, RepliesCover
<1>9. /\ ~IsHardExpired(ReadAs(stored, clock[p]), timestamp, clock[p])
      /\ ~IsSoftStale(ReadAs(stored, clock[p]), timestamp)
  BY <1>2 DEF Verdict, Now
<1>10. \/ n - Slack <= timestamp
       \/ /\ Readable(stored) /\ stored.expired # None
          /\ clock[p] < stored.expired /\ stored.expired <= clock[p] + Ahead
  <2>1. n - Slack \in Int
    BY <1>3, <1>7
  <2>. HIDE DEF stored, timestamp, n, p
  <2>. QED
    BY <1>3, <1>5, <1>6, <1>7, <1>8, <1>9, <2>1, ReadCovers
<1>11. CASE n - Slack <= timestamp
  BY <1>3, <1>4, <1>5, <1>7, <1>11
<1>12. CASE /\ Readable(stored) /\ stored.expired # None
            /\ clock[p] < stored.expired /\ stored.expired <= clock[p] + Ahead
  BY <1>4, <1>5, <1>7, <1>12 DEF StampedAhead, Now
<1>. QED
  BY <1>10, <1>11, <1>12

\* No step makes a get() return an invalidated entry as fresh.
LEMMA NeverFreshStep ==
    ASSUME StandingInv, INext, Slack = 0
    PROVE  InvalidatedNeverFresh'
<1>0. /\ TypeOK /\ TagsChecked /\ RepliesCover /\ InvalidatedNeverFresh
      /\ Ahead = 0
      /\ call \in [Caller -> Locals]
      /\ view \in [Caller -> View]
      /\ \A c \in Caller : /\ view[c].soft \in SUBSET Tag
                           /\ view[c].floor \in [Tag -> Int]
      /\ \A t \in Tag : floor[t] \in Int
      /\ \A c \in Caller, t \in Tag : view[c].floor[t] <= floor[t]
  BY SlackType
     DEF StandingInv, ITypeOK, HistoryTypeOK, TypeOK, HandlerTypeOK, View,
         FloorsReached, Call
<1>. DEFINE Respected(local, seen) ==
              local.pc = "get_done" /\ local.result = "fresh" =>
                 \A t \in local.entry.tags \cup seen.soft :
                    local.entry.timestamp >= seen.floor[t]
<1>. SUFFICES ASSUME NEW c \in Caller
              PROVE  Respected(call'[c], view'[c])
  BY DEF InvalidatedNeverFresh, Served, Concerned
<1>1. Respected(call[c], view[c])
  BY <1>0 DEF InvalidatedNeverFresh, Served, Concerned
<1>2. CASE UNCHANGED <<call, view>>
  BY <1>1, <1>2
<1>3. ASSUME NEW d \in Caller, UNCHANGED clock,
             \/ (StartSet(d) \/ StartUpdate(d) \/ Step(d)) /\ UNCHANGED view
             \/ Begins(d) /\ StartGet(d)
             \/ Ends(d) /\ GetEnd(d)
      PROVE  Respected(call'[c], view'[c])
  <2>1. CASE c # d
    <3>1. /\ call'[c].pc = call[c].pc /\ call'[c].result = call[c].result
          /\ call'[c].entry = call[c].entry
      BY <1>0, <1>3, <2>1, OthersStep
    <3>2. view'[c] = view[c]
      BY <1>0, <1>3, <2>1 DEF Begins, Ends
    <3>. QED
      BY <1>1, <3>1, <3>2
  <2>2. CASE c = d
    <3>1. CASE call'[c].pc # "get_done"
      BY <3>1
    <3>2. CASE call'[c].pc = "get_done" /\ UNCHANGED view
      <4>1. GetMiss(c) \/ GetUntagged(c) \/ GetCheck(c) \/ GetFail(c)
        BY <1>0, <1>3, <2>2, <3>2, OwnStep
      <4>2. ASSUME NEW entry, NEW result, Return(c, entry, result)
            PROVE  call'[c].entry = entry /\ call'[c].result = result
        <5>1. LET new == [Idle EXCEPT !.pc = "get_done", !.entry = entry,
                                      !.result = result]
              IN  new.entry = entry /\ new.result = result
          BY DEF Idle
        <5>. QED
          BY <1>0, <4>2, <5>1 DEF Return
      <4>3. CASE GetMiss(c) \/ GetFail(c)
        BY <4>2, <4>3 DEF GetMiss, GetFail
      <4>4. CASE GetUntagged(c)
        <5>1. call'[c].entry = reply[c].entry /\ AllTags(c) = {}
          BY <4>2, <4>4 DEF GetUntagged
        <5>2. view[c].soft \subseteq call[c].tags
          BY <1>0, <4>4 DEF GetUntagged, Found, TagsChecked
        <5>. QED
          BY <3>2, <5>1, <5>2 DEF AllTags
      <4>5. CASE GetCheck(c)
        <5>. DEFINE verdict == Verdict(call[c].entry, call[c].tags,
                                       reply[c].records, Now(c))
        <5>1. Return(c, IF verdict = "miss" THEN None ELSE call[c].entry, verdict)
          BY <4>5 DEF GetCheck
        <5>2. /\ call'[c].entry = IF verdict = "miss" THEN None ELSE call[c].entry
              /\ call'[c].result = verdict
          <6>. HIDE DEF verdict
          <6>. QED
            BY <4>2, <5>1
        <5>3. SUFFICES ASSUME verdict = "fresh"
                       PROVE  Respected(call'[c], view[c])
          BY <3>2, <5>2
        <5>4. ASSUME NEW t \in Concerned(c)
              PROVE  call[c].entry.timestamp >= view[c].floor[t]
          <6>1. /\ t \in Tag /\ call[c].entry.timestamp \in Int
                /\ view[c].floor[t] \in Int
                /\ \/ call[c].entry.timestamp >= view[c].floor[t] - Slack
                   \/ StampedAhead(c, t)
            BY <4>5, <5>3, CheckRespects
          <6>2. ~StampedAhead(c, t)
            <7>1. Now(c) \in Int /\ reply[c] \in TagReply
              BY <1>0, <4>5, NowType DEF GetCheck, TypeOK
            <7>2. Readable(reply[c].records[t]) =>
                     reply[c].records[t].expired \in Int \cup {None}
              BY DEF Readable, TagRecord
            <7>. QED
              BY <1>0, <7>1, <7>2 DEF StampedAhead
          <6>. QED
            BY <6>1, <6>2
        <5>. QED
          BY <5>2, <5>3, <5>4 DEF Concerned
      <4>. QED
        BY <4>1, <4>3, <4>4, <4>5
    <3>3. CASE call'[c].pc = "get_done" /\ ~UNCHANGED view
      BY <1>0, <1>3, <2>2, <3>3, OwnStep
    <3>. QED
      BY <3>1, <3>2, <3>3
  <2>. QED
    BY <2>1, <2>2
<1>4. ASSUME NEW w \in Tag, Forgets(w), UNCHANGED call
      PROVE  Respected(call'[c], view'[c])
  <2>1. view'[c].soft = view[c].soft
    BY <1>0, <1>4 DEF Forgets, historyVars, View
  <2>. SUFFICES ASSUME call[c].pc = "get_done", call[c].result = "fresh",
                       NEW t \in call[c].entry.tags \cup view[c].soft
                PROVE  call[c].entry.timestamp >= view'[c].floor[t]
    BY <1>4, <2>1
  <2>2. call[c].entry \in Entry
    BY DEF StandingInv, ITypeOK, TypeOK, HandlerTypeOK, Call
  <2>3. t \in Tag /\ call[c].entry.timestamp \in Int
    BY <1>0, <2>2 DEF Entry
  <2>. QED
    BY <1>1, <1>4, <2>3, ForgetsView DEF StandingInv
<1>. QED
  BY <1>2, <1>3, <1>4, Kinds

-----------------------------------------------------------------------------
(* The theorem.                                                            *)

\* Where nothing is stored, nothing stands.
LEMMA StandingInit == IInit => StandingInv
<1>. SUFFICES ASSUME IInit PROVE StandingInv
  OBVIOUS
<1>. USE DEF IInit, Init, MemcachedInit
<1>1. ITypeOK
  BY IInitType
<1>2. FloorsReached
  <2>1. Reached(0, clock)
    BY SlackType DEF Reached
  <2>. QED
    BY <2>1 DEF FloorsReached, Never, NoView
<1>3. RecordsCover
  BY SentinelAssumption DEF RecordsCover, Covers
<1>4. BumpsCover /\ ReseedsHarmless
  BY DEF BumpsCover, ReseedsHarmless, Commands
<1>5. \A c \in Caller : call[c].pc = "idle"
  BY DEF Idle
<1>6. RepliesCover /\ TagsChecked /\ InvalidatedNeverFresh
  BY <1>5 DEF RepliesCover, TagsChecked, InvalidatedNeverFresh, Served
<1>. QED
  BY <1>1, <1>2, <1>3, <1>4, <1>6 DEF StandingInv

\* The invariant is inductive.
LEMMA StandingStep == StandingInv /\ [INext]_ivars => StandingInv'
<1>1. ASSUME StandingInv, INext
      PROVE  StandingInv'
  <2>1. ITypeOK'
    BY <1>1, INextType DEF StandingInv
  <2>. QED
    BY <1>1, <2>1, FloorsStep, RecordsStep, BumpsStep, ReseedsStep, RepliesStep,
       TagsStep, NeverFreshStep DEF StandingInv
<1>2. ASSUME StandingInv, UNCHANGED ivars
      PROVE  StandingInv'
  <2>. USE <1>2 DEF StandingInv, ivars, vars, memcachedVars, handlerVars,
                    historyVars
  <2>1. ITypeOK'
    BY INextType
  <2>2. FloorsReached'
    BY DEF FloorsReached
  <2>3. RecordsCover'
    BY DEF RecordsCover
  <2>4. BumpsCover'
    BY DEF BumpsCover, Commands
  <2>5. ReseedsHarmless'
    BY DEF ReseedsHarmless, Commands
  <2>6. RepliesCover'
    BY DEF RepliesCover
  <2>7. TagsChecked'
    BY DEF TagsChecked, Concerned
  <2>8. Slack = 0 => InvalidatedNeverFresh'
    BY DEF InvalidatedNeverFresh, Served, Concerned
  <2>. QED
    BY <2>1, <2>2, <2>3, <2>4, <2>5, <2>6, <2>7, <2>8
<1>. QED
  BY <1>1, <1>2

\* The inductive invariant holds: what is stored, on its way or read of a tag
\* always covers the invalidation that stands (readTagRecords, bumpTags).
THEOREM Standing == ISpec => []StandingInv
<1>1. IInit => StandingInv
  BY StandingInit
<1>2. StandingInv /\ [INext]_ivars => StandingInv'
  BY StandingStep
<1>. QED
  BY <1>1, <1>2, PTL DEF ISpec

\* When times are whole milliseconds and the clocks agree, a get() that
\* begins while an invalidation of one of its tags stands never returns an
\* older entry as fresh, whatever the other calls, the evictions and the
\* failures.
THEOREM NeverFresh ==
    ASSUME Sub = 1, Skew = 0
    PROVE  ISpec => []InvalidatedNeverFresh
<1>1. StandingInv => InvalidatedNeverFresh
  BY SlackType DEF StandingInv
<1>. QED
  BY <1>1, Standing, PTL

\* A get() that finds its entry fresh has checked it: what it has read of
\* the tags that concern the entry respects, but for the slack, what it must.
LEMMA FreshStep ==
    ASSUME StandingInv, [INext]_ivars, NEW c \in Caller, FindsFresh(c),
           NEW t \in Concerned(c)
    PROVE  \/ call[c].entry.timestamp >= view[c].floor[t] - Slack
           \/ StampedAhead(c, t)
<1>0. /\ TypeOK /\ call \in [Caller -> Locals]
      /\ call[c].pc = "get_tags" /\ call'[c].pc = "get_done"
      /\ call'[c].result = "fresh"
  BY DEF StandingInv, ITypeOK, TypeOK, HandlerTypeOK, Call, FindsFresh
<1>1. GetMiss(c) \/ GetUntagged(c) \/ GetCheck(c) \/ GetFail(c)
  <2>1. INext
    BY <1>0 DEF ivars, vars, handlerVars
  <2>2. PICK d \in Caller : \/ StartGet(d) \/ StartSet(d) \/ StartUpdate(d)
                            \/ Step(d) \/ GetEnd(d)
    BY <1>0, <2>1, Kinds
  <2>3. c = d
    BY <1>0, <2>2, OthersStep
  <2>. QED
    BY <1>0, <2>2, <2>3, OwnStep
<1>2. ASSUME NEW entry, NEW result, Return(c, entry, result)
      PROVE  call'[c].result = result
  <2>1. [Idle EXCEPT !.pc = "get_done", !.entry = entry,
                     !.result = result].result = result
    BY DEF Idle
  <2>. QED
    BY <1>0, <1>2, <2>1 DEF Return
<1>3. GetCheck(c)
  <2>1. ~GetMiss(c) /\ ~GetUntagged(c)
    BY <1>0 DEF GetMiss, GetUntagged, Found
  <2>2. ~GetFail(c)
    BY <1>0, <1>2 DEF GetFail
  <2>. QED
    BY <1>1, <2>1, <2>2
<1>4. Verdict(call[c].entry, call[c].tags, reply[c].records, Now(c)) = "fresh"
  <2>. DEFINE verdict == Verdict(call[c].entry, call[c].tags, reply[c].records,
                                 Now(c))
  <2>1. Return(c, IF verdict = "miss" THEN None ELSE call[c].entry, verdict)
    BY <1>3 DEF GetCheck
  <2>. HIDE DEF verdict
  <2>2. call'[c].result = verdict
    BY <1>2, <2>1
  <2>. QED
    BY <1>0, <2>2 DEF verdict
<1>. QED
  BY <1>3, <1>4, CheckRespects

\* Clocks that disagree cost no more than the time they disagree by, and
\* rounding less than a millisecond: an entry found fresh is stamped at most
\* Slack before the invalidation that stood, unless the record read is still
\* ahead of the reader's clock (readTagRecords, isHardExpired, bumpTags).
THEOREM WithinSlack == ISpec => FreshWithinSlack
<1>. DEFINE Fresh == \A c \in Caller : FindsFresh(c) =>
                        \A t \in Concerned(c) :
                           \/ call[c].entry.timestamp >= view[c].floor[t] - Slack
                           \/ StampedAhead(c, t)
<1>1. StandingInv /\ [INext]_ivars => Fresh
  BY FreshStep
<1>2. ISpec => [][Fresh]_ivars
  BY <1>1, Standing, PTL DEF ISpec
<1>. QED
  BY <1>2 DEF FreshWithinSlack

-----------------------------------------------------------------------------
(* Whose answers arrive.                                                   *)

\* c awaits nothing of the node.
NotAwaited(c) ==
    \/ reply[c] # NoReply
    \/ call[c].pc \notin {"get_entry", "get_tags", "update_read", "set_store",
                          "update_write"}

\* Nothing about d that AwaitInv speaks of changes.
SameAwait(d) ==
    /\ reply'[d] = reply[d]
    /\ call'[d].pc = call[d].pc
    /\ call'[d].key = call[d].key

\* Nobody who awaits nothing is named by a command.
LEMMA Unnamed ==
    ASSUME AwaitInv, NEW c \in Caller, NotAwaited(c), NEW p \in Pod,
           NEW i \in DOMAIN sent[p]
    PROVE  sent[p][i].by # c
BY CallerAssumption DEF AwaitInv, NotAwaited, Suits

\* A command names a caller or nobody.
LEMMA ByType ==
    ASSUME MemcachedTypeOK, NEW p \in Pod, NEW i \in DOMAIN sent[p]
    PROVE  sent[p][i] \in Command /\ sent[p][i].by \in Caller \cup {None}
<1>1. sent[p][i] \in Command
  BY DEF MemcachedTypeOK
<1>. QED
  BY <1>1 DEF Command, Awaiter

\* The queues are left alone, or lose what is at their head, and whoever is
\* still named by a command goes on awaiting it.
LEMMA FollowAwait ==
    ASSUME MemcachedTypeOK, AwaitInv, NEW q \in Pod, NEW shift \in {0, 1},
           \A p \in Pod \ {q} : sent'[p] = sent[p],
           sent'[q] \in Seq(Command),
           \A i \in DOMAIN sent'[q] :
              /\ i + shift \in DOMAIN sent[q]
              /\ sent'[q][i].by \in {None, sent[q][i + shift].by}
              /\ sent'[q][i].kind = sent[q][i + shift].kind
              /\ sent'[q][i].kind = "get" =>
                    sent'[q][i].key = sent[q][i + shift].key,
           \A p \in Pod : \A i \in DOMAIN sent'[p] :
              sent'[p][i].by # None => SameAwait(sent'[p][i].by)
    PROVE  AwaitInv'
<1>. SUFFICES ASSUME NEW p \in Pod, NEW i \in DOMAIN sent'[p],
                     sent'[p][i].by # None
              PROVE  LET c == sent'[p][i].by
                     IN  /\ PodOf[c] = p
                         /\ reply'[c] = NoReply
                         /\ Suits(sent'[p][i], call'[c])
                         /\ \A j \in DOMAIN sent'[p] :
                               sent'[p][j].by = c => j = i
  BY DEF AwaitInv, Suits
<1>1. SameAwait(sent'[p][i].by)
  OBVIOUS
<1>2. CASE p # q
  <2>1. sent'[p] = sent[p]
    BY <1>2
  <2>. QED
    BY <1>1, <2>1 DEF AwaitInv, SameAwait, Suits
<1>3. CASE p = q
  <2>. DEFINE k == i + shift
              c == sent'[p][i].by
  <2>1. /\ k \in DOMAIN sent[p] /\ sent[p][k].by = c
        /\ sent'[p][i].kind = sent[p][k].kind
        /\ sent'[p][i].kind = "get" => sent'[p][i].key = sent[p][k].key
    BY <1>3
  <2>2. /\ PodOf[c] = p /\ reply[c] = NoReply
        /\ Suits(sent[p][k], call[c])
        /\ \A j \in DOMAIN sent[p] : sent[p][j].by = c => j = k
    BY <2>1 DEF AwaitInv
  <2>3. reply'[c] = NoReply /\ Suits(sent'[p][i], call'[c])
    BY <1>1, <2>1, <2>2 DEF SameAwait, Suits
  <2>4. ASSUME NEW j \in DOMAIN sent'[p], sent'[p][j].by = c
        PROVE  j = i
    <3>1. /\ j + shift \in DOMAIN sent[p] /\ sent[p][j + shift].by = c
      BY <1>3, <2>4
    <3>2. j + shift = i + shift
      BY <2>2, <3>1
    <3>3. DOMAIN sent'[p] \subseteq Int
      BY <1>3
    <3>. QED
      BY <3>2, <3>3
  <2>. QED
    BY <2>2, <2>3, <2>4
<1>. QED
  BY <1>2, <1>3

\* What a step of a call writes is awaited by nobody, or by the caller alone.
LEMMA AppendAwait ==
    ASSUME MemcachedTypeOK, AwaitInv, NEW c \in Caller, NotAwaited(c),
           NEW new \in Command,
           sent' = [sent EXCEPT ![PodOf[c]] = Append(@, new)],
           \/ new.by = None
           \/ new.by = c /\ reply'[c] = NoReply /\ Suits(new, call'[c]),
           \A d \in Caller \ {c} : SameAwait(d)
    PROVE  AwaitInv'
<1>. SUFFICES ASSUME NEW p \in Pod, NEW i \in DOMAIN sent'[p],
                     sent'[p][i].by # None
              PROVE  LET d == sent'[p][i].by
                     IN  /\ PodOf[d] = p
                         /\ reply'[d] = NoReply
                         /\ Suits(sent'[p][i], call'[d])
                         /\ \A j \in DOMAIN sent'[p] :
                               sent'[p][j].by = d => j = i
  BY DEF AwaitInv, Suits
<1>1. sent[p] \in Seq(Command) /\ PodOf[c] \in Pod
  BY PodAssumption DEF MemcachedTypeOK
<1>2. ASSUME NEW k \in DOMAIN sent[p], sent[p][k].by # None
      PROVE  sent[p][k].by \in Caller \ {c}
  BY <1>2, ByType, Unnamed
<1>3. CASE p # PodOf[c]
  <2>1. sent'[p] = sent[p]
    BY <1>1, <1>3 DEF MemcachedTypeOK
  <2>2. /\ i \in DOMAIN sent[p] /\ sent'[p][i] = sent[p][i]
        /\ sent[p][i].by # None
    BY <2>1
  <2>3. SameAwait(sent[p][i].by)
    BY <1>2, <2>2
  <2>4. /\ PodOf[sent[p][i].by] = p /\ reply[sent[p][i].by] = NoReply
        /\ Suits(sent[p][i], call[sent[p][i].by])
        /\ \A j \in DOMAIN sent[p] : sent[p][j].by = sent[p][i].by => j = i
    BY <2>2 DEF AwaitInv
  <2>5. Suits(sent[p][i], call'[sent[p][i].by])
    BY <2>3, <2>4 DEF SameAwait, Suits
  <2>. QED
    BY <2>1, <2>3, <2>4, <2>5 DEF SameAwait
<1>4. CASE p = PodOf[c]
  <2>1. sent'[p] = Append(sent[p], new)
    BY <1>1, <1>4 DEF MemcachedTypeOK
  <2>2. \A k \in DOMAIN sent'[p] :
           \/ k \in DOMAIN sent[p] /\ sent'[p][k] = sent[p][k]
           \/ k = Len(sent[p]) + 1 /\ sent'[p][k] = new
    BY <1>1, <2>1
  <2>3. CASE sent'[p][i].by = c
    <3>1. \A k \in DOMAIN sent'[p] :
             sent'[p][k].by = c => k = Len(sent[p]) + 1 /\ sent'[p][k] = new
      BY <2>2, Unnamed
    <3>2. new.by = c
      BY <2>3, <3>1
    <3>. QED
      BY <1>4, <2>3, <3>1, <3>2, CallerAssumption
  <2>4. CASE sent'[p][i].by # c
    <3>1. i \in DOMAIN sent[p] /\ sent'[p][i] = sent[p][i]
      BY <2>2, <2>4
    <3>2. SameAwait(sent[p][i].by)
      BY <1>2, <3>1
    <3>3. /\ PodOf[sent[p][i].by] = p /\ reply[sent[p][i].by] = NoReply
          /\ Suits(sent[p][i], call[sent[p][i].by])
          /\ \A j \in DOMAIN sent[p] : sent[p][j].by = sent[p][i].by => j = i
      BY <3>1 DEF AwaitInv
    <3>4. Suits(sent[p][i], call'[sent[p][i].by])
      BY <3>2, <3>3 DEF SameAwait, Suits
    <3>5. ASSUME NEW j \in DOMAIN sent'[p], sent'[p][j].by = sent'[p][i].by
          PROVE  j \in DOMAIN sent[p] /\ sent'[p][j] = sent[p][j]
      <4>1. CASE j \in DOMAIN sent[p] /\ sent'[p][j] = sent[p][j]
        BY <4>1
      <4>2. CASE sent'[p][j] = new
        <5>1. new.by # c /\ new.by # None
          BY <2>4, <3>5, <4>2
        <5>. QED
          BY <5>1
      <4>. QED
        BY <2>2, <4>1, <4>2
    <3>6. \A j \in DOMAIN sent'[p] : sent'[p][j].by = sent'[p][i].by => j = i
      BY <3>1, <3>3, <3>5
    <3>. QED
      BY <3>1, <3>2, <3>3, <3>4, <3>6 DEF SameAwait
  <2>. QED
    BY <2>3, <2>4
<1>. QED
  BY <1>3, <1>4

\* A step of a call that awaits nothing and writes nothing.
LEMMA SilentAwait ==
    ASSUME MemcachedTypeOK, AwaitInv, NEW c \in Caller, NotAwaited(c),
           UNCHANGED sent,
           \A d \in Caller \ {c} : SameAwait(d)
    PROVE  AwaitInv'
<1>1. ASSUME NEW p \in Pod, NEW i \in DOMAIN sent[p], sent[p][i].by # None
      PROVE  SameAwait(sent[p][i].by)
  BY <1>1, ByType, Unnamed
<1>. QED
  BY <1>1 DEF AwaitInv, SameAwait, Suits

\* A step of a call: the caller awaits nothing before it, and afterwards at
\* most the command it has just written.
LEMMA CallAwait ==
    ASSUME TypeOK, AwaitInv, NEW c \in Caller,
           \/ StartGet(c) \/ StartSet(c) \/ StartUpdate(c)
           \/ Step(c) \/ GetEnd(c)
    PROVE  AwaitInv'
<1>0. /\ MemcachedTypeOK /\ call \in [Caller -> Locals] /\ c # None
      /\ reply \in [Caller -> Reply]
  BY CallerAssumption DEF TypeOK, HandlerTypeOK, MemcachedTypeOK, Call
<1>1. \A d \in Caller \ {c} : SameAwait(d)
  BY OthersStep DEF SameAwait
<1>2. reply[c] \in {Error, Ack} \cup EntryReply \cup TagReply => reply[c] # NoReply
  BY ReplyAssumption
<1>3. ASSUME NotAwaited(c), UNCHANGED sent
      PROVE  AwaitInv'
  BY <1>0, <1>1, <1>3, SilentAwait
<1>4. ASSUME NEW new \in Command, NotAwaited(c), new.by = c, Send(c, new),
             Suits(new, call'[c])
      PROVE  AwaitInv'
  <2>1. reply'[c] = NoReply
    BY <1>0, <1>4 DEF Send
  <2>. QED
    BY <1>0, <1>1, <1>4, <2>1, AppendAwait DEF Send
<1>5. CASE StartGet(c) \/ StartSet(c) \/ GetEnd(c) \/ SetSkip(c)
  BY <1>3, <1>5 DEF StartGet, StartSet, GetStart, SetStart, Starts, GetEnd, SetSkip,
                    NotAwaited, memcachedVars
<1>6. CASE GetMiss(c) \/ GetUntagged(c) \/ GetFail(c) \/ SetEnd(c)
           \/ UpdateEnd(c) \/ UpdateFail(c)
  BY <1>2, <1>3, <1>6 DEF GetMiss, GetUntagged, Found, GetFail, SetEnd, UpdateEnd,
                          UpdateFail, Settled, NotAwaited
<1>7. CASE GetCheck(c)
  <2>. DEFINE cold == ColdTags(reply[c].records, call[c].tags)
              new == Reseed(cold, Now(c))
  <2>1. NotAwaited(c)
    BY <1>2, <1>7 DEF GetCheck, NotAwaited
  <2>2. sent' = sent \/ sent' = [sent EXCEPT ![PodOf[c]] = Append(@, new)]
    BY <1>7 DEF GetCheck
  <2>3. cold \in SUBSET Tag
    BY <1>0 DEF ColdTags, Locals
  <2>4. Now(c) \in Int
    BY NowType DEF TypeOK
  <2>5. new \in Command /\ new.by = None
    BY <2>3, <2>4 DEF Reseed, Command, Awaiter
  <2>. HIDE DEF new
  <2>. QED
    BY <1>0, <1>1, <1>3, <2>1, <2>2, <2>5, AppendAwait
<1>8. CASE GetSend(c)
  <2>. DEFINE new == [kind |-> "get", key |-> call[c].key, by |-> c]
  <2>1. call[c].key \in Key
    BY <1>8 DEF GetSend, TypeOK, HandlerTypeOK, Call
  <2>2. new \in Command
    BY <2>1 DEF Command, Awaiter
  <2>3. call'[c].pc = "get_entry" /\ call'[c].key = call[c].key
    BY <1>0, <1>8 DEF GetSend, Locals
  <2>4. Suits(new, call'[c])
    BY <2>3 DEF Suits
  <2>. QED
    BY <1>4, <1>8, <2>2, <2>4 DEF GetSend, NotAwaited
<1>9. CASE GetReadTags(c)
  <2>. DEFINE new == [kind |-> "gets", by |-> c]
  <2>1. new \in Command
    BY DEF Command, Awaiter
  <2>2. call'[c].pc = "get_tags"
    BY <1>0, <1>9 DEF GetReadTags, Locals
  <2>3. Suits(new, call'[c])
    BY <2>2 DEF Suits
  <2>4. NotAwaited(c)
    BY <1>2, <1>9 DEF GetReadTags, Found, NotAwaited
  <2>. QED
    BY <1>4, <1>9, <2>1, <2>3, <2>4 DEF GetReadTags
<1>10. CASE SetStore(c)
  <2>1. PICK lifetime \in Lifetimes :
           Send(c, [kind |-> "set", key |-> call[c].key,
                    entry |-> Encoded(call[c].entry, lifetime), by |-> c])
    BY <1>10 DEF SetStore
  <2>. DEFINE new == [kind |-> "set", key |-> call[c].key,
                      entry |-> Encoded(call[c].entry, lifetime), by |-> c]
  <2>2. call[c].key \in Key /\ call[c].entry \in Entry
    BY <1>10 DEF SetStore, TypeOK, HandlerTypeOK, Call
  <2>3. Encoded(call[c].entry, lifetime) \in StoredEntry
    BY <2>2 DEF Encoded, StoredEntry
  <2>4. new \in Command /\ new.kind = "set" /\ new.by = c
    BY <2>2, <2>3 DEF Command, Awaiter
  <2>5. call'[c].pc = "set_store"
    BY <1>0, <1>10 DEF SetStore, Locals
  <2>6. NotAwaited(c)
    BY <1>10 DEF SetStore, NotAwaited
  <2>. HIDE DEF new
  <2>7. Suits(new, call'[c])
    BY <2>4, <2>5 DEF Suits
  <2>8. Send(c, new)
    BY <2>1 DEF new
  <2>. QED
    BY <1>4, <2>4, <2>6, <2>7, <2>8
<1>11. CASE StartUpdate(c)
  <2>. DEFINE new == [kind |-> "gets", by |-> c]
  <2>1. PICK tags \in Bumps, d \in Durations : UpdateStart(c, tags, d)
    BY <1>11 DEF StartUpdate
  <2>2. new \in Command
    BY DEF Command, Awaiter
  <2>3. [Idle EXCEPT !.pc = "update_read", !.tags = tags,
                     !.duration = d].pc = "update_read"
    BY DEF Idle
  <2>4. call'[c].pc = "update_read"
    BY <1>0, <2>1, <2>3 DEF UpdateStart
  <2>5. Suits(new, call'[c])
    BY <2>4 DEF Suits
  <2>. QED
    BY <1>4, <2>1, <2>2, <2>5 DEF UpdateStart, Starts, NotAwaited
<1>12. CASE UpdateWrite(c)
  <2>. DEFINE new == Batch(c)
  <2>1. new \in Command /\ new.kind = "set_tags" /\ new.by = c
    BY <1>12, BatchType DEF Batch
  <2>2. Send(c, new)
    BY <1>12 DEF UpdateWrite, Batch
  <2>3. call'[c].pc = "update_write"
    BY <1>0, <1>12 DEF UpdateWrite, Locals
  <2>4. NotAwaited(c)
    BY <1>2, <1>12 DEF UpdateWrite, NotAwaited
  <2>. HIDE DEF new
  <2>5. Suits(new, call'[c])
    BY <2>1, <2>3 DEF Suits
  <2>. QED
    BY <1>4, <2>1, <2>2, <2>4, <2>5
<1>. QED
  BY <1>5, <1>6, <1>7, <1>8, <1>9, <1>10, <1>11, <1>12 DEF Step

\* The node answers the caller a command names, and the command is gone.
LEMMA ExecAwait ==
    ASSUME MemcachedTypeOK, AwaitInv, NEW p \in Pod, Exec(p), UNCHANGED call
    PROVE  AwaitInv'
<1>. DEFINE head == Head(sent[p])
<1>1. /\ sent[p] # <<>> /\ sent[p] \in Seq(Command)
      /\ 1 \in DOMAIN sent[p] /\ head = sent[p][1]
      /\ head \in Command /\ head.by \in Caller \cup {None}
  <2>1. sent[p] # <<>> /\ sent[p] \in Seq(Command)
    BY DEF MemcachedTypeOK, Exec, ExecGet, ExecSet, ExecGets, ExecSetTag, ExecAddTag
  <2>2. 1 \in DOMAIN sent[p] /\ head = sent[p][1]
    BY <2>1
  <2>. QED
    BY <2>1, <2>2, ByType
<1>2. ASSUME NEW answer, sent' = [sent EXCEPT ![p] = Tail(@)],
             reply' = Answered(head, answer)
      PROVE  AwaitInv'
  <2>1. /\ sent'[p] = Tail(sent[p]) /\ sent'[p] \in Seq(Command)
        /\ \A q \in Pod \ {p} : sent'[q] = sent[q]
    BY <1>1, <1>2 DEF MemcachedTypeOK
  <2>2. \A i \in DOMAIN sent'[p] :
           i + 1 \in DOMAIN sent[p] /\ sent'[p][i] = sent[p][i + 1]
    BY <1>1, <2>1, TailElement
  <2>3. ASSUME NEW q \in Pod, NEW i \in DOMAIN sent'[q], sent'[q][i].by # None
        PROVE  sent'[q][i].by # head.by /\ sent'[q][i].by \in Caller
    <3>1. CASE q # p
      <4>1. i \in DOMAIN sent[q] /\ sent'[q][i] = sent[q][i]
        BY <2>1, <3>1
      <4>2. PodOf[sent[q][i].by] = q /\ (head.by # None => PodOf[head.by] = p)
        BY <1>1, <2>3, <4>1 DEF AwaitInv
      <4>. QED
        BY <2>3, <3>1, <4>1, <4>2, ByType
    <3>2. CASE q = p
      <4>1. i + 1 \in DOMAIN sent[p] /\ sent'[p][i] = sent[p][i + 1] /\ i + 1 # 1
        <5>1. DOMAIN sent'[p] = 1..Len(sent'[p]) /\ Len(sent'[p]) \in Nat
          BY <2>1
        <5>. QED
          BY <2>2, <3>2, <5>1
      <4>2. \A j \in DOMAIN sent[p] : sent[p][j].by = sent[p][i + 1].by => j = i + 1
        BY <2>3, <3>2, <4>1 DEF AwaitInv
      <4>. QED
        BY <1>1, <2>3, <3>2, <4>1, <4>2, ByType
    <3>. QED
      BY <3>1, <3>2
  <2>4. ASSUME NEW d \in Caller, d # head.by
        PROVE  SameAwait(d)
    BY <1>2, <2>4 DEF Answered, SameAwait, MemcachedTypeOK
  <2>. QED
    BY <2>1, <2>2, <2>3, <2>4, FollowAwait
<1>3. ASSUME NEW t \in Tag, Executed(p, t), head.kind \in {"set_tags", "add_tags"}
      PROVE  AwaitInv'
  <2>. DEFINE rest == head.tags \ {t}
              left == [head EXCEPT !.tags = rest]
  <2>1. CASE rest = {}
    BY <1>2, <1>3, <2>1 DEF Executed
  <2>2. CASE rest # {}
    <3>1. /\ left.by = head.by /\ left.kind = head.kind /\ left \in Command
          /\ left.kind # "get"
      BY <1>1, <1>3 DEF Command
    <3>. HIDE DEF left
    <3>2. sent' = [sent EXCEPT ![p] = <<left>> \o Tail(@)] /\ reply' = reply
      BY <1>3, <2>2 DEF Executed, left
    <3>3. /\ sent'[p] = <<left>> \o Tail(sent[p])
          /\ \A q \in Pod \ {p} : sent'[q] = sent[q]
      BY <3>2 DEF MemcachedTypeOK
    <3>4. sent'[p] \in Seq(Command) /\ DOMAIN sent'[p] = DOMAIN sent[p]
      BY <1>1, <3>1, <3>3
    <3>5. \A i \in DOMAIN sent'[p] :
             \/ i = 1 /\ sent'[p][i] = left
             \/ i # 1 /\ sent'[p][i] = sent[p][i]
      BY <1>1, <3>1, <3>3, <3>4
    <3>6. \A d : SameAwait(d)
      BY <3>2 DEF SameAwait
    <3>7. \A i \in DOMAIN sent'[p] :
             /\ i + 0 \in DOMAIN sent[p]
             /\ sent'[p][i].by \in {None, sent[p][i + 0].by}
             /\ sent'[p][i].kind = sent[p][i + 0].kind
             /\ sent'[p][i].kind = "get" => sent'[p][i].key = sent[p][i + 0].key
      <4>1. \A i \in DOMAIN sent[p] : i + 0 = i
        BY <1>1
      <4>. QED
        BY <1>1, <3>1, <3>4, <3>5, <4>1
    <3>. QED
      BY <3>3, <3>4, <3>6, <3>7, FollowAwait
  <2>. QED
    BY <2>1, <2>2
<1>. QED
  BY <1>2, <1>3 DEF Exec, ExecGet, ExecSet, ExecGets, ExecSetTag, ExecAddTag

\* A fault that takes a command from a queue rejects its promise, and one
\* that rejects a promise takes its caller's name from the command.
LEMMA FaultAwait ==
    ASSUME MemcachedTypeOK, AwaitInv, Disturb \/ Restart, UNCHANGED call
    PROVE  AwaitInv'
<1>1. ASSUME NEW k \in Key, EvictEntry(k)
      PROVE  AwaitInv'
  BY <1>1 DEF EvictEntry, AwaitInv, Suits
<1>2. CASE Restart
  BY <1>2 DEF Restart, AwaitInv
<1>3. ASSUME NEW p \in Pod, Disconnect(p)
      PROVE  AwaitInv'
  <2>1. /\ sent'[p] = <<>>
        /\ \A q \in Pod \ {p} : sent'[q] = sent[q]
    BY <1>3 DEF Disconnect, MemcachedTypeOK
  <2>2. ASSUME NEW q \in Pod, NEW i \in DOMAIN sent'[q], sent'[q][i].by # None
        PROVE  SameAwait(sent'[q][i].by)
    <3>1. q # p /\ i \in DOMAIN sent[q] /\ sent'[q][i] = sent[q][i]
      BY <2>1
    <3>2. sent[q][i].by \in Caller /\ PodOf[sent[q][i].by] = q
      BY <2>2, <3>1, ByType DEF AwaitInv
    <3>. QED
      BY <1>3, <3>1, <3>2 DEF Disconnect, SameAwait
  <2>3. sent'[p] \in Seq(Command) /\ DOMAIN sent'[p] = {}
    BY <2>1
  <2>. QED
    BY <2>1, <2>2, <2>3, FollowAwait
<1>4. ASSUME NEW c \in Caller, Timeout(c)
      PROVE  AwaitInv'
  <2>. DEFINE p == PodOf[c]
              orphan(command) == IF command.by = c
                                   THEN [command EXCEPT !.by = None]
                                   ELSE command
  <2>1. p \in Pod /\ sent[p] \in Seq(Command)
    BY PodAssumption DEF MemcachedTypeOK
  <2>2. ASSUME NEW command \in Command
        PROVE  /\ orphan(command) \in Command
               /\ orphan(command).by \in {None, command.by}
               /\ orphan(command).by # c
               /\ orphan(command).kind = command.kind
               /\ command.kind = "get" => orphan(command).key = command.key
    BY CallerAssumption DEF Command, Awaiter
  <2>. HIDE DEF orphan
  <2>3. sent' = [sent EXCEPT ![p] = [i \in DOMAIN @ |-> orphan(@[i])]]
    BY <1>4 DEF Timeout, orphan
  <2>4. /\ sent'[p] = [i \in DOMAIN sent[p] |-> orphan(sent[p][i])]
        /\ \A q \in Pod \ {p} : sent'[q] = sent[q]
    BY <2>1, <2>3 DEF MemcachedTypeOK
  <2>5. sent'[p] \in Seq(Command)
    BY <2>1, <2>2, <2>4
  <2>6. \A i \in DOMAIN sent'[p] :
           /\ i + 0 \in DOMAIN sent[p]
           /\ sent'[p][i].by \in {None, sent[p][i + 0].by}
           /\ sent'[p][i].kind = sent[p][i + 0].kind
           /\ sent'[p][i].kind = "get" => sent'[p][i].key = sent[p][i + 0].key
    <3>1. \A i \in DOMAIN sent[p] : i + 0 = i /\ sent[p][i] \in Command
      BY <2>1
    <3>. QED
      BY <2>2, <2>4, <3>1
  <2>7. ASSUME NEW q \in Pod, NEW i \in DOMAIN sent'[q], sent'[q][i].by # None
        PROVE  sent'[q][i].by \in Caller \ {c}
    <3>1. CASE q = p
      <4>1. i \in DOMAIN sent[p] /\ sent'[p][i] = orphan(sent[p][i])
        BY <2>4, <3>1
      <4>. QED
        BY <2>1, <2>2, <2>7, <3>1, <4>1, ByType
    <3>2. CASE q # p
      <4>1. i \in DOMAIN sent[q] /\ sent'[q][i] = sent[q][i]
        BY <2>4, <3>2
      <4>2. sent[q][i].by \in Caller /\ PodOf[sent[q][i].by] = q
        BY <2>7, <4>1, ByType DEF AwaitInv
      <4>. QED
        BY <3>2, <4>1, <4>2
    <3>. QED
      BY <3>1, <3>2
  <2>8. \A d \in Caller \ {c} : SameAwait(d)
    BY <1>4 DEF Timeout, SameAwait, MemcachedTypeOK
  <2>. QED
    BY <2>1, <2>4, <2>5, <2>6, <2>7, <2>8, FollowAwait
<1>. QED
  BY <1>1, <1>2, <1>3, <1>4 DEF Disturb

\* No step breaks it.
LEMMA AwaitStep == TypeOK /\ AwaitInv /\ [INext]_ivars => AwaitInv'
<1>. SUFFICES ASSUME TypeOK, AwaitInv, [INext]_ivars PROVE AwaitInv'
  OBVIOUS
<1>0. MemcachedTypeOK
  BY DEF TypeOK
<1>1. ASSUME NEW c \in Caller,
             \/ StartGet(c) \/ StartSet(c) \/ StartUpdate(c)
             \/ Step(c) \/ GetEnd(c)
      PROVE  AwaitInv'
  BY <1>1, CallAwait
<1>2. ASSUME NEW c \in Caller, Begins(c) \/ Ends(c)
      PROVE  AwaitInv'
  BY <1>1, <1>2 DEF Begins, Ends, StartGet
<1>3. ASSUME NEW p \in Pod, Exec(p), UNCHANGED handlerVars
      PROVE  AwaitInv'
  BY <1>0, <1>3, ExecAwait DEF handlerVars
<1>4. ASSUME NEW t \in Tag, NEW p \in Pod, UNCHANGED handlerVars, Lands(p, t)
      PROVE  AwaitInv'
  BY <1>3, <1>4 DEF Lands, Exec
<1>5. CASE (Disturb \/ Restart) /\ UNCHANGED handlerVars
  BY <1>0, <1>5, FaultAwait DEF handlerVars
<1>6. ASSUME UNCHANGED <<sent, reply, call>>
      PROVE  AwaitInv'
  BY <1>6 DEF AwaitInv, Suits
<1>7. ASSUME NEW t \in Tag, UNCHANGED handlerVars, Forgets(t)
      PROVE  AwaitInv'
  BY <1>6, <1>7 DEF Forgets, EvictRecord, handlerVars
<1>8. CASE Tick \/ UNCHANGED ivars
  BY <1>6, <1>8 DEF Tick, ivars, vars, memcachedVars, handlerVars
<1>. QED
  BY <1>1, <1>2, <1>3, <1>4, <1>5, <1>7, <1>8 DEF INext, Exec

\* Every answer goes to the call that awaits it, at the await it answers.
LEMMA Awaited == ISpec => []AwaitInv
<1>1. IInit => AwaitInv
  BY DEF IInit, Init, MemcachedInit, AwaitInv
<1>2. ITypeOK /\ AwaitInv /\ [INext]_ivars => AwaitInv'
  BY AwaitStep DEF ITypeOK
<1>. QED
  BY <1>1, <1>2, ITypeCorrect, PTL DEF ISpec

-----------------------------------------------------------------------------
(* Which commands are left, to the letter.                                 *)

\* The node takes a command from a queue, or one tag from a batch.
LEMMA ExecLeaves ==
    ASSUME MemcachedTypeOK, NEW p \in Pod, Exec(p),
           NEW q \in Pod, NEW command \in Commands(q)'
    PROVE  \/ command \in Commands(q)
           \/ /\ q = p
              /\ \E t \in Tag :
                    /\ ExecSetTag(p, t) \/ ExecAddTag(p, t)
                    /\ command = [Head(sent[p]) EXCEPT
                                    !.tags = Head(sent[p]).tags \ {t}]
<1>1. PICK i \in DOMAIN sent'[q] : command = sent'[q][i]
  BY DEF Commands
<1>2. sent[q] \in Seq(Command)
  BY DEF MemcachedTypeOK
<1>3. ASSUME sent' = [sent EXCEPT ![p] = Tail(@)], sent[p] # <<>>
      PROVE  command \in Commands(q)
  <2>1. CASE q # p
    BY <1>1, <1>3, <2>1 DEF Commands, MemcachedTypeOK
  <2>2. CASE q = p
    <3>1. sent'[q] = Tail(sent[q])
      BY <1>3, <2>2 DEF MemcachedTypeOK
    <3>2. i + 1 \in DOMAIN sent[q] /\ sent'[q][i] = sent[q][i + 1]
      BY <1>1, <1>2, <1>3, <2>2, <3>1, TailElement
    <3>. QED
      BY <1>1, <3>2 DEF Commands
  <2>. QED
    BY <2>1, <2>2
<1>4. CASE ExecGet(p) \/ ExecSet(p) \/ ExecGets(p)
  BY <1>3, <1>4 DEF ExecGet, ExecSet, ExecGets
<1>5. ASSUME NEW t \in Tag, ExecSetTag(p, t) \/ ExecAddTag(p, t)
      PROVE  \/ command \in Commands(q)
             \/ /\ q = p
                /\ command = [Head(sent[p]) EXCEPT
                                !.tags = Head(sent[p]).tags \ {t}]
  <2>. DEFINE head == Head(sent[p])
              left == [head EXCEPT !.tags = head.tags \ {t}]
  <2>1. sent[p] # <<>> /\ Executed(p, t)
    BY <1>5 DEF ExecSetTag, ExecAddTag
  <2>2. CASE head.tags \ {t} = {}
    BY <1>3, <2>1, <2>2 DEF Executed
  <2>3. CASE head.tags \ {t} # {}
    <3>1. sent' = [sent EXCEPT ![p] = <<left>> \o Tail(@)]
      BY <2>1, <2>3 DEF Executed
    <3>2. CASE q # p
      BY <1>1, <3>1, <3>2 DEF Commands, MemcachedTypeOK
    <3>3. CASE q = p
      <4>. HIDE DEF left
      <4>1. sent'[q] = <<left>> \o Tail(sent[q])
        BY <3>1, <3>3 DEF MemcachedTypeOK
      <4>2. \/ i = 1 /\ command = left
            \/ i \in DOMAIN sent[q] /\ command = sent[q][i]
        BY <1>1, <1>2, <2>1, <3>3, <4>1
      <4>. QED
        BY <3>3, <4>2 DEF Commands, left
    <3>. QED
      BY <3>2, <3>3
  <2>. QED
    BY <2>2, <2>3
<1>. QED
  BY <1>4, <1>5 DEF Exec

\* What is left of the command that is being executed is the only one its
\* caller awaits.
LEMMA ExecOwn ==
    ASSUME MemcachedTypeOK, AwaitInv, NEW p \in Pod, NEW t \in Tag,
           ExecSetTag(p, t) \/ ExecAddTag(p, t),
           Head(sent[p]).by # None,
           NEW q \in Pod, NEW command \in Commands(q)',
           command.by = Head(sent[p]).by
    PROVE  q = p /\ command = [Head(sent[p]) EXCEPT
                                 !.tags = Head(sent[p]).tags \ {t}]
<1>. DEFINE head == Head(sent[p])
            left == [head EXCEPT !.tags = head.tags \ {t}]
<1>1. PICK i \in DOMAIN sent'[q] : command = sent'[q][i]
  BY DEF Commands
<1>2. /\ sent[q] \in Seq(Command) /\ sent[p] \in Seq(Command)
      /\ sent[p] # <<>> /\ Executed(p, t)
  BY DEF MemcachedTypeOK, ExecSetTag, ExecAddTag
<1>3. 1 \in DOMAIN sent[p] /\ head = sent[p][1]
  BY <1>2
<1>4. /\ PodOf[head.by] = p
      /\ \A j \in DOMAIN sent[p] : sent[p][j].by = head.by => j = 1
  BY <1>3 DEF AwaitInv
<1>5. CASE q # p
  <2>1. sent'[q] = sent[q]
    BY <1>2, <1>5 DEF Executed, MemcachedTypeOK
  <2>2. PodOf[head.by] = q
    BY <1>1, <2>1 DEF AwaitInv
  <2>. QED
    BY <1>4, <1>5, <2>2
<1>6. CASE q = p /\ head.tags \ {t} = {}
  <2>1. sent'[p] = Tail(sent[p])
    BY <1>2, <1>6 DEF Executed, MemcachedTypeOK
  <2>2. i + 1 \in DOMAIN sent[p] /\ command = sent[p][i + 1]
    BY <1>1, <1>2, <1>6, <2>1, TailElement
  <2>3. i + 1 = 1 /\ i \in Nat \ {0}
    <3>1. Tail(sent[p]) \in Seq(Command)
      BY <1>2
    <3>. QED
      BY <1>1, <1>4, <1>6, <2>1, <2>2, <3>1
  <2>. QED
    BY <2>3
<1>7. CASE q = p /\ head.tags \ {t} # {}
  <2>1. sent'[p] = <<left>> \o Tail(sent[p])
    BY <1>2, <1>7 DEF Executed, MemcachedTypeOK
  <2>. HIDE DEF left
  <2>2. \/ i = 1 /\ command = left
        \/ i # 1 /\ i \in DOMAIN sent[p] /\ command = sent[p][i]
    BY <1>1, <1>2, <1>7, <2>1
  <2>3. command = left
    BY <1>4, <2>2
  <2>. QED
    BY <1>7, <2>3 DEF left
<1>. QED
  BY <1>5, <1>6, <1>7

\* A fault takes commands from a queue or the name from one.
LEMMA FaultLeaves ==
    ASSUME MemcachedTypeOK, Disturb \/ Restart, NEW q \in Pod,
           NEW command \in Commands(q)'
    PROVE  \E old \in Commands(q) :
              command = old \/ command = [old EXCEPT !.by = None]
<1>1. PICK i \in DOMAIN sent'[q] : command = sent'[q][i]
  BY DEF Commands
<1>2. CASE Restart
  BY <1>1, <1>2 DEF Restart
<1>3. ASSUME NEW k \in Key, EvictEntry(k)
      PROVE  command \in Commands(q)
  BY <1>1, <1>3 DEF EvictEntry, Commands
<1>4. ASSUME NEW p \in Pod, Disconnect(p)
      PROVE  command \in Commands(q)
  BY <1>1, <1>4 DEF Disconnect, Commands, MemcachedTypeOK
<1>5. ASSUME NEW c \in Caller, Timeout(c)
      PROVE  /\ i \in DOMAIN sent[q]
             /\ \/ command = sent[q][i]
                \/ command = [sent[q][i] EXCEPT !.by = None]
  BY <1>1, <1>5, PodAssumption DEF Timeout, MemcachedTypeOK
<1>. QED
  BY <1>2, <1>3, <1>4, <1>5 DEF Disturb, Commands

=============================================================================
