--------------------------- MODULE ReturnedProofs ---------------------------
(***************************************************************************)
(* When updateTags has returned, its invalidation stands unless it was     *)
(* overtaken: for any pods and clocks, any number of callers, keys and     *)
(* tags, and any faults.  On one connection, with a clock of whole         *)
(* milliseconds, it never is, and nothing takes it back.                   *)
(***************************************************************************)
EXTENDS Returned, InvalidationProofs

-----------------------------------------------------------------------------
(* What updateTags has written.                                            *)

\* The types the other lemmas need.
LEMMA ReturnedTypes ==
    ASSUME ReturnedInv
    PROVE  /\ TypeOK /\ MemcachedTypeOK /\ HandlerTypeOK
           /\ StandingInv /\ AwaitInv
           /\ call \in [Caller -> Locals]
           /\ reply \in [Caller -> Reply]
           /\ floor \in [Tag -> Int]
           /\ \A t \in Tag : 0 <= floor[t]
           /\ clock \in [Pod -> Int] /\ \A p \in Pod : 0 <= clock[p]
           /\ \A c \in Caller : /\ PodOf[c] \in Pod /\ Now(c) \in Int
                                /\ 0 <= Now(c) /\ began[c] \in Int
                                /\ began[c] <= Now(c) /\ c # None
                                /\ call[c].tags \in SUBSET Tag
<1>1. /\ TypeOK /\ MemcachedTypeOK /\ HandlerTypeOK /\ ITypeOK /\ FloorsReached
      /\ StandingInv /\ AwaitInv /\ call \in [Caller -> Locals]
      /\ reply \in [Caller -> Reply] /\ floor \in [Tag -> Int]
  BY DEF ReturnedInv, StandingInv, ITypeOK, HistoryTypeOK, TypeOK, HandlerTypeOK,
         MemcachedTypeOK, Call
<1>2. /\ clock \in [Pod -> Int] /\ \A p \in Pod : 0 <= clock[p]
      /\ \A t \in Tag : 0 <= floor[t]
  BY <1>1, ClockType DEF FloorsReached
<1>3. \A c \in Caller : PodOf[c] \in Pod /\ Now(c) \in Int /\ 0 <= Now(c) /\ c # None
  BY <1>2, PodAssumption, CallerAssumption DEF Now
<1>4. \A c \in Caller : began[c] \in Int /\ began[c] <= Now(c)
  BY <1>3 DEF ReturnedInv, BeganInPast
<1>5. \A c \in Caller : call[c].tags \in SUBSET Tag
  BY <1>1 DEF Locals
<1>. QED
  BY <1>1, <1>2, <1>3, <1>4, <1>5

\* Time does not go back.
LEMMA ClockKept ==
    ASSUME StandingInv, INext
    PROVE  /\ clock' \in [Pod -> Int]
           /\ \A p \in Pod : clock[p] <= clock'[p]
<1>1. HandlerTypeOK /\ clock \in [Pod -> Int]
  BY ClockType DEF StandingInv, ITypeOK, TypeOK
<1>2. UNCHANGED clock => /\ clock' \in [Pod -> Int]
                         /\ \A p \in Pod : clock[p] <= clock'[p]
  BY <1>1
<1>3. \A p \in Pod, t \in Tag : Lands(p, t) /\ UNCHANGED handlerVars => UNCHANGED clock
  BY DEF handlerVars
<1>. QED
  BY <1>1, <1>2, <1>3, TickClock, Kinds

\* No call of updateTags began in the future.
LEMMA BeganStep ==
    ASSUME StandingInv, BeganInPast, INext, RecordCall
    PROVE  BeganInPast'
<1>. SUFFICES ASSUME NEW c \in Caller
              PROVE  began'[c] \in 0..Now(c)'
  BY DEF BeganInPast
<1>1. Now(c) \in Nat /\ began[c] \in 0..Now(c) /\ PodOf[c] \in Pod
  BY NowType, PodAssumption
     DEF StandingInv, ITypeOK, TypeOK, BeganInPast
<1>2. Now(c)' \in Int /\ Now(c) <= Now(c)'
  BY <1>1, ClockKept, PodAssumption DEF Now
<1>3. began'[c] \in {Now(c), 0, began[c]}
  BY DEF RecordCall
<1>. QED
  BY <1>1, <1>2, <1>3

\* Only the execution of a set answers "STORED", and a batch is answered with
\* its last record.
LEMMA Acknowledged ==
    ASSUME MemcachedTypeOK, AwaitInv, NEW c \in Caller,
           call[c].pc = "update_write",
           NEW p \in Pod, Exec(p), reply'[c] = Ack, reply[c] # Ack
    PROVE  \E t \in Tag : /\ ExecSetTag(p, t) /\ Head(sent[p]).by = c
                          /\ Head(sent[p]).tags \subseteq {t}
<1>. DEFINE head == Head(sent[p])
<1>1. /\ sent[p] \in Seq(Command) /\ sent[p] # <<>>
  BY DEF MemcachedTypeOK, Exec, ExecGet, ExecSet, ExecGets, ExecSetTag, ExecAddTag
<1>2. 1 \in DOMAIN sent[p] /\ head = sent[p][1] /\ head \in Command
  BY <1>1
<1>3. head.by = c => Suits(head, call[c])
  BY <1>2, CallerAssumption DEF AwaitInv
<1>4. head.by = c => head.kind = "set_tags"
  BY <1>3 DEF Suits
<1>5. ASSUME NEW answer, reply' = Answered(head, answer)
      PROVE  head.by = c
  BY <1>2, <1>5 DEF Answered, MemcachedTypeOK, Command, Awaiter
<1>6. ~ExecGet(p) /\ ~ExecSet(p) /\ ~ExecGets(p)
  BY <1>4, <1>5 DEF ExecGet, ExecSet, ExecGets
<1>7. PICK t \in Tag : ExecSetTag(p, t) \/ ExecAddTag(p, t)
  BY <1>6 DEF Exec
<1>8. head.tags \ {t} = {} /\ reply' = Answered(head, Ack)
  BY <1>7 DEF ExecSetTag, ExecAddTag, Executed
<1>9. head.by = c
  BY <1>5, <1>8
<1>. QED
  BY <1>4, <1>7, <1>8, <1>9 DEF ExecAddTag

\* A stamp is not behind by more than Behind.
LEMMA BatchBehind ==
    ASSUME TypeOK, NEW c \in Caller
    PROVE  Behind \in Nat /\ Batch(c).at \in Int /\ Now(c) <= Batch(c).at + Behind
<1>1. Now(c) \in Int
  BY NowType DEF TypeOK
<1>2. Behind \in Nat
  BY SubAssumption DEF Behind
<1>. QED
  BY <1>1, <1>2, RoundNear DEF Batch, Behind

\* What stands of a call that goes on stands on, unless it is overtaken.
LEMMA NotOvertaken ==
    ASSUME ReturnedInv, INext, RecordCall, NEW c \in Caller,
           call'[c].pc = "update_write", NEW t \in call[c].tags,
           t \notin overtaken'[c]
    PROVE  /\ t \in Tag /\ t \notin overtaken[c]
           /\ floor'[t] \in Int /\ floor[t] \in Int /\ floor'[t] >= floor[t]
           /\ ~StoredEarly(c, t)
<1>1. t \in Tag /\ floor[t] \in Int
  BY ReturnedTypes
<1>2. floor'[t] \in Int
  <2>1. ITypeOK'
    BY INextType DEF ReturnedInv, StandingInv
  <2>. QED
    BY <1>1, <2>1 DEF ITypeOK, HistoryTypeOK
<1>3. overtaken'[c] = overtaken[c] \cup
                        {w \in call[c].tags : StoredEarly(c, w) \/ floor'[w] < floor[w]}
  BY DEF RecordCall
<1>4. t \notin overtaken[c] /\ ~StoredEarly(c, t) /\ ~(floor'[t] < floor[t])
  BY <1>3
<1>. QED
  BY <1>1, <1>2, <1>4

\* What updateTags writes is not older than its call, and stands when it is no
\* longer on its way.
LEMMA WrittenStep ==
    ASSUME ReturnedInv, INext, RecordCall
    PROVE  WrittenStands'
<1>0. /\ TypeOK /\ MemcachedTypeOK /\ StandingInv /\ AwaitInv
      /\ Behind \in Nat
      /\ \A c \in Caller : /\ began[c] \in Int /\ Now(c) \in Int /\ c # None
                           /\ began[c] <= Now(c) /\ call[c].tags \in SUBSET Tag
      /\ call \in [Caller -> Locals] /\ reply \in [Caller -> Reply]
  BY ReturnedTypes, SubAssumption DEF Behind
<1>. SUFFICES ASSUME NEW c \in Caller, call'[c].pc = "update_write"
              PROVE  /\ reply'[c] = Ack =>
                            \A t \in call'[c].tags :
                               t \in overtaken'[c] \/ floor'[t] >= began'[c] - Behind
                     /\ \A p \in Pod : \A command \in Commands(p)' :
                           command.by = c =>
                              /\ command.at >= began'[c] - Behind
                              /\ \A t \in call'[c].tags \ command.tags :
                                    t \in overtaken'[c] \/ floor'[t] >= began'[c] - Behind
  BY DEF WrittenStands, Stands
<1>. DEFINE Ok(t) == t \in overtaken'[c] \/ floor'[t] >= began[c] - Behind
<1>2. began'[c] = began[c]
  BY DEF RecordCall, Moves
<1>1. ASSUME NEW t \in call[c].tags,
             t \in overtaken[c] \/ floor[t] >= began[c] - Behind
      PROVE  Ok(t)
  BY <1>0, <1>1, NotOvertaken
<1>3. ASSUME call[c].pc = "update_write", reply[c] = Ack, NEW t \in call[c].tags
      PROVE  Ok(t)
  <2>1. t \in overtaken[c] \/ floor[t] >= began[c] - Behind
    BY <1>3 DEF ReturnedInv, WrittenStands, Stands
  <2>. QED
    BY <1>1, <2>1
<1>4. ASSUME call[c].pc = "update_write", NEW p \in Pod,
             NEW command \in Commands(p), command.by = c
      PROVE  /\ command.at >= began[c] - Behind
             /\ \A t \in call[c].tags \ command.tags : Ok(t)
  <2>1. /\ command.at >= began[c] - Behind
        /\ \A t \in call[c].tags \ command.tags :
              t \in overtaken[c] \/ floor[t] >= began[c] - Behind
    BY <1>4 DEF ReturnedInv, WrittenStands, Stands
  <2>. QED
    BY <1>1, <2>1
\* The call and its answer are as they were, and so is what it has sent.
<1>5. ASSUME call[c].pc = "update_write", call'[c].tags = call[c].tags,
             reply'[c] = Ack => reply[c] = Ack,
             \A p \in Pod : \A command \in Commands(p)' :
                command.by = c => command \in Commands(p)
      PROVE  /\ reply'[c] = Ack =>
                   \A t \in call'[c].tags : Ok(t)
             /\ \A p \in Pod : \A command \in Commands(p)' : command.by = c =>
                   /\ command.at >= began[c] - Behind
                   /\ \A t \in call'[c].tags \ command.tags : Ok(t)
  BY <1>2, <1>3, <1>4, <1>5
<1>6. ASSUME UNCHANGED call, Disturb \/ Restart
      PROVE  /\ reply'[c] = Ack => reply[c] = Ack
             /\ \A p \in Pod : \A command \in Commands(p)' :
                   command.by = c => command \in Commands(p)
  <2>1. reply'[c] = Ack => reply[c] = Ack
    BY <1>0, <1>6, ReplyAssumption
       DEF Disturb, EvictEntry, Disconnect, Timeout, Restart
  <2>2. ASSUME NEW p \in Pod, NEW command \in Commands(p)', command.by = c
        PROVE  command \in Commands(p)
    <3>1. PICK old \in Commands(p) :
             command = old \/ command = [old EXCEPT !.by = None]
      BY <1>0, <1>6, FaultLeaves
    <3>2. [old EXCEPT !.by = None].by = None
      <4>1. old \in Command
        BY <1>0, CommandsType
      <4>. QED
        BY <4>1 DEF Command
    <3>. QED
      BY <1>0, <2>2, <3>1, <3>2
  <2>. QED
    BY <2>1, <2>2
\* The node executes a record of the batch.
<1>7. ASSUME UNCHANGED call, NEW q \in Pod, NEW w \in Tag, Lands(q, w),
             Head(sent[q]).by = c
      PROVE  /\ reply'[c] = Ack =>
                   \A t \in call[c].tags : Ok(t)
             /\ \A p \in Pod : \A command \in Commands(p)' : command.by = c =>
                   /\ command.at >= began[c] - Behind
                   /\ \A t \in call[c].tags \ command.tags : Ok(t)
  <2>. DEFINE head == Head(sent[q])
  <2>1. /\ head \in Commands(q) /\ head.kind = "set_tags" /\ head \in Command
        /\ head.at \in Int
    BY <1>0, <1>7, LandsType, CommandsType DEF StandingInv, Command
  <2>2. call[c].pc = "update_write"
    BY <1>7
  <2>3. /\ head.at >= began[c] - Behind
        /\ \A t \in call[c].tags \ head.tags : Ok(t)
    BY <1>4, <1>7, <2>1, <2>2
  <2>7. ASSUME w \in call[c].tags
        PROVE  Ok(w)
    <3>. SUFFICES ASSUME w \notin overtaken'[c]
                  PROVE  floor'[w] >= began[c] - Behind
      OBVIOUS
    <3>1. ~StoredEarly(c, w) /\ floor[w] \in Int /\ floor \in [Tag -> Int]
      BY <1>0, <2>7, NotOvertaken, ReturnedTypes
    <3>2. ~OnItsWay("set_tags", w, head.at)
      <4>1. sent[q] # <<>>
        BY <1>7 DEF Lands, ExecSetTag
      <4>. QED
        BY <1>7, <3>1, <4>1 DEF StoredEarly
    <3>3. floor'[w] = Later(floor[w], head.at)
      BY <1>7, <3>1, <3>2 DEF Lands
    <3>4. floor'[w] \in Int /\ floor'[w] >= head.at
      BY <2>1, <3>1, <3>3 DEF Later
    <3>. QED
      BY <1>0, <2>1, <2>3, <3>4
  <2>4. \A t \in call[c].tags \ (head.tags \ {w}) : Ok(t)
    BY <2>3, <2>7
  <2>5. ASSUME NEW p \in Pod, NEW command \in Commands(p)', command.by = c
        PROVE  /\ command.at >= began[c] - Behind
               /\ \A t \in call[c].tags \ command.tags : Ok(t)
    <3>1. command = [head EXCEPT !.tags = head.tags \ {w}]
      BY <1>0, <1>7, <2>5, ExecOwn DEF Lands
    <3>2. command.at = head.at /\ command.tags = head.tags \ {w}
      BY <2>1, <3>1 DEF Command
    <3>. QED
      BY <2>3, <2>4, <3>2
  <2>6. ASSUME reply'[c] = Ack, NEW t \in call[c].tags
        PROVE  Ok(t)
    <3>1. CASE reply[c] = Ack
      BY <1>3, <2>2, <2>6, <3>1
    <3>2. CASE reply[c] # Ack
      <4>1. Executed(q, w) /\ head.tags \ {w} = {}
        BY <1>7, <2>6, <3>2 DEF Lands, ExecSetTag, Executed
      <4>. QED
        BY <2>4, <2>6, <4>1
    <3>. QED
      BY <3>1, <3>2
  <2>. QED
    BY <2>5, <2>6
\* It executes something else.
<1>8. ASSUME UNCHANGED call, NEW q \in Pod, Exec(q),
             ~\E w \in Tag : ExecSetTag(q, w) /\ Head(sent[q]).by = c
      PROVE  /\ reply'[c] = Ack => reply[c] = Ack
             /\ \A p \in Pod : \A command \in Commands(p)' :
                   command.by = c => command \in Commands(p)
  <2>1. reply'[c] = Ack => reply[c] = Ack
    BY <1>0, <1>8, Acknowledged
  <2>2. ASSUME NEW p \in Pod, NEW command \in Commands(p)', command.by = c,
               command \notin Commands(p)
        PROVE  FALSE
    <3>1. PICK t \in Tag :
             /\ ExecSetTag(q, t) \/ ExecAddTag(q, t)
             /\ command = [Head(sent[q]) EXCEPT !.tags = Head(sent[q]).tags \ {t}]
      BY <1>0, <1>8, <2>2, ExecLeaves
    <3>2. sent[q] # <<>> /\ Head(sent[q]).kind \in {"set_tags", "add_tags"}
      BY <3>1 DEF ExecSetTag, ExecAddTag
    <3>3. /\ Head(sent[q]) \in Command /\ sent[q] \in Seq(Command)
      BY <1>0, <3>2, HeadType DEF MemcachedTypeOK
    <3>4. Head(sent[q]).by = c
      BY <2>2, <3>1, <3>2, <3>3 DEF Command
    <3>5. ExecAddTag(q, t)
      BY <1>8, <3>1, <3>4
    <3>6. Head(sent[q]) = sent[q][1] /\ 1 \in DOMAIN sent[q]
      BY <3>2, <3>3
    <3>7. Suits(Head(sent[q]), call[c])
      BY <1>0, <3>4, <3>6 DEF AwaitInv
    <3>. QED
      BY <3>5, <3>7 DEF ExecAddTag, Suits
  <2>. QED
    BY <2>1, <2>2
\* A call makes a step.
<1>9. ASSUME NEW d \in Caller,
             \/ StartGet(d) \/ StartSet(d) \/ StartUpdate(d)
             \/ Step(d) \/ GetEnd(d)
      PROVE  /\ reply'[c] = Ack =>
                   \A t \in call'[c].tags : Ok(t)
             /\ \A p \in Pod : \A command \in Commands(p)' : command.by = c =>
                   /\ command.at >= began[c] - Behind
                   /\ \A t \in call'[c].tags \ command.tags : Ok(t)
  <2>0. \/ UNCHANGED sent
        \/ \E new \in Command :
              /\ sent' = [sent EXCEPT ![PodOf[d]] = Append(@, new)]
              /\ \/ new.kind \in {"get", "set", "gets"}
                 \/ UpdateWrite(d) /\ new = Batch(d)
                 \/ new = Reseed(ColdTags(reply[d].records, call[d].tags), Now(d))
    BY <1>0, <1>9, CallAppends
  <2>1. CASE c # d
    <3>1. /\ call[c].pc = "update_write" /\ call'[c].tags = call[c].tags
          /\ reply'[c] = reply[c]
      BY <1>0, <1>9, <2>1, OthersStep
    <3>2. AwaitInv' /\ MemcachedTypeOK'
      BY <1>0, <1>9, CallAwait, INextType DEF StandingInv, ITypeOK, TypeOK
    <3>3. ASSUME NEW p \in Pod, NEW command \in Commands(p)', command.by = c
          PROVE  command \in Commands(p)
      <4>1. command.kind = "set_tags"
        BY <1>0, <3>2, <3>3 DEF Commands, AwaitInv, Suits
      <4>2. UNCHANGED sent => command \in Commands(p)
        BY <3>3 DEF Commands
      <4>3. ASSUME NEW new \in Command,
                   sent' = [sent EXCEPT ![PodOf[d]] = Append(@, new)],
                   \/ new.kind \in {"get", "set", "gets"}
                   \/ UpdateWrite(d) /\ new = Batch(d)
                   \/ new = Reseed(ColdTags(reply[d].records, call[d].tags), Now(d))
            PROVE  command \in Commands(p)
        <5>1. command = new \/ command \in Commands(p)
          BY <1>0, <4>3, SendNew
        <5>2. new.kind = "set_tags" => new.by = d
          BY <4>3 DEF Batch, Reseed
        <5>. QED
          BY <2>1, <3>3, <4>1, <5>1, <5>2
      <4>. QED
        BY <2>0, <4>2, <4>3
    <3>. QED
      BY <1>5, <3>1, <3>3
  <2>2. CASE c = d
    <3>1. UpdateWrite(c)
      BY <1>0, <1>9, <2>2, OwnStep
    <3>2. /\ sent' = [sent EXCEPT ![PodOf[c]] = Append(@, Batch(c))]
          /\ reply' = [reply EXCEPT ![c] = NoReply]
          /\ call' = [call EXCEPT ![c] = [call[c] EXCEPT !.pc = "update_write"]]
          /\ reply[c] \in TagReply
      BY <1>0, <3>1 DEF UpdateWrite, Send, Batch
    <3>3. call'[c].tags = call[c].tags
      BY <1>0, <3>2 DEF Locals
    <3>4. reply'[c] # Ack
      BY <1>0, <3>2, ReplyAssumption
    <3>5. /\ Batch(c).at >= began[c] - Behind /\ Batch(c).tags = call[c].tags
          /\ Batch(c).kind = "set_tags"
      <4>1. Batch(c).at \in Int /\ Now(c) <= Batch(c).at + Behind
        BY <1>0, BatchBehind
      <4>. QED
        BY <1>0, <4>1 DEF Batch
    <3>6. NotAwaited(c)
      BY <3>2, ReplyAssumption DEF NotAwaited
    <3>7. ASSUME NEW p \in Pod, NEW command \in Commands(p)', command.by = c
          PROVE  command = Batch(c)
      <4>1. command \notin Commands(p)
        BY <1>0, <3>6, <3>7, Unnamed DEF Commands
      <4>2. Batch(c) \in Command
        BY <1>0, <3>1, BatchType
      <4>. QED
        BY <1>0, <3>2, <4>1, <4>2, SendNew
    <3>. QED
      BY <1>0, <1>2, <3>3, <3>4, <3>5, <3>7
  <2>. QED
    BY <2>1, <2>2
\* The rest touches neither calls, nor answers, nor queues.
<1>10. ASSUME UNCHANGED <<call, reply, sent>>
       PROVE  /\ reply'[c] = Ack => reply[c] = Ack
              /\ \A p \in Pod : \A command \in Commands(p)' :
                    command.by = c => command \in Commands(p)
  BY <1>10 DEF Commands
<1>11. ASSUME UNCHANGED call
       PROVE  call[c].pc = "update_write" /\ call'[c].tags = call[c].tags
  BY <1>11
<1>12. ASSUME NEW w \in Tag, Forgets(w)
       PROVE  UNCHANGED <<reply, sent>>
  BY <1>12 DEF Forgets, EvictRecord
<1>13. ASSUME UNCHANGED call, NEW q \in Pod, Exec(q),
              \/ ExecGet(q) \/ ExecSet(q) \/ ExecGets(q)
              \/ \E w \in Tag : ExecAddTag(q, w) \/ Lands(q, w)
       PROVE  /\ reply'[c] = Ack =>
                    \A t \in call'[c].tags : Ok(t)
              /\ \A p \in Pod : \A command \in Commands(p)' : command.by = c =>
                    /\ command.at >= began[c] - Behind
                    /\ \A t \in call'[c].tags \ command.tags : Ok(t)
  <2>1. CASE \E w \in Tag : Lands(q, w) /\ Head(sent[q]).by = c
    BY <1>2, <1>7, <1>13, <2>1
  <2>2. CASE ~\E w \in Tag : Lands(q, w) /\ Head(sent[q]).by = c
    <3>1. ~\E w \in Tag : ExecSetTag(q, w) /\ Head(sent[q]).by = c
      BY <1>13, <2>2 DEF ExecGet, ExecSet, ExecGets, ExecAddTag, ExecSetTag
    <3>. QED
      BY <1>5, <1>8, <1>11, <1>13, <3>1
  <2>. QED
    BY <2>1, <2>2
<1>14. /\ reply'[c] = Ack => \A t \in call'[c].tags : Ok(t)
       /\ \A p \in Pod : \A command \in Commands(p)' : command.by = c =>
             /\ command.at >= began[c] - Behind
             /\ \A t \in call'[c].tags \ command.tags : Ok(t)
  <2>. HIDE DEF Ok
  <2>. QED
    BY <1>0, <1>5, <1>6, <1>9, <1>10, <1>11, <1>12, <1>13, Kinds
<1>. QED
  BY <1>2, <1>14

-----------------------------------------------------------------------------
(* The theorem.                                                            *)

\* Nothing has been written.
LEMMA ReturnedInit == RInit => ReturnedInv
<1>. SUFFICES ASSUME RInit PROVE ReturnedInv
  OBVIOUS
<1>. USE DEF RInit, IInit, Init, MemcachedInit
<1>1. StandingInv
  BY StandingInit
<1>2. AwaitInv
  BY DEF AwaitInv
<1>3. BeganInPast
  BY PodAssumption DEF BeganInPast, Now
<1>4. WrittenStands
  BY DEF WrittenStands, Idle
<1>. QED
  BY <1>1, <1>2, <1>3, <1>4 DEF ReturnedInv

\* The invariant is inductive.
LEMMA ReturnedStep == ReturnedInv /\ [INext /\ RecordCall]_rvars => ReturnedInv'
<1>1. ASSUME ReturnedInv, INext, RecordCall
      PROVE  ReturnedInv'
  <2>1. StandingInv'
    BY <1>1, StandingStep DEF ReturnedInv
  <2>2. AwaitInv'
    BY <1>1, AwaitStep DEF ReturnedInv, StandingInv, ITypeOK
  <2>3. BeganInPast'
    BY <1>1, BeganStep DEF ReturnedInv
  <2>. QED
    BY <1>1, <2>1, <2>2, <2>3, WrittenStep DEF ReturnedInv
<1>2. ASSUME ReturnedInv, UNCHANGED rvars
      PROVE  ReturnedInv'
  <2>1. UNCHANGED ivars
    BY <1>2 DEF rvars
  <2>2. StandingInv' /\ AwaitInv'
    BY <1>2, <2>1, StandingStep, AwaitStep DEF ReturnedInv, StandingInv, ITypeOK
  <2>3. UNCHANGED <<sent, reply, call, clock, floor, began, overtaken>>
    BY <1>2 DEF rvars, ivars, vars, memcachedVars, handlerVars, historyVars
  <2>4. BeganInPast' /\ WrittenStands'
    BY <1>2, <2>3 DEF ReturnedInv, BeganInPast, WrittenStands, Stands, Commands, Now
  <2>. QED
    BY <2>2, <2>4 DEF ReturnedInv
<1>. QED
  BY <1>1, <1>2

\* What a batch has no longer on its way is stored, unless overtaken: the
\* inductive invariant of the next theorem (bumpTags, Promise.all).
THEOREM ReturnedInductive == RSpec => []ReturnedInv
<1>. QED
  BY ReturnedInit, ReturnedStep, PTL DEF RSpec

\* When updateTags returns without an error the invalidation of each of its
\* tags stands, on any pods, with any clocks and under all faults, except for
\* the tags of which an older record was still on its way when its own was
\* stored, or an older re-seed when it was evicted.
THEOREM ReturnedStands == RSpec => ReturnedUnlessOvertaken
<1>. DEFINE Step1 ==
              \A c \in Caller : Returns(c) =>
                 \A t \in call[c].tags \ overtaken[c] : floor'[t] >= began[c] - Behind
<1>1. ReturnedInv /\ [INext /\ RecordCall]_rvars => Step1
  <2>. SUFFICES ASSUME ReturnedInv, [INext /\ RecordCall]_rvars,
                       NEW c \in Caller, Returns(c),
                       NEW t \in call[c].tags \ overtaken[c]
                PROVE  floor'[t] >= began[c] - Behind
    OBVIOUS
  <2>1. call[c].pc = "update_write" /\ ~UNCHANGED call /\ reply[c] = Ack
    BY DEF Returns, Moves
  <2>2. floor[t] >= began[c] - Behind
    BY <2>1 DEF ReturnedInv, WrittenStands, Stands
  <2>3. UNCHANGED floor
    <3>1. INext
      BY <2>1 DEF rvars, ivars, vars, handlerVars
    <3>. QED
      BY <2>1, <3>1, Kinds DEF ReturnedInv
  <2>. QED
    BY <2>2, <2>3
<1>2. RSpec => [][Step1]_rvars
  BY <1>1, ReturnedInductive, PTL DEF RSpec
<1>. QED
  BY <1>2 DEF ReturnedUnlessOvertaken

-----------------------------------------------------------------------------
(* One connection and whole milliseconds.                                  *)

\* All callers share one pod and its connection.
OneConnection == \A p, q \in Pod : p = q

\* No queued record is older than the one at the head of the queue.
LEMMA HeadFirst ==
    ASSUME MemcachedTypeOK, QueueInOrder, NEW p \in Pod, sent[p] # <<>>,
           WritesRecord(Head(sent[p])), NEW command \in Commands(p),
           WritesRecord(command)
    PROVE  Head(sent[p]).at <= command.at
<1>1. /\ sent[p] \in Seq(Command) /\ 1 \in DOMAIN sent[p]
      /\ Head(sent[p]) = sent[p][1]
  BY DEF MemcachedTypeOK
<1>2. PICK i \in DOMAIN sent[p] : command = sent[p][i]
  BY DEF Commands
<1>3. i = 1 \/ 1 < i
  BY <1>1
<1>4. Head(sent[p]).at \in Int
  BY HeadType DEF WritesRecord, Command
<1>. QED
  BY <1>1, <1>2, <1>3, <1>4 DEF QueueInOrder

\* A record that is stored is the latest of its tag.
LEMMA LandsLast ==
    ASSUME OneConnection, ReturnedInv, OrderedInv, NEW p \in Pod, NEW t \in Tag, Lands(p, t)
    PROVE  /\ floor' = [floor EXCEPT ![t] = Head(sent[p]).at]
           /\ Head(sent[p]).at \in Int
           /\ floor[t] <= Head(sent[p]).at
           /\ ~OnItsWay("set_tags", t, Head(sent[p]).at)
           /\ \A w \in Tag : floor[w] <= floor'[w]
<1>. DEFINE head == Head(sent[p])
<1>1. /\ head \in Commands(p) /\ head.kind = "set_tags" /\ t \in head.tags
      /\ head.at \in Int /\ sent[p] # <<>>
  BY LandsType DEF ReturnedInv, StandingInv, Lands, ExecSetTag
<1>2. floor[t] <= head.at /\ floor \in [Tag -> Int] /\ MemcachedTypeOK
  BY <1>1, ReturnedTypes DEF OrderedInv, StampsBetween, WritesRecord
<1>3. ~OnItsWay("set_tags", t, head.at)
  <2>. SUFFICES ASSUME NEW q \in Pod, NEW command \in Commands(q),
                       command.kind = "set_tags"
                PROVE  ~(command.at < head.at)
    BY DEF OnItsWay
  <2>1. q = p
    BY DEF OneConnection
  <2>2. head.at <= command.at
    BY <1>1, <1>2, <2>1, HeadFirst DEF OrderedInv, WritesRecord
  <2>3. command.at \in Int
    BY <1>2, CommandsType DEF Command
  <2>. QED
    BY <1>1, <2>2, <2>3
<1>4. floor' = [floor EXCEPT ![t] = Later(@, head.at)]
  BY <1>3 DEF Lands
<1>5. Later(floor[t], head.at) = head.at
  BY <1>1, <1>2 DEF Later
<1>6. floor' = [floor EXCEPT ![t] = head.at]
  BY <1>2, <1>4, <1>5
<1>7. \A w \in Tag : floor[w] <= floor'[w]
  BY <1>1, <1>2, <1>6
<1>. QED
  BY <1>1, <1>2, <1>3, <1>6, <1>7

\* An eviction takes nothing back: no re-seed on its way is older.
LEMMA ForgetsNothing ==
    ASSUME OneConnection, ReturnedInv, OrderedInv, NEW t \in Tag, Forgets(t)
    PROVE  UNCHANGED floor
<1>1. ~OnItsWay("add_tags", t, floor[t])
  <2>. SUFFICES ASSUME NEW p \in Pod, NEW command \in Commands(p),
                       command.kind = "add_tags"
                PROVE  ~(command.at < floor[t])
    BY DEF OnItsWay
  <2>1. floor[t] <= command.at
    BY DEF OrderedInv, StampsBetween, WritesRecord
  <2>2. command.at \in Int /\ floor[t] \in Int
    BY ReturnedTypes, CommandsType DEF Command
  <2>. QED
    BY <2>1, <2>2
<1>. QED
  BY <1>1 DEF Forgets, historyVars

\* What stands only ever gets later.
LEMMA FloorsKept ==
    ASSUME OneConnection, ReturnedInv, OrderedInv, INext
    PROVE  \A t \in Tag : floor[t] <= floor'[t] /\ floor'[t] \in Int
<1>1. \A t \in Tag : floor[t] \in Int
  BY ReturnedTypes
<1>2. UNCHANGED floor => \A t \in Tag : floor[t] <= floor'[t] /\ floor'[t] \in Int
  BY <1>1
<1>3. ASSUME NEW p \in Pod, NEW w \in Tag, Lands(p, w)
      PROVE  \A t \in Tag : floor[t] <= floor'[t] /\ floor'[t] \in Int
  BY <1>1, <1>3, LandsLast, ReturnedTypes
<1>. QED
  BY <1>2, <1>3, ForgetsNothing, Kinds DEF ReturnedInv

-----------------------------------------------------------------------------
(* What is on its way.                                                     *)

\* What a step leaves in the queues: what was there, or that and one command
\* of the present.
LEMMA Queues ==
    ASSUME Sub = 1, ReturnedInv, INext
    PROVE  \/ NothingNew
           \/ \E c \in Caller, new \in Command :
                 /\ sent' = [sent EXCEPT ![PodOf[c]] = Append(@, new)]
                 /\ WritesRecord(new) => new.at = Now(c)
                 /\ UNCHANGED <<clock, floor>>
<1>0. TypeOK /\ MemcachedTypeOK
  BY ReturnedTypes
<1>1. ASSUME NEW c \in Caller, UNCHANGED <<clock, floor>>,
             \/ StartGet(c) \/ StartSet(c) \/ StartUpdate(c)
             \/ Step(c) \/ GetEnd(c)
      PROVE  \/ NothingNew
             \/ \E new \in Command :
                   /\ sent' = [sent EXCEPT ![PodOf[c]] = Append(@, new)]
                   /\ WritesRecord(new) => new.at = Now(c)
  <2>1. Batch(c).at = Now(c)
    BY <1>0, RoundWhole, NowType DEF Batch, TypeOK
  <2>2. \A cold : Reseed(cold, Now(c)).at = Now(c)
    BY DEF Reseed
  <2>3. UNCHANGED sent => NothingNew
    BY <1>0, SameNothingNew
  <2>. QED
    BY <1>0, <1>1, <2>1, <2>2, <2>3, CallAppends DEF WritesRecord
<1>2. UNCHANGED sent => NothingNew
  BY <1>0, SameNothingNew
<1>3. Restart => NothingNew
  <2>1. ASSUME Restart, NEW q \in Pod
        PROVE  Follows(q, 0)
    BY <2>1 DEF Restart, Follows
  <2>. QED
    BY <2>1 DEF NothingNew
<1>4. \A t \in Tag : Forgets(t) => UNCHANGED sent
  BY DEF Forgets, EvictRecord
<1>. QED
  BY <1>1, <1>2, <1>3, <1>4, Kinds DEF ReturnedInv

\* The queue of the one connection stays in the order of the stamps.
LEMMA OrderStep ==
    ASSUME Sub = 1, OneConnection, ReturnedInv, OrderedInv, INext
    PROVE  QueueInOrder'
<1>0. MemcachedTypeOK
  BY ReturnedTypes
<1>. SUFFICES ASSUME NEW p \in Pod, NEW i \in DOMAIN sent'[p],
                     NEW j \in DOMAIN sent'[p], i < j,
                     WritesRecord(sent'[p][i]), WritesRecord(sent'[p][j])
              PROVE  sent'[p][i].at <= sent'[p][j].at
  BY DEF QueueInOrder
<1>1. sent[p] \in Seq(Command) /\ DOMAIN sent[p] \subseteq Int
  BY <1>0 DEF MemcachedTypeOK
<1>2. DOMAIN sent'[p] \subseteq Int
  <2>1. MemcachedTypeOK'
    BY INextType DEF ReturnedInv, StandingInv, ITypeOK, TypeOK
  <2>. QED
    BY <2>1 DEF MemcachedTypeOK
<1>3. CASE NothingNew
  <2>1. PICK shift \in {0, 1} : Follows(p, shift)
    BY <1>3 DEF NothingNew
  <2>2. /\ i + shift \in DOMAIN sent[p] /\ From(sent'[p][i], sent[p][i + shift])
        /\ j + shift \in DOMAIN sent[p] /\ From(sent'[p][j], sent[p][j + shift])
    BY <2>1 DEF Follows
  <2>3. /\ WritesRecord(sent[p][i + shift])
        /\ sent'[p][i].at = sent[p][i + shift].at
        /\ WritesRecord(sent[p][j + shift])
        /\ sent'[p][j].at = sent[p][j + shift].at
    BY <2>2 DEF From, WritesRecord
  <2>4. i + shift < j + shift
    BY <1>2
  <2>. QED
    BY <2>2, <2>3, <2>4 DEF OrderedInv, QueueInOrder
<1>4. ASSUME NEW c \in Caller, NEW new \in Command,
             sent' = [sent EXCEPT ![PodOf[c]] = Append(@, new)],
             WritesRecord(new) => new.at = Now(c)
      PROVE  sent'[p][i].at <= sent'[p][j].at
  <2>1. p = PodOf[c]
    BY PodAssumption DEF OneConnection
  <2>2. sent'[p] = Append(sent[p], new)
    BY <1>0, <1>4, <2>1 DEF MemcachedTypeOK
  <2>3. i \in DOMAIN sent[p] /\ sent'[p][i] = sent[p][i]
    BY <1>1, <1>2, <2>2
  <2>4. CASE j \in DOMAIN sent[p] /\ sent'[p][j] = sent[p][j]
    BY <2>3, <2>4 DEF OrderedInv, QueueInOrder
  <2>5. CASE sent'[p][j] = new
    <3>1. sent[p][i].at <= clock[p]
      BY <2>3 DEF OrderedInv, StampsBetween, Commands
    <3>. QED
      BY <1>4, <2>1, <2>3, <2>5, <3>1 DEF Now
  <2>6. sent'[p][j] = new \/ (j \in DOMAIN sent[p] /\ sent'[p][j] = sent[p][j])
    BY <1>1, <2>2
  <2>. QED
    BY <2>4, <2>5, <2>6
<1>. QED
  BY <1>3, <1>4, Queues

\* What is on its way stays between what stands and the present.
LEMMA StampsStep ==
    ASSUME Sub = 1, OneConnection, ReturnedInv, OrderedInv, INext
    PROVE  StampsBetween'
<1>0. /\ MemcachedTypeOK /\ StampsBetween /\ StandingInv
      /\ floor \in [Tag -> Int] /\ clock \in [Pod -> Int]
  BY ReturnedTypes DEF OrderedInv
<1>1. /\ clock' \in [Pod -> Int]
      /\ \A p \in Pod : clock[p] <= clock'[p]
  BY <1>0, ClockKept
\* What the floors may become.
<1>2. \/ UNCHANGED floor
      \/ \E q \in Pod, w \in Tag :
            /\ Lands(q, w)
            /\ floor' = [floor EXCEPT ![w] = Head(sent[q]).at]
  BY <1>0, LandsLast, ForgetsNothing, Kinds
<1>3. ASSUME NEW p \in Pod, NEW old \in Commands(p), WritesRecord(old)
      PROVE  /\ old.at \in Int /\ old.at <= clock'[p]
             /\ \A t \in Tag : floor'[t] <= old.at
  <2>1. /\ old.at \in Int /\ old.at <= clock[p]
        /\ \A t \in Tag : floor[t] <= old.at
    BY <1>0, <1>3, CommandsType DEF StampsBetween, WritesRecord, Command
  <2>2. ASSUME NEW q \in Pod, NEW w \in Tag, Lands(q, w),
               floor' = [floor EXCEPT ![w] = Head(sent[q]).at]
        PROVE  \A t \in Tag : floor'[t] <= old.at
    <3>1. q = p
      BY DEF OneConnection
    <3>2. sent[p] # <<>> /\ WritesRecord(Head(sent[p]))
      BY <2>2, <3>1 DEF Lands, ExecSetTag, WritesRecord
    <3>3. Head(sent[p]).at <= old.at
      BY <1>0, <1>3, <3>2, HeadFirst DEF OrderedInv
    <3>. QED
      BY <1>0, <2>1, <2>2, <3>1, <3>3
  <2>3. old.at <= clock'[p]
    BY <1>0, <1>1, <2>1
  <2>. QED
    BY <1>2, <2>1, <2>2, <2>3
<1>4. ASSUME NEW t \in Tag, NEW p \in Pod
      PROVE  floor'[t] <= clock'[p]
  <2>1. floor[t] <= clock[p]
    BY <1>0 DEF StampsBetween
  <2>2. ASSUME NEW q \in Pod, NEW w \in Tag, Lands(q, w),
               floor' = [floor EXCEPT ![w] = Head(sent[q]).at]
        PROVE  floor'[t] <= clock'[p]
    <3>1. q = p
      BY DEF OneConnection
    <3>2. Head(sent[p]) \in Commands(p) /\ WritesRecord(Head(sent[p]))
      BY <1>0, <2>2, <3>1, LandsType DEF StandingInv, WritesRecord
    <3>3. Head(sent[p]).at <= clock'[p] /\ Head(sent[p]).at \in Int
      BY <1>3, <3>2
    <3>. QED
      BY <1>0, <1>1, <2>1, <2>2, <3>1, <3>3
  <2>3. CASE UNCHANGED floor
    BY <1>0, <1>1, <2>1, <2>3
  <2>. QED
    BY <1>2, <2>2, <2>3
<1>5. ASSUME NEW p \in Pod, NEW command \in Commands(p)', WritesRecord(command)
      PROVE  command.at <= clock'[p] /\ \A t \in Tag : floor'[t] <= command.at
  <2>1. CASE NothingNew
    <3>1. PICK old \in Commands(p) : From(command, old)
      BY <2>1, FromOld
    <3>2. WritesRecord(old) /\ command.at = old.at
      BY <1>5, <3>1 DEF From, WritesRecord
    <3>. QED
      BY <1>3, <3>2
  <2>2. ASSUME NEW c \in Caller, NEW new \in Command,
               sent' = [sent EXCEPT ![PodOf[c]] = Append(@, new)],
               WritesRecord(new) => new.at = Now(c),
               UNCHANGED <<clock, floor>>
        PROVE  command.at <= clock'[p] /\ \A t \in Tag : floor'[t] <= command.at
    <3>1. p = PodOf[c]
      BY PodAssumption DEF OneConnection
    <3>2. command = new \/ command \in Commands(p)
      BY <1>0, <2>2, SendNew
    <3>3. CASE command = new
      <4>1. command.at = clock[p]
        BY <1>5, <2>2, <3>1, <3>3 DEF Now
      <4>. QED
        BY <1>0, <2>2, <4>1 DEF StampsBetween
    <3>. QED
      BY <1>3, <1>5, <3>2, <3>3
  <2>. QED
    BY <2>1, <2>2, Queues
<1>. QED
  BY <1>4, <1>5 DEF StampsBetween

\* No call is overtaken: an older record would have been written first.
LEMMA OvertakenStep ==
    ASSUME Sub = 1, OneConnection, ReturnedInv, OrderedInv, INext, RecordCall,
           NEW c \in Caller
    PROVE  overtaken'[c] = {}
<1>1. \A t \in Tag : floor[t] <= floor'[t] /\ floor'[t] \in Int /\ floor[t] \in Int
  BY FloorsKept, ReturnedTypes
<1>2. call[c].tags \in SUBSET Tag /\ overtaken[c] = {}
  BY ReturnedTypes DEF OrderedInv
<1>3. ASSUME NEW t \in Tag
      PROVE  ~StoredEarly(c, t)
  BY LandsLast DEF StoredEarly
<1>4. \A t \in call[c].tags : ~(StoredEarly(c, t) \/ floor'[t] < floor[t])
  BY <1>1, <1>2, <1>3
<1>5. overtaken'[c] = IF call'[c].pc # "update_write" THEN {}
                      ELSE overtaken[c] \cup {t \in call[c].tags :
                              StoredEarly(c, t) \/ floor'[t] < floor[t]}
  BY DEF RecordCall
<1>6. {t \in call[c].tags : StoredEarly(c, t) \/ floor'[t] < floor[t]} = {}
  BY <1>4
<1>. QED
  BY <1>2, <1>5, <1>6

\* Both invariants together are inductive.
LEMMA OrderedStep ==
    ASSUME Sub = 1, OneConnection
    PROVE  ReturnedInv /\ OrderedInv /\ [INext /\ RecordCall]_rvars => OrderedInv'
<1>1. ASSUME ReturnedInv, OrderedInv, INext, RecordCall
      PROVE  OrderedInv'
  BY <1>1, OrderStep, StampsStep, OvertakenStep DEF OrderedInv
<1>2. ASSUME OrderedInv, UNCHANGED rvars
      PROVE  OrderedInv'
  <2>1. UNCHANGED <<sent, clock, floor, overtaken>>
    BY <1>2 DEF rvars, ivars, vars, memcachedVars, handlerVars, historyVars
  <2>. QED
    BY <1>2, <2>1 DEF OrderedInv, QueueInOrder, StampsBetween, Commands
<1>. QED
  BY <1>1, <1>2

\* Where all calls share a connection and times are whole milliseconds, what
\* updateTags has returned from stands, and no later step takes it back: not a
\* write of an earlier call, an eviction, a restart or a re-seed.
COROLLARY OneConnectionStands ==
    ASSUME Sub = 1, OneConnection
    PROVE  RSpec => ReturnedInvalidationStands
<1>. DEFINE Kept1 == \A t \in Tag : floor'[t] >= floor[t]
            Both == /\ \A c \in Caller : Returns(c) =>
                          \A t \in call[c].tags : floor'[t] >= began[c]
                    /\ Kept1
<1>1. RInit => OrderedInv
  <2>. SUFFICES ASSUME RInit PROVE OrderedInv
    OBVIOUS
  <2>. USE DEF RInit, IInit, Init, MemcachedInit
  <2>1. QueueInOrder
    BY DEF QueueInOrder
  <2>2. StampsBetween
    BY DEF StampsBetween, Commands, Never
  <2>. QED
    BY <2>1, <2>2 DEF OrderedInv
<1>2. ReturnedInv /\ OrderedInv /\ [INext /\ RecordCall]_rvars => Kept1
  <2>1. ASSUME ReturnedInv, OrderedInv, INext
        PROVE  Kept1
    BY <2>1, FloorsKept, ReturnedTypes
  <2>2. ASSUME ReturnedInv, UNCHANGED rvars
        PROVE  Kept1
    BY <2>2, ReturnedTypes DEF rvars, ivars, historyVars
  <2>. QED
    BY <2>1, <2>2
<1>3. ReturnedInv /\ OrderedInv /\ [INext /\ RecordCall]_rvars => Both
  <2>. SUFFICES ASSUME ReturnedInv, OrderedInv, [INext /\ RecordCall]_rvars,
                       NEW c \in Caller, Returns(c), NEW t \in call[c].tags
                PROVE  floor'[t] >= began[c]
    BY <1>2
  <2>1. t \in Tag /\ floor[t] \in Int /\ began[c] \in Int
    BY ReturnedTypes
  <2>2. Behind = 0 /\ overtaken[c] = {}
    BY DEF Behind, OrderedInv
  <2>3. floor[t] >= began[c]
    BY <2>1, <2>2 DEF ReturnedInv, WrittenStands, Stands, Returns, Moves
  <2>4. floor'[t] >= floor[t] /\ floor'[t] \in Int
    <3>1. UNCHANGED rvars => floor'[t] = floor[t]
      BY DEF rvars, ivars, historyVars
    <3>. QED
      BY <2>1, <3>1, FloorsKept
  <2>. QED
    BY <2>1, <2>3, <2>4
<1>4. RSpec => [](ReturnedInv /\ OrderedInv)
  BY <1>1, ReturnedInductive, OrderedStep, PTL DEF RSpec
<1>5. RSpec => [][Both]_rvars
  BY <1>3, <1>4, PTL DEF RSpec
<1>. QED
  BY <1>5 DEF ReturnedInvalidationStands

=============================================================================
