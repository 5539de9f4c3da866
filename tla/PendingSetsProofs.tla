-------------------------- MODULE PendingSetsProofs --------------------------
(***************************************************************************)
(* What pendingSets guarantees, for every value of the constants: any      *)
(* pods, keys and calls, set()s of a key that overlap in any order, and    *)
(* every fault.                                                            *)
(***************************************************************************)
EXTENDS PendingSets, CacheHandlerProofs

-----------------------------------------------------------------------------
(* What a step does to the calls and to pendingSets.                       *)

\* Only c's call moves.
Alone(c) == \A d \in Caller \ {c} : call'[d] = call[d]

\* A step of a get() or of an updateTags, which leaves pendingSets alone.
Other(c) ==
    /\ UNCHANGED pending
    /\ Alone(c)
    /\ ~Running(c) /\ ~Running(c)'
    /\ call[c].pc = "get_pending" => call[c].awaits = None
    /\ call'[c].pc = "get_pending" =>
          /\ call[c].pc = "idle"
          /\ call'[c].key \in Key
          /\ call'[c].awaits = pending[PodOf[c]][call'[c].key]

Registers(c) ==
    /\ call[c].pc = "idle" /\ Running(c)'
    /\ call'[c].key \in Key
    /\ pending' = [pending EXCEPT ![PodOf[c]][call'[c].key] = c]
    /\ Alone(c)

Stores(c) ==
    /\ Running(c) /\ Running(c)'
    /\ call'[c].key = call[c].key
    /\ UNCHANGED pending
    /\ Alone(c)

Finishes(c) == Running(c) /\ FinishSet(c)

\* A get() moves on only when what it awaits has resolved.
LEMMA GetEffect ==
    ASSUME TypeOK, NEW c \in Caller,
           \/ StartGet(c) \/ GetSend(c) \/ GetMiss(c) \/ GetReadTags(c)
           \/ GetUntagged(c) \/ GetCheck(c) \/ GetFail(c) \/ GetEnd(c)
    PROVE  Other(c)
<1>. USE DEF TypeOK, HandlerTypeOK, Other, Alone, Running
<1>1. CASE StartGet(c)
  <2>1. PICK k \in Key, tags \in SoftTags : GetStart(c, k, tags)
    BY <1>1 DEF StartGet, Given, GetExpiration
  <2>2. call'[c] = [Idle EXCEPT !.pc = "get_pending", !.key = k, !.tags = tags,
                                !.awaits = pending[PodOf[c]][k]]
    BY <2>1 DEF GetStart
  <2>. QED
    BY <2>1, <2>2 DEF GetStart, Starts, Idle
<1>2. CASE GetSend(c)
  <2>1. call'[c] = [call[c] EXCEPT !.pc = "get_entry"]
    BY <1>2 DEF GetSend
  <2>2. call'[c].pc = "get_entry"
    BY <2>1 DEF Call, Locals
  <2>. QED
    BY <1>2, <2>2 DEF GetSend
<1>3. ASSUME NEW entry, NEW result, Return(c, entry, result)
      PROVE  call'[c].pc = "get_done" /\ Alone(c)
  BY <1>3 DEF Return, Idle
<1>4. CASE GetMiss(c)
  BY <1>4, <1>3 DEF GetMiss
<1>5. CASE GetUntagged(c)
  BY <1>5, <1>3 DEF GetUntagged, Found
<1>6. CASE GetCheck(c)
  BY <1>6, <1>3 DEF GetCheck
<1>7. CASE GetFail(c)
  BY <1>7, <1>3 DEF GetFail
<1>8. CASE GetReadTags(c)
  <2>1. call'[c] = [call[c] EXCEPT !.pc = "get_tags", !.tags = AllTags(c),
                                   !.entry = reply[c].entry]
    BY <1>8 DEF GetReadTags
  <2>2. call'[c].pc = "get_tags"
    BY <2>1 DEF Call, Locals
  <2>. QED
    BY <1>8, <2>2 DEF GetReadTags, Found
<1>9. CASE GetEnd(c)
  BY <1>9 DEF GetEnd, Idle
<1>. QED
  BY <1>1, <1>2, <1>4, <1>5, <1>6, <1>7, <1>8, <1>9

\* An updateTags has no part in it.
LEMMA UpdateEffect ==
    ASSUME TypeOK, NEW c \in Caller,
           StartUpdate(c) \/ UpdateWrite(c) \/ UpdateEnd(c) \/ UpdateFail(c)
    PROVE  Other(c)
<1>. USE DEF TypeOK, HandlerTypeOK, Other, Alone, Running
<1>1. CASE StartUpdate(c)
  BY <1>1 DEF StartUpdate, UpdateStart, Starts, Idle
<1>2. CASE UpdateWrite(c)
  <2>1. call'[c] = [call[c] EXCEPT !.pc = "update_write"]
    BY <1>2 DEF UpdateWrite
  <2>2. call'[c].pc = "update_write"
    BY <2>1 DEF Call, Locals
  <2>. QED
    BY <1>2, <2>2 DEF UpdateWrite
<1>3. CASE UpdateEnd(c) \/ UpdateFail(c)
  BY <1>3 DEF UpdateEnd, UpdateFail, Idle
<1>. QED
  BY <1>1, <1>2, <1>3

\* A set() registers its promise, and takes it back on each of its ends.
LEMMA SetEffect ==
    ASSUME TypeOK, NEW c \in Caller,
           StartSet(c) \/ SetStore(c) \/ SetSkip(c) \/ SetEnd(c)
    PROVE  Registers(c) \/ Stores(c) \/ Finishes(c)
<1>. USE DEF TypeOK, HandlerTypeOK, Alone, Running
<1>1. CASE StartSet(c)
  <2>1. PICK k \in Key, tags \in EntryTags, r \in Revalidate :
           SetStart(c, k, tags, r)
    BY <1>1 DEF StartSet
  <2>2. call'[c].pc = "set_render" /\ call'[c].key = k
    BY <2>1 DEF SetStart, Idle
  <2>3. Registers(c)
    BY <2>1, <2>2 DEF SetStart, Starts, Registers
  <2>. QED
    BY <2>3
<1>2. CASE SetStore(c)
  <2>1. call'[c] = [call[c] EXCEPT !.pc = "set_store"]
    BY <1>2 DEF SetStore
  <2>2. call'[c].pc = "set_store" /\ call'[c].key = call[c].key
    BY <2>1 DEF Call, Locals
  <2>3. Stores(c)
    BY <1>2, <2>2 DEF SetStore, Stores
  <2>. QED
    BY <2>3
<1>3. CASE SetSkip(c) \/ SetEnd(c)
  BY <1>3 DEF SetSkip, SetEnd, Finishes
<1>. QED
  BY <1>1, <1>2, <1>3

\* Every step is one of these, or leaves calls and pendingSets alone.
LEMMA Effect ==
    ASSUME TypeOK, [Next]_vars
    PROVE  \/ UNCHANGED <<pending, call>>
           \/ \E c \in Caller : Other(c) \/ Registers(c) \/ Stores(c) \/ Finishes(c)
<1>1. ASSUME NEW c \in Caller, StartGet(c) \/ StartSet(c) \/ StartUpdate(c)
      PROVE  Other(c) \/ Registers(c) \/ Stores(c) \/ Finishes(c)
  BY <1>1, GetEffect, SetEffect, UpdateEffect
<1>2. ASSUME NEW c \in Caller, Step(c) \/ GetEnd(c)
      PROVE  Other(c) \/ Registers(c) \/ Stores(c) \/ Finishes(c)
  BY <1>2, GetEffect, SetEffect, UpdateEffect DEF Step
<1>3. CASE UNCHANGED handlerVars
  BY <1>3 DEF handlerVars
<1>4. CASE Tick
  BY <1>4 DEF Tick
<1>5. CASE UNCHANGED vars
  BY <1>5 DEF vars, handlerVars
<1>. QED
  BY <1>1, <1>2, <1>3, <1>4, <1>5 DEF Next

-----------------------------------------------------------------------------
(* What each of them makes of the set()s that run.                         *)

\* A set() that runs after the step ran before it with the same key, unless
\* it has just begun.
LEMMA Before ==
    ASSUME PendingInv, NEW c \in Caller, NEW d \in Caller,
           Other(c) \/ Stores(c) \/ Finishes(c) \/ (Registers(c) /\ d # c),
           Running(d)'
    PROVE  Running(d) /\ call'[d].key = call[d].key
<1>. USE DEF PendingInv, TypeOK, HandlerTypeOK, Running
<1>1. CASE Other(c)
  BY <1>1 DEF Other, Alone
<1>2. CASE Stores(c)
  BY <1>2 DEF Stores, Alone
<1>3. CASE Registers(c) /\ d # c
  BY <1>3 DEF Registers, Alone
<1>4. CASE Finishes(c)
  <2>1. CASE d = c
    BY <1>4, <2>1 DEF Finishes, FinishSet, Idle
  <2>2. CASE d # c
    <3>1. \/ call'[d] = call[d]
          \/ call'[d] = [call[d] EXCEPT !.awaits = None]
      BY <1>4, <2>2 DEF Finishes, FinishSet
    <3>. QED
      BY <3>1 DEF Call, Locals
  <2>. QED
    BY <2>1, <2>2
<1>. QED
  BY <1>1, <1>2, <1>3, <1>4

\* A set() that runs before the step runs after it, unless it ends.
LEMMA After ==
    ASSUME PendingInv, NEW c \in Caller, NEW d \in Caller,
           Other(c) \/ Registers(c) \/ Stores(c) \/ (Finishes(c) /\ d # c),
           Running(d)
    PROVE  Running(d)' /\ call'[d].key = call[d].key
<1>. USE DEF PendingInv, TypeOK, HandlerTypeOK, Running
<1>1. CASE Other(c)
  BY <1>1 DEF Other, Alone
<1>2. CASE Stores(c)
  BY <1>2 DEF Stores, Alone
<1>3. CASE Registers(c)
  BY <1>3 DEF Registers, Alone
<1>4. CASE Finishes(c) /\ d # c
  <2>1. \/ call'[d] = call[d]
        \/ call'[d] = [call[d] EXCEPT !.awaits = None]
    BY <1>4 DEF Finishes, FinishSet
  <2>. QED
    BY <2>1 DEF Call, Locals
<1>. QED
  BY <1>1, <1>2, <1>3, <1>4

\* The call that ends is idle.
LEMMA Ended ==
    ASSUME NEW c \in Caller, Finishes(c)
    PROVE  call'[c].pc = "idle"
BY DEF Finishes, FinishSet, Idle

\* Who shares a key with a running set() is crowded.
LEMMA Sharing ==
    ASSUME PendingInv, NEW c \in Caller, NEW d \in Caller, c # d,
           Running(c), Running(d),
           PodOf[c] = PodOf[d], call[c].key = call[d].key
    PROVE  c \in crowded /\ d \in crowded
<1>1. d \in Setting(PodOf[c], call[c].key) /\ c \in Setting(PodOf[d], call[d].key)
  BY DEF Setting
<1>. QED
  BY <1>1 DEF PendingInv, CrowdRuns

-----------------------------------------------------------------------------
(* The invariant, part by part.                                            *)

\* Crowds are what RecordRaces makes them.
LEMMA CrowdStep ==
    ASSUME RecordRaces
    PROVE  CrowdRuns'
BY DEF RecordRaces, CrowdRuns, Running

\* No step takes a lone set() out of the map: to do so another set() of the
\* key must run.
LEMMA LoneStep ==
    ASSUME PendingInv, [Next]_vars, RecordRaces
    PROVE  LoneRegistered'
<1>. SUFFICES ASSUME NEW d \in Caller, Running(d)', d \notin crowded'
              PROVE  pending'[PodOf[d]][call'[d].key] = d
  BY DEF LoneRegistered
<1>. USE DEF PendingInv, TypeOK, HandlerTypeOK
<1>0. d \notin crowded
  BY DEF RecordRaces
<1>1. Setting(PodOf[d], call[d].key)' = {d}
  BY DEF RecordRaces
<1>2. ASSUME Running(d)
      PROVE  pending[PodOf[d]][call[d].key] = d
  BY <1>0, <1>2 DEF LoneRegistered
<1>3. CASE UNCHANGED <<pending, call>>
  BY <1>2, <1>3 DEF Running
<1>4. ASSUME NEW c \in Caller, Other(c) \/ Stores(c)
      PROVE  pending'[PodOf[d]][call'[d].key] = d
  BY <1>2, <1>4, Before DEF Other, Stores
<1>5. ASSUME NEW c \in Caller, Registers(c)
      PROVE  pending'[PodOf[d]][call'[d].key] = d
  <2>0. PodOf[c] \in Pod /\ PodOf[d] \in Pod
    BY PodAssumption
  <2>1. CASE d = c
    BY <1>5, <2>0, <2>1 DEF Registers
  <2>2. CASE d # c
    <3>1. Running(d) /\ call'[d].key = call[d].key
      BY <1>5, <2>2, Before
    <3>2. ~(PodOf[c] = PodOf[d] /\ call'[c].key = call'[d].key)
      <4>1. Running(c)'
        BY <1>5 DEF Registers
      <4>. QED
        BY <1>1, <2>2, <4>1 DEF Setting
    <3>. QED
      BY <1>2, <1>5, <2>0, <3>1, <3>2 DEF Registers
  <2>. QED
    BY <2>1, <2>2
<1>6. ASSUME NEW c \in Caller, Finishes(c)
      PROVE  pending'[PodOf[d]][call'[d].key] = d
  <2>0. PodOf[c] \in Pod /\ PodOf[d] \in Pod
    BY PodAssumption
  <2>1. Running(d) /\ call'[d].key = call[d].key
    BY <1>6, Before
  <2>2. d # c
    BY <1>6, Ended DEF Running
  <2>3. Running(c)
    BY <1>6 DEF Finishes
  <2>4. ~(PodOf[c] = PodOf[d] /\ call[c].key = call[d].key)
    BY <1>0, <2>1, <2>2, <2>3, Sharing
  <2>. QED
    BY <1>2, <1>6, <2>0, <2>1, <2>4 DEF Finishes, FinishSet
<1>. QED
  BY <1>3, <1>4, <1>5, <1>6, Effect

\* What the map holds is a set() of the key that runs on.
LEMMA LiveStep ==
    ASSUME PendingInv, [Next]_vars
    PROVE  PendingSetsLive'
<1>. SUFFICES ASSUME NEW p \in Pod, NEW k \in Key, pending'[p][k] # None
              PROVE  pending'[p][k] \in Setting(p, k)'
  BY DEF PendingSetsLive
<1>. USE DEF PendingInv, TypeOK, HandlerTypeOK
<1>. DEFINE d == pending[p][k]
<1>1. ASSUME d # None
      PROVE  d \in Caller /\ PodOf[d] = p /\ Running(d) /\ call[d].key = k
  BY <1>1 DEF PendingSetsLive, Setting
<1>2. CASE UNCHANGED <<pending, call>>
  BY <1>1, <1>2 DEF Setting, Running
<1>3. ASSUME NEW c \in Caller, Other(c) \/ Stores(c)
      PROVE  pending'[p][k] \in Setting(p, k)'
  <2>1. pending'[p][k] = d
    BY <1>3 DEF Other, Stores
  <2>2. Running(d)' /\ call'[d].key = k
    BY <1>1, <1>3, <2>1, After
  <2>. QED
    BY <1>1, <2>1, <2>2 DEF Setting
<1>4. ASSUME NEW c \in Caller, Registers(c)
      PROVE  pending'[p][k] \in Setting(p, k)'
  <2>0. PodOf[c] \in Pod
    BY PodAssumption
  <2>1. CASE p = PodOf[c] /\ k = call'[c].key
    BY <1>4, <2>0, <2>1 DEF Registers, Setting
  <2>2. CASE ~(p = PodOf[c] /\ k = call'[c].key)
    <3>1. pending'[p][k] = d
      BY <1>4, <2>0, <2>2 DEF Registers
    <3>2. Running(d)' /\ call'[d].key = k
      BY <1>1, <1>4, <3>1, After
    <3>. QED
      BY <1>1, <3>1, <3>2 DEF Setting
  <2>. QED
    BY <2>1, <2>2
<1>5. ASSUME NEW c \in Caller, Finishes(c)
      PROVE  pending'[p][k] \in Setting(p, k)'
  <2>0. PodOf[c] \in Pod
    BY PodAssumption
  <2>1. call[c].key \in Key
    BY <1>5 DEF Finishes, Running, Call
  <2>2. ~(p = PodOf[c] /\ k = call[c].key)
    BY <1>5, <2>0, <2>1 DEF Finishes, FinishSet
  <2>3. pending'[p][k] = d
    BY <1>5, <2>0, <2>1, <2>2 DEF Finishes, FinishSet
  <2>4. d # c
    BY <1>1, <2>2, <2>3
  <2>5. Running(d)' /\ call'[d].key = k
    BY <1>1, <1>5, <2>3, <2>4, After
  <2>. QED
    BY <1>1, <2>3, <2>5 DEF Setting
<1>. QED
  BY <1>2, <1>3, <1>4, <1>5, Effect

\* A get() that begins awaits the set() of its key that runs alone; it stops
\* awaiting it only when it ends.
LEMMA RacesStep ==
    ASSUME PendingInv, [Next]_vars, RecordRaces
    PROVE  RacesAwaited'
<1>. SUFFICES ASSUME NEW e \in Caller, NEW d \in racing'[e]
              PROVE  /\ d \in Caller /\ Running(d)'
                     /\ \/ d \in crowded'
                        \/ call'[e].pc = "get_pending" /\ call'[e].awaits = d
  BY DEF RacesAwaited
<1>. USE DEF PendingInv, TypeOK, HandlerTypeOK
<1>1. CASE call[e].pc = "idle" /\ call'[e].pc = "get_pending"
  <2>1. d \in Setting(PodOf[e], call'[e].key)
    BY <1>1 DEF RecordRaces
  <2>2. /\ d \in Caller /\ PodOf[d] = PodOf[e] /\ Running(d)
        /\ call[d].key = call'[e].key
    BY <2>1 DEF Setting
  <2>3. Other(e)
    <3>1. ASSUME NEW c \in Caller, Registers(c) \/ Stores(c) \/ Finishes(c)
          PROVE  FALSE
      <4>1. CASE Registers(c) \/ Stores(c)
        BY <1>1, <4>1 DEF Registers, Stores, Alone, Running
      <4>2. CASE Finishes(c)
        <5>1. c # e
          BY <1>1, <4>2 DEF Finishes, Running
        <5>2. \/ call'[e] = call[e]
              \/ call'[e] = [call[e] EXCEPT !.awaits = None]
          BY <4>2, <5>1 DEF Finishes, FinishSet
        <5>. QED
          BY <1>1, <5>2 DEF Call, Locals
      <4>. QED
        BY <3>1, <4>1, <4>2
    <3>2. ASSUME NEW c \in Caller, Other(c)
          PROVE  c = e
      BY <1>1, <3>2 DEF Other, Alone
    <3>. QED
      BY <1>1, <3>1, <3>2, Effect
  <2>4. Running(d)' /\ call'[d].key = call[d].key
    BY <2>2, <2>3, After
  <2>5. ASSUME d \notin crowded'
        PROVE  call'[e].awaits = d
    <3>1. d \notin crowded
      BY <2>2, <2>4, <2>5 DEF RecordRaces
    <3>2. pending[PodOf[d]][call[d].key] = d
      BY <2>2, <3>1 DEF LoneRegistered
    <3>. QED
      BY <1>1, <2>2, <2>3, <3>2 DEF Other
  <2>. QED
    BY <1>1, <2>2, <2>4, <2>5
<1>2. CASE ~(call[e].pc = "idle" /\ call'[e].pc = "get_pending")
  <2>1. call'[e].pc # "idle" /\ d \in racing[e] /\ ~(d \in Caller /\ call'[d].pc = "idle")
    BY <1>2 DEF RecordRaces
  <2>2. /\ d \in Caller /\ Running(d)
        /\ d \in crowded \/ (call[e].pc = "get_pending" /\ call[e].awaits = d)
    BY <2>1 DEF RacesAwaited
  <2>3. Running(d)'
    <3>1. CASE UNCHANGED <<pending, call>>
      BY <2>2, <3>1 DEF Running
    <3>2. ASSUME NEW c \in Caller, Other(c) \/ Registers(c) \/ Stores(c) \/ Finishes(c)
          PROVE  Running(d)'
      BY <2>1, <2>2, <3>2, After, Ended
    <3>. QED
      BY <3>1, <3>2, Effect
  <2>4. CASE d \in crowded
    BY <2>2, <2>3, <2>4 DEF RecordRaces
  <2>5. CASE call[e].pc = "get_pending" /\ call[e].awaits = d
    <3>0. d # None
      BY <2>2, CallerAssumption
    <3>1. CASE UNCHANGED <<pending, call>>
      BY <2>2, <2>3, <2>5, <3>1
    <3>2. ASSUME NEW c \in Caller, Other(c) \/ Registers(c) \/ Stores(c)
          PROVE  call'[e] = call[e]
      BY <2>5, <3>0, <3>2 DEF Other, Registers, Stores, Alone, Running
    <3>3. ASSUME NEW c \in Caller, Finishes(c)
          PROVE  call'[e] = call[e]
      <4>1. d # c
        BY <2>1, <2>2, <3>3, Ended
      <4>2. e # c
        BY <2>5, <3>3 DEF Finishes, Running
      <4>. QED
        BY <2>5, <3>3, <4>1, <4>2 DEF Finishes, FinishSet
    <3>. QED
      BY <2>2, <2>3, <2>5, <3>1, <3>2, <3>3, Effect
  <2>. QED
    BY <2>2, <2>4, <2>5
<1>. QED
  BY <1>1, <1>2

-----------------------------------------------------------------------------

\* No call runs at first.
LEMMA PendingInit == PInit => PendingInv
BY InitType, CallerAssumption
   DEF PInit, Init, Idle, PendingInv, CrowdRuns, LoneRegistered, RacesAwaited,
       PendingSetsLive, Running

\* No step breaks the invariant.
LEMMA PendingStep == PendingInv /\ [Next /\ RecordRaces]_pvars => PendingInv'
<1>. SUFFICES ASSUME PendingInv, [Next /\ RecordRaces]_pvars PROVE PendingInv'
  OBVIOUS
<1>1. CASE Next /\ RecordRaces
  <2>1. TypeOK'
    BY <1>1, NextType DEF PendingInv
  <2>2. racing' \in [Caller -> SUBSET Caller]
    <3>1. ASSUME NEW c \in Caller
          PROVE  /\ Setting(PodOf[c], call'[c].key) \in SUBSET Caller
                 /\ racing[c] \in SUBSET Caller
      BY DEF Setting, PendingInv
    <3>. QED
      BY <1>1, <3>1 DEF RecordRaces
  <2>. QED
    BY <1>1, <2>1, <2>2, CrowdStep, LoneStep, LiveStep, RacesStep
       DEF PendingInv
<1>2. CASE UNCHANGED pvars
  BY <1>2, NextType
     DEF pvars, vars, handlerVars, PendingInv, CrowdRuns, LoneRegistered,
         RacesAwaited, PendingSetsLive, Running, Setting
<1>. QED
  BY <1>1, <1>2

\* The invariant holds in every reachable state.
THEOREM Pending == PSpec => []PendingInv
BY PendingInit, PendingStep, PTL DEF PSpec

\* pendingSets never holds the promise of a set() that has ended, whatever
\* order overlapping set()s of a key end in.
THEOREM SetsLive == PSpec => []PendingSetsLive
<1>1. PendingInv => PendingSetsLive
  BY DEF PendingInv
<1>. QED
  BY <1>1, Pending, PTL

\* A get() reads memcached only after every set() of its key that it found
\* running alone has ended: the loss two_writers shows takes two set()s.
THEOREM LoneAwaited == PSpec => []GetAwaitsLoneSet
<1>1. PendingInv => GetAwaitsLoneSet
  BY DEF PendingInv, RacesAwaited, GetAwaitsLoneSet
<1>. QED
  BY <1>1, Pending, PTL

=============================================================================
