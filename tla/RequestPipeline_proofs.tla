----------------------- MODULE RequestPipeline_proofs -----------------------
(***************************************************************************)
(* The permits of ConcurrencyLimiter for any callers and number of         *)
(* permits, and that a request's way through the connector is a behaviour  *)
(* of both limits, so that what each of them promises holds of it.         *)
(***************************************************************************)
EXTENDS RequestPipeline, RateLimiter_proofs, SequenceLemmas

-----------------------------------------------------------------------------
(***************************************************************************)
(* Permits.                                                                *)
(***************************************************************************)

Distinct(q) == \A i, j \in DOMAIN q : q[i] = q[j] => i = j

\* A caller waits, has been handed a permit, or holds one.
Apart ==
    /\ Distinct(queue)
    /\ handed \cap holders = {}
    /\ \A i \in DOMAIN queue : queue[i] \notin handed \cup holders

PermitInv == PermitTypeOK /\ Apart /\ PermitsKept /\ NoIdlePermit

LEMMA CallersFinite ==
    ASSUME NEW S, S \subseteq Caller
    PROVE  IsFiniteSet(S) /\ Cardinality(S) \in Nat
  BY CallersAssumption, FS_Subset, FS_CardinalityType

LEMMA OneIn ==
    ASSUME NEW S, S \subseteq Caller, NEW c \in Caller, c \notin S
    PROVE  Cardinality(S \cup {c}) = Cardinality(S) + 1
  BY CallersFinite, FS_AddElement

LEMMA OneOut ==
    ASSUME NEW S, S \subseteq Caller, NEW c \in S
    PROVE  Cardinality(S \ {c}) = Cardinality(S) - 1
  BY CallersFinite, FS_RemoveElement

\* Handing on v permits neither loses one nor hands one to two callers, and
\* leaves none free beside a caller that waits unless somebody was handed one.
LEMMA HandedOn ==
    ASSUME NEW v \in Nat, NEW h \in SUBSET Caller, HandOn(v, h),
           queue \in Seq(Caller), Distinct(queue),
           \A i \in DOMAIN queue : queue[i] \notin h
    PROVE  /\ value' \in Nat /\ queue' \in Seq(Caller) /\ handed' \subseteq Caller
           /\ Distinct(queue')
           /\ \A i \in DOMAIN queue' : queue'[i] \notin handed'
           /\ value' + Cardinality(handed') = v + Cardinality(h)
           /\ value' > 0 /\ queue' # <<>> => handed' # {}
           /\ \A x : x \in handed' \cup Range(queue') <=> x \in h \cup Range(queue)
<1>1. CASE v = 0 \/ queue = <<>>
  BY <1>1, CallersFinite DEF HandOn
<1>2. CASE ~(v = 0 \/ queue = <<>>)
  <2>1. /\ value' = v - 1 /\ handed' = h \cup {Head(queue)}
        /\ queue' = Tail(queue)
    BY <1>2 DEF HandOn
  <2>2. /\ Len(queue) \in Nat \ {0} /\ DOMAIN queue = 1 .. Len(queue)
        /\ Head(queue) = queue[1] /\ Head(queue) \in Caller
        /\ queue' \in Seq(Caller) /\ Len(queue') = Len(queue) - 1
        /\ \A i \in 1 .. Len(queue) - 1 : queue'[i] = queue[i + 1]
    BY <1>2, <2>1, HeadTailProperties, LenProperties, EmptySeq
  <2>3. DOMAIN queue' = 1 .. Len(queue) - 1
    BY <2>2, LenProperties
  <2>4. Distinct(queue')
    <3>1. ASSUME NEW i \in 1 .. Len(queue) - 1, NEW j \in 1 .. Len(queue) - 1,
                 queue'[i] = queue'[j]
          PROVE  i = j
      <4>1. queue[i + 1] = queue[j + 1] /\ i + 1 \in DOMAIN queue /\ j + 1 \in DOMAIN queue
        BY <2>2, <3>1
      <4> QED
        BY <3>1, <4>1 DEF Distinct
    <3> QED
      BY <2>3, <3>1 DEF Distinct
  <2>5. \A i \in DOMAIN queue' : queue'[i] \notin handed'
    BY <2>1, <2>2, <2>3 DEF Distinct
  <2>6. Head(queue) \notin h
    BY <2>2
  <2>7. Cardinality(handed') = Cardinality(h) + 1 /\ Cardinality(h) \in Nat
    BY <2>1, <2>2, <2>6, OneIn, CallersFinite
  <2>8. Range(queue) = {Head(queue)} \cup Range(queue')
    <3>1. ASSUME NEW i \in DOMAIN queue
          PROVE  queue[i] \in {Head(queue)} \cup Range(queue')
      <4>1. CASE i = 1
        BY <2>2, <4>1
      <4>2. CASE i # 1
        <5>1. i - 1 \in DOMAIN queue' /\ queue'[i - 1] = queue[i]
          BY <2>2, <2>3, <4>2
        <5> QED
          BY <5>1 DEF Range
      <4> QED
        BY <4>1, <4>2
    <3>2. ASSUME NEW i \in DOMAIN queue'
          PROVE  queue'[i] \in Range(queue)
      BY <2>2, <2>3 DEF Range
    <3>3. Head(queue) \in Range(queue)
      BY <2>2 DEF Range
    <3> QED
      BY <3>1, <3>2, <3>3 DEF Range
  <2> QED
    BY <1>2, <2>1, <2>2, <2>4, <2>5, <2>7, <2>8
<1> QED
  BY <1>1, <1>2

LEMMA PermitsInit ==
    PermitInit => PermitInv
<1> SUFFICES ASSUME PermitInit PROVE PermitInv
  OBVIOUS
<1>1. Cardinality({}) = 0
  BY FS_EmptySet
<1> QED
  BY <1>1, PermitsAssumption
  DEF PermitInit, PermitInv, PermitTypeOK, Apart, Distinct, PermitsKept, NoIdlePermit

LEMMA AcquireKeeps ==
    ASSUME PermitInv, NEW c \in Caller, Acquire(c)
    PROVE  PermitInv'
<1>1. /\ c \notin holders /\ c \notin handed /\ handed' = handed
      /\ \A i \in DOMAIN queue : queue[i] # c
      /\ PermitTypeOK
  BY DEF Acquire, Absent, Range, PermitInv
<1>2. CASE Locked
  <2>1. queue' = Append(queue, c) /\ UNCHANGED <<value, holders>>
    BY <1>2 DEF Acquire
  <2>2. /\ queue' \in Seq(Caller) /\ Len(queue') = Len(queue) + 1
        /\ Len(queue) \in Nat /\ DOMAIN queue = 1 .. Len(queue)
        /\ DOMAIN queue' = 1 .. Len(queue) + 1
        /\ \A i \in 1 .. Len(queue) : queue'[i] = queue[i]
        /\ queue'[Len(queue) + 1] = c
    BY <1>1, <2>1, AppendProperties, LenProperties DEF PermitTypeOK
  <2>3. Distinct(queue')
    BY <1>1, <2>2 DEF PermitInv, Apart, Distinct
  <2>4. \A i \in DOMAIN queue' : queue'[i] \notin handed \cup holders
    BY <1>1, <2>2 DEF PermitInv, Apart
  <2>5. NoIdlePermit'
    BY <1>1, <1>2, <2>1 DEF Locked, PermitInv, PermitTypeOK, NoIdlePermit
  <2> QED
    BY <1>1, <2>1, <2>2, <2>3, <2>4, <2>5
    DEF PermitInv, PermitTypeOK, Apart, PermitsKept
<1>3. CASE ~Locked
  <2>1. /\ value' = value - 1 /\ holders' = holders \cup {c} /\ queue' = queue
        /\ value \in Nat \ {0} /\ handed = {} /\ queue = <<>>
    BY <1>1, <1>3 DEF Acquire, Locked, PermitTypeOK
  <2>2. Cardinality(holders') = Cardinality(holders) + 1
    BY <1>1, <2>1, OneIn DEF PermitTypeOK
  <2>3. PermitsKept'
    BY <1>1, <2>1, <2>2, CallersFinite DEF PermitInv, PermitTypeOK, PermitsKept
  <2> QED
    BY <1>1, <2>1, <2>3
    DEF PermitInv, PermitTypeOK, Apart, NoIdlePermit, Distinct
<1> QED
  BY <1>2, <1>3

LEMMA ResumeKeeps ==
    ASSUME PermitInv, NEW c \in Caller, Resume(c)
    PROVE  PermitInv'
<1> DEFINE h == handed \ {c}
<1>1. /\ PermitTypeOK /\ Apart /\ PermitsKept
      /\ c \in handed /\ c \notin holders /\ holders' = holders \cup {c}
      /\ HandOn(value, h) /\ h \in SUBSET Caller /\ value \in Nat
  BY DEF Resume, PermitInv, PermitTypeOK, Apart
<1>2. /\ Cardinality(h) = Cardinality(handed) - 1
      /\ Cardinality(holders') = Cardinality(holders) + 1
      /\ Cardinality(handed) \in Nat /\ Cardinality(holders) \in Nat
      /\ Cardinality(h) \in Nat
  BY <1>1, OneIn, OneOut, CallersFinite DEF PermitTypeOK
<1> HIDE DEF h
<1>3. \A i \in DOMAIN queue : queue[i] \notin h
  BY <1>1 DEF Apart, h
<1>4. /\ value' \in Nat /\ queue' \in Seq(Caller) /\ handed' \subseteq Caller
      /\ Distinct(queue')
      /\ \A i \in DOMAIN queue' : queue'[i] \notin handed'
      /\ value' + Cardinality(handed') = value + Cardinality(h)
      /\ value' > 0 /\ queue' # <<>> => handed' # {}
      /\ \A x : x \in handed' \cup Range(queue') <=> x \in h \cup Range(queue)
  BY <1>1, <1>3, HandedOn DEF PermitTypeOK, Apart
<1>5. \A x : x \in h \cup Range(queue) => x \notin holders'
  BY <1>1 DEF Apart, Range, h
<1>6. handed' \cap holders' = {} /\ \A i \in DOMAIN queue' : queue'[i] \notin holders'
  BY <1>4, <1>5 DEF Range
<1>7. Cardinality(handed') \in Nat
  BY <1>4, CallersFinite
<1>8. PermitsKept'
  <2>1. value + Cardinality(handed) + Cardinality(holders) = Permits
    BY <1>1 DEF PermitsKept
  <2>2. value' + Cardinality(handed') + Cardinality(holders') = Permits
    BY <1>1, <1>2, <1>4, <1>7, <2>1
  <2> QED
    BY <2>2 DEF PermitsKept
<1> QED
  BY <1>1, <1>4, <1>6, <1>8 DEF PermitInv, PermitTypeOK, Apart, NoIdlePermit

\* A permit that comes back, from a holder or from a caller that gave up.
LEMMA BackKeeps ==
    ASSUME PermitInv, NEW h \in SUBSET handed, HandOn(value + 1, h),
           holders' \subseteq holders,
           Cardinality(h) + Cardinality(holders') =
               Cardinality(handed) + Cardinality(holders) - 1
    PROVE  PermitInv'
<1>1. /\ PermitTypeOK /\ Apart /\ PermitsKept /\ h \in SUBSET Caller
      /\ value + 1 \in Nat
  BY DEF PermitInv, PermitTypeOK
<1>2. /\ Cardinality(handed) \in Nat /\ Cardinality(holders) \in Nat
      /\ Cardinality(h) \in Nat /\ Cardinality(holders') \in Nat
  BY <1>1, CallersFinite DEF PermitTypeOK
<1>3. \A i \in DOMAIN queue : queue[i] \notin h
  BY <1>1 DEF Apart
<1>4. /\ value' \in Nat /\ queue' \in Seq(Caller) /\ handed' \subseteq Caller
      /\ Distinct(queue')
      /\ \A i \in DOMAIN queue' : queue'[i] \notin handed'
      /\ value' + Cardinality(handed') = value + 1 + Cardinality(h)
      /\ value' > 0 /\ queue' # <<>> => handed' # {}
      /\ \A x : x \in handed' \cup Range(queue') <=> x \in h \cup Range(queue)
  BY <1>1, <1>3, HandedOn DEF PermitTypeOK, Apart
<1>5. \A x : x \in h \cup Range(queue) => x \notin holders'
  BY <1>1 DEF Apart, Range
<1>6. handed' \cap holders' = {} /\ \A i \in DOMAIN queue' : queue'[i] \notin holders'
  BY <1>4, <1>5 DEF Range
<1>7. Cardinality(handed') \in Nat
  BY <1>4, CallersFinite
<1>8. PermitsKept'
  <2>1. value + Cardinality(handed) + Cardinality(holders) = Permits /\ value \in Nat
    BY <1>1 DEF PermitTypeOK, PermitsKept
  <2>2. value' + Cardinality(handed') + Cardinality(holders') =
            value + 1 + Cardinality(h) + Cardinality(holders')
    BY <1>2, <1>4, <1>7, <2>1
  <2>3. value + 1 + Cardinality(h) + Cardinality(holders') =
            value + Cardinality(handed) + Cardinality(holders)
    BY <1>2, <2>1
  <2> QED
    BY <2>1, <2>2, <2>3 DEF PermitsKept
<1> QED
  BY <1>1, <1>4, <1>6, <1>8 DEF PermitInv, PermitTypeOK, Apart, NoIdlePermit

LEMMA TimeOutKeeps ==
    ASSUME PermitInv, NEW c \in Caller, TimeOut(c)
    PROVE  PermitInv'
<1>1. CASE c \in handed /\ HandOn(value + 1, handed \ {c})
  <2>1. Cardinality(handed \ {c}) = Cardinality(handed) - 1 /\ holders' = holders
    BY <1>1, OneOut DEF TimeOut, PermitInv, PermitTypeOK
  <2>2. Cardinality(handed) \in Nat /\ Cardinality(holders) \in Nat
    BY CallersFinite DEF PermitInv, PermitTypeOK
  <2> QED
    BY <1>1, <2>1, <2>2, BackKeeps
<1>2. ASSUME NEW i \in DOMAIN queue, queue' = RemoveAt(queue, i),
             UNCHANGED <<value, handed>>
      PROVE  PermitInv'
  <2>1. queue \in Seq(Caller) /\ i \in 1 .. Len(queue) /\ holders' = holders
    BY <1>2, LenProperties DEF TimeOut, PermitInv, PermitTypeOK
  <2>2. /\ queue' \in Seq(Caller) /\ Distinct(queue')
        /\ Range(queue') = Range(queue) \ {queue[i]}
    BY <1>2, <2>1, RemovedDistinct DEF PermitInv, Apart, Distinct
  <2>3. queue # <<>>
    BY <1>2
  <2>4. \A j \in DOMAIN queue' : queue'[j] \in Range(queue)
    BY <2>2 DEF Range
  <2>5. \A x \in Range(queue) : x \notin handed \cup holders
    BY DEF Range, PermitInv, Apart
  <2> QED
    BY <1>2, <2>1, <2>2, <2>3, <2>4, <2>5
    DEF PermitInv, PermitTypeOK, Apart, PermitsKept, NoIdlePermit
<1> QED
  BY <1>1, <1>2 DEF TimeOut

LEMMA ReleaseKeeps ==
    ASSUME PermitInv, NEW c \in Caller, Release(c)
    PROVE  PermitInv'
<1>1. /\ holders' = holders \ {c} /\ HandOn(value + 1, handed)
      /\ Cardinality(holders') = Cardinality(holders) - 1
  BY OneOut DEF Release, PermitInv, PermitTypeOK
<1>2. Cardinality(handed) \in Nat /\ Cardinality(holders) \in Nat
  BY CallersFinite DEF PermitInv, PermitTypeOK
<1> QED
  BY <1>1, <1>2, BackKeeps

LEMMA PermitStep ==
    PermitInv /\ [PermitNext]_permitVars => PermitInv'
<1> SUFFICES ASSUME PermitInv, [PermitNext]_permitVars PROVE PermitInv'
  OBVIOUS
<1>1. CASE UNCHANGED permitVars
  BY <1>1 DEF permitVars, PermitInv, PermitTypeOK, Apart, PermitsKept, NoIdlePermit
<1>2. CASE PermitNext
  BY <1>2, AcquireKeeps, ResumeKeeps, TimeOutKeeps, ReleaseKeeps DEF PermitNext
<1> QED
  BY <1>1, <1>2

\* No permit is lost or made up, and none stays idle while a caller waits.
THEOREM PermitsAlwaysKept ==
    PermitSpec => [](PermitTypeOK /\ PermitsKept /\ NoIdlePermit)
<1>1. PermitInv => PermitTypeOK /\ PermitsKept /\ NoIdlePermit
  BY DEF PermitInv
<1> QED
  BY <1>1, PermitsInit, PermitStep, PTL DEF PermitSpec

-----------------------------------------------------------------------------
(***************************************************************************)
(* The pipeline implements both limits.                                    *)
(***************************************************************************)

LEMMA WindowStep ==
    [PipelineNext]_pipelineVars => [Next]_vars
<1> SUFFICES ASSUME [PipelineNext]_pipelineVars PROVE [Next]_vars
  OBVIOUS
<1>1. CASE UNCHANGED pipelineVars
  BY <1>1 DEF pipelineVars, vars
<1>2. CASE ClockTicks
  BY <1>2 DEF ClockTicks, Next
<1>3. ASSUME NEW c \in Caller, Step(c)
      PROVE  [Next]_vars
  <2>1. CASE Arrive(c)
    BY <2>1 DEF Arrive, Next
  <2>2. CASE TurnedAway(c) \/ GiveUp(c) \/ Return(c)
    BY <2>2 DEF TurnedAway, GiveUp, Return, Answer, Next
  <2>3. CASE Enter(c) \/ GoOn(c)
    BY <2>3 DEF Enter, GoOn
  <2>4. CASE WakeUp(c)
    BY <2>4 DEF WakeUp, Next
  <2> QED
    BY <1>3, <2>1, <2>2, <2>3, <2>4 DEF Step
<1> QED
  BY <1>1, <1>2, <1>3 DEF PipelineNext

LEMMA PermitsStep ==
    [PipelineNext]_pipelineVars => [PermitNext]_permitVars
<1> SUFFICES ASSUME [PipelineNext]_pipelineVars PROVE [PermitNext]_permitVars
  OBVIOUS
<1>1. CASE UNCHANGED pipelineVars
  BY <1>1 DEF pipelineVars, permitVars
<1>2. CASE ClockTicks
  BY <1>2 DEF ClockTicks
<1>3. ASSUME NEW c \in Caller, Step(c)
      PROVE  [PermitNext]_permitVars
  <2>1. CASE Arrive(c) \/ TurnedAway(c) \/ WakeUp(c)
    BY <2>1 DEF Arrive, TurnedAway, WakeUp
  <2>2. CASE Enter(c)
    BY <2>2 DEF Enter, PermitNext
  <2>3. CASE GoOn(c)
    BY <2>3 DEF GoOn, PermitNext
  <2>4. CASE GiveUp(c)
    BY <2>4 DEF GiveUp, PermitNext
  <2>5. CASE Return(c)
    BY <2>5 DEF Return, PermitNext
  <2> QED
    BY <1>3, <2>1, <2>2, <2>3, <2>4, <2>5 DEF Step
<1> QED
  BY <1>1, <1>2, <1>3 DEF PipelineNext

\* The way of the requests through the connector is a behaviour of the request
\* window and one of the permits: what else happens to a request disturbs
\* neither limit.
THEOREM PipelineImplementsLimits ==
    PipelineSafe => Safe /\ PermitSpec
<1>1. PipelineInit => Init /\ PermitInit
  BY DEF PipelineInit
<1> QED
  BY <1>1, WindowStep, PermitsStep, PTL DEF PipelineSafe, Safe, PermitSpec

\* The window's promises hold of the requests on their way: how far it can be
\* overrun, and that a sleeper is not charged to the window that was full.
THEOREM PipelineKeepsWindow ==
    PipelineSafe => []OverrunBounded /\ WaitsForNewWindow
<1>1. PipelineSafe => [](TypeOK /\ OverrunBounded) /\ WaitsForNewWindow
  BY PipelineImplementsLimits, OverrunAlwaysBounded, SleepersSkipTheirWindow, Zenon
<1> QED
  BY <1>1, PTL

\* And so do those of the permits.
THEOREM PipelineKeepsPermits ==
    PipelineSafe => [](PermitsKept /\ NoIdlePermit)
<1>1. PipelineSafe => [](PermitTypeOK /\ PermitsKept /\ NoIdlePermit)
  BY PipelineImplementsLimits, PermitsAlwaysKept, Zenon
<1> QED
  BY <1>1, PTL

-----------------------------------------------------------------------------
(***************************************************************************)
(* Permits and requests.                                                   *)
(***************************************************************************)

PipelineInv == PermitInv /\ PipelineTypeOK /\ PermitsInUse

LEMMA PipelineInvInit ==
    PipelineInit => PipelineInv
<1> SUFFICES ASSUME PipelineInit PROVE PipelineInv
  OBVIOUS
<1>1. PermitInv /\ TypeOK
  BY PermitsInit, RateInit DEF PipelineInit, RateInv
<1>2. PermitsInUse
  BY DEF PipelineInit, PermitInit, PermitsInUse, Range
<1> QED
  BY <1>1, <1>2 DEF PipelineInv, PipelineTypeOK, PipelineInit, PermitInv, Stage

\* What each semaphore operation does to those who wait and to the holders.
LEMMA WaitersMove ==
    ASSUME PermitInv, NEW c \in Caller
    PROVE  /\ Acquire(c) =>
                 /\ Locked => holders' = holders
                       /\ handed' \cup Range(queue') = handed \cup Range(queue) \cup {c}
                 /\ ~Locked => holders' = holders \cup {c}
                       /\ handed' \cup Range(queue') = handed \cup Range(queue)
           /\ Resume(c) =>
                 /\ holders' = holders \cup {c}
                 /\ handed' \cup Range(queue') = (handed \cup Range(queue)) \ {c}
           /\ TimeOut(c) =>
                 /\ holders' = holders
                 /\ handed' \cup Range(queue') = (handed \cup Range(queue)) \ {c}
           /\ Release(c) =>
                 /\ holders' = holders \ {c}
                 /\ handed' \cup Range(queue') = handed \cup Range(queue)
<1>1. /\ queue \in Seq(Caller) /\ Distinct(queue) /\ value \in Nat
      /\ handed \in SUBSET Caller /\ handed \ {c} \in SUBSET Caller
      /\ \A i \in DOMAIN queue : queue[i] \notin handed
      /\ Len(queue) \in Nat /\ DOMAIN queue = 1 .. Len(queue)
  BY LenProperties DEF PermitInv, PermitTypeOK, Apart
<1>2. ASSUME Acquire(c), Locked
      PROVE  /\ holders' = holders /\ handed' = handed
             /\ Range(queue') = Range(queue) \cup {c}
  <2>1. queue' = Append(queue, c) /\ holders' = holders /\ handed' = handed
    BY <1>2 DEF Acquire
  <2>2. /\ DOMAIN queue' = 1 .. Len(queue) + 1
        /\ \A i \in 1 .. Len(queue) : queue'[i] = queue[i]
        /\ queue'[Len(queue) + 1] = c
    BY <1>1, <2>1, AppendProperties, LenProperties
  <2>3. \A x : x \in Range(queue') <=> x \in Range(queue) \cup {c}
    BY <1>1, <2>2 DEF Range
  <2> QED
    BY <2>1, <2>3
<1>3. ASSUME Acquire(c), ~Locked
      PROVE  holders' = holders \cup {c} /\ handed' = handed /\ queue' = queue
  BY <1>3 DEF Acquire
<1>4. ASSUME Resume(c)
      PROVE  /\ holders' = holders \cup {c}
             /\ \A x : x \in handed' \cup Range(queue')
                         <=> x \in (handed \ {c}) \cup Range(queue)
             /\ c \notin Range(queue)
  BY <1>1, <1>4, HandedOn DEF Resume, Range
<1>5. ASSUME Release(c)
      PROVE  /\ holders' = holders \ {c}
             /\ \A x : x \in handed' \cup Range(queue')
                         <=> x \in handed \cup Range(queue)
  <2>1. value + 1 \in Nat
    BY <1>1
  <2> QED
    BY <1>1, <1>5, <2>1, HandedOn DEF Release
<1>6. ASSUME TimeOut(c)
      PROVE  /\ holders' = holders
             /\ \A x : x \in handed' \cup Range(queue')
                         <=> x \in (handed \cup Range(queue)) \ {c}
  <2>1. holders' = holders
    BY <1>6 DEF TimeOut
  <2>2. CASE c \in handed /\ HandOn(value + 1, handed \ {c})
    <3>1. value + 1 \in Nat
      BY <1>1
    <3>2. \A x : x \in handed' \cup Range(queue')
                     <=> x \in (handed \ {c}) \cup Range(queue)
      BY <1>1, <2>2, <3>1, HandedOn
    <3>3. c \notin Range(queue)
      BY <1>1, <2>2 DEF Range
    <3> QED
      BY <2>1, <3>2, <3>3
  <2>3. ASSUME NEW i \in DOMAIN queue, queue[i] = c, queue' = RemoveAt(queue, i),
               handed' = handed
        PROVE  \A x : x \in handed' \cup Range(queue')
                         <=> x \in (handed \cup Range(queue)) \ {c}
    <3>1. i \in 1 .. Len(queue)
      BY <1>1
    <3>2. Range(queue') = Range(queue) \ {c}
      BY <1>1, <2>3, <3>1, RemovedDistinct DEF Distinct
    <3>3. c \notin handed
      BY <1>1, <2>3
    <3> QED
      BY <2>3, <3>2, <3>3
  <2> QED
    BY <1>6, <2>1, <2>2, <2>3 DEF TimeOut
<1> QED
  BY <1>2, <1>3, <1>4, <1>5, <1>6

LEMMA PipelineInvStep ==
    PipelineInv /\ TypeOK' /\ [PipelineNext]_pipelineVars => PipelineInv'
<1> SUFFICES ASSUME PipelineInv, TypeOK', [PipelineNext]_pipelineVars
             PROVE  PipelineInv'
  OBVIOUS
<1>1. PermitInv'
  BY PermitsStep, PermitStep DEF PipelineInv
<1>2. stage \in [Caller -> Stage] /\ PermitsInUse /\ PermitInv
  BY DEF PipelineInv, PipelineTypeOK
<1>3. CASE UNCHANGED pipelineVars
  BY <1>1, <1>3 DEF pipelineVars, permitVars, PipelineInv, PipelineTypeOK,
                    PermitInv, PermitsInUse
<1>4. CASE ClockTicks
  BY <1>1, <1>4 DEF ClockTicks, permitVars, PipelineInv, PipelineTypeOK,
                    PermitInv, PermitsInUse
<1>5. ASSUME NEW c \in Caller, Step(c)
      PROVE  PipelineInv'
  <2>1. erp' = erp
    BY <1>5 DEF Step, Arrive, TurnedAway, Enter, WakeUp, GoOn, GiveUp, Return
  <2>2. stage' \in [Caller -> Stage]
    BY <1>2, <1>5
    DEF Step, Arrive, TurnedAway, Enter, WakeUp, GoOn, GiveUp, Return, Answer,
        Move, Stage
  <2>3. ASSUME NEW s \in Stage, stage' = [stage EXCEPT ![c] = s],
               erp = "quickbooks",
               holders' = IF s = "call" THEN holders \cup {c} ELSE holders \ {c},
               handed' \cup Range(queue') =
                   IF s = "permit" THEN handed \cup Range(queue) \cup {c}
                                   ELSE (handed \cup Range(queue)) \ {c}
        PROVE  PermitsInUse'
    <3>1. \A d \in Caller : stage'[d] = IF d = c THEN s ELSE stage[d]
      BY <1>2, <2>3
    <3>2. /\ holders = {d \in Caller : stage[d] = "call"}
          /\ handed \cup Range(queue) = {d \in Caller : stage[d] = "permit"}
      BY <1>2, <2>3 DEF PermitsInUse
    <3>3. holders' = {d \in Caller : stage'[d] = "call"}
      BY <2>3, <3>1, <3>2
    <3>4. handed' \cup Range(queue') = {d \in Caller : stage'[d] = "permit"}
      BY <2>3, <3>1, <3>2
    <3> QED
      BY <3>3, <3>4 DEF PermitsInUse
  <2>4. ASSUME erp # "quickbooks" PROVE PermitsInUse'
    BY <2>1, <2>4 DEF PermitsInUse
  <2>5. ASSUME erp = "quickbooks" PROVE PermitsInUse'
    <3>1. /\ holders = {d \in Caller : stage[d] = "call"}
          /\ handed \cup Range(queue) = {d \in Caller : stage[d] = "permit"}
      BY <1>2, <2>5 DEF PermitsInUse
    <3>2. CASE Arrive(c) \/ TurnedAway(c) \/ WakeUp(c)
      <4>1. UNCHANGED permitVars /\ stage[c] \in {"none", "window"}
        BY <3>2 DEF Arrive, TurnedAway, WakeUp
      <4>2. /\ holders' = holders \ {c}
            /\ handed' \cup Range(queue') = (handed \cup Range(queue)) \ {c}
        BY <3>1, <4>1 DEF permitVars
      <4>3. \E s \in {"none", "window"} : stage' = [stage EXCEPT ![c] = s]
        BY <1>2, <3>2, <4>1 DEF Arrive, TurnedAway, WakeUp, Answer, Move
      <4> QED
        BY <2>3, <2>5, <4>2, <4>3 DEF Stage
    <3>3. CASE Enter(c)
      <4>1. stage[c] = "window" /\ Acquire(c)
            /\ stage' = [stage EXCEPT ![c] = IF Locked THEN "permit" ELSE "call"]
        BY <2>5, <3>3 DEF Enter, Move
      <4>2. c \notin holders /\ c \notin handed \cup Range(queue)
        BY <3>1, <4>1
      <4>3. CASE Locked
        <5>1. /\ holders' = holders \ {c}
              /\ handed' \cup Range(queue') = handed \cup Range(queue) \cup {c}
          BY <1>2, <4>1, <4>2, <4>3, WaitersMove
        <5> QED
          BY <2>3, <2>5, <4>1, <4>3, <5>1 DEF Stage
      <4>4. CASE ~Locked
        <5>1. /\ holders' = holders \cup {c}
              /\ handed' \cup Range(queue') = (handed \cup Range(queue)) \ {c}
          BY <1>2, <4>1, <4>2, <4>4, WaitersMove
        <5> QED
          BY <2>3, <2>5, <4>1, <4>4, <5>1 DEF Stage
      <4> QED
        BY <4>3, <4>4
    <3>4. CASE GoOn(c)
      <4>1. Resume(c) /\ stage' = [stage EXCEPT ![c] = "call"]
        BY <3>4 DEF GoOn, Move
      <4>2. /\ holders' = holders \cup {c}
            /\ handed' \cup Range(queue') = (handed \cup Range(queue)) \ {c}
        BY <1>2, <4>1, WaitersMove
      <4> QED
        BY <2>3, <2>5, <4>1, <4>2 DEF Stage
    <3>5. CASE GiveUp(c)
      <4>1. /\ TimeOut(c) /\ stage[c] = "permit"
            /\ stage' = [stage EXCEPT ![c] = "none"]
        BY <3>5 DEF GiveUp, Answer, Move
      <4>2. /\ holders' = holders \ {c}
            /\ handed' \cup Range(queue') = (handed \cup Range(queue)) \ {c}
        BY <1>2, <3>1, <4>1, WaitersMove
      <4> QED
        BY <2>3, <2>5, <4>1, <4>2 DEF Stage
    <3>6. CASE Return(c)
      <4>1. /\ Release(c) /\ stage[c] = "call"
            /\ stage' = [stage EXCEPT ![c] = "none"]
        BY <2>5, <3>6 DEF Return, Answer, Move
      <4>2. /\ holders' = holders \ {c}
            /\ handed' \cup Range(queue') = (handed \cup Range(queue)) \ {c}
        BY <1>2, <3>1, <4>1, WaitersMove
      <4> QED
        BY <2>3, <2>5, <4>1, <4>2 DEF Stage
    <3> QED
      BY <1>5, <3>2, <3>3, <3>4, <3>5, <3>6 DEF Step
  <2>6. PermitsInUse'
    BY <2>4, <2>5
  <2> QED
    BY <1>1, <2>1, <2>2, <2>6 DEF PipelineInv, PipelineTypeOK, PermitInv
<1> QED
  BY <1>3, <1>4, <1>5 DEF PipelineNext

\* The inductive invariant holds in every state.
LEMMA PipelineInvAlways == PipelineSafe => []PipelineInv
<1>1. PipelineSafe => []TypeOK
  <2>1. PipelineSafe => [](TypeOK /\ OverrunBounded)
    BY PipelineImplementsLimits, OverrunAlwaysBounded, Zenon
  <2> QED
    BY <2>1, PTL
<1> QED
  BY <1>1, PipelineInvInit, PipelineInvStep, PTL DEF PipelineSafe

\* The state of the pipeline stays well formed: the window, the semaphore and
\* the stage of every request (routes/erp.py).
THEOREM PipelineTyped == PipelineSafe => []PipelineTypeOK
<1>1. PipelineInv => PipelineTypeOK
  BY DEF PipelineInv
<1> QED
  BY <1>1, PipelineInvAlways, PTL

\* A permit is held exactly while its holder's call is under way, whatever
\* requests time out, fail or end (rate_limiter.py:92-102, erp.py:53-58).
THEOREM PermitsAlwaysInUse == PipelineSafe => []PermitsInUse
<1>1. PipelineInv => PermitsInUse
  BY DEF PipelineInv
<1> QED
  BY <1>1, PipelineInvAlways, PTL

\* For any number of callers and permits: no more calls of a tenant are under
\* way at QuickBooks than there are permits (same lines).
THEOREM CallsAlwaysBounded == PipelineSafe => []CallsBounded
<1>1. PipelineInv => CallsBounded
  <2> SUFFICES ASSUME PipelineInv, erp = "quickbooks"
               PROVE  Cardinality({c \in Caller : stage[c] = "call"}) <= Permits
    BY DEF CallsBounded
  <2>1. Cardinality(holders) \in Nat /\ Cardinality(handed) \in Nat /\ value \in Nat
    BY CallersFinite DEF PipelineInv, PermitInv, PermitTypeOK
  <2>2. Cardinality(holders) <= Permits
    BY <2>1 DEF PipelineInv, PermitInv, PermitsKept
  <2> QED
    BY <2>2 DEF PipelineInv, PermitsInUse
<1> QED
  BY <1>1, PipelineInvAlways, PTL
=============================================================================
