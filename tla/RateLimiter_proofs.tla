------------------------- MODULE RateLimiter_proofs -------------------------
(***************************************************************************)
(* RateLimiter for any callers, limit, window and timeout: how far a       *)
(* window can exceed the limit, and that no sleeper is charged to the      *)
(* window that turned it away.  Both rest on one fact: a caller that the   *)
(* current window put to sleep sleeps exactly as long as that window lasts.*)
(***************************************************************************)
EXTENDS RateLimiter, FiniteSetTheorems, TLAPS

\* The sleepers of the current window wake when it is over, not before.
WaitingOut ==
    \A c \in waiting :
        pc[c] = "asleep" /\ left[c] = Window - elapsed /\ count > 0

\* A caller charged late to this window, asleep again, waits for its end.
LateWaits == \A c \in late : pc[c] = "asleep" => c \in waiting

RateInv == TypeOK /\ WaitingOut /\ LateWaits /\ OverrunBounded

LEMMA EmptyOverrun ==
    Cardinality({}) = 0
BY FS_EmptySet

LEMMA LateFinite ==
    ASSUME TypeOK
    PROVE  IsFiniteSet(late) /\ Cardinality(late) \in Nat
<1>1. IsFiniteSet(late)
  BY RateLimiterAssumption, CallersAssumption, FS_Subset DEF TypeOK
<1> QED
  BY <1>1, FS_CardinalityType

LEMMA RateInit ==
    Init => RateInv
<1> SUFFICES ASSUME Init PROVE RateInv
  OBVIOUS
<1>1. TypeOK
  BY RateLimiterAssumption, CallersAssumption DEF Init, TypeOK
<1>2. WaitingOut /\ LateWaits
  BY DEF Init, WaitingOut, LateWaits
<1>3. OverrunBounded
  BY EmptyOverrun, RateLimiterAssumption, CallersAssumption DEF Init, OverrunBounded
<1> QED
  BY <1>1, <1>2, <1>3 DEF RateInv

\* A new window owes nothing to the sleepers of the old ones.
LEMMA OpenWindowKeeps ==
    ASSUME RateInv, NEW c \in Caller, OpenWindow(c), UNCHANGED left
    PROVE  RateInv'
<1> USE DEF RateInv
<1>1. TypeOK'
  BY RateLimiterAssumption, CallersAssumption DEF TypeOK, OpenWindow, Goto
<1>2. WaitingOut' /\ LateWaits'
  BY DEF OpenWindow, WaitingOut, LateWaits
<1>3. OverrunBounded'
  BY EmptyOverrun, RateLimiterAssumption, CallersAssumption DEF OpenWindow, OverrunBounded
<1> QED
  BY <1>1, <1>2, <1>3

\* A caller the current window turned away cannot go on before it is over.
LEMMA WaitingSleeps ==
    ASSUME RateInv, NEW c \in waiting, left[c] = 0
    PROVE  WindowOver
BY RateLimiterAssumption, CallersAssumption
DEF RateInv, TypeOK, WaitingOut, WindowOver

LEMMA CallKeeps ==
    ASSUME RateInv, NEW c \in Caller, Call(c)
    PROVE  RateInv'
<1> USE RateLimiterAssumption, CallersAssumption DEF RateInv
<1>1. CASE OpenAtOnce(c)
  BY <1>1, OpenWindowKeeps DEF OpenAtOnce
<1>2. CASE Consume(c)
  <2>1. TypeOK'
    BY <1>2 DEF Consume, TypeOK, Goto
  <2>2. WaitingOut' /\ LateWaits'
    BY <1>2 DEF Consume, TypeOK, Goto, WaitingOut, LateWaits
  <2>3. OverrunBounded'
    BY <1>2, LateFinite DEF Consume, TypeOK, OverrunBounded
  <2> QED
    BY <2>1, <2>2, <2>3
<1>3. CASE Refuse(c)
  <2>1. TypeOK' /\ OverrunBounded'
    BY <1>3 DEF Refuse, TypeOK, Goto, OverrunBounded
  <2>2. WaitingOut' /\ LateWaits'
    BY <1>3 DEF Refuse, TypeOK, Goto, WaitingOut, LateWaits
  <2> QED
    BY <2>1, <2>2
<1>4. CASE Sleep(c)
  <2>1. SleepFor \in 0 .. Window /\ count > 0
    BY <1>4 DEF Sleep, Full, WindowOver, SleepFor, TypeOK
  <2>2. TypeOK' /\ OverrunBounded'
    BY <1>4, <2>1 DEF Sleep, TypeOK, Goto, OverrunBounded
  <2>3. WaitingOut' /\ LateWaits'
    BY <1>4, <2>1
    DEF Sleep, SleepFor, TypeOK, Goto, WaitingOut, LateWaits
  <2> QED
    BY <2>2, <2>3
<1> QED
  BY <1>1, <1>2, <1>3, <1>4 DEF Call

LEMMA WakeKeeps ==
    ASSUME RateInv, NEW c \in Caller, Wake(c)
    PROVE  RateInv'
<1> USE RateLimiterAssumption, CallersAssumption DEF RateInv
<1>1. CASE WindowOver
  BY <1>1, OpenWindowKeeps DEF Wake
<1>2. CASE ~WindowOver
  <2>1. /\ pc[c] = "asleep" /\ left[c] = 0
        /\ count' = count + 1 /\ late' = late \cup {c}
        /\ pc' = [pc EXCEPT ![c] = "allowed"]
        /\ UNCHANGED <<elapsed, waiting, left>>
    BY <1>2 DEF Wake, Goto
  <2>2. c \notin waiting /\ c \notin late
    BY <1>2, <2>1, WaitingSleeps DEF LateWaits
  <2>3. TypeOK' /\ WaitingOut' /\ LateWaits'
    BY <2>1, <2>2 DEF TypeOK, WaitingOut, LateWaits
  <2>4. Cardinality(late') = Cardinality(late) + 1
    BY <2>1, <2>2, LateFinite, FS_AddElement
  <2>5. OverrunBounded'
    BY <2>1, <2>4, LateFinite DEF TypeOK, OverrunBounded
  <2> QED
    BY <2>3, <2>5
<1> QED
  BY <1>1, <1>2

LEMMA TickKeeps ==
    ASSUME RateInv, Tick
    PROVE  RateInv'
<1> USE RateLimiterAssumption, CallersAssumption DEF RateInv
<1>1. TypeOK' /\ OverrunBounded'
  BY DEF Tick, TypeOK, OverrunBounded
<1>2. WaitingOut' /\ LateWaits'
  BY DEF Tick, TypeOK, WaitingOut, LateWaits
<1> QED
  BY <1>1, <1>2

LEMMA RateNext ==
    RateInv /\ [Next]_vars => RateInv'
<1> SUFFICES ASSUME RateInv, [Next]_vars PROVE RateInv'
  OBVIOUS
<1>1. CASE Tick
  BY <1>1, TickKeeps
<1>2. ASSUME NEW c \in Caller, Call(c) PROVE RateInv'
  BY <1>2, CallKeeps
<1>3. ASSUME NEW c \in Caller, Wake(c) PROVE RateInv'
  BY <1>3, WakeKeeps
<1>4. ASSUME NEW c \in Caller, Done(c) PROVE RateInv'
  BY <1>4
  DEF Done, Goto, RateInv, TypeOK, WaitingOut, LateWaits, OverrunBounded
<1>5. CASE UNCHANGED vars
  BY <1>5 DEF vars, RateInv, TypeOK, WaitingOut, LateWaits, OverrunBounded
<1> QED
  BY <1>1, <1>2, <1>3, <1>4, <1>5 DEF Next

\* The limiter's state is well formed, and a window lets through at most the
\* limit and one call more for each caller that earlier windows had put to
\* sleep: check_and_consume's increment after the sleep, which does not look
\* at the limit, cannot charge a caller twice to one window.
THEOREM OverrunAlwaysBounded ==
    Safe => [](TypeOK /\ OverrunBounded)
<1>1. RateInv => TypeOK /\ OverrunBounded
  BY DEF RateInv
<1> QED
  BY <1>1, RateInit, RateNext, PTL DEF Safe

\* No caller is charged to the window that put it to sleep, for every limit,
\* window and timeout.  (check_and_consume's sleep until the window's end.)
THEOREM SleepersSkipTheirWindow ==
    Safe => WaitsForNewWindow
<1> DEFINE A == \A c \in waiting :
                  pc[c] = "asleep" /\ pc'[c] = "allowed"
                    => count' = 1 /\ elapsed' = 0
<1>1. RateInv /\ [Next]_vars => [A]_vars
  <2> SUFFICES ASSUME RateInv, Next, NEW c \in waiting,
                      pc[c] = "asleep", pc'[c] = "allowed"
               PROVE  count' = 1 /\ elapsed' = 0
    OBVIOUS
  <2>0. /\ pc \in [Caller -> {"idle", "asleep", "allowed", "refused"}]
        /\ c \in Caller
    BY DEF RateInv, TypeOK
  <2>1. CASE Tick
    BY <2>1 DEF Tick
  <2>2. ASSUME NEW d \in Caller, Call(d) \/ Done(d)
        PROVE  FALSE
    BY <2>0, <2>2
    DEF Call, OpenAtOnce, OpenWindow, Consume, Refuse, Sleep, Done, Goto
  <2>3. ASSUME NEW d \in Caller, Wake(d)
        PROVE  count' = 1 /\ elapsed' = 0
    <3>1. d = c
      BY <2>0, <2>3 DEF Wake, OpenWindow, Goto
    <3>2. WindowOver
      BY <2>3, <3>1, WaitingSleeps DEF Wake
    <3> QED
      BY <2>3, <3>2 DEF Wake, OpenWindow
  <2> QED
    BY <2>1, <2>2, <2>3 DEF Next
<1>2. RateInv /\ [Next]_vars => RateInv'
  BY RateNext
<1> QED
  BY <1>1, <1>2, RateInit, PTL DEF Safe, WaitsForNewWindow

=============================================================================
