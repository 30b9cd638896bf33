---------------------------- MODULE RateLimiter ----------------------------
(***************************************************************************)
(* check_and_consume of utils/rate_limiter.py for one tenant: a counter of *)
(* the requests let through in the current window of 60 seconds, and the   *)
(* callers that sleep until the window ends.                               *)
(*                                                                         *)
(* The tenants' counters are independent.  Nothing is awaited inside       *)
(* either block under the tenant's lock, so each block is one action; the  *)
(* sleep between them is not locked.  Times are ages: the code compares    *)
(* elapsed with the window length and nothing else.                        *)
(***************************************************************************)
EXTENDS Integers, Callers

CONSTANTS
    Limit,   \* limit_per_min
    Window,  \* the length of the window: 60 seconds
    Timeout  \* timeout_seconds

ASSUME RateLimiterAssumption ==
    /\ Limit \in Nat \ {0}
    /\ Window \in Nat \ {0}
    /\ Timeout \in Nat

VARIABLES
    count,   \* counters[tenant_id]["count"]; 0: no counter yet
    elapsed, \* the age of the window, Window when it is that old or older
    pc,      \* where each caller is
    left,    \* how long each caller still sleeps
    waiting, \* callers asleep that the current window turned away
    late     \* callers charged to the current window after their sleep

vars == <<count, elapsed, pc, left, waiting, late>>

TypeOK ==
    /\ count \in Nat
    /\ elapsed \in 0 .. Window
    /\ pc \in [Caller -> {"idle", "asleep", "allowed", "refused"}]
    /\ left \in [Caller -> 0 .. Window]
    /\ waiting \subseteq Caller
    /\ late \subseteq Caller

Goto(c, label) == pc' = [pc EXCEPT ![c] = label]

\* A new counter, or a counter whose window is over, starts with this call.
OpenWindow(c) ==
    /\ count' = 1 /\ elapsed' = 0
    /\ waiting' = {} /\ late' = {}
    /\ Goto(c, "allowed")

WindowOver == count = 0 \/ elapsed = Window

OpenAtOnce(c) ==
    /\ pc[c] = "idle" /\ WindowOver
    /\ OpenWindow(c)
    /\ UNCHANGED left

\* Mutant of Consume: one call too many fits into the window.
ConsumeOneMore(c) ==
    /\ pc[c] = "idle" /\ ~WindowOver /\ count <= Limit
    /\ count' = count + 1
    /\ Goto(c, "allowed")
    /\ UNCHANGED <<elapsed, left, waiting, late>>

Consume(c) ==
    /\ pc[c] = "idle" /\ ~WindowOver /\ count < Limit
    /\ count' = count + 1
    /\ Goto(c, "allowed")
    /\ UNCHANGED <<elapsed, left, waiting, late>>

\* Mutants of SleepFor: the age of the window, not what is left of it; the
\* operands of the subtraction swapped.
SleepForAge == elapsed
SleepForSwapped == elapsed - Window

SleepFor == Window - elapsed

Full == ~WindowOver /\ count >= Limit

\* raise_rate_limit_timeout
Refuse(c) ==
    /\ pc[c] = "idle" /\ Full /\ SleepFor > Timeout
    /\ Goto(c, "refused")
    /\ UNCHANGED <<count, elapsed, left, waiting, late>>

Sleep(c) ==
    /\ pc[c] = "idle" /\ Full /\ SleepFor <= Timeout
    /\ left' = [left EXCEPT ![c] = SleepFor]
    /\ waiting' = waiting \cup {c}
    /\ Goto(c, "asleep")
    /\ UNCHANGED <<count, elapsed, late>>

\* Mutant of Wake: a caller that finds the window full sleeps again.
WakeToFull(c) ==
    /\ pc[c] = "asleep" /\ left[c] = 0
    /\ \/ WindowOver /\ OpenWindow(c) /\ UNCHANGED left
       \/ /\ ~WindowOver /\ count < Limit
          /\ count' = count + 1
          /\ late' = late \cup {c}
          /\ Goto(c, "allowed")
          /\ UNCHANGED <<elapsed, left, waiting>>
       \/ /\ Full
          /\ left' = [left EXCEPT ![c] = SleepFor]
          /\ waiting' = waiting \cup {c}
          /\ UNCHANGED <<count, elapsed, pc, late>>

\* After asyncio.sleep: the call is charged to whatever window is current.
Wake(c) ==
    /\ pc[c] = "asleep" /\ left[c] = 0
    /\ \/ WindowOver /\ OpenWindow(c)
       \/ /\ ~WindowOver
          /\ count' = count + 1
          /\ late' = late \cup {c}
          /\ Goto(c, "allowed")
          /\ UNCHANGED <<elapsed, waiting>>
    /\ UNCHANGED left

\* The request is over, answered by the ERP or with rate_limit_timeout.
Done(c) ==
    /\ pc[c] \in {"allowed", "refused"}
    /\ Goto(c, "idle")
    /\ UNCHANGED <<count, elapsed, left, waiting, late>>

\* Time passes, for the window and for every sleeper alike; a sleeper may
\* wake later than it asked for.
Tick ==
    /\ elapsed' = IF elapsed < Window THEN elapsed + 1 ELSE elapsed
    /\ left' = [c \in Caller |-> IF left[c] > 0 THEN left[c] - 1 ELSE 0]
    /\ UNCHANGED <<count, pc, waiting, late>>

Init ==
    /\ count = 0 /\ elapsed = 0
    /\ pc = [c \in Caller |-> "idle"]
    /\ left = [c \in Caller |-> 0]
    /\ waiting = {} /\ late = {}

Call(c) == OpenAtOnce(c) \/ Consume(c) \/ Refuse(c) \/ Sleep(c)

Next == Tick \/ \E c \in Caller : Call(c) \/ Wake(c) \/ Done(c)

Safe == Init /\ [][Next]_vars

-----------------------------------------------------------------------------
(***************************************************************************)
(* Properties.                                                             *)
(***************************************************************************)

\* What the limiter guarantees: in one window, the limit and one more call for
\* each caller that an earlier window had put to sleep (a caller that wakes is
\* counted without a look at the limit).
OverrunBounded == count <= Limit + Cardinality(late)

\* A caller put to sleep is never charged to the window that was full when
\* it called: if that window is still the current one when the caller goes
\* on, the caller starts the next.  ("consume token in the new window".)
WaitsForNewWindow ==
    [][\A c \in waiting :
         pc[c] = "asleep" /\ pc'[c] = "allowed" => count' = 1 /\ elapsed' = 0]_vars

=============================================================================
