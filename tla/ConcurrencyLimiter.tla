------------------------ MODULE ConcurrencyLimiter ------------------------
(***************************************************************************)
(* limit_concurrency of utils/rate_limiter.py for one tenant: an           *)
(* asyncio.Semaphore with a time limit on the wait for it.  A permit that  *)
(* is released is handed to the first in the queue, who owns it from then  *)
(* on but goes on only when the event loop runs it: until then its time    *)
(* limit may still pass, and the permit must be handed on.                 *)
(***************************************************************************)
EXTENDS Integers, Sequences, SequencesExt, Callers

CONSTANT Permits  \* the semaphore's initial value: 10

ASSUME PermitsAssumption == Permits \in Nat \ {0}

VARIABLES
    value,   \* the semaphore's counter: permits nobody has
    queue,   \* the callers that wait, first come first served
    handed,  \* callers that were handed a permit and have not gone on yet
    holders  \* callers inside the context manager

permitVars == <<value, queue, handed, holders>>

PermitTypeOK ==
    /\ value \in Nat
    /\ queue \in Seq(Caller)
    /\ handed \subseteq Caller
    /\ holders \subseteq Caller

\* Mutant of HandOn: the permit that is handed over is free as well.
HandOnTwice(v, h) ==
    IF v = 0 \/ queue = <<>>
    THEN value' = v /\ handed' = h /\ UNCHANGED queue
    ELSE value' = v /\ handed' = h \cup {Head(queue)} /\ queue' = Tail(queue)

\* asyncio: v permits are free, and h are the callers with one on its way.
\* The first who waits gets one.
HandOn(v, h) ==
    IF v = 0 \/ queue = <<>>
    THEN value' = v /\ handed' = h /\ UNCHANGED queue
    ELSE value' = v - 1 /\ handed' = h \cup {Head(queue)} /\ queue' = Tail(queue)

\* Whoever comes while others wait, or have not gone on yet, waits as well.
Locked == value = 0 \/ queue # <<>> \/ handed # {}

Absent(c) == c \notin holders \cup handed \cup Range(queue)

Acquire(c) ==
    /\ Absent(c)
    /\ IF Locked THEN queue' = Append(queue, c) /\ UNCHANGED <<value, holders>>
                 ELSE /\ value' = value - 1 /\ holders' = holders \cup {c}
                      /\ UNCHANGED queue
    /\ UNCHANGED handed

\* Mutant of Resume: permits that were kept back from newcomers stay so.
ResumeAlone(c) ==
    /\ c \in handed
    /\ holders' = holders \cup {c} /\ handed' = handed \ {c}
    /\ UNCHANGED <<value, queue>>

\* The caller goes on, and if more permits are free so does the next.
Resume(c) ==
    /\ c \in handed
    /\ holders' = holders \cup {c}
    /\ HandOn(value, handed \ {c})

\* Mutant of TimeOut: the permit of a caller that gave up stays with it.
TimeOutLosing(c) ==
    /\ \/ c \in handed /\ handed' = handed \ {c} /\ UNCHANGED <<value, queue>>
       \/ \E i \in DOMAIN queue :
             queue[i] = c /\ queue' = RemoveAt(queue, i) /\ UNCHANGED <<value, handed>>
    /\ UNCHANGED holders

\* wait_for gives up: the caller leaves the queue, or hands on its permit.
TimeOut(c) ==
    /\ \/ c \in handed /\ HandOn(value + 1, handed \ {c})
       \/ \E i \in DOMAIN queue :
             queue[i] = c /\ queue' = RemoveAt(queue, i) /\ UNCHANGED <<value, handed>>
    /\ UNCHANGED holders

\* The finally block, however the body ended.
Release(c) ==
    /\ c \in holders
    /\ holders' = holders \ {c}
    /\ HandOn(value + 1, handed)

PermitInit ==
    value = Permits /\ queue = <<>> /\ handed = {} /\ holders = {}

PermitNext ==
    \E c \in Caller : Acquire(c) \/ Resume(c) \/ TimeOut(c) \/ Release(c)

PermitSpec == PermitInit /\ [][PermitNext]_permitVars

-----------------------------------------------------------------------------
(***************************************************************************)
(* Properties.                                                             *)
(***************************************************************************)

\* No permit is lost or made up, also when a wait ends in the very moment a
\* permit is handed over: they are free, on their way to a caller, or held
\* ("max 10 concurrent", rate_limiter.py:95-102).
PermitsKept ==
    value + Cardinality(handed) + Cardinality(holders) = Permits

\* A free permit never stays idle while a caller waits: then somebody has
\* been handed one and, going on, wakes the next (rate_limiter.py:95).
NoIdlePermit == value > 0 /\ queue # <<>> => handed # {}
=============================================================================
