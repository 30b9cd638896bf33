-------------------------- MODULE RequestPipeline --------------------------
(***************************************************************************)
(* The way of a request through the connector: its credentials             *)
(* (middleware/auth.py), the request window, the adapter and the body      *)
(* (routes/erp.py), a permit for QuickBooks, the ERP.  The dependencies    *)
(* are resolved in the order of the endpoint's parameters, so a request is *)
(* charged to the window before its body is looked at and before it waits  *)
(* for a permit.                                                           *)
(***************************************************************************)
EXTENDS RateLimiter, ConcurrencyLimiter

VARIABLES
    erp,   \* ERP_TYPE, read once from the environment
    stage  \* where each request is

pipelineVars == <<vars, permitVars, erp, stage>>

Stage == {"none", "window", "permit", "call"}

Move(c, s) == stage' = [stage EXCEPT ![c] = s]

\* require_erp_auth: a request without a token or a tenant is answered at once,
\* which changes nothing; any other is charged to the window, refused, or put
\* to sleep.
Arrive(c) ==
    /\ stage[c] = "none"
    /\ Call(c) /\ Move(c, "window")
    /\ UNCHANGED <<permitVars, erp>>

\* The request is answered, whatever the answer.
Answer(c) == Move(c, "none") /\ Done(c)

\* raise_rate_limit_timeout, an adapter that is missing, or a body that the
\* request's schema refuses.
TurnedAway(c) ==
    /\ stage[c] = "window" /\ pc[c] \in {"refused", "allowed"}
    /\ Answer(c)
    /\ UNCHANGED <<permitVars, erp>>

\* handle_adapter_errors: only QuickBooks has permits.
Enter(c) ==
    /\ stage[c] = "window" /\ pc[c] = "allowed"
    /\ IF erp = "quickbooks"
       THEN Acquire(c) /\ Move(c, IF Locked THEN "permit" ELSE "call")
       ELSE Move(c, "call") /\ UNCHANGED permitVars
    /\ UNCHANGED <<vars, erp>>

WakeUp(c) ==
    /\ stage[c] = "window" /\ Wake(c)
    /\ UNCHANGED <<permitVars, erp, stage>>

GoOn(c) ==
    /\ stage[c] = "permit" /\ Resume(c) /\ Move(c, "call")
    /\ UNCHANGED <<vars, erp>>

GiveUp(c) ==
    /\ stage[c] = "permit" /\ TimeOut(c) /\ Answer(c)
    /\ UNCHANGED erp

\* Mutant of Return: the permit is kept when the call fails.
ReturnOnSuccess(c) ==
    /\ stage[c] = "call"
    /\ IF erp = "quickbooks" THEN Release(c) \/ UNCHANGED permitVars
                             ELSE UNCHANGED permitVars
    /\ Answer(c)
    /\ UNCHANGED erp

\* The adapter returns or raises.  Either way the permit is given back.
Return(c) ==
    /\ stage[c] = "call"
    /\ IF erp = "quickbooks" THEN Release(c) ELSE UNCHANGED permitVars
    /\ Answer(c)
    /\ UNCHANGED erp

ClockTicks == Tick /\ UNCHANGED <<permitVars, erp, stage>>

PipelineInit ==
    /\ Init /\ PermitInit
    /\ erp \in {"xero", "quickbooks", "mock"}
    /\ stage = [c \in Caller |-> "none"]

Step(c) ==
    \/ Arrive(c) \/ TurnedAway(c) \/ Enter(c) \/ WakeUp(c)
    \/ GoOn(c) \/ GiveUp(c) \/ Return(c)

PipelineNext == ClockTicks \/ \E c \in Caller : Step(c)

PipelineSafe == PipelineInit /\ [][PipelineNext]_pipelineVars

\* The clock runs; the event loop runs whoever is ready; a call ends, by an
\* answer or by its time limit of 30 seconds, and so does a wait for a permit.
PipelineSpec ==
    /\ PipelineSafe /\ WF_pipelineVars(ClockTicks)
    /\ \A c \in Caller :
          /\ WF_pipelineVars(TurnedAway(c)) /\ WF_pipelineVars(Enter(c))
          /\ WF_pipelineVars(WakeUp(c)) /\ WF_pipelineVars(GoOn(c))
          /\ WF_pipelineVars(GiveUp(c)) /\ WF_pipelineVars(Return(c))

-----------------------------------------------------------------------------
(***************************************************************************)
(* Properties.                                                             *)
(***************************************************************************)

PipelineTypeOK ==
    /\ TypeOK /\ PermitTypeOK
    /\ erp \in {"xero", "quickbooks", "mock"}
    /\ stage \in [Caller -> Stage]

\* A permit is held exactly while its holder's call is under way, and waited
\* for only by requests that are not answered yet: none outlives its request
\* (rate_limiter.py:94-102, erp.py:57-58).
PermitsInUse ==
    erp = "quickbooks" =>
        /\ holders = {c \in Caller : stage[c] = "call"}
        /\ handed \cup Range(queue) = {c \in Caller : stage[c] = "permit"}

\* No more calls of a tenant are under way at QuickBooks than there are
\* permits ("max 10 simultaneous QBO calls per tenant", erp.py:53).
CallsBounded ==
    erp = "quickbooks" => Cardinality({c \in Caller : stage[c] = "call"}) <= Permits

\* Every request is answered, whatever the others do.
Answered == \A c \in Caller : stage[c] # "none" ~> stage[c] = "none"
=============================================================================
