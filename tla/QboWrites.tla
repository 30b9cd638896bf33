----------------------------- MODULE QboWrites -----------------------------
(***************************************************************************)
(* Requests that write to QuickBooks Online (adapters/qbo.py): creates,    *)
(* payments and invoice updates, each HTTP call made up to three times     *)
(* (utils/resilience.py), on one invoice that is also edited elsewhere.    *)
(*                                                                         *)
(* A call is one step, with its outcome: nothing but QBO's state decides   *)
(* the answer.  A POST whose answer does not come goes adrift: QBO may     *)
(* have carried it out, may do so later, or never.                         *)
(***************************************************************************)
EXTENDS Naturals

CONSTANTS
    Request,     \* requests, each served by a task of its own
    Kind,        \* "create", "pay" or "update" for each request
    Field,       \* fields of the invoice that updates may name
    Names,       \* the fields each update names
    MaxAttempts, \* stop_after_attempt
    MaxEdits     \* bound: edits of the invoice made elsewhere

ASSUME QboWritesAssumption ==
    /\ Kind \in [Request -> {"create", "pay", "update"}]
    /\ Names \in [Request -> SUBSET Field]
    /\ "elsewhere" \notin Request
    /\ MaxAttempts \in Nat \ {0}
    /\ MaxEdits \in Nat

VARIABLES
    version, \* the invoice's SyncToken
    invoice, \* whose value each field of the invoice has
    edits,   \* edits made elsewhere
    pc,      \* the call each request is making
    attempt, \* which attempt at it this is
    sync,    \* the SyncToken each update fetched
    fields,  \* the invoice each update posts
    adrift,  \* POSTs of each request given up and not carried out
    made,    \* how often QBO carried out each request
    answer   \* what each caller was told

qbo == <<version, invoice, edits, made>>
vars == <<qbo, pc, attempt, sync, fields, adrift, answer>>

Writer == Request \cup {"elsewhere"}

TypeOK ==
    /\ version \in Nat
    /\ invoice \in [Field -> Writer]
    /\ edits \in Nat
    /\ pc \in [Request -> {"get", "post", "done"}]
    /\ attempt \in [Request -> 1 .. MaxAttempts]
    /\ sync \in [Request -> Nat]
    /\ fields \in [Request -> [Field -> Writer]]
    /\ adrift \in [Request -> Nat]
    /\ made \in [Request -> Nat]
    /\ answer \in [Request -> {"none", "ok", "conflict", "refused",
                               "timeout", "unavailable"}]

-----------------------------------------------------------------------------
(***************************************************************************)
(* What QBO does with a POST that reaches it.                              *)
(***************************************************************************)

\* Mutant of SyncSent: the token is fetched once more before the POST.
SyncSentFresh(r) == version

\* full_invoice["SyncToken"] = sync_token
SyncSent(r) == sync[r]

Conflicts(r) == Kind[r] = "update" /\ SyncSent(r) # version

\* QBO carries out r's POST; an update makes a new version of the invoice.
CarryOut(r) ==
    /\ ~Conflicts(r)
    /\ made' = [made EXCEPT ![r] = @ + 1]
    /\ IF Kind[r] = "update"
       THEN version' = version + 1 /\ invoice' = fields[r]
       ELSE UNCHANGED <<version, invoice>>
    /\ UNCHANGED edits

-----------------------------------------------------------------------------
(***************************************************************************)
(* One call of a request.                                                  *)
(***************************************************************************)

Answer(r, what) ==
    /\ pc' = [pc EXCEPT ![r] = "done"]
    /\ answer' = [answer EXCEPT ![r] = what]
    /\ UNCHANGED attempt

\* Mutant of LastAttempt: so many retries after the first attempt.
LastAttemptLater(r) == attempt[r] > MaxAttempts

LastAttempt(r) == attempt[r] >= MaxAttempts

\* Mutants of TryAgain: the attempts are not counted; the whole request is
\* made again.
TryAgainForever(r, error) == UNCHANGED <<pc, attempt, answer>>
TryAgainAtStart(r, error) ==
    \/ ~LastAttempt(r) /\ attempt' = [attempt EXCEPT ![r] = @ + 1]
       /\ pc' = [pc EXCEPT ![r] = IF Kind[r] = "create" THEN "post" ELSE "get"]
       /\ UNCHANGED answer
    \/ LastAttempt(r) /\ Answer(r, error)

\* erp_transient_retry: the same call again, or the error of the last one
TryAgain(r, error) ==
    \/ ~LastAttempt(r) /\ attempt' = [attempt EXCEPT ![r] = @ + 1]
       /\ UNCHANGED <<pc, answer>>
    \/ LastAttempt(r) /\ Answer(r, error)

\* The request leaves a POST behind, and what becomes of it is QBO's.
Abandon(r) ==
    adrift' = IF pc[r] = "post" THEN [adrift EXCEPT ![r] = @ + 1] ELSE adrift

\* get_entity: the invoice and its SyncToken, with the update's own fields
Fetched(r) ==
    /\ pc[r] = "get"
    /\ sync' = [sync EXCEPT ![r] = version]
    /\ fields' = [fields EXCEPT ![r] =
                    [f \in Field |-> IF f \in Names[r] THEN r ELSE invoice[f]]]
    /\ pc' = [pc EXCEPT ![r] = "post"]
    /\ attempt' = [attempt EXCEPT ![r] = 1]
    /\ UNCHANGED <<qbo, adrift, answer>>

\* post_entity, answered 200
Posted(r) ==
    /\ pc[r] = "post"
    /\ CarryOut(r)
    /\ Answer(r, "ok")
    /\ UNCHANGED <<sync, fields, adrift>>

\* Fault 5010: the SyncToken is not the invoice's.
Conflicted(r) ==
    /\ pc[r] = "post" /\ Conflicts(r)
    /\ Answer(r, "conflict")
    /\ UNCHANGED <<qbo, sync, fields, adrift>>

\* Any other status than 200: QBO did nothing, and nothing is retried.
Refused(r) ==
    /\ pc[r] # "done"
    /\ Answer(r, "refused")
    /\ UNCHANGED <<qbo, sync, fields, adrift>>

\* ConnectTimeout, ConnectError: the call did not reach QBO.
NotReached(r) ==
    /\ pc[r] # "done"
    /\ \E error \in {"timeout", "unavailable"} : TryAgain(r, error)
    /\ UNCHANGED <<qbo, sync, fields, adrift>>

\* ReadTimeout: no answer within 30 seconds
TimedOut(r) ==
    /\ pc[r] # "done"
    /\ Abandon(r)
    /\ TryAgain(r, "timeout")
    /\ UNCHANGED <<qbo, sync, fields>>

\* Any other failure of the connection is not retried.
Broken(r) ==
    /\ pc[r] # "done"
    /\ Abandon(r)
    /\ \E error \in {"timeout", "unavailable"} : Answer(r, error)
    /\ UNCHANGED <<qbo, sync, fields>>

Call(r) ==
    \/ Fetched(r) \/ Posted(r) \/ Conflicted(r) \/ Refused(r)
    \/ NotReached(r) \/ TimedOut(r) \/ Broken(r)

\* A POST that was given up is carried out after all.
Late(r) ==
    /\ adrift[r] > 0
    /\ adrift' = [adrift EXCEPT ![r] = @ - 1]
    /\ CarryOut(r)
    /\ UNCHANGED <<pc, attempt, sync, fields, answer>>

\* Somebody else edits the invoice, or a payment changes it.
Elsewhere ==
    /\ edits < MaxEdits
    /\ edits' = edits + 1
    /\ version' = version + 1
    /\ \E f \in Field : invoice' = [invoice EXCEPT ![f] = "elsewhere"]
    /\ UNCHANGED <<made, pc, attempt, sync, fields, adrift, answer>>

Init ==
    /\ version = 0 /\ edits = 0
    /\ invoice = [f \in Field |-> "elsewhere"]
    /\ pc = [r \in Request |-> IF Kind[r] = "create" THEN "post" ELSE "get"]
    /\ attempt = [r \in Request |-> 1]
    /\ sync = [r \in Request |-> 0]
    /\ fields = [r \in Request |-> invoice]
    /\ adrift = [r \in Request |-> 0]
    /\ made = [r \in Request |-> 0]
    /\ answer = [r \in Request |-> "none"]

Next == Elsewhere \/ \E r \in Request : Call(r) \/ Late(r)

Spec == Init /\ [][Next]_vars

-----------------------------------------------------------------------------
(***************************************************************************)
(* Properties.                                                             *)
(***************************************************************************)

\* QBO carries out an update once, however often it is posted.  ("always
\* fetch fresh before updating", get_entity_with_sync_token.)
UpdatedOnce == \A r \in Request : Kind[r] = "update" => made[r] <= 1

\* Nobody's change is undone by an update that did not name the field: a
\* field takes a new value from an edit elsewhere, or from a request that
\* names it and is carried out by that very step.  (update_invoice posts the
\* whole invoice it read.)
FieldsKept ==
    [][\A f \in Field : invoice'[f] # invoice[f] =>
         \/ invoice'[f] = "elsewhere" /\ edits' = edits + 1
         \/ \E r \in Request : /\ invoice'[f] = r /\ f \in Names[r]
                               /\ made[r] = 0 /\ made'[r] = 1]_vars

\* A request is carried out no more often than the retry policy allows
\* attempts, also by POSTs that arrive after the answer.  ("Retry up to 3
\* total attempts", erp_transient_retry.)
MadeAtMost == \A r \in Request : made[r] + adrift[r] <= MaxAttempts

\* A record is created once.  ("only for connection timeouts / network-level
\* errors", erp_transient_retry.)
CreatedOnce == \A r \in Request : Kind[r] # "update" => made[r] <= 1

=============================================================================
