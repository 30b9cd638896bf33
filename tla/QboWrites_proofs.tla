-------------------------- MODULE QboWrites_proofs --------------------------
(***************************************************************************)
(* What the SyncToken gives QboWrites, for any requests, number of         *)
(* attempts and edits elsewhere: an update is carried out once, and undoes *)
(* nobody's change.  The invoice an update posts differs from the current  *)
(* one, as long as its SyncToken is current, in the named fields only.     *)
(***************************************************************************)
EXTENDS QboWrites, TLAPS

\* No update has a token from the future; one that was carried out has a
\* token of the past.
TokenOld ==
    \A r \in Request :
        Kind[r] = "update" =>
            /\ sync[r] <= version
            /\ made[r] \in {0, 1}
            /\ made[r] = 1 => sync[r] < version

\* Before it has fetched the invoice, a request has posted nothing.
FetchedFirst ==
    \A r \in Request :
        pc[r] = "get" => adrift[r] = 0 /\ made[r] = 0

\* An update with a current token posts the current invoice and its own
\* fields.
BodyCurrent ==
    \A r \in Request :
        Kind[r] = "update" /\ (pc[r] = "post" \/ adrift[r] > 0)
            /\ sync[r] = version
        => \A f \in Field :
              fields[r][f] = IF f \in Names[r] THEN r ELSE invoice[f]

UpdateInv == TypeOK /\ TokenOld /\ FetchedFirst /\ BodyCurrent

LEMMA QboInit ==
    Init => UpdateInv
<1> SUFFICES ASSUME Init PROVE UpdateInv
  OBVIOUS
<1> USE QboWritesAssumption DEF Init
<1>1. TypeOK
  BY DEF TypeOK, Writer
<1>2. TokenOld /\ FetchedFirst /\ BodyCurrent
  BY DEF TokenOld, FetchedFirst, BodyCurrent
<1> QED
  BY <1>1, <1>2 DEF UpdateInv

\* What QBO carries out keeps the invariant of every request's token and
\* body: a new version makes all other tokens old.
LEMMA CarryOutKeeps ==
    ASSUME UpdateInv, NEW r \in Request, CarryOut(r),
           pc[r] = "post" \/ adrift[r] > 0,
           UNCHANGED <<sync, fields>>,
           \A s \in Request :
              /\ pc'[s] = "get" => pc[s] = "get" /\ s # r
              /\ pc'[s] = "post" => pc[s] = "post"
              /\ pc'[s] = "get" => adrift'[s] = adrift[s]
              /\ adrift'[s] > 0 => adrift[s] > 0
    PROVE  /\ TokenOld' /\ FetchedFirst' /\ BodyCurrent'
           /\ version' \in Nat /\ invoice' \in [Field -> Writer]
           /\ made' \in [Request -> Nat]
<1> USE QboWritesAssumption DEF UpdateInv
<1>0. /\ version \in Nat /\ invoice \in [Field -> Writer]
      /\ made \in [Request -> Nat] /\ sync \in [Request -> Nat]
      /\ fields \in [Request -> [Field -> Writer]]
      /\ made' = [made EXCEPT ![r] = @ + 1]
  BY DEF TypeOK, CarryOut
<1>1. CASE Kind[r] = "update"
  <2>1. sync[r] = version /\ version' = version + 1 /\ invoice' = fields[r]
    BY <1>0, <1>1 DEF CarryOut, Conflicts, SyncSent
  <2>2. TokenOld'
    BY <1>0, <1>1, <2>1 DEF TokenOld
  <2>3. FetchedFirst'
    BY <1>0 DEF FetchedFirst
  <2>4. \A s \in Request : Kind[s] = "update" => sync'[s] # version'
    BY <1>0, <2>1 DEF TokenOld
  <2>5. BodyCurrent'
    BY <2>4 DEF BodyCurrent
  <2> QED
    BY <1>0, <2>1, <2>2, <2>3, <2>5
<1>2. CASE Kind[r] # "update"
  <2>1. version' = version /\ invoice' = invoice
    BY <1>2 DEF CarryOut
  <2>2. TokenOld' /\ FetchedFirst'
    BY <1>0, <1>2, <2>1 DEF TokenOld, FetchedFirst
  <2>3. BodyCurrent'
    BY <1>0, <2>1 DEF BodyCurrent
  <2> QED
    BY <1>0, <2>1, <2>2, <2>3
<1> QED
  BY <1>1, <1>2

\* A call that QBO does not carry out leaves at most its POST behind.
Undelivered(r) ==
    /\ UNCHANGED <<version, invoice, edits, made, sync, fields>>
    /\ \/ adrift' = adrift
       \/ pc[r] = "post" /\ adrift' = [adrift EXCEPT ![r] = @ + 1]

LEMMA AnswerKeeps ==
    ASSUME UpdateInv, NEW r \in Request, Undelivered(r),
           NEW error \in {"conflict", "refused", "timeout", "unavailable"},
           Answer(r, error)
    PROVE  UpdateInv'
<1> USE QboWritesAssumption DEF UpdateInv, Undelivered, Answer
<1>1. TypeOK'
  BY DEF TypeOK
<1>2. TokenOld'
  BY DEF TokenOld
<1>3. FetchedFirst'
  BY DEF TypeOK, FetchedFirst
<1>4. BodyCurrent'
  BY DEF TypeOK, BodyCurrent
<1> QED
  BY <1>1, <1>2, <1>3, <1>4

LEMMA TryAgainKeeps ==
    ASSUME UpdateInv, NEW r \in Request, Undelivered(r),
           NEW error \in {"timeout", "unavailable"}, TryAgain(r, error)
    PROVE  UpdateInv'
<1> USE QboWritesAssumption DEF UpdateInv
<1>1. CASE LastAttempt(r)
  BY <1>1, AnswerKeeps DEF TryAgain
<1>2. CASE ~LastAttempt(r)
  <2> USE DEF Undelivered
  <2>1. attempt' = [attempt EXCEPT ![r] = @ + 1] /\ UNCHANGED <<pc, answer>>
    BY <1>2 DEF TryAgain
  <2>2. TypeOK'
    BY <1>2, <2>1 DEF LastAttempt, TypeOK
  <2>3. TokenOld'
    BY DEF TokenOld
  <2>4. FetchedFirst'
    BY <2>1 DEF TypeOK, FetchedFirst
  <2>5. BodyCurrent'
    BY <2>1 DEF TypeOK, BodyCurrent
  <2> QED
    BY <2>2, <2>3, <2>4, <2>5
<1> QED
  BY <1>1, <1>2

LEMMA CallKeeps ==
    ASSUME UpdateInv, NEW r \in Request, Call(r)
    PROVE  UpdateInv'
<1> USE QboWritesAssumption DEF UpdateInv, qbo
<1>0. TypeOK /\ TokenOld /\ FetchedFirst /\ BodyCurrent
  OBVIOUS
<1>1. CASE Fetched(r)
  <2>1. /\ sync' = [sync EXCEPT ![r] = version]
        /\ fields' = [fields EXCEPT ![r] =
              [f \in Field |-> IF f \in Names[r] THEN r ELSE invoice[f]]]
        /\ pc' = [pc EXCEPT ![r] = "post"]
        /\ attempt' = [attempt EXCEPT ![r] = 1]
        /\ UNCHANGED <<version, invoice, edits, made, adrift, answer>>
        /\ pc[r] = "get" /\ made[r] = 0
    BY <1>1, <1>0 DEF Fetched, FetchedFirst
  <2>2. TypeOK'
    BY <2>1 DEF TypeOK, Writer
  <2>3. TokenOld'
    BY <2>1 DEF TypeOK, TokenOld
  <2>4. FetchedFirst'
    BY <2>1 DEF TypeOK, FetchedFirst
  <2>5. BodyCurrent'
    BY <2>1 DEF TypeOK, BodyCurrent
  <2> QED
    BY <2>2, <2>3, <2>4, <2>5
<1>2. CASE Posted(r)
  <2>1. /\ pc[r] = "post" /\ CarryOut(r) /\ UNCHANGED <<sync, fields, adrift>>
        /\ pc' = [pc EXCEPT ![r] = "done"]
        /\ answer' = [answer EXCEPT ![r] = "ok"]
        /\ UNCHANGED <<edits, attempt>>
    BY <1>2 DEF Posted, Answer, CarryOut
  <2>2. /\ TokenOld' /\ FetchedFirst' /\ BodyCurrent'
        /\ version' \in Nat /\ invoice' \in [Field -> Writer]
        /\ made' \in [Request -> Nat]
    BY <2>1, CarryOutKeeps DEF TypeOK
  <2> QED
    BY <2>1, <2>2 DEF TypeOK
<1>3. CASE Conflicted(r) \/ Refused(r)
  BY <1>3, AnswerKeeps DEF Conflicted, Refused, Undelivered
<1>4. CASE NotReached(r)
  BY <1>4, TryAgainKeeps DEF NotReached, Undelivered
<1>5. CASE TimedOut(r)
  BY <1>5, TryAgainKeeps DEF TimedOut, Abandon, Undelivered
<1>6. CASE Broken(r)
  BY <1>6, AnswerKeeps DEF Broken, Abandon, Undelivered
<1> QED
  BY <1>1, <1>2, <1>3, <1>4, <1>5, <1>6 DEF Call

LEMMA LateKeeps ==
    ASSUME UpdateInv, NEW r \in Request, Late(r)
    PROVE  UpdateInv'
<1> USE DEF UpdateInv
<1>1. /\ adrift[r] > 0 /\ adrift' = [adrift EXCEPT ![r] = @ - 1]
      /\ CarryOut(r)
      /\ UNCHANGED <<edits, pc, attempt, sync, fields, answer>>
  BY DEF Late, CarryOut
<1>2. pc[r] # "get"
  BY <1>1 DEF FetchedFirst
<1>3. /\ TokenOld' /\ FetchedFirst' /\ BodyCurrent'
      /\ version' \in Nat /\ invoice' \in [Field -> Writer]
      /\ made' \in [Request -> Nat]
  BY <1>1, <1>2, CarryOutKeeps DEF TypeOK
<1>4. adrift' \in [Request -> Nat]
  BY <1>1 DEF TypeOK
<1>5. TypeOK'
  BY <1>1, <1>3, <1>4 DEF TypeOK
<1> QED
  BY <1>3, <1>5

LEMMA ElsewhereKeeps ==
    ASSUME UpdateInv, Elsewhere
    PROVE  UpdateInv'
<1> USE DEF UpdateInv, Elsewhere
<1>1. TypeOK'
  BY DEF TypeOK, Writer
<1>2. TokenOld' /\ FetchedFirst'
  BY DEF TypeOK, TokenOld, FetchedFirst
<1>3. \A s \in Request : Kind[s] = "update" => sync'[s] # version'
  BY DEF TypeOK, TokenOld
<1>4. BodyCurrent'
  BY <1>3 DEF BodyCurrent
<1> QED
  BY <1>1, <1>2, <1>4

LEMMA QboNext ==
    UpdateInv /\ [Next]_vars => UpdateInv'
<1> SUFFICES ASSUME UpdateInv, [Next]_vars PROVE UpdateInv'
  OBVIOUS
<1>1. CASE UNCHANGED vars
  BY <1>1 DEF vars, qbo, UpdateInv, TypeOK, TokenOld, FetchedFirst, BodyCurrent
<1>2. CASE Next
  BY <1>2, CallKeeps, LateKeeps, ElsewhereKeeps DEF Next
<1> QED
  BY <1>1, <1>2

\* The state of the requests, of the POSTs that are still on their way and of
\* QBO stays well formed.
THEOREM WritesTyped ==
    Spec => []TypeOK
<1>1. UpdateInv => TypeOK
  BY DEF UpdateInv
<1> QED
  BY <1>1, QboInit, QboNext, PTL DEF Spec

\* An update is carried out at most once, for every number of attempts, timeouts
\* and late arrivals.  (update_invoice with erp_transient_retry.)
THEOREM UpdateAlwaysOnce ==
    Spec => []UpdatedOnce
<1>1. UpdateInv => UpdatedOnce
  BY DEF UpdateInv, TokenOld, UpdatedOnce
<1> QED
  BY <1>1, QboInit, QboNext, PTL DEF Spec

\* No update undoes a change to a field it does not name, although each one
\* posts the whole invoice.  (update_invoice and the SyncToken it sends.)
THEOREM UpdatesKeepFields ==
    Spec => FieldsKept
<1> DEFINE A == \A f \in Field : invoice'[f] # invoice[f] =>
         \/ invoice'[f] = "elsewhere" /\ edits' = edits + 1
         \/ \E r \in Request : /\ invoice'[f] = r /\ f \in Names[r]
                               /\ made[r] = 0 /\ made'[r] = 1
<1>1. UpdateInv /\ [Next]_vars => [A]_vars
  <2> SUFFICES ASSUME UpdateInv, Next, NEW f \in Field,
                      invoice'[f] # invoice[f]
               PROVE  \/ invoice'[f] = "elsewhere" /\ edits' = edits + 1
                      \/ \E r \in Request :
                            /\ invoice'[f] = r /\ f \in Names[r]
                            /\ made[r] = 0 /\ made'[r] = 1
    OBVIOUS
  <2>1. CASE Elsewhere
    BY <2>1 DEF Elsewhere, UpdateInv, TypeOK
  <2>2. ASSUME NEW r \in Request, CarryOut(r), pc[r] = "post" \/ adrift[r] > 0
        PROVE  /\ invoice'[f] = r /\ f \in Names[r]
               /\ made[r] = 0 /\ made'[r] = 1
    <3>1. /\ Kind[r] = "update" /\ sync[r] = version
          /\ invoice' = fields[r] /\ made' = [made EXCEPT ![r] = @ + 1]
      BY <2>2 DEF CarryOut, Conflicts, SyncSent
    <3>2. fields[r][f] = IF f \in Names[r] THEN r ELSE invoice[f]
      BY <2>2, <3>1 DEF UpdateInv, BodyCurrent
    <3>3. made \in [Request -> Nat] /\ made[r] = 0
      BY <3>1 DEF UpdateInv, TypeOK, TokenOld
    <3> QED
      BY <3>1, <3>2, <3>3
  <2>3. ASSUME NEW r \in Request, Call(r)
        PROVE  CarryOut(r) /\ pc[r] = "post"
    BY <2>3
    DEF Call, Fetched, Posted, Conflicted, Refused, NotReached, TimedOut,
        Broken, qbo
  <2>4. ASSUME NEW r \in Request, Late(r)
        PROVE  CarryOut(r) /\ adrift[r] > 0
    BY <2>4 DEF Late
  <2> QED
    BY <2>1, <2>2, <2>3, <2>4 DEF Next
<1>2. UpdateInv /\ [Next]_vars => UpdateInv'
  BY QboNext
<1> QED
  BY <1>1, <1>2, QboInit, PTL DEF Spec, FieldsKept

-----------------------------------------------------------------------------
(***************************************************************************)
(* How often a request can be carried out at all.                          *)
(***************************************************************************)

\* Each attempt but the current one has left at most one POST behind.
Counted ==
    \A r \in Request :
        IF pc[r] = "post" THEN made[r] + adrift[r] < attempt[r]
                          ELSE made[r] + adrift[r] <= MaxAttempts

LEMMA CountedNext ==
    ASSUME TypeOK, FetchedFirst, Counted, [Next]_vars
    PROVE  Counted'
<1> USE QboWritesAssumption
<1>1. CASE UNCHANGED vars
  BY <1>1 DEF vars, qbo, Counted
<1>2. CASE Elsewhere
  BY <1>2 DEF Elsewhere, Counted
<1>3. ASSUME NEW r \in Request, Late(r) PROVE Counted'
  BY <1>3 DEF Late, CarryOut, Counted, TypeOK
<1>4. ASSUME NEW r \in Request, Fetched(r) PROVE Counted'
  BY <1>4 DEF Fetched, qbo, Counted, TypeOK, FetchedFirst
<1>5. ASSUME NEW r \in Request, Posted(r) PROVE Counted'
  BY <1>5 DEF Posted, CarryOut, Answer, Counted, TypeOK
<1>6. ASSUME NEW r \in Request, Conflicted(r) \/ Refused(r) PROVE Counted'
  BY <1>6 DEF Conflicted, Refused, qbo, Answer, Counted, TypeOK
<1>7. ASSUME NEW r \in Request, NotReached(r) PROVE Counted'
  <2>1. UNCHANGED <<made, adrift>>
    BY <1>7 DEF NotReached, qbo
  <2>2. CASE LastAttempt(r)
    <3>1. pc' = [pc EXCEPT ![r] = "done"] /\ attempt' = attempt
      BY <1>7, <2>2 DEF NotReached, TryAgain, Answer
    <3> QED
      BY <2>1, <3>1 DEF Counted, TypeOK
  <2>3. CASE ~LastAttempt(r)
    <3>1. pc' = pc /\ attempt' = [attempt EXCEPT ![r] = @ + 1]
      BY <1>7, <2>3 DEF NotReached, TryAgain
    <3> QED
      BY <2>1, <3>1 DEF Counted, TypeOK
  <2> QED
    BY <2>2, <2>3
<1>8. ASSUME NEW r \in Request, TimedOut(r) PROVE Counted'
  BY <1>8 DEF TimedOut, Abandon, TryAgain, Answer, LastAttempt, qbo, Counted,
              TypeOK
<1>9. ASSUME NEW r \in Request, Broken(r) PROVE Counted'
  BY <1>9 DEF Broken, Abandon, Answer, qbo, Counted, TypeOK
<1> QED
  BY <1>1, <1>2, <1>3, <1>4, <1>5, <1>6, <1>7, <1>8, <1>9 DEF Next, Call

\* However calls time out and POSTs arrive late, QBO carries out a request
\* no more often than it may be attempted.  (erp_transient_retry.)
THEOREM MadeAlwaysAtMost ==
    Spec => []MadeAtMost
<1>1. Init => Counted
  <2> SUFFICES ASSUME Init, NEW r \in Request
               PROVE  IF pc[r] = "post"
                      THEN made[r] + adrift[r] < attempt[r]
                      ELSE made[r] + adrift[r] <= MaxAttempts
    BY DEF Counted
  <2>1. made[r] = 0 /\ adrift[r] = 0 /\ attempt[r] = 1
    BY DEF Init
  <2> QED
    BY <2>1, QboWritesAssumption
<1>2. UpdateInv /\ Counted /\ [Next]_vars => UpdateInv' /\ Counted'
  BY QboNext, CountedNext DEF UpdateInv
<1>3. UpdateInv /\ Counted => MadeAtMost
  <2> SUFFICES ASSUME TypeOK, Counted, NEW r \in Request
               PROVE  made[r] + adrift[r] <= MaxAttempts
    BY DEF UpdateInv, MadeAtMost
  <2>1. /\ made[r] \in Nat /\ adrift[r] \in Nat
        /\ attempt[r] \in 1 .. MaxAttempts
    BY DEF TypeOK
  <2> QED
    BY <2>1, QboWritesAssumption DEF Counted
<1> QED
  BY <1>1, <1>2, <1>3, QboInit, PTL DEF Spec

=============================================================================
