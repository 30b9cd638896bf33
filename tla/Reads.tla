------------------------------- MODULE Reads -------------------------------
(***************************************************************************)
(* Requests that read from an ERP in several calls: the lists, page by     *)
(* page (utils/pagination.py and the loops of adapters/xero.py), and the   *)
(* lookups by id (adapters/qbo.py get_contact asks for a customer and then *)
(* for a vendor).  The ERP's records change between the calls.             *)
(***************************************************************************)
EXTENDS Integers, Sequences, FiniteSets, SequencesExt

CONSTANTS
    Entity,     \* what a list is of; contacts are two entities in QBO
    Record,     \* the ids of records
    PageSize,   \* 1000 records in QBO, 100 in Xero
    MaxPages,   \* max_pages
    MaxRecords, \* bound: records of an entity
    MaxChanges, \* bound: records made or removed by others
    MaxFaults   \* bound: calls that fail

ASSUME ReadsAssumption ==
    /\ {"Customer", "Vendor"} \subseteq Entity
    /\ PageSize \in Nat \ {0}
    /\ MaxPages \in Nat \ {0}
    /\ MaxRecords \in Nat
    /\ MaxChanges \in Nat
    /\ MaxFaults \in Nat

\* The entities a request reads, one after the other.
Sources == {<<e>> : e \in Entity} \cup {<<"Customer", "Vendor">>}

\* fetch_all_pages refuses long lists; Xero's loops do not, and its accounts
\* come in one answer.  A lenient lookup takes an error for "no match".
List == [kind : {"list"}, style : {"capped", "uncapped", "whole"},
         entities : Sources]
Lookup == {l \in [kind : {"lookup"}, lenient : BOOLEAN, id : Record,
                  entities : Sources] :
              Len(l.entities) > 1 => l.lenient}

VARIABLES
    store,   \* the records of each entity, in the ERP's order
    req,     \* the request
    step,    \* which of its entities it is reading
    page,    \* the page it asks for next
    merged,  \* how often its answer holds each record of each entity
    found,   \* the entities that had the id it looks up
    status,  \* how it ended
    changes, \* records made or removed by others
    faults,  \* calls that failed
    steady,  \* records that have been there since the request began
    made,    \* records of each entity made since then
    removed, \* records of each entity removed since then
    peak     \* the most records of each entity since then

erp == <<store, changes, steady, made, removed, peak>>
vars == <<erp, req, step, page, merged, found, status, faults>>

Injective(q) == \A i, j \in DOMAIN q : q[i] = q[j] => i = j
Lists == UNION {{q \in [1 .. n -> Record] : Injective(q)} : n \in 0 .. MaxRecords}

TypeOK ==
    /\ store \in [Entity -> Seq(Record)] /\ \A e \in Entity : Injective(store[e])
    /\ req \in List \cup Lookup
    /\ step \in DOMAIN req.entities
    /\ page \in Nat \ {0}
    /\ req.kind = "list" /\ req.style = "capped" /\ status # "refused"
        => page <= MaxPages
    /\ merged \in [Entity -> [Record -> Nat]]
    /\ found \subseteq Entity
    /\ status \in {"reading", "answered", "refused", "ambiguous", "absent", "failed"}
    /\ changes \in Nat /\ faults \in Nat
    /\ steady \in [Entity -> SUBSET Record]
    /\ made \in [Entity -> Nat] /\ removed \in [Entity -> Nat]
    /\ peak \in [Entity -> Nat]

Asked == Range(req.entities)
Current == req.entities[step]

-----------------------------------------------------------------------------
(***************************************************************************)
(* Lists.                                                                  *)
(***************************************************************************)

\* Mutants of OnPage: pages that overlap in a record, and a first page that
\* is skipped.
OnPageOverlapping(q, p) ==
    {q[k] : k \in {i \in DOMAIN q : i >= (p - 1) * PageSize /\ i <= p * PageSize}}
OnPageSkipping(q, p) ==
    {q[k] : k \in {i \in DOMAIN q : i > p * PageSize /\ i <= (p + 1) * PageSize}}

\* The records of page p: PageSize of them from (p - 1) * PageSize + 1.
OnPage(q, p) ==
    {q[k] : k \in {i \in DOMAIN q : i > (p - 1) * PageSize /\ i <= p * PageSize}}

\* Every record is on the one page of a list that is not paged.
InAnswer == IF req.style = "whole" THEN Range(store[Current])
                                   ELSE OnPage(store[Current], page)

\* Mutant of LastPage: the loop ends on an empty page only.
LastPageEmpty ==
    req.style = "whole" \/ Len(store[Current]) <= (page - 1) * PageSize

\* Fewer than PageSize records, or none.
LastPage == req.style = "whole" \/ Len(store[Current]) < page * PageSize

\* Mutant of TooMany: the cap is missing.
TooManyNever(p) == FALSE

TooMany(p) == req.style = "capped" /\ p > MaxPages

\* The loop goes on to the next page, unless that is one too many.
TurnPage ==
    /\ page' = page + 1
    /\ status' = IF TooMany(page + 1) THEN "refused" ELSE "reading"

\* Mutant of NextList: an empty page is asked for again.
NextListNonEmpty ==
    IF page > 1 /\ InAnswer = {} THEN UNCHANGED <<step, page, status>>
    ELSE IF step < Len(req.entities)
    THEN step' = step + 1 /\ page' = 1 /\ status' = "reading"
    ELSE status' = "answered" /\ UNCHANGED <<step, page>>

\* The list of customers is followed by that of vendors, from page 1.
NextList ==
    IF step < Len(req.entities)
    THEN step' = step + 1 /\ page' = 1 /\ status' = "reading"
    ELSE status' = "answered" /\ UNCHANGED <<step, page>>

ReadPage ==
    /\ status = "reading" /\ req.kind = "list"
    /\ merged' = [merged EXCEPT ![Current] =
                     [r \in Record |-> @[r] + (IF r \in InAnswer THEN 1 ELSE 0)]]
    /\ IF LastPage THEN NextList ELSE TurnPage /\ UNCHANGED step
    /\ UNCHANGED <<erp, req, found, faults>>

-----------------------------------------------------------------------------
(***************************************************************************)
(* Lookups.                                                                *)
(***************************************************************************)

\* Mutant of Verdict: a customer is the answer, whoever else has its id.
VerdictFirst(f) == IF f = {} THEN "absent" ELSE "answered"

Verdict(f) ==
    CASE f = {} -> "absent"
      [] Cardinality(f) = 1 -> "answered"
      [] OTHER -> "ambiguous"

\* The call for the current entity had result hit.
Looked(hit) ==
    /\ found' = IF hit THEN found \cup {Current} ELSE found
    /\ IF step < Len(req.entities)
       THEN step' = step + 1 /\ UNCHANGED status
       ELSE status' = Verdict(found') /\ UNCHANGED step

LookUp ==
    /\ status = "reading" /\ req.kind = "lookup"
    /\ Looked(req.id \in Range(store[Current]))
    /\ UNCHANGED <<erp, req, page, merged, faults>>

\* A call fails for good, after its retries, with any error but "not found".
\* The exceptions that are not the adapter's own end every request.
CallFails ==
    /\ status = "reading" /\ faults < MaxFaults
    /\ faults' = faults + 1
    /\ \/ status' = "failed" /\ UNCHANGED <<step, found>>
       \/ req.kind = "lookup" /\ req.lenient /\ Looked(FALSE)
    /\ UNCHANGED <<erp, req, page, merged>>

-----------------------------------------------------------------------------
(***************************************************************************)
(* Others make and remove records, anywhere in the ERP's order.            *)
(***************************************************************************)

Made(e, r, i) ==
    /\ r \notin Range(store[e]) /\ Len(store[e]) < MaxRecords
    /\ i \in 1 .. Len(store[e]) + 1
    /\ store' = [store EXCEPT ![e] = InsertAt(@, i, r)]
    /\ made' = [made EXCEPT ![e] = @ + 1]
    /\ peak' = [peak EXCEPT ![e] = IF Len(store[e]) + 1 > @ THEN Len(store[e]) + 1 ELSE @]
    /\ UNCHANGED <<steady, removed>>

Removed(e, i) ==
    /\ i \in DOMAIN store[e]
    /\ store' = [store EXCEPT ![e] = RemoveAt(@, i)]
    /\ steady' = [steady EXCEPT ![e] = @ \ {store[e][i]}]
    /\ removed' = [removed EXCEPT ![e] = @ + 1]
    /\ UNCHANGED <<made, peak>>

Elsewhere ==
    /\ status = "reading" /\ changes < MaxChanges
    /\ changes' = changes + 1
    /\ \E e \in Asked :
          \/ \E r \in Record : \E i \in 1 .. Len(store[e]) + 1 : Made(e, r, i)
          \/ \E i \in DOMAIN store[e] : Removed(e, i)
    /\ UNCHANGED <<req, step, page, merged, found, status, faults>>

-----------------------------------------------------------------------------
\* Entities that are not read are left empty.
Init ==
    /\ req \in List \cup Lookup
    /\ store \in [Entity -> Lists]
    /\ \A e \in Entity \ Asked : store[e] = <<>>
    /\ step = 1 /\ page = 1
    /\ merged = [e \in Entity |-> [r \in Record |-> 0]]
    /\ found = {} /\ status = "reading"
    /\ changes = 0 /\ faults = 0
    /\ steady = [e \in Entity |-> Range(store[e])]
    /\ made = [e \in Entity |-> 0] /\ removed = [e \in Entity |-> 0]
    /\ peak = [e \in Entity |-> Len(store[e])]

Next == ReadPage \/ LookUp \/ CallFails \/ Elsewhere

\* Every call ends, by an answer or its time limit of 30 seconds.
Safe == Init /\ [][Next]_vars
Spec == Safe /\ WF_vars(ReadPage) /\ WF_vars(LookUp)

-----------------------------------------------------------------------------
(***************************************************************************)
(* Properties.                                                             *)
(***************************************************************************)

\* A list that is answered misses at most one of the records that were there
\* all the time for every record removed meanwhile, and none when none was:
\* records made while it is read do not make it skip any
\* (pagination.py:34-46, xero.py:122-141).
MissedBounded ==
    status = "answered" /\ req.kind = "list" =>
        \A e \in Asked :
            Cardinality({r \in steady[e] : merged[e][r] = 0}) <= removed[e]

\* At most one record is listed more than once for every record made while
\* the list is read, and none when none was (same lines).
TwiceBounded ==
    req.kind = "list" =>
        \A e \in Asked :
            Cardinality({r \in Record : merged[e][r] > 1}) <= made[e]

\* A list goes on to another page only if the ERP held, all at once, the
\* records of the full pages before it, whatever was made and removed between
\* the calls: the loops that have no cap are bounded by the records there are,
\* and a list is refused only where MaxPages pages were full
\* (pagination.py:26-46, xero.py:122-141).
PagesBounded ==
    req.kind = "list" => (page - 1) * PageSize <= peak[Current]

\* A list is refused as too long only if the ERP held more records than
\* MaxPages pages hold: "If page count exceeds 100 pages" (pagination.py:9),
\* "Result set exceeds 100,000 records" (pagination.py:30).
RefusedOnlyLonger ==
    status = "refused" => peak[Current] > MaxPages * PageSize

\* Unless a call failed that counts as "no match", a record that was there
\* all the time is not reported absent, and an id that was a customer's and a
\* vendor's all the time is not answered with one of them (qbo.py:490-504).
LookupTrue ==
    req.kind = "lookup" /\ (faults = 0 \/ ~req.lenient) =>
        LET there == {e \in Asked : req.id \in steady[e]}
        IN /\ status = "absent" => there = {}
           /\ status = "answered" => Cardinality(there) <= 1

\* Every request ends, also a list that has no cap (xero.py:122-141).
RequestEnds == <>(status # "reading")
=============================================================================
