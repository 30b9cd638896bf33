# A verification development for ERP Connector

ERP Connector is a FastAPI service that puts one REST interface in front of Xero
and QuickBooks Online (QBO). It keeps the OAuth tokens of both ERPs in local
files, refreshes them, limits the rate of requests per tenant, and translates
requests and answers. These modules model its stateful core and
the translation of invoices in TLA+, check small instances with TLC and prove
the main results with TLAPS for every instance.
Paths below are relative to the repository's root.

## 1. Inventory

| Part | Source | State | Operations | Talks to |
|---|---|---|---|---|
| Token store and refresh | `token_manager.py` | registry file, Xero's legacy file, credentials file, a `threading.Lock` per ERP | `load_all_tokens`, `save_tokens`, `refresh_access_token`, `get_valid_token`, `get_tenant_id`, `_refresh_one_erp_if_due`, the background loop | ERP token endpoints; files |
| OAuth logins | `routes/auth.py` | set of state values handed out | set-up forms, login redirects, two callbacks, status page | token store, ERP |
| Request authentication | `middleware/auth.py` | none | `require_erp_auth` | token store, rate limiter |
| Rate limiter | `utils/rate_limiter.py` | a counter, a lock and a semaphore per tenant | `check_and_consume`, `limit_concurrency` | every request |
| ERP routes | `routes/erp.py` | none | fourteen endpoints, `handle_adapter_errors` | adapters, semaphore |
| Adapters | `adapters/qbo.py`, `adapters/xero.py`, `adapters/mock.py` | none of their own; the ERP's records | reads, creates, updates, payments | ERP, retry, paging, mapping |
| Retry, paging | `utils/resilience.py`, `utils/pagination.py` | attempt and page counters | `erp_transient_retry`, `fetch_all_pages` | adapters |
| Mapping | `utils/field_mapper.py`, `utils/transforms.py`, `config/mappings/` | none | pure functions | adapters |
| Lifecycle | `main.py` | the background task | start, stop, correlation ids | all |
| Declarations | `models/`, `utils/errors.py`, `utils/logger.py`, `config/settings.py`, `adapters/base_adapter.py`, `adapters/__init__.py` | none that changes | | |
| Refresh scripts | `scripts/` | none | refresh from a shell, another process | registry file, ERP |

**How they interact.** Every request runs `require_erp_auth`, which reads the
registry twice, for a token and for a tenant id, refreshing the token inline if
it has expired, and then waits in the rate limiter. The background loop checks
both ERPs every two minutes and refreshes, in a worker thread, a token that comes
close to its expiry. A login callback saves the tokens of a new login. All three
write the same file.

**What is hard.**

* *Two threads.* `get_valid_token` and the callbacks' `save_tokens` run on the
  event-loop thread, synchronously; `_locked_refresh` runs in a worker thread.
  They interleave at every file operation.
* *Locks narrower than the data.* The lock is per ERP, the file is one for all,
  and readers and callbacks take no lock.
* *Rotating refresh tokens.* An ERP accepts a refresh token once. An answer that
  is lost, a save that fails or a crash at the wrong moment loses the successor.
* *Time.* Two paths judge the same token by different ages; the limiter's callers
  sleep while others go on; a wait for a permit ends in the moment it is granted.
* *Several calls for one request.* A list is read page by page and a payment looks
  up its invoice first, while other users change the ERP's records; a POST whose
  answer is lost is repeated.
* *Derived data.* QBO has no status of an invoice; it is derived from a note that
  its users may edit, two amounts and a flag. Money goes through binary floats in both directions.

What makes each part correct: a refresh token is redeemed once (store); what is
on disk can be refreshed (store); a saved login stays (logins); a request is
given a token that is fresh and belongs to its tenant (authentication); every
request is answered, whatever it waits for (store, limiters); windows are overrun
by a bounded number of calls, and permits are neither lost nor made up
(limiters); an update is carried out once (QBO); a list misses and repeats no
more than the changes made meanwhile explain (adapters); status and amounts are
told as they are (mapping). The runs and proofs of sections 3 and 4 state these.

`PROJECT.json` lists every part, and every hazard at its line with the properties
that would notice it going wrong.

## 2. Modules

| Module | Models | Proofs |
|---|---|---|
| `Connection` | what the store promises of the connection to one ERP: the abstract specification `TokenManager` implements | |
| `TokenManager` | `token_manager.py`, the ends of both callbacks, the reads of `middleware/auth.py`, crash and restart | `TokenManager_proofs` |
| `MCTokenManager` | values of its constants for TLC | |
| `RateLimiter` | `check_and_consume` of one tenant, with its sleeping callers | `RateLimiter_proofs` |
| `ConcurrencyLimiter` | `limit_concurrency` of one tenant: a semaphore with a timed wait | `RequestPipeline_proofs` |
| `RequestPipeline` | the two limiters composed: a request's way from `middleware/auth.py` through `routes/erp.py` to the ERP | `RequestPipeline_proofs` |
| `Callers` | the requests of a tenant, the constant the limiters share | |
| `QboWrites` | the writing requests of `adapters/qbo.py`, with `utils/resilience.py` around every call | `QboWrites_proofs` |
| `MCQboWrites` | values of its constants for TLC | |
| `Reads` | lists and lookups of both adapters, with `utils/pagination.py` | `Reads_proofs` |
| `MCReads` | values of its constants and its first states for TLC | |
| `Invoices` | invoices and bills on their way to the ERP and back: both adapters' creates, payments and updates, `utils/transforms.py` | `Invoices_proofs` |
| `MCInvoices` | values of its constants for TLC | |
| `SequenceLemmas` | facts about sequences with an element inserted or removed, for the proofs of `Reads` and of the semaphore | all |
| `SumLemmas` | facts about sums over the lines of a document, for the proofs of `Invoices` | all |

### TokenManager

Two threads, `loop` and `worker`, each with a program counter and its local
variables. An action is what a thread does between two points where the other
thread can see or change something: reading a file, opening it for writing,
dumping into it, taking or releasing a lock, exchanging a token.

| Action | Code |
|---|---|
| `Request`, `Decide` | `get_valid_token`, first load and the decision to refresh (300-347) |
| `BgCheck` | `_refresh_one_erp_if_due` on the loop thread (430-468), which hands over to the worker |
| `Acquire`, `Recheck` | `with lock`, the second load and its check (348-356, 456-460) |
| `ReadLegacy` | the second half of any `load_all_tokens`: Xero's legacy file when the registry has no xero entry (177-191) |
| `Refresh`, `Refused`, `Unreachable`, `LostResponse` | the exchange in `refresh_access_token` (242-297) and what the ERP makes of it; on failure the lock is released and a request goes on with the token it had (361-369) |
| `Open`, `Flush`, `FlushMirror` | `save_tokens`: merge and empty the registry file, dump it, and for Xero the legacy file (206-226) |
| `SaveFails` | an exception in `save_tokens`, logged and dropped (227-228) |
| `ReadTenant`, `Respond` | `get_tenant_id` (372-387) and the return to the request |
| `Setup`, `Login`, `SaveLogin` | the set-up forms and the callbacks: the ERP issues tokens, the callback waits for its turn on the event loop, then saves under no lock |
| `Crash` | the process dies and starts again with the files as they are |
| `Tick` | a minute passes |

`registry` is what *reading* the file yields: `Empty` between `Open` and `Flush`,
since `load_all_tokens` turns an empty or unreadable file into `{}`. When two
dumps overlap, what is left is one of the contents or garbage, which also reads
as empty (`Landed`, `Collide`). A token is a serial number, the login it descends
from and the minute of issue. `live` is the set of refresh tokens an ERP accepts:
a refresh takes the redeemed one out of it, a login adds one. An ERP may answer a
refresh without a new refresh token (267, 292), and then the old one stays live.
A login to one of the ERPs in `Refreshless` may bring no refresh token, as the
callbacks allow for (auth.py:217, 317; Xero's scopes can be edited); the save then
keeps the one it finds (211), and an expired access token with no refresh token
beside it is served as it is (333). A legacy file may lack `saved_at`: the access
token in it is not `dated`, and its entry counts as saved in the minute it is read
(185).

Three history variables serve the properties: `faults` counts them, `taint` is
the last token an ERP had issued before a fault (tokens up to that one are
excused: a lost answer or a failed write may have lost their successor, which no
code could prevent), and `fellBack` marks a request that was left with its old
token, as the code's warning says.

Abstractions: the `XERO_TOKEN`, `QBO_TOKEN` and tenant variables of the
environment are unset; a client id and secret are known or not (`configured`),
and once known stay so; at most one login per ERP waits in a callback; the worker
serves the ERPs in any order, one at a time, at any moment and not only every
120 seconds. The clock counts minutes and moves only while no thread is inside a
file operation or a computation, and no callback is waiting; waiting for a lock
or for the ERP may take any time.

**Connection.** For a single ERP the store promises its user one thing: a login
makes a connection, and it lasts. `Connection` says so in two actions: `Connect`,
a login, and `Trouble`, a fault, which alone may lose the connection; none of the
refreshes, saves, restarts and races appears in it. `ConnectionKept` is that
specification with `conn` read off the detailed state: connected as long as the
ERP accepts a refresh token that is within reach (`Reach`), on disk, in a callback
under way, or with a thread that is going to use or to save it. It is a stronger
statement than `StoredUsable`: it also covers what happens after a fault, when a
token that was lost must not come back and one that was not must stay.

### RateLimiter

Callers of one tenant, each `idle`, `asleep`, `allowed` or `refused`. Nothing is
awaited under the tenant's `asyncio.Lock`, so each of the two locked blocks is
one action: `OpenAtOnce`, `Consume`, `Sleep` and `Refuse` for the four ways out of
the first (44-70), `Wake` for the second (76-84). Times are kept as the age of the
window and what each sleeper has left to sleep, which is all the code compares,
so no bound on time is needed. A sleeper may wake late; waking early, through
the resolution of the timer or a change of the wall clock, is not modelled.
`waiting` and `late` record which sleepers the current window turned away and
which it was charged for. A caller that wakes is counted without a look at the
limit (84), so a window that others have used up is overrun; `OverrunBounded`
says by how much at most.

### ConcurrencyLimiter and RequestPipeline

`limit_concurrency` waits for an `asyncio.Semaphore` with a time limit. A released
permit is handed to the first in the queue (`HandOn`), who owns it but goes on only
when the event loop runs it (`Resume`); if its time limit passes first, the permit
is handed on (`TimeOut`). As in Python 3.11, whoever comes while others wait, or
have been handed a permit and have not gone on, waits as well (`Locked`), and a
caller that goes on wakes the next if more permits are free.

`RequestPipeline` extends both limiters, which share the callers, and lets a
request through them in the order in which FastAPI resolves an endpoint's
parameters:

| Action | Code |
|---|---|
| `Arrive` | `require_erp_auth` up to `check_rate_limit` (`middleware/auth.py` 17-57) |
| `WakeUp` | the second half of `check_and_consume`, after the sleep |
| `TurnedAway` | refused by the limiter, no adapter (`get_adapter`), or a body the schema refuses |
| `Enter` | `handle_adapter_errors` up to the wait for a permit, for QuickBooks only |
| `GoOn`, `GiveUp` | the permit comes, or its time limit of 30 seconds |
| `Return` | the adapter's call returns or raises; the permit is given back (99-102) |

So a request is charged to the window before its body is looked at, and before it
waits for a permit: a body that is refused, and a wait that ends in
`rate_limit_timeout`, cost the tenant a call all the same. The answer that a
failure becomes is left out (each ends the request); noted while reading, a 429 of
Xero is told as 502, one of QBO as 429. Every endpoint of `routes/erp.py` goes this
way; what it does inside is in the next three modules. A request whose client goes
away is not modelled: the code has nothing for that case.

### QboWrites

Each request is a task of its own: a create or a payment posts a new record, an
update posts the invoice it has read, with its own fields and the SyncToken. A
payment and an update read the invoice first. `_do_request` makes a call up to
three times, so a call is one step with its outcome, repeated while attempts are
left.

| Action | Code |
|---|---|
| `Fetched` | `get_entity_with_sync_token` and the body built from it (197-212, 682-693); for a payment, the invoice's customer (633-642) |
| `Posted` | `post_entity` answered 200 (118-126) |
| `Conflicted` | fault 5010 (157-161) |
| `Refused` | every other status of `_check_response` (146-184), and an invoice that cannot be paid (635-642) |
| `NotReached`, `TimedOut` | what the policy retries (`resilience.py:34`): connection failures, after which QBO has seen nothing, and a read timeout, after which a POST is adrift |
| `Broken` | every other `httpx.RequestError`: not retried, and a POST is adrift |
| `Late` | a POST given up earlier is carried out, if its SyncToken is still the invoice's |
| `Elsewhere` | another user or a payment makes a new version of the invoice |

QBO is external: an update is carried out when its SyncToken is the invoice's
and then makes a new version; every other POST makes a new record. `made` counts
how often QBO carried out each request, whatever its caller was told. A field
holds the name of the request that set it, or `"elsewhere"`.

Abstractions: one invoice; an answer other than 200 means that QBO did nothing (an
error status after the fact would be one more way to lose an answer, which
`Broken` has); the pauses between attempts; the bodies' formats. `sparse` is left
out, as the body holds every field that was read.

An update that was carried out but not answered in time is posted again with its
old SyncToken and refused, and its caller is told of another process
(qbo.py:160); `made` is 1 then and the answer `conflict`.

### Reads

One request, a list or a lookup, of one or two entities one after the other, and
an ERP whose records are made and removed between its calls.

| Action | Code |
|---|---|
| `ReadPage` | one turn of `fetch_all_pages` (27-46) or of a loop of `xero.py` (122-141), or Xero's accounts in one answer; QBO's contacts are the pages of customers, then those of vendors (`NextList`) |
| `TooMany` | the cap of 100 pages, which QBO's lists have and Xero's do not |
| `LookUp` | one call by id; `get_contact` of QBO asks for a customer, then for a vendor (`Looked`), and `Verdict` is what it makes of both |
| `CallFails` | a call fails for good: the request ends, or a lenient lookup takes it for "no match" (qbo.py:459) |
| `Elsewhere` | another user makes a record anywhere in the ERP's order, or removes one |

A capped list of exactly 100 full pages is refused, too, although it does not
exceed 100,000 records (`full_list_refused`): the last page is only known to be the
last by being short. `PagesBounded` states what holds of every list: each page but
the last was full, and the ERP held that many records at one moment (`peak`). A lookup in Xero asks once, and a contact
that is both is told as a customer there. Abstractions: filters, which only drop
records after they were read; the retries of QBO's reads, which change nothing.

### Invoices

Documents in an ERP, with what they were asked for with (`asked`), what has been
paid (`received`) and which were voided, next to what a client is told of them:
`StatusTold`, `AmountTold` and `LinesTold` are the transforms of
`config/mappings/` applied to the ERP's document. An operator for data that goes
through binary floats yields every value the rounding may give.

| Action | Code |
|---|---|
| `QboCreateInvoice`, `QboCreateBill`, `XeroCreateInvoice`, `XeroCreateBill` | the creates with the amounts of their lines: QBO's are computed here (qbo.py:265, 572), Xero's by Xero |
| `XeroPay`; `Fetch`, `Post` | `record_payment`: one call to Xero; a look at the invoice and then a payment in QBO, with anything in between |
| `XeroUpdate` | the change of status (xero.py:502-511), where any word that is not known means `DRAFT` |
| `Submit`, `Delete`, `Send`, `VoidQbo`, `Annotate`, `PayInErp`, `Unpay` | the ERP's users |

The ERPs are external: they take a payment up to the balance (Xero: of an
approved document), Xero sets `PAID` with the last payment and takes it back with
a payment removed, QBO voids an invoice by setting its amounts to 0 and writing
"Voided" into its note.

*Tax.* The amount told is the ERP's total (`Total`, `TotalAmt`), tax included, while
the lines told are without it. Neither adapter sends the `tax_type` of a line, so the
ERP adds what its accounts, products and customers imply: `Enter` adds any amount of
the constant `Tax` to the sum of the lines, and the document keeps it. `AmountKept`
and `LinesAddUp` compare the amount told, less that tax, with the lines; a client,
who is not told the tax, cannot. How an ERP computes a tax is not modelled, nor
are prices that include it: the adapters leave the ERPs' default, which adds it.

*Notes.* A QBO document has a private note, which either holds the letters "void" or
does not. Its users may replace it at any time, also after the invoice was voided
(`Annotate`). The derived status hangs on it (transforms.py:115-117), so a voided
invoice may be told to be a draft or authorised, and a good one with
an unlucky note is told to be voided, which `PaidIffSettled` excepts. What holds
whatever the note says is `VoidNotPaid`.

Noted while reading: a status in a `PUT` is ignored on QBO
and a date on Xero; a bill cannot
be paid at QBO, as its id is looked up under invoices, though `routes/erp.py`
offers "a payment against an invoice or bill". Dates, currencies, contacts and
account codes are left out.

## 3. Runs

Passing runs, each without error over its whole state space:

| Run | Instance | What it shows |
|---|---|---|
| `one_erp` | Xero alone, from an empty disk, expiry 2, margin 1, clock to 5, 1 login, 2 faults | `TypeOK`, `ReplayFree`, `StoredUsable`, the refinement `ConnectionKept`; `KeptAlive` and `RequestReturns` under fairness |
| `two_erps` | both ERPs, Xero connected, clock to 4, 1 login each, with or without a refresh token, 1 fault | `OneRefresher`, `ServedFresh` |
| `requests` | any ERP type, 3 requests, limit 2, window 3, timeout 2, 2 permits | `PipelineTypeOK`, `OverrunBounded`, `WaitsForNewWindow`, `PermitsKept`, `NoIdlePermit`, `PermitsInUse`, `CallsBounded`; `Answered` under fairness |
| `qbo_updates` | two updates of different fields and a payment, 2 attempts, 1 edit elsewhere | `TypeOK`, `UpdatedOnce`, `FieldsKept`, `MadeAtMost` |
| `pages` | lists and lookups of customers and vendors, pages of 2, cap of 2, 4 records each, 2 changes, 1 fault | `TypeOK`, `MissedBounded`, `TwiceBounded`, `PagesBounded`, `LookupTrue`; `RequestEnds` under fairness |
| `invoices` | one document of up to 2 lines, tax of 0 or 1 cent, either ERP, 2 clients that pay, totals to 9 cents | `TypeOK`, `PaidIffSettled`, `DraftUntouched`, `VoidNotPaid`, `AmountKept`, `LinesAddUp` |

Runs that end in a counterexample, each against what the repository says:

| Run | Property | What happens |
|---|---|---|
| `redeemed_twice` | `ReplayFree` | Both ERPs are connected. The worker loads the registry to save QBO; a request refreshes and saves Xero; the worker writes its registry with Xero's spent refresh token, which is redeemed again. The comment above `_refresh_locks` and `README.md:158` say that the locks prevent this. |
| `connection_erased` | `NeverForgotten` | A save for one ERP loads the registry while the other's has it open and empty, and writes it without the other's entry. |
| `login_undone` | `LoginKept` | A refresh under way when the user logs in again saves the previous login's tokens over the new ones. |
| `tenant_stale` | `CredentialsMatch` | A second Xero login whose lookup of organisations fails keeps the first login's organisation; one that brings no refresh token keeps the first login's (TLC shows whichever it meets first). |
| `created_twice` | `CreatedOnce` | A POST is carried out but its answer times out; the retry creates the record, or pays the invoice, again. The comment above the policy says it is for connection failures only. |
| `full_list_refused` | `RefusedOnlyLonger` | A list of exactly `MaxPages` full pages is refused as exceeding them. |

`redeemed_twice` and `connection_erased` need no fault of disk or network. With a fault
allowed, `NeverForgotten` has a shorter counterexample: the process dies, or the write
fails and is logged (227), between `open` and `dump`, and nothing of any ERP is left.
`ReplayFree`, `StoredUsable` and `ConnectionKept` hold for one ERP with one login
(`one_erp`, and by proof); two ERPs, or a second login, break them.

The models also do what follows, as the code does. No run is spent on it, and the properties say what
they leave out because of it:

* A legacy file without `saved_at` is dated anew by every load (token_manager.py:185): its access
  token is served past its expiry, with a refresh token beside it. `ServedFresh`
  excuses it, and a token with no refresh token beside it, which the docstring of
  `get_valid_token` does not promise to refresh.
* A request that reads the registry between `open` and `dump` of a background refresh
  finds no token, though the ERP is connected (token_manager.py:219).
* A contact whose probes fail is reported as not found (qbo.py:459); `LookupTrue` excuses it.
* The status of a QBO invoice hangs on a note (transforms.py:115). When the note of a voided one is
  replaced, it is told to be a draft, or authorised if it was sent; a note like "avoid
  delays" makes a good one voided. `VoidNotPaid` says what is left, and
  `PaidIffSettled` excuses a QBO invoice with such a note.
* The tax type of a line is dropped by both adapters (schemas.py:225): the ERP adds the tax of
  its account or product, also to a line asked for with `NONE`. `AmountKept` and
  `LinesAddUp` take the tax that the ERP added from the amount told.
* `qbo_line_items` tells the amount of a line as its unit amount (transforms.py:135, and
  tests/unit/test_qbo.py:62-63 expect it), where schemas.py:19 has the price of one:
  two at 1 cent come back as two at 2 cents. `LinesAddUp` leaves out QBO's invoices for it.

**Bounds.** *Tokens*: expiry 2 and margin 1 give the three cases that matter, fresh for
both paths, due for the background only, expired for both. A clock to 5 lets a
token age, be refreshed and age again, twice. One login follows from an empty
disk; a second is the smallest history in which a save can undo one. Two faults
let one fall into the recovery from another. With two ERPs each thread can be in
the code of a different one; there are only two threads. *Requests*: three
callers and a limit of two let two fill the window a third wakes into; with a
timeout of 2 in a window of 3 a caller may be refused or put to sleep; with two
permits a third request queues, two releases can come before it goes on, and it
can time out in any of these moments. *QBO writes*: two attempts let an attempt follow
one that is adrift, also late; the violations use the code's three. A payment
beside two updates makes a difference where attempts are counted; one edit
elsewhere can fall before, between and after the updates. *Reads*: pages of 2 and
4 records give empty, short, full and refused lists, and a record can move over a
page's end in both directions; two changes let one undo or double the other.
*Invoices*: unit amounts 1 and 3 and quantities in halves give products that are
whole, end in half a cent (a tie) or round to 0; two lines make their errors add
up; two clients can pay past each other; a tax of 0 or 1 is there or not, and as the
properties only subtract it, its size does not matter.

The system may stop where the clock does, so the runs of `TokenManager` do not
check for deadlock; that nobody waits for ever is `RequestReturns`. Nor do those
of `QboWrites` and `Reads`, where every request ends, and of `Invoices`, where all may
be paid. `requests` has no bound on its steps and is checked for deadlock.

**Fairness.** `TokenManager`: weak fairness of each thread's steps: the operating system runs
both threads, and an HTTP exchange ends, by an answer or by the 15 second
timeout. Strong fairness of `BgCheck` and `SaveLogin`: both are coroutines in
asyncio's queue, which is first come first served, so requests cannot overtake
them for ever. Nothing is assumed of the clock, requests, logins or faults.
`RequestPipeline`: the clock runs, due timers fire, the event loop runs whoever is
ready, and a call ends, by an answer or by its time limit of 30 seconds.
`Reads`: a call ends; nothing is assumed of other users, who stop at the
bound `MaxChanges` (one that adds records for ever, as fast as they are read, would
keep an uncapped list going). `QboWrites` and `Invoices` state safety only.

Every property is also checked to be able to fail: the modules hold mutated
definitions (a lock not taken or not given back, a wrong age limit, an existing
refresh token preferred to the new one, a missing `saved_at`, an off-by-one in the
window, a permit handed over twice or lost with a caller that gave up, a permit kept
when a call fails, pages that overlap or skip, a cap that is missing, a loop that
ends on an empty page only or asks for it again, a retry of the
whole request instead of one call, a SyncToken fetched anew for the POST, a status
derived without looking at the total, `int` without `round`) and each property is violated
when one of them replaces the original.

## 4. Proofs

For every set of ERPs, expiry age, margin and bound:

* `TypeCorrect`: `Safe => []TypeOK`.
* `LockSerial`: `Safe => []OneRefresher`. The invariant `LockInv` says that a
  thread at `recheck` or `exchange` holds the lock of its ERP, and that a thread
  holds a lock only from `recheck` to the end of a save, for the ERP it works on.
* `AlwaysServedFresh`: `Safe => []ServedFresh`. Freshness is judged by `saved_at`,
  the property speaks of the time of issue. `DatedInv` relates the two wherever an
  entry can be: on disk and in what a thread has loaded the two are the same
  minute, in a callback and in a save under way the token was issued in the
  current minute, since the clock stands still during a save. The entry of a legacy file
  without a date is told apart (`dated`). What is in hand when a
  request is answered is then a checked entry, a token just issued, one without a
  refresh token, or one without a date.

With one ERP and one login (`OneErp(e)`: `ERP = {e}` and `MaxLogins <= 1`), for
every age and every number of faults:

* `SingleReplayFree`: `Safe => []ReplayFree`.
* `SingleStoredUsable`: `Safe => []StoredUsable`.
* `ConnectionImplemented`: `Safe => ConnectionKept`, the refinement of `Connection`.

The first two are not inductive. A login need not bring a refresh token; until one
does, `Unrefreshed` says, there is none anywhere, and after that every entry on disk
has one (`Whole`), as a save keeps what it finds. `SingleInv` adds where the one good refresh token
is: there is one grant at a time (`OneGrant`), tokens are numbered (`Numbered`), at most one
thread saves (`SavesAlone`), what a thread has loaded under the lock is what is on
disk (`ReadCurrent`), a saving thread has the good token in hand (`GoodInHand`) and
otherwise it is on disk (`GoodOnDisk`), up to a fault.

`Connection` goes on after a fault, where `SingleInv` says nothing of the tokens issued
before it: one of them may still be usable, and the refinement has to show that no
step loses it then either. `LinkInv` holds after faults too. The ERP
accepts one refresh token at most (`OneLive`); a login or a save in progress has it in
hand (`LiveInHand`); and if a thread that may yet send a token holds the accepted one,
so does the disk, unless the disk has nothing (`DiskFollows`), so a thread that drops its
token for the one on disk loses nothing. With it every step of a thread, a login or the
clock keeps "a usable token is in reach" as it was (`NotLost`, `NotRegained`), except
the login that gives one, and every fault is a step of `Connection` that may lose it.
The restriction to one ERP and one login is necessary: TLC's counterexamples above are
the failures for two ERPs and two logins.

For every limit, window, timeout and finite set of callers:

* `OverrunAlwaysBounded`: `Safe => [](TypeOK /\ OverrunBounded)`.
* `SleepersSkipTheirWindow`: `Safe => WaitsForNewWindow`.

Both rest on `WaitingOut`: a caller the current window put to sleep has exactly
the rest of that window to sleep. It is thus never charged to that window, so a
caller charged late was not charged late before, and each adds one to the set
that bounds the overrun.

For every number of permits as well (`RequestPipeline_proofs`):

* `PermitsAlwaysKept`: the semaphore alone, called in any order, keeps `PermitsKept`
  and `NoIdlePermit`. The invariant adds that nobody is in the queue twice, nor
  both there and handed a permit or holding one.
* `PipelineImplementsLimits`: `PipelineSafe => Safe /\ PermitSpec`. Every step of the
  pipeline is a step of each limiter or leaves it alone, so what is proved of a
  limiter holds in the pipeline: `PipelineKeepsWindow`, `PipelineKeepsPermits`.
* `PipelineTyped`: `PipelineSafe => []PipelineTypeOK`.
* `PermitsAlwaysInUse` and `CallsAlwaysBounded`: `PipelineSafe => []PermitsInUse` and
  `PipelineSafe => []CallsBounded`. Permits are held by exactly the requests in a call,
  and `PermitsKept` bounds the holders.

For every set of requests and fields, number of attempts and edits elsewhere:

* `WritesTyped`: `Spec => []TypeOK`.
* `UpdateAlwaysOnce`: `Spec => []UpdatedOnce`.
* `UpdatesKeepFields`: `Spec => FieldsKept`.
* `MadeAlwaysAtMost`: `Spec => []MadeAtMost`.

`UpdateAlwaysOnce` and `UpdatesKeepFields` rest on `UpdateInv`: a token is never of the
future and of the past once its update is carried out (`TokenOld`), and as long as an update's token is
current, the body it posts is the current invoice with its own fields changed
(`BodyCurrent`). Retries repeat the POST with the same token, and a new version
makes every token old, so whichever POST of an update arrives first is the only
one carried out. That is what the SyncToken gives updates and what creates and
payments lack. `MadeAlwaysAtMost` counts: the POSTs carried out or adrift are at most the
attempts begun (`Counted`).

For every set of entities and records, page size, cap, and number of changes and faults:

* `ListsMissAtMost` and `ListsRepeatAtMost`: `Safe => []MissedBounded` and
  `Safe => []TwiceBounded`. While a list is read, an entity's records are at positions already read (`Behind`) or still to be
  read (`Ahead`). A steady record is `Lost` when it is `Behind` without having been
  read, and a removal moves at most one record there; a record `Repeats` when it was
  read and is `Ahead`, and a record made moves at most one there. The invariant
  `PageInv` counts both; the lemmas of `SequenceLemmas` say what an insertion or a
  removal does to the places of the others.
* `PagesAlwaysBounded`: `Safe => []PagesBounded`: whenever a page is turned, the
  ERP held that many records at that moment, and `peak` remembers it. So a loop without
  a cap is bounded by the records there are, and only a list of full pages is refused.
* `LookupsAlwaysTrue`: `Safe => []LookupTrue`. `LookupInv` says of every entity a lookup
  has asked already, unless a failed call counted as "no match": it was found there, or
  its record was not there all the time.
* `ReadsTyped`: `Safe => []TypeOK`.

For every set of documents and clients, all amounts, quantities and lines:

* `InvoicesTyped`: `Spec => []TypeOK`.
* `StatusAlwaysTrue`, `DraftsAlwaysUntouched`, `VoidsNeverPaid`: `Spec => []PaidIffSettled`,
  `[]DraftUntouched` and `[]VoidNotPaid`, from the invariant that every document balances
  (`Books`): what was paid and what is left add up to the total, at QBO the voided
  documents are invoices with a total of 0, and at Xero a document has payments
  only while it is approved or paid, and `PAID` means that nothing is left. Nothing
  is assumed of notes.
* `AmountsAlwaysKept` and `LinesAlwaysAddUp`: `Spec => []AmountKept` and `[]LinesAddUp`,
  for every tax. `Entries` says that what is not voided is as it was asked for: a line
  for every item, each within half a cent of it, and the sum of them and the tax as the
  total. The two sums compared differ by at most the sum of the differences of their lines.

`SumLemmas` proves what this needs of `SumFunction`: a sum of natural numbers is one,
and two functions that are close in every place have sums that are close.
Its definition chooses a recursive function on the subsets of a domain; the lemmas show that one exists (`SumsExist`) and any two agree (`SumsAgree`), by a least
subset that is a counterexample: strict inclusion of finite sets is well founded, so
no induction theorem with an operator parameter is needed.

The assumptions are the named ones of the modules (`TokenManagerAssumption`,
`CallersAssumption`, `RateLimiterAssumption`, `PermitsAssumption`,
`QboWritesAssumption`, `ReadsAssumption`, `InvoicesAssumption`), which TLC
evaluates in the runs. Model-checked only is liveness (`KeptAlive`, `RequestReturns`,
`Answered`, `RequestEnds`): the prover does not reason about fairness and ENABLED.

## 5. Not modelled

* The state values of OAuth logins (`_PENDING_OAUTH_STATES`): a set in memory that
  nothing bounds; a login begun before a restart is refused. An exception in the
  lookup of organisations, after the code was exchanged, loses the tokens just
  as `Crash` between `Login` and `SaveLogin` does.
* The age of an access token while its request waits in the limiters: the code
  reads it before both waits and nothing bounds how old it is when it is sent.
  `ServedFresh` judges it where it is read.
* A wall clock that is set back under the limiter (rate_limiter.py:67).
* How an ERP computes tax, and prices that include it: `Tax` is any amount that it adds.
* Headers instead of the store's tokens, correlation ids, which status code and text
  an error gets, the HTML pages, logging, CORS and the OpenAPI file: wording,
  without state.
* Renamed fields, dates, addresses, phones and account codes in `config/mappings/`,
  and the fields of contacts: data without a rule to check.
* The mock adapter: fixed answers from constants. The adapter interface: no
  behaviour of its own.
* The refresh scripts: a third writer of the registry from another process, which
  `README.md:169` tells the user not to run beside the application.

What could come next: several documents and partial payments of one payment over
several invoices, which the code cannot make today.
