---------------------------- MODULE TokenManager ----------------------------
(***************************************************************************)
(* token_manager.py and the tail of the OAuth callbacks in routes/auth.py: *)
(* the token registry on disk, the refresh of access tokens, and the       *)
(* threads that share them.                                                *)
(*                                                                         *)
(* Two threads touch the store.  The event-loop thread ("loop") runs       *)
(* get_valid_token and get_tenant_id for a request, synchronously, and the *)
(* save_tokens of a login callback; while it does, no other coroutine      *)
(* runs.  The thread of asyncio.to_thread ("worker") runs _locked_refresh  *)
(* for the background loop, one ERP at a time.  The per-ERP locks order    *)
(* the two refresh paths; the registry file is one file for every ERP, and *)
(* is rewritten by opening it for writing (which empties it) and dumping   *)
(* the whole registry into it.                                             *)
(***************************************************************************)
EXTENDS Naturals

CONSTANTS
    ERP,          \* the ERPs that can be connected: keys of ERP_CONFIGS
    LegacyErp,    \* the ERP whose entry is mirrored in XERO_LEGACY_FILE
    Configured,   \* ERPs set up when the process first starts
    Seeded,       \* ERPs with tokens on disk when the process first starts
    Refreshless,  \* ERPs a login to which may bring no refresh token
    ExpiryAge,    \* expiry_minutes of each ERP
    SafetyMargin, \* _REFRESH_SAFETY_MARGIN_MINUTES
    MaxTime,      \* bound: the clock stops here
    MaxLogins,    \* bound: grants per ERP, the seeded one included
    MaxFaults     \* bound: network, disk and process faults together

ASSUME TokenManagerAssumption ==
    /\ ERP # {}
    /\ Configured \subseteq ERP
    /\ Seeded \subseteq ERP
    /\ Refreshless \subseteq ERP
    /\ ExpiryAge \in [ERP -> Nat \ {0}]
    /\ SafetyMargin \in Nat
    /\ MaxTime \in Nat
    /\ MaxLogins \in Nat
    /\ MaxFaults \in Nat

Thread == {"loop", "worker"}

(***************************************************************************)
(* A token is its serial number, the number of the login it descends from, *)
(* and the time it was issued; access and refresh tokens are both tokens.  *)
(* dated is FALSE only for an access token of a legacy file that has no    *)
(* saved_at beside it.                                                     *)
(* The tenant id of an entry is the number of the login that named it, 0   *)
(* when there is none: two logins may be for different organisations.      *)
(* A registry entry with no access token is an ERP missing from the file.  *)
(***************************************************************************)
Token == [id : Nat, login : Nat, at : Nat, dated : BOOLEAN]
NoToken == [id |-> 0, login |-> 0, at |-> 0, dated |-> TRUE]

Entry == [access : Token, refresh : Token, savedAt : Nat, tenant : Nat]
NoEntry == [access |-> NoToken, refresh |-> NoToken,
            savedAt |-> 0, tenant |-> 0]

Empty == [e \in ERP |-> NoEntry]

VARIABLES
    now,      \* the clock datetime.now() reads, in minutes
    registry, \* what reading TOKEN_FILE yields; Empty when it is unreadable
    legacy,   \* what reading XERO_LEGACY_FILE yields
    lock,     \* _refresh_locks: the thread holding each ERP's lock
    live,     \* refresh tokens each ERP still accepts
    issued,   \* serial number of the last token each ERP issued
    configured, \* ERPs whose client_id and client_secret are known
    pending,  \* tokens of a login callback that has not saved them yet
    logins,   \* grants made so far, per ERP
    pc,       \* where each thread is
    erp,      \* the ERP each thread works on
    seen,     \* the registry each thread last loaded
    half,     \* the thread has read TOKEN_FILE, not yet XERO_LEGACY_FILE
    hand,     \* the tokens each thread works with
    overlap,  \* another dump landed since this thread opened the file
    fellBack, \* the current request fell back to its existing token
    faults,   \* faults so far
    taint     \* each ERP's last token issued before a fault

files == <<registry, legacy>>
provider == <<live, issued>>
accounts == <<configured, pending, logins>>
locals == <<erp, seen, half, hand, overlap>>
history == <<faults, taint>>
vars == <<now, files, lock, provider, accounts, pc, locals, fellBack, history>>

TypeOK ==
    /\ now \in Nat
    /\ registry \in [ERP -> Entry]
    /\ legacy \in Entry
    /\ lock \in [ERP -> Thread \cup {"none"}]
    /\ live \in [ERP -> SUBSET Token]
    /\ issued \in [ERP -> Nat]
    /\ configured \subseteq ERP
    /\ pending \in [ERP -> Entry]
    /\ logins \in [ERP -> Nat]
    /\ pc \in [Thread -> {"idle", "decide", "lock", "recheck", "exchange",
                          "open", "flush", "mirror", "tenant", "respond"}]
    /\ erp \in [Thread -> ERP]
    /\ seen \in [Thread -> [ERP -> Entry]]
    /\ half \in [Thread -> BOOLEAN]
    /\ hand \in [Thread -> Entry]
    /\ overlap \in [Thread -> BOOLEAN]
    /\ fellBack \in BOOLEAN
    /\ faults \in Nat
    /\ taint \in [ERP -> Nat]

-----------------------------------------------------------------------------
(***************************************************************************)
(* Reading and dating the registry.                                        *)
(***************************************************************************)

\* is_token_expired
Expired(entry, age) == entry = NoEntry \/ now > entry.savedAt + age

\* due_mins: the age at which the background loop refreshes
DueAge(e) == IF ExpiryAge[e] > SafetyMargin + 1
             THEN ExpiryAge[e] - SafetyMargin ELSE 1

\* Mutant of AgeLimit: the re-check allows a request the margin on top.
AgeLimitLax(t) == IF t = "loop" THEN ExpiryAge[erp[t]] + SafetyMargin
                                ELSE DueAge(erp[t])

\* The age limit a thread re-checks under the lock.
AgeLimit(t) == IF t = "loop" THEN ExpiryAge[erp[t]] ELSE DueAge(erp[t])

\* The legacy file keeps no tenant that load_all_tokens would use; without a
\* saved_at, its tokens count as saved when they are read.
FromLegacy ==
    [legacy EXCEPT !.tenant = 0,
                   !.savedAt = IF legacy.access.dated THEN @ ELSE now]
NeedsLegacy == LegacyErp \in ERP /\ registry[LegacyErp] = NoEntry

\* load_all_tokens in one step, for a caller that nobody can write around
Loaded == IF NeedsLegacy
          THEN [registry EXCEPT ![LegacyErp] = FromLegacy] ELSE registry

\* load_all_tokens, first half: TOKEN_FILE
Load(t) ==
    /\ seen' = [seen EXCEPT ![t] = registry]
    /\ half' = [half EXCEPT ![t] = NeedsLegacy]

\* load_all_tokens, second half: XERO_LEGACY_FILE for a missing xero entry
ReadLegacy(t) ==
    /\ half[t]
    /\ seen' = [seen EXCEPT ![t][LegacyErp] = FromLegacy]
    /\ half' = [half EXCEPT ![t] = FALSE]
    /\ UNCHANGED <<now, files, lock, provider, accounts, pc, erp, hand,
                   overlap, fellBack, history>>

Goto(t, label) == pc' = [pc EXCEPT ![t] = label]

Park(t) ==
    /\ Goto(t, "idle")
    /\ seen' = [seen EXCEPT ![t] = Empty]
    /\ hand' = [hand EXCEPT ![t] = NoEntry]

\* Leaving get_valid_token or _locked_refresh: the loop goes on to
\* get_tenant_id with the token in hand, the worker's job is over.
Return(t) ==
    IF t = "loop" THEN Goto(t, "tenant") /\ UNCHANGED <<seen, hand>>
                  ELSE Park(t)

\* Mutants of Release: the lock is never given back; every lock is.
KeepLock(t) == UNCHANGED lock
ReleaseAll(t) == lock' = [e \in ERP |-> "none"]

Release(t) == lock' = [lock EXCEPT ![erp[t]] = "none"]

\* Nobody but t is in the middle of something that the clock cannot cut:
\* requests, dumps and callbacks take less than one minute; only waiting for
\* a lock and the exchange with the ERP may span a tick.
Unhurried == \A t \in Thread : pc[t] \in {"idle", "lock", "exchange"}

Tick ==
    /\ now < MaxTime
    /\ Unhurried
    /\ \A e \in ERP : pending[e] = NoEntry
    /\ now' = now + 1
    /\ UNCHANGED <<files, lock, provider, accounts, pc, locals, fellBack,
                   history>>

-----------------------------------------------------------------------------
(***************************************************************************)
(* get_valid_token and get_tenant_id, on the event-loop thread, for a      *)
(* request or for the status page.                                         *)
(***************************************************************************)

\* get_valid_token, up to its first load_all_tokens
Request(e) ==
    /\ pc["loop"] = "idle"
    /\ erp' = [erp EXCEPT !["loop"] = e]
    /\ Load("loop")
    /\ Goto("loop", "decide")
    /\ fellBack' = FALSE
    /\ UNCHANGED <<now, files, lock, provider, accounts, hand, overlap,
                   history>>

\* The rest of get_valid_token outside the lock
Decide ==
    LET e == erp["loop"]
        mine == seen["loop"][e]
        due == /\ mine.access # NoToken /\ mine.refresh # NoToken
               /\ Expired(mine, ExpiryAge[e])
    IN  /\ pc["loop"] = "decide" /\ ~half["loop"]
        /\ hand' = [hand EXCEPT !["loop"] = mine]
        /\ Goto("loop", IF due /\ e \in configured THEN "lock" ELSE "tenant")
        /\ fellBack' = (due /\ e \notin configured)
        /\ UNCHANGED <<now, files, lock, provider, accounts, erp, seen, half,
                       overlap, history>>

\* get_tenant_id
ReadTenant ==
    /\ pc["loop"] = "tenant"
    /\ Load("loop")
    /\ Goto("loop", "respond")
    /\ UNCHANGED <<now, files, lock, provider, accounts, erp, hand, overlap,
                   fellBack, history>>

Respond ==
    /\ pc["loop"] = "respond" /\ ~half["loop"]
    /\ Park("loop")
    /\ UNCHANGED <<now, files, lock, provider, accounts, erp, half, overlap,
                   fellBack, history>>

-----------------------------------------------------------------------------
(***************************************************************************)
(* The refresh that both threads run under the lock of an ERP.             *)
(***************************************************************************)

\* _refresh_one_erp_if_due: the check on the event loop, then to_thread
BgCheck(e) ==
    /\ pc["loop"] = "idle" /\ pc["worker"] = "idle"
    /\ e \in configured
    /\ Loaded[e].refresh # NoToken
    /\ Expired(Loaded[e], DueAge(e))
    /\ erp' = [erp EXCEPT !["worker"] = e]
    /\ hand' = [hand EXCEPT !["worker"] = Loaded[e]]
    /\ Goto("worker", "lock")
    /\ UNCHANGED <<now, files, lock, provider, accounts, seen, half, overlap,
                   fellBack, history>>

\* Mutant of Acquire: no lock is taken.
AcquireUnlocked(t) ==
    /\ pc[t] = "lock"
    /\ Load(t)
    /\ Goto(t, "recheck")
    /\ UNCHANGED <<now, files, lock, provider, accounts, erp, hand, overlap,
                   fellBack, history>>

\* with lock: latest = load_all_tokens()
Acquire(t) ==
    /\ pc[t] = "lock" /\ lock[erp[t]] = "none"
    /\ lock' = [lock EXCEPT ![erp[t]] = t]
    /\ Load(t)
    /\ Goto(t, "recheck")
    /\ UNCHANGED <<now, files, provider, accounts, erp, hand, overlap,
                   fellBack, history>>

\* Under the lock: somebody else refreshed meanwhile, or this thread does.
Recheck(t) ==
    LET latest == seen[t][erp[t]] IN
    /\ pc[t] = "recheck" /\ ~half[t]
    /\ \/ /\ latest # NoEntry /\ ~Expired(latest, AgeLimit(t))
          /\ Release(t)
          /\ IF t = "loop"
             THEN /\ hand' = [hand EXCEPT ![t] = latest]
                  /\ Goto(t, "tenant")
                  /\ UNCHANGED seen
             ELSE Park(t)
       \/ /\ Expired(latest, AgeLimit(t))
          /\ IF latest = NoEntry
             THEN UNCHANGED hand
             ELSE hand' = [hand EXCEPT ![t].refresh = latest.refresh]
          /\ Goto(t, "exchange")
          /\ UNCHANGED <<lock, seen>>
    /\ UNCHANGED <<now, files, provider, accounts, erp, half, overlap,
                   fellBack, history>>

\* The token pair ERP e hands out next, descending from a login
Grant(e, login) ==
    [id |-> issued[e] + 1, login |-> login, at |-> now, dated |-> TRUE]

\* e issues new tokens and stops accepting the redeemed ones.
Issue(e, new, redeemed) ==
    /\ issued' = [issued EXCEPT ![e] = @ + 1]
    /\ live' = [live EXCEPT ![e] = (@ \ redeemed) \cup new]

\* refresh_access_token, the ERP answers; save_tokens loads the registry.
\* An answer without a refresh token leaves the redeemed one in use.
Refresh(t) ==
    LET old == hand[t].refresh
        new == Grant(erp[t], old.login)
    IN  /\ pc[t] = "exchange" /\ old \in live[erp[t]]
        /\ \/ /\ Issue(erp[t], {new}, {old})
              /\ hand' = [hand EXCEPT ![t] = [NoEntry EXCEPT
                                !.access = new, !.refresh = new]]
           \/ /\ Issue(erp[t], {}, {})
              /\ hand' = [hand EXCEPT ![t] = [NoEntry EXCEPT
                                !.access = new, !.refresh = old]]
        /\ Load(t)
        /\ Goto(t, "open")
        /\ UNCHANGED <<now, files, lock, accounts, erp, overlap, fellBack,
                       history>>

\* Mutant of Fail: the lock is kept on the error path.
FailHolding(t) ==
    /\ UNCHANGED lock
    /\ Return(t)
    /\ fellBack' = (fellBack \/ t = "loop")
    /\ UNCHANGED <<now, files, accounts, erp, half, overlap>>

\* refresh_access_token returned None: the lock is released, a request goes
\* on with the token it had.
Fail(t) ==
    /\ Release(t)
    /\ Return(t)
    /\ fellBack' = (fellBack \/ t = "loop")
    /\ UNCHANGED <<now, files, accounts, erp, half, overlap>>

\* The ERP refuses a refresh token that was redeemed before.
Refused(t) ==
    /\ pc[t] = "exchange" /\ hand[t].refresh \notin live[erp[t]]
    /\ Fail(t)
    /\ UNCHANGED <<provider, history>>

\* The request never reached the ERP.
Unreachable(t) ==
    /\ pc[t] = "exchange" /\ faults < MaxFaults
    /\ faults' = faults + 1
    /\ Fail(t)
    /\ UNCHANGED <<provider, taint>>

\* The ERP redeemed the token, its answer was lost.
LostResponse(t) ==
    LET old == hand[t].refresh IN
    /\ pc[t] = "exchange" /\ old \in live[erp[t]] /\ faults < MaxFaults
    /\ Issue(erp[t], {Grant(erp[t], old.login)}, {old})
    /\ faults' = faults + 1
    /\ taint' = [taint EXCEPT ![erp[t]] = issued[erp[t]] + 1]
    /\ Fail(t)

Exchange(t) == Refresh(t) \/ Refused(t) \/ Unreachable(t) \/ LostResponse(t)

-----------------------------------------------------------------------------
(***************************************************************************)
(* save_tokens, after its load_all_tokens.                                 *)
(***************************************************************************)

\* Mutants of Merged: the entry has no saved_at; an existing refresh token is
\* preferred to the new one.
MergedUndated(t) ==
    [access |-> hand[t].access, refresh |-> hand[t].refresh,
     tenant |-> seen[t][erp[t]].tenant]
MergedOldRefresh(t) ==
    LET existing == seen[t][erp[t]] IN
    [hand[t] EXCEPT
        !.savedAt = now,
        !.refresh = IF existing.refresh # NoToken THEN existing.refresh ELSE @,
        !.tenant = IF @ # 0 THEN @ ELSE existing.tenant]

\* The entry save_tokens writes for the ERP of t: what t brings, and the
\* refresh token and the tenant it finds where t brings none
Merged(t) ==
    LET existing == seen[t][erp[t]] IN
    [hand[t] EXCEPT
        !.savedAt = now,
        !.refresh = IF @ # NoToken THEN @ ELSE existing.refresh,
        !.tenant = IF @ # 0 THEN @ ELSE existing.tenant]

\* open(TOKEN_FILE, "w") truncates the file
Open(t) ==
    /\ pc[t] = "open" /\ ~half[t]
    /\ seen' = [seen EXCEPT ![t][erp[t]] = Merged(t)]
    /\ registry' = Empty
    /\ Goto(t, "flush")
    /\ UNCHANGED <<now, legacy, lock, provider, accounts, erp, half, hand,
                   overlap, fellBack, history>>

\* What is left of a file after t's dump: its content, or garbage when
\* another dump landed in the same file after t had opened it.
Landed(t, content, garbage) == {content} \cup (IF overlap[t] THEN {garbage}
                                                             ELSE {})

\* t's dump landed: whoever has the same file open writes over it.
Collide(t) ==
    overlap' = [u \in Thread |->
        u # t /\ (overlap[u] \/ pc[u] = pc[t])]

\* save_tokens returns, to refresh_access_token or to the login callback
Finish(t) ==
    IF lock[erp[t]] = t THEN Release(t) /\ Return(t)
                        ELSE UNCHANGED lock /\ Park(t)

\* json.dump and close; for xero, also open(XERO_LEGACY_FILE, "w")
Flush(t) ==
    /\ pc[t] = "flush"
    /\ registry' \in Landed(t, seen[t], Empty)
    /\ Collide(t)
    /\ IF erp[t] = LegacyErp
       THEN legacy' = NoEntry /\ Goto(t, "mirror")
            /\ UNCHANGED <<lock, seen, hand>>
       ELSE UNCHANGED legacy /\ Finish(t)
    /\ UNCHANGED <<now, provider, accounts, erp, half, fellBack, history>>

FlushMirror(t) ==
    /\ pc[t] = "mirror"
    /\ legacy' \in Landed(t, seen[t][erp[t]], NoEntry)
    /\ Collide(t)
    /\ Finish(t)
    /\ UNCHANGED <<now, registry, provider, accounts, erp, half, fellBack,
                   history>>

\* The disk fails one of the three file operations; the exception is logged.
SaveFails(t) ==
    /\ pc[t] \in {"open", "flush", "mirror"} /\ ~half[t]
    /\ faults < MaxFaults
    /\ faults' = faults + 1
    /\ taint' = issued
    /\ overlap' = [overlap EXCEPT ![t] = FALSE]
    /\ Finish(t)
    /\ UNCHANGED <<now, files, provider, accounts, erp, half, fellBack>>

-----------------------------------------------------------------------------
(***************************************************************************)
(* xero_callback and qbo_callback: the ERP issues tokens for a new login   *)
(* and the callback, back on the event loop, saves them under no lock.     *)
(***************************************************************************)

\* setup_xero, setup_qbo: save_credentials
Setup(e) ==
    /\ pc["loop"] = "idle"
    /\ e \notin configured
    /\ configured' = configured \cup {e}
    /\ UNCHANGED <<now, files, lock, provider, pending, logins, pc, locals,
                   fellBack, history>>

\* The user finishes the login and the code exchange succeeds, with a refresh
\* token or, where the scopes do not ask for one, without.  xero_callback
\* goes on with no tenant id when the lookup of the organisations fails.
Login(e) ==
    LET new == Grant(e, logins[e] + 1) IN
    /\ e \in configured /\ logins[e] < MaxLogins /\ pending[e] = NoEntry
    /\ \E refresh \in {new} \cup (IF e \in Refreshless THEN {NoToken} ELSE {}),
          tenant \in {new.login} \cup (IF e = LegacyErp THEN {0} ELSE {}) :
         /\ Issue(e, {refresh} \ {NoToken}, {})
         /\ pending' = [pending EXCEPT ![e] =
                          [access |-> new, refresh |-> refresh,
                           savedAt |-> now, tenant |-> tenant]]
    /\ logins' = [logins EXCEPT ![e] = @ + 1]
    /\ UNCHANGED <<now, files, lock, configured, pc, locals, fellBack,
                   history>>

\* The callback's save_tokens, up to its load_all_tokens
SaveLogin(e) ==
    /\ pc["loop"] = "idle" /\ pending[e] # NoEntry
    /\ erp' = [erp EXCEPT !["loop"] = e]
    /\ hand' = [hand EXCEPT !["loop"] = pending[e]]
    /\ pending' = [pending EXCEPT ![e] = NoEntry]
    /\ Load("loop")
    /\ Goto("loop", "open")
    /\ UNCHANGED <<now, files, lock, provider, configured, logins, overlap, fellBack,
                   history>>

\* The process dies and is started again; the files stay as they are.
Crash ==
    /\ faults < MaxFaults
    /\ faults' = faults + 1
    /\ taint' = issued
    /\ pc' = [t \in Thread |-> "idle"]
    /\ seen' = [t \in Thread |-> Empty]
    /\ hand' = [t \in Thread |-> NoEntry]
    /\ half' = [t \in Thread |-> FALSE]
    /\ overlap' = [t \in Thread |-> FALSE]
    /\ lock' = [e \in ERP |-> "none"]
    /\ pending' = [e \in ERP |-> NoEntry]
    /\ UNCHANGED <<now, files, provider, configured, logins, erp, fellBack>>

-----------------------------------------------------------------------------
\* The files when the process first starts: the seeded ERPs have an entry,
\* xero's perhaps only in the file that older versions wrote, which need not
\* say when its tokens were saved.
Init ==
    LET seed == [id |-> 1, login |-> 1, at |-> 0, dated |-> TRUE]
        entry(e, dated) ==
            IF e \in Seeded
            THEN [access |-> [seed EXCEPT !.dated = dated], refresh |-> seed,
                  savedAt |-> 0, tenant |-> 1]
            ELSE NoEntry
        all == [e \in ERP |-> entry(e, TRUE)]
    IN  /\ \/ registry = all /\ legacy = NoEntry
           \/ /\ LegacyErp \in ERP
              /\ registry = [all EXCEPT ![LegacyErp] = NoEntry]
              /\ \E dated \in BOOLEAN : legacy = entry(LegacyErp, dated)
        /\ live = [e \in ERP |-> IF e \in Seeded THEN {seed} ELSE {}]
        /\ issued = [e \in ERP |-> IF e \in Seeded THEN 1 ELSE 0]
        /\ logins = issued
        /\ configured = Configured
        /\ now = 0
        /\ lock = [e \in ERP |-> "none"]
        /\ pending = [e \in ERP |-> NoEntry]
        /\ pc = [t \in Thread |-> "idle"]
        /\ erp \in [Thread -> {CHOOSE e \in ERP : TRUE}]
        /\ seen = [t \in Thread |-> Empty]
        /\ half = [t \in Thread |-> FALSE]
        /\ hand = [t \in Thread |-> NoEntry]
        /\ overlap = [t \in Thread |-> FALSE]
        /\ fellBack = FALSE
        /\ faults = 0
        /\ taint = [e \in ERP |-> 0]

\* One step of the code of a thread, the other threads being anywhere.
Step(t) ==
    \/ ReadLegacy(t) \/ Acquire(t) \/ Recheck(t) \/ Exchange(t)
    \/ Open(t) \/ Flush(t) \/ FlushMirror(t) \/ SaveFails(t)

LoopStep == Decide \/ ReadTenant \/ Respond

Next ==
    \/ Tick \/ LoopStep \/ Crash
    \/ \E t \in Thread : Step(t)
    \/ \E e \in ERP : \/ Request(e) \/ BgCheck(e) \/ Setup(e)
                        \/ Login(e) \/ SaveLogin(e)

Safe == Init /\ [][Next]_vars

\* A started thread runs on; asyncio's ready queue is first come first
\* served, so the background check and a returned login are not passed over
\* for ever by requests.  Clock, requests, logins and faults are free.
Fairness ==
    /\ \A t \in Thread : WF_vars(Step(t))
    /\ WF_vars(LoopStep)
    /\ \A e \in ERP : SF_vars(BgCheck(e)) /\ SF_vars(SaveLogin(e))

Spec == Safe /\ Fairness

-----------------------------------------------------------------------------
(***************************************************************************)
(* Properties.                                                             *)
(***************************************************************************)

\* From the re-check under an ERP's lock to the end of the save, no other
\* thread re-checks or redeems for that ERP.  ("held for the full
\* read-check-refresh-write sequence", above _refresh_locks.)
OneRefresher ==
    \A t, u \in Thread :
        /\ t # u /\ erp[t] = erp[u]
        /\ pc[t] \in {"recheck", "exchange"} \/ lock[erp[t]] = t
        => pc[u] \notin {"recheck", "exchange"}

\* A refresh token is never redeemed twice: one sent to the ERP is one the
\* ERP still accepts, unless it is older than a fault that lost its
\* successor.  (What the locks of token_manager.py are for.)
ReplayFree ==
    \A t \in Thread :
        pc[t] = "exchange" => \/ hand[t].refresh \in live[erp[t]]
                              \/ hand[t].refresh.id <= taint[erp[t]]

\* Nobody is in the middle of save_tokens.
Saved == \A t \in Thread : pc[t] \notin {"open", "flush", "mirror"}

\* Whenever no save is under way, the disk holds, for every ERP that accepts
\* some refresh token, one that it accepts, until a fault.
StoredUsable ==
    \A e \in ERP :
        /\ Saved
        /\ live[e] # {} /\ pending[e] = NoEntry /\ taint[e] = 0
        => Loaded[e].refresh \in live[e]

\* What was on disk when the process started is never forgotten altogether:
\* whatever fails meanwhile, an ERP that was connected still has an entry
\* when no save is under way.  (README.md: "no more logins needed until the
\* refresh token itself expires".)
NeverForgotten == Saved => \A e \in Seeded : Loaded[e] # NoEntry

\* What the request is about to be given: get_valid_token's answer with
\* get_tenant_id's.
Served == pc["loop"] = "respond" /\ ~half["loop"]
              /\ hand["loop"].access # NoToken
ServedTenant == seen["loop"][erp["loop"]].tenant

\* The token in the request's hands is within the expiry of its ERP.
InAge == now <= hand["loop"].access.at + ExpiryAge[erp["loop"]]

\* A request that did not fall back to its existing token is given an access
\* token the ERP issued no longer ago than the expiry of that ERP, however
\* long it waited for the lock or for the ERP.  Two tokens are excused: one
\* with no refresh token beside it ("auto-refreshes expired tokens when
\* refresh tokens are present", get_valid_token), and one from a legacy file
\* that does not say when it was saved, which load_all_tokens dates anew each
\* time (token_manager.py:185).
ServedFresh ==
    Served /\ ~fellBack =>
        InAge \/ hand["loop"].refresh = NoToken \/ ~hand["loop"].access.dated

\* What a request goes on with belongs together: the access token, the refresh
\* token beside it and the organisation are of one login.  (get_valid_token and
\* get_tenant_id read the registry separately; save_tokens keeps the refresh
\* token and the organisation it finds where a login brings none.)
CredentialsMatch ==
    Served =>
        /\ ServedTenant # 0 => hand["loop"].access.login = ServedTenant
        /\ hand["loop"].refresh # NoToken =>
                hand["loop"].refresh.login = hand["loop"].access.login

\* A saved login stays: no refresh, nor any other save, puts back tokens of
\* an earlier login.  ("Token saved. It will auto-refresh in the background
\* from now on", the page both callbacks answer with.)
LoginKept ==
    \A e \in ERP :
        /\ pending[e] = NoEntry /\ Loaded[e] # NoEntry /\ taint[e] = 0
        /\ pc["loop"] \in {"open", "flush", "mirror"} => erp["loop"] # e
        => Loaded[e].access.login = logins[e]

\* A token past its refresh age, with a refresh token beside it, is replaced,
\* by the background loop if no request comes, unless a fault lost it.
\* (background_token_refresh_loop: "for any ERP that has a saved
\* refresh_token".)
Stale(e) == Loaded[e].refresh # NoToken /\ Expired(Loaded[e], DueAge(e))
Fresh(e) == Loaded[e] # NoEntry /\ ~Expired(Loaded[e], DueAge(e))
KeptAlive ==
    \A e \in ERP :
        e \in configured /\ Stale(e) ~> Fresh(e) \/ taint[e] > 0

\* Every request is answered: the loop thread gets the lock it waits for.
RequestReturns == pc["loop"] # "idle" ~> pc["loop"] = "idle"

-----------------------------------------------------------------------------
(***************************************************************************)
(* The promise that the store keeps to a single ERP, connected once (with  *)
(* several, the saves of one erase the others).                            *)
(***************************************************************************)

TheErp == CHOOSE e \in ERP : TRUE

\* The refresh tokens within reach: on disk, in a login callback, with a
\* request that has read them and is going to refresh, or with a thread that
\* refreshes or saves.
Reach(e) ==
    {Loaded[e].refresh, pending[e].refresh} \cup
    {seen[t][e].refresh : t \in {u \in Thread : pc[u] = "decide" /\ erp[u] = e
        /\ e \in configured /\ Expired(seen[u][e], ExpiryAge[e])}} \cup
    {hand[t].refresh : t \in {u \in Thread : erp[u] = e /\
        pc[u] \notin {"idle", "decide", "tenant", "respond"}}}

Connected(e) ==
    IF Reach(e) \cap live[e] # {} THEN "connected"
    ELSE IF live[e] = {} THEN "none" ELSE "lost"

C == INSTANCE Connection WITH conn <- Connected(TheErp), logins <- logins[TheErp]

\* Requests, background refreshes, saves, restarts and what they interleave
\* keep the connection of a single ERP as Connection promises: no step but a
\* fault loses the last usable refresh token, whatever faults came before, and
\* nothing but a login brings one back.
ConnectionKept == C!Spec

=============================================================================
