------------------------- MODULE TokenManager_proofs -------------------------
(***************************************************************************)
(* Theorems about TokenManager, for every value of its constants unless a  *)
(* theorem names an assumption of its own.                                 *)
(***************************************************************************)
EXTENDS TokenManager, TLAPS

-----------------------------------------------------------------------------
(***************************************************************************)
(* Type correctness.                                                       *)
(***************************************************************************)

LEMMA EmptyTyped ==
    /\ NoToken \in Token
    /\ NoEntry \in Entry
    /\ Empty \in [ERP -> Entry]
BY DEF NoToken, Token, NoEntry, Entry, Empty

LEMMA LoadedTyped ==
    ASSUME TypeOK
    PROVE  FromLegacy \in Entry /\ Loaded \in [ERP -> Entry]
<1>1. legacy \in Entry /\ now \in Nat /\ registry \in [ERP -> Entry]
  BY DEF TypeOK
<1>2. FromLegacy \in Entry
  BY <1>1 DEF FromLegacy, Entry
<1> QED
  BY <1>1, <1>2 DEF Loaded

\* Reading the legacy file changes neither of its tokens, and an absent entry
\* stays absent.
LEMMA LegacyTokens ==
    ASSUME TypeOK
    PROVE  /\ FromLegacy.access = legacy.access
           /\ FromLegacy.refresh = legacy.refresh
           /\ FromLegacy.savedAt = IF legacy.access.dated THEN legacy.savedAt
                                                          ELSE now
           /\ legacy = NoEntry => FromLegacy = NoEntry
<1>1. legacy \in Entry
  BY DEF TypeOK
<1>2. /\ FromLegacy.access = legacy.access
      /\ FromLegacy.refresh = legacy.refresh
      /\ FromLegacy.savedAt = IF legacy.access.dated THEN legacy.savedAt
                                                     ELSE now
  BY <1>1 DEF FromLegacy, Entry
<1>3. ASSUME legacy = NoEntry
      PROVE  FromLegacy = NoEntry
  <2>1. legacy.access.dated
    BY <1>3 DEF NoEntry, NoToken
  <2>2. FromLegacy = [NoEntry EXCEPT !.tenant = 0,
                                     !.savedAt = NoEntry.savedAt]
    BY <1>3, <2>1 DEF FromLegacy
  <2> QED
    BY <2>2 DEF NoEntry
<1> QED
  BY <1>2, <1>3

\* What Grant returns is a token.
LEMMA GrantTyped ==
    ASSUME TypeOK, NEW e \in ERP, NEW login \in Nat
    PROVE  Grant(e, login) \in Token
BY DEF TypeOK, Grant, Token

\* The entry of an ERP on disk when the process first starts.
Seed == [id |-> 1, login |-> 1, at |-> 0, dated |-> TRUE]
SeedEntry(e, dated) ==
    IF e \in Seeded
    THEN [access |-> [Seed EXCEPT !.dated = dated], refresh |-> Seed,
          savedAt |-> 0, tenant |-> 1]
    ELSE NoEntry

LEMMA SeedTyped ==
    ASSUME NEW e, NEW dated \in BOOLEAN
    PROVE  /\ Seed \in Token /\ Seed.id = 1
           /\ SeedEntry(e, dated) \in Entry
           /\ e \in Seeded => /\ SeedEntry(e, dated).refresh = Seed
                             /\ SeedEntry(e, dated).access # NoToken
                             /\ SeedEntry(e, dated) # NoEntry
           /\ e \notin Seeded => SeedEntry(e, dated) = NoEntry
<1>1. Seed \in Token /\ Seed.id = 1 /\ Seed # NoToken
  BY DEF Seed, Token, NoToken
<1>2. [Seed EXCEPT !.dated = dated] \in Token
      /\ [Seed EXCEPT !.dated = dated] # NoToken
  BY DEF Seed, Token, NoToken
<1> QED
  BY <1>1, <1>2, EmptyTyped DEF SeedEntry, Entry, NoEntry

\* The files when the process first starts.
LEMMA InitFiles ==
    ASSUME Init
    PROVE  /\ \/ /\ legacy = NoEntry
                 /\ registry = [e \in ERP |-> SeedEntry(e, TRUE)]
              \/ /\ LegacyErp \in ERP
                 /\ \E dated \in BOOLEAN : legacy = SeedEntry(LegacyErp, dated)
                 /\ registry = [[e \in ERP |-> SeedEntry(e, TRUE)]
                                  EXCEPT ![LegacyErp] = NoEntry]
           /\ live = [e \in ERP |-> IF e \in Seeded THEN {Seed} ELSE {}]
BY Zenon DEF Init, Seed, SeedEntry

\* The initial states satisfy the type invariant.
LEMMA InitTyped ==
    ASSUME Init
    PROVE  TypeOK
<1> USE TokenManagerAssumption
<1>1. Seed \in Token
  BY SeedTyped
<1>2. \A dated \in BOOLEAN, e \in ERP : SeedEntry(e, dated) \in Entry
  BY SeedTyped
<1>4. registry \in [ERP -> Entry] /\ legacy \in Entry
  <2>1. LegacyErp \in ERP => \A dated \in BOOLEAN : SeedEntry(LegacyErp, dated) \in Entry
    BY <1>2
  <2>2. \A e \in ERP : SeedEntry(e, TRUE) \in Entry
    BY <1>2
  <2>3. CASE /\ legacy = NoEntry
             /\ registry = [e \in ERP |-> SeedEntry(e, TRUE)]
    BY <2>2, <2>3, EmptyTyped
  <2>4. CASE /\ LegacyErp \in ERP
             /\ \E dated \in BOOLEAN : legacy = SeedEntry(LegacyErp, dated)
             /\ registry = [[e \in ERP |-> SeedEntry(e, TRUE)]
                              EXCEPT ![LegacyErp] = NoEntry]
    <3>1. legacy \in Entry
      BY <2>1, <2>4
    <3>2. [e \in ERP |-> SeedEntry(e, TRUE)] \in [ERP -> Entry]
      BY <2>2
    <3> QED
      BY <2>4, <3>1, <3>2, EmptyTyped
  <2> QED
    BY <2>3, <2>4, InitFiles
<1>5. live \in [ERP -> SUBSET Token]
  <2>1. live = [e \in ERP |-> IF e \in Seeded THEN {Seed} ELSE {}]
    BY InitFiles
  <2>2. {Seed} \subseteq Token
    BY <1>1
  <2> QED
    BY <2>1, <2>2
<1>6. erp \in [Thread -> ERP]
  BY DEF Init
<1>7. /\ now \in Nat /\ issued \in [ERP -> Nat] /\ logins \in [ERP -> Nat]
      /\ configured \subseteq ERP
      /\ faults \in Nat /\ taint \in [ERP -> Nat] /\ fellBack \in BOOLEAN
  BY DEF Init
<1>8. /\ lock \in [ERP -> Thread \cup {"none"}]
      /\ pending \in [ERP -> Entry]
      /\ seen \in [Thread -> [ERP -> Entry]]
      /\ half \in [Thread -> BOOLEAN]
      /\ hand \in [Thread -> Entry]
      /\ overlap \in [Thread -> BOOLEAN]
  BY EmptyTyped DEF Init
<1>9. pc \in [Thread -> {"idle", "decide", "lock", "recheck", "exchange",
                         "open", "flush", "mirror", "tenant", "respond"}]
  BY DEF Init
<1> QED
  BY <1>4, <1>5, <1>6, <1>7, <1>8, <1>9 DEF TypeOK

\* Leaving a refresh or a save keeps the types of what it changes.
ControlTyped ==
    /\ pc \in [Thread -> {"idle", "decide", "lock", "recheck", "exchange",
                          "open", "flush", "mirror", "tenant", "respond"}]
    /\ seen \in [Thread -> [ERP -> Entry]]
    /\ hand \in [Thread -> Entry]

LEMMA ParkTyped ==
    ASSUME TypeOK, NEW t \in Thread, Park(t)
    PROVE  ControlTyped'
BY EmptyTyped DEF Park, Goto, ControlTyped, TypeOK

LEMMA ReturnTyped ==
    ASSUME TypeOK, NEW t \in Thread, Return(t)
    PROVE  ControlTyped'
<1>1. CASE t = "loop"
  BY <1>1 DEF Return, Goto, ControlTyped, TypeOK
<1>2. CASE t # "loop"
  BY <1>2, ParkTyped DEF Return
<1> QED
  BY <1>1, <1>2

LEMMA ReleaseTyped ==
    ASSUME TypeOK, NEW t \in Thread, Release(t)
    PROVE  lock' \in [ERP -> Thread \cup {"none"}]
BY DEF Release, TypeOK

LEMMA FinishTyped ==
    ASSUME TypeOK, NEW t \in Thread, Finish(t)
    PROVE  ControlTyped' /\ lock' \in [ERP -> Thread \cup {"none"}]
<1>1. CASE lock[erp[t]] = t
  BY <1>1, ReleaseTyped, ReturnTyped DEF Finish
<1>2. CASE lock[erp[t]] # t
  BY <1>2, ParkTyped DEF Finish, TypeOK
<1> QED
  BY <1>1, <1>2

\* What save_tokens writes is an entry.
LEMMA MergedTyped ==
    ASSUME TypeOK, NEW t \in Thread
    PROVE  Merged(t) \in Entry
<1> DEFINE mine == hand[t]
           existing == seen[t][erp[t]]
<1>1. mine \in Entry /\ existing \in Entry /\ now \in Nat
  BY DEF TypeOK
<1>2. Merged(t) = [mine EXCEPT
                     !.savedAt = now,
                     !.refresh = IF mine.refresh # NoToken
                                 THEN mine.refresh ELSE existing.refresh,
                     !.tenant = IF mine.tenant # 0 THEN mine.tenant
                                                   ELSE existing.tenant]
  BY <1>1 DEF Merged, Entry
<1> HIDE DEF mine, existing
<1> QED
  BY <1>1, <1>2 DEF Entry

\* A provider that issues tokens keeps its types.
LEMMA IssueTyped ==
    ASSUME TypeOK, NEW e \in ERP, NEW new \in SUBSET Token,
           NEW redeemed \in SUBSET Token, Issue(e, new, redeemed)
    PROVE  /\ live' \in [ERP -> SUBSET Token]
           /\ issued' \in [ERP -> Nat]
BY DEF Issue, TypeOK

\* Every step of a thread, of a user or of the environment keeps the types.
LEMMA NextTyped ==
    ASSUME TypeOK, [Next]_vars
    PROVE  TypeOK'
<1> USE TokenManagerAssumption, EmptyTyped, LoadedTyped, GrantTyped
    DEF files, provider, accounts, locals, history
<1>1. CASE Tick
  BY <1>1 DEF Tick, TypeOK
<1>2. CASE LoopStep
  <2>1. CASE Decide
    BY <2>1 DEF Decide, Goto, TypeOK, Thread
  <2>2. CASE ReadTenant
    BY <2>2 DEF ReadTenant, Load, Goto, NeedsLegacy, TypeOK, Thread
  <2>3. CASE Respond
    BY <2>3 DEF Respond, Park, Goto, TypeOK, Thread
  <2> QED
    BY <1>2, <2>1, <2>2, <2>3 DEF LoopStep
<1>3. CASE Crash
  BY <1>3 DEF Crash, TypeOK
<1>4. ASSUME NEW t \in Thread, Step(t)
      PROVE  TypeOK'
  <2>1. CASE ReadLegacy(t)
    BY <2>1 DEF ReadLegacy, TypeOK
  <2>2. CASE Acquire(t)
    BY <2>2 DEF Acquire, Load, Goto, NeedsLegacy, TypeOK
  <2>3. CASE Recheck(t)
    <3> DEFINE latest == seen[t][erp[t]]
    <3>1. latest \in Entry /\ latest.refresh \in Token
      BY DEF TypeOK, Entry
    <3>2. lock' \in [ERP -> Thread \cup {"none"}]
      BY <2>3, ReleaseTyped DEF Recheck, TypeOK
    <3>3. ControlTyped'
      <4>1. CASE Release(t) /\ t # "loop" /\ Park(t)
        BY <4>1, ParkTyped
      <4>2. CASE hand' = [hand EXCEPT ![t] = latest] /\ Goto(t, "tenant")
                   /\ UNCHANGED seen
        BY <4>2, <3>1 DEF Goto, TypeOK, ControlTyped
      <4>3. CASE /\ \/ UNCHANGED hand
                    \/ hand' = [hand EXCEPT ![t].refresh = latest.refresh]
                 /\ Goto(t, "exchange") /\ UNCHANGED seen
        <5> HIDE DEF latest
        <5>1. hand' \in [Thread -> Entry]
          <6>1. hand[t] \in Entry
            BY DEF TypeOK
          <6>2. [hand[t] EXCEPT !.refresh = latest.refresh] \in Entry
            BY <6>1, <3>1 DEF Entry
          <6>3. CASE UNCHANGED hand
            BY <6>3 DEF TypeOK
          <6>4. CASE hand' = [hand EXCEPT ![t].refresh = latest.refresh]
            BY <6>4, <6>2 DEF TypeOK
          <6> QED
            BY <4>3, <6>3, <6>4
        <5> QED
          BY <4>3, <5>1 DEF Goto, TypeOK, ControlTyped
      <4> QED
        BY <2>3, <4>1, <4>2, <4>3, Zenon DEF Recheck
    <3> QED
      BY <2>3, <3>2, <3>3 DEF Recheck, ControlTyped, TypeOK
  <2>4. CASE Exchange(t)
    <3> DEFINE old == hand[t].refresh
               new == Grant(erp[t], old.login)
    <3>1. old \in Token /\ new \in Token /\ erp[t] \in ERP
      BY GrantTyped DEF TypeOK, Entry, Token
    <3>2. CASE Refresh(t)
      <4>1. live' \in [ERP -> SUBSET Token] /\ issued' \in [ERP -> Nat]
        <5>1. CASE Issue(erp[t], {new}, {old})
          <6> HIDE DEF new, old
          <6> QED
            BY <5>1, <3>1 DEF Issue, TypeOK
        <5>2. CASE Issue(erp[t], {}, {})
          BY <5>2, <3>1 DEF Issue, TypeOK
        <5> QED
          BY <3>2, <5>1, <5>2 DEF Refresh
      <4>2. hand' \in [Thread -> Entry]
        <5>1. \E r \in {old, new} :
                hand' = [hand EXCEPT ![t] = [NoEntry EXCEPT
                                        !.access = new, !.refresh = r]]
          BY <3>2 DEF Refresh
        <5>2. PICK r \in Token :
                hand' = [hand EXCEPT ![t] = [NoEntry EXCEPT
                                        !.access = new, !.refresh = r]]
          BY <5>1, <3>1
        <5> HIDE DEF new, old
        <5>3. [NoEntry EXCEPT !.access = new, !.refresh = r] \in Entry
          BY <3>1, <5>2 DEF NoEntry, Entry
        <5> QED
          BY <5>2, <5>3 DEF TypeOK
      <4> QED
        BY <3>2, <4>1, <4>2 DEF Refresh, Load, Goto, NeedsLegacy, TypeOK
    <3>3. CASE Refused(t)
      BY <3>3, ReleaseTyped, ReturnTyped
         DEF Refused, Fail, ControlTyped, TypeOK
    <3>4. CASE Unreachable(t)
      BY <3>4, ReleaseTyped, ReturnTyped
         DEF Unreachable, Fail, ControlTyped, TypeOK
    <3>5. CASE LostResponse(t)
      <4>1. live' \in [ERP -> SUBSET Token] /\ issued' \in [ERP -> Nat]
        <5>1. Issue(erp[t], {new}, {old})
          BY <3>5 DEF LostResponse
        <5> HIDE DEF new, old
        <5> QED
          BY <5>1, <3>1 DEF Issue, TypeOK
      <4>2. taint' \in [ERP -> Nat] /\ faults' \in Nat
        BY <3>5, <3>1 DEF LostResponse, TypeOK
      <4> QED
        BY <3>5, <4>1, <4>2, ReleaseTyped, ReturnTyped
           DEF LostResponse, Fail, ControlTyped, TypeOK
    <3> QED
      BY <2>4, <3>2, <3>3, <3>4, <3>5 DEF Exchange
  <2>5. CASE Open(t)
    <3>1. Merged(t) \in Entry
      BY MergedTyped
    <3>2. seen' \in [Thread -> [ERP -> Entry]]
      BY <2>5, <3>1 DEF Open, TypeOK
    <3> QED
      BY <2>5, <3>2 DEF Open, Goto, TypeOK
  <2>6. CASE Flush(t)
    <3>1. registry' \in [ERP -> Entry] /\ overlap' \in [Thread -> BOOLEAN]
      BY <2>6 DEF Flush, Landed, Collide, TypeOK
    <3>2. /\ ControlTyped' /\ legacy' \in Entry
          /\ lock' \in [ERP -> Thread \cup {"none"}]
      <4>1. CASE erp[t] = LegacyErp
        BY <2>6, <4>1 DEF Flush, Goto, ControlTyped, TypeOK
      <4>2. CASE erp[t] # LegacyErp
        BY <2>6, <4>2, FinishTyped DEF Flush, TypeOK
      <4> QED
        BY <4>1, <4>2
    <3> QED
      BY <2>6, <3>1, <3>2 DEF Flush, ControlTyped, TypeOK
  <2>7. CASE FlushMirror(t)
    <3>1. overlap' \in [Thread -> BOOLEAN]
      BY <2>7 DEF FlushMirror, Collide, TypeOK
    <3>2. legacy' \in Entry
      BY <2>7 DEF FlushMirror, Landed, TypeOK
    <3> QED
      BY <2>7, <3>1, <3>2, FinishTyped DEF FlushMirror, ControlTyped, TypeOK
  <2>8. CASE SaveFails(t)
    BY <2>8, FinishTyped DEF SaveFails, ControlTyped, TypeOK
  <2> QED
    BY <1>4, <2>1, <2>2, <2>3, <2>4, <2>5, <2>6, <2>7, <2>8 DEF Step
<1>5. ASSUME NEW e \in ERP,
             Request(e) \/ BgCheck(e) \/ Setup(e) \/ Login(e) \/ SaveLogin(e)
      PROVE  TypeOK'
  <2>1. CASE Request(e)
    BY <2>1 DEF Request, Load, Goto, NeedsLegacy, TypeOK, Thread
  <2>2. CASE BgCheck(e)
    BY <2>2 DEF BgCheck, Goto, TypeOK, Thread
  <2>3. CASE Setup(e)
    BY <2>3 DEF Setup, TypeOK
  <2>4. CASE Login(e)
    <3> DEFINE new == Grant(e, logins[e] + 1)
    <3>1. new \in Token
      BY GrantTyped DEF TypeOK
    <3>2. PICK refresh \in {new, NoToken}, tenant \in {new.login, 0} :
            /\ Issue(e, {refresh} \ {NoToken}, {})
            /\ pending' = [pending EXCEPT ![e] =
                             [access |-> new, refresh |-> refresh,
                              savedAt |-> now, tenant |-> tenant]]
      BY <2>4 DEF Login
    <3> HIDE DEF new
    <3>3. refresh \in Token /\ tenant \in Nat
      <4>1. new.login \in Nat
        BY <3>1 DEF Token
      <4> QED
        BY <3>1, <3>2, <4>1, EmptyTyped
    <3>4. live' \in [ERP -> SUBSET Token] /\ issued' \in [ERP -> Nat]
      <4>1. {refresh} \ {NoToken} \in SUBSET Token /\ {} \in SUBSET Token
        BY <3>3
      <4>2. Issue(e, {refresh} \ {NoToken}, {})
        BY <3>2
      <4> QED
        BY <4>1, <4>2, IssueTyped
    <3>5. pending' \in [ERP -> Entry]
      <4>1. [access |-> new, refresh |-> refresh, savedAt |-> now,
             tenant |-> tenant] \in Entry
        BY <3>1, <3>3 DEF TypeOK, Entry
      <4> QED
        BY <3>2, <4>1 DEF TypeOK
    <3> QED
      BY <2>4, <3>4, <3>5 DEF Login, TypeOK
  <2>5. CASE SaveLogin(e)
    BY <2>5 DEF SaveLogin, Load, Goto, NeedsLegacy, TypeOK, Thread
  <2> QED
    BY <1>5, <2>1, <2>2, <2>3, <2>4, <2>5
<1>6. CASE UNCHANGED vars
  BY <1>6 DEF vars, TypeOK
<1> QED
  BY <1>1, <1>2, <1>3, <1>4, <1>5, <1>6 DEF Next

\* Every variable of the token manager keeps its type.
THEOREM TypeCorrect == Safe => []TypeOK
<1>1. Init => TypeOK
  BY InitTyped
<1>2. TypeOK /\ [Next]_vars => TypeOK'
  BY NextTyped
<1> QED
  BY <1>1, <1>2, PTL DEF Safe

-----------------------------------------------------------------------------
(***************************************************************************)
(* The lock of an ERP.  OneRefresher is not inductive: it does not say who *)
(* may hold a lock.  LockInv does: the holder of a lock is the one thread  *)
(* between the re-check and the end of its save, for that ERP.             *)
(***************************************************************************)
LockInv ==
    /\ \A t \in Thread :
         pc[t] \in {"recheck", "exchange"} => lock[erp[t]] = t
    /\ \A e \in ERP, t \in Thread :
         lock[e] = t =>
            /\ erp[t] = e
            /\ pc[t] \in {"recheck", "exchange", "open", "flush", "mirror"}

\* Giving the lock back, or finishing a save, keeps LockInv.
LEMMA LeaveLock ==
    ASSUME TypeOK, LockInv, NEW t \in Thread,
           erp' = erp,
           \/ Release(t) /\ lock[erp[t]] = t
              /\ \E l \in {"idle", "tenant"} : Goto(t, l)
           \/ lock' = lock /\ lock[erp[t]] # t /\ Goto(t, "idle")
    PROVE  LockInv'
BY DEF TypeOK, LockInv, Release, Goto, Thread

LEMMA ReturnLabel ==
    ASSUME NEW t \in Thread, Return(t)
    PROVE  \E l \in {"idle", "tenant"} : Goto(t, l)
BY DEF Return, Park

LEMMA FinishLock ==
    ASSUME TypeOK, LockInv, NEW t \in Thread, erp' = erp, Finish(t)
    PROVE  LockInv'
<1>1. CASE lock[erp[t]] = t
  BY <1>1, ReturnLabel, LeaveLock DEF Finish
<1>2. CASE lock[erp[t]] # t
  BY <1>2, LeaveLock DEF Finish, Park
<1> QED
  BY <1>1, <1>2

LEMMA NextLocked ==
    ASSUME TypeOK, LockInv, [Next]_vars
    PROVE  LockInv'
<1> USE DEF files, provider, accounts, locals, history
<1>1. CASE Tick
  BY <1>1 DEF Tick, LockInv
<1>2. CASE LoopStep
  BY <1>2 DEF LoopStep, Decide, ReadTenant, Respond, Park, Goto, TypeOK,
              LockInv, Thread
<1>3. CASE Crash
  BY <1>3 DEF Crash, LockInv, TypeOK, Thread
<1>4. ASSUME NEW t \in Thread, Step(t)
      PROVE  LockInv'
  <2>1. CASE ReadLegacy(t)
    BY <2>1 DEF ReadLegacy, LockInv
  <2>2. CASE Acquire(t)
    BY <2>2 DEF Acquire, Goto, TypeOK, LockInv, Thread
  <2>3. CASE Recheck(t)
    <3>1. lock[erp[t]] = t /\ erp' = erp
      BY <2>3 DEF Recheck, LockInv
    <3>2. CASE Release(t) /\ \E l \in {"idle", "tenant"} : Goto(t, l)
      BY <3>1, <3>2, LeaveLock
    <3>3. CASE UNCHANGED lock /\ Goto(t, "exchange")
      BY <3>1, <3>3 DEF Goto, TypeOK, LockInv
    <3> QED
      BY <2>3, <3>2, <3>3 DEF Recheck, Park
  <2>4. CASE Refresh(t)
    BY <2>4 DEF Refresh, Goto, TypeOK, LockInv
  <2>5. ASSUME pc[t] = "exchange", Fail(t)
        PROVE  LockInv'
    BY <2>5, ReturnLabel, LeaveLock DEF Fail, LockInv
  <2>6. CASE Refused(t) \/ Unreachable(t) \/ LostResponse(t)
    BY <2>5, <2>6 DEF Refused, Unreachable, LostResponse
  <2>7. CASE Open(t)
    BY <2>7 DEF Open, Goto, TypeOK, LockInv
  <2>8. CASE Flush(t)
    <3>1. CASE erp[t] = LegacyErp
      BY <2>8, <3>1 DEF Flush, Goto, TypeOK, LockInv
    <3>2. CASE erp[t] # LegacyErp
      BY <2>8, <3>2, FinishLock DEF Flush
    <3> QED
      BY <3>1, <3>2
  <2>9. CASE FlushMirror(t)
    BY <2>9, FinishLock DEF FlushMirror
  <2>10. CASE SaveFails(t)
    BY <2>10, FinishLock DEF SaveFails
  <2> QED
    BY <1>4, <2>1, <2>2, <2>3, <2>4, <2>6, <2>7, <2>8, <2>9, <2>10
       DEF Step, Exchange
<1>5. ASSUME NEW e \in ERP,
             Request(e) \/ BgCheck(e) \/ Setup(e) \/ Login(e) \/ SaveLogin(e)
      PROVE  LockInv'
  <2>1. CASE Request(e)
    BY <2>1 DEF Request, Goto, TypeOK, LockInv, Thread
  <2>2. CASE BgCheck(e)
    BY <2>2 DEF BgCheck, Goto, TypeOK, LockInv, Thread
  <2>3. CASE Setup(e) \/ Login(e)
    BY <2>3 DEF Setup, Login, LockInv
  <2>4. CASE SaveLogin(e)
    BY <2>4 DEF SaveLogin, Goto, TypeOK, LockInv, Thread
  <2> QED
    BY <1>5, <2>1, <2>2, <2>3, <2>4
<1>6. CASE UNCHANGED vars
  BY <1>6 DEF vars, LockInv
<1> QED
  BY <1>1, <1>2, <1>3, <1>4, <1>5, <1>6 DEF Next

LEMMA Locked == Safe => []LockInv
<1>1. Init => LockInv
  BY DEF Init, LockInv, Thread
<1>2. TypeOK /\ LockInv /\ [Next]_vars => LockInv'
  BY NextLocked
<1> QED
  BY <1>1, <1>2, TypeCorrect, PTL DEF Safe

\* For any number of ERPs, whatever the interleaving of requests, background
\* refreshes, logins, faults and restarts, one thread at a time re-checks,
\* redeems and saves for an ERP.
THEOREM LockSerial == Safe => []OneRefresher
<1>1. TypeOK /\ LockInv => OneRefresher
  BY DEF TypeOK, LockInv, OneRefresher
<1> QED
  BY <1>1, TypeCorrect, Locked, PTL

-----------------------------------------------------------------------------
(***************************************************************************)
(* Freshness.  The code dates tokens by saved_at, the ERP by the time of   *)
(* issue.  DatedInv says that they agree wherever an entry is, on disk, in *)
(* a thread's hands or about to be written, but for a token that a legacy  *)
(* file left undated; and that the token a request is answered with is     *)
(* within its age, but for that one and one that cannot be refreshed.      *)
(***************************************************************************)
Dated(entry) == entry.access.dated => entry.access.at = entry.savedAt

FilesDated == Dated(legacy) /\ \A e \in ERP : Dated(registry[e])

SeenDated == \A e \in ERP, t \in Thread : Dated(seen[t][e])

PendingDated ==
    \A e \in ERP : pending[e] # NoEntry => pending[e].access.at = now

SavingDated ==
    \A t \in Thread :
        pc[t] \in {"open", "flush", "mirror"} => hand[t].access.at = now

AnswerDated ==
    /\ pc["loop"] \in {"tenant", "respond"} /\ ~fellBack
    /\ hand["loop"].access # NoToken
    => InAge \/ hand["loop"].refresh = NoToken \/ ~hand["loop"].access.dated

DatedInv ==
    FilesDated /\ SeenDated /\ PendingDated /\ SavingDated /\ AnswerDated

LEMMA EmptyDated ==
    Dated(NoEntry) /\ \A e \in ERP : Dated(Empty[e])
BY DEF Dated, NoEntry, NoToken, Empty

\* What load_all_tokens returns is dated when the files are.
LEMMA LoadDated ==
    ASSUME TypeOK, FilesDated, SeenDated
    PROVE  /\ Dated(FromLegacy)
           /\ \A t \in Thread : Load(t) => SeenDated'
<1>1. Dated(FromLegacy)
  BY LegacyTokens DEF FilesDated, Dated
<1>2. \A t \in Thread : Load(t) => SeenDated'
  BY DEF TypeOK, FilesDated, SeenDated, Load, Dated
<1> QED
  BY <1>1, <1>2

LEMMA ParkDated ==
    ASSUME TypeOK, SeenDated, SavingDated, AnswerDated, NEW t \in Thread,
           Park(t), now' = now, erp' = erp, fellBack' = fellBack
    PROVE  SeenDated' /\ SavingDated' /\ AnswerDated'
<1>1. SeenDated'
  BY EmptyDated DEF Park, TypeOK, SeenDated
<1>2. SavingDated' /\ AnswerDated'
  BY DEF Park, Goto, TypeOK, SavingDated, AnswerDated, InAge, Thread
<1> QED
  BY <1>1, <1>2

\* A request that returns with a token just issued, or that falls back.
LEMMA ReturnDated ==
    ASSUME TypeOK, SeenDated, SavingDated, AnswerDated, NEW t \in Thread,
           Return(t), now' = now, erp' = erp,
           t = "loop" => fellBack' \/ hand[t].access.at = now,
           t # "loop" => fellBack' = fellBack
    PROVE  SeenDated' /\ SavingDated' /\ AnswerDated'
<1> USE TokenManagerAssumption DEF InAge
<1>1. CASE t = "loop"
  BY <1>1 DEF Return, Goto, TypeOK, SeenDated, SavingDated, AnswerDated,
              Thread
<1>2. CASE t # "loop"
  BY <1>2, ParkDated DEF Return, Park, Goto, TypeOK, SeenDated, SavingDated,
              AnswerDated, Thread
<1> QED
  BY <1>1, <1>2

LEMMA FinishDated ==
    ASSUME TypeOK, SeenDated, SavingDated, AnswerDated, NEW t \in Thread,
           pc[t] \in {"open", "flush", "mirror"},
           Finish(t), now' = now, erp' = erp, fellBack' = fellBack
    PROVE  SeenDated' /\ SavingDated' /\ AnswerDated'
<1>1. CASE lock[erp[t]] = t
  <2>1. hand[t].access.at = now
    BY DEF SavingDated
  <2> QED
    BY <1>1, <2>1, ReturnDated DEF Finish
<1>2. CASE lock[erp[t]] # t
  BY <1>2, ParkDated DEF Finish
<1> QED
  BY <1>1, <1>2

LEMMA NextDated ==
    ASSUME TypeOK, DatedInv, [Next]_vars
    PROVE  DatedInv'
<1> USE TokenManagerAssumption
    DEF files, provider, accounts, locals, history, InAge
<1>0. FilesDated /\ SeenDated /\ PendingDated /\ SavingDated /\ AnswerDated
  BY DEF DatedInv
<1>a. ASSUME UNCHANGED files
      PROVE  FilesDated'
  BY <1>0, <1>a DEF FilesDated, Dated
<1>b. ASSUME UNCHANGED <<pending, now>>
      PROVE  PendingDated'
  BY <1>0, <1>b DEF PendingDated
<1>c. ASSUME UNCHANGED seen
      PROVE  SeenDated'
  BY <1>0, <1>c DEF SeenDated, Dated
<1>1. CASE Tick
  <2>1. SavingDated' /\ AnswerDated' /\ PendingDated'
    BY <1>1 DEF Tick, Unhurried, SavingDated, AnswerDated, PendingDated, Thread
  <2> QED
    BY <1>1, <2>1, <1>a, <1>c DEF Tick, DatedInv
<1>2. CASE LoopStep
  <2>1. CASE Decide
    <3>1. SavingDated'
      BY <1>0, <2>1 DEF Decide, Goto, TypeOK, SavingDated, Thread
    <3>2. AnswerDated'
      <4> DEFINE mine == seen["loop"][erp["loop"]]
      <4>1. mine \in Entry /\ Dated(mine) /\ erp["loop"] \in ERP
        BY <1>0 DEF TypeOK, SeenDated, Thread
      <4>2. CASE /\ mine.access # NoToken /\ mine.refresh # NoToken
                 /\ Expired(mine, ExpiryAge[erp["loop"]])
        BY <2>1, <4>2 DEF Decide, Goto, TypeOK, AnswerDated, Thread
      <4>3. CASE mine.access = NoToken \/ mine.refresh = NoToken
        BY <2>1, <4>1, <4>3 DEF Decide, TypeOK, AnswerDated, Thread
      <4>4. CASE ~Expired(mine, ExpiryAge[erp["loop"]])
        <5>1. \/ ~mine.access.dated
              \/ now <= mine.access.at + ExpiryAge[erp["loop"]]
          BY <4>1, <4>4 DEF Expired, Dated, Entry, TypeOK
        <5> QED
          BY <2>1, <5>1 DEF Decide, TypeOK, AnswerDated, Thread
      <4> QED
        BY <4>2, <4>3, <4>4
    <3> QED
      BY <2>1, <3>1, <3>2, <1>a, <1>b, <1>c DEF Decide, DatedInv
  <2>2. CASE ReadTenant
    <3>1. SavingDated' /\ AnswerDated'
      BY <1>0, <2>2 DEF ReadTenant, Goto, TypeOK, SavingDated, AnswerDated,
                        Thread
    <3> QED
      BY <1>0, <2>2, <3>1, <1>a, <1>b, LoadDated
         DEF ReadTenant, DatedInv, Thread
  <2>3. CASE Respond
    <3> QED
      BY <1>0, <2>3, <1>a, <1>b, ParkDated DEF Respond, DatedInv, Thread
  <2> QED
    BY <1>2, <2>1, <2>2, <2>3 DEF LoopStep
<1>3. CASE Crash
  <2>1. SeenDated' /\ PendingDated' /\ SavingDated' /\ AnswerDated'
    BY <1>3, EmptyDated
       DEF Crash, SeenDated, PendingDated, SavingDated, AnswerDated, Thread
  <2> QED
    BY <1>3, <2>1, <1>a DEF Crash, DatedInv
<1>4. ASSUME NEW t \in Thread, Step(t)
      PROVE  DatedInv'
  <2>1. CASE ReadLegacy(t)
    <3>1. SeenDated'
      BY <1>0, <2>1, LoadDated DEF ReadLegacy, TypeOK, SeenDated
    <3>2. SavingDated' /\ AnswerDated'
      BY <1>0, <2>1 DEF ReadLegacy, SavingDated, AnswerDated
    <3> QED
      BY <2>1, <3>1, <3>2, <1>a, <1>b DEF ReadLegacy, DatedInv
  <2>2. CASE Acquire(t)
    <3>1. SavingDated' /\ AnswerDated'
      BY <1>0, <2>2 DEF Acquire, Goto, TypeOK, SavingDated, AnswerDated, Thread
    <3> QED
      BY <1>0, <2>2, <3>1, <1>a, <1>b, LoadDated DEF Acquire, DatedInv
  <2>3. CASE Recheck(t)
    <3> DEFINE latest == seen[t][erp[t]]
    <3>1. latest \in Entry /\ Dated(latest) /\ erp[t] \in ERP
      BY <1>0 DEF TypeOK, SeenDated
    <3>2. CASE Goto(t, "exchange") /\ UNCHANGED seen
               /\ \A u \in Thread : u # t => hand'[u] = hand[u]
      <4>1. SavingDated' /\ AnswerDated'
        BY <1>0, <2>3, <3>2
           DEF Recheck, Goto, TypeOK, SavingDated, AnswerDated, Thread
      <4> QED
        BY <2>3, <3>2, <4>1, <1>a, <1>b, <1>c DEF Recheck, DatedInv
    <3>3. CASE t # "loop" /\ Park(t)
      BY <1>0, <2>3, <3>3, <1>a, <1>b, ParkDated DEF Recheck, DatedInv
    <3>4. CASE /\ t = "loop" /\ ~Expired(latest, AgeLimit(t))
               /\ hand' = [hand EXCEPT ![t] = latest]
               /\ Goto(t, "tenant") /\ UNCHANGED seen
      <4>1. \/ ~latest.access.dated
            \/ now <= latest.access.at + ExpiryAge[erp["loop"]]
        BY <3>1, <3>4 DEF Expired, AgeLimit, Dated, Entry, TypeOK
      <4>2. AnswerDated'
        BY <2>3, <3>4, <4>1 DEF Recheck, TypeOK, AnswerDated
      <4>3. SavingDated'
        BY <1>0, <2>3, <3>4 DEF Recheck, Goto, TypeOK, SavingDated
      <4> QED
        BY <2>3, <3>4, <4>2, <4>3, <1>a, <1>b, <1>c DEF Recheck, DatedInv
    <3>5. \A x : hand' = [hand EXCEPT ![t].refresh = x]
                  => \A u \in Thread : u # t => hand'[u] = hand[u]
      BY DEF TypeOK
    <3> QED
      BY <2>3, <3>2, <3>3, <3>4, <3>5, Zenon DEF Recheck
  <2>4. CASE Refresh(t)
    <3> DEFINE new == Grant(erp[t], hand[t].refresh.login)
    <3>1. hand'[t].access.at = now /\ \A u \in Thread \ {t} : hand'[u] = hand[u]
      <4>1. new.at = now
        BY DEF Grant
      <4>2. \E r : hand' = [hand EXCEPT ![t] = [NoEntry EXCEPT
                                        !.access = new, !.refresh = r]]
        BY <2>4 DEF Refresh
      <4> HIDE DEF new
      <4> QED
        BY <4>1, <4>2 DEF TypeOK, NoEntry
    <3>2. SavingDated' /\ AnswerDated'
      BY <1>0, <2>4, <3>1
         DEF Refresh, Goto, TypeOK, SavingDated, AnswerDated, Thread
    <3> QED
      BY <1>0, <2>4, <3>2, <1>a, <1>b, LoadDated DEF Refresh, DatedInv
  <2>5. ASSUME Fail(t)
        PROVE  DatedInv'
    <3>1. SeenDated' /\ SavingDated' /\ AnswerDated'
      BY <1>0, <2>5, ReturnDated DEF Fail, TypeOK
    <3> QED
      BY <2>5, <3>1, <1>a, <1>b DEF Fail, DatedInv
  <2>6. CASE Refused(t) \/ Unreachable(t) \/ LostResponse(t)
    BY <2>5, <2>6 DEF Refused, Unreachable, LostResponse
  <2>7. CASE Open(t)
    <3>1. Dated(Merged(t))
      <4>1. hand[t].access.at = now /\ hand[t] \in Entry
        BY <1>0, <2>7 DEF Open, SavingDated, TypeOK
      <4> QED
        <5>1. Merged(t).access = hand[t].access /\ Merged(t).savedAt = now
          BY <4>1 DEF Merged, Entry
        <5> QED
          BY <4>1, <5>1 DEF Dated
    <3>2. SeenDated'
      BY <1>0, <2>7, <3>1 DEF Open, TypeOK, SeenDated
    <3>3. FilesDated'
      BY <1>0, <2>7, EmptyDated DEF Open, FilesDated
    <3>4. SavingDated' /\ AnswerDated'
      BY <1>0, <2>7 DEF Open, Goto, TypeOK, SavingDated, AnswerDated, Thread
    <3> QED
      BY <2>7, <3>2, <3>3, <3>4, <1>b DEF Open, DatedInv
  <2>8. CASE Flush(t)
    <3>1. \A e \in ERP : Dated(registry'[e])
      BY <1>0, <2>8, EmptyDated DEF Flush, Landed, SeenDated
    <3>2. CASE erp[t] = LegacyErp
      <4>1. FilesDated' /\ SavingDated' /\ AnswerDated'
        BY <1>0, <2>8, <3>1, <3>2, EmptyDated
           DEF Flush, Goto, TypeOK, FilesDated, SavingDated, AnswerDated, Thread
      <4> QED
        BY <2>8, <3>2, <4>1, <1>b, <1>c DEF Flush, DatedInv
    <3>3. CASE erp[t] # LegacyErp
      <4>1. SeenDated' /\ SavingDated' /\ AnswerDated'
        BY <1>0, <2>8, <3>3, FinishDated DEF Flush
      <4>2. FilesDated'
        BY <1>0, <2>8, <3>1, <3>3 DEF Flush, FilesDated
      <4> QED
        BY <2>8, <4>1, <4>2, <1>b DEF Flush, DatedInv
    <3> QED
      BY <3>2, <3>3
  <2>9. CASE FlushMirror(t)
    <3>1. FilesDated'
      BY <1>0, <2>9, EmptyDated
         DEF FlushMirror, Landed, FilesDated, SeenDated, TypeOK
    <3>2. SeenDated' /\ SavingDated' /\ AnswerDated'
      BY <1>0, <2>9, FinishDated DEF FlushMirror
    <3> QED
      BY <2>9, <3>1, <3>2, <1>b DEF FlushMirror, DatedInv
  <2>10. CASE SaveFails(t)
    <3>1. SeenDated' /\ SavingDated' /\ AnswerDated'
      BY <1>0, <2>10, FinishDated DEF SaveFails
    <3> QED
      BY <2>10, <3>1, <1>a, <1>b DEF SaveFails, DatedInv
  <2> QED
    BY <1>4, <2>1, <2>2, <2>3, <2>4, <2>6, <2>7, <2>8, <2>9, <2>10
       DEF Step, Exchange
<1>5. ASSUME NEW e \in ERP,
             Request(e) \/ BgCheck(e) \/ Setup(e) \/ Login(e) \/ SaveLogin(e)
      PROVE  DatedInv'
  <2>1. CASE Request(e)
    <3>1. SavingDated' /\ AnswerDated'
      BY <1>0, <2>1 DEF Request, Goto, TypeOK, SavingDated, AnswerDated, Thread
    <3> QED
      BY <1>0, <2>1, <3>1, <1>a, <1>b, LoadDated DEF Request, DatedInv, Thread
  <2>2. CASE BgCheck(e)
    <3>1. SavingDated' /\ AnswerDated'
      BY <1>0, <2>2 DEF BgCheck, Goto, TypeOK, SavingDated, AnswerDated, Thread
    <3> QED
      BY <2>2, <3>1, <1>a, <1>b, <1>c DEF BgCheck, DatedInv
  <2>3. CASE Setup(e)
    BY <1>0, <2>3, <1>a, <1>b, <1>c
       DEF Setup, SavingDated, AnswerDated, DatedInv
  <2>4. CASE Login(e)
    <3>1. PendingDated'
      <4> DEFINE new == Grant(e, logins[e] + 1)
      <4>1. new.at = now
        BY DEF Grant
      <4>2. \E x, n : pending' = [pending EXCEPT ![e] =
                                    [access |-> new, refresh |-> x,
                                     savedAt |-> now, tenant |-> n]]
        BY <2>4 DEF Login
      <4>3. now' = now
        BY <2>4 DEF Login
      <4> HIDE DEF new
      <4> QED
        BY <1>0, <4>1, <4>2, <4>3 DEF PendingDated, TypeOK
    <3>2. SavingDated' /\ AnswerDated'
      BY <1>0, <2>4 DEF Login, SavingDated, AnswerDated
    <3> QED
      BY <2>4, <3>1, <3>2, <1>a, <1>c DEF Login, DatedInv
  <2>5. CASE SaveLogin(e)
    <3>1. SavingDated' /\ AnswerDated' /\ PendingDated'
      BY <1>0, <2>5 DEF SaveLogin, Goto, TypeOK, SavingDated, AnswerDated,
                        PendingDated, Thread
    <3> QED
      BY <1>0, <2>5, <3>1, <1>a, LoadDated DEF SaveLogin, DatedInv, Thread
  <2> QED
    BY <1>5, <2>1, <2>2, <2>3, <2>4, <2>5
<1>6. CASE UNCHANGED vars
  BY <1>0, <1>6, <1>a, <1>b, <1>c
     DEF vars, SavingDated, AnswerDated, DatedInv
<1> QED
  BY <1>1, <1>2, <1>3, <1>4, <1>5, <1>6 DEF Next

LEMMA InitDated ==
    ASSUME Init
    PROVE  DatedInv
<1>1. FilesDated
  <2>1. \A e : Dated(SeedEntry(e, TRUE)) /\ Dated(SeedEntry(e, FALSE))
    BY EmptyDated DEF Dated, SeedEntry, Seed
  <2> QED
    BY <2>1, InitFiles, EmptyDated DEF FilesDated
<1>2. SeenDated /\ PendingDated /\ SavingDated /\ AnswerDated
  BY EmptyDated
     DEF Init, SeenDated, PendingDated, SavingDated, AnswerDated, Thread
<1> QED
  BY <1>1, <1>2 DEF DatedInv

\* A request that did not fall back is answered with a token no older than
\* its ERP's expiry, unless the token cannot be refreshed or comes undated
\* from a legacy file, for any number of ERPs, logins, faults and restarts.
THEOREM AlwaysServedFresh == Safe => []ServedFresh
<1>1. TypeOK /\ DatedInv /\ [Next]_vars => DatedInv'
  BY NextDated
<1>2. DatedInv => ServedFresh
  BY DEF DatedInv, AnswerDated, ServedFresh, Served, InAge
<1> QED
  BY <1>1, <1>2, InitDated, TypeCorrect, PTL DEF Safe

-----------------------------------------------------------------------------
(***************************************************************************)
(* One ERP, connected once.  With several ERPs in the one file, or a login *)
(* while another is in use, ReplayFree and StoredUsable fail (the runs     *)
(* redeemed_twice, connection_erased and login_undone).  With one ERP and  *)
(* one grant the lock is enough, and this section proves it.  A token is   *)
(* good when the ERP accepts it or a fault is to blame; the inductive      *)
(* invariant follows the good token from the disk to the thread that       *)
(* redeems it and back.                                                    *)
(***************************************************************************)
Saving == {"open", "flush", "mirror"}
Good(e, token) == token \in live[e] \/ token.id <= taint[e]

\* An ERP that accepts no refresh token brought none with its login: there is
\* none anywhere, and there never will be.
Unrefreshed(e) ==
    /\ logins[e] = 0 => live[e] = {}
    /\ live[e] = {} =>
         /\ registry[e].refresh = NoToken /\ legacy.refresh = NoToken
         /\ pending[e].refresh = NoToken
         /\ \A t \in Thread :
              hand[t].refresh = NoToken /\ seen[t][e].refresh = NoToken

\* One grant, and nothing anywhere before its callback saves it.
OneGrant(e) ==
    /\ logins[e] <= 1 /\ logins[e] <= issued[e]
    /\ logins[e] = 0 => issued[e] = 0 /\ pending[e] = NoEntry
    /\ logins[e] = 0 \/ pending[e] # NoEntry =>
         /\ registry[e] = NoEntry /\ legacy = NoEntry /\ pc["worker"] = "idle"
         /\ \A t \in Thread : /\ pc[t] \in {"idle", "decide", "tenant", "respond"}
                              /\ seen[t][e] = NoEntry

\* Where the ERP accepts a refresh token, an entry has one.
Whole(e, entry) == live[e] # {} /\ entry # NoEntry => entry.refresh.id > 0

\* Serial numbers: none is ahead of the ERP's, no live token has number 0.
Numbered(e) ==
    /\ taint[e] <= issued[e]
    /\ \A token \in live[e] : token.id > 0
    /\ registry[e].refresh.id <= issued[e]
    /\ legacy.refresh.id <= issued[e]
    /\ Whole(e, registry[e]) /\ Whole(e, legacy) /\ Whole(e, pending[e])
    /\ pending[e].refresh.id <= issued[e]
    /\ \A t \in Thread : hand[t].refresh.id <= issued[e]
    /\ \A t \in Thread : seen[t][e].refresh.id <= issued[e]

\* A save outside the lock is the login callback's, with the worker idle;
\* so no two saves overlap.
SavesAlone(e) ==
    /\ \A t \in Thread :
         pc[t] \in Saving /\ lock[e] # t => t = "loop" /\ pc["worker"] = "idle"
    /\ \A t \in Thread : ~overlap[t]

\* What the holder of the lock read is what is on disk; a dump reads nothing.
ReadCurrent(e) ==
    \A t \in Thread :
        /\ pc[t] = "recheck" =>
             IF half[t] THEN seen[t] = registry /\ NeedsLegacy /\ e = LegacyErp
                        ELSE seen[t][e] = Loaded[e]
        /\ pc[t] \in {"flush", "mirror"} => ~half[t]

\* A thread that redeems or saves has a good token in hand, and what it
\* dumps holds that token.
GoodInHand(e) ==
    /\ pending[e] # NoEntry => Good(e, pending[e].refresh)
    /\ \A t \in Thread :
         /\ pc[t] \in {"exchange"} \cup Saving => Good(e, hand[t].refresh)
         /\ pc[t] \in Saving /\ live[e] # {} => hand[t].refresh.id > 0
         /\ pc[t] \in {"flush", "mirror"} =>
              seen[t][e].refresh = hand[t].refresh
         /\ pc[t] = "mirror" => registry[e] = seen[t][e]

\* Between saves the disk holds a good token, or a fault lost everything.
GoodOnDisk(e) ==
    (\A t \in Thread : pc[t] \notin Saving) /\ pending[e] = NoEntry =>
        /\ Good(e, Loaded[e].refresh)
        /\ live[e] # {} /\ Loaded[e] = NoEntry => issued[e] <= taint[e]

SingleInv(e) ==
    /\ OneGrant(e) /\ Numbered(e) /\ SavesAlone(e) /\ ReadCurrent(e)
    /\ GoodInHand(e) /\ GoodOnDisk(e)

\* The state of an induction step for the one ERP e.
OneErp(e) == ERP = {e} /\ MaxLogins <= 1
SingleCase(e) ==
    OneErp(e) /\ TypeOK /\ LockInv /\ Unrefreshed(e) /\ SingleInv(e)

\* What load_all_tokens returns for the one ERP.
LEMMA LoadedSingle ==
    ASSUME NEW e, OneErp(e), registry \in [ERP -> Entry]
    PROVE  Loaded[e] = IF e = LegacyErp /\ registry[e] = NoEntry
                       THEN FromLegacy ELSE registry[e]
BY DEF OneErp, Loaded, NeedsLegacy

\* The clock changes neither the refresh tokens that load_all_tokens returns
\* nor what it finds.
LEMMA LoadedLater ==
    ASSUME NEW e, OneErp(e), TypeOK, TypeOK', UNCHANGED files
    PROVE  /\ Loaded'[e].refresh = Loaded[e].refresh
           /\ Loaded'[e] = NoEntry <=> Loaded[e] = NoEntry
           /\ now' = now => Loaded' = Loaded /\ FromLegacy' = FromLegacy
<1>1. registry' = registry /\ legacy' = legacy /\ legacy \in Entry
  BY DEF files, TypeOK
<1>2. /\ FromLegacy'.refresh = FromLegacy.refresh
      /\ FromLegacy' = NoEntry <=> FromLegacy = NoEntry
  <2>1. /\ FromLegacy.refresh = legacy.refresh
        /\ FromLegacy'.refresh = legacy.refresh
        /\ FromLegacy.access = legacy.access
        /\ FromLegacy'.access = legacy.access
    BY <1>1 DEF FromLegacy, Entry
  <2>2. CASE legacy.access.dated
    BY <1>1, <2>2 DEF FromLegacy
  <2>3. CASE ~legacy.access.dated
    <3>1. legacy.access # NoToken
      BY <2>3 DEF NoToken
    <3> QED
      BY <2>1, <3>1 DEF NoEntry
  <2> QED
    BY <2>1, <2>2, <2>3
<1>3. /\ Loaded[e] = (IF e = LegacyErp /\ registry[e] = NoEntry
                      THEN FromLegacy ELSE registry[e])
      /\ Loaded'[e] = (IF e = LegacyErp /\ registry[e] = NoEntry
                       THEN FromLegacy' ELSE registry[e])
  BY <1>1 DEF OneErp, Loaded, NeedsLegacy, TypeOK
<1>4. now' = now => Loaded' = Loaded /\ FromLegacy' = FromLegacy
  BY <1>1 DEF Loaded, FromLegacy, NeedsLegacy
<1> QED
  BY <1>2, <1>3, <1>4

\* No other thread is between the re-check and the end of a save.
LEMMA Alone ==
    ASSUME NEW e, SingleCase(e), NEW t \in Thread,
           pc[t] \in {"recheck", "exchange"} \cup Saving
    PROVE  /\ erp[t] = e
           /\ pending[e] = NoEntry
           /\ \A u \in Thread \ {t} :
                pc[u] \notin {"recheck", "exchange"} \cup Saving
<1>1. /\ erp \in [Thread -> {e}] /\ lock \in [{e} -> Thread \cup {"none"}]
      /\ LockInv /\ SavesAlone(e) /\ OneGrant(e)
  BY DEF SingleCase, OneErp, SingleInv, TypeOK
<1>2. pending[e] = NoEntry
  BY <1>1 DEF OneGrant, Saving
<1>3. CASE lock[e] = t
  BY <1>1, <1>2, <1>3 DEF LockInv, SavesAlone, Saving, Thread
<1>4. CASE lock[e] # t
  BY <1>1, <1>2, <1>4 DEF LockInv, SavesAlone, Saving, Thread
<1> QED
  BY <1>3, <1>4

\* Steps of a request outside the lock, and the clock, leave all in place.
LEMMA SingleLoop ==
    ASSUME NEW e, SingleCase(e), Tick \/ LoopStep
    PROVE  SingleInv(e)'
<1> USE DEF files, provider, accounts, locals, history
<1> SUFFICES ASSUME OneErp(e), TypeOK, OneGrant(e), Numbered(e),
                    SavesAlone(e), ReadCurrent(e), GoodInHand(e),
                    GoodOnDisk(e), registry' = registry, legacy' = legacy,
                    live' = live, issued' = issued, taint' = taint
             PROVE  SingleInv(e)'
  BY DEF SingleCase, SingleInv, Tick, LoopStep, Decide, ReadTenant, Respond
<1> USE DEF Whole
<1>1. LoopStep => Loaded' = Loaded /\ FromLegacy' = FromLegacy
                  /\ NeedsLegacy' = NeedsLegacy
  BY DEF LoopStep, Decide, ReadTenant, Respond, Loaded, FromLegacy,
         NeedsLegacy
<1>2. CASE Tick
  <2>1. /\ Loaded'[e].refresh = Loaded[e].refresh
        /\ Loaded'[e] = NoEntry <=> Loaded[e] = NoEntry
    <3>1. TypeOK'
      BY <1>2, NextTyped DEF Next
    <3> QED
      BY <3>1, LoadedLater
  <2>2. \A t \in Thread : pc[t] \notin {"recheck", "flush", "mirror"}
    BY <1>2 DEF Tick, Unhurried
  <2>3. ReadCurrent(e)'
    BY <1>2, <2>2 DEF Tick, ReadCurrent
  <2>4. GoodOnDisk(e)'
    BY <1>2, <2>1 DEF Tick, GoodOnDisk, Good
  <2> QED
    BY <1>2, <2>3, <2>4 DEF Tick, OneGrant, Numbered, SavesAlone, GoodInHand,
                            Good, SingleInv
<1>3. CASE Decide
  <2>1. OneGrant(e)'
    BY <1>3 DEF Decide, OneErp, Goto, TypeOK, OneGrant, Thread, NoEntry
  <2>2. Numbered(e)'
    BY <1>3 DEF Decide, OneErp, TypeOK, Numbered, Thread
  <2>3. SavesAlone(e)' /\ ReadCurrent(e)'
    BY <1>1, <1>3 DEF LoopStep, Decide, Goto, TypeOK, SavesAlone, ReadCurrent, Saving,
                      Thread
  <2>4. GoodInHand(e)' /\ GoodOnDisk(e)'
    BY <1>1, <1>3 DEF LoopStep, Decide, Goto, TypeOK, GoodInHand, GoodOnDisk, Good,
                      Saving, Thread
  <2> QED
    BY <2>1, <2>2, <2>3, <2>4 DEF SingleInv
<1>4. CASE ReadTenant
  <2>1. OneGrant(e)'
    BY <1>4 DEF ReadTenant, Load, OneErp, Goto, TypeOK, OneGrant, Thread
  <2>2. Numbered(e)'
    BY <1>4 DEF ReadTenant, Load, OneErp, TypeOK, Numbered, Thread
  <2>3. SavesAlone(e)' /\ ReadCurrent(e)'
    BY <1>1, <1>4 DEF LoopStep, ReadTenant, Load, Goto, TypeOK, SavesAlone, ReadCurrent,
                      Saving, Thread
  <2>4. GoodInHand(e)' /\ GoodOnDisk(e)'
    BY <1>1, <1>4 DEF LoopStep, ReadTenant, Load, Goto, TypeOK, GoodInHand, GoodOnDisk,
                      Good, Saving, Thread
  <2> QED
    BY <2>1, <2>2, <2>3, <2>4 DEF SingleInv
<1>5. CASE Respond
  <2>1. OneGrant(e)'
    BY <1>5, EmptyTyped DEF Respond, Park, OneErp, Goto, TypeOK, OneGrant,
                            Thread, Empty
  <2>2. Numbered(e)'
    BY <1>5 DEF Respond, Park, OneErp, TypeOK, Numbered, Thread, Empty,
                NoEntry, NoToken
  <2>3. SavesAlone(e)' /\ ReadCurrent(e)'
    BY <1>1, <1>5 DEF LoopStep, Respond, Park, Goto, TypeOK, SavesAlone, ReadCurrent,
                      Saving, Thread
  <2>4. GoodInHand(e)' /\ GoodOnDisk(e)'
    BY <1>1, <1>5 DEF LoopStep, Respond, Park, Goto, TypeOK, GoodInHand, GoodOnDisk,
                      Good, Saving, Thread
  <2> QED
    BY <2>1, <2>2, <2>3, <2>4 DEF SingleInv
<1> QED
  BY <1>2, <1>3, <1>4, <1>5 DEF LoopStep

\* Requests, checks of the background loop, set-ups, logins and callbacks.
LEMMA SingleUser ==
    ASSUME NEW e, SingleCase(e),
           Request(e) \/ BgCheck(e) \/ Setup(e) \/ Login(e) \/ SaveLogin(e)
    PROVE  SingleInv(e)'
<1> USE DEF files, provider, accounts, locals, history
<1> SUFFICES ASSUME OneErp(e), TypeOK, LockInv, OneGrant(e), Numbered(e),
                    SavesAlone(e), ReadCurrent(e), GoodInHand(e),
                    GoodOnDisk(e), Unrefreshed(e), registry' = registry,
                    legacy' = legacy, taint' = taint, now' = now
             PROVE  SingleInv(e)'
  BY DEF SingleCase, SingleInv, Request, BgCheck, Setup, Login, SaveLogin
<1> USE DEF Whole
<1>1. Loaded' = Loaded /\ FromLegacy' = FromLegacy /\ NeedsLegacy' = NeedsLegacy
  BY DEF Loaded, FromLegacy, NeedsLegacy
<1>2. e \in ERP /\ Loaded[e] = IF e = LegacyErp /\ registry[e] = NoEntry
                               THEN FromLegacy ELSE registry[e]
  BY LoadedSingle DEF OneErp, TypeOK
<1>3. CASE Request(e)
  <2>1. OneGrant(e)' /\ Numbered(e)'
    BY <1>2, <1>3 DEF Request, Load, Goto, TypeOK, OneGrant, Numbered, Thread
  <2>2. SavesAlone(e)' /\ ReadCurrent(e)'
    BY <1>1, <1>3 DEF Request, Load, Goto, TypeOK, SavesAlone, ReadCurrent,
                      Saving, Thread
  <2>3. GoodInHand(e)' /\ GoodOnDisk(e)'
    BY <1>1, <1>3 DEF Request, Load, Goto, TypeOK, GoodInHand, GoodOnDisk,
                      Good, Saving, Thread
  <2> QED
    BY <2>1, <2>2, <2>3 DEF SingleInv
<1>4. CASE BgCheck(e)
  <2>1. Loaded[e] # NoEntry /\ Loaded[e].refresh.id <= issued[e]
    BY <1>2, <1>4, LegacyTokens DEF BgCheck, Numbered, NoEntry
  <2>2. registry[e] # NoEntry \/ legacy # NoEntry
    BY <1>2, <2>1, LegacyTokens
  <2>3. OneGrant(e)' /\ Numbered(e)'
    BY <1>4, <2>1, <2>2 DEF BgCheck, Goto, TypeOK, OneGrant, Numbered, Thread
  <2>4. SavesAlone(e)' /\ ReadCurrent(e)'
    BY <1>1, <1>4 DEF BgCheck, Goto, TypeOK, SavesAlone, ReadCurrent,
                      Saving, Thread
  <2>5. GoodInHand(e)' /\ GoodOnDisk(e)'
    BY <1>1, <1>4 DEF BgCheck, Goto, TypeOK, GoodInHand, GoodOnDisk,
                      Good, Saving, Thread
  <2> QED
    BY <2>3, <2>4, <2>5 DEF SingleInv
<1>5. CASE Setup(e)
  BY <1>1, <1>5 DEF Setup, OneGrant, Numbered, SavesAlone, ReadCurrent,
                    GoodInHand, GoodOnDisk, Good, SingleInv
<1>6. CASE Login(e)
  <2> DEFINE new == Grant(e, logins[e] + 1)
  <2>1. logins[e] = 0 /\ issued[e] = 0 /\ pending[e] = NoEntry
    <3>1. logins[e] < MaxLogins /\ MaxLogins \in Nat /\ MaxLogins <= 1
          /\ logins[e] \in Nat
      BY <1>2, <1>6, TokenManagerAssumption DEF Login, OneErp, TypeOK
    <3>2. logins[e] = 0
      BY <3>1
    <3> QED
      BY <3>2 DEF OneGrant
  <2>2. PICK refresh \in {new, NoToken}, tenant \in {new.login, 0} :
          /\ Issue(e, {refresh} \ {NoToken}, {})
          /\ pending' = [pending EXCEPT ![e] =
                           [access |-> new, refresh |-> refresh,
                            savedAt |-> now, tenant |-> tenant]]
    BY <1>6 DEF Login
  <2>3. /\ new.id = issued[e] + 1 /\ logins'[e] = logins[e] + 1
        /\ issued'[e] = issued[e] + 1 /\ live[e] = {}
        /\ live'[e] = {refresh} \ {NoToken}
        /\ pending'[e].refresh = refresh /\ pending'[e].access = new
        /\ NoToken.id = 0
    <3>1. live[e] = {}
      BY <2>1 DEF Unrefreshed
    <3>2. new.id = issued[e] + 1 /\ logins'[e] = logins[e] + 1
      BY <1>2, <1>6 DEF Login, Grant, TypeOK
    <3> HIDE DEF new
    <3> QED
      BY <1>2, <2>2, <3>1, <3>2 DEF Issue, TypeOK, NoToken
  <2> HIDE DEF new
  <2>4. pending'[e] # NoEntry
    BY <2>1, <2>3 DEF NoEntry, NoToken
  <2>5. refresh.id <= 1 /\ (refresh = new \/ refresh = NoToken)
        /\ refresh.id \in Nat
    BY <2>1, <2>2, <2>3
  <2>6. OneGrant(e)'
    BY <1>2, <1>6, <2>1, <2>3 DEF Login, OneGrant, TypeOK
  <2>7. Numbered(e)'
    <3>1. /\ registry[e] = NoEntry /\ legacy = NoEntry
          /\ \A t \in Thread : hand[t].refresh.id = 0 /\ seen[t][e] = NoEntry
          /\ NoEntry.refresh.id = 0 /\ taint[e] <= 0
      BY <1>2, <2>1 DEF OneGrant, Numbered, TypeOK, Entry, Token, NoEntry,
                        NoToken
    <3>2. \A token \in live'[e] : token.id > 0
      BY <2>1, <2>3, <2>5
    <3>3. taint[e] \in Nat
      BY <1>2 DEF TypeOK
    <3>4. Whole(e, pending[e])'
      BY <2>1, <2>3, <2>5
    <3> QED
      BY <1>2, <1>6, <2>1, <2>3, <2>5, <3>1, <3>2, <3>3, <3>4
         DEF Login, Numbered
  <2>8. SavesAlone(e)' /\ ReadCurrent(e)'
    BY <1>1, <1>6 DEF Login, SavesAlone, ReadCurrent
  <2>9. GoodInHand(e)' /\ GoodOnDisk(e)'
    <3>1. Good(e, pending[e].refresh)'
      <4>1. taint'[e] \in Nat
        BY <1>2 DEF TypeOK
      <4> QED
        BY <2>3, <2>5, <4>1 DEF Good
    <3>2. \A t \in Thread : pc'[t] \notin {"exchange"} \cup Saving
      BY <1>6, <2>1 DEF Login, OneGrant, Saving
    <3> QED
      BY <2>4, <3>1, <3>2 DEF GoodInHand, GoodOnDisk, Saving
  <2> QED
    BY <2>6, <2>7, <2>8, <2>9 DEF SingleInv
<1>7. CASE SaveLogin(e)
  <2>1. \A t \in Thread : pc[t] \in {"idle", "decide", "tenant", "respond"}
    BY <1>7 DEF SaveLogin, OneGrant
  <2>2. pc["worker"] = "idle"
    BY <1>7 DEF SaveLogin, OneGrant
  <2>3. OneGrant(e)'
    BY <1>2, <1>7 DEF SaveLogin, Load, Goto, TypeOK, OneGrant, Thread
  <2>4. Numbered(e)'
    BY <1>2, <1>7 DEF SaveLogin, Load, TypeOK, Numbered, NoEntry, NoToken,
                      Thread
  <2>5. SavesAlone(e)' /\ ReadCurrent(e)'
    BY <1>1, <1>7, <2>1, <2>2
       DEF SaveLogin, Load, Goto, TypeOK, SavesAlone, ReadCurrent, Saving,
           Thread
  <2>6. GoodInHand(e)' /\ GoodOnDisk(e)'
    BY <1>1, <1>2, <1>7, <2>1
       DEF SaveLogin, Load, Goto, TypeOK, GoodInHand, GoodOnDisk, Numbered,
           Good, Saving, Thread
  <2> QED
    BY <2>3, <2>4, <2>5, <2>6 DEF SingleInv
<1> QED
  BY <1>3, <1>4, <1>5, <1>6, <1>7

\* A crash frees both threads and blames every token issued so far.
LEMMA SingleCrash ==
    ASSUME NEW e, SingleCase(e), Crash
    PROVE  SingleInv(e)'
<1> USE DEF files, provider, accounts, locals, history
<1> USE DEF Whole
<1>1. /\ OneErp(e) /\ TypeOK /\ OneGrant(e) /\ Numbered(e)
      /\ registry' = registry /\ legacy' = legacy /\ taint' = issued
      /\ live' = live /\ issued' = issued /\ e \in ERP /\ now' = now
  BY DEF SingleCase, SingleInv, Crash, OneErp
<1>2. Loaded'[e] = IF e = LegacyErp /\ registry[e] = NoEntry
                   THEN FromLegacy ELSE registry[e]
  BY <1>1, LoadedSingle DEF Loaded, FromLegacy, NeedsLegacy, OneErp, TypeOK
<1>3. OneGrant(e)' /\ Numbered(e)'
  <2>1. /\ \A t \in Thread : seen'[t][e] = NoEntry /\ hand'[t] = NoEntry
        /\ pending'[e] = NoEntry /\ pc' = [t \in Thread |-> "idle"]
        /\ logins' = logins
    BY <1>1 DEF Crash, Empty
  <2>2. OneGrant(e)'
    BY <1>1, <2>1 DEF OneGrant, Thread
  <2>3. NoEntry.refresh.id = 0 /\ issued[e] \in Nat
    BY <1>1 DEF NoEntry, NoToken, TypeOK
  <2>4. Numbered(e)'
    BY <1>1, <2>1, <2>3 DEF Numbered
  <2> QED
    BY <2>2, <2>4
<1>4. SavesAlone(e)' /\ ReadCurrent(e)'
  BY DEF Crash, SavesAlone, ReadCurrent, Saving
<1>5. Loaded'[e].refresh.id <= issued[e]
  BY <1>1, <1>2, LegacyTokens DEF Numbered
<1>6. GoodInHand(e)' /\ GoodOnDisk(e)'
  BY <1>1, <1>5 DEF Crash, GoodInHand, GoodOnDisk, Good, Saving, TypeOK
<1> QED
  BY <1>3, <1>4, <1>6 DEF SingleInv

\* What leaving a refresh or a save does to the threads.
Left(t) ==
    /\ pc'[t] \in {"idle", "tenant"}
    /\ hand'[t] \in {hand[t], NoEntry} /\ seen'[t] \in {seen[t], Empty}
    /\ \A u \in Thread \ {t} :
         pc'[u] = pc[u] /\ hand'[u] = hand[u] /\ seen'[u] = seen[u]

LEMMA LeftByReturn ==
    ASSUME TypeOK, NEW t \in Thread, Return(t) \/ Finish(t)
    PROVE  Left(t)
<1>1. Park(t) => Left(t)
  BY DEF Park, Goto, Left, TypeOK
<1>2. Return(t) => Left(t)
  BY <1>1 DEF Return, Goto, Left, TypeOK
<1> QED
  BY <1>1, <1>2 DEF Finish

\* Reading under the lock, and leaving it when somebody else refreshed.
LEMMA SingleRead ==
    ASSUME NEW e, SingleCase(e), NEW t \in Thread,
           ReadLegacy(t) \/ Acquire(t) \/ Recheck(t)
    PROVE  SingleInv(e)'
<1> USE DEF files, provider, accounts, locals, history
<1> SUFFICES ASSUME OneErp(e), TypeOK, LockInv, OneGrant(e), Numbered(e),
                    SavesAlone(e), ReadCurrent(e), GoodInHand(e),
                    GoodOnDisk(e), Unrefreshed(e), registry' = registry,
                    legacy' = legacy, live' = live, issued' = issued,
                    taint' = taint, now' = now
             PROVE  SingleInv(e)'
  BY DEF SingleCase, SingleInv, ReadLegacy, Acquire, Recheck
<1> USE DEF Whole
<1>1. Loaded' = Loaded /\ FromLegacy' = FromLegacy /\ NeedsLegacy' = NeedsLegacy
  BY DEF Loaded, FromLegacy, NeedsLegacy
<1>2. e \in ERP /\ erp[t] = e
      /\ Loaded[e] = IF e = LegacyErp /\ registry[e] = NoEntry
                     THEN FromLegacy ELSE registry[e]
  BY LoadedSingle DEF OneErp, TypeOK
<1>3. CASE ReadLegacy(t)
  <2>1. \/ seen'[t][e] = seen[t][e]
        \/ seen'[t][e] = FromLegacy /\ e = LegacyErp
    BY <1>2, <1>3 DEF ReadLegacy, TypeOK
  <2>2. FromLegacy.refresh = legacy.refresh
        /\ (legacy = NoEntry => FromLegacy = NoEntry)
    BY LegacyTokens
  <2>3. OneGrant(e)' /\ Numbered(e)'
    BY <1>3, <2>1, <2>2 DEF ReadLegacy, TypeOK, OneGrant, Numbered
  <2>4. SavesAlone(e)'
    BY <1>3 DEF ReadLegacy, SavesAlone
  <2>5. ReadCurrent(e)'
    <3>1. pc[t] = "recheck" => seen'[t][e] = Loaded[e]
      BY <1>2, <1>3 DEF ReadLegacy, ReadCurrent, NeedsLegacy, TypeOK
    <3> QED
      BY <1>1, <1>3, <3>1 DEF ReadLegacy, ReadCurrent, TypeOK
  <2>6. GoodInHand(e)' /\ GoodOnDisk(e)'
    <3>1. pc[t] \notin {"flush", "mirror"}
      BY <1>3 DEF ReadLegacy, ReadCurrent
    <3> QED
      BY <1>1, <1>3, <3>1
         DEF ReadLegacy, TypeOK, GoodInHand, GoodOnDisk, Good, Saving
  <2> QED
    BY <2>3, <2>4, <2>5, <2>6 DEF SingleInv
<1>4. CASE Acquire(t)
  <2>1. OneGrant(e)' /\ Numbered(e)'
    BY <1>2, <1>4 DEF Acquire, Load, Goto, TypeOK, OneGrant, Numbered
  <2>2. SavesAlone(e)'
    BY <1>2, <1>4 DEF Acquire, Goto, TypeOK, SavesAlone, Saving, Thread
  <2>3. ReadCurrent(e)'
    BY <1>1, <1>2, <1>4 DEF Acquire, Load, Goto, TypeOK, ReadCurrent,
                            NeedsLegacy, OneErp
  <2>4. GoodInHand(e)' /\ GoodOnDisk(e)'
    BY <1>1, <1>4 DEF Acquire, Load, Goto, TypeOK, GoodInHand, GoodOnDisk,
                      Good, Saving
  <2> QED
    BY <2>1, <2>2, <2>3, <2>4 DEF SingleInv
<1>5. CASE Recheck(t)
  <2> DEFINE latest == seen[t][erp[t]]
  <2>1. /\ latest = Loaded[e] /\ latest \in Entry
        /\ \A u \in Thread : pc[u] \notin Saving
        /\ pending[e] = NoEntry
    <3>1. pc[t] = "recheck" /\ ~half[t]
      BY <1>5 DEF Recheck
    <3>2. latest = Loaded[e] /\ latest \in Entry
      BY <1>2, <3>1 DEF ReadCurrent, TypeOK
    <3> QED
      BY <3>1, <3>2, Alone DEF Saving
  <2>2. /\ Good(e, latest.refresh)
        /\ live[e] # {} /\ latest = NoEntry => issued[e] <= taint[e]
    BY <2>1 DEF GoodOnDisk
  <2>3. /\ pc'[t] \in {"idle", "tenant", "exchange"}
        /\ \A u \in Thread \ {t} :
             pc'[u] = pc[u] /\ hand'[u] = hand[u] /\ seen'[u] = seen[u]
        /\ seen'[t] \in {seen[t], Empty}
    BY <1>5 DEF Recheck, Park, Goto, TypeOK
  <2>4. /\ hand'[t].refresh \in {hand[t].refresh, latest.refresh, NoToken}
        /\ pc'[t] = "exchange" => Good(e, hand'[t].refresh)
    <3>1. CASE /\ hand' = [hand EXCEPT ![t] = latest] /\ Goto(t, "tenant")
      BY <3>1 DEF Goto, TypeOK
    <3>2. CASE Park(t)
      BY <3>2 DEF Park, Goto, TypeOK, NoEntry
    <3>3. CASE latest = NoEntry /\ UNCHANGED hand
      <4>1. /\ hand[t].refresh.id <= issued[e] /\ hand[t].refresh.id \in Nat
            /\ issued[e] \in Nat /\ taint[e] \in Nat
        BY <1>2 DEF Numbered, TypeOK, Entry, Token
      <4>2. CASE live[e] = {}
        BY <3>3, <4>1, <4>2 DEF Unrefreshed, Good, NoToken
      <4>3. CASE live[e] # {}
        BY <2>2, <3>3, <4>1, <4>3 DEF Good
      <4> QED
        BY <4>2, <4>3
    <3>4. CASE hand' = [hand EXCEPT ![t].refresh = latest.refresh]
      <4>1. hand'[t].refresh = latest.refresh
        BY <3>4 DEF TypeOK, Entry
      <4> QED
        BY <2>2, <4>1
    <3> QED
      BY <1>5, <3>1, <3>2, <3>3, <3>4, Zenon DEF Recheck
  <2>5. OneGrant(e)'
    BY <1>5, <2>1 DEF Recheck, OneGrant
  <2>6. Numbered(e)'
    <3>1. NoToken.id = 0 /\ Empty[e].refresh = NoToken /\ issued[e] \in Nat
      BY <1>2 DEF NoToken, Empty, NoEntry, TypeOK
    <3>2. latest.refresh.id <= issued[e]
      BY <1>2 DEF Numbered
    <3> HIDE DEF latest
    <3>3. \A u \in Thread : hand'[u].refresh.id <= issued[e]
                           /\ seen'[u][e].refresh.id <= issued[e]
      BY <2>3, <2>4, <3>1, <3>2 DEF Numbered
    <3> QED
      BY <1>5, <3>3 DEF Recheck, Numbered
  <2>7. SavesAlone(e)' /\ ReadCurrent(e)'
    <3>1. \A u \in Thread : pc'[u] \notin Saving
                          /\ (pc'[u] = "recheck" => pc[u] = "recheck" /\ u # t)
      BY <2>1, <2>3 DEF Saving
    <3> QED
      BY <1>1, <1>5, <2>3, <3>1 DEF Recheck, SavesAlone, ReadCurrent
  <2>8. GoodInHand(e)' /\ GoodOnDisk(e)'
    <3>1. \A u \in Thread : pc'[u] \notin Saving
      BY <2>1, <2>3 DEF Saving
    <3>2. \A u \in Thread : pc'[u] = "exchange" => Good(e, hand'[u].refresh)
      BY <2>3, <2>4 DEF GoodInHand
    <3>3. pending'[e] = NoEntry
      BY <1>5, <2>1 DEF Recheck
    <3> QED
      BY <1>1, <2>1, <2>2, <3>1, <3>2, <3>3
         DEF GoodInHand, GoodOnDisk, Good, Saving
  <2> QED
    BY <2>5, <2>6, <2>7, <2>8 DEF SingleInv
<1> QED
  BY <1>3, <1>4, <1>5

\* The end of a refresh or of a save, whatever it left behind: the invariant
\* holds when the files and the good tokens are in order.
LEMMA SingleLeave ==
    ASSUME NEW e, SingleCase(e), NEW t \in Thread,
           pc[t] \in {"exchange"} \cup Saving, Left(t),
           UNCHANGED <<accounts, half>>,
           e \in ERP, issued'[e] \in Nat, issued'[e] >= issued[e],
           taint'[e] <= issued'[e],
           \A token \in live'[e] : token.id > 0,
           registry'[e].refresh.id <= issued'[e],
           legacy'.refresh.id <= issued'[e],
           Whole(e, registry[e])', Whole(e, legacy)',
           \A u \in Thread : ~overlap'[u],
           Good(e, Loaded[e].refresh)',
           (live[e] # {} /\ Loaded[e] = NoEntry => issued[e] <= taint[e])'
    PROVE  SingleInv(e)'
<1> USE DEF Whole
<1>1. /\ TypeOK /\ OneGrant(e) /\ Numbered(e) /\ ReadCurrent(e)
      /\ GoodInHand(e)
  BY DEF SingleCase, SingleInv
<1>2. /\ pending[e] = NoEntry /\ pending'[e] = NoEntry /\ logins' = logins
      /\ \A u \in Thread : pc'[u] \notin {"recheck", "exchange"} \cup Saving
  BY Alone DEF Left, accounts, Saving
<1>3. logins[e] # 0
  BY <1>1 DEF OneGrant, Saving
<1>4. OneGrant(e)'
  BY <1>1, <1>2, <1>3 DEF OneGrant, TypeOK
<1>5. Numbered(e)'
  <2>1. NoEntry.refresh.id = 0 /\ Empty[e].refresh.id = 0
    BY DEF NoEntry, NoToken, Empty
  <2>2. \A u \in Thread : hand'[u].refresh.id <= issued'[e]
                        /\ seen'[u][e].refresh.id <= issued'[e]
    <3>1. ASSUME NEW u \in Thread
          PROVE  /\ hand'[u] \in {hand[u], NoEntry}
                 /\ seen'[u] \in {seen[u], Empty}
      BY DEF Left
    <3>2. ASSUME NEW u \in Thread
          PROVE  /\ hand[u].refresh.id \in Nat /\ seen[u][e].refresh.id \in Nat
                 /\ hand[u].refresh.id <= issued[e]
                 /\ seen[u][e].refresh.id <= issued[e]
      BY <1>1 DEF Numbered, TypeOK, Entry, Token
    <3>3. issued[e] \in Nat
      BY <1>1 DEF TypeOK
    <3> QED
      BY <3>1, <3>2, <3>3, <2>1
  <2> QED
    BY <1>2, <2>1, <2>2 DEF Numbered
<1>6. SavesAlone(e)' /\ ReadCurrent(e)'
  BY <1>2 DEF SavesAlone, ReadCurrent, Saving
<1>7. GoodInHand(e)' /\ GoodOnDisk(e)'
  BY <1>2 DEF GoodInHand, GoodOnDisk, Saving
<1> QED
  BY <1>4, <1>5, <1>6, <1>7 DEF SingleInv

\* The exchange with the ERP, each of its outcomes.
LEMMA SingleExchange ==
    ASSUME NEW e, SingleCase(e), NEW t \in Thread, Exchange(t)
    PROVE  SingleInv(e)'
<1> USE DEF files, provider, accounts, locals, history, Whole
<1>1. /\ OneErp(e) /\ TypeOK /\ LockInv /\ OneGrant(e) /\ Numbered(e)
      /\ SavesAlone(e) /\ ReadCurrent(e) /\ GoodInHand(e) /\ GoodOnDisk(e)
      /\ e \in ERP /\ pc[t] = "exchange" /\ now' = now
  BY DEF SingleCase, SingleInv, OneErp, Exchange, Refresh, Refused,
         Unreachable, LostResponse, Fail
<1>2. /\ erp[t] = e /\ pending[e] = NoEntry
      /\ \A u \in Thread \ {t} :
           pc[u] \notin {"recheck", "exchange"} \cup Saving
  BY <1>1, Alone
<1>3. Loaded[e] = IF e = LegacyErp /\ registry[e] = NoEntry
                  THEN FromLegacy ELSE registry[e]
  BY <1>1, LoadedSingle DEF TypeOK
<1>4. UNCHANGED files => Loaded' = Loaded /\ FromLegacy' = FromLegacy
  BY <1>1 DEF Loaded, FromLegacy, NeedsLegacy
<1> DEFINE old == hand[t].refresh
           new == Grant(e, old.login)
<1>5. /\ old \in Token /\ new \in Token /\ new.id = issued[e] + 1
      /\ issued[e] \in Nat /\ logins[e] \in Nat /\ old.id <= issued[e]
  BY <1>1, <1>2, GrantTyped DEF TypeOK, Entry, Token, Grant, Numbered
<1>6. CASE Refresh(t)
  <2>0. old \in live[e]
    BY <1>2, <1>6 DEF Refresh
  <2>1. /\ old \in live[e] /\ issued'[e] = issued[e] + 1
        /\ \/ live'[e] = (live[e] \ {old}) \cup {new} /\ hand'[t].refresh = new
           \/ live'[e] = live[e] /\ hand'[t].refresh = old
        /\ \A u \in Thread \ {t} : hand'[u] = hand[u]
    <3>1. CASE /\ Issue(e, {new}, {old})
               /\ hand' = [hand EXCEPT ![t] = [NoEntry EXCEPT
                                !.access = new, !.refresh = new]]
      <4> HIDE DEF old, new
      <4> QED
        BY <1>1, <3>1, <2>0 DEF Issue, TypeOK, NoEntry
    <3>2. CASE /\ Issue(e, {}, {})
               /\ hand' = [hand EXCEPT ![t] = [NoEntry EXCEPT
                                !.access = new, !.refresh = old]]
      <4> HIDE DEF old, new
      <4> QED
        BY <1>1, <3>2, <2>0 DEF Issue, TypeOK, NoEntry
    <3> QED
      BY <1>2, <1>6, <3>1, <3>2 DEF Refresh
  <2> HIDE DEF old, new
  <2>2. /\ pc'[t] = "open"
        /\ \A u \in Thread \ {t} : pc'[u] = pc[u]
        /\ \A u \in Thread : seen'[u] \in {seen[u], registry}
        /\ UNCHANGED <<accounts, registry, legacy, lock, erp, overlap, taint>>
        /\ \A u \in Thread \ {t} : half'[u] = half[u]
    BY <1>1, <1>6 DEF Refresh, Load, Goto, TypeOK
  <2>3. hand'[t].refresh \in live'[e] /\ hand'[t].refresh.id > 0
        /\ hand'[t].refresh.id <= issued'[e]
    BY <1>1, <1>5, <2>1 DEF Numbered, TypeOK, Token
  <2>4. OneGrant(e)'
    BY <1>1, <1>5, <2>1, <2>2 DEF OneGrant
  <2>5. Numbered(e)'
    <3>1. \A token \in live'[e] : token.id > 0
      BY <1>1, <1>5, <2>1 DEF Numbered
    <3>2. ASSUME NEW x \in Nat, x <= issued[e]
          PROVE  x <= issued'[e]
      BY <1>5, <2>1, <3>2
    <3>3. /\ taint[e] \in Nat /\ registry[e].refresh.id \in Nat
          /\ legacy.refresh.id \in Nat /\ pending[e].refresh.id \in Nat
          /\ \A u \in Thread : /\ hand[u].refresh.id \in Nat
                               /\ seen[u][e].refresh.id \in Nat
      BY <1>1 DEF TypeOK, Entry, Token
    <3>4. /\ taint'[e] <= issued'[e] /\ registry'[e].refresh.id <= issued'[e]
          /\ legacy'.refresh.id <= issued'[e]
          /\ pending'[e].refresh.id <= issued'[e]
      BY <1>1, <2>2, <3>2, <3>3 DEF Numbered
    <3>5. \A u \in Thread : hand'[u].refresh.id <= issued'[e]
                          /\ seen'[u][e].refresh.id <= issued'[e]
      BY <1>1, <2>1, <2>2, <2>3, <3>2, <3>3 DEF Numbered
    <3>6. Whole(e, registry[e])' /\ Whole(e, legacy)' /\ Whole(e, pending[e])'
      BY <1>1, <2>1, <2>2 DEF Numbered
    <3> QED
      BY <1>1, <2>2, <3>1, <3>4, <3>5, <3>6 DEF Numbered
  <2>6. SavesAlone(e)'
    BY <1>1, <1>2, <2>2 DEF SavesAlone, LockInv, Saving
  <2>7. ReadCurrent(e)'
    BY <1>2, <2>2 DEF ReadCurrent, Saving
  <2>8. GoodInHand(e)' /\ GoodOnDisk(e)'
    BY <1>2, <2>2, <2>3 DEF GoodInHand, GoodOnDisk, Good, Saving
  <2> QED
    BY <2>4, <2>5, <2>6, <2>7, <2>8 DEF SingleInv
<1>7. CASE Refused(t) \/ Unreachable(t)
  <2>1. /\ Left(t)
        /\ UNCHANGED <<accounts, half, files, provider, overlap, taint>>
    BY <1>1, <1>7, LeftByReturn DEF Refused, Unreachable, Fail
  <2>2. \A u \in Thread : pc[u] \notin Saving
    BY <1>1, <1>2 DEF Saving
  <2>3. /\ Good(e, Loaded[e].refresh)'
        /\ (live[e] # {} /\ Loaded[e] = NoEntry => issued[e] <= taint[e])'
    BY <1>1, <1>2, <1>4, <2>1, <2>2 DEF GoodOnDisk, Good
  <2> QED
    BY <1>1, <1>5, <2>1, <2>3, SingleLeave DEF Numbered, SavesAlone
<1>8. CASE LostResponse(t)
  <2>1. Left(t) /\ UNCHANGED <<accounts, half, files, overlap>>
    BY <1>1, <1>8, LeftByReturn DEF LostResponse, Fail
  <2>2. /\ issued'[e] = issued[e] + 1 /\ taint'[e] = issued[e] + 1
        /\ live'[e] = (live[e] \ {old}) \cup {new} /\ live[e] # {}
    BY <1>1, <1>2, <1>8 DEF LostResponse, Issue, TypeOK
  <2> HIDE DEF old, new
  <2>3. \A token \in live'[e] : token.id > 0
    BY <1>1, <1>5, <2>2 DEF Numbered
  <2>4. /\ registry[e].refresh.id \in Nat /\ legacy.refresh.id \in Nat
        /\ registry[e].refresh.id <= issued[e] /\ legacy.refresh.id <= issued[e]
        /\ FromLegacy.refresh = legacy.refresh
    BY <1>1, LegacyTokens DEF Numbered, TypeOK, Entry, Token
  <2>5. /\ Good(e, Loaded[e].refresh)'
        /\ (live[e] # {} /\ Loaded[e] = NoEntry => issued[e] <= taint[e])'
    BY <1>3, <1>4, <1>5, <2>1, <2>2, <2>4 DEF Good
  <2> QED
    BY <1>1, <1>5, <2>1, <2>2, <2>3, <2>4, <2>5, SingleLeave
       DEF Numbered, SavesAlone
<1> QED
  BY <1>6, <1>7, <1>8 DEF Exchange

\* A save writes the refresh token it brings.
LEMMA MergedRefresh ==
    ASSUME NEW e, SingleCase(e), NEW t \in Thread, pc[t] \in Saving
    PROVE  Merged(t).refresh = hand[t].refresh
<1>1. TypeOK /\ Unrefreshed(e) /\ GoodInHand(e) /\ e \in ERP /\ erp[t] = e
  BY DEF SingleCase, SingleInv, OneErp, TypeOK
<1>2. \/ Merged(t).refresh = hand[t].refresh
      \/ /\ Merged(t).refresh = seen[t][e].refresh
         /\ hand[t].refresh = NoToken
  BY <1>1 DEF Merged, TypeOK, Entry
<1>3. hand[t].refresh = NoToken => seen[t][e].refresh = NoToken
  BY <1>1 DEF Unrefreshed, GoodInHand, NoToken
<1> QED
  BY <1>2, <1>3

\* The steps of save_tokens.
LEMMA SingleSave ==
    ASSUME NEW e, SingleCase(e), NEW t \in Thread,
           Open(t) \/ Flush(t) \/ FlushMirror(t) \/ SaveFails(t)
    PROVE  SingleInv(e)'
<1> USE DEF files, provider, accounts, locals, history, Whole
<1>1. /\ OneErp(e) /\ TypeOK /\ LockInv /\ OneGrant(e) /\ Numbered(e)
      /\ SavesAlone(e) /\ ReadCurrent(e) /\ GoodInHand(e) /\ GoodOnDisk(e)
      /\ e \in ERP /\ pc[t] \in Saving
  BY DEF SingleCase, SingleInv, OneErp, Open, Flush, FlushMirror, SaveFails,
         Saving
<1>2. /\ erp[t] = e /\ pending[e] = NoEntry /\ logins[e] # 0
      /\ \A u \in Thread \ {t} :
           pc[u] \notin {"recheck", "exchange"} \cup Saving
  BY <1>1, Alone DEF OneGrant, Saving
<1>3. /\ Good(e, hand[t].refresh)
      /\ live[e] # {} => hand[t].refresh.id > 0
      /\ hand[t].refresh.id <= issued[e]
  BY <1>1 DEF GoodInHand, Numbered
<1>4. /\ NoEntry.refresh.id = 0 /\ issued[e] \in Nat /\ taint[e] <= issued[e]
      /\ \A token \in live[e] : token.id > 0
      /\ \A u \in Thread : ~overlap[u]
  BY <1>1 DEF NoEntry, NoToken, TypeOK, Numbered, SavesAlone
<1>5. /\ Loaded'[e].refresh = (IF e = LegacyErp /\ registry'[e] = NoEntry
                               THEN legacy'.refresh ELSE registry'[e].refresh)
      /\ Loaded'[e] = NoEntry => registry'[e] = NoEntry
  <2>1. TypeOK'
    BY <1>1, NextTyped DEF Next, Step
  <2>2. FromLegacy'.refresh = legacy'.refresh
    BY <2>1 DEF FromLegacy, TypeOK, Entry
  <2> QED
    BY <1>1, <2>1, <2>2 DEF Loaded, NeedsLegacy, OneErp, TypeOK
<1>6. CASE Open(t)
  <2>1. /\ pc'[t] = "flush" /\ ~half'[t] /\ registry'[e] = NoEntry
        /\ \A u \in Thread \ {t} : pc'[u] = pc[u] /\ seen'[u] = seen[u]
        /\ UNCHANGED <<legacy, lock, live, issued, pending, logins, erp, half,
                       hand, overlap, taint>>
    BY <1>1, <1>6 DEF Open, Goto, TypeOK, Empty
  <2>2. seen'[t][e].refresh = hand[t].refresh
    <3>1. Merged(t).refresh = hand[t].refresh
      BY <1>1, MergedRefresh
    <3> QED
      BY <1>1, <1>2, <1>6, <3>1 DEF Open, TypeOK
  <2>3. OneGrant(e)'
    BY <1>1, <1>2, <2>1 DEF OneGrant
  <2>4. Numbered(e)'
    BY <1>1, <1>3, <1>4, <2>1, <2>2 DEF Numbered
  <2>5. SavesAlone(e)' /\ ReadCurrent(e)'
    <3>1. pc'["worker"] = "idle" \/ lock[e] = t \/ t # "loop"
      BY <1>1, <2>1 DEF SavesAlone, Thread
    <3> QED
      BY <1>1, <1>2, <2>1, <3>1 DEF SavesAlone, ReadCurrent, Saving, Thread
  <2>6. GoodInHand(e)' /\ GoodOnDisk(e)'
    BY <1>2, <1>3, <2>1, <2>2 DEF GoodInHand, GoodOnDisk, Good, Saving
  <2> QED
    BY <2>3, <2>4, <2>5, <2>6 DEF SingleInv
<1>7. CASE Flush(t)
  <2>1. /\ registry'[e] = seen[t][e] /\ seen[t][e].refresh = hand[t].refresh
        /\ live[e] # {} => seen[t][e] # NoEntry
    BY <1>1, <1>3, <1>4, <1>7 DEF Flush, Landed, GoodInHand
  <2>2. /\ \A u \in Thread : ~overlap'[u]
        /\ UNCHANGED <<accounts, half, live, issued, taint>>
    BY <1>2, <1>4, <1>7 DEF Flush, Collide, Saving
  <2>3. CASE e = LegacyErp
    <3>1. /\ pc'[t] = "mirror" /\ legacy' = NoEntry
          /\ \A u \in Thread \ {t} : pc'[u] = pc[u]
          /\ UNCHANGED <<lock, seen, hand, erp>>
      BY <1>1, <1>2, <1>7, <2>3 DEF Flush, Goto, TypeOK
    <3>2. OneGrant(e)'
      BY <1>1, <1>2, <2>2, <3>1 DEF OneGrant
    <3>3. Numbered(e)'
      BY <1>1, <1>3, <1>4, <2>1, <2>2, <3>1 DEF Numbered
    <3>4. SavesAlone(e)' /\ ReadCurrent(e)'
      <4>1. pc'["worker"] = "idle" \/ lock[e] = t \/ t # "loop"
        BY <1>1, <3>1 DEF SavesAlone, Thread
      <4>2. ~half[t]
        BY <1>1, <1>7 DEF Flush, ReadCurrent
      <4> QED
        BY <1>1, <1>2, <2>2, <3>1, <4>1, <4>2
           DEF SavesAlone, ReadCurrent, Saving, Thread
    <3>5. GoodInHand(e)' /\ GoodOnDisk(e)'
      BY <1>2, <1>3, <2>1, <2>2, <3>1
         DEF GoodInHand, GoodOnDisk, Good, Saving
    <3> QED
      BY <3>2, <3>3, <3>4, <3>5 DEF SingleInv
  <2>4. CASE e # LegacyErp
    <3>1. Left(t) /\ legacy' = legacy
      BY <1>1, <1>2, <1>7, <2>4, LeftByReturn DEF Flush
    <3>2. /\ Loaded'[e].refresh = seen[t][e].refresh
          /\ Loaded'[e] = NoEntry => seen[t][e] = NoEntry
      BY <1>5, <2>1, <2>4
    <3>3. Good(e, Loaded[e].refresh)'
          /\ (live[e] # {} /\ Loaded[e] = NoEntry => issued[e] <= taint[e])'
      BY <1>3, <2>1, <2>2, <3>2 DEF Good
    <3> QED
      BY <1>1, <1>3, <1>4, <2>1, <2>2, <3>1, <3>3, SingleLeave DEF Numbered
  <2> QED
    BY <2>3, <2>4
<1>8. CASE FlushMirror(t)
  <2>1. /\ legacy' = seen[t][e] /\ registry' = registry
        /\ registry[e] = seen[t][e]
        /\ seen[t][e].refresh = hand[t].refresh
        /\ live[e] # {} => seen[t][e] # NoEntry
    BY <1>1, <1>2, <1>3, <1>4, <1>8 DEF FlushMirror, Landed, GoodInHand
  <2>2. /\ \A u \in Thread : ~overlap'[u]
        /\ UNCHANGED <<accounts, half, live, issued, taint>>
    BY <1>2, <1>4, <1>8 DEF FlushMirror, Collide, Saving
  <2>3. Left(t)
    BY <1>1, <1>8, LeftByReturn DEF FlushMirror
  <2>4. Good(e, Loaded[e].refresh)'
        /\ (live[e] # {} /\ Loaded[e] = NoEntry => issued[e] <= taint[e])'
    BY <1>3, <1>5, <2>1, <2>2 DEF Good
  <2> QED
    BY <1>1, <1>3, <1>4, <2>1, <2>2, <2>3, <2>4, SingleLeave DEF Numbered
<1>9. CASE SaveFails(t)
  <2>1. /\ Left(t) /\ UNCHANGED <<accounts, half, files, live, issued>>
        /\ taint' = issued /\ \A u \in Thread : ~overlap'[u]
    BY <1>1, <1>4, <1>9, LeftByReturn DEF SaveFails, TypeOK
  <2>2. /\ registry[e].refresh.id <= issued[e]
        /\ legacy.refresh.id <= issued[e]
    BY <1>1 DEF Numbered
  <2>3. Good(e, Loaded[e].refresh)'
        /\ (live[e] # {} /\ Loaded[e] = NoEntry => issued[e] <= taint[e])'
    BY <1>4, <1>5, <2>1, <2>2 DEF Good
  <2> QED
    BY <1>1, <1>3, <1>4, <2>1, <2>3, SingleLeave DEF Numbered
<1> QED
  BY <1>6, <1>7, <1>8, <1>9

\* The entry of the one ERP when the process first starts, and where it is.
LEMMA InitEntry ==
    ASSUME NEW e, OneErp(e), Init
    PROVE  /\ live[e] = (IF e \in Seeded THEN {Seed} ELSE {})
           /\ \E entry \in Entry :
                /\ \/ registry[e] = entry /\ legacy = NoEntry
                   \/ registry[e] = NoEntry /\ legacy = entry /\ e = LegacyErp
                /\ e \in Seeded => /\ entry.refresh = Seed
                                  /\ entry.access # NoToken /\ entry # NoEntry
                /\ e \notin Seeded => entry = NoEntry
<1>1. e \in ERP /\ (LegacyErp \in ERP => LegacyErp = e)
  BY DEF OneErp
<1>2. live[e] = (IF e \in Seeded THEN {Seed} ELSE {})
  BY <1>1, InitFiles
<1>3. \E dated \in BOOLEAN :
         \/ registry[e] = SeedEntry(e, dated) /\ legacy = NoEntry
         \/ registry[e] = NoEntry /\ legacy = SeedEntry(e, dated)
            /\ e = LegacyErp
  <2>1. CASE legacy = NoEntry /\ registry = [f \in ERP |-> SeedEntry(f, TRUE)]
    BY <1>1, <2>1
  <2>2. CASE /\ LegacyErp \in ERP
             /\ \E dated \in BOOLEAN : legacy = SeedEntry(LegacyErp, dated)
             /\ registry = [[f \in ERP |-> SeedEntry(f, TRUE)]
                              EXCEPT ![LegacyErp] = NoEntry]
    BY <1>1, <2>2
  <2> QED
    BY <2>1, <2>2, InitFiles
<1> QED
  BY <1>2, <1>3, SeedTyped

LEMMA SingleInit ==
    ASSUME NEW e, OneErp(e), Init
    PROVE  SingleInv(e) /\ Unrefreshed(e)
<1> USE DEF Whole
<1>1. /\ e \in ERP /\ TypeOK
      /\ \A t \in Thread : /\ pc[t] = "idle" /\ seen[t][e] = NoEntry
                           /\ hand[t] = NoEntry /\ ~overlap[t]
      /\ pending[e] = NoEntry /\ taint[e] = 0
      /\ issued[e] = (IF e \in Seeded THEN 1 ELSE 0) /\ logins = issued
      /\ live[e] = (IF e \in Seeded THEN {Seed} ELSE {})
  BY InitTyped, InitEntry DEF Init, OneErp, Empty
<1>3. PICK entry : /\ \/ registry[e] = entry /\ legacy = NoEntry
                      \/ registry[e] = NoEntry /\ legacy = entry /\ e = LegacyErp
                   /\ e \in Seeded => entry.refresh = Seed /\ entry # NoEntry
                   /\ e \notin Seeded => entry = NoEntry
  BY InitEntry
<1>4. NoEntry.refresh = NoToken /\ NoToken.id = 0 /\ Seed.id = 1
  BY DEF NoEntry, NoToken, Seed
<1>5. Loaded[e] = IF e = LegacyErp /\ registry[e] = NoEntry
                  THEN FromLegacy ELSE registry[e]
  BY <1>1, LoadedSingle DEF TypeOK
<1>6. FromLegacy.refresh = legacy.refresh
  BY <1>1, LegacyTokens
<1>7. OneGrant(e)
  BY <1>1, <1>3 DEF OneGrant, Thread
<1>8. Numbered(e)
  BY <1>1, <1>3, <1>4 DEF Numbered, TypeOK
<1>9. SavesAlone(e) /\ ReadCurrent(e) /\ GoodInHand(e)
  BY <1>1 DEF SavesAlone, ReadCurrent, GoodInHand, Saving
<1>10. GoodOnDisk(e)
  <2>1. CASE e \in Seeded
    <3>1. Loaded[e].refresh = Seed
      BY <1>3, <1>4, <1>5, <1>6, <2>1
    <3> QED
      BY <1>1, <1>4, <2>1, <3>1 DEF GoodOnDisk, Good
  <2>2. CASE e \notin Seeded
    BY <1>1, <1>3, <1>4, <1>5, <1>6, <2>2 DEF GoodOnDisk, Good
  <2> QED
    BY <2>1, <2>2
<1>11. Unrefreshed(e)
  BY <1>1, <1>3, <1>4 DEF Unrefreshed
<1> QED
  BY <1>7, <1>8, <1>9, <1>10, <1>11 DEF SingleInv

\* Without a refresh token from the login, none ever comes.
LEMMA NextUnrefreshed ==
    ASSUME NEW e, OneErp(e), TypeOK, Unrefreshed(e), [Next]_vars
    PROVE  Unrefreshed(e)'
<1> USE DEF files, provider, accounts, locals, history
<1>1. /\ e \in ERP /\ NoEntry.refresh = NoToken /\ Empty[e] = NoEntry
      /\ FromLegacy.refresh = legacy.refresh
      /\ \A t \in Thread : erp[t] = e
      /\ \A t \in Thread : hand[t] \in Entry /\ seen[t] \in [ERP -> Entry]
      /\ Loaded[e].refresh \in {registry[e].refresh, legacy.refresh}
  <2>1. e \in ERP /\ FromLegacy.refresh = legacy.refresh
    BY LegacyTokens DEF OneErp
  <2>2. Loaded[e] \in {registry[e], FromLegacy}
    BY <2>1 DEF Loaded, NeedsLegacy, TypeOK
  <2> QED
    BY <2>1, <2>2 DEF OneErp, TypeOK, NoEntry, Empty
<1>2. ASSUME live' = live, logins' = logins,
             live[e] = {} =>
               /\ registry'[e].refresh = NoToken /\ legacy'.refresh = NoToken
               /\ pending'[e].refresh = NoToken
               /\ \A t \in Thread : /\ hand'[t].refresh = NoToken
                                    /\ seen'[t][e].refresh = NoToken
      PROVE  Unrefreshed(e)'
  BY <1>2 DEF Unrefreshed
<1>3. CASE Tick \/ Setup(e)
  BY <1>3 DEF Tick, Setup, Unrefreshed
<1>4. CASE LoopStep
  <2>1. live[e] = {} =>
          \A t \in Thread : /\ hand'[t].refresh = NoToken
                            /\ seen'[t][e].refresh = NoToken
    BY <1>1, <1>4 DEF LoopStep, Decide, ReadTenant, Respond, Park, Load,
                      Unrefreshed, TypeOK
  <2> QED
    BY <1>2, <1>4, <2>1 DEF LoopStep, Decide, ReadTenant, Respond, Unrefreshed
<1>5. CASE Crash
  BY <1>1, <1>2, <1>5 DEF Crash, Unrefreshed
<1>6. CASE Request(e) \/ BgCheck(e) \/ SaveLogin(e)
  <2>1. live[e] = {} =>
          \A t \in Thread : /\ hand'[t].refresh = NoToken
                            /\ seen'[t][e].refresh = NoToken
    BY <1>1, <1>6 DEF Request, BgCheck, SaveLogin, Load, Unrefreshed, TypeOK
  <2>2. live[e] = {} => pending'[e].refresh = NoToken
    BY <1>1, <1>6 DEF Request, BgCheck, SaveLogin, Unrefreshed, TypeOK
  <2> QED
    BY <1>2, <1>6, <2>1, <2>2 DEF Request, BgCheck, SaveLogin, Unrefreshed
<1>7. CASE Login(e)
  <2> DEFINE new == Grant(e, logins[e] + 1)
  <2>1. PICK refresh \in {new, NoToken}, tenant \in {new.login, 0} :
          /\ Issue(e, {refresh} \ {NoToken}, {})
          /\ pending' = [pending EXCEPT ![e] =
                           [access |-> new, refresh |-> refresh,
                            savedAt |-> now, tenant |-> tenant]]
    BY <1>7 DEF Login
  <2> HIDE DEF new
  <2>2. /\ live'[e] = live[e] \cup ({refresh} \ {NoToken})
        /\ pending'[e].refresh = refresh /\ logins'[e] = logins[e] + 1
        /\ logins[e] \in Nat
    BY <1>1, <1>7, <2>1 DEF Login, Issue, TypeOK
  <2>3. CASE refresh = NoToken
    BY <1>7, <2>2, <2>3 DEF Login, Unrefreshed
  <2>4. CASE refresh # NoToken
    BY <2>2, <2>4 DEF Unrefreshed
  <2> QED
    BY <2>3, <2>4
<1>8. ASSUME NEW t \in Thread, ReadLegacy(t) \/ Acquire(t) \/ Recheck(t)
      PROVE  Unrefreshed(e)'
  <2>1. live[e] = {} =>
          \A u \in Thread : /\ hand'[u].refresh = NoToken
                            /\ seen'[u][e].refresh = NoToken
    <3> SUFFICES ASSUME live[e] = {}, NEW u \in Thread
                 PROVE  hand'[u].refresh = NoToken /\ seen'[u][e].refresh = NoToken
      OBVIOUS
    <3>1. \A v \in Thread : hand[v].refresh = NoToken
                            /\ seen[v][e].refresh = NoToken
      BY DEF Unrefreshed
    <3>2. CASE ReadLegacy(t) \/ Acquire(t)
      <4>1. hand' = hand /\ seen'[u][e].refresh \in {seen[u][e].refresh,
                              registry[e].refresh, FromLegacy.refresh}
        <5>1. CASE ReadLegacy(t)
          <6>1. seen'[u] \in {seen[u], [seen[u] EXCEPT ![LegacyErp] = FromLegacy]}
            BY <1>1, <5>1 DEF ReadLegacy, TypeOK
          <6>2. seen[u] \in [ERP -> Entry]
            BY <1>1
          <6>3. seen'[u][e] \in {seen[u][e], FromLegacy}
            BY <1>1, <6>1, <6>2
          <6> QED
            BY <5>1, <6>3 DEF ReadLegacy
        <5>2. CASE Acquire(t)
          <6>1. seen'[u] \in {seen[u], registry}
            BY <1>1, <5>2 DEF Acquire, Load, TypeOK
          <6> QED
            BY <5>2, <6>1 DEF Acquire
        <5> QED
          BY <3>2, <5>1, <5>2
      <4>2. registry[e].refresh = NoToken /\ legacy.refresh = NoToken
        BY DEF Unrefreshed
      <4> QED
        BY <1>1, <3>1, <4>1, <4>2
    <3>3. CASE Recheck(t)
      <4>1. hand'[u].refresh \in {hand[u].refresh, seen[t][e].refresh, NoToken}
        <5> DEFINE latest == seen[t][e]
        <5>1. \/ UNCHANGED hand
              \/ hand' = [hand EXCEPT ![t] = latest]
              \/ hand' = [hand EXCEPT ![t] = NoEntry]
              \/ hand' = [hand EXCEPT ![t].refresh = latest.refresh]
          BY <1>1, <3>3, Zenon DEF Recheck, Park
        <5> HIDE DEF latest
        <5>2. ASSUME hand' = [hand EXCEPT ![t].refresh = latest.refresh]
              PROVE  hand'[u].refresh \in {hand[u].refresh, latest.refresh}
          BY <1>1, <5>2 DEF Entry
        <5>3. ASSUME \/ UNCHANGED hand
                     \/ hand' = [hand EXCEPT ![t] = latest]
                     \/ hand' = [hand EXCEPT ![t] = NoEntry]
              PROVE  hand'[u] \in {hand[u], latest, NoEntry}
          BY <5>3 DEF TypeOK
        <5> QED
          BY <1>1, <5>1, <5>2, <5>3 DEF latest
      <4>2. seen'[u] \in {seen[u], Empty}
        BY <1>1, <3>3 DEF Recheck, Park, TypeOK
      <4> QED
        BY <1>1, <3>1, <4>1, <4>2
    <3> QED
      BY <1>8, <3>2, <3>3
  <2> QED
    BY <1>2, <1>8, <2>1 DEF ReadLegacy, Acquire, Recheck, Unrefreshed
<1>9. ASSUME NEW t \in Thread, Refresh(t) \/ LostResponse(t)
      PROVE  Unrefreshed(e)'
  <2> DEFINE old == hand[t].refresh
             new == Grant(erp[t], old.login)
  <2>1. logins' = logins /\ old \in live[e]
    BY <1>1, <1>9 DEF Refresh, LostResponse, Fail
  <2>2. Issue(e, {new}, {old}) \/ Issue(e, {}, {})
    BY <1>1, <1>9 DEF Refresh, LostResponse
  <2> HIDE DEF old, new
  <2>3. live'[e] # {}
    <3>1. live \in [ERP -> SUBSET Token] /\ e \in ERP
      BY <1>1 DEF TypeOK
    <3>2. CASE Issue(e, {new}, {old})
      <4>1. live'[e] = (live[e] \ {old}) \cup {new}
        BY <3>1, <3>2 DEF Issue
      <4> QED
        BY <4>1
    <3>3. CASE Issue(e, {}, {})
      <4>1. live'[e] = live[e] \cup {}
        BY <3>1, <3>3 DEF Issue
      <4> QED
        BY <2>1, <4>1
    <3> QED
      BY <2>2, <3>2, <3>3
  <2> QED
    BY <2>1, <2>3 DEF Unrefreshed
<1>10. ASSUME NEW t \in Thread, Left(t), UNCHANGED <<live, logins, pending>>,
              live[e] = {} => registry'[e].refresh = NoToken
                              /\ legacy'.refresh = NoToken
       PROVE  Unrefreshed(e)'
  BY <1>1, <1>10 DEF Left, Unrefreshed
<1>11. ASSUME NEW t \in Thread, Refused(t) \/ Unreachable(t)
       PROVE  Unrefreshed(e)'
  BY <1>10, <1>11, LeftByReturn DEF Refused, Unreachable, Fail, Unrefreshed
<1>12. ASSUME NEW t \in Thread, Open(t)
       PROVE  Unrefreshed(e)'
  <2>1. Merged(t).refresh \in {hand[t].refresh, seen[t][e].refresh}
    BY <1>1 DEF Merged, Entry
  <2>2. \A u \in Thread : seen'[u][e] \in {seen[u][e], Merged(t)}
                          /\ (u # t => seen'[u][e] = seen[u][e])
    BY <1>1, <1>12 DEF Open, TypeOK
  <2> QED
    BY <1>1, <1>2, <1>12, <2>1, <2>2 DEF Open, Unrefreshed
<1>13. ASSUME NEW t \in Thread, Flush(t) \/ FlushMirror(t) \/ SaveFails(t)
       PROVE  Unrefreshed(e)'
  <2>1. live[e] = {} => registry'[e].refresh = NoToken
                        /\ legacy'.refresh = NoToken
    BY <1>1, <1>13 DEF Flush, FlushMirror, SaveFails, Landed, Unrefreshed
  <2>2. UNCHANGED <<live, logins, pending>>
    BY <1>13 DEF Flush, FlushMirror, SaveFails
  <2>3. \/ Left(t)
        \/ UNCHANGED <<seen, hand>>
    BY <1>13, LeftByReturn DEF Flush, FlushMirror, SaveFails
  <2> QED
    BY <1>2, <1>10, <2>1, <2>2, <2>3 DEF Unrefreshed
<1>14. CASE UNCHANGED vars
  BY <1>14 DEF vars, Unrefreshed
<1>15. \A f \in ERP : f = e
  BY DEF OneErp
<1> QED
  BY <1>3, <1>4, <1>5, <1>6, <1>7, <1>8, <1>9, <1>11, <1>12, <1>13, <1>14,
     <1>15 DEF Next, Step, Exchange

LEMMA NextSingle ==
    ASSUME NEW e, SingleCase(e), [Next]_vars
    PROVE  SingleInv(e)'
<1>1. CASE UNCHANGED vars
  <2>1. Loaded' = Loaded /\ NeedsLegacy' = NeedsLegacy
    BY <1>1 DEF vars, files, Loaded, NeedsLegacy, FromLegacy
  <2> QED
    BY <1>1, <2>1
       DEF vars, files, provider, accounts, locals, history, SingleCase,
           SingleInv, OneGrant, Numbered, Whole, SavesAlone, ReadCurrent,
           GoodInHand, GoodOnDisk, Good
<1>2. CASE Next
  <2>1. \A f \in ERP : f = e
    BY DEF SingleCase, OneErp
  <2> QED
    BY <1>2, <2>1, SingleLoop, SingleUser, SingleCrash, SingleRead,
       SingleExchange, SingleSave DEF Next, Step
<1> QED
  BY <1>1, <1>2

LEMMA Single ==
    ASSUME NEW CONSTANT e, OneErp(e)
    PROVE  Safe => [](Unrefreshed(e) /\ SingleInv(e))
<1> DEFINE Inv == Unrefreshed(e) /\ SingleInv(e)
<1>1. Init => Inv
  BY SingleInit
<1>2. TypeOK /\ LockInv /\ Inv /\ [Next]_vars => Inv'
  BY NextSingle, NextUnrefreshed DEF SingleCase
<1> QED
  BY <1>1, <1>2, TypeCorrect, Locked, PTL DEF Safe

\* With one ERP connected once, no refresh token is redeemed twice, whatever
\* requests, background refreshes, faults and restarts do.
THEOREM SingleReplayFree ==
    ASSUME NEW CONSTANT e, OneErp(e)
    PROVE  Safe => []ReplayFree
<1>1. TypeOK /\ SingleInv(e) => ReplayFree
  BY DEF OneErp, TypeOK, SingleInv, GoodInHand, Good, Saving, ReplayFree
<1> QED
  BY <1>1, Single, TypeCorrect, PTL

\* With one ERP connected once, the disk holds a usable refresh token
\* whenever no save is under way, until a fault.
THEOREM SingleStoredUsable ==
    ASSUME NEW CONSTANT e, OneErp(e)
    PROVE  Safe => []StoredUsable
<1>1. ASSUME TypeOK, Unrefreshed(e), SingleInv(e)
      PROVE  StoredUsable
  <2> SUFFICES ASSUME \A t \in Thread : pc[t] \notin Saving,
                      live[e] # {}, pending[e] = NoEntry, taint[e] = 0
               PROVE  Loaded[e].refresh \in live[e]
    BY DEF OneErp, StoredUsable, Saved, Saving
  <2>1. Good(e, Loaded[e].refresh) /\ (Loaded[e] = NoEntry => issued[e] <= 0)
    BY <1>1 DEF SingleInv, GoodOnDisk
  <2>2. Loaded[e] # NoEntry
    BY <1>1, <2>1 DEF SingleInv, Unrefreshed, OneGrant, OneErp, TypeOK
  <2>3. Loaded[e].refresh.id > 0 /\ Loaded[e].refresh.id \in Nat
    <3>1. e \in ERP /\ Loaded[e] = IF e = LegacyErp /\ registry[e] = NoEntry
                                    THEN FromLegacy ELSE registry[e]
      BY <1>1, LoadedSingle DEF OneErp, TypeOK
    <3>2. FromLegacy.refresh = legacy.refresh
          /\ (legacy = NoEntry => FromLegacy = NoEntry)
      BY <1>1, LegacyTokens
    <3>3. Numbered(e)
      BY <1>1 DEF SingleInv
    <3> QED
      BY <1>1, <2>2, <3>1, <3>2, <3>3 DEF Numbered, Whole, TypeOK, Entry, Token
  <2> QED
    BY <2>1, <2>3 DEF Good
<1> QED
  BY <1>1, Single, TypeCorrect, PTL

-----------------------------------------------------------------------------
(***************************************************************************)
(* The connection of the one ERP.  SingleInv forgives every token issued   *)
(* before a fault, so it does not say where a usable token is after one.   *)
(* LinkInv does.  The ERP accepts one refresh token at most.  A login or a *)
(* save in progress has it in hand.  A thread that may yet send it got it  *)
(* from the disk, which has it still unless the disk has nothing at all:   *)
(* so a thread that drops its token for the one on disk loses nothing.     *)
(***************************************************************************)
\* At most one token is accepted, none before the login.
OneLive(e) ==
    /\ \A x, y \in live[e] : x = y
    /\ logins[e] = 0 => live[e] = {}

\* Where the ERP accepts a refresh token, those still to be saved are.
LiveInHand(e) ==
    live[e] # {} =>
      /\ pending[e] # NoEntry => pending[e].refresh \in live[e]
      /\ \A t \in Thread : pc[t] \in Saving => hand[t].refresh \in live[e]

\* Only the legacy ERP has a legacy file, which repeats what the registry has
\* of it or stands in for the registry.
Mirrored(e) ==
    /\ legacy # NoEntry =>
         /\ e = LegacyErp
         /\ registry[e] # NoEntry => legacy.refresh = registry[e].refresh
    /\ \A t \in Thread : pc[t] = "mirror" => e = LegacyErp

\* A thread on its way to the legacy file has read nothing yet, and only a
\* request reads outside the lock.
Halfway(e) ==
    /\ \A t \in Thread : half[t] => seen[t][e] = NoEntry
    /\ pc["worker"] \notin {"decide", "tenant", "respond"}

\* Refresh tokens come with access tokens.
Paired(entry) == entry.refresh # NoToken => entry.access # NoToken
AllPaired(e) ==
    /\ Paired(registry[e]) /\ Paired(legacy) /\ Paired(pending[e])
    /\ \A t \in Thread : /\ Paired(seen[t][e])
                         /\ pc[t] \in Saving => Paired(hand[t])

\* What a thread may yet send to the ERP.
Holds(e, t, token) ==
    \/ pc[t] = "decide" /\ token = seen[t][e].refresh
    \/ pc[t] \in {"lock", "recheck", "exchange"} /\ token = hand[t].refresh

\* A disk that is not empty has the usable token, if a thread has it.
DiskFollows(e) ==
    \A t \in Thread, token \in live[e] :
        Holds(e, t, token) =>
            Loaded[e] = NoEntry \/ Loaded[e].refresh \in live[e]

LinkInv(e) ==
    /\ OneLive(e) /\ LiveInHand(e) /\ Mirrored(e) /\ Halfway(e) /\ AllPaired(e)
    /\ DiskFollows(e)

LinkCase(e) == SingleCase(e) /\ LinkInv(e)

\* The first login: the ERP accepts its token and no other.
LEMMA LoggedIn ==
    ASSUME NEW e, LinkCase(e), Login(e)
    PROVE  /\ logins[e] = 0 /\ logins'[e] = 1 /\ live[e] = {}
           /\ \E new \in Token, refresh \in Token :
                /\ new.id > 0 /\ pending'[e].access = new
                /\ pending'[e].refresh = refresh
                /\ \/ live'[e] = {new} /\ refresh = new
                   \/ live'[e] = {} /\ refresh = NoToken
<1>1. TypeOK /\ OneErp(e) /\ e \in ERP /\ OneLive(e)
  BY DEF LinkCase, SingleCase, LinkInv, OneErp
<1> DEFINE new == Grant(e, logins[e] + 1)
<1>2. new \in Token /\ new.id > 0 /\ NoToken \in Token /\ new # NoToken
  BY <1>1, GrantTyped, EmptyTyped DEF TypeOK, Grant, NoToken
<1>3. logins[e] = 0
  <2>1. logins[e] < MaxLogins /\ MaxLogins \in Nat /\ MaxLogins <= 1
        /\ logins[e] \in Nat
    BY <1>1, TokenManagerAssumption DEF Login, OneErp, TypeOK
  <2> QED
    BY <2>1
<1>4. live[e] = {} /\ logins'[e] = logins[e] + 1
  BY <1>1, <1>3 DEF Login, OneLive, TypeOK
<1>5. PICK refresh \in {new, NoToken}, tenant \in {new.login, 0} :
        /\ Issue(e, {refresh} \ {NoToken}, {})
        /\ pending' = [pending EXCEPT ![e] =
                         [access |-> new, refresh |-> refresh,
                          savedAt |-> now, tenant |-> tenant]]
  BY DEF Login
<1> HIDE DEF new
<1>6. /\ live'[e] = {refresh} \ {NoToken}
      /\ pending'[e].refresh = refresh /\ pending'[e].access = new
  BY <1>1, <1>4, <1>5 DEF Issue, TypeOK
<1> QED
  BY <1>2, <1>3, <1>4, <1>5, <1>6

\* An exchange the ERP carried out: it accepts the new token and no other, or,
\* when it answered without one, still the token that was sent.
LEMMA Redeemed ==
    ASSUME NEW e, LinkCase(e), NEW t \in Thread, Refresh(t) \/ LostResponse(t)
    PROVE  /\ UNCHANGED logins /\ live[e] = {hand[t].refresh}
           /\ \/ /\ Refresh(t) /\ live' = live
                 /\ hand'[t].refresh = hand[t].refresh
              \/ \E new \in Token :
                   /\ new.id = issued[e] + 1 /\ live'[e] = {new}
                   /\ Refresh(t) => hand'[t].refresh = new
           /\ Refresh(t) => hand'[t].refresh \in live'[e]
           /\ Refresh(t) => hand'[t].access.id = issued[e] + 1
<1>1. TypeOK /\ OneErp(e) /\ OneLive(e) /\ e \in ERP
      /\ erp \in [Thread -> {e}]
  BY DEF LinkCase, SingleCase, LinkInv, OneErp, TypeOK
<1> DEFINE old == hand[t].refresh
           new == Grant(e, old.login)
<1>2. erp[t] = e /\ old \in live[e] /\ old \in Token /\ new \in Token
      /\ new.id = issued[e] + 1 /\ new.id \in Nat
  BY <1>1, GrantTyped
     DEF Refresh, LostResponse, TypeOK, Entry, Token, Grant
<1>3. live[e] = {old}
  BY <1>1, <1>2 DEF OneLive
<1>4. UNCHANGED logins
  BY DEF Refresh, LostResponse, Fail, accounts
<1>5. CASE LostResponse(t)
  <2>1. live'[e] = (live[e] \ {old}) \cup {new}
    BY <1>1, <1>2, <1>5 DEF LostResponse, Issue, TypeOK
  <2>2. ~Refresh(t)
    BY <1>1, <1>5
       DEF LostResponse, Refresh, Fail, TypeOK, history
  <2> QED
    BY <1>2, <1>3, <1>4, <2>1, <2>2
<1>6. CASE Refresh(t)
  <2>1. CASE /\ Issue(e, {new}, {old})
             /\ hand' = [hand EXCEPT ![t] = [NoEntry EXCEPT
                              !.access = new, !.refresh = new]]
    <3>1. live'[e] = (live[e] \ {old}) \cup {new} /\ hand'[t].refresh = new
          /\ hand'[t].access = new
      <4> HIDE DEF old, new
      <4> QED
        BY <1>1, <2>1 DEF Issue, TypeOK, NoEntry
    <3> QED
      BY <1>2, <1>3, <1>4, <3>1
  <2>2. CASE /\ Issue(e, {}, {})
             /\ hand' = [hand EXCEPT ![t] = [NoEntry EXCEPT
                              !.access = new, !.refresh = old]]
    <3>1. live' = live /\ hand'[t].refresh = old /\ hand'[t].access = new
      <4> HIDE DEF old, new
      <4> QED
        BY <1>1, <2>2 DEF Issue, TypeOK, NoEntry
    <3> QED
      BY <1>2, <1>3, <1>4, <1>6, <3>1
  <2> QED
    BY <1>2, <1>6, <2>1, <2>2 DEF Refresh
<1> QED
  BY <1>5, <1>6

\* Nothing else changes what the ERP accepts.
LEMMA LiveSteps ==
    ASSUME NEW e, LinkCase(e), [Next]_vars
    PROVE  \/ UNCHANGED <<live, issued, logins>> \/ Login(e)
           \/ \E t \in Thread : Refresh(t) \/ LostResponse(t)
<1> USE DEF files, provider, accounts, locals, history
<1>1. CASE UNCHANGED vars \/ Tick \/ LoopStep \/ Crash
  BY <1>1 DEF vars, Tick, LoopStep, Decide, ReadTenant, Respond, Crash
<1>2. ASSUME NEW t \in Thread, Step(t), ~Refresh(t), ~LostResponse(t)
      PROVE  UNCHANGED <<live, issued, logins>>
  BY <1>2 DEF Step, ReadLegacy, Acquire, Recheck, Exchange, Refused,
              Unreachable, Fail, Open, Flush, FlushMirror, SaveFails
<1>3. CASE Request(e) \/ BgCheck(e) \/ Setup(e) \/ SaveLogin(e)
  BY <1>3 DEF Request, BgCheck, Setup, SaveLogin
<1> QED
  BY <1>1, <1>2, <1>3 DEF Next, LinkCase, SingleCase, OneErp

LEMMA OneLiveStep ==
    ASSUME NEW e, LinkCase(e), [Next]_vars
    PROVE  OneLive(e)'
BY LiveSteps, LoggedIn, Redeemed DEF OneLive, LinkCase, LinkInv

\* A thread is moved by its own steps, by the loop's other work or by a crash.
LEMMA OwnSteps ==
    ASSUME NEW e, LinkCase(e), [Next]_vars, NEW t \in Thread
    PROVE  \/ UNCHANGED <<pc[t], hand[t], seen[t]>>
           \/ Step(t) \/ Crash
           \/ t = "loop" /\ (LoopStep \/ Request(e) \/ SaveLogin(e))
           \/ t = "worker" /\ BgCheck(e)
<1> USE DEF files, provider, accounts, locals, history
<1>1. TypeOK /\ OneErp(e) /\ e \in ERP
  BY DEF LinkCase, SingleCase, OneErp
<1>2. CASE UNCHANGED vars \/ Tick
  BY <1>2 DEF vars, Tick
<1>3. CASE LoopStep
  BY <1>1, <1>3
     DEF LoopStep, Decide, ReadTenant, Respond, Load, Park, Goto, TypeOK
<1>4. CASE Request(e) \/ BgCheck(e) \/ Setup(e) \/ Login(e) \/ SaveLogin(e)
  BY <1>1, <1>4
     DEF Request, BgCheck, Setup, Login, SaveLogin, Load, Goto, TypeOK, Thread
<1>5. ASSUME NEW u \in Thread, Step(u), u # t
      PROVE  UNCHANGED <<pc[t], hand[t], seen[t]>>
  <2>1. CASE Return(u) \/ Finish(u)
    BY <1>1, <1>5, <2>1, LeftByReturn DEF Left
  <2>2. CASE ReadLegacy(u) \/ Acquire(u) \/ Open(u)
    BY <1>1, <1>5, <2>2 DEF ReadLegacy, Acquire, Open, Load, Goto, TypeOK
  <2>3. CASE Recheck(u)
    BY <1>1, <1>5, <2>3 DEF Recheck, Park, Goto, TypeOK
  <2>4. CASE Refresh(u)
    BY <1>1, <1>5, <2>4 DEF Refresh, Load, Goto, TypeOK
  <2>5. CASE Flush(u) /\ ~Finish(u)
    BY <1>1, <1>5, <2>5 DEF Flush, Goto, TypeOK
  <2> QED
    BY <1>5, <2>1, <2>2, <2>3, <2>4, <2>5
       DEF Step, Exchange, Refused, Unreachable, LostResponse, Fail,
           FlushMirror, SaveFails
<1> QED
  BY <1>1, <1>2, <1>3, <1>4, <1>5 DEF Next, OneErp

\* Who saves, and with what in hand.
LEMMA SavingSteps ==
    ASSUME NEW e, LinkCase(e), [Next]_vars, NEW t \in Thread, pc'[t] \in Saving
    PROVE  \/ /\ pc[t] \in Saving /\ hand'[t] = hand[t]
              /\ UNCHANGED <<live, issued>>
           \/ Refresh(t)
           \/ SaveLogin(e) /\ hand'[t] = pending[e] /\ pending[e] # NoEntry
<1> USE DEF provider
<1>1. TypeOK /\ OneErp(e) /\ e \in ERP /\ OneGrant(e)
  BY DEF LinkCase, SingleCase, SingleInv, OneErp
<1>2. CASE UNCHANGED <<pc[t], hand[t], seen[t]>>
  <2>1. pc[t] \in Saving /\ hand'[t] = hand[t]
    BY <1>2
  <2>2. ~Login(e)
    BY <1>1, <2>1, LoggedIn DEF OneGrant, Saving
  <2>3. \A u \in Thread : ~Refresh(u) /\ ~LostResponse(u)
    BY <2>1, Alone DEF LinkCase, Refresh, LostResponse, Saving
  <2> QED
    BY <2>1, <2>2, <2>3, LiveSteps
<1>3. CASE Step(t)
  <2>1. ~Return(t) /\ ~Finish(t)
    BY <1>1, LeftByReturn DEF Left, Saving
  <2>2. CASE Open(t) \/ Flush(t)
    BY <1>1, <2>1, <2>2 DEF Open, Flush, Saving
  <2>3. CASE Recheck(t) \/ Acquire(t) \/ ReadLegacy(t)
    BY <1>1, <2>3
       DEF Recheck, Acquire, ReadLegacy, Park, Goto, TypeOK, Saving
  <2> QED
    BY <1>3, <2>1, <2>2, <2>3
       DEF Step, Exchange, Refused, Unreachable, LostResponse, Fail,
           FlushMirror, SaveFails
<1>4. CASE t = "loop" /\ SaveLogin(e)
  BY <1>1, <1>4 DEF SaveLogin, TypeOK
<1>5. CASE \/ Crash
           \/ t = "loop" /\ (LoopStep \/ Request(e))
           \/ t = "worker" /\ BgCheck(e)
  BY <1>1, <1>5
     DEF Crash, LoopStep, Decide, ReadTenant, Respond, Park, Request, BgCheck,
         Goto, TypeOK, Saving
<1> QED
  BY <1>2, <1>3, <1>4, <1>5, OwnSteps

\* Who leaves tokens with a callback, and who takes them.
LEMMA PendingSteps ==
    ASSUME NEW e, LinkCase(e), [Next]_vars
    PROVE  \/ pending'[e] = pending[e] \/ Login(e)
           \/ pending'[e] = NoEntry /\ (SaveLogin(e) \/ Crash)
<1> USE DEF accounts
<1>1. TypeOK /\ OneErp(e) /\ e \in ERP
  BY DEF LinkCase, SingleCase, OneErp
<1>2. CASE UNCHANGED vars \/ Tick \/ LoopStep \/ Crash
  BY <1>1, <1>2 DEF vars, Tick, LoopStep, Decide, ReadTenant, Respond, Crash
<1>3. CASE Request(e) \/ BgCheck(e) \/ Setup(e) \/ SaveLogin(e)
  BY <1>1, <1>3 DEF Request, BgCheck, Setup, SaveLogin, TypeOK
<1>4. ASSUME NEW t \in Thread, Step(t)
      PROVE  pending' = pending
  BY <1>4 DEF Step, ReadLegacy, Acquire, Recheck, Exchange, Refresh, Refused,
              Unreachable, LostResponse, Fail, Open, Flush, FlushMirror,
              SaveFails
<1> QED
  BY <1>1, <1>2, <1>3, <1>4 DEF Next, OneErp

LEMMA LiveInHandStep ==
    ASSUME NEW e, LinkCase(e), [Next]_vars
    PROVE  LiveInHand(e)'
<1>1. TypeOK /\ OneErp(e) /\ e \in ERP /\ LiveInHand(e) /\ OneGrant(e)
  BY DEF LinkCase, SingleCase, SingleInv, LinkInv, OneErp
<1>2. ASSUME pending'[e] # NoEntry, live'[e] # {}
      PROVE  pending'[e].refresh \in live'[e]
  <2>1. CASE Login(e)
    <3>1. PICK new \in Token, refresh \in Token :
            /\ pending'[e].refresh = refresh
            /\ \/ live'[e] = {new} /\ refresh = new
               \/ live'[e] = {} /\ refresh = NoToken
      BY <2>1, LoggedIn
    <3> QED
      BY <1>2, <3>1
  <2>2. CASE ~Login(e)
    <3>1. pending'[e] = pending[e]
      BY <1>2, <2>2, PendingSteps
    <3>2. \A t \in Thread : pc[t] # "exchange"
      BY <1>2, <3>1, Alone DEF LinkCase
    <3>3. live' = live
      BY <2>2, <3>2, LiveSteps DEF Refresh, LostResponse
    <3> QED
      BY <1>1, <1>2, <3>1, <3>3 DEF LiveInHand
  <2> QED
    BY <2>1, <2>2
<1>3. ASSUME NEW t \in Thread, pc'[t] \in Saving, live'[e] # {}
      PROVE  hand'[t].refresh \in live'[e]
  <2>1. CASE /\ pc[t] \in Saving /\ hand'[t] = hand[t]
             /\ UNCHANGED <<live, issued>>
    BY <1>1, <1>3, <2>1 DEF LiveInHand
  <2>2. CASE Refresh(t)
    BY <2>2, Redeemed
  <2>3. CASE SaveLogin(e) /\ hand'[t] = pending[e] /\ pending[e] # NoEntry
    BY <1>1, <1>3, <2>3 DEF LiveInHand, SaveLogin, provider
  <2> QED
    BY <1>3, <2>1, <2>2, <2>3, SavingSteps
<1> QED
  BY <1>2, <1>3 DEF LiveInHand

LEMMA MirroredStep ==
    ASSUME NEW e, LinkCase(e), [Next]_vars
    PROVE  Mirrored(e)'
<1> USE DEF files, provider, accounts, locals, history
<1>1. /\ TypeOK /\ OneErp(e) /\ e \in ERP /\ Mirrored(e) /\ GoodInHand(e)
      /\ SavesAlone(e) /\ erp \in [Thread -> {e}]
  BY DEF LinkCase, SingleCase, SingleInv, LinkInv, OneErp, TypeOK
<1>2. ASSUME UNCHANGED files,
             \A t \in Thread : pc'[t] = "mirror" => pc[t] = "mirror"
      PROVE  Mirrored(e)'
  BY <1>1, <1>2 DEF Mirrored
<1>3. CASE UNCHANGED vars \/ Tick \/ LoopStep \/ Crash
  <2>1. \A t \in Thread : pc'[t] = "mirror" => pc[t] = "mirror"
    BY <1>1, <1>3 DEF vars, Tick, LoopStep, Decide, ReadTenant, Respond, Park,
                      Goto, Crash, TypeOK, Thread
  <2> QED
    BY <1>2, <1>3, <2>1
       DEF vars, Tick, LoopStep, Decide, ReadTenant, Respond, Crash
<1>4. CASE Request(e) \/ BgCheck(e) \/ Setup(e) \/ Login(e) \/ SaveLogin(e)
  BY <1>1, <1>2, <1>4
     DEF Request, BgCheck, Setup, Login, SaveLogin, Goto, TypeOK, Thread
<1>5. ASSUME NEW t \in Thread, Step(t)
      PROVE  Mirrored(e)'
  <2>1. CASE ReadLegacy(t) \/ Acquire(t) \/ Recheck(t) \/ Refresh(t)
    BY <1>1, <1>2, <2>1
       DEF ReadLegacy, Acquire, Recheck, Refresh, Park, Goto, TypeOK
  <2>2. CASE Refused(t) \/ Unreachable(t) \/ LostResponse(t) \/ SaveFails(t)
    BY <1>1, <1>2, <2>2, LeftByReturn
       DEF Refused, Unreachable, LostResponse, Fail, SaveFails, Left
  <2>3. CASE Open(t)
    BY <1>1, <2>3 DEF Open, Goto, TypeOK, Empty, Mirrored
  <2>4. CASE Flush(t)
    <3>1. CASE e = LegacyErp
      BY <1>1, <2>4, <3>1 DEF Flush, Mirrored
    <3>2. CASE e # LegacyErp
      BY <1>1, <2>4, <3>2, LeftByReturn DEF Flush, Left, Mirrored
    <3> QED
      BY <3>1, <3>2
  <2>5. CASE FlushMirror(t)
    <3>1. legacy' = seen[t][e] /\ registry' = registry
          /\ registry[e] = seen[t][e]
      BY <1>1, <2>5 DEF FlushMirror, Landed, SavesAlone, GoodInHand, Saving
    <3> QED
      BY <1>1, <2>5, <3>1, LeftByReturn DEF FlushMirror, Left, Mirrored
  <2> QED
    BY <1>5, <2>1, <2>2, <2>3, <2>4, <2>5 DEF Step, Exchange
<1> QED
  BY <1>1, <1>3, <1>4, <1>5 DEF Next, OneErp

LEMMA HalfwayStep ==
    ASSUME NEW e, LinkCase(e), [Next]_vars
    PROVE  Halfway(e)'
<1> USE DEF files, provider, accounts, locals, history
<1>1. /\ TypeOK /\ OneErp(e) /\ e \in ERP /\ Halfway(e) /\ ReadCurrent(e)
  BY DEF LinkCase, SingleCase, SingleInv, LinkInv, OneErp
<1>2. ASSUME NEW t \in Thread, Load(t)
      PROVE  \A u \in Thread : half'[u] => seen'[u][e] = NoEntry
  BY <1>1, <1>2 DEF Load, NeedsLegacy, OneErp, TypeOK, Halfway
<1>3. CASE UNCHANGED vars \/ Tick
  BY <1>1, <1>3 DEF vars, Tick, Halfway
<1>4. CASE LoopStep \/ Crash
  BY <1>1, <1>2, <1>4
     DEF LoopStep, Decide, ReadTenant, Respond, Park, Crash, Goto, TypeOK,
         Thread, Halfway, Empty
<1>5. CASE Request(e) \/ BgCheck(e) \/ Setup(e) \/ Login(e) \/ SaveLogin(e)
  BY <1>1, <1>2, <1>5
     DEF Request, BgCheck, Setup, Login, SaveLogin, Goto, TypeOK, Thread,
         Halfway
<1>6. ASSUME NEW t \in Thread, Step(t)
      PROVE  Halfway(e)'
  <2>1. t = "worker" => ~(pc'[t] \in {"decide", "tenant", "respond"})
    <3>1. CASE t = "worker" /\ (Return(t) \/ Finish(t))
      BY <1>1, <3>1 DEF Return, Finish, Park, Goto, TypeOK
    <3> QED
      BY <1>1, <1>6, <3>1
         DEF Halfway, Step, ReadLegacy, Acquire, Recheck, Exchange, Refresh,
             Refused, Unreachable, LostResponse, Fail, Open, Flush,
             FlushMirror, SaveFails, Park, Goto, TypeOK
  <2>2. \A u \in Thread \ {t} : pc'[u] = pc[u]
    <3>1. CASE Return(t) \/ Finish(t)
      BY <1>1, <3>1, LeftByReturn DEF Left
    <3> QED
      BY <1>1, <1>6, <3>1
         DEF Step, ReadLegacy, Acquire, Recheck, Exchange, Refresh,
             Refused, Unreachable, LostResponse, Fail, Open, Flush,
             FlushMirror, SaveFails, Park, Goto, TypeOK
  <2>3. \A u \in Thread : half'[u] => seen'[u][e] = NoEntry
    <3>1. CASE Left(t) /\ half' = half
      BY <1>1, <3>1 DEF Left, Halfway, Empty, TypeOK
    <3>2. CASE ReadLegacy(t) \/ Recheck(t) \/ Open(t)
      BY <1>1, <3>2 DEF ReadLegacy, Recheck, Open, Park, Halfway, Empty, TypeOK
    <3>3. CASE Acquire(t) \/ Refresh(t)
      BY <1>2, <3>3 DEF Acquire, Refresh
    <3>4. CASE Flush(t)
      BY <1>1, <3>1, <3>4, LeftByReturn DEF Flush, Halfway
    <3> QED
      BY <1>1, <1>6, <3>1, <3>2, <3>3, <3>4, LeftByReturn
         DEF Step, Exchange, Refused, Unreachable, LostResponse, Fail,
             FlushMirror, SaveFails
  <2> QED
    BY <1>1, <2>1, <2>2, <2>3 DEF Halfway, Thread
<1> QED
  BY <1>1, <1>3, <1>4, <1>5, <1>6 DEF Next, OneErp

LEMMA AllPairedStep ==
    ASSUME NEW e, LinkCase(e), [Next]_vars
    PROVE  AllPaired(e)'
<1> USE DEF files, provider, accounts, locals, history
<1>1. /\ TypeOK /\ OneErp(e) /\ e \in ERP /\ AllPaired(e)
      /\ SavesAlone(e) /\ erp \in [Thread -> {e}]
  BY DEF LinkCase, SingleCase, SingleInv, LinkInv, OneErp, TypeOK
<1>2. Paired(NoEntry) /\ Paired(Empty[e]) /\ Paired(FromLegacy)
      /\ (\A f \in ERP : f = e)
  BY <1>1, LegacyTokens DEF Paired, NoEntry, Empty, AllPaired, OneErp
<1>3. Paired(registry'[e]) /\ Paired(legacy')
  <2>1. CASE UNCHANGED files
    BY <1>1, <2>1 DEF AllPaired, Paired
  <2>2. ASSUME NEW t \in Thread, Open(t) \/ Flush(t) \/ FlushMirror(t)
        PROVE  Paired(registry'[e]) /\ Paired(legacy')
    <3>1. registry'[e] \in {NoEntry, seen[t][e], registry[e]}
          /\ legacy' \in {NoEntry, seen[t][e], legacy}
      BY <1>1, <2>2 DEF Open, Flush, FlushMirror, Landed, Empty
    <3> QED
      BY <1>1, <1>2, <3>1 DEF AllPaired, Paired
  <2>3. ASSUME NEW t \in Thread, Step(t), ~UNCHANGED files
        PROVE  Open(t) \/ Flush(t) \/ FlushMirror(t)
    BY <2>3 DEF Step, ReadLegacy, Acquire, Recheck, Exchange, Refresh, Refused,
                Unreachable, LostResponse, Fail, SaveFails
  <2>4. UNCHANGED vars \/ Tick \/ LoopStep \/ Crash => UNCHANGED files
    BY DEF vars, Tick, LoopStep, Decide, ReadTenant, Respond, Crash
  <2>5. Request(e) \/ BgCheck(e) \/ Setup(e) \/ Login(e) \/ SaveLogin(e)
          => UNCHANGED files
    BY DEF Request, BgCheck, Setup, Login, SaveLogin
  <2> QED
    BY <1>2, <2>1, <2>2, <2>3, <2>4, <2>5 DEF Next
<1>4. Paired(pending'[e])
  <2>1. CASE Login(e)
    BY <2>1, LoggedIn DEF Paired, NoToken
  <2>2. CASE pending'[e] \in {pending[e], NoEntry}
    BY <1>1, <1>2, <2>2 DEF AllPaired
  <2> QED
    BY <2>1, <2>2, PendingSteps
<1>5. ASSUME NEW t \in Thread, pc'[t] \in Saving
      PROVE  Paired(hand'[t])
  <2>1. CASE Refresh(t)
    <3>1. hand'[t].access.id = issued[e] + 1 /\ issued[e] \in Nat
      BY <1>1, <2>1, Redeemed DEF TypeOK
    <3> QED
      BY <3>1 DEF Paired, NoToken
  <2> QED
    BY <1>1, <1>5, <2>1, SavingSteps DEF AllPaired
<1>6. ASSUME NEW t \in Thread
      PROVE  Paired(seen'[t][e])
  <2>1. CASE seen'[t] \in {seen[t], registry, Empty}
    BY <1>1, <1>2, <2>1 DEF AllPaired, Paired
  <2>3. CASE Open(t)
    <3>1. seen'[t][e] = Merged(t) /\ pc[t] = "open" /\ hand[t] \in Entry
      BY <1>1, <2>3 DEF Open, TypeOK
    <3>2. /\ Merged(t).refresh = hand[t].refresh
          /\ Merged(t).access = hand[t].access
      <4>1. Merged(t).refresh = hand[t].refresh
        BY <3>1, MergedRefresh DEF LinkCase, Saving
      <4> QED
        BY <3>1, <4>1 DEF Merged, Entry
    <3> QED
      BY <3>1, <3>2, <1>1 DEF AllPaired, Paired, Saving
  <2>4. CASE UNCHANGED vars \/ Tick \/ LoopStep \/ Crash
    BY <1>1, <2>1, <2>4
       DEF vars, Tick, LoopStep, Decide, ReadTenant, Respond, Load, Park,
           Crash, TypeOK
  <2>5. CASE Request(e) \/ BgCheck(e) \/ Setup(e) \/ Login(e) \/ SaveLogin(e)
    BY <1>1, <2>1, <2>5
       DEF Request, BgCheck, Setup, Login, SaveLogin, Load, TypeOK
  <2>6. ASSUME NEW u \in Thread, Step(u)
        PROVE  Paired(seen'[t][e])
    <3>1. CASE Return(u) \/ Finish(u)
      BY <1>1, <2>1, <3>1, LeftByReturn DEF Left
    <3>2. CASE Acquire(u) \/ Recheck(u) \/ Refresh(u)
      BY <1>1, <2>1, <3>2 DEF Acquire, Recheck, Refresh, Load, Park, TypeOK
    <3>3. CASE ReadLegacy(u)
      <4>1. seen'[t][e] \in {seen[t][e], FromLegacy}
        BY <1>1, <3>3 DEF ReadLegacy, TypeOK
      <4> QED
        BY <1>1, <1>2, <4>1 DEF AllPaired, Paired
    <3>4. CASE Open(u)
      BY <1>1, <2>1, <2>3, <3>4 DEF Open, TypeOK
    <3>5. CASE Flush(u) /\ ~Finish(u)
      BY <1>1, <2>1, <3>5 DEF Flush
    <3> QED
      BY <2>6, <3>1, <3>2, <3>3, <3>4, <3>5
         DEF Step, Exchange, Refused, Unreachable, LostResponse, Fail,
             FlushMirror, SaveFails
  <2> QED
    BY <1>2, <2>4, <2>5, <2>6 DEF Next
<1> QED
  BY <1>3, <1>4, <1>5, <1>6 DEF AllPaired

\* A dump puts on disk what the thread has in hand.
LEMMA FlushLands ==
    ASSUME NEW e, LinkCase(e), [Next]_vars, live[e] # {}, NEW t \in Thread,
           Flush(t)
    PROVE  Loaded'[e].refresh = hand[t].refresh
<1>1. /\ TypeOK /\ OneErp(e) /\ e \in ERP /\ GoodInHand(e) /\ SavesAlone(e)
      /\ TypeOK'
  BY NextTyped DEF LinkCase, SingleCase, SingleInv, OneErp
<1>2. registry'[e] = seen[t][e]
  BY <1>1 DEF Flush, Landed, SavesAlone
<1>3. seen[t][e].refresh = hand[t].refresh /\ hand[t].refresh.id > 0
  BY <1>1 DEF Flush, GoodInHand, Saving
<1>4. registry'[e] # NoEntry
  BY <1>2, <1>3 DEF NoEntry, NoToken
<1>5. Loaded'[e] = registry'[e]
  BY <1>1, <1>4 DEF Loaded, NeedsLegacy, OneErp, TypeOK
<1> QED
  BY <1>2, <1>3, <1>5

\* What a save does to what load_all_tokens returns.
LEMMA DiskSteps ==
    ASSUME NEW e, LinkCase(e), [Next]_vars, live[e] # {}
    PROVE  \/ /\ Loaded'[e].refresh = Loaded[e].refresh
              /\ Loaded'[e] = NoEntry <=> Loaded[e] = NoEntry
           \/ /\ \E t \in Thread : Open(t)
              /\ Loaded[e] # NoEntry
              /\ Loaded'[e] = NoEntry \/ Loaded'[e].refresh = Loaded[e].refresh
           \/ \E t \in Thread : /\ Flush(t)
                                /\ Loaded'[e].refresh = hand[t].refresh
<1> USE DEF files, provider, accounts, locals, history
<1>1. /\ TypeOK /\ OneErp(e) /\ e \in ERP /\ Mirrored(e) /\ GoodInHand(e)
      /\ SavesAlone(e) /\ Numbered(e) /\ erp \in [Thread -> {e}]
  BY DEF LinkCase, SingleCase, SingleInv, LinkInv, OneErp, TypeOK
<1>2. Loaded[e] = IF e = LegacyErp /\ registry[e] = NoEntry
                  THEN FromLegacy ELSE registry[e]
  BY <1>1, LoadedSingle DEF TypeOK
<1>3. /\ TypeOK'
      /\ Loaded'[e] = IF e = LegacyErp /\ registry'[e] = NoEntry
                      THEN FromLegacy' ELSE registry'[e]
  <2>1. TypeOK'
    BY <1>1, NextTyped
  <2> QED
    BY <1>1, <2>1 DEF Loaded, NeedsLegacy, OneErp, TypeOK
<1>4. UNCHANGED files => /\ Loaded'[e].refresh = Loaded[e].refresh
                         /\ Loaded'[e] = NoEntry <=> Loaded[e] = NoEntry
  BY <1>1, <1>3, LoadedLater
<1>5. FromLegacy.refresh = legacy.refresh
      /\ (legacy = NoEntry => FromLegacy = NoEntry)
  BY <1>1, LegacyTokens
<1>6. ASSUME NEW t \in Thread, Open(t)
      PROVE  \/ Loaded'[e] = Loaded[e]
             \/ /\ Loaded[e] # NoEntry
                /\ Loaded'[e] = NoEntry
                   \/ Loaded'[e].refresh = Loaded[e].refresh
  <2>1. registry'[e] = NoEntry /\ legacy' = legacy
        /\ FromLegacy' = FromLegacy
    BY <1>1, <1>6 DEF Open, Empty, FromLegacy
  <2>2. CASE registry[e] = NoEntry
    BY <1>2, <1>3, <2>1, <2>2
  <2>3. CASE registry[e] # NoEntry
    BY <1>1, <1>2, <1>3, <1>5, <2>1, <2>3 DEF Mirrored
  <2> QED
    BY <2>2, <2>3
<1>7. ASSUME NEW t \in Thread, Flush(t)
      PROVE  Loaded'[e].refresh = hand[t].refresh
  BY <1>7, FlushLands
<1>8. ASSUME NEW t \in Thread, FlushMirror(t)
      PROVE  Loaded'[e] = Loaded[e]
  <2>1. registry'[e] = registry[e] /\ registry[e] = seen[t][e]
    BY <1>1, <1>8 DEF FlushMirror, GoodInHand
  <2>2. seen[t][e].refresh = hand[t].refresh /\ hand[t].refresh.id > 0
    BY <1>1, <1>8 DEF FlushMirror, GoodInHand, Saving
  <2>3. registry[e] # NoEntry
    BY <2>1, <2>2 DEF NoEntry, NoToken
  <2> QED
    BY <1>2, <1>3, <2>1, <2>3
<1>9. ASSUME NEW t \in Thread, Step(t),
             ~Open(t), ~Flush(t), ~FlushMirror(t)
      PROVE  UNCHANGED files
  BY <1>9 DEF Step, ReadLegacy, Acquire, Recheck, Exchange, Refresh, Refused,
              Unreachable, LostResponse, Fail, SaveFails
<1>10. UNCHANGED vars \/ Tick \/ LoopStep \/ Crash => UNCHANGED files
  BY DEF vars, Tick, LoopStep, Decide, ReadTenant, Respond, Crash
<1>11. Request(e) \/ BgCheck(e) \/ Setup(e) \/ Login(e) \/ SaveLogin(e)
         => UNCHANGED files
  BY DEF Request, BgCheck, Setup, Login, SaveLogin
<1> QED
  BY <1>1, <1>4, <1>6, <1>7, <1>8, <1>9, <1>10, <1>11 DEF Next, OneErp

\* A thread gets hold of a usable token from the disk only.
LEMMA HoldSteps ==
    ASSUME NEW e, LinkCase(e), [Next]_vars, NEW t \in Thread,
           NEW token \in live[e], Holds(e, t, token)'
    PROVE  Holds(e, t, token) \/ Loaded[e].refresh = token
<1> USE DEF files, provider, accounts, locals, history
<1>1. /\ TypeOK /\ OneErp(e) /\ e \in ERP /\ Mirrored(e) /\ ReadCurrent(e)
      /\ Numbered(e) /\ erp \in [Thread -> {e}]
  BY DEF LinkCase, SingleCase, SingleInv, LinkInv, OneErp, TypeOK
<1>2. Loaded[e] = IF e = LegacyErp /\ registry[e] = NoEntry
                  THEN FromLegacy ELSE registry[e]
  BY <1>1, LoadedSingle DEF TypeOK
<1>3. token # NoToken /\ NoEntry.refresh = NoToken
  BY <1>1 DEF Numbered, NoToken, NoEntry
<1>4. \/ registry[e].refresh = token
      \/ FromLegacy.refresh = token /\ e = LegacyErp
      => Loaded[e].refresh = token
  <2>1. FromLegacy.refresh = legacy.refresh
    BY <1>1, LegacyTokens
  <2>2. CASE registry[e].refresh = token
    BY <1>2, <1>3, <2>2
  <2>3. CASE FromLegacy.refresh = token /\ e = LegacyErp
    BY <1>1, <1>2, <1>3, <2>1, <2>3 DEF Mirrored
  <2> QED
    BY <2>2, <2>3
<1>5. CASE UNCHANGED <<pc[t], hand[t], seen[t]>>
  BY <1>5 DEF Holds
<1>6. CASE t = "loop" /\ LoopStep
  BY <1>1, <1>6
     DEF LoopStep, Decide, ReadTenant, Respond, Park, Goto, TypeOK, Holds
<1>7. CASE t = "loop" /\ Request(e)
  <2>1. pc'[t] = "decide" /\ seen'[t] = registry
    BY <1>1, <1>7 DEF Request, Goto, Load, TypeOK
  <2> QED
    BY <1>4, <2>1 DEF Holds
<1>8. CASE \/ Crash
           \/ t = "worker" /\ BgCheck(e)
           \/ t = "loop" /\ SaveLogin(e)
  BY <1>1, <1>8 DEF BgCheck, SaveLogin, Crash, Goto, TypeOK, Holds
<1>9. CASE Step(t)
  <2>1. CASE Return(t) \/ Finish(t)
    BY <1>1, <2>1, LeftByReturn DEF Left, Holds
  <2>2. CASE ReadLegacy(t)
    <3>1. /\ pc'[t] = pc[t] /\ hand'[t] = hand[t]
          /\ \/ seen'[t][e] = seen[t][e]
             \/ seen'[t][e] = FromLegacy /\ e = LegacyErp
      BY <1>1, <2>2 DEF ReadLegacy, TypeOK
    <3> QED
      BY <1>4, <3>1 DEF Holds
  <2>3. CASE Acquire(t)
    BY <1>1, <2>3 DEF Acquire, Goto, Load, TypeOK, Holds
  <2>4. CASE Recheck(t)
    <3>1. seen[t][erp[t]] = Loaded[e]
      BY <1>1, <2>4 DEF Recheck, ReadCurrent
    <3>2. pc'[t] = "exchange" /\ pc[t] = "recheck"
      BY <1>1, <2>4 DEF Recheck, Park, Goto, TypeOK, Holds
    <3>3. hand'[t].refresh \in {hand[t].refresh, Loaded[e].refresh}
      BY <1>1, <2>4, <3>1, <3>2
         DEF Recheck, Park, Goto, TypeOK, Entry
    <3> QED
      BY <3>2, <3>3 DEF Holds
  <2>5. CASE Refresh(t) \/ Open(t) \/ (Flush(t) /\ ~Finish(t))
    BY <1>1, <2>5 DEF Refresh, Open, Flush, Goto, TypeOK, Holds
  <2> QED
    BY <1>9, <2>1, <2>2, <2>3, <2>4, <2>5
       DEF Step, Exchange, Refused, Unreachable, LostResponse, Fail,
           FlushMirror, SaveFails
<1> QED
  BY <1>5, <1>6, <1>7, <1>8, <1>9, OwnSteps

LEMMA DiskFollowsStep ==
    ASSUME NEW e, LinkCase(e), [Next]_vars
    PROVE  DiskFollows(e)'
<1> SUFFICES ASSUME NEW t \in Thread, NEW token \in live'[e],
                    Holds(e, t, token)'
             PROVE  Loaded'[e] = NoEntry \/ Loaded'[e].refresh \in live'[e]
  BY DEF DiskFollows
<1>1. /\ TypeOK /\ OneErp(e) /\ e \in ERP /\ Numbered(e) /\ OneGrant(e)
      /\ LiveInHand(e) /\ DiskFollows(e) /\ erp \in [Thread -> {e}]
  BY DEF LinkCase, SingleCase, SingleInv, LinkInv, OneErp, TypeOK
<1>2. ASSUME UNCHANGED files
      PROVE  /\ Loaded'[e].refresh = Loaded[e].refresh
             /\ Loaded'[e] = NoEntry <=> Loaded[e] = NoEntry
  BY <1>1, <1>2, NextTyped, LoadedLater
<1>3. CASE Login(e)
  <2>1. registry[e] = NoEntry /\ legacy = NoEntry
    BY <1>1, <1>3, LoggedIn DEF OneGrant
  <2>2. Loaded[e] = NoEntry
    BY <1>1, <2>1, LoadedSingle, LegacyTokens DEF TypeOK
  <2> QED
    BY <1>2, <1>3, <2>2 DEF Login
<1>4. ASSUME NEW u \in Thread, Refresh(u) \/ LostResponse(u)
      PROVE  Loaded'[e] = NoEntry \/ Loaded'[e].refresh \in live'[e]
  <2>1. t # u
    BY <1>1, <1>4, LeftByReturn
       DEF Refresh, LostResponse, Fail, Left, Goto, TypeOK, Holds
  <2>2. pc'[t] = pc[t] /\ hand'[t] = hand[t] /\ seen'[t] = seen[t]
    BY <1>1, <1>4, <2>1, LeftByReturn
       DEF Refresh, LostResponse, Fail, Left, Goto, Load, TypeOK
  <2>3. Holds(e, t, token)
    BY <2>2 DEF Holds
  <2>4. token.id <= issued[e] /\ issued[e] \in Nat
    BY <1>1, <2>3 DEF Holds, Numbered, TypeOK
  <2>5. live' = live
    BY <1>4, <2>4, Redeemed
  <2>6. /\ Loaded'[e].refresh = Loaded[e].refresh
        /\ Loaded'[e] = NoEntry <=> Loaded[e] = NoEntry
    BY <1>2, <1>4 DEF Refresh, LostResponse, Fail
  <2> QED
    BY <1>1, <2>3, <2>5, <2>6 DEF DiskFollows
<1>5. CASE UNCHANGED <<live, issued, logins>>
  <2>1. Loaded[e] = NoEntry \/ Loaded[e].refresh \in live[e]
    BY <1>1, <1>5, HoldSteps DEF DiskFollows
  <2>2. \A u \in Thread : Flush(u) => hand[u].refresh \in live[e]
    BY <1>1, <1>5 DEF Flush, LiveInHand, Saving
  <2> QED
    BY <1>5, <2>1, <2>2, DiskSteps
<1> QED
  BY <1>3, <1>4, <1>5, LiveSteps

LEMMA LinkInit ==
    ASSUME NEW e, OneErp(e), Init
    PROVE  LinkInv(e)
<1>1. /\ e \in ERP
      /\ \A t \in Thread : /\ pc[t] = "idle" /\ seen[t][e] = NoEntry
                           /\ ~half[t]
      /\ pending[e] = NoEntry /\ logins = issued
      /\ issued[e] = (IF e \in Seeded THEN 1 ELSE 0)
      /\ live[e] = (IF e \in Seeded THEN {Seed} ELSE {})
  BY InitEntry DEF Init, OneErp, Empty
<1>3. PICK entry : /\ \/ registry[e] = entry /\ legacy = NoEntry
                      \/ registry[e] = NoEntry /\ legacy = entry /\ e = LegacyErp
                   /\ entry = NoEntry \/ entry.access # NoToken
  BY InitEntry
<1>4. Paired(NoEntry) /\ Paired(entry)
  BY <1>3 DEF Paired, NoEntry
<1>5. OneLive(e) /\ LiveInHand(e)
  BY <1>1 DEF OneLive, LiveInHand, Saving
<1>6. Mirrored(e) /\ Halfway(e)
  BY <1>1, <1>3 DEF Mirrored, Halfway, Thread
<1>7. AllPaired(e)
  BY <1>1, <1>3, <1>4 DEF AllPaired, Saving
<1>8. DiskFollows(e)
  BY <1>1 DEF DiskFollows, Holds
<1> QED
  BY <1>5, <1>6, <1>7, <1>8 DEF LinkInv

LEMMA Link ==
    ASSUME NEW CONSTANT e, OneErp(e)
    PROVE  Safe => []LinkInv(e)
<1>1. Init => LinkInv(e)
  BY LinkInit
<1>2. TypeOK /\ LockInv /\ Unrefreshed(e) /\ SingleInv(e) /\ LinkInv(e)
        /\ [Next]_vars => LinkInv(e)'
  BY OneLiveStep, LiveInHandStep, MirroredStep, HalfwayStep, AllPairedStep,
     DiskFollowsStep DEF LinkCase, SingleCase, LinkInv
<1> QED
  BY <1>1, <1>2, TypeCorrect, Locked, Single, PTL DEF Safe

\* The abstract state: the ERP accepts a refresh token within reach.
Linked(e) == Reach(e) \cap live[e] # {}

\* What thread t keeps within reach.
Keeps(e, t, token) ==
    \/ /\ pc[t] = "decide" /\ erp[t] = e /\ e \in configured
       /\ Expired(seen[t][e], ExpiryAge[e])
       /\ token = seen[t][e].refresh
    \/ /\ pc[t] \notin {"idle", "decide", "tenant", "respond"} /\ erp[t] = e
       /\ token = hand[t].refresh

LEMMA ReachedBy ==
    ASSUME NEW e, NEW token
    PROVE  token \in Reach(e) <=>
             \/ token = Loaded[e].refresh
             \/ token = pending[e].refresh
             \/ \E t \in Thread : Keeps(e, t, token)
BY DEF Reach, Keeps

LEMMA LinkedBy ==
    ASSUME NEW e
    PROVE  Linked(e) <=>
             \E token \in live[e] :
               \/ token = Loaded[e].refresh
               \/ token = pending[e].refresh
               \/ \E t \in Thread : Keeps(e, t, token)
BY ReachedBy DEF Linked

LEMMA LinkedByNext ==
    ASSUME NEW e
    PROVE  Linked(e)' <=>
             \E token \in live'[e] :
               \/ token = Loaded'[e].refresh
               \/ token = pending'[e].refresh
               \/ \E t \in Thread : Keeps(e, t, token)'
BY DEF Linked, Reach, Keeps

\* The clock stands still and nobody sets an ERP up while a request decides.
LEMMA AtDecide ==
    ASSUME NEW e, LinkCase(e), [Next]_vars, NEW t \in Thread,
           pc[t] = "decide" \/ pc'[t] = "decide"
    PROVE  /\ t = "loop" /\ UNCHANGED <<now, configured>>
           /\ \/ UNCHANGED <<pc[t], hand[t], seen[t]>> \/ Decide \/ Crash
              \/ Request(e) \/ ReadLegacy(t)
<1> USE DEF files, provider, accounts, locals, history
<1>1. /\ TypeOK /\ OneErp(e) /\ e \in ERP /\ Halfway(e)
  BY DEF LinkCase, SingleCase, LinkInv, OneErp
<1>2. t = "loop"
  <2>1. pc'["worker"] # "decide"
    BY HalfwayStep DEF Halfway
  <2> QED
    BY <1>1, <2>1 DEF Halfway, Thread
<1>3. CASE UNCHANGED <<pc[t], hand[t], seen[t]>> /\ pc[t] = "decide"
  <2>1. ~Tick /\ ~Setup(e)
    BY <1>2, <1>3 DEF Tick, Unhurried, Setup, Thread
  <2>2. ASSUME NEW u \in Thread, Step(u)
        PROVE  UNCHANGED <<now, configured>>
    BY <2>2 DEF Step, ReadLegacy, Acquire, Recheck, Exchange, Refresh, Refused,
                Unreachable, LostResponse, Fail, Open, Flush, FlushMirror,
                SaveFails
  <2>3. UNCHANGED vars \/ LoopStep \/ Crash => UNCHANGED <<now, configured>>
    BY DEF vars, LoopStep, Decide, ReadTenant, Respond, Crash
  <2>4. Request(e) \/ BgCheck(e) \/ Login(e) \/ SaveLogin(e)
          => UNCHANGED <<now, configured>>
    BY DEF Request, BgCheck, Login, SaveLogin
  <2> QED
    BY <1>1, <1>2, <1>3, <2>1, <2>2, <2>3, <2>4 DEF Next, OneErp
<1>4. CASE Crash
  BY <1>2, <1>4 DEF Crash
<1>5. CASE LoopStep \/ Request(e) \/ SaveLogin(e)
  BY <1>1, <1>2, <1>5
     DEF LoopStep, Decide, ReadTenant, Respond, Park, Request, SaveLogin,
         Goto, TypeOK
<1>6. CASE Step(t)
  <2>1. pc[t] = "decide"
    <3>1. CASE Return(t) \/ Finish(t)
      BY <1>1, <3>1, LeftByReturn DEF Left
    <3> QED
      BY <1>1, <1>6, <3>1
         DEF Step, Exchange, ReadLegacy, Acquire, Recheck, Refresh, Refused,
             Unreachable, LostResponse, Fail, Open, Flush, FlushMirror,
             SaveFails, Park, Goto, TypeOK
  <2> QED
    BY <1>2, <1>6, <2>1
       DEF Step, Exchange, ReadLegacy, Acquire, Recheck, Refresh, Refused,
           Unreachable, LostResponse, Open, Flush, FlushMirror, SaveFails
<1>7. UNCHANGED <<pc[t], hand[t], seen[t]>> => pc[t] = "decide"
  OBVIOUS
<1> QED
  BY <1>2, <1>3, <1>4, <1>5, <1>6, <1>7, OwnSteps

\* What a thread keeps within reach it had there before, or took from the disk
\* or from a callback.
LEMMA KeepsSteps ==
    ASSUME NEW e, LinkCase(e), [Next]_vars, UNCHANGED live,
           NEW t \in Thread, NEW token \in live[e], Keeps(e, t, token)'
    PROVE  \/ token = Loaded[e].refresh \/ token = pending[e].refresh
           \/ Keeps(e, t, token)
<1>1. /\ TypeOK /\ OneErp(e) /\ e \in ERP /\ Halfway(e)
      /\ erp \in [Thread -> {e}]
  BY DEF LinkCase, SingleCase, LinkInv, OneErp, TypeOK
<1>2. CASE pc'[t] \in Saving
  <2>1. CASE pc[t] \in Saving /\ hand'[t] = hand[t]
    BY <1>1, <1>2, <2>1 DEF Keeps, Saving
  <2>2. CASE Refresh(t)
    <3>1. token = hand[t].refresh /\ pc[t] = "exchange"
      BY <2>2, Redeemed DEF Refresh
    <3> QED
      BY <1>1, <3>1 DEF Keeps
  <2>3. CASE hand'[t] = pending[e]
    BY <1>2, <2>3 DEF Keeps, Saving
  <2> QED
    BY <1>2, <2>1, <2>2, <2>3, SavingSteps
<1>3. CASE pc'[t] \in {"lock", "recheck", "exchange"}
  <2>1. Holds(e, t, token) \/ Loaded[e].refresh = token
    BY <1>3, HoldSteps DEF Keeps, Holds
  <2>2. CASE pc[t] = "decide"
    <3>1. t = "loop" /\ Decide
      BY <1>1, <1>3, <2>2, AtDecide
         DEF Crash, Request, ReadLegacy
    <3> QED
      BY <1>1, <1>3, <2>1, <3>1 DEF Decide, Goto, TypeOK, Keeps, Holds
  <2>3. CASE pc[t] # "decide"
    BY <1>1, <2>1, <2>3 DEF Keeps, Holds
  <2> QED
    BY <2>2, <2>3
<1>4. CASE pc'[t] = "decide"
  <2>1. Holds(e, t, token) \/ Loaded[e].refresh = token
    BY <1>4, HoldSteps DEF Keeps, Holds
  <2>2. CASE pc[t] = "decide"
    <3>1. UNCHANGED <<now, configured>>
      BY <1>4, AtDecide
    <3>2. token = seen'[t][e].refresh /\ Expired(seen[t][e], ExpiryAge[e])'
          /\ e \in configured
      BY <1>4, <3>1 DEF Keeps
    <3>3. token = seen[t][e].refresh \/ Loaded[e].refresh = token
      BY <2>1, <2>2 DEF Holds
    <3>4. CASE ReadLegacy(t)
      <4>1. seen[t][e] = NoEntry
        BY <1>1, <3>4 DEF ReadLegacy, Halfway
      <4> QED
        BY <1>1, <2>2, <3>2, <3>3, <4>1 DEF Keeps, Expired
    <3>5. CASE seen'[t] = seen[t]
      BY <1>1, <2>2, <3>1, <3>2, <3>3, <3>5 DEF Keeps, Expired
    <3> QED
      BY <1>1, <1>4, <2>2, <3>4, <3>5, AtDecide
         DEF Decide, Crash, Request, Goto, TypeOK
  <2>3. CASE pc[t] # "decide"
    BY <1>1, <1>4, <2>1, <2>3, AtDecide
       DEF Holds, Request, Decide, Crash, ReadLegacy, Thread
  <2> QED
    BY <2>2, <2>3
<1>5. TypeOK'
  BY <1>1, NextTyped
<1> QED
  BY <1>2, <1>3, <1>4, <1>5 DEF Keeps, Saving, TypeOK

\* What a thread keeps within reach stays there unless a fault takes it.
LEMMA KeptSteps ==
    ASSUME NEW e, LinkCase(e), [Next]_vars, UNCHANGED <<live, faults>>,
           NEW t \in Thread, NEW token \in live[e], Keeps(e, t, token)
    PROVE  Keeps(e, t, token)' \/ Loaded'[e].refresh \in live[e]
<1> USE DEF files, provider, accounts, locals, history
<1>1. /\ TypeOK /\ OneErp(e) /\ e \in ERP /\ Halfway(e) /\ AllPaired(e)
      /\ DiskFollows(e) /\ GoodInHand(e) /\ Numbered(e) /\ ReadCurrent(e)
      /\ erp \in [Thread -> {e}] /\ ~Crash
  BY DEF LinkCase, SingleCase, SingleInv, LinkInv, OneErp, TypeOK, Crash
<1>2. token # NoToken /\ TypeOK' /\ erp'[t] = e
  <2>1. TypeOK'
    BY <1>1, NextTyped
  <2> QED
    BY <1>1, <2>1 DEF Numbered, NoToken, OneErp, TypeOK
<1>3. CASE pc[t] = "decide"
  <2>1. t = "loop" /\ token = seen[t][e].refresh /\ e \in configured
        /\ Expired(seen[t][e], ExpiryAge[e]) /\ UNCHANGED <<now, configured>>
    BY <1>3, AtDecide DEF Keeps
  <2>2. CASE UNCHANGED <<pc[t], hand[t], seen[t]>>
    BY <1>2, <1>3, <2>1, <2>2 DEF Keeps, Expired
  <2>3. CASE Decide
    <3>1. seen[t][e].access # NoToken
      BY <1>1, <1>2, <2>1 DEF AllPaired, Paired
    <3>2. pc'[t] = "lock" /\ hand'[t] = seen[t][e]
      BY <1>1, <1>2, <2>1, <2>3, <3>1 DEF Decide, Goto, TypeOK
    <3> QED
      BY <1>2, <2>1, <3>2 DEF Keeps
  <2>4. ~ReadLegacy(t)
    BY <1>1, <1>2, <2>1 DEF ReadLegacy, Halfway, NoEntry
  <2> QED
    BY <1>1, <1>3, <2>2, <2>3, <2>4, AtDecide DEF Request
<1>4. CASE pc[t] # "decide"
  <2>1. pc[t] \in {"lock", "recheck", "exchange"} \cup Saving
        /\ token = hand[t].refresh
    BY <1>1, <1>4 DEF Keeps, TypeOK, Saving
  <2>2. CASE \/ UNCHANGED <<pc[t], hand[t]>>
             \/ /\ pc'[t] \in {"recheck", "exchange"} \cup Saving
                /\ hand'[t].refresh = hand[t].refresh
    BY <1>2, <2>1, <2>2 DEF Keeps, Saving
  <2>3. CASE ReadLegacy(t) \/ Acquire(t) \/ Open(t)
    BY <1>1, <2>2, <2>3 DEF ReadLegacy, Acquire, Open, Goto, TypeOK, Saving
  <2>4. CASE Recheck(t)
    <3>1. seen[t][erp[t]] = Loaded[e] /\ Loaded' = Loaded
      BY <1>1, <2>4
         DEF Recheck, ReadCurrent, Loaded, NeedsLegacy, FromLegacy
    <3>2. CASE Loaded[e] = NoEntry
      BY <1>1, <2>2, <2>4, <3>1, <3>2 DEF Recheck, Goto, TypeOK
    <3>3. CASE Loaded[e] # NoEntry
      BY <1>1, <2>1, <2>4, <3>1, <3>3 DEF DiskFollows, Holds, Recheck
    <3> QED
      BY <3>2, <3>3
  <2>5. CASE Exchange(t)
    <3>1. ~Refused(t) /\ ~Unreachable(t) /\ ~LostResponse(t)
      BY <1>1, <2>1 DEF Refused, Unreachable, LostResponse, TypeOK
    <3>2. Refresh(t)
      BY <2>5, <3>1 DEF Exchange
    <3>3. hand'[t].refresh \in live[e] /\ live[e] = {hand[t].refresh}
          /\ pc'[t] = "open"
      BY <1>1, <3>2, Redeemed DEF Refresh, Goto, TypeOK
    <3> QED
      BY <2>2, <3>3 DEF Saving
  <2>6. CASE Flush(t)
    BY <2>1, <2>6, FlushLands
  <2>7. CASE FlushMirror(t)
    <3>1. registry[e] = seen[t][e] /\ seen[t][e].refresh = token
          /\ registry' = registry
      BY <1>1, <2>1, <2>7 DEF FlushMirror, GoodInHand
    <3>2. registry[e] # NoEntry
      BY <1>2, <3>1 DEF NoEntry
    <3> QED
      BY <1>1, <1>2, <3>1, <3>2 DEF Loaded, NeedsLegacy, OneErp, TypeOK
  <2>8. ~SaveFails(t)
    BY <1>1 DEF SaveFails, TypeOK
  <2> QED
    BY <1>1, <2>1, <2>2, <2>3, <2>4, <2>5, <2>6, <2>7, <2>8, OwnSteps
       DEF Step, LoopStep, Decide, ReadTenant, Respond, Request, SaveLogin,
           BgCheck, Saving
<1> QED
  BY <1>3, <1>4

\* Nothing but a login brings the connection back.
LEMMA NotRegained ==
    ASSUME NEW e, LinkCase(e), [Next]_vars, ~Login(e), Linked(e)'
    PROVE  Linked(e)
<1>1. /\ TypeOK /\ OneErp(e) /\ e \in ERP /\ Numbered(e)
      /\ erp \in [Thread -> {e}]
  BY DEF LinkCase, SingleCase, SingleInv, OneErp, TypeOK
<1>2. ASSUME NEW t \in Thread, NEW token \in live[e], Keeps(e, t, token)
      PROVE  Linked(e)
  BY <1>2, LinkedBy
<1>3. ASSUME NEW t \in Thread, Refresh(t) \/ LostResponse(t)
      PROVE  Linked(e)
  <2>1. hand[t].refresh \in live[e] /\ Keeps(e, t, hand[t].refresh)
    BY <1>1, <1>3 DEF Refresh, LostResponse, Keeps
  <2> QED
    BY <1>2, <2>1
<1>4. CASE UNCHANGED live
  <2>1. PICK token \in live[e] :
          \/ token = Loaded'[e].refresh
          \/ token = pending'[e].refresh
          \/ \E t \in Thread : Keeps(e, t, token)'
    BY <1>4, LinkedByNext
  <2>2. token # NoToken /\ NoEntry.refresh = NoToken
    BY <1>1 DEF Numbered, NoToken, NoEntry
  <2>3. CASE token = Loaded'[e].refresh
    <3>1. ASSUME NEW t \in Thread, Flush(t), token = hand[t].refresh
          PROVE  Keeps(e, t, token)
      BY <1>1, <3>1 DEF Flush, Keeps
    <3> QED
      BY <1>2, <2>2, <2>3, <3>1, DiskSteps, LinkedBy
  <2>4. CASE token = pending'[e].refresh
    BY <2>2, <2>4, PendingSteps, LinkedBy
  <2>5. CASE \E t \in Thread : Keeps(e, t, token)'
    BY <1>2, <1>4, <2>5, KeepsSteps, LinkedBy
  <2> QED
    BY <2>1, <2>3, <2>4, <2>5
<1> QED
  BY <1>3, <1>4, LiveSteps

\* Nothing but a fault loses it.
LEMMA NotLost ==
    ASSUME NEW e, LinkCase(e), [Next]_vars, ~Login(e), faults' = faults,
           Linked(e)
    PROVE  Linked(e)'
<1>1. /\ TypeOK /\ OneErp(e) /\ e \in ERP /\ Numbered(e) /\ LiveInHand(e)
      /\ erp \in [Thread -> {e}]
  BY DEF LinkCase, SingleCase, SingleInv, LinkInv, OneErp, TypeOK
<1>2. TypeOK' /\ LiveInHand(e)' /\ erp' \in [Thread -> {e}]
  BY <1>1, NextTyped, LiveInHandStep DEF OneErp, TypeOK
<1>3. ASSUME NEW t \in Thread, pc'[t] \in Saving
      PROVE  Linked(e)'
  <2>1. hand'[t].refresh \in live'[e]
    <3>1. live[e] # {}
      BY DEF Linked
    <3>2. live'[e] # {}
      BY <3>1, LiveSteps, Redeemed
    <3> QED
      BY <1>2, <1>3, <3>2 DEF LiveInHand
  <2>2. Keeps(e, t, hand[t].refresh)'
    BY <1>2, <1>3 DEF Keeps, Saving
  <2> QED
    BY <2>1, <2>2, LinkedByNext
<1>4. ASSUME NEW t \in Thread, Refresh(t) \/ LostResponse(t)
      PROVE  Linked(e)'
  <2>1. ~LostResponse(t)
    BY <1>1 DEF LostResponse, TypeOK
  <2>2. pc'[t] = "open"
    BY <1>1, <1>4, <2>1 DEF Refresh, Goto, TypeOK
  <2> QED
    BY <1>3, <2>2 DEF Saving
<1>5. CASE UNCHANGED live
  <2>1. PICK token \in live[e] :
          \/ token = Loaded[e].refresh
          \/ token = pending[e].refresh
          \/ \E t \in Thread : Keeps(e, t, token)
    BY LinkedBy
  <2>2. token # NoToken /\ NoEntry.refresh = NoToken
    BY <1>1 DEF Numbered, NoToken, NoEntry
  <2>3. CASE token = Loaded[e].refresh
    <3>1. ASSUME NEW t \in Thread, Open(t)
          PROVE  Linked(e)'
      BY <1>1, <1>3, <3>1 DEF Open, Goto, TypeOK, Saving
    <3>2. ASSUME NEW t \in Thread, Flush(t),
                 Loaded'[e].refresh = hand[t].refresh
          PROVE  Linked(e)'
      <4>1. hand[t].refresh \in live[e]
        BY <1>1, <2>3, <3>2 DEF Flush, LiveInHand, Saving
      <4> QED
        BY <1>5, <3>2, <4>1, LinkedByNext
    <3> QED
      BY <1>5, <2>3, <3>1, <3>2, DiskSteps, LinkedByNext
  <2>4. CASE token = pending[e].refresh
    <3>1. CASE pending'[e] = pending[e]
      BY <1>5, <2>4, <3>1, LinkedByNext
    <3>2. CASE pending'[e] # pending[e]
      <4>1. SaveLogin(e)
        BY <1>1, <3>2, PendingSteps DEF Crash, TypeOK
      <4> QED
        BY <1>1, <1>3, <4>1 DEF SaveLogin, Goto, TypeOK, Saving, Thread
    <3> QED
      BY <3>1, <3>2
  <2>5. CASE \E t \in Thread : Keeps(e, t, token)
    BY <1>5, <2>5, KeptSteps, LinkedByNext
  <2> QED
    BY <2>1, <2>3, <2>4, <2>5
<1> QED
  BY <1>4, <1>5, LiveSteps

\* Every step is a login or leaves the count of them, and is a fault or not.
LEMMA FaultSteps ==
    ASSUME NEW e, LinkCase(e), [Next]_vars
    PROVE  /\ faults' = faults \/ faults' = faults + 1
           /\ logins' = logins \/ Login(e)
<1> USE DEF history
<1>0. logins' = logins \/ Login(e)
  BY LiveSteps, Redeemed
<1>1. CASE UNCHANGED vars \/ Tick \/ LoopStep \/ Crash
  BY <1>1, <1>0
     DEF vars, Tick, LoopStep, Decide, ReadTenant, Respond, Crash
<1>2. ASSUME NEW t \in Thread, Step(t)
      PROVE  faults' = faults \/ faults' = faults + 1
  BY <1>2 DEF Step, ReadLegacy, Acquire, Recheck, Exchange, Refresh, Refused,
              Unreachable, LostResponse, Fail, Open, Flush, FlushMirror,
              SaveFails
<1>3. Request(e) \/ BgCheck(e) \/ Setup(e) \/ Login(e) \/ SaveLogin(e)
        => faults' = faults
  BY DEF Request, BgCheck, Setup, Login, SaveLogin
<1> QED
  BY <1>0, <1>1, <1>2, <1>3 DEF Next, LinkCase, SingleCase, OneErp

\* Every step of the token manager is one of Connection, or nothing to it.
LEMMA ConnectionStep ==
    ASSUME NEW e, TheErp = e, LinkCase(e), [Next]_vars
    PROVE  [C!Next]_(C!vars)
<1>1. OneErp(e) /\ e \in ERP /\ TypeOK /\ OneLive(e)
  BY DEF LinkCase, SingleCase, LinkInv, OneErp
<1>2. CASE Login(e)
  <2>1. logins'[e] = logins[e] + 1
    <3>1. logins[e] = 0 /\ logins'[e] = 1
      BY <1>2, LoggedIn
    <3> QED
      BY <3>1
  <2>2. faults' = faults
    BY <1>2 DEF Login, history
  <2>3. Linked(e)' \/ (live[e] = {} /\ live'[e] = {})
    BY <1>2, LoggedIn, LinkedByNext
  <2>4. Connected(TheErp)' \in {Connected(TheErp), "connected"}
    BY <2>3, TheErp = e DEF Connected, Linked
  <2> QED
    BY <2>1, <2>2, <2>4, TheErp = e DEF C!Next, C!Connect
<1>3. CASE ~Login(e)
  <2>1. logins' = logins
    BY <1>3, FaultSteps
  <2>2. live'[e] = {} <=> live[e] = {}
    BY <1>3, LiveSteps, Redeemed
  <2>3. CASE faults' = faults
    <3>1. Linked(e)' <=> Linked(e)
      BY <1>3, <2>3, NotLost, NotRegained
    <3>2. Connected(TheErp)' = Connected(TheErp)
      BY <2>2, <3>1, TheErp = e DEF Connected, Linked
    <3> QED
      BY <2>1, <2>3, <3>2 DEF C!vars
  <2>4. CASE faults' = faults + 1
    <3>1. \/ Connected(TheErp)' = Connected(TheErp)
          \/ Connected(TheErp) = "connected" /\ Connected(TheErp)' = "lost"
      BY <1>3, <2>2, NotRegained, TheErp = e DEF Connected, Linked
    <3> QED
      BY <2>1, <2>4, <3>1 DEF C!Next, C!Trouble
  <2> QED
    BY <2>3, <2>4, FaultSteps
<1> QED
  BY <1>2, <1>3

\* The token manager starts as Connection does.
LEMMA ConnectionInit ==
    ASSUME NEW e, TheErp = e, OneErp(e), Init
    PROVE  C!Init
<1>1. /\ e \in ERP /\ TypeOK /\ faults = 0
      /\ logins[e] = (IF e \in Seeded THEN 1 ELSE 0)
      /\ live[e] = (IF e \in Seeded THEN {Seed} ELSE {})
  BY InitTyped, InitEntry DEF Init, OneErp
<1>2. CASE e \in Seeded
  <2>1. PICK entry : /\ \/ registry[e] = entry
                        \/ /\ registry[e] = NoEntry
                           /\ legacy = entry /\ e = LegacyErp
                     /\ entry.refresh = Seed /\ entry # NoEntry
    BY <1>2, InitEntry
  <2>2. FromLegacy.refresh = legacy.refresh
    BY <1>1, LegacyTokens
  <2>3. Loaded[e].refresh = Seed
    BY <1>1, <2>1, <2>2, LoadedSingle DEF TypeOK
  <2>4. Linked(e)
    BY <1>1, <1>2, <2>3, LinkedBy
  <2> QED
    BY <1>1, <1>2, <2>4, TheErp = e DEF C!Init, Connected, Linked
<1>3. CASE e \notin Seeded
  BY <1>1, <1>3, TheErp = e DEF C!Init, Connected
<1> QED
  BY <1>2, <1>3

\* With one ERP connected once, the token manager implements Connection, for
\* every number of faults: whatever requests, background refreshes, saves and
\* restarts do, only a fault takes the last usable refresh token out of reach,
\* and nothing but a login brings one back.
THEOREM ConnectionImplemented ==
    ASSUME NEW CONSTANT e, OneErp(e)
    PROVE  Safe => ConnectionKept
<1>1. TheErp = e
  BY DEF OneErp, TheErp
<1>2. Init => C!Init
  BY <1>1, ConnectionInit
<1>3. TypeOK /\ LockInv /\ Unrefreshed(e) /\ SingleInv(e) /\ LinkInv(e)
        /\ [Next]_vars => [C!Next]_(C!vars)
  BY <1>1, ConnectionStep DEF LinkCase, SingleCase
<1> QED
  BY <1>2, <1>3, TypeCorrect, Locked, Single, Link, PTL
     DEF Safe, ConnectionKept, C!Spec

=============================================================================
