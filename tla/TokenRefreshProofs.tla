------------------------- MODULE TokenRefreshProofs -------------------------
(* Theorems about TokenRefresh, for every value of its constants.           *)
EXTENDS TokenRefresh, TLAPS

-----------------------------------------------------------------------------
(* Type correctness.                                                        *)

\* The writes of the credential row leave a credential.
LEMMA RowWrites ==
  ASSUME NEW r \in Credential, NEW g \in OptGrant
  PROVE  /\ [r EXCEPT !.age = "due"] \in Credential
         /\ [r EXCEPT !.state = "revoked"] \in Credential
         /\ [state |-> "active", grant |-> g, age |-> "fresh"] \in Credential
         /\ NoCredential \in Credential
         /\ r.grant \in OptGrant
BY DEF Credential, NoCredential, OptGrant

\* Both starting points of the history are well typed.
LEMMA InitType == Init => TypeOK
<1> SUFFICES ASSUME Init PROVE TypeOK
  OBVIOUS
<1> USE ConstantsAssumption
<1>1. row \in Credential
  BY DEF Init, Credential, NoCredential, OptGrant
<1>2. grant \in [Grants -> {"unused", "valid", "dead"}]
  BY DEF Init
<1>3. onboarding \in OnboardingStates
  BY DEF Init, OnboardingStates
<1>4. quiet \in BOOLEAN
  <2>1. quiet = FALSE
    BY DEF Init
  <2>2. QED
    BY <2>1
<1>5. QED
  BY <1>1, <1>2, <1>3, <1>4 DEF Init, TypeOK, Stages, OptGrant

\* Every step of a worker keeps the types.
LEMMA WorkType ==
  ASSUME TypeOK, NEW c \in Callers, Work(c) \/ Crash(c)
  PROVE  TypeOK'
<1> USE ConstantsAssumption DEF TypeOK, Stages, Goto, worker, login, admin
<1>1. row.grant \in OptGrant
  BY RowWrites
<1>2. CASE StartPass(c)
  BY <1>2 DEF StartPass
<1>3. CASE Get(c)
  BY <1>3 DEF Get
<1>4. CASE Acquire(c)
  BY <1>4 DEF Acquire
<1>5. CASE ReadResult(c)
  BY <1>5 DEF ReadResult
<1>6. CASE Reread(c)
  BY <1>1, <1>6 DEF Reread
<1>7. CASE Refresh(c)
  BY <1>7 DEF Refresh
<1>8. CASE Store(c)
  <2>1. mine[c] \in OptGrant /\ row \in Credential
    OBVIOUS
  <2>2. row' \in Credential
    BY <1>8, <2>1, RowWrites DEF Store
  <2>3. QED
    BY <1>8, <2>2 DEF Store
<1>9. CASE MarkRevoked(c)
  BY <1>9, RowWrites DEF MarkRevoked, SetRevoked
<1>10. CASE Release(c)
  BY <1>10 DEF Release, OptGrant
<1>11. CASE Crash(c)
  BY <1>11 DEF Crash, OptGrant
<1> QED
  BY <1>2, <1>3, <1>4, <1>5, <1>6, <1>7, <1>8, <1>9, <1>10, <1>11 DEF Work

\* So does every step of a login.
LEMMA BrowseType ==
  ASSUME TypeOK, NEW l \in Logins, Browse(l)
  PROVE  TypeOK'
<1> USE ConstantsAssumption DEF TypeOK, LGoto, worker, admin
<1>1. CASE Start(l)
  BY <1>1 DEF Start, OnboardingStates
<1>2. CASE Abandon(l)
  BY <1>2 DEF Abandon, OptGrant
<1>3. CASE Exchange(l)
  BY <1>3 DEF Exchange, OptGrant
<1>4. CASE Fail(l)
  BY <1>4 DEF Fail, OptGrant, OnboardingStates
<1>5. CASE StoreCredential(l)
  BY <1>5, RowWrites DEF StoreCredential
<1>6. CASE SetAuthorized(l)
  BY <1>6 DEF SetAuthorized, OptGrant, OnboardingStates
<1> QED
  BY <1>1, <1>2, <1>3, <1>4, <1>5, <1>6 DEF Browse

\* And every step of a revocation or an offboarding.
LEMMA AdministerType ==
  ASSUME TypeOK, NEW a \in Admins, Administer(a)
  PROVE  TypeOK'
<1> USE ConstantsAssumption DEF TypeOK, AGoto, worker, login
<1>1. ASSUME NEW op \in {"revoke", "offboard"}, Begin(a, op) PROVE TypeOK'
  BY <1>1, RowWrites DEF Begin
<1>2. CASE RevokeAtZoho(a)
  BY <1>2 DEF RevokeAtZoho
<1>3. CASE EndCredential(a)
  BY <1>3, RowWrites DEF EndCredential, SetRevoked
<1>4. CASE EndOnboarding(a)
  BY <1>4 DEF EndOnboarding, OnboardingStates
<1>5. CASE GiveUp(a)
  BY <1>5 DEF GiveUp
<1> QED
  BY <1>1, <1>2, <1>3, <1>4, <1>5 DEF Administer

\* The types are inductive.
LEMMA NextType == TypeOK /\ [Next]_vars => TypeOK'
<1> SUFFICES ASSUME TypeOK, [Next]_vars PROVE TypeOK'
  OBVIOUS
<1>1. CASE Quieten
  <2>1. quiet' \in BOOLEAN
    <3>1. quiet' = TRUE
      BY <1>1 DEF Quieten
    <3>2. QED
      BY <3>1
  <2>2. QED
    BY <1>1, <2>1 DEF Quieten, TypeOK, worker, login, admin
<1>2. CASE Age
  <2>1. row \in Credential /\ None \in OptGrant
    BY DEF TypeOK, OptGrant
  <2>2. [row EXCEPT !.age = "due"] \in Credential
    BY <2>1, RowWrites
  <2>3. QED
    BY <1>2, <2>2 DEF Age, TypeOK, worker, login, admin
<1>3. CASE LockExpires
  BY <1>3 DEF LockExpires, TypeOK, login, admin
<1>4. CASE \E g \in Grants : Withdraw(g)
  BY <1>4 DEF Withdraw, TypeOK, worker, login, admin
<1>5. CASE UNCHANGED vars
  BY <1>5 DEF vars, TypeOK, worker, login, admin
<1> QED
  BY <1>1, <1>2, <1>3, <1>4, <1>5, WorkType, BrowseType, AdministerType DEF Next

\* Every variable of the token life cycle keeps its type; in particular the row is
\* never written with a grant Zoho did not issue.
THEOREM TypeCorrect == Spec => []TypeOK
BY InitType, NextType, PTL DEF Spec

-----------------------------------------------------------------------------
(* Mutual exclusion under the refresh lock.                                 *)

Critical(c) == pc[c] \in {"reread", "refresh", "store", "mark", "release"}

\* Whoever is past Acquire and before the end of Release owns the key.
LockInv == \A c \in Callers : Critical(c) => lock = c

\* Nobody takes the key from its owner, unless the TTL may run out too early.
LEMMA NextLockInv ==
  ASSUME ~SlowRefresh, TypeOK, LockInv, [Next]_vars
  PROVE  LockInv'
<1> USE ConstantsAssumption DEF TypeOK, LockInv, Critical, Stages, Goto
<1>1. CASE UNCHANGED worker
  BY <1>1 DEF worker
<1>2. CASE LockExpires
  BY <1>2 DEF LockExpires
<1>3. ASSUME NEW c \in Callers, Work(c) \/ Crash(c) PROVE LockInv'
  <2>1. CASE Acquire(c)
    BY <2>1 DEF Acquire
  <2>2. CASE Release(c)
    BY <2>2 DEF Release
  <2>3. CASE Crash(c)
    BY <2>3 DEF Crash
  <2>4. CASE StartPass(c) \/ Get(c) \/ ReadResult(c)
    BY <2>4 DEF StartPass, Get, ReadResult
  <2>5. CASE Reread(c) \/ Refresh(c) \/ Store(c) \/ MarkRevoked(c)
    BY <2>5 DEF Reread, Refresh, Store, MarkRevoked
  <2>6. QED
    BY <1>3, <2>1, <2>2, <2>3, <2>4, <2>5 DEF Work
<1>4. CASE Quieten \/ Age \/ (\E g \in Grants : Withdraw(g)) \/ UNCHANGED vars
  BY <1>1, <1>4 DEF Quieten, Age, Withdraw, vars
<1>5. ASSUME NEW l \in Logins, Browse(l) PROVE LockInv'
  BY <1>1, <1>5 DEF Browse, Start, Abandon, Exchange, Fail, StoreCredential, SetAuthorized
<1>6. ASSUME NEW a \in Admins, Administer(a) PROVE LockInv'
  BY <1>1, <1>6 DEF Administer, Begin, RevokeAtZoho, EndCredential, EndOnboarding, GiveUp
<1> QED
  BY <1>2, <1>3, <1>4, <1>5, <1>6 DEF Next

\* As long as no refresh outlives the TTL, at most one worker is between the second
\* read of the credential and the release of the lock.
THEOREM OneRefresher ==
  ASSUME ~SlowRefresh
  PROVE  Spec => [](\A c, d \in Callers : Critical(c) /\ Critical(d) => c = d)
<1>1. Init => LockInv
  BY DEF Init, LockInv, Critical
<1>2. TypeOK /\ LockInv /\ [Next]_vars => LockInv'
  BY NextLockInv
<1>3. LockInv => \A c, d \in Callers : Critical(c) /\ Critical(d) => c = d
  BY DEF LockInv
<1> QED
  BY <1>1, <1>2, <1>3, TypeCorrect, PTL DEF Spec

\* Only the clock takes a lock from its holder: no other worker's release, and no
\* crash of another, deletes or replaces it.
THEOREM LockSafe == Spec => LockKeptFromOthers
<1>1. ASSUME TypeOK, [Next]_vars, NEW c \in Callers, lock = c, lock' # c
      PROVE  pc'[c] # pc[c] \/ UNCHANGED pc
  <2> USE ConstantsAssumption DEF TypeOK, Stages, Goto
  <2>1. CASE UNCHANGED lock
    BY <1>1, <2>1
  <2>2. CASE LockExpires
    BY <2>2 DEF LockExpires
  <2>3. ASSUME NEW d \in Callers, Work(d) \/ Crash(d)
        PROVE  pc'[c] # pc[c] \/ UNCHANGED <<pc, lock>> \/ UNCHANGED lock \/ UNCHANGED pc
    <3>1. CASE Acquire(d)
      BY <1>1, <3>1 DEF Acquire
    <3>2. CASE Release(d)
      BY <1>1, <3>2 DEF Release
    <3>3. CASE Crash(d)
      BY <1>1, <3>3 DEF Crash
    <3>4. QED
      BY <2>3, <3>1, <3>2, <3>3
      DEF Work, StartPass, Get, ReadResult, Reread, Refresh, Store, MarkRevoked
  <2>4. CASE Quieten \/ Age \/ (\E g \in Grants : Withdraw(g)) \/ UNCHANGED vars
    BY <2>1, <2>4 DEF Quieten, Age, Withdraw, vars, worker
  <2>5. ASSUME NEW l \in Logins, Browse(l) PROVE UNCHANGED lock
    BY <2>5 DEF Browse, Start, Abandon, Exchange, Fail, StoreCredential, SetAuthorized, worker
  <2>6. ASSUME NEW a \in Admins, Administer(a) PROVE UNCHANGED lock
    BY <2>6 DEF Administer, Begin, RevokeAtZoho, EndCredential, EndOnboarding, GiveUp, worker
  <2> QED
    BY <1>1, <2>1, <2>2, <2>3, <2>4, <2>5, <2>6 DEF Next
<1>2. TypeOK /\ [Next]_vars => [\A c \in Callers : lock = c /\ lock' # c
                                  => pc'[c] # pc[c] \/ UNCHANGED pc]_vars
  BY <1>1
<1> QED
  BY <1>2, TypeCorrect, PTL DEF Spec, LockKeptFromOthers

-----------------------------------------------------------------------------
(* Where grants come from.                                                  *)

Issued(g) == g # None => grant[g] # "unused"

\* A grant in anybody's hands has been issued, and one a login is about to store
\* is in nobody else's.
GrantInv ==
  /\ Issued(row.grant)
  /\ \A c \in Callers : Issued(mine[c])
  /\ \A l \in Logins : Issued(lgrant[l])
  /\ \A l \in Logins : lpc[l] = "store" =>
       /\ lgrant[l] # None
       /\ row.grant # lgrant[l]
       /\ \A c \in Callers : mine[c] # lgrant[l]
       /\ \A k \in Logins \ {l} : lpc[k] = "store" => lgrant[k] # lgrant[l]

\* No issued grant becomes unused again.
LEMMA IssuedStays ==
  ASSUME TypeOK, [Next]_vars, NEW g \in Grants, grant[g] # "unused"
  PROVE  grant'[g] # "unused"
<1> USE DEF TypeOK
<1>1. CASE UNCHANGED grant
  BY <1>1
<1>2. ASSUME NEW h \in Grants, Withdraw(h) PROVE grant'[g] # "unused"
  BY <1>2 DEF Withdraw
<1>3. ASSUME NEW c \in Callers, Work(c) \/ Crash(c) PROVE UNCHANGED grant
  BY <1>3 DEF Work, StartPass, Get, Acquire, ReadResult, Reread, Refresh, Store, MarkRevoked,
              Release, Crash
<1>4. ASSUME NEW l \in Logins, Browse(l) PROVE grant'[g] # "unused"
  <2>1. CASE Exchange(l)
    BY <2>1 DEF Exchange
  <2>2. QED
    BY <1>1, <1>4, <2>1 DEF Browse, Start, Abandon, Fail, StoreCredential, SetAuthorized
<1>5. ASSUME NEW a \in Admins, Administer(a) PROVE grant'[g] # "unused"
  <2>1. CASE RevokeAtZoho(a)
    BY <2>1 DEF RevokeAtZoho
  <2>2. QED
    BY <1>1, <1>5, <2>1 DEF Administer, Begin, EndCredential, EndOnboarding, GiveUp
<1>6. CASE Quieten \/ Age \/ LockExpires \/ UNCHANGED vars
  BY <1>1, <1>6 DEF Quieten, Age, LockExpires, vars
<1> QED
  BY <1>2, <1>3, <1>4, <1>5, <1>6 DEF Next

\* A worker hands on only the grant of the row.
LEMMA WorkGrantInv ==
  ASSUME TypeOK, GrantInv, NEW c \in Callers, Work(c) \/ Crash(c)
  PROVE  GrantInv'
<1> USE DEF TypeOK, GrantInv, Issued, Credential
<1>1. UNCHANGED <<grant, lpc, lgrant>>
  BY DEF Work, StartPass, Get, Acquire, ReadResult, Reread, Refresh, Store, MarkRevoked,
         Release, Crash, login
<1>2. CASE UNCHANGED <<row, mine>>
  BY <1>1, <1>2
<1>3. CASE Reread(c)
  BY <1>1, <1>3 DEF Reread
<1>4. CASE Store(c)
  BY <1>1, <1>4 DEF Store
<1>5. CASE MarkRevoked(c)
  <2>1. row'.grant = row.grant /\ UNCHANGED mine
    BY <1>5 DEF MarkRevoked, SetRevoked
  <2>2. QED
    BY <1>1, <2>1
<1>6. CASE Release(c) \/ Crash(c)
  BY <1>1, <1>6 DEF Release, Crash
<1> QED
  BY <1>2, <1>3, <1>4, <1>5, <1>6
  DEF Work, StartPass, Get, Acquire, ReadResult, Refresh

\* A login stores only a grant Zoho has just issued to it.
LEMMA BrowseGrantInv ==
  ASSUME TypeOK, GrantInv, NEW l \in Logins, Browse(l)
  PROVE  GrantInv'
<1> USE ConstantsAssumption DEF TypeOK, GrantInv, Issued, Credential, OptGrant, LGoto, worker
<1>1. CASE Start(l)
  BY <1>1 DEF Start
<1>2. CASE Abandon(l)
  BY <1>2 DEF Abandon
<1>3. CASE Exchange(l)
  <2>1. PICK g \in Grants :
          /\ grant[g] = "unused"
          /\ grant' = [grant EXCEPT ![g] = "valid"]
          /\ lgrant' = [lgrant EXCEPT ![l] = g]
    BY <1>3 DEF Exchange
  <2>2. lpc' = [lpc EXCEPT ![l] = "store"] /\ UNCHANGED <<row, mine>>
    BY <1>3 DEF Exchange
  <2>3. /\ row.grant # g
        /\ \A c \in Callers : mine[c] # g
        /\ \A k \in Logins : lgrant[k] # g
    BY <2>1
  <2>4. \A h : Issued(h) => Issued(h)'
    BY <2>1
  <2>5. QED
    BY <2>1, <2>2, <2>3, <2>4
<1>4. CASE Fail(l)
  BY <1>4 DEF Fail
<1>5. CASE StoreCredential(l)
  BY <1>5 DEF StoreCredential
<1>6. CASE SetAuthorized(l)
  BY <1>6 DEF SetAuthorized
<1> QED
  BY <1>1, <1>2, <1>3, <1>4, <1>5, <1>6 DEF Browse

\* The provenance of grants is inductive.
LEMMA NextGrantInv == TypeOK /\ GrantInv /\ [Next]_vars => GrantInv'
<1> SUFFICES ASSUME TypeOK, GrantInv, [Next]_vars PROVE GrantInv'
  OBVIOUS
<1>1. \A g \in OptGrant : Issued(g) => Issued(g)'
  BY IssuedStays DEF Issued, OptGrant
<1>2. /\ row.grant \in OptGrant
      /\ \A c \in Callers : mine[c] \in OptGrant
      /\ \A l \in Logins : lgrant[l] \in OptGrant
  BY DEF TypeOK, Credential
<1>3. CASE row'.grant \in {row.grant, None} /\ UNCHANGED <<mine, lpc, lgrant>>
  BY <1>1, <1>2, <1>3 DEF GrantInv, Issued
<1>4. CASE Quieten \/ Age \/ LockExpires \/ (\E g \in Grants : Withdraw(g)) \/ UNCHANGED vars
  BY <1>3, <1>4 DEF Quieten, Age, LockExpires, Withdraw, vars, worker, login, TypeOK, Credential
<1>5. ASSUME NEW a \in Admins, Administer(a) PROVE GrantInv'
  BY <1>3, <1>5 DEF Administer, Begin, RevokeAtZoho, EndCredential, EndOnboarding, GiveUp,
                    SetRevoked, NoCredential, worker, login, TypeOK, Credential
<1> QED
  BY <1>4, <1>5, WorkGrantInv, BrowseGrantInv DEF Next

-----------------------------------------------------------------------------
(* No redundant refresh.                                                    *)

\* While a worker refreshes a grant, the row holds no fresh token of it.
DueInv == \A c \in Callers : pc[c] \in {"refresh", "store"} =>
            (Active /\ row.grant = mine[c] => row.age = "due")

\* Nobody else writes a fresh token of the grant a worker is refreshing.
LEMMA NextDueInv ==
  ASSUME TypeOK, LockInv, GrantInv, DueInv, [Next]_vars
  PROVE  DueInv'
<1> USE ConstantsAssumption DEF TypeOK, DueInv, Active, Goto
<1>1. CASE row' = row /\ UNCHANGED <<pc, mine>>
  BY <1>1
<1>2. CASE row'.age = "due" /\ row'.grant = row.grant /\ UNCHANGED <<pc, mine>>
  BY <1>2
<1>3. CASE row'.state # "active" /\ UNCHANGED <<pc, mine>>
  BY <1>3
<1>4. CASE Quieten \/ Age \/ LockExpires \/ (\E g \in Grants : Withdraw(g)) \/ UNCHANGED vars
  BY <1>1, <1>2, <1>4 DEF Quieten, Age, LockExpires, Withdraw, vars, worker, Credential
<1>5. ASSUME NEW a \in Admins, Administer(a) PROVE DueInv'
  BY <1>1, <1>3, <1>5 DEF Administer, Begin, RevokeAtZoho, EndCredential, EndOnboarding, GiveUp,
                    SetRevoked, NoCredential, worker, Credential
<1>6. ASSUME NEW l \in Logins, Browse(l) PROVE DueInv'
  <2>1. CASE StoreCredential(l)
    <3>1. row'.grant = lgrant[l] /\ UNCHANGED <<pc, mine>>
      BY <2>1 DEF StoreCredential, worker
    <3>2. \A c \in Callers : mine[c] # lgrant[l]
      BY <2>1 DEF StoreCredential, GrantInv
    <3>3. QED
      BY <3>1, <3>2
  <2>2. QED
    BY <1>1, <1>6, <2>1 DEF Browse, Start, Abandon, Exchange, Fail, SetAuthorized, worker
<1>7. ASSUME NEW c \in Callers, Work(c) \/ Crash(c) PROVE DueInv'
  <2>1. CASE Store(c)
    <3>1. \A d \in Callers : pc'[d] \notin {"refresh", "store"}
      BY <2>1 DEF Store, LockInv, Critical
    <3>2. QED
      BY <3>1
  <2>2. CASE MarkRevoked(c)
    BY <2>2 DEF MarkRevoked, SetRevoked, Credential
  <2>3. CASE Reread(c)
    BY <2>3 DEF Reread
  <2>4. CASE Refresh(c)
    BY <2>4 DEF Refresh
  <2>5. CASE Release(c) \/ Crash(c)
    BY <2>5 DEF Release, Crash
  <2>6. CASE StartPass(c) \/ Get(c) \/ Acquire(c) \/ ReadResult(c)
    BY <2>6 DEF StartPass, Get, Acquire, ReadResult
  <2>7. QED
    BY <1>7, <2>1, <2>2, <2>3, <2>4, <2>5, <2>6 DEF Work
<1> QED
  BY <1>4, <1>5, <1>6, <1>7 DEF Next

\* As long as no refresh outlives the TTL, workers never refresh a grant twice:
\* whatever fails or crashes, and whoever logs in or is revoked meanwhile.
THEOREM RefreshesOnce ==
  ASSUME ~SlowRefresh
  PROVE  Spec => NoRedundantRefresh
<1>1. Init => LockInv /\ GrantInv /\ DueInv
  <2> SUFFICES ASSUME Init PROVE LockInv /\ GrantInv /\ DueInv
    OBVIOUS
  <2>1. Issued(row.grant)
    BY ConstantsAssumption DEF Init, Issued, NoCredential
  <2>2. QED
    BY <2>1 DEF Init, LockInv, GrantInv, DueInv, Critical, Issued
<1>2. TypeOK /\ LockInv /\ [Next]_vars => LockInv'
  BY NextLockInv
<1>3. TypeOK /\ LockInv /\ GrantInv /\ DueInv /\ [Next]_vars => DueInv'
  BY NextDueInv
<1>4. LockInv /\ DueInv =>
        [\A c \in Callers : pc[c] = "refresh" /\ pc'[c] = "store" =>
           /\ Active /\ row.grant = mine[c] => row.age = "due"
           /\ \A d \in Callers \ {c} : ~(pc[d] = "store" /\ mine[d] = mine[c])]_vars
  BY DEF LockInv, Critical, DueInv
<1> QED
  BY <1>1, <1>2, <1>3, <1>4, NextGrantInv, TypeCorrect, PTL DEF Spec, NoRedundantRefresh

-----------------------------------------------------------------------------
(* Revocation for cause.                                                    *)

\* Without a new login there is one grant, and a worker marks it revoked only
\* when it is dead.
CauseInv ==
  /\ Active => row.grant # None
  /\ \A c \in Callers :
       /\ pc[c] \in {"refresh", "store", "mark"} => mine[c] # None
       /\ mine[c] # None /\ row.grant # None => mine[c] = row.grant
       /\ pc[c] = "mark" => Worth(mine[c]) = "dead"
       /\ \A d \in Callers : mine[c] # None /\ mine[d] # None => mine[c] = mine[d]

\* What is dead stays dead.
LEMMA DeadStays ==
  ASSUME TypeOK, Logins = {}, [Next]_vars, NEW g \in OptGrant, Worth(g) = "dead"
  PROVE  Worth(g)' = "dead"
<1> USE ConstantsAssumption DEF TypeOK, Worth, OptGrant
<1>1. CASE UNCHANGED grant
  BY <1>1
<1>2. ASSUME NEW h \in Grants, Withdraw(h) PROVE Worth(g)' = "dead"
  BY <1>2 DEF Withdraw
<1>3. ASSUME NEW c \in Callers, Work(c) \/ Crash(c) PROVE UNCHANGED grant
  BY <1>3 DEF Work, StartPass, Get, Acquire, ReadResult, Reread, Refresh, Store, MarkRevoked,
              Release, Crash
<1>4. ASSUME NEW a \in Admins, Administer(a) PROVE Worth(g)' = "dead"
  <2>1. CASE RevokeAtZoho(a)
    BY <2>1 DEF RevokeAtZoho
  <2>2. QED
    BY <1>1, <1>4, <2>1 DEF Administer, Begin, EndCredential, EndOnboarding, GiveUp
<1>5. CASE Quieten \/ Age \/ LockExpires \/ UNCHANGED vars
  BY <1>1, <1>5 DEF Quieten, Age, LockExpires, vars
<1> QED
  BY <1>2, <1>3, <1>4, <1>5 DEF Next

\* The three facts about the single grant are inductive.
LEMMA NextCauseInv ==
  ASSUME Logins = {}, "client" \notin Faults, TypeOK, CauseInv, [Next]_vars
  PROVE  CauseInv'
<1>1. \A g \in OptGrant : Worth(g) = "dead" => Worth(g)' = "dead"
  BY DeadStays
<1>2. /\ row \in Credential /\ row.grant \in OptGrant
      /\ \A c \in Callers : mine[c] \in OptGrant
  BY DEF TypeOK, Credential
<1>3. CASE row' = row /\ UNCHANGED <<pc, mine>>
  BY <1>1, <1>2, <1>3 DEF CauseInv, Active
<1>4. CASE row'.grant = row.grant /\ (row'.state = "active" => Active) /\ UNCHANGED <<pc, mine>>
  BY <1>1, <1>2, <1>4 DEF CauseInv, Active
<1>5. CASE row' = NoCredential /\ UNCHANGED <<pc, mine>>
  BY <1>1, <1>2, <1>5 DEF CauseInv, Active, NoCredential
<1>6. CASE Quieten \/ Age \/ LockExpires \/ (\E g \in Grants : Withdraw(g)) \/ UNCHANGED vars
  BY <1>2, <1>3, <1>4, <1>6
  DEF Quieten, Age, LockExpires, Withdraw, vars, worker, Credential, Active
<1>7. ASSUME NEW a \in Admins, Administer(a) PROVE CauseInv'
  BY <1>2, <1>3, <1>4, <1>5, <1>7
  DEF Administer, Begin, RevokeAtZoho, EndCredential, EndOnboarding, GiveUp,
      SetRevoked, worker, Credential, Active
<1>8. ASSUME NEW c \in Callers, Work(c) \/ Crash(c) PROVE CauseInv'
  <2> USE DEF TypeOK, Goto
  <2>1. UNCHANGED grant
    BY <1>8 DEF Work, StartPass, Get, Acquire, ReadResult, Reread, Refresh, Store, MarkRevoked,
                Release, Crash
  <2>2. \A g : Worth(g)' = Worth(g)
    BY <2>1 DEF Worth
  <2>3. CASE StartPass(c) \/ Get(c) \/ Acquire(c) \/ ReadResult(c)
    BY <2>2, <2>3 DEF StartPass, Get, Acquire, ReadResult, CauseInv, Active
  <2>4. CASE Reread(c)
    BY <2>2, <2>4 DEF Reread, CauseInv, Active
  <2>5. CASE Refresh(c)
    <3>1. "client" \notin Faults => ~May("client")
      BY DEF May
    <3>2. UNCHANGED <<row, mine>> /\ (pc'[c] = "mark" => Worth(mine[c]) = "dead")
      BY <2>5, <3>1 DEF Refresh
    <3>3. pc[c] = "refresh" /\ \A d \in Callers \ {c} : pc'[d] = pc[d]
      BY <2>5 DEF Refresh
    <3>4. QED
      BY <2>2, <3>2, <3>3 DEF CauseInv, Active
  <2>6. CASE Store(c)
    BY <2>2, <2>6 DEF Store, CauseInv, Active
  <2>7. CASE MarkRevoked(c)
    <3>1. row'.grant = row.grant /\ (row'.state = "active" => Active) /\ UNCHANGED mine
      BY <1>2, <2>7 DEF MarkRevoked, SetRevoked, Credential, Active
    <3>2. pc' = [pc EXCEPT ![c] = "release"]
      BY <2>7 DEF MarkRevoked
    <3>3. QED
      BY <2>2, <3>1, <3>2 DEF CauseInv, Active
  <2>8. CASE Release(c) \/ Crash(c)
    BY <2>2, <2>8 DEF Release, Crash, CauseInv, Active
  <2>9. QED
    BY <1>8, <2>3, <2>4, <2>5, <2>6, <2>7, <2>8 DEF Work
<1> QED
  BY <1>6, <1>7, <1>8 DEF Next

\* While nobody authorizes anew and the client secret is right, workers disconnect
\* an employee only when Zoho has stopped honouring the grant, however slow, failing
\* or concurrent they are.
THEOREM DisconnectsForCause ==
  ASSUME Logins = {}, "client" \notin Faults
  PROVE  Spec => RevokedForCause
<1>1. Init => CauseInv
  <2> SUFFICES ASSUME Init PROVE CauseInv
    OBVIOUS
  <2>1. Active => row.grant # None
    BY ConstantsAssumption DEF Init, Active, NoCredential
  <2>2. QED
    BY <2>1 DEF Init, CauseInv
<1>2. TypeOK /\ CauseInv /\ [Next]_vars => CauseInv'
  BY NextCauseInv
<1>3. ASSUME TypeOK, CauseInv, [Next]_vars, Active, row'.state # "active", UNCHANGED admin
      PROVE  Worth(row.grant) = "dead"
  <2> USE DEF TypeOK, Active
  <2>1. ASSUME NEW c \in Callers, Work(c) \/ Crash(c) PROVE MarkRevoked(c)
    BY <1>3, <2>1 DEF Work, StartPass, Get, Acquire, ReadResult, Reread, Refresh, Store,
                      Release, Crash
  <2>2. ASSUME NEW c \in Callers, MarkRevoked(c) PROVE Worth(row.grant) = "dead"
    <3>1. Worth(mine[c]) = "dead" /\ mine[c] # None /\ row.grant # None
      BY <1>3, <2>2 DEF MarkRevoked, CauseInv
    <3>2. QED
      BY <1>3, <3>1 DEF CauseInv
  <2>3. ~(Quieten \/ Age \/ LockExpires \/ (\E g \in Grants : Withdraw(g)) \/ UNCHANGED vars)
    BY <1>3 DEF Quieten, Age, LockExpires, Withdraw, vars, Credential
  <2>4. ASSUME NEW a \in Admins, Administer(a) PROVE FALSE
    BY <1>3, <2>4 DEF Administer, Begin, RevokeAtZoho, EndCredential, EndOnboarding, GiveUp,
                      AGoto, admin
  <2> QED
    BY <1>3, <2>1, <2>2, <2>3, <2>4 DEF Next
<1>4. TypeOK /\ CauseInv /\ [Next]_vars =>
        [Active /\ row'.state # "active" /\ UNCHANGED admin => Worth(row.grant) = "dead"]_vars
  BY <1>3
<1> QED
  BY <1>1, <1>2, <1>4, TypeCorrect, PTL DEF Spec, RevokedForCause

=============================================================================
