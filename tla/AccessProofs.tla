---------------------------- MODULE AccessProofs ----------------------------
(* Theorems about who gets in, for every value of the constants: employees  *)
(* (Onboarding), administrators (AdminAccess), and the two side by side     *)
(* (MCAccess).                                                              *)
EXTENDS MCAccess, TLAPS

(***************************************************************************)
(* Onboarding.                                                             *)
(***************************************************************************)
-----------------------------------------------------------------------------
(* The inductive invariant.                                                 *)

\* A link that a tab has used is closed, and used by that tab alone; a tab has no
\* state in the table before its request of start is over.
TabInv ==
  /\ \A t \in Tabs : tpc[t] = "idle" => tlink[t] = NoLink
  /\ \A t \in Tabs : tpc[t] # "over" => stateRow[t] = "none"
  /\ \A t \in Tabs : tlink[t] # NoLink => linkRow[tlink[t]] = "closed"
  /\ \A t, u \in Tabs : tlink[t] = tlink[u] /\ tlink[t] # NoLink => t = u

\* A callback has consumed the state of its tab, and no other callback has.
CallbackInv ==
  /\ \A c \in Callbacks : cpc[c] # "idle" =>
       stateRow[ctab[c]] = "closed" /\ cacct[c] \in Accounts
  /\ \A c, d \in Callbacks :
       cpc[c] # "idle" /\ cpc[d] # "idle" /\ ctab[c] = ctab[d] => c = d

\* No code has been exchanged for a link that can still lead to an exchange.
SpentInv ==
  /\ \A l \in Links : exchanged[l] \in {0, 1}
  /\ \A l \in Links : linkRow[l] # "closed" => exchanged[l] = 0
  /\ \A t \in Tabs : tlink[t] # NoLink /\ stateRow[t] # "closed" => exchanged[tlink[t]] = 0
  /\ \A c \in Callbacks : cpc[c] \in {"lookup", "exchange"} => exchanged[LinkUsed(c)] = 0

\* What a callback has read of its employee's row is still so, but for a binding
\* to the account with the row's address; and it has recognised who signed in.
HasRead == {"exchange", "identity", "bind", "store"}

SeenInv ==
  \A c \in Callbacks :
    /\ cpc[c] \in HasRead =>
         IF cseen[c] # NoAccount
           THEN bound[EmployeeOf(c)] = cseen[c]
           ELSE bound[EmployeeOf(c)] \in {NoAccount, EmailOwner[EmployeeOf(c)]}
    /\ cpc[c] \in {"bind", "store"} => Recognised(EmployeeOf(c), cseen[c], cacct[c])

OnboardingInv == OnboardingTypeOK /\ TabInv /\ CallbackInv /\ SpentInv /\ SeenInv /\ CredentialBound

-----------------------------------------------------------------------------
(* The actions, grouped by what they leave alone.                           *)

Invitation(l) == CreateLink(l) \/ SendInvitation(l) \/ SetInvited(l)
Starting(t) == SetStarted(t) \/ CreateState(t) \/ \E l \in Links : ConsumeLink(t, l)

LEMMA OnboardingSteps ==
  ASSUME OnboardingNext
  PROVE  \/ \E l \in Links : Invitation(l)
         \/ \E t \in Tabs : Starting(t)
         \/ \E c \in Callbacks, t \in Tabs, a \in Accounts : ConsumeState(c, t, a)
         \/ \E c \in Callbacks : Callback(c)
         \/ Expire \/ Smooth
BY DEF OnboardingNext, Invitation, Starting

-----------------------------------------------------------------------------
(* The beginning.                                                           *)

LEMMA OnboardingInitInv == OnboardingInit => OnboardingInv
<1> SUFFICES ASSUME OnboardingInit PROVE OnboardingInv
  OBVIOUS
<1> USE OnboardingAssumption
<1>1. smooth \in BOOLEAN
  <2>1. smooth = FALSE
    BY DEF OnboardingInit
  <2>2. QED
    BY <2>1
<1>2. OnboardingTypeOK
  BY <1>1 DEF OnboardingInit, OnboardingTypeOK, Bound, Status, Secret, CallbackStages
<1>3. TabInv /\ CallbackInv
  BY DEF OnboardingInit, TabInv, CallbackInv
<1>4. SpentInv /\ SeenInv /\ CredentialBound
  BY DEF OnboardingInit, SpentInv, SeenInv, HasRead, CredentialBound
<1>5. QED
  BY <1>2, <1>3, <1>4 DEF OnboardingInv

-----------------------------------------------------------------------------
(* Invitations: they only open links that have never been there.            *)

LEMMA InvitationStep ==
  ASSUME OnboardingInv, NEW l \in Links, Invitation(l)
  PROVE  OnboardingInv'
<1> USE OnboardingAssumption DEF startVars, callbackVars
<1>1. OnboardingTypeOK'
  <2> USE DEF OnboardingInv, OnboardingTypeOK, Status, Secret, SetOnboardingStatus
  <2>1. CASE CreateLink(l)
    BY <2>1 DEF CreateLink
  <2>2. CASE SendInvitation(l)
    BY <2>2 DEF SendInvitation
  <2>3. CASE SetInvited(l)
    BY <2>3 DEF SetInvited
  <2>4. QED
    BY <2>1, <2>2, <2>3 DEF Invitation
<1>2. /\ UNCHANGED <<bound, stored, stateRow, tpc, tlink, cpc, ctab, cseen, cacct, exchanged>>
      /\ \A k \in Links : linkRow'[k] = linkRow[k] \/ linkRow[k] = "none"
  BY DEF OnboardingInv, OnboardingTypeOK, Invitation, CreateLink, SendInvitation, SetInvited
<1>3. TabInv' /\ CallbackInv'
  BY <1>2 DEF OnboardingInv, OnboardingTypeOK, TabInv, CallbackInv
<1>4. SpentInv'
  BY <1>2 DEF OnboardingInv, SpentInv, LinkUsed
<1>5. SeenInv' /\ CredentialBound'
  BY <1>2 DEF OnboardingInv, SeenInv, HasRead, CredentialBound, EmployeeOf, LinkUsed, Recognised
<1>6. QED
  BY <1>1, <1>3, <1>4, <1>5 DEF OnboardingInv

-----------------------------------------------------------------------------
(* start.                                                                   *)

LEMMA StartingStep ==
  ASSUME OnboardingInv, NEW t \in Tabs, Starting(t)
  PROVE  OnboardingInv'
<1> USE OnboardingAssumption DEF startVars, callbackVars
<1>1. OnboardingTypeOK'
  <2> USE DEF OnboardingInv, OnboardingTypeOK, TabInv, Status, Secret, SetOnboardingStatus
  <2>1. ASSUME NEW l \in Links, ConsumeLink(t, l) PROVE OnboardingTypeOK'
    <3>1. \A c \in Callbacks : cpc[c] # "idle" => ctab[c] # t
      BY <2>1 DEF ConsumeLink
    <3>2. QED
      BY <2>1, <3>1 DEF ConsumeLink
  <2>2. CASE SetStarted(t)
    BY <2>2 DEF SetStarted
  <2>3. CASE CreateState(t)
    BY <2>3 DEF CreateState
  <2>4. QED
    BY <2>1, <2>2, <2>3 DEF Starting
<1>2. UNCHANGED <<bound, stored, cpc, ctab, cseen, cacct, exchanged>>
  BY DEF Starting, ConsumeLink, SetStarted, CreateState
<1>3. ASSUME NEW c \in Callbacks, cpc[c] # "idle" PROVE ctab[c] \in Tabs /\ tpc[ctab[c]] = "over"
  BY <1>3 DEF OnboardingInv, OnboardingTypeOK, TabInv, CallbackInv
<1>4. /\ tpc[t] # "over"
      /\ \A u \in Tabs : u # t => tlink'[u] = tlink[u] /\ stateRow'[u] = stateRow[u]
  BY DEF OnboardingInv, OnboardingTypeOK, Starting, ConsumeLink, SetStarted, CreateState
<1>5. ASSUME NEW c \in Callbacks, cpc[c] # "idle"
      PROVE  LinkUsed(c)' = LinkUsed(c) /\ stateRow'[ctab[c]] = stateRow[ctab[c]]
  BY <1>2, <1>3, <1>4, <1>5 DEF LinkUsed
<1>6. TabInv'
  <2> USE DEF OnboardingInv, OnboardingTypeOK, TabInv
  <2>1. ASSUME NEW l \in Links, ConsumeLink(t, l) PROVE TabInv'
    BY <2>1 DEF ConsumeLink
  <2>2. CASE SetStarted(t)
    BY <2>2 DEF SetStarted
  <2>3. CASE CreateState(t)
    BY <2>3 DEF CreateState
  <2>4. QED
    BY <2>1, <2>2, <2>3 DEF Starting
<1>7. CallbackInv'
  BY <1>2, <1>5 DEF OnboardingInv, CallbackInv
<1>8. SpentInv'
  <2>1. \A c \in Callbacks : cpc'[c] \in {"lookup", "exchange"} => exchanged'[LinkUsed(c)'] = 0
    BY <1>2, <1>5 DEF OnboardingInv, SpentInv
  <2>2. \A l \in Links : linkRow'[l] # "closed" => linkRow[l] # "closed"
    BY DEF OnboardingInv, OnboardingTypeOK, Starting, ConsumeLink, SetStarted, CreateState
  <2>3. ASSUME NEW u \in Tabs, tlink'[u] # NoLink, stateRow'[u] # "closed"
        PROVE  exchanged[tlink'[u]] = 0
    <3>1. CASE tlink'[u] = tlink[u]
      BY <2>3, <3>1, <1>4 DEF OnboardingInv, SpentInv, TabInv
    <3>2. ASSUME NEW l \in Links, ConsumeLink(t, l), u = t PROVE exchanged[tlink'[u]] = 0
      BY <3>2 DEF ConsumeLink, OnboardingInv, OnboardingTypeOK, SpentInv
    <3>3. QED
      BY <3>1, <3>2, <1>4 DEF Starting, SetStarted, CreateState
  <2>4. QED
    BY <1>2, <2>1, <2>2, <2>3 DEF OnboardingInv, SpentInv
<1>9. SeenInv' /\ CredentialBound'
  <2>1. \A c \in Callbacks : cpc[c] # "idle" => EmployeeOf(c)' = EmployeeOf(c)
    BY <1>5 DEF EmployeeOf
  <2>2. QED
    BY <1>2, <2>1 DEF OnboardingInv, SeenInv, HasRead, CredentialBound, Recognised
<1>10. QED
  BY <1>1, <1>6, <1>7, <1>8, <1>9 DEF OnboardingInv

-----------------------------------------------------------------------------
(* callback.                                                                *)

LEMMA ConsumeStateStep ==
  ASSUME OnboardingInv, NEW c \in Callbacks, NEW t \in Tabs, NEW a \in Accounts, ConsumeState(c, t, a)
  PROVE  OnboardingInv'
<1> USE OnboardingAssumption DEF ConsumeState, CallbackAt
<1>1. stateRow[t] = "open" /\ tpc[t] = "over" /\ tlink[t] \in Links
  BY DEF OnboardingInv, OnboardingTypeOK, TabInv
<1>2. OnboardingTypeOK'
  BY <1>1 DEF OnboardingInv, OnboardingTypeOK, Secret, CallbackStages, Bound
<1>3. TabInv'
  BY <1>1 DEF OnboardingInv, OnboardingTypeOK, TabInv
<1>4. \A d \in Callbacks : cpc[d] # "idle" => ctab[d] # t
  BY <1>1 DEF OnboardingInv, CallbackInv
<1>5. CallbackInv'
  BY <1>1, <1>4 DEF OnboardingInv, OnboardingTypeOK, CallbackInv
<1>6. exchanged[tlink[t]] = 0
  BY <1>1 DEF OnboardingInv, OnboardingTypeOK, SpentInv
<1>7. SpentInv'
  BY <1>1, <1>6 DEF OnboardingInv, OnboardingTypeOK, SpentInv, LinkUsed
<1>8. SeenInv' /\ CredentialBound'
  BY DEF OnboardingInv, OnboardingTypeOK, SeenInv, HasRead, CredentialBound, EmployeeOf, LinkUsed, Recognised
<1>9. QED
  BY <1>2, <1>3, <1>5, <1>7, <1>8 DEF OnboardingInv

\* The steps of a callback keep the types.
LEMMA CallbackType ==
  ASSUME OnboardingInv, NEW c \in Callbacks, Callback(c)
  PROVE  OnboardingTypeOK'
<1> USE OnboardingAssumption
    DEF OnboardingInv, OnboardingTypeOK, CallbackStages, Bound, CallbackAt, rowVars, startVars
<1>1. cpc[c] # "idle" /\ ctab[c] \in Tabs /\ LinkUsed(c) \in Links /\ EmployeeOf(c) \in Employees
  BY DEF Callback, LookUpEmployee, ExchangeCode, VerifyIdentity, BindAccount, StoreCredential,
     FinishCallback, LinkUsed, EmployeeOf
<1>2. CASE LookUpEmployee(c)
  BY <1>1, <1>2 DEF LookUpEmployee
<1>3. CASE ExchangeCode(c)
  BY <1>1, <1>3 DEF ExchangeCode
<1>4. CASE VerifyIdentity(c)
  BY <1>4 DEF VerifyIdentity
<1>5. CASE BindAccount(c)
  BY <1>5 DEF BindAccount
<1>6. CASE StoreCredential(c)
  BY <1>6 DEF StoreCredential
<1>7. CASE FinishCallback(c)
  BY <1>7 DEF FinishCallback, SetOnboardingStatus, Status
<1>8. QED
  BY <1>2, <1>3, <1>4, <1>5, <1>6, <1>7 DEF Callback

\* They leave the tables of links and states alone, and go forward.
LEMMA CallbackFrame ==
  ASSUME OnboardingInv, NEW c \in Callbacks, Callback(c)
  PROVE  /\ UNCHANGED <<linkRow, stateRow, tpc, tlink>>
         /\ cpc[c] # "idle" /\ ctab[c] \in Tabs /\ LinkUsed(c) \in Links
         /\ EmployeeOf(c) \in Employees
         /\ \A d \in Callbacks : d # c =>
              /\ cpc'[d] = cpc[d] /\ ctab'[d] = ctab[d]
              /\ cseen'[d] = cseen[d] /\ cacct'[d] = cacct[d]
         /\ cpc'[c] # "idle" => ctab'[c] = ctab[c] /\ cacct'[c] = cacct[c]
         /\ cpc'[c] # "lookup"
         /\ cpc'[c] = "exchange" => cpc[c] = "lookup"
BY OnboardingAssumption
   DEF OnboardingInv, OnboardingTypeOK, Callback, LookUpEmployee, ExchangeCode, VerifyIdentity,
   BindAccount, StoreCredential, FinishCallback, CallbackAt, LinkUsed, EmployeeOf, rowVars,
   startVars

LEMMA CallbackSpent ==
  ASSUME OnboardingInv, NEW c \in Callbacks, Callback(c)
  PROVE  TabInv' /\ CallbackInv' /\ SpentInv'
<1>1. TabInv'
  BY CallbackFrame DEF OnboardingInv, TabInv
<1>2. CallbackInv'
  BY CallbackFrame DEF OnboardingInv, CallbackInv
<1>3. \A d \in Callbacks : cpc'[d] # "idle" => LinkUsed(d)' = LinkUsed(d)
  BY CallbackFrame DEF LinkUsed
<1>4. CASE ExchangeCode(c) /\ exchanged' # exchanged
  <2>1. /\ exchanged' = [exchanged EXCEPT ![LinkUsed(c)] = @ + 1]
        /\ exchanged[LinkUsed(c)] = 0 /\ cpc'[c] = "identity"
    BY <1>4 DEF ExchangeCode, CallbackAt, OnboardingInv, OnboardingTypeOK, SpentInv
  <2>2. linkRow[LinkUsed(c)] = "closed" /\ stateRow[ctab[c]] = "closed"
    BY CallbackFrame, OnboardingAssumption DEF OnboardingInv, TabInv, CallbackInv, LinkUsed
  <2>3. \A u \in Tabs : tlink[u] = LinkUsed(c) => u = ctab[c]
    BY CallbackFrame, OnboardingAssumption DEF OnboardingInv, TabInv, LinkUsed
  <2>4. \A d \in Callbacks : d # c /\ cpc[d] # "idle" => LinkUsed(d) # LinkUsed(c)
    BY CallbackFrame, <2>3 DEF OnboardingInv, CallbackInv, OnboardingTypeOK, LinkUsed
  <2>5. \A l \in Links : exchanged'[l] = IF l = LinkUsed(c) THEN 1 ELSE exchanged[l]
    BY <2>1, CallbackFrame DEF OnboardingInv, OnboardingTypeOK
  <2>6. \A l \in Links : exchanged'[l] \in {0, 1} /\ (linkRow'[l] # "closed" => exchanged'[l] = 0)
    BY <2>2, <2>5, CallbackFrame DEF OnboardingInv, SpentInv
  <2>7. \A u \in Tabs : tlink'[u] # NoLink /\ stateRow'[u] # "closed" => exchanged'[tlink'[u]] = 0
    BY <2>2, <2>3, <2>5, CallbackFrame DEF OnboardingInv, SpentInv, OnboardingTypeOK
  <2>8. \A d \in Callbacks : cpc'[d] \in {"lookup", "exchange"} => exchanged'[LinkUsed(d)'] = 0
    BY <1>3, <2>1, <2>4, <2>5, CallbackFrame DEF OnboardingInv, SpentInv, OnboardingTypeOK, LinkUsed
  <2>9. QED
    BY <1>1, <1>2, <2>6, <2>7, <2>8 DEF SpentInv
<1>5. CASE exchanged' = exchanged
  <2>1. \A d \in Callbacks : cpc'[d] \in {"lookup", "exchange"} => cpc[d] \in {"lookup", "exchange"}
    BY CallbackFrame
  <2>2. \A d \in Callbacks : cpc'[d] \in {"lookup", "exchange"} => exchanged'[LinkUsed(d)'] = 0
    BY <1>3, <1>5, <2>1 DEF OnboardingInv, SpentInv
  <2>3. QED
    BY <1>1, <1>2, <1>5, <2>2, CallbackFrame DEF OnboardingInv, SpentInv
<1>6. ExchangeCode(c) \/ exchanged' = exchanged
  BY DEF Callback, LookUpEmployee, VerifyIdentity, BindAccount, StoreCredential, FinishCallback
<1>7. QED
  BY <1>4, <1>5, <1>6

\* Only a binding writes bound, and it binds to the account of the address a row
\* that was unbound, or bound to that account already.
LEMMA Binds ==
  ASSUME OnboardingInv, NEW c \in Callbacks, Callback(c), bound' # bound
  PROVE  /\ cpc[c] = "bind" /\ cpc'[c] = "store" /\ UNCHANGED <<stored, cseen, cacct, ctab>>
         /\ cseen[c] = NoAccount /\ cacct[c] = EmailOwner[EmployeeOf(c)]
         /\ cacct[c] \in Accounts
         /\ bound[EmployeeOf(c)] \in {NoAccount, EmailOwner[EmployeeOf(c)]}
         /\ bound' = [bound EXCEPT ![EmployeeOf(c)] = EmailOwner[EmployeeOf(c)]]
<1>1. BindAccount(c)
  BY DEF Callback, LookUpEmployee, ExchangeCode, VerifyIdentity, StoreCredential, FinishCallback
<1>2. /\ cpc[c] = "bind" /\ cpc'[c] = "store" /\ UNCHANGED <<stored, cseen, cacct, ctab>>
      /\ cseen[c] = NoAccount
      /\ bound' = [bound EXCEPT ![EmployeeOf(c)] = cacct[c]]
  BY <1>1 DEF BindAccount, CallbackAt, OnboardingInv, OnboardingTypeOK
<1>3. QED
  BY <1>2 DEF OnboardingInv, SeenInv, HasRead, Recognised, CallbackInv

LEMMA CallbackSeen ==
  ASSUME OnboardingInv, NEW c \in Callbacks, Callback(c)
  PROVE  SeenInv'
<1> DEFINE Seen(d, e, b, s) == IF s # NoAccount THEN b[e] = s ELSE b[e] \in {NoAccount, EmailOwner[e]}
<1>1. \A d \in Callbacks : cpc'[d] # "idle" => EmployeeOf(d)' = EmployeeOf(d)
  BY CallbackFrame DEF LinkUsed, EmployeeOf
<1>2. ASSUME NEW d \in Callbacks, cpc[d] \in HasRead PROVE Seen(d, EmployeeOf(d), bound', cseen[d])
  <2>1. Seen(d, EmployeeOf(d), bound, cseen[d])
    BY <1>2 DEF OnboardingInv, SeenInv
  <2>2. CASE bound' = bound
    BY <2>1, <2>2
  <2>3. CASE bound' # bound
    <3>1. EmployeeOf(d) \in Employees /\ EmployeeOf(c) \in Employees
      BY <1>2, OnboardingAssumption, CallbackFrame
         DEF HasRead, OnboardingInv, OnboardingTypeOK, EmployeeOf, LinkUsed
    <3>2. /\ bound[EmployeeOf(c)] \in {NoAccount, EmailOwner[EmployeeOf(c)]}
          /\ bound' = [bound EXCEPT ![EmployeeOf(c)] = EmailOwner[EmployeeOf(c)]]
      BY <2>3, Binds
    <3>3. \A e \in Employees :
            bound'[e] = IF e = EmployeeOf(c) THEN EmailOwner[e] ELSE bound[e]
      BY <3>1, <3>2 DEF OnboardingInv, OnboardingTypeOK
    <3>4. QED
      BY <2>1, <3>1, <3>2, <3>3
  <2>4. QED
    BY <2>2, <2>3
<1>3. ASSUME NEW d \in Callbacks, d # c
      PROVE  /\ cpc'[d] \in HasRead => Seen(d, EmployeeOf(d)', bound', cseen'[d])
             /\ cpc'[d] \in {"bind", "store"} => Recognised(EmployeeOf(d)', cseen'[d], cacct'[d])
  <2>1. cpc'[d] = cpc[d] /\ cseen'[d] = cseen[d] /\ cacct'[d] = cacct[d]
    BY <1>3, CallbackFrame
  <2>2. cpc'[d] \in HasRead => Seen(d, EmployeeOf(d)', bound', cseen'[d])
    BY <1>1, <1>2, <2>1 DEF HasRead
  <2>3. cpc'[d] \in {"bind", "store"} => Recognised(EmployeeOf(d)', cseen'[d], cacct'[d])
    BY <1>1, <2>1 DEF OnboardingInv, SeenInv, Recognised
  <2>4. QED
    BY <2>2, <2>3
<1>4. /\ cpc'[c] \in HasRead => Seen(c, EmployeeOf(c), bound', cseen'[c])
      /\ cpc'[c] \in {"bind", "store"} => Recognised(EmployeeOf(c), cseen'[c], cacct'[c])
  <2> USE DEF OnboardingInv, OnboardingTypeOK, CallbackAt, HasRead
  <2>1. CASE LookUpEmployee(c)
    BY <2>1 DEF LookUpEmployee
  <2>2. CASE ExchangeCode(c)
    BY <2>2, <1>2 DEF ExchangeCode
  <2>3. CASE VerifyIdentity(c)
    BY <2>3, <1>2 DEF VerifyIdentity
  <2>4. CASE BindAccount(c)
    <3>1. cpc[c] = "bind" /\ cpc'[c] = "store" /\ UNCHANGED <<cseen, cacct>>
      BY <2>4 DEF BindAccount
    <3>2. Recognised(EmployeeOf(c), cseen[c], cacct[c])
      BY <3>1 DEF SeenInv
    <3>3. QED
      BY <1>2, <3>1, <3>2
  <2>5. CASE StoreCredential(c)
    BY <2>5 DEF StoreCredential
  <2>6. CASE FinishCallback(c)
    BY <2>6 DEF FinishCallback
  <2>7. QED
    BY <2>1, <2>2, <2>3, <2>4, <2>5, <2>6 DEF Callback
<1>5. QED
  <2>1. ASSUME NEW d \in Callbacks
        PROVE  /\ cpc'[d] \in HasRead => Seen(d, EmployeeOf(d)', bound', cseen'[d])
               /\ cpc'[d] \in {"bind", "store"} => Recognised(EmployeeOf(d)', cseen'[d], cacct'[d])
    <3>1. CASE d # c
      BY <1>3, <3>1
    <3>2. CASE d = c
      BY <1>1, <1>4, <3>2 DEF HasRead
    <3>3. QED
      BY <3>1, <3>2
  <2>2. QED
    BY <2>1 DEF SeenInv, Recognised, HasRead

LEMMA CallbackBound ==
  ASSUME OnboardingInv, NEW c \in Callbacks, Callback(c)
  PROVE  CredentialBound'
<1>1. CASE bound' # bound
  BY <1>1, Binds, CallbackFrame DEF OnboardingInv, OnboardingTypeOK, CredentialBound
<1>2. CASE bound' = bound /\ stored' = stored
  BY <1>2 DEF OnboardingInv, CredentialBound
<1>3. CASE bound' = bound /\ stored' # stored
  <2>1. StoreCredential(c) /\ cpc[c] = "store" /\ stored' = [stored EXCEPT ![EmployeeOf(c)] = cacct[c]]
    BY <1>3 DEF Callback, LookUpEmployee, ExchangeCode, VerifyIdentity, BindAccount,
       StoreCredential, FinishCallback
  <2>2. \/ cacct[c] = bound[EmployeeOf(c)]
        \/ bound[EmployeeOf(c)] = NoAccount /\ cacct[c] = EmailOwner[EmployeeOf(c)]
    BY <2>1 DEF OnboardingInv, SeenInv, HasRead, Recognised
  <2>3. QED
    BY <1>3, <2>1, <2>2 DEF OnboardingInv, OnboardingTypeOK, CredentialBound
<1>4. QED
  BY <1>1, <1>2, <1>3

-----------------------------------------------------------------------------
(* Expiry, and the end of it.                                               *)

LEMMA ExpireStep ==
  ASSUME OnboardingInv, Expire \/ Smooth
  PROVE  OnboardingInv'
<1> USE DEF startVars, callbackVars
<1>1. OnboardingTypeOK'
  <2>1. OnboardingTypeOK
    BY DEF OnboardingInv
  <2>2. linkRow' \in [Links -> Secret] /\ stateRow' \in [Tabs -> Secret]
    BY <2>1 DEF OnboardingTypeOK, Expire, Smooth, Secret
  <2>3. smooth' \in BOOLEAN
    BY <2>1, Zenon DEF OnboardingTypeOK, Expire, Smooth
  <2>4. UNCHANGED <<bound, status, stored, ipc, mailed, tpc, tlink, cpc, ctab, cseen, cacct, exchanged>>
    BY DEF Expire, Smooth
  <2>5. QED
    BY <2>1, <2>2, <2>3, <2>4 DEF OnboardingTypeOK
<1>2. /\ UNCHANGED <<bound, stored, tpc, tlink, cpc, ctab, cseen, cacct, exchanged>>
      /\ \A l \in Links : linkRow'[l] = linkRow[l] \/ linkRow'[l] = "closed"
      /\ \A t \in Tabs : \/ stateRow'[t] = stateRow[t]
                         \/ stateRow[t] = "open" /\ stateRow'[t] = "closed"
  BY DEF OnboardingInv, OnboardingTypeOK, Expire, Smooth
<1>3. TabInv' /\ CallbackInv'
  BY <1>2, OnboardingAssumption DEF OnboardingInv, OnboardingTypeOK, TabInv, CallbackInv
<1>4. SpentInv'
  BY <1>2 DEF OnboardingInv, SpentInv, LinkUsed
<1>5. SeenInv' /\ CredentialBound'
  BY <1>2 DEF OnboardingInv, SeenInv, HasRead, CredentialBound, EmployeeOf, LinkUsed, Recognised
<1>6. QED
  BY <1>1, <1>3, <1>4, <1>5 DEF OnboardingInv

-----------------------------------------------------------------------------
(* The theorems.                                                            *)

LEMMA OnboardingUnmoved == OnboardingInv /\ UNCHANGED loginVars => OnboardingInv'
BY DEF OnboardingInv, OnboardingTypeOK, TabInv, CallbackInv, SpentInv, SeenInv, CredentialBound,
   EmployeeOf, LinkUsed, loginVars

\* The invariant owes nothing to fairness.
LEMMA OnboardingSafe == OnboardingInit /\ [][OnboardingNext]_loginVars => []OnboardingInv
<1>1. OnboardingInv /\ [OnboardingNext]_loginVars => OnboardingInv'
  <2>1. ASSUME OnboardingInv, NEW c \in Callbacks, Callback(c) PROVE OnboardingInv'
    BY <2>1, CallbackType, CallbackSpent, CallbackSeen, CallbackBound DEF OnboardingInv
  <2>2. OnboardingInv /\ OnboardingNext => OnboardingInv'
    BY <2>1, OnboardingSteps, InvitationStep, StartingStep, ConsumeStateStep, ExpireStep
  <2>3. QED
    BY <2>2, OnboardingUnmoved
<1>2. QED
  BY <1>1, OnboardingInitInv, PTL

LEMMA OnboardingInvariant == OnboardingSpec => []OnboardingInv
BY OnboardingSafe, PTL DEF OnboardingSpec

\* In every reachable state the variables have their types; a callback always has
\* a tab whose link says for whom it is.
THEOREM OnboardingTyped == OnboardingSpec => []OnboardingTypeOK
BY OnboardingInvariant, PTL DEF OnboardingInv

\* At most one code is exchanged thanks to an invitation, for any number of tabs
\* and callbacks (onboarding/repo.go and oauth/staterepo.go, Consume).
THEOREM LinksSingleUse == OnboardingSpec => []LinkAuthorizesOnce
<1>1. OnboardingInv => LinkAuthorizesOnce
  BY DEF OnboardingInv, SpentInv, LinkAuthorizesOnce
<1>2. QED
  BY <1>1, OnboardingInvariant, PTL

\* A stored credential is of the account its row is bound to, or, where binding
\* failed, of the account with the row's address (VerifyBinding, SetZohoUserID).
THEOREM CredentialsBound == OnboardingSpec => []CredentialBound
BY OnboardingInvariant, PTL DEF OnboardingInv

(***************************************************************************)
(* AdminAccess.                                                            *)
(***************************************************************************)
-----------------------------------------------------------------------------
(* The inductive invariant.                                                 *)

\* The state cookie of a browser is of an attempt begun in it.
StateInv ==
  \A b \in Browsers : stateCookie[b] # NoAttempt => begunIn[stateCookie[b]] = b

\* A callback at work expects the nonce of an attempt begun in its browser, and has a
\* code that somebody has signed in for.
AtWork(r) == lpc[r] \notin {"new", "over"}

LoginInv ==
  \A r \in Returns : AtWork(r) =>
    /\ lbrowser[r] \in Browsers
    /\ lnonce[r] \in Attempts /\ begunIn[lnonce[r]] = lbrowser[r]
    /\ lcode[r] \in Attempts /\ signer[lcode[r]] # NoPerson

\* What a cookie says was settled by a callback that is over, and a callback is for
\* one person only: two cookies of one callback are of the same person.
SettledCookie(c) ==
  /\ c.id \in Returns /\ c.who \in Persons
  /\ lpc[c.id] = "over" /\ lcode[c.id] \in Attempts /\ PersonOf(c.id) = c.who

SessionInv == \A b \in Browsers : session[b] # NoCookie => SettledCookie(session[b])
PageInv == \A x \in page : SettledCookie(x[2])

AdminAccessInv ==
  AdminAccessTypeOK /\ StateInv /\ LoginInv /\ SessionInv /\ PageInv /\ SessionOfSignedIn

-----------------------------------------------------------------------------
(* The actions, grouped by what they leave alone.                           *)

CheckSome(r) == \E b \in Browsers, s, a \in Attempts : CheckState(r, b, s, a)
SignInSome(a) == \E p \in Persons : SignIn(a, p)
RequestSome(b) == \E what \in Commands : Request(b, what)

LEMMA AdminAccessSteps ==
  ASSUME AdminAccessNext
  PROVE  \/ RotateKey \/ Steady
         \/ \E a \in Attempts : SignInSome(a)
         \/ \E b \in Browsers, a \in Attempts : StartLogin(b, a)
         \/ \E r \in Returns : LoginStep(r) \/ CheckSome(r)
         \/ \E b \in Browsers : ExpireState(b) \/ EndSession(b) \/ OpenPage(b) \/ RequestSome(b)
BY DEF AdminAccessNext, CheckSome, SignInSome, RequestSome

-----------------------------------------------------------------------------
(* Type correctness.                                                        *)

LEMMA AdminAccessInitType == AdminAccessInit => AdminAccessTypeOK
<1> SUFFICES ASSUME AdminAccessInit PROVE AdminAccessTypeOK
  OBVIOUS
<1> USE AdminAccessAssumption
<1>1. steady \in BOOLEAN
  <2>1. steady = FALSE
    BY DEF AdminAccessInit
  <2>2. QED
    BY <2>1
<1>2. session \in [Browsers -> Cookie]
  BY DEF AdminAccessInit, Cookie, NoCookie
<1>3. QED
  BY <1>1, <1>2 DEF AdminAccessInit, AdminAccessTypeOK, CallbackStage

\* The steps of one callback keep the types.
LEMMA LoginType ==
  ASSUME AdminAccessTypeOK, LoginInv, NEW r \in Returns, LoginStep(r) \/ CheckSome(r)
  PROVE  AdminAccessTypeOK'
<1> USE AdminAccessAssumption
    DEF AdminAccessTypeOK, CallbackStage, LoginAt, providerVars, loginReg
<1>1. ASSUME NEW b \in Browsers, NEW s \in Attempts, NEW a \in Attempts, CheckState(r, b, s, a)
      PROVE  AdminAccessTypeOK'
  <2>1. /\ lpc' \in [Returns -> CallbackStage]
        /\ lbrowser' \in [Returns -> Browsers \cup {NoBrowser}]
        /\ lcode' \in [Returns -> Attempts \cup {NoAttempt}]
        /\ lnonce' \in [Returns -> Attempts \cup {NoAttempt}]
    BY <1>1 DEF CheckState
  <2>2. QED
    BY <1>1, <2>1 DEF CheckState
<1>2. CASE ExchangeLoginCode(r)
  <2>1. lcode[r] \in Attempts
    BY <1>2 DEF ExchangeLoginCode, LoginInv, AtWork
  <2>2. spent' \subseteq Attempts
    BY <1>2, <2>1 DEF ExchangeLoginCode
  <2>3. lpc' \in [Returns -> CallbackStage] /\ lkid' \in [Returns -> Keys \cup {NoKey}]
    BY <1>2 DEF ExchangeLoginCode
  <2>4. QED
    BY <1>2, <2>2, <2>3 DEF ExchangeLoginCode
<1>3. CASE FindKey(r)
  BY <1>3 DEF FindKey
<1>4. CASE FetchKeys(r)
  BY <1>4 DEF FetchKeys
<1>5. CASE InstallKeys(r)
  BY <1>5 DEF InstallKeys
<1>6. CASE FindKeyAgain(r)
  BY <1>6 DEF FindKeyAgain
<1>7. CASE MapAndIssue(r)
  <2>1. [who |-> PersonOf(r), id |-> r] \in Cookie
    BY <1>7 DEF MapAndIssue, LoginInv, AtWork, PersonOf, Cookie
  <2>2. session' \in [Browsers -> Cookie]
    BY <1>7, <2>1 DEF MapAndIssue
  <2>3. /\ stateCookie' \in [Browsers -> Attempts \cup {NoAttempt}]
        /\ lpc' \in [Returns -> CallbackStage]
    BY <1>7 DEF MapAndIssue
  <2>4. QED
    BY <1>7, <2>2, <2>3 DEF MapAndIssue
<1>8. QED
  BY <1>1, <1>2, <1>3, <1>4, <1>5, <1>6, <1>7 DEF LoginStep, CheckSome

\* So does what a browser does with its cookies and pages.  A request is of
\* somebody: a session that is not empty has been settled.
LEMMA BrowserType ==
  ASSUME AdminAccessTypeOK, SessionInv, PageInv, NEW b \in Browsers,
         ExpireState(b) \/ EndSession(b) \/ OpenPage(b) \/ RequestSome(b)
  PROVE  AdminAccessTypeOK'
<1> USE AdminAccessAssumption DEF AdminAccessTypeOK, providerVars, loginReg
<1>1. CASE ExpireState(b)
  BY <1>1 DEF ExpireState
<1>2. CASE EndSession(b)
  <2>1. NoCookie \in Cookie
    BY DEF NoCookie, Cookie
  <2>2. QED
    BY <1>2, <2>1 DEF EndSession
<1>3. CASE OpenPage(b)
  BY <1>3 DEF OpenPage
<1>4. ASSUME NEW what \in Commands, Request(b, what) PROVE AdminAccessTypeOK'
  <2>1. PICK x \in page :
          done' = done \cup {[for |-> session[b].who, of |-> x[2].who, what |-> what]}
    BY <1>4 DEF Request
  <2>2. session[b].who \in Persons /\ x[2].who \in Persons
    BY <1>4 DEF Request, SessionInv, PageInv, SettledCookie
  <2>3. done' \subseteq [for: Persons, of: Persons, what: Commands]
    BY <2>1, <2>2
  <2>4. QED
    BY <1>4, <2>3 DEF Request
<1>5. QED
  BY <1>1, <1>2, <1>3, <1>4 DEF RequestSome

\* And the beginning of an attempt, at the server and at the provider.
LEMMA AttemptType ==
  ASSUME AdminAccessTypeOK, NEW a \in Attempts,
         SignInSome(a) \/ \E b \in Browsers : StartLogin(b, a)
  PROVE  AdminAccessTypeOK'
<1> USE AdminAccessAssumption DEF AdminAccessTypeOK, providerVars, loginReg
<1>1. CASE SignInSome(a)
  BY <1>1 DEF SignInSome, SignIn
<1>2. ASSUME NEW b \in Browsers, StartLogin(b, a) PROVE AdminAccessTypeOK'
  BY <1>2 DEF StartLogin
<1>3. QED
  BY <1>1, <1>2

LEMMA WorldType ==
  ASSUME AdminAccessTypeOK, RotateKey \/ Steady
  PROVE  AdminAccessTypeOK'
<1> USE DEF AdminAccessTypeOK, providerVars, loginReg
<1>1. CASE RotateKey
  BY <1>1 DEF RotateKey
<1>2. CASE Steady
  BY <1>2 DEF Steady
<1>3. QED
  BY <1>1, <1>2

LEMMA TypeKept == AdminAccessInv /\ AdminAccessNext => AdminAccessTypeOK'
BY AdminAccessSteps, LoginType, BrowserType, AttemptType, WorldType DEF AdminAccessInv

-----------------------------------------------------------------------------
(* Who has begun an attempt, and who has signed in.                         *)

LEMMA AdminAccessInitInv ==
  AdminAccessInit => StateInv /\ LoginInv /\ SessionInv /\ PageInv /\ SessionOfSignedIn
BY DEF AdminAccessInit, StateInv, LoginInv, AtWork, SessionInv, PageInv, SessionOfSignedIn

\* Neither is ever changed.
LEMMA AttemptsKept ==
  ASSUME AdminAccessInv, AdminAccessNext, NEW a \in Attempts
  PROVE  /\ begunIn[a] # NoBrowser => begunIn'[a] = begunIn[a]
         /\ signer[a] # NoPerson => signer'[a] = signer[a]
<1> USE DEF AdminAccessInv, AdminAccessTypeOK
<1>1. ASSUME NEW b \in Browsers, NEW c \in Attempts, StartLogin(b, c)
      PROVE  signer' = signer /\ (begunIn[a] # NoBrowser => begunIn'[a] = begunIn[a])
  BY <1>1 DEF StartLogin
<1>2. ASSUME NEW c \in Attempts, SignInSome(c)
      PROVE  begunIn' = begunIn /\ (signer[a] # NoPerson => signer'[a] = signer[a])
  BY <1>2 DEF SignInSome, SignIn
<1>3. ASSUME NEW r \in Returns, LoginStep(r) \/ CheckSome(r) PROVE UNCHANGED <<begunIn, signer>>
  BY <1>3 DEF LoginStep, CheckSome, CheckState, ExchangeLoginCode, FindKey, FetchKeys,
     InstallKeys, FindKeyAgain, MapAndIssue, providerVars
<1>4. ASSUME NEW b \in Browsers, ExpireState(b) \/ EndSession(b) \/ OpenPage(b) \/ RequestSome(b)
      PROVE  UNCHANGED <<begunIn, signer>>
  BY <1>4 DEF ExpireState, EndSession, OpenPage, RequestSome, Request, providerVars
<1>5. CASE RotateKey \/ Steady
  BY <1>5 DEF RotateKey, Steady, providerVars
<1>6. QED
  BY <1>1, <1>2, <1>3, <1>4, <1>5, AdminAccessSteps

\* A state cookie is set where its attempt begins.
LEMMA StateKept == AdminAccessInv /\ AdminAccessNext => StateInv'
<1> SUFFICES ASSUME AdminAccessInv, AdminAccessNext,
                    NEW e \in Browsers, stateCookie'[e] # NoAttempt
             PROVE  begunIn'[stateCookie'[e]] = e
  BY DEF StateInv
<1> USE AdminAccessAssumption DEF AdminAccessInv, AdminAccessTypeOK
<1>1. CASE stateCookie'[e] = stateCookie[e]
  <2>1. stateCookie[e] \in Attempts /\ begunIn[stateCookie[e]] = e
    BY <1>1 DEF StateInv
  <2>2. QED
    BY <1>1, <2>1, AttemptsKept
<1>2. ASSUME NEW b \in Browsers, NEW a \in Attempts, StartLogin(b, a)
      PROVE  stateCookie'[e] = stateCookie[e] \/ begunIn'[stateCookie'[e]] = e
  BY <1>2 DEF StartLogin
<1>3. ASSUME NEW r \in Returns, LoginStep(r) \/ CheckSome(r)
      PROVE  stateCookie'[e] = stateCookie[e]
  BY <1>3 DEF LoginStep, CheckSome, CheckState, ExchangeLoginCode, FindKey, FetchKeys,
     InstallKeys, FindKeyAgain, MapAndIssue
<1>4. ASSUME NEW b \in Browsers, ExpireState(b) \/ EndSession(b) \/ OpenPage(b) \/ RequestSome(b)
      PROVE  stateCookie'[e] = stateCookie[e]
  BY <1>4 DEF ExpireState, EndSession, OpenPage, RequestSome, Request
<1>5. ASSUME RotateKey \/ Steady \/ \E a \in Attempts : SignInSome(a)
      PROVE  stateCookie'[e] = stateCookie[e]
  BY <1>5 DEF RotateKey, Steady, SignInSome, SignIn
<1>6. QED
  BY <1>1, <1>2, <1>3, <1>4, <1>5, AdminAccessSteps

\* What a callback goes by is settled when it reads the cookie.
LEMMA CallbacksKept ==
  ASSUME AdminAccessInv, AdminAccessNext, NEW c \in Returns, AtWork(c)'
  PROVE  \/ AtWork(c) /\ lbrowser'[c] = lbrowser[c] /\ lcode'[c] = lcode[c] /\ lnonce'[c] = lnonce[c]
         \/ /\ lbrowser'[c] \in Browsers /\ lnonce'[c] \in Attempts /\ lcode'[c] \in Attempts
            /\ begunIn'[lnonce'[c]] = lbrowser'[c]
            /\ signer'[lcode'[c]] # NoPerson
<1> USE AdminAccessAssumption
    DEF AdminAccessInv, AdminAccessTypeOK, AtWork, LoginAt, providerVars, loginReg
<1>1. ASSUME NEW r \in Returns, LoginStep(r)
      PROVE  AtWork(c) /\ UNCHANGED <<lbrowser, lcode, lnonce>>
  BY <1>1 DEF LoginStep, ExchangeLoginCode, FindKey, FetchKeys, InstallKeys, FindKeyAgain,
     MapAndIssue
<1>2. ASSUME NEW r \in Returns, NEW b \in Browsers, NEW s \in Attempts, NEW a \in Attempts,
             CheckState(r, b, s, a)
      PROVE  \/ /\ AtWork(c) /\ lbrowser'[c] = lbrowser[c] /\ lcode'[c] = lcode[c]
                /\ lnonce'[c] = lnonce[c]
             \/ /\ lbrowser'[c] = b /\ lnonce'[c] = s /\ lcode'[c] = a
                /\ begunIn'[s] = b /\ signer'[a] # NoPerson
  <2>1. CASE stateCookie[b] = s
    <3>1. begunIn'[s] = b /\ signer'[a] # NoPerson
      BY <1>2, <2>1 DEF CheckState, StateInv
    <3>2. CASE r = c
      BY <1>2, <2>1, <3>1, <3>2 DEF CheckState
    <3>3. CASE r # c
      BY <1>2, <3>3 DEF CheckState
    <3>4. QED
      BY <3>2, <3>3
  <2>2. CASE stateCookie[b] # s
    BY <1>2, <2>2 DEF CheckState
  <2>3. QED
    BY <2>1, <2>2
<1>3. ASSUME \/ RotateKey \/ Steady \/ \E a \in Attempts : SignInSome(a)
             \/ \E b \in Browsers, a \in Attempts : StartLogin(b, a)
             \/ \E b \in Browsers : ExpireState(b) \/ EndSession(b) \/ OpenPage(b) \/ RequestSome(b)
      PROVE  UNCHANGED <<lpc, lbrowser, lcode, lnonce>>
  BY <1>3 DEF RotateKey, Steady, SignInSome, SignIn, StartLogin, ExpireState, EndSession,
     OpenPage, RequestSome, Request
<1>4. QED
  BY <1>1, <1>2, <1>3, AdminAccessSteps DEF CheckSome

LEMMA LoginKept == AdminAccessInv /\ AdminAccessNext => LoginInv'
<1> SUFFICES ASSUME AdminAccessInv, AdminAccessNext, NEW c \in Returns, AtWork(c)'
             PROVE  /\ lbrowser'[c] \in Browsers
                    /\ lnonce'[c] \in Attempts /\ begunIn'[lnonce'[c]] = lbrowser'[c]
                    /\ lcode'[c] \in Attempts /\ signer'[lcode'[c]] # NoPerson
  BY DEF LoginInv
<1>1. ASSUME AtWork(c), lbrowser'[c] = lbrowser[c], lcode'[c] = lcode[c], lnonce'[c] = lnonce[c]
      PROVE  /\ lbrowser'[c] \in Browsers
             /\ lnonce'[c] \in Attempts /\ begunIn'[lnonce'[c]] = lbrowser'[c]
             /\ lcode'[c] \in Attempts /\ signer'[lcode'[c]] # NoPerson
  <2>1. /\ lbrowser[c] \in Browsers /\ lnonce[c] \in Attempts /\ lcode[c] \in Attempts
        /\ begunIn[lnonce[c]] = lbrowser[c] /\ signer[lcode[c]] # NoPerson
    BY <1>1 DEF AdminAccessInv, LoginInv
  <2>2. begunIn'[lnonce[c]] = lbrowser[c] /\ signer'[lcode[c]] # NoPerson
    BY <2>1, AttemptsKept, AdminAccessAssumption
  <2>3. QED
    BY <1>1, <2>1, <2>2
<1>2. QED
  BY <1>1, CallbacksKept

-----------------------------------------------------------------------------
(* Sessions and pages.                                                      *)

\* What a cookie says stays settled: a callback that is over does nothing more.
LEMMA StaysSettled ==
  ASSUME AdminAccessInv, AdminAccessNext, NEW c, SettledCookie(c)
  PROVE  SettledCookie(c)'
<1> USE DEF SettledCookie, PersonOf
<1>1. lpc'[c.id] = "over" /\ lcode'[c.id] = lcode[c.id]
  <2> USE DEF AdminAccessInv, AdminAccessTypeOK, LoginAt, providerVars, loginReg
  <2>1. ASSUME NEW r \in Returns, LoginStep(r)
        PROVE  lpc'[c.id] = "over" /\ lcode'[c.id] = lcode[c.id]
    BY <2>1 DEF LoginStep, ExchangeLoginCode, FindKey, FetchKeys, InstallKeys, FindKeyAgain,
       MapAndIssue
  <2>2. ASSUME NEW r \in Returns, CheckSome(r)
        PROVE  lpc'[c.id] = "over" /\ lcode'[c.id] = lcode[c.id]
    BY <2>2 DEF CheckSome, CheckState
  <2>3. ASSUME \/ RotateKey \/ Steady \/ \E a \in Attempts : SignInSome(a)
               \/ \E b \in Browsers, a \in Attempts : StartLogin(b, a)
               \/ \E b \in Browsers : ExpireState(b) \/ EndSession(b) \/ OpenPage(b) \/ RequestSome(b)
        PROVE  UNCHANGED <<lpc, lcode>>
    BY <2>3 DEF RotateKey, Steady, SignInSome, SignIn, StartLogin, ExpireState, EndSession,
       OpenPage, RequestSome, Request
  <2>4. QED
    BY <2>1, <2>2, <2>3, AdminAccessSteps
<1>2. signer'[lcode[c.id]] = signer[lcode[c.id]]
  BY AttemptsKept, AdminAccessAssumption
<1>3. QED
  BY <1>1, <1>2

\* A session comes from a callback that ends with it, or was there before.
Issues(r, b) ==
  /\ lpc[r] = "map" /\ lpc'[r] = "over"
  /\ lbrowser[r] = b /\ NonceMatches(r)
  /\ session'[b] = [who |-> PersonOf(r), id |-> r]
  /\ UNCHANGED <<lcode, signer, begunIn>>

LEMMA SessionsComeFrom ==
  ASSUME AdminAccessInv, AdminAccessNext, NEW b \in Browsers, session'[b] # NoCookie
  PROVE  session'[b] = session[b] \/ \E r \in Returns : Issues(r, b)
<1> USE DEF AdminAccessInv, AdminAccessTypeOK, LoginAt, providerVars, loginReg
<1>1. ASSUME NEW r \in Returns, MapAndIssue(r)
      PROVE  session'[b] = session[b] \/ Issues(r, b)
  BY <1>1 DEF MapAndIssue, Issues
<1>2. ASSUME NEW r \in Returns, LoginStep(r) \/ CheckSome(r), ~MapAndIssue(r)
      PROVE  session' = session
  BY <1>2 DEF LoginStep, CheckSome, CheckState, ExchangeLoginCode, FindKey, FetchKeys,
     InstallKeys, FindKeyAgain
<1>3. ASSUME NEW e \in Browsers, EndSession(e) PROVE session'[b] = session[b]
  BY <1>3 DEF EndSession
<1>4. ASSUME \/ RotateKey \/ Steady \/ \E a \in Attempts : SignInSome(a)
             \/ \E e \in Browsers, a \in Attempts : StartLogin(e, a)
             \/ \E e \in Browsers : ExpireState(e) \/ OpenPage(e) \/ RequestSome(e)
      PROVE  session' = session
  BY <1>4 DEF RotateKey, Steady, SignInSome, SignIn, StartLogin, ExpireState, OpenPage,
     RequestSome, Request
<1>5. QED
  BY <1>1, <1>2, <1>3, <1>4, AdminAccessSteps

LEMMA SessionsKept == AdminAccessInv /\ AdminAccessNext => SessionInv'
<1> SUFFICES ASSUME AdminAccessInv, AdminAccessNext, NEW b \in Browsers, session'[b] # NoCookie
             PROVE  SettledCookie(session[b])'
  BY DEF SessionInv
<1>1. CASE session'[b] = session[b]
  <2>1. SettledCookie(session[b])
    BY <1>1 DEF AdminAccessInv, SessionInv
  <2>2. QED
    BY <1>1, <2>1, StaysSettled DEF SettledCookie
<1>2. ASSUME NEW r \in Returns, Issues(r, b) PROVE SettledCookie(session[b])'
  <2>1. lcode[r] \in Attempts /\ signer[lcode[r]] \in Persons
    BY <1>2 DEF Issues, AdminAccessInv, LoginInv, AtWork, AdminAccessTypeOK
  <2>2. QED
    BY <1>2, <2>1 DEF Issues, SettledCookie, PersonOf
<1>3. QED
  BY <1>1, <1>2, SessionsComeFrom

\* The nonce ties the code to the cookie, and the cookie is of an attempt begun here.
LEMMA SessionsSignedIn == AdminAccessInv /\ AdminAccessNext => SessionOfSignedIn'
<1> SUFFICES ASSUME AdminAccessInv, AdminAccessNext, NEW b \in Browsers, session'[b] # NoCookie
             PROVE  \E a \in Attempts : begunIn'[a] = b /\ signer'[a] = session'[b].who
  BY DEF SessionOfSignedIn
<1>1. CASE session'[b] = session[b]
  <2>1. PICK a \in Attempts : begunIn[a] = b /\ signer[a] = session[b].who
    BY <1>1 DEF AdminAccessInv, SessionOfSignedIn
  <2>2. session[b].who \in Persons
    BY <1>1 DEF AdminAccessInv, SessionInv, SettledCookie
  <2>3. begunIn'[a] = b /\ signer'[a] = session[b].who
    BY <2>1, <2>2, AttemptsKept, AdminAccessAssumption
  <2>4. QED
    BY <1>1, <2>3
<1>2. ASSUME NEW r \in Returns, Issues(r, b)
      PROVE  \E a \in Attempts : begunIn'[a] = b /\ signer'[a] = session'[b].who
  <2>1. /\ lnonce[r] \in Attempts /\ begunIn[lnonce[r]] = b
        /\ lcode[r] = lnonce[r]
    BY <1>2, AdminAccessAssumption DEF Issues, AdminAccessInv, LoginInv, AtWork, NonceMatches
  <2>2. QED
    BY <1>2, <2>1 DEF Issues, PersonOf
<1>3. QED
  BY <1>1, <1>2, SessionsComeFrom

\* A page takes over what the session of its browser says.
LEMMA PagesKept == AdminAccessInv /\ AdminAccessNext => PageInv'
<1> SUFFICES ASSUME AdminAccessInv, AdminAccessNext, NEW x \in page' PROVE SettledCookie(x[2])'
  BY DEF PageInv
<1>1. SettledCookie(x[2])
  <2>1. ASSUME NEW b \in Browsers, OpenPage(b) PROVE SettledCookie(x[2])
    <3>1. x \in page \/ x = <<b, session[b]>>
      BY <2>1 DEF OpenPage
    <3>2. QED
      BY <2>1, <3>1 DEF OpenPage, AdminAccessInv, SessionInv, PageInv
  <2>2. CASE page' = page
    BY <2>2 DEF AdminAccessInv, PageInv
  <2>3. page' = page \/ \E b \in Browsers : OpenPage(b)
    BY AdminAccessSteps DEF LoginStep, CheckSome, CheckState, ExchangeLoginCode, FindKey,
       FetchKeys, InstallKeys, FindKeyAgain, MapAndIssue, StartLogin, SignInSome, SignIn,
       ExpireState, EndSession, RequestSome, Request, RotateKey, Steady
  <2>4. QED
    BY <2>1, <2>2, <2>3
<1>2. QED
  BY <1>1, StaysSettled DEF SettledCookie

LEMMA AdminAccessUnmoved == AdminAccessInv /\ UNCHANGED accessVars => AdminAccessInv'
BY DEF AdminAccessInv, AdminAccessTypeOK, StateInv, LoginInv, AtWork, SessionInv, PageInv,
   SettledCookie, PersonOf, SessionOfSignedIn, accessVars, providerVars, loginReg

\* The invariant owes nothing to fairness.
LEMMA AdminAccessSafe ==
  AdminAccessInit /\ [][AdminAccessNext]_accessVars => []AdminAccessInv
<1>1. AdminAccessInit => AdminAccessInv
  BY AdminAccessInitType, AdminAccessInitInv DEF AdminAccessInv
<1>2. AdminAccessInv /\ [AdminAccessNext]_accessVars => AdminAccessInv'
  <2>1. AdminAccessInv /\ AdminAccessNext => AdminAccessInv'
    BY TypeKept, StateKept, LoginKept, SessionsKept, SessionsSignedIn, PagesKept
       DEF AdminAccessInv
  <2>2. QED
    BY <2>1, AdminAccessUnmoved
<1>3. QED
  BY <1>1, <1>2, PTL

LEMMA AdminAccessInvariant == AdminAccessSpec => []AdminAccessInv
BY AdminAccessSafe, PTL DEF AdminAccessSpec

-----------------------------------------------------------------------------
(* The theorems.                                                            *)

\* In every reachable state the variables have their types; that nobody but a
\* person of the provider ever stands behind a request is part of it.
THEOREM AdminAccessTyped == AdminAccessSpec => []AdminAccessTypeOK
BY AdminAccessInvariant, PTL DEF AdminAccessInv

\* Whoever a session stands for has signed in in an attempt begun in that browser,
\* whatever state and code a callback brings (oidc.go, callback; provider.go,
\* VerifyIDToken): the cookie is of such an attempt, and the nonce ties the code to it.
THEOREM SessionsAuthentic == AdminAccessSpec => []SessionOfSignedIn
BY AdminAccessInvariant, PTL DEF AdminAccessInv

\* A page acts for the person it was shown to and within that person's role
\* (auth.go, Require and RequirePerm): two cookies with one CSRF token are of one
\* callback, and a callback is for one person.
THEOREM PagesFaithful == AdminAccessSpec => []PagesActForTheirReader
<1>1. AdminAccessInit => PagesActForTheirReader
  BY DEF AdminAccessInit, PagesActForTheirReader
<1>2. ASSUME AdminAccessInv, PagesActForTheirReader, [AdminAccessNext]_accessVars
      PROVE  PagesActForTheirReader'
  <2>1. ASSUME NEW b \in Browsers, NEW what \in Commands, Request(b, what)
        PROVE  PagesActForTheirReader'
    <3>1. PICK x \in page :
            /\ VerifyCSRF(b, x[2])
            /\ what \in Granted[RoleOf[session[b].who]]
            /\ done' = done \cup {[for |-> session[b].who, of |-> x[2].who, what |-> what]}
      BY <2>1 DEF Request
    <3>2. session[b].who = x[2].who
      BY <1>2, <2>1, <3>1 DEF Request, VerifyCSRF, AdminAccessInv, SessionInv, PageInv, SettledCookie
    <3>3. QED
      BY <1>2, <3>1, <3>2 DEF PagesActForTheirReader
  <2>2. CASE done' = done
    BY <1>2, <2>2 DEF PagesActForTheirReader
  <2>3. done' = done \/ \E b \in Browsers, what \in Commands : Request(b, what)
    BY <1>2, AdminAccessSteps DEF LoginStep, CheckSome, CheckState, ExchangeLoginCode, FindKey,
       FetchKeys, InstallKeys, FindKeyAgain, MapAndIssue, StartLogin, SignInSome, SignIn,
       ExpireState, EndSession, OpenPage, RequestSome, RotateKey, Steady, accessVars
  <2>4. QED
    BY <2>1, <2>2, <2>3
<1>3. QED
  BY <1>1, <1>2, AdminAccessInvariant, PTL DEF AdminAccessSpec

(***************************************************************************)
(* Both.                                                                   *)
(***************************************************************************)

\* A step of the composition is one of its part, and the other part rests.
LEMMA AccessSteps ==
  [Next]_mcAccessVars => [OnboardingNext]_loginVars /\ [AdminAccessNext]_accessVars
<1> SUFFICES ASSUME [Next]_mcAccessVars
             PROVE  [OnboardingNext]_loginVars /\ [AdminAccessNext]_accessVars
  OBVIOUS
<1>1. CASE UNCHANGED mcAccessVars
  BY <1>1 DEF mcAccessVars
<1>2. CASE Next
  <2> USE DEF Onboards, SignsIn, Keyed, Paged
  <2>1. \/ OnboardingNext /\ UNCHANGED accessVars
        \/ AdminAccessNext /\ UNCHANGED loginVars
    BY <1>2 DEF Next, BrowsersInUse, Users, NextAttempt, NextReturn, OnboardingNext, Callback,
       AdminAccessNext, LoginStep
  <2> QED
    BY <2>1
<1> QED
  BY <1>1, <1>2

\* Side by side, as in the run "access", both keep their types.
THEOREM AccessTypeCorrect == Spec => []AccessTypeOK
<1>1. Init => OnboardingInit /\ AdminAccessInit
  BY DEF Init
<1>2. OnboardingInv /\ AdminAccessInv => AccessTypeOK
  BY DEF OnboardingInv, AdminAccessInv, AccessTypeOK
<1> QED
  BY <1>1, <1>2, AccessSteps, OnboardingSafe, AdminAccessSafe, PTL DEF Spec

=============================================================================
