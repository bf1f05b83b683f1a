----------------------------- MODULE MCAccess -------------------------------
(* Instances for TLC of the modules about who gets in, employees            *)
(* (Onboarding) and administrators (AdminAccess), in one run.  They share   *)
(* neither tables nor cookies nor calls, so a behaviour is one of the first *)
(* or one of the second.                                                    *)
EXTENDS Onboarding, AdminAccess

CONSTANTS e1, z1, z2, l1, l2, t1, t2, c1, c2,
          p1, p2, p3, b1, b2, a1, a2, r1, r2, k1, k2, org_admin

\* One employee, whose address is that of the first account; two invitations.
FirstAccount == [e \in Employees |-> z1]
OneEmployee == [l \in Links |-> e1]

\* Two people of the allowlist, and one who is not on it.
TwoAdmins == [p \in Persons |-> IF p = p3 THEN Stranger ELSE org_admin]

\* An administrator manages employees, but is not one.
AdminManages == [r \in {org_admin} |-> {"manage_employees"}]

-----------------------------------------------------------------------------
VARIABLE part

mcAccessVars == <<loginVars, accessVars, part>>

\* The administrators' half comes in two parts, for the provider's keys have nothing to
\* do with pages: one person logs in twice in one browser while keys rotate; and three
\* people use two browsers, their pages, and callbacks with anybody's state and code.
Onboards(A) == part = "onboarding" /\ A /\ UNCHANGED <<accessVars, part>>
SignsIn(A) == part \in {"keys", "pages"} /\ A /\ UNCHANGED <<loginVars, part>>
Keyed(A) == part = "keys" /\ SignsIn(A)
Paged(A) == part = "pages" /\ SignsIn(A)
BrowsersInUse == {b \in Browsers : part = "keys" => b = b1}
Users == {p \in Persons : part = "keys" => p = p1}

\* Attempts and callbacks have no order; the run takes them in one.
NextAttempt == {a \in Attempts : a = IF begunIn[a1] = NoBrowser THEN a1 ELSE a2}
NextReturn == {r \in Returns : r = IF lpc[r1] = "new" THEN r1 ELSE r2}

Init ==
  /\ part \in {"onboarding", "keys", "pages"}
  /\ OnboardingInit /\ AdminAccessInit
  /\ part # "onboarding" => bound = [e \in Employees |-> NoAccount]

Next ==
  \/ \E l \in Links :
       Onboards(CreateLink(l)) \/ Onboards(SendInvitation(l)) \/ Onboards(SetInvited(l))
  \/ \E t \in Tabs :
       \/ Onboards(SetStarted(t)) \/ Onboards(CreateState(t))
       \/ \E l \in Links : Onboards(ConsumeLink(t, l))
  \/ \E c \in Callbacks :
       \/ \E t \in Tabs, a \in Accounts : Onboards(ConsumeState(c, t, a))
       \/ Onboards(LookUpEmployee(c)) \/ Onboards(ExchangeCode(c))
       \/ Onboards(VerifyIdentity(c)) \/ Onboards(BindAccount(c))
       \/ Onboards(StoreCredential(c)) \/ Onboards(FinishCallback(c))
  \/ Onboards(Expire) \/ Onboards(Smooth)
  \/ Keyed(RotateKey) \/ Keyed(Steady)
  \/ \E a \in Attempts, p \in Users : SignsIn(SignIn(a, p))
  \/ \E r \in NextReturn, b \in BrowsersInUse, s, a \in Attempts :
       SignsIn(CheckState(r, b, s, a))
  \/ \E r \in Returns :
       \/ SignsIn(ExchangeLoginCode(r)) \/ SignsIn(FindKey(r))
       \/ SignsIn(FetchKeys(r)) \/ SignsIn(InstallKeys(r)) \/ SignsIn(FindKeyAgain(r))
       \/ SignsIn(MapAndIssue(r))
  \/ \E b \in BrowsersInUse :
       \/ \E a \in NextAttempt : SignsIn(StartLogin(b, a))
       \/ Paged(ExpireState(b)) \/ Paged(EndSession(b)) \/ Paged(OpenPage(b))
       \/ \E what \in Commands : Paged(Request(b, what))

Fairness ==
  /\ \A c \in Callbacks : WF_mcAccessVars(Onboards(Callback(c)))
  /\ \A r \in Returns : WF_mcAccessVars(SignsIn(LoginStep(r)))

Spec == Init /\ [][Next]_mcAccessVars /\ Fairness

AccessTypeOK == OnboardingTypeOK /\ AdminAccessTypeOK

=============================================================================
