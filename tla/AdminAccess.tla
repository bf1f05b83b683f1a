---------------------------- MODULE AdminAccess ----------------------------
(***************************************************************************)
(* How administrators sign in and act: the two halves of the OIDC login    *)
(* (httpx/oidc.go), the provider's key cache behind it (oidc/provider.go), *)
(* the session cookie (rbac/session.go) and the check of every request     *)
(* (httpx/auth.go, rbac/rbac.go).  The server stores no session: all state *)
(* is in the browser's cookies, which its tabs share, and in the cache,    *)
(* which all requests share.                                               *)
(*                                                                         *)
(* A callback is a URL, and any browser may ask for it at any time: with   *)
(* the state of one attempt, the code of another and the cookie of a       *)
(* third.  Signatures are taken to be good: a cookie is one the server     *)
(* made, an ID token one the provider signed for this client, with a       *)
(* verified address and the nonce of the attempt its code is of.           *)
(***************************************************************************)
EXTENDS Naturals, FiniteSets

CONSTANTS
  Persons, RoleOf,     \* RoleOf[p]: what Map makes of them, or Stranger
  Browsers,
  Attempts,            \* bound: logins; each has its state, its nonce and one code
  Returns,             \* bound: requests of the callback; the id of the CSRF token each makes
  Keys, FirstKey,      \* bound: signing keys the provider will use
  Commands,            \* the permissions state-changing requests ask for
  Granted,             \* Granted[role]: rolePerms
  Upsets,              \* the kinds of failure that may happen
  Stranger, NoBrowser, NoAttempt, NoReturn, NoPerson, NoKey

ASSUME AdminAccessAssumption ==
  /\ Granted \in [{RoleOf[p] : p \in Persons} \ {Stranger} -> SUBSET Commands]
  /\ NoPerson \notin Persons /\ NoBrowser \notin Browsers
  /\ NoAttempt \notin Attempts /\ NoReturn \notin Returns
  /\ FirstKey \in Keys /\ NoKey \notin Keys

VARIABLES
  signing, published,  \* the provider: its present key, those of its JWKS document
  signer,              \* who has signed in there in an attempt: the person of its code
  spent,               \* codes it has exchanged
  keyCache,            \* Provider.keys
  begunIn,             \* the browser an attempt was started in
  atProvider,          \* attempts a browser has been sent away with
  stateCookie,         \* of each browser: the attempt whose state and nonce it holds
  session,             \* the session cookie of each browser
  lpc, lbrowser, lcode, lnonce, lkid, lfetched,   \* callbacks
  page,                \* pages a browser has open, with the CSRF token inside
  done,                \* history: accepted requests: for whom, from whose page, what
  steady               \* no failures, expiries or rotations any more

providerVars == <<signing, published, signer, spent, begunIn, atProvider>>
loginReg == <<lbrowser, lcode, lnonce, lkid>>
accessVars == <<providerVars, keyCache, stateCookie, session, lpc, loginReg, lfetched,
                page, done, steady>>

-----------------------------------------------------------------------------
CallbackStage == {"new", "exchange", "key", "fetch", "install", "reread", "map", "over"}
Cookie == [who: Persons \cup {NoPerson}, id: Returns \cup {NoReturn}]
NoCookie == [who |-> NoPerson, id |-> NoReturn]

AdminAccessTypeOK ==
  /\ signing \in Keys /\ published \subseteq Keys /\ keyCache \subseteq Keys
  /\ signer \in [Attempts -> Persons \cup {NoPerson}]
  /\ spent \subseteq Attempts /\ atProvider \subseteq Attempts
  /\ begunIn \in [Attempts -> Browsers \cup {NoBrowser}]
  /\ stateCookie \in [Browsers -> Attempts \cup {NoAttempt}]
  /\ session \in [Browsers -> Cookie]
  /\ lpc \in [Returns -> CallbackStage]
  /\ lbrowser \in [Returns -> Browsers \cup {NoBrowser}]
  /\ lcode \in [Returns -> Attempts \cup {NoAttempt}]
  /\ lnonce \in [Returns -> Attempts \cup {NoAttempt}]
  /\ lkid \in [Returns -> Keys \cup {NoKey}]
  /\ lfetched \in [Returns -> SUBSET Keys]
  /\ page \subseteq Browsers \X Cookie
  /\ done \subseteq [for: Persons, of: Persons, what: Commands]
  /\ steady \in BOOLEAN

AdminAccessInit ==
  /\ signing = FirstKey /\ published = {FirstKey} /\ keyCache = {}
  /\ signer = [a \in Attempts |-> NoPerson]
  /\ spent = {} /\ atProvider = {}
  /\ begunIn = [a \in Attempts |-> NoBrowser]
  /\ stateCookie = [b \in Browsers |-> NoAttempt]
  /\ session = [b \in Browsers |-> NoCookie]
  /\ lpc = [r \in Returns |-> "new"]
  /\ lbrowser = [r \in Returns |-> NoBrowser]
  /\ lcode = [r \in Returns |-> NoAttempt]
  /\ lnonce = [r \in Returns |-> NoAttempt]
  /\ lkid = [r \in Returns |-> NoKey]
  /\ lfetched = [r \in Returns |-> {}]
  /\ page = {} /\ done = {}
  /\ steady = FALSE

Upset(kind) == kind \in Upsets /\ ~steady
LoginAt(r, stage) == lpc' = [lpc EXCEPT ![r] = stage]

\* Whom the ID token of a callback is about.
PersonOf(r) == signer[lcode[r]]

-----------------------------------------------------------------------------
(* The provider.                                                           *)

\* It signs with another key from now on, and withdraws some of the others.
RotateKey ==
  /\ ~steady
  /\ \E k \in Keys \ published :
       /\ signing' = k
       /\ \E kept \in SUBSET published : published' = kept \cup {k}
  /\ UNCHANGED <<signer, spent, begunIn, atProvider, keyCache, stateCookie, session, lpc,
                 loginReg, lfetched, page, done, steady>>

\* Somebody follows the link of an attempt, signs in, and gets its code.
SignIn(a, p) ==
  /\ a \in atProvider /\ signer[a] = NoPerson
  /\ signer' = [signer EXCEPT ![a] = p]
  /\ UNCHANGED <<signing, published, spent, begunIn, atProvider, keyCache, stateCookie,
                 session, lpc, loginReg, lfetched, page, done, steady>>

-----------------------------------------------------------------------------
(* Login.                                                                  *)

\* start: the cookie of this attempt replaces that of an earlier tab, even if the
\* provider cannot be reached after that.
StartLogin(b, a) ==
  /\ begunIn[a] = NoBrowser
  /\ begunIn' = [begunIn EXCEPT ![a] = b]
  /\ stateCookie' = [stateCookie EXCEPT ![b] = a]
  /\ \/ atProvider' = atProvider \cup {a}
     \/ Upset("provider") /\ UNCHANGED atProvider
  /\ UNCHANGED <<signing, published, signer, spent, keyCache, session, lpc, loginReg,
                 lfetched, page, done, steady>>

\* A request of the callback, with the cookie of its browser, the state of s and the
\* code of a: readState, and the comparison of the two states.  The nonce to be
\* expected is that of the cookie.
CheckState(r, b, s, a) ==
  /\ lpc[r] = "new"
  /\ begunIn[s] # NoBrowser /\ signer[a] # NoPerson
  /\ \/ /\ stateCookie[b] = s
        /\ LoginAt(r, "exchange")
        /\ lbrowser' = [lbrowser EXCEPT ![r] = b]
        /\ lcode' = [lcode EXCEPT ![r] = a]
        /\ lnonce' = [lnonce EXCEPT ![r] = stateCookie[b]]
     \/ /\ stateCookie[b] # s
        /\ LoginAt(r, "over")
        /\ UNCHANGED <<lbrowser, lcode, lnonce>>
  /\ UNCHANGED <<providerVars, keyCache, stateCookie, session, lkid, lfetched, page, done,
                 steady>>

\* discover and Exchange: a code is good for one ID token, which is signed with the
\* key of this moment.  The code may be spent although the answer is lost.
ExchangeLoginCode(r) ==
  /\ lpc[r] = "exchange"
  /\ \/ /\ lcode[r] \notin spent
        /\ spent' = spent \cup {lcode[r]}
        /\ LoginAt(r, "key") /\ lkid' = [lkid EXCEPT ![r] = signing]
     \/ /\ lcode[r] \in spent \/ Upset("provider")
        /\ spent' \in {spent, spent \cup {lcode[r]}}
        /\ LoginAt(r, "over") /\ UNCHANGED lkid
  /\ UNCHANGED <<signing, published, signer, begunIn, atProvider, keyCache, stateCookie,
                 session, lbrowser, lcode, lnonce, lfetched, page, done, steady>>

\* mutant: a cache that is not empty is never renewed
MutantFindKey(r) ==
  /\ lpc[r] = "key"
  /\ LoginAt(r, IF lkid[r] \in keyCache THEN "map" ELSE IF keyCache # {} THEN "over" ELSE "fetch")
  /\ UNCHANGED <<providerVars, keyCache, stateCookie, session, loginReg, lfetched, page,
                 done, steady>>

\* keyByID: from the cache, or after refreshKeys has fetched the document and
\* replaced the cache, which other callbacks do at the same time.
FindKey(r) ==
  /\ lpc[r] = "key"
  /\ LoginAt(r, IF lkid[r] \in keyCache THEN "map" ELSE "fetch")
  /\ UNCHANGED <<providerVars, keyCache, stateCookie, session, loginReg, lfetched, page,
                 done, steady>>

FetchKeys(r) ==
  /\ lpc[r] = "fetch"
  /\ \/ LoginAt(r, "install") /\ lfetched' = [lfetched EXCEPT ![r] = published]
     \/ Upset("provider") /\ LoginAt(r, "over") /\ UNCHANGED lfetched
  /\ UNCHANGED <<providerVars, keyCache, stateCookie, session, loginReg, page, done, steady>>

InstallKeys(r) ==
  /\ lpc[r] = "install"
  /\ keyCache' = lfetched[r]
  /\ lfetched' = [lfetched EXCEPT ![r] = {}]
  /\ LoginAt(r, "reread")
  /\ UNCHANGED <<providerVars, stateCookie, session, loginReg, page, done, steady>>

FindKeyAgain(r) ==
  /\ lpc[r] = "reread"
  /\ LoginAt(r, IF lkid[r] \in keyCache THEN "map" ELSE "over")
  /\ UNCHANGED <<providerVars, keyCache, stateCookie, session, loginReg, lfetched, page,
                 done, steady>>

MutantNonceMatches(r) == TRUE   \* mutant: the nonce is not compared

\* The nonce of the ID token, that of the attempt its code is of, against the cookie's.
NonceMatches(r) == lnonce[r] = NoAttempt \/ lcode[r] = lnonce[r]

\* The last checks of VerifyIDToken; Map, and Issue with a new CSRF token.  The answer
\* clears the state cookie, even one that another tab has set since.
MapAndIssue(r) ==
  /\ lpc[r] = "map"
  /\ LoginAt(r, "over")
  /\ LET accepted == NonceMatches(r) /\ RoleOf[PersonOf(r)] # Stranger IN
     \/ /\ accepted
        /\ stateCookie' = [stateCookie EXCEPT ![lbrowser[r]] = NoAttempt]
        /\ session' = [session EXCEPT ![lbrowser[r]] = [who |-> PersonOf(r), id |-> r]]
     \/ ~accepted /\ UNCHANGED <<stateCookie, session>>
  /\ UNCHANGED <<providerVars, keyCache, loginReg, lfetched, page, done, steady>>

-----------------------------------------------------------------------------
(* Cookies end after their time, sessions also with logout.                *)

ExpireState(b) ==
  /\ ~steady
  /\ stateCookie[b] # NoAttempt
  /\ stateCookie' = [stateCookie EXCEPT ![b] = NoAttempt]
  /\ UNCHANGED <<providerVars, keyCache, session, lpc, loginReg, lfetched, page, done, steady>>

EndSession(b) ==
  /\ session[b] # NoCookie
  /\ session' = [session EXCEPT ![b] = NoCookie]
  /\ UNCHANGED <<providerVars, keyCache, stateCookie, lpc, loginReg, lfetched, page, done,
                 steady>>

-----------------------------------------------------------------------------
(* Requests.                                                               *)

\* A page is served to a session and carries its CSRF token.
OpenPage(b) ==
  /\ session[b] # NoCookie
  /\ page' = page \cup {<<b, session[b]>>}
  /\ UNCHANGED <<providerVars, keyCache, stateCookie, session, lpc, loginReg, lfetched, done,
                 steady>>

\* mutant: the CSRF token is not compared
MutantVerifyCSRF(b, from) == from.id # NoReturn

\* VerifyCSRF
VerifyCSRF(b, from) == from.id = session[b].id

\* Require and RequirePerm: the session of the cookie, the token of the page,
\* the permission of the role.
Request(b, what) ==
  /\ session[b] # NoCookie
  /\ \E x \in page :
       /\ x[1] = b /\ VerifyCSRF(b, x[2])
       /\ what \in Granted[RoleOf[session[b].who]]
       /\ done' = done \cup {[for |-> session[b].who, of |-> x[2].who, what |-> what]}
  /\ UNCHANGED <<providerVars, keyCache, stateCookie, session, lpc, loginReg, lfetched, page,
                 steady>>

Steady ==
  /\ ~steady /\ steady' = TRUE
  /\ UNCHANGED <<providerVars, keyCache, stateCookie, session, lpc, loginReg, lfetched, page,
                 done>>

LoginStep(r) ==
  \/ ExchangeLoginCode(r) \/ FindKey(r) \/ FetchKeys(r) \/ InstallKeys(r)
  \/ FindKeyAgain(r) \/ MapAndIssue(r)

AdminAccessNext ==
  \/ RotateKey \/ Steady
  \/ \E a \in Attempts, p \in Persons : SignIn(a, p)
  \/ \E b \in Browsers, a \in Attempts : StartLogin(b, a)
  \/ \E r \in Returns : \/ LoginStep(r)
                        \/ \E b \in Browsers, s, a \in Attempts : CheckState(r, b, s, a)
  \/ \E b \in Browsers : \/ ExpireState(b) \/ EndSession(b) \/ OpenPage(b)
                         \/ \E what \in Commands : Request(b, what)

\* A request that has arrived is worked off.
AdminAccessFairness == \A r \in Returns : WF_accessVars(LoginStep(r))

AdminAccessSpec ==
  AdminAccessInit /\ [][AdminAccessNext]_accessVars /\ AdminAccessFairness

-----------------------------------------------------------------------------
(* Properties.                                                             *)

\* Whoever a session stands for has signed in at the provider in an attempt that was
\* begun in that very browser: not in somebody else's, whose code or state a callback
\* may bring along, however tabs, repeated starts and logins overlap (callback,
\* VerifyIDToken).
SessionOfSignedIn ==
  \A b \in Browsers : session[b] # NoCookie =>
    \E a \in Attempts : begunIn[a] = b /\ signer[a] = session[b].who

\* A page acts for the person it was shown to: not for who has signed in on the
\* same browser since, and within that person's role (VerifyCSRF, RequirePerm).
PagesActForTheirReader ==
  \A d \in done : d.for = d.of /\ d.what \in Granted[RoleOf[d.of]]

\* A rotation of the provider's keys locks nobody out: once all is steady, a
\* callback that has its own token ends in a session, unless a document fetched
\* earlier by another callback is still about to replace the cache (keyByID).
RotationSurvived ==
  \A r \in Returns :
    (/\ steady /\ lpc[r] = "key" /\ lcode[r] = lnonce[r] /\ RoleOf[PersonOf(r)] # Stranger
     /\ lkid[r] \in published
     /\ \A c \in Returns \ {r} : lpc[c] \notin {"install"})
      ~> (\E b \in Browsers : session[b].id = r)

=============================================================================
