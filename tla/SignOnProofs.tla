---------------------------- MODULE SignOnProofs ----------------------------
(***************************************************************************)
(* Proofs about an authorization, for every set of clients and requests:   *)
(* the invariant of the login (SsoLoginProofs) holds on when authorizations *)
(* follow each other in one session, and only the first may sign in.       *)
(***************************************************************************)
EXTENDS SignOn, SsoLoginProofs

AuthTypeOK ==
    /\ ask \in Asks
    /\ auth \in Stages
    /\ prompted \in [Clients -> SUBSET {"openid", "email", "profile"}]
    /\ sids \subseteq Clients

\* Past the login the interaction is gone: the session is not signed in anew.
LoginIsOver == auth # "login" => interaction = Gone

\* On the way to an answer somebody is signed in.
SomebodySignedIn == auth \in {"checking", "finding", "answered"} => session \in Accounts

\* No third party was answered, so none is authorized without asking.
OnlyFirstPartiesAnswered ==
    /\ sids \subseteq FirstParty
    /\ auth \in {"finding", "answered"} => ask.client \in FirstParty /\ ~ask.consent
    /\ auth \in {"consent", "page", "lost"} => ask.client \in ThirdParty \/ ask.consent

AuthInv ==
    /\ AuthTypeOK
    /\ LoginIsOver
    /\ SomebodySignedIn
    /\ OnlyFirstPartiesAnswered

-----------------------------------------------------------------------------
LEMMA AskFields ==
    ASSUME NEW a \in Asks
    PROVE  /\ a.client \in FirstParty \cup ThirdParty
           /\ a.consent \in BOOLEAN
           /\ a.scopes \subseteq {"openid", "email", "profile"}
           /\ "openid" \in a.scopes
  BY AsksAssumption DEF Requests, Clients

\* A login that is over is not taken up again, and signs nobody else in.
LEMMA OverStaysOver ==
    ASSUME [Next]_vars, interaction = Gone
    PROVE  interaction' = Gone /\ session' = session
<1>1. Gone \notin Results
  BY ResultNames
<1> QED
  BY <1>1
     DEF Next, vars, codeVars, PostLogin, LooksUp, FindsAccount, FindsNoAccount, SendsCode, SendRejected,
         PostCode, AsksIdentity, CodeAccepted, TryAgain, OutOfRetries, VerifyRejected, Abort, Finish,
         SessionNotFound, Resume, CookieExpires, TimePasses, Refused

LEMMA InitSignOn == SignOnInit => IInv /\ AuthInv
<1> SUFFICES ASSUME SignOnInit PROVE IInv /\ AuthInv
  OBVIOUS
<1>1. IInv
  BY InitInvariant DEF SignOnInit
<1>2. AuthTypeOK
  BY DEF SignOnInit, AuthTypeOK, Stages
<1>3. LoginIsOver /\ SomebodySignedIn /\ OnlyFirstPartiesAnswered
  BY DEF SignOnInit, LoginIsOver, SomebodySignedIn, OnlyFirstPartiesAnswered
<1> QED
  BY <1>1, <1>2, <1>3 DEF AuthInv

-----------------------------------------------------------------------------
\* The invariant of the login is kept by its own steps and by the rest.
LEMMA LoginKept == IInv /\ [Next]_vars => IInv'
  BY TypeStep, TextsStep, CountStep, CountedStep DEF IInv

LEMMA ExpiryKept ==
    ASSUME IInv, SessionExpires
    PROVE  IInv'
<1>1. /\ session' = Nobody
      /\ UNCHANGED <<codeVars, tab, jar, interaction, wrong, slipped>>
  BY DEF SessionExpires
<1>2. TypeOK'
  BY <1>1, Zenon DEF IInv, TypeOK, CodesTypeOK, codeVars
<1>3. CodesComeFromTexts' /\ OneAtATime' /\ RetriesAreCounted'
  BY <1>1 DEF IInv, CodesComeFromTexts, OneAtATime, RetriesAreCounted, codeVars
<1>4. CountIsEarned'
  BY <1>1 DEF IInv, CountIsEarned, Spent
<1>5. SignInsWereTexted'
  BY <1>1, NamesAssumption DEF IInv, SignInsWereTexted, Texted, codeVars
<1> QED
  BY <1>2, <1>3, <1>4, <1>5 DEF IInv

LEMMA LoginInvariantStep == IInv /\ [SignOnNext]_signOnVars => IInv'
<1>1. [SignOnNext]_signOnVars => [Next]_vars \/ SessionExpires
  BY DEF SignOnNext, signOnVars, LoginStep, Checks, ShowsConsent, Confirm, Cancel,
         FindsItsAccount, FindAccountRejects, AsksAgain
<1> QED
  BY <1>1, LoginKept, ExpiryKept

-----------------------------------------------------------------------------
(* The authorization, action by action.                                     *)

LEMMA LoginAuthStep ==
    ASSUME IInv, AuthInv, LoginStep
    PROVE  AuthInv'
<1>1. session' \in Accounts \cup {Nobody}
  BY LoginKept DEF LoginStep, IInv, TypeOK
<1>2. /\ auth' = auth \/ auth' \in {"denied", "checking"}
      /\ UNCHANGED <<ask, prompted, sids>>
  BY DEF LoginStep
<1>3. AuthTypeOK'
  BY <1>2 DEF AuthInv, AuthTypeOK, Stages, Done
<1>4. auth # "login" => interaction' = Gone /\ session' = session /\ auth' = auth
  BY OverStaysOver DEF LoginStep, AuthInv, LoginIsOver
<1>5. auth = "login" => \/ auth' = "login"
                        \/ auth' = "denied" /\ interaction' = Gone
                        \/ auth' = "checking" /\ interaction' = Gone /\ session' \in Accounts
  BY <1>1 DEF LoginStep
<1>6. LoginIsOver' /\ SomebodySignedIn'
  BY <1>4, <1>5 DEF AuthInv, LoginIsOver, SomebodySignedIn
<1>7. OnlyFirstPartiesAnswered'
  BY <1>2, <1>4, <1>5 DEF AuthInv, OnlyFirstPartiesAnswered
<1> QED
  BY <1>3, <1>6, <1>7 DEF AuthInv

LEMMA ChecksStep ==
    ASSUME AuthInv, Checks
    PROVE  AuthInv'
<1> USE DEF AuthInv
<1>1. /\ auth = "checking" /\ auth' \in {"consent", "finding"}
      /\ UNCHANGED <<vars, ask, sids>>
  BY DEF Checks
<1>2. ask \in Asks /\ ask.client \in FirstParty \cup ThirdParty /\ ask.client \in Clients
      /\ ask.scopes \subseteq {"openid", "email", "profile"} /\ ask.consent \in BOOLEAN
  BY AskFields DEF AuthTypeOK, Clients
<1>3. prompted' \in [Clients -> SUBSET {"openid", "email", "profile"}]
  <2>1. CASE IsFirstParty(ask.client)
    BY <1>2, <2>1 DEF Checks, Remembered, AuthTypeOK
  <2>2. CASE ~IsFirstParty(ask.client)
    BY <2>2 DEF Checks, Remembered, AuthTypeOK
  <2> QED
    BY <2>1, <2>2
<1>4. AuthTypeOK'
  BY <1>1, <1>3 DEF AuthTypeOK, Stages
<1>5. auth' = "finding" => ~ask.consent /\ ask.client \in FirstParty
  <2>1. auth' = "finding" => ~ask.consent /\ ~ClientNotAuthorized
    BY DEF Checks
  <2> QED
    BY <1>2, <2>1 DEF ClientNotAuthorized, IsFirstParty, OnlyFirstPartiesAnswered
<1>6. auth' = "consent" => ask.client \in ThirdParty \/ ask.consent
  BY <1>2 DEF Checks, ClientNotAuthorized, ScopesMissing, IsFirstParty
<1>7. LoginIsOver' /\ SomebodySignedIn'
  BY <1>1 DEF LoginIsOver, SomebodySignedIn, vars
<1>8. OnlyFirstPartiesAnswered'
  BY <1>1, <1>5, <1>6 DEF OnlyFirstPartiesAnswered
<1> QED
  BY <1>4, <1>7, <1>8

\* The consent page leads to no answer, whatever is pressed.
LEMMA PageStep ==
    ASSUME AuthInv, ShowsConsent \/ Confirm \/ Cancel \/ FindAccountRejects
    PROVE  AuthInv'
<1> USE DEF AuthInv, ShowsConsent, Confirm, Cancel, FindAccountRejects
<1>1. AuthTypeOK'
  BY DEF AuthTypeOK, Stages, Done
<1>2. LoginIsOver' /\ SomebodySignedIn' /\ OnlyFirstPartiesAnswered'
  BY DEF LoginIsOver, SomebodySignedIn, OnlyFirstPartiesAnswered, vars
<1> QED
  BY <1>1, <1>2

LEMMA AnswersStep ==
    ASSUME AuthInv, FindsItsAccount
    PROVE  AuthInv'
<1> USE DEF AuthInv
<1>1. /\ auth = "finding" /\ auth' = "answered"
      /\ sids' = sids \cup {ask.client}
      /\ UNCHANGED <<vars, ask, prompted>>
  BY DEF FindsItsAccount
<1>2. session \in Accounts /\ ask.client \in FirstParty /\ ~ask.consent /\ interaction = Gone
  BY <1>1 DEF SomebodySignedIn, OnlyFirstPartiesAnswered, LoginIsOver
<1>3. AuthTypeOK'
  BY <1>1, <1>2 DEF AuthTypeOK, Stages, Done, Clients
<1>4. LoginIsOver' /\ SomebodySignedIn'
  BY <1>1, <1>2 DEF LoginIsOver, SomebodySignedIn, vars
<1>5. OnlyFirstPartiesAnswered'
  BY <1>1, <1>2 DEF OnlyFirstPartiesAnswered
<1> QED
  BY <1>3, <1>4, <1>5

\* A further authorization, or the end of the session.
LEMMA SessionStep ==
    ASSUME IInv, AuthInv, AsksAgain \/ SessionExpires
    PROVE  AuthInv'
<1> USE DEF AuthInv
<1>1. interaction' = Gone
  BY DEF AsksAgain, SessionExpires, LoginIsOver, Done, vars
<1>2. AuthTypeOK'
  BY DEF AsksAgain, SessionExpires, AuthTypeOK, Stages
<1>3. CASE AsksAgain
  <2>1. auth' = "checking" /\ session' \in Accounts /\ sids' = sids
    BY <1>3 DEF AsksAgain, IInv, TypeOK, vars
  <2> QED
    BY <1>1, <1>2, <2>1 DEF LoginIsOver, SomebodySignedIn, OnlyFirstPartiesAnswered
<1>4. CASE SessionExpires
  BY <1>1, <1>2, <1>4
     DEF SessionExpires, LoginIsOver, SomebodySignedIn, OnlyFirstPartiesAnswered
<1> QED
  BY <1>3, <1>4

\* Both invariants hold in every reachable state.
THEOREM SignOnInvariant == SignOnSpec => [](IInv /\ AuthInv)
<1>1. IInv /\ AuthInv /\ [SignOnNext]_signOnVars => AuthInv'
  <2>1. AuthInv /\ UNCHANGED signOnVars => AuthInv'
    BY DEF signOnVars, authVars, vars, AuthInv, AuthTypeOK, LoginIsOver, SomebodySignedIn,
           OnlyFirstPartiesAnswered
  <2> QED
    BY <2>1, LoginAuthStep, ChecksStep, PageStep, AnswersStep, SessionStep DEF SignOnNext
<1> QED
  BY <1>1, InitSignOn, LoginInvariantStep, PTL DEF SignOnSpec

\* Types, for every set of tabs, accounts, clients and requests.
THEOREM SignOnTypeCorrect == SignOnSpec => []SignOnTypeOK
<1>1. IInv /\ AuthInv => SignOnTypeOK
  BY DEF IInv, AuthInv, AuthTypeOK, SignOnTypeOK
<1> QED
  BY <1>1, SignOnInvariant, PTL

\* The session of routes.ts is of somebody who was texted a code, also when it
\* outlives its first authorization.
THEOREM SessionsNeedText == SignOnSpec => []SignedInWasTexted
<1>1. IInv => SignedInWasTexted
  BY DEF IInv, SignInsWereTexted, SignedInWasTexted, Texted
<1> QED
  BY <1>1, SignOnInvariant, PTL

\* After the login of an authorization nothing of another tab is accepted any more
\* (routes.ts finds no interaction): nobody else is signed into the session.
THEOREM LateTabsSignNobodyIn == SignOnSpec => NobodyElseSignsIn
<1>1. ASSUME AuthInv, SignOnNext, auth # "login"
      PROVE  session' \in {session, Nobody}
  <2>1. interaction = Gone
    BY <1>1 DEF AuthInv, LoginIsOver
  <2>2. CASE LoginStep
    BY <2>1, <2>2, OverStaysOver DEF LoginStep
  <2>3. CASE ~LoginStep
    BY <1>1, <2>3 DEF SignOnNext, Checks, ShowsConsent, Confirm, Cancel, FindsItsAccount,
       FindAccountRejects, AsksAgain, SessionExpires, vars
  <2> QED
    BY <2>2, <2>3
<1>2. IInv /\ AuthInv /\ [SignOnNext]_signOnVars
        => [auth # "login" => session' \in {session, Nobody}]_signOnVars
  BY <1>1
<1> QED
  BY <1>2, SignOnInvariant, PTL DEF SignOnSpec, NobodyElseSignsIn

\* The two checks of oidcConfig.ts let every first party pass and no third party:
\* an authorization that is sent to the consent page is never answered.
THEOREM ConsentIsADeadEnd == SignOnSpec => []ConsentIsForThirdParties
<1>1. AuthInv => ConsentIsForThirdParties
  BY DEF AuthInv, OnlyFirstPartiesAnswered, ConsentIsForThirdParties
<1> QED
  BY <1>1, SignOnInvariant, PTL
=============================================================================
