--------------------------- MODULE SsoLoginProofs ---------------------------
(***************************************************************************)
(* Proofs about signing in, for every set of tabs and accounts.            *)
(***************************************************************************)
EXTENDS SsoLogin, TLAPS

Texted(a) == \E code \in texts : code.account = a

\* Whoever is, or is about to be, signed in was texted a code.
CodesComeFromTexts ==
    \A b \in Tabs : tab[b].at \in Posted => tab[b].code \in texts \cup {Typo}

SignInsWereTexted ==
    \A a \in Accounts :
        /\ \A b \in Tabs : tab[b].at = "finish" /\ tab[b].result = SignIn(a) => Texted(a)
        /\ interaction = SignIn(a) => Texted(a)
        /\ session = a => Texted(a)

\* A cookie that says how many tries are left is never ahead of the refusals,
\* neither in the jar nor in a request under way.
Spent(cookie) == cookie # NoCookie => wrong >= 3 - cookie

CountIsEarned ==
    /\ Spent(jar.retries)
    /\ \A b \in Tabs :
        /\ tab[b].at \in Posted => Spent(tab[b].retries)
        /\ tab[b].at = "finish" /\ tab[b].result = InvalidCode => wrong >= 3
    /\ interaction = InvalidCode => wrong >= 3

\* Until requests overlap there is one under way, with the jar's cookie.
OneAtATime ==
    ~slipped =>
        \A b \in Tabs : tab[b].at \in Posted =>
            /\ tab[b].retries = jar.retries
            /\ \A other \in Tabs : tab[other].at \in Posted => other = b

IInv ==
    /\ TypeOK
    /\ CodesComeFromTexts
    /\ SignInsWereTexted
    /\ CountIsEarned
    /\ OneAtATime
    /\ RetriesAreCounted

-----------------------------------------------------------------------------
\* What a page holds tells what it is.
LEMMA PageFields ==
    ASSUME NEW p \in Pages
    PROVE  /\ p.at \in {"find", "lookup", "send", "code"} => p.account \in Accounts
           /\ p.at \in Posted => /\ p.account \in Accounts \cup {NoCookie}
                                 /\ p.retries \in {NoCookie} \cup 1 .. 2
                                 /\ p.code \in Codes \cup {Typo}
           /\ p.at = "finish" => p.result \in Results
  BY DEF Pages, Posted

LEMMA PageMakers ==
    /\ [at |-> "login"] \in Pages /\ [at |-> "resume"] \in Pages
    /\ [at |-> "error"] \in Pages /\ [at |-> "left"] \in Pages
    /\ \A a \in Accounts :
        /\ [at |-> "find", account |-> a] \in Pages
        /\ [at |-> "lookup", account |-> a] \in Pages
        /\ [at |-> "send", account |-> a] \in Pages
        /\ [at |-> "code", account |-> a] \in Pages
    /\ \A r \in Results : [at |-> "finish", result |-> r] \in Pages
    /\ \A a \in Accounts \cup {NoCookie}, k \in {NoCookie} \cup 1 .. 2, c \in Codes \cup {Typo} :
        /\ [at |-> "verify", account |-> a, retries |-> k, code |-> c] \in Pages
        /\ [at |-> "check", account |-> a, retries |-> k, code |-> c] \in Pages
  BY DEF Pages, Posted

\* The results are told apart by what they say.
LEMMA ResultNames ==
    /\ \A a \in Accounts : /\ SignIn(a) \in Results /\ SignIn(a).account = a
                           /\ SignIn(a) \notin {InvalidCode, AccessDenied, Open, Gone}
    /\ InvalidCode \in Results /\ AccessDenied \in Results
    /\ InvalidCode \notin {AccessDenied, Open, Gone}
    /\ Open \notin Results /\ Gone \notin Results
    /\ \A r \in Results : /\ r.account \in Accounts \cup {Nobody}
                          /\ r.account \in Accounts => r = SignIn(r.account)
<1>1. /\ \A a \in Accounts : SignIn(a).kind = "login" /\ SignIn(a).account = a
      /\ InvalidCode.kind = "invalid_code" /\ InvalidCode.account = Nobody
      /\ AccessDenied.kind = "access_denied" /\ AccessDenied.account = Nobody
      /\ Open.kind = "open" /\ Gone.kind = "gone"
  BY DEF SignIn, InvalidCode, AccessDenied, Open, Gone, Without
<1>2. /\ \A a \in Accounts : SignIn(a) \in Results
      /\ InvalidCode \in Results /\ AccessDenied \in Results
  BY DEF Results
<1>3. \A r \in Results : \/ \E a \in Accounts : r = SignIn(a)
                         \/ r = InvalidCode \/ r = AccessDenied
  BY DEF Results
<1>4. Open \notin Results /\ Gone \notin Results
  BY <1>1, <1>3
<1>5. \A r \in Results : /\ r.account \in Accounts \cup {Nobody}
                         /\ r.account \in Accounts => r = SignIn(r.account)
  BY <1>1, <1>3, NamesAssumption
<1>6. /\ \A a \in Accounts : SignIn(a) \notin {InvalidCode, AccessDenied, Open, Gone}
      /\ InvalidCode \notin {AccessDenied, Open, Gone}
  BY <1>1
<1> QED
  BY <1>1, <1>2, <1>4, <1>5, <1>6

\* Init satisfies the invariant.
LEMMA InitInvariant == Init => IInv
<1> SUFFICES ASSUME Init PROVE IInv
  OBVIOUS
<1>1. TypeOK
  <2>1. CodesTypeOK /\ wrong \in 0 .. MaxWrong
    BY MaxWrongAssumption, LastStepAssumption DEF Init, CodesTypeOK, CodesInit
  <2>2. tab \in [Tabs -> Pages]
    BY PageMakers DEF Init, Blank
  <2>3. slipped \in BOOLEAN
    BY Zenon DEF Init
  <2>4. /\ jar \in [account : Accounts \cup {NoCookie}, retries : {NoCookie} \cup 1 .. 2]
        /\ interaction \in {Open, Gone} \cup Results
        /\ session \in Accounts \cup {Nobody}
    BY DEF Init
  <2>5. QED
    BY <2>1, <2>2, <2>3, <2>4, Zenon DEF TypeOK
<1>2. \A b \in Tabs : tab[b].at = "login"
  BY DEF Init, Blank
<1>3. CodesComeFromTexts /\ OneAtATime
  BY <1>2 DEF CodesComeFromTexts, OneAtATime, Posted
<1>4. SignInsWereTexted
  BY <1>2, ResultNames, NamesAssumption DEF Init, SignInsWereTexted
<1>5. CountIsEarned
  BY <1>2, ResultNames DEF Init, CountIsEarned, Spent, Posted
<1>6. RetriesAreCounted
  BY DEF Init, RetriesAreCounted
<1> QED
  BY <1>1, <1>3, <1>4, <1>5, <1>6 DEF IInv


\* One page is replaced, the other tabs keep theirs.
LEMMA Shown ==
    ASSUME TypeOK, NEW b \in Tabs, NEW page, Show(b, page)
    PROVE  /\ tab'[b] = page
           /\ \A other \in Tabs : other # b => tab'[other] = tab[other]
           /\ page \in Pages => tab' \in [Tabs -> Pages]
  BY DEF TypeOK, Show

\* The parts of TypeOK, and what the prover needs to know of the tabs' pages.
LEMMA TypeParts ==
    ASSUME TypeOK
    PROVE  /\ CodesTypeOK
           /\ tab \in [Tabs -> Pages]
           /\ \A b \in Tabs : tab[b] \in Pages
           /\ jar \in [account : Accounts \cup {NoCookie}, retries : {NoCookie} \cup 1 .. 2]
           /\ interaction \in {Open, Gone} \cup Results
           /\ session \in Accounts \cup {Nobody}
           /\ wrong \in 0 .. MaxWrong
           /\ slipped \in BOOLEAN
  BY Zenon DEF TypeOK

-----------------------------------------------------------------------------
\* Every step keeps the types.
LEMMA TypeStep == TypeOK /\ [Next]_vars => TypeOK'
<1> SUFFICES ASSUME TypeOK, [Next]_vars PROVE TypeOK'
  OBVIOUS
<1> USE DEF codeVars
<1>0. /\ CodesTypeOK /\ tab \in [Tabs -> Pages] /\ \A b \in Tabs : tab[b] \in Pages
      /\ jar \in [account : Accounts \cup {NoCookie}, retries : {NoCookie} \cup 1 .. 2]
      /\ interaction \in {Open, Gone} \cup Results
      /\ session \in Accounts \cup {Nobody} /\ wrong \in 0 .. MaxWrong /\ slipped \in BOOLEAN
  BY TypeParts, Zenon
<1>1. ASSUME NEW b \in Tabs, NEW a \in Accounts, PostLogin(b, a) PROVE TypeOK'
  <2>1. [at |-> "find", account |-> a] \in Pages
    BY <1>1, <1>0, PageMakers DEF PostLogin
  <2>2. tab' \in [Tabs -> Pages]
    BY <1>1, <2>1, Shown DEF PostLogin
  <2>3. CodesTypeOK'
    BY <1>1, <1>0 DEF PostLogin, CodesTypeOK
  <2>4. /\ jar' \in [account : Accounts \cup {NoCookie}, retries : {NoCookie} \cup 1 .. 2]
        /\ interaction' \in {Open, Gone} \cup Results
        /\ session' \in Accounts \cup {Nobody}
        /\ wrong' \in 0 .. MaxWrong
    BY <1>1, <1>0 DEF PostLogin
  <2>5. slipped' \in BOOLEAN
    BY <1>1, <1>0, Zenon DEF PostLogin
  <2>6. QED
    BY <2>2, <2>3, <2>4, <2>5, Zenon DEF TypeOK
<1>2. ASSUME NEW b \in Tabs, FindsAccount(b) PROVE TypeOK'
  <2>1. [at |-> "send", account |-> tab[b].account] \in Pages
    BY <1>2, <1>0, PageMakers, PageFields DEF FindsAccount
  <2>2. tab' \in [Tabs -> Pages]
    BY <1>2, <2>1, Shown DEF FindsAccount
  <2>3. CodesTypeOK'
    BY <1>2, <1>0 DEF FindsAccount, CodesTypeOK
  <2>4. /\ jar' \in [account : Accounts \cup {NoCookie}, retries : {NoCookie} \cup 1 .. 2]
        /\ interaction' \in {Open, Gone} \cup Results
        /\ session' \in Accounts \cup {Nobody}
        /\ wrong' \in 0 .. MaxWrong
    BY <1>2, <1>0 DEF FindsAccount
  <2>5. slipped' \in BOOLEAN
    BY <1>2, <1>0, Zenon DEF FindsAccount
  <2>6. QED
    BY <2>2, <2>3, <2>4, <2>5, Zenon DEF TypeOK
<1>3. ASSUME NEW b \in Tabs, FindsNoAccount(b) PROVE TypeOK'
  <2>1. Blank \in Pages
    BY <1>3, <1>0, PageMakers DEF FindsNoAccount, Blank
  <2>2. tab' \in [Tabs -> Pages]
    BY <1>3, <2>1, Shown DEF FindsNoAccount
  <2>3. CodesTypeOK'
    BY <1>3, <1>0 DEF FindsNoAccount, CodesTypeOK
  <2>4. /\ jar' \in [account : Accounts \cup {NoCookie}, retries : {NoCookie} \cup 1 .. 2]
        /\ interaction' \in {Open, Gone} \cup Results
        /\ session' \in Accounts \cup {Nobody}
        /\ wrong' \in 0 .. MaxWrong
    BY <1>3, <1>0 DEF FindsNoAccount
  <2>5. slipped' \in BOOLEAN
    BY <1>3, <1>0, Zenon DEF FindsNoAccount
  <2>6. QED
    BY <2>2, <2>3, <2>4, <2>5, Zenon DEF TypeOK
<1>4. ASSUME NEW b \in Tabs, SendsCode(b) PROVE TypeOK'
  <2>1. [at |-> "code", account |-> tab[b].account] \in Pages
    BY <1>4, <1>0, PageMakers, PageFields DEF SendsCode
  <2>2. tab' \in [Tabs -> Pages]
    BY <1>4, <2>1, Shown DEF SendsCode
  <2>3. CodesTypeOK'
    BY <1>4, <1>0, PageFields DEF SendsCode, CodesTypeOK, SendPasswordlessCode, SendText, CurrentCode, Codes
  <2>4. /\ jar' \in [account : Accounts \cup {NoCookie}, retries : {NoCookie} \cup 1 .. 2]
        /\ interaction' \in {Open, Gone} \cup Results
        /\ session' \in Accounts \cup {Nobody}
        /\ wrong' \in 0 .. MaxWrong
    BY <1>4, <1>0, PageFields DEF SendsCode
  <2>5. slipped' \in BOOLEAN
    BY <1>4, <1>0, Zenon DEF SendsCode
  <2>6. QED
    BY <2>2, <2>3, <2>4, <2>5, Zenon DEF TypeOK
<1>5. ASSUME NEW b \in Tabs, SendRejected(b) PROVE TypeOK'
  <2>1. [at |-> "error"] \in Pages
    BY <1>5, <1>0, PageMakers DEF SendRejected, ShowError
  <2>2. tab' \in [Tabs -> Pages]
    BY <1>5, <2>1, Shown DEF SendRejected, ShowError
  <2>3. CodesTypeOK'
    BY <1>5, <1>0 DEF SendRejected, CodesTypeOK, SendCodeFails
  <2>4. /\ jar' \in [account : Accounts \cup {NoCookie}, retries : {NoCookie} \cup 1 .. 2]
        /\ interaction' \in {Open, Gone} \cup Results
        /\ session' \in Accounts \cup {Nobody}
        /\ wrong' \in 0 .. MaxWrong
    BY <1>5, <1>0 DEF SendRejected
  <2>5. slipped' \in BOOLEAN
    BY <1>5, <1>0, Zenon DEF SendRejected
  <2>6. QED
    BY <2>2, <2>3, <2>4, <2>5, Zenon DEF TypeOK
<1>6. ASSUME NEW b \in Tabs, NEW code \in texts \cup {Typo}, PostCode(b, code) PROVE TypeOK'
  <2>1. [at |-> "verify", account |-> jar.account, retries |-> jar.retries, code |-> code] \in Pages
    BY <1>6, <1>0, PageMakers DEF PostCode, CodesTypeOK
  <2>2. tab' \in [Tabs -> Pages]
    BY <1>6, <2>1, Shown DEF PostCode
  <2>3. CodesTypeOK'
    BY <1>6, <1>0 DEF PostCode, CodesTypeOK
  <2>4. /\ jar' \in [account : Accounts \cup {NoCookie}, retries : {NoCookie} \cup 1 .. 2]
        /\ interaction' \in {Open, Gone} \cup Results
        /\ session' \in Accounts \cup {Nobody}
        /\ wrong' \in 0 .. MaxWrong
    BY <1>6, <1>0 DEF PostCode
  <2>5. slipped' \in BOOLEAN
    BY <1>6, <1>0, Zenon DEF PostCode
  <2>6. QED
    BY <2>2, <2>3, <2>4, <2>5, Zenon DEF TypeOK
<1>7. ASSUME NEW b \in Tabs, CodeAccepted(b) PROVE TypeOK'
  <2>1. [at |-> "finish", result |-> SignIn(tab[b].account)] \in Pages
    BY <1>7, <1>0, PageMakers, PageFields, ResultNames DEF CodeAccepted, Verifying, Posted
  <2>2. tab' \in [Tabs -> Pages]
    BY <1>7, <2>1, Shown DEF CodeAccepted
  <2>3. CodesTypeOK'
    BY <1>7, <1>0 DEF CodeAccepted, CodesTypeOK
  <2>4. /\ jar' \in [account : Accounts \cup {NoCookie}, retries : {NoCookie} \cup 1 .. 2]
        /\ interaction' \in {Open, Gone} \cup Results
        /\ session' \in Accounts \cup {Nobody}
        /\ wrong' \in 0 .. MaxWrong
    BY <1>7, <1>0 DEF CodeAccepted, Verifying, Posted
  <2>5. slipped' \in BOOLEAN
    BY <1>7, <1>0, Zenon DEF CodeAccepted
  <2>6. QED
    BY <2>2, <2>3, <2>4, <2>5, Zenon DEF TypeOK
<1>8. ASSUME NEW b \in Tabs, TryAgain(b) PROVE TypeOK'
  <2>1. [at |-> "code", account |-> tab[b].account] \in Pages
    BY <1>8, <1>0, PageMakers, PageFields DEF TryAgain, Refused, Verifying, Posted
  <2>2. tab' \in [Tabs -> Pages]
    BY <1>8, <2>1, Shown DEF TryAgain
  <2>3. CodesTypeOK'
    BY <1>8, <1>0 DEF TryAgain, CodesTypeOK
  <2>4. /\ jar' \in [account : Accounts \cup {NoCookie}, retries : {NoCookie} \cup 1 .. 2]
        /\ interaction' \in {Open, Gone} \cup Results
        /\ session' \in Accounts \cup {Nobody}
        /\ wrong' \in 0 .. MaxWrong
    BY <1>8, <1>0, PageFields, MaxWrongAssumption DEF TryAgain, Refused, Verifying, Posted, RetriesLeft
  <2>5. slipped' \in BOOLEAN
    BY <1>8, <1>0, Zenon DEF TryAgain, Refused
  <2>6. QED
    BY <2>2, <2>3, <2>4, <2>5, Zenon DEF TypeOK
<1>9. ASSUME NEW b \in Tabs, OutOfRetries(b) PROVE TypeOK'
  <2>1. [at |-> "finish", result |-> InvalidCode] \in Pages
    BY <1>9, <1>0, PageMakers, ResultNames DEF OutOfRetries
  <2>2. tab' \in [Tabs -> Pages]
    BY <1>9, <2>1, Shown DEF OutOfRetries
  <2>3. CodesTypeOK'
    BY <1>9, <1>0 DEF OutOfRetries, CodesTypeOK
  <2>4. /\ jar' \in [account : Accounts \cup {NoCookie}, retries : {NoCookie} \cup 1 .. 2]
        /\ interaction' \in {Open, Gone} \cup Results
        /\ session' \in Accounts \cup {Nobody}
        /\ wrong' \in 0 .. MaxWrong
    BY <1>9, <1>0, MaxWrongAssumption DEF OutOfRetries, Refused
  <2>5. slipped' \in BOOLEAN
    BY <1>9, <1>0, Zenon DEF OutOfRetries, Refused
  <2>6. QED
    BY <2>2, <2>3, <2>4, <2>5, Zenon DEF TypeOK
<1>10. ASSUME NEW b \in Tabs, VerifyRejected(b) PROVE TypeOK'
  <2>1. [at |-> "error"] \in Pages
    BY <1>10, <1>0, PageMakers DEF VerifyRejected, ShowError
  <2>2. tab' \in [Tabs -> Pages]
    BY <1>10, <2>1, Shown DEF VerifyRejected, ShowError
  <2>3. CodesTypeOK'
    BY <1>10, <1>0 DEF VerifyRejected, CodesTypeOK
  <2>4. /\ jar' \in [account : Accounts \cup {NoCookie}, retries : {NoCookie} \cup 1 .. 2]
        /\ interaction' \in {Open, Gone} \cup Results
        /\ session' \in Accounts \cup {Nobody}
        /\ wrong' \in 0 .. MaxWrong
    BY <1>10, <1>0 DEF VerifyRejected
  <2>5. slipped' \in BOOLEAN
    BY <1>10, <1>0, Zenon DEF VerifyRejected
  <2>6. QED
    BY <2>2, <2>3, <2>4, <2>5, Zenon DEF TypeOK
<1>11. ASSUME NEW b \in Tabs, Abort(b) PROVE TypeOK'
  <2>1. [at |-> "finish", result |-> AccessDenied] \in Pages
    BY <1>11, <1>0, PageMakers, ResultNames DEF Abort
  <2>2. tab' \in [Tabs -> Pages]
    BY <1>11, <2>1, Shown DEF Abort
  <2>3. CodesTypeOK'
    BY <1>11, <1>0 DEF Abort, CodesTypeOK
  <2>4. /\ jar' \in [account : Accounts \cup {NoCookie}, retries : {NoCookie} \cup 1 .. 2]
        /\ interaction' \in {Open, Gone} \cup Results
        /\ session' \in Accounts \cup {Nobody}
        /\ wrong' \in 0 .. MaxWrong
    BY <1>11, <1>0 DEF Abort
  <2>5. slipped' \in BOOLEAN
    BY <1>11, <1>0, Zenon DEF Abort
  <2>6. QED
    BY <2>2, <2>3, <2>4, <2>5, Zenon DEF TypeOK
<1>12. ASSUME NEW b \in Tabs, Finish(b) PROVE TypeOK'
  <2>1. [at |-> "resume"] \in Pages
    BY <1>12, <1>0, PageMakers DEF Finish
  <2>2. tab' \in [Tabs -> Pages]
    BY <1>12, <2>1, Shown DEF Finish
  <2>3. CodesTypeOK'
    BY <1>12, <1>0 DEF Finish, CodesTypeOK
  <2>4. /\ jar' \in [account : Accounts \cup {NoCookie}, retries : {NoCookie} \cup 1 .. 2]
        /\ interaction' \in {Open, Gone} \cup Results
        /\ session' \in Accounts \cup {Nobody}
        /\ wrong' \in 0 .. MaxWrong
    BY <1>12, <1>0, PageFields DEF Finish, JarAfter
  <2>5. slipped' \in BOOLEAN
    BY <1>12, <1>0, Zenon DEF Finish
  <2>6. QED
    BY <2>2, <2>3, <2>4, <2>5, Zenon DEF TypeOK
<1>13. ASSUME NEW b \in Tabs, SessionNotFound(b) PROVE TypeOK'
  <2>1. [at |-> "error"] \in Pages
    BY <1>13, <1>0, PageMakers DEF SessionNotFound, RenderError, ShowError
  <2>2. tab' \in [Tabs -> Pages]
    BY <1>13, <2>1, Shown DEF SessionNotFound, RenderError, ShowError
  <2>3. CodesTypeOK'
    BY <1>13, <1>0 DEF SessionNotFound, CodesTypeOK
  <2>4. /\ jar' \in [account : Accounts \cup {NoCookie}, retries : {NoCookie} \cup 1 .. 2]
        /\ interaction' \in {Open, Gone} \cup Results
        /\ session' \in Accounts \cup {Nobody}
        /\ wrong' \in 0 .. MaxWrong
    BY <1>13, <1>0 DEF SessionNotFound, JarAfter
  <2>5. slipped' \in BOOLEAN
    BY <1>13, <1>0, Zenon DEF SessionNotFound
  <2>6. QED
    BY <2>2, <2>3, <2>4, <2>5, Zenon DEF TypeOK
<1>14. ASSUME NEW b \in Tabs, Resume(b) PROVE TypeOK'
  <2>1. [at |-> "left"] \in Pages
    BY <1>14, <1>0, PageMakers DEF Resume
  <2>2. tab' \in [Tabs -> Pages]
    BY <1>14, <2>1, Shown DEF Resume
  <2>3. CodesTypeOK'
    BY <1>14, <1>0 DEF Resume, CodesTypeOK
  <2>4. /\ jar' \in [account : Accounts \cup {NoCookie}, retries : {NoCookie} \cup 1 .. 2]
        /\ interaction' \in {Open, Gone} \cup Results
        /\ session' \in Accounts \cup {Nobody}
        /\ wrong' \in 0 .. MaxWrong
    BY <1>14, <1>0, ResultNames DEF Resume
  <2>5. slipped' \in BOOLEAN
    BY <1>14, <1>0, Zenon DEF Resume
  <2>6. QED
    BY <2>2, <2>3, <2>4, <2>5, Zenon DEF TypeOK
<1>15. CASE CookieExpires
  <2>1. slipped' \in BOOLEAN
    BY <1>15, <1>0, Zenon DEF CookieExpires
  <2>2. jar' \in [account : Accounts \cup {NoCookie}, retries : {NoCookie} \cup 1 .. 2]
    BY <1>15, <1>0 DEF CookieExpires
  <2>3. CodesTypeOK' /\ UNCHANGED <<tab, interaction, session, wrong>>
    BY <1>15, <1>0 DEF CookieExpires, CodesTypeOK
  <2>4. QED
    BY <1>0, <2>1, <2>2, <2>3, Zenon DEF TypeOK
<1>16. CASE TimePasses
  <2>1. CodesTypeOK'
    BY <1>16, <1>0, LastStepAssumption DEF TimePasses, NextStep, CodesTypeOK
  <2>2. QED
    BY <1>16, <1>0, <2>1, Zenon DEF TimePasses, TypeOK
<1>17. CASE UNCHANGED vars
  <2>1. CodesTypeOK'
    BY <1>17, <1>0 DEF vars, CodesTypeOK
  <2>2. QED
    BY <1>17, <1>0, <2>1, Zenon DEF vars, TypeOK
<1>18. ASSUME NEW b \in Tabs, LooksUp(b) PROVE TypeOK'
  <2>1. [at |-> "lookup", account |-> tab[b].account] \in Pages
    BY <1>18, <1>0, PageMakers, PageFields DEF LooksUp
  <2>2. tab' \in [Tabs -> Pages]
    BY <1>18, <2>1, Shown DEF LooksUp
  <2>3. CodesTypeOK'
    BY <1>18, <1>0 DEF LooksUp, CodesTypeOK
  <2>4. /\ jar' \in [account : Accounts \cup {NoCookie}, retries : {NoCookie} \cup 1 .. 2]
        /\ interaction' \in {Open, Gone} \cup Results
        /\ session' \in Accounts \cup {Nobody}
        /\ wrong' \in 0 .. MaxWrong
    BY <1>18, <1>0 DEF LooksUp
  <2>5. slipped' \in BOOLEAN
    BY <1>18, <1>0, Zenon DEF LooksUp
  <2>6. QED
    BY <2>2, <2>3, <2>4, <2>5, Zenon DEF TypeOK
<1>19. ASSUME NEW b \in Tabs, AsksIdentity(b) PROVE TypeOK'
  <2>1. [at |-> "check", account |-> tab[b].account, retries |-> tab[b].retries, code |-> tab[b].code]
          \in Pages
    BY <1>19, <1>0, PageMakers, PageFields DEF AsksIdentity, Posted
  <2>2. tab' \in [Tabs -> Pages]
    BY <1>19, <2>1, Shown DEF AsksIdentity
  <2>3. CodesTypeOK'
    BY <1>19, <1>0 DEF AsksIdentity, CodesTypeOK
  <2>4. /\ jar' \in [account : Accounts \cup {NoCookie}, retries : {NoCookie} \cup 1 .. 2]
        /\ interaction' \in {Open, Gone} \cup Results
        /\ session' \in Accounts \cup {Nobody}
        /\ wrong' \in 0 .. MaxWrong
    BY <1>19, <1>0 DEF AsksIdentity
  <2>5. slipped' \in BOOLEAN
    BY <1>19, <1>0, Zenon DEF AsksIdentity
  <2>6. QED
    BY <2>2, <2>3, <2>4, <2>5, Zenon DEF TypeOK
<1> QED
  BY <1>1, <1>2, <1>3, <1>4, <1>5, <1>6, <1>7, <1>8, <1>9, <1>10, <1>11, <1>12, <1>13, <1>14, <1>15, <1>16, <1>17,
     <1>18, <1>19, Zenon DEF Next

-----------------------------------------------------------------------------
(* What a step can do to each variable.                                     *)

LEMMA TextsStay == [Next]_vars => texts \subseteq texts'
  BY DEF Next, vars, codeVars, PostLogin, LooksUp, FindsAccount, FindsNoAccount, SendsCode, SendRejected, PostCode, AsksIdentity, CodeAccepted, TryAgain, OutOfRetries, VerifyRejected, Abort, Finish, SessionNotFound, Resume, CookieExpires, TimePasses, Refused, SendPasswordlessCode, SendText, SendCodeFails, NextStep

LEMMA WrongGrows == TypeOK /\ [Next]_vars => wrong \in Nat /\ wrong' \in Nat /\ wrong <= wrong'
<1> SUFFICES ASSUME TypeOK, [Next]_vars PROVE wrong \in Nat /\ wrong' \in Nat /\ wrong <= wrong'
  OBVIOUS
<1>1. wrong \in Nat
  BY TypeParts, MaxWrongAssumption
<1>2. wrong' = wrong \/ wrong' = wrong + 1
  BY DEF Next, vars, codeVars, PostLogin, LooksUp, FindsAccount, FindsNoAccount, SendsCode, SendRejected, PostCode, AsksIdentity, CodeAccepted, TryAgain, OutOfRetries, VerifyRejected, Abort, Finish, SessionNotFound, Resume, CookieExpires, TimePasses, Refused
<1> QED
  BY <1>1, <1>2

LEMMA RetriesSteps ==
    TypeOK /\ [Next]_vars => \/ jar'.retries = jar.retries
                             \/ CookieExpires /\ jar'.retries = NoCookie
                             \/ \E b \in Tabs : TryAgain(b)
<1> SUFFICES ASSUME TypeOK, [Next]_vars, ~CookieExpires, \A b \in Tabs : ~TryAgain(b)
             PROVE  jar'.retries = jar.retries
  <2>1. TypeOK /\ CookieExpires => jar'.retries \in {NoCookie, jar.retries}
    BY TypeParts DEF CookieExpires
  <2> QED
    BY <2>1
<1>1. jar' = jar \/ \E x : jar' = [jar EXCEPT !.account = x]
  BY DEF Next, vars, codeVars, PostLogin, LooksUp, FindsAccount, FindsNoAccount, SendsCode, SendRejected, PostCode, AsksIdentity, CodeAccepted, OutOfRetries, VerifyRejected, Abort, Finish, SessionNotFound, Resume, TimePasses, JarAfter, Refused
<1> QED
  BY <1>1, TypeParts

LEMMA InteractionSteps ==
    [Next]_vars => \/ interaction' = interaction
                   \/ interaction' = Gone
                   \/ \E b \in Tabs : tab[b].at = "finish" /\ interaction' = tab[b].result
  BY DEF Next, vars, codeVars, PostLogin, LooksUp, FindsAccount, FindsNoAccount, SendsCode, SendRejected, PostCode, AsksIdentity, CodeAccepted, TryAgain, OutOfRetries, VerifyRejected, Abort, Finish, SessionNotFound, Resume, CookieExpires, TimePasses, Refused

LEMMA SessionSteps ==
    [Next]_vars => \/ session' = session
                   \/ interaction \in Results /\ session' = interaction.account
  BY DEF Next, vars, codeVars, PostLogin, LooksUp, FindsAccount, FindsNoAccount, SendsCode, SendRejected, PostCode, AsksIdentity, CodeAccepted, TryAgain, OutOfRetries, VerifyRejected, Abort, Finish, SessionNotFound, Resume, CookieExpires, TimePasses, Refused

\* Between its two stages a request keeps what came with it.
LEMMA Asked ==
    ASSUME TypeOK, NEW b \in Tabs, AsksIdentity(b)
    PROVE  /\ tab[b].at = "verify" /\ tab'[b].at = "check"
           /\ tab'[b].retries = tab[b].retries /\ tab'[b].code = tab[b].code
           /\ \A other \in Tabs : other # b => tab'[other] = tab[other]
           /\ jar' = jar
  BY Shown DEF AsksIdentity

\* A page is left alone, or turned into one that waits for no verdict, unless by
\* one of five steps of its own tab.
LEMMA PageSteps ==
    ASSUME TypeOK, [Next]_vars, NEW b \in Tabs
    PROVE  \/ tab'[b] = tab[b]
           \/ tab'[b].at \notin Posted \cup {"finish"}
           \/ \E code \in texts \cup {Typo} : PostCode(b, code)
           \/ AsksIdentity(b) \/ CodeAccepted(b) \/ OutOfRetries(b) \/ Abort(b)
<1>1. ASSUME NEW c \in Tabs, NEW page, Show(c, page)
      PROVE  tab'[b] = tab[b] \/ (c = b /\ tab'[b] = page)
  BY <1>1, Shown
<1>2. ASSUME NEW c \in Tabs, NEW page, Show(c, page), page.at \notin Posted \cup {"finish"}
      PROVE  tab'[b] = tab[b] \/ tab'[b].at \notin Posted \cup {"finish"}
  BY <1>1, <1>2
<1>3. ASSUME NEW c \in Tabs,
             \/ \E code \in texts \cup {Typo} : PostCode(c, code)
             \/ AsksIdentity(c) \/ CodeAccepted(c) \/ OutOfRetries(c) \/ Abort(c)
      PROVE  tab'[b] = tab[b] \/ c = b
  BY <1>1, <1>3 DEF PostCode, AsksIdentity, CodeAccepted, OutOfRetries, Abort
<1>4. ASSUME NEW c \in Tabs,
             \/ \E a \in Accounts : PostLogin(c, a)
             \/ LooksUp(c) \/ FindsAccount(c) \/ FindsNoAccount(c) \/ SendsCode(c) \/ SendRejected(c)
             \/ TryAgain(c) \/ VerifyRejected(c)
             \/ Finish(c) \/ SessionNotFound(c) \/ Resume(c)
      PROVE  tab'[b] = tab[b] \/ tab'[b].at \notin Posted \cup {"finish"}
  BY <1>2, <1>4 DEF PostLogin, LooksUp, FindsAccount, FindsNoAccount, SendsCode, SendRejected,
     TryAgain, VerifyRejected, Finish, SessionNotFound, Resume, RenderError, ShowError, Blank, Posted
<1>5. CookieExpires \/ TimePasses \/ UNCHANGED vars => tab' = tab
  BY DEF CookieExpires, TimePasses, vars
<1> QED
  BY <1>3, <1>4, <1>5 DEF Next

-----------------------------------------------------------------------------
\* Codes typed were texted, and so was every account that is signed in.
LEMMA TextsStep ==
    TypeOK /\ CodesComeFromTexts /\ SignInsWereTexted /\ [Next]_vars
        => CodesComeFromTexts' /\ SignInsWereTexted'
<1> SUFFICES ASSUME TypeOK, CodesComeFromTexts, SignInsWereTexted, [Next]_vars
             PROVE  CodesComeFromTexts' /\ SignInsWereTexted'
  OBVIOUS
<1>1. texts \subseteq texts'
  BY TextsStay
<1>2. \A a : Texted(a) => Texted(a)'
  BY <1>1 DEF Texted
<1>3. ASSUME NEW b \in Tabs, tab'[b].at \in Posted PROVE tab'[b].code \in texts' \cup {Typo}
  <2>1. CASE tab'[b] = tab[b]
    BY <1>1, <1>3, <2>1 DEF CodesComeFromTexts
  <2>2. CASE \E code \in texts \cup {Typo} : PostCode(b, code)
    BY <1>1, <2>2, Shown DEF PostCode
  <2>3. CASE AsksIdentity(b)
    BY <1>1, <2>3, Asked DEF CodesComeFromTexts, Posted
  <2>4. CASE CodeAccepted(b) \/ OutOfRetries(b) \/ Abort(b)
    <3>1. tab'[b].at = "finish"
      BY <2>4, Shown DEF CodeAccepted, OutOfRetries, Abort
    <3> QED
      BY <1>3, <3>1 DEF Posted
  <2> QED
    BY <1>3, <2>1, <2>2, <2>3, <2>4, PageSteps DEF Posted
<1>4. ASSUME NEW b \in Tabs, NEW a \in Accounts, tab'[b].at = "finish", tab'[b].result = SignIn(a)
      PROVE  Texted(a)'
  <2>1. CASE tab'[b] = tab[b]
    BY <1>2, <1>4, <2>1 DEF SignInsWereTexted
  <2>2. CASE AsksIdentity(b) \/ \E code \in texts \cup {Typo} : PostCode(b, code)
    <3>1. AsksIdentity(b) => tab'[b].at = "check"
      BY Asked
    <3>2. ASSUME NEW code \in texts \cup {Typo}, PostCode(b, code) PROVE tab'[b].at = "verify"
      BY <3>2, Shown DEF PostCode
    <3> QED
      BY <1>4, <2>2, <3>1, <3>2
  <2>3. CASE CodeAccepted(b)
    <3>1. tab'[b].result = SignIn(tab[b].account)
      BY <2>3, Shown DEF CodeAccepted
    <3>2. tab[b].at \in Posted /\ tab[b].account \in Accounts /\ tab[b].code = CurrentCode(tab[b].account)
      BY <2>3, TypeParts, PageFields DEF CodeAccepted, Verifying, VerifyPasswordlessCode, Posted
    <3>3. tab[b].account = a
      BY <1>4, <3>1, <3>2, ResultNames
    <3>4. CurrentCode(a) \in Codes /\ CurrentCode(a).account = a
      BY TypeParts DEF CurrentCode, Codes, CodesTypeOK
    <3>5. CurrentCode(a) \in texts
      BY <3>2, <3>3, <3>4, TypoAssumption DEF CodesComeFromTexts
    <3> QED
      BY <1>2, <3>4, <3>5 DEF Texted
  <2>4. CASE OutOfRetries(b) \/ Abort(b)
    <3>1. tab'[b].result \in {InvalidCode, AccessDenied}
      BY <2>4, Shown DEF OutOfRetries, Abort
    <3> QED
      BY <1>4, <3>1, ResultNames
  <2> QED
    BY <1>4, <2>1, <2>2, <2>3, <2>4, PageSteps DEF Posted
<1>5. ASSUME NEW a \in Accounts, interaction' = SignIn(a) PROVE Texted(a)'
  <2>1. interaction' # Gone
    BY <1>5, ResultNames
  <2> QED
    BY <1>2, <1>5, <2>1, InteractionSteps DEF SignInsWereTexted
<1>6. ASSUME NEW a \in Accounts, session' = a PROVE Texted(a)'
  <2>1. CASE interaction \in Results /\ session' = interaction.account
    BY <1>2, <1>6, <2>1, ResultNames DEF SignInsWereTexted
  <2> QED
    BY <1>2, <1>6, <2>1, SessionSteps DEF SignInsWereTexted
<1> QED
  BY <1>3, <1>4, <1>5, <1>6 DEF CodesComeFromTexts, SignInsWereTexted

\* A count in a cookie, in a request or in a result stays behind the refusals.
LEMMA CountStep ==
    TypeOK /\ CountIsEarned /\ [Next]_vars => CountIsEarned'
<1> SUFFICES ASSUME TypeOK, CountIsEarned, [Next]_vars PROVE CountIsEarned'
  OBVIOUS
<1>1. wrong \in Nat /\ wrong' \in Nat /\ wrong <= wrong'
  BY WrongGrows
<1>2. \A k \in {NoCookie} \cup 1 .. 2 : Spent(k) => Spent(k)'
  BY <1>1 DEF Spent
<1>3. ASSUME NEW b \in Tabs, TryAgain(b) \/ OutOfRetries(b)
      PROVE  /\ tab[b].retries \in {NoCookie} \cup 1 .. 2 /\ Spent(tab[b].retries)
             /\ wrong' = wrong + 1
  BY <1>3, TypeParts, PageFields DEF TryAgain, OutOfRetries, Refused, Verifying, Posted, CountIsEarned
<1>4. Spent(jar.retries)'
  <2>1. CASE jar'.retries = jar.retries
    BY <1>2, <2>1, TypeParts DEF CountIsEarned, Spent
  <2>2. CASE jar'.retries = NoCookie
    BY <2>2 DEF Spent
  <2>3. ASSUME NEW b \in Tabs, TryAgain(b) PROVE Spent(jar.retries)'
    <3>1. jar'.retries = RetriesLeft(tab[b].retries)
      BY <2>3, TypeParts DEF TryAgain
    <3>2. RetriesLeft(tab[b].retries) \in Nat /\ wrong' >= 3 - RetriesLeft(tab[b].retries)
      BY <1>1, <1>3, <2>3, NamesAssumption DEF RetriesLeft, Spent
    <3> QED
      BY <3>1, <3>2 DEF Spent
  <2> QED
    BY <2>1, <2>2, <2>3, RetriesSteps
<1>5. ASSUME NEW b \in Tabs, tab'[b].at \in Posted PROVE Spent(tab[b].retries)'
  <2>1. CASE tab'[b] = tab[b]
    <3>1. tab[b].retries \in {NoCookie} \cup 1 .. 2 /\ Spent(tab[b].retries)
      BY <1>5, <2>1, TypeParts, PageFields DEF CountIsEarned
    <3> QED
      BY <1>2, <2>1, <3>1 DEF Spent
  <2>2. CASE \E code \in texts \cup {Typo} : PostCode(b, code)
    <3>1. tab'[b].retries = jar.retries
      BY <2>2, Shown DEF PostCode
    <3>2. jar.retries \in {NoCookie} \cup 1 .. 2 /\ Spent(jar.retries)
      BY TypeParts DEF CountIsEarned
    <3> QED
      BY <1>2, <3>1, <3>2 DEF Spent
  <2>3. CASE AsksIdentity(b)
    <3>1. tab[b].at \in Posted /\ tab'[b].retries = tab[b].retries
      BY <2>3, Asked DEF Posted
    <3>2. tab[b].retries \in {NoCookie} \cup 1 .. 2 /\ Spent(tab[b].retries)
      BY <3>1, TypeParts, PageFields DEF CountIsEarned
    <3> QED
      BY <1>2, <3>1, <3>2 DEF Spent
  <2>4. CASE CodeAccepted(b) \/ OutOfRetries(b) \/ Abort(b)
    <3>1. tab'[b].at = "finish"
      BY <2>4, Shown DEF CodeAccepted, OutOfRetries, Abort
    <3> QED
      BY <1>5, <3>1 DEF Posted
  <2> QED
    BY <1>5, <2>1, <2>2, <2>3, <2>4, PageSteps DEF Posted
<1>6. ASSUME NEW b \in Tabs, tab'[b].at = "finish", tab'[b].result = InvalidCode PROVE wrong' >= 3
  <2>1. CASE tab'[b] = tab[b]
    BY <1>1, <1>6, <2>1 DEF CountIsEarned
  <2>2. CASE AsksIdentity(b) \/ \E code \in texts \cup {Typo} : PostCode(b, code)
    <3>1. AsksIdentity(b) => tab'[b].at = "check"
      BY Asked
    <3>2. ASSUME NEW code \in texts \cup {Typo}, PostCode(b, code) PROVE tab'[b].at = "verify"
      BY <3>2, Shown DEF PostCode
    <3> QED
      BY <1>6, <2>2, <3>1, <3>2
  <2>3. CASE CodeAccepted(b) \/ Abort(b)
    <3>1. \/ tab'[b].result = AccessDenied
          \/ tab[b].account \in Accounts /\ tab'[b].result = SignIn(tab[b].account)
      BY <2>3, Shown, TypeParts, PageFields DEF CodeAccepted, Abort, Verifying, Posted
    <3> QED
      BY <1>6, <3>1, ResultNames
  <2>4. CASE OutOfRetries(b)
    <3>1. RetriesLeft(tab[b].retries) <= 0
      BY <2>4 DEF OutOfRetries
    <3> QED
      BY <1>1, <1>3, <2>4, <3>1, NamesAssumption DEF RetriesLeft, Spent
  <2> QED
    BY <1>6, <2>1, <2>2, <2>3, <2>4, PageSteps DEF Posted
<1>7. ASSUME interaction' = InvalidCode PROVE wrong' >= 3
  <2>1. interaction' # Gone
    BY <1>7, ResultNames
  <2> QED
    BY <1>1, <1>7, <2>1, InteractionSteps DEF CountIsEarned
<1> QED
  BY <1>4, <1>5, <1>6, <1>7 DEF CountIsEarned, Spent

\* While requests come one at a time each carries the jar's count, and the count
\* is exact.
LEMMA CountedStep ==
    TypeOK /\ OneAtATime /\ RetriesAreCounted /\ [Next]_vars
        => OneAtATime' /\ RetriesAreCounted'
<1> SUFFICES ASSUME TypeOK, OneAtATime, RetriesAreCounted, [Next]_vars, ~slipped'
             PROVE  /\ RetriesAreCounted'
                    /\ \A b \in Tabs : tab'[b].at \in Posted =>
                        /\ tab'[b].retries = jar'.retries
                        /\ \A other \in Tabs : tab'[other].at \in Posted => other = b
  BY Zenon DEF OneAtATime, RetriesAreCounted
<1>1. ~slipped
  BY Zenon DEF Next, vars, codeVars, PostLogin, LooksUp, FindsAccount, FindsNoAccount, SendsCode, SendRejected,
     PostCode, AsksIdentity, CodeAccepted, TryAgain, OutOfRetries, VerifyRejected, Abort, Finish, SessionNotFound,
     Resume, CookieExpires, TimePasses
<1>2. \A b \in Tabs : tab[b].at \in Posted =>
        /\ tab[b].retries = jar.retries
        /\ \A other \in Tabs : tab[other].at \in Posted => other = b
  BY <1>1, Zenon DEF OneAtATime
<1>3. jar.retries = IF wrong = 0 THEN NoCookie ELSE IF wrong = 1 THEN 2 ELSE 1
  BY <1>1, Zenon DEF RetriesAreCounted
<1>4. CookieExpires => jar'.retries = jar.retries
  <2>1. CookieExpires => jar' = [jar EXCEPT !.account = NoCookie]
    BY Zenon DEF CookieExpires
  <2> QED
    BY <2>1, TypeParts
<1>5. jar'.retries = jar.retries \/ \E b \in Tabs : TryAgain(b)
  BY <1>4, RetriesSteps
\* The pages of the tabs.
<1>6. ASSUME NEW b \in Tabs, tab'[b].at \in Posted, tab'[b] # tab[b]
      PROVE  AsksIdentity(b) \/ \E code \in texts \cup {Typo} : PostCode(b, code)
  <2>1. CodeAccepted(b) \/ OutOfRetries(b) \/ Abort(b) => tab'[b].at = "finish"
    BY Shown DEF CodeAccepted, OutOfRetries, Abort
  <2> QED
    BY <1>6, <2>1, PageSteps DEF Posted
<1>7. ASSUME NEW b \in Tabs, NEW code \in texts \cup {Typo}, PostCode(b, code)
      PROVE  /\ tab'[b].retries = jar.retries /\ jar' = jar
             /\ \A other \in Tabs : other # b => tab'[other].at \notin Posted
  <2>1. tab'[b].retries = jar.retries /\ jar' = jar
    BY <1>7, Shown DEF PostCode
  <2>2. \A other \in Tabs \ {b} : tab[other].at \notin Posted
    BY <1>7, Zenon DEF PostCode
  <2> QED
    BY <1>7, <2>1, <2>2, Shown DEF PostCode
<1>8. ASSUME NEW b \in Tabs, TryAgain(b)
      PROVE  /\ tab[b].at \in Posted /\ tab[b].retries = jar.retries
             /\ \A other \in Tabs : tab'[other].at \notin Posted
  <2>1. tab[b].at \in Posted
    BY <1>8 DEF TryAgain, Refused, Verifying, Posted
  <2>2. tab'[b].at = "code"
    BY <1>8, Shown DEF TryAgain
  <2> QED
    BY <1>2, <1>8, <2>1, <2>2, Shown DEF TryAgain, Posted
<1>9. ASSUME NEW b \in Tabs, tab'[b].at \in Posted
      PROVE  /\ tab'[b].retries = jar'.retries
             /\ \A other \in Tabs : tab'[other].at \in Posted => other = b
  <2>1. CASE \E c \in Tabs : TryAgain(c)
    BY <1>8, <1>9, <2>1
  <2>2. CASE \E c \in Tabs, code \in texts \cup {Typo} : PostCode(c, code)
    BY <1>7, <1>9, <2>2
  <2>3. ASSUME NEW c \in Tabs, AsksIdentity(c)
        PROVE  /\ tab'[b].retries = jar'.retries
               /\ \A other \in Tabs : tab'[other].at \in Posted => other = b
    <3>1. \A other \in Tabs : tab'[other].at \in Posted =>
            tab[other].at \in Posted /\ tab'[other].retries = tab[other].retries
      BY <2>3, Asked DEF Posted
    <3>2. jar' = jar
      BY <2>3, Asked
    <3> QED
      BY <1>2, <1>9, <3>1, <3>2
  <2>4. CASE /\ ~\E c \in Tabs : TryAgain(c) \/ AsksIdentity(c)
             /\ ~\E c \in Tabs, code \in texts \cup {Typo} : PostCode(c, code)
    <3>1. \A c \in Tabs : tab'[c].at \in Posted => tab'[c] = tab[c]
      BY <1>6, <2>4
    <3> QED
      BY <1>2, <1>5, <1>9, <2>4, <3>1
  <2> QED
    BY <2>1, <2>2, <2>3, <2>4
\* The count.
<1>10. ASSUME NEW b \in Tabs, Refused(b)
       PROVE  wrong' = wrong + 1 /\ tab[b].retries = jar.retries
  BY <1>2, <1>10 DEF Refused, Verifying, Posted
<1>11. wrong' = wrong \/ \E b \in Tabs : TryAgain(b) \/ OutOfRetries(b)
  BY DEF Next, vars, codeVars, PostLogin, LooksUp, FindsAccount, FindsNoAccount, SendsCode, SendRejected,
     PostCode, AsksIdentity, CodeAccepted, VerifyRejected, Abort, Finish, SessionNotFound, Resume, CookieExpires, TimePasses
<1>12. jar'.retries = IF wrong' = 0 THEN NoCookie ELSE IF wrong' = 1 THEN 2 ELSE 1
  <2>0. wrong \in Nat
    BY WrongGrows
  <2>1. ASSUME NEW b \in Tabs, TryAgain(b)
        PROVE  jar'.retries = IF wrong' = 0 THEN NoCookie ELSE IF wrong' = 1 THEN 2 ELSE 1
    <3>1. jar'.retries = RetriesLeft(jar.retries) /\ RetriesLeft(jar.retries) > 0
      BY <1>8, <2>1, TypeParts DEF TryAgain
    <3>2. wrong' = wrong + 1
      BY <1>10, <2>1 DEF TryAgain
    <3> QED
      BY <1>3, <2>0, <3>1, <3>2, NamesAssumption DEF RetriesLeft
  <2>2. ASSUME NEW b \in Tabs, OutOfRetries(b)
        PROVE  jar'.retries = IF wrong' = 0 THEN NoCookie ELSE IF wrong' = 1 THEN 2 ELSE 1
    <3>1. jar' = jar /\ wrong' = wrong + 1 /\ RetriesLeft(jar.retries) <= 0
      BY <1>10, <2>2 DEF OutOfRetries
    <3> QED
      BY <1>3, <2>0, <3>1, NamesAssumption DEF RetriesLeft
  <2>3. CASE ~\E b \in Tabs : TryAgain(b) \/ OutOfRetries(b)
    BY <1>3, <1>5, <1>11, <2>3
  <2> QED
    BY <2>1, <2>2, <2>3
<1>13. RetriesAreCounted'
  BY <1>12 DEF RetriesAreCounted
<1> QED
  BY <1>9, <1>13

-----------------------------------------------------------------------------
\* The invariant holds in every reachable state.
THEOREM LoginInvariant == Spec => []IInv
<1>1. IInv /\ [Next]_vars => IInv'
  BY TypeStep, TextsStep, CountStep, CountedStep DEF IInv
<1> QED
  BY <1>1, InitInvariant, PTL DEF Spec

\* Types, for every set of tabs and accounts and every bound.
THEOREM TypeCorrect == Spec => []TypeOK
<1>1. IInv => TypeOK
  BY DEF IInv
<1> QED
  BY <1>1, LoginInvariant, PTL

\* POST /verify signs in the account its own cookie named, whose code it checked:
\* nobody is signed in who was not texted a code.
THEOREM SignInNeedsText == Spec => []SignedInWasTexted
<1>1. IInv => SignedInWasTexted
  BY DEF IInv, SignInsWereTexted, SignedInWasTexted, Texted
<1> QED
  BY <1>1, LoginInvariant, PTL

\* decrementRetries never throws early: three codes were refused before.
THEOREM NotGivenUpEarly == Spec => []GivenUpAfterThree
<1>1. IInv => GivenUpAfterThree
  BY DEF IInv, CountIsEarned, GivenUpAfterThree
<1> QED
  BY <1>1, LoginInvariant, PTL

\* Codes checked one at a time are all counted in the retries cookie.
THEOREM SequentialRetriesCount == Spec => []RetriesAreCounted
<1>1. IInv => RetriesAreCounted
  BY DEF IInv
<1> QED
  BY <1>1, LoginInvariant, PTL
=============================================================================
