------------------------------ MODULE SsoLogin ------------------------------
(***************************************************************************)
(* Signing in at the sign-on server (sso/src/routes.ts, sso/src/lib/       *)
(* retry.ts): one login interaction, worked on from several tabs of one    *)
(* browser.  Between the page and the session stand two cookies: the       *)
(* account the code was sent for, and the wrong codes that are left.  A    *)
(* request carries the cookies as they were when it was sent, and each     *)
(* answer overwrites them when it arrives.                                 *)
(***************************************************************************)
EXTENDS Passwordless

CONSTANTS
    Tabs,      \* tabs of the browser on the same interaction
    NoCookie,  \* what the jar holds for a cookie that is not there
    Nobody,    \* no account
    Typo,      \* a code nobody was sent
    MaxWrong   \* bound: wrong codes in one interaction

ASSUME NamesAssumption == Nobody \notin Accounts /\ NoCookie \notin Accounts \cup Nat
ASSUME TypoAssumption == Typo \notin Codes
ASSUME MaxWrongAssumption == MaxWrong \in Nat

VARIABLES
    tab,          \* each tab: its page, and the request it waits for
    jar,          \* the browser's cookies of this interaction
    interaction,  \* the provider's record: open, finished with a result, gone
    session,      \* the account the provider signed in
    wrong,        \* history: codes the identity service refused
    slipped       \* history: requests overlapped or the count expired

vars == <<step, texts, tab, jar, interaction, session, wrong, slipped>>

SignIn(a) == [kind |-> "login", account |-> a]
Without(kind) == [kind |-> kind, account |-> Nobody]
InvalidCode == Without("invalid_code")
AccessDenied == Without("access_denied")
Results == {SignIn(a) : a \in Accounts} \cup {InvalidCode, AccessDenied}
Open == Without("open")
Gone == Without("gone")

\* Where a tab is: on a page, or waiting for one of the calls of a handler.  Two
\* stages of /verify hold the cookies that came with the request: "verify" until
\* interactionDetails answers, and "check" until the identity service does.
Blank == [at |-> "login"]
Posted == {"verify", "check"}
Pages ==
    [at : {"login", "resume", "error", "left"}]
    \cup [at : {"find", "lookup", "send", "code"}, account : Accounts]
    \cup [at : Posted, account : Accounts \cup {NoCookie},
          retries : {NoCookie} \cup 1 .. 2, code : Codes \cup {Typo}]
    \cup [at : {"finish"}, result : Results]

TypeOK ==
    /\ CodesTypeOK
    /\ tab \in [Tabs -> Pages]
    /\ jar \in [account : Accounts \cup {NoCookie}, retries : {NoCookie} \cup 1 .. 2]
    /\ interaction \in {Open, Gone} \cup Results
    /\ session \in Accounts \cup {Nobody}
    /\ wrong \in 0 .. MaxWrong
    /\ slipped \in BOOLEAN

Init ==
    /\ CodesInit
    /\ tab = [b \in Tabs |-> Blank]
    /\ jar = [account |-> NoCookie, retries |-> NoCookie]
    /\ interaction = Open
    /\ session = Nobody
    /\ wrong = 0
    /\ slipped = FALSE

Show(b, page) == tab' = [tab EXCEPT ![b] = page]
ShowError(b) == Show(b, [at |-> "error"])

\* renderError: a page that names each entry of the error; it cannot fail.
RenderError(b) == ShowError(b)

\* A mistake: three tries granted after the first.
RetriesLeftOfFour(cookie) == (IF cookie = NoCookie THEN 4 ELSE cookie) - 1

\* decrementRetries: `parseInt(cookie || "3") - 1`.
RetriesLeft(cookie) == (IF cookie = NoCookie THEN 3 ELSE cookie) - 1

-----------------------------------------------------------------------------
(* POST /interaction/:uid/login.                                            *)

PostLogin(b, a) ==
    /\ tab[b].at = "login"
    /\ Show(b, [at |-> "find", account |-> a])
    /\ UNCHANGED <<codeVars, jar, interaction, session, wrong, slipped>>

\* interactionDetails finds the interaction, and Account.findByLogin is called.
LooksUp(b) ==
    /\ tab[b].at = "find"
    /\ interaction # Gone
    /\ Show(b, [at |-> "lookup", account |-> tab[b].account])
    /\ UNCHANGED <<codeVars, jar, interaction, session, wrong, slipped>>

\* It answers, whatever has become of the interaction meanwhile.
FindsAccount(b) ==
    /\ tab[b].at = "lookup"
    /\ Show(b, [at |-> "send", account |-> tab[b].account])
    /\ UNCHANGED <<codeVars, jar, interaction, session, wrong, slipped>>

\* Unknown address or failed call alike: the form again, with an error.
FindsNoAccount(b) ==
    /\ tab[b].at = "lookup"
    /\ Show(b, Blank)
    /\ UNCHANGED <<codeVars, jar, interaction, session, wrong, slipped>>

\* The answer with the code page also brings the accountId cookie.
SendsCode(b) ==
    /\ tab[b].at = "send"
    /\ SendPasswordlessCode(tab[b].account)
    /\ jar' = [jar EXCEPT !.account = tab[b].account]
    /\ Show(b, [at |-> "code", account |-> tab[b].account])
    /\ UNCHANGED <<interaction, session, wrong, slipped>>

\* A rejected call is a 500, and Koa drops the cookies of a failed answer.
SendRejected(b) ==
    /\ tab[b].at = "send"
    /\ SendCodeFails
    /\ ShowError(b)
    /\ UNCHANGED <<jar, interaction, session, wrong, slipped>>

-----------------------------------------------------------------------------
(* POST /interaction/:uid/verify.                                           *)

\* The user types a code from the phone, or mistypes it.
PostCode(b, code) ==
    /\ tab[b].at = "code"
    /\ Show(b, [at |-> "verify", account |-> jar.account,
                retries |-> jar.retries, code |-> code])
    /\ slipped' = (slipped \/ \E other \in Tabs \ {b} : tab[other].at \in Posted)
    /\ UNCHANGED <<codeVars, jar, interaction, session, wrong>>

\* interactionDetails and the accountId cookie let the request through, and
\* verifyPasswordlessCode is called.
AsksIdentity(b) ==
    /\ tab[b].at = "verify"
    /\ interaction # Gone
    /\ tab[b].account # NoCookie
    /\ Show(b, [at |-> "check", account |-> tab[b].account,
                retries |-> tab[b].retries, code |-> tab[b].code])
    /\ UNCHANGED <<codeVars, jar, interaction, session, wrong, slipped>>

\* Its answer is due; the cookie was there when it was called.
Verifying(b) ==
    /\ tab[b].at = "check"
    /\ tab[b].account # NoCookie

\* A mistake: the account looked up again when the answer is there.
CodeAcceptedRereading(b) ==
    /\ Verifying(b)
    /\ VerifyPasswordlessCode(tab[b].account, tab[b].code)
    /\ jar.account # NoCookie
    /\ Show(b, [at |-> "finish", result |-> SignIn(jar.account)])
    /\ UNCHANGED <<codeVars, jar, interaction, session, wrong, slipped>>

CodeAccepted(b) ==
    /\ Verifying(b)
    /\ VerifyPasswordlessCode(tab[b].account, tab[b].code)
    /\ Show(b, [at |-> "finish", result |-> SignIn(tab[b].account)])
    /\ UNCHANGED <<codeVars, jar, interaction, session, wrong, slipped>>

Refused(b) ==
    /\ Verifying(b)
    /\ ~VerifyPasswordlessCode(tab[b].account, tab[b].code)
    /\ wrong < MaxWrong
    /\ wrong' = wrong + 1

\* A mistake: the new count never reaches the cookie.
TryAgainUncounted(b) ==
    /\ Refused(b)
    /\ RetriesLeft(tab[b].retries) > 0
    /\ Show(b, [at |-> "code", account |-> tab[b].account])
    /\ UNCHANGED <<codeVars, jar, interaction, session, slipped>>

\* The code page again, and one try less in the cookie.
TryAgain(b) ==
    /\ Refused(b)
    /\ RetriesLeft(tab[b].retries) > 0
    /\ jar' = [jar EXCEPT !.retries = RetriesLeft(tab[b].retries)]
    /\ Show(b, [at |-> "code", account |-> tab[b].account])
    /\ UNCHANGED <<codeVars, interaction, session, slipped>>

\* decrementRetries throws: the login ends with an error.
OutOfRetries(b) ==
    /\ Refused(b)
    /\ RetriesLeft(tab[b].retries) <= 0
    /\ Show(b, [at |-> "finish", result |-> InvalidCode])
    /\ UNCHANGED <<codeVars, jar, interaction, session, slipped>>

\* A mistake: the call made inside the try block, whose catch gives up.
VerifyRejectedGivesUp(b) ==
    /\ tab[b].at = "check"
    /\ Show(b, [at |-> "finish", result |-> InvalidCode])
    /\ UNCHANGED <<codeVars, jar, interaction, session, wrong, slipped>>

\* No accountId cookie (ctx.assert), or the identity service is not reached.
VerifyRejected(b) ==
    /\ \/ tab[b].at = "verify" /\ interaction # Gone /\ tab[b].account = NoCookie
       \/ tab[b].at = "check"
    /\ ShowError(b)
    /\ UNCHANGED <<codeVars, jar, interaction, session, wrong, slipped>>

-----------------------------------------------------------------------------
(* interactionFinished, the way out of both /verify and /abort.             *)

\* /verify takes the accountId cookie away before the call.
JarAfter(result) ==
    IF result = AccessDenied THEN jar ELSE [jar EXCEPT !.account = NoCookie]

\* A mistake: a result stored for an interaction that nobody looked for.
FinishUnseen(b) ==
    /\ tab[b].at = "finish"
    /\ interaction' = tab[b].result
    /\ jar' = JarAfter(tab[b].result)
    /\ Show(b, [at |-> "resume"])
    /\ UNCHANGED <<codeVars, session, wrong, slipped>>

\* The result replaces an earlier one.
Finish(b) ==
    /\ tab[b].at = "finish"
    /\ interaction # Gone
    /\ interaction' = tab[b].result
    /\ jar' = JarAfter(tab[b].result)
    /\ Show(b, [at |-> "resume"])
    /\ UNCHANGED <<codeVars, session, wrong, slipped>>

\* GET /interaction/:uid/abort, from the Cancel link of either page.
Abort(b) ==
    /\ tab[b].at \in {"login", "code"}
    /\ Show(b, [at |-> "finish", result |-> AccessDenied])
    /\ UNCHANGED <<codeVars, jar, interaction, session, wrong, slipped>>

\* SessionNotFound, rendered by the first middleware, cookies included.
SessionNotFound(b) ==
    /\ tab[b].at \in {"find", "verify", "finish", "resume"}
    /\ interaction = Gone
    /\ jar' = IF tab[b].at = "finish" THEN JarAfter(tab[b].result) ELSE jar
    /\ RenderError(b)
    /\ UNCHANGED <<codeVars, interaction, session, wrong, slipped>>

\* The redirect is followed: the provider uses the result and drops the record.
Resume(b) ==
    /\ tab[b].at = "resume"
    /\ interaction \in Results
    /\ session' = interaction.account
    /\ interaction' = Gone
    /\ Show(b, [at |-> "left"])
    /\ UNCHANGED <<codeVars, jar, wrong, slipped>>

\* Both cookies live for 120 seconds.
CookieExpires ==
    /\ \/ /\ jar.account # NoCookie
          /\ jar' = [jar EXCEPT !.account = NoCookie]
          /\ UNCHANGED slipped
       \/ /\ jar.retries # NoCookie
          /\ jar' = [jar EXCEPT !.retries = NoCookie]
          /\ slipped' = TRUE
    /\ UNCHANGED <<codeVars, tab, interaction, session, wrong>>

TimePasses ==
    /\ NextStep
    /\ UNCHANGED <<tab, jar, interaction, session, wrong, slipped>>

Next ==
    \/ \E b \in Tabs :
        \/ \E a \in Accounts : PostLogin(b, a)
        \/ LooksUp(b) \/ FindsAccount(b) \/ FindsNoAccount(b)
        \/ SendsCode(b) \/ SendRejected(b)
        \/ \E code \in texts \cup {Typo} : PostCode(b, code)
        \/ AsksIdentity(b) \/ CodeAccepted(b) \/ TryAgain(b) \/ OutOfRetries(b) \/ VerifyRejected(b)
        \/ Abort(b) \/ Finish(b) \/ SessionNotFound(b) \/ Resume(b)
    \/ CookieExpires
    \/ TimePasses

Spec == Init /\ [][Next]_vars

-----------------------------------------------------------------------------
\* Whoever is signed in was texted a code: the account of the session is the
\* one whose code was checked, however the tabs overwrite each other's cookie
\* between the check and the end of the interaction.
SignedInWasTexted ==
    session \in Accounts => \E code \in texts : code.account = session

\* A login is given up only after three codes were refused, whichever tabs they
\* came from and however the retries cookie was overwritten.
GivenUpAfterThree ==
    interaction = InvalidCode => wrong >= 3

\* Codes that are checked one at a time are all counted: the cookie holds what
\* is left of three, until the last is used up.
RetriesAreCounted ==
    ~slipped =>
        jar.retries = IF wrong = 0 THEN NoCookie ELSE IF wrong = 1 THEN 2 ELSE 1

\* "Please enter code we texted you" (sso/src/views/2fa.ejs:1): the code page is
\* shown for an account only once its phone got a code.
CodePageMeansTexted ==
    \A b \in Tabs : tab[b].at = "code" => \E code \in texts : code.account = tab[b].account
=============================================================================
