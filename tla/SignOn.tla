------------------------------- MODULE SignOn -------------------------------
(***************************************************************************)
(* An authorization from its request to its answer (sso/src/lib/           *)
(* oidcConfig.ts, account.ts and the interaction page of routes.ts): the   *)
(* login of SsoLogin, then the provider's checks whether the user has to   *)
(* consent, then the account that the answer is about.  In the same        *)
(* session further clients may ask, now without a login, while a tab that  *)
(* is late may still send the pages of the first one.  The protocol is the *)
(* library's, and external.                                                *)
(***************************************************************************)
EXTENDS SsoLogin

CONSTANTS
    FirstParty,  \* the clients of the configuration
    ThirdParty,  \* clients that are found in the adapter only
    Asks         \* authorization requests

Clients == FirstParty \cup ThirdParty
Requests ==
    [client : Clients, scopes : SUBSET {"openid", "email", "profile"}, consent : BOOLEAN]

ASSUME AsksAssumption ==
    /\ FirstParty \cap ThirdParty = {}
    /\ Asks \subseteq Requests
    /\ \A ask \in Asks : "openid" \in ask.scopes

VARIABLES
    ask,       \* the request that is worked on; `consent` is its prompt=consent
    auth,      \* how far it is
    prompted,  \* the session: the scopes remembered for each client
    sids       \* the session: the clients it answered

authVars == <<ask, auth, prompted, sids>>
signOnVars == <<vars, authVars>>

Done == {"answered", "denied", "error", "lost"}
Stages == {"login", "checking", "consent", "page", "finding", "expired"} \cup Done

SignOnTypeOK ==
    /\ TypeOK
    /\ ask \in Asks
    /\ auth \in Stages
    /\ prompted \in [Clients -> SUBSET {"openid", "email", "profile"}]
    /\ sids \subseteq Clients

SignOnInit ==
    /\ Init
    /\ ask \in Asks
    /\ auth = "login"
    /\ prompted = [c \in Clients |-> {}]
    /\ sids = {}

-----------------------------------------------------------------------------
(* Consent.                                                                 *)

\* A mistake: a third party's id added to the list, which its warning forbids.
IsListed(client) == client \in Clients

IsFirstParty(client) == client \in FirstParty

\* Both checks remember what a first party asks for, and let it pass.
Remembered ==
    IF IsFirstParty(ask.client) THEN [prompted EXCEPT ![ask.client] = @ \cup ask.scopes]
    ELSE prompted

\* client_not_authorized: a third party needs an answer in this session.
ClientNotAuthorized == ~IsFirstParty(ask.client) /\ ask.client \notin sids

\* scopes_missing: and every scope remembered.
ScopesMissing == ~IsFirstParty(ask.client) /\ ~(ask.scopes \subseteq prompted[ask.client])

\* The policy's checks, and prompt=consent, which the library looks at itself.
Checks ==
    /\ auth = "checking"
    /\ prompted' = Remembered
    /\ auth' = IF ask.consent \/ ClientNotAuthorized \/ ScopesMissing
               THEN "consent" ELSE "finding"
    /\ UNCHANGED <<vars, ask, sids>>

\* GET /interaction/:uid, for the prompt "consent".
ShowsConsent ==
    /\ auth = "consent"
    /\ auth' = "page"
    /\ UNCHANGED <<vars, ask, prompted, sids>>

\* The page's form posts to /interaction/:uid/confirm, which is no route.
Confirm ==
    /\ auth = "page"
    /\ auth' = "lost"
    /\ UNCHANGED <<vars, ask, prompted, sids>>

\* The Cancel link of the layout.
Cancel ==
    /\ auth = "page"
    /\ auth' = "denied"
    /\ UNCHANGED <<vars, ask, prompted, sids>>

-----------------------------------------------------------------------------
(* The account the answer is about.                                         *)

\* Account.findAccount: getUserProfile by the id of the session's account, and
\* the answer that the library makes of it.
FindsItsAccount ==
    /\ auth = "finding"
    /\ auth' = "answered"
    /\ sids' = sids \cup {ask.client}
    /\ UNCHANGED <<vars, ask, prompted>>

\* The identity service is not reached, or has no such user any more.
FindAccountRejects ==
    /\ auth = "finding"
    /\ auth' = "error"
    /\ UNCHANGED <<vars, ask, prompted, sids>>

-----------------------------------------------------------------------------
(* The session.                                                             *)

\* A step of the login, the last of which takes the result into the session.
LoginStep ==
    /\ Next
    /\ auth' = IF auth = "login" /\ interaction' = Gone
               THEN IF session' = Nobody THEN "denied" ELSE "checking"
               ELSE auth
    /\ UNCHANGED <<ask, prompted, sids>>

\* Another authorization of the session: nothing is asked of the user.
AsksAgain ==
    /\ auth \in Done
    /\ session # Nobody
    /\ ask' \in Asks
    /\ auth' = "checking"
    /\ UNCHANGED <<vars, prompted, sids>>

\* The long cookie's day is over, and the session's.
SessionExpires ==
    /\ auth \in Done
    /\ session' = Nobody
    /\ auth' = "expired"
    /\ prompted' = [c \in Clients |-> {}]
    /\ sids' = {}
    /\ UNCHANGED <<codeVars, tab, jar, interaction, wrong, slipped, ask>>

SignOnNext ==
    \/ LoginStep
    \/ Checks \/ ShowsConsent \/ Confirm \/ Cancel
    \/ FindsItsAccount \/ FindAccountRejects
    \/ AsksAgain \/ SessionExpires

SignOnSpec == SignOnInit /\ [][SignOnNext]_signOnVars

-----------------------------------------------------------------------------
\* Once the login of an authorization is over, nothing that another tab still
\* sends or resumes (a code, a result, a redirect it kept) signs anybody in: the
\* session keeps its account until it expires.
NobodyElseSignsIn == [][auth # "login" => session' \in {session, Nobody}]_signOnVars

\* Consent is asked of whoever is no first party, and of nobody else unless the
\* request wants it; and since the page's form leads nowhere, an authorization
\* that came to it is never answered, however often it is repeated.
ConsentIsForThirdParties ==
    /\ auth \in {"consent", "page", "lost"} => ask.client \in ThirdParty \/ ask.consent
    /\ auth = "answered" => ask.client \in FirstParty /\ ~ask.consent
=============================================================================
