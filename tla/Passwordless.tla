---------------------------- MODULE Passwordless ----------------------------
(***************************************************************************)
(* One-time codes as the identity and notifications services give and      *)
(* check them (identity/src/handlers/identity.ts, notifications/src/       *)
(* handlers/notifications.ts).  A code is the account it is for and the    *)
(* time step it was generated in; the authenticator takes it in that step  *)
(* only.                                                                   *)
(***************************************************************************)
EXTENDS Naturals

CONSTANTS
    Accounts,  \* users with a phone
    LastStep   \* bound: the last time step explored

ASSUME LastStepAssumption == LastStep \in Nat

VARIABLES
    step,  \* the authenticator's time step
    texts  \* the codes that reached their phone

codeVars == <<step, texts>>

Codes == [account : Accounts, step : 0 .. LastStep]
CurrentCode(a) == [account |-> a, step |-> step]

CodesTypeOK == step \in 0 .. LastStep /\ texts \subseteq Codes
CodesInit == step = 0 /\ texts = {}

NextStep ==
    /\ step < LastStep
    /\ step' = step + 1
    /\ UNCHANGED texts

\* sendText: Twilio takes the message or not; the reply's code tells which.
SendText(a, sent) ==
    /\ texts' = IF sent THEN texts \cup {CurrentCode(a)} ELSE texts
    /\ UNCHANGED step

\* sendPasswordlessCode answers SUCCESS whichever reply sendText gave, ...
SendPasswordlessCode(a) ==
    \E sent \in BOOLEAN : SendText(a, sent)

\* ... and an error when the user or the notifications service is not reached.
SendCodeFails == UNCHANGED codeVars

\* verifyPasswordlessCode answers SUCCESS or VERIFICATION_ERROR.
VerifyPasswordlessCode(a, code) == code = CurrentCode(a)
=============================================================================
