----------------------------- MODULE CheckinPage -----------------------------
(***************************************************************************)
(* The check-in page (checkin/src/App.tsx): one query fills the table when *)
(* the page opens, and each createCheckin adds its own row to the cached   *)
(* answer of that query.  Query and mutations are separate requests, whose *)
(* answers come in any order.  Every change of state renders the page, and *)
(* rendering shows the banner while an error is held.  The form stands in  *)
(* a modal, and its library checks it before a request is made.            *)
(***************************************************************************)
EXTENDS Naturals

CONSTANTS
    Submits,  \* forms the user sends, and the rows they create
    None      \* no form sent, no answer cached

ASSUME NoneAssumption == None \notin Submits

VARIABLES
    committed,      \* the rows of the checkins table
    query,          \* the allCheckins request, and what the server read for it
    mutation,       \* each createCheckin request
    latest,         \* the form sent last, whose outcome useMutation reports
    mutationError,  \* useMutation holds an error
    list,           \* the cached answer: how often it holds each row
    banner, modal,  \* what is displayed
    form,           \* the form: what is typed, its errors, whether one was submitted
    hurried         \* history: a form was sent before the query was answered

vars == <<committed, query, mutation, latest, mutationError, list, banner, modal, form, hurried>>

Counts == [Submits -> 0 .. 2]

\* The fields of the form, and what can be wrong with their values.
Fields == {"firstName", "lastName", "reservationCode"}
Values == {"missing", "malformed", "good"}
Blank == [f \in Fields |-> "missing"]

\* register: every field is required, and the reservation code has a pattern (not
\* anchored: six letters or digits anywhere will do).
Rules(f) == IF f = "reservationCode" THEN {"missing", "malformed"} ELSE {"missing"}
Invalid == {f \in Fields : form.values[f] \in Rules(f)}

\* The group of Last Name is given the error of the first name.
ErrorOfGroup(f) == IF f = "lastName" THEN "firstName" ELSE f

\* InputGroup: the labels that have a message under them.
Messages == {f \in Fields : ErrorOfGroup(f) \in form.errors}

TypeOK ==
    /\ committed \subseteq Submits
    /\ query \in [at : {"asked", "read", "answered", "failed"}, rows : SUBSET Submits]
    /\ mutation \in [Submits -> {"unsent", "sent", "committed", "ok", "failed"}]
    /\ latest \in Submits \cup {None}
    /\ list \in Counts \cup {None}
    /\ form \in [values : [Fields -> Values], errors : SUBSET Fields, tried : BOOLEAN]
    /\ {mutationError, banner, modal, hurried} \subseteq BOOLEAN

Init ==
    /\ committed = {}
    /\ query = [at |-> "asked", rows |-> {}]
    /\ mutation = [s \in Submits |-> "unsent"]
    /\ latest = None
    /\ list = None
    /\ mutationError = FALSE /\ banner = FALSE /\ modal = FALSE /\ hurried = FALSE
    /\ form = [values |-> Blank, errors |-> {}, tried |-> FALSE]

\* A mistake: the banner shown once per error, and then up to the user.
RenderOnce(shown) == banner' = shown

\* `if (mutationError || queryError)`: what the banner is once it is rendered.
Render(shown) == banner' = (shown \/ mutationError' \/ query'.at = "failed")

-----------------------------------------------------------------------------
QueryReads ==
    /\ query.at = "asked"
    /\ query' = [at |-> "read", rows |-> committed]
    /\ UNCHANGED <<committed, mutation, latest, mutationError, list, banner, modal, form, hurried>>

\* The table has a TableRow for each entry of the cached list.
RowsOf(s) == IF list = None THEN 0 ELSE list[s]

QueryAnswered ==
    /\ query.at = "read"
    /\ query' = [query EXCEPT !.at = "answered"]
    /\ list' = [s \in Submits |-> IF s \in query.rows THEN 1 ELSE 0]
    /\ UNCHANGED <<committed, mutation, latest, mutationError, modal, form, hurried>>
    /\ Render(banner)

QueryFails ==
    /\ query.at \in {"asked", "read"}
    /\ query' = [query EXCEPT !.at = "failed"]
    /\ UNCHANGED <<committed, mutation, latest, mutationError, list, modal, form, hurried>>
    /\ Render(banner)

\* "Add Flight +", and the two ways to give the form up.  The fields leave the
\* page with the modal, and their values and errors with them.
ToggleModal ==
    /\ modal' = ~modal
    /\ form' = [form EXCEPT !.values = Blank, !.errors = {}]
    /\ UNCHANGED <<committed, query, mutation, latest, mutationError, list, hurried>>
    /\ Render(banner)

\* A mistake: an error that stays until the next submit.
TypeKeepingErrors(f, value) ==
    /\ modal
    /\ form' = [form EXCEPT !.values[f] = value]
    /\ UNCHANGED <<committed, query, mutation, latest, mutationError, list, modal, hurried>>
    /\ Render(banner)

\* After a first submit, of this form or an earlier one, the library checks a
\* field whenever it changes.
Type(f, value) ==
    /\ modal
    /\ form' = [form EXCEPT !.values[f] = value,
                           !.errors = IF ~form.tried THEN @
                                      ELSE IF value \in Rules(f) THEN @ \cup {f} ELSE @ \ {f}]
    /\ UNCHANGED <<committed, query, mutation, latest, mutationError, list, modal, hurried>>
    /\ Render(banner)

\* handleSubmit keeps a form with errors to itself.
RefuseSubmit ==
    /\ modal
    /\ Invalid # {}
    /\ form' = [form EXCEPT !.errors = Invalid, !.tried = TRUE]
    /\ UNCHANGED <<committed, query, mutation, latest, mutationError, list, modal, hurried>>
    /\ Render(banner)

\* onSubmit; starting a mutation drops the error of the one before.
Submit(s) ==
    /\ modal
    /\ Invalid = {}
    /\ mutation[s] = "unsent"
    /\ mutation' = [mutation EXCEPT ![s] = "sent"]
    /\ latest' = s
    /\ mutationError' = FALSE
    /\ modal' = FALSE
    /\ form' = [values |-> Blank, errors |-> {}, tried |-> TRUE]
    /\ hurried' = (hurried \/ query.at \in {"asked", "read"})
    /\ UNCHANGED <<committed, query, list>>
    /\ Render(banner)

CreateCommits(s) ==
    /\ mutation[s] = "sent"
    /\ mutation' = [mutation EXCEPT ![s] = "committed"]
    /\ committed' = committed \cup {s}
    /\ UNCHANGED <<query, latest, mutationError, list, banner, modal, form, hurried>>

\* A mistake: the cache is written with the new row alone.
ListWith(s) == [r \in Submits |-> IF r = s THEN 1 ELSE 0]

\* A mistake: an optimistic answer that is not taken back.
ListWithTwice(s) == IF list = None THEN None ELSE [list EXCEPT ![s] = @ + 2]

\* The fields of a row that the query asks for ...
AllCheckinsNode == {"id", "firstName", "lastName", "reservationCode", "checkinStatus"}

\* ... and those that come back with a new one.
CreateCheckinNode == {"id", "firstName", "lastName", "reservationCode", "checkinStatus"}

\* update: the new row at the end of the cached list.  Without a cached list
\* readQuery throws, and so does writeQuery if the row lacks a field of the
\* query; the client logs that and goes on.
ListAfter(s) ==
    IF list = None \/ ~(AllCheckinsNode \subseteq CreateCheckinNode) THEN list
    ELSE [list EXCEPT ![s] = @ + 1]

CreateAnswered(s) ==
    /\ mutation[s] = "committed"
    /\ mutation' = [mutation EXCEPT ![s] = "ok"]
    /\ list' = ListAfter(s)
    /\ UNCHANGED <<committed, query, latest, mutationError, modal, form, hurried>>
    /\ Render(banner)

\* Refused, or cut off before or after the row was committed.  Only the last
\* mutation's error reaches the page.
CreateFails(s) ==
    /\ mutation[s] \in {"sent", "committed"}
    /\ mutation' = [mutation EXCEPT ![s] = "failed"]
    /\ mutationError' = (mutationError \/ latest = s)
    /\ UNCHANGED <<committed, query, latest, list, modal, form, hurried>>
    /\ Render(banner)

CloseBanner ==
    /\ banner
    /\ UNCHANGED <<committed, query, mutation, latest, mutationError, list, modal, form, hurried>>
    /\ Render(FALSE)

Next ==
    \/ QueryReads \/ QueryAnswered \/ QueryFails
    \/ ToggleModal \/ RefuseSubmit \/ CloseBanner
    \/ \E f \in Fields : \E value \in Rules(f) \cup {"good"} : Type(f, value)
    \/ \E s \in Submits : Submit(s) \/ CreateCommits(s) \/ CreateAnswered(s) \/ CreateFails(s)

Spec == Init /\ [][Next]_vars

-----------------------------------------------------------------------------
\* The table shows each row that was created once, and no other, as long as no
\* form was sent before the table was there: then a row may show twice (in the
\* query's answer and added to it) or not at all (added to no list, and read
\* before it was committed).
CreatedRowsShownOnce ==
    ~hurried /\ list # None =>
        \A s \in Submits : RowsOf(s) = IF mutation[s] = "ok" THEN 1 ELSE 0

\* A form that was sent last and failed is told of, and stays so whatever the
\* user closes, until another is sent; and the error that is held is never that of
\* a form which a later one has overtaken.
LastFailureIsTold ==
    /\ \A s \in Submits : latest = s /\ mutation[s] = "failed" => banner
    /\ mutationError => latest # None /\ mutation[latest] = "failed"

\* A form that was refused says so under some label until it is mended, and only
\* what is wrong now is said to be wrong, however the modal is closed and opened;
\* but a missing last name has no message (App.tsx:101 passes the first name's).
RefusalsAreExplained ==
    /\ form.errors \subseteq Invalid
    /\ form.errors \subseteq {"lastName"} \/ Messages # {}
=============================================================================
