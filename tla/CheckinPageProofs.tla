-------------------------- MODULE CheckinPageProofs --------------------------
(***************************************************************************)
(* Proofs about the check-in page, for every set of forms.                 *)
(***************************************************************************)
EXTENDS CheckinPage, TLAPS

\* The cached list holds a row twice only once its own mutation has added it.
AddedOnce ==
    list # None => \A s \in Submits : list[s] <= 1 \/ mutation[s] = "ok"

\* An error is held as long as the form sent last is the one that failed, and
\* whatever is held is shown.
ErrorIsOfTheLast ==
    /\ \A s \in Submits : latest = s /\ mutation[s] = "failed" => mutationError
    /\ mutationError => banner /\ latest \in Submits /\ mutation[latest] = "failed"

\* Unless somebody was in a hurry, no form is sent before the query's answer.
FormsWaitForTheTable ==
    ~hurried /\ query.at \in {"asked", "read"} =>
        /\ committed = {}
        /\ query.rows = {}
        /\ \A s \in Submits : mutation[s] = "unsent"

\* Errors are of what is wrong now, and there are none before a first submit.
OnlyWhatIsWrong ==
    /\ form.errors \subseteq Invalid
    /\ ~form.tried => form.errors = {}

IInv ==
    /\ TypeOK
    /\ AddedOnce
    /\ ErrorIsOfTheLast
    /\ FormsWaitForTheTable
    /\ CreatedRowsShownOnce
    /\ OnlyWhatIsWrong

Queries == [at : {"asked", "read", "answered", "failed"}, rows : SUBSET Submits]
Forms == [values : [Fields -> Values], errors : SUBSET Fields, tried : BOOLEAN]
Sending == {"unsent", "sent", "committed", "ok", "failed"}

-----------------------------------------------------------------------------
LEMMA TypeParts ==
    TypeOK <=>
        /\ committed \subseteq Submits
        /\ query \in Queries
        /\ mutation \in [Submits -> Sending]
        /\ latest \in Submits \cup {None}
        /\ list \in Counts \cup {None}
        /\ form \in Forms
        /\ mutationError \in BOOLEAN /\ banner \in BOOLEAN
        /\ modal \in BOOLEAN /\ hurried \in BOOLEAN
  BY Zenon DEF TypeOK, Queries, Forms, Sending

LEMMA InitInvariant == Init => IInv
<1> SUFFICES ASSUME Init PROVE IInv
  OBVIOUS
<1>1. mutationError \in BOOLEAN /\ banner \in BOOLEAN /\ modal \in BOOLEAN /\ hurried \in BOOLEAN
  BY Zenon DEF Init
<1>2. form \in Forms
  <2>1. Blank \in [Fields -> Values]
    BY DEF Blank, Values
  <2> QED
    BY <2>1, Zenon DEF Init, Forms
<1>3. /\ committed \subseteq Submits /\ query \in Queries /\ mutation \in [Submits -> Sending]
      /\ latest \in Submits \cup {None} /\ list \in Counts \cup {None}
  BY DEF Init, Queries, Sending
<1>4. TypeOK
  BY <1>1, <1>2, <1>3, TypeParts, Zenon
<1>5. AddedOnce /\ FormsWaitForTheTable /\ CreatedRowsShownOnce
  BY DEF Init, AddedOnce, FormsWaitForTheTable, CreatedRowsShownOnce
<1>6. ErrorIsOfTheLast
  BY NoneAssumption DEF Init, ErrorIsOfTheLast
<1>7. OnlyWhatIsWrong
  BY DEF Init, OnlyWhatIsWrong
<1> QED
  BY <1>4, <1>5, <1>6, <1>7 DEF IInv

-----------------------------------------------------------------------------
(* The form.                                                                *)

\* An emptied form, a field that changes and a refusal leave the form a form,
\* with no error that is not there.
LEMMA FormStep ==
    ASSUME TypeOK, OnlyWhatIsWrong, [Next]_vars
    PROVE  form' \in Forms /\ OnlyWhatIsWrong'
<1>1. form \in Forms
  BY TypeParts
<1>2. Blank \in [Fields -> Values]
  BY DEF Blank, Values
<1>3. CASE form' = form
  BY <1>1, <1>3 DEF OnlyWhatIsWrong, Invalid
<1>4. CASE ToggleModal
  <2>1. form' \in Forms /\ form'.errors = {}
    BY <1>1, <1>2, <1>4 DEF ToggleModal, Forms
  <2> QED
    BY <2>1 DEF OnlyWhatIsWrong
<1>5. CASE RefuseSubmit
  <2>1. Invalid \in SUBSET Fields
    BY DEF Invalid
  <2>2. form' \in Forms /\ form'.errors = Invalid
        /\ form'.values = form.values /\ form'.tried = TRUE
    BY <1>1, <1>5, <2>1 DEF RefuseSubmit, Forms
  <2> QED
    BY <2>2 DEF OnlyWhatIsWrong, Invalid
<1>6. ASSUME NEW s \in Submits, Submit(s) PROVE form' \in Forms /\ OnlyWhatIsWrong'
  <2>1. form' \in Forms /\ form'.errors = {}
    BY <1>2, <1>6 DEF Submit, Forms
  <2> QED
    BY <2>1 DEF OnlyWhatIsWrong
<1>7. ASSUME NEW f \in Fields, NEW value \in Rules(f) \cup {"good"}, Type(f, value)
      PROVE  form' \in Forms /\ OnlyWhatIsWrong'
  <2>1. value \in Values
    BY DEF Rules, Values
  <2>2. form' \in Forms /\ form'.tried = form.tried
        /\ form'.values = [form.values EXCEPT ![f] = value]
        /\ form'.errors = IF ~form.tried THEN form.errors
                          ELSE IF value \in Rules(f) THEN form.errors \cup {f}
                          ELSE form.errors \ {f}
    BY <1>1, <1>7, <2>1 DEF Type, Forms
  <2>3. \A g \in Fields : form'.values[g] = IF g = f THEN value ELSE form.values[g]
    BY <1>1, <2>2 DEF Forms
  <2> QED
    BY <2>2, <2>3 DEF OnlyWhatIsWrong, Invalid
<1> QED
  BY <1>3, <1>4, <1>5, <1>6, <1>7
     DEF Next, vars, QueryReads, QueryAnswered, QueryFails, CloseBanner,
         CreateCommits, CreateAnswered, CreateFails
-----------------------------------------------------------------------------
(* What is displayed.                                                       *)

\* What a step can do to an outcome, to the form sent last and to the banner.
LEMMA OutcomeSteps ==
    ASSUME TypeOK, [Next]_vars
    PROVE  \/ /\ UNCHANGED <<mutation, latest, mutationError>>
              /\ banner' = banner \/ Render(banner) \/ Render(FALSE)
           \/ \E s \in Submits :
                /\ mutation[s] = "unsent" /\ mutation' = [mutation EXCEPT ![s] = "sent"]
                /\ latest' = s /\ mutationError' = FALSE /\ Render(banner)
           \/ \E s \in Submits :
                /\ mutation[s] = "sent" /\ mutation' = [mutation EXCEPT ![s] = "committed"]
                /\ UNCHANGED <<latest, mutationError, banner>>
           \/ \E s \in Submits :
                /\ mutation[s] = "committed" /\ mutation' = [mutation EXCEPT ![s] = "ok"]
                /\ UNCHANGED <<latest, mutationError>> /\ Render(banner)
           \/ \E s \in Submits :
                /\ mutation[s] \in {"sent", "committed"}
                /\ mutation' = [mutation EXCEPT ![s] = "failed"]
                /\ mutationError' = (mutationError \/ latest = s)
                /\ UNCHANGED latest /\ Render(banner)
  BY DEF Next, vars, QueryReads, QueryAnswered, QueryFails, ToggleModal, RefuseSubmit, CloseBanner,
         Type, Submit, CreateCommits, CreateAnswered, CreateFails

\* Every step that renders shows the error it holds.
LEMMA ErrorStep ==
    ASSUME TypeOK, ErrorIsOfTheLast, [Next]_vars
    PROVE  ErrorIsOfTheLast'
<1>1. mutation \in [Submits -> Sending]
  BY TypeParts
<1>2. \A shown : Render(shown) => (mutationError' => banner')
  BY DEF Render
<1> USE DEF ErrorIsOfTheLast
<1>3. CASE /\ UNCHANGED <<mutation, latest, mutationError>>
           /\ banner' = banner \/ Render(banner) \/ Render(FALSE)
  <2>1. mutationError' => banner'
    BY <1>2, <1>3
  <2> QED
    BY <1>3, <2>1
<1>4. ASSUME NEW s \in Submits, mutation' = [mutation EXCEPT ![s] = "sent"],
             latest' = s, mutationError' = FALSE
      PROVE  ErrorIsOfTheLast'
  BY <1>1, <1>4
<1>5. ASSUME NEW s \in Submits, mutation[s] \in {"sent", "committed"}, NEW x \in {"committed", "ok"},
             mutation' = [mutation EXCEPT ![s] = x],
             UNCHANGED <<latest, mutationError>>, UNCHANGED banner \/ Render(banner)
      PROVE  ErrorIsOfTheLast'
  <2>1. mutationError' => banner'
    <3>1. CASE UNCHANGED banner
      BY <1>5, <3>1
    <3>2. CASE Render(banner)
      BY <1>2, <3>2
    <3> QED
      BY <1>5, <3>1, <3>2
  <2>2. \A r \in Submits : mutation'[r] = "failed" <=> mutation[r] = "failed"
    BY <1>1, <1>5
  <2> QED
    BY <1>5, <2>1, <2>2
<1>6. ASSUME NEW s \in Submits, mutation[s] \in {"sent", "committed"},
             mutation' = [mutation EXCEPT ![s] = "failed"],
             mutationError' = (mutationError \/ latest = s),
             UNCHANGED latest, Render(banner)
      PROVE  ErrorIsOfTheLast'
  <2>1. mutationError' => banner'
    BY <1>2, <1>6
  <2>2. \A r \in Submits : mutation'[r] = "failed" <=> r = s \/ mutation[r] = "failed"
    BY <1>1, <1>6
  <2> QED
    BY <1>6, <2>1, <2>2
<1> QED
  BY <1>3, <1>4, <1>5, <1>6, OutcomeSteps

-----------------------------------------------------------------------------
(* The table.                                                               *)

LEMMA TableStep ==
    ASSUME IInv, [Next]_vars
    PROVE  /\ committed' \subseteq Submits /\ query' \in Queries
           /\ list' \in Counts \cup {None}
           /\ AddedOnce' /\ FormsWaitForTheTable' /\ CreatedRowsShownOnce'
<1>1. /\ committed \subseteq Submits /\ query \in Queries
      /\ mutation \in [Submits -> Sending] /\ list \in Counts \cup {None}
  BY TypeParts DEF IInv
<1>2. AddedOnce /\ FormsWaitForTheTable /\ CreatedRowsShownOnce
  BY DEF IInv
<1> USE DEF AddedOnce, FormsWaitForTheTable, CreatedRowsShownOnce, RowsOf
<1>3. CASE UNCHANGED <<committed, query, mutation, list, hurried>>
  BY <1>1, <1>2, <1>3
<1>4. CASE QueryReads
  BY <1>1, <1>2, <1>4 DEF QueryReads, Queries
<1>5. CASE QueryFails
  BY <1>1, <1>2, <1>5 DEF QueryFails, Queries
<1>6. CASE QueryAnswered
  <2>1. /\ query.at = "read" /\ query' \in Queries /\ query'.at = "answered"
        /\ UNCHANGED <<committed, mutation, hurried>>
    BY <1>1, <1>6 DEF QueryAnswered, Queries
  <2>2. list' \in Counts /\ \A s \in Submits : list'[s] = IF s \in query.rows THEN 1 ELSE 0
    BY <1>6 DEF QueryAnswered, Counts
  <2> QED
    BY <1>1, <1>2, <2>1, <2>2
<1>7. ASSUME NEW s \in Submits, Submit(s)
      PROVE  /\ committed' \subseteq Submits /\ query' \in Queries /\ list' \in Counts \cup {None}
             /\ AddedOnce' /\ FormsWaitForTheTable' /\ CreatedRowsShownOnce'
  BY <1>1, <1>2, <1>7 DEF Submit
<1>8. ASSUME NEW s \in Submits, CreateCommits(s)
      PROVE  /\ committed' \subseteq Submits /\ query' \in Queries /\ list' \in Counts \cup {None}
             /\ AddedOnce' /\ FormsWaitForTheTable' /\ CreatedRowsShownOnce'
  BY <1>1, <1>2, <1>8 DEF CreateCommits
<1>9. ASSUME NEW s \in Submits, CreateFails(s)
      PROVE  /\ committed' \subseteq Submits /\ query' \in Queries /\ list' \in Counts \cup {None}
             /\ AddedOnce' /\ FormsWaitForTheTable' /\ CreatedRowsShownOnce'
  BY <1>1, <1>2, <1>9 DEF CreateFails
<1>10. ASSUME NEW s \in Submits, CreateAnswered(s)
       PROVE  /\ committed' \subseteq Submits /\ query' \in Queries /\ list' \in Counts \cup {None}
              /\ AddedOnce' /\ FormsWaitForTheTable' /\ CreatedRowsShownOnce'
  <2>1. AllCheckinsNode \subseteq CreateCheckinNode
    BY DEF AllCheckinsNode, CreateCheckinNode
  <2>2. /\ mutation[s] = "committed" /\ mutation' = [mutation EXCEPT ![s] = "ok"]
        /\ list' = IF list = None THEN list ELSE [list EXCEPT ![s] = @ + 1]
        /\ UNCHANGED <<committed, query, hurried>>
    BY <1>10, <2>1 DEF CreateAnswered, ListAfter
  <2>3. CASE list = None
    BY <1>1, <1>2, <2>2, <2>3
  <2>4. CASE list # None
    <3>1. list \in [Submits -> 0 .. 2] /\ list[s] \in 0 .. 1
      BY <1>1, <1>2, <2>2, <2>4 DEF Counts
    <3>2. list' \in Counts /\ \A r \in Submits : list'[r] = IF r = s THEN list[r] + 1 ELSE list[r]
      BY <2>2, <2>4, <3>1 DEF Counts
    <3> QED
      BY <1>1, <1>2, <2>2, <2>4, <3>1, <3>2
  <2> QED
    BY <2>3, <2>4
<1> QED
  BY <1>3, <1>4, <1>5, <1>6, <1>7, <1>8, <1>9, <1>10
     DEF Next, vars, ToggleModal, RefuseSubmit, CloseBanner, Type

\* The rest of the types.
LEMMA TypeStep ==
    ASSUME TypeOK, [Next]_vars
    PROVE  /\ mutation' \in [Submits -> Sending] /\ latest' \in Submits \cup {None}
           /\ mutationError' \in BOOLEAN /\ banner' \in BOOLEAN
           /\ modal' \in BOOLEAN /\ hurried' \in BOOLEAN
<1>1. /\ mutation \in [Submits -> Sending] /\ latest \in Submits \cup {None}
      /\ mutationError \in BOOLEAN /\ banner \in BOOLEAN
      /\ modal \in BOOLEAN /\ hurried \in BOOLEAN
  BY TypeParts, Zenon
<1>2. mutation' \in [Submits -> Sending] /\ latest' \in Submits \cup {None}
  BY <1>1, OutcomeSteps DEF Sending
<1>3. \A shown : Render(shown) => banner' \in BOOLEAN
  BY Zenon DEF Render
<1>4. mutationError' \in BOOLEAN
  BY <1>1, OutcomeSteps, Zenon
<1>5. banner' \in BOOLEAN
  BY <1>1, <1>3, OutcomeSteps, Zenon
<1>6. modal' \in {modal, ~modal, FALSE}
  BY Zenon DEF Next, vars, QueryReads, QueryAnswered, QueryFails, ToggleModal, RefuseSubmit,
               CloseBanner, Type, Submit, CreateCommits, CreateAnswered, CreateFails
<1>7. hurried' \in {hurried, hurried \/ query.at \in {"asked", "read"}}
  BY Zenon DEF Next, vars, QueryReads, QueryAnswered, QueryFails, ToggleModal, RefuseSubmit,
               CloseBanner, Type, Submit, CreateCommits, CreateAnswered, CreateFails
<1> QED
  BY <1>1, <1>2, <1>4, <1>5, <1>6, <1>7, Zenon

\* The invariant holds in every reachable state.
THEOREM PageInvariant == Spec => []IInv
<1>1. IInv /\ [Next]_vars => IInv'
  <2> SUFFICES ASSUME IInv, [Next]_vars PROVE IInv'
    OBVIOUS
  <2>1. form' \in Forms /\ OnlyWhatIsWrong'
    BY FormStep DEF IInv
  <2>2. ErrorIsOfTheLast'
    BY ErrorStep DEF IInv
  <2>3. TypeOK'
    BY <2>1, TypeStep, TableStep, Zenon DEF IInv, TypeOK, Queries, Forms, Sending
  <2> QED
    BY <2>1, <2>2, <2>3, TableStep DEF IInv
<1> QED
  BY <1>1, InitInvariant, PTL DEF Spec

\* Types, for every set of forms.
THEOREM PageTypeCorrect == Spec => []TypeOK
<1>1. IInv => TypeOK
  BY DEF IInv
<1> QED
  BY <1>1, PageInvariant, PTL

\* update in App.tsx keeps the table right, as long as the query was answered
\* before a form was sent.
THEOREM RowsShownOnce == Spec => []CreatedRowsShownOnce
<1>1. IInv => CreatedRowsShownOnce
  BY DEF IInv
<1> QED
  BY <1>1, PageInvariant, PTL

\* The banner of App.tsx tells of the form that was sent last, and of no other.
THEOREM FailuresAreTold == Spec => []LastFailureIsTold
<1>1. IInv => LastFailureIsTold
  BY NoneAssumption DEF IInv, ErrorIsOfTheLast, LastFailureIsTold
<1> QED
  BY <1>1, PageInvariant, PTL

\* A refused form has a message, unless all that is missing is the last name.
THEOREM RefusalsHaveMessages == Spec => []RefusalsAreExplained
<1>1. IInv => RefusalsAreExplained
  <2> SUFFICES ASSUME IInv, NEW f \in form.errors, f # "lastName" PROVE Messages # {}
    BY DEF IInv, OnlyWhatIsWrong, RefusalsAreExplained
  <2>1. f \in Fields /\ ErrorOfGroup(f) = f
    BY DEF IInv, OnlyWhatIsWrong, Invalid, ErrorOfGroup
  <2> QED
    BY <2>1 DEF Messages
<1> QED
  BY <1>1, PageInvariant, PTL
=============================================================================
