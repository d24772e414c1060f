------------------------- MODULE IdentityUsersProofs -------------------------
(***************************************************************************)
(* Proofs about the user table, for every set of users, values and calls.  *)
(***************************************************************************)
EXTENDS IdentityUsers, TLAPS

InHand(c) == call[c] # Idle

\* Users are never deleted, so a call's user stays in the table.
CallsHaveUsers == \A c \in Calls : InHand(c) => Exists(call[c].user)

\* Until it is saved, an object that nobody has overtaken differs from the row
\* only in fields the request gave.
GivenMakesTheDifference ==
    \A c \in Calls : call[c].at \in {"changed", "saving"} /\ ~call[c].stale =>
        \A f \in Fields \ call[c].given : call[c].entity[f] = table[call[c].user][f]

\* What save is not going to write is as it should be.
ColumnsSuffice ==
    \A c \in Calls : call[c].at = "saving" /\ ~call[c].stale =>
        \A f \in Fields \ call[c].columns : call[c].entity[f] = table[call[c].user][f]

IInv ==
    /\ TypeOK
    /\ CallsHaveUsers
    /\ GivenMakesTheDifference
    /\ ColumnsSuffice
    /\ AnswersAreStored

-----------------------------------------------------------------------------
\* What a call in hand holds.
LEMMA CallFields ==
    ASSUME NEW u \in {Idle} \cup Updates
    PROVE  /\ u = Idle => u.at = "idle"
           /\ u # Idle => /\ u.at \in {"changed", "saving", "saved"} /\ u.user \in Users
                          /\ u.entity \in Rows /\ u.columns \subseteq Fields
                          /\ u.given \subseteq Fields /\ u.stale \in BOOLEAN
           /\ u.at # "idle" => u \in Updates
  BY DEF Idle, Updates

LEMMA TypeParts ==
    ASSUME TypeOK
    PROVE  /\ \A u \in Users : table[u] \in Rows \cup {NoUser}
           /\ \A u \in Users : Exists(u) => table[u] \in Rows
           /\ \A c \in Calls : call[c] \in {Idle} \cup Updates
           /\ \A c \in Calls : InHand(c) => /\ call[c] \in Updates
                                            /\ call[c].user \in Users /\ call[c].entity \in Rows
                                            /\ call[c].columns \subseteq Fields
  BY CallFields DEF TypeOK, Exists, InHand

\* A row has every field, so it is never the row of no user.
LEMMA RowsAreUsers == NoUser \notin Rows
<1>1. ASSUME NoUser \in Rows PROVE FALSE
  <2>1. DOMAIN NoUser = Fields
    BY <1>1 DEF Rows
  <2>2. DOMAIN NoUser = {}
    BY DEF NoUser
  <2> QED
    BY <2>1, <2>2 DEF Fields
<1> QED
  BY <1>1

\* Rows are built field by field.
LEMMA MixedRow ==
    ASSUME NEW r \in Rows, NEW s \in Rows, NEW S
    PROVE  /\ [f \in Fields |-> IF f \in S THEN r[f] ELSE s[f]] \in Rows
           /\ [f \in Fields |-> IF r[f] # Blank THEN r[f] ELSE s[f]] \in Rows
  BY DEF Rows

LEMMA SameRow ==
    ASSUME NEW r \in Rows, NEW s \in Rows, \A f \in Fields : r[f] = s[f]
    PROVE  r = s
  BY DEF Rows

LEMMA SavedFields ==
    ASSUME NEW c \in Calls, call[c] \in Updates
    PROVE  /\ Saved(c) \in Updates /\ Saved(c) # Idle /\ Saved(c).at = "saved"
           /\ Saved(c).user = call[c].user /\ Saved(c).entity = call[c].entity
           /\ Saved(c).stale = call[c].stale
  BY DEF Saved, Updates, Idle

-----------------------------------------------------------------------------
LEMMA InitInvariant == Init => IInv
<1> SUFFICES ASSUME Init PROVE IInv
  OBVIOUS
<1>1. \A u \in Users : ~Exists(u)
  BY DEF Init, Exists
<1>2. \A c \in Calls : ~InHand(c) /\ call[c].at = "idle"
  BY DEF Init, InHand, Idle
<1> QED
  BY <1>1, <1>2 DEF IInv, Init, TypeOK, CallsHaveUsers, GivenMakesTheDifference, ColumnsSuffice,
     AnswersAreStored

\* A new row is nobody's so far, and no call is about it.
LEMMA CreateUserStep ==
    ASSUME IInv, NEW u \in Users, NEW set \in Rows, CreateUser(u, set)
    PROVE  IInv'
<1>0. TypeOK /\ CallsHaveUsers /\ GivenMakesTheDifference /\ ColumnsSuffice /\ AnswersAreStored
  BY DEF IInv
<1>1. call' = call /\ table' = [table EXCEPT ![u] = set] /\ ~Exists(u)
  BY DEF CreateUser
<1>2. TypeOK'
  BY <1>0, <1>1 DEF TypeOK
<1>3. /\ table'[u] = set
      /\ \A v \in Users : v # u => table'[v] = table[v] /\ (Exists(v)' <=> Exists(v))
  BY <1>0, <1>1 DEF TypeOK, Exists
<1>4. \A c \in Calls : call[c].at # "idle" =>
          call[c].user # u /\ table'[call[c].user] = table[call[c].user] /\ Exists(call[c].user)'
  BY <1>0, <1>1, <1>3, TypeParts, CallFields DEF CallsHaveUsers, InHand
<1>5. CallsHaveUsers'
  BY <1>0, <1>1, <1>4, TypeParts, CallFields DEF CallsHaveUsers, InHand
<1>6. GivenMakesTheDifference' /\ ColumnsSuffice' /\ AnswersAreStored'
  BY <1>0, <1>1, <1>4 DEF GivenMakesTheDifference, ColumnsSuffice, AnswersAreStored
<1> QED
  BY <1>2, <1>5, <1>6 DEF IInv

\* The object read is the row, but for the fields that were given.
LEMMA UpdateFindsStep ==
    ASSUME IInv, NEW c \in Calls, NEW id \in Users \cup {Blank}, NEW set \in Rows,
           UpdateFinds(c, id, set)
    PROVE  IInv'
<1>0. TypeOK /\ CallsHaveUsers /\ GivenMakesTheDifference /\ ColumnsSuffice /\ AnswersAreStored
  BY DEF IInv
<1>1. PICK u \in FindUser(id, set["email"]) :
          call' = [call EXCEPT ![c] =
                      [at |-> "changed", user |-> u, entity |-> Changed(table[u], set),
                       columns |-> {}, given |-> {f \in Fields : set[f] # Blank},
                       stale |-> FALSE]]
  BY DEF UpdateFinds
<1>2. table' = table
  BY DEF UpdateFinds
<1>3. u \in Users /\ Exists(u) /\ table[u] \in Rows
  <2>1. u \in Users /\ Exists(u)
    BY BlankAssumption DEF FindUser
  <2> QED
    BY <1>0, <2>1, TypeParts
<1>4. Changed(table[u], set) \in Rows
  BY <1>3, MixedRow DEF Changed
<1>5. /\ call'[c] \in Updates /\ call'[c].at = "changed" /\ call'[c].user = u
      /\ call'[c].entity = Changed(table[u], set)
      /\ call'[c].given = {f \in Fields : set[f] # Blank}
      /\ \A d \in Calls : d # c => call'[d] = call[d]
  BY <1>0, <1>1, <1>3, <1>4 DEF TypeOK, Updates
<1>6. TypeOK'
  BY <1>0, <1>1, <1>2, <1>5 DEF TypeOK
<1>7. CallsHaveUsers'
  BY <1>0, <1>2, <1>3, <1>5 DEF CallsHaveUsers, InHand, Exists
<1>8. GivenMakesTheDifference'
  <2>1. \A f \in Fields \ call'[c].given : call'[c].entity[f] = table[u][f]
    BY <1>5 DEF Changed
  <2> QED
    BY <1>0, <1>2, <1>5, <2>1 DEF GivenMakesTheDifference
<1>9. ColumnsSuffice' /\ AnswersAreStored'
  BY <1>0, <1>2, <1>5 DEF ColumnsSuffice, AnswersAreStored
<1> QED
  BY <1>6, <1>7, <1>8, <1>9 DEF IInv

\* The columns that differ are the ones that will be written.
LEMMA SaveComparesStep ==
    ASSUME IInv, NEW c \in Calls, SaveCompares(c)
    PROVE  IInv'
<1> DEFINE columns == {f \in Fields : call[c].entity[f] # table[call[c].user][f]}
           u == call[c].user
<1>0. TypeOK /\ CallsHaveUsers /\ GivenMakesTheDifference /\ ColumnsSuffice /\ AnswersAreStored
  BY DEF IInv
<1>1. table' = table /\ call[c].at = "changed"
  BY DEF SaveCompares
<1>2. call' = [call EXCEPT ![c] = IF columns = {} THEN Saved(c)
                             ELSE [call[c] EXCEPT !.at = "saving", !.columns = columns]]
  BY DEF SaveCompares
<1>3. InHand(c) /\ call[c] \in Updates /\ u \in Users /\ Exists(u)
      /\ table[u] \in Rows /\ call[c].entity \in Rows
  BY <1>0, <1>1, TypeParts, CallFields DEF InHand, Idle, CallsHaveUsers
<1>4. /\ call'[c] \in Updates /\ call'[c].user = u /\ call'[c].entity = call[c].entity
      /\ call'[c].stale = call[c].stale
      /\ columns = {} => call'[c].at = "saved"
      /\ columns # {} => call'[c].at = "saving" /\ call'[c].columns = columns
                         /\ call'[c].given = call[c].given
      /\ \A d \in Calls : d # c => call'[d] = call[d]
  <2>1. CASE columns = {}
    BY <1>0, <1>2, <1>3, <2>1, SavedFields DEF TypeOK
  <2>2. CASE columns # {}
    <3>1. [call[c] EXCEPT !.at = "saving", !.columns = columns] \in Updates
      BY <1>3 DEF Updates
    <3>2. call'[c] = [call[c] EXCEPT !.at = "saving", !.columns = columns]
      BY <1>0, <1>2, <2>2 DEF TypeOK
    <3> QED
      BY <1>0, <1>2, <1>3, <2>2, <3>1, <3>2 DEF TypeOK, Updates
  <2> QED
    BY <2>1, <2>2
<1>5. TypeOK'
  BY <1>0, <1>1, <1>2, <1>4 DEF TypeOK
<1>6. CallsHaveUsers'
  BY <1>0, <1>1, <1>3, <1>4 DEF CallsHaveUsers, InHand, Exists
<1>7. GivenMakesTheDifference'
  BY <1>0, <1>1, <1>4 DEF GivenMakesTheDifference
<1>8. ColumnsSuffice'
  BY <1>0, <1>1, <1>4 DEF ColumnsSuffice
<1>9. AnswersAreStored'
  <2>1. columns = {} => call[c].entity = table[u]
    BY <1>3, SameRow
  <2> QED
    BY <1>0, <1>1, <1>4, <2>1 DEF AnswersAreStored
<1> QED
  BY <1>5, <1>6, <1>7, <1>8, <1>9 DEF IInv

\* What one save writes, and what it does to the others, whether or not its
\* answer comes.
LEMMA RowWrittenEffect ==
    ASSUME IInv, NEW c \in Calls, NEW after, RowWritten(c, after)
    PROVE  /\ call[c].at = "saving"
           /\ call[c] \in Updates /\ call[c].user \in Users /\ Exists(call[c].user)
           /\ SavedRow(c) \in Rows
           /\ table'[call[c].user] = SavedRow(c)
           /\ \A v \in Users : v # call[c].user => table'[v] = table[v]
           /\ \A v \in Users : Exists(v)' <=> Exists(v)
           /\ call'[c] = after
           /\ \A d \in Calls : d # c =>
                  \/ call'[d] = call[d] /\ (InHand(d) => call[d].user # call[c].user)
                  \/ /\ InHand(d) /\ call[d].user = call[c].user
                     /\ call'[d] = [call[d] EXCEPT !.stale = TRUE]
                     /\ call'[d] \in Updates /\ call'[d].stale /\ call'[d].user = call[d].user
<1>0. TypeOK /\ CallsHaveUsers
  BY DEF IInv
<1>1. /\ call[c].at = "saving"
      /\ table' = [table EXCEPT ![call[c].user] = SavedRow(c)]
      /\ call' = [d \in Calls |->
                    IF d = c THEN after
                    ELSE IF call[d] # Idle /\ call[d].user = call[c].user
                    THEN [call[d] EXCEPT !.stale = TRUE] ELSE call[d]]
  BY DEF RowWritten
<1>2. call[c] \in Updates /\ call[c].user \in Users /\ call[c].entity \in Rows
      /\ Exists(call[c].user) /\ table[call[c].user] \in Rows
  BY <1>0, <1>1, TypeParts, CallFields DEF InHand, Idle, CallsHaveUsers
<1>3. SavedRow(c) \in Rows
  BY <1>2, MixedRow DEF SavedRow
<1>4. /\ table'[call[c].user] = SavedRow(c)
      /\ \A v \in Users : v # call[c].user => table'[v] = table[v]
  BY <1>0, <1>1, <1>2 DEF TypeOK
<1>5. \A v \in Users : Exists(v)' <=> Exists(v)
  BY <1>2, <1>3, <1>4, RowsAreUsers DEF Exists
<1>6. call'[c] = after
  BY <1>1
<1>7. ASSUME NEW d \in Calls, d # c
      PROVE  \/ call'[d] = call[d] /\ (InHand(d) => call[d].user # call[c].user)
             \/ /\ InHand(d) /\ call[d].user = call[c].user
                /\ call'[d] = [call[d] EXCEPT !.stale = TRUE]
                /\ call'[d] \in Updates /\ call'[d].stale /\ call'[d].user = call[d].user
  <2>1. CASE InHand(d) /\ call[d].user = call[c].user
    <3>1. call'[d] = [call[d] EXCEPT !.stale = TRUE]
      BY <1>1, <1>7, <2>1 DEF InHand
    <3>2. call[d] \in Updates
      BY <1>0, <2>1, TypeParts
    <3> QED
      BY <2>1, <3>1, <3>2 DEF Updates
  <2>2. CASE ~(InHand(d) /\ call[d].user = call[c].user)
    BY <1>1, <1>7, <2>2 DEF InHand
  <2> QED
    BY <2>1, <2>2
<1> QED
  BY <1>1, <1>2, <1>3, <1>4, <1>5, <1>6, <1>7

\* A save that nobody has overtaken makes the row the object; the others on the
\* user are marked.
LEMMA RowWrittenStep ==
    ASSUME IInv, NEW c \in Calls, NEW after \in {Saved(c), Idle}, RowWritten(c, after)
    PROVE  IInv'
<1> DEFINE u == call[c].user
<1>0. TypeOK /\ CallsHaveUsers /\ GivenMakesTheDifference /\ ColumnsSuffice /\ AnswersAreStored
  BY DEF IInv
<1>1. /\ call[c] \in Updates /\ u \in Users /\ Exists(u) /\ SavedRow(c) \in Rows
      /\ table'[u] = SavedRow(c)
      /\ \A v \in Users : v # u => table'[v] = table[v]
      /\ \A v \in Users : Exists(v)' <=> Exists(v)
      /\ call'[c] = after
      /\ \A d \in Calls : d # c =>
             \/ call'[d] = call[d] /\ (InHand(d) => call[d].user # u)
             \/ InHand(d) /\ call'[d] \in Updates /\ call'[d].stale /\ call'[d].user = call[d].user
  BY RowWrittenEffect
<1>2. call[c].at = "saving"
  BY DEF RowWritten
<1>3. \/ after = Idle /\ after.at = "idle"
      \/ /\ after # Idle /\ after \in Updates /\ after.at = "saved" /\ after.user = u
         /\ after.entity = call[c].entity /\ after.stale = call[c].stale
  BY <1>1, SavedFields DEF Idle
<1>4. TypeOK'
  <2>1. table' \in [Users -> Rows \cup {NoUser}]
    BY <1>0, <1>1 DEF TypeOK, RowWritten
  <2>2. \A d \in Calls : call'[d] \in {Idle} \cup Updates
    BY <1>0, <1>1, <1>3, TypeParts
  <2>3. call' = [d \in Calls |-> call'[d]]
    BY DEF RowWritten
  <2> QED
    BY <2>1, <2>2, <2>3 DEF TypeOK
<1>5. CallsHaveUsers'
  BY <1>0, <1>1, <1>3, TypeParts DEF CallsHaveUsers, InHand
<1>6. \A d \in Calls : d # c /\ call'[d].at # "idle" /\ ~call'[d].stale =>
          call'[d] = call[d] /\ table'[call[d].user] = table[call[d].user]
  BY <1>0, <1>1, TypeParts, CallFields DEF InHand
<1>7. GivenMakesTheDifference' /\ ColumnsSuffice'
  BY <1>0, <1>1, <1>3, <1>6 DEF GivenMakesTheDifference, ColumnsSuffice
<1>8. AnswersAreStored'
  <2>1. ~call[c].stale => SavedRow(c) = call[c].entity
    <3> SUFFICES ASSUME ~call[c].stale PROVE SavedRow(c) = call[c].entity
      OBVIOUS
    <3>1. \A f \in Fields \ call[c].columns : call[c].entity[f] = table[u][f]
      BY <1>0, <1>2 DEF ColumnsSuffice
    <3>2. \A f \in Fields : SavedRow(c)[f] = call[c].entity[f]
      BY <3>1 DEF SavedRow
    <3>3. call[c].entity \in Rows
      BY <1>1 DEF Updates
    <3> QED
      BY <1>1, <3>2, <3>3, SameRow
  <2> QED
    BY <1>0, <1>1, <1>3, <1>6, <2>1 DEF AnswersAreStored
<1> QED
  BY <1>4, <1>5, <1>7, <1>8 DEF IInv

\* A call that ends changes nothing else.
LEMMA CallEndsStep ==
    ASSUME IInv, NEW c \in Calls, table' = table, call' = [call EXCEPT ![c] = Idle]
    PROVE  IInv'
<1>0. TypeOK /\ CallsHaveUsers /\ GivenMakesTheDifference /\ ColumnsSuffice /\ AnswersAreStored
  BY DEF IInv
<1>1. table' = table /\ call' = [call EXCEPT ![c] = Idle]
  OBVIOUS
<1>2. TypeOK'
  BY <1>0, <1>1 DEF TypeOK
<1>3. call'[c] = Idle /\ call'[c].at = "idle" /\ \A d \in Calls : d # c => call'[d] = call[d]
  BY <1>0, <1>1 DEF TypeOK, Idle
<1>4. CallsHaveUsers' /\ GivenMakesTheDifference' /\ ColumnsSuffice' /\ AnswersAreStored'
  BY <1>0, <1>1, <1>3 DEF CallsHaveUsers, GivenMakesTheDifference, ColumnsSuffice, AnswersAreStored,
     InHand, Exists
<1> QED
  BY <1>2, <1>4 DEF IInv

LEMMA StutterStep == IInv /\ UNCHANGED vars => IInv'
<1> SUFFICES ASSUME IInv, UNCHANGED vars PROVE IInv'
  OBVIOUS
<1>1. table' = table /\ call' = call
  BY DEF vars
<1> QED
  BY <1>1 DEF IInv, TypeOK, CallsHaveUsers, GivenMakesTheDifference, ColumnsSuffice,
     AnswersAreStored, InHand, Exists

-----------------------------------------------------------------------------
\* The invariant holds in every reachable state.
THEOREM UsersInvariant == Spec => []IInv
<1>1. IInv /\ [Next]_vars => IInv'
  BY CreateUserStep, UpdateFindsStep, SaveComparesStep, RowWrittenStep, CallEndsStep, StutterStep
     DEF Next, SaveWrites, SaveFails, UpdateAnswers
<1> QED
  BY <1>1, InitInvariant, PTL DEF Spec

\* Types, for every set of users, calls and values.
THEOREM TypeCorrect == Spec => []TypeOK
<1>1. IInv => TypeOK
  BY DEF IInv
<1> QED
  BY <1>1, UsersInvariant, PTL

\* The profile updateUser answers with is the stored one, unless another update overlapped.
THEOREM AnswersTellWhatIsStored == Spec => []AnswersAreStored
<1>1. IInv => AnswersAreStored
  BY DEF IInv
<1> QED
  BY <1>1, UsersInvariant, PTL

\* save writes no field but those the request gave, or older values of a stale object.
THEOREM NothingElseChanges == Spec => OnlyGivenFieldsChange
<1> DEFINE ChangedAsGiven ==
        \A u \in Users, f \in Fields :
            Exists(u) /\ table'[u][f] # table[u][f] =>
                \E c \in Calls :
                    /\ call[c].at = "saving" /\ call'[c].at # "saving"
                    /\ call[c].user = u
                    /\ f \in call[c].given \/ call[c].stale
<1>1. IInv /\ [Next]_vars => [ChangedAsGiven]_vars
  <2> SUFFICES ASSUME IInv, Next, NEW u \in Users, NEW f \in Fields, Exists(u),
                      table'[u][f] # table[u][f]
               PROVE  \E c \in Calls :
                          /\ call[c].at = "saving" /\ call'[c].at # "saving"
                          /\ call[c].user = u
                          /\ f \in call[c].given \/ call[c].stale
    OBVIOUS
  <2>0. TypeOK /\ GivenMakesTheDifference
    BY DEF IInv
  <2>1. ASSUME NEW v \in Users, NEW set \in Rows, CreateUser(v, set) PROVE FALSE
    <3>1. u # v
      BY <2>1 DEF CreateUser
    <3> QED
      BY <2>0, <2>1, <3>1 DEF CreateUser, TypeOK
  <2>2. table' # table
    OBVIOUS
  <2>3. PICK c \in Calls : \E after \in {Saved(c), Idle} : RowWritten(c, after)
    BY <2>1, <2>2 DEF Next, UpdateFinds, SaveCompares, SaveWrites, SaveFails, UpdateAnswers
  <2>4. call[c].at = "saving" /\ call[c].user = u /\ table'[u] = SavedRow(c)
        /\ call'[c] \in {Saved(c), Idle} /\ call[c] \in Updates
    BY <2>3, RowWrittenEffect
  <2>5. call'[c].at # "saving"
    BY <2>4, SavedFields DEF Idle
  <2>6. f \in call[c].given \/ call[c].stale
    <3>1. call[c].entity[f] # table[u][f]
      BY <2>4 DEF SavedRow
    <3> QED
      BY <2>0, <2>4, <3>1 DEF GivenMakesTheDifference
  <2> QED
    BY <2>4, <2>5, <2>6
<1> QED
  BY <1>1, UsersInvariant, PTL DEF Spec, OnlyGivenFieldsChange
=============================================================================
