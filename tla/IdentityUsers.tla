---------------------------- MODULE IdentityUsers ----------------------------
(***************************************************************************)
(* The users of the identity service (identity/src/handlers/identity.ts):  *)
(* createUser inserts one, updateUser reads one, changes the entity in     *)
(* memory and saves it.  To save, TypeORM reads the row once more and      *)
(* writes the columns in which the entity differs from it; nothing locks   *)
(* the row from the first read to the write.                               *)
(***************************************************************************)

CONSTANTS
    Users,   \* ids the database draws
    Emails, Phones, Names,  \* what the fields can hold
    Blank,   \* the empty string, which a field holds when it was never set
    Calls    \* calls that may be in progress at once

ASSUME BlankAssumption == Blank \notin Users \cup Emails \cup Phones \cup Names

VARIABLES
    table,  \* the user table
    call    \* what each updateUser call has in hand

vars == <<table, call>>

\* name stands for the names and the locale, which are treated alike.
Fields == {"email", "phone", "name"}
Unique == {"email", "phone"}
FieldValues(f) ==
    {Blank} \cup CASE f = "email" -> Emails [] f = "phone" -> Phones [] f = "name" -> Names
Rows ==
    {row \in [Fields -> {Blank} \cup Emails \cup Phones \cup Names] :
        \A f \in Fields : row[f] \in FieldValues(f)}

NoUser == [f \in {} |-> Blank]
Exists(u) == table[u] # NoUser

\* entity: the user in memory; columns: what save is about to write; history:
\* the fields the request gave, and whether the row was written meanwhile.
Idle == [at |-> "idle"]
Updates ==
    [at : {"changed", "saving", "saved"}, user : Users, entity : Rows,
     columns : SUBSET Fields, given : SUBSET Fields, stale : BOOLEAN]

TypeOK ==
    /\ table \in [Users -> Rows \cup {NoUser}]
    /\ call \in [Calls -> {Idle} \cup Updates]

Init ==
    /\ table = [u \in Users |-> NoUser]
    /\ call = [c \in Calls |-> Idle]

\* Another user holds the value of a unique column.
Taken(u, row) ==
    \E other \in Users \ {u}, f \in Unique : Exists(other) /\ table[other][f] = row[f]

\* findUser: by id, else by email, else an error.
FindUser(id, email) ==
    IF id # Blank THEN {u \in {id} : Exists(u)}
    ELSE IF email # Blank THEN {u \in Users : Exists(u) /\ table[u]["email"] = email}
    ELSE {}

\* A mistake: `|| user.email` forgotten.
ChangedToBlank(row, set) == set

\* `call.request!.getEmail() || user.email`, and so on.
Changed(row, set) == [f \in Fields |-> IF set[f] # Blank THEN set[f] ELSE row[f]]

-----------------------------------------------------------------------------
\* A mistake: setPhoneNumber forgotten.
CreateUserPhoneless(u, set) ==
    /\ ~Exists(u)
    /\ ~Taken(u, set)
    /\ table' = [table EXCEPT ![u] = [f \in Fields \ {"phone"} |-> set[f]]]
    /\ UNCHANGED call

\* createUser: the row is inserted; fields that were not given are empty
\* strings.  When a unique column is taken or the database is not reached the
\* call answers an error and nothing changes; when only the database's answer is
\* lost it answers an error too, and the row is there all the same.
CreateUser(u, set) ==
    /\ ~Exists(u)
    /\ ~Taken(u, set)
    /\ table' = [table EXCEPT ![u] = set]
    /\ UNCHANGED call

\* updateUser finds the user and changes the entity.
UpdateFinds(c, id, set) ==
    /\ call[c] = Idle
    /\ \E u \in FindUser(id, set["email"]) :
        call' = [call EXCEPT ![c] =
                    [at |-> "changed", user |-> u, entity |-> Changed(table[u], set),
                     columns |-> {}, given |-> {f \in Fields : set[f] # Blank},
                     stale |-> FALSE]]
    /\ UNCHANGED table

Saved(c) == [call[c] EXCEPT !.at = "saved", !.columns = {}, !.given = {}]

\* user.save() reads the row again to see what differs.
SaveCompares(c) ==
    LET columns == {f \in Fields : call[c].entity[f] # table[call[c].user][f]}
    IN  /\ call[c].at = "changed"
        /\ call' = [call EXCEPT ![c] = IF columns = {} THEN Saved(c)
                                       ELSE [@ EXCEPT !.at = "saving", !.columns = columns]]
        /\ UNCHANGED table

\* The row with the entity's values in the columns that differed.
SavedRow(c) ==
    [f \in Fields |-> IF f \in call[c].columns THEN call[c].entity[f]
                      ELSE table[call[c].user][f]]

\* The row is written, and the call left with `after`; other calls have what is
\* no longer stored.
RowWritten(c, after) ==
    /\ call[c].at = "saving"
    /\ ~Taken(call[c].user, SavedRow(c))
    /\ table' = [table EXCEPT ![call[c].user] = SavedRow(c)]
    /\ call' = [d \in Calls |->
                  IF d = c THEN after
                  ELSE IF call[d] # Idle /\ call[d].user = call[c].user
                  THEN [call[d] EXCEPT !.stale = TRUE] ELSE call[d]]

SaveWrites(c) == RowWritten(c, Saved(c))

\* A mistake: the catch block falls through to the answer.
SaveFailsUnseen(c) ==
    /\ call[c].at \in {"changed", "saving"}
    /\ call' = [call EXCEPT ![c] = Saved(c)]
    /\ UNCHANGED table

\* An error: a unique column is taken, the database is not reached, or the answer
\* is lost after the row was written.
SaveFails(c) ==
    \/ /\ call[c].at \in {"changed", "saving"}
       /\ call' = [call EXCEPT ![c] = Idle]
       /\ UNCHANGED table
    \/ RowWritten(c, Idle)

\* The answer is the entity in memory.
UpdateAnswers(c) ==
    /\ call[c].at = "saved"
    /\ call' = [call EXCEPT ![c] = Idle]
    /\ UNCHANGED table

Next ==
    \/ \E u \in Users, set \in Rows : CreateUser(u, set)
    \/ \E c \in Calls :
        \/ \E id \in Users \cup {Blank}, set \in Rows : UpdateFinds(c, id, set)
        \/ SaveCompares(c) \/ SaveWrites(c) \/ SaveFails(c) \/ UpdateAnswers(c)

Spec == Init /\ [][Next]_vars

-----------------------------------------------------------------------------
\* A field changes only by an update that was given it, except that an update
\* that overlapped another of the same user may put the older value back.
OnlyGivenFieldsChange ==
    [][\A u \in Users, f \in Fields :
        Exists(u) /\ table'[u][f] # table[u][f] =>
            \E c \in Calls :
                /\ call[c].at = "saving" /\ call'[c].at # "saving"
                /\ call[c].user = u
                /\ f \in call[c].given \/ call[c].stale]_vars

\* The profile an update answers with is the one that is stored, unless another
\* update of the user overlapped it.
AnswersAreStored ==
    \A c \in Calls :
        call[c].at = "saved" /\ ~call[c].stale => table[call[c].user] = call[c].entity
=============================================================================
