----------------------------- MODULE Pagination -----------------------------
(***************************************************************************)
(* The allCheckins connection (backend/src/models.rs, Checkin::query): a   *)
(* page of the checkins table, cut out of the whole list by cursors and    *)
(* sizes.  Ids come from a sequence before their rows commit, so rows may  *)
(* appear in any order while a client reads page after page.               *)
(***************************************************************************)
EXTENDS Naturals, Sequences, FiniteSets

CONSTANTS
    Ids,    \* ids the sequence hands out
    Sizes,  \* values of first and last
    None    \* an argument that is not given

ASSUME IdsAssumption == Ids \subseteq Nat /\ IsFiniteSet(Ids)
ASSUME SizesAssumption == Sizes \subseteq Nat
ASSUME NoneAssumption == None \notin Nat

VARIABLES
    rows,   \* the ids of the committed rows
    reader  \* a client that reads the whole connection

vars == <<rows, reader>>

\* async_graphql refuses first and last together.
Arguments ==
    {a \in [after : Ids \cup {None}, before : Ids \cup {None},
            first : Sizes \cup {None}, last : Sizes \cup {None}] :
        a.first = None \/ a.last = None}

\* get_checkins orders by id.
Nodes ==
    [i \in 1 .. Cardinality(rows) |->
        CHOOSE id \in rows : Cardinality({r \in rows : r < id}) = i - 1]

\* A cursor that names no row counts as not given.
Known(cursor) == cursor \in rows
Position(cursor) == CHOOSE i \in DOMAIN Nodes : Nodes[i] = cursor

\* A mistake: the `idx + 1` forgotten.
StartAtCursor(after) == IF Known(after) THEN Position(after) - 1 ELSE 0

\* start_idx and end_idx, as offsets between nodes.
StartIdx(after) == IF Known(after) THEN Position(after) ELSE 0

EndIdx(before) == IF Known(before) THEN Position(before) - 1 ELSE Len(Nodes)

\* The slice expression panics when its ends cross.
Panics(a) == StartIdx(a.after) > EndIdx(a.before)

\* A mistake: the flag kept when the page is cut short by first.
PageForgetsMore(a) ==
    LET nodes == SubSeq(Nodes, StartIdx(a.after) + 1, EndIdx(a.before))
        full == Len(nodes)
        cutEnd == a.first # None /\ full > a.first
        cutStart == a.last # None /\ full > a.last
    IN  [edges |-> IF cutEnd THEN SubSeq(nodes, 1, a.first)
                   ELSE IF cutStart THEN SubSeq(nodes, full - a.last + 1, full)
                   ELSE nodes,
         hasPrevious |-> StartIdx(a.after) > 0 \/ cutStart,
         hasNext |-> EndIdx(a.before) < Len(Nodes)]

\* A mistake: `<=` for `<`.
PageAlwaysMore(a) ==
    LET nodes == SubSeq(Nodes, StartIdx(a.after) + 1, EndIdx(a.before))
        full == Len(nodes)
        cutEnd == a.first # None /\ full > a.first
        cutStart == a.last # None /\ full > a.last
    IN  [edges |-> IF cutEnd THEN SubSeq(nodes, 1, a.first)
                   ELSE IF cutStart THEN SubSeq(nodes, full - a.last + 1, full)
                   ELSE nodes,
         hasPrevious |-> StartIdx(a.after) > 0 \/ cutStart,
         hasNext |-> EndIdx(a.before) <= Len(Nodes) \/ cutEnd]

\* The whole of Checkin::query after its arguments are checked.
Page(a) ==
    LET nodes == SubSeq(Nodes, StartIdx(a.after) + 1, EndIdx(a.before))
        full == Len(nodes)
        cutEnd == a.first # None /\ full > a.first
        cutStart == a.last # None /\ full > a.last
    IN  [edges |-> IF cutEnd THEN SubSeq(nodes, 1, a.first)
                   ELSE IF cutStart THEN SubSeq(nodes, full - a.last + 1, full)
                   ELSE nodes,
         hasPrevious |-> StartIdx(a.after) > 0 \/ cutStart,
         hasNext |-> EndIdx(a.before) < Len(Nodes) \/ cutEnd]

-----------------------------------------------------------------------------
(* The table grows, and one client follows the cursors to an end.           *)

Init ==
    /\ rows = {}
    /\ reader = [at |-> "idle"]

Commit(id) ==
    /\ id \notin rows
    /\ rows' = rows \cup {id}
    /\ UNCHANGED reader

\* owed: the rows that are there when the client starts.
Begin(way, size) ==
    /\ reader.at = "idle"
    /\ size > 0
    /\ reader' = [at |-> "reading", way |-> way, size |-> size, cursor |-> None,
                  seen |-> <<>>, owed |-> rows]
    /\ UNCHANGED rows

ReadForward ==
    LET page == Page([after |-> reader.cursor, before |-> None,
                      first |-> reader.size, last |-> None])
    IN  /\ reader.at = "reading"
        /\ reader.way = "forward"
        /\ reader' = [reader EXCEPT
                !.seen = @ \o page.edges,
                !.cursor = IF page.edges = <<>> THEN @ ELSE page.edges[Len(page.edges)],
                !.at = IF page.hasNext THEN @ ELSE "done"]
        /\ UNCHANGED rows

ReadBackward ==
    LET page == Page([after |-> None, before |-> reader.cursor,
                      first |-> None, last |-> reader.size])
    IN  /\ reader.at = "reading"
        /\ reader.way = "backward"
        /\ reader' = [reader EXCEPT
                !.seen = page.edges \o @,
                !.cursor = IF page.edges = <<>> THEN @ ELSE Head(page.edges),
                !.at = IF page.hasPrevious THEN @ ELSE "done"]
        /\ UNCHANGED rows

Next ==
    \/ \E id \in Ids : Commit(id)
    \/ \E way \in {"forward", "backward"}, size \in Sizes : Begin(way, size)
    \/ ReadForward
    \/ ReadBackward

Spec == Init /\ [][Next]_vars /\ WF_vars(ReadForward) /\ WF_vars(ReadBackward)

-----------------------------------------------------------------------------
(* The reference: a page as a set of ids, without positions.                *)

Between(a) ==
    {id \in rows : (Known(a.after) => id > a.after) /\ (Known(a.before) => id < a.before)}

FirstOf(S, n) == {id \in S : Cardinality({i \in S : i < id}) < n}
LastOf(S, n) == {id \in S : Cardinality({i \in S : i > id}) < n}

Wanted(a) ==
    IF a.first # None THEN FirstOf(Between(a), a.first)
    ELSE IF a.last # None THEN LastOf(Between(a), a.last) ELSE Between(a)

SetOf(s) == {s[i] : i \in DOMAIN s}
Ascending(s) == \A i, j \in DOMAIN s : i < j => s[i] < s[j]

\* For every argument and every table, the page holds the rows between the
\* cursors, ascending, as many as asked from the end asked for; the flags of a
\* page that is not empty tell whether the table has rows on either side; and
\* the query panics just when `after` is not before `before`.
PagesMatchReference ==
    \A a \in Arguments :
        /\ Panics(a) <=> Known(a.after) /\ Known(a.before) /\ a.after >= a.before
        /\ ~Panics(a) =>
            LET page == Page(a)
                wanted == Wanted(a)
            IN  /\ SetOf(page.edges) = wanted /\ Ascending(page.edges)
                /\ wanted # {} =>
                    /\ page.hasNext <=> \E id \in rows : \A w \in wanted : id > w
                    /\ page.hasPrevious <=> \E id \in rows : \A w \in wanted : id < w

\* A client that follows the cursors reads no row twice and all in order, while
\* rows keep appearing before and after the place it has reached.
ReadsInOrder == reader.at # "idle" => Ascending(reader.seen)

\* When the flags tell it to stop, it has read every row that was there when it
\* started.
ReadsAllOwed ==
    reader.at = "done" => reader.owed \subseteq SetOf(reader.seen)

\* It is told to stop at some point: the flags do not send it round for ever.
ReadingEnds == reader.at = "reading" ~> reader.at = "done"
=============================================================================
