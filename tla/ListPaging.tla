----------------------------- MODULE ListPaging -----------------------------
(***************************************************************************)
(* executeList of pkg/xolu/client.go: the window limit/offset of a list    *)
(* call is read from xolu page after page, and other clients of xolu       *)
(* insert and delete rows between the pages.  A page that fails is         *)
(* ToolCall's subject.                                                     *)
(***************************************************************************)
EXTENDS Integers, SequencesExt

CONSTANTS
    Row,        \* the rows that match the filter of the call, at any time
    PerPage,    \* xoluMaxPerPage
    MaxLimit,   \* bound of limit
    MaxOffset,  \* bound of offset
    MaxChanges  \* bound: changes others make during the call

ASSUME ListPagingAssumption ==
    /\ IsFiniteSet(Row)
    /\ PerPage \in Nat \ {0}
    /\ MaxLimit \in Nat \ {0}
    /\ MaxOffset \in Nat
    /\ MaxChanges \in Nat

VARIABLES
    rows,       \* the rows of xolu in xolu's order
    limit, offset, page, collected,
    total,      \* total_items of the last page that told it
    counts,     \* xolu tells total_items
    answered,   \* the list has been returned
    asRead,     \* history: the rows at each request so far
    changes     \* history: the changes of others since the first request

call == <<limit, offset, counts>>
vars == <<rows, call, page, collected, total, answered, asRead, changes>>

end == offset + limit

\* What xolu answers for a page, and what of it falls into the window.
Data(p) == {i \in 1..Len(rows) : (p - 1) * PerPage < i /\ i <= p * PerPage}

\* Faulty variant: the window is cut off one row late.
InWindowOneMore(i) == offset <= i /\ i <= end

InWindow(i) == offset <= i /\ i < end

\* The rows of the page in the window; xolu counts rows from 1, the window from 0.
Cut(p) ==
    LET window == {i \in Data(p) : InWindow(i - 1)}
    IN [n \in 1..Cardinality(window) |->
            rows[CHOOSE i \in window : Cardinality({j \in window : j <= i}) = n]]

\* Faulty variant: the last row of the window is not waited for.
LastPageEarly(p, known) ==
    \/ Cardinality(Data(p)) < PerPage
    \/ p * PerPage >= end - 1
    \/ p * PerPage >= known

\* Faulty variant: the loop goes on to the last row of xolu.
LastPageOfAll(p, known) == Cardinality(Data(p)) < PerPage \/ p * PerPage >= known

LastPage(p, known) ==
    \/ Cardinality(Data(p)) < PerPage
    \/ p * PerPage >= end
    \/ p * PerPage >= known

\* One request and the loop's body after it.
Read ==
    /\ ~answered
    /\ total' = IF counts THEN Len(rows) ELSE total
    /\ collected' = collected \o Cut(page)
    /\ asRead' = Append(asRead, rows)
    /\ IF LastPage(page, total')
       THEN answered' = TRUE /\ UNCHANGED page
       ELSE page' = page + 1 /\ UNCHANGED answered
    /\ UNCHANGED <<rows, call, changes>>

(***************************************************************************)
(* Other clients of xolu.                                                  *)
(***************************************************************************)
Change(kind) ==
    /\ ~answered /\ asRead # <<>>
    /\ Len(changes) < MaxChanges
    /\ changes' = Append(changes, kind)
    /\ UNCHANGED <<call, page, collected, total, answered, asRead>>

Insert ==
    /\ \E r \in Row \ ToSet(rows), at \in 1..Len(rows) + 1 : rows' = InsertAt(rows, at, r)
    /\ Change("insert")

Delete ==
    /\ \E at \in 1..Len(rows) : rows' = RemoveAt(rows, at)
    /\ Change("delete")

Init ==
    /\ rows \in {SetToSeq(some) : some \in SUBSET Row}
    /\ limit \in 1..MaxLimit
    /\ offset \in 0..MaxOffset
    /\ page = offset \div PerPage + 1
    /\ collected = <<>>
    /\ total = 0
    /\ counts \in BOOLEAN
    /\ answered = FALSE
    /\ asRead = <<>>
    /\ changes = <<>>

Next == Read \/ Insert \/ Delete

Spec == Init /\ [][Next]_vars

-----------------------------------------------------------------------------

ListTypeOK ==
    /\ rows \in Seq(Row) /\ IsInjective(rows)
    /\ limit \in 1..MaxLimit
    /\ offset \in 0..MaxOffset
    /\ page \in 1..(MaxOffset + MaxLimit)
    /\ collected \in Seq(Row) /\ Len(collected) <= limit
    /\ total \in 0..Cardinality(Row)
    /\ counts \in BOOLEAN
    /\ answered \in BOOLEAN
    /\ asRead \in Seq(Seq(Row))
    /\ changes \in Seq({"insert", "delete"})

Occurs(r) == {n \in DOMAIN collected : collected[n] = r}

\* r was in the window at each request of the call.
Stayed(r) ==
    \A n \in DOMAIN asRead : \E i \in DOMAIN asRead[n] : asRead[n][i] = r /\ InWindow(i - 1)

Had(kind) == \E n \in DOMAIN changes : changes[n] = kind

(***************************************************************************)
(* Rows that move while the pages are read: a row is listed twice only if  *)
(* another was inserted meanwhile, and a row that was in the window at     *)
(* every request is left out only if another was deleted (or xolu does not *)
(* count its rows).  A list nothing disturbs is therefore exact, however   *)
(* the window lies across the pages.                                       *)
(***************************************************************************)
ListFollowsTheRows ==
    answered =>
        /\ \A r \in Row : Cardinality(Occurs(r)) > 1 => Had("insert")
        /\ counts => \A r \in Row : Stayed(r) /\ Occurs(r) = {} => Had("delete")
        /\ changes = <<>> /\ counts =>
             collected = SubSeq(rows, offset + 1, IF end < Len(rows) THEN end ELSE Len(rows))

\* A list asks xolu for no more pages than its window touches, although rows grow meanwhile.
ListCostsItsWindow == Len(asRead) <= (end - 1) \div PerPage - offset \div PerPage + 1
=============================================================================
