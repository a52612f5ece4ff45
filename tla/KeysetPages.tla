----------------------------- MODULE KeysetPages -----------------------------
(***************************************************************************)
(* Keyset pagination, newest first, over primary keys ordered as numbers.  *)
(* The query asks for one row more than the page to learn whether another  *)
(* page follows; the cursor is the last row shown.                         *)
(***************************************************************************)
EXTENDS Naturals, FiniteSets

(* No cursor was sent: the first page.                                      *)
FirstPage == 0

(* WHERE id < cursor.                                                       *)
Below(ids, after) == {i \in ids : after = FirstPage \/ i < after}

(* ORDER BY id DESC LIMIT n.                                                *)
Newest(ids, n) == {i \in ids : Cardinality({j \in ids : j > i}) < n}

Fetched(ids, after, limit) == Newest(Below(ids, after), limit + 1)
Shown(ids, after, limit)   == Newest(Fetched(ids, after, limit), limit)
HasMore(ids, after, limit) == Cardinality(Fetched(ids, after, limit)) > limit

(* Mutant: the cursor is the extra row, which the page did not show.        *)
IsCursorFetched(c, ids, after, limit) ==
    /\ c \in Fetched(ids, after, limit)
    /\ \A i \in Fetched(ids, after, limit) : c <= i

IsCursor(c, ids, after, limit) ==
    /\ c \in Shown(ids, after, limit)
    /\ \A i \in Shown(ids, after, limit) : c <= i
=============================================================================
