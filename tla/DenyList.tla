------------------------------- MODULE DenyList -------------------------------
(***************************************************************************)
(* src/denylist/postgres.rs: a table all instances share, and a Bloom      *)
(* filter of each instance that spares it most of the queries.  The filter *)
(* is filled page by page when the instance starts, and by the instance's  *)
(* own inserts; it never forgets, and hears of no other instance.          *)
(***************************************************************************)
EXTENDS Naturals, FiniteSets, FiniteSetsExt

CONSTANTS Node,       \* the instances
          Item,       \* a set of numbers: items in the order of their text
          PageSize,   \* items of a page: 1000
          MaxWrites   \* bound on the inserts and deletes

ASSUME DenyAssumption ==
    /\ Item \subseteq Nat \ {0} /\ IsFiniteSet(Item)
    /\ PageSize \in Nat \ {0}

VARIABLES table,      \* the rows
          filter,     \* what each instance's filter has been told
          filling,    \* the initialisation: "new", "paging", "done", "failed"
          pageFrom,   \* where its next page starts (exclusive), 0 at first
          inserting,  \* the row an instance has written and its filter lacks, or 0
          own,        \* (history) the items inserted through an instance
          quiet,      \* (history) no write since an instance started to fill
          writes      \* (bound)

denyVars == <<table, filter, filling, pageFrom, inserting, own, quiet, writes>>

------------------------------------------------------------------------------
(* list and init.                                                           *)

\* (Mutant) without the extra row no page has a successor.
ListPageOnly(after, limit) ==
    LET rows == {x \in table : x > after}
        items == {x \in rows : Cardinality({y \in rows : y <= x}) <= limit}
    IN  [items |-> items, next |-> 0]

\* list: the rows after the cursor, in order, and one more than asked for: the
\* extra row is the cursor of the next page, which starts after it.
ListPage(after, limit) ==
    LET rows == {x \in table : x > after}
        rank(x) == Cardinality({y \in rows : y <= x})
    IN  [items |-> {x \in rows : rank(x) <= limit},
         next |-> IF Cardinality(rows) > limit
                  THEN CHOOSE x \in rows : rank(x) = limit + 1 ELSE 0]

\* init: the filter is cleared ...
ClearFilter(i) ==
    /\ filling[i] = "new"
    /\ filling' = [filling EXCEPT ![i] = "paging"]
    /\ filter' = [filter EXCEPT ![i] = {}]
    /\ pageFrom' = [pageFrom EXCEPT ![i] = 0]
    /\ quiet' = [quiet EXCEPT ![i] = TRUE]
    /\ UNCHANGED <<table, inserting, own, writes>>

\* ... and filled until a page is empty or has no successor.  The binary goes on
\* without the rest if a query fails.
FillPage(i) ==
    /\ filling[i] = "paging"
    /\ \/ LET page == ListPage(pageFrom[i], PageSize)
          IN  /\ filter' = [filter EXCEPT ![i] = @ \cup page.items]
              /\ pageFrom' = [pageFrom EXCEPT ![i] = page.next]
              /\ filling' = [filling EXCEPT ![i] =
                    IF page.items = {} \/ page.next = 0 THEN "done" ELSE "paging"]
       \/ /\ filling' = [filling EXCEPT ![i] = "failed"]
          /\ UNCHANGED <<filter, pageFrom>>
    /\ UNCHANGED <<table, inserting, own, quiet, writes>>

------------------------------------------------------------------------------
(* exists, insert, delete.                                                  *)

\* An item the filter was not told may still be taken for one it was; then the
\* table decides.
Denies(i, x) == x \in filter[i] /\ x \in table

Ready(i) == filling[i] \in {"done", "failed"}

Wrote == writes' = writes + 1 /\ quiet' = [i \in Node |-> FALSE]

\* An upsert, and then the filter; the error of the first skips the second.
InsertRow(i, x) ==
    /\ Ready(i) /\ inserting[i] = 0 /\ writes < MaxWrites
    /\ table' = table \cup {x}
    /\ inserting' = [inserting EXCEPT ![i] = x]
    /\ Wrote
    /\ UNCHANGED <<filter, filling, pageFrom, own>>

InsertIntoFilter(i) ==
    /\ inserting[i] # 0
    /\ filter' = [filter EXCEPT ![i] = @ \cup {inserting[i]}]
    /\ own' = [own EXCEPT ![i] = @ \cup {inserting[i]}]
    /\ inserting' = [inserting EXCEPT ![i] = 0]
    /\ UNCHANGED <<table, filling, pageFrom, quiet, writes>>

\* The filter keeps what it was told.
DeleteRow(i, x) ==
    /\ Ready(i) /\ inserting[i] = 0 /\ writes < MaxWrites
    /\ x \in table
    /\ table' = table \ {x}
    /\ Wrote
    /\ UNCHANGED <<filter, filling, pageFrom, inserting, own>>

\* The process dies and starts again.
RestartNode(i) ==
    /\ filling[i] # "new"
    /\ filling' = [filling EXCEPT ![i] = "new"]
    /\ filter' = [filter EXCEPT ![i] = {}]
    /\ pageFrom' = [pageFrom EXCEPT ![i] = 0]
    /\ inserting' = [inserting EXCEPT ![i] = 0]
    /\ own' = [own EXCEPT ![i] = {}]
    /\ UNCHANGED <<table, quiet, writes>>

DenyInit ==
    /\ table \in SUBSET Item
    /\ filter = [i \in Node |-> {}]
    /\ filling = [i \in Node |-> "new"]
    /\ pageFrom = [i \in Node |-> 0]
    /\ inserting = [i \in Node |-> 0]
    /\ own = [i \in Node |-> {}]
    /\ quiet = [i \in Node |-> FALSE]
    /\ writes = 0

DenyNext ==
    \E i \in Node :
        \/ ClearFilter(i) \/ FillPage(i) \/ InsertIntoFilter(i) \/ RestartNode(i)
        \/ \E x \in Item : InsertRow(i, x) \/ DeleteRow(i, x)

DenySpec == DenyInit /\ [][DenyNext]_denyVars

------------------------------------------------------------------------------
\* The place of a row in the table.
Rank(x) == Cardinality({y \in table : y <= x})

\* What the filter of an instance knows, in closed form: if nobody wrote to the
\* table since it began to fill, all rows but the one that follows each full page
\* (src/denylist/postgres.rs:245); and, whatever the others do to the table, all
\* items inserted through the instance itself, so that it denies each of them
\* for as long as it is in the table.
FilterIsExplained ==
    \A i \in Node :
        /\ filling[i] = "done" /\ quiet[i] =>
              filter[i] = {x \in table : Rank(x) % (PageSize + 1) # 0}
        /\ \A x \in own[i] \cap table : Denies(i, x)
==============================================================================
