----------------------------- MODULE Pagination -----------------------------
(***************************************************************************)
(* The cursor pagination of list_projects, list_models, list_elements,     *)
(* list_annotations and list_webhook_deliveries: five copies of one query. *)
(* A client reads page after page while rows are inserted and deleted and  *)
(* change whether they match the filter.  created_at is the start of the   *)
(* inserting transaction, so rows may appear behind the cursor.            *)
(***************************************************************************)
EXTENDS Naturals, FiniteSets

CONSTANTS
    RowIds,     \* uuids, in their order
    Times,      \* created_at
    PageLimits, \* values of the parameter `limit' that clients use
    NoCursor    \* "no cursor"

ASSUME PageOK ==
    /\ RowIds \subseteq Nat /\ IsFiniteSet(RowIds)
    /\ Times \subseteq Nat
    /\ PageLimits \subseteq Nat \ {0}
    /\ NoCursor \notin RowIds

VARIABLES
    created,    \* created_at of every row
    visible,    \* committed rows that match the filter
    limit,      \* the client's page size
    cursor,     \* next_cursor of the last page: names a row, perhaps deleted
    done,       \* the last page had no next_cursor
    seen,       \* history: rows on the pages so far
    repeated,   \* history: rows that were on two pages
    steady      \* history: rows visible since the client began

pageVars == <<created, visible, limit, cursor, done, seen, repeated, steady>>

PageTypeOK ==
    /\ created \in [RowIds -> Times]
    /\ visible \subseteq RowIds
    /\ limit \in PageLimits
    /\ cursor \in RowIds \cup {NoCursor}
    /\ done \in BOOLEAN
    /\ seen \subseteq RowIds
    /\ repeated \subseteq RowIds
    /\ steady \subseteq visible

PageInit ==
    /\ created \in [RowIds -> Times]
    /\ visible \in SUBSET RowIds
    /\ limit \in PageLimits
    /\ cursor = NoCursor
    /\ done = FALSE
    /\ seen = {}
    /\ repeated = {}
    /\ steady = visible

-----------------------------------------------------------------------------
(* ORDER BY created_at DESC, id DESC: r comes before q.                    *)
Newer(r, q) == \/ created[r] > created[q]
               \/ created[r] = created[q] /\ r > q

(* The WHERE clause of a cursor.  Mutant: `<=' for the id.                 *)
AfterOrAt(r) == \/ cursor = NoCursor
                \/ cursor = r
                \/ Newer(cursor, r)
After(r) == cursor = NoCursor \/ Newer(cursor, r)

(* P is what ORDER BY and LIMIT n leave of S: its first n rows.            *)
FirstOf(P, S, n) ==
    /\ P \subseteq S
    /\ \A r \in P, q \in S \ P : Newer(r, q)
    /\ Cardinality(P) = n \/ (P = S /\ Cardinality(P) <= n)

(* The page, and whether it is the last: one row more than a page is       *)
(* fetched.  Mutant: as many as a page.                                    *)
fetch_page(rows, page) ==
    /\ FirstOf(rows, {r \in visible : After(r)}, limit)
    /\ page = rows

fetch(rows, page) ==
    /\ FirstOf(rows, {r \in visible : After(r)}, limit + 1)
    /\ FirstOf(page, rows, limit)

Last(page, r) == r \in page /\ \A q \in page \ {r} : Newer(q, r)

list_page ==
    /\ ~ done
    /\ \E rows, page \in SUBSET RowIds :
          /\ fetch(rows, page)
          /\ seen' = seen \cup page
          /\ repeated' = repeated \cup (seen \cap page)
          /\ IF Cardinality(rows) > limit
             THEN \E r \in page : /\ Last(page, r)
                                  /\ cursor' = r
                                  /\ UNCHANGED done
             ELSE done' = TRUE /\ UNCHANGED cursor
    /\ UNCHANGED <<created, visible, limit, steady>>

(* A row is committed or begins to match; is deleted or no longer matches. *)
row_appears(r) ==
    /\ visible' = visible \cup {r}
    /\ UNCHANGED <<created, limit, cursor, done, seen, repeated, steady>>

row_disappears(r) ==
    /\ visible' = visible \ {r}
    /\ steady' = steady \ {r}
    /\ UNCHANGED <<created, limit, cursor, done, seen, repeated>>

PageNext ==
    \/ list_page
    \/ \E r \in RowIds : row_appears(r) \/ row_disappears(r)

PageSpec == PageInit /\ [][PageNext]_pageVars

-----------------------------------------------------------------------------
(* "For stable pagination": no row is on two pages, whatever happens to    *)
(* the rows meanwhile, the row that the cursor names included.             *)
NoRowTwice == repeated = {}

(* When there is no next cursor, the client has seen every row that was    *)
(* there all the time.                                                     *)
SteadySeen == done => steady \subseteq seen
=============================================================================
