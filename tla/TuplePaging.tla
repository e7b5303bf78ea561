----------------------------- MODULE TuplePaging -----------------------------
(***************************************************************************)
(* ListRelationTuples: a caller walks the table page by page with an       *)
(* opaque keyset cursor while other calls insert and delete rows.  A row is*)
(* <<created_at, id>>, its key in the order (created_at DESC, id DESC).    *)
(***************************************************************************)
EXTENDS Naturals, FiniteSets, Sequences

CONSTANTS
    Ids,            \* row ids (numbers: only their order matters)
    MaxClock,       \* bound: the clock of created_at
    RequestedSize,  \* page_size of the request; 0 when it is not given
    DefaultSize,    \* DEFAULT_PAGE_SIZE
    MaxSize         \* MAX_PAGE_SIZE

VARIABLES
    clock,      \* NOW()
    table,      \* permission_tuples (the rows the filters select)
    used,       \* ids ever given
    pc,         \* "idle", or the caller has a page to ask for: "page", or is "done"
    cursor,     \* decoded page_token: the last row of the page before, or NoCursor
    pages,      \* the pages received so far
    steady      \* rows that have been in the table since the walk began

pagingVars == <<clock, table, used, pc, cursor, pages, steady>>

NoCursor == <<>>
Rows == (0 .. MaxClock) \X Ids

TypeOK ==
    /\ clock \in 0 .. MaxClock
    /\ table \subseteq Rows /\ steady \subseteq table
    /\ used \subseteq Ids
    /\ pc \in {"idle", "page", "done"}
    /\ cursor \in Rows \cup {NoCursor}
    /\ pages \in Seq(Seq(Rows))

Init ==
    /\ clock = 0 /\ table = {} /\ used = {}
    /\ pc = "idle" /\ cursor = NoCursor /\ pages = <<>> /\ steady = {}

-----------------------------------------------------------------------------
\* page_size > 0, else the default; never more than the maximum.
PageSize ==
    LET wanted == IF RequestedSize > 0 THEN RequestedSize ELSE DefaultSize
    IN IF wanted <= MaxSize THEN wanted ELSE MaxSize

\* (created_at, id) < (created_at', id')
Before(a, b) == a[1] < b[1] \/ (a[1] = b[1] /\ a[2] < b[2])

\* (mutant) the cursor is compared by created_at alone.
BeyondByTime ==
    IF cursor = NoCursor THEN table ELSE {r \in table : r[1] < cursor[1]}

\* The rows that are left for the pages after the cursor.
Beyond ==
    IF cursor = NoCursor THEN table ELSE {r \in table : Before(r, cursor)}

\* list_page: the newest rows strictly before the cursor, newest first.
ListPage ==
    LET Newer(r) == Cardinality({x \in Beyond : x # r /\ ~Before(x, r)})
        left == Cardinality(Beyond)
    IN [i \in 1 .. (IF left <= PageSize THEN left ELSE PageSize) |->
           CHOOSE r \in Beyond : Newer(r) = i - 1]

\* A full page carries a token made of its last row; any other ends the walk.
NextPage ==
    LET page == ListPage IN
    /\ pc = "page"
    /\ pages' = Append(pages, page)
    /\ IF Len(page) = PageSize
       THEN cursor' = page[Len(page)] /\ pc' = "page"
       ELSE cursor' = NoCursor /\ pc' = "done"
    /\ UNCHANGED <<clock, table, used, steady>>

StartWalk ==
    /\ pc = "idle"
    /\ pc' = "page" /\ steady' = table
    /\ UNCHANGED <<clock, table, used, cursor, pages>>

Insert(i) ==
    /\ i \notin used
    /\ table' = table \cup {<<clock, i>>}
    /\ used' = used \cup {i}
    /\ UNCHANGED <<clock, pc, cursor, pages, steady>>

Delete(r) ==
    /\ r \in table
    /\ table' = table \ {r}
    /\ steady' = steady \ {r}
    /\ UNCHANGED <<clock, used, pc, cursor, pages>>

Tick ==
    /\ clock < MaxClock
    /\ clock' = clock + 1
    /\ UNCHANGED <<table, used, pc, cursor, pages, steady>>

Next ==
    \/ StartWalk \/ NextPage \/ Tick
    \/ \E i \in Ids : Insert(i)
    \/ \E r \in table : Delete(r)

Spec == Init /\ [][Next]_pagingVars

-----------------------------------------------------------------------------
Places(r) == {<<i, j>> \in (1 .. Len(pages)) \X (1 .. PageSize) :
                 j <= Len(pages[i]) /\ pages[i][j] = r}

\* However rows come and go between two requests, no row is returned twice,
\* and a finished walk has returned every row that was there all the time, also
\* among rows of the same created_at and across the page boundary.
WalkExact ==
    /\ \A r \in Rows : Cardinality(Places(r)) <= 1
    /\ pc = "done" => \A r \in steady : Places(r) # {}
=============================================================================
