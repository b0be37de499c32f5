----------------------------- MODULE Pagination -----------------------------
(***************************************************************************)
(* Keyset pagination of shared/src/db/pagination_support: a page is the    *)
(* limit rows on one side of a cursor, and one row more is fetched to see  *)
(* whether there is another page.  Ids are UUIDv7 and grow with the time   *)
(* of insertion; here they are numbers.                                    *)
(***************************************************************************)
EXTENDS Integers, Sequences, SequencesExt

CONSTANT NoCursor

DefaultLimit == 20
MaxLimit     == 100

\* PaginationQuery::into_params, of a query that may leave anything out
into_params(query) ==
    LET limit == IF query.limit = NoCursor THEN DefaultLimit ELSE query.limit
    IN  [limit     |-> IF limit > MaxLimit THEN MaxLimit ELSE limit,
         cursor    |-> query.cursor,
         direction |-> IF query.direction = NoCursor THEN "forward" ELSE query.direction]

\* keyset_paginate: the ids of the rows the query returns, of those that
\* satisfy the rest of its WHERE clause.
keyset_paginate(params, ids) ==
    LET forward == params.direction = "forward"
        beyond  == {i \in ids : params.cursor = NoCursor
                                    \/ IF forward THEN i > params.cursor ELSE i < params.cursor}
        sorted  == SetToSortSeq(beyond, LAMBDA a, b : IF forward THEN a < b ELSE a > b)
    IN  SubSeq(sorted, 1, IF Len(sorted) < params.limit + 1 THEN Len(sorted) ELSE params.limit + 1)

First(page) == IF page = <<>> THEN NoCursor ELSE Head(page)
Final(page) == IF page = <<>> THEN NoCursor ELSE Last(page)

\* Seeded defect: the extra row of a backward page is taken from the wrong end.
get_cursors_ReversedFirst(params, rows) ==
    LET has_more == Len(rows) > params.limit
        turned   == IF params.direction = "backward" THEN Reverse(rows) ELSE rows
        items    == IF has_more THEN Front(turned) ELSE turned
    IN  IF params.direction = "forward"
        THEN [items |-> items,
              next  |-> IF has_more THEN Final(items) ELSE NoCursor,
              prev  |-> IF params.cursor # NoCursor THEN First(items) ELSE NoCursor]
        ELSE [items |-> items,
              next  |-> Final(items),
              prev  |-> IF has_more THEN First(items) ELSE NoCursor]

\* get_cursors: drops the extra row, turns a backward page round, and says
\* where the neighbouring pages begin.
get_cursors(params, rows) ==
    LET has_more == Len(rows) > params.limit
        kept     == IF has_more THEN Front(rows) ELSE rows
        items    == IF params.direction = "backward" THEN Reverse(kept) ELSE kept
    IN  IF params.direction = "forward"
        THEN [items |-> items,
              next  |-> IF has_more THEN Final(items) ELSE NoCursor,
              prev  |-> IF params.cursor # NoCursor THEN First(items) ELSE NoCursor]
        ELSE [items |-> items,
              next  |-> Final(items),
              prev  |-> IF has_more THEN First(items) ELSE NoCursor]

Page(params, ids) == get_cursors(params, keyset_paginate(params, ids))

=============================================================================
