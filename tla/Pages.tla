------------------------------- MODULE Pages -------------------------------
(***************************************************************************)
(* pkg/pagination: the parameters of a page and what the reply says about  *)
(* the others.  Nothing else in the repository calls it yet.  Integers lie *)
(* between -half and half - 1, where half is 2^63 in the code.             *)
(***************************************************************************)
EXTENDS Integers, FiniteSets

DefaultPage == 1
DefaultLimit == 20
MaxLimit == 100

\* The number given for a query parameter, if any.
ParseIntDefault(given, defaultVal) ==
    IF given = {} THEN defaultVal ELSE CHOOSE n \in given : TRUE

\* Signed integers overflow.
Wrap(n, half) == ((n + half) % (2 * half)) - half

\* The limit is kept between 1 and MaxLimit, the page only above 0: a page far
\* out makes the product overflow.
Parse(page, limit, half) ==
    LET p == ParseIntDefault(page, DefaultPage)
        l == ParseIntDefault(limit, DefaultLimit)
        pp == IF p < 1 THEN DefaultPage ELSE p
        ll == IF l < 1 THEN DefaultLimit ELSE IF l > MaxLimit THEN MaxLimit ELSE l
    IN  [page |-> pp, limit |-> ll, offset |-> Wrap((pp - 1) * ll, half)]

NewResponse(params, totalCount) ==
    LET full == totalCount \div params.limit
        totalPages == IF totalCount % params.limit > 0 THEN full + 1 ELSE full
    IN  [totalPages |-> totalPages, hasMore |-> params.page < totalPages]

-----------------------------------------------------------------------------
(* Claims, for totals up to the given bound *)

\* The records on a page.
Records(params, totalCount) ==
    {i \in 0..totalCount - 1 : i >= params.offset /\ i < params.offset + params.limit}

\* Who asks for page after page while there are more sees every record, and
\* every record once; there is nothing on the pages after the last.
EveryRecordOnce(n, limit, half) ==
    \A total \in 0..n :
        LET page(k) == Parse({k}, limit, half)
            pages == NewResponse(page(1), total).totalPages
        IN  /\ \A i \in 0..total - 1 :
                 Cardinality({k \in 1..pages : i \in Records(page(k), total)}) = 1
            /\ \A k \in 1..pages + 1 :
                 /\ NewResponse(page(k), total).hasMore <=>
                      \E i \in 0..total - 1 : i >= page(k).offset + page(k).limit
                 /\ k > pages => Records(page(k), total) = {}

\* Offsets are as they should be exactly up to the page from which on they
\* overflow; from there they may be negative or point at the wrong records.
OffsetsUntilOverflow(limit, half) ==
    \A page \in 1..half - 1 :
        (Parse({page}, {limit}, half).offset = (page - 1) * limit)
            <=> (page - 1) * limit <= half - 1

=============================================================================
