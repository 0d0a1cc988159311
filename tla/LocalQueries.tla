---------------------------- MODULE LocalQueries ----------------------------
(***************************************************************************)
(* Queries over the local rows: where clauses answered from a schema index *)
(* of IndexedDB or by a scan (web/storage/indexed-db-local-store.ts), by   *)
(* the memory stores of the three engines and by the SQLite store of the   *)
(* Swift port.  A store holds rows of typed columns; its indexes follow    *)
(* the schema of the page that opens it.                                   *)
(*                                                                         *)
(* A string is a sequence of characters, a date the instant it stands for. *)
(* A column holds values of one kind, or nothing.                          *)
(***************************************************************************)
EXTENDS Integers, FiniteSets, Sequences, Presence

LOCAL INSTANCE SequencesExt

CONSTANTS
    Key,        \* the rows: records of a table and an id
    Table,      \* the table that is queried
    Schemas,    \* the schemas that pages declare for it
    Typings,    \* kinds of column: the values the columns f and g take
    MaxRows     \* bound on the rows present at once

VARIABLES
    rows,       \* the rows store: key -> values of the columns f and g
    schema,     \* the schema of the page that has the store open
    built,      \* the schema indexes of the database
    column      \* the values of the columns

queryVars == <<rows, schema, built, column>>

Num(n)  == [k |-> "num", n |-> n, s |-> <<>>]
Bool(n) == [k |-> "bool", n |-> n, s |-> <<>>]
Date(n) == [k |-> "date", n |-> n, s |-> <<>>]
Str(s)  == [k |-> "str", n |-> 0, s |-> s]

\* JSON carries every value but a date, which it turns into its ISO string.
Wire(v) == IF v # Absent /\ v.k = "date" THEN Str(<<v.n>>) ELSE v

-----------------------------------------------------------------------------
(* Comparing and filtering.                                                *)

StrBelow(a, b) ==
    \/ a # b /\ IsPrefix(a, b)
    \/ \E i \in DOMAIN a \cap DOMAIN b : a[i] < b[i] /\ SubSeq(a, 1, i - 1) = SubSeq(b, 1, i - 1)

Sign(below, above) == IF below THEN -1 ELSE IF above THEN 1 ELSE 0

\* compare of the TypeScript stores: strings by their characters, all else by
\* number; a string and a number are neither below nor above one another.
compare(a, b) ==
    IF "str" \in {a.k, b.k}
    THEN Sign(a.k = b.k /\ StrBelow(a.s, b.s), a.k = b.k /\ StrBelow(b.s, a.s))
    ELSE Sign(a.n < b.n, a.n > b.n)

\* _compare of the Python store, on values of one kind (others raise).
_compare(a, b) ==
    IF a.k = "str" THEN Sign(StrBelow(a.s, b.s), StrBelow(b.s, a.s)) ELSE Sign(a.n < b.n, a.n > b.n)

\* compareValues of the Swift memory store, cmpValues of the SQLite store.
compareValues(a, b) == IF a.k = b.k THEN compare(a, b) ELSE 0

cmpValues(a, b) == IF a.k = b.k /\ a.k # "bool" THEN compare(a, b) ELSE 0

Within(lower, upper, c) ==
    /\ IF c.lowerOpen THEN lower > 0 ELSE lower >= 0
    /\ IF c.upperOpen THEN upper < 0 ELSE upper <= 0

\* What each matcher decides, given its comparison and its idea of sameness.
Accepts(v, c, Cmp(_, _), Same(_, _)) ==
    /\ v # Absent
    /\ CASE c.op = "equals"       -> Same(v, c.value)
         [] c.op = "above"        -> Cmp(v, c.value) > 0
         [] c.op = "aboveOrEqual" -> Cmp(v, c.value) >= 0
         [] c.op = "below"        -> Cmp(v, c.value) < 0
         [] c.op = "belowOrEqual" -> Cmp(v, c.value) <= 0
         [] c.op = "between"      -> Within(Cmp(v, c.lower), Cmp(v, c.upper), c)
         [] c.op = "startsWith"   -> v.k = "str" /\ IsPrefix(c.value.s, v.s)
         [] c.op = "anyOf"        -> \E w \in c.values : Same(v, w)

matchesClause(v, c) == Accepts(v, c, compare, LAMBDA a, b : compare(a, b) = 0)

_matches(v, c) == Accepts(v, c, _compare, LAMBDA a, b : _compare(a, b) = 0)

memoryMatches(v, c) == Accepts(v, c, compareValues, LAMBDA a, b : compareValues(a, b) = 0)

matchesWhereClause(v, c) == Accepts(v, c, cmpValues, LAMBDA a, b : a = b)

-----------------------------------------------------------------------------
(* Indexes.                                                                *)

\* The index of a field is named by it; an index of that name declared for the
\* table replaces it.
expectedSchemaIndexes(s) ==
    LET named == {x.name : x \in s.indexes}
    IN  {[name |-> f, field |-> f, unique |-> f \in s.unique] :
             f \in (s.index \cup s.unique) \ named}
        \cup s.indexes

\* The index for clauses on a field, if any: a declared one before the field's.
hasSchemaIndex(s, f) ==
    LET declared == {x.name : x \in {y \in s.indexes : y.field = f}}
    IN  IF declared # {} THEN {CHOOSE n \in declared : TRUE}
        ELSE (s.index \cup s.unique) \cap {f}

reconcileSchemaIndexes_ByName(old, s) ==
    LET expected == expectedSchemaIndexes(s)
    IN  {x \in old : \E y \in expected : x.name = y.name}
        \cup {y \in expected : \A x \in old : x.name # y.name}

\* Indexes the schema does not expect go, those that differ are created anew.
reconcileSchemaIndexes(old, s) ==
    LET expected == expectedSchemaIndexes(s)
    IN  (old \cap expected) \cup (expected \ old)

\* A unique index is keyed by table and value, and it covers deleted rows and the
\* rows of every table.
Clash(r, indexes) ==
    \E x \in indexes, i, j \in Key :
        /\ x.unique /\ i # j /\ i.table = j.table /\ r[i] # Absent /\ r[j] # Absent
        /\ r[i].cols[x.field] # Absent /\ r[i].cols[x.field] = r[j].cols[x.field]
        /\ r[i].cols[x.field].k # "bool"

\* IndexedDB orders keys of different types by type: numbers, dates, strings.
KeyType == [num |-> 1, date |-> 2, str |-> 3]

KeyBelow(a, b) ==
    \/ KeyType[a.k] < KeyType[b.k]
    \/ a.k = b.k /\ compare(a, b) < 0

Bound(lower, upper, lowerOpen, upperOpen) ==
    [lower |-> lower, upper |-> upper, lowerOpen |-> lowerOpen, upperOpen |-> upperOpen]

\* An absent bound is the end of the table.  Character 99 is U+FFFF, above all
\* others.
rangeForClause(c) ==
    CASE c.op = "equals"       -> Bound(c.value, c.value, FALSE, FALSE)
      [] c.op = "above"        -> Bound(c.value, Absent, TRUE, FALSE)
      [] c.op = "aboveOrEqual" -> Bound(c.value, Absent, FALSE, FALSE)
      [] c.op = "below"        -> Bound(Absent, c.value, FALSE, TRUE)
      [] c.op = "belowOrEqual" -> Bound(Absent, c.value, FALSE, FALSE)
      [] c.op = "between"      -> Bound(c.lower, c.upper, c.lowerOpen, c.upperOpen)
      [] c.op = "startsWith"   -> Bound(c.value, Str(Append(c.value.s, 99)), FALSE, FALSE)

InRange(v, r) ==
    /\ r.lower = Absent \/ KeyBelow(r.lower, v) \/ (~r.lowerOpen /\ r.lower = v)
    /\ r.upper = Absent \/ KeyBelow(v, r.upper) \/ (~r.upperOpen /\ r.upper = v)

\* IDBKeyRange refuses bounds that are not keys, that are the wrong way round,
\* or that are equal and open.
Refused(r) ==
    \/ \E b \in {r.lower, r.upper} \ {Absent} : b.k = "bool"
    \/ /\ r.lower # Absent /\ r.upper # Absent
       /\ KeyBelow(r.upper, r.lower) \/ (r.lower = r.upper /\ (r.lowerOpen \/ r.upperOpen))

-----------------------------------------------------------------------------
(* The store.                                                              *)

QueryInit ==
    /\ column \in Typings
    /\ rows = [k \in Key |-> Absent]
    /\ schema \in Schemas
    /\ built = expectedSchemaIndexes(schema)

\* A page opens the store with its own schema.  An upgrade that cannot build a
\* unique index over the rows there are is aborted, and the store stays shut.
OpenStore(s) ==
    LET next == reconcileSchemaIndexes(built, s)
    IN  /\ ~Clash(rows, next)
        /\ schema' = s /\ built' = next
        /\ UNCHANGED <<rows, column>>

\* One transaction for all rows: a clash in a unique index aborts all of it.
PutRows(batch) ==
    LET next == [k \in Key |-> IF k \in DOMAIN batch THEN batch[k] ELSE rows[k]]
    IN  /\ Cardinality({k \in Key : next[k] # Absent}) <= MaxRows
        /\ ~Clash(next, built)
        /\ rows' = next
        /\ UNCHANGED <<schema, built, column>>

ClearRows ==
    /\ rows' = [k \in Key |-> Absent]
    /\ UNCHANGED <<schema, built, column>>

PutSome(K) ==
    \E v \in column.f \cup {Absent}, w \in column.g \cup {Absent}, x \in BOOLEAN :
        PutRows([k \in K |-> [cols |-> [f |-> v, g |-> w], deleted |-> x]])

QueryNext ==
    \/ \E s \in Schemas : OpenStore(s)
    \/ \E K \in SUBSET Key : K # {} /\ PutSome(K)
    \/ ClearRows

-----------------------------------------------------------------------------
(* Answers.                                                                *)

getTable(r) == {k \in Key : k.table = Table /\ r[k] # Absent /\ ~r[k].deleted}

Scan(r, c, Matches(_, _)) == {k \in getTable(r) : Matches(r[k].cols[c.field], c)}

\* The rows an index finds: rows without a key in its field are not in it.
Found(f, r) ==
    {k \in getTable(rows) : /\ rows[k].cols[f] # Absent /\ rows[k].cols[f].k # "bool"
                            /\ InRange(rows[k].cols[f], r)}

\* The ranges a query reads, one for each value of anyOf.
Ranges(c) ==
    IF c.op = "anyOf" THEN {Bound(v, v, FALSE, FALSE) : v \in c.values} ELSE {rangeForClause(c)}

queryWhere(c) ==
    LET usable == {x \in built : x.name \in hasSchemaIndex(schema, c.field)}
        f == (CHOOSE x \in usable : TRUE).field
    IN  IF usable = {} THEN [ok |-> TRUE, keys |-> Scan(rows, c, matchesClause)]
        ELSE IF \E r \in Ranges(c) : Refused(r) THEN [ok |-> FALSE, keys |-> {}]
        ELSE [ok |-> TRUE, keys |-> UNION {Found(f, r) : r \in Ranges(c)}]

\* What arrives in a change file, and a clause stated over it.
Received(r) ==
    [k \in Key |-> IF r[k] = Absent THEN Absent
                   ELSE [r[k] EXCEPT !.cols = [f \in DOMAIN @ |-> Wire(@[f])]]]

Rephrased(c) ==
    [c EXCEPT !.value = Wire(@), !.lower = Wire(@), !.upper = Wire(@), !.values = {Wire(v) : v \in @}]

Clause(op, f) ==
    [op |-> op, field |-> f, value |-> Absent, lower |-> Absent, upper |-> Absent,
     lowerOpen |-> FALSE, upperOpen |-> FALSE, values |-> {}]

Ordering == {"above", "aboveOrEqual", "below", "belowOrEqual"}

\* Every clause over the values of a field.
ClausesOver(f, vals) ==
    {[Clause(op, f) EXCEPT !.value = v] : op \in Ordering \cup {"equals"}, v \in vals}
    \cup {[Clause("between", f) EXCEPT !.lower = v, !.upper = w, !.lowerOpen = x, !.upperOpen = y] :
              v, w \in vals, x, y \in BOOLEAN}
    \cup {[Clause("startsWith", f) EXCEPT !.value = v] : v \in {u \in vals : u.k = "str"}}
    \cup {[Clause("anyOf", f) EXCEPT !.values = V] : V \in SUBSET vals}

Clauses == UNION {ClausesOver(f, column[f]) : f \in {"f", "g"}}

IsBool(c) == \E v \in column[c.field] : v.k = "bool"

-----------------------------------------------------------------------------
(* Properties.                                                             *)

\* Types, and: no two indexes of the database have one name.
QueryTypeOK ==
    /\ \A k \in Key : \/ rows[k] = Absent
                      \/ \A f \in {"f", "g"} : rows[k].cols[f] \in column[f] \cup {Absent}
    /\ schema \in Schemas
    /\ \A x, y \in built : x.name = y.name => x = y

\* Whatever schemas the pages before declared, queryWhere answers from an index
\* what the scan answers.  A range that IndexedDB refuses matches no row, except
\* over booleans, which are no keys: an index makes every such clause throw.
IndexTransparent ==
    \A c \in Clauses :
        LET answer == queryWhere(c)
            scanned == Scan(rows, c, matchesClause)
        IN  IF answer.ok THEN answer.keys = scanned ELSE IsBool(c) \/ scanned = {}

\* The engines agree on the rows they share: what a device answers about its own
\* rows, each store of the other engines answers about the rows it received, for
\* the clause over the received values.  The SQLite store alone differs, where it
\* orders booleans.
EnginesAgree ==
    \A c \in Clauses :
        LET own == Scan(rows, c, matchesClause)
            theirs(M(_, _)) == Scan(Received(rows), Rephrased(c), M)
        IN  /\ own = theirs(matchesClause)
            /\ own = theirs(_matches)
            /\ own = theirs(memoryMatches)
            /\ own = theirs(matchesWhereClause) \/ (IsBool(c) /\ c.op \in Ordering \cup {"between"})

\* What queryWhere promises of every store: an index is never seen in an answer,
\* and no engine answers otherwise than the one that wrote the rows.
QueriesAgree == QueryTypeOK /\ IndexTransparent /\ EnginesAgree
=============================================================================
