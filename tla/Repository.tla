----------------------------- MODULE Repository -----------------------------
(***************************************************************************)
(* The tables behind AbstractRepoService (libs/database).  A table is a    *)
(* function from the serial ids of the rows that exist to the rows.  Every *)
(* operator below is the effect of ONE statement, which PostgreSQL         *)
(* executes atomically; what the service does between two statements is    *)
(* interleaved with the other handlers of the process.                     *)
(***************************************************************************)
EXTENDS Naturals

\* What findOne answers when no row matches: serial ids start at 1.
Null == 0

NoRows == [id \in {} |-> Null]

Lowest(ids) == CHOOSE i \in ids : \A j \in ids : i <= j

\* findOne({ where }) on an entity with eager relations: TypeORM selects the
\* DISTINCT ids of the matching rows ordered by id, LIMIT 1, then that row.
FindOne(ids) == IF ids = {} THEN Null ELSE Lowest(ids)

\* create(entity): INSERT of a row under the next value of the serial.
Insert(table, id, row) ==
  [i \in DOMAIN table \cup {id} |-> IF i = id THEN row ELSE table[i]]

\* The UPDATE of findOneAndUpdate(where, partialEntity): it changes EVERY row
\* that matches, not only the first.  The partial entities set one column.
Update(table, ids, column, value) ==
  [i \in DOMAIN table |->
     IF i \in ids THEN [table[i] EXCEPT ![column] = value] ELSE table[i]]

\* findOneAndDelete(where): DELETE of every matching row; none is a success.
Delete(table, ids) == [i \in DOMAIN table \ ids |-> table[i]]
=============================================================================
