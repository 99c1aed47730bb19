------------------------------- MODULE Schema -------------------------------
(***************************************************************************)
(* The vocabulary in which the database schema of the executor is written: *)
(* tables, check constraints, and the DDL and data statements Alembic      *)
(* revisions are made of (migrations/versions/).                           *)
(*                                                                         *)
(* A table has columns (TRUE: NOT NULL), check constraints, unique         *)
(* constraints, references (by their column) and indexes, each by its      *)
(* name.  db/base.py derives those names from the table's, so the prefixes *)
(* ck_<table>_, uq_<table>_ and ix_<table>_ are left out, and so are the   *)
(* column types: no revision changes one.                                  *)
(*                                                                         *)
(* A database is a schema, the rows of the tables a revision reads or      *)
(* rewrites (their watched columns only), and ok: FALSE once a statement   *)
(* failed, which rolls the whole transaction back.                         *)
(***************************************************************************)
EXTENDS Naturals, FiniteSets, SequencesExt

NULL == "NULL"
Nothing == << >>

-----------------------------------------------------------------------------
(* Tables and their check constraints.                                     *)

Columns(required, optional) ==
    [c \in required \cup optional |-> c \in required]

Check(kind, column, other, values, bound, nullable) ==
    [kind |-> kind, column |-> column, other |-> other, values |-> values,
     bound |-> bound, nullable |-> nullable]

In(c, values) == Check("in", c, c, values, 0, FALSE)
NullOrIn(c, values) == Check("in", c, c, values, 0, TRUE)
AtLeast(c, bound) == Check("at_least", c, c, {}, bound, FALSE)
NullOrAtLeast(c, bound) == Check("at_least", c, c, {}, bound, TRUE)
SameNull(c, d) == Check("same_null", c, d, {}, 0, TRUE)
\* A constraint over several columns, known by what it says.
Rule(name) == Check("rule", name, name, {}, 0, FALSE)

Ref(table, ondelete) == [to |-> table, ondelete |-> ondelete]

-----------------------------------------------------------------------------
(* Statements: Alembic's op.* calls.                                       *)

Statement(op, table, part, name, value) ==
    [op |-> op, table |-> table, part |-> part, name |-> name,
     value |-> value, default |-> NULL]

AddColumn(t, c) == Statement("add", t, "columns", c, FALSE)
AddRequired(t, c, default) ==
    [Statement("add", t, "columns", c, TRUE) EXCEPT !.default = default]
DropColumn(t, c) == Statement("drop", t, "columns", c, FALSE)
SetNotNull(t, c) == Statement("alter", t, "columns", c, TRUE)
DropNotNull(t, c) == Statement("alter", t, "columns", c, FALSE)
AddCheck(t, n, check) == Statement("add", t, "checks", n, check)
DropCheck(t, n) == Statement("drop", t, "checks", n, FALSE)
AddUnique(t, n, columns) == Statement("add", t, "uniques", n, columns)
DropUnique(t, n) == Statement("drop", t, "uniques", n, FALSE)
AddRef(t, c, to, ondelete) == Statement("add", t, "refs", c, Ref(to, ondelete))
DropRef(t, c) == Statement("drop", t, "refs", c, FALSE)
AddIndex(t, n, columns) == Statement("add", t, "indexes", n, columns)
DropIndex(t, n) == Statement("drop", t, "indexes", n, FALSE)
CreateTable(t, table) == Statement("create", t, "table", t, table)
DropTable(t) == Statement("remove", t, "table", t, FALSE)
\* op.execute: the rows of the table are rewritten by the named statement.
Sql(t, name) == Statement("sql", t, "rows", name, FALSE)

Without(f, x) == [y \in DOMAIN f \ {x} |-> f[y]]

-----------------------------------------------------------------------------
(* What PostgreSQL accepts, on the watched columns of the rows.            *)

HoldsCheck(check, row) ==
    CASE check.kind = "in" ->
            check.column \in DOMAIN row =>
                \/ row[check.column] \in check.values
                \/ check.nullable /\ row[check.column] = NULL
      [] check.kind = "same_null" ->
            {check.column, check.other} \subseteq DOMAIN row =>
                (row[check.column] = NULL) = (row[check.other] = NULL)
      [] check.kind = "rule" /\ check.column = "OutboxContent" ->
            \/ /\ row["destination"] = "EVENTS"
               /\ row["execution_event_id"] # NULL
               /\ row["payload"] = NULL
            \/ /\ row["destination"] = "WORK"
               /\ row["execution_event_id"] = NULL
               /\ row["payload"] # NULL
      [] OTHER -> TRUE            \* about columns that no row here has

\* The primary key of a row: its id, but for the two tables of 0006.
Key(row) ==
    row[CASE "id" \in DOMAIN row -> "id"
          [] "execution_step_attempt_id" \in DOMAIN row ->
                "execution_step_attempt_id"
          [] OTHER -> "execution_id"]

UniqueIn(columns, rows) ==
    \A r, q \in rows :
        \/ Key(r) = Key(q)
        \/ ~ columns \subseteq DOMAIN r
        \/ \E c \in columns : r[c] = NULL \/ r[c] # q[c]

AcceptsRows(schema, rows) ==
    \A t \in DOMAIN rows \cap DOMAIN schema :
        /\ \A r \in rows[t] :
            /\ \A c \in DOMAIN r : schema[t].columns[c] => r[c] # NULL
            /\ \A n \in DOMAIN schema[t].checks :
                    HoldsCheck(schema[t].checks[n], r)
            /\ \A c \in DOMAIN schema[t].refs \cap DOMAIN r :
                    \/ r[c] = NULL
                    \/ schema[t].refs[c].to \notin DOMAIN rows   \* no rows here
                    \/ \E q \in rows[schema[t].refs[c].to] : Key(q) = r[c]
        /\ \A n \in DOMAIN schema[t].uniques :
                UniqueIn(schema[t].uniques[n], rows[t])

-----------------------------------------------------------------------------
(* The effect of one statement.  Dropping what is not there, or adding     *)
(* what is, fails, and so does a constraint that a row does not satisfy.   *)
(* A dropped column takes its constraints and indexes with it.             *)

DropInvolved(table, c) ==
    [columns |-> Without(table.columns, c),
     checks |-> [n \in {m \in DOMAIN table.checks :
                    c \notin {table.checks[m].column, table.checks[m].other}}
                        |-> table.checks[n]],
     uniques |-> [n \in {m \in DOMAIN table.uniques :
                    c \notin table.uniques[m]} |-> table.uniques[n]],
     refs |-> Without(table.refs, c),
     indexes |-> [n \in {m \in DOMAIN table.indexes :
                    c \notin table.indexes[m]} |-> table.indexes[n]]]

ChangedTable(table, s) ==
    CASE s.op \in {"add", "alter"} ->
            [table EXCEPT ![s.part] = (s.name :> s.value) @@ table[s.part]]
      [] s.op = "drop" /\ s.part = "columns" -> DropInvolved(table, s.name)
      [] s.op = "drop" /\ s.part # "columns" ->
            [table EXCEPT ![s.part] = Without(table[s.part], s.name)]
      [] OTHER -> table

ChangedSchema(schema, s) ==
    CASE s.op = "create" -> (s.table :> s.value) @@ schema
      [] s.op = "remove" -> Without(schema, s.table)
      [] OTHER -> [schema EXCEPT ![s.table] = ChangedTable(schema[s.table], s)]

\* The statement names what it may name.
Applicable(schema, s) ==
    CASE s.op = "create" -> s.table \notin DOMAIN schema
      [] s.op \in {"remove", "sql"} -> s.table \in DOMAIN schema
      [] s.op = "add" -> /\ s.table \in DOMAIN schema
                         /\ s.name \notin DOMAIN schema[s.table][s.part]
      [] OTHER -> /\ s.table \in DOMAIN schema
                  /\ s.name \in DOMAIN schema[s.table][s.part]
=============================================================================
