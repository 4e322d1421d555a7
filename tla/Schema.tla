------------------------------- MODULE Schema -------------------------------
(***************************************************************************)
(* A database schema as four sets, and what the operations of a migration  *)
(* (alembic.op) make of it.  Types, lengths and defaults are left out.     *)
(***************************************************************************)
EXTENDS Integers, Sequences

(* columns and required: pairs of a table and a column, required being the *)
(* NOT NULL ones; indexes: [table, columns, unique]; references: foreign   *)
(* keys [table, column, target, rule].                                     *)
EmptySchema == [columns |-> {}, required |-> {}, indexes |-> {}, references |-> {}]

Of(table, names) == {table} \X names

Index(table, names)       == [table |-> table, columns |-> names, unique |-> FALSE]
UniqueIndex(table, names) == [table |-> table, columns |-> names, unique |-> TRUE]

Reference(table, column, target, rule) ==
  [table |-> table, column |-> column, target |-> target, rule |-> rule]

(* The operations of one upgrade() or downgrade(). *)
NoChange ==
  [ required     |-> {},     \* columns added NOT NULL
    optional     |-> {},     \* columns added nullable
    tightened    |-> {},     \* columns altered to NOT NULL
    dropped      |-> {},     \* columns dropped
    drop_tables  |-> <<>>,   \* tables dropped, in order
    indexed      |-> {},     \* indexes created
    unindexed    |-> {},     \* indexes dropped
    references   |-> {} ]    \* foreign keys of created tables

Tables(s) == {c[1] : c \in s.columns}

DropsTable(change, t) == \E i \in DOMAIN change.drop_tables : change.drop_tables[i] = t

ColumnsAfter(s, change) ==
  {c \in s.columns \cup change.required \cup change.optional :
     c \notin change.dropped /\ ~DropsTable(change, c[1])}

(* PostgreSQL drops an index or a foreign key with any of its columns. *)
Changed(s, change) ==
  LET columns == ColumnsAfter(s, change)
  IN  [ columns    |-> columns,
        required   |-> (s.required \cup change.required \cup change.tightened) \cap columns,
        indexes    |-> {x \in (s.indexes \ change.unindexed) \cup change.indexed :
                          \A i \in DOMAIN x.columns : <<x.table, x.columns[i]>> \in columns},
        references |-> {f \in s.references \cup change.references :
                          <<f.table, f.column>> \in columns} ]

(* PostgreSQL refuses to add what exists and to drop what does not, and to *)
(* drop a table another one still refers to.                               *)
Accepted(s, change) ==
  LET added == change.required \cup change.optional
      after == ColumnsAfter(s, change)
  IN  /\ added \cap s.columns = {}
      /\ change.dropped \subseteq s.columns
      /\ change.tightened \subseteq after
      /\ change.unindexed \subseteq s.indexes
      /\ change.indexed \cap s.indexes = {}
      /\ \A x \in change.indexed : \A i \in DOMAIN x.columns :
           <<x.table, x.columns[i]>> \in s.columns \cup added
      /\ \A f \in change.references : f.target \in {c[1] : c \in after}
      /\ \A i \in DOMAIN change.drop_tables :
           /\ change.drop_tables[i] \in Tables(s)
           /\ \A f \in s.references :
                f.target = change.drop_tables[i] =>
                  \E k \in 1 .. i : f.table = change.drop_tables[k]
=============================================================================
