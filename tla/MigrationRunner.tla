--------------------------- MODULE MigrationRunner ---------------------------
(***************************************************************************)
(* packages/db/scripts/migrate.mjs as a function: a run takes the database *)
(* and the files of a release to the database it leaves.  The advisory     *)
(* lock makes runs that are started together follow each other.  A file    *)
(* has a name, which orders the files, and a checksum.                     *)
(***************************************************************************)
EXTENDS Integers, Sequences, FiniteSets, SequencesExt

\* history: what was executed, in order; schema_migrations holds the same.
Empty == [history |-> <<>>, stopped |-> "no"]

InOrder(files) == SetToSortSeq(files, LAMBDA f, g : f.name < g.name)

\* A run dies while it executes a file of dies, or executes all of them.  The
\* statements of a file and its row are one transaction.
Migrate(db, file, dies) ==
  LET applied == {f \in ToSet(db.history) : f.name = file.name}
  IN  CASE db.stopped # "no" -> db
        [] applied # {} /\ file \in applied -> db
        [] applied # {} /\ file \notin applied -> [db EXCEPT !.stopped = "modified"]
        [] applied = {} /\ file \in dies -> [db EXCEPT !.stopped = "died"]
        [] OTHER -> [db EXCEPT !.history = Append(@, file)]

RunMigrations(db, files, dies) ==
  FoldLeft(LAMBDA reached, file : Migrate(reached, file, dies),
           [db EXCEPT !.stopped = "no"], InOrder(files))
=============================================================================
