------------------------ MODULE MigrationRunnerChecks ------------------------
(***************************************************************************)
(* What MigrationRunner leaves behind, for every small release; TLC        *)
(* evaluates it with the run of a module that extends this one.            *)
(***************************************************************************)
EXTENDS Integers, Sequences, FiniteSets

LOCAL INSTANCE SequencesExt
Migration == INSTANCE MigrationRunner

\* Bound: releases of up to four files, each in two versions.
LOCAL Releases ==
  {{[name |-> n, sum |-> sums[n]] : n \in names} :
     names \in SUBSET (1..4), sums \in [1..4 -> {"a", "b"}]}

\* However many runs die, at whatever file, the runs that follow bring the
\* database to where one undisturbed run does: every file once and in order.
ASSUME InterruptedRunsResume ==
  \A files \in Releases : \A dies, again \in SUBSET files :
    LET first == Migration!RunMigrations(Migration!Empty, files, dies)
        second == Migration!RunMigrations(first, files, again)
    IN  /\ IsPrefix(first.history, second.history)
        /\ IsPrefix(second.history, Migration!InOrder(files))
        /\ Migration!RunMigrations(second, files, {})
             = Migration!RunMigrations(Migration!Empty, files, {})
        /\ Migration!RunMigrations(Migration!Empty, files, {}).history = Migration!InOrder(files)

\* A later release adds its files after the ones applied, also those whose names
\* come before; it stops at the first applied file that it has changed, after
\* the new files before that, and an applied file that it lacks goes unnoticed.
ASSUME LaterReleaseAdds ==
  \A old, new \in Releases :
    LET db == Migration!RunMigrations(Migration!Empty, old, {})
        after == Migration!RunMigrations(db, new, {})
        changed == {f \in new : \E g \in old : g.name = f.name /\ g # f}
        added == {f \in new : (\A g \in old : g.name # f.name)
                              /\ (\A c \in changed : f.name < c.name)}
    IN  /\ after.history = db.history \o Migration!InOrder(added)
        /\ after.stopped = (IF changed = {} THEN "no" ELSE "modified")
=============================================================================
