-------------------------- MODULE MCEditorSession --------------------------
(* Instances of EditorSession: see README, "EditorSession".                *)
EXTENDS EditorSession, TLC

Session(d, s, t, k, l, p) ==
  [doc |-> d, saves |-> s, texts |-> t, keys |-> k, losses |-> l, pages |-> p]

\* Minutes whose saves lose both answers; a transcript whose page is reopened;
\* a transcript with two saves in flight at once.
MCSessions == {Session("minutes", 1, 2, 3, 2, 2), Session("transcript", 1, 2, 1, 1, 2),
               Session("transcript", 2, 2, 2, 0, 1)}

SaveSymmetry == Permutations(Saves)

=============================================================================
