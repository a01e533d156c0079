------------------------- MODULE MCBrowserRecording -------------------------
(* Instances of BrowserRecording: see README, "BrowserRecording".           *)
EXTENDS BrowserRecording, TLC

Bound(starts, drops, cancels, leaves, reloads) ==
  [starts |-> starts, drops |-> drops, cancels |-> cancels, leaves |-> leaves,
   reloads |-> reloads, parts |-> 0, losses |-> 0, pauses |-> 0, tests |-> 0,
   fails |-> 0, confirms |-> 0, deletes |-> 0]

\* Two starts whose consents and microphones are asked for at once, over a
\* network that goes away; two recordings and the input test share the hook;
\* recordings whose chunks are confirmed, deleted and survive a reload.
MCBounds ==
  {[Bound(2, 2, 1, 1, 1) EXCEPT !.fails = 1],
   [Bound(2, 0, 0, 1, 0) EXCEPT !.parts = 2, !.losses = 1, !.pauses = 1, !.tests = 1],
   [Bound(2, 0, 0, 1, 1) EXCEPT !.parts = 2, !.confirms = 1, !.deletes = 1],
   [Bound(1, 0, 0, 1, 1) EXCEPT !.parts = 2, !.confirms = 2, !.deletes = 2]}

StartSymmetry == Permutations(Starts)
=============================================================================
