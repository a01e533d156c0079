-------------------------- MODULE MCMeetingContent --------------------------
(* A small instance of MeetingContent for TLC: see README, section 3. *)
EXTENDS MeetingContentRefinement

CONSTANTS b1, b2, k1

SaveOf(d, n, b, k) == [doc |-> d, base |-> n, body |-> b, key |-> k]

\* First saves and saves from version 1, with the one key and without; the key is
\* used for a first save, for another payload of the same document, and for the
\* other document.
MCRequests ==
  {SaveOf("transcript", 0, b1, k1), SaveOf("transcript", 0, b2, NoKey),
   SaveOf("transcript", 1, b2, k1), SaveOf("transcript", 1, b1, NoKey),
   SaveOf("minutes", 0, b1, k1)}
=============================================================================
