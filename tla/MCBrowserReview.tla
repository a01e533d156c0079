-------------------------- MODULE MCBrowserReview --------------------------
(* Instances of BrowserReview: see README, "BrowserReview".                *)
EXTENDS BrowserReview, AudioAnalysisChecks

MCWords == {"decide", "do", "ok", "okay", "_", "new"}
MCKindOf == [w \in MCWords |-> CASE w = "decide" -> "DECISION" [] w = "do" -> "ACTION_ITEM"
                                 [] OTHER -> "none"]
MCNames == {"A", "B"}
MCTexts == {<<"decide">>, <<"do">>, <<"ok">>}

Segment(id, text, name, overlap) ==
  [id |-> id, raw |-> text, normalized |-> text, edited |-> text, speaker |-> Speaker(name),
   status |-> "UNCONFIRMED", overlap |-> overlap, manual |-> FALSE]

\* Two sentences of one speaker, one of them a decision; three of two speakers,
\* one a decision spoken over another voice.
MCTranscripts ==
  {<<Segment(1, <<"decide", "_", "okay">>, "A", "none"), Segment(2, <<"okay">>, "A", "none")>>,
   <<Segment(1, <<"ok">>, "A", "none"), Segment(2, <<"decide">>, "B", "HIGH"),
     Segment(3, <<"do">>, "A", "none")>>}

MCImports ==
  {<<[term |-> "ok", aliases |-> <<"okay", "okay", "_">>]>>,
   <<[term |-> "decide", aliases |-> <<"ok", "do">>], [term |-> "ok", aliases |-> <<"okay">>]>>}

Bound(e, s, j, t, c) ==
  [edits |-> e, speakers |-> s, judgements |-> j, terms |-> t, changes |-> c]

MCBounds ==
  {Bound(0, 2, 3, 0, 0), Bound(1, 1, 3, 0, 0), Bound(0, 3, 0, 0, 0), Bound(1, 0, 0, 2, 1),
   Bound(0, 2, 1, 0, 1)}
=============================================================================
