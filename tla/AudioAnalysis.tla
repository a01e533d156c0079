---------------------------- MODULE AudioAnalysis ----------------------------
(***************************************************************************)
(* The deterministic analysis of a recording and of its transcript:        *)
(* packages/ai/src/deterministic.ts, the copy of its quality report in the *)
(* browser (browser-recording.ts) and the rules of packages/domain that    *)
(* judge the result.  Each provider is a function of its input.            *)
(*                                                                         *)
(* Times are milliseconds; the ratios of the reports are in units of       *)
(* 1/10000, as they are rounded; confidences and volumes are percent.      *)
(* A frame's volume is only compared with two thresholds, so it is         *)
(* "silent", "low" or "normal"; its peak clips or not, its zero crossings  *)
(* are noise or not.  A text is what the patterns of the code find in it.  *)
(***************************************************************************)
EXTENDS Integers, Sequences, FiniteSets, FiniteSetsExt, SequencesExt, TLC

Length(x) == x.end - x.start
Duration(items) == FoldLeft(LAMBDA sum, x : sum + Length(x), 0, items)
Overlaps(a, b) == a.start < b.end /\ a.end > b.start

\* Math.round of value / total * 10000.
Ratio(value, total) == IF total <= 0 THEN 0 ELSE (20000 * value + total) \div (2 * total)

-----------------------------------------------------------------------------
(* The quality report.                                                     *)

Silent(f) == f.level = "silent"
Low(f) == f.level = "low"
Clipped(f) == f.clipped
Noisy(f) == ~Silent(f) /\ f.noisy

\* A frame lasts at least 1 ms.
Lasting(frames) == FoldLeft(LAMBDA sum, f : sum + Max({1, Length(f)}), 0, frames)

Share(frames, counted) == Ratio(Lasting(SelectSeq(frames, LAMBDA f : f \in counted)), Lasting(frames))

\* Math.round, within 0 and 100.
Score(silence, low, clipping, noise) ==
  LET points == 1000000 - 30 * silence - 24 * low - 48 * clipping - 34 * noise
  IN  Max({0, Min({100, (points + 5000) \div 10000})})

Quality(frames) ==
  LET silence == Share(frames, {f \in ToSet(frames) : Silent(f)})
      low == Share(frames, {f \in ToSet(frames) : Low(f)})
      clipping == Share(frames, {f \in ToSet(frames) : Clipped(f)})
      noise == Share(frames, {f \in ToSet(frames) : Noisy(f)})
      score == Score(silence, low, clipping, noise)
  IN  [silence |-> silence, low |-> low, clipping |-> clipping, noise |-> noise,
       speech |-> Max({0, 10000 - silence - noise}),
       score |-> score, precise |-> score < 75]

-----------------------------------------------------------------------------
(* Voice regions, overlaps, speakers.                                      *)

Classify(f) ==
  CASE f.level = "silent" -> "SILENCE" [] Noisy(f) -> "NOISE" [] OTHER -> "VOICE"

\* A frame extends the region before it when that ends where the frame starts.
AddFrame(regions, f) ==
  LET joins == regions # <<>> /\ Last(regions).kind = Classify(f) /\ Last(regions).end = f.start
      region == [start |-> f.start, end |-> f.end, kind |-> Classify(f)]
  IN  IF joins THEN [regions EXCEPT ![Len(regions)].end = f.end] ELSE Append(regions, region)

VoiceRegions(frames) == FoldLeft(AddFrame, <<>>, SortSeq(frames, LAMBDA a, b : a.start < b.start))

KindRatio(regions, kind) ==
  Ratio(Duration(SelectSeq(regions, LAMBDA r : r.kind = kind)), Duration(regions))

\* A frame may come without a probability; then its volume decides.
Unknown == -1
OverlapCandidate(f) == IF f.probability = Unknown THEN f.rms >= 8 ELSE f.probability >= 35
OverlapConfidence(f) ==
  IF f.probability = Unknown THEN Min({95, 40 + 5 * f.rms}) ELSE f.probability
Severity(confidence) ==
  CASE confidence >= 80 -> "HIGH" [] confidence \in 55..79 -> "MEDIUM" [] OTHER -> "LOW"

OverlapRegions(frames) ==
  LET found == SelectSeq(frames, OverlapCandidate)
  IN  [i \in DOMAIN found |->
        [start |-> found[i].start, end |-> found[i].end,
         severity |-> Severity(OverlapConfidence(found[i]))]]

\* The regions go to the speakers in turn; several speak where one overlaps.
Assignments(expected, regions, overlapped) ==
  LET count == Max({1, Min({8, expected})})
  IN  [i \in DOMAIN regions |->
        [cluster |-> ((i - 1) % count) + 1,
         role |-> IF \E o \in ToSet(overlapped) : Overlaps(o, regions[i])
                    THEN "MULTIPLE" ELSE "PRIMARY"]]

-----------------------------------------------------------------------------
(* Transcription.                                                          *)

\* The regions with a voice, or the first one; a segment takes the severity of
\* the first overlap that it meets, and some context on both sides.
QuickSegments(regions, overlapped, window) ==
  LET voiced == SelectSeq(regions, LAMBDA r : r.kind = "VOICE")
      source == IF voiced = <<>> THEN SubSeq(regions, 1, 1) ELSE voiced
      hits(r) == SelectSeq(overlapped, LAMBDA o : Overlaps(r, o))
  IN  [i \in DOMAIN source |->
        [start |-> Max({0, source[i].start - window}), end |-> source[i].end + window,
         severity |-> IF hits(source[i]) = <<>> THEN "none" ELSE hits(source[i])[1].severity]]

Reasons(s) ==
  UNION {IF s.confidence < 70 THEN {"LOW_STT_CONFIDENCE"} ELSE {},
         IF s.severity \in {"MEDIUM", "HIGH"} THEN {"OVERLAP_MEDIUM_HIGH"} ELSE {},
         IF s.confirmed THEN {} ELSE {"LOW_SPEAKER_CONFIDENCE"},
         IF s.decides THEN {"DECISION_CANDIDATE"} ELSE {},
         IF s.assigns THEN {"ASSIGNEE_DEADLINE_CANDIDATE"} ELSE {},
         IF s.requested THEN {"USER_REQUESTED"} ELSE {}}

\* Segments with a reason for a precise analysis share a budget, in order.
Select(budget, chosen, s) ==
  LET spent == FoldLeft(LAMBDA sum, c : sum + c.used, 0, chosen)
      used == IF spent < budget THEN Min({Length(s), budget - spent}) ELSE 0
  IN  IF Reasons(s) = {} THEN chosen
      ELSE Append(chosen, [start |-> s.start, used |-> used,
                           end |-> IF spent < budget THEN s.start + used ELSE s.end,
                           selected |-> spent < budget])

PreciseCandidates(segments, percent) ==
  LET budget == (Duration(segments) * percent) \div 100
  IN  FoldLeft(LAMBDA chosen, s : Select(budget, chosen, s), <<>>, segments)

\* The extract around an overlap that is separated into two tracks.
Extract(region, padding, duration) ==
  [start |-> Max({0, region.start - padding}), end |-> Min({duration, region.end + padding})]

\* Forced alignment: the n words of a segment share its time, each at least 1 ms.
Words(segment, n) ==
  LET at(i) == segment.start + (Length(segment) * i) \div n
  IN  [i \in 1..n |-> [start |-> at(i - 1), end |-> Max({at(i - 1) + 1, at(i)})]]

-----------------------------------------------------------------------------
(* The review items found in a transcript.                                 *)

StatementTypes == {"DECISION", "ACTION_ITEM", "RISK", "QUESTION", "BACKGROUND"}
ReviewTypes == {"PROPOSAL", "RISK", "DECISION", "DEFERRED", "REJECTED", "ACTION_ITEM", "OPEN_QUESTION"}

Threshold(type) ==
  CASE type = "DECISION" -> 88 [] type = "ACTION_ITEM" -> 80
    [] type \in {"PROPOSAL", "RISK", "OPEN_QUESTION"} -> 75 [] OTHER -> 65

Risk(confidence) ==
  CASE confidence < 65 -> "HIGH" [] confidence \in 65..79 -> "MEDIUM" [] OTHER -> "LOW"

ReviewItem(s) ==
  LET heard == IF s.confidence = Unknown THEN IF s.source = "MANUAL" THEN 98 ELSE 72
                                         ELSE s.confidence
      overlap == CASE s.severity = "HIGH" -> 38 [] s.severity = "MEDIUM" -> 68 [] OTHER -> 100
      speaker == IF s.confirmed THEN 100 ELSE 45
      confidence == Min({heard, overlap, speaker})
  IN  [type |-> s.type, confidence |-> confidence, audioRisk |-> Risk(heard),
       speakerRisk |-> IF s.confirmed THEN "LOW" ELSE "HIGH",
       overlapRisk |-> IF s.severity \in {"HIGH", "MEDIUM"} THEN s.severity ELSE "LOW",
       review |-> \/ s.type \in ReviewTypes \/ s.severity # "none" \/ ~s.confirmed
                  \/ confidence < Threshold(s.type)]

\* An item nobody has looked at yet whose evidence has been found valid.
MayConfirmAutomatically(item) ==
  /\ ~item.review
  /\ item.type \notin {"DECISION", "PROPOSAL"}
  /\ "HIGH" \notin {item.audioRisk, item.speakerRisk, item.overlapRisk}
  /\ item.confidence >= Threshold(item.type)
=============================================================================
