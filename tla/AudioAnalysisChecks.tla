------------------------- MODULE AudioAnalysisChecks -------------------------
(***************************************************************************)
(* What the providers of AudioAnalysis return, compared with reference     *)
(* definitions for every input up to the bounds below; TLC evaluates it    *)
(* with the run of a module that extends this one.                         *)
(***************************************************************************)
EXTENDS Integers, Sequences, FiniteSets

LOCAL INSTANCE TLC
LOCAL INSTANCE FiniteSetsExt
LOCAL INSTANCE SequencesExt

Analysis == INSTANCE AudioAnalysis

\* Bounds: times, and the length of each input.
LOCAL Times == 0..4
LOCAL UpTo(S, n) == UNION {[1..k -> S] : k \in 1..n}
LOCAL Intervals == {i \in [start : Times, end : Times] : i.end > i.start}
LOCAL Severities == {"LOW", "MEDIUM", "HIGH"}
LOCAL With(i, field, value) == [start |-> i.start, end |-> i.end] @@ (field :> value)

LOCAL Sounds ==
  [start : {0}, end : {1, 2, 7}, level : {"silent", "low", "normal"},
   clipped : BOOLEAN, noisy : BOOLEAN]

LOCAL Apart(seq) ==
  \A i, j \in DOMAIN seq : i # j => ~Analysis!Overlaps(seq[i], seq[j])

LOCAL Recordings ==
  {[k \in DOMAIN seq |-> [start |-> seq[k][1].start, end |-> seq[k][1].end,
                         level |-> seq[k][2], clipped |-> FALSE, noisy |-> seq[k][3]]] :
     seq \in {q \in UpTo(Intervals \X {"silent", "normal"} \X BOOLEAN, 3) :
                Apart([k \in DOMAIN q |-> q[k][1]])}}

\* The report is within the bounds of its schema, and its score is the mean of
\* the frames' penalties to within a point, in spite of the roundings.
ASSUME QualityIsMeanPenalty ==
  \A frames \in UpTo(Sounds, 2) :
    LET report == Analysis!Quality(frames)
        total == Analysis!Lasting(frames)
        penalty(f) == (IF f.level = "silent" THEN 30 ELSE 0) + (IF f.level = "low" THEN 24 ELSE 0)
                      + (IF f.clipped THEN 48 ELSE 0)
                      + (IF f.noisy /\ f.level # "silent" THEN 34 ELSE 0)
        mean == FoldLeft(LAMBDA sum, f : sum + penalty(f) * Analysis!Length(f), 0, frames)
        off == report.score * total - Max({0, 100 * total - mean})
    IN  /\ {report.silence, report.low, report.clipping, report.noise, report.speech} \subseteq 0..10000
        /\ report.score \in 0..100 /\ report.precise = (report.score < 75)
        /\ off <= total /\ -off <= total

\* An instant is in a region of a kind exactly when it is in a frame of that
\* kind, two regions that touch differ, and their ratios add up.
ASSUME RegionsCoverFrames ==
  \A frames \in Recordings :
    LET regions == Analysis!VoiceRegions(frames)
        within(t, x) == x.start <= t /\ t < x.end
        kinds == {"VOICE", "SILENCE", "NOISE"}
        sum == Analysis!KindRatio(regions, "VOICE") + Analysis!KindRatio(regions, "SILENCE")
               + Analysis!KindRatio(regions, "NOISE")
    IN  /\ \A t \in Times, k \in kinds :
             (\E i \in DOMAIN regions : regions[i].kind = k /\ within(t, regions[i]))
             <=> (\E i \in DOMAIN frames : Analysis!Classify(frames[i]) = k /\ within(t, frames[i]))
        /\ \A i \in 1..(Len(regions) - 1) :
             /\ regions[i].end <= regions[i + 1].start
             /\ regions[i].end = regions[i + 1].start => regions[i].kind # regions[i + 1].kind
        /\ sum \in 9999..10001

\* A frame without a probability that is loud enough to be a candidate is a HIGH
\* overlap; otherwise a stronger probability never gives a weaker severity.
ASSUME SeverityFollowsConfidence ==
  LET rank(s) == CASE s = "LOW" -> 1 [] s = "MEDIUM" -> 2 [] s = "HIGH" -> 3
      frame(p, r) == [start |-> 0, end |-> 1, probability |-> p, rms |-> r]
      severity(f) == Analysis!OverlapRegions(<<f>>)[1].severity
  IN  /\ \A r \in 8..100 : severity(frame(Analysis!Unknown, r)) = "HIGH"
      /\ \A r \in 0..7 : Analysis!OverlapRegions(<<frame(Analysis!Unknown, r)>>) = <<>>
      /\ \A p, q \in 35..100 : p <= q => rank(severity(frame(p, 0))) <= rank(severity(frame(q, 0)))

\* Every region is assigned, the clusters used are the first ones, and a region
\* is of several speakers exactly when an instant of it is in an overlap.
ASSUME EveryRegionAssigned ==
  \A n \in 1..3 : \A regions \in UpTo(Intervals, 2), overlap \in Intervals :
    LET given == Analysis!Assignments(n, regions, <<overlap>>)
    IN  /\ Len(given) = Len(regions)
        /\ {given[i].cluster : i \in DOMAIN given} = 1..Min({n, Len(regions)})
        /\ \A i \in DOMAIN regions :
             (given[i].role = "MULTIPLE") <=>
               ((regions[i].start..(regions[i].end - 1)) \cap (overlap.start..(overlap.end - 1)) # {})

\* A quick segment contains its region, and one that overlaps nothing says so.
ASSUME QuickSegmentsContainRegions ==
  \A region, overlap \in Intervals : \A window \in 0..2, k \in {"VOICE", "NOISE"}, s \in Severities :
    LET found == Analysis!QuickSegments(<<With(region, "kind", k)>>,
                                        <<With(overlap, "severity", s)>>, window)
    IN  /\ Len(found) = 1
        /\ found[1].start <= region.start /\ region.end <= found[1].end
        /\ found[1].severity = (IF Analysis!Overlaps(region, overlap) THEN s ELSE "none")

\* The selection spends the budget on the candidates in order: what a candidate
\* gets is what the earlier ones leave of it, a selected one is never empty (its
\* schema would refuse it), and none is deferred while something is left.
ASSUME BudgetSpentInOrder ==
  \A parts \in UpTo((1..4) \X BOOLEAN, 3) : \A percent \in {1, 35, 50, 100} :
    LET segments == [i \in DOMAIN parts |->
                      [start |-> 10 * i, end |-> 10 * i + parts[i][1], confidence |-> 86,
                       severity |-> "none", confirmed |-> TRUE, decides |-> FALSE,
                       assigns |-> FALSE, requested |-> parts[i][2]]]
        found == Analysis!PreciseCandidates(segments, percent)
        budget == (Analysis!Duration(segments) * percent) \div 100
        wanted == SelectSeq(segments, LAMBDA s : s.requested)
        before(i) == Analysis!Duration(SubSeq(wanted, 1, i - 1))
    IN  /\ Len(found) = Len(wanted)
        /\ \A i \in DOMAIN found :
             /\ found[i].used = Max({0, Min({Analysis!Length(wanted[i]), budget - before(i)})})
             /\ found[i].selected = (before(i) < budget)
             /\ found[i].end > found[i].start
             /\ ~found[i].selected => found[i].end = wanted[i].end

\* The extract contains the overlap, and is refused by its schema (not a time
\* range) exactly when it would begin after the end of the recording.
ASSUME ExtractContainsOverlap ==
  \A region \in Intervals : \A padding \in 0..2, duration \in 1..5 :
    LET extract == Analysis!Extract(region, padding, duration)
    IN  /\ (extract.end > extract.start) <=> (region.start - padding < duration)
        /\ region.end <= duration => extract.start <= region.start /\ region.end <= extract.end

\* Every word lasts at least a millisecond and the last one ends the segment.
\* They follow each other without a gap from its start when it has a millisecond
\* for each; with less, two words overlap, and still none starts before another.
ASSUME WordsFillSegment ==
  \A segment \in Intervals : \A n \in 1..6 :
    LET words == Analysis!Words(segment, n)
        follow(i) == words[i].end = words[i + 1].start
    IN  /\ words[1].start = segment.start /\ words[n].end = segment.end
        /\ \A i \in 1..n : words[i].end > words[i].start
        /\ \A i \in 1..(n - 1) : words[i].start <= words[i + 1].start
        /\ (n <= Analysis!Length(segment)) <=> (\A i \in 1..(n - 1) : follow(i))

\* An item that needs no review has no high risk and may be confirmed without
\* one, once its evidence is valid; one with an overlap or without a confirmed
\* speaker never is.
ASSUME OnlySafeItemsAutomatic ==
  \A s \in [type : Analysis!StatementTypes, source : {"MANUAL", "STT"}, confirmed : BOOLEAN,
            severity : Severities \cup {"none"},
            confidence : {Analysis!Unknown, 0, 64, 65, 74, 75, 79, 80, 87, 88, 100}] :
    LET item == Analysis!ReviewItem(s)
    IN  /\ Analysis!MayConfirmAutomatically(item) <=> ~item.review
        /\ ~item.review => s.confirmed /\ s.severity = "none" /\ item.confidence >= 65
=============================================================================
