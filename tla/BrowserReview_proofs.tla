------------------------ MODULE BrowserReview_proofs ------------------------
(***************************************************************************)
(* The review in the browser, for any transcripts, vocabulary and sequence *)
(* of operations.  What has to be judged is judged when its gates open;    *)
(* everything has its type; only a split takes a sentence out of the one   *)
(* cluster of its speaker; and every edit leaves its trace.                *)
(***************************************************************************)
EXTENDS BrowserReview, TLAPS, SequenceTheorems, FiniteSetTheorems,
        WellFoundedInduction

-----------------------------------------------------------------------------
(* The invariant: every sentence that calls for a judgement has its item,  *)
(* and an item is about its sentence as it stands.                         *)

WellFormed(segments) ==
  /\ segments \in Seq(ToSet(segments))
  /\ \A s \in ToSet(segments) : DOMAIN s = Fields
  /\ \A j, k \in DOMAIN segments : segments[j].id = segments[k].id => j = k

Judgements == {"PENDING", "APPROVED", "REJECTED"}
ItemFields == {"segment", "type", "content", "status", "evidence", "blockers"}

ItemFor(i, s) ==
  /\ DOMAIN i = ItemFields /\ i.status \in Judgements
  /\ i.segment = s.id /\ i.type # None /\ i.type = ClassifyReviewItem(s.edited)

\* What an item says of its sentence is true of it.
Current(i, s) == i.content = s.edited /\ i.blockers = Blockers(i.type, s, i.evidence)

Covered(segments, items) ==
  \A s \in ToSet(segments) : ClassifyReviewItem(s.edited) # None => \E i \in items : i.segment = s.id

Single(items) == \A i, j \in items : i.segment = j.segment => i = j

ItemsExist(segments, items) ==
  /\ \A i \in items : \E s \in ToSet(segments) : ItemFor(i, s)
  /\ Covered(segments, items) /\ Single(items)

ItemsCurrent(segments, items) ==
  /\ \A i \in items : \E s \in ToSet(segments) : ItemFor(i, s) /\ Current(i, s)
  /\ Covered(segments, items) /\ Single(items)

ReviewFields ==
  {"segments", "terms", "applications", "history", "clusters", "splits", "items", "completed"}

ReviewOK(r) ==
  /\ DOMAIN r = ReviewFields
  /\ WellFormed(r.segments) /\ ItemsCurrent(r.segments, r.items)
  /\ r.completed => \A i \in r.items : i.status # "PENDING"

-----------------------------------------------------------------------------
(* Segments. *)

\* A function on an initial interval is a sequence of its values.
LEMMA Sequence ==
  ASSUME NEW f, NEW n \in Nat, f = [k \in 1..n |-> f[k]]
  PROVE  f \in Seq(ToSet(f)) /\ Len(f) = n /\ DOMAIN f = 1..n
<1>1. DOMAIN f = 1..n
  OBVIOUS
<1>2. f \in [1..n -> ToSet(f)]
  BY <1>1 DEF ToSet
<1>3. QED
  BY <1>1, <1>2

\* The positions of a well-formed transcript.
LEMMA Positions ==
  ASSUME NEW t, WellFormed(t)
  PROVE  /\ Len(t) \in Nat /\ DOMAIN t = 1..Len(t) /\ t = [k \in 1..Len(t) |-> t[k]]
         /\ \A k \in 1..Len(t) : t[k] \in ToSet(t) /\ DOMAIN t[k] = Fields
<1>1. Len(t) \in Nat /\ DOMAIN t = 1..Len(t) /\ t = [k \in 1..Len(t) |-> t[k]]
  BY DEF WellFormed
<1>2. \A k \in 1..Len(t) : t[k] \in ToSet(t)
  BY <1>1 DEF ToSet
<1>3. QED
  BY <1>1, <1>2 DEF WellFormed

\* A segment is found by its id.
LEMMA Found ==
  ASSUME NEW t, WellFormed(t), NEW s \in ToSet(t)
  PROVE  Get(t, s.id) = s /\ s.id \in Ids(t)
<1>1. \A u \in ToSet(t) : u.id = s.id => u = s
  BY DEF WellFormed, ToSet
<1>2. QED
  BY <1>1 DEF Get, Ids

\* Changing the segments one by one, and none of their ids, leaves them
\* well-formed.
LEMMA Mapped ==
  ASSUME NEW t, WellFormed(t), NEW u, u = [k \in DOMAIN t |-> u[k]],
         \A k \in DOMAIN t : DOMAIN u[k] = Fields /\ u[k].id = t[k].id
  PROVE  WellFormed(u)
<1>1. Len(t) \in Nat /\ DOMAIN t = 1..Len(t)
  BY Positions
<1>2. u \in Seq(ToSet(u)) /\ DOMAIN u = DOMAIN t
  BY <1>1, Sequence
<1>3. \A s \in ToSet(u) : DOMAIN s = Fields
  BY <1>2 DEF ToSet
<1>4. \A j, k \in DOMAIN u : u[j].id = u[k].id => j = k
  BY <1>2 DEF WellFormed
<1>5. QED
  BY <1>2, <1>3, <1>4 DEF WellFormed

-----------------------------------------------------------------------------
(* What is derived from the segments. *)

\* Brought up to date, the items say of their sentences what is so.
LEMMA BlockersRefreshed ==
  ASSUME NEW r, DOMAIN r = ReviewFields, WellFormed(r.segments), ItemsExist(r.segments, r.items)
  PROVE  /\ DOMAIN RefreshReviewBlockers(r) = ReviewFields
         /\ RefreshReviewBlockers(r).segments = r.segments
         /\ RefreshReviewBlockers(r).completed = r.completed
         /\ ItemsCurrent(r.segments, RefreshReviewBlockers(r).items)
         /\ \A j \in RefreshReviewBlockers(r).items : \E i \in r.items : j.status = i.status
<1> DEFINE new(i) ==
      IF i.segment \notin Ids(r.segments) THEN i
      ELSE [i EXCEPT !.content = Get(r.segments, i.segment).edited,
                     !.blockers = Blockers(i.type, Get(r.segments, i.segment), i.evidence)]
<1>1. /\ DOMAIN RefreshReviewBlockers(r) = ReviewFields
      /\ RefreshReviewBlockers(r).segments = r.segments
      /\ RefreshReviewBlockers(r).completed = r.completed
      /\ RefreshReviewBlockers(r).items = {new(i) : i \in r.items}
  BY DEF RefreshReviewBlockers, ReviewFields
<1>2. ASSUME NEW i \in r.items
      PROVE  /\ \E s \in ToSet(r.segments) : ItemFor(new(i), s) /\ Current(new(i), s)
             /\ new(i).segment = i.segment /\ new(i).status = i.status
  <2>1. PICK s \in ToSet(r.segments) : ItemFor(i, s)
    BY DEF ItemsExist
  <2>2. i.segment \in Ids(r.segments) /\ Get(r.segments, i.segment) = s
    BY <2>1, Found DEF ItemFor
  <2>3. new(i) = [i EXCEPT !.content = s.edited, !.blockers = Blockers(i.type, s, i.evidence)]
    BY <2>2
  <2>4. DOMAIN i = ItemFields
    BY <2>1 DEF ItemFor
  <2>5. /\ DOMAIN new(i) = ItemFields /\ new(i).segment = i.segment /\ new(i).type = i.type
        /\ new(i).status = i.status /\ new(i).evidence = i.evidence
        /\ new(i).content = s.edited /\ new(i).blockers = Blockers(i.type, s, i.evidence)
    BY <2>3, <2>4 DEF ItemFields
  <2>6. ItemFor(new(i), s) /\ Current(new(i), s)
    BY <2>1, <2>5 DEF ItemFor, Current
  <2>7. QED
    BY <2>5, <2>6
<1> HIDE DEF new
<1>3. Covered(r.segments, {new(i) : i \in r.items})
  BY <1>2 DEF Covered, ItemsExist
<1>4. Single({new(i) : i \in r.items})
  BY <1>2 DEF Single, ItemsExist
<1>5. QED
  BY <1>1, <1>2, <1>3, <1>4 DEF ItemsCurrent

\* The items extracted from the segments are theirs, whatever was judged before.
LEMMA ItemsExtracted ==
  ASSUME NEW t, WellFormed(t), NEW previous, \A i \in previous : i.status \in Judgements
  PROVE  ItemsCurrent(t, ExtractReviewItems(t, previous))
<1> DEFINE old(s) == {i \in previous : i.segment = s.id /\ i.type = ClassifyReviewItem(s.edited)}
           status(s) == IF old(s) = {} THEN "PENDING" ELSE (CHOOSE i \in old(s) : TRUE).status
           evidence(s) == IF old(s) = {} THEN "PENDING" ELSE (CHOOSE i \in old(s) : TRUE).evidence
           new(s) == [segment |-> s.id, type |-> ClassifyReviewItem(s.edited), content |-> s.edited,
                      status |-> status(s), evidence |-> evidence(s),
                      blockers |-> Blockers(ClassifyReviewItem(s.edited), s, evidence(s))]
<1>1. ExtractReviewItems(t, previous) =
        {new(s) : s \in {u \in ToSet(t) : ClassifyReviewItem(u.edited) # None}}
  BY DEF ExtractReviewItems
<1>2. ASSUME NEW s \in ToSet(t), ClassifyReviewItem(s.edited) # None
      PROVE  ItemFor(new(s), s) /\ Current(new(s), s) /\ new(s).segment = s.id
  <2>1. status(s) \in Judgements
    BY DEF Judgements
  <2>2. QED
    BY <1>2, <2>1 DEF ItemFor, Current, ItemFields
<1> HIDE DEF new
<1>3. \A s, u \in ToSet(t) : s.id = u.id => s = u
  BY DEF WellFormed, ToSet
<1>4. Single({new(s) : s \in {u \in ToSet(t) : ClassifyReviewItem(u.edited) # None}})
  BY <1>2, <1>3 DEF Single
<1>5. QED
  BY <1>1, <1>2, <1>4 DEF ItemsCurrent, Covered

\* Whatever has become of the segments, deriving the rest makes a good review.
LEMMA DerivedOK ==
  ASSUME NEW r, DOMAIN r = ReviewFields, WellFormed(r.segments),
         \A i \in r.items : i.status \in Judgements
  PROVE  ReviewOK(RefreshDerived(r)) /\ RefreshDerived(r).segments = r.segments
<1>1. PICK d : d = [r EXCEPT !.clusters = RefreshedClusters(r.segments, @),
                             !.items = ExtractReviewItems(r.segments, @), !.completed = FALSE]
  OBVIOUS
<1>2. /\ DOMAIN d = ReviewFields /\ d.segments = r.segments /\ d.completed = FALSE
      /\ d.items = ExtractReviewItems(r.segments, r.items)
  BY <1>1 DEF ReviewFields
<1>3. ItemsCurrent(d.segments, d.items)
  BY <1>2, ItemsExtracted
<1>4. ItemsExist(d.segments, d.items)
  BY <1>3 DEF ItemsCurrent, ItemsExist
<1>5. RefreshDerived(r) = RefreshReviewBlockers(d)
  BY <1>1 DEF RefreshDerived
<1>6. QED
  BY <1>2, <1>4, <1>5, BlockersRefreshed DEF ReviewOK

\* The judgements of a good review.
LEMMA Judged == ASSUME NEW r, ReviewOK(r) PROVE \A i \in r.items : i.status \in Judgements
BY DEF ReviewOK, ItemsCurrent, ItemFor

\* A review begun with a well-formed transcript is good.
LEMMA CreatedOK ==
  ASSUME NEW t, WellFormed(t)
  PROVE  ReviewOK(CreateReview(t))
<1>1. ItemsCurrent(t, ExtractReviewItems(t, {}))
  BY ItemsExtracted
<1>2. QED
  BY <1>1 DEF ReviewOK, CreateReview, ReviewFields

-----------------------------------------------------------------------------
(* The operations on a review. *)

\* A patch of a segment keeps its id.
LEMMA PatchOK ==
  ASSUME NEW r, ReviewOK(r), NEW id, NEW patch, "id" \notin DOMAIN patch, NEW source
  PROVE  ReviewOK(PatchReviewSegment(r, id, patch, source))
<1> DEFINE old == Get(r.segments, id)
           new == [f \in DOMAIN old |-> IF f \in DOMAIN patch THEN patch[f] ELSE old[f]]
           t == [k \in DOMAIN r.segments |-> IF r.segments[k].id = id THEN new ELSE r.segments[k]]
<1>1. PICK d : d = [r EXCEPT !.segments = [k \in DOMAIN @ |-> IF @[k].id = id THEN new ELSE @[k]],
                             !.history = @ \o PatchEvents(old, new, source)]
  OBVIOUS
<1>2. DOMAIN r = ReviewFields /\ WellFormed(r.segments)
  BY DEF ReviewOK
<1>3. DOMAIN d = ReviewFields /\ d.segments = t /\ d.items = r.items
  BY <1>1, <1>2 DEF ReviewFields
<1>4. ASSUME NEW k \in DOMAIN r.segments
      PROVE  DOMAIN t[k] = Fields /\ t[k].id = r.segments[k].id
  <2>1. DOMAIN r.segments[k] = Fields /\ r.segments[k] \in ToSet(r.segments)
    BY <1>2, Positions
  <2>2. CASE r.segments[k].id = id
    <3>1. old = r.segments[k]
      BY <1>2, <2>1, <2>2, Found
    <3>2. DOMAIN new = Fields /\ new.id = id
      BY <2>1, <2>2, <3>1 DEF Fields
    <3>3. QED
      BY <2>2, <3>2
  <2>3. CASE r.segments[k].id # id
    BY <2>1, <2>3
  <2>4. QED
    BY <2>2, <2>3
<1>5. WellFormed(t)
  BY <1>2, <1>4, Mapped
<1>6. PatchReviewSegment(r, id, patch, source) = RefreshDerived(d)
  BY <1>1 DEF PatchReviewSegment
<1>7. QED
  BY <1>3, <1>5, <1>6, DerivedOK, Judged

\* Giving the sentences new texts keeps their ids.
LEMMA RewrittenOK ==
  ASSUME NEW r, ReviewOK(r), NEW texts, NEW source
  PROVE  /\ DOMAIN Rewritten(r, texts, source) = ReviewFields
         /\ WellFormed(Rewritten(r, texts, source).segments)
         /\ Rewritten(r, texts, source).items = r.items
<1> DEFINE t == [k \in DOMAIN r.segments |-> [r.segments[k] EXCEPT !.edited = texts[k]]]
<1>1. DOMAIN r = ReviewFields /\ WellFormed(r.segments)
  BY DEF ReviewOK
<1>2. /\ DOMAIN Rewritten(r, texts, source) = ReviewFields
      /\ Rewritten(r, texts, source).segments = t
      /\ Rewritten(r, texts, source).items = r.items
  BY <1>1 DEF Rewritten, ReviewFields
<1>3. ASSUME NEW k \in DOMAIN r.segments
      PROVE  DOMAIN t[k] = Fields /\ t[k].id = r.segments[k].id
  <2>1. DOMAIN r.segments[k] = Fields
    BY <1>1, Positions
  <2>2. QED
    BY <2>1 DEF Fields
<1>4. WellFormed(t)
  BY <1>1, <1>3, Mapped
<1>5. QED
  BY <1>2, <1>4

\* Replacing a word everywhere, and applying the dictionary, keep a review good.
LEMMA ReplaceOK ==
  ASSUME NEW r, ReviewOK(r), NEW find, NEW by
  PROVE  ReviewOK(ReplaceTranscriptText(r, find, by)) /\ ReviewOK(ApplyDictionary(r))
<1>1. ReviewOK(ReplaceTranscriptText(r, find, by))
  BY RewrittenOK, DerivedOK, Judged DEF ReplaceTranscriptText
<1>2. PICK w : w = Rewritten(r, CorrectedTexts(r.segments, r.terms), "DICTIONARY")
  OBVIOUS
<1>3. DOMAIN w = ReviewFields /\ WellFormed(w.segments) /\ w.items = r.items
  BY <1>2, RewrittenOK
<1>4. PICK d : d = [w EXCEPT !.applications = @ \o Applications(r.segments, r.terms)]
  OBVIOUS
<1>5. DOMAIN d = ReviewFields /\ WellFormed(d.segments) /\ d.items = r.items
  BY <1>3, <1>4 DEF ReviewFields
<1>6. ApplyDictionary(r) = RefreshDerived(d)
  BY <1>2, <1>4 DEF ApplyDictionary
<1>7. QED
  BY <1>1, <1>5, <1>6, DerivedOK, Judged

\* The clusters, the dictionary and the traces are nothing to the gates.
LEMMA OthersOK ==
  ASSUME NEW r, ReviewOK(r), NEW d, DOMAIN d = ReviewFields, d.segments = r.segments,
         d.items = r.items, d.completed = r.completed
  PROVE  ReviewOK(d)
BY DEF ReviewOK

\* Judging an item keeps a review good: an approval has no blockers, and
\* completes the review only when nothing is pending.
LEMMA JudgingOK ==
  ASSUME NEW r, ReviewOK(r), NEW i \in r.items, NEW action \in Judgements
  PROVE  ReviewOK(DecideReviewItem(r, i, action)) /\ ReviewOK(ValidateEvidence(r, i))
<1>1. DOMAIN r = ReviewFields /\ WellFormed(r.segments) /\ ItemsCurrent(r.segments, r.items)
  BY DEF ReviewOK
<1>2. PICK s \in ToSet(r.segments) : ItemFor(i, s) /\ Current(i, s)
  BY <1>1 DEF ItemsCurrent
<1>3. DOMAIN i = ItemFields
  BY <1>2 DEF ItemFor
<1>4. PICK decided : decided = [i EXCEPT !.status = action]
  OBVIOUS
<1>5. /\ DOMAIN decided = ItemFields /\ decided.status = action /\ decided.segment = i.segment
      /\ decided.type = i.type /\ decided.content = i.content
      /\ decided.blockers = i.blockers /\ decided.evidence = i.evidence
  BY <1>3, <1>4 DEF ItemFields
<1>6. ItemFor(decided, s) /\ Current(decided, s)
  BY <1>2, <1>5 DEF ItemFor, Current
<1>7. PICK items : items = (r.items \ {i}) \cup {decided}
  OBVIOUS
<1>8. ItemsCurrent(r.segments, items)
  <2>1. Covered(r.segments, items)
    BY <1>1, <1>5, <1>7 DEF ItemsCurrent, Covered
  <2>2. Single(items)
    BY <1>1, <1>5, <1>7 DEF ItemsCurrent, Single
  <2>3. QED
    BY <1>1, <1>6, <1>7, <2>1, <2>2 DEF ItemsCurrent
<1>9. ReviewOK(DecideReviewItem(r, i, action))
  <2>1. PICK d : d = [r EXCEPT !.items = items,
                        !.completed = items # {} /\ \A j \in items : j.status # "PENDING"]
    OBVIOUS
  <2>2. /\ DOMAIN d = ReviewFields /\ d.segments = r.segments /\ d.items = items
        /\ d.completed = (items # {} /\ \A j \in items : j.status # "PENDING")
    BY <1>1, <2>1 DEF ReviewFields
  <2>3. ReviewOK(d)
    BY <1>1, <1>8, <2>2 DEF ReviewOK
  <2>4. DecideReviewItem(r, i, action) \in {r, d}
    BY <1>4, <1>7, <2>1 DEF DecideReviewItem
  <2>5. QED
    BY <2>3, <2>4
<1>10. ReviewOK(ValidateEvidence(r, i))
  <2>1. PICK valid : valid = [i EXCEPT !.evidence = "VALID"]
    OBVIOUS
  <2>2. /\ DOMAIN valid = ItemFields /\ valid.segment = i.segment
        /\ valid.type = i.type /\ valid.status = i.status
    BY <1>3, <2>1 DEF ItemFields
  <2>3. ItemFor(valid, s)
    BY <1>2, <2>2 DEF ItemFor
  <2>4. PICK d : d = [r EXCEPT !.items = (@ \ {i}) \cup {valid}]
    OBVIOUS
  <2>5. /\ DOMAIN d = ReviewFields /\ d.segments = r.segments
        /\ d.items = (r.items \ {i}) \cup {valid} /\ d.completed = r.completed
    BY <1>1, <2>4 DEF ReviewFields
  <2>6. Covered(d.segments, d.items)
    BY <1>1, <2>2, <2>5 DEF ItemsCurrent, Covered
  <2>7. ItemsExist(d.segments, d.items)
    <3>1. Single(d.items)
      BY <1>1, <2>2, <2>5 DEF ItemsCurrent, Single
    <3>2. QED
      BY <1>1, <2>3, <2>5, <2>6, <3>1 DEF ItemsCurrent, ItemsExist
  <2>8. \A j \in d.items : \E k \in r.items : j.status = k.status
    BY <2>2, <2>5
  <2>9. ValidateEvidence(r, i) = RefreshReviewBlockers(d)
    BY <2>1, <2>4 DEF ValidateEvidence
  <2>10. PICK v : v = RefreshReviewBlockers(d)
    OBVIOUS
  <2>11. /\ DOMAIN v = ReviewFields /\ v.segments = d.segments /\ v.completed = d.completed
         /\ ItemsCurrent(d.segments, v.items)
         /\ \A j \in v.items : \E k \in d.items : j.status = k.status
    BY <1>1, <2>5, <2>7, <2>10, BlockersRefreshed
  <2>12. QED
    BY <1>1, <2>5, <2>8, <2>9, <2>10, <2>11 DEF ReviewOK
<1>11. QED
  BY <1>9, <1>10

\* A transcript from elsewhere begins a new review of what it contains.
LEMMA MergedOK ==
  ASSUME NEW r, ReviewOK(r), NEW t, WellFormed(t)
  PROVE  ReviewOK(MergeIncoming(r, t))
<1> DEFINE merged == [k \in DOMAIN t |->
      IF t[k].id \in Ids(r.segments)
        THEN [t[k] EXCEPT !.raw = Get(r.segments, t[k].id).raw,
                          !.normalized = Get(r.segments, t[k].id).normalized]
        ELSE t[k]]
<1>1. ASSUME NEW k \in DOMAIN t
      PROVE  DOMAIN merged[k] = Fields /\ merged[k].id = t[k].id
  <2>1. DOMAIN t[k] = Fields
    BY Positions
  <2>2. QED
    BY <2>1 DEF Fields
<1>2. WellFormed(merged)
  BY <1>1, Mapped
<1>3. PICK c : c = CreateReview(merged)
  OBVIOUS
<1>4. ReviewOK(c)
  BY <1>2, <1>3, CreatedOK
<1>5. PICK d : d = [c EXCEPT !.terms = r.terms, !.applications = About(r.applications, merged),
                             !.history = About(r.history, merged)]
  OBVIOUS
<1>6. /\ DOMAIN d = ReviewFields /\ d.segments = c.segments /\ d.items = c.items
      /\ d.completed = c.completed
  BY <1>4, <1>5 DEF ReviewOK, ReviewFields
<1>7. MergeIncoming(r, t) \in {r, d}
  BY <1>3, <1>5 DEF MergeIncoming
<1>8. QED
  BY <1>4, <1>6, <1>7, OthersOK

-----------------------------------------------------------------------------
(* The loop over the segments.  FoldLeft is defined by a recursive function *)
(* on the sets of positions that takes their maximum; it is defined because *)
(* what is left lies below, which is shown by taking a least counterexample. *)

Below == {p \in Nat \X Nat : p[1] < p[2]}

\* A set of numbers has a least one.
LEMMA Least ==
  ASSUME NEW S, S \subseteq Nat, S # {}
  PROVE  \E n \in S : \A m \in S : n <= m
<1>1. IsWellFoundedOn(Below, Nat)
  BY NatLessThanWellFounded DEF OpToRel, Below
<1>2. \E n \in S : \A m \in S : <<m, n>> \notin Below
  BY <1>1, WFMin
<1>3. PICK n \in S : \A m \in S : <<m, n>> \notin Below
  BY <1>2
<1>4. \A m \in S : n \in Nat /\ m \in Nat /\ ~(m < n)
  BY <1>3 DEF Below
<1>5. QED
  BY <1>4

\* The maximum of some of the first numbers is one of them, and the rest is below.
LEMMA Greatest ==
  ASSUME NEW n \in Nat, NEW s \in SUBSET (1..n), s # {}
  PROVE  Max(s) \in s /\ s \ {Max(s)} \in SUBSET (1..(Max(s) - 1))
<1> DEFINE bounds == {m \in Nat : \A k \in s : k <= m}
<1>1. n \in bounds
  OBVIOUS
<1>2. PICK m \in bounds : \A b \in bounds : m <= b
  BY <1>1, Least
<1>3. m \in s
  <2>1. SUFFICES ASSUME m \notin s PROVE FALSE
    OBVIOUS
  <2>2. PICK k \in s : TRUE
    OBVIOUS
  <2>3. \A j \in s : j \in Nat /\ j < m /\ j >= 1
    BY <2>1, <1>2
  <2>4. m - 1 \in bounds
    BY <2>2, <2>3
  <2>5. QED
    BY <1>2, <2>4
<1>4. \A k \in s : m >= k
  BY <1>2
<1>5. Max(s) \in s /\ \A k \in s : Max(s) >= k
  BY <1>3, <1>4 DEF Max
<1>6. PICK x \in s : x = Max(s) /\ \A k \in s : x >= k
  BY <1>5
<1>7. ASSUME NEW k \in s \ {x} PROVE k \in 1..(x - 1)
  <2>1. k \in Nat /\ x \in Nat /\ k >= 1 /\ x >= k /\ k # x
    BY <1>6
  <2>2. QED
    BY <2>1
<1>8. QED
  BY <1>6, <1>7

\* What a step of PatchAll makes of a review, and its loop.
PatchOne(r, s, ids, patch) ==
  IF s.id \in ids THEN PatchReviewSegment(r, s.id, patch, "USER") ELSE r

Loop(g, n, r, t, ids, patch) ==
  g = [s \in SUBSET (1..n) |->
         IF s = {} THEN r ELSE PatchOne(g[s \ {Max(s)}], t[Max(s)], ids, patch)]

\* There is a loop over any number of segments.
LEMMA LoopExists ==
  ASSUME NEW r, NEW t, NEW ids, NEW patch
  PROVE  \A n \in Nat : \E g : Loop(g, n, r, t, ids, patch)
<1> DEFINE bad == {n \in Nat : ~ \E g : Loop(g, n, r, t, ids, patch)}
<1>1. SUFFICES ASSUME bad # {} PROVE FALSE
  OBVIOUS
<1>2. PICK n \in bad : \A m \in bad : n <= m
  BY <1>1, Least
<1>3. n \in Nat /\ ~ \E g : Loop(g, n, r, t, ids, patch)
  OBVIOUS
<1> HIDE DEF bad
<1>4. CASE n = 0
  <2>1. PICK g : g = [s \in SUBSET (1..0) |-> r]
    OBVIOUS
  <2>2. \A s \in SUBSET (1..0) : s = {}
    OBVIOUS
  <2>3. Loop(g, 0, r, t, ids, patch)
    BY <2>1, <2>2 DEF Loop
  <2>4. QED
    BY <1>3, <1>4, <2>3
<1>5. CASE n # 0
  <2>1. n - 1 \in Nat /\ n - 1 \notin bad
    BY <1>2, <1>3, <1>5
  <2>2. PICK g : Loop(g, n - 1, r, t, ids, patch)
    BY <2>1 DEF bad
  <2>3. PICK h : h = [s \in SUBSET (1..n) |->
                       IF s = {} THEN r ELSE PatchOne(g[s \ {Max(s)}], t[Max(s)], ids, patch)]
    OBVIOUS
  <2>4. ASSUME NEW s \in SUBSET (1..n), s # {}
        PROVE  g[s \ {Max(s)}] = h[s \ {Max(s)}]
    <3>1. PICK u : u = s \ {Max(s)}
      OBVIOUS
    <3>2. Max(s) \in 1..n /\ u \in SUBSET (1..(Max(s) - 1))
      BY <1>3, <2>4, <3>1, Greatest
    <3>3. u \in SUBSET (1..(n - 1)) /\ u \in SUBSET (1..n)
      BY <1>3, <3>2
    <3>4. g[u] = (IF u = {} THEN r ELSE PatchOne(g[u \ {Max(u)}], t[Max(u)], ids, patch))
      BY <2>2, <3>3 DEF Loop
    <3>5. h[u] = (IF u = {} THEN r ELSE PatchOne(g[u \ {Max(u)}], t[Max(u)], ids, patch))
      BY <2>3, <3>3
    <3>6. QED
      BY <3>1, <3>4, <3>5
  <2>5. h = [s \in SUBSET (1..n) |->
               IF s = {} THEN r ELSE PatchOne(h[s \ {Max(s)}], t[Max(s)], ids, patch)]
    BY <2>3, <2>4
  <2>6. QED
    BY <1>3, <2>5 DEF Loop
<1>6. QED
  BY <1>4, <1>5

\* What a loop returns is a good review, if it began with one.
LEMMA LoopOK ==
  ASSUME NEW r, ReviewOK(r), NEW t, NEW ids, NEW patch, "id" \notin DOMAIN patch,
         NEW n \in Nat, NEW g, Loop(g, n, r, t, ids, patch)
  PROVE  \A m \in 0..n : \A s \in SUBSET (1..m) : ReviewOK(g[s])
<1> DEFINE bad == {m \in 0..n : \E s \in SUBSET (1..m) : ~ReviewOK(g[s])}
<1>1. SUFFICES ASSUME bad # {} PROVE FALSE
  OBVIOUS
<1>2. bad \subseteq Nat
  OBVIOUS
<1>3. PICK m \in bad : \A k \in bad : m <= k
  BY <1>1, <1>2, Least
<1>4. PICK s \in SUBSET (1..m) : ~ReviewOK(g[s])
  OBVIOUS
<1>5. m \in 0..n /\ s \in SUBSET (1..n)
  BY <1>3
<1>6. g[s] = IF s = {} THEN r ELSE PatchOne(g[s \ {Max(s)}], t[Max(s)], ids, patch)
  BY <1>5 DEF Loop
<1>7. s # {}
  BY <1>4, <1>6
<1>8. PICK u : u = s \ {Max(s)}
  OBVIOUS
<1>9. Max(s) \in 1..m /\ u \in SUBSET (1..(Max(s) - 1))
  BY <1>4, <1>5, <1>7, <1>8, Greatest
<1>10. Max(s) - 1 \in 0..n /\ Max(s) - 1 < m
  BY <1>5, <1>9
<1>11. ReviewOK(g[u])
  BY <1>3, <1>5, <1>9, <1>10
<1>12. ReviewOK(PatchOne(g[u], t[Max(s)], ids, patch))
  BY <1>11, PatchOK DEF PatchOne
<1>13. QED
  BY <1>4, <1>6, <1>7, <1>8, <1>12

\* Patching several segments keeps a review good.
LEMMA PatchAllOK ==
  ASSUME NEW r, ReviewOK(r), NEW ids, NEW patch, "id" \notin DOMAIN patch
  PROVE  ReviewOK(PatchAll(r, ids, patch))
<1>1. PICK n \in Nat : n = Len(r.segments) /\ DOMAIN r.segments = 1..n
  BY Positions DEF ReviewOK
<1>2. PICK g : g = CHOOSE f : Loop(f, n, r, r.segments, ids, patch)
  OBVIOUS
<1>3. Loop(g, n, r, r.segments, ids, patch)
  BY <1>2, LoopExists
<1>4. PatchAll(r, ids, patch) = g[1..n]
  BY <1>1, <1>2 DEF PatchAll, FoldLeft, MapThenFoldSet, Loop, PatchOne
<1>5. n \in 0..n /\ 1..n \in SUBSET (1..n)
  OBVIOUS
<1>6. \A m \in 0..n : \A s \in SUBSET (1..m) : ReviewOK(g[s])
  BY <1>3, LoopOK
<1>7. QED
  BY <1>4, <1>5, <1>6

\* The operations on clusters patch the segments, and then see to the clusters.
LEMMA ClustersOK ==
  ASSUME NEW r, ReviewOK(r), NEW c, NEW d, NEW name, NEW id
  PROVE  /\ ReviewOK(AssignSpeaker(r, c, name))
         /\ ReviewOK(MergeSpeakerClusters(r, c, d))
         /\ ReviewOK(SplitSpeakerCluster(r, c, id))
<1>1. ASSUME NEW n, ReviewOK(n), NEW clusters, NEW splits, NEW e,
             \/ e = [n EXCEPT !.clusters = clusters]
             \/ e = [n EXCEPT !.clusters = clusters, !.splits = splits]
      PROVE  ReviewOK(e)
  <2>1. DOMAIN n = ReviewFields
    BY <1>1 DEF ReviewOK
  <2>2. /\ DOMAIN e = ReviewFields /\ e.segments = n.segments /\ e.items = n.items
        /\ e.completed = n.completed
    BY <1>1, <2>1 DEF ReviewFields
  <2>3. QED
    BY <1>1, <2>2, OthersOK
<1>2. ASSUME NEW label, NEW status
      PROVE  "id" \notin DOMAIN [speaker |-> label, status |-> status]
  OBVIOUS
<1>3. ReviewOK(AssignSpeaker(r, c, name))
  <2>1. PICK n : n = PatchAll(r, c.segments, [speaker |-> Speaker(name), status |-> "CONFIRMED"])
    OBVIOUS
  <2>2. ReviewOK(n)
    BY <1>2, <2>1, PatchAllOK
  <2>3. \E clusters : AssignSpeaker(r, c, name) = [n EXCEPT !.clusters = clusters]
    BY <2>1 DEF AssignSpeaker
  <2>4. QED
    BY <1>1, <2>2, <2>3
<1>4. ReviewOK(MergeSpeakerClusters(r, c, d))
  <2>1. PICK status : status = IF c.participant # None THEN "CONFIRMED" ELSE "UNCONFIRMED"
    OBVIOUS
  <2>2. PICK n : n = PatchAll(r, d.segments, [speaker |-> c.label, status |-> status])
    OBVIOUS
  <2>3. ReviewOK(n)
    BY <1>2, <2>2, PatchAllOK
  <2>4. \E clusters : MergeSpeakerClusters(r, c, d) = [n EXCEPT !.clusters = clusters]
    BY <2>1, <2>2 DEF MergeSpeakerClusters
  <2>5. QED
    BY <1>1, <2>3, <2>4
<1>5. ReviewOK(SplitSpeakerCluster(r, c, id))
  <2>1. PICK label : label = <<c.label[1], c.label[2] + 1>>
    OBVIOUS
  <2>2. PICK n : n = PatchReviewSegment(r, id, [speaker |-> label, status |-> "UNCONFIRMED"], "USER")
    OBVIOUS
  <2>3. ReviewOK(n)
    BY <1>2, <2>2, PatchOK
  <2>4. \E clusters, splits :
          SplitSpeakerCluster(r, c, id) = [n EXCEPT !.clusters = clusters, !.splits = splits]
    <3>1. PICK clusters, splits :
            /\ clusters = SplitSpeakerCluster(r, c, id).clusters /\ splits = n.splits + 1
      OBVIOUS
    <3>2. QED
      BY <2>1, <2>2, <3>1 DEF SplitSpeakerCluster
  <2>5. QED
    BY <1>1, <2>3, <2>4
<1>6. QED
  BY <1>3, <1>4, <1>5

\* The dictionary is nothing to the gates.
LEMMA TermsOK ==
  ASSUME NEW r, ReviewOK(r), NEW term, NEW aliases, NEW rows
  PROVE  /\ ReviewOK(AddDictionaryTerm(r, term, aliases)) /\ ReviewOK(RemoveDictionaryTerm(r, term))
         /\ ReviewOK(ImportDictionary(r, rows))
<1>1. ASSUME NEW terms PROVE ReviewOK([r EXCEPT !.terms = terms])
  <2>1. PICK e : e = [r EXCEPT !.terms = terms]
    OBVIOUS
  <2>2. /\ DOMAIN e = ReviewFields /\ e.segments = r.segments /\ e.items = r.items
        /\ e.completed = r.completed
    BY <2>1 DEF ReviewOK, ReviewFields
  <2>3. QED
    BY <2>1, <2>2, OthersOK
<1>2. QED
  BY <1>1 DEF AddDictionaryTerm, RemoveDictionaryTerm, ImportDictionary

\* Sentences that are added and deleted leave the ids different.
LEMMA ChangedSegments ==
  ASSUME NEW t, WellFormed(t)
  PROVE  /\ \A k \in DOMAIN t : WellFormed(RemoveAt(t, k))
         /\ \A s : DOMAIN s = Fields /\ s.id \notin Ids(t) => WellFormed(Append(t, s))
         /\ \A u \in ToSet(t) : \A text :
              WellFormed([k \in DOMAIN t |->
                IF t[k].id = u.id THEN [t[k] EXCEPT !.edited = text] ELSE t[k]])
<1>1. PICK n \in Nat : n = Len(t) /\ DOMAIN t = 1..n /\ t = [k \in 1..n |-> t[k]]
  BY Positions
<1>2. \A k \in 1..n : t[k] \in ToSet(t) /\ DOMAIN t[k] = Fields
  BY <1>1, Positions
<1>3. t \in Seq(ToSet(t)) /\ \A j, k \in 1..n : t[j].id = t[k].id => j = k
  BY <1>1 DEF WellFormed
<1>4. ASSUME NEW k \in 1..n PROVE WellFormed(RemoveAt(t, k))
  <2>1. PICK u : u = RemoveAt(t, k)
    OBVIOUS
  <2>2. PICK S : S = ToSet(t) /\ \A j \in 1..n : t[j] \in S
    BY <1>2
  <2>3. PICK a, b : a = SubSeq(t, 1, k - 1) /\ b = SubSeq(t, k + 1, n)
    OBVIOUS
  <2>4. a \in Seq(S) /\ Len(a) = k - 1 /\ \A j \in 1..(k - 1) : a[j] = t[j]
    <3>1. \A j \in 1..(k - 1) : j \in 1..n
      OBVIOUS
    <3>2. 1 \in Int /\ k - 1 \in Int /\ \A j \in 1..(k - 1) : t[j] \in S
      BY <3>1, <2>2
    <3>3. a \in Seq(S) /\ (Len(a) = IF 1 <= k - 1 THEN (k - 1) - 1 + 1 ELSE 0)
          /\ \A j \in 1..((k - 1) - 1 + 1) : a[j] = t[1 + j - 1]
      BY <3>2, <2>3, SubSeqProperties
    <3>4. Len(a) = k - 1
      BY <3>3
    <3>5. \A j \in 1..(k - 1) : j \in 1..((k - 1) - 1 + 1) /\ 1 + j - 1 = j
      OBVIOUS
    <3>6. QED
      BY <3>3, <3>4, <3>5
  <2>5. b \in Seq(S) /\ Len(b) = n - k /\ \A j \in 1..(n - k) : b[j] = t[j + k]
    <3>1. \A j \in (k + 1)..n : j \in 1..n
      OBVIOUS
    <3>2. k + 1 \in Int /\ n \in Int /\ \A j \in (k + 1)..n : t[j] \in S
      BY <3>1, <2>2
    <3>3. b \in Seq(S) /\ (Len(b) = IF k + 1 <= n THEN n - (k + 1) + 1 ELSE 0)
          /\ \A j \in 1..(n - (k + 1) + 1) : b[j] = t[(k + 1) + j - 1]
      BY <3>2, <2>3, SubSeqProperties
    <3>4. Len(b) = n - k
      BY <3>3
    <3>5. \A j \in 1..(n - k) : j \in 1..(n - (k + 1) + 1) /\ (k + 1) + j - 1 = j + k
      OBVIOUS
    <3>6. QED
      BY <3>3, <3>4, <3>5
  <2>6. u = a \o b
    BY <1>1, <2>1, <2>3 DEF RemoveAt
  <2>7. u \in Seq(S) /\ Len(u) = n - 1
    <3>1. u \in Seq(S) /\ Len(u) = Len(a) + Len(b)
      BY <2>4, <2>5, <2>6, ConcatProperties
    <3>2. QED
      BY <2>4, <2>5, <3>1
  <2>8. \A j \in 1..(n - 1) : u[j] = IF j < k THEN t[j] ELSE t[j + 1]
    <3>1. ASSUME NEW j \in 1..(n - 1), j < k PROVE u[j] = t[j]
      BY <3>1, <2>3, <2>4, <2>5, <2>6
    <3>2. ASSUME NEW j \in 1..(n - 1), ~(j < k) PROVE u[j] = t[j + 1]
      <4>1. j - (k - 1) \in 1..(n - k) /\ (j - (k - 1)) + k = j + 1
        BY <3>2
      <4>2. j \in 1..(Len(a) + Len(b)) /\ ~(j <= Len(a)) /\ Len(a) = k - 1
        BY <3>2, <2>4, <2>5
      <4>3. u[j] = b[j - (k - 1)]
        BY <4>2, <2>4, <2>5, <2>6, ConcatProperties
      <4>4. QED
        BY <4>1, <4>3, <2>5
    <3>3. QED
      BY <3>1, <3>2
  <2>9. u = [j \in 1..(n - 1) |-> u[j]] /\ n - 1 \in Nat
    BY <1>1, <2>7
  <2>10. \A j \in 1..(n - 1) : u[j] \in ToSet(t)
    BY <2>7, <2>2
  <2>11. u \in Seq(ToSet(u)) /\ DOMAIN u = 1..(n - 1)
    BY <2>9, Sequence
  <2>12. \A s \in ToSet(u) : DOMAIN s = Fields
    BY <1>2, <2>10, <2>11 DEF ToSet, WellFormed
  <2>13. ASSUME NEW i \in 1..(n - 1), NEW j \in 1..(n - 1), u[i].id = u[j].id PROVE i = j
    <3>1. \E p \in 1..n : u[i] = t[p] /\ p = IF i < k THEN i ELSE i + 1
      BY <2>8
    <3>2. \E q \in 1..n : u[j] = t[q] /\ q = IF j < k THEN j ELSE j + 1
      BY <2>8
    <3>3. (IF i < k THEN i ELSE i + 1) = (IF j < k THEN j ELSE j + 1)
      BY <1>3, <2>13, <3>1, <3>2
    <3>4. QED
      BY <3>3
  <2>14. QED
    BY <2>1, <2>11, <2>12, <2>13 DEF WellFormed
<1>5. ASSUME NEW s, DOMAIN s = Fields, s.id \notin Ids(t) PROVE WellFormed(Append(t, s))
  <2>1. PICK u : u = Append(t, s)
    OBVIOUS
  <2>2. t \in Seq(ToSet(t) \cup {s}) /\ s \in ToSet(t) \cup {s}
    BY <1>1, <1>2, Sequence DEF ToSet
  <2>3. u \in Seq(ToSet(t) \cup {s}) /\ Len(u) = n + 1
    BY <1>1, <2>1, <2>2
  <2>4. u[n + 1] = s /\ \A j \in 1..n : u[j] = t[j]
    BY <1>1, <2>1, <2>2
  <2>5. u = [j \in 1..(n + 1) |-> u[j]]
    BY <2>3
  <2>6. u \in Seq(ToSet(u)) /\ DOMAIN u = 1..(n + 1)
    <3>1. n + 1 \in Nat
      OBVIOUS
    <3>2. QED
      BY <2>5, <3>1, Sequence
  <2>7. \A j \in 1..(n + 1) : j \in 1..n \/ j = n + 1
    OBVIOUS
  <2>8. \A x \in ToSet(u) : DOMAIN x = Fields
    BY <1>2, <1>5, <2>4, <2>6, <2>7 DEF ToSet
  <2>9. \A j \in 1..n : t[j].id # s.id
    BY <1>2, <1>5 DEF Ids
  <2>10. \A i, j \in 1..(n + 1) : u[i].id = u[j].id => i = j
    BY <1>3, <2>4, <2>7, <2>9
  <2>11. QED
    BY <2>1, <2>6, <2>8, <2>10 DEF WellFormed
<1>6. ASSUME NEW u \in ToSet(t), NEW text
      PROVE  WellFormed([k \in DOMAIN t |->
               IF t[k].id = u.id THEN [t[k] EXCEPT !.edited = text] ELSE t[k]])
  <2>1. PICK v : v = [k \in DOMAIN t |->
                       IF t[k].id = u.id THEN [t[k] EXCEPT !.edited = text] ELSE t[k]]
    OBVIOUS
  <2>2. \A k \in DOMAIN t : DOMAIN v[k] = Fields /\ v[k].id = t[k].id
    BY <1>1, <1>2, <2>1 DEF Fields
  <2>3. v = [k \in DOMAIN t |-> v[k]]
    BY <2>1
  <2>4. QED
    BY <2>1, <2>2, <2>3, Mapped
<1>7. QED
  BY <1>1, <1>4, <1>5, <1>6

-----------------------------------------------------------------------------
(* The theorem. *)

\* What comes from elsewhere is a transcript, whatever was clicked.
LEMMA IncomingOK ==
  ASSUME ReviewOK(review), NEW t, WellFormed(t), Incoming(t)
  PROVE  ReviewOK(review')
<1>1. CASE draft = "ready"
  BY <1>1, MergedOK DEF Incoming
<1>2. CASE draft # "ready"
  BY <1>2, CreatedOK DEF Incoming
<1>3. QED
  BY <1>1, <1>2

\* Adding, deleting and changing a sentence merge a transcript.
LEMMA ChangesOK ==
  ASSUME ReviewOK(review)
  PROVE  /\ \A s \in ToSet(review.segments) : \A text : LiveText(s, text) => ReviewOK(review')
         /\ \A s : DeleteSegment(s) => ReviewOK(review')
         /\ \A name : AddSegment(name) => ReviewOK(review')
         /\ \A t \in Transcripts : ServerTranscript(t) => ReviewOK(review')
<1>1. PICK t : t = review.segments /\ WellFormed(t)
  BY DEF ReviewOK
<1>2. ASSUME NEW s \in ToSet(t), NEW text, LiveText(s, text) PROVE ReviewOK(review')
  <2>1. PICK u : u = [k \in DOMAIN t |->
                       IF t[k].id = s.id THEN [t[k] EXCEPT !.edited = text] ELSE t[k]]
    OBVIOUS
  <2>2. WellFormed(u)
    BY <1>1, <2>1, ChangedSegments
  <2>3. Incoming(u)
    BY <1>1, <1>2, <2>1 DEF LiveText
  <2>4. QED
    BY <2>2, <2>3, IncomingOK
<1>3. ASSUME NEW s, DeleteSegment(s) PROVE ReviewOK(review')
  <2>1. PICK k \in DOMAIN t : Incoming(RemoveAt(t, k))
    BY <1>1, <1>3 DEF DeleteSegment
  <2>2. WellFormed(RemoveAt(t, k))
    BY <1>1, ChangedSegments
  <2>3. QED
    BY <2>1, <2>2, IncomingOK
<1>4. ASSUME NEW name, AddSegment(name) PROVE ReviewOK(review')
  <2>1. PICK id : id \notin Ids(t) /\ Incoming(Append(t, AddedSegment(id, name)))
    BY <1>1, <1>4 DEF AddSegment
  <2>2. PICK s : s = AddedSegment(id, name)
    OBVIOUS
  <2>3. DOMAIN s = Fields /\ s.id = id
    BY <2>2 DEF AddedSegment, Fields
  <2>4. WellFormed(Append(t, s))
    BY <1>1, <2>1, <2>3, ChangedSegments
  <2>5. QED
    BY <2>1, <2>2, <2>4, IncomingOK
<1>5. ASSUME NEW u \in Transcripts, ServerTranscript(u) PROVE ReviewOK(review')
  <2>1. WellFormed(u)
    BY TranscriptsWellFormed DEF WellFormed
  <2>2. QED
    BY <1>5, <2>1, IncomingOK DEF ServerTranscript
<1>6. QED
  BY <1>1, <1>2, <1>3, <1>4, <1>5

\* A sentence's own buttons patch it.
LEMMA EditsOK ==
  ASSUME ReviewOK(review), NEW s
  PROVE  /\ \A text : EditText(s, text) => ReviewOK(review')
         /\ \A name : EditSpeaker(s, name) => ReviewOK(review')
         /\ ClickReprocess(s) => ReviewOK(review')
         /\ ClickSplit(s) => ReviewOK(review')
<1>1. ASSUME NEW text, EditText(s, text) PROVE ReviewOK(review')
  <2>1. PICK patch : /\ review' = PatchReviewSegment(review, s.id, patch, "USER")
                     /\ \/ patch = [raw |-> text, normalized |-> text, edited |-> text]
                        \/ patch = [edited |-> text]
    BY <1>1 DEF EditText, Commit
  <2>2. "id" \notin DOMAIN patch
    BY <2>1
  <2>3. QED
    BY <2>1, <2>2, PatchOK
<1>2. ASSUME NEW name, EditSpeaker(s, name) PROVE ReviewOK(review')
  <2>1. PICK patch : /\ review' = PatchReviewSegment(review, s.id, patch, "USER")
                     /\ patch = [speaker |-> Speaker(name), status |-> "CONFIRMED"]
    BY <1>2 DEF EditSpeaker, Commit
  <2>2. "id" \notin DOMAIN patch
    BY <2>1
  <2>3. QED
    BY <2>1, <2>2, PatchOK
<1>3. ASSUME ClickReprocess(s) PROVE ReviewOK(review')
  <2>1. PICK text, patch : /\ review' = PatchReviewSegment(review, s.id, patch, "REPROCESS")
                           /\ patch = [normalized |-> text, edited |-> text]
    BY <1>3 DEF ClickReprocess, ReprocessSegment, Commit
  <2>2. "id" \notin DOMAIN patch
    BY <2>1
  <2>3. QED
    BY <2>1, <2>2, PatchOK
<1>4. ASSUME ClickSplit(s) PROVE ReviewOK(review')
  <2>1. PICK c : review' = SplitSpeakerCluster(review, c, s.id)
    BY <1>4 DEF ClickSplit, Commit
  <2>2. QED
    BY <2>1, ClustersOK
<1>5. QED
  BY <1>1, <1>2, <1>3, <1>4

\* Every button keeps a review good.
LEMMA ReviewStep == ReviewOK(review) /\ [Next]_vars => ReviewOK(review')
<1> SUFFICES ASSUME ReviewOK(review), [Next]_vars PROVE ReviewOK(review')
  OBVIOUS
<1>1. CASE UNCHANGED vars
  BY <1>1 DEF vars
<1>2. ASSUME NEW s \in ToSet(review.segments),
             \/ \E text \in Texts : EditText(s, text) \/ LiveText(s, text)
             \/ \E name \in Names : EditSpeaker(s, name)
             \/ ClickReprocess(s) \/ ClickSplit(s) \/ DeleteSegment(s)
      PROVE  ReviewOK(review')
  BY <1>2, EditsOK, ChangesOK
<1>3. ASSUME NEW find, NEW by, ClickReplaceAll(find, by) PROVE ReviewOK(review')
  BY <1>3, ReplaceOK DEF ClickReplaceAll, Commit
<1>4. ASSUME NEW c, NEW d, NEW name, ClickAssign(c, name) \/ ClickMerge(c, d)
      PROVE  ReviewOK(review')
  BY <1>4, ClustersOK DEF ClickAssign, ClickMerge, Commit
<1>5. ASSUME NEW i \in review.items, ClickValidate(i) \/ ClickApprove(i) \/ ClickReject(i)
      PROVE  ReviewOK(review')
  BY <1>5, JudgingOK DEF ClickValidate, ClickApprove, ClickReject, Commit, Judgements
<1>6. ASSUME NEW rows, NEW term, NEW aliases,
             ClickImport(rows) \/ ClickAddTerm(term, aliases) \/ ClickRemoveTerm(term) \/ ClickApply
      PROVE  ReviewOK(review')
  BY <1>6, TermsOK, ReplaceOK DEF ClickImport, ClickAddTerm, ClickRemoveTerm, ClickApply, Commit
<1>7. ASSUME \/ \E name \in Names : AddSegment(name)
             \/ \E segments \in Transcripts : ServerTranscript(segments)
      PROVE  ReviewOK(review')
  BY <1>7, ChangesOK
<1>8. CASE ReviewCreated
  BY <1>8 DEF ReviewCreated
<1>9. QED
  BY <1>1, <1>2, <1>3, <1>4, <1>5, <1>6, <1>7, <1>8 DEF Next

\* The review of the browser is good, as a predicate of the state.
ReviewInv == ReviewOK(review)

\* The review is good at all times: every sentence that calls for a judgement has
\* its item, current with the sentence, and a completed review has none pending.
THEOREM ReviewCorrect == Spec => []ReviewInv
<1>1. Init => ReviewInv
  <2>1. \A t \in Transcripts : WellFormed(t)
    BY TranscriptsWellFormed DEF WellFormed
  <2>2. QED
    BY <2>1, CreatedOK DEF Init, ReviewInv
<1>2. ReviewInv /\ [Next]_vars => ReviewInv'
  BY ReviewStep DEF ReviewInv
<1>3. QED
  BY <1>1, <1>2, PTL DEF Spec

\* Neither gate of a review opens while something is left to judge: when there is
\* one, and no decision counts as unresolved in it, every sentence that reads as a decision is
\* rejected, or approved with valid evidence, a confirmed speaker and no high
\* overlap as it stands now; and a completed review has a judgement for every
\* sentence that calls for one.
THEOREM GatesOpenSafely == Spec => []GatesAreSafe
<1>1. ReviewInv => GatesAreSafe
  <2>1. SUFFICES ASSUME ReviewOK(review) PROVE GatesAreSafe
    BY DEF ReviewInv
  <2>2. ASSUME NEW s \in ToSet(review.segments), ClassifyReviewItem(s.edited) # None
        PROVE  \E i \in review.items : ItemFor(i, s) /\ Current(i, s)
    <3>1. PICK i \in review.items : i.segment = s.id
      BY <2>1, <2>2 DEF ReviewOK, ItemsCurrent, Covered
    <3>2. PICK u \in ToSet(review.segments) : ItemFor(i, u) /\ Current(i, u)
      BY <2>1 DEF ReviewOK, ItemsCurrent
    <3>3. u = s
      BY <2>1, <3>1, <3>2 DEF ReviewOK, WellFormed, ToSet, ItemFor
    <3>4. QED
      BY <3>2, <3>3
  <2>3. ASSUME UnresolvedDecisions(review.items) = {}, NEW s \in ToSet(review.segments),
               ClassifyReviewItem(s.edited) = "DECISION"
        PROVE  \E i \in review.items :
                 /\ i.segment = s.id /\ i.content = s.edited
                 /\ \/ i.status = "REJECTED"
                    \/ i.status = "APPROVED" /\ i.evidence = "VALID" /\ DecisionEvidenceSafe(s)
    <3>1. PICK i \in review.items : ItemFor(i, s) /\ Current(i, s)
      BY <2>2, <2>3, NoneIsNoType DEF Types
    <3>2. /\ i.segment = s.id /\ i.content = s.edited /\ i.type = "DECISION"
          /\ i.status \in Judgements /\ i.blockers = DecisionBlockers(s, i.evidence)
      BY <2>3, <3>1 DEF ItemFor, Current, Blockers
    <3>3. i.status = "REJECTED" \/ (i.status # "PENDING" /\ i.blockers = {})
      BY <2>3, <3>2 DEF UnresolvedDecisions
    <3>4. CASE i.status # "REJECTED"
      <4>1. i.status = "APPROVED" /\ DecisionBlockers(s, i.evidence) = {}
        BY <3>2, <3>3, <3>4 DEF Judgements
      <4>2. i.evidence = "VALID" /\ DecisionEvidenceSafe(s)
        BY <4>1 DEF DecisionBlockers, DecisionEvidenceSafe
      <4>3. QED
        BY <3>2, <4>1, <4>2
    <3>5. QED
      BY <3>2, <3>4
  <2>4. ConfirmationIsSafe
    BY <2>3 DEF ConfirmationIsSafe, BlockerCount, DecisionsJudged
  <2>5. CompletionIsSafe
    BY <2>1, <2>2 DEF CompletionIsSafe, ReviewOK, ItemFor
  <2>6. QED
    BY <2>4, <2>5 DEF GatesAreSafe
<1>2. QED
  BY <1>1, ReviewCorrect, PTL

\* The positions of a set of numbers are its elements, each once.
LEMMA Selected ==
  ASSUME NEW n \in Nat, NEW kept \in SUBSET (1..n)
  PROVE  /\ Cardinality(kept) \in Nat
         /\ \A i \in 1..Cardinality(kept) : Position(kept, i) \in kept
         /\ \A i, j \in 1..Cardinality(kept) : Position(kept, i) = Position(kept, j) => i = j
         /\ \A k \in kept : \E i \in 1..Cardinality(kept) : Position(kept, i) = k
<1> DEFINE upTo(k) == {j \in kept : j <= k}
<1>1. IsFiniteSet(kept)
  <2>1. 1 \in Int /\ n \in Int
    OBVIOUS
  <2>2. IsFiniteSet(1..n)
    BY <2>1, FS_Interval
  <2>3. QED
    BY <2>2, FS_Subset
<1>2. PICK c \in Nat : c = Cardinality(kept)
  BY <1>1, FS_CardinalityType
<1>3. ASSUME NEW k \in kept PROVE Cardinality(upTo(k)) \in 1..c /\ IsFiniteSet(upTo(k))
  <2>1. upTo(k) \in SUBSET kept /\ k \in upTo(k)
    OBVIOUS
  <2>2. PICK U : U = upTo(k)
    OBVIOUS
  <2>3. IsFiniteSet(U) /\ Cardinality(U) <= c /\ Cardinality(U) \in Nat
    BY <1>1, <1>2, <2>1, <2>2, FS_Subset, FS_CardinalityType
  <2>4. Cardinality(U) # 0
    BY <2>1, <2>2, <2>3, FS_EmptySet
  <2>5. QED
    BY <2>2, <2>3, <2>4
<1>4. ASSUME NEW j \in kept, NEW k \in kept, j < k
      PROVE  Cardinality(upTo(j)) # Cardinality(upTo(k))
  <2>1. upTo(j) \in SUBSET upTo(k) /\ k \in upTo(k) /\ k \notin upTo(j)
    <3>1. \A i \in kept : i \in Int
      OBVIOUS
    <3>2. \A i \in kept : i <= j => i <= k
      BY <1>4, <3>1
    <3>3. k <= k /\ ~(k <= j)
      BY <1>4, <3>1
    <3>4. QED
      BY <3>2, <3>3
  <2>2. PICK T, U : T = upTo(j) /\ U = upTo(k)
    OBVIOUS
  <2>3. IsFiniteSet(U)
    BY <1>3, <2>2
  <2>4. QED
    BY <2>1, <2>2, <2>3, FS_Subset
<1>5. PICK rank : rank = [k \in kept |-> Cardinality(upTo(k))]
  OBVIOUS
<1>6. rank \in Injection(kept, 1..c)
  <2>1. rank \in [kept -> 1..c]
    BY <1>3, <1>5
  <2>2. ASSUME NEW j \in kept, NEW k \in kept, rank[j] = rank[k] PROVE j = k
    <3>1. j \in Int /\ k \in Int
      OBVIOUS
    <3>2. ~(j < k) /\ ~(k < j)
      BY <1>4, <1>5, <2>2
    <3>3. QED
      BY <3>1, <3>2
  <2>3. QED
    BY <2>1, <2>2 DEF Injection, IsInjective
<1>7. rank \in Surjection(kept, 1..c)
  <2>1. IsFiniteSet(1..c) /\ Cardinality(1..c) = c
    <3>1. c = 0 \/ 1 <= c
      OBVIOUS
    <3>2. QED
      BY <3>1, FS_Interval
  <2>2. QED
    BY <1>2, <1>6, <2>1, FS_Injection
<1>8. ASSUME NEW i \in 1..c PROVE Position(kept, i) \in kept /\ rank[Position(kept, i)] = i
  <2>1. \E k \in kept : rank[k] = i
    BY <1>7 DEF Surjection
  <2>2. \E k \in kept : Cardinality(upTo(k)) = i
    BY <1>5, <2>1
  <2>3. Position(kept, i) \in kept /\ Cardinality(upTo(Position(kept, i))) = i
    BY <2>2 DEF Position
  <2>4. QED
    BY <1>5, <2>3
<1>9. ASSUME NEW k \in kept PROVE \E i \in 1..c : Position(kept, i) = k
  <2>1. rank[k] \in 1..c
    BY <1>3, <1>5
  <2>2. Position(kept, rank[k]) \in kept /\ rank[Position(kept, rank[k])] = rank[k]
    BY <1>8, <2>1
  <2>3. Position(kept, rank[k]) = k
    BY <1>6, <2>2 DEF Injection, IsInjective
  <2>4. QED
    BY <2>1, <2>3
<1>10. QED
  BY <1>2, <1>8, <1>9

\* What a selection contains.
LEMMA SelectionOK ==
  ASSUME NEW S, NEW seq \in Seq(S), NEW kept \in SUBSET DOMAIN seq
  PROVE  /\ SelectAt(seq, kept) \in Seq(S) /\ Len(SelectAt(seq, kept)) = Cardinality(kept)
         /\ Cardinality(kept) \in Nat
         /\ \A i \in 1..Cardinality(kept) :
              Position(kept, i) \in kept /\ SelectAt(seq, kept)[i] = seq[Position(kept, i)]
         /\ \A i, j \in 1..Cardinality(kept) : Position(kept, i) = Position(kept, j) => i = j
         /\ \A k \in kept : \E i \in 1..Cardinality(kept) : Position(kept, i) = k
<1>1. DOMAIN seq = 1..Len(seq) /\ Len(seq) \in Nat /\ \A k \in 1..Len(seq) : seq[k] \in S
  OBVIOUS
<1>2. PICK c \in Nat : c = Cardinality(kept)
  BY <1>1, Selected
<1>3. \A i \in 1..c : Position(kept, i) \in kept
  BY <1>1, <1>2, Selected
<1>4. SelectAt(seq, kept) = [i \in 1..c |-> seq[Position(kept, i)]]
  BY <1>2 DEF SelectAt
<1>5. \A i \in 1..c : seq[Position(kept, i)] \in S
  BY <1>1, <1>3
<1>6. SelectAt(seq, kept) \in Seq(S) /\ Len(SelectAt(seq, kept)) = c
  BY <1>4, <1>5
<1>7. QED
  BY <1>1, <1>2, <1>3, <1>4, <1>6, Selected

-----------------------------------------------------------------------------
(* Clusters.  The active ones are told apart by their ids; the id of a     *)
(* cluster tells where it comes from: it was built for its label, or it    *)
(* was split from another.                                                 *)

ClusterFields == {"id", "label", "participant", "status", "segments"}
Statuses == {"ACTIVE", "MERGED", "SPLIT"}

ActiveAt(clusters) == {k \in DOMAIN clusters : clusters[k].status = "ACTIVE"}
SentencesOf(t, label) == {s.id : s \in {u \in ToSet(t) : u.speaker = label}}

BuiltId(id, label) == DOMAIN id = 1..2 /\ id[2] = label
SplitId(id, n) == DOMAIN id = 1..3 /\ id[2] \in Nat /\ id[2] < n

Identified(clusters, n) ==
  /\ \A k \in ActiveAt(clusters) :
       BuiltId(clusters[k].id, clusters[k].label) \/ SplitId(clusters[k].id, n)
  /\ \A j, k \in ActiveAt(clusters) : clusters[j].id = clusters[k].id => j = k

ClustersTyped(t, clusters) ==
  /\ clusters \in Seq(ToSet(clusters))
  /\ \A c \in ToSet(clusters) :
       /\ DOMAIN c = ClusterFields /\ c.label \in Names \X Nat /\ c.status \in Statuses
       /\ c.segments \subseteq Ids(t)

\* An active cluster has a sentence; one that was built for its label has all
\* sentences of it.
Filled(t, clusters) ==
  \A k \in ActiveAt(clusters) :
    /\ clusters[k].segments # {}
    /\ BuiltId(clusters[k].id, clusters[k].label) =>
         SentencesOf(t, clusters[k].label) \subseteq clusters[k].segments

LabelsDiffer(clusters) ==
  \A j, k \in ActiveAt(clusters) : clusters[j].label = clusters[k].label => j = k

ClustersInv(r) ==
  /\ r.splits \in Nat /\ ClustersTyped(r.segments, r.clusters)
  /\ Identified(r.clusters, r.splits) /\ Filled(r.segments, r.clusters)
  /\ Once(r) => LabelsDiffer(r.clusters)

SpeakersTyped(t) == \A s \in ToSet(t) : s.speaker \in Names \X Nat

\* A cluster for each speaker, with all their sentences.
Partition(t, clusters) ==
  /\ clusters \in Seq(ToSet(clusters))
  /\ \A k \in DOMAIN clusters :
       /\ DOMAIN clusters[k] = ClusterFields /\ clusters[k].status = "ACTIVE"
       /\ clusters[k].label \in {s.speaker : s \in ToSet(t)}
       /\ clusters[k].segments = SentencesOf(t, clusters[k].label)
  /\ \A j, k \in DOMAIN clusters : clusters[j].label = clusters[k].label => j = k
  /\ \A s \in ToSet(t) : \E k \in DOMAIN clusters : clusters[k].label = s.speaker

\* The smallest element of a set of numbers.
LEMMA Lowest ==
  ASSUME NEW S, S \subseteq Nat, S # {}
  PROVE  Min(S) \in S /\ \A k \in S : Min(S) <= k
BY Least DEF Min

\* What is built from a transcript is a cluster for each speaker, with an id for
\* its label.
LEMMA BuiltOK ==
  ASSUME NEW t, WellFormed(t)
  PROVE  /\ Partition(t, BuildSpeakerClusters(t))
         /\ \A k \in DOMAIN BuildSpeakerClusters(t) :
              BuiltId(BuildSpeakerClusters(t)[k].id, BuildSpeakerClusters(t)[k].label)
<1> DEFINE firsts == {i \in DOMAIN t : \A j \in 1..i-1 : t[j].speaker # t[i].speaker}
           label(k) == t[Position(firsts, k)].speaker
           cluster(k) == [id |-> <<k, label(k)>>, label |-> label(k), participant |-> None,
                          status |-> "ACTIVE", segments |-> SentencesOf(t, label(k))]
<1>1. PICK b : b = BuildSpeakerClusters(t)
  OBVIOUS
<1>2. PICK c : c = Cardinality(firsts)
  OBVIOUS
<1>3. b = [k \in 1..c |-> cluster(k)]
  BY <1>1, <1>2 DEF BuildSpeakerClusters, SentencesOf
<1>4. DOMAIN t = 1..Len(t) /\ Len(t) \in Nat /\ \A k \in 1..Len(t) : t[k] \in ToSet(t)
  BY Positions
<1>5. /\ c \in Nat
      /\ \A k \in 1..c : Position(firsts, k) \in firsts
      /\ \A j, k \in 1..c : Position(firsts, j) = Position(firsts, k) => j = k
      /\ \A i \in firsts : \E k \in 1..c : Position(firsts, k) = i
  <2>1. firsts \in SUBSET (1..Len(t))
    BY <1>4
  <2>2. QED
    BY <1>2, <1>4, <2>1, Selected
<1>6. b \in Seq(ToSet(b)) /\ DOMAIN b = 1..c
  <2>1. b = [k \in 1..c |-> b[k]]
    BY <1>3
  <2>2. QED
    BY <1>5, <2>1, Sequence
<1>7. ASSUME NEW k \in 1..c
      PROVE  /\ DOMAIN b[k] = ClusterFields /\ b[k].status = "ACTIVE" /\ b[k].label = label(k)
             /\ b[k].segments = SentencesOf(t, b[k].label) /\ BuiltId(b[k].id, b[k].label)
             /\ b[k].label \in {s.speaker : s \in ToSet(t)}
  <2>1. b[k] = cluster(k)
    BY <1>3
  <2>2. label(k) \in {s.speaker : s \in ToSet(t)}
    BY <1>4, <1>5
  <2> HIDE DEF label
  <2>3. BuiltId(<<k, label(k)>>, label(k))
    BY DEF BuiltId
  <2>4. QED
    BY <2>1, <2>2, <2>3 DEF ClusterFields
<1>8. ASSUME NEW j \in 1..c, NEW k \in 1..c, b[j].label = b[k].label PROVE j = k
  <2>1. PICK p, q : p = Position(firsts, j) /\ q = Position(firsts, k)
    OBVIOUS
  <2>2. p \in firsts /\ q \in firsts /\ t[p].speaker = t[q].speaker
    BY <1>5, <1>7, <1>8, <2>1
  <2>3. p \in Nat /\ q \in Nat /\ p >= 1 /\ q >= 1
    BY <1>4, <2>2
  <2>4. ~(p < q) /\ ~(q < p)
    <3>1. p < q => p \in 1..(q - 1)
      BY <2>3
    <3>2. q < p => q \in 1..(p - 1)
      BY <2>3
    <3>3. QED
      BY <2>2, <3>1, <3>2
  <2>5. p = q
    BY <2>3, <2>4
  <2>6. QED
    BY <1>5, <2>1, <2>5
<1>9. ASSUME NEW s \in ToSet(t) PROVE \E k \in 1..c : b[k].label = s.speaker
  <2>1. PICK S : S = {i \in 1..Len(t) : t[i].speaker = s.speaker}
    OBVIOUS
  <2>2. \E i \in 1..Len(t) : t[i] = s
    BY <1>4 DEF ToSet
  <2>3. S \subseteq Nat /\ S # {}
    BY <2>1, <2>2
  <2>4. PICK i \in S : \A j \in S : i <= j
    BY <2>3, Least
  <2>5. ASSUME NEW j \in 1..(i - 1) PROVE t[j].speaker # t[i].speaker
    <3>1. i \in 1..Len(t) /\ t[i].speaker = s.speaker
      BY <2>1
    <3>2. j \in 1..Len(t) /\ ~(i <= j)
      BY <3>1
    <3>3. j \notin S
      BY <2>4, <3>2
    <3>4. QED
      BY <2>1, <3>1, <3>2, <3>3
  <2>6. i \in firsts
    BY <1>4, <2>1, <2>5
  <2>7. PICK k \in 1..c : Position(firsts, k) = i
    BY <1>5, <2>6
  <2>8. b[k].label = s.speaker
    BY <1>7, <2>1, <2>7
  <2>9. QED
    BY <2>8
<1>10. QED
  BY <1>1, <1>6, <1>7, <1>8, <1>9 DEF Partition

\* Refreshed, the clusters are those of the transcript, and an id that was not
\* built now comes from an active cluster with the same label.
LEMMA RefreshedOK ==
  ASSUME NEW t, WellFormed(t), NEW clusters, clusters \in Seq(ToSet(clusters)),
         NEW n, Identified(clusters, n)
  PROVE  LET new == RefreshedClusters(t, clusters) IN
         /\ Partition(t, new) /\ Identified(new, n)
         /\ \A k \in DOMAIN new :
              \/ BuiltId(new[k].id, new[k].label)
              \/ \E j \in ActiveAt(clusters) :
                   clusters[j].id = new[k].id /\ clusters[j].label = new[k].label
<1> DEFINE previous(label) ==
             {k \in DOMAIN clusters : clusters[k].status = "ACTIVE" /\ clusters[k].label = label}
           kept(c) ==
             IF previous(c.label) = {} THEN c
             ELSE [c EXCEPT !.id = clusters[Max(previous(c.label))].id,
                            !.participant = clusters[Max(previous(c.label))].participant]
<1>1. PICK b : b = BuildSpeakerClusters(t)
  OBVIOUS
<1>2. PICK new : new = RefreshedClusters(t, clusters)
  OBVIOUS
<1>3. new = [k \in DOMAIN b |-> kept(b[k])]
  BY <1>1, <1>2 DEF RefreshedClusters
<1>4. Partition(t, b) /\ \A k \in DOMAIN b : BuiltId(b[k].id, b[k].label)
  BY <1>1, BuiltOK
<1>5. ASSUME NEW k \in DOMAIN b
      PROVE  /\ DOMAIN new[k] = ClusterFields /\ new[k].status = "ACTIVE"
             /\ new[k].label = b[k].label /\ new[k].segments = b[k].segments
             /\ \/ BuiltId(new[k].id, new[k].label)
                \/ \E j \in ActiveAt(clusters) :
                     clusters[j].id = new[k].id /\ clusters[j].label = new[k].label
             /\ \/ previous(b[k].label) = {} /\ BuiltId(new[k].id, new[k].label)
                \/ \E j \in previous(b[k].label) : new[k].id = clusters[j].id
  <2>1. new[k] = kept(b[k]) /\ DOMAIN b[k] = ClusterFields /\ b[k].status = "ACTIVE"
    BY <1>3, <1>4 DEF Partition
  <2>2. CASE previous(b[k].label) = {}
    BY <1>4, <2>1, <2>2
  <2>3. CASE previous(b[k].label) # {}
    <3>1. PICK p : p = previous(b[k].label)
      OBVIOUS
    <3>2. Len(clusters) \in Nat /\ DOMAIN clusters = 1..Len(clusters)
      OBVIOUS
    <3>3. p \in SUBSET (1..Len(clusters)) /\ p # {}
      BY <2>3, <3>1, <3>2
    <3>4. Max(p) \in p
      BY <3>2, <3>3, Greatest
    <3>5. new[k] = [b[k] EXCEPT !.id = clusters[Max(p)].id, !.participant = clusters[Max(p)].participant]
      BY <2>1, <2>3, <3>1
    <3>6. /\ DOMAIN new[k] = ClusterFields /\ new[k].status = "ACTIVE"
          /\ new[k].label = b[k].label /\ new[k].segments = b[k].segments
          /\ new[k].id = clusters[Max(p)].id
      BY <2>1, <3>5 DEF ClusterFields
    <3>7. Max(p) \in ActiveAt(clusters) /\ clusters[Max(p)].label = b[k].label
      BY <3>1, <3>4 DEF ActiveAt
    <3>8. QED
      BY <3>1, <3>4, <3>6, <3>7
  <2>4. QED
    BY <2>2, <2>3
<1>6. new \in Seq(ToSet(new)) /\ DOMAIN new = DOMAIN b
  <2>1. Len(b) \in Nat /\ DOMAIN b = 1..Len(b)
    BY <1>4 DEF Partition
  <2>2. new = [k \in 1..Len(b) |-> new[k]]
    BY <1>3, <2>1
  <2>3. QED
    BY <2>1, <2>2, Sequence
<1>7. Partition(t, new)
  BY <1>4, <1>5, <1>6 DEF Partition
<1> HIDE DEF previous
<1>8. ASSUME NEW j \in DOMAIN b, NEW k \in DOMAIN b, new[j].id = new[k].id PROVE j = k
  <2>1. SUFFICES ASSUME b[j].label # b[k].label PROVE FALSE
    BY <1>4 DEF Partition
  <2>2. ASSUME NEW l \in DOMAIN b
        PROVE  \/ BuiltId(new[l].id, b[l].label)
               \/ \E i \in ActiveAt(clusters) :
                    clusters[i].id = new[l].id /\ clusters[i].label = b[l].label
    BY <1>5
  <2>3. CASE BuiltId(new[j].id, b[j].label) /\ BuiltId(new[k].id, b[k].label)
    BY <1>8, <2>1, <2>3 DEF BuiltId
  <2>4. ASSUME NEW x, NEW y, x # y, BuiltId(new[j].id, x), NEW i \in ActiveAt(clusters),
               clusters[i].id = new[j].id, clusters[i].label = y
        PROVE  FALSE
    <3>1. BuiltId(clusters[i].id, y) \/ SplitId(clusters[i].id, n)
      BY <2>4 DEF Identified
    <3>2. DOMAIN new[j].id = 1..2 /\ new[j].id[2] = x
      BY <2>4 DEF BuiltId
    <3>3. 1..2 # 1..3
      <4>1. 3 \in 1..3 /\ 3 \notin 1..2
        OBVIOUS
      <4>2. QED
        BY <4>1
    <3>4. QED
      BY <2>4, <3>1, <3>2, <3>3 DEF BuiltId, SplitId
  <2>5. ASSUME NEW i \in ActiveAt(clusters), NEW l \in ActiveAt(clusters),
               clusters[i].id = new[j].id, clusters[i].label = b[j].label,
               clusters[l].id = new[k].id, clusters[l].label = b[k].label
        PROVE  FALSE
    BY <1>8, <2>1, <2>5 DEF Identified
  <2>6. QED
    BY <1>8, <2>1, <2>2, <2>3, <2>4, <2>5
<1>9. ASSUME NEW k \in DOMAIN b PROVE BuiltId(new[k].id, new[k].label) \/ SplitId(new[k].id, n)
  BY <1>5 DEF Identified
<1>10. ActiveAt(new) = DOMAIN b
  BY <1>5, <1>6 DEF ActiveAt
<1>11. Identified(new, n)
  BY <1>8, <1>9, <1>10 DEF Identified
<1>12. QED
  BY <1>2, <1>5, <1>6, <1>7, <1>11

\* A transcript divided into clusters is in order.
LEMMA PartitionOK ==
  ASSUME NEW r, WellFormed(r.segments), SpeakersTyped(r.segments), r.splits \in Nat,
         Partition(r.segments, r.clusters), Identified(r.clusters, r.splits)
  PROVE  ClustersInv(r) /\ Once(r)
<1>1. PICK t : t = r.segments
  OBVIOUS
<1>2. PICK clusters : clusters = r.clusters
  OBVIOUS
<1>3. /\ clusters \in Seq(ToSet(clusters))
      /\ \A k \in DOMAIN clusters :
           /\ DOMAIN clusters[k] = ClusterFields /\ clusters[k].status = "ACTIVE"
           /\ clusters[k].label \in {s.speaker : s \in ToSet(t)}
           /\ clusters[k].segments = SentencesOf(t, clusters[k].label)
      /\ \A j, k \in DOMAIN clusters : clusters[j].label = clusters[k].label => j = k
      /\ \A s \in ToSet(t) : \E k \in DOMAIN clusters : clusters[k].label = s.speaker
  BY <1>1, <1>2 DEF Partition
<1>4. ActiveAt(clusters) = DOMAIN clusters
  BY <1>3 DEF ActiveAt
<1>5. ClustersTyped(t, clusters)
  <2>1. ASSUME NEW k \in DOMAIN clusters
        PROVE  /\ DOMAIN clusters[k] = ClusterFields /\ clusters[k].label \in Names \X Nat
               /\ clusters[k].status \in Statuses /\ clusters[k].segments \subseteq Ids(t)
    <3>1. clusters[k].label \in Names \X Nat
      BY <1>1, <1>3 DEF SpeakersTyped
    <3>2. clusters[k].segments \subseteq Ids(t)
      BY <1>3 DEF SentencesOf, Ids
    <3>3. QED
      BY <1>3, <3>1, <3>2 DEF Statuses
  <2>2. QED
    BY <1>3, <2>1 DEF ClustersTyped, ToSet
<1>6. Filled(t, clusters)
  <2>1. ASSUME NEW k \in DOMAIN clusters
        PROVE  /\ clusters[k].segments # {}
               /\ SentencesOf(t, clusters[k].label) \subseteq clusters[k].segments
    <3>1. PICK s \in ToSet(t) : s.speaker = clusters[k].label
      BY <1>3
    <3>2. s.id \in SentencesOf(t, clusters[k].label)
      BY <3>1 DEF SentencesOf
    <3>3. QED
      BY <1>3, <3>2
  <2>2. QED
    BY <1>4, <2>1 DEF Filled
<1>7. Once(r)
  <2>1. ASSUME NEW s \in ToSet(t)
        PROVE  \E k \in DOMAIN clusters :
                 ClustersOf(r, s.id) = {k} /\ clusters[k].label = s.speaker
    <3>1. PICK k \in DOMAIN clusters : clusters[k].label = s.speaker
      BY <1>3
    <3>2. \A u \in ToSet(t) : u.id = s.id => u = s
      BY <1>1 DEF WellFormed, ToSet
    <3>3. ASSUME NEW j \in DOMAIN clusters
          PROVE  s.id \in clusters[j].segments <=> clusters[j].label = s.speaker
      <4>1. \A label : s.id \in SentencesOf(t, label) <=> s.speaker = label
        BY <3>2 DEF SentencesOf
      <4>2. QED
        BY <1>3, <4>1
    <3>4. ClustersOf(r, s.id) = {j \in DOMAIN clusters : clusters[j].label = s.speaker}
      BY <1>2, <1>3, <3>3 DEF ClustersOf
    <3>5. QED
      BY <1>3, <3>1, <3>4
  <2>2. QED
    BY <1>1, <1>2, <2>1 DEF Once
<1>8. LabelsDiffer(clusters)
  BY <1>3, <1>4 DEF LabelsDiffer
<1>9. QED
  BY <1>1, <1>2, <1>5, <1>6, <1>7, <1>8 DEF ClustersInv

-----------------------------------------------------------------------------
(* Texts, terms and traces. *)

Statements == {"CONFIRMED", "UNCONFIRMED"}

SegmentTyped(s) ==
  /\ s.raw \in Seq(Vocabulary) /\ s.normalized \in Seq(Vocabulary) /\ s.edited \in Seq(Vocabulary)
  /\ s.speaker \in Names \X Nat /\ s.status \in Statements

Typed(t) == \A s \in ToSet(t) : SegmentTyped(s)

DictionaryTerms == [term : Vocabulary, aliases : Seq(Vocabulary)]
TermLists == Seq(DictionaryTerms)

\* A sequence of events, or of applications, of the sentences of a transcript.
TraceOf(t, h) == h \in Seq(ToSet(h)) /\ \A e \in ToSet(h) : e.segment \in Ids(t)

TextsInv(r) ==
  /\ Typed(r.segments) /\ r.terms \in TermLists
  /\ TraceOf(r.segments, r.history) /\ TraceOf(r.segments, r.applications)

FullInv(r) == ReviewOK(r) /\ TextsInv(r) /\ ClustersInv(r)

\* Two sequences joined.
LEMMA Joined ==
  ASSUME NEW a, a \in Seq(ToSet(a)), NEW b, b \in Seq(ToSet(b))
  PROVE  /\ a \o b \in Seq(ToSet(a \o b)) /\ ToSet(a \o b) = ToSet(a) \cup ToSet(b)
         /\ Len(a) \in Nat /\ Len(b) \in Nat /\ Len(a \o b) = Len(a) + Len(b)
         /\ \A k \in 1..Len(a) : (a \o b)[k] = a[k]
         /\ \A k \in 1..Len(b) : (a \o b)[Len(a) + k] = b[k]
<1>1. PICK S : S = ToSet(a) \cup ToSet(b)
  OBVIOUS
<1>2. a \in Seq(S) /\ b \in Seq(S)
  <2>1. \A k \in 1..Len(a) : a[k] \in S
    BY <1>1
  <2>2. \A k \in 1..Len(b) : b[k] \in S
    BY <1>1
  <2>3. a = [k \in 1..Len(a) |-> a[k]] /\ Len(a) \in Nat
    OBVIOUS
  <2>4. b = [k \in 1..Len(b) |-> b[k]] /\ Len(b) \in Nat
    OBVIOUS
  <2>5. a \in [1..Len(a) -> S] /\ b \in [1..Len(b) -> S]
    BY <2>1, <2>2, <2>3, <2>4
  <2>6. QED
    BY <2>3, <2>4, <2>5
<1>3. PICK c : c = a \o b
  OBVIOUS
<1>4. c \in Seq(S) /\ Len(c) = Len(a) + Len(b) /\ Len(a) \in Nat /\ Len(b) \in Nat
  BY <1>2, <1>3, ConcatProperties
<1>5. \A k \in 1..(Len(a) + Len(b)) : c[k] = IF k <= Len(a) THEN a[k] ELSE b[k - Len(a)]
  BY <1>2, <1>3, ConcatProperties
<1>6. \A k \in 1..Len(a) : c[k] = a[k]
  <2>1. \A k \in 1..Len(a) : k \in 1..(Len(a) + Len(b)) /\ k <= Len(a)
    BY <1>4
  <2>2. QED
    BY <1>5, <2>1
<1>7. \A k \in 1..Len(b) : c[Len(a) + k] = b[k]
  <2>1. \A k \in 1..Len(b) :
          /\ Len(a) + k \in 1..(Len(a) + Len(b)) /\ ~(Len(a) + k <= Len(a))
          /\ (Len(a) + k) - Len(a) = k
    BY <1>4
  <2>2. QED
    BY <1>5, <2>1
<1>8. DOMAIN c = 1..(Len(a) + Len(b)) /\ DOMAIN a = 1..Len(a) /\ DOMAIN b = 1..Len(b)
  BY <1>4
<1>9. ToSet(c) \subseteq S
  BY <1>4 DEF ToSet
<1>10. ToSet(a) \subseteq ToSet(c)
  <2>1. \A k \in 1..Len(a) : k \in 1..(Len(a) + Len(b))
    BY <1>4
  <2>2. QED
    BY <1>6, <1>8, <2>1 DEF ToSet
<1>11. ToSet(b) \subseteq ToSet(c)
  <2>1. \A k \in 1..Len(b) : Len(a) + k \in 1..(Len(a) + Len(b))
    BY <1>4
  <2>2. QED
    BY <1>7, <1>8, <2>1 DEF ToSet
<1>12. ToSet(c) = S
  BY <1>1, <1>9, <1>10, <1>11
<1>13. QED
  BY <1>1, <1>3, <1>4, <1>6, <1>7, <1>12

\* The events of a patch: that of the text comes first, if it changes.
LEMMA EventsOfPatch ==
  ASSUME NEW old, NEW new, NEW source, NEW h, h = PatchEvents(old, new, source)
  PROVE  /\ h \in Seq(ToSet(h)) /\ Len(h) \in Nat /\ \A e \in ToSet(h) : e.segment = old.id
         /\ \A k \in 1..Len(h) : h[k].segment = old.id
         /\ new.edited = old.edited => \A k \in 1..Len(h) : h[k].field # "EDITED_TEXT"
         /\ new.edited # old.edited =>
              /\ Len(h) >= 1 /\ h[1] = Event(old.id, "EDITED_TEXT", old.edited, new.edited, source)
              /\ \A k \in 1..Len(h) : k # 1 => h[k].field # "EDITED_TEXT"
<1> DEFINE record(field, previous, next) ==
      IF next # previous THEN <<Event(old.id, field, previous, next, source)>> ELSE <<>>
<1>1. PICK a : a = record("EDITED_TEXT", old.edited, new.edited)
  OBVIOUS
<1>2. PICK b : b = record("NORMALIZED_TEXT", old.normalized, new.normalized)
  OBVIOUS
<1>3. PICK c : c = record("SPEAKER", <<old.speaker, old.status>>, <<new.speaker, new.status>>)
  OBVIOUS
<1>4. ASSUME NEW field, NEW previous, NEW next, NEW x, x = record(field, previous, next)
      PROVE  /\ x \in Seq(ToSet(x)) /\ Len(x) \in {0, 1}
             /\ \A e \in ToSet(x) : e.segment = old.id /\ e.field = field
             /\ (next = previous) <=> (Len(x) = 0)
             /\ Len(x) = 1 => x[1] = Event(old.id, field, previous, next, source)
  <2>1. CASE next # previous
    <3>1. PICK e : e = Event(old.id, field, previous, next, source)
      OBVIOUS
    <3>2. x = <<e>>
      BY <1>4, <2>1, <3>1
    <3>3. Len(x) = 1 /\ DOMAIN x = {1} /\ x[1] = e
      BY <3>2
    <3>4. ToSet(x) = {e}
      BY <3>3 DEF ToSet
    <3>5. x \in Seq({e})
      BY <3>2
    <3>6. QED
      BY <2>1, <3>1, <3>3, <3>4, <3>5 DEF Event
  <2>2. CASE next = previous
    <3>1. x = <<>>
      BY <1>4, <2>2
    <3>2. ToSet(x) = {} /\ Len(x) = 0 /\ x \in Seq({})
      BY <3>1 DEF ToSet
    <3>3. QED
      BY <2>2, <3>2
  <2>3. QED
    BY <2>1, <2>2
<1>5. h = (a \o b) \o c
  BY <1>1, <1>2, <1>3 DEF PatchEvents
<1> HIDE DEF record
<1>6. /\ a \in Seq(ToSet(a)) /\ Len(a) \in {0, 1}
      /\ \A e \in ToSet(a) : e.segment = old.id
      /\ (new.edited = old.edited) <=> (Len(a) = 0)
      /\ Len(a) = 1 => a[1] = Event(old.id, "EDITED_TEXT", old.edited, new.edited, source)
  BY <1>1, <1>4
<1>7. b \in Seq(ToSet(b)) /\ \A e \in ToSet(b) : e.segment = old.id /\ e.field = "NORMALIZED_TEXT"
  BY <1>2, <1>4
<1>8. c \in Seq(ToSet(c)) /\ \A e \in ToSet(c) : e.segment = old.id /\ e.field = "SPEAKER"
  BY <1>3, <1>4
<1>9. PICK d : d = b \o c
  OBVIOUS
<1>10. d \in Seq(ToSet(d)) /\ ToSet(d) = ToSet(b) \cup ToSet(c)
  BY <1>7, <1>8, <1>9, Joined
<1>11. h = a \o d
  <2>1. PICK S : S = ToSet(a) \cup ToSet(b) \cup ToSet(c)
    OBVIOUS
  <2>2. \A x : x \in Seq(ToSet(x)) /\ ToSet(x) \subseteq S => x \in Seq(S)
    <3>1. ASSUME NEW x, x \in Seq(ToSet(x)), ToSet(x) \subseteq S PROVE x \in Seq(S)
      <4>1. x = [k \in 1..Len(x) |-> x[k]] /\ Len(x) \in Nat /\ \A k \in 1..Len(x) : x[k] \in S
        BY <3>1
      <4>2. x \in [1..Len(x) -> S]
        BY <4>1
      <4>3. QED
        BY <4>1, <4>2
    <3>2. QED
      BY <3>1
  <2>3. a \in Seq(S) /\ b \in Seq(S) /\ c \in Seq(S)
    BY <1>6, <1>7, <1>8, <2>1, <2>2
  <2>4. QED
    BY <1>5, <1>9, <2>3, ConcatAssociative
<1>12. /\ h \in Seq(ToSet(h)) /\ ToSet(h) = ToSet(a) \cup ToSet(d)
       /\ Len(a) \in Nat /\ Len(d) \in Nat /\ Len(h) = Len(a) + Len(d)
       /\ \A k \in 1..Len(a) : h[k] = a[k]
       /\ \A k \in 1..Len(d) : h[Len(a) + k] = d[k]
  BY <1>6, <1>10, <1>11, Joined
<1>13. \A e \in ToSet(h) : e.segment = old.id
  BY <1>6, <1>7, <1>8, <1>10, <1>12
<1>14. \A k \in 1..Len(h) : h[k] \in ToSet(h)
  BY <1>12
<1>15. \A k \in 1..Len(d) : d[k].field # "EDITED_TEXT"
  <2>1. \A k \in 1..Len(d) : d[k] \in ToSet(d)
    BY <1>10
  <2>2. QED
    BY <1>7, <1>8, <1>10, <2>1
<1>16. ASSUME NEW k \in 1..Len(h), ~(k <= Len(a)) PROVE h[k].field # "EDITED_TEXT"
  <2>1. k - Len(a) \in 1..Len(d) /\ Len(a) + (k - Len(a)) = k
    BY <1>12, <1>16
  <2>2. QED
    BY <1>12, <1>15, <2>1
<1>17. CASE new.edited = old.edited
  <2>1. \A k \in 1..Len(h) : ~(k <= Len(a))
    BY <1>6, <1>12, <1>17
  <2>2. QED
    BY <1>12, <1>13, <1>14, <1>16, <1>17, <2>1
<1>18. CASE new.edited # old.edited
  <2>1. Len(a) = 1 /\ 1 \in 1..Len(a) /\ Len(h) >= 1
    BY <1>6, <1>12, <1>18
  <2>2. h[1] = Event(old.id, "EDITED_TEXT", old.edited, new.edited, source)
    BY <1>6, <1>12, <2>1
  <2>3. \A k \in 1..Len(h) : k # 1 => ~(k <= Len(a))
    BY <1>12, <2>1
  <2>4. \A k \in 1..Len(h) : k # 1 => h[k].field # "EDITED_TEXT"
    BY <1>16, <2>3
  <2>5. QED
    BY <1>12, <1>13, <1>14, <1>18, <2>1, <2>2, <2>4
<1>19. QED
  BY <1>17, <1>18

\* A sequence is one of any set that has its values.
LEMMA Widened ==
  ASSUME NEW S, NEW x, x \in Seq(ToSet(x)), ToSet(x) \subseteq S
  PROVE  x \in Seq(S)
<1>1. x = [k \in 1..Len(x) |-> x[k]] /\ Len(x) \in Nat /\ \A k \in 1..Len(x) : x[k] \in S
  OBVIOUS
<1>2. x \in [1..Len(x) -> S]
  BY <1>1
<1>3. QED
  BY <1>1, <1>2

\* A sequence has its own values.
LEMMA Narrowed ==
  ASSUME NEW S, NEW x \in Seq(S)
  PROVE  x \in Seq(ToSet(x)) /\ ToSet(x) \subseteq S /\ \A k \in 1..Len(x) : x[k] \in ToSet(x)
<1>1. x = [k \in 1..Len(x) |-> x[k]] /\ Len(x) \in Nat /\ \A k \in 1..Len(x) : x[k] \in S
  OBVIOUS
<1>2. x \in Seq(ToSet(x)) /\ DOMAIN x = 1..Len(x)
  BY <1>1, Sequence
<1>3. QED
  BY <1>1, <1>2 DEF ToSet

\* Deriving the clusters and items of a review changes nothing else.
LEMMA DerivedFields ==
  ASSUME NEW r, DOMAIN r = ReviewFields
  PROVE  /\ DOMAIN RefreshDerived(r) = ReviewFields
         /\ RefreshDerived(r).segments = r.segments /\ RefreshDerived(r).terms = r.terms
         /\ RefreshDerived(r).applications = r.applications
         /\ RefreshDerived(r).history = r.history /\ RefreshDerived(r).splits = r.splits
         /\ RefreshDerived(r).clusters = RefreshedClusters(r.segments, r.clusters)
<1>1. PICK d : d = [r EXCEPT !.clusters = RefreshedClusters(r.segments, @),
                             !.items = ExtractReviewItems(r.segments, @), !.completed = FALSE]
  OBVIOUS
<1>2. /\ DOMAIN d = ReviewFields /\ d.segments = r.segments /\ d.terms = r.terms
      /\ d.applications = r.applications /\ d.history = r.history /\ d.splits = r.splits
      /\ d.clusters = RefreshedClusters(r.segments, r.clusters)
  BY <1>1 DEF ReviewFields
<1>3. RefreshDerived(r) = RefreshReviewBlockers(d)
  BY <1>1 DEF RefreshDerived
<1>4. \E items : RefreshReviewBlockers(d) = [d EXCEPT !.items = items]
  <2>1. PICK items : items = RefreshReviewBlockers(d).items
    OBVIOUS
  <2>2. RefreshReviewBlockers(d) = [d EXCEPT !.items = items]
    BY <1>2, <2>1 DEF RefreshReviewBlockers, ReviewFields
  <2>3. QED
    BY <2>2
<1>5. QED
  BY <1>2, <1>3, <1>4 DEF ReviewFields

\* What a review must have for its derivation to be in order.
Derivable(r) ==
  /\ DOMAIN r = ReviewFields /\ WellFormed(r.segments) /\ TextsInv(r)
  /\ \A i \in r.items : i.status \in Judgements
  /\ r.splits \in Nat /\ r.clusters \in Seq(ToSet(r.clusters)) /\ Identified(r.clusters, r.splits)

\* What is derived of such a review puts it in order.
LEMMA DerivedFull ==
  ASSUME NEW r, Derivable(r)
  PROVE  /\ FullInv(RefreshDerived(r)) /\ Once(RefreshDerived(r))
         /\ Partition(r.segments, RefreshDerived(r).clusters)
<1>1. PICK d : d = RefreshDerived(r)
  OBVIOUS
<1>2. /\ DOMAIN d = ReviewFields /\ d.segments = r.segments /\ d.terms = r.terms
      /\ d.applications = r.applications /\ d.history = r.history /\ d.splits = r.splits
      /\ d.clusters = RefreshedClusters(r.segments, r.clusters)
  BY <1>1, DerivedFields DEF Derivable
<1>3. ReviewOK(d)
  BY <1>1, DerivedOK DEF Derivable
<1>4. TextsInv(d)
  BY <1>2 DEF Derivable, TextsInv
<1>5. Partition(d.segments, d.clusters) /\ Identified(d.clusters, d.splits)
  BY <1>2, RefreshedOK DEF Derivable
<1>6. SpeakersTyped(d.segments) /\ WellFormed(d.segments) /\ d.splits \in Nat
  BY <1>2 DEF Derivable, TextsInv, Typed, SegmentTyped, SpeakersTyped
<1>7. ClustersInv(d) /\ Once(d)
  BY <1>5, <1>6, PartitionOK
<1>8. QED
  BY <1>1, <1>2, <1>3, <1>4, <1>5, <1>7 DEF FullInv

\* A review in order stays derivable when its sentences, its terms and its traces
\* are changed in order.
LEMMA StillDerivable ==
  ASSUME NEW r, FullInv(r), NEW d, DOMAIN d = ReviewFields, WellFormed(d.segments), TextsInv(d),
         d.items = r.items, d.splits = r.splits, d.clusters = r.clusters
  PROVE  Derivable(d)
BY Judged DEF Derivable, FullInv, ClustersInv, ClustersTyped

-----------------------------------------------------------------------------
(* A patch of a sentence. *)

Patched(s, patch) == [f \in DOMAIN s |-> IF f \in DOMAIN patch THEN patch[f] ELSE s[f]]
PatchedAt(t, ids, patch) ==
  [k \in DOMAIN t |-> IF t[k].id \in ids THEN Patched(t[k], patch) ELSE t[k]]

PatchTyped(patch) ==
  /\ "id" \notin DOMAIN patch
  /\ \A f \in DOMAIN patch : f \in {"raw", "normalized", "edited"} => patch[f] \in Seq(Vocabulary)
  /\ "speaker" \in DOMAIN patch => patch["speaker"] \in Names \X Nat
  /\ "status" \in DOMAIN patch => patch["status"] \in Statements

\* The sentences keep their ids, and their types.
LEMMA PatchedSegments ==
  ASSUME NEW t, WellFormed(t), NEW ids, NEW patch, PatchTyped(patch)
  PROVE  LET u == PatchedAt(t, ids, patch) IN
         /\ WellFormed(u)
         /\ Typed(t) => Typed(u)
         /\ DOMAIN u = DOMAIN t /\ Ids(u) = Ids(t) /\ \A k \in DOMAIN t : u[k].id = t[k].id
         /\ "edited" \notin DOMAIN patch => \A k \in DOMAIN t : u[k].edited = t[k].edited
<1>1. PICK u : u = PatchedAt(t, ids, patch)
  OBVIOUS
<1>2. /\ DOMAIN t = 1..Len(t) /\ Len(t) \in Nat
      /\ \A k \in DOMAIN t : t[k] \in ToSet(t) /\ DOMAIN t[k] = Fields
  BY Positions
<1>3. ASSUME NEW s, DOMAIN s = Fields
      PROVE  /\ DOMAIN Patched(s, patch) = Fields /\ Patched(s, patch).id = s.id
             /\ SegmentTyped(s) => SegmentTyped(Patched(s, patch))
             /\ "edited" \notin DOMAIN patch => Patched(s, patch).edited = s.edited
  <2>1. PICK p : p = Patched(s, patch)
    OBVIOUS
  <2>2. /\ DOMAIN p = Fields
        /\ \A f \in Fields : p[f] = IF f \in DOMAIN patch THEN patch[f] ELSE s[f]
    BY <1>3, <2>1 DEF Patched
  <2>3. p.id = s.id /\ ("edited" \notin DOMAIN patch => p.edited = s.edited)
    BY <2>2 DEF Fields, PatchTyped
  <2>4. ASSUME SegmentTyped(s) PROVE SegmentTyped(p)
    <3>1. p.raw \in Seq(Vocabulary) /\ p.normalized \in Seq(Vocabulary) /\ p.edited \in Seq(Vocabulary)
      BY <2>2, <2>4 DEF Fields, PatchTyped, SegmentTyped
    <3>2. p.speaker \in Names \X Nat /\ p.status \in Statements
      BY <2>2, <2>4 DEF Fields, PatchTyped, SegmentTyped
    <3>3. QED
      BY <3>1, <3>2 DEF SegmentTyped
  <2>5. QED
    BY <2>1, <2>2, <2>3, <2>4
<1>4. ASSUME NEW k \in DOMAIN t
      PROVE  /\ DOMAIN u[k] = Fields /\ u[k].id = t[k].id
             /\ SegmentTyped(t[k]) => SegmentTyped(u[k])
             /\ "edited" \notin DOMAIN patch => u[k].edited = t[k].edited
  <2>1. u[k] = IF t[k].id \in ids THEN Patched(t[k], patch) ELSE t[k]
    BY <1>1 DEF PatchedAt
  <2>2. QED
    BY <1>2, <1>3, <2>1
<1>5. DOMAIN u = DOMAIN t /\ u = [k \in DOMAIN t |-> u[k]]
  BY <1>1 DEF PatchedAt
<1>6. WellFormed(u)
  BY <1>4, <1>5, Mapped
<1>7. Ids(u) = Ids(t)
  <2>1. Ids(u) = {u[k].id : k \in DOMAIN u}
    BY DEF Ids, ToSet
  <2>2. Ids(t) = {t[k].id : k \in DOMAIN t}
    BY DEF Ids, ToSet
  <2>3. QED
    BY <1>4, <1>5, <2>1, <2>2
<1>8. ASSUME Typed(t) PROVE Typed(u)
  <2>1. \A k \in DOMAIN t : SegmentTyped(t[k])
    BY <1>2, <1>8 DEF Typed
  <2>2. \A k \in DOMAIN u : SegmentTyped(u[k])
    BY <1>4, <1>5, <2>1
  <2>3. QED
    BY <2>2 DEF Typed, ToSet
<1>9. QED
  BY <1>1, <1>4, <1>5, <1>6, <1>7, <1>8

\* What a patch makes of a review: d is in order, its clusters those of its
\* sentences, and what has changed of the sentence is recorded.
PatchResult(r, id, patch, source, d) ==
  LET old == Get(r.segments, id) IN
  /\ FullInv(d) /\ Once(d) /\ Partition(d.segments, d.clusters)
  /\ d.segments = PatchedAt(r.segments, {id}, patch)
  /\ d.history = r.history \o PatchEvents(old, Patched(old, patch), source)
  /\ d.terms = r.terms /\ d.applications = r.applications /\ d.splits = r.splits
  /\ d.clusters = RefreshedClusters(d.segments, r.clusters)
  /\ old.id = id /\ \E k \in DOMAIN r.segments : r.segments[k] = old

\* Patching a sentence does so.
LEMMA PatchFull ==
  ASSUME NEW r, FullInv(r), NEW id \in Ids(r.segments), NEW patch, PatchTyped(patch), NEW source
  PROVE  PatchResult(r, id, patch, source, PatchReviewSegment(r, id, patch, source))
<1>0. PICK d, old : d = PatchReviewSegment(r, id, patch, source) /\ old = Get(r.segments, id)
  OBVIOUS
<1>1. PICK t : t = r.segments /\ WellFormed(t) /\ DOMAIN r = ReviewFields
  BY DEF FullInv, ReviewOK
<1>2. PICK k \in DOMAIN t : t[k].id = id
  BY <1>1 DEF Ids, ToSet
<1>3. old = Get(t, id)
  BY <1>0, <1>1
<1>4. \A j \in DOMAIN t : t[j] \in ToSet(t)
  BY DEF ToSet
<1>5. old = t[k] /\ old.id = id
  BY <1>1, <1>2, <1>3, <1>4, Found
<1>6. PICK new : new = Patched(old, patch)
  OBVIOUS
<1>7. PICK h : h = PatchEvents(old, new, source)
  OBVIOUS
<1>8. PICK u : u = PatchedAt(t, {id}, patch)
  OBVIOUS
<1>9. u = [j \in DOMAIN t |-> IF t[j].id = id THEN new ELSE t[j]]
  <2>1. \A j \in DOMAIN t : t[j].id = id => t[j] = old
    BY <1>1, <1>2, <1>5 DEF WellFormed
  <2>2. QED
    BY <1>6, <1>8, <2>1 DEF PatchedAt
<1>10. PICK e : e = [r EXCEPT !.segments = u, !.history = r.history \o h]
  OBVIOUS
<1>11. PatchReviewSegment(r, id, patch, source) = RefreshDerived(e)
  BY <1>1, <1>3, <1>6, <1>7, <1>9, <1>10 DEF PatchReviewSegment, Patched
<1>12. /\ DOMAIN e = ReviewFields /\ e.segments = u /\ e.history = r.history \o h
       /\ e.terms = r.terms /\ e.applications = r.applications /\ e.splits = r.splits
       /\ e.clusters = r.clusters /\ e.items = r.items
  BY <1>1, <1>10 DEF ReviewFields
<1>13. WellFormed(u) /\ Typed(u) /\ Ids(u) = Ids(t)
  <2>1. Typed(t)
    BY <1>1 DEF FullInv, TextsInv
  <2>2. QED
    BY <1>1, <1>8, <2>1, PatchedSegments
<1>14. TraceOf(u, e.history)
  <2>1. h \in Seq(ToSet(h)) /\ \A x \in ToSet(h) : x.segment = old.id
    BY <1>7, EventsOfPatch
  <2>2. r.history \in Seq(ToSet(r.history)) /\ \A x \in ToSet(r.history) : x.segment \in Ids(t)
    BY <1>1 DEF FullInv, TextsInv, TraceOf
  <2>3. e.history \in Seq(ToSet(e.history)) /\ ToSet(e.history) = ToSet(r.history) \cup ToSet(h)
    BY <1>12, <2>1, <2>2, Joined
  <2>4. id \in Ids(t)
    BY <1>1
  <2>5. QED
    BY <1>5, <1>13, <2>1, <2>2, <2>3, <2>4 DEF TraceOf
<1>15. TextsInv(e)
  BY <1>1, <1>12, <1>13, <1>14 DEF TextsInv, FullInv, TraceOf
<1>16. Derivable(e)
  BY <1>12, <1>13, <1>15, StillDerivable
<1>17. d = RefreshDerived(e)
  BY <1>0, <1>11
<1>18. FullInv(d) /\ Once(d) /\ Partition(e.segments, d.clusters)
  BY <1>16, <1>17, DerivedFull
<1>19. /\ d.segments = e.segments /\ d.terms = e.terms /\ d.applications = e.applications
       /\ d.history = e.history /\ d.splits = e.splits
       /\ d.clusters = RefreshedClusters(e.segments, e.clusters)
  BY <1>12, <1>17, DerivedFields
<1>20. PatchResult(r, id, patch, source, d)
  BY <1>0, <1>1, <1>5, <1>6, <1>7, <1>8, <1>12, <1>18, <1>19 DEF PatchResult
<1>21. QED
  BY <1>0, <1>20

\* A review begun with a transcript is in order.
LEMMA CreatedFull ==
  ASSUME NEW t, WellFormed(t), Typed(t)
  PROVE  FullInv(CreateReview(t)) /\ Once(CreateReview(t))
<1>1. PICK c : c = CreateReview(t)
  OBVIOUS
<1>2. /\ c.segments = t /\ c.terms = <<>> /\ c.applications = <<>> /\ c.history = <<>>
      /\ c.clusters = BuildSpeakerClusters(t) /\ c.splits = 0
  BY <1>1 DEF CreateReview
<1>3. TextsInv(c)
  <2>1. <<>> \in TermLists
    BY DEF TermLists
  <2>2. TraceOf(t, <<>>)
    BY DEF TraceOf, ToSet
  <2>3. QED
    BY <1>2, <2>1, <2>2 DEF TextsInv
<1>4. Partition(t, c.clusters) /\ \A k \in DOMAIN c.clusters : BuiltId(c.clusters[k].id, c.clusters[k].label)
  BY <1>2, BuiltOK
<1>5. Identified(c.clusters, c.splits)
  BY <1>4 DEF Identified, ActiveAt, BuiltId, Partition
<1>6. SpeakersTyped(t)
  BY DEF Typed, SegmentTyped, SpeakersTyped
<1>7. QED
  BY <1>1, <1>2, <1>3, <1>4, <1>5, <1>6, PartitionOK, CreatedOK DEF FullInv

\* What is kept of a trace is about the sentences that remain.
LEMMA AboutOK ==
  ASSUME NEW seq, seq \in Seq(ToSet(seq)), NEW t
  PROVE  TraceOf(t, About(seq, t))
<1>1. PICK kept : kept = {k \in DOMAIN seq : seq[k].segment \in Ids(t)}
  OBVIOUS
<1>2. PICK h : h = SelectAt(seq, kept)
  OBVIOUS
<1>3. /\ h \in Seq(ToSet(seq)) /\ Len(h) = Cardinality(kept)
      /\ \A i \in 1..Cardinality(kept) : Position(kept, i) \in kept /\ h[i] = seq[Position(kept, i)]
  BY <1>1, <1>2, SelectionOK
<1>4. h \in Seq(ToSet(h)) /\ DOMAIN h = 1..Len(h)
  BY <1>3, Narrowed
<1>5. \A i \in 1..Len(h) : h[i].segment \in Ids(t)
  BY <1>1, <1>3
<1>6. \A e \in ToSet(h) : e.segment \in Ids(t)
  BY <1>4, <1>5 DEF ToSet
<1>7. QED
  BY <1>1, <1>2, <1>4, <1>6 DEF About, TraceOf

\* A transcript from elsewhere leaves a review in order, and divided into clusters
\* unless it is the same.
LEMMA MergedFull ==
  ASSUME NEW r, FullInv(r), NEW t, WellFormed(t), Typed(t)
  PROVE  /\ FullInv(MergeIncoming(r, t))
         /\ Once(r) => Once(MergeIncoming(r, t))
<1> DEFINE merged == [k \in DOMAIN t |->
      IF t[k].id \in Ids(r.segments)
        THEN [t[k] EXCEPT !.raw = Get(r.segments, t[k].id).raw,
                          !.normalized = Get(r.segments, t[k].id).normalized]
        ELSE t[k]]
<1>1. PICK old : old = r.segments /\ WellFormed(old) /\ Typed(old)
  BY DEF FullInv, ReviewOK, TextsInv
<1>2. DOMAIN t = 1..Len(t) /\ \A k \in DOMAIN t : t[k] \in ToSet(t) /\ DOMAIN t[k] = Fields
  BY Positions
<1>3. ASSUME NEW k \in DOMAIN t
      PROVE  DOMAIN merged[k] = Fields /\ merged[k].id = t[k].id /\ SegmentTyped(merged[k])
  <2>1. DOMAIN t[k] = Fields /\ SegmentTyped(t[k])
    BY <1>2 DEF Typed
  <2>2. CASE t[k].id \in Ids(old)
    <3>1. PICK s \in ToSet(old) : s.id = t[k].id
      BY <2>2 DEF Ids
    <3>2. Get(old, t[k].id) = s
      BY <1>1, <3>1, Found
    <3>3. SegmentTyped(s)
      BY <1>1 DEF Typed
    <3>4. merged[k] = [t[k] EXCEPT !.raw = s.raw, !.normalized = s.normalized]
      BY <1>1, <2>2, <3>2
    <3>5. /\ DOMAIN merged[k] = Fields /\ merged[k].id = t[k].id /\ merged[k].raw = s.raw
          /\ merged[k].normalized = s.normalized /\ merged[k].edited = t[k].edited
          /\ merged[k].speaker = t[k].speaker /\ merged[k].status = t[k].status
      BY <2>1, <3>4 DEF Fields
    <3>6. QED
      BY <2>1, <3>3, <3>5 DEF SegmentTyped
  <2>3. CASE t[k].id \notin Ids(old)
    BY <1>1, <2>1, <2>3
  <2>4. QED
    BY <2>2, <2>3
<1>4. PICK u : u = merged
  OBVIOUS
<1>5. DOMAIN u = DOMAIN t /\ u = [k \in DOMAIN t |-> u[k]]
  BY <1>4
<1>6. \A k \in DOMAIN t : DOMAIN u[k] = Fields /\ u[k].id = t[k].id /\ SegmentTyped(u[k])
  BY <1>3, <1>4
<1>7. WellFormed(u) /\ Typed(u)
  <2>1. WellFormed(u)
    BY <1>5, <1>6, Mapped
  <2>2. QED
    BY <1>5, <1>6, <2>1 DEF Typed, ToSet
<1>8. PICK c : c = CreateReview(u)
  OBVIOUS
<1>9. FullInv(c) /\ Once(c) /\ c.segments = u /\ DOMAIN c = ReviewFields
  BY <1>7, <1>8, CreatedFull DEF CreateReview, ReviewFields
<1>10. PICK d : d = [c EXCEPT !.terms = r.terms, !.applications = About(r.applications, u),
                             !.history = About(r.history, u)]
  OBVIOUS
<1>11. /\ DOMAIN d = ReviewFields /\ d.segments = c.segments /\ d.items = c.items
       /\ d.completed = c.completed /\ d.clusters = c.clusters /\ d.splits = c.splits
       /\ d.terms = r.terms /\ d.applications = About(r.applications, u)
       /\ d.history = About(r.history, u)
  BY <1>9, <1>10 DEF ReviewFields
<1>12. ReviewOK(d)
  BY <1>9, <1>11, OthersOK DEF FullInv
<1>13. Once(d) /\ ClustersInv(d)
  BY <1>9, <1>11 DEF FullInv, ClustersInv, Once, ClustersOf
<1>14. TextsInv(d)
  <2>1. r.history \in Seq(ToSet(r.history)) /\ r.applications \in Seq(ToSet(r.applications))
    BY DEF FullInv, TextsInv, TraceOf
  <2>2. TraceOf(u, d.history) /\ TraceOf(u, d.applications)
    BY <1>11, <2>1, AboutOK
  <2>3. r.terms \in TermLists
    BY DEF FullInv, TextsInv
  <2>4. QED
    BY <1>7, <1>9, <1>11, <2>2, <2>3 DEF TextsInv
<1>15. MergeIncoming(r, t) \in {r, d}
  BY <1>4, <1>8, <1>10 DEF MergeIncoming
<1>16. QED
  BY <1>12, <1>13, <1>14, <1>15 DEF FullInv

-----------------------------------------------------------------------------
(* New texts for the sentences. *)

\* The segments and the events of new texts: an event for each that changes.
RewriteResult(r, texts, source, d, h, changed) ==
  /\ DOMAIN d = ReviewFields /\ WellFormed(d.segments) /\ TextsInv(d)
  /\ d.items = r.items /\ d.splits = r.splits /\ d.clusters = r.clusters
  /\ d.terms = r.terms /\ d.applications = r.applications
  /\ DOMAIN d.segments = DOMAIN r.segments /\ Ids(d.segments) = Ids(r.segments)
  /\ \A k \in DOMAIN r.segments :
       d.segments[k].id = r.segments[k].id /\ d.segments[k].edited = texts[k]
  /\ d.history = r.history \o h /\ h \in Seq(ToSet(h)) /\ Len(h) = Cardinality(changed)
  /\ \A i \in 1..Len(h) :
       /\ Position(changed, i) \in changed
       /\ h[i] = Event(r.segments[Position(changed, i)].id, "EDITED_TEXT",
                       r.segments[Position(changed, i)].edited,
                       texts[Position(changed, i)], source)
  /\ \A i, j \in 1..Len(h) : Position(changed, i) = Position(changed, j) => i = j
  /\ \A k \in changed : \E i \in 1..Len(h) : Position(changed, i) = k

\* New texts give these segments and events.
LEMMA RewrittenFull ==
  ASSUME NEW r, FullInv(r), NEW texts, NEW source, texts = [k \in DOMAIN r.segments |-> texts[k]],
         \A k \in DOMAIN r.segments : texts[k] \in Seq(Vocabulary)
  PROVE  RewriteResult(r, texts, source, Rewritten(r, texts, source),
                       RewriteEvents(r.segments, texts, source),
                       {k \in DOMAIN texts : texts[k] # r.segments[k].edited})
<1>1. PICK t : t = r.segments /\ WellFormed(t) /\ Typed(t) /\ DOMAIN r = ReviewFields
  BY DEF FullInv, ReviewOK, TextsInv
<1>2. /\ DOMAIN t = 1..Len(t) /\ Len(t) \in Nat
      /\ \A k \in DOMAIN t : t[k] \in ToSet(t) /\ DOMAIN t[k] = Fields
  BY <1>1, Positions
<1>3. PICK u : u = [k \in DOMAIN t |-> [t[k] EXCEPT !.edited = texts[k]]]
  OBVIOUS
<1>4. PICK h : h = RewriteEvents(t, texts, source)
  OBVIOUS
<1>5. PICK d : d = Rewritten(r, texts, source)
  OBVIOUS
<1>6. /\ DOMAIN d = ReviewFields /\ d.segments = u /\ d.history = r.history \o h
      /\ d.items = r.items /\ d.splits = r.splits /\ d.clusters = r.clusters
      /\ d.terms = r.terms /\ d.applications = r.applications
  BY <1>1, <1>3, <1>4, <1>5 DEF Rewritten, ReviewFields
<1>7. ASSUME NEW k \in DOMAIN t
      PROVE  /\ DOMAIN u[k] = Fields /\ u[k].id = t[k].id /\ u[k].edited = texts[k]
             /\ SegmentTyped(u[k])
  <2>1. DOMAIN t[k] = Fields /\ SegmentTyped(t[k]) /\ texts[k] \in Seq(Vocabulary)
    BY <1>1, <1>2 DEF Typed
  <2>2. u[k] = [t[k] EXCEPT !.edited = texts[k]]
    BY <1>3
  <2>3. /\ DOMAIN u[k] = Fields /\ u[k].id = t[k].id /\ u[k].edited = texts[k]
        /\ u[k].raw = t[k].raw /\ u[k].normalized = t[k].normalized
        /\ u[k].speaker = t[k].speaker /\ u[k].status = t[k].status
    BY <2>1, <2>2 DEF Fields
  <2>4. QED
    BY <2>1, <2>3 DEF SegmentTyped
<1>8. DOMAIN u = DOMAIN t /\ u = [k \in DOMAIN t |-> u[k]]
  BY <1>3
<1>9. WellFormed(u) /\ Typed(u) /\ Ids(u) = Ids(t)
  <2>1. WellFormed(u)
    BY <1>1, <1>7, <1>8, Mapped
  <2>2. Typed(u)
    BY <1>7, <1>8 DEF Typed, ToSet
  <2>3. Ids(u) = {u[k].id : k \in DOMAIN u} /\ Ids(t) = {t[k].id : k \in DOMAIN t}
    BY DEF Ids, ToSet
  <2>4. Ids(u) = Ids(t)
    <3>1. \A k \in DOMAIN t : u[k].id = t[k].id
      BY <1>7
    <3>2. QED
      BY <1>8, <2>3, <3>1
  <2>5. QED
    BY <2>1, <2>2, <2>4
<1>10. PICK changed : changed = {k \in DOMAIN texts : texts[k] # t[k].edited}
  OBVIOUS
<1>11. PICK all : all = [k \in DOMAIN texts |->
                          Event(t[k].id, "EDITED_TEXT", t[k].edited, texts[k], source)]
  OBVIOUS
<1>12. DOMAIN texts = DOMAIN t
  BY <1>1
<1>13. h = SelectAt(all, changed)
  BY <1>4, <1>10, <1>11 DEF RewriteEvents
<1>14. all \in Seq(ToSet(all)) /\ DOMAIN all = DOMAIN t
  <2>1. all = [k \in 1..Len(t) |-> all[k]]
    BY <1>2, <1>11, <1>12
  <2>2. QED
    BY <1>2, <2>1, Sequence
<1>15. /\ h \in Seq(ToSet(all)) /\ Len(h) = Cardinality(changed)
       /\ \A i \in 1..Cardinality(changed) :
            Position(changed, i) \in changed /\ h[i] = all[Position(changed, i)]
       /\ \A i, j \in 1..Cardinality(changed) : Position(changed, i) = Position(changed, j) => i = j
       /\ \A k \in changed : \E i \in 1..Cardinality(changed) : Position(changed, i) = k
  <2>1. changed \in SUBSET DOMAIN all
    BY <1>10, <1>12, <1>14
  <2>2. QED
    BY <1>13, <1>14, <2>1, SelectionOK
<1>16. \A k \in changed :
         k \in DOMAIN t /\ all[k] = Event(t[k].id, "EDITED_TEXT", t[k].edited, texts[k], source)
  BY <1>10, <1>11, <1>12
<1>17. h \in Seq(ToSet(h)) /\ DOMAIN h = 1..Len(h)
  BY <1>15, Narrowed
<1>18. TraceOf(u, d.history)
  <2>1. \A i \in 1..Len(h) : h[i].segment \in Ids(t)
    <3>1. ASSUME NEW i \in 1..Len(h) PROVE h[i].segment \in Ids(t)
      <4>1. PICK k \in DOMAIN t : h[i] = Event(t[k].id, "EDITED_TEXT", t[k].edited, texts[k], source)
        BY <1>15, <1>16
      <4>2. h[i].segment = t[k].id
        BY <4>1 DEF Event
      <4>3. QED
        BY <1>2, <4>2 DEF Ids
    <3>2. QED
      BY <3>1
  <2>2. \A e \in ToSet(h) : e.segment \in Ids(u)
    BY <1>9, <1>17, <2>1 DEF ToSet
  <2>3. r.history \in Seq(ToSet(r.history)) /\ \A x \in ToSet(r.history) : x.segment \in Ids(u)
    BY <1>1, <1>9 DEF FullInv, TextsInv, TraceOf
  <2>4. d.history \in Seq(ToSet(d.history)) /\ ToSet(d.history) = ToSet(r.history) \cup ToSet(h)
    BY <1>6, <1>17, <2>3, Joined
  <2>5. QED
    BY <2>2, <2>3, <2>4 DEF TraceOf
<1>19. TextsInv(d)
  BY <1>1, <1>6, <1>9, <1>18 DEF TextsInv, FullInv, TraceOf
<1>20. \A i \in 1..Len(h) :
         /\ Position(changed, i) \in changed
         /\ h[i] = Event(t[Position(changed, i)].id, "EDITED_TEXT", t[Position(changed, i)].edited,
                         texts[Position(changed, i)], source)
  BY <1>15, <1>16
<1>21. PICK L : L = Len(h) /\ L = Cardinality(changed)
  BY <1>15
<1>22. PICK pos : pos = [i \in 1..L |-> Position(changed, i)]
  OBVIOUS
<1>23. /\ \A k \in DOMAIN t : u[k].id = t[k].id /\ u[k].edited = texts[k]
       /\ DOMAIN u = DOMAIN t /\ Ids(u) = Ids(t)
  BY <1>7, <1>8, <1>9
<1>24. /\ \A i, j \in 1..L : Position(changed, i) = Position(changed, j) => i = j
       /\ \A k \in changed : \E i \in 1..L : Position(changed, i) = k
  BY <1>15, <1>21
<1>25. changed = {k \in DOMAIN texts : texts[k] # r.segments[k].edited}
  BY <1>1, <1>10
<1>26. RewriteResult(r, texts, source, d, h, changed)
  BY <1>1, <1>6, <1>9, <1>17, <1>19, <1>20, <1>21, <1>23, <1>24 DEF RewriteResult
<1>27. QED
  BY <1>1, <1>4, <1>5, <1>25, <1>26

-----------------------------------------------------------------------------
(* Folds over a sequence of words, of terms or of corrections.             *)

\* What is so of no positions, and of some when it is so of all but the last of
\* them, is so of all.
LEMMA ByMaximum ==
  ASSUME NEW n \in Nat, NEW good, {} \in good,
         \A s \in SUBSET (1..n) : s # {} /\ s \ {Max(s)} \in good => s \in good
  PROVE  \A s \in SUBSET (1..n) : s \in good
<1> DEFINE bad == {m \in 0..n : \E s \in SUBSET (1..m) : s \notin good}
<1>1. SUFFICES ASSUME bad # {} PROVE FALSE
  OBVIOUS
<1>2. bad \subseteq Nat
  OBVIOUS
<1>3. PICK m \in bad : \A k \in bad : m <= k
  BY <1>1, <1>2, Least
<1>4. PICK s \in SUBSET (1..m) : s \notin good
  OBVIOUS
<1>5. m \in 0..n /\ s \in SUBSET (1..n)
  BY <1>3
<1>6. s # {}
  BY <1>4
<1>7. PICK u : u = s \ {Max(s)}
  OBVIOUS
<1>8. Max(s) \in 1..m /\ u \in SUBSET (1..(Max(s) - 1))
  BY <1>4, <1>5, <1>6, <1>7, Greatest
<1>9. Max(s) - 1 \in 0..n /\ ~(m <= Max(s) - 1)
  BY <1>5, <1>8
<1>10. u \in good
  <2>1. Max(s) - 1 \notin bad
    BY <1>3, <1>9
  <2>2. QED
    BY <1>8, <1>9, <2>1
<1>11. QED
  BY <1>4, <1>5, <1>6, <1>7, <1>10

\* A fold whose step is a function.
Fold(g, n, base, step) ==
  g = [s \in SUBSET (1..n) |->
         IF s = {} THEN base ELSE step[<<g[s \ {Max(s)}], Max(s)>>]]

\* There is a fold over any number of positions.
LEMMA FoldExists ==
  ASSUME NEW base, NEW step
  PROVE  \A n \in Nat : \E g : Fold(g, n, base, step)
<1> DEFINE bad == {n \in Nat : ~ \E g : Fold(g, n, base, step)}
<1>1. SUFFICES ASSUME bad # {} PROVE FALSE
  OBVIOUS
<1>2. PICK n \in bad : \A m \in bad : n <= m
  BY <1>1, Least
<1>3. n \in Nat /\ ~ \E g : Fold(g, n, base, step)
  OBVIOUS
<1> HIDE DEF bad
<1>4. CASE n = 0
  <2>1. PICK g : g = [s \in SUBSET (1..0) |-> base]
    OBVIOUS
  <2>2. \A s \in SUBSET (1..0) : s = {}
    OBVIOUS
  <2>3. Fold(g, 0, base, step)
    BY <2>1, <2>2 DEF Fold
  <2>4. QED
    BY <1>3, <1>4, <2>3
<1>5. CASE n # 0
  <2>1. n - 1 \in Nat /\ n - 1 \notin bad
    BY <1>2, <1>3, <1>5
  <2>2. PICK g : Fold(g, n - 1, base, step)
    BY <2>1 DEF bad
  <2>3. PICK h : h = [s \in SUBSET (1..n) |->
                       IF s = {} THEN base ELSE step[<<g[s \ {Max(s)}], Max(s)>>]]
    OBVIOUS
  <2>4. ASSUME NEW s \in SUBSET (1..n), s # {}
        PROVE  g[s \ {Max(s)}] = h[s \ {Max(s)}]
    <3>1. PICK u : u = s \ {Max(s)}
      OBVIOUS
    <3>2. Max(s) \in 1..n /\ u \in SUBSET (1..(Max(s) - 1))
      BY <1>3, <2>4, <3>1, Greatest
    <3>3. u \in SUBSET (1..(n - 1)) /\ u \in SUBSET (1..n)
      BY <1>3, <3>2
    <3>4. g[u] = (IF u = {} THEN base ELSE step[<<g[u \ {Max(u)}], Max(u)>>])
      BY <2>2, <3>3 DEF Fold
    <3>5. h[u] = (IF u = {} THEN base ELSE step[<<g[u \ {Max(u)}], Max(u)>>])
      BY <2>3, <3>3
    <3>6. QED
      BY <3>1, <3>4, <3>5
  <2>5. h = [s \in SUBSET (1..n) |->
               IF s = {} THEN base ELSE step[<<h[s \ {Max(s)}], Max(s)>>]]
    BY <2>3, <2>4
  <2>6. QED
    BY <1>3, <2>5 DEF Fold
<1>6. QED
  BY <1>4, <1>5

\* A fold whose steps stay in a set stays in it.
LEMMA FoldStays ==
  ASSUME NEW n \in Nat, NEW X, NEW base \in X, NEW step \in [X \X (1..n) -> X],
         NEW g, Fold(g, n, base, step)
  PROVE  \A s \in SUBSET (1..n) : g[s] \in X
<1>1. PICK good : good = {s \in SUBSET (1..n) : g[s] \in X}
  OBVIOUS
<1>2. {} \in good
  BY <1>1 DEF Fold
<1>3. ASSUME NEW s \in SUBSET (1..n), s # {}, s \ {Max(s)} \in good PROVE s \in good
  <2>1. Max(s) \in 1..n
    BY <1>3, Greatest
  <2>2. g[s] = step[<<g[s \ {Max(s)}], Max(s)>>]
    BY <1>3 DEF Fold
  <2>3. QED
    BY <1>1, <1>3, <2>1, <2>2
<1>4. \A s \in SUBSET (1..n) : s \in good
  BY <1>2, <1>3, ByMaximum
<1>5. QED
  BY <1>1, <1>4

\* A sequence of sequences, made flat.
Flattening(f, m, seqs) == f = [i \in 1..m |-> IF i = 1 THEN seqs[i] ELSE f[i - 1] \o seqs[i]]

\* Flat, they are a sequence of the elements.
LEMMA Flattened ==
  ASSUME NEW S, NEW seqs \in Seq(Seq(S))
  PROVE  FlattenSeq(seqs) \in Seq(S)
<1>1. PICK n \in Nat : n = Len(seqs) /\ \A i \in 1..n : seqs[i] \in Seq(S)
  OBVIOUS
<1>2. CASE n = 0
  <2>1. Len(seqs) = 0
    BY <1>1, <1>2
  <2>2. FlattenSeq(seqs) = seqs
    BY <2>1 DEF FlattenSeq
  <2>3. seqs = <<>>
    BY <2>1, EmptySeq
  <2>4. <<>> \in Seq(S)
    BY EmptySeq
  <2>5. QED
    BY <2>2, <2>3, <2>4
<1>3. CASE n # 0
  <2>1. \A m \in 1..n : \E f : Flattening(f, m, seqs)
    <3> DEFINE bad == {m \in 1..n : ~ \E f : Flattening(f, m, seqs)}
    <3>1. SUFFICES ASSUME bad # {} PROVE FALSE
      OBVIOUS
    <3>2. bad \subseteq Nat
      OBVIOUS
    <3>3. PICK m \in bad : \A k \in bad : m <= k
      BY <3>1, <3>2, Least
    <3>4. m \in 1..n /\ ~ \E f : Flattening(f, m, seqs)
      OBVIOUS
    <3>5. CASE m = 1
      <4>1. PICK f : f = [i \in 1..1 |-> seqs[i]]
        OBVIOUS
      <4>2. Flattening(f, 1, seqs)
        BY <4>1 DEF Flattening
      <4>3. QED
        BY <3>4, <3>5, <4>2
    <3>6. CASE m # 1
      <4>1. m - 1 \in 1..n /\ ~(m <= m - 1)
        BY <3>4, <3>6
      <4>2. m - 1 \notin bad
        BY <3>3, <4>1
      <4>3. PICK f : Flattening(f, m - 1, seqs)
        BY <4>1, <4>2
      <4>4. PICK h : h = [i \in 1..m |-> IF i = 1 THEN seqs[i] ELSE f[i - 1] \o seqs[i]]
        OBVIOUS
      <4>5. \A i \in 1..m : i # 1 => i - 1 \in 1..(m - 1)
        BY <3>4
      <4>6. \A i \in 1..(m - 1) : h[i] = f[i]
        <5>1. \A i \in 1..(m - 1) : i \in 1..m
          BY <3>4
        <5>2. \A i \in 1..(m - 1) : f[i] = IF i = 1 THEN seqs[i] ELSE f[i - 1] \o seqs[i]
          BY <4>3 DEF Flattening
        <5>3. QED
          BY <4>4, <5>1, <5>2
      <4>7. Flattening(h, m, seqs)
        BY <4>4, <4>5, <4>6 DEF Flattening
      <4>8. QED
        BY <3>4, <4>7
    <3>7. QED
      BY <3>5, <3>6
  <2>2. n \in 1..n
    BY <1>3
  <2>3. \E f : Flattening(f, n, seqs)
    BY <2>1, <2>2
  <2>4. PICK f : f = CHOOSE e : Flattening(e, n, seqs)
    OBVIOUS
  <2>5. Flattening(f, n, seqs)
    BY <2>3, <2>4
  <2>6. FlattenSeq(seqs) = f[n]
    BY <1>1, <1>3, <2>4 DEF FlattenSeq, Flattening
  <2>7. ASSUME NEW wrong, wrong = {i \in 1..n : f[i] \notin Seq(S)}, wrong # {} PROVE FALSE
    <3>1. wrong \subseteq Nat
      BY <2>7
    <3>2. PICK i \in wrong : \A k \in wrong : i <= k
      BY <2>7, <3>1, Least
    <3>3. i \in 1..n /\ f[i] \notin Seq(S)
      BY <2>7
    <3>4. f[i] = IF i = 1 THEN seqs[i] ELSE f[i - 1] \o seqs[i]
      BY <2>5, <3>3 DEF Flattening
    <3>5. i # 1 => i - 1 \in 1..n /\ ~(i <= i - 1)
      BY <3>3
    <3>6. i # 1 => f[i - 1] \in Seq(S)
      BY <2>7, <3>2, <3>5
    <3>7. seqs[i] \in Seq(S)
      BY <1>1, <3>3
    <3>8. QED
      BY <3>3, <3>4, <3>6, <3>7, ConcatProperties
  <2>8. QED
    BY <2>2, <2>6, <2>7
<1>4. QED
  BY <1>2, <1>3

-----------------------------------------------------------------------------
(* The dictionary: words corrected in a text, and the terms. *)

Corrections == [term : Vocabulary, alias : Vocabulary]
Logged ==
  [term : Vocabulary, alias : Vocabulary, before : Seq(Vocabulary), after : Seq(Vocabulary)]
Working == [text : Seq(Vocabulary), log : Seq(Logged)]

\* A function on an initial interval with values in a set is a sequence of it.
LEMMA Listed ==
  ASSUME NEW S, NEW n \in Nat, NEW f, f = [k \in 1..n |-> f[k]], \A k \in 1..n : f[k] \in S
  PROVE  f \in Seq(S) /\ Len(f) = n /\ DOMAIN f = 1..n
<1>1. f \in [1..n -> S]
  OBVIOUS
<1>2. QED
  BY <1>1

\* A word replaced by another leaves a text.
LEMMA RewriteTyped ==
  ASSUME NEW text \in Seq(Vocabulary), NEW word, NEW by \in Vocabulary
  PROVE  Rewrite(text, word, by) \in Seq(Vocabulary)
<1>1. PICK n \in Nat : n = Len(text) /\ DOMAIN text = 1..n /\ \A k \in 1..n : text[k] \in Vocabulary
  OBVIOUS
<1>2. PICK f : f = Rewrite(text, word, by)
  OBVIOUS
<1>3. f = [i \in 1..n |-> IF text[i] = word THEN by ELSE text[i]]
  BY <1>1, <1>2 DEF Rewrite
<1>4. f = [i \in 1..n |-> f[i]] /\ \A i \in 1..n : f[i] \in Vocabulary
  BY <1>1, <1>3
<1>5. QED
  BY <1>2, <1>4, Listed

\* The corrections that the terms call for.
LEMMA ReplacementsTyped ==
  ASSUME NEW terms \in TermLists
  PROVE  Replacements(terms) \in Seq(Corrections)
<1> DEFINE aliases(k) == Without(terms[k].aliases, {terms[k].term})
           one(k) == [i \in DOMAIN aliases(k) |-> [term |-> terms[k].term, alias |-> aliases(k)[i]]]
<1>1. PICK n \in Nat : /\ n = Len(terms) /\ DOMAIN terms = 1..n
                       /\ \A k \in 1..n : terms[k] \in DictionaryTerms
  BY DEF TermLists
<1>2. ASSUME NEW k \in 1..n PROVE one(k) \in Seq(Corrections)
  <2>1. terms[k].term \in Vocabulary /\ terms[k].aliases \in Seq(Vocabulary)
    BY <1>1 DEF DictionaryTerms
  <2>2. PICK a : a = aliases(k)
    OBVIOUS
  <2>3. a \in Seq(Vocabulary)
    <3>1. PICK seq \in Seq(Vocabulary) : seq = terms[k].aliases
      BY <2>1
    <3>2. PICK kept : kept = {i \in DOMAIN seq : seq[i] \notin {terms[k].term}}
      OBVIOUS
    <3>3. a = SelectAt(seq, kept)
      BY <2>2, <3>1, <3>2 DEF Without
    <3>4. QED
      BY <3>2, <3>3, SelectionOK
  <2>4. PICK f : f = [i \in DOMAIN a |-> [term |-> terms[k].term, alias |-> a[i]]]
    OBVIOUS
  <2>5. PICK m \in Nat : m = Len(a) /\ DOMAIN a = 1..m /\ \A i \in 1..m : a[i] \in Vocabulary
    BY <2>3
  <2>6. f = [i \in 1..m |-> f[i]] /\ \A i \in 1..m : f[i] \in Corrections
    BY <2>1, <2>4, <2>5 DEF Corrections
  <2>7. f \in Seq(Corrections)
    BY <2>6, Listed
  <2>8. QED
    BY <2>2, <2>4, <2>7
<1>3. PICK all : all = [k \in DOMAIN terms |-> one(k)]
  OBVIOUS
<1>4. Replacements(terms) = FlattenSeq(all)
  BY <1>3 DEF Replacements
<1> HIDE DEF one
<1>5. all = [k \in 1..n |-> all[k]] /\ \A k \in 1..n : all[k] \in Seq(Corrections)
  BY <1>1, <1>2, <1>3
<1>6. all \in Seq(Seq(Corrections))
  BY <1>5, Listed
<1>7. QED
  BY <1>4, <1>6, Flattened

\* One correction of a text, and the loop over all of them.
CorrectOne(acc, p) ==
  IF Rewrite(acc.text, p.alias, p.term) = acc.text THEN acc
  ELSE [text |-> Rewrite(acc.text, p.alias, p.term),
        log |-> Append(acc.log, [term |-> p.term, alias |-> p.alias, before |-> acc.text,
                                 after |-> Rewrite(acc.text, p.alias, p.term)])]

Correcting(g, n, text, replacements) ==
  g = [s \in SUBSET (1..n) |->
         IF s = {} THEN [text |-> text, log |-> <<>>]
         ELSE CorrectOne(g[s \ {Max(s)}], replacements[Max(s)])]

\* A corrected text, and the log of its corrections, have their types.
LEMMA CorrectedTyped ==
  ASSUME NEW text \in Seq(Vocabulary), NEW replacements \in Seq(Corrections)
  PROVE  Corrected(text, replacements) \in Working
<1>1. PICK n \in Nat : /\ n = Len(replacements) /\ DOMAIN replacements = 1..n
                       /\ \A k \in 1..n : replacements[k] \in Corrections
  OBVIOUS
<1>2. PICK base : base = [text |-> text, log |-> <<>>]
  OBVIOUS
<1>3. base \in Working
  <2>1. <<>> \in Seq(Logged)
    BY EmptySeq
  <2>2. QED
    BY <1>2, <2>1 DEF Working
<1>4. ASSUME NEW acc \in Working, NEW p \in Corrections PROVE CorrectOne(acc, p) \in Working
  <2>1. acc.text \in Seq(Vocabulary) /\ acc.log \in Seq(Logged)
    BY DEF Working
  <2>2. p.term \in Vocabulary /\ p.alias \in Vocabulary
    BY DEF Corrections
  <2>3. PICK after : after = Rewrite(acc.text, p.alias, p.term)
    OBVIOUS
  <2>4. after \in Seq(Vocabulary)
    BY <2>1, <2>2, <2>3, RewriteTyped
  <2>5. PICK e : e = [term |-> p.term, alias |-> p.alias, before |-> acc.text, after |-> after]
    OBVIOUS
  <2>6. e \in Logged
    BY <2>1, <2>2, <2>4, <2>5 DEF Logged
  <2>7. Append(acc.log, e) \in Seq(Logged)
    BY <2>1, <2>6
  <2>8. [text |-> after, log |-> Append(acc.log, e)] \in Working
    BY <2>4, <2>7 DEF Working
  <2>9. CorrectOne(acc, p) \in {acc, [text |-> after, log |-> Append(acc.log, e)]}
    BY <2>3, <2>5 DEF CorrectOne
  <2>10. QED
    BY <2>8, <2>9
<1>5. PICK step : step = [q \in Working \X (1..n) |-> CorrectOne(q[1], replacements[q[2]])]
  OBVIOUS
<1>6. step \in [Working \X (1..n) -> Working]
  BY <1>1, <1>4, <1>5
<1>7. PICK h : Fold(h, n, base, step)
  BY FoldExists
<1>8. \A s \in SUBSET (1..n) : h[s] \in Working
  BY <1>3, <1>6, <1>7, FoldStays
<1>9. Correcting(h, n, text, replacements)
  <2>1. ASSUME NEW s \in SUBSET (1..n), s # {}
        PROVE  step[<<h[s \ {Max(s)}], Max(s)>>] = CorrectOne(h[s \ {Max(s)}], replacements[Max(s)])
    <3>1. Max(s) \in 1..n /\ s \ {Max(s)} \in SUBSET (1..n)
      BY <2>1, Greatest
    <3>2. h[s \ {Max(s)}] \in Working
      BY <1>8, <3>1
    <3>3. QED
      BY <1>5, <3>1, <3>2
  <2>2. QED
    BY <1>2, <1>7, <2>1 DEF Fold, Correcting
<1>10. PICK g : g = CHOOSE f : Correcting(f, n, text, replacements)
  OBVIOUS
<1>11. Correcting(g, n, text, replacements)
  BY <1>9, <1>10
<1>12. Corrected(text, replacements) = g[1..n]
  BY <1>1, <1>10 DEF Corrected, FoldLeft, MapThenFoldSet, Correcting, CorrectOne
<1>13. PICK good : good = {s \in SUBSET (1..n) : g[s] \in Working}
  OBVIOUS
<1>14. {} \in good
  BY <1>2, <1>3, <1>11, <1>13 DEF Correcting
<1>15. ASSUME NEW s \in SUBSET (1..n), s # {}, s \ {Max(s)} \in good PROVE s \in good
  <2>1. Max(s) \in 1..n
    BY <1>15, Greatest
  <2>2. g[s] = CorrectOne(g[s \ {Max(s)}], replacements[Max(s)])
    BY <1>11, <1>15 DEF Correcting
  <2>3. g[s \ {Max(s)}] \in Working /\ replacements[Max(s)] \in Corrections
    BY <1>1, <1>13, <1>15, <2>1
  <2>4. QED
    BY <1>4, <1>13, <2>2, <2>3
<1>16. \A s \in SUBSET (1..n) : s \in good
  BY <1>14, <1>15, ByMaximum
<1>17. QED
  BY <1>12, <1>13, <1>16

\* A term added, with its aliases, leaves a dictionary.
LEMMA WithTermTyped ==
  ASSUME NEW terms \in TermLists, NEW term \in Vocabulary, NEW aliases \in Seq(Vocabulary)
  PROVE  WithTerm(terms, term, aliases) \in TermLists
<1>1. ASSUME NEW seq \in Seq(Vocabulary) PROVE Distinct(seq) \in Seq(Vocabulary)
  <2>1. PICK kept : kept = {k \in DOMAIN seq : \A j \in 1..k-1 : seq[j] # seq[k]}
    OBVIOUS
  <2>2. Distinct(seq) = SelectAt(seq, kept) /\ kept \in SUBSET DOMAIN seq
    BY <2>1 DEF Distinct
  <2>3. QED
    BY <2>2, SelectionOK
<1>2. Without(aliases, {Blank}) \in Seq(Vocabulary)
  <2>1. PICK kept : kept = {k \in DOMAIN aliases : aliases[k] \notin {Blank}}
    OBVIOUS
  <2>2. Without(aliases, {Blank}) = SelectAt(aliases, kept) /\ kept \in SUBSET DOMAIN aliases
    BY <2>1 DEF Without
  <2>3. QED
    BY <2>2, SelectionOK
<1>3. PICK clean : clean = Distinct(Without(aliases, {Blank}))
  OBVIOUS
<1>4. clean \in Seq(Vocabulary)
  BY <1>1, <1>2, <1>3
<1>5. PICK limited : limited = SubSeq(clean, 1, IF Len(clean) < AliasLimit THEN Len(clean) ELSE AliasLimit)
  OBVIOUS
<1>6. limited \in Seq(Vocabulary)
  <2>1. PICK m : m = IF Len(clean) < AliasLimit THEN Len(clean) ELSE AliasLimit
    OBVIOUS
  <2>2. m \in Int /\ m <= Len(clean) /\ Len(clean) \in Nat /\ 1 \in Int
    BY <1>4, <2>1, InputsWellFormed
  <2>3. \A k \in 1..m : k \in 1..Len(clean)
    BY <2>2
  <2>4. \A k \in 1..m : clean[k] \in Vocabulary
    BY <1>4, <2>3
  <2>5. QED
    BY <1>5, <2>1, <2>2, <2>4, SubSeqProperties
<1>7. PICK n \in Nat : /\ n = Len(terms) /\ DOMAIN terms = 1..n
                       /\ \A k \in 1..n : terms[k] \in DictionaryTerms
  BY DEF TermLists
<1>8. CASE term = Blank
  BY <1>8 DEF WithTerm
<1>9. CASE term # Blank /\ \E t \in ToSet(terms) : t.term = term
  <2>1. PICK new : new = [k \in DOMAIN terms |->
          IF terms[k].term # term THEN terms[k]
          ELSE [terms[k] EXCEPT !.aliases = Distinct(@ \o limited)]]
    OBVIOUS
  <2>2. WithTerm(terms, term, aliases) = new
    BY <1>3, <1>5, <1>9, <2>1 DEF WithTerm
  <2>3. ASSUME NEW k \in 1..n PROVE new[k] \in DictionaryTerms
    <3>1. PICK t \in DictionaryTerms : t = terms[k]
      BY <1>7
    <3>2. t.aliases \in Seq(Vocabulary)
      BY DEF DictionaryTerms
    <3>3. PICK a : a = Distinct(t.aliases \o limited)
      OBVIOUS
    <3>4. a \in Seq(Vocabulary)
      BY <1>1, <1>6, <3>2, <3>3, ConcatProperties
    <3>5. [t EXCEPT !.aliases = a] \in DictionaryTerms
      BY <3>4 DEF DictionaryTerms
    <3>6. new[k] \in {t, [t EXCEPT !.aliases = a]}
      BY <1>7, <2>1, <3>1, <3>3
    <3>7. QED
      BY <3>5, <3>6
  <2>4. new = [k \in 1..n |-> new[k]]
    BY <1>7, <2>1
  <2>5. QED
    BY <2>2, <2>3, <2>4, Listed DEF TermLists
<1>10. CASE term # Blank /\ ~ \E t \in ToSet(terms) : t.term = term
  <2>1. PICK e : e = [term |-> term, aliases |-> limited]
    OBVIOUS
  <2>2. e \in DictionaryTerms
    BY <1>6, <2>1 DEF DictionaryTerms
  <2>3. WithTerm(terms, term, aliases) = Append(terms, e)
    BY <1>3, <1>5, <1>10, <2>1 DEF WithTerm
  <2>4. QED
    BY <2>2, <2>3 DEF TermLists
<1>11. QED
  BY <1>8, <1>9, <1>10

\* A term removed leaves a dictionary.
LEMMA WithoutTermTyped ==
  ASSUME NEW terms \in TermLists, NEW term
  PROVE  WithoutTerm(terms, term) \in TermLists
<1>1. PICK kept : kept = {k \in DOMAIN terms : terms[k].term # term}
  OBVIOUS
<1>2. WithoutTerm(terms, term) = SelectAt(terms, kept) /\ kept \in SUBSET DOMAIN terms
  BY <1>1 DEF WithoutTerm
<1>3. QED
  BY <1>2, SelectionOK DEF TermLists

\* The loop of an import.
Importing(g, n, terms, rows) ==
  g = [s \in SUBSET (1..n) |->
         IF s = {} THEN terms
         ELSE WithTerm(g[s \ {Max(s)}], rows[Max(s)].term, rows[Max(s)].aliases)]

\* An imported dictionary is one.
LEMMA WithRowsTyped ==
  ASSUME NEW terms \in TermLists, NEW rows \in Seq(DictionaryTerms)
  PROVE  WithRows(terms, rows) \in TermLists
<1>1. PICK n \in Nat : /\ n = Len(rows) /\ DOMAIN rows = 1..n
                       /\ \A k \in 1..n : rows[k] \in DictionaryTerms
  OBVIOUS
<1>2. ASSUME NEW acc \in TermLists, NEW k \in 1..n
      PROVE  WithTerm(acc, rows[k].term, rows[k].aliases) \in TermLists
  <2>1. rows[k].term \in Vocabulary /\ rows[k].aliases \in Seq(Vocabulary)
    BY <1>1 DEF DictionaryTerms
  <2>2. QED
    BY <2>1, WithTermTyped
<1>3. PICK step : step = [q \in TermLists \X (1..n) |->
                            WithTerm(q[1], rows[q[2]].term, rows[q[2]].aliases)]
  OBVIOUS
<1>4. step \in [TermLists \X (1..n) -> TermLists]
  BY <1>2, <1>3
<1>5. PICK h : Fold(h, n, terms, step)
  BY FoldExists
<1>6. \A s \in SUBSET (1..n) : h[s] \in TermLists
  BY <1>4, <1>5, FoldStays
<1>7. Importing(h, n, terms, rows)
  <2>1. ASSUME NEW s \in SUBSET (1..n), s # {}
        PROVE  step[<<h[s \ {Max(s)}], Max(s)>>]
                 = WithTerm(h[s \ {Max(s)}], rows[Max(s)].term, rows[Max(s)].aliases)
    <3>1. Max(s) \in 1..n /\ s \ {Max(s)} \in SUBSET (1..n)
      BY <2>1, Greatest
    <3>2. h[s \ {Max(s)}] \in TermLists
      BY <1>6, <3>1
    <3>3. QED
      BY <1>3, <3>1, <3>2
  <2>2. QED
    BY <1>5, <2>1 DEF Fold, Importing
<1>8. PICK g : g = CHOOSE f : Importing(f, n, terms, rows)
  OBVIOUS
<1>9. Importing(g, n, terms, rows)
  BY <1>7, <1>8
<1>10. WithRows(terms, rows) = g[1..n]
  BY <1>1, <1>8 DEF WithRows, FoldLeft, MapThenFoldSet, Importing
<1>11. PICK good : good = {s \in SUBSET (1..n) : g[s] \in TermLists}
  OBVIOUS
<1>12. {} \in good
  BY <1>9, <1>11 DEF Importing
<1>13. ASSUME NEW s \in SUBSET (1..n), s # {}, s \ {Max(s)} \in good PROVE s \in good
  <2>1. Max(s) \in 1..n
    BY <1>13, Greatest
  <2>2. g[s] = WithTerm(g[s \ {Max(s)}], rows[Max(s)].term, rows[Max(s)].aliases)
    BY <1>9, <1>13 DEF Importing
  <2>3. QED
    BY <1>2, <1>11, <1>13, <2>1, <2>2
<1>14. \A s \in SUBSET (1..n) : s \in good
  BY <1>12, <1>13, ByMaximum
<1>15. QED
  BY <1>10, <1>11, <1>14

-----------------------------------------------------------------------------
(* The traces that the operations leave. *)

Recorded(r, d, id) ==
  {k \in (Len(r.history) + 1)..Len(d.history) :
     /\ d.history[k].segment = id
     /\ d.history[k].field = "EDITED_TEXT"}

TraceStep(r, d) ==
  /\ IsPrefix(r.history, d.history)
  /\ \A s \in ToSet(r.segments), n \in ToSet(d.segments) : n.id = s.id =>
       IF n.edited = s.edited THEN Recorded(r, d, s.id) = {}
       ELSE \E k \in Recorded(r, d, s.id) :
              /\ Recorded(r, d, s.id) = {k} /\ d.history[k].previous = s.edited
              /\ d.history[k].next = n.edited

\* The events, among those of an operation, of the text of a sentence.
Own(h, id) == {k \in 1..Len(h) : h[k].segment = id /\ h[k].field = "EDITED_TEXT"}

EventsMatch(r, d, h) ==
  \A k \in DOMAIN r.segments :
    IF d.segments[k].edited = r.segments[k].edited THEN Own(h, r.segments[k].id) = {}
    ELSE \E i \in Own(h, r.segments[k].id) :
           /\ Own(h, r.segments[k].id) = {i} /\ h[i].previous = r.segments[k].edited
           /\ h[i].next = d.segments[k].edited

\* A trace is that of the operation's own events.
LEMMA Traced ==
  ASSUME NEW r, WellFormed(r.segments), r.history \in Seq(ToSet(r.history)),
         NEW d, DOMAIN d.segments = DOMAIN r.segments,
         \A k \in DOMAIN r.segments : d.segments[k].id = r.segments[k].id,
         NEW h, h \in Seq(ToSet(h)), d.history = r.history \o h, EventsMatch(r, d, h)
  PROVE  TraceStep(r, d)
<1>1. PICK n, m \in Nat : n = Len(r.history) /\ m = Len(h)
  OBVIOUS
<1>2. /\ d.history \in Seq(ToSet(d.history)) /\ Len(d.history) = n + m
      /\ \A k \in 1..n : d.history[k] = r.history[k]
      /\ \A k \in 1..m : d.history[n + k] = h[k]
  BY <1>1, Joined
<1>3. IsPrefix(r.history, d.history)
  <2>1. Len(r.history) <= Len(d.history)
    BY <1>1, <1>2
  <2>2. SubSeq(r.history, 1, n) = r.history
    BY <1>1, SubSeqFull
  <2>3. SubSeq(d.history, 1, n) = r.history
    <3>1. PICK a : a = SubSeq(d.history, 1, n)
      OBVIOUS
    <3>2. a = [k \in 1..n |-> d.history[k]]
      BY <1>1, <1>2, <3>1
    <3>3. PICK b : b = r.history
      OBVIOUS
    <3>4. b \in Seq(ToSet(b)) /\ n = Len(b)
      BY <1>1, <3>3
    <3>5. b = [k \in 1..n |-> b[k]]
      BY <3>4
    <3>6. QED
      BY <1>2, <3>1, <3>2, <3>3, <3>5
  <2>4. QED
    BY <1>1, <2>1, <2>2, <2>3 DEF IsPrefix
<1>4. ASSUME NEW id PROVE Recorded(r, d, id) = {n + i : i \in Own(h, id)}
  <2>1. PICK R : R = Recorded(r, d, id)
    OBVIOUS
  <2>2. R = {k \in (n + 1)..(n + m) : d.history[k].segment = id /\ d.history[k].field = "EDITED_TEXT"}
    BY <1>1, <1>2, <2>1 DEF Recorded
  <2>3. ASSUME NEW k \in R PROVE k \in {n + i : i \in Own(h, id)}
    <3>1. k - n \in 1..m /\ n + (k - n) = k
      BY <1>1, <2>2
    <3>2. d.history[k] = h[k - n]
      BY <1>2, <3>1
    <3>3. k - n \in Own(h, id)
      BY <1>1, <2>2, <3>1, <3>2 DEF Own
    <3>4. QED
      BY <3>1, <3>3
  <2>4. ASSUME NEW i \in Own(h, id) PROVE n + i \in R
    <3>1. i \in 1..m /\ h[i].segment = id /\ h[i].field = "EDITED_TEXT"
      BY <1>1 DEF Own
    <3>2. n + i \in (n + 1)..(n + m) /\ d.history[n + i] = h[i]
      BY <1>1, <1>2, <3>1
    <3>3. QED
      BY <2>2, <3>1, <3>2
  <2>5. QED
    BY <2>1, <2>3, <2>4
<1>5. ASSUME NEW s \in ToSet(r.segments), NEW x \in ToSet(d.segments), x.id = s.id
      PROVE  IF x.edited = s.edited THEN Recorded(r, d, s.id) = {}
             ELSE \E k \in Recorded(r, d, s.id) :
                    /\ Recorded(r, d, s.id) = {k} /\ d.history[k].previous = s.edited
                    /\ d.history[k].next = x.edited
  <2>1. PICK j \in DOMAIN r.segments : r.segments[j] = s
    BY DEF ToSet
  <2>2. PICK k \in DOMAIN r.segments : d.segments[k] = x
    BY DEF ToSet
  <2>3. r.segments[k] = s
    BY <1>5, <2>1, <2>2 DEF WellFormed
  <2>4. PICK R, O : R = Recorded(r, d, s.id) /\ O = Own(h, s.id) /\ R = {n + i : i \in O}
    BY <1>4
  <2>5. CASE x.edited = s.edited
    BY <2>2, <2>3, <2>4, <2>5 DEF EventsMatch
  <2>6. CASE x.edited # s.edited
    <3>1. PICK i \in O : O = {i} /\ h[i].previous = s.edited /\ h[i].next = x.edited
      BY <2>2, <2>3, <2>4, <2>6 DEF EventsMatch
    <3>2. i \in 1..m
      BY <1>1, <2>4, <3>1 DEF Own
    <3>3. R = {n + i}
      BY <2>4, <3>1
    <3>4. d.history[n + i] = h[i]
      BY <1>2, <3>2
    <3>5. PICK p : p = n + i
      OBVIOUS
    <3>6. p \in R /\ R = {p} /\ d.history[p].previous = s.edited /\ d.history[p].next = x.edited
      BY <3>1, <3>3, <3>4, <3>5
    <3>7. QED
      BY <2>4, <2>6, <3>6
  <2>7. QED
    BY <2>5, <2>6
<1>6. QED
  BY <1>3, <1>5 DEF TraceStep

\* An operation that records no text and changes none leaves its trace.
LEMMA QuietTraced ==
  ASSUME NEW r, WellFormed(r.segments), r.history \in Seq(ToSet(r.history)),
         NEW d, DOMAIN d.segments = DOMAIN r.segments,
         \A k \in DOMAIN r.segments :
           d.segments[k].id = r.segments[k].id /\ d.segments[k].edited = r.segments[k].edited,
         NEW h, h \in Seq(ToSet(h)), d.history = r.history \o h,
         \A k \in 1..Len(h) : h[k].field # "EDITED_TEXT"
  PROVE  TraceStep(r, d)
<1>1. \A id : Own(h, id) = {}
  BY DEF Own
<1>2. QED
  BY <1>1, Traced DEF EventsMatch

\* A patch leaves the trace of the text it gives.
LEMMA PatchTraced ==
  ASSUME NEW r, FullInv(r), NEW id \in Ids(r.segments), NEW patch, PatchTyped(patch), NEW source
  PROVE  TraceStep(r, PatchReviewSegment(r, id, patch, source))
<1>1. PICK d : d = PatchReviewSegment(r, id, patch, source)
  OBVIOUS
<1>2. PICK t : t = r.segments /\ WellFormed(t) /\ r.history \in Seq(ToSet(r.history))
  BY DEF FullInv, ReviewOK, TextsInv, TraceOf
<1>3. PICK old : old = Get(r.segments, id)
  OBVIOUS
<1>4. PICK new : new = Patched(old, patch)
  OBVIOUS
<1>5. PICK h : h = PatchEvents(old, new, source)
  OBVIOUS
<1>6. /\ d.segments = PatchedAt(t, {id}, patch) /\ d.history = r.history \o h
      /\ old.id = id /\ \E k \in DOMAIN t : t[k] = old
  <2>1. PatchResult(r, id, patch, source, d)
    BY <1>1, PatchFull
  <2>2. /\ d.segments = PatchedAt(r.segments, {id}, patch)
        /\ d.history = r.history \o PatchEvents(old, Patched(old, patch), source)
        /\ old.id = id /\ \E k \in DOMAIN r.segments : r.segments[k] = old
    BY <1>3, <2>1 DEF PatchResult
  <2>3. QED
    BY <1>2, <1>4, <1>5, <2>2
<1>7. /\ h \in Seq(ToSet(h)) /\ Len(h) \in Nat /\ \A k \in 1..Len(h) : h[k].segment = id
      /\ new.edited = old.edited => \A k \in 1..Len(h) : h[k].field # "EDITED_TEXT"
      /\ new.edited # old.edited =>
           /\ Len(h) >= 1 /\ h[1] = Event(id, "EDITED_TEXT", old.edited, new.edited, source)
           /\ \A k \in 1..Len(h) : k # 1 => h[k].field # "EDITED_TEXT"
  BY <1>5, <1>6, EventsOfPatch
<1>8. DOMAIN d.segments = DOMAIN t /\ \A k \in DOMAIN t : d.segments[k].id = t[k].id
  BY <1>2, <1>6, PatchedSegments
<1>9. ASSUME NEW k \in DOMAIN t
      PROVE  IF d.segments[k].edited = t[k].edited THEN Own(h, t[k].id) = {}
             ELSE \E i \in Own(h, t[k].id) :
                    /\ Own(h, t[k].id) = {i} /\ h[i].previous = t[k].edited
                    /\ h[i].next = d.segments[k].edited
  <2>1. CASE t[k].id # id
    <3>1. d.segments[k] = t[k]
      BY <1>6, <2>1 DEF PatchedAt
    <3>2. Own(h, t[k].id) = {}
      BY <1>7, <2>1 DEF Own
    <3>3. QED
      BY <3>1, <3>2
  <2>2. CASE t[k].id = id
    <3>1. t[k] = old
      BY <1>2, <1>6, <2>2 DEF WellFormed
    <3>2. d.segments[k] = new
      BY <1>4, <1>6, <2>2, <3>1 DEF PatchedAt
    <3>3. CASE new.edited = old.edited
      <4>1. Own(h, id) = {}
        BY <1>7, <3>3 DEF Own
      <4>2. QED
        BY <2>2, <3>1, <3>2, <3>3, <4>1
    <3>4. CASE new.edited # old.edited
      <4>1. 1 \in 1..Len(h) /\ h[1] = Event(id, "EDITED_TEXT", old.edited, new.edited, source)
        BY <1>7, <3>4
      <4>2. /\ h[1].segment = id /\ h[1].field = "EDITED_TEXT"
            /\ h[1].previous = old.edited /\ h[1].next = new.edited
        BY <4>1 DEF Event
      <4>3. Own(h, id) = {1}
        BY <1>7, <3>4, <4>1, <4>2 DEF Own
      <4>4. QED
        BY <2>2, <3>1, <3>2, <3>4, <4>2, <4>3
    <3>5. QED
      BY <3>3, <3>4
  <2>3. QED
    BY <2>1, <2>2
<1>10. EventsMatch(r, d, h)
  BY <1>2, <1>9 DEF EventsMatch
<1>11. /\ DOMAIN d.segments = DOMAIN r.segments
       /\ \A k \in DOMAIN r.segments : d.segments[k].id = r.segments[k].id
       /\ WellFormed(r.segments) /\ r.history \in Seq(ToSet(r.history))
       /\ h \in Seq(ToSet(h)) /\ d.history = r.history \o h
  BY <1>2, <1>6, <1>7, <1>8
<1>12. TraceStep(r, d)
  BY <1>10, <1>11, Traced
<1>13. QED
  BY <1>1, <1>12

\* New texts for the sentences leave a review in order, and their trace.
LEMMA TextsFull ==
  ASSUME NEW r, FullInv(r), NEW texts, NEW source, texts = [k \in DOMAIN r.segments |-> texts[k]],
         \A k \in DOMAIN r.segments : texts[k] \in Seq(Vocabulary),
         NEW w, w = Rewritten(r, texts, source),
         NEW e, DOMAIN e = ReviewFields, e.segments = w.segments, e.terms = w.terms,
         e.history = w.history, e.items = w.items, e.splits = w.splits, e.clusters = w.clusters,
         TraceOf(r.segments, e.applications)
  PROVE  /\ FullInv(RefreshDerived(e)) /\ Once(RefreshDerived(e))
         /\ TraceStep(r, RefreshDerived(e))
<1>1. PICK t : t = r.segments /\ WellFormed(t) /\ r.history \in Seq(ToSet(r.history))
  BY DEF FullInv, ReviewOK, TextsInv, TraceOf
<1>2. PICK h : h = RewriteEvents(r.segments, texts, source)
  OBVIOUS
<1>3. PICK changed : changed = {k \in DOMAIN texts : texts[k] # r.segments[k].edited}
  OBVIOUS
<1>4. RewriteResult(r, texts, source, w, h, changed)
  BY <1>2, <1>3, RewrittenFull
<1>5. /\ WellFormed(w.segments) /\ TextsInv(w) /\ w.items = r.items /\ w.splits = r.splits
      /\ w.clusters = r.clusters /\ DOMAIN w.segments = DOMAIN t /\ Ids(w.segments) = Ids(t)
      /\ \A k \in DOMAIN t : w.segments[k].id = t[k].id /\ w.segments[k].edited = texts[k]
      /\ w.history = r.history \o h /\ h \in Seq(ToSet(h))
  BY <1>1, <1>4 DEF RewriteResult
<1>6. PICK L \in Nat : L = Len(h)
  <2>1. h \in Seq(ToSet(h))
    BY <1>5
  <2>2. QED
    BY <2>1
<1>7. /\ \A i \in 1..L :
           /\ Position(changed, i) \in changed
           /\ h[i] = Event(t[Position(changed, i)].id, "EDITED_TEXT", t[Position(changed, i)].edited,
                           texts[Position(changed, i)], source)
      /\ \A i, j \in 1..L : Position(changed, i) = Position(changed, j) => i = j
      /\ \A k \in changed : \E i \in 1..L : Position(changed, i) = k
  BY <1>1, <1>4, <1>6 DEF RewriteResult
<1>8. changed = {k \in DOMAIN t : texts[k] # t[k].edited}
  BY <1>1, <1>3
<1>9. TextsInv(e)
  BY <1>1, <1>5 DEF TextsInv, TraceOf
<1>10. Derivable(e)
  BY <1>5, <1>9, StillDerivable
<1>11. PICK d : d = RefreshDerived(e)
  OBVIOUS
<1>12. FullInv(d) /\ Once(d)
  BY <1>10, <1>11, DerivedFull
<1>13. d.segments = w.segments /\ d.history = r.history \o h
  BY <1>5, <1>11, DerivedFields
<1>14. ASSUME NEW k \in DOMAIN t
       PROVE  IF d.segments[k].edited = t[k].edited THEN Own(h, t[k].id) = {}
              ELSE \E i \in Own(h, t[k].id) :
                     /\ Own(h, t[k].id) = {i} /\ h[i].previous = t[k].edited
                     /\ h[i].next = d.segments[k].edited
  <2>1. d.segments[k].edited = texts[k]
    BY <1>5, <1>13
  <2>2. ASSUME NEW i \in 1..L
        PROVE  \E j \in changed : /\ j = Position(changed, i) /\ j \in DOMAIN t
                                  /\ h[i].segment = t[j].id /\ h[i].field = "EDITED_TEXT"
                                  /\ h[i].previous = t[j].edited /\ h[i].next = texts[j]
    <3>1. PICK j \in changed : j = Position(changed, i)
      BY <1>7
    <3>2. j \in DOMAIN t
      BY <1>8
    <3>3. h[i] = Event(t[j].id, "EDITED_TEXT", t[j].edited, texts[j], source)
      BY <1>7, <3>1
    <3>4. /\ h[i].segment = t[j].id /\ h[i].field = "EDITED_TEXT"
          /\ h[i].previous = t[j].edited /\ h[i].next = texts[j]
      BY <3>3 DEF Event
    <3>5. QED
      BY <3>1, <3>2, <3>4
  <2>3. ASSUME NEW i \in 1..L, h[i].segment = t[k].id
        PROVE  k \in changed /\ k = Position(changed, i)
    <3>1. PICK j \in changed : j = Position(changed, i) /\ j \in DOMAIN t /\ h[i].segment = t[j].id
      BY <2>2
    <3>2. j = k
      BY <1>1, <2>3, <3>1 DEF WellFormed
    <3>3. QED
      BY <3>1, <3>2
  <2>4. CASE texts[k] = t[k].edited
    <3>1. k \notin changed
      BY <1>8, <2>4
    <3>2. Own(h, t[k].id) = {}
      BY <1>6, <2>3, <3>1 DEF Own
    <3>3. QED
      BY <2>1, <2>4, <3>2
  <2>5. CASE texts[k] # t[k].edited
    <3>1. k \in changed
      BY <1>8, <2>5
    <3>2. PICK i \in 1..L : Position(changed, i) = k
      BY <1>7, <3>1
    <3>3. /\ h[i].segment = t[k].id /\ h[i].field = "EDITED_TEXT"
          /\ h[i].previous = t[k].edited /\ h[i].next = texts[k]
      BY <2>2, <3>2
    <3>4. PICK O : O = Own(h, t[k].id)
      OBVIOUS
    <3>5. i \in O
      BY <1>6, <3>3, <3>4 DEF Own
    <3>6. ASSUME NEW j \in O PROVE j = i
      <4>1. j \in 1..L /\ h[j].segment = t[k].id
        BY <1>6, <3>4 DEF Own
      <4>2. Position(changed, j) = k
        BY <2>3, <4>1
      <4>3. QED
        BY <1>7, <3>2, <4>1, <4>2
    <3>7. O = {i}
      BY <3>5, <3>6
    <3>8. QED
      BY <2>1, <2>5, <3>3, <3>4, <3>5, <3>7
  <2>6. QED
    BY <2>4, <2>5
<1>15. EventsMatch(r, d, h)
  BY <1>1, <1>14 DEF EventsMatch
<1>16. /\ DOMAIN d.segments = DOMAIN r.segments
       /\ \A k \in DOMAIN r.segments : d.segments[k].id = r.segments[k].id
       /\ WellFormed(r.segments) /\ r.history \in Seq(ToSet(r.history))
       /\ h \in Seq(ToSet(h)) /\ d.history = r.history \o h
  BY <1>1, <1>5, <1>13
<1>17. TraceStep(r, d)
  BY <1>15, <1>16, Traced
<1>18. QED
  BY <1>11, <1>12, <1>17

\* What an operation on the texts makes of a review.
TextsResult(r, d) == FullInv(d) /\ Once(d) /\ TraceStep(r, d)

\* Replacing a word everywhere.
LEMMA ReplaceFull ==
  ASSUME NEW r, FullInv(r), NEW find, NEW by \in Vocabulary
  PROVE  TextsResult(r, ReplaceTranscriptText(r, find, by))
<1>1. PICK texts : texts = Replaced(r, find, by)
  OBVIOUS
<1>2. PICK w : w = Rewritten(r, texts, "USER")
  OBVIOUS
<1>3. texts = [k \in DOMAIN r.segments |-> texts[k]]
  BY <1>1 DEF Replaced
<1>4. ASSUME NEW k \in DOMAIN r.segments PROVE texts[k] \in Seq(Vocabulary)
  <2>1. r.segments[k].edited \in Seq(Vocabulary)
    BY DEF FullInv, TextsInv, Typed, SegmentTyped, ToSet
  <2>2. QED
    BY <1>1, <2>1, RewriteTyped DEF Replaced
<1>5. RewriteResult(r, texts, "USER", w, RewriteEvents(r.segments, texts, "USER"),
                    {k \in DOMAIN texts : texts[k] # r.segments[k].edited})
  BY <1>2, <1>3, <1>4, RewrittenFull
<1>6. DOMAIN w = ReviewFields /\ w.applications = r.applications
  BY <1>5 DEF RewriteResult
<1>7. TraceOf(r.segments, w.applications)
  BY <1>6 DEF FullInv, TextsInv
<1>8. ReplaceTranscriptText(r, find, by) = RefreshDerived(w)
  BY <1>1, <1>2 DEF ReplaceTranscriptText
<1>9. FullInv(RefreshDerived(w)) /\ Once(RefreshDerived(w)) /\ TraceStep(r, RefreshDerived(w))
  BY <1>2, <1>3, <1>4, <1>6, <1>7, TextsFull
<1>10. QED
  BY <1>8, <1>9 DEF TextsResult

\* The applications that a dictionary adds are of the sentences.
LEMMA ApplicationsTraced ==
  ASSUME NEW t, WellFormed(t), Typed(t), NEW terms \in TermLists
  PROVE  TraceOf(t, Applications(t, terms))
<1> DEFINE log(s) == Corrected(s.edited, Replacements(terms)).log
           one(k) == [i \in DOMAIN log(t[k]) |-> [segment |-> t[k].id, change |-> log(t[k])[i]]]
<1>1. PICK S : S = {[segment |-> p[1], change |-> p[2]] : p \in Ids(t) \X Logged}
  OBVIOUS
<1>2. PICK n \in Nat : n = Len(t) /\ DOMAIN t = 1..n /\ \A k \in 1..n : t[k] \in ToSet(t)
  BY Positions
<1>3. ASSUME NEW k \in 1..n PROVE one(k) \in Seq(S)
  <2>1. t[k].edited \in Seq(Vocabulary) /\ t[k].id \in Ids(t)
    BY <1>2 DEF Typed, SegmentTyped, Ids
  <2>2. PICK l : l = log(t[k])
    OBVIOUS
  <2>3. l \in Seq(Logged)
    <3>1. Corrected(t[k].edited, Replacements(terms)) \in Working
      BY <2>1, ReplacementsTyped, CorrectedTyped
    <3>2. QED
      BY <2>2, <3>1 DEF Working
  <2>4. PICK m \in Nat : m = Len(l) /\ DOMAIN l = 1..m /\ \A i \in 1..m : l[i] \in Logged
    BY <2>3
  <2>5. PICK f : f = [i \in DOMAIN l |-> [segment |-> t[k].id, change |-> l[i]]]
    OBVIOUS
  <2>6. ASSUME NEW i \in 1..m PROVE f[i] \in S
    <3>1. PICK p : p = <<t[k].id, l[i]>>
      OBVIOUS
    <3>2. p \in Ids(t) \X Logged /\ f[i] = [segment |-> p[1], change |-> p[2]]
      BY <2>1, <2>4, <2>5, <3>1
    <3>3. QED
      BY <1>1, <3>2
  <2>7. f = [i \in 1..m |-> f[i]]
    BY <2>4, <2>5
  <2>8. f \in Seq(S)
    BY <2>6, <2>7, Listed
  <2>9. QED
    BY <2>2, <2>5, <2>8
<1>4. PICK all : all = [k \in DOMAIN t |-> one(k)]
  OBVIOUS
<1>5. Applications(t, terms) = FlattenSeq(all)
  BY <1>4 DEF Applications
<1> HIDE DEF one
<1>6. all = [k \in 1..n |-> all[k]] /\ \A k \in 1..n : all[k] \in Seq(S)
  BY <1>2, <1>3, <1>4
<1>7. all \in Seq(Seq(S))
  BY <1>6, Listed
<1>8. PICK a : a = Applications(t, terms)
  OBVIOUS
<1>9. a \in Seq(S)
  BY <1>5, <1>7, <1>8, Flattened
<1>10. a \in Seq(ToSet(a)) /\ ToSet(a) \subseteq S
  BY <1>9, Narrowed
<1>11. \A e \in S : e.segment \in Ids(t)
  BY <1>1
<1>12. QED
  BY <1>8, <1>10, <1>11 DEF TraceOf

\* Applying the dictionary.
LEMMA ApplyFull ==
  ASSUME NEW r, FullInv(r)
  PROVE  TextsResult(r, ApplyDictionary(r))
<1>1. PICK texts : texts = CorrectedTexts(r.segments, r.terms)
  OBVIOUS
<1>2. PICK w : w = Rewritten(r, texts, "DICTIONARY")
  OBVIOUS
<1>3. texts = [k \in DOMAIN r.segments |-> texts[k]]
  BY <1>1 DEF CorrectedTexts
<1>4. WellFormed(r.segments) /\ Typed(r.segments) /\ r.terms \in TermLists
  BY DEF FullInv, ReviewOK, TextsInv
<1>5. ASSUME NEW k \in DOMAIN r.segments PROVE texts[k] \in Seq(Vocabulary)
  <2>1. r.segments[k].edited \in Seq(Vocabulary)
    BY <1>4 DEF Typed, SegmentTyped, ToSet
  <2>2. Corrected(r.segments[k].edited, Replacements(r.terms)) \in Working
    BY <1>4, <2>1, ReplacementsTyped, CorrectedTyped
  <2>3. QED
    BY <1>1, <2>2 DEF CorrectedTexts, Working
<1>6. RewriteResult(r, texts, "DICTIONARY", w, RewriteEvents(r.segments, texts, "DICTIONARY"),
                    {k \in DOMAIN texts : texts[k] # r.segments[k].edited})
  BY <1>2, <1>3, <1>5, RewrittenFull
<1>7. DOMAIN w = ReviewFields /\ w.applications = r.applications
  BY <1>6 DEF RewriteResult
<1>8. PICK a : a = Applications(r.segments, r.terms)
  OBVIOUS
<1>9. PICK e : e = [w EXCEPT !.applications = @ \o a]
  OBVIOUS
<1>10. /\ DOMAIN e = ReviewFields /\ e.segments = w.segments /\ e.terms = w.terms
       /\ e.history = w.history /\ e.items = w.items /\ e.splits = w.splits
       /\ e.clusters = w.clusters /\ e.applications = r.applications \o a
  BY <1>7, <1>9 DEF ReviewFields
<1>11. TraceOf(r.segments, e.applications)
  <2>1. TraceOf(r.segments, r.applications)
    BY DEF FullInv, TextsInv
  <2>2. TraceOf(r.segments, a)
    BY <1>4, <1>8, ApplicationsTraced
  <2>3. QED
    BY <1>10, <2>1, <2>2, Joined DEF TraceOf
<1>12. ApplyDictionary(r) = RefreshDerived(e)
  BY <1>1, <1>2, <1>8, <1>9 DEF ApplyDictionary
<1>13. FullInv(RefreshDerived(e)) /\ Once(RefreshDerived(e)) /\ TraceStep(r, RefreshDerived(e))
  BY <1>2, <1>3, <1>5, <1>10, <1>11, TextsFull
<1>14. QED
  BY <1>12, <1>13 DEF TextsResult

\* What every operation but a split, and but a transcript from elsewhere, makes
\* of a review.
Keeps(r, d) == FullInv(d) /\ (Once(r) => Once(d)) /\ TraceStep(r, d)

\* An operation that leaves the sentences, their clusters and the traces alone.
LEMMA AsideFull ==
  ASSUME NEW r, FullInv(r), NEW d, ReviewOK(d), d.segments = r.segments, d.clusters = r.clusters,
         d.splits = r.splits, d.history = r.history, d.applications = r.applications,
         d.terms \in TermLists
  PROVE  Keeps(r, d)
<1>1. FullInv(d)
  BY DEF FullInv, TextsInv, ClustersInv, Once, ClustersOf
<1>2. Once(r) => Once(d)
  BY DEF Once, ClustersOf
<1>3. TraceStep(r, d)
  <2>1. PICK h : h = r.history
    OBVIOUS
  <2>2. WellFormed(r.segments) /\ h \in Seq(ToSet(h))
    BY <2>1 DEF FullInv, ReviewOK, TextsInv, TraceOf
  <2>3. d.history = h \o <<>>
    BY <2>1, <2>2, ConcatEmptySeq
  <2>4. <<>> \in Seq(ToSet(<<>>)) /\ Len(<<>>) = 0
    BY EmptySeq
  <2>5. \A k \in 1..Len(<<>>) : <<>>[k].field # "EDITED_TEXT"
    BY <2>4
  <2>6. PICK none : none = <<>> /\ none \in Seq(ToSet(none)) /\ d.history = r.history \o none
                    /\ \A k \in 1..Len(none) : none[k].field # "EDITED_TEXT"
    BY <2>1, <2>3, <2>4, <2>5
  <2>7. /\ DOMAIN d.segments = DOMAIN r.segments
        /\ \A k \in DOMAIN r.segments :
             d.segments[k].id = r.segments[k].id /\ d.segments[k].edited = r.segments[k].edited
    OBVIOUS
  <2>8. QED
    BY <2>1, <2>2, <2>6, <2>7, QuietTraced
<1>4. QED
  BY <1>1, <1>2, <1>3 DEF Keeps

\* Judging an item.
LEMMA JudgingFull ==
  ASSUME NEW r, FullInv(r), NEW i \in r.items, NEW action \in Judgements
  PROVE  Keeps(r, DecideReviewItem(r, i, action)) /\ Keeps(r, ValidateEvidence(r, i))
<1>1. ReviewOK(r) /\ DOMAIN r = ReviewFields /\ r.terms \in TermLists
  BY DEF FullInv, ReviewOK, TextsInv
<1>2. PICK d : d = DecideReviewItem(r, i, action)
  OBVIOUS
<1>3. \E items, completed :
        d \in {r, [r EXCEPT !.items = items, !.completed = completed]}
  <2>1. PICK items : items = (r.items \ {i}) \cup {[i EXCEPT !.status = action]}
    OBVIOUS
  <2>2. PICK e : e = [r EXCEPT !.items = items,
                        !.completed = items # {} /\ \A j \in items : j.status # "PENDING"]
    OBVIOUS
  <2>3. PICK completed : completed = e.completed
    OBVIOUS
  <2>4. e = [r EXCEPT !.items = items, !.completed = completed]
    BY <1>1, <2>2, <2>3 DEF ReviewFields
  <2>5. d \in {r, e}
    BY <1>2, <2>1, <2>2 DEF DecideReviewItem
  <2>6. QED
    BY <2>4, <2>5
<1>4. /\ d.segments = r.segments /\ d.clusters = r.clusters /\ d.splits = r.splits
      /\ d.history = r.history /\ d.applications = r.applications /\ d.terms = r.terms
  BY <1>1, <1>3 DEF ReviewFields
<1>5. ReviewOK(d)
  BY <1>1, <1>2, JudgingOK
<1>6. Keeps(r, d)
  BY <1>1, <1>4, <1>5, AsideFull
<1>7. PICK v : v = ValidateEvidence(r, i)
  OBVIOUS
<1>8. PICK e : e = [r EXCEPT !.items = (@ \ {i}) \cup {[i EXCEPT !.evidence = "VALID"]}]
  OBVIOUS
<1>9. DOMAIN e = ReviewFields /\ v = RefreshReviewBlockers(e)
  BY <1>1, <1>7, <1>8 DEF ValidateEvidence, ReviewFields
<1>10. PICK items : v = [e EXCEPT !.items = items]
  <2>1. PICK items : items = RefreshReviewBlockers(e).items
    OBVIOUS
  <2>2. RefreshReviewBlockers(e) = [e EXCEPT !.items = items]
    BY <1>9, <2>1 DEF RefreshReviewBlockers, ReviewFields
  <2>3. QED
    BY <1>9, <2>2
<1>11. /\ v.segments = r.segments /\ v.clusters = r.clusters /\ v.splits = r.splits
       /\ v.history = r.history /\ v.applications = r.applications /\ v.terms = r.terms
  <2>1. /\ e.segments = r.segments /\ e.clusters = r.clusters /\ e.splits = r.splits
        /\ e.history = r.history /\ e.applications = r.applications /\ e.terms = r.terms
    BY <1>1, <1>8 DEF ReviewFields
  <2>2. QED
    BY <1>9, <1>10, <2>1 DEF ReviewFields
<1>12. ReviewOK(v)
  BY <1>1, <1>7, JudgingOK
<1>13. Keeps(r, v)
  BY <1>1, <1>11, <1>12, AsideFull
<1>14. QED
  BY <1>2, <1>6, <1>7, <1>13

\* Another dictionary.
LEMMA TermsFull ==
  ASSUME NEW r, FullInv(r), NEW terms \in TermLists
  PROVE  Keeps(r, [r EXCEPT !.terms = terms])
<1>1. ReviewOK(r) /\ DOMAIN r = ReviewFields
  BY DEF FullInv, ReviewOK
<1>2. PICK d : d = [r EXCEPT !.terms = terms]
  OBVIOUS
<1>3. /\ DOMAIN d = ReviewFields /\ d.segments = r.segments /\ d.clusters = r.clusters
      /\ d.splits = r.splits /\ d.history = r.history /\ d.applications = r.applications
      /\ d.terms = terms /\ d.items = r.items /\ d.completed = r.completed
  BY <1>1, <1>2 DEF ReviewFields
<1>4. ReviewOK(d)
  BY <1>1, <1>3, OthersOK
<1>5. Keeps(r, d)
  BY <1>3, <1>4, AsideFull
<1>6. QED
  BY <1>2, <1>5

\* The operations on the dictionary.
LEMMA DictionaryFull ==
  ASSUME NEW r, FullInv(r)
  PROVE  /\ \A term \in Vocabulary, aliases \in Seq(Vocabulary) :
              Keeps(r, AddDictionaryTerm(r, term, aliases))
         /\ \A term : Keeps(r, RemoveDictionaryTerm(r, term))
         /\ \A rows \in Seq(DictionaryTerms) : Keeps(r, ImportDictionary(r, rows))
<1>1. r.terms \in TermLists
  BY DEF FullInv, TextsInv
<1>2. ASSUME NEW term \in Vocabulary, NEW aliases \in Seq(Vocabulary)
      PROVE  Keeps(r, AddDictionaryTerm(r, term, aliases))
  <2>1. PICK terms \in TermLists : terms = WithTerm(r.terms, term, aliases)
    BY <1>1, WithTermTyped
  <2>2. AddDictionaryTerm(r, term, aliases) = [r EXCEPT !.terms = terms]
    BY <2>1 DEF AddDictionaryTerm
  <2>3. QED
    BY <2>2, TermsFull
<1>3. ASSUME NEW term PROVE Keeps(r, RemoveDictionaryTerm(r, term))
  <2>1. PICK terms \in TermLists : terms = WithoutTerm(r.terms, term)
    BY <1>1, WithoutTermTyped
  <2>2. RemoveDictionaryTerm(r, term) = [r EXCEPT !.terms = terms]
    BY <2>1 DEF RemoveDictionaryTerm
  <2>3. QED
    BY <2>2, TermsFull
<1>4. ASSUME NEW rows \in Seq(DictionaryTerms) PROVE Keeps(r, ImportDictionary(r, rows))
  <2>1. PICK terms \in TermLists : terms = WithRows(r.terms, rows)
    BY <1>1, WithRowsTyped
  <2>2. ImportDictionary(r, rows) = [r EXCEPT !.terms = terms]
    BY <2>1 DEF ImportDictionary
  <2>3. QED
    BY <2>2, TermsFull
<1>5. QED
  BY <1>2, <1>3, <1>4

-----------------------------------------------------------------------------
(* Patching the sentences of a cluster, one by one.                        *)

\* A cluster that is in both has the same label.
LabelsKept(before, after) ==
  \A j \in ActiveAt(before), k \in ActiveAt(after) :
    before[j].id = after[k].id => before[j].label = after[k].label

\* Events are added, none of them of a text.
QuietHistory(r, a) ==
  \E h : /\ h \in Seq(ToSet(h)) /\ a.history = r.history \o h
         /\ \A k \in 1..Len(h) : h[k].field # "EDITED_TEXT"

\* r, with the sentences in done patched.
Along(r, a, done, patch) ==
  /\ FullInv(a) /\ a.segments = PatchedAt(r.segments, done, patch)
  /\ \/ done = {} /\ a = r
     \/ Partition(a.segments, a.clusters) /\ Once(a)
  /\ LabelsKept(r.clusters, a.clusters) /\ QuietHistory(r, a)

\* Patching nothing.
LEMMA AlongBase ==
  ASSUME NEW r, FullInv(r), NEW patch
  PROVE  Along(r, r, {}, patch)
<1>1. PICK t : t = r.segments /\ WellFormed(t)
  BY DEF FullInv, ReviewOK
<1>2. PatchedAt(t, {}, patch) = t
  <2>1. t = [k \in DOMAIN t |-> t[k]]
    BY <1>1, Positions
  <2>2. QED
    BY <2>1 DEF PatchedAt
<1>3. LabelsKept(r.clusters, r.clusters)
  BY DEF LabelsKept, FullInv, ClustersInv, Identified
<1>4. QuietHistory(r, r)
  <2>1. PICK h : h = r.history
    OBVIOUS
  <2>2. h \in Seq(ToSet(h))
    BY <2>1 DEF FullInv, TextsInv, TraceOf
  <2>3. h = h \o <<>> /\ <<>> \in Seq(ToSet(<<>>)) /\ Len(<<>>) = 0
    BY <2>2, ConcatEmptySeq, EmptySeq
  <2>4. PICK none : none = <<>> /\ none \in Seq(ToSet(none)) /\ Len(none) = 0 /\ h = h \o none
    BY <2>3
  <2>5. \A k \in 1..Len(none) : none[k].field # "EDITED_TEXT"
    BY <2>4
  <2>6. QED
    BY <2>1, <2>4, <2>5 DEF QuietHistory
<1>5. QED
  BY <1>1, <1>2, <1>3, <1>4 DEF Along

\* A refreshed cluster whose id an earlier one had has its label.
LEMMA LabelsRefreshed ==
  ASSUME NEW n, NEW before, Identified(before, n), NEW t, WellFormed(t),
         NEW clusters, clusters \in Seq(ToSet(clusters)), Identified(clusters, n),
         LabelsKept(before, clusters)
  PROVE  LabelsKept(before, RefreshedClusters(t, clusters))
<1>1. PICK new : new = RefreshedClusters(t, clusters)
  OBVIOUS
<1>2. \A k \in DOMAIN new :
        \/ BuiltId(new[k].id, new[k].label)
        \/ \E j \in ActiveAt(clusters) :
             clusters[j].id = new[k].id /\ clusters[j].label = new[k].label
  BY <1>1, RefreshedOK
<1>3. ASSUME NEW i \in ActiveAt(before), NEW k \in ActiveAt(new), before[i].id = new[k].id
      PROVE  before[i].label = new[k].label
  <2>1. k \in DOMAIN new
    BY DEF ActiveAt
  <2>2. CASE BuiltId(new[k].id, new[k].label)
    <3>1. BuiltId(before[i].id, before[i].label) \/ SplitId(before[i].id, n)
      BY DEF Identified
    <3>2. DOMAIN before[i].id = 1..2 /\ before[i].id[2] = new[k].label
      BY <1>3, <2>2 DEF BuiltId
    <3>3. 1..2 # 1..3
      <4>1. 3 \in 1..3 /\ 3 \notin 1..2
        OBVIOUS
      <4>2. QED
        BY <4>1
    <3>4. QED
      BY <3>1, <3>2, <3>3 DEF BuiltId, SplitId
  <2>3. CASE \E j \in ActiveAt(clusters) :
               clusters[j].id = new[k].id /\ clusters[j].label = new[k].label
    <3>1. PICK j \in ActiveAt(clusters) :
                 clusters[j].id = new[k].id /\ clusters[j].label = new[k].label
      BY <2>3
    <3>2. QED
      BY <1>3, <3>1 DEF LabelsKept
  <2>4. QED
    BY <1>2, <2>1, <2>2, <2>3
<1>4. QED
  BY <1>1, <1>3 DEF LabelsKept

\* Patching one more.
LEMMA AlongStep ==
  ASSUME NEW r, FullInv(r), NEW patch, PatchTyped(patch), "edited" \notin DOMAIN patch,
         NEW done, NEW a, Along(r, a, done, patch), NEW id \in Ids(r.segments), id \notin done,
         a.splits = r.splits
  PROVE  /\ Along(r, PatchReviewSegment(a, id, patch, "USER"), done \cup {id}, patch)
         /\ PatchReviewSegment(a, id, patch, "USER").splits = r.splits
<1>1. PICK t : t = r.segments /\ WellFormed(t)
  BY DEF FullInv, ReviewOK
<1>2. FullInv(a) /\ a.segments = PatchedAt(t, done, patch)
  BY <1>1 DEF Along
<1>3. PICK u : u = a.segments
  OBVIOUS
<1>4. DOMAIN u = DOMAIN t /\ Ids(u) = Ids(t) /\ \A k \in DOMAIN t : u[k].id = t[k].id
  BY <1>1, <1>2, <1>3, PatchedSegments
<1>5. PICK d : d = PatchReviewSegment(a, id, patch, "USER")
  OBVIOUS
<1>6. PatchResult(a, id, patch, "USER", d)
  <2>1. id \in Ids(a.segments)
    BY <1>1, <1>3, <1>4
  <2>2. QED
    BY <1>2, <1>5, <2>1, PatchFull
<1>7. PICK old : old = Get(a.segments, id)
  OBVIOUS
<1>8. PICK h : h = PatchEvents(old, Patched(old, patch), "USER")
  OBVIOUS
<1>9. /\ FullInv(d) /\ Once(d) /\ Partition(d.segments, d.clusters)
      /\ d.segments = PatchedAt(u, {id}, patch) /\ d.history = a.history \o h
      /\ d.splits = a.splits /\ d.clusters = RefreshedClusters(d.segments, a.clusters)
      /\ \E k \in DOMAIN u : u[k] = old
  BY <1>3, <1>6, <1>7, <1>8 DEF PatchResult
<1>10. d.segments = PatchedAt(t, done \cup {id}, patch)
  <2>1. \A k \in DOMAIN t : u[k] = IF t[k].id \in done THEN Patched(t[k], patch) ELSE t[k]
    BY <1>2, <1>3 DEF PatchedAt
  <2>2. \A k \in DOMAIN t :
          (IF u[k].id \in {id} THEN Patched(u[k], patch) ELSE u[k])
            = IF t[k].id \in done \cup {id} THEN Patched(t[k], patch) ELSE t[k]
    BY <1>4, <2>1
  <2>3. QED
    BY <1>4, <1>9, <2>2 DEF PatchedAt
<1>11. LabelsKept(r.clusters, d.clusters)
  <2>1. Identified(r.clusters, r.splits)
    BY DEF FullInv, ClustersInv
  <2>2. a.clusters \in Seq(ToSet(a.clusters)) /\ Identified(a.clusters, r.splits)
    BY <1>2 DEF FullInv, ClustersInv, ClustersTyped
  <2>3. LabelsKept(r.clusters, a.clusters)
    BY DEF Along
  <2>4. WellFormed(d.segments)
    BY <1>9 DEF FullInv, ReviewOK
  <2>5. QED
    BY <1>9, <2>1, <2>2, <2>3, <2>4, LabelsRefreshed
<1>12. QuietHistory(r, d)
  <2>1. PICK g : /\ g \in Seq(ToSet(g)) /\ a.history = r.history \o g
                 /\ \A k \in 1..Len(g) : g[k].field # "EDITED_TEXT"
    BY DEF Along, QuietHistory
  <2>2. PICK base : base = r.history /\ base \in Seq(ToSet(base))
    BY DEF FullInv, TextsInv, TraceOf
  <2>3. Patched(old, patch).edited = old.edited
    <3>1. "edited" \in DOMAIN old
      <4>1. PICK k \in DOMAIN u : u[k] = old
        BY <1>9
      <4>2. WellFormed(u)
        BY <1>2, <1>3 DEF FullInv, ReviewOK
      <4>3. DOMAIN u[k] = Fields
        BY <4>2, Positions
      <4>4. QED
        BY <4>1, <4>3 DEF Fields
    <3>2. QED
      BY <3>1 DEF Patched
  <2>4. h \in Seq(ToSet(h)) /\ \A k \in 1..Len(h) : h[k].field # "EDITED_TEXT"
    BY <1>8, <2>3, EventsOfPatch
  <2>5. PICK e : e = g \o h
    OBVIOUS
  <2>6. /\ e \in Seq(ToSet(e)) /\ Len(g) \in Nat /\ Len(h) \in Nat /\ Len(e) = Len(g) + Len(h)
        /\ \A k \in 1..Len(g) : e[k] = g[k]
        /\ \A k \in 1..Len(h) : e[Len(g) + k] = h[k]
    BY <2>1, <2>4, <2>5, Joined
  <2>7. \A k \in 1..Len(e) : e[k].field # "EDITED_TEXT"
    <3>1. ASSUME NEW k \in 1..Len(e) PROVE e[k].field # "EDITED_TEXT"
      <4>1. CASE k <= Len(g)
        <5>1. k \in 1..Len(g)
          BY <2>6, <4>1
        <5>2. QED
          BY <2>1, <2>6, <5>1
      <4>2. CASE ~(k <= Len(g))
        <5>1. k - Len(g) \in 1..Len(h) /\ Len(g) + (k - Len(g)) = k
          BY <2>6, <4>2
        <5>2. e[k] = h[k - Len(g)]
          BY <2>6, <5>1
        <5>3. QED
          BY <2>4, <5>1, <5>2
      <4>3. QED
        BY <4>1, <4>2
    <3>2. QED
      BY <3>1
  <2>8. d.history = base \o e
    <3>1. PICK S : S = ToSet(base) \cup ToSet(g) \cup ToSet(h)
      OBVIOUS
    <3>2. base \in Seq(S) /\ g \in Seq(S) /\ h \in Seq(S)
      BY <2>1, <2>2, <2>4, <3>1, Widened
    <3>3. d.history = (base \o g) \o h
      BY <1>9, <2>1, <2>2
    <3>4. QED
      BY <2>5, <3>2, <3>3, ConcatAssociative
  <2>9. QED
    BY <2>2, <2>6, <2>7, <2>8 DEF QuietHistory
<1>13. Along(r, d, done \cup {id}, patch)
  BY <1>1, <1>9, <1>10, <1>11, <1>12 DEF Along
<1>14. QED
  BY <1>5, <1>9, <1>13

\* The sentences at some positions, and the loop.
Done(t, s, ids) == {t[k].id : k \in s} \cap ids

\* The loop patches all sentences that are asked for, and keeps the labels.
LEMMA PatchAllFull ==
  ASSUME NEW r, FullInv(r), NEW ids, NEW patch, PatchTyped(patch), "edited" \notin DOMAIN patch
  PROVE  /\ Along(r, PatchAll(r, ids, patch), Ids(r.segments) \cap ids, patch)
         /\ PatchAll(r, ids, patch).splits = r.splits
<1>1. PICK t : t = r.segments /\ WellFormed(t)
  BY DEF FullInv, ReviewOK
<1>2. PICK n \in Nat : n = Len(t) /\ DOMAIN t = 1..n /\ \A k \in 1..n : t[k] \in ToSet(t)
  BY <1>1, Positions
<1>3. PICK g : g = CHOOSE f : Loop(f, n, r, t, ids, patch)
  OBVIOUS
<1>4. Loop(g, n, r, t, ids, patch)
  BY <1>3, LoopExists
<1>5. PatchAll(r, ids, patch) = g[1..n]
  BY <1>1, <1>2, <1>3 DEF PatchAll, FoldLeft, MapThenFoldSet, Loop, PatchOne
<1>6. PICK good : good = {s \in SUBSET (1..n) :
                            Along(r, g[s], Done(t, s, ids), patch) /\ g[s].splits = r.splits}
  OBVIOUS
<1>7. {} \in good
  <2>1. {} \in SUBSET (1..n) /\ Done(t, {}, ids) = {}
    BY DEF Done
  <2>2. g[{}] = r
    BY <1>4, <2>1 DEF Loop
  <2>3. QED
    BY <1>6, <2>1, <2>2, AlongBase
<1>8. ASSUME NEW s \in SUBSET (1..n), s # {}, s \ {Max(s)} \in good PROVE s \in good
  <2>1. PICK k : k = Max(s)
    OBVIOUS
  <2>2. PICK u : u = s \ {k}
    OBVIOUS
  <2>3. k \in s /\ k \in 1..n
    BY <1>8, <2>1, Greatest
  <2>4. Along(r, g[u], Done(t, u, ids), patch) /\ g[u].splits = r.splits
    BY <1>6, <1>8, <2>1, <2>2
  <2>5. g[s] = PatchOne(g[u], t[k], ids, patch)
    BY <1>4, <1>8, <2>1, <2>2 DEF Loop
  <2>6. CASE t[k].id \in ids
    <3>1. t[k].id \in Ids(r.segments)
      BY <1>1, <1>2, <2>3 DEF Ids
    <3>2. t[k].id \notin Done(t, u, ids)
      <4>1. \A j \in u : j \in DOMAIN t /\ j # k
        BY <1>2, <2>2
      <4>2. \A j \in u : t[j].id # t[k].id
        BY <1>1, <1>2, <2>3, <4>1 DEF WellFormed
      <4>3. QED
        BY <4>2 DEF Done
    <3>3. Done(t, s, ids) = Done(t, u, ids) \cup {t[k].id}
      BY <2>2, <2>3, <2>6 DEF Done
    <3>4. g[s] = PatchReviewSegment(g[u], t[k].id, patch, "USER")
      BY <2>5, <2>6 DEF PatchOne
    <3>5. PICK a, done, id : a = g[u] /\ done = Done(t, u, ids) /\ id = t[k].id
      OBVIOUS
    <3>6. Along(r, a, done, patch) /\ a.splits = r.splits /\ id \in Ids(r.segments) /\ id \notin done
      BY <2>4, <3>1, <3>2, <3>5
    <3>7. PICK d : d = PatchReviewSegment(a, id, patch, "USER")
      OBVIOUS
    <3>8. Along(r, d, done \cup {id}, patch) /\ d.splits = r.splits
      BY <3>6, <3>7, AlongStep
    <3>9. g[s] = d
      BY <3>4, <3>5, <3>7
    <3>10. Along(r, g[s], Done(t, s, ids), patch) /\ g[s].splits = r.splits
      BY <3>3, <3>5, <3>8, <3>9
    <3>11. QED
      BY <1>6, <3>10
  <2>7. CASE t[k].id \notin ids
    <3>1. Done(t, s, ids) = Done(t, u, ids)
      BY <2>2, <2>3, <2>7 DEF Done
    <3>2. g[s] = g[u]
      BY <2>5, <2>7 DEF PatchOne
    <3>3. QED
      BY <1>6, <2>4, <3>1, <3>2
  <2>8. QED
    BY <2>6, <2>7
<1>9. \A s \in SUBSET (1..n) : s \in good
  BY <1>7, <1>8, ByMaximum
<1>10. Done(t, 1..n, ids) = Ids(t) \cap ids
  BY <1>2 DEF Done, Ids, ToSet
<1>11. QED
  BY <1>1, <1>5, <1>6, <1>9, <1>10

\* The trace of patches that change no text.
LEMMA AlongTraced ==
  ASSUME NEW r, FullInv(r), NEW patch, PatchTyped(patch), "edited" \notin DOMAIN patch,
         NEW done, NEW n, Along(r, n, done, patch),
         NEW d, d.segments = n.segments, d.history = n.history
  PROVE  TraceStep(r, d)
<1>1. PICK t : t = r.segments /\ WellFormed(t) /\ r.history \in Seq(ToSet(r.history))
  BY DEF FullInv, ReviewOK, TextsInv, TraceOf
<1>2. d.segments = PatchedAt(t, done, patch)
  BY <1>1 DEF Along
<1>3. /\ DOMAIN d.segments = DOMAIN t
      /\ \A k \in DOMAIN t : d.segments[k].id = t[k].id
      /\ \A k \in DOMAIN t : d.segments[k].edited = t[k].edited
  BY <1>1, <1>2, PatchedSegments
<1>4. PICK h : /\ h \in Seq(ToSet(h)) /\ n.history = r.history \o h
               /\ \A k \in 1..Len(h) : h[k].field # "EDITED_TEXT"
  BY DEF Along, QuietHistory
<1>5. /\ DOMAIN d.segments = DOMAIN r.segments
      /\ \A k \in DOMAIN r.segments :
           d.segments[k].id = r.segments[k].id /\ d.segments[k].edited = r.segments[k].edited
      /\ WellFormed(r.segments) /\ r.history \in Seq(ToSet(r.history))
      /\ h \in Seq(ToSet(h)) /\ d.history = r.history \o h
  BY <1>1, <1>3, <1>4
<1>6. QED
  BY <1>4, <1>5, QuietTraced

\* Only the clusters differ from a review in order.
LEMMA Reclustered ==
  ASSUME NEW n, FullInv(n), NEW d, ReviewOK(d), d.segments = n.segments, d.terms = n.terms,
         d.history = n.history, d.applications = n.applications, ClustersInv(d)
  PROVE  FullInv(d)
BY DEF FullInv, TextsInv

\* A sentence has the new speaker if it is patched, and is left alone otherwise.
LEMMA Leftover ==
  ASSUME NEW t, WellFormed(t), NEW ids, NEW patch, "speaker" \in DOMAIN patch, "id" \notin DOMAIN patch,
         NEW x \in ToSet(PatchedAt(t, ids, patch))
  PROVE  /\ x.id \in ids => x.speaker = patch["speaker"]
         /\ x.id \notin ids => x \in ToSet(t)
<1>1. PICK u : u = PatchedAt(t, ids, patch)
  OBVIOUS
<1>2. DOMAIN u = DOMAIN t
  BY <1>1 DEF PatchedAt
<1>3. PICK k \in DOMAIN t : u[k] = x
  BY <1>1, <1>2 DEF ToSet
<1>4. DOMAIN t[k] = Fields /\ t[k] \in ToSet(t)
  BY Positions
<1>5. x = IF t[k].id \in ids THEN Patched(t[k], patch) ELSE t[k]
  BY <1>1, <1>3 DEF PatchedAt
<1>6. Patched(t[k], patch).id = t[k].id /\ Patched(t[k], patch).speaker = patch["speaker"]
  BY <1>4 DEF Patched, Fields
<1>7. QED
  BY <1>4, <1>5, <1>6

\* While every sentence is in one cluster, a cluster is all that its speaker said.
LEMMA OnceFills ==
  ASSUME NEW r, FullInv(r), Once(r), NEW i \in ActiveAt(r.clusters)
  PROVE  r.clusters[i].segments = SentencesOf(r.segments, r.clusters[i].label)
<1>1. PICK t, c : t = r.segments /\ c = r.clusters
  OBVIOUS
<1>2. /\ i \in DOMAIN c /\ c[i].status = "ACTIVE" /\ c[i].segments \subseteq Ids(t)
      /\ LabelsDiffer(c)
  BY <1>1 DEF ActiveAt, FullInv, ClustersInv, ClustersTyped, ToSet
<1>3. ASSUME NEW s \in ToSet(t)
      PROVE  /\ s.id \in c[i].segments => s.speaker = c[i].label
             /\ s.speaker = c[i].label => s.id \in c[i].segments
  <2>1. PICK k \in DOMAIN c : ClustersOf(r, s.id) = {k} /\ c[k].label = s.speaker
    BY <1>1 DEF Once
  <2>2. k \in ActiveAt(c) /\ s.id \in c[k].segments
    BY <1>1, <2>1 DEF ClustersOf, ActiveAt
  <2>3. ASSUME s.id \in c[i].segments PROVE s.speaker = c[i].label
    <3>1. i \in ClustersOf(r, s.id)
      BY <1>1, <1>2, <2>3 DEF ClustersOf
    <3>2. QED
      BY <2>1, <3>1
  <2>4. ASSUME s.speaker = c[i].label PROVE s.id \in c[i].segments
    <3>1. i = k
      BY <1>1, <1>2, <2>1, <2>2, <2>4 DEF LabelsDiffer
    <3>2. QED
      BY <2>2, <3>1
  <2>5. QED
    BY <2>3, <2>4
<1>4. QED
  BY <1>1, <1>2, <1>3 DEF SentencesOf, Ids

\* What is known of a cluster of a partition.
LEMMA OfPartition ==
  ASSUME NEW t, NEW clusters, Partition(t, clusters), NEW k \in DOMAIN clusters
  PROVE  /\ ActiveAt(clusters) = DOMAIN clusters
         /\ \E x \in ToSet(t) : x.speaker = clusters[k].label /\ x.id \in clusters[k].segments
<1>1. ActiveAt(clusters) = DOMAIN clusters
  BY DEF Partition, ActiveAt
<1>2. PICK x \in ToSet(t) : x.speaker = clusters[k].label
  BY DEF Partition
<1>3. x.id \in SentencesOf(t, clusters[k].label)
  BY <1>2 DEF SentencesOf
<1>4. clusters[k].segments = SentencesOf(t, clusters[k].label)
  BY DEF Partition
<1>5. QED
  BY <1>1, <1>2, <1>3, <1>4

\* The built and the split ids differ.
LEMMA IdsApart == ASSUME NEW id, NEW label, NEW n, BuiltId(id, label) PROVE ~SplitId(id, n)
<1>1. 3 \in 1..3 /\ 3 \notin 1..2
  OBVIOUS
<1>2. QED
  BY <1>1 DEF BuiltId, SplitId

\* What relabelling a cluster makes of a partition: the clusters keep their ids and
\* sentences, and those whose label is kept have what their speaker said.
Relabelled(before, after, id, name) ==
  /\ after \in Seq(ToSet(after)) /\ DOMAIN after = DOMAIN before
  /\ \A k \in DOMAIN before :
       /\ DOMAIN after[k] = ClusterFields /\ after[k].id = before[k].id
       /\ after[k].status = "ACTIVE" /\ after[k].segments = before[k].segments
       /\ after[k].label = IF before[k].id = id THEN name ELSE before[k].label

\* Relabelling a cluster leaves the clusters in order; every sentence stays in one
\* if its cluster was absorbed, or keeps its label.
LEMMA RelabelledOK ==
  ASSUME NEW n, FullInv(n), Partition(n.segments, n.clusters), Once(n),
         NEW id, NEW name \in Names \X Nat, NEW label,
         \A k \in DOMAIN n.clusters : n.clusters[k].id = id => n.clusters[k].label = label,
         label # name /\ BuiltId(id, label) => \A k \in DOMAIN n.clusters : n.clusters[k].id # id,
         BuiltId(id, label) \/ SplitId(id, n.splits),
         NEW d, d.segments = n.segments, d.splits = n.splits,
         Relabelled(n.clusters, d.clusters, id, name)
  PROVE  /\ ClustersInv(d)
         /\ (label # name => \A k \in DOMAIN n.clusters : n.clusters[k].id # id) => Once(d)
<1>1. PICK t, b, c : t = n.segments /\ b = n.clusters /\ c = d.clusters
  OBVIOUS
<1>2. /\ c \in Seq(ToSet(c)) /\ DOMAIN c = DOMAIN b
      /\ \A k \in DOMAIN b :
           /\ DOMAIN c[k] = ClusterFields /\ c[k].id = b[k].id
           /\ c[k].status = "ACTIVE" /\ c[k].segments = b[k].segments
           /\ c[k].label = IF b[k].id = id THEN name ELSE b[k].label
  BY <1>1 DEF Relabelled
<1>3. Partition(t, b) /\ Identified(b, n.splits) /\ n.splits \in Nat /\ ClustersTyped(t, b)
  BY <1>1 DEF FullInv, ClustersInv
<1>4. ActiveAt(b) = DOMAIN b /\ ActiveAt(c) = DOMAIN b
  BY <1>2, <1>3 DEF ActiveAt, Partition
<1>5. \A k \in DOMAIN b : b[k].id = id => b[k].label = label
  BY <1>1
<1>6. ClustersTyped(t, c)
  <2>1. ASSUME NEW k \in DOMAIN c
        PROVE  /\ DOMAIN c[k] = ClusterFields /\ c[k].label \in Names \X Nat
               /\ c[k].status \in Statuses /\ c[k].segments \subseteq Ids(t)
    <3>1. b[k].label \in Names \X Nat /\ b[k].segments \subseteq Ids(t)
      BY <1>2, <1>3 DEF ClustersTyped, ToSet
    <3>2. QED
      BY <1>2, <3>1 DEF Statuses
  <2>2. QED
    BY <1>2, <2>1 DEF ClustersTyped, ToSet
<1>7. ASSUME NEW k \in DOMAIN b, BuiltId(b[k].id, c[k].label)
      PROVE  c[k].label = b[k].label
  <2>1. SUFFICES ASSUME b[k].id = id, label # name PROVE FALSE
    BY <1>2, <1>5
  <2>2. SplitId(id, n.splits)
    BY <1>1, <2>1
  <2>3. QED
    BY <1>7, <2>1, <2>2, IdsApart
<1>8. Identified(c, n.splits)
  <2>1. ASSUME NEW k \in DOMAIN b
        PROVE  BuiltId(c[k].id, c[k].label) \/ SplitId(c[k].id, n.splits)
    <3>1. CASE b[k].id = id /\ label # name
      <4>1. SplitId(id, n.splits)
        BY <1>1, <3>1
      <4>2. QED
        BY <1>2, <3>1, <4>1
    <3>2. CASE ~(b[k].id = id /\ label # name)
      <4>1. c[k].label = b[k].label
        BY <1>2, <1>5, <3>2
      <4>2. BuiltId(b[k].id, b[k].label) \/ SplitId(b[k].id, n.splits)
        BY <1>3, <1>4 DEF Identified
      <4>3. QED
        BY <1>2, <4>1, <4>2
    <3>3. QED
      BY <3>1, <3>2
  <2>2. \A j, k \in DOMAIN b : c[j].id = c[k].id => j = k
    BY <1>2, <1>3, <1>4 DEF Identified
  <2>3. QED
    BY <1>4, <2>1, <2>2 DEF Identified
<1>9. Filled(t, c)
  <2>1. ASSUME NEW k \in DOMAIN b PROVE c[k].segments # {}
    BY <1>2, <1>3, OfPartition
  <2>2. ASSUME NEW k \in DOMAIN b, BuiltId(c[k].id, c[k].label)
        PROVE  SentencesOf(t, c[k].label) \subseteq c[k].segments
    <3>1. c[k].label = b[k].label
      BY <1>2, <1>7, <2>2
    <3>2. b[k].segments = SentencesOf(t, b[k].label)
      BY <1>3 DEF Partition
    <3>3. QED
      BY <1>2, <3>1, <3>2
  <2>3. QED
    BY <1>4, <2>1, <2>2 DEF Filled
<1>10. ASSUME \A k \in DOMAIN b : c[k].label = b[k].label
       PROVE  Once(d) /\ LabelsDiffer(c)
  <2>1. LabelsDiffer(c)
    BY <1>3, <1>4, <1>10 DEF LabelsDiffer, Partition
  <2>2. \A x : ClustersOf(d, x) = ClustersOf(n, x)
    BY <1>1, <1>2, <1>3 DEF ClustersOf, Partition
  <2>3. Once(d)
    <3>1. ASSUME NEW s \in ToSet(d.segments)
          PROVE  \E k \in DOMAIN d.clusters : ClustersOf(d, s.id) = {k} /\ d.clusters[k].label = s.speaker
      <4>1. s \in ToSet(n.segments)
        BY <3>1
      <4>2. PICK k \in DOMAIN n.clusters : ClustersOf(n, s.id) = {k} /\ n.clusters[k].label = s.speaker
        BY <4>1 DEF Once
      <4>3. k \in DOMAIN d.clusters /\ d.clusters[k].label = s.speaker
        BY <1>1, <1>2, <1>10, <4>2
      <4>4. ClustersOf(d, s.id) = {k}
        BY <2>2, <4>2
      <4>5. QED
        BY <4>3, <4>4
    <3>2. QED
      BY <3>1 DEF Once
  <2>4. QED
    BY <2>1, <2>3
<1>11. ASSUME Once(d), NEW k \in DOMAIN b PROVE c[k].label = b[k].label
  <2>1. PICK x \in ToSet(t) : x.speaker = b[k].label /\ x.id \in b[k].segments
    BY <1>3, OfPartition
  <2>2. PICK j \in DOMAIN c : ClustersOf(d, x.id) = {j} /\ c[j].label = x.speaker
    BY <1>1, <1>11 DEF Once
  <2>3. k \in ClustersOf(d, x.id)
    BY <1>1, <1>2, <2>1 DEF ClustersOf
  <2>4. QED
    BY <2>1, <2>2, <2>3
<1>12. Once(d) => LabelsDiffer(c)
  BY <1>10, <1>11
<1>13. ClustersInv(d)
  BY <1>1, <1>3, <1>6, <1>8, <1>9, <1>12 DEF ClustersInv
<1>14. ASSUME label # name => \A k \in DOMAIN b : b[k].id # id PROVE Once(d)
  <2>1. \A k \in DOMAIN b : c[k].label = b[k].label
    BY <1>2, <1>5, <1>14
  <2>2. QED
    BY <1>10, <2>1
<1>15. QED
  BY <1>1, <1>13, <1>14

\* Once all that a speaker said is given to another, the cluster has gone.
LEMMA Gone ==
  ASSUME NEW r, FullInv(r), NEW i \in ActiveAt(r.clusters),
         NEW patch, "speaker" \in DOMAIN patch, "id" \notin DOMAIN patch,
         NEW n, Along(r, n, r.clusters[i].segments, patch),
         SentencesOf(r.segments, r.clusters[i].label) \subseteq r.clusters[i].segments,
         patch["speaker"] # r.clusters[i].label
  PROVE  \A k \in DOMAIN n.clusters : n.clusters[k].id # r.clusters[i].id
<1>1. PICK t, c : t = r.segments /\ c = r.clusters[i] /\ WellFormed(t)
  BY DEF FullInv, ReviewOK
<1>2. Partition(n.segments, n.clusters)
  <2>1. c.segments # {}
    BY <1>1 DEF FullInv, ClustersInv, Filled
  <2>2. QED
    BY <1>1, <2>1 DEF Along
<1>3. ASSUME NEW k \in DOMAIN n.clusters, n.clusters[k].id = c.id PROVE FALSE
  <2>1. PICK x \in ToSet(n.segments) : x.speaker = n.clusters[k].label
    BY <1>2, OfPartition
  <2>2. k \in ActiveAt(n.clusters)
    BY <1>2, OfPartition
  <2>3. n.clusters[k].label = c.label
    BY <1>1, <1>3, <2>2 DEF Along, LabelsKept
  <2>4. n.segments = PatchedAt(t, c.segments, patch)
    BY <1>1 DEF Along
  <2>5. x.id \notin c.segments /\ x \in ToSet(t)
    BY <1>1, <2>1, <2>3, <2>4, Leftover
  <2>6. x.id \in SentencesOf(t, c.label)
    BY <2>1, <2>3, <2>5 DEF SentencesOf
  <2>7. QED
    BY <1>1, <2>5, <2>6
<1>4. QED
  BY <1>1, <1>3

\* The sentences of an active cluster are sentences of the transcript, and there
\* is one.
LEMMA OfActive ==
  ASSUME NEW r, FullInv(r), NEW i \in ActiveAt(r.clusters)
  PROVE  /\ Ids(r.segments) \cap r.clusters[i].segments = r.clusters[i].segments
         /\ r.clusters[i].segments # {} /\ r.clusters[i].label \in Names \X Nat
         /\ r.clusters[i].segments \subseteq Ids(r.segments)
         /\ r.clusters[i].status = "ACTIVE" /\ DOMAIN r.clusters[i] = ClusterFields
<1>1. PICK c, t, k : c = r.clusters /\ t = r.segments /\ k = c[i]
  OBVIOUS
<1>2. k \in ToSet(c) /\ k.status = "ACTIVE"
  BY <1>1 DEF ActiveAt, ToSet
<1>3. ClustersTyped(t, c) /\ Filled(t, c)
  BY <1>1 DEF FullInv, ClustersInv
<1>4. k.segments \subseteq Ids(t) /\ k.label \in Names \X Nat /\ DOMAIN k = ClusterFields
  BY <1>2, <1>3 DEF ClustersTyped
<1>5. k.segments # {}
  BY <1>1, <1>3 DEF Filled
<1>6. Ids(t) \cap k.segments = k.segments
  BY <1>4
<1>7. QED
  BY <1>1, <1>2, <1>4, <1>5, <1>6

\* Assigning a cluster to a participant.
LEMMA AssignFull ==
  ASSUME NEW r, FullInv(r), NEW i \in ActiveAt(r.clusters), NEW participant \in Names
  PROVE  Keeps(r, AssignSpeaker(r, r.clusters[i], participant))
<1>1. PICK c, name, patch :
        /\ c = r.clusters[i] /\ name = Speaker(participant)
        /\ patch = [speaker |-> name, status |-> "CONFIRMED"]
  OBVIOUS
<1>2. /\ PatchTyped(patch) /\ "edited" \notin DOMAIN patch /\ "speaker" \in DOMAIN patch
      /\ "id" \notin DOMAIN patch /\ patch["speaker"] = name /\ name \in Names \X Nat
  <2>1. name \in Names \X Nat
    BY <1>1 DEF Speaker
  <2>2. DOMAIN patch = {"speaker", "status"}
    BY <1>1
  <2>3. QED
    BY <1>1, <2>1, <2>2 DEF PatchTyped, Statements
<1>3. /\ c.segments # {} /\ Ids(r.segments) \cap c.segments = c.segments
  BY <1>1, OfActive
<1>4. PICK n : n = PatchAll(r, c.segments, patch)
  OBVIOUS
<1>5. Along(r, n, c.segments, patch) /\ n.splits = r.splits
  <2>1. PICK ids, done : ids = c.segments /\ done = Ids(r.segments) \cap ids /\ done = ids
    BY <1>3
  <2>2. PICK m : m = PatchAll(r, ids, patch)
    OBVIOUS
  <2>3. Along(r, m, done, patch) /\ m.splits = r.splits
    BY <1>2, <2>1, <2>2, PatchAllFull
  <2>4. QED
    BY <1>4, <2>1, <2>2, <2>3
<1>6. FullInv(n) /\ Partition(n.segments, n.clusters) /\ Once(n) /\ LabelsKept(r.clusters, n.clusters)
  BY <1>3, <1>5 DEF Along
<1>7. PICK d : d = AssignSpeaker(r, c, participant)
  OBVIOUS
<1>8. PICK clusters : clusters =
        [k \in DOMAIN n.clusters |->
           IF n.clusters[k].id = c.id \/ n.clusters[k].label = name
             THEN [n.clusters[k] EXCEPT !.label = name, !.participant = participant]
             ELSE n.clusters[k]]
  OBVIOUS
<1>9. d = [n EXCEPT !.clusters = clusters]
  BY <1>1, <1>4, <1>7, <1>8 DEF AssignSpeaker
<1>10. DOMAIN n = ReviewFields
  BY <1>6 DEF FullInv, ReviewOK
<1>11. /\ d.segments = n.segments /\ d.terms = n.terms /\ d.history = n.history
       /\ d.applications = n.applications /\ d.splits = n.splits /\ d.clusters = clusters
  BY <1>9, <1>10 DEF ReviewFields
<1>12. Relabelled(n.clusters, clusters, c.id, name)
  <2>1. PICK b : b = n.clusters
    OBVIOUS
  <2>2. b \in Seq(ToSet(b)) /\ \A k \in DOMAIN b : DOMAIN b[k] = ClusterFields /\ b[k].status = "ACTIVE"
    BY <1>6, <2>1 DEF Partition
  <2>3. DOMAIN b = 1..Len(b) /\ Len(b) \in Nat
    BY <2>2
  <2>4. clusters \in Seq(ToSet(clusters)) /\ DOMAIN clusters = DOMAIN b
    <3>1. DOMAIN clusters = 1..Len(b)
      BY <1>8, <2>1, <2>3
    <3>2. clusters = [k \in 1..Len(b) |-> clusters[k]]
      BY <1>8, <2>1, <2>3
    <3>3. QED
      BY <2>3, <3>1, <3>2, Sequence
  <2>5. ASSUME NEW k \in DOMAIN b
        PROVE  /\ DOMAIN clusters[k] = ClusterFields /\ clusters[k].id = b[k].id
               /\ clusters[k].status = "ACTIVE" /\ clusters[k].segments = b[k].segments
               /\ clusters[k].label = IF b[k].id = c.id THEN name ELSE b[k].label
    <3>1. clusters[k] = IF b[k].id = c.id \/ b[k].label = name
                          THEN [b[k] EXCEPT !.label = name, !.participant = participant]
                          ELSE b[k]
      BY <1>8, <2>1
    <3>2. DOMAIN b[k] = ClusterFields /\ b[k].status = "ACTIVE"
      BY <2>2
    <3>3. QED
      BY <3>1, <3>2 DEF ClusterFields
  <2>6. QED
    BY <2>1, <2>4, <2>5 DEF Relabelled
<1>13. \A k \in DOMAIN n.clusters : n.clusters[k].id = c.id => n.clusters[k].label = c.label
  <2>1. \A k \in DOMAIN n.clusters : k \in ActiveAt(n.clusters)
    BY <1>6 DEF Partition, ActiveAt
  <2>2. QED
    BY <1>1, <1>6, <2>1 DEF LabelsKept
<1>14. ASSUME c.label # name, SentencesOf(r.segments, c.label) \subseteq c.segments
       PROVE  \A k \in DOMAIN n.clusters : n.clusters[k].id # c.id
  <2>1. PICK done : done = r.clusters[i].segments
    OBVIOUS
  <2>2. Along(r, n, done, patch) /\ patch["speaker"] # r.clusters[i].label
    BY <1>1, <1>2, <1>5, <1>14, <2>1
  <2>3. QED
    BY <1>1, <1>2, <1>14, <2>1, <2>2, Gone
<1>15. c.label # name /\ BuiltId(c.id, c.label) => \A k \in DOMAIN n.clusters : n.clusters[k].id # c.id
  <2>1. BuiltId(c.id, c.label) => SentencesOf(r.segments, c.label) \subseteq c.segments
    BY <1>1 DEF FullInv, ClustersInv, Filled
  <2>2. QED
    BY <1>14, <2>1
<1>16. BuiltId(c.id, c.label) \/ SplitId(c.id, n.splits)
  BY <1>1, <1>5 DEF FullInv, ClustersInv, Identified
<1>17. /\ ClustersInv(d)
       /\ (c.label # name => \A k \in DOMAIN n.clusters : n.clusters[k].id # c.id) => Once(d)
  <2>1. PICK id, label : id = c.id /\ label = c.label
    OBVIOUS
  <2>2. /\ \A k \in DOMAIN n.clusters : n.clusters[k].id = id => n.clusters[k].label = label
        /\ label # name /\ BuiltId(id, label) => \A k \in DOMAIN n.clusters : n.clusters[k].id # id
    BY <1>13, <1>15, <2>1
  <2>3. BuiltId(id, label) \/ SplitId(id, n.splits)
    BY <1>16, <2>1
  <2>4. Relabelled(n.clusters, d.clusters, id, name)
    BY <1>11, <1>12, <2>1
  <2>5. /\ ClustersInv(d)
        /\ (label # name => \A k \in DOMAIN n.clusters : n.clusters[k].id # id) => Once(d)
    BY <1>2, <1>6, <1>11, <2>2, <2>3, <2>4, RelabelledOK
  <2>6. QED
    BY <2>1, <2>5
<1>18. ASSUME Once(r) PROVE Once(d)
  <2>1. SentencesOf(r.segments, c.label) \subseteq c.segments
    BY <1>1, <1>18, OnceFills
  <2>2. QED
    BY <1>14, <1>17, <2>1
<1>19. FullInv(d)
  <2>1. ReviewOK(d)
    BY <1>7, ClustersOK DEF FullInv
  <2>2. QED
    BY <1>6, <1>11, <1>17, <2>1, Reclustered
<1>20. TraceStep(r, d)
  <2>1. PICK done : done = c.segments
    OBVIOUS
  <2>2. Along(r, n, done, patch) /\ d.segments = n.segments /\ d.history = n.history
    BY <1>5, <1>11, <2>1
  <2>3. QED
    BY <1>2, <2>2, AlongTraced
<1>21. Keeps(r, d)
  BY <1>18, <1>19, <1>20 DEF Keeps
<1>22. QED
  BY <1>1, <1>7, <1>21

\* Every sentence is there after a patch, patched or as it was.
LEMMA Followed ==
  ASSUME NEW t, WellFormed(t), NEW ids, NEW patch, "speaker" \in DOMAIN patch, "id" \notin DOMAIN patch,
         NEW y \in ToSet(t)
  PROVE  \E x \in ToSet(PatchedAt(t, ids, patch)) :
           x.id = y.id /\ x.speaker = IF y.id \in ids THEN patch["speaker"] ELSE y.speaker
<1>1. PICK u : u = PatchedAt(t, ids, patch)
  OBVIOUS
<1>2. DOMAIN u = DOMAIN t
  BY <1>1 DEF PatchedAt
<1>3. PICK k \in DOMAIN t : t[k] = y
  BY DEF ToSet
<1>4. DOMAIN y = Fields
  BY <1>3, Positions
<1>5. u[k] = IF y.id \in ids THEN Patched(y, patch) ELSE y
  BY <1>1, <1>3 DEF PatchedAt
<1>6. Patched(y, patch).id = y.id /\ Patched(y, patch).speaker = patch["speaker"]
  BY <1>4 DEF Patched, Fields
<1>7. u[k] \in ToSet(u)
  BY <1>2, <1>3 DEF ToSet
<1>8. PICK x : x = u[k]
  OBVIOUS
<1>9. x.id = y.id /\ x.speaker = IF y.id \in ids THEN patch["speaker"] ELSE y.speaker
  BY <1>5, <1>6, <1>8
<1>10. QED
  BY <1>1, <1>7, <1>8, <1>9

\* The sentences of a speaker to whom those of another are given.
LEMMA Given ==
  ASSUME NEW t, WellFormed(t), NEW ids, NEW patch, "speaker" \in DOMAIN patch, "id" \notin DOMAIN patch,
         NEW had, NEW u, u = PatchedAt(t, ids, patch)
  PROVE  /\ SentencesOf(t, patch["speaker"]) \subseteq had =>
              SentencesOf(u, patch["speaker"]) \subseteq had \cup ids
         /\ had \subseteq SentencesOf(t, patch["speaker"]) /\ ids \subseteq Ids(t) =>
              had \cup ids \subseteq SentencesOf(u, patch["speaker"])
<1>1. PICK label : label = patch["speaker"]
  OBVIOUS
<1>2. ASSUME SentencesOf(t, label) \subseteq had, NEW x \in ToSet(u), x.speaker = label
      PROVE  x.id \in had \cup ids
  <2>1. CASE x.id \notin ids
    <3>1. x \in ToSet(t)
      BY <2>1, Leftover
    <3>2. x.id \in SentencesOf(t, label)
      BY <1>2, <3>1 DEF SentencesOf
    <3>3. QED
      BY <1>2, <3>2
  <2>2. QED
    BY <2>1
<1>3. ASSUME had \subseteq SentencesOf(t, label), ids \subseteq Ids(t), NEW id \in had \cup ids
      PROVE  id \in SentencesOf(u, label)
  <2>1. PICK y \in ToSet(t) : y.id = id /\ (id \in ids \/ y.speaker = label)
    BY <1>3 DEF SentencesOf, Ids
  <2>2. PICK x \in ToSet(u) : x.id = y.id /\ x.speaker = IF y.id \in ids THEN patch["speaker"] ELSE y.speaker
    BY Followed
  <2>3. x.speaker = label /\ x.id = id
    BY <1>1, <2>1, <2>2
  <2>4. QED
    BY <2>3 DEF SentencesOf
<1>4. SentencesOf(t, label) \subseteq had => SentencesOf(u, label) \subseteq had \cup ids
  BY <1>2 DEF SentencesOf
<1>5. had \subseteq SentencesOf(t, label) /\ ids \subseteq Ids(t) =>
        had \cup ids \subseteq SentencesOf(u, label)
  BY <1>3
<1>6. QED
  BY <1>1, <1>4, <1>5

\* What merging two clusters makes of a partition.
Merging(before, after, target, source, all) ==
  /\ after \in Seq(ToSet(after)) /\ DOMAIN after = DOMAIN before
  /\ \A k \in DOMAIN before :
       /\ DOMAIN after[k] = ClusterFields /\ after[k].id = before[k].id
       /\ after[k].label = before[k].label
       /\ after[k].status = IF before[k].id = source THEN "MERGED" ELSE "ACTIVE"
       /\ after[k].segments = IF before[k].id = target THEN all ELSE before[k].segments

\* d is n, a partition, with the clusters merged, where all has what the speaker
\* of the target said.
MergedFrom(n, d, target, source, label, all) ==
  /\ FullInv(n) /\ Partition(n.segments, n.clusters) /\ Once(n)
  /\ d.segments = n.segments /\ d.splits = n.splits /\ target # source
  /\ \A k \in DOMAIN n.clusters : n.clusters[k].id = target => n.clusters[k].label = label
  /\ all # {} /\ all \subseteq Ids(n.segments)
  /\ BuiltId(target, label) => SentencesOf(n.segments, label) \subseteq all
  /\ Merging(n.clusters, d.clusters, target, source, all)

\* The clusters are in order, if those of the target have all that its speaker said.
LEMMA MergingOK ==
  ASSUME NEW n, NEW d, NEW target, NEW source, NEW label, NEW all,
         MergedFrom(n, d, target, source, label, all)
  PROVE  /\ ClustersInv(d)
         /\ all = SentencesOf(n.segments, label)
              /\ (\A k \in DOMAIN n.clusters : n.clusters[k].id # source) => Once(d)
<1>0. /\ FullInv(n) /\ Partition(n.segments, n.clusters) /\ Once(n)
      /\ d.segments = n.segments /\ d.splits = n.splits /\ target # source
      /\ \A k \in DOMAIN n.clusters : n.clusters[k].id = target => n.clusters[k].label = label
      /\ all # {} /\ all \subseteq Ids(n.segments)
      /\ BuiltId(target, label) => SentencesOf(n.segments, label) \subseteq all
      /\ Merging(n.clusters, d.clusters, target, source, all)
  BY DEF MergedFrom
<1>1. PICK t, b, c : t = n.segments /\ b = n.clusters /\ c = d.clusters
  OBVIOUS
<1>2. /\ c \in Seq(ToSet(c)) /\ DOMAIN c = DOMAIN b
      /\ \A k \in DOMAIN b :
           /\ DOMAIN c[k] = ClusterFields /\ c[k].id = b[k].id /\ c[k].label = b[k].label
           /\ c[k].status = IF b[k].id = source THEN "MERGED" ELSE "ACTIVE"
           /\ c[k].segments = IF b[k].id = target THEN all ELSE b[k].segments
  BY <1>0, <1>1 DEF Merging
<1>3. Partition(t, b) /\ Identified(b, n.splits) /\ n.splits \in Nat /\ ClustersTyped(t, b)
  BY <1>0, <1>1 DEF FullInv, ClustersInv
<1>4. ActiveAt(b) = DOMAIN b /\ ActiveAt(c) \subseteq DOMAIN b
  BY <1>2, <1>3 DEF ActiveAt, Partition
<1>5. \A k \in DOMAIN b : b[k].id = target => b[k].label = label
  BY <1>0, <1>1
<1>6. ClustersTyped(t, c)
  <2>1. ASSUME NEW k \in DOMAIN c
        PROVE  /\ DOMAIN c[k] = ClusterFields /\ c[k].label \in Names \X Nat
               /\ c[k].status \in Statuses /\ c[k].segments \subseteq Ids(t)
    <3>1. b[k].label \in Names \X Nat /\ b[k].segments \subseteq Ids(t)
      BY <1>2, <1>3 DEF ClustersTyped, ToSet
    <3>2. c[k].segments \subseteq Ids(t)
      BY <1>0, <1>1, <1>2, <3>1
    <3>3. QED
      BY <1>2, <3>1, <3>2 DEF Statuses
  <2>2. QED
    BY <1>2, <2>1 DEF ClustersTyped, ToSet
<1>7. Identified(c, n.splits)
  BY <1>2, <1>3, <1>4 DEF Identified
<1>8. Filled(t, c)
  <2>1. ASSUME NEW k \in DOMAIN b PROVE c[k].segments # {}
    BY <1>0, <1>2, <1>3, OfPartition
  <2>2. ASSUME NEW k \in DOMAIN b, BuiltId(c[k].id, c[k].label)
        PROVE  SentencesOf(t, c[k].label) \subseteq c[k].segments
    <3>1. CASE b[k].id = target
      BY <1>0, <1>1, <1>2, <1>5, <2>2, <3>1
    <3>2. CASE b[k].id # target
      <4>1. b[k].segments = SentencesOf(t, b[k].label)
        BY <1>3 DEF Partition
      <4>2. QED
        BY <1>2, <3>2, <4>1
    <3>3. QED
      BY <3>1, <3>2
  <2>3. QED
    BY <1>4, <2>1, <2>2 DEF Filled
<1>9. LabelsDiffer(c)
  BY <1>2, <1>3, <1>4 DEF LabelsDiffer, Partition
<1>10. ClustersInv(d)
  BY <1>0, <1>1, <1>3, <1>6, <1>7, <1>8, <1>9 DEF ClustersInv
<1>11. ASSUME all = SentencesOf(t, label), \A k \in DOMAIN b : b[k].id # source PROVE Once(d)
  <2>1. ASSUME NEW k \in DOMAIN b PROVE c[k].status = b[k].status /\ c[k].segments = b[k].segments
    <3>1. b[k].status = "ACTIVE" /\ b[k].segments = SentencesOf(t, b[k].label)
      BY <1>3 DEF Partition
    <3>2. QED
      BY <1>2, <1>5, <1>11, <3>1
  <2>2. \A x : ClustersOf(d, x) = ClustersOf(n, x)
    BY <1>0, <1>1, <1>2, <2>1 DEF ClustersOf
  <2>3. ASSUME NEW s \in ToSet(d.segments)
        PROVE  \E k \in DOMAIN d.clusters : ClustersOf(d, s.id) = {k} /\ d.clusters[k].label = s.speaker
    <3>1. s \in ToSet(n.segments)
      BY <1>0, <2>3
    <3>2. PICK k \in DOMAIN n.clusters : ClustersOf(n, s.id) = {k} /\ n.clusters[k].label = s.speaker
      BY <1>0, <3>1 DEF Once
    <3>3. k \in DOMAIN d.clusters /\ d.clusters[k].label = s.speaker
      BY <1>0, <1>1, <1>2, <3>2
    <3>4. ClustersOf(d, s.id) = {k}
      BY <2>2, <3>2
    <3>5. QED
      BY <3>3, <3>4
  <2>4. QED
    BY <2>3 DEF Once
<1>12. QED
  BY <1>0, <1>1, <1>10, <1>11

\* Merging a cluster into another.
LEMMA MergeFull ==
  ASSUME NEW r, FullInv(r), NEW i \in ActiveAt(r.clusters), NEW j \in ActiveAt(r.clusters),
         r.clusters[i].id # r.clusters[j].id
  PROVE  Keeps(r, MergeSpeakerClusters(r, r.clusters[i], r.clusters[j]))
<1>1. PICK t, target, source, status, patch :
        /\ t = r.segments /\ target = r.clusters[i] /\ source = r.clusters[j]
        /\ status = IF target.participant # None THEN "CONFIRMED" ELSE "UNCONFIRMED"
        /\ patch = [speaker |-> target.label, status |-> status]
  OBVIOUS
<1>2. /\ target.segments # {} /\ source.segments # {} /\ target.label \in Names \X Nat
      /\ target.segments \subseteq Ids(t) /\ source.segments \subseteq Ids(t)
      /\ Ids(t) \cap source.segments = source.segments
  BY <1>1, OfActive
<1>3. /\ PatchTyped(patch) /\ "edited" \notin DOMAIN patch /\ "speaker" \in DOMAIN patch
      /\ "id" \notin DOMAIN patch /\ patch["speaker"] = target.label
  <2>1. status \in Statements
    BY <1>1 DEF Statements
  <2>2. DOMAIN patch = {"speaker", "status"}
    BY <1>1
  <2>3. QED
    BY <1>1, <1>2, <2>1, <2>2 DEF PatchTyped
<1>4. PICK ids, n : ids = source.segments /\ n = PatchAll(r, ids, patch)
  OBVIOUS
<1>5. Along(r, n, ids, patch) /\ n.splits = r.splits
  <2>1. PICK done : done = Ids(r.segments) \cap ids /\ done = ids
    BY <1>1, <1>2, <1>4
  <2>2. Along(r, n, done, patch) /\ n.splits = r.splits
    BY <1>3, <1>4, <2>1, PatchAllFull
  <2>3. QED
    BY <2>1, <2>2
<1>6. /\ FullInv(n) /\ Partition(n.segments, n.clusters) /\ Once(n)
      /\ LabelsKept(r.clusters, n.clusters) /\ n.segments = PatchedAt(t, ids, patch)
  BY <1>1, <1>2, <1>4, <1>5 DEF Along
<1>7. WellFormed(t) /\ Ids(n.segments) = Ids(t)
  <2>1. WellFormed(t)
    BY <1>1 DEF FullInv, ReviewOK
  <2>2. QED
    BY <1>3, <1>6, <2>1, PatchedSegments
<1>8. PICK d : d = MergeSpeakerClusters(r, target, source)
  OBVIOUS
<1>9. PICK all : all = target.segments \cup ids
  OBVIOUS
<1>10. PICK clusters : clusters =
         [k \in DOMAIN n.clusters |->
            IF n.clusters[k].id = target.id THEN [n.clusters[k] EXCEPT !.segments = all]
            ELSE IF n.clusters[k].id = source.id THEN [n.clusters[k] EXCEPT !.status = "MERGED"]
            ELSE n.clusters[k]]
  OBVIOUS
<1>11. d = [n EXCEPT !.clusters = clusters]
  BY <1>1, <1>4, <1>8, <1>9, <1>10 DEF MergeSpeakerClusters
<1>12. DOMAIN n = ReviewFields
  BY <1>6 DEF FullInv, ReviewOK
<1>13. /\ d.segments = n.segments /\ d.terms = n.terms /\ d.history = n.history
       /\ d.applications = n.applications /\ d.splits = n.splits /\ d.clusters = clusters
  BY <1>11, <1>12 DEF ReviewFields
<1>14. Merging(n.clusters, clusters, target.id, source.id, all)
  <2>1. PICK b : b = n.clusters
    OBVIOUS
  <2>2. b \in Seq(ToSet(b)) /\ \A k \in DOMAIN b : DOMAIN b[k] = ClusterFields /\ b[k].status = "ACTIVE"
    BY <1>6, <2>1 DEF Partition
  <2>3. DOMAIN b = 1..Len(b) /\ Len(b) \in Nat
    BY <2>2
  <2>4. clusters \in Seq(ToSet(clusters)) /\ DOMAIN clusters = DOMAIN b
    <3>1. DOMAIN clusters = 1..Len(b)
      BY <1>10, <2>1, <2>3
    <3>2. clusters = [k \in 1..Len(b) |-> clusters[k]]
      BY <1>10, <2>1, <2>3
    <3>3. QED
      BY <2>3, <3>1, <3>2, Sequence
  <2>5. ASSUME NEW k \in DOMAIN b
        PROVE  /\ DOMAIN clusters[k] = ClusterFields /\ clusters[k].id = b[k].id
               /\ clusters[k].label = b[k].label
               /\ clusters[k].status = IF b[k].id = source.id THEN "MERGED" ELSE "ACTIVE"
               /\ clusters[k].segments = IF b[k].id = target.id THEN all ELSE b[k].segments
    <3>1. clusters[k] = IF b[k].id = target.id THEN [b[k] EXCEPT !.segments = all]
                        ELSE IF b[k].id = source.id THEN [b[k] EXCEPT !.status = "MERGED"]
                        ELSE b[k]
      BY <1>10, <2>1
    <3>2. DOMAIN b[k] = ClusterFields /\ b[k].status = "ACTIVE"
      BY <2>2
    <3>3. target.id # source.id
      BY <1>1
    <3>4. QED
      BY <3>1, <3>2, <3>3 DEF ClusterFields
  <2>6. QED
    BY <2>1, <2>4, <2>5 DEF Merging
<1>15. \A k \in DOMAIN n.clusters :
         n.clusters[k].id = target.id => n.clusters[k].label = target.label
  <2>1. \A k \in DOMAIN n.clusters : k \in ActiveAt(n.clusters)
    BY <1>6 DEF Partition, ActiveAt
  <2>2. QED
    BY <1>1, <1>6, <2>1 DEF LabelsKept
<1>16. BuiltId(target.id, target.label) => SentencesOf(n.segments, target.label) \subseteq all
  <2>1. BuiltId(target.id, target.label) => SentencesOf(t, target.label) \subseteq target.segments
    BY <1>1 DEF FullInv, ClustersInv, Filled
  <2>2. QED
    BY <1>3, <1>6, <1>7, <1>9, <2>1, Given
<1>17. /\ ClustersInv(d)
       /\ all = SentencesOf(n.segments, target.label)
            /\ (\A k \in DOMAIN n.clusters : n.clusters[k].id # source.id) => Once(d)
  <2>1. PICK a, s, label : a = target.id /\ s = source.id /\ label = target.label /\ a # s
    BY <1>1
  <2>2. /\ \A k \in DOMAIN n.clusters : n.clusters[k].id = a => n.clusters[k].label = label
        /\ BuiltId(a, label) => SentencesOf(n.segments, label) \subseteq all
        /\ Merging(n.clusters, d.clusters, a, s, all)
    BY <1>13, <1>14, <1>15, <1>16, <2>1
  <2>3. all # {} /\ all \subseteq Ids(n.segments)
    BY <1>2, <1>4, <1>7, <1>9
  <2>4. /\ ClustersInv(d)
        /\ all = SentencesOf(n.segments, label)
             /\ (\A k \in DOMAIN n.clusters : n.clusters[k].id # s) => Once(d)
    <3>1. MergedFrom(n, d, a, s, label, all)
      BY <1>6, <1>13, <2>1, <2>2, <2>3 DEF MergedFrom
    <3>2. QED
      BY <3>1, MergingOK
  <2>5. QED
    BY <2>1, <2>4
<1>18. ASSUME Once(r) PROVE Once(d)
  <2>1. /\ target.segments = SentencesOf(t, target.label)
        /\ source.segments = SentencesOf(t, source.label)
    BY <1>1, <1>18, OnceFills
  <2>2. target.label # source.label
    <3>1. LabelsDiffer(r.clusters)
      BY <1>18 DEF FullInv, ClustersInv
    <3>2. QED
      BY <1>1, <3>1 DEF LabelsDiffer
  <2>3. all = SentencesOf(n.segments, target.label)
    <3>1. SentencesOf(n.segments, target.label) \subseteq all
      BY <1>3, <1>6, <1>7, <1>9, <2>1, Given
    <3>2. all \subseteq SentencesOf(n.segments, target.label)
      BY <1>2, <1>3, <1>4, <1>6, <1>7, <1>9, <2>1, Given
    <3>3. QED
      BY <3>1, <3>2
  <2>4. \A k \in DOMAIN n.clusters : n.clusters[k].id # source.id
    <3>1. PICK done : done = r.clusters[j].segments
      OBVIOUS
    <3>2. Along(r, n, done, patch) /\ patch["speaker"] # r.clusters[j].label
      BY <1>1, <1>3, <1>4, <1>5, <2>2, <3>1
    <3>3. SentencesOf(r.segments, r.clusters[j].label) \subseteq r.clusters[j].segments
      BY <1>1, <2>1
    <3>4. QED
      BY <1>1, <1>3, <3>1, <3>2, <3>3, Gone
  <2>5. QED
    BY <1>17, <2>3, <2>4
<1>19. FullInv(d)
  <2>1. ReviewOK(d)
    BY <1>8, ClustersOK DEF FullInv
  <2>2. QED
    BY <1>6, <1>13, <1>17, <2>1, Reclustered
<1>20. TraceStep(r, d)
  <2>1. Along(r, n, ids, patch) /\ d.segments = n.segments /\ d.history = n.history
    BY <1>5, <1>13
  <2>2. QED
    BY <1>3, <2>1, AlongTraced
<1>21. Keeps(r, d)
  BY <1>18, <1>19, <1>20 DEF Keeps
<1>22. QED
  BY <1>1, <1>8, <1>21

\* What a split makes of a partition.
Splitting(before, after, cluster, id, number, label) ==
  /\ after \in Seq(ToSet(after)) /\ Len(after) = Len(before) + 1
  /\ \A k \in 1..Len(before) :
       /\ DOMAIN after[k] = ClusterFields /\ after[k].id = before[k].id
       /\ after[k].label = before[k].label
       /\ after[k].status = IF before[k].id = cluster THEN "SPLIT" ELSE "ACTIVE"
       /\ after[k].segments = IF before[k].id = cluster THEN before[k].segments \ {id}
                              ELSE before[k].segments
  /\ after[Len(before) + 1] =
       [id |-> <<"split", number, label>>, label |-> label, participant |-> None,
        status |-> "ACTIVE", segments |-> {id}]

\* Here d is n, a partition, with a cluster split: the sentence is now in two.
SplitFrom(n, d, cluster, old, id, label) ==
  /\ FullInv(n) /\ Partition(n.segments, n.clusters)
  /\ d.segments = n.segments /\ d.splits = n.splits + 1
  /\ \A k \in DOMAIN n.clusters : n.clusters[k].id = cluster => n.clusters[k].label = old
  /\ label \in Names \X Nat /\ label # old /\ id \in Ids(n.segments)
  /\ \E x \in ToSet(n.segments) : x.id = id /\ x.speaker = label
  /\ Splitting(n.clusters, d.clusters, cluster, id, n.splits, label)

\* The clusters are in order, though a sentence is not in one only.
LEMMA SplittingOK ==
  ASSUME NEW n, NEW d, NEW cluster, NEW old, NEW id, NEW label,
         SplitFrom(n, d, cluster, old, id, label)
  PROVE  ClustersInv(d)
<1>1. PICK t, b, c, m : t = n.segments /\ b = n.clusters /\ c = d.clusters /\ m = Len(b)
  OBVIOUS
<1>2. PICK added : added = [id |-> <<"split", n.splits, label>>, label |-> label,
                            participant |-> None, status |-> "ACTIVE", segments |-> {id}]
  OBVIOUS
<1>3. Partition(t, b) /\ Identified(b, n.splits) /\ n.splits \in Nat /\ ClustersTyped(t, b)
  BY <1>1 DEF SplitFrom, FullInv, ClustersInv
<1>4. m \in Nat /\ DOMAIN b = 1..m
  BY <1>1, <1>3 DEF Partition
<1>5. /\ c \in Seq(ToSet(c)) /\ Len(c) = m + 1 /\ c[m + 1] = added
      /\ \A k \in 1..m :
           /\ DOMAIN c[k] = ClusterFields /\ c[k].id = b[k].id /\ c[k].label = b[k].label
           /\ c[k].status = IF b[k].id = cluster THEN "SPLIT" ELSE "ACTIVE"
           /\ c[k].segments = IF b[k].id = cluster THEN b[k].segments \ {id} ELSE b[k].segments
  BY <1>1, <1>2 DEF SplitFrom, Splitting
<1>6. DOMAIN c = 1..(m + 1)
  BY <1>4, <1>5
<1>7. \A k \in DOMAIN c : k \in 1..m \/ k = m + 1
  BY <1>4, <1>6
<1>8. m + 1 \notin 1..m /\ m + 1 \in DOMAIN c
  BY <1>4, <1>6
<1>9. /\ DOMAIN added = ClusterFields /\ added.id = <<"split", n.splits, label>>
      /\ added.label = label /\ added.status = "ACTIVE" /\ added.segments = {id}
  BY <1>2 DEF ClusterFields
<1>10. ActiveAt(b) = 1..m
  BY <1>3, <1>4 DEF ActiveAt, Partition
<1>11. \A k \in ActiveAt(c) : k = m + 1 \/ (k \in 1..m /\ c[k].segments = b[k].segments)
  BY <1>5, <1>7 DEF ActiveAt
<1>12. label \in Names \X Nat /\ id \in Ids(t) /\ d.segments = t /\ d.splits = n.splits + 1
  BY <1>1 DEF SplitFrom
<1>13. SplitId(added.id, n.splits + 1) /\ ~SplitId(added.id, n.splits)
  BY <1>3, <1>9 DEF SplitId
<1>14. ~BuiltId(added.id, label)
  BY <1>13, IdsApart
<1>15. ClustersTyped(t, c)
  <2>1. ASSUME NEW k \in DOMAIN c
        PROVE  /\ DOMAIN c[k] = ClusterFields /\ c[k].label \in Names \X Nat
               /\ c[k].status \in Statuses /\ c[k].segments \subseteq Ids(t)
    <3>1. CASE k \in 1..m
      <4>1. b[k].label \in Names \X Nat /\ b[k].segments \subseteq Ids(t)
        BY <1>3, <1>4, <3>1 DEF ClustersTyped, ToSet
      <4>2. QED
        BY <1>5, <3>1, <4>1 DEF Statuses
    <3>2. CASE k = m + 1
      BY <1>5, <1>9, <1>12, <3>2 DEF Statuses
    <3>3. QED
      BY <1>7, <3>1, <3>2
  <2>2. QED
    BY <1>5, <2>1 DEF ClustersTyped, ToSet
<1>16. Identified(c, n.splits + 1)
  <2>1. ASSUME NEW k \in ActiveAt(c)
        PROVE  BuiltId(c[k].id, c[k].label) \/ SplitId(c[k].id, n.splits + 1)
    <3>1. CASE k \in 1..m
      <4>1. BuiltId(b[k].id, b[k].label) \/ SplitId(b[k].id, n.splits)
        BY <1>3, <1>10, <3>1 DEF Identified
      <4>2. SplitId(b[k].id, n.splits) => SplitId(b[k].id, n.splits + 1)
        BY <1>3 DEF SplitId
      <4>3. QED
        BY <1>5, <3>1, <4>1, <4>2
    <3>2. CASE k = m + 1
      BY <1>5, <1>13, <3>2
    <3>3. QED
      BY <1>11, <3>1, <3>2
  <2>2. ASSUME NEW k \in 1..m PROVE c[k].id # added.id
    <3>1. SUFFICES ASSUME b[k].id = added.id PROVE FALSE
      BY <1>5
    <3>2. BuiltId(added.id, b[k].label) \/ SplitId(added.id, n.splits)
      BY <1>3, <1>10, <3>1 DEF Identified
    <3>3. QED
      BY <1>13, <3>2, IdsApart
  <2>3. ASSUME NEW j \in ActiveAt(c), NEW k \in ActiveAt(c), c[j].id = c[k].id PROVE j = k
    <3>1. CASE j \in 1..m /\ k \in 1..m
      BY <1>3, <1>5, <1>10, <2>3, <3>1 DEF Identified
    <3>2. CASE ~(j \in 1..m /\ k \in 1..m)
      BY <1>5, <1>11, <2>2, <2>3, <3>2
    <3>3. QED
      BY <3>1, <3>2
  <2>4. QED
    BY <2>1, <2>3 DEF Identified
<1>17. Filled(t, c)
  <2>1. ASSUME NEW k \in ActiveAt(c)
        PROVE  /\ c[k].segments # {}
               /\ BuiltId(c[k].id, c[k].label) => SentencesOf(t, c[k].label) \subseteq c[k].segments
    <3>1. CASE k \in 1..m
      <4>1. b[k].segments # {}
        BY <1>3, <1>4, <3>1, OfPartition
      <4>2. b[k].segments = SentencesOf(t, b[k].label)
        BY <1>3, <1>4, <3>1 DEF Partition
      <4>3. c[k].segments = b[k].segments
        BY <1>8, <1>11, <3>1
      <4>4. QED
        BY <1>5, <3>1, <4>1, <4>2, <4>3
    <3>2. CASE k = m + 1
      BY <1>5, <1>9, <1>14, <3>2
    <3>3. QED
      BY <1>11, <3>1, <3>2
  <2>2. QED
    BY <2>1 DEF Filled
<1>18. ~Once(d)
  <2>1. SUFFICES ASSUME Once(d) PROVE FALSE
    OBVIOUS
  <2>2. PICK x \in ToSet(t) : x.id = id /\ x.speaker = label
    BY <1>1 DEF SplitFrom
  <2>3. PICK j \in 1..m : b[j].label = label
    BY <1>3, <1>4, <2>2 DEF Partition
  <2>4. id \in b[j].segments
    <3>1. b[j].segments = SentencesOf(t, label)
      BY <1>3, <1>4, <2>3 DEF Partition
    <3>2. QED
      BY <2>2, <3>1 DEF SentencesOf
  <2>5. b[j].id # cluster
    BY <1>1, <1>4, <2>3 DEF SplitFrom
  <2>6. j \in ClustersOf(d, id)
    <3>1. j \in DOMAIN c
      BY <1>4, <1>6
    <3>2. c[j].status = "ACTIVE" /\ c[j].segments = b[j].segments
      BY <1>5, <2>5
    <3>3. QED
      BY <1>1, <2>4, <3>1, <3>2 DEF ClustersOf
  <2>7. m + 1 \in ClustersOf(d, id)
    BY <1>1, <1>5, <1>8, <1>9 DEF ClustersOf
  <2>8. PICK k : ClustersOf(d, id) = {k}
    BY <1>12, <2>1, <2>2 DEF Once
  <2>9. QED
    BY <1>8, <2>6, <2>7, <2>8
<1>19. n.splits + 1 \in Nat
  BY <1>3
<1>20. QED
  BY <1>1, <1>12, <1>15, <1>16, <1>17, <1>18, <1>19 DEF ClustersInv

\* Splitting a sentence from its cluster.
LEMMA SplitFull ==
  ASSUME NEW r, FullInv(r), NEW id \in Ids(r.segments), NEW i \in ActiveAt(r.clusters)
  PROVE  /\ FullInv(SplitSpeakerCluster(r, r.clusters[i], id))
         /\ TraceStep(r, SplitSpeakerCluster(r, r.clusters[i], id))
<1>1. PICK c, label, patch :
        /\ c = r.clusters[i] /\ label = <<c.label[1], c.label[2] + 1>>
        /\ patch = [speaker |-> label, status |-> "UNCONFIRMED"]
  OBVIOUS
<1>2. c.label \in Names \X Nat /\ label \in Names \X Nat /\ label # c.label
  <2>1. c.label \in Names \X Nat
    BY <1>1, OfActive
  <2>2. PICK name \in Names, number \in Nat : c.label = <<name, number>>
    BY <2>1
  <2>3. label = <<name, number + 1>>
    BY <1>1, <2>2
  <2>4. number + 1 \in Nat /\ number + 1 # number
    OBVIOUS
  <2>5. QED
    BY <2>2, <2>3, <2>4
<1>3. /\ PatchTyped(patch) /\ "speaker" \in DOMAIN patch /\ "id" \notin DOMAIN patch
      /\ patch["speaker"] = label
  <2>1. DOMAIN patch = {"speaker", "status"}
    BY <1>1
  <2>2. QED
    BY <1>1, <1>2, <2>1 DEF PatchTyped, Statements
<1>4. PICK n : n = PatchReviewSegment(r, id, patch, "USER")
  OBVIOUS
<1>5. PatchResult(r, id, patch, "USER", n) /\ TraceStep(r, n)
  BY <1>3, <1>4, PatchFull, PatchTraced
<1>6. /\ FullInv(n) /\ Partition(n.segments, n.clusters) /\ n.splits = r.splits
      /\ n.segments = PatchedAt(r.segments, {id}, patch)
      /\ n.clusters = RefreshedClusters(n.segments, r.clusters)
  BY <1>5 DEF PatchResult
<1>7. WellFormed(r.segments) /\ Ids(n.segments) = Ids(r.segments)
  <2>1. WellFormed(r.segments)
    BY DEF FullInv, ReviewOK
  <2>2. QED
    BY <1>3, <1>6, <2>1, PatchedSegments
<1>8. LabelsKept(r.clusters, n.clusters)
  <2>1. PICK b : b = r.clusters
    OBVIOUS
  <2>2. Identified(b, r.splits) /\ b \in Seq(ToSet(b))
    BY <2>1 DEF FullInv, ClustersInv, ClustersTyped
  <2>3. LabelsKept(b, b)
    BY <2>2 DEF LabelsKept, Identified
  <2>4. WellFormed(n.segments)
    BY <1>6 DEF FullInv, ReviewOK
  <2>5. LabelsKept(b, RefreshedClusters(n.segments, b))
    BY <2>2, <2>3, <2>4, LabelsRefreshed
  <2>6. QED
    BY <1>6, <2>1, <2>5
<1>9. \A k \in DOMAIN n.clusters : n.clusters[k].id = c.id => n.clusters[k].label = c.label
  <2>1. \A k \in DOMAIN n.clusters : k \in ActiveAt(n.clusters)
    BY <1>6 DEF Partition, ActiveAt
  <2>2. QED
    BY <1>1, <1>8, <2>1 DEF LabelsKept
<1>10. \E x \in ToSet(n.segments) : x.id = id /\ x.speaker = label
  <2>1. PICK y \in ToSet(r.segments) : y.id = id
    BY DEF Ids
  <2>2. PICK x \in ToSet(n.segments) :
          x.id = y.id /\ x.speaker = IF y.id \in {id} THEN patch["speaker"] ELSE y.speaker
    BY <1>3, <1>6, <1>7, Followed
  <2>3. QED
    BY <1>3, <2>1, <2>2
<1>11. PICK d : d = SplitSpeakerCluster(r, c, id)
  OBVIOUS
<1>12. PICK b, e, added, clusters :
         /\ b = n.clusters
         /\ e = [k \in DOMAIN b |->
                   IF b[k].id = c.id THEN [b[k] EXCEPT !.segments = @ \ {id}, !.status = "SPLIT"]
                   ELSE b[k]]
         /\ added = [id |-> <<"split", r.splits, label>>, label |-> label, participant |-> None,
                     status |-> "ACTIVE", segments |-> {id}]
         /\ clusters = Append(e, added)
  OBVIOUS
<1>13. d = [n EXCEPT !.clusters = clusters, !.splits = @ + 1]
  BY <1>1, <1>4, <1>11, <1>12 DEF SplitSpeakerCluster
<1>14. DOMAIN n = ReviewFields
  BY <1>6 DEF FullInv, ReviewOK
<1>15. /\ d.segments = n.segments /\ d.terms = n.terms /\ d.history = n.history
       /\ d.applications = n.applications /\ d.splits = n.splits + 1 /\ d.clusters = clusters
  BY <1>13, <1>14 DEF ReviewFields
<1>16. Splitting(b, clusters, c.id, id, n.splits, label)
  <2>1. b \in Seq(ToSet(b)) /\ \A k \in DOMAIN b : DOMAIN b[k] = ClusterFields /\ b[k].status = "ACTIVE"
    BY <1>6, <1>12 DEF Partition
  <2>2. DOMAIN b = 1..Len(b) /\ Len(b) \in Nat
    BY <2>1
  <2>3. e \in Seq(ToSet(e)) /\ Len(e) = Len(b)
    <3>1. DOMAIN e = 1..Len(b)
      BY <1>12, <2>2
    <3>2. e = [k \in 1..Len(b) |-> e[k]]
      BY <1>12, <2>2
    <3>3. QED
      BY <2>2, <3>1, <3>2, Sequence
  <2>4. clusters = Append(e, added)
    BY <1>12
  <2>5. /\ clusters \in Seq(ToSet(clusters))
        /\ Len(clusters) = Len(b) + 1 /\ clusters[Len(b) + 1] = added
        /\ \A k \in 1..Len(b) : clusters[k] = e[k]
    <3>1. PICK S : S = ToSet(e) \cup {added}
      OBVIOUS
    <3>2. e \in Seq(S) /\ added \in S
      BY <2>3, <3>1, Widened
    <3>3. clusters \in Seq(S)
      BY <2>4, <3>2, AppendProperties
    <3>4. /\ Len(clusters) = Len(b) + 1 /\ clusters[Len(b) + 1] = added
          /\ \A k \in 1..Len(b) : clusters[k] = e[k]
      BY <2>2, <2>3, <2>4, <3>2, AppendProperties
    <3>5. QED
      BY <3>3, <3>4, Narrowed
  <2>6. ASSUME NEW k \in 1..Len(b)
        PROVE  /\ DOMAIN clusters[k] = ClusterFields /\ clusters[k].id = b[k].id
               /\ clusters[k].label = b[k].label
               /\ clusters[k].status = IF b[k].id = c.id THEN "SPLIT" ELSE "ACTIVE"
               /\ clusters[k].segments = IF b[k].id = c.id THEN b[k].segments \ {id}
                                         ELSE b[k].segments
    <3>1. clusters[k] = IF b[k].id = c.id
                          THEN [b[k] EXCEPT !.segments = @ \ {id}, !.status = "SPLIT"]
                          ELSE b[k]
      BY <1>12, <2>2, <2>5
    <3>2. DOMAIN b[k] = ClusterFields /\ b[k].status = "ACTIVE"
      BY <2>1, <2>2
    <3>3. QED
      BY <3>1, <3>2 DEF ClusterFields
  <2>7. QED
    BY <1>6, <1>12, <2>5, <2>6 DEF Splitting
<1>17. ClustersInv(d)
  <2>1. PICK a, old : a = c.id /\ old = c.label
    OBVIOUS
  <2>2. SplitFrom(n, d, a, old, id, label)
    BY <1>2, <1>6, <1>7, <1>9, <1>10, <1>12, <1>15, <1>16, <2>1 DEF SplitFrom
  <2>3. QED
    BY <2>2, SplittingOK
<1>18. FullInv(d)
  <2>1. ReviewOK(d)
    BY <1>11, ClustersOK DEF FullInv
  <2>2. QED
    BY <1>6, <1>15, <1>17, <2>1, Reclustered
<1>19. TraceStep(r, d)
  BY <1>5, <1>15 DEF TraceStep, Recorded
<1>20. QED
  BY <1>1, <1>11, <1>18, <1>19

\* Patching one sentence.
LEMMA PatchKeeps ==
  ASSUME NEW r, FullInv(r), NEW id \in Ids(r.segments), NEW patch, PatchTyped(patch), NEW source
  PROVE  Keeps(r, PatchReviewSegment(r, id, patch, source))
<1>1. PICK d : d = PatchReviewSegment(r, id, patch, source)
  OBVIOUS
<1>2. PatchResult(r, id, patch, source, d)
  BY <1>1, PatchFull
<1>3. FullInv(d) /\ Once(d)
  BY <1>2 DEF PatchResult
<1>4. TraceStep(r, d)
  BY <1>1, PatchTraced
<1>5. QED
  BY <1>1, <1>3, <1>4 DEF Keeps

\* A text without superfluous white space has words of the vocabulary.
LEMMA NormalizeTyped == ASSUME NEW text \in Seq(Vocabulary) PROVE Normalize(text) \in Seq(Vocabulary)
<1>1. PICK kept : kept = {k \in DOMAIN text : text[k] # Blank}
  OBVIOUS
<1>2. kept \in SUBSET DOMAIN text
  BY <1>1
<1>3. SelectAt(text, kept) \in Seq(Vocabulary)
  BY <1>2, SelectionOK
<1>4. QED
  BY <1>1, <1>3 DEF Normalize

\* The buttons of a sentence.
LEMMA EditsFull ==
  ASSUME FullInv(review), NEW s \in ToSet(review.segments)
  PROVE  /\ \A text \in Texts : EditText(s, text) => Keeps(review, review')
         /\ \A name \in Names : EditSpeaker(s, name) => Keeps(review, review')
         /\ ClickReprocess(s) => Keeps(review, review')
<1>1. PICK id : id = s.id /\ id \in Ids(review.segments)
  BY DEF Ids
<1>2. ASSUME NEW text \in Texts, EditText(s, text) PROVE Keeps(review, review')
  <2>1. PICK patch : /\ review' = PatchReviewSegment(review, id, patch, "USER")
                     /\ \/ patch = [raw |-> text, normalized |-> text, edited |-> text]
                        \/ patch = [edited |-> text]
    BY <1>1, <1>2 DEF EditText, Commit
  <2>2. text \in Seq(Vocabulary)
    BY InputsWellFormed
  <2>3. PatchTyped(patch)
    <3>1. CASE patch = [raw |-> text, normalized |-> text, edited |-> text]
      <4>1. DOMAIN patch = {"raw", "normalized", "edited"} /\ \A f \in DOMAIN patch : patch[f] = text
        BY <3>1
      <4>2. QED
        BY <2>2, <4>1 DEF PatchTyped
    <3>2. CASE patch = [edited |-> text]
      <4>1. DOMAIN patch = {"edited"} /\ \A f \in DOMAIN patch : patch[f] = text
        BY <3>2
      <4>2. QED
        BY <2>2, <4>1 DEF PatchTyped
    <3>3. QED
      BY <2>1, <3>1, <3>2
  <2>4. QED
    BY <1>1, <2>1, <2>3, PatchKeeps
<1>3. ASSUME NEW name \in Names, EditSpeaker(s, name) PROVE Keeps(review, review')
  <2>1. PICK patch : /\ review' = PatchReviewSegment(review, id, patch, "USER")
                     /\ patch = [speaker |-> Speaker(name), status |-> "CONFIRMED"]
    BY <1>1, <1>3 DEF EditSpeaker, Commit
  <2>2. DOMAIN patch = {"speaker", "status"} /\ patch["speaker"] \in Names \X Nat
        /\ patch["status"] = "CONFIRMED"
    BY <2>1 DEF Speaker
  <2>3. PatchTyped(patch)
    BY <2>2 DEF PatchTyped, Statements
  <2>4. QED
    BY <1>1, <2>1, <2>3, PatchKeeps
<1>4. ASSUME ClickReprocess(s) PROVE Keeps(review, review')
  <2>1. PICK text, patch : /\ text = Normalize(Get(review.segments, id).raw)
                           /\ patch = [normalized |-> text, edited |-> text]
    OBVIOUS
  <2>2. review' = PatchReviewSegment(review, id, patch, "REPROCESS")
    BY <1>1, <1>4, <2>1 DEF ClickReprocess, ReprocessSegment, Commit
  <2>3. Get(review.segments, id) \in ToSet(review.segments)
    BY <1>1 DEF Get
  <2>4. text \in Seq(Vocabulary)
    <3>1. PICK raw : raw = Get(review.segments, id).raw
      OBVIOUS
    <3>2. raw \in Seq(Vocabulary)
      BY <2>3, <3>1 DEF FullInv, TextsInv, Typed, SegmentTyped
    <3>3. QED
      BY <2>1, <3>1, <3>2, NormalizeTyped
  <2>5. DOMAIN patch = {"normalized", "edited"} /\ \A f \in DOMAIN patch : patch[f] = text
    BY <2>1
  <2>6. PatchTyped(patch)
    BY <2>4, <2>5 DEF PatchTyped
  <2>7. QED
    BY <1>1, <2>2, <2>6, PatchKeeps
<1>5. QED
  BY <1>2, <1>3, <1>4

\* Splitting, too, only concerns a sentence of the transcript and its cluster.
LEMMA ClickSplitFull ==
  ASSUME FullInv(review), NEW s \in ToSet(review.segments), ClickSplit(s)
  PROVE  FullInv(review') /\ TraceStep(review, review')
<1>1. PICK id, of : id = s.id /\ id \in Ids(review.segments) /\ of = ClustersOf(review, id)
  BY DEF Ids
<1>2. PICK i : i = Min(of)
  OBVIOUS
<1>3. of # {} /\ review' = SplitSpeakerCluster(review, review.clusters[i], id)
  BY <1>1, <1>2 DEF ClickSplit, Commit
<1>4. of \subseteq Nat
  <2>1. PICK c : c = review.clusters
    OBVIOUS
  <2>2. c \in Seq(ToSet(c))
    BY <2>1 DEF FullInv, ClustersInv, ClustersTyped
  <2>3. DOMAIN c \subseteq Nat
    BY <2>2
  <2>4. QED
    BY <1>1, <2>1, <2>3 DEF ClustersOf
<1>5. i \in of
  BY <1>2, <1>3, <1>4, Lowest
<1>6. i \in ActiveAt(review.clusters)
  BY <1>1, <1>5 DEF ClustersOf, ActiveAt
<1>7. PICK d : d = SplitSpeakerCluster(review, review.clusters[i], id)
  OBVIOUS
<1>8. FullInv(d) /\ TraceStep(review, d)
  BY <1>1, <1>6, <1>7, SplitFull
<1>9. QED
  BY <1>3, <1>7, <1>8

\* What a transcript changed elsewhere makes of a review.
Merges(r, d) == FullInv(d) /\ (Once(r) => Once(d))

\* Merging a transcript does so.
LEMMA MergedKeeps ==
  ASSUME NEW r, FullInv(r), NEW t, WellFormed(t), Typed(t)
  PROVE  Merges(r, MergeIncoming(r, t))
<1>1. PICK d : d = MergeIncoming(r, t)
  OBVIOUS
<1>2. FullInv(d) /\ (Once(r) => Once(d))
  BY <1>1, MergedFull
<1>3. QED
  BY <1>1, <1>2 DEF Merges

\* And so does the step that takes it, which is counted; before there is a review
\* one is made of it.
LEMMA IncomingFull ==
  ASSUME FullInv(review), NEW t, WellFormed(t), Typed(t), Incoming(t)
  PROVE  Merges(review, review') /\ Spend("changes")
<1>1. Spend("changes")
  BY DEF Incoming
<1>2. CASE draft = "ready"
  BY <1>1, <1>2, MergedKeeps DEF Incoming
<1>3. CASE draft # "ready"
  <2>1. review' = CreateReview(t) /\ FullInv(CreateReview(t)) /\ Once(CreateReview(t))
    BY <1>3, CreatedFull DEF Incoming
  <2>2. QED
    BY <1>1, <2>1 DEF Merges
<1>4. QED
  BY <1>2, <1>3

\* A transcript with another text for a sentence.
Retexted(t, id, text) ==
  [k \in DOMAIN t |-> IF t[k].id = id THEN [t[k] EXCEPT !.edited = text] ELSE t[k]]

\* A typed transcript stays typed without a sentence, with another one, and with
\* another text.
LEMMA ChangedTyped ==
  ASSUME NEW t, WellFormed(t), Typed(t)
  PROVE  /\ \A k \in DOMAIN t : Typed(RemoveAt(t, k))
         /\ \A s : SegmentTyped(s) => Typed(Append(t, s))
         /\ \A id : \A text \in Seq(Vocabulary) : Typed(Retexted(t, id, text))
<1>1. PICK n \in Nat : n = Len(t) /\ DOMAIN t = 1..n /\ t = [k \in 1..n |-> t[k]]
  BY Positions
<1>2. \A k \in 1..n : t[k] \in ToSet(t) /\ DOMAIN t[k] = Fields /\ SegmentTyped(t[k])
  BY <1>1, Positions DEF Typed
<1>3. PICK S : S = ToSet(t)
  OBVIOUS
<1>4. t \in Seq(S)
  BY <1>3 DEF WellFormed
<1>5. ASSUME NEW k \in 1..n PROVE Typed(RemoveAt(t, k))
  <2>1. PICK a, b : a = SubSeq(t, 1, k - 1) /\ b = SubSeq(t, k + 1, n)
    OBVIOUS
  <2>2. \A j \in 1..(k - 1) : j \in 1..n
    OBVIOUS
  <2>3. \A j \in (k + 1)..n : j \in 1..n
    OBVIOUS
  <2>4. a \in Seq(S)
    <3>1. 1 \in Int /\ k - 1 \in Int /\ \A j \in 1..(k - 1) : t[j] \in S
      BY <1>2, <1>3, <2>2
    <3>2. QED
      BY <2>1, <3>1, SubSeqProperties
  <2>5. b \in Seq(S)
    <3>1. k + 1 \in Int /\ n \in Int /\ \A j \in (k + 1)..n : t[j] \in S
      BY <1>2, <1>3, <2>3
    <3>2. QED
      BY <2>1, <3>1, SubSeqProperties
  <2>6. PICK u : u = RemoveAt(t, k)
    OBVIOUS
  <2>7. u = a \o b
    BY <1>1, <2>1, <2>6 DEF RemoveAt
  <2>8. u \in Seq(S)
    BY <2>4, <2>5, <2>7, ConcatProperties
  <2>9. ToSet(u) \subseteq S
    BY <2>8, Narrowed
  <2>10. QED
    BY <1>3, <2>6, <2>9 DEF Typed
<1>6. ASSUME NEW s, SegmentTyped(s) PROVE Typed(Append(t, s))
  <2>1. PICK u, T : u = Append(t, s) /\ T = S \cup {s}
    OBVIOUS
  <2>2. t \in Seq(T) /\ s \in T
    <3>1. t \in Seq(ToSet(t)) /\ ToSet(t) \subseteq T
      BY <1>3, <1>4, <2>1
    <3>2. QED
      BY <2>1, <3>1, Widened
  <2>3. u \in Seq(T)
    BY <2>1, <2>2, AppendProperties
  <2>4. ToSet(u) \subseteq T
    BY <2>3, Narrowed
  <2>5. QED
    BY <1>3, <1>6, <2>1, <2>4 DEF Typed
<1>7. ASSUME NEW id, NEW text \in Seq(Vocabulary)
      PROVE  Typed(Retexted(t, id, text))
  <2>1. PICK u : u = Retexted(t, id, text)
    OBVIOUS
  <2>2. ASSUME NEW k \in 1..n PROVE SegmentTyped(u[k])
    <3>1. u[k] = IF t[k].id = id THEN [t[k] EXCEPT !.edited = text] ELSE t[k]
      BY <1>1, <2>1 DEF Retexted
    <3>2. DOMAIN t[k] = Fields /\ SegmentTyped(t[k])
      BY <1>2
    <3>3. SegmentTyped([t[k] EXCEPT !.edited = text])
      BY <1>7, <3>2 DEF SegmentTyped, Fields
    <3>4. QED
      BY <3>1, <3>2, <3>3
  <2>3. DOMAIN u = 1..n
    BY <1>1, <2>1 DEF Retexted
  <2>4. Typed(u)
    BY <2>2, <2>3 DEF Typed, ToSet
  <2>5. QED
    BY <2>1, <2>4
<1>8. QED
  BY <1>1, <1>5, <1>6, <1>7

\* The transcript changed elsewhere.
LEMMA ChangesFull ==
  ASSUME FullInv(review)
  PROVE  /\ \A s \in ToSet(review.segments), text \in Texts :
              LiveText(s, text) => Merges(review, review') /\ Spend("changes")
         /\ \A s : DeleteSegment(s) => Merges(review, review') /\ Spend("changes")
         /\ \A name \in Names : AddSegment(name) => Merges(review, review') /\ Spend("changes")
         /\ \A t \in Transcripts :
              ServerTranscript(t) => Merges(review, review') /\ Spend("changes")
<1>1. PICK t : t = review.segments /\ WellFormed(t) /\ Typed(t)
  BY DEF FullInv, ReviewOK, TextsInv
<1>2. ASSUME NEW s \in ToSet(t), NEW text \in Texts, LiveText(s, text)
      PROVE  Merges(review, review') /\ Spend("changes")
  <2>1. PICK u : u = [k \in DOMAIN t |->
                        IF t[k].id = s.id THEN [t[k] EXCEPT !.edited = text] ELSE t[k]]
    OBVIOUS
  <2>2. text \in Seq(Vocabulary)
    BY InputsWellFormed
  <2>3. WellFormed(u) /\ Typed(u)
    <3>1. WellFormed(u)
      BY <1>1, <2>1, ChangedSegments
    <3>2. PICK id : id = s.id
      OBVIOUS
    <3>3. u = Retexted(t, id, text)
      BY <2>1, <3>2 DEF Retexted
    <3>4. Typed(u)
      BY <1>1, <2>2, <3>3, ChangedTyped
    <3>5. QED
      BY <3>1, <3>4
  <2>4. Incoming(u)
    BY <1>1, <1>2, <2>1 DEF LiveText
  <2>5. QED
    BY <2>3, <2>4, IncomingFull
<1>3. ASSUME NEW s, DeleteSegment(s) PROVE Merges(review, review') /\ Spend("changes")
  <2>1. PICK k \in DOMAIN t : Incoming(RemoveAt(t, k))
    BY <1>1, <1>3 DEF DeleteSegment
  <2>2. WellFormed(RemoveAt(t, k)) /\ Typed(RemoveAt(t, k))
    BY <1>1, ChangedSegments, ChangedTyped
  <2>3. QED
    BY <2>1, <2>2, IncomingFull
<1>4. ASSUME NEW name \in Names, AddSegment(name)
      PROVE  Merges(review, review') /\ Spend("changes")
  <2>1. PICK id : id \notin Ids(t) /\ Incoming(Append(t, AddedSegment(id, name)))
    BY <1>1, <1>4 DEF AddSegment
  <2>2. PICK s : s = AddedSegment(id, name)
    OBVIOUS
  <2>3. DOMAIN s = Fields /\ s.id = id
    BY <2>2 DEF AddedSegment, Fields
  <2>4. SegmentTyped(s)
    <3>1. Placeholder \in Vocabulary
      BY InputsWellFormed
    <3>2. PICK text : text = <<Placeholder>>
      OBVIOUS
    <3>3. /\ s.raw = text /\ s.normalized = text /\ s.edited = text /\ s.status = "UNCONFIRMED"
          /\ s.speaker = <<name, 0>>
      BY <2>2, <3>2 DEF AddedSegment, Speaker
    <3>4. text \in Seq(Vocabulary)
      BY <3>1, <3>2
    <3>5. QED
      BY <3>3, <3>4 DEF SegmentTyped, Statements
  <2>5. WellFormed(Append(t, s)) /\ Typed(Append(t, s))
    BY <1>1, <2>1, <2>3, <2>4, ChangedSegments, ChangedTyped
  <2>6. QED
    BY <2>1, <2>2, <2>5, IncomingFull
<1>5. ASSUME NEW u \in Transcripts, ServerTranscript(u)
      PROVE  Merges(review, review') /\ Spend("changes")
  <2>1. WellFormed(u)
    BY TranscriptsWellFormed DEF WellFormed
  <2>2. Typed(u)
    BY TranscriptsWellFormed DEF Typed, SegmentTyped, Statements
  <2>3. QED
    BY <1>5, <2>1, <2>2, IncomingFull DEF ServerTranscript
<1>6. QED
  BY <1>1, <1>2, <1>3, <1>4, <1>5

-----------------------------------------------------------------------------
(* Every step. *)

Groups == {"edits", "speakers", "judgements", "terms", "changes"}

\* The review and the bounds are in order, as a predicate of the state.
FullState ==
  FullInv(review) /\ draft \in {"reading", "ready", "abandoned"} /\ left \in [Groups -> Nat]

\* What a step from such a state makes of the review.
Accounted ==
  /\ FullInv(review')
  /\ left'["changes"] = left["changes"] => TraceStep(review, review')
  /\ Once(review) /\ ~Once(review') => \E s \in ToSet(review.segments) : ClickSplit(s)

\* A use of an operation leaves the bounds in order, and one for a transcript
\* from elsewhere is seen in them.
LEMMA Spent ==
  ASSUME left \in [Groups -> Nat]
  PROVE  /\ \A group \in Groups : Spend(group) => left' \in [Groups -> Nat]
         /\ Spend("changes") => left'["changes"] # left["changes"]
<1>1. ASSUME NEW group \in Groups, Spend(group)
      PROVE  left' \in [Groups -> Nat] /\ left'[group] # left[group]
  <2>1. left[group] \in Nat /\ left[group] > 0 /\ left' = [left EXCEPT ![group] = left[group] - 1]
    BY <1>1 DEF Spend
  <2>2. left[group] - 1 \in Nat /\ left[group] - 1 # left[group]
    BY <2>1
  <2>3. left' \in [Groups -> Nat]
    BY <2>1, <2>2
  <2>4. left'[group] = left[group] - 1
    BY <2>1
  <2>5. QED
    BY <2>2, <2>3, <2>4
<1>2. "changes" \in Groups
  BY DEF Groups
<1>3. QED
  BY <1>1, <1>2

\* Whoever keeps the review in order accounts for it.
LEMMA KeepsAccounted == ASSUME Keeps(review, review') PROVE Accounted
BY DEF Keeps, Accounted

\* And so does a transcript from elsewhere.
LEMMA MergesAccounted ==
  ASSUME Merges(review, review'), left \in [Groups -> Nat], Spend("changes")
  PROVE  Accounted
<1>1. left'["changes"] # left["changes"]
  BY Spent
<1>2. QED
  BY <1>1 DEF Merges, Accounted

\* The buttons of a cluster: an active cluster is at some position.
LEMMA ClustersFull ==
  ASSUME FullInv(review), NEW c \in Active(review)
  PROVE  /\ \A name \in Names : ClickAssign(c, name) => Keeps(review, review')
         /\ \A d \in Active(review) : ClickMerge(c, d) => Keeps(review, review')
<1>1. ASSUME NEW e \in Active(review)
      PROVE  \E i \in ActiveAt(review.clusters) : review.clusters[i] = e
  <2>1. e \in ToSet(review.clusters) /\ e.status = "ACTIVE"
    BY DEF Active
  <2>2. PICK i \in DOMAIN review.clusters : review.clusters[i] = e
    BY <2>1 DEF ToSet
  <2>3. QED
    BY <2>1, <2>2 DEF ActiveAt
<1>2. PICK i \in ActiveAt(review.clusters) : review.clusters[i] = c
  BY <1>1
<1>3. ASSUME NEW name \in Names, ClickAssign(c, name) PROVE Keeps(review, review')
  <2>1. review' = AssignSpeaker(review, review.clusters[i], name)
    BY <1>2, <1>3 DEF ClickAssign, Commit
  <2>2. Keeps(review, AssignSpeaker(review, review.clusters[i], name))
    BY AssignFull
  <2>3. QED
    BY <2>1, <2>2
<1>4. ASSUME NEW d \in Active(review), ClickMerge(c, d) PROVE Keeps(review, review')
  <2>1. PICK j \in ActiveAt(review.clusters) : review.clusters[j] = d
    BY <1>1
  <2>2. review.clusters[i].id # review.clusters[j].id
    BY <1>2, <1>4, <2>1 DEF ClickMerge
  <2>3. review' = MergeSpeakerClusters(review, review.clusters[i], review.clusters[j])
    BY <1>2, <1>4, <2>1 DEF ClickMerge, Commit
  <2>4. Keeps(review, MergeSpeakerClusters(review, review.clusters[i], review.clusters[j]))
    BY <2>2, MergeFull
  <2>5. QED
    BY <2>3, <2>4
<1>5. QED
  BY <1>3, <1>4

\* Doing nothing.
LEMMA NothingFull == ASSUME FullInv(review), review' = review PROVE Keeps(review, review')
<1>1. PICK r : r = review
  OBVIOUS
<1>2. ReviewOK(r) /\ r.terms \in TermLists /\ FullInv(r)
  BY <1>1 DEF FullInv, TextsInv
<1>3. Keeps(r, r)
  BY <1>2, AsideFull
<1>4. QED
  BY <1>1, <1>3

\* The judgements and the dictionary.
LEMMA AsidesFull ==
  ASSUME FullInv(review)
  PROVE  /\ \A i \in review.items :
              ClickValidate(i) \/ ClickApprove(i) \/ ClickReject(i) => Keeps(review, review')
         /\ \A rows \in Imports :
              ClickImport(rows) \/ ClickAddTerm(rows[1].term, rows[1].aliases) =>
                Keeps(review, review')
         /\ \A s \in DictionarySuggestions(review) :
              ClickAddTerm(s[2], <<s[1]>>) => Keeps(review, review')
         /\ \A term : ClickRemoveTerm(term) => Keeps(review, review')
         /\ ClickApply => Keeps(review, review')
         /\ \A find, by \in Vocabulary : ClickReplaceAll(find, by) => Keeps(review, review')
<1>1. ASSUME NEW i \in review.items, ClickValidate(i) \/ ClickApprove(i) \/ ClickReject(i)
      PROVE  Keeps(review, review')
  <2>1. \E action \in Judgements :
          \/ review' = DecideReviewItem(review, i, action)
          \/ review' = ValidateEvidence(review, i)
    BY <1>1 DEF ClickValidate, ClickApprove, ClickReject, Commit, Judgements
  <2>2. PICK action \in Judgements :
          \/ review' = DecideReviewItem(review, i, action)
          \/ review' = ValidateEvidence(review, i)
    BY <2>1
  <2>3. Keeps(review, DecideReviewItem(review, i, action)) /\ Keeps(review, ValidateEvidence(review, i))
    BY JudgingFull
  <2>4. QED
    BY <2>2, <2>3
<1>2. ASSUME NEW term \in Vocabulary, NEW aliases \in Seq(Vocabulary), ClickAddTerm(term, aliases)
      PROVE  Keeps(review, review')
  <2>1. review' = AddDictionaryTerm(review, term, aliases)
    BY <1>2 DEF ClickAddTerm, Commit
  <2>2. QED
    BY <2>1, DictionaryFull
<1>3. ASSUME NEW rows \in Imports
      PROVE  ClickImport(rows) \/ ClickAddTerm(rows[1].term, rows[1].aliases) =>
               Keeps(review, review')
  <2>1. rows # <<>> /\ rows \in Seq(DictionaryTerms)
    BY InputsWellFormed DEF DictionaryTerms
  <2>2. rows[1] \in DictionaryTerms
    BY <2>1
  <2>3. rows[1].term \in Vocabulary /\ rows[1].aliases \in Seq(Vocabulary)
    BY <2>2 DEF DictionaryTerms
  <2>4. ASSUME ClickImport(rows) PROVE Keeps(review, review')
    <3>1. review' = ImportDictionary(review, rows)
      BY <2>4 DEF ClickImport, Commit
    <3>2. QED
      BY <2>1, <3>1, DictionaryFull
  <2>5. QED
    BY <1>2, <2>3, <2>4
<1>4. ASSUME NEW s \in DictionarySuggestions(review), ClickAddTerm(s[2], <<s[1]>>)
      PROVE  Keeps(review, review')
  <2>1. s \in Vocabulary \X Vocabulary
    BY DEF DictionarySuggestions
  <2>2. s[1] \in Vocabulary /\ s[2] \in Vocabulary
    BY <2>1
  <2>3. <<s[1]>> \in Seq(Vocabulary)
    BY <2>2
  <2>4. QED
    BY <1>2, <1>4, <2>2, <2>3
<1>5. ASSUME NEW term, ClickRemoveTerm(term) PROVE Keeps(review, review')
  <2>1. review' = RemoveDictionaryTerm(review, term)
    BY <1>5 DEF ClickRemoveTerm, Commit
  <2>2. QED
    BY <2>1, DictionaryFull
<1>6. ASSUME ClickApply PROVE Keeps(review, review')
  <2>1. review' = ApplyDictionary(review)
    BY <1>6 DEF ClickApply, Commit
  <2>2. TextsResult(review, ApplyDictionary(review))
    BY ApplyFull
  <2>3. QED
    BY <2>1, <2>2 DEF TextsResult, Keeps
<1>7. ASSUME NEW find \in Vocabulary, NEW by \in Vocabulary, ClickReplaceAll(find, by)
      PROVE  Keeps(review, review')
  <2>1. review' = ReplaceTranscriptText(review, find, by)
    BY <1>7 DEF ClickReplaceAll, Commit
  <2>2. TextsResult(review, ReplaceTranscriptText(review, find, by))
    BY ReplaceFull
  <2>3. QED
    BY <2>1, <2>2 DEF TextsResult, Keeps
<1>8. QED
  BY <1>1, <1>3, <1>4, <1>5, <1>6, <1>7

\* Every step from a review in order accounts for what it makes of it.
LEMMA FullStep == FullState /\ [Next]_vars => FullState' /\ Accounted
<1> SUFFICES ASSUME FullState, [Next]_vars PROVE FullState' /\ Accounted
  OBVIOUS
<1>1. /\ FullInv(review) /\ draft \in {"reading", "ready", "abandoned"}
      /\ left \in [Groups -> Nat]
  BY DEF FullState
<1>2. CASE UNCHANGED vars \/ ReviewCreated
  <2>1. review' = review /\ left' = left /\ draft' \in {"reading", "ready", "abandoned"}
    BY <1>1, <1>2 DEF vars, ReviewCreated
  <2>2. Accounted
    BY <1>1, <2>1, NothingFull, KeepsAccounted
  <2>3. FullInv(review')
    BY <2>2 DEF Accounted
  <2>4. QED
    BY <1>1, <2>1, <2>2, <2>3 DEF FullState
<1>3. CASE Next /\ ~ReviewCreated
  <2>1. ASSUME NEW s \in ToSet(review.segments),
               \/ \E text \in Texts : EditText(s, text) \/ LiveText(s, text)
               \/ \E name \in Names : EditSpeaker(s, name)
               \/ ClickReprocess(s) \/ ClickSplit(s) \/ DeleteSegment(s)
        PROVE  Accounted
    <3>1. CASE ClickSplit(s)
      BY <1>1, <2>1, <3>1, ClickSplitFull DEF Accounted
    <3>2. CASE (\E text \in Texts : LiveText(s, text)) \/ DeleteSegment(s)
      BY <1>1, <3>2, ChangesFull, MergesAccounted
    <3>3. CASE (\E text \in Texts : EditText(s, text)) \/ (\E name \in Names : EditSpeaker(s, name))
                 \/ ClickReprocess(s)
      BY <1>1, <3>3, EditsFull, KeepsAccounted
    <3>4. QED
      BY <2>1, <3>1, <3>2, <3>3
  <2>2. ASSUME \/ \E name \in Names : AddSegment(name)
               \/ \E segments \in Transcripts : ServerTranscript(segments)
        PROVE  Accounted
    BY <1>1, <2>2, ChangesFull, MergesAccounted
  <2>3. ASSUME NEW c \in Active(review),
               \/ \E name \in Names : ClickAssign(c, name)
               \/ \E d \in Active(review) : ClickMerge(c, d)
        PROVE  Accounted
    BY <1>1, <2>3, ClustersFull, KeepsAccounted
  <2>4. ASSUME \/ \E find, by \in Vocabulary : ClickReplaceAll(find, by)
               \/ \E i \in review.items : ClickValidate(i) \/ ClickApprove(i) \/ ClickReject(i)
               \/ \E rows \in Imports : ClickImport(rows) \/ ClickAddTerm(rows[1].term, rows[1].aliases)
               \/ \E s \in DictionarySuggestions(review) : ClickAddTerm(s[2], <<s[1]>>)
               \/ \E t \in ToSet(review.terms) : ClickRemoveTerm(t.term)
               \/ ClickApply
        PROVE  Accounted
    BY <1>1, <2>4, AsidesFull, KeepsAccounted
  <2>5. Accounted
    BY <1>3, <2>1, <2>2, <2>3, <2>4 DEF Next
  <2>6. \E group \in Groups : Spend(group)
    BY <1>3 DEF Next, EditText, LiveText, EditSpeaker, ClickReprocess, ClickSplit, DeleteSegment,
       ClickReplaceAll, ClickAssign, ClickMerge, ClickValidate, ClickApprove, ClickReject, ClickImport,
       ClickAddTerm, ClickRemoveTerm, ClickApply, AddSegment, ServerTranscript, Incoming, Commit, Groups
  <2>7. left' \in [Groups -> Nat]
    BY <1>1, <2>6, Spent
  <2>8. draft' \in {draft, "abandoned"}
    BY <1>3 DEF Next, EditText, LiveText, EditSpeaker, ClickReprocess, ClickSplit, DeleteSegment,
       ClickReplaceAll, ClickAssign, ClickMerge, ClickValidate, ClickApprove, ClickReject, ClickImport,
       ClickAddTerm, ClickRemoveTerm, ClickApply, AddSegment, ServerTranscript, Commit
  <2>9. QED
    BY <1>1, <2>5, <2>7, <2>8 DEF Accounted, FullState
<1>4. QED
  BY <1>2, <1>3

\* Every transcript makes a review in order.
LEMMA FullInit == Init => FullState
<1> SUFFICES ASSUME Init PROVE FullState
  OBVIOUS
<1>1. PICK t \in Transcripts : review = CreateReview(t)
  BY DEF Init
<1>2. WellFormed(t)
  BY TranscriptsWellFormed DEF WellFormed
<1>3. Typed(t)
  BY TranscriptsWellFormed DEF Typed, SegmentTyped, Statements
<1>4. FullInv(CreateReview(t))
  BY <1>2, <1>3, CreatedFull
<1>5. left \in [Groups -> Nat]
  BY InputsWellFormed DEF Init, Groups
<1>6. draft = "reading"
  BY DEF Init
<1>7. QED
  BY <1>1, <1>4, <1>5, <1>6 DEF FullState

\* What a text calls for is one of the types, or nothing.
LEMMA Classified == ASSUME NEW text PROVE ClassifyReviewItem(text) \in Types \cup {None}
<1>1. PICK matching : matching = {p \in 1..4 : \E w \in ToSet(text) : KindOf[w] = Patterns[p]}
  OBVIOUS
<1>2. ClassifyReviewItem(text) = IF matching = {} THEN None ELSE Patterns[Min(matching)]
  BY <1>1 DEF ClassifyReviewItem
<1>3. CASE matching = {}
  BY <1>2, <1>3
<1>4. CASE matching # {}
  <2>1. matching \subseteq 1..4 /\ matching \subseteq Nat
    BY <1>1
  <2>2. PICK p : p = Min(matching) /\ p \in matching
    BY <1>4, <2>1, Lowest
  <2>3. p \in {1, 2, 3, 4}
    BY <2>1, <2>2
  <2>4. Patterns[p] \in Types
    BY <2>3 DEF Patterns, Types
  <2>5. QED
    BY <1>2, <1>4, <2>2, <2>4
<1>5. QED
  BY <1>3, <1>4

\* The words of a text.
LEMMA Words == ASSUME NEW text \in Seq(Vocabulary) PROVE ToSet(text) \subseteq Vocabulary
BY Narrowed

\* A review in order has its types.
LEMMA FullTyped == FullState => TypeOK
<1> SUFFICES ASSUME FullInv(review), draft \in {"reading", "ready", "abandoned"} PROVE TypeOK
  BY DEF FullState
<1>1. PICK r : r = review /\ FullInv(r)
  OBVIOUS
<1>2. \A s \in ToSet(r.segments) :
        /\ s.status \in {"CONFIRMED", "UNCONFIRMED"} /\ s.speaker \in Names \X Nat
        /\ ToSet(s.edited) \cup ToSet(s.raw) \cup ToSet(s.normalized) \subseteq Vocabulary
  <2>1. ASSUME NEW s \in ToSet(r.segments)
        PROVE  /\ s.status \in {"CONFIRMED", "UNCONFIRMED"} /\ s.speaker \in Names \X Nat
               /\ ToSet(s.edited) \cup ToSet(s.raw) \cup ToSet(s.normalized) \subseteq Vocabulary
    <3>1. SegmentTyped(s)
      BY <1>1 DEF FullInv, TextsInv, Typed
    <3>2. /\ ToSet(s.edited) \subseteq Vocabulary /\ ToSet(s.raw) \subseteq Vocabulary
          /\ ToSet(s.normalized) \subseteq Vocabulary
      BY <3>1, Words DEF SegmentTyped
    <3>3. QED
      BY <3>1, <3>2 DEF SegmentTyped, Statements
  <2>2. QED
    BY <2>1
<1>3. \A c \in ToSet(r.clusters) :
        c.status \in {"ACTIVE", "MERGED", "SPLIT"} /\ c.segments \subseteq Ids(r.segments)
  BY <1>1 DEF FullInv, ClustersInv, ClustersTyped, Statuses
<1>4. \A i \in r.items : i.type \in Types /\ i.segment \in Ids(r.segments)
  <2>1. ASSUME NEW i \in r.items PROVE i.type \in Types /\ i.segment \in Ids(r.segments)
    <3>1. PICK s \in ToSet(r.segments) : ItemFor(i, s)
      BY <1>1 DEF FullInv, ReviewOK, ItemsCurrent
    <3>2. i.type = ClassifyReviewItem(s.edited) /\ i.type # None /\ i.segment = s.id
      BY <3>1 DEF ItemFor
    <3>3. ClassifyReviewItem(s.edited) \in Types \cup {None}
      BY Classified
    <3>4. QED
      BY <3>2, <3>3 DEF Ids
  <2>2. QED
    BY <2>1
<1>5. \A i, j \in r.items : i.segment = j.segment => i = j
  BY <1>1 DEF FullInv, ReviewOK, ItemsCurrent, Single
<1>6. \A e \in ToSet(r.history) \cup ToSet(r.applications) : e.segment \in Ids(r.segments)
  BY <1>1 DEF FullInv, TextsInv, TraceOf
<1>7. QED
  BY <1>1, <1>2, <1>3, <1>4, <1>5, <1>6 DEF TypeOK

\* The review is in order at all times: besides the items, the sentences, the
\* dictionary and the events have their types; active clusters are told apart by
\* their ids, and one that was not split off has all that its speaker said.
THEOREM ReviewInOrder == Spec => []FullState
<1>1. Init => FullState
  BY FullInit
<1>2. FullState /\ [Next]_vars => FullState'
  BY FullStep
<1>3. QED
  BY <1>1, <1>2, PTL DEF Spec

\* Segments, clusters, items and history have their types, and what is kept about
\* sentences is about those that remain.
THEOREM ReviewTyped == Spec => []TypeOK
<1>1. FullState => TypeOK
  BY FullTyped
<1>2. QED
  BY <1>1, ReviewInOrder, PTL

\* Only splitting a cluster puts a sentence in no cluster, in two or in that of
\* another speaker: assigning and merging clusters, editing, correcting and a
\* transcript from elsewhere leave every sentence in the one of its speaker.
THEOREM ClustersHold == Spec => OnlySplitBreaksClusters
<1>1. FullState /\ [Next]_vars =>
        [Once(review) /\ ~Once(review') => \E s \in ToSet(review.segments) : ClickSplit(s)]_vars
  BY FullStep DEF Accounted
<1>2. QED
  BY <1>1, ReviewInOrder, PTL DEF Spec, OnlySplitBreaksClusters

\* The operations of the review leave a trace: the one event they record for a
\* sentence whose text they change leads from the old text to the new one, and
\* they record none for the others.
THEOREM EditsLeaveTrace == Spec => EditsTraced
<1>1. ASSUME FullState, [Next]_vars, left'.changes = left.changes
      PROVE  /\ IsPrefix(review.history, review'.history)
             /\ \A s \in ToSet(review.segments), n \in ToSet(review'.segments) : n.id = s.id =>
                  LET own == {k \in (Len(review.history) + 1)..Len(review'.history) :
                                /\ review'.history[k].segment = s.id
                                /\ review'.history[k].field = "EDITED_TEXT"}
                  IN IF n.edited = s.edited THEN own = {}
                     ELSE \E k \in own : /\ own = {k} /\ review'.history[k].previous = s.edited
                                        /\ review'.history[k].next = n.edited
  <2>1. TraceStep(review, review')
    BY <1>1, FullStep DEF Accounted
  <2>2. QED
    BY <2>1 DEF TraceStep, Recorded
<1>2. FullState /\ [Next]_vars =>
        [left'.changes = left.changes =>
           /\ IsPrefix(review.history, review'.history)
           /\ \A s \in ToSet(review.segments), n \in ToSet(review'.segments) : n.id = s.id =>
                LET own == {k \in (Len(review.history) + 1)..Len(review'.history) :
                              /\ review'.history[k].segment = s.id
                              /\ review'.history[k].field = "EDITED_TEXT"}
                IN IF n.edited = s.edited THEN own = {}
                   ELSE \E k \in own : /\ own = {k} /\ review'.history[k].previous = s.edited
                                      /\ review'.history[k].next = n.edited]_vars
  BY <1>1
<1>3. QED
  BY <1>2, ReviewInOrder, PTL DEF Spec, EditsTraced

=============================================================================
