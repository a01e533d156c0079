--------------------------- MODULE BrowserReview ---------------------------
(***************************************************************************)
(* The review of a transcript in the browser: browser-review.ts, the       *)
(* operations on a review state, and TranscriptEditor, the buttons that    *)
(* call them, the effect that reads the stored draft before there is a     *)
(* review, and the one that follows a transcript changed elsewhere (a      *)
(* sentence added or deleted, live text, a version of the server).         *)
(*                                                                         *)
(* A text is a short sequence of words; Blank is superfluous white space.  *)
(* KindOf says which words make a sentence a decision, an action item and  *)
(* so on.  A speaker is a name and how often a cluster of it was split.    *)
(* Times, confidences and the wording of evidence are left out; so are the *)
(* ids of review items, which are found by segment.                        *)
(***************************************************************************)
EXTENDS Naturals, FiniteSets, Sequences, SequencesExt, TLC

CONSTANTS
  Vocabulary,   \* the words of the texts, Blank and Placeholder among them
  Blank,
  Placeholder,  \* the text of a sentence the user has just added
  KindOf,       \* the review type a word calls for, or None
  Names,        \* the speakers' names
  Participants, \* a subset of Names
  Imports,      \* dictionaries to import: sequences of [term, aliases]
  Texts,        \* what the user, or live recognition, may enter
  Transcripts,  \* the transcripts a review begins with
  SegmentIds,   \* bound: the ids that sentences may have
  AliasLimit,   \* aliases a new dictionary term may have
  None,
  Bounds        \* bounds: how often each group of operations may be used

Fields == {"id", "raw", "normalized", "edited", "speaker", "status", "overlap", "manual"}

\* Segments are found by their ids.
ASSUME TranscriptsWellFormed ==
  \A t \in Transcripts :
    /\ t \in Seq(ToSet(t))
    /\ \A s \in ToSet(t) :
         /\ DOMAIN s = Fields
         /\ s.raw \in Seq(Vocabulary) /\ s.normalized \in Seq(Vocabulary) /\ s.edited \in Seq(Vocabulary)
         /\ s.speaker \in Names \X Nat /\ s.status \in {"CONFIRMED", "UNCONFIRMED"}
    /\ \A j, k \in DOMAIN t : t[j].id = t[k].id => j = k

ASSUME InputsWellFormed ==
  /\ Placeholder \in Vocabulary /\ Texts \subseteq Seq(Vocabulary) /\ AliasLimit \in Nat
  /\ \A rows \in Imports :
       rows # <<>> /\ rows \in Seq([term : Vocabulary, aliases : Seq(Vocabulary)])
  /\ Bounds \subseteq [{"edits", "speakers", "judgements", "terms", "changes"} -> Nat]

ASSUME NoneIsNoType == None \notin {"DECISION", "ACTION_ITEM", "RISK", "OPEN_QUESTION"}

VARIABLES
  review,       \* BrowserReviewState; until there is one, what would be made of the page
  draft,        \* the read of the stored draft: "reading", "ready" when it has given a
                \* review, "abandoned" when it never will
  left          \* how often each group of operations may still be used

vars == <<review, draft, left>>

Types == {"DECISION", "ACTION_ITEM", "RISK", "OPEN_QUESTION"}

Spend(group) == left[group] > 0 /\ left' = [left EXCEPT ![group] = @ - 1]
Speaker(name) == <<name, 0>>
Ids(segments) == {s.id : s \in ToSet(segments)}
Get(segments, id) == CHOOSE s \in ToSet(segments) : s.id = id

\* The elements of seq at the positions in kept, in their order.
Position(kept, i) == CHOOSE k \in kept : Cardinality({j \in kept : j <= k}) = i
SelectAt(seq, kept) == [i \in 1..Cardinality(kept) |-> seq[Position(kept, i)]]

-----------------------------------------------------------------------------
(* What is derived from the segments: clusters and review items.           *)

\* normalizeTranscriptText
Normalize(text) == SelectAt(text, {k \in DOMAIN text : text[k] # Blank})

\* The first of the patterns, in this order, that the text matches.
Patterns == <<"DECISION", "ACTION_ITEM", "RISK", "OPEN_QUESTION">>
ClassifyReviewItem(text) ==
  LET matching == {p \in 1..4 : \E w \in ToSet(text) : KindOf[w] = Patterns[p]}
  IN IF matching = {} THEN None ELSE Patterns[Min(matching)]

\* One cluster for each speaker, in the order in which they first speak.
BuildSpeakerClusters(segments) ==
  LET firsts == {i \in DOMAIN segments : \A j \in 1..i-1 : segments[j].speaker # segments[i].speaker}
      of(label) == {s.id : s \in {t \in ToSet(segments) : t.speaker = label}}
  IN [k \in 1..Cardinality(firsts) |->
       LET label == segments[Position(firsts, k)].speaker IN
       [id |-> <<k, label>>, label |-> label, participant |-> None,
        status |-> "ACTIVE", segments |-> of(label)]]

\* A mutant: the overlap is not a blocker.
BlockersWithoutOverlap(segment, evidence) ==
  {b \in {"speaker", "evidence"} :
     \/ b = "speaker" /\ segment.status # "CONFIRMED"
     \/ b = "evidence" /\ evidence # "VALID"}

DecisionBlockers(segment, evidence) ==
  {b \in {"speaker", "overlap", "evidence"} :
     \/ b = "speaker" /\ segment.status # "CONFIRMED"
     \/ b = "overlap" /\ segment.overlap = "HIGH"
     \/ b = "evidence" /\ evidence # "VALID"}

Blockers(type, segment, evidence) ==
  IF type = "DECISION" THEN DecisionBlockers(segment, evidence)
  ELSE {b \in {"evidence"} : evidence # "VALID"}

\* An item keeps its status and its evidence while its segment keeps its type,
\* whatever has become of the text.
ExtractReviewItems(segments, previous) ==
  LET new(s) ==
        LET type == ClassifyReviewItem(s.edited)
            old == {i \in previous : i.segment = s.id /\ i.type = type}
            status == IF old = {} THEN "PENDING" ELSE (CHOOSE i \in old : TRUE).status
            evidence == IF old = {} THEN "PENDING" ELSE (CHOOSE i \in old : TRUE).evidence
        IN [segment |-> s.id, type |-> type, content |-> s.edited, status |-> status,
            evidence |-> evidence, blockers |-> Blockers(type, s, evidence)]
  IN {new(s) : s \in {t \in ToSet(segments) : ClassifyReviewItem(t.edited) # None}}

RefreshReviewBlockers(r) ==
  LET refreshed(i) ==
        IF i.segment \notin Ids(r.segments) THEN i
        ELSE [i EXCEPT !.content = Get(r.segments, i.segment).edited,
                       !.blockers = Blockers(i.type, Get(r.segments, i.segment), i.evidence)]
  IN [r EXCEPT !.items = {refreshed(i) : i \in @}]

\* A cluster keeps the id and the participant of the last active cluster with
\* its label; merged and split ones disappear.
RefreshedClusters(segments, clusters) ==
  LET previous(label) ==
        {k \in DOMAIN clusters : clusters[k].status = "ACTIVE" /\ clusters[k].label = label}
      kept(c) ==
        IF previous(c.label) = {} THEN c
        ELSE [c EXCEPT !.id = clusters[Max(previous(c.label))].id,
                       !.participant = clusters[Max(previous(c.label))].participant]
      built == BuildSpeakerClusters(segments)
  IN [k \in DOMAIN built |-> kept(built[k])]

RefreshDerived(r) ==
  RefreshReviewBlockers(
    [r EXCEPT !.clusters = RefreshedClusters(r.segments, @),
              !.items = ExtractReviewItems(r.segments, @),
              !.completed = FALSE])

\* createBrowserReviewState
CreateReview(segments) ==
  [segments |-> segments, terms |-> <<>>, applications |-> <<>>, history |-> <<>>,
   clusters |-> BuildSpeakerClusters(segments), splits |-> 0,
   items |-> ExtractReviewItems(segments, {}), completed |-> FALSE]

UnresolvedDecisions(items) ==
  {i \in items : i.type = "DECISION" /\ i.status # "REJECTED"
                   /\ (i.status = "PENDING" \/ i.blockers # {})}

-----------------------------------------------------------------------------
(* The dictionary.                                                         *)

Without(seq, S) == SelectAt(seq, {k \in DOMAIN seq : seq[k] \notin S})
Distinct(seq) == SelectAt(seq, {k \in DOMAIN seq : \A j \in 1..k-1 : seq[j] # seq[k]})

\* A new term takes AliasLimit aliases; an existing one takes them all.
WithTerm(terms, term, aliases) ==
  LET clean == Distinct(Without(aliases, {Blank}))
      limited == SubSeq(clean, 1, IF Len(clean) < AliasLimit THEN Len(clean) ELSE AliasLimit)
      extended(t) == IF t.term # term THEN t
                     ELSE [t EXCEPT !.aliases = Distinct(@ \o limited)]
  IN IF term = Blank THEN terms
     ELSE IF \E t \in ToSet(terms) : t.term = term THEN [k \in DOMAIN terms |-> extended(terms[k])]
     ELSE Append(terms, [term |-> term, aliases |-> limited])

AddDictionaryTerm(r, term, aliases) == [r EXCEPT !.terms = WithTerm(@, term, aliases)]

WithoutTerm(terms, term) == SelectAt(terms, {k \in DOMAIN terms : terms[k].term # term})
RemoveDictionaryTerm(r, term) == [r EXCEPT !.terms = WithoutTerm(@, term)]

\* handleImport adds the rows one by one.
WithRows(terms, rows) ==
  FoldLeft(LAMBDA acc, row : WithTerm(acc, row.term, row.aliases), terms, rows)
ImportDictionary(r, rows) == [r EXCEPT !.terms = WithRows(@, rows)]

\* Words that were corrected in the same way at least twice, in sentences of
\* which no word was added or removed, and are not in the dictionary yet.
DictionarySuggestions(r) ==
  LET raw(s) == Normalize(s.raw)
      edited(s) == Normalize(s.edited)
      places(alias, word) ==
        UNION {{s.id} \X {k \in DOMAIN raw(s) : raw(s)[k] = alias /\ edited(s)[k] = word} :
                 s \in {t \in ToSet(r.segments) : Len(raw(t)) = Len(edited(t))}}
      covered(alias, word) ==
        \E t \in ToSet(r.terms) : t.term = word /\ alias \in ToSet(t.aliases)
  IN {s \in Vocabulary \X Vocabulary :
        s[1] # s[2] /\ ~covered(s[1], s[2]) /\ Cardinality(places(s[1], s[2])) >= 2}

Event(id, field, previous, next, source) ==
  [segment |-> id, field |-> field, previous |-> previous, next |-> next, source |-> source]

Rewrite(text, word, by) == [i \in DOMAIN text |-> IF text[i] = word THEN by ELSE text[i]]

\* r with a new text for each segment, and one event for each that changes.
RewriteEvents(segments, texts, source) ==
  SelectAt([k \in DOMAIN texts |->
              Event(segments[k].id, "EDITED_TEXT", segments[k].edited, texts[k], source)],
           {k \in DOMAIN texts : texts[k] # segments[k].edited})

Rewritten(r, texts, source) ==
  [r EXCEPT !.segments = [k \in DOMAIN @ |-> [@[k] EXCEPT !.edited = texts[k]]],
            !.history = @ \o RewriteEvents(r.segments, texts, source)]

Replaced(r, find, by) == [k \in DOMAIN r.segments |-> Rewrite(r.segments[k].edited, find, by)]

\* Every alias of every term, in order, each replaced in what the one before
\* has left; every replacement is recorded.
Replacements(terms) ==
  FlattenSeq([k \in DOMAIN terms |->
    LET t == terms[k]
        aliases == Without(t.aliases, {t.term})
    IN [i \in DOMAIN aliases |-> [term |-> t.term, alias |-> aliases[i]]]])

Corrected(text, replacements) ==
  LET step(acc, p) ==
        LET after == Rewrite(acc.text, p.alias, p.term) IN
        IF after = acc.text THEN acc
        ELSE [text |-> after, log |-> Append(acc.log,
                [term |-> p.term, alias |-> p.alias, before |-> acc.text, after |-> after])]
  IN FoldLeft(step, [text |-> text, log |-> <<>>], replacements)

Applications(segments, terms) ==
  LET log(s) == Corrected(s.edited, Replacements(terms)).log
  IN FlattenSeq([k \in DOMAIN segments |->
       [i \in DOMAIN log(segments[k]) |->
         [segment |-> segments[k].id, change |-> log(segments[k])[i]]]])

CorrectedTexts(segments, terms) ==
  [k \in DOMAIN segments |-> Corrected(segments[k].edited, Replacements(terms)).text]

ApplyDictionary(r) ==
  RefreshDerived([Rewritten(r, CorrectedTexts(r.segments, r.terms), "DICTIONARY")
                    EXCEPT !.applications = @ \o Applications(r.segments, r.terms)])

-----------------------------------------------------------------------------
(* The transcript and its speakers.                                        *)

\* A mutant: the events are not recorded.
ReplaceUnrecorded(r, find, by) ==
  RefreshDerived([Rewritten(r, Replaced(r, find, by), "USER") EXCEPT !.history = r.history])

ReplaceTranscriptText(r, find, by) ==
  RefreshDerived(Rewritten(r, Replaced(r, find, by), "USER"))

\* The text, the normalized text and the speaker are recorded when they change;
\* the raw text is not.
PatchEvents(old, new, source) ==
  LET record(field, previous, next) ==
        IF next # previous THEN <<Event(old.id, field, previous, next, source)>> ELSE <<>>
  IN record("EDITED_TEXT", old.edited, new.edited)
       \o record("NORMALIZED_TEXT", old.normalized, new.normalized)
       \o record("SPEAKER", <<old.speaker, old.status>>, <<new.speaker, new.status>>)

PatchReviewSegment(r, id, patch, source) ==
  LET old == Get(r.segments, id)
      new == [f \in DOMAIN old |-> IF f \in DOMAIN patch THEN patch[f] ELSE old[f]]
  IN RefreshDerived([r EXCEPT
       !.segments = [k \in DOMAIN @ |-> IF @[k].id = id THEN new ELSE @[k]],
       !.history = @ \o PatchEvents(old, new, source)])

PatchAll(r, ids, patch) ==
  FoldLeft(LAMBDA acc, s : IF s.id \in ids THEN PatchReviewSegment(acc, s.id, patch, "USER")
                           ELSE acc, r, r.segments)

ReprocessSegment(r, id) ==
  LET text == Normalize(Get(r.segments, id).raw) IN
  PatchReviewSegment(r, id, [normalized |-> text, edited |-> text], "REPROCESS")

AssignSpeaker(r, cluster, participant) ==
  LET name == Speaker(participant)
      next == PatchAll(r, cluster.segments, [speaker |-> name, status |-> "CONFIRMED"])
      assigned(c) == IF c.id = cluster.id \/ c.label = name
                       THEN [c EXCEPT !.label = name, !.participant = participant] ELSE c
  IN [next EXCEPT !.clusters = [k \in DOMAIN @ |-> assigned(@[k])]]

\* A mutant: the target forgets its own segments.
MergeForgets(r, target, source) ==
  LET next == PatchAll(r, source.segments, [speaker |-> target.label,
                status |-> IF target.participant # None THEN "CONFIRMED" ELSE "UNCONFIRMED"])
  IN [next EXCEPT !.clusters = [k \in DOMAIN @ |->
        IF @[k].id = target.id THEN [@[k] EXCEPT !.segments = source.segments] ELSE @[k]]]

MergeSpeakerClusters(r, target, source) ==
  LET status == IF target.participant # None THEN "CONFIRMED" ELSE "UNCONFIRMED"
      next == PatchAll(r, source.segments, [speaker |-> target.label, status |-> status])
      merged(c) ==
        IF c.id = target.id THEN [c EXCEPT !.segments = target.segments \cup source.segments]
        ELSE IF c.id = source.id THEN [c EXCEPT !.status = "MERGED"] ELSE c
  IN [next EXCEPT !.clusters = [k \in DOMAIN @ |-> merged(@[k])]]

\* The patch has already made a cluster of the new label; another is added.
SplitSpeakerCluster(r, cluster, id) ==
  LET label == <<cluster.label[1], cluster.label[2] + 1>>
      next == PatchReviewSegment(r, id, [speaker |-> label, status |-> "UNCONFIRMED"], "USER")
      split(c) == IF c.id = cluster.id
                    THEN [c EXCEPT !.segments = @ \ {id}, !.status = "SPLIT"] ELSE c
      added == [id |-> <<"split", r.splits, label>>, label |-> label,
                participant |-> None, status |-> "ACTIVE", segments |-> {id}]
  IN [next EXCEPT !.clusters = Append([k \in DOMAIN @ |-> split(@[k])], added),
                  !.splits = @ + 1]

-----------------------------------------------------------------------------
(* The review items.                                                       *)

ValidateEvidence(r, item) ==
  RefreshReviewBlockers([r EXCEPT !.items = (@ \ {item}) \cup {[item EXCEPT !.evidence = "VALID"]}])

DecideReviewItem(r, item, action) ==
  LET items == (r.items \ {item}) \cup {[item EXCEPT !.status = action]} IN
  IF action = "APPROVED" /\ item.blockers # {} THEN r
  ELSE [r EXCEPT !.items = items,
                 !.completed = items # {} /\ \A i \in items : i.status # "PENDING"]

-----------------------------------------------------------------------------
(* The transcript changed elsewhere: the merge effect of TranscriptEditor. *)

Signature(segments) ==
  [k \in DOMAIN segments |->
     <<segments[k].id, segments[k].edited, segments[k].speaker, segments[k].status>>]

\* A mutant: the history of deleted sentences is kept.
MergeKeepsHistory(r, incoming) ==
  IF Signature(incoming) = Signature(r.segments) THEN r
  ELSE [CreateReview(incoming) EXCEPT !.terms = r.terms, !.history = r.history]

\* The review begins anew; only the raw and normalized texts, the dictionary
\* and the history of the segments that remain are kept.
About(seq, segments) == SelectAt(seq, {k \in DOMAIN seq : seq[k].segment \in Ids(segments)})

MergeIncoming(r, incoming) ==
  LET known(s) == s.id \in Ids(r.segments)
      merged == [k \in DOMAIN incoming |->
                  IF known(incoming[k])
                    THEN [incoming[k] EXCEPT !.raw = Get(r.segments, incoming[k].id).raw,
                                             !.normalized = Get(r.segments, incoming[k].id).normalized]
                    ELSE incoming[k]]
  IN IF Signature(incoming) = Signature(r.segments) THEN r
     ELSE [CreateReview(merged) EXCEPT
             !.terms = r.terms,
             !.applications = About(r.applications, merged),
             !.history = About(r.history, merged)]

\* addManualTranscriptSegment
AddedSegment(id, name) ==
  [id |-> id, raw |-> <<Placeholder>>, normalized |-> <<Placeholder>>, edited |-> <<Placeholder>>,
   speaker |-> Speaker(name), status |-> "UNCONFIRMED", overlap |-> None, manual |-> TRUE]

-----------------------------------------------------------------------------
(* The buttons of TranscriptEditor.                                        *)

\* Without a review nothing is shown to click on.
Commit(group, next) ==
  draft = "ready" /\ Spend(group) /\ review' = next /\ UNCHANGED draft

Active(r) == {c \in ToSet(r.clusters) : c.status = "ACTIVE"}

\* Where the active clusters with the sentence are.
ClustersOf(r, id) ==
  {k \in DOMAIN r.clusters : r.clusters[k].status = "ACTIVE" /\ id \in r.clusters[k].segments}
Person(name) == name \in Participants

\* The first edit of an added sentence also sets its raw and normalized text.
EditText(s, text) ==
  /\ text # s.edited
  /\ LET patch == IF s.manual /\ s.raw = <<Placeholder>>
                    THEN [raw |-> text, normalized |-> text, edited |-> text]
                    ELSE [edited |-> text]
     IN Commit("edits", PatchReviewSegment(review, s.id, patch, "USER"))

EditSpeaker(s, name) ==
  Commit("speakers",
    PatchReviewSegment(review, s.id, [speaker |-> Speaker(name), status |-> "CONFIRMED"], "USER"))

ClickReprocess(s) == Commit("edits", ReprocessSegment(review, s.id))

ClickReplaceAll(find, by) == Commit("edits", ReplaceTranscriptText(review, find, by))

ClickAssign(c, name) == Person(name) /\ Commit("speakers", AssignSpeaker(review, c, name))

ClickMerge(c, d) == c.id # d.id /\ Commit("speakers", MergeSpeakerClusters(review, c, d))

\* The first active cluster with the sentence, if it has another.
ClickSplit(s) ==
  LET of == ClustersOf(review, s.id)
      cluster == review.clusters[Min(of)]
  IN /\ of # {} /\ Cardinality(cluster.segments) > 1
     /\ Commit("speakers", SplitSpeakerCluster(review, cluster, s.id))

ClickValidate(i) == Commit("judgements", ValidateEvidence(review, i))

ClickApprove(i) ==
  /\ i.blockers = {} /\ i.status = "PENDING"
  /\ Commit("judgements", DecideReviewItem(review, i, "APPROVED"))

ClickReject(i) ==
  /\ i.status = "PENDING"
  /\ Commit("judgements", DecideReviewItem(review, i, "REJECTED"))

ClickAddTerm(word, aliases) == Commit("terms", AddDictionaryTerm(review, word, aliases))
ClickRemoveTerm(term) == Commit("terms", RemoveDictionaryTerm(review, term))
ClickImport(rows) == Commit("terms", ImportDictionary(review, rows))
ClickApply == review.terms # <<>> /\ Commit("terms", ApplyDictionary(review))

\* Before there is a review the effect does nothing.
Incoming(segments) ==
  /\ Spend("changes")
  /\ review' = IF draft = "ready" THEN MergeIncoming(review, segments) ELSE CreateReview(segments)

\* The sentences to delete are those of the review.
DeleteSegment(s) ==
  /\ draft = "ready" /\ UNCHANGED draft
  /\ \E k \in DOMAIN review.segments : review.segments[k] = s /\ Incoming(RemoveAt(review.segments, k))

AddSegment(name) ==
  LET fresh == SegmentIds \ Ids(review.segments) IN
  /\ fresh # {} /\ UNCHANGED draft
  /\ Incoming(Append(review.segments, AddedSegment(CHOOSE id \in fresh : TRUE, name)))

LiveText(s, text) ==
  /\ UNCHANGED draft
  /\ Incoming([k \in DOMAIN review.segments |->
       IF review.segments[k].id = s.id THEN [review.segments[k] EXCEPT !.edited = text]
       ELSE review.segments[k]])

\* Another version cancels the read of the draft, which is not begun again.
ServerTranscript(segments) ==
  /\ Incoming(segments)
  /\ draft' \in {draft, IF draft = "reading" THEN "abandoned" ELSE draft}

\* The draft has been read: there is none for this version, or the transcript
\* has changed meanwhile.
ReviewCreated ==
  /\ draft = "reading"
  /\ draft' = "ready"
  /\ UNCHANGED <<review, left>>

\* What the panel counts, and closes the confirmation of the minutes for.
BlockerCount == IF draft = "ready" THEN UnresolvedDecisions(review.items) ELSE {}

Init ==
  /\ review \in {CreateReview(segments) : segments \in Transcripts}
  /\ draft = "reading"
  /\ left \in Bounds

Next ==
  \/ \E s \in ToSet(review.segments) :
       \/ \E text \in Texts : EditText(s, text) \/ LiveText(s, text)
       \/ \E name \in Names : EditSpeaker(s, name)
       \/ ClickReprocess(s) \/ ClickSplit(s) \/ DeleteSegment(s)
  \/ \E find, by \in Vocabulary : ClickReplaceAll(find, by)
  \/ \E c \in Active(review) :
       \/ \E name \in Names : ClickAssign(c, name)
       \/ \E d \in Active(review) : ClickMerge(c, d)
  \/ \E i \in review.items : ClickValidate(i) \/ ClickApprove(i) \/ ClickReject(i)
  \/ \E rows \in Imports : ClickImport(rows) \/ ClickAddTerm(rows[1].term, rows[1].aliases)
  \/ \E s \in DictionarySuggestions(review) : ClickAddTerm(s[2], <<s[1]>>)
  \/ \E t \in ToSet(review.terms) : ClickRemoveTerm(t.term)
  \/ ClickApply
  \/ \E name \in Names : AddSegment(name)
  \/ \E segments \in Transcripts : ServerTranscript(segments)
  \/ ReviewCreated

Spec == Init /\ [][Next]_vars

-----------------------------------------------------------------------------
(* Properties.                                                             *)

\* Segments, clusters, items and history have their types; every item is of a
\* segment and no segment has two.
TypeOK ==
  /\ draft \in {"reading", "ready", "abandoned"}
  /\ \A s \in ToSet(review.segments) :
       /\ s.status \in {"CONFIRMED", "UNCONFIRMED"} /\ s.speaker \in Names \X Nat
       /\ ToSet(s.edited) \cup ToSet(s.raw) \cup ToSet(s.normalized) \subseteq Vocabulary
  /\ \A c \in ToSet(review.clusters) :
       c.status \in {"ACTIVE", "MERGED", "SPLIT"} /\ c.segments \subseteq Ids(review.segments)
  /\ \A i \in review.items : i.type \in Types /\ i.segment \in Ids(review.segments)
  /\ \A i, j \in review.items : i.segment = j.segment => i = j
  /\ \A e \in ToSet(review.history) \cup ToSet(review.applications) :
       e.segment \in Ids(review.segments)

\* assertDecisionEvidenceSafe
DecisionEvidenceSafe(segment) == segment.overlap # "HIGH" /\ segment.status = "CONFIRMED"

\* Every sentence that reads as a decision has been rejected, or approved with
\* its evidence valid and, as the sentence stands now, a confirmed speaker and no
\* high overlap.
DecisionsJudged ==
  \A s \in ToSet(review.segments) : ClassifyReviewItem(s.edited) = "DECISION" =>
    \E i \in review.items :
      /\ i.segment = s.id /\ i.content = s.edited
      /\ \/ i.status = "REJECTED"
         \/ i.status = "APPROVED" /\ i.evidence = "VALID" /\ DecisionEvidenceSafe(s)

\* When there is a review and the panel counts no unresolved decision, and so
\* allows the minutes to be confirmed, the decisions have been judged.
ConfirmationIsSafe == draft = "ready" /\ BlockerCount = {} => DecisionsJudged

\* A review marked complete has an item, decided, for every sentence that needs
\* one.
CompletionIsSafe ==
  review.completed =>
    \A s \in ToSet(review.segments) : ClassifyReviewItem(s.edited) # None =>
      \E i \in review.items : i.segment = s.id /\ i.status # "PENDING"

\* Neither gate of the review opens while something is left to judge.
GatesAreSafe == ConfirmationIsSafe /\ CompletionIsSafe

Once(r) ==
  \A s \in ToSet(r.segments) :
    \E k \in DOMAIN r.clusters : ClustersOf(r, s.id) = {k} /\ r.clusters[k].label = s.speaker

\* Every sentence is in exactly one active cluster, the one of its speaker,
\* until a cluster is split; merging and assigning clusters keep it so.
OnlySplitBreaksClusters ==
  [][Once(review) /\ ~Once(review') => \E s \in ToSet(review.segments) : ClickSplit(s)]_vars

\* The review's own operations leave a trace: whenever the text of a sentence
\* is not the same after one, the events it has recorded for the sentence lead
\* from the old text to the new one, and otherwise it has recorded none.
EditsTraced ==
  [][left'.changes = left.changes =>
       /\ IsPrefix(review.history, review'.history)
       /\ \A s \in ToSet(review.segments), n \in ToSet(review'.segments) : n.id = s.id =>
            LET own == {k \in (Len(review.history) + 1)..Len(review'.history) :
                          /\ review'.history[k].segment = s.id
                          /\ review'.history[k].field = "EDITED_TEXT"}
            IN IF n.edited = s.edited THEN own = {}
               ELSE \E k \in own : /\ own = {k} /\ review'.history[k].previous = s.edited
                                  /\ review'.history[k].next = n.edited]_vars
=============================================================================
