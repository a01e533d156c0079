--------------------------- MODULE EditorSession ---------------------------
(***************************************************************************)
(* One browser tab editing the final transcript or the minutes of a        *)
(* meeting (RecordingPanel.tsx, TranscriptEditor.tsx): it loads the server *)
(* copy, restores the review draft kept in IndexedDB, is edited, autosaves *)
(* the draft and saves with a version and an idempotency key, over a       *)
(* network that loses requests and answers.  Another client saves the same *)
(* document, and the page is reloaded.                                     *)
(*                                                                         *)
(* The server's save is atomic here: MeetingContent shows, statement by    *)
(* statement, that it is (AtomicContent).  The text of a document is a     *)
(* number no two edits share.  A content is a text with the version whose  *)
(* save gave the segments their ids (0 for a text typed here): this is     *)
(* what segmentSignature tells apart.  Version 0 is the code's null.       *)
(* `basis' is history: the version whose text the author had seen; so is   *)
(* `typed': something was typed while the stored draft was being read.     *)
(***************************************************************************)
EXTENDS Naturals, FiniteSets

CONSTANTS
  Saves,        \* names for the saves the tab has in flight
  None,         \* no draft, no mutation, nothing read
  MaxVersion,   \* bound: versions of the document on the server
  Sessions      \* the sessions explored: a document, and the bounds
                \*   saves: saves in flight at once
                \*   texts: texts typed or generated
                \*   keys: idempotency keys made
                \*   losses: requests and answers lost or rejected, failed reads
                \*   pages: times the page is opened

ASSUME SessionAssumption ==
  /\ MaxVersion \in Nat
  /\ \A s \in Sessions : {s.texts, s.keys} \subseteq Nat
  /\ IsFiniteSet(Saves)
  /\ None \notin [content : [text : Nat, saved : Nat], base : Nat, basis : Nat]
  /\ None \notin [payload : Nat \X Nat, key : Nat]

VARIABLES
  session,      \* what is edited, "transcript" or "minutes", and the bounds
  server,       \* its row: version, text, and who wrote it on which basis
  receipts,     \* content_mutation_receipts: a key, its payload, its version
  late,         \* requests whose client has given up, still on their way
  screen,       \* what is shown, its version, and whether it was edited
  load,         \* the GET in flight
  put,          \* the PUTs in flight
  mutation,     \* transcriptMutationRef, minutesMutationRef
  review,       \* TranscriptEditor's reviewState
  reading,      \* its read of the stored draft
  dirty,        \* an autosave timer is running
  stored,       \* the draft in IndexedDB
  used          \* counters of the bounds; whether a save was rejected, or
                \* accepted by an answer that could not be read

vars == <<session, server, receipts, late, screen, load, put, mutation,
          review, reading, dirty, stored, used>>

doc == session.doc
MaxTexts == session.texts
MaxKeys == session.keys

Empty    == [text |-> 0, saved |-> 0]
Stored(v, t) == [text |-> t, saved |-> v]
NoLoad   == [phase |-> "idle", asked |-> FALSE, version |-> 0,
             content |-> Empty]
NoPut    == [phase |-> "idle", key |-> 0, payload |-> <<0, 0>>, basis |-> 0,
             attempt |-> 1, version |-> 0]
NotRead  == [phase |-> "before", initial |-> Empty, version |-> 0]
FirstScreen == [content |-> Empty, version |-> 0, edited |-> FALSE, basis |-> 0,
                typed |-> FALSE]

\* The first GET of a page is in flight as soon as it is shown.
FirstLoad == [NoLoad EXCEPT !.phase = "sent"]

\* One the user asked for, after a confirmation if there was something edited when
\* it was clicked.
AskedLoad == [NoLoad EXCEPT !.phase = "sent", !.asked = TRUE]

Init ==
  /\ session \in Sessions
  /\ server = [version |-> 0, text |-> 0, mine |-> FALSE, basis |-> 0]
  /\ receipts = {} /\ late = {}
  /\ screen = FirstScreen /\ load = FirstLoad
  /\ put = [p \in Saves |-> NoPut] /\ mutation = None
  /\ review = None /\ reading = NotRead /\ dirty = FALSE /\ stored = None
  /\ used = [texts |-> 0, keys |-> 0, losses |-> 0, pages |-> 1,
             rejected |-> FALSE, unread |-> FALSE]

-----------------------------------------------------------------------------
(* What a change of the screen does in the same render.                    *)

FreshReview(s) == [content |-> s.content, base |-> s.version, basis |-> s.basis]

\* A mutant: the review state is not rebuilt.
ShowUnmerged(s) ==
  /\ screen' = s
  /\ UNCHANGED <<review, dirty, reading>>

\* The merge effect rebuilds the review state when the segments differ from
\* it, the load effect is torn down when the version changes under it, and
\* every new review state restarts the autosave timer.
Show(s) ==
  /\ screen' = s
  /\ review' = IF review # None /\ review.content # s.content
                 THEN FreshReview(s) ELSE review
  /\ dirty' = (dirty \/ review' # review)
  /\ reading' = [reading EXCEPT
       !.phase = IF @ = "reading" /\ s.version # reading.version
                   THEN "abandoned" ELSE @]

\* What an applied answer of a load or of a save leaves on the screen.
Shown(v, c) ==
  [content |-> c, version |-> v, edited |-> FALSE, basis |-> c.saved, typed |-> FALSE]

-----------------------------------------------------------------------------
(* Loading: loadServerTranscript, loadServerMinutes.                       *)

\* The transcript is read in two statements on the pool, its header first;
\* the minutes are one row.
ReadHeader ==
  /\ load.phase = "sent"
  /\ load' = [load EXCEPT
       !.phase = IF doc = "minutes" \/ server.version = 0 THEN "answered" ELSE "header",
       !.version = server.version,
       !.content = Stored(server.version, server.text)]
  /\ UNCHANGED <<session, server, receipts, late, screen, put, mutation,
                 review, reading, dirty, stored, used>>

ReadSegments ==
  /\ load.phase = "header"
  /\ load' = [load EXCEPT !.phase = "answered",
                          !.content = Stored(server.version, server.text)]
  /\ UNCHANGED <<session, server, receipts, late, screen, put, mutation,
                 review, reading, dirty, stored, used>>

\* The end of a load of the transcript, whatever it brought: the first one makes
\* the editor read the stored draft, with the signature of what is shown by then.
Ready(s) ==
  IF reading.phase = "before"
    THEN /\ screen' = s
         /\ reading' = [phase |-> "reading", initial |-> s.content, version |-> s.version]
         /\ UNCHANGED <<review, dirty>>
    ELSE Show(s)

\* A mutant: the answer of the first load is always shown.
UnwantedShown == FALSE

\* Edits are kept from a load nobody asked for.
Unwanted == ~load.asked /\ screen.edited

\* A load that finds no server copy clears the version and nothing else.
Loaded ==
  IF load.version = 0 THEN [screen EXCEPT !.version = 0]
  ELSE IF Unwanted THEN screen
  ELSE Shown(load.version, load.content)

TranscriptLoaded ==
  /\ doc = "transcript" /\ load.phase = "answered"
  /\ load' = NoLoad
  /\ Ready(Loaded)
  /\ UNCHANGED <<session, server, receipts, late, put, mutation, stored, used>>

MinutesLoaded ==
  /\ doc = "minutes" /\ load.phase = "answered"
  /\ load' = NoLoad
  /\ Show(Loaded)
  /\ UNCHANGED <<session, server, receipts, late, put, mutation, stored, used>>

\* An error or no answer: the screen stays, and the editor counts as ready.
LoadFailed ==
  /\ load.phase # "idle" /\ used.losses < session.losses
  /\ used' = [used EXCEPT !.losses = @ + 1]
  /\ load' = NoLoad
  /\ IF doc = "transcript" THEN Ready(screen) ELSE Show(screen)
  /\ UNCHANGED <<session, server, receipts, late, put, mutation, stored>>

\* "Reload the server copy", disabled while loading; edits need a confirmation
\* first, which is given for what is on screen at that moment.
Reload ==
  /\ load.phase = "idle"
  /\ load' = AskedLoad
  /\ UNCHANGED <<session, server, receipts, late, screen, put, mutation,
                 review, reading, dirty, stored, used>>

-----------------------------------------------------------------------------
(* Editing.                                                                *)

\* What is on screen after a sentence, or a field, was changed.
Typed(content) ==
  [screen EXCEPT !.content = content, !.edited = TRUE,
                 !.typed = @ \/ reading.phase = "reading"]

\* A text that was not there before.
Edit(d) ==
  /\ doc = d /\ used.texts < session.texts
  /\ used' = [used EXCEPT !.texts = @ + 1]
  /\ Show(Typed(Stored(0, used'.texts)))
  /\ UNCHANGED <<session, server, receipts, late, load, put, mutation, stored>>

\* The live recognition adds or completes a sentence; the user adds one; an
\* operation of the review changes some (see BrowserReview).
LiveText == Edit("transcript")
AddSegment == Edit("transcript")
ReviewSegments == review # None /\ Edit("transcript")

\* The sentence that is deleted may be the last one.
DeleteSegment ==
  \/ review # None /\ Edit("transcript")
  \/ /\ doc = "transcript" /\ review # None /\ screen.content # Empty
     /\ Show(Typed(Empty))
     /\ UNCHANGED <<session, server, receipts, late, load, put, mutation, stored, used>>

\* Generated minutes replace those on screen, edited or not; the version stays.
MinutesGenerated == Edit("minutes")
EditMinutes == screen.content # Empty /\ Edit("minutes")

\* onRecordingStart empties the transcript.
NewRecording ==
  /\ doc = "transcript" /\ screen.content # Empty
  /\ Show([screen EXCEPT !.content = Empty, !.edited = TRUE, !.typed = FALSE])
  /\ UNCHANGED <<session, server, receipts, late, load, put, mutation, stored, used>>

-----------------------------------------------------------------------------
(* Saving: saveTranscriptDraft, finalizeMinutesDraft, meetingApiRequest.   *)

\* The minutes' button is disabled while a save runs (isFinalizingMinutes), the
\* transcript's is not.
MayClickSave(p) ==
  LET running == {q \in Saves : put[q].phase # "idle"}
  IN /\ p \notin running /\ screen.content.text # 0
     /\ Cardinality(running) < IF doc = "minutes" THEN 1 ELSE session.saves

\* A mutant: a key for every click.
NewMutation(payload) == FALSE

\* The key lives as long as the payload is the same and no definite answer
\* came.
SameMutation(payload) == mutation # None /\ mutation.payload = payload

\* Offline the key is made, and nothing is sent.
ClickSave(p) ==
  LET payload == <<screen.version, screen.content.text>>
      same == SameMutation(payload)
      key == IF same THEN mutation.key ELSE used.keys + 1
  IN /\ MayClickSave(p) /\ key <= MaxKeys
     /\ mutation' = [payload |-> payload, key |-> key]
     /\ used' = [used EXCEPT !.keys = IF same THEN @ ELSE key]
     /\ put' \in {put, [put EXCEPT ![p] = [NoPut EXCEPT !.phase = "sent",
                    !.key = key, !.payload = payload, !.basis = screen.basis]]}
     /\ UNCHANGED <<session, server, receipts, late, screen, load, review,
                    reading, dirty, stored>>

\* The store: a key that was used answers as it did, another save must start
\* from the current version.
Receipt(r) == {x \in receipts : x.key = r.key}
Current(r) == r.payload[1] = server.version

Accept(r) ==
  /\ server' = [version |-> server.version + 1, text |-> r.payload[2],
                mine |-> TRUE, basis |-> r.basis]
  /\ receipts' = receipts \cup
       {[key |-> r.key, payload |-> r.payload, version |-> server.version + 1]}

HandleSave(p) ==
  /\ put[p].phase = "sent"
  /\ \/ /\ Receipt(put[p]) # {}
        /\ \E x \in Receipt(put[p]) :
             put' = [put EXCEPT ![p].phase = "saved", ![p].version = x.version]
        /\ UNCHANGED <<server, receipts>>
     \/ /\ Receipt(put[p]) = {} /\ Current(put[p]) /\ server.version < MaxVersion
        /\ Accept(put[p])
        /\ put' = [put EXCEPT ![p].phase = "saved", ![p].version = server.version + 1]
     \/ /\ Receipt(put[p]) = {} /\ ~Current(put[p])
        /\ put' = [put EXCEPT ![p].phase = "conflict"]
        /\ UNCHANGED <<server, receipts>>
  /\ UNCHANGED <<session, late, screen, load, mutation, review, reading,
                 dirty, stored, used>>

\* No session, no right, a body that is too long or not valid: the edits stay
\* and the key is dropped.
RejectSave(p) ==
  /\ put[p].phase = "sent" /\ used.losses < session.losses
  /\ put' = [put EXCEPT ![p] = NoPut] /\ mutation' = None
  /\ used' = [used EXCEPT !.losses = @ + 1, !.rejected = TRUE]
  /\ UNCHANGED <<session, server, receipts, late, screen, load, review, reading,
                 dirty, stored>>

\* The save was done, but the body of its answer is lost or is not JSON: this
\* counts as success, is not repeated and drops the key; then the missing body
\* throws, an error is shown and the screen stays.
AnswerUnreadable(p) ==
  /\ put[p].phase = "saved" /\ used.losses < session.losses
  /\ put' = [put EXCEPT ![p] = NoPut] /\ mutation' = None
  /\ used' = [used EXCEPT !.losses = @ + 1, !.unread = TRUE]
  /\ UNCHANGED <<session, server, receipts, late, screen, load, review, reading,
                 dirty, stored>>

\* No answer at all, or a status of 500 and more: the request is sent once more, the
\* second time the error is shown and the key is kept.  The request itself may
\* be lost, refused, handled, or still be on its way.
LoseSave(p) ==
  /\ put[p].phase # "idle" /\ used.losses < session.losses
  /\ used' = [used EXCEPT !.losses = @ + 1]
  /\ late' \in {late, late \cup {[key |-> put[p].key, payload |-> put[p].payload,
                                  basis |-> put[p].basis] : x \in
                                 IF put[p].phase = "sent" THEN {1} ELSE {}}}
  /\ put' = [put EXCEPT ![p] = IF @.attempt = 1
               THEN [@ EXCEPT !.phase = "sent", !.attempt = 2] ELSE NoPut]
  /\ UNCHANGED <<session, server, receipts, screen, load, mutation, review,
                 reading, dirty, stored>>

\* A late request is handled when its client no longer listens.
HandleLate ==
  /\ \E r \in late :
       /\ late' = late \ {r}
       /\ IF Receipt(r) = {} /\ Current(r)
            THEN server.version < MaxVersion /\ Accept(r)
            ELSE UNCHANGED <<server, receipts>>
  /\ UNCHANGED <<session, screen, load, put, mutation, review, reading,
                 dirty, stored, used>>

\* The answer replaces the screen, or the edits stay and the key is dropped.
SaveAnswered(p) ==
  /\ put[p].phase \in {"saved", "conflict"}
  /\ put' = [put EXCEPT ![p] = NoPut]
  /\ mutation' = None
  /\ IF put[p].phase = "saved"
       THEN Show(Shown(put[p].version, Stored(put[p].version, put[p].payload[2])))
       ELSE UNCHANGED <<screen, review, reading, dirty>>
  /\ UNCHANGED <<session, server, receipts, late, load, stored, used>>

-----------------------------------------------------------------------------
(* The review draft: TranscriptEditor, browser-review-store.               *)

\* A mutant: a draft is restored whatever version it is a draft of.
FitsAnything(d) == d # None

\* The stored draft fits the version that is shown.
Fits(d) == d # None /\ d.base = screen.version

\* What is shown is no longer what it was when the read began.
ChangedMeanwhile == screen.content # reading.initial

\* The stored draft arrives: it is restored, or only its dictionary is kept.
DraftArrives ==
  /\ reading.phase = "reading"
  /\ reading' = [reading EXCEPT !.phase = "done"]
  /\ IF Fits(stored) /\ ~ChangedMeanwhile /\ stored.content # Empty
       THEN /\ review' = stored
            /\ screen' = [screen EXCEPT !.content = stored.content, !.edited = TRUE,
                                        !.basis = stored.basis]
       ELSE /\ review' = FreshReview(screen)
            /\ UNCHANGED screen
  /\ dirty' = TRUE
  /\ UNCHANGED <<session, server, receipts, late, load, put, mutation, stored, used>>

\* IndexedDB does not answer: the review starts anew.
DraftUnreadable ==
  /\ reading.phase = "reading" /\ used.losses < session.losses
  /\ used' = [used EXCEPT !.losses = @ + 1]
  /\ reading' = [reading EXCEPT !.phase = "unreadable"]
  /\ review' = FreshReview(screen) /\ dirty' = TRUE
  /\ UNCHANGED <<session, server, receipts, late, screen, load, put, mutation, stored>>

\* 250 ms after the last change the review state is written.
Autosave ==
  /\ dirty
  /\ dirty' = FALSE /\ stored' = review
  /\ UNCHANGED <<session, server, receipts, late, screen, load, put,
                 mutation, review, reading, used>>

\* The page is closed and opened again: only IndexedDB survives, and the saves
\* that were sent.
ReopenPage ==
  /\ used.pages < session.pages
  /\ used' = [used EXCEPT !.pages = @ + 1]
  /\ late' = late \cup {[key |-> put[p].key, payload |-> put[p].payload,
                         basis |-> put[p].basis] : p \in {q \in Saves : put[q].phase = "sent"}}
  /\ screen' = FirstScreen /\ load' = FirstLoad
  /\ put' = [p \in Saves |-> NoPut] /\ mutation' = None
  /\ review' = None /\ reading' = NotRead /\ dirty' = FALSE
  /\ UNCHANGED <<session, server, receipts, stored>>

-----------------------------------------------------------------------------
(* Another client.  saveTranscriptSegments and confirmMinutes read the     *)
(* version and save from it, another tab does so with a person in between: *)
(* a save in between makes the version check refuse it.                    *)

OtherSaves ==
  /\ server.version < MaxVersion
  /\ server' = [version |-> server.version + 1, text |-> 0, mine |-> FALSE,
                basis |-> server.version]
  /\ UNCHANGED <<session, receipts, late, screen, load, put, mutation, review,
                 reading, dirty, stored, used>>

Next ==
  \/ ReadHeader \/ ReadSegments \/ TranscriptLoaded \/ MinutesLoaded \/ LoadFailed
  \/ Reload
  \/ LiveText \/ AddSegment \/ ReviewSegments \/ DeleteSegment \/ NewRecording
  \/ MinutesGenerated \/ EditMinutes
  \/ \E p \in Saves : \/ ClickSave(p) \/ HandleSave(p) \/ RejectSave(p)
                      \/ AnswerUnreadable(p) \/ LoseSave(p) \/ SaveAnswered(p)
  \/ HandleLate
  \/ DraftArrives \/ DraftUnreadable \/ Autosave \/ ReopenPage
  \/ OtherSaves

Spec == Init /\ [][Next]_vars

-----------------------------------------------------------------------------
(* Properties.                                                             *)

Contents == [text : 0..MaxTexts, saved : 0..MaxVersion]
Reviews == [content : Contents, base : 0..MaxVersion, basis : 0..MaxVersion]
Payloads == (0..MaxVersion) \X (0..MaxTexts)

\* Every variable has its type, at most one load runs, and the review state is
\* what the screen shows (saveTranscriptDraft sends the screen, the gate of
\* finalizeMinutesDraft reads the review state).
TypeOK ==
  /\ session \in Sessions
  /\ server \in [version : 0..MaxVersion, text : 0..MaxTexts, mine : BOOLEAN,
                 basis : 0..MaxVersion]
  /\ receipts \subseteq [key : 1..MaxKeys, payload : Payloads, version : 1..MaxVersion]
  /\ late \subseteq [key : 1..MaxKeys, payload : Payloads, basis : 0..MaxVersion]
  /\ screen \in [content : Contents, version : 0..MaxVersion, edited : BOOLEAN,
                 basis : 0..MaxVersion, typed : BOOLEAN]
  /\ load.phase \in {"idle", "sent", "header", "answered"}
  /\ \A p \in Saves : put[p].phase \in {"idle", "sent", "saved", "conflict"}
  /\ mutation \in {None} \cup [payload : Payloads, key : 1..MaxKeys]
  /\ review \in {None} \cup Reviews /\ stored \in {None} \cup Reviews
  /\ reading.phase \in {"before", "reading", "done", "unreadable", "abandoned"}
  /\ review # None => review.content = screen.content
  /\ dirty => review # None

\* A save of this tab that is accepted replaces a text its author had seen:
\* neither a torn read, nor a restored draft, nor a replayed answer, nor a
\* request that arrives late lets it overwrite the other client's work unseen.
NoBlindOverwrite == server.mine => server.basis = server.version - 1

\* What was typed is on screen until the next edit, deletion or recording, or
\* until one of three answers takes its place: what a save sent and stored, what
\* a reload brought, or a stored draft whose read began after it was typed.  The
\* first load, a failed one, a refused, lost or unreadable save and a stored
\* draft that was being read when it was typed leave it alone.  (The documents
\* promise more: see the README.)
UnaskedKeepsEdits ==
  [][/\ screen.edited /\ screen.content \notin {Empty, screen'.content}
       /\ used'.pages = used.pages =>
       \/ screen'.content = Empty
       \/ used'.texts # used.texts
       \/ \E p \in Saves : /\ put[p].phase = "saved" /\ put'[p].phase = "idle"
                           /\ screen'.content = Stored(put[p].version, put[p].payload[2])
       \/ load.asked /\ load.phase = "answered" /\ screen'.content = load.content
       \/ /\ reading.phase = "reading" /\ reading'.phase = "done" /\ ~screen.typed
          /\ screen'.content = stored.content]_vars

\* The save p is refused for the version that an earlier save of what is still
\* on screen, written here and unchanged, has made.
RefusedForItself(p) ==
  /\ put[p].phase = "conflict"
  /\ \E r \in receipts :
       /\ r.payload = put[p].payload
       /\ <<screen.version, screen.content>> = <<r.payload[1], Stored(0, r.payload[2])>>

\* A save of minutes written here that is repeated because no answer came is not
\* refused for its own first attempt, as long as it is on screen.  Two things do
\* drop the key of a save that may be stored, and are excluded: an attempt
\* rejected for an expired session, and an OK answer that could not be read.
RetryNotRefused ==
  doc = "minutes" /\ ~used.rejected /\ ~used.unread =>
    \A p \in Saves : ~RefusedForItself(p)

\* The policy says that a draft is restored when the page is opened on the
\* version it is a draft of: where IndexedDB could be read and nothing was
\* typed, it is not replaced.
DraftKeptForItsVersion ==
  [][stored # None /\ stored' # stored /\ stored.content.saved = 0
       /\ stored.content # Empty /\ stored.base = server.version
     => screen.edited \/ reading.phase = "unreadable"]_vars
=============================================================================
