-------------------------- MODULE BrowserRecording --------------------------
(***************************************************************************)
(* Recording a meeting in the browser: RecordingPanel asks the server to   *)
(* record the consent, or keeps it in localStorage when offline, then      *)
(* useBrowserRecording asks for the microphone, records in chunks of five  *)
(* seconds, writes each to IndexedDB, confirms them and deletes them.      *)
(* Every await is a place where the user clicks on, cancels, leaves the    *)
(* page or loses the network.  The server keeps the first consent of a     *)
(* meeting and an audit event for each (recordRecordingConsent).           *)
(*                                                                         *)
(* A start is one click of the start button that passed the consent check; *)
(* it names its idempotency key, its session and its recording.  A chunk   *)
(* is <<start, id>>.  `aborted', `abandoned', `erased' and `held' are      *)
(* history.                                                                *)
(***************************************************************************)
EXTENDS Naturals, FiniteSets

CONSTANTS
  Starts,     \* the recordings the user tries to start
  None,
  Bounds      \* bounds: how often each thing may happen, one record per instance

VARIABLES
  start,      \* where each start is, and the request id it got
  mic,        \* starts whose microphone stream is live
  page,       \* what is shown, and the refs of the hook
  memory,     \* chunksRef
  writing,    \* chunks being written to IndexedDB
  aborted,    \* chunks of this page whose write was aborted when it was committed
  stored,     \* the chunks in IndexedDB, with their uploadStatus
  confirming, \* <<run, record>>: read by a confirmLocalChunks, not marked yet
  deleting,   \* <<run, session>>: the sessions a deleteLocalAudio is deleting
  key,        \* localStorage: the active session
  pending,    \* localStorage: the consent that waits for the network
  syncing,    \* pending consents being sent
  consents,   \* the audit events RECORDING_CONSENT_RECORDED
  online,     \* navigator.onLine
  left,       \* how often each thing may still happen
  abandoned,  \* starts cancelled or left behind while asking for the microphone
  erased,     \* chunks a deletion found in IndexedDB
  held        \* those of them that a confirmLocalChunks had in its hands then

vars == <<start, mic, page, memory, writing, aborted, stored, confirming, deleting,
          key, pending, syncing, consents, online, left, abandoned, erased, held>>

audio == <<memory, writing, aborted, stored, confirming, deleting, key, erased, held>>
consent == <<pending, syncing, consents, online>>

Counters == {"starts", "drops", "cancels", "leaves", "reloads", "parts", "losses", "pauses",
             "tests", "fails", "confirms", "deletes"}

ASSUME RecordingAssumption ==
  /\ Bounds \subseteq [Counters -> Nat]
  /\ \E most \in Bounds : \A b \in Bounds : b.parts <= most.parts
  /\ None \notin Starts /\ "test" \notin Starts \cup {None}

MaxParts == CHOOSE n \in {b.parts : b \in Bounds} : \A b \in Bounds : b.parts <= n
Chunks == Starts \X (0..MaxParts)
Spend(what) == left[what] > 0 /\ left' = [left EXCEPT ![what] = @ - 1]
FirstPage == [ui |-> "idle", shown |-> TRUE, req |-> 0, recorder |-> None,
              session |-> None, mode |-> "indexeddb",
              test |-> "idle", stream |-> None, meter |-> None]
\* The level meter belongs to the hook: starting it takes it from whoever has it.
StartLevelMeter(p, stream) == [p EXCEPT !.meter = stream]
StopLevelMeter(p) == [p EXCEPT !.meter = None]

At(s, pc) == start[s].pc = pc
Move(s, pc) == start' = [start EXCEPT ![s].pc = pc]

Init ==
  /\ start = [s \in Starts |-> [pc |-> "new", req |-> 0]]
  /\ mic = {} /\ page = FirstPage
  /\ memory = {} /\ writing = {} /\ aborted = {} /\ stored = {}
  /\ confirming = {} /\ deleting = {}
  /\ key = None /\ pending = None /\ syncing = {} /\ consents = {}
  /\ online = TRUE /\ left \in Bounds
  /\ abandoned = {} /\ erased = {} /\ held = {}

-----------------------------------------------------------------------------
(* The consent: startRecordingWithConsent, syncPendingConsent.             *)

CanStart == page.ui \in {"idle", "stopped", "error"}

\* The button stays enabled while the consent is being sent.
ClickStart(s) ==
  /\ Spend("starts")
  /\ page.shown /\ CanStart /\ At(s, "new")
  /\ Move(s, "consent")
  /\ UNCHANGED <<mic, page, audio, consent, abandoned>>

\* startRecording takes the next request id and asks for the microphone.
StartRecording(s) ==
  /\ page' = [page EXCEPT !.req = @ + 1, !.ui = "requesting"]
  /\ start' = [start EXCEPT ![s] = [pc |-> "mic", req |-> page.req + 1]]

ConsentRecorded(s) ==
  /\ At(s, "consent") /\ online
  /\ consents' = consents \cup {s}
  /\ StartRecording(s)
  /\ UNCHANGED <<mic, audio, pending, syncing, online, abandoned, left>>

\* A mutant: offline, the recording starts and the consent is forgotten.
ConsentForgotten(s) ==
  /\ At(s, "consent")
  /\ IF online
       THEN Move(s, "over") /\ UNCHANGED page
       ELSE StartRecording(s)
  /\ UNCHANGED <<mic, audio, consent, abandoned, left>>

\* The request fails, before or after the server has recorded the consent.
\* Online this is an error; offline the consent is kept for later.
ConsentFails(s) ==
  /\ At(s, "consent")
  /\ consents' \in {consents, consents \cup {s}}
  /\ IF online
       THEN Move(s, "over") /\ UNCHANGED <<page, pending>>
       ELSE StartRecording(s) /\ pending' = s
  /\ UNCHANGED <<mic, audio, syncing, online, abandoned, left>>

\* Back online, as on mounting, the pending consent is sent.
SyncPending == syncing' = IF pending = None THEN syncing ELSE syncing \cup {pending}

GoOffline ==
  /\ online /\ Spend("drops")
  /\ online' = FALSE
  /\ UNCHANGED <<start, mic, page, audio, pending, syncing, consents, abandoned>>

GoOnline ==
  /\ ~online
  /\ online' = TRUE
  /\ IF page.shown THEN SyncPending ELSE UNCHANGED syncing
  /\ UNCHANGED <<start, mic, page, audio, pending, consents, abandoned, left>>

\* The key is removed when the server has accepted, whatever it holds by then;
\* without an answer it stays.
SyncAnswered(s) ==
  /\ s \in syncing
  /\ syncing' = syncing \ {s}
  /\ \/ consents' = consents \cup {s} /\ pending' = None
     \/ consents' \in {consents, consents \cup {s}} /\ UNCHANGED pending
  /\ UNCHANGED <<start, mic, page, audio, online, abandoned, left>>

-----------------------------------------------------------------------------
(* The microphone: requestMicrophoneStream, startRecording.                *)

\* A mutant: the request id is not compared.
WantedAnyhow(s) == TRUE

Wanted(s) == start[s].req = page.req

\* A mutant: the refs are set before the request id is compared.
GrantedUnchecked(s) ==
  /\ At(s, "mic")
  /\ page' = [page EXCEPT !.recorder = s, !.session = s, !.stream = s]
  /\ IF Wanted(s) THEN Move(s, "on") /\ mic' = mic \cup {s}
                  ELSE Move(s, "over") /\ UNCHANGED mic
  /\ UNCHANGED <<audio, consent, abandoned, left>>

\* The refs of the hook are those of the last recording that began; the
\* stream of a start that is no longer wanted is stopped at once.
MicrophoneGranted(s) ==
  /\ At(s, "mic")
  /\ IF Wanted(s)
       THEN /\ Move(s, "on") /\ mic' = mic \cup {s}
            /\ page' = StartLevelMeter([page EXCEPT !.ui = "recording", !.recorder = s,
                          !.session = s, !.mode = "indexeddb", !.stream = s], s)
            /\ memory' = {} /\ key' \in {key, s}
       ELSE /\ Move(s, "over") /\ UNCHANGED <<mic, page, memory, key>>
  /\ UNCHANGED <<writing, aborted, stored, confirming, deleting, erased, held, consent,
                 abandoned, left>>

\* The browser's recorder throws when it is started: the refs are set by then.
RecorderFails(s) ==
  /\ Spend("fails")
  /\ At(s, "mic") /\ Wanted(s)
  /\ Move(s, "stopped")
  /\ page' = [page EXCEPT !.ui = "error", !.recorder = s, !.session = s,
                          !.mode = "indexeddb", !.stream = s]
  /\ memory' = {} /\ key' \in {key, s}
  /\ UNCHANGED <<mic, writing, aborted, stored, confirming, deleting, erased, held, consent,
                 abandoned>>

\* Refused, missing, busy, or not answered for 30 seconds: a stream that comes
\* later is stopped by requestMicrophoneStream itself.
MicrophoneRefused(s) ==
  /\ At(s, "mic")
  /\ Move(s, "over")
  /\ page' = IF Wanted(s) THEN [page EXCEPT !.ui = "error"] ELSE page
  /\ UNCHANGED <<mic, audio, consent, abandoned, left>>

CancelRequest ==
  /\ Spend("cancels")
  /\ page.shown /\ page.ui = "requesting"
  /\ page' = [page EXCEPT !.ui = "idle", !.req = @ + 1]
  /\ abandoned' = abandoned \cup {s \in Starts : At(s, "mic")}
  /\ UNCHANGED <<start, mic, audio, consent>>

\* The input test uses a stream of its own and the same level meter, which it
\* stops when it ends, whoever has it by then.
RunInputTest ==
  /\ Spend("tests")
  /\ page.shown /\ page.test = "idle" /\ CanStart
  /\ page' = StartLevelMeter([page EXCEPT !.test = "running"], "test")
  /\ UNCHANGED <<start, mic, audio, consent, abandoned>>

InputTestEnds ==
  /\ page.test = "running"
  /\ page' = StopLevelMeter([page EXCEPT !.test = "idle"])
  /\ UNCHANGED <<start, mic, audio, consent, abandoned, left>>

-----------------------------------------------------------------------------
(* Recording: the handlers of the MediaRecorder and the toolbar.           *)

\* storeBrowserChunk gives every chunk a new id: here, what is left of the bound.
NewChunk(s) == <<s, left.parts>>

\* A chunk arrives every five seconds and once more when the recorder stops.
DataAvailable(s) ==
  /\ Spend("parts")
  /\ start[s].pc \in {"on", "stopping"}
  /\ memory' = memory \cup {NewChunk(s)}
  /\ writing' = writing \cup {NewChunk(s)}
  /\ UNCHANGED <<start, mic, page, aborted, stored, confirming, deleting, key, erased, held,
                 consent, abandoned>>

\* IndexedDB puts a record in the place of the one of that name.
Put(r) == {q \in stored : q.chunk # r.chunk} \cup {r}

ChunkStored(c) ==
  /\ c \in writing
  /\ writing' = writing \ {c}
  /\ stored' = Put([chunk |-> c, confirmed |-> FALSE])
  /\ UNCHANGED <<start, mic, page, memory, aborted, confirming, deleting, key, erased, held,
                 consent, abandoned, left>>

\* A mutant: the failed write is not shown.
ChunkLost(c) ==
  /\ c \in writing
  /\ writing' = writing \ {c}
  /\ UNCHANGED <<start, mic, page, memory, aborted, stored, confirming, deleting, key,
                 erased, held, consent, abandoned, left>>

\* The database does not open, or the put fails.
ChunkNotStored(c) ==
  /\ c \in writing
  /\ writing' = writing \ {c}
  /\ page' = [page EXCEPT !.mode = "memory"]
  /\ UNCHANGED <<start, mic, memory, aborted, stored, confirming, deleting, key, erased, held,
                 consent, abandoned, left>>

\* The transaction fails when it is committed, as for want of space: it is
\* aborted, which nothing listens to, and storeBrowserChunk never answers.
ChunkAborted(c) ==
  /\ c \in writing
  /\ writing' = writing \ {c}
  /\ aborted' = aborted \cup {c}
  /\ UNCHANGED <<start, mic, page, memory, stored, confirming, deleting, key, erased, held,
                 consent, abandoned, left>>

Pause ==
  /\ Spend("pauses")
  /\ page.shown /\ page.recorder # None /\ At(page.recorder, "on")
  /\ Move(page.recorder, "paused")
  /\ page' = StopLevelMeter([page EXCEPT !.ui = "paused"])
  /\ UNCHANGED <<mic, audio, consent, abandoned>>

Resume ==
  /\ page.shown /\ page.recorder # None /\ At(page.recorder, "paused")
  /\ Move(page.recorder, "on")
  /\ page' = StartLevelMeter([page EXCEPT !.ui = "recording"], page.stream)
  /\ UNCHANGED <<mic, audio, consent, abandoned, left>>

Running(s) == start[s].pc \in {"on", "paused"}

\* The stop button stops the recorder of the ref.
ClickStop ==
  /\ page.shown /\ page.ui \in {"recording", "paused"}
  /\ page.recorder # None /\ Running(page.recorder)
  /\ Move(page.recorder, "stopping")
  /\ UNCHANGED <<mic, page, audio, consent, abandoned, left>>

\* A recorder also stops when its microphone is unplugged.
DeviceLost(s) ==
  /\ Spend("losses")
  /\ Running(s)
  /\ Move(s, "stopping") /\ mic' = mic \ {s}
  /\ UNCHANGED <<page, audio, consent, abandoned>>

RecorderStopped(s) ==
  /\ At(s, "stopping")
  /\ Move(s, "stopped") /\ mic' = mic \ {s}
  /\ page' = StopLevelMeter([page EXCEPT !.ui = "stopped", !.stream = None])
  /\ UNCHANGED <<audio, consent, abandoned, left>>

\* Leaving the meeting inside the application: the cleanup of the hook.  What
\* still awaits an answer goes on.
Leave ==
  /\ Spend("leaves")
  /\ page.shown
  /\ page' = StopLevelMeter([page EXCEPT !.shown = FALSE, !.req = @ + 1, !.test = "idle"])
  /\ IF page.recorder # None /\ Running(page.recorder)
       THEN Move(page.recorder, "stopping") ELSE UNCHANGED start
  /\ mic' = mic \ {page.stream}
  /\ abandoned' = abandoned \cup {s \in Starts : At(s, "mic")}
  /\ UNCHANGED <<audio, consent>>

\* Reloading the page, or opening it again: only the storage of the browser is
\* left, and mounting reads the session and sends the pending consent.
Reload ==
  /\ Spend("reloads")
  /\ page' = [FirstPage EXCEPT !.session = key]
  /\ start' = [s \in Starts |-> IF At(s, "new") THEN start[s]
                                ELSE [pc |-> "over", req |-> 0]]
  /\ mic' = {} /\ memory' = {} /\ confirming' = {} /\ deleting' = {}
  /\ writing' = {} /\ aborted' = {}
  /\ \E done \in SUBSET writing :
       stored' = {r \in stored : r.chunk \notin done}
                 \cup {[chunk |-> c, confirmed |-> FALSE] : c \in done}
  /\ IF online THEN SyncPending ELSE UNCHANGED syncing
  /\ UNCHANGED <<key, pending, consents, online, abandoned, erased, held>>

-----------------------------------------------------------------------------
(* The local audio: confirmLocalChunks, deleteLocalAudio.                  *)

\* The records of the session are read, then put back one by one as confirmed.
\* The button is disabled only between the read and the end of the run, and not
\* even then once a deletion or a new recording has reset the state of the run.
ConfirmLocalChunks ==
  /\ Spend("confirms")
  /\ page.shown /\ page.mode = "indexeddb"
  /\ confirming' = confirming \cup
       {<<left.confirms, r>> : r \in {q \in stored : q.chunk[1] = page.session /\ ~q.confirmed}}
  /\ UNCHANGED <<start, mic, page, memory, writing, aborted, stored, deleting, key, erased, held,
                 consent, abandoned>>

ConfirmChunk ==
  /\ \E h \in confirming :
       /\ confirming' = confirming \ {h}
       /\ stored' = Put([h[2] EXCEPT !.confirmed = TRUE])
  /\ UNCHANGED <<start, mic, page, memory, writing, aborted, deleting, key, erased, held,
                 consent, abandoned, left>>

\* The run that fails leaves the rest of what it has read.
ConfirmFails ==
  /\ \E h \in confirming : confirming' = {g \in confirming : g[1] # h[1]}
  /\ UNCHANGED <<start, mic, page, memory, writing, aborted, stored, deleting, key, erased, held,
                 consent, abandoned, left>>

\* The button is disabled while recording, and only then.
DeleteLocalAudio ==
  /\ Spend("deletes")
  /\ page.shown /\ page.ui \notin {"recording", "paused"}
  /\ deleting' = deleting \cup {<<left.deletes, page.session>>}
  /\ UNCHANGED <<start, mic, page, memory, writing, aborted, stored, confirming, key, erased, held,
                 consent, abandoned>>

\* The chunks of a session, those of all sessions when there is none.
Of(session) == {c \in {r.chunk : r \in stored} : session \in {None, c[1]}}
InHand == {h[2].chunk : h \in confirming}

\* A mutant: the transaction deletes only the confirmed chunks.
ConfirmedDeleted ==
  /\ \E d \in deleting :
       /\ deleting' = deleting \ {d}
       /\ stored' = {r \in stored : ~r.confirmed \/ r.chunk \notin Of(d[2])}
       /\ erased' = erased \cup Of(d[2]) /\ held' = held \cup (Of(d[2]) \cap InHand)
  /\ memory' = {} /\ key' = None
  /\ UNCHANGED <<start, mic, page, writing, aborted, confirming, consent, abandoned, left>>

\* The transaction deletes them, or fails unseen; the memory is cleared in any
\* case.
LocalAudioDeleted ==
  /\ \E d \in deleting :
       /\ deleting' = deleting \ {d}
       /\ \/ /\ stored' = {r \in stored : r.chunk \notin Of(d[2])}
             /\ erased' = erased \cup Of(d[2])
             /\ held' = held \cup (Of(d[2]) \cap InHand)
          \/ UNCHANGED <<stored, erased, held>>
  /\ memory' = {} /\ key' = None
  /\ UNCHANGED <<start, mic, page, writing, aborted, confirming, consent, abandoned, left>>

-----------------------------------------------------------------------------
Next ==
  \/ \E s \in Starts :
       \/ ClickStart(s) \/ ConsentRecorded(s) \/ ConsentFails(s) \/ SyncAnswered(s)
       \/ MicrophoneGranted(s) \/ RecorderFails(s) \/ MicrophoneRefused(s)
       \/ DataAvailable(s) \/ DeviceLost(s) \/ RecorderStopped(s)
  \/ \E c \in Chunks : ChunkStored(c) \/ ChunkNotStored(c) \/ ChunkAborted(c)
  \/ GoOffline \/ GoOnline
  \/ CancelRequest \/ RunInputTest \/ InputTestEnds
  \/ Pause \/ Resume \/ ClickStop \/ Leave \/ Reload
  \/ ConfirmLocalChunks \/ ConfirmChunk \/ ConfirmFails
  \/ DeleteLocalAudio \/ LocalAudioDeleted

Spec == Init /\ [][Next]_vars

-----------------------------------------------------------------------------
(* Properties.                                                             *)

Records == [chunk : Chunks, confirmed : BOOLEAN]

\* Every variable has its type; the recorder of the ref is a start whose
\* microphone was granted, and the level meter never shows one that has ended.
TypeOK ==
  /\ start \in [Starts -> [pc : {"new", "consent", "mic", "on", "paused", "stopping",
                                 "stopped", "over"}, req : Nat]]
  /\ mic \subseteq Starts /\ abandoned \subseteq Starts /\ consents \subseteq Starts
  /\ syncing \subseteq Starts /\ {key, pending} \subseteq Starts \cup {None}
  /\ page.ui \in {"idle", "requesting", "recording", "paused", "stopped", "error"}
  /\ page.mode \in {"indexeddb", "memory"}
  /\ memory \subseteq Chunks /\ writing \subseteq Chunks /\ aborted \subseteq Chunks
  /\ erased \subseteq Chunks /\ held \subseteq erased
  /\ stored \subseteq Records /\ confirming \subseteq Nat \X Records
  /\ deleting \subseteq Nat \X (Starts \cup {None})
  /\ page.recorder # None =>
       start[page.recorder].pc \in {"on", "paused", "stopping", "stopped"}
  /\ page.meter \in Starts => start[page.meter].pc \in {"on", "stopping"}

\* A start that the user cancelled, or left behind with the page, while the
\* browser was asking for the microphone never records.
AbandonedNeverRecords == abandoned \cap mic = {}

\* While the panel says that the audio is in IndexedDB, every chunk it holds in
\* memory is there or on its way, but for those whose transaction was aborted: a
\* write that is refused is told, and no confirmation or deletion takes from
\* IndexedDB what stays in memory.
StorageModeHonest ==
  page.mode = "indexeddb" =>
    memory \subseteq {r.chunk : r \in stored} \cup writing \cup aborted

\* Once a microphone has been asked for, the server has a consent for this
\* meeting or one is kept in the browser until the server has it.
ConsentKnown ==
  (mic # {} \/ \E s \in Starts : At(s, "mic")) => consents # {} \/ pending # None

\* A chunk that the user has deleted never comes back, unless confirmLocalChunks
\* had read it before and puts it back.
DeletedStaysDeleted == {r.chunk : r \in stored} \cap erased \subseteq held
=============================================================================
