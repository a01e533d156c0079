----------------------- MODULE BrowserRecording_proofs -----------------------
(***************************************************************************)
(* The safety of BrowserRecording for any number of recordings and any     *)
(* bounds on what the user and the browser do.                             *)
(***************************************************************************)
EXTENDS BrowserRecording, TLAPS

-----------------------------------------------------------------------------
(* Types of the page and of the counters. *)

Page == [ui : {"idle", "requesting", "recording", "paused", "stopped", "error"},
         shown : BOOLEAN, req : Nat, recorder : Starts \cup {None},
         session : Starts \cup {None}, mode : {"indexeddb", "memory"},
         test : {"idle", "running"}, stream : Starts \cup {None},
         meter : Starts \cup {None, "test"}]

\* The stream of the ref is that of the recorder of the ref, until it stops.
PageOK == page \in Page /\ page.stream \in {None, page.recorder}

LeftOK == left \in [Counters -> Nat] /\ left.parts <= MaxParts

TypeInv == TypeOK /\ PageOK /\ LeftOK

-----------------------------------------------------------------------------
(* Starts: an abandoned one is over, or its request is not the last one. *)

\* No start has a later request than the page, and who has a microphone has been
\* granted it and not stopped.
RequestsOrdered ==
  /\ \A s \in Starts : At(s, "mic") => start[s].req <= page.req
  /\ \A s \in mic : start[s].pc \in {"on", "paused", "stopping"}

AbandonedUnwanted ==
  \A s \in abandoned : At(s, "over") \/ (At(s, "mic") /\ start[s].req < page.req)

StartsInv == RequestsOrdered /\ AbandonedUnwanted

-----------------------------------------------------------------------------
(* Chunks: where a chunk can be at once. *)

Names(records) == {r.chunk : r \in records}

\* The next chunk has a name of its own.
NamesFresh ==
  \A c \in writing \cup Names(stored) \cup InHand \cup erased : c[2] > left.parts

\* IndexedDB has one record per chunk; none that is there, or was, is still being
\* written.
OneRecord ==
  /\ \A q, r \in stored : q.chunk = r.chunk => q = r
  /\ writing \cap (Names(stored) \cup InHand) = {}

\* A deleted chunk is not being written, and whoever can put it back held it when
\* it was deleted.
ErasedGone == writing \cap erased = {} /\ (Names(stored) \cup InHand) \cap erased \subseteq held

ChunksInv == NamesFresh /\ OneRecord /\ ErasedGone

IInv == TypeInv /\ StartsInv /\ ChunksInv

-----------------------------------------------------------------------------
\* The bound on the chunks is one of the bounds, and the largest.
LEMMA MostParts == MaxParts \in Nat /\ \A b \in Bounds : b.parts <= MaxParts
<1> DEFINE parts == {b.parts : b \in Bounds}
<1>1. \E n \in parts : \A b \in Bounds : b.parts <= n
  BY RecordingAssumption
<1>2. MaxParts \in parts /\ \A b \in Bounds : b.parts <= MaxParts
  BY <1>1 DEF MaxParts
<1>3. parts \subseteq Nat
  BY RecordingAssumption DEF Counters
<1>4. QED
  BY <1>2, <1>3

\* Spending takes one from a counter that has one left.
LEMMA SpendOne ==
  ASSUME LeftOK, NEW what \in Counters, Spend(what)
  PROVE  /\ LeftOK' /\ left'.parts <= left.parts
         /\ what # "parts" => left'.parts = left.parts
         /\ what = "parts" => left.parts \in 1..MaxParts /\ left'.parts = left.parts - 1
<1>1. left \in [Counters -> Nat] /\ left[what] > 0 /\ left' = [left EXCEPT ![what] = @ - 1]
  BY DEF LeftOK, Spend
<1>2. left[what] - 1 \in Nat /\ "parts" \in Counters
  BY <1>1 DEF Counters
<1>3. left' \in [Counters -> Nat]
  BY <1>1, <1>2
<1>4. left'["parts"] = IF what = "parts" THEN left["parts"] - 1 ELSE left["parts"]
  BY <1>1, <1>2
<1>5. left["parts"] \in Nat /\ left["parts"] <= MaxParts /\ MaxParts \in Nat
  BY <1>1, <1>2, MostParts DEF LeftOK
<1>6. QED
  BY <1>1, <1>3, <1>4, <1>5 DEF LeftOK

Places == {"new", "consent", "mic", "on", "paused", "stopping", "stopped", "over"}
StartTypes == start \in [Starts -> [pc : Places, req : Nat]]

\* A step of one start changes its place and nothing else.
LEMMA MoveStart ==
  ASSUME StartTypes, NEW s \in Starts, NEW p \in Places, Move(s, p)
  PROVE  /\ StartTypes' /\ start'[s].pc = p /\ start'[s].req = start[s].req
         /\ \A u \in Starts : u # s => start'[u] = start[u]
BY DEF StartTypes, Move

-----------------------------------------------------------------------------
(* Types, by the part of the state they are about. *)

SetTypes ==
  /\ mic \subseteq Starts /\ abandoned \subseteq Starts
  /\ consents \subseteq Starts /\ syncing \subseteq Starts
  /\ key \in Starts \cup {None} /\ pending \in Starts \cup {None}

AudioTypes ==
  /\ memory \subseteq Chunks /\ writing \subseteq Chunks /\ aborted \subseteq Chunks
  /\ erased \subseteq Chunks /\ held \subseteq erased
  /\ stored \subseteq Records /\ confirming \subseteq Nat \X Records
  /\ deleting \subseteq Nat \X (Starts \cup {None})

\* What the refs of the hook refer to.
RefsOK ==
  /\ page.recorder # None => start[page.recorder].pc \in {"on", "paused", "stopping", "stopped"}
  /\ page.meter \in Starts => start[page.meter].pc \in {"on", "stopping"}

\* The type invariant in the parts that a step can disturb.
LEMMA TypeParts ==
  TypeInv <=> StartTypes /\ SetTypes /\ AudioTypes /\ PageOK /\ RefsOK /\ LeftOK
BY DEF TypeInv, TypeOK, StartTypes, Places, SetTypes, AudioTypes, PageOK, Page, RefsOK, LeftOK

\* A step spends from one counter at most, and from that of the chunks only to
\* record one.
LEMMA LeftStep ==
  ASSUME LeftOK, [Next]_vars
  PROVE  /\ LeftOK' /\ left'.parts <= left.parts
         /\ (\A s \in Starts : ~DataAvailable(s)) => left'.parts = left.parts
<1> DEFINE Kept == LeftOK' /\ left'.parts <= left.parts /\ left'.parts = left.parts
<1>0. UNCHANGED left => Kept
  <2>1. left.parts \in Nat
    BY DEF LeftOK, Counters
  <2>2. QED
    BY <2>1 DEF LeftOK
<1>1. ASSUME NEW what \in Counters \ {"parts"}, Spend(what) PROVE Kept
  <2>1. LeftOK' /\ left'.parts <= left.parts /\ left'.parts = left.parts
    BY <1>1, SpendOne
  <2>2. QED
    BY <2>1
<1>2. ASSUME NEW s \in Starts, ~DataAvailable(s),
             \/ ClickStart(s) \/ ConsentRecorded(s) \/ ConsentFails(s) \/ SyncAnswered(s)
             \/ MicrophoneGranted(s) \/ RecorderFails(s) \/ MicrophoneRefused(s)
             \/ DeviceLost(s) \/ RecorderStopped(s)
      PROVE  Kept
  BY <1>0, <1>1, <1>2 DEF Counters, ClickStart, ConsentRecorded, ConsentFails, SyncAnswered,
       MicrophoneGranted, RecorderFails, MicrophoneRefused, DeviceLost, RecorderStopped
<1>3. ASSUME NEW s \in Starts, DataAvailable(s) PROVE LeftOK' /\ left'.parts <= left.parts
  BY <1>3, SpendOne DEF DataAvailable, Counters
<1>4. ASSUME NEW c \in Chunks, ChunkStored(c) \/ ChunkNotStored(c) \/ ChunkAborted(c) PROVE Kept
  BY <1>0, <1>4 DEF ChunkStored, ChunkNotStored, ChunkAborted
<1>5. CASE \/ GoOffline \/ GoOnline \/ CancelRequest \/ RunInputTest \/ InputTestEnds
           \/ Pause \/ Resume \/ ClickStop \/ Leave \/ Reload
  BY <1>0, <1>1, <1>5 DEF Counters, GoOffline, GoOnline, CancelRequest, RunInputTest, InputTestEnds,
       Pause, Resume, ClickStop, Leave, Reload
<1>6. CASE ConfirmLocalChunks \/ ConfirmChunk \/ ConfirmFails \/ DeleteLocalAudio \/ LocalAudioDeleted
  BY <1>0, <1>1, <1>6 DEF Counters, ConfirmLocalChunks, ConfirmChunk, ConfirmFails,
       DeleteLocalAudio, LocalAudioDeleted
<1>7. CASE UNCHANGED vars
  BY <1>0, <1>7 DEF vars
<1>8. QED
  BY <1>2, <1>3, <1>4, <1>5, <1>6, <1>7 DEF Next

\* Every step keeps the types of the sets of chunks and of the history.
LEMMA SetTypesStep == TypeInv /\ [Next]_vars => SetTypes'
<1> SUFFICES ASSUME TypeInv, [Next]_vars PROVE SetTypes'
  OBVIOUS
<1> USE TypeParts DEF SetTypes
<1>1. ASSUME NEW s \in Starts,
             \/ ClickStart(s) \/ ConsentRecorded(s) \/ ConsentFails(s) \/ SyncAnswered(s)
             \/ MicrophoneGranted(s) \/ RecorderFails(s) \/ MicrophoneRefused(s)
             \/ DataAvailable(s) \/ DeviceLost(s) \/ RecorderStopped(s)
      PROVE  SetTypes'
  BY <1>1 DEF ClickStart, ConsentRecorded, ConsentFails, SyncAnswered, MicrophoneGranted,
       RecorderFails, MicrophoneRefused, DataAvailable, DeviceLost, RecorderStopped, audio, consent
<1>2. ASSUME NEW c \in Chunks, ChunkStored(c) \/ ChunkNotStored(c) \/ ChunkAborted(c) PROVE SetTypes'
  BY <1>2 DEF ChunkStored, ChunkNotStored, ChunkAborted, consent
<1>3. CASE \/ GoOffline \/ GoOnline \/ CancelRequest \/ RunInputTest \/ InputTestEnds
           \/ Pause \/ Resume \/ ClickStop \/ Leave \/ Reload
  BY <1>3 DEF GoOffline, GoOnline, SyncPending, CancelRequest, RunInputTest, InputTestEnds,
       Pause, Resume, ClickStop, Leave, Reload, audio, consent
<1>4. CASE ConfirmLocalChunks \/ ConfirmChunk \/ ConfirmFails \/ DeleteLocalAudio \/ LocalAudioDeleted
  BY <1>4 DEF ConfirmLocalChunks, ConfirmChunk, ConfirmFails, DeleteLocalAudio, LocalAudioDeleted,
       consent
<1>5. CASE UNCHANGED vars
  BY <1>5 DEF vars, audio, consent
<1>6. QED
  BY <1>1, <1>2, <1>3, <1>4, <1>5 DEF Next

\* Every step keeps the types of the chunks' places and of their writes.
LEMMA AudioTypesStep == TypeInv /\ [Next]_vars => AudioTypes'
<1> SUFFICES ASSUME TypeInv, [Next]_vars PROVE AudioTypes'
  OBVIOUS
<1>0. AudioTypes
  BY TypeParts
<1> USE DEF AudioTypes
<1>1. UNCHANGED audio => AudioTypes'
  BY <1>0 DEF audio
<1>2. ASSUME NEW s \in Starts, DataAvailable(s) PROVE AudioTypes'
  <2>1. left.parts \in 0..MaxParts
    BY <1>2, SpendOne, TypeParts DEF DataAvailable, Counters
  <2>2. NewChunk(s) \in Chunks
    BY <2>1 DEF NewChunk, Chunks
  <2>3. QED
    BY <1>0, <1>2, <2>2 DEF DataAvailable
<1>3. ASSUME NEW s \in Starts, MicrophoneGranted(s) \/ RecorderFails(s) PROVE AudioTypes'
  BY <1>0, <1>3 DEF MicrophoneGranted, RecorderFails
<1>4. ASSUME NEW c \in Chunks, ChunkStored(c) \/ ChunkNotStored(c) \/ ChunkAborted(c) PROVE AudioTypes'
  <2>1. \A b \in Chunks : [chunk |-> b, confirmed |-> FALSE] \in Records
    BY DEF Records
  <2>2. QED
    BY <1>0, <1>4, <2>1 DEF ChunkStored, ChunkNotStored, ChunkAborted, Put
<1>5. CASE Reload
  <2>1. PICK done \in SUBSET writing :
       stored' = {r \in stored : r.chunk \notin done}
                 \cup {[chunk |-> c, confirmed |-> FALSE] : c \in done}
    BY <1>5 DEF Reload
  <2>2. \A b \in Chunks : [chunk |-> b, confirmed |-> FALSE] \in Records
    BY DEF Records
  <2>3. stored' \subseteq Records
    BY <1>0, <2>1, <2>2
  <2>4. QED
    BY <1>0, <1>5, <2>3 DEF Reload
<1>6. CASE ConfirmLocalChunks
  <2>1. left.confirms \in Nat
    BY TypeParts DEF LeftOK, Counters
  <2>2. confirming' \subseteq Nat \X Records
    BY <1>0, <1>6, <2>1 DEF ConfirmLocalChunks
  <2>3. QED
    BY <1>0, <1>6, <2>2 DEF ConfirmLocalChunks
<1>7. CASE ConfirmChunk
  <2>1. PICK h \in confirming :
          confirming' = confirming \ {h} /\ stored' = Put([h[2] EXCEPT !.confirmed = TRUE])
    BY <1>7 DEF ConfirmChunk
  <2>2. h[2] \in Records /\ [h[2] EXCEPT !.confirmed = TRUE] \in Records
    BY <1>0 DEF Records
  <2>3. QED
    BY <1>0, <1>7, <2>1, <2>2 DEF ConfirmChunk, Put
<1>8. CASE ConfirmFails
  BY <1>0, <1>8 DEF ConfirmFails
<1>9. CASE DeleteLocalAudio
  <2>1. left.deletes \in Nat /\ page.session \in Starts \cup {None}
    BY TypeParts DEF LeftOK, Counters, PageOK, Page
  <2>2. deleting' \subseteq Nat \X (Starts \cup {None})
    BY <1>0, <1>9, <2>1 DEF DeleteLocalAudio
  <2>3. QED
    BY <1>0, <1>9, <2>2 DEF DeleteLocalAudio
<1>13. CASE LocalAudioDeleted
  <2>1. \A p : Of(p) \subseteq Chunks
    BY <1>0 DEF Of, Records
  <2>2. QED
    BY <1>0, <1>13, <2>1 DEF LocalAudioDeleted
<1>10. ASSUME NEW s \in Starts,
              \/ ClickStart(s) \/ ConsentRecorded(s) \/ ConsentFails(s) \/ SyncAnswered(s)
              \/ MicrophoneRefused(s) \/ DeviceLost(s) \/ RecorderStopped(s)
       PROVE  AudioTypes'
  BY <1>1, <1>10 DEF ClickStart, ConsentRecorded, ConsentFails, SyncAnswered, MicrophoneRefused,
       DeviceLost, RecorderStopped
<1>11. CASE \/ GoOffline \/ GoOnline \/ CancelRequest \/ RunInputTest \/ InputTestEnds
            \/ Pause \/ Resume \/ ClickStop \/ Leave \/ UNCHANGED vars
  <2>1. CASE GoOffline \/ GoOnline \/ CancelRequest \/ RunInputTest \/ InputTestEnds
    BY <1>1, <2>1 DEF GoOffline, GoOnline, CancelRequest, RunInputTest, InputTestEnds
  <2>2. CASE Pause \/ Resume \/ ClickStop \/ Leave
    BY <1>1, <2>2 DEF Pause, Resume, ClickStop, Leave
  <2>3. CASE UNCHANGED vars
    BY <1>1, <2>3 DEF vars, audio
  <2>4. QED
    BY <1>11, <2>1, <2>2, <2>3
<1>12. QED
  BY <1>2, <1>3, <1>4, <1>5, <1>6, <1>7, <1>8, <1>9, <1>10, <1>11,
     <1>13 DEF Next

-----------------------------------------------------------------------------
(* The starts and the page. *)

StartsInvAll == StartTypes /\ PageOK /\ RefsOK /\ StartsInv

\* What a step that moves no start and takes no microphone keeps.
LEMMA StartsUndisturbed ==
  ASSUME StartsInvAll, SetTypes, UNCHANGED <<start, abandoned>>, mic' \subseteq mic,
         PageOK', page'.req >= page.req, page'.recorder = page.recorder,
         page'.meter \in {None, "test", page.meter}
  PROVE  StartsInvAll'
BY RecordingAssumption
   DEF StartsInvAll, StartTypes, SetTypes, PageOK, Page, RefsOK, StartsInv, RequestsOrdered,
       AbandonedUnwanted, At

\* What a start on its way to the microphone changes.
LEMMA StartMoves ==
  ASSUME StartsInvAll, SetTypes, NEW s \in Starts, start[s].pc \in {"new", "consent", "mic"},
         StartTypes', \A u \in Starts : u # s => start'[u] = start[u],
         UNCHANGED <<mic, abandoned>>, PageOK',
         page'.recorder = page.recorder, page'.meter = page.meter, page'.req >= page.req,
         \/ start'[s].pc \in {"consent", "over"} /\ (start'[s].pc = "over" \/ start[s].pc = "new")
         \/ start[s].pc = "consent" /\ start'[s].pc = "mic" /\ start'[s].req = page'.req
  PROVE  StartsInvAll'
<1>1. RefsOK'
  BY DEF StartsInvAll, RefsOK, PageOK, Page
<1>2. RequestsOrdered'
  BY DEF StartsInvAll, StartsInv, RequestsOrdered, At, StartTypes, PageOK, Page, SetTypes
<1>3. AbandonedUnwanted'
  BY DEF StartsInvAll, StartsInv, AbandonedUnwanted, At, StartTypes, PageOK, Page, SetTypes
<1>4. QED
  BY <1>1, <1>2, <1>3 DEF StartsInvAll, StartsInv

\* What a recorder that pauses, goes on or stops changes: its microphone is off
\* when it has stopped, and the meter is not that of one that does not run.
LEMMA RecorderMoves ==
  ASSUME StartsInvAll, SetTypes, NEW s \in Starts, NEW p \in {"on", "paused", "stopping", "stopped"},
         start[s].pc \in {"on", "paused", "stopping"}, Move(s, p),
         mic' \subseteq mic, p = "stopped" => s \notin mic', abandoned' = abandoned,
         PageOK', page'.recorder = page.recorder, page'.req = page.req,
         page'.meter = page.meter \/ page'.meter = None
           \/ (page'.meter = page.recorder /\ page.recorder = s),
         page'.meter = s => p \in {"on", "stopping"}
  PROVE  StartsInvAll'
<1>1. /\ StartTypes' /\ start'[s].pc = p /\ start'[s].req = start[s].req
      /\ \A u \in Starts : u # s => start'[u] = start[u]
  BY MoveStart DEF Places, StartsInvAll
<1>2. RefsOK'
  BY <1>1, RecordingAssumption DEF StartsInvAll, RefsOK, PageOK, Page
<1>3. RequestsOrdered'
  BY <1>1 DEF StartsInvAll, StartsInv, RequestsOrdered, At, SetTypes
<1>4. s \notin abandoned
  BY DEF StartsInvAll, StartsInv, AbandonedUnwanted, At
<1>5. AbandonedUnwanted'
  BY <1>1, <1>4 DEF StartsInvAll, StartsInv, AbandonedUnwanted, At, SetTypes
<1>6. QED
  BY <1>1, <1>2, <1>3, <1>5 DEF StartsInvAll, StartsInv

\* Every step keeps the types of the starts and what the refs say of them: only
\* the last request id is wanted, and a recorder of the page is a granted start.
LEMMA StartsStep == TypeInv /\ StartsInv /\ [Next]_vars => StartsInvAll'
<1> SUFFICES ASSUME TypeInv, StartsInv, [Next]_vars PROVE StartsInvAll'
  OBVIOUS
<1>0. StartsInvAll /\ SetTypes
  BY TypeParts DEF StartsInvAll
<1>a. page \in Page /\ page.stream \in {None, page.recorder} /\ StartTypes
  BY <1>0 DEF StartsInvAll, PageOK
<1> USE RecordingAssumption
<1>1. ASSUME NEW s \in Starts, ClickStart(s) PROVE StartsInvAll'
  <2>1. start[s].pc = "new" /\ Move(s, "consent") /\ UNCHANGED <<mic, page, abandoned>>
    BY <1>1 DEF ClickStart, At
  <2>2. PageOK'
    BY <1>a, <2>1 DEF PageOK
  <2>3. QED
    BY <1>0, <1>a, <2>1, <2>2, MoveStart, StartMoves DEF Places, Page
<1>2. ASSUME NEW s \in Starts, ConsentRecorded(s) \/ ConsentFails(s) PROVE StartsInvAll'
  <2>1. start[s].pc = "consent" /\ UNCHANGED <<mic, abandoned>>
        /\ (StartRecording(s) \/ (Move(s, "over") /\ UNCHANGED page))
    BY <1>2 DEF ConsentRecorded, ConsentFails, At
  <2>2. CASE StartRecording(s)
    <3>1. page' = [page EXCEPT !.req = @ + 1, !.ui = "requesting"]
          /\ start' = [start EXCEPT ![s] = [pc |-> "mic", req |-> page.req + 1]]
      BY <2>2 DEF StartRecording
    <3>2. /\ PageOK' /\ page'.req = page.req + 1 /\ page'.recorder = page.recorder
          /\ page'.meter = page.meter /\ page.req \in Nat
      <4>1. page.req \in Nat /\ page.req + 1 \in Nat
        BY <1>a DEF Page
      <4>2. page' \in Page
        BY <1>a, <3>1, <4>1 DEF Page
      <4>3. /\ page'.req = page.req + 1 /\ page'.recorder = page.recorder
            /\ page'.meter = page.meter /\ page'.stream = page.stream
        BY <1>a, <3>1 DEF Page
      <4>4. QED
        BY <1>a, <4>1, <4>2, <4>3 DEF PageOK
    <3>3. /\ start'[s].pc = "mic" /\ start'[s].req = page'.req
          /\ \A u \in Starts : u # s => start'[u] = start[u]
      BY <1>a, <3>1, <3>2 DEF StartTypes
    <3>4. StartTypes'
      BY <1>a, <3>1, <3>2 DEF StartTypes, Places
    <3>5. QED
      BY <1>0, <2>1, <3>2, <3>3, <3>4, StartMoves
  <2>3. CASE Move(s, "over") /\ UNCHANGED page
    <3>1. PageOK'
      BY <1>a, <2>3 DEF PageOK
    <3>2. QED
      BY <1>0, <1>a, <2>1, <2>3, <3>1, MoveStart, StartMoves DEF Places, Page
  <2>4. QED
    BY <2>1, <2>2, <2>3
<1>3. ASSUME NEW s \in Starts, SyncAnswered(s) \/ DataAvailable(s) PROVE StartsInvAll'
  <2>1. UNCHANGED <<start, mic, page, abandoned>>
    BY <1>3 DEF SyncAnswered, DataAvailable
  <2>2. QED
    BY <1>0, <1>a, <2>1, StartsUndisturbed DEF PageOK, Page
\* A stream that is granted too late is stopped: who is abandoned is not wanted.
<1>4. ASSUME NEW s \in Starts, MicrophoneGranted(s) PROVE StartsInvAll'
  <2>1. CASE ~Wanted(s)
    <3>1. start[s].pc = "mic" /\ Move(s, "over") /\ UNCHANGED <<mic, page, abandoned>>
      BY <1>4, <2>1 DEF MicrophoneGranted, At
    <3>2. PageOK'
      BY <1>a, <3>1 DEF PageOK
    <3>3. QED
      BY <1>0, <1>a, <3>1, <3>2, MoveStart, StartMoves DEF Places, Page
  <2>2. CASE Wanted(s)
    <3>1. /\ start[s].pc = "mic" /\ start[s].req = page.req /\ Move(s, "on")
          /\ mic' = mic \cup {s} /\ abandoned' = abandoned
          /\ page' = StartLevelMeter([page EXCEPT !.ui = "recording", !.recorder = s,
                          !.session = s, !.mode = "indexeddb", !.stream = s], s)
      BY <1>4, <2>2 DEF MicrophoneGranted, At, Wanted
    <3>2. /\ page' \in Page /\ page'.recorder = s /\ page'.stream = s /\ page'.meter = s
          /\ page'.req = page.req
      BY <1>a, <3>1 DEF StartLevelMeter, Page
    <3>3. /\ StartTypes' /\ start'[s].pc = "on" /\ start'[s].req = start[s].req
          /\ \A u \in Starts : u # s => start'[u] = start[u]
      BY <1>a, <3>1, MoveStart DEF Places
    <3>4. PageOK' /\ RefsOK'
      BY <3>2, <3>3 DEF PageOK, RefsOK
    <3>5. s \notin abandoned
      BY <1>0, <1>a, <3>1 DEF StartsInvAll, StartsInv, AbandonedUnwanted, At, StartTypes
    <3>6. StartsInv'
      BY <1>0, <3>1, <3>2, <3>3, <3>5 DEF StartsInvAll, StartsInv, RequestsOrdered, AbandonedUnwanted,
                                          At, SetTypes
    <3>7. QED
      BY <3>3, <3>4, <3>6 DEF StartsInvAll
  <2>3. QED
    BY <2>1, <2>2
\* A recorder that does not start is one that has stopped.
<1>18. ASSUME NEW s \in Starts, RecorderFails(s) PROVE StartsInvAll'
  <2>1. /\ start[s].pc = "mic" /\ start[s].req = page.req /\ Move(s, "stopped")
        /\ mic' = mic /\ abandoned' = abandoned
        /\ page' = [page EXCEPT !.ui = "error", !.recorder = s, !.session = s,
                              !.mode = "indexeddb", !.stream = s]
    BY <1>18 DEF RecorderFails, At, Wanted
  <2>2. /\ page' \in Page /\ page'.recorder = s /\ page'.stream = s /\ page'.meter = page.meter
        /\ page'.req = page.req
    BY <1>a, <2>1 DEF Page
  <2>3. /\ StartTypes' /\ start'[s].pc = "stopped" /\ start'[s].req = start[s].req
        /\ \A u \in Starts : u # s => start'[u] = start[u]
    BY <1>a, <2>1, MoveStart DEF Places
  <2>4. PageOK'
    BY <2>2 DEF PageOK
  <2>5. page.meter # s
    BY <1>0, <2>1 DEF StartsInvAll, RefsOK
  <2>6. RefsOK'
    BY <1>0, <2>2, <2>3, <2>5 DEF StartsInvAll, RefsOK
  <2>7. s \notin abandoned /\ s \notin mic
    BY <1>0, <1>a, <2>1 DEF StartsInvAll, StartsInv, RequestsOrdered, AbandonedUnwanted, At, StartTypes
  <2>8. StartsInv'
    BY <1>0, <2>1, <2>2, <2>3, <2>7 DEF StartsInvAll, StartsInv, RequestsOrdered, AbandonedUnwanted,
                                        At, SetTypes
  <2>9. QED
    BY <2>3, <2>4, <2>6, <2>8 DEF StartsInvAll
<1>5. ASSUME NEW s \in Starts, MicrophoneRefused(s) PROVE StartsInvAll'
  <2>1. /\ start[s].pc = "mic" /\ Move(s, "over") /\ UNCHANGED <<mic, abandoned>>
        /\ page' = page \/ page' = [page EXCEPT !.ui = "error"]
    BY <1>5 DEF MicrophoneRefused, At
  <2>2. /\ PageOK' /\ page'.recorder = page.recorder /\ page'.meter = page.meter
        /\ page'.req >= page.req
    BY <1>a, <2>1 DEF PageOK, Page
  <2>3. QED
    BY <1>0, <1>a, <2>1, <2>2, MoveStart, StartMoves DEF Places
<1>6. CASE GoOffline \/ GoOnline \/ UNCHANGED vars
  <2>1. UNCHANGED <<start, mic, page, abandoned>>
    BY <1>6 DEF GoOffline, GoOnline, vars
  <2>2. QED
    BY <1>0, <1>a, <2>1, StartsUndisturbed DEF PageOK, Page
<1>7. ASSUME NEW c \in Chunks, ChunkStored(c) \/ ChunkNotStored(c) \/ ChunkAborted(c) PROVE StartsInvAll'
  <2>1. /\ UNCHANGED <<start, mic, abandoned>>
        /\ page' = page \/ page' = [page EXCEPT !.mode = "memory"]
    BY <1>7 DEF ChunkStored, ChunkNotStored, ChunkAborted
  <2>2. /\ PageOK' /\ page'.recorder = page.recorder /\ page'.meter = page.meter
        /\ page'.req >= page.req
    BY <1>a, <2>1 DEF PageOK, Page
  <2>3. QED
    BY <1>0, <2>1, <2>2, StartsUndisturbed
\* Whoever is asking for the microphone is not wanted any more.
<1>8. ASSUME mic' \subseteq mic, PageOK', page'.recorder = page.recorder, page'.req = page.req + 1,
             page'.meter \in {None, page.meter},
             abandoned' = abandoned \cup {s \in Starts : At(s, "mic")},
             \/ start' = start
             \/ \E s \in Starts : start[s].pc \in {"on", "paused"} /\ Move(s, "stopping")
      PROVE  StartsInvAll'
  <2>1. /\ StartTypes'
        /\ \A s \in Starts :
             \/ start'[s].pc = start[s].pc /\ start'[s].req = start[s].req
             \/ start[s].pc \in {"on", "paused"} /\ start'[s].pc = "stopping"
    <3>1. CASE start' = start
      BY <1>a, <3>1 DEF StartTypes
    <3>2. ASSUME NEW s \in Starts, start[s].pc \in {"on", "paused"}, Move(s, "stopping")
          PROVE  /\ StartTypes'
                 /\ \A u \in Starts :
                      \/ start'[u].pc = start[u].pc /\ start'[u].req = start[u].req
                      \/ start[u].pc \in {"on", "paused"} /\ start'[u].pc = "stopping"
      <4>1. /\ StartTypes' /\ start'[s].pc = "stopping"
            /\ \A u \in Starts : u # s => start'[u] = start[u]
        BY <1>a, <3>2, MoveStart DEF Places
      <4>2. QED
        BY <3>2, <4>1
    <3>3. QED
      BY <1>8, <3>1, <3>2
  <2>2. RefsOK'
    BY <1>0, <1>a, <1>8, <2>1 DEF StartsInvAll, RefsOK, Page
  <2>3. RequestsOrdered'
    BY <1>0, <1>a, <1>8, <2>1 DEF StartsInvAll, StartsInv, RequestsOrdered, At, Page, StartTypes, SetTypes
  <2>4. AbandonedUnwanted'
    BY <1>0, <1>a, <1>8, <2>1
       DEF StartsInvAll, StartsInv, RequestsOrdered, AbandonedUnwanted, At, Page, StartTypes, SetTypes
  <2>5. QED
    BY <1>8, <2>1, <2>2, <2>3, <2>4 DEF StartsInvAll, StartsInv
<1>9. CASE CancelRequest
  <2>1. /\ PageOK' /\ page'.recorder = page.recorder /\ page'.req = page.req + 1
        /\ page'.meter = page.meter
    <3>1. page.req \in Nat /\ page.req + 1 \in Nat
      BY <1>a DEF Page
    <3>2. page' = [page EXCEPT !.ui = "idle", !.req = @ + 1]
      BY <1>9 DEF CancelRequest
    <3>3. page' \in Page
      BY <1>a, <3>1, <3>2 DEF Page
    <3>4. /\ page'.req = page.req + 1 /\ page'.recorder = page.recorder
          /\ page'.meter = page.meter /\ page'.stream = page.stream
      BY <1>a, <3>2 DEF Page
    <3>5. QED
      BY <1>a, <3>3, <3>4 DEF PageOK
  <2>2. QED
    BY <1>8, <1>9, <2>1 DEF CancelRequest
<1>10. CASE Leave
  <2>1. /\ PageOK' /\ page'.recorder = page.recorder /\ page'.req = page.req + 1
        /\ page'.meter = None
    <3>1. page.req \in Nat /\ page.req + 1 \in Nat
      BY <1>a DEF Page
    <3>2. page' = StopLevelMeter([page EXCEPT !.shown = FALSE, !.req = @ + 1, !.test = "idle"])
      BY <1>10 DEF Leave
    <3>3. page' \in Page
      BY <1>a, <3>1, <3>2 DEF Page, StopLevelMeter
    <3>4. /\ page'.req = page.req + 1 /\ page'.recorder = page.recorder
          /\ page'.meter = None /\ page'.stream = page.stream
      BY <1>a, <3>2 DEF Page, StopLevelMeter
    <3>5. QED
      BY <1>a, <3>3, <3>4 DEF PageOK
  <2>2. \/ start' = start
        \/ \E s \in Starts : start[s].pc \in {"on", "paused"} /\ Move(s, "stopping")
    BY <1>10, <1>a DEF Leave, Running, Page
  <2>3. QED
    BY <1>8, <1>10, <2>1, <2>2 DEF Leave
<1>11. CASE RunInputTest \/ InputTestEnds
  <2>1. /\ UNCHANGED <<start, mic, abandoned>>
        /\ \/ page' = [page EXCEPT !.test = "running", !.meter = "test"]
           \/ page' = [page EXCEPT !.test = "idle", !.meter = None]
    BY <1>11, <1>a DEF RunInputTest, InputTestEnds, StartLevelMeter, StopLevelMeter, Page
  <2>2. /\ PageOK' /\ page'.recorder = page.recorder /\ page'.meter \in {None, "test"}
        /\ page'.req >= page.req
    <3>1. page' \in Page
      BY <1>a, <2>1 DEF Page
    <3>2. /\ page'.req = page.req /\ page'.recorder = page.recorder
          /\ page'.meter \in {None, "test"} /\ page'.stream = page.stream
      BY <1>a, <2>1 DEF Page
    <3>3. page.req \in Nat
      BY <1>a DEF Page
    <3>4. QED
      BY <1>a, <3>1, <3>2, <3>3 DEF PageOK
  <2>3. QED
    BY <1>0, <2>1, <2>2, StartsUndisturbed
<1>12. CASE Pause \/ Resume \/ ClickStop
  <2> DEFINE s == page.recorder
  <2>1. CASE Pause
    <3>1. /\ PageOK' /\ page'.recorder = page.recorder /\ page'.req = page.req /\ page'.meter = None
      BY <1>a, <2>1 DEF Pause, StopLevelMeter, PageOK, Page
    <3>2. s \in Starts /\ start[s].pc = "on" /\ Move(s, "paused") /\ UNCHANGED <<mic, abandoned>>
      BY <1>a, <2>1 DEF Pause, At, Page
    <3>3. QED
      BY <1>0, <3>1, <3>2, RecorderMoves
  <2>2. CASE Resume
    <3>1. /\ PageOK' /\ page'.recorder = page.recorder /\ page'.req = page.req
          /\ page'.meter \in {None, page.recorder}
      BY <1>a, <2>2 DEF Resume, StartLevelMeter, PageOK, Page
    <3>2. s \in Starts /\ start[s].pc = "paused" /\ Move(s, "on") /\ UNCHANGED <<mic, abandoned>>
      BY <1>a, <2>2 DEF Resume, At, Page
    <3>3. QED
      BY <1>0, <3>1, <3>2, RecorderMoves
  <2>3. CASE ClickStop
    <3>1. /\ PageOK' /\ page'.recorder = page.recorder /\ page'.req = page.req
          /\ page'.meter = page.meter
      BY <1>a, <2>3 DEF ClickStop, PageOK
    <3>2. /\ s \in Starts /\ start[s].pc \in {"on", "paused"} /\ Move(s, "stopping")
          /\ UNCHANGED <<mic, abandoned>>
      BY <1>a, <2>3 DEF ClickStop, Running, Page
    <3>3. QED
      BY <1>0, <3>1, <3>2, RecorderMoves
  <2>4. QED
    BY <1>12, <2>1, <2>2, <2>3
<1>13. ASSUME NEW s \in Starts, DeviceLost(s) PROVE StartsInvAll'
  <2>1. /\ start[s].pc \in {"on", "paused"} /\ Move(s, "stopping") /\ mic' = mic \ {s}
        /\ UNCHANGED <<page, abandoned>>
    BY <1>13 DEF DeviceLost, Running
  <2>2. PageOK'
    BY <1>a, <2>1 DEF PageOK
  <2>3. QED
    BY <1>0, <2>1, <2>2, RecorderMoves
<1>14. ASSUME NEW s \in Starts, RecorderStopped(s) PROVE StartsInvAll'
  <2>1. /\ start[s].pc = "stopping" /\ Move(s, "stopped") /\ mic' = mic \ {s}
        /\ UNCHANGED abandoned
        /\ page' = StopLevelMeter([page EXCEPT !.ui = "stopped", !.stream = None])
    BY <1>14 DEF RecorderStopped, At
  <2>2. PageOK' /\ page'.recorder = page.recorder /\ page'.req = page.req /\ page'.meter = None
    BY <1>a, <2>1 DEF PageOK, StopLevelMeter, Page
  <2>3. QED
    BY <1>0, <2>1, <2>2, RecorderMoves
<1>15. CASE Reload
  <2>1. /\ page' = [FirstPage EXCEPT !.session = key] /\ mic' = {} /\ abandoned' = abandoned
        /\ start' = [s \in Starts |-> IF At(s, "new") THEN start[s] ELSE [pc |-> "over", req |-> 0]]
        /\ key \in Starts \cup {None}
    BY <1>0, <1>15 DEF Reload, SetTypes
  <2>2. PageOK' /\ page'.recorder = None /\ page'.meter = None
    BY <2>1 DEF PageOK, Page, FirstPage
  <2>3. StartTypes'
    BY <1>a, <2>1 DEF StartTypes, Places
  <2>4. \A s \in Starts : start'[s].pc = "new" \/ start'[s].pc = "over"
    BY <2>1 DEF At
  <2>5. \A s \in abandoned : s \in Starts /\ start[s].pc # "new"
    BY <1>0 DEF SetTypes, StartsInvAll, StartsInv, AbandonedUnwanted, At
  <2>6. StartsInv' /\ RefsOK'
    BY <2>1, <2>2, <2>4, <2>5 DEF StartsInv, RequestsOrdered, AbandonedUnwanted, At, RefsOK
  <2>7. QED
    BY <2>2, <2>3, <2>6 DEF StartsInvAll
<1>16. CASE ConfirmLocalChunks \/ ConfirmChunk \/ ConfirmFails \/ DeleteLocalAudio \/ LocalAudioDeleted
  <2>1. UNCHANGED <<start, mic, page, abandoned>>
    BY <1>16 DEF ConfirmLocalChunks, ConfirmChunk, ConfirmFails, DeleteLocalAudio, LocalAudioDeleted
  <2>2. QED
    BY <1>0, <1>a, <2>1, StartsUndisturbed DEF PageOK, Page
<1>17. QED
  BY <1>1, <1>2, <1>3, <1>4, <1>5, <1>6, <1>7, <1>9, <1>10, <1>11, <1>12, <1>13, <1>14, <1>15,
     <1>16, <1>18 DEF Next

-----------------------------------------------------------------------------
(* The chunks. *)

LEMMA ChunksStep == TypeInv /\ ChunksInv /\ [Next]_vars => ChunksInv'
<1> SUFFICES ASSUME TypeInv, ChunksInv, [Next]_vars PROVE ChunksInv'
  OBVIOUS
<1> DEFINE Kept == <<writing, stored, confirming, erased, held>>
<1>0. AudioTypes /\ LeftOK
  BY TypeParts
<1>a. /\ left.parts \in Nat /\ left'.parts \in Nat /\ left'.parts <= left.parts
      /\ \A c \in Chunks : c[2] \in Nat
  BY <1>0, LeftStep, MostParts DEF LeftOK, Counters, Chunks
<1>b. \A c \in writing \cup Names(stored) \cup InHand \cup erased :
        c \in Chunks /\ c[2] > left'.parts
  <2>1. writing \cup Names(stored) \cup InHand \cup erased \subseteq Chunks
    BY <1>0 DEF AudioTypes, Names, InHand, Records
  <2>2. QED
    BY <1>a, <2>1 DEF ChunksInv, NamesFresh
<1>1. ASSUME UNCHANGED Kept PROVE ChunksInv'
  BY <1>1, <1>b DEF ChunksInv, NamesFresh, OneRecord, ErasedGone, Names, InHand
<1>2. ASSUME NEW s \in Starts,
             \/ ClickStart(s) \/ ConsentRecorded(s) \/ ConsentFails(s) \/ SyncAnswered(s)
             \/ MicrophoneGranted(s) \/ RecorderFails(s) \/ MicrophoneRefused(s)
             \/ DeviceLost(s) \/ RecorderStopped(s)
      PROVE  ChunksInv'
  BY <1>1, <1>2 DEF ClickStart, ConsentRecorded, ConsentFails, SyncAnswered, MicrophoneGranted,
       RecorderFails, MicrophoneRefused, DeviceLost, RecorderStopped, audio
<1>3. CASE \/ GoOffline \/ GoOnline \/ CancelRequest \/ RunInputTest \/ InputTestEnds
           \/ Pause \/ Resume \/ ClickStop \/ Leave \/ DeleteLocalAudio \/ UNCHANGED vars
  <2>1. CASE GoOffline \/ GoOnline \/ CancelRequest \/ RunInputTest \/ InputTestEnds
    BY <1>1, <2>1 DEF GoOffline, GoOnline, CancelRequest, RunInputTest, InputTestEnds, audio
  <2>2. CASE Pause \/ Resume \/ ClickStop \/ Leave \/ DeleteLocalAudio
    BY <1>1, <2>2 DEF Pause, Resume, ClickStop, Leave, DeleteLocalAudio, audio
  <2>3. CASE UNCHANGED vars
    BY <1>1, <2>3 DEF vars, audio
  <2>4. QED
    BY <1>3, <2>1, <2>2, <2>3
\* A new chunk has the next name, which nothing has yet.
<1>4. ASSUME NEW s \in Starts, DataAvailable(s) PROVE ChunksInv'
  <2>1. /\ writing' = writing \cup {NewChunk(s)}
        /\ UNCHANGED <<stored, confirming, erased, held>>
        /\ left'.parts = left.parts - 1
    BY <1>0, <1>4, SpendOne DEF DataAvailable, Counters
  <2>2. NewChunk(s)[2] = left.parts /\ left.parts > left'.parts
    BY <1>a, <2>1 DEF NewChunk
  <2>3. NewChunk(s) \notin Names(stored) \cup InHand \cup erased
    BY <1>a, <2>2 DEF ChunksInv, NamesFresh
  <2>4. Names(stored') = Names(stored) /\ InHand' = InHand
    BY <2>1 DEF Names, InHand
  <2>5. NamesFresh'
    BY <1>b, <2>1, <2>2, <2>4 DEF NamesFresh
  <2>6. OneRecord'
    BY <2>1, <2>3, <2>4 DEF ChunksInv, OneRecord
  <2>7. ErasedGone'
    BY <2>1, <2>3, <2>4 DEF ChunksInv, ErasedGone
  <2>8. QED
    BY <2>5, <2>6, <2>7 DEF ChunksInv
\* What is being written is not deleted: it was not in IndexedDB then.
<1>5. ASSUME NEW c \in Chunks, ChunkStored(c) PROVE ChunksInv'
  <2> DEFINE new == [chunk |-> c, confirmed |-> FALSE]
  <2>1. /\ c \in writing /\ writing' = writing \ {c}
        /\ stored' = {q \in stored : q.chunk # c} \cup {new} /\ new.chunk = c
        /\ UNCHANGED <<confirming, erased, held>>
    BY <1>5 DEF ChunkStored, Put
  <2> HIDE DEF new
  <2>2. Names(stored') \subseteq Names(stored) \cup {c} /\ InHand' = InHand
    BY <2>1 DEF Names, InHand
  <2>3. c \notin erased /\ c \notin Names(stored) \cup InHand
    BY <2>1 DEF ChunksInv, OneRecord, ErasedGone
  <2>4. NamesFresh'
    BY <1>b, <2>1, <2>2 DEF NamesFresh
  <2>5. OneRecord'
    BY <2>1, <2>2, <2>3 DEF ChunksInv, OneRecord
  <2>6. ErasedGone'
    BY <2>1, <2>2, <2>3 DEF ChunksInv, ErasedGone
  <2>7. QED
    BY <2>4, <2>5, <2>6 DEF ChunksInv
<1>6. ASSUME NEW c \in Chunks, ChunkNotStored(c) \/ ChunkAborted(c) PROVE ChunksInv'
  <2>1. writing' \subseteq writing /\ UNCHANGED <<stored, confirming, erased, held>>
    BY <1>6 DEF ChunkNotStored, ChunkAborted
  <2>2. NamesFresh'
    BY <1>b, <2>1 DEF NamesFresh, Names, InHand
  <2>3. OneRecord' /\ ErasedGone'
    BY <2>1 DEF ChunksInv, OneRecord, ErasedGone, Names, InHand
  <2>4. QED
    BY <2>2, <2>3 DEF ChunksInv
<1>7. CASE Reload
  <2>1. PICK done \in SUBSET writing :
       stored' = {r \in stored : r.chunk \notin done}
                 \cup {[chunk |-> c, confirmed |-> FALSE] : c \in done}
    BY <1>7 DEF Reload
  <2>2. writing' = {} /\ confirming' = {} /\ UNCHANGED <<erased, held>>
    BY <1>7 DEF Reload
  <2>3. \A r \in stored' : \/ r \in stored
                           \/ r.chunk \in writing /\ r = [chunk |-> r.chunk, confirmed |-> FALSE]
    BY <2>1
  <2>4. \A r \in stored : r.chunk \notin writing
    BY DEF ChunksInv, OneRecord, Names
  <2>5. Names(stored') \subseteq Names(stored) \cup writing /\ InHand' = {}
    BY <2>2, <2>3 DEF Names, InHand
  <2>6. NamesFresh'
    BY <1>b, <2>2, <2>5 DEF NamesFresh
  <2>7. \A q, r \in stored' : q.chunk = r.chunk => q = r
    BY <2>3, <2>4 DEF ChunksInv, OneRecord
  <2>8. OneRecord'
    BY <2>2, <2>7 DEF OneRecord
  <2>9. ErasedGone'
    BY <2>2, <2>5 DEF ChunksInv, ErasedGone
  <2>10. QED
    BY <2>6, <2>8, <2>9 DEF ChunksInv
<1>8. CASE ConfirmLocalChunks \/ ConfirmFails
  <2>1. UNCHANGED <<writing, stored, erased, held>> /\ InHand' \subseteq InHand \cup Names(stored)
    BY <1>8 DEF ConfirmLocalChunks, ConfirmFails, InHand, Names
  <2>2. NamesFresh'
    BY <1>b, <2>1 DEF NamesFresh, Names
  <2>3. OneRecord' /\ ErasedGone'
    BY <2>1 DEF ChunksInv, OneRecord, ErasedGone, Names
  <2>4. QED
    BY <2>2, <2>3 DEF ChunksInv
\* What is put back was held: it is not being written, and if it was deleted it
\* was held then.
<1>9. CASE ConfirmChunk
  <2>1. PICK h \in confirming :
          confirming' = confirming \ {h} /\ stored' = Put([h[2] EXCEPT !.confirmed = TRUE])
    BY <1>9 DEF ConfirmChunk
  <2> DEFINE c == h[2].chunk
  <2> DEFINE new == [h[2] EXCEPT !.confirmed = TRUE]
  <2>2. new.chunk = c /\ c \in InHand
    BY <1>0, <2>1 DEF AudioTypes, Records, InHand
  <2> HIDE DEF new
  <2>3. /\ stored' = {q \in stored : q.chunk # c} \cup {new}
        /\ UNCHANGED <<writing, erased, held>>
    BY <1>9, <2>1, <2>2 DEF ConfirmChunk, Put, new
  <2> HIDE DEF c
  <2>4. InHand' \subseteq InHand /\ Names(stored') \subseteq Names(stored) \cup InHand
    BY <2>1, <2>2, <2>3 DEF Names, InHand
  <2>5. NamesFresh'
    BY <1>b, <2>3, <2>4 DEF NamesFresh
  <2>6. \A q, r \in stored' : q.chunk = r.chunk => q = r
    BY <2>2, <2>3 DEF ChunksInv, OneRecord
  <2>7. OneRecord'
    BY <2>3, <2>4, <2>6 DEF ChunksInv, OneRecord
  <2>8. ErasedGone'
    BY <2>3, <2>4 DEF ChunksInv, ErasedGone
  <2>9. QED
    BY <2>5, <2>7, <2>8 DEF ChunksInv
<1>11. CASE LocalAudioDeleted
  <2>1. PICK d \in deleting :
          \/ /\ stored' = {r \in stored : r.chunk \notin Of(d[2])}
             /\ erased' = erased \cup Of(d[2]) /\ held' = held \cup (Of(d[2]) \cap InHand)
          \/ UNCHANGED <<stored, erased, held>>
    BY <1>11 DEF LocalAudioDeleted
  <2>2. UNCHANGED <<writing, confirming>> /\ InHand' = InHand /\ Of(d[2]) \subseteq Names(stored)
    BY <1>11 DEF LocalAudioDeleted, InHand, Of, Names
  <2>3. Names(stored') \subseteq Names(stored) /\ stored' \subseteq stored
    BY <2>1 DEF Names
  <2>4. \/ /\ Names(stored') \cap Of(d[2]) = {}
           /\ erased' = erased \cup Of(d[2]) /\ held' = held \cup (Of(d[2]) \cap InHand)
        \/ UNCHANGED <<erased, held>>
    BY <2>1 DEF Names
  <2>5. NamesFresh'
    BY <1>b, <2>2, <2>3, <2>4 DEF NamesFresh
  <2>6. OneRecord'
    BY <2>2, <2>3 DEF ChunksInv, OneRecord
  <2>7. ErasedGone'
    BY <2>2, <2>3, <2>4 DEF ChunksInv, OneRecord, ErasedGone
  <2>8. QED
    BY <2>5, <2>6, <2>7 DEF ChunksInv
<1>12. QED
  BY <1>2, <1>3, <1>4, <1>5, <1>6, <1>7, <1>8, <1>9, <1>11 DEF Next

-----------------------------------------------------------------------------
(* The theorems. *)

LEMMA InitTypes == Init => TypeInv /\ StartsInv /\ ChunksInv
<1> SUFFICES ASSUME Init PROVE TypeInv /\ StartsInv /\ ChunksInv
  OBVIOUS
<1>1. LeftOK
  BY RecordingAssumption, MostParts DEF Init, LeftOK
<1>2. PageOK
  BY RecordingAssumption DEF Init, PageOK, Page, FirstPage
<1>3. RefsOK
  BY RecordingAssumption DEF Init, RefsOK, FirstPage
<1>4. StartTypes /\ SetTypes /\ AudioTypes
  BY DEF Init, StartTypes, SetTypes, AudioTypes, Places
<1>5. StartsInv
  BY DEF Init, StartsInv, RequestsOrdered, AbandonedUnwanted, At
<1>6. ChunksInv
  BY DEF Init, ChunksInv, NamesFresh, OneRecord, ErasedGone, Names, InHand
<1>7. QED
  BY <1>1, <1>2, <1>3, <1>4, <1>5, <1>6, TypeParts

\* Types and starts go together: a recorder of the page is a granted start.
THEOREM RecordingCorrect == Spec => [](TypeInv /\ StartsInv)
<1>1. TypeInv /\ StartsInv /\ [Next]_vars => (TypeInv /\ StartsInv)'
  <2> SUFFICES ASSUME TypeInv, StartsInv, [Next]_vars PROVE (TypeInv /\ StartsInv)'
    OBVIOUS
  <2>1. SetTypes' /\ AudioTypes' /\ StartsInvAll' /\ LeftOK'
    BY SetTypesStep, AudioTypesStep, StartsStep, LeftStep, TypeParts
  <2>2. TypeInv'
    BY <2>1
       DEF TypeInv, TypeOK, StartTypes, Places, SetTypes, AudioTypes, PageOK, Page, RefsOK, LeftOK,
           StartsInvAll
  <2>3. QED
    BY <2>1, <2>2 DEF StartsInvAll
<1>2. QED
  BY <1>1, InitTypes, PTL DEF Spec

\* Every variable keeps its type, and the refs of the hook name what runs.
THEOREM TypeCorrect == Spec => []TypeOK
BY RecordingCorrect, PTL DEF TypeInv

\* A start that the user cancelled, or left behind with the page, while the
\* browser was asking for the microphone never records: its request id is not
\* the last one any more, which is what startRecording compares.
THEOREM NoAbandonedRecording == Spec => []AbandonedNeverRecords
<1>1. StartsInv => AbandonedNeverRecords
  BY DEF StartsInv, RequestsOrdered, AbandonedUnwanted, AbandonedNeverRecords, At
<1>2. QED
  BY <1>1, RecordingCorrect, PTL

\* A chunk has one record, none is written that is there, and a deleted one is
\* in no hand but those that held it then.
THEOREM ChunksCorrect == Spec => []ChunksInv
BY InitTypes, ChunksStep, RecordingCorrect, PTL DEF Spec

\* A chunk that the user has deleted never comes back from a write, or from a
\* confirmLocalChunks that had not read it before.
THEOREM DeletionIsFinal == Spec => []DeletedStaysDeleted
<1>1. ChunksInv => DeletedStaysDeleted
  BY DEF ChunksInv, ErasedGone, DeletedStaysDeleted, Names
<1>2. QED
  BY <1>1, ChunksCorrect, PTL

\* What the panel says of IndexedDB is true of what is in memory, but for chunks
\* whose transaction was aborted: a chunk leaves `writing' only into IndexedDB,
\* with the mode set to memory, or by that abort, and no deletion, confirmation
\* or new recording leaves it in memory alone.
THEOREM StorageModeCorrect == Spec => []StorageModeHonest
<1>1. Init => StorageModeHonest
  BY DEF Init, StorageModeHonest
<1>2. TypeInv /\ StorageModeHonest /\ [Next]_vars => StorageModeHonest'
  <2> SUFFICES ASSUME TypeInv, StorageModeHonest, [Next]_vars PROVE StorageModeHonest'
    OBVIOUS
  <2>0. page \in Page
    BY DEF TypeInv, PageOK
  <2> DEFINE kept == memory \subseteq Names(stored) \cup writing \cup aborted
  <2>a. StorageModeHonest <=> (page.mode = "indexeddb" => kept)
    BY DEF StorageModeHonest, Names
  <2>b. StorageModeHonest' <=> (page'.mode = "indexeddb" => kept')
    BY DEF StorageModeHonest, Names
  <2>c. memory' = {} => StorageModeHonest'
    BY <2>b
  <2>d. UNCHANGED <<memory, writing, aborted, stored>> /\ page'.mode = page.mode => StorageModeHonest'
    BY <2>a, <2>b DEF Names
  <2>1. ASSUME NEW s \in Starts,
               ClickStart(s) \/ ConsentRecorded(s) \/ ConsentFails(s) \/ SyncAnswered(s)
        PROVE  StorageModeHonest'
    <3>1. UNCHANGED <<memory, writing, aborted, stored>> /\ page'.mode = page.mode
      BY <2>0, <2>1 DEF ClickStart, ConsentRecorded, ConsentFails, StartRecording, SyncAnswered,
                        audio, Page
    <3>2. QED
      BY <3>1, <2>d
  <2>2. ASSUME NEW s \in Starts, MicrophoneGranted(s) \/ RecorderFails(s)
        PROVE  StorageModeHonest'
    BY <2>2, <2>0, <2>c, <2>d DEF MicrophoneGranted, RecorderFails, Page
  <2>3. ASSUME NEW s \in Starts, MicrophoneRefused(s) \/ DeviceLost(s) \/ RecorderStopped(s)
        PROVE  StorageModeHonest'
    <3>1. UNCHANGED <<memory, writing, aborted, stored>> /\ page'.mode = page.mode
      BY <2>0, <2>3 DEF MicrophoneRefused, DeviceLost, RecorderStopped, StopLevelMeter, audio, Page
    <3>2. QED
      BY <3>1, <2>d
  <2>4. ASSUME NEW s \in Starts, DataAvailable(s) PROVE StorageModeHonest'
    BY <2>4, <2>a, <2>b DEF DataAvailable, Names
  <2>5. ASSUME NEW c \in Chunks, ChunkStored(c) PROVE StorageModeHonest'
    <3> DEFINE new == [chunk |-> c, confirmed |-> FALSE]
    <3>1. /\ writing' = writing \ {c} /\ UNCHANGED <<memory, aborted, page>>
          /\ stored' = {q \in stored : q.chunk # c} \cup {new} /\ new.chunk = c
      BY <2>5 DEF ChunkStored, Put
    <3> HIDE DEF new
    <3>2. Names(stored) \cup {c} \subseteq Names(stored')
      BY <3>1 DEF Names
    <3>3. QED
      BY <3>1, <3>2, <2>a, <2>b DEF Names
  <2>6. ASSUME NEW c \in Chunks, ChunkNotStored(c) \/ ChunkAborted(c) PROVE StorageModeHonest'
    <3>1. CASE ChunkNotStored(c)
      BY <3>1, <2>0, <2>b DEF ChunkNotStored, Page
    <3>2. CASE ChunkAborted(c)
      BY <3>2, <2>a, <2>b DEF ChunkAborted, Names
    <3>3. QED
      BY <2>6, <3>1, <3>2
  <2>7. CASE GoOffline \/ GoOnline \/ CancelRequest \/ RunInputTest \/ InputTestEnds
    <3>1. UNCHANGED <<memory, writing, aborted, stored>> /\ page'.mode = page.mode
      BY <2>0, <2>7 DEF GoOffline, GoOnline, CancelRequest, RunInputTest, InputTestEnds,
                        StartLevelMeter, StopLevelMeter, audio, Page
    <3>2. QED
      BY <3>1, <2>d
  <2>8. CASE Pause \/ Resume \/ ClickStop \/ Leave \/ UNCHANGED vars
    <3>1. UNCHANGED <<memory, writing, aborted, stored>> /\ page'.mode = page.mode
      BY <2>0, <2>8 DEF Pause, Resume, ClickStop, Leave, StartLevelMeter, StopLevelMeter, vars,
                        audio, Page
    <3>2. QED
      BY <3>1, <2>d
  <2>9. CASE Reload \/ LocalAudioDeleted
    BY <2>9, <2>c DEF Reload, LocalAudioDeleted
  <2>10. CASE ConfirmLocalChunks \/ ConfirmFails \/ DeleteLocalAudio
    BY <2>10, <2>d DEF ConfirmLocalChunks, ConfirmFails, DeleteLocalAudio
  \* Putting a record back removes only the one it replaces.
  <2>11. CASE ConfirmChunk
    <3>1. PICK h \in confirming : stored' = Put([h[2] EXCEPT !.confirmed = TRUE])
      BY <2>11 DEF ConfirmChunk
    <3> DEFINE new == [h[2] EXCEPT !.confirmed = TRUE]
    <3>2. new.chunk = h[2].chunk
      BY TypeParts DEF AudioTypes, Records
    <3> HIDE DEF new
    <3>3. stored' = {q \in stored : q.chunk # h[2].chunk} \cup {new}
      BY <3>1, <3>2 DEF Put, new
    <3>4. Names(stored) \subseteq Names(stored')
      BY <3>2, <3>3 DEF Names
    <3>5. UNCHANGED <<memory, writing, aborted, page>>
      BY <2>11 DEF ConfirmChunk
    <3>6. QED
      BY <3>4, <3>5, <2>a, <2>b DEF Names
  <2>12. QED
    BY <2>1, <2>2, <2>3, <2>4, <2>5, <2>6, <2>7, <2>8, <2>9, <2>10, <2>11 DEF Next
<1>3. QED
  BY <1>1, <1>2, RecordingCorrect, PTL DEF Spec

\* Once a microphone has been asked for, some consent of this meeting is on the
\* server, or one waits in the browser: a pending one is removed only when the
\* server has recorded one, and recorded ones stay.
THEOREM ConsentIsKept == Spec => []ConsentKnown
<1> DEFINE asked == mic # {} \/ \E s \in Starts : At(s, "mic")
<1> DEFINE known == consents # {} \/ pending # None
<1>1. Init => ConsentKnown
  BY DEF Init, ConsentKnown, At
<1>2. TypeInv /\ ConsentKnown /\ [Next]_vars => ConsentKnown'
  <2> SUFFICES ASSUME TypeInv, ConsentKnown, [Next]_vars PROVE ConsentKnown'
    OBVIOUS
  <2>0. StartTypes /\ page \in Page
    BY TypeParts DEF PageOK
  <2>a. ConsentKnown <=> (asked => known)
    BY DEF ConsentKnown
  <2>b. ConsentKnown' <=> (asked' => known')
    BY DEF ConsentKnown
  <2> HIDE DEF asked, known
  <2>c. known' => ConsentKnown'
    BY <2>b
  <2>d. UNCHANGED <<consents, pending>> /\ (asked' => asked) => ConsentKnown'
    BY <2>a, <2>b DEF known
  <2>e. UNCHANGED <<start, mic>> => (asked' <=> asked)
    BY DEF asked, At
  \* No start begins to ask, and no microphone is taken that is not asked for.
  <2>f. ASSUME NEW s \in Starts, NEW p \in Places \ {"mic"}, Move(s, p), mic' \subseteq mic
        PROVE  asked' => asked
    <3>1. \A u \in Starts : start'[u].pc = "mic" => start[u].pc = "mic"
      BY <2>0, <2>f, MoveStart
    <3>2. QED
      BY <2>f, <3>1 DEF asked, At
  <2>1. ASSUME NEW s \in Starts, ClickStart(s) PROVE ConsentKnown'
    BY <2>1, <2>d, <2>f DEF ClickStart, consent, Places
  <2>2. ASSUME NEW s \in Starts, ConsentRecorded(s) PROVE ConsentKnown'
    BY <2>2, <2>c DEF ConsentRecorded, known
  \* Online the start is over; offline the consent is kept before it goes on.
  <2>3. ASSUME NEW s \in Starts, ConsentFails(s) PROVE ConsentKnown'
    <3>1. CASE online
      <4>1. Move(s, "over") /\ mic' = mic /\ pending' = pending /\ consents \subseteq consents'
        BY <2>3, <3>1 DEF ConsentFails
      <4>2. asked' => asked
        BY <4>1, <2>f DEF Places
      <4>3. QED
        BY <2>a, <2>b, <4>1, <4>2 DEF known
    <3>2. CASE ~online
      BY <2>3, <2>c, <3>2, RecordingAssumption DEF ConsentFails, known
    <3>3. QED
      BY <3>1, <3>2
  <2>4. ASSUME NEW s \in Starts, SyncAnswered(s) PROVE ConsentKnown'
    <3>1. UNCHANGED <<start, mic>>
      BY <2>4 DEF SyncAnswered
    <3>2. known => known'
      BY <2>4 DEF SyncAnswered, known
    <3>3. QED
      BY <2>a, <2>b, <2>e, <3>1, <3>2
  <2>5. ASSUME NEW s \in Starts, MicrophoneGranted(s) \/ RecorderFails(s) PROVE ConsentKnown'
    <3>1. asked
      BY <2>5 DEF MicrophoneGranted, RecorderFails, asked
    <3>2. known' = known
      BY <2>5 DEF MicrophoneGranted, RecorderFails, consent, known
    <3>3. QED
      BY <2>a, <2>c, <3>1, <3>2
  <2>6. ASSUME NEW s \in Starts, MicrophoneRefused(s) \/ DeviceLost(s) \/ RecorderStopped(s)
        PROVE  ConsentKnown'
    <3>1. /\ UNCHANGED <<consents, pending>> /\ mic' \subseteq mic
          /\ \E p \in {"over", "stopping", "stopped"} : Move(s, p)
      BY <2>6 DEF MicrophoneRefused, DeviceLost, RecorderStopped, consent
    <3>2. QED
      BY <2>d, <2>f, <3>1 DEF Places
  <2>7. ASSUME NEW s \in Starts, DataAvailable(s) PROVE ConsentKnown'
    BY <2>7, <2>d, <2>e DEF DataAvailable, consent
  <2>8. ASSUME NEW c \in Chunks, ChunkStored(c) \/ ChunkNotStored(c) \/ ChunkAborted(c) PROVE ConsentKnown'
    BY <2>8, <2>d, <2>e DEF ChunkStored, ChunkNotStored, ChunkAborted, consent
  <2>9. CASE GoOffline \/ GoOnline \/ CancelRequest \/ RunInputTest \/ InputTestEnds
    BY <2>9, <2>d, <2>e DEF GoOffline, GoOnline, CancelRequest, RunInputTest, InputTestEnds, consent
  <2>10. CASE Pause \/ Resume \/ ClickStop
    <3>1. /\ UNCHANGED <<mic, consents, pending>> /\ page.recorder \in Starts
          /\ \E p \in {"paused", "on", "stopping"} : Move(page.recorder, p)
      BY <2>0, <2>10 DEF Pause, Resume, ClickStop, consent, Page
    <3>2. QED
      BY <2>d, <2>f, <3>1 DEF Places
  <2>11. CASE Leave
    <3>1. UNCHANGED <<consents, pending>> /\ mic' \subseteq mic
      BY <2>11 DEF Leave, consent
    <3>2. asked' => asked
      <4>1. CASE start' = start
        BY <3>1, <4>1 DEF asked, At
      <4>2. CASE page.recorder \in Starts /\ Move(page.recorder, "stopping")
        BY <2>f, <3>1, <4>2 DEF Places
      <4>3. QED
        BY <2>0, <2>11, <4>1, <4>2 DEF Leave, Page
    <3>3. QED
      BY <2>d, <3>1, <3>2
  <2>12. CASE Reload
    <3>1. mic' = {} /\ UNCHANGED <<consents, pending>> /\ \A s \in Starts : ~(start'[s].pc = "mic")
      BY <2>0, <2>12 DEF Reload, At
    <3>2. ~asked'
      BY <3>1 DEF asked, At
    <3>3. QED
      BY <2>b, <3>2
  <2>13. CASE ConfirmLocalChunks \/ ConfirmChunk \/ ConfirmFails \/ DeleteLocalAudio \/ LocalAudioDeleted
    BY <2>13, <2>d, <2>e
       DEF ConfirmLocalChunks, ConfirmChunk, ConfirmFails, DeleteLocalAudio, LocalAudioDeleted, consent
  <2>14. CASE UNCHANGED vars
    BY <2>14, <2>d, <2>e DEF vars, consent
  <2>15. QED
    BY <2>1, <2>2, <2>3, <2>4, <2>5, <2>6, <2>7, <2>8, <2>9, <2>10, <2>11, <2>12, <2>13, <2>14 DEF Next
<1>3. QED
  BY <1>1, <1>2, RecordingCorrect, PTL DEF Spec
=============================================================================
