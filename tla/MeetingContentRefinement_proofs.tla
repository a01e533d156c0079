------------------- MODULE MeetingContentRefinement_proofs -------------------
(***************************************************************************)
(* The transactions of MeetingContent implement AtomicContent, for any     *)
(* number of transactions, contents, keys and requests.                    *)
(***************************************************************************)
EXTENDS MeetingContentRefinement, MeetingContent_proofs, SequenceTheorems

\* The chain of a document has one entry per version, the content stored under
\* that version and no other.
ChainsExact ==
  \A d \in Docs :
    /\ Chain[d] \in Seq(Bodies)
    /\ Len(Chain[d]) = doc[d].version
    /\ \A v \in 1..doc[d].version, b \in Bodies : Stored(d, v, b) <=> b = Chain[d][v]

\* What the answer of a transaction presumes of its progress: it has no request
\* before it begins and no answer before it ends, only keyed requests consult
\* the receipts, and one that found its key taken still finds a receipt of it
\* until the purge.
Progress ==
  \A t \in Txns :
    /\ pc[t] = "new" => req[t] = None
    /\ pc[t] # "done" => outcome[t] = Unanswered
    /\ pc[t] \in {"claim", "existing"} => req[t].key # NoKey
    /\ pc[t] = "existing" /\ meeting # "PURGED" => ReceiptFor(req[t].doc, req[t].key) # {}

-----------------------------------------------------------------------------
\* The chain of a document has one content for each of its versions.
LEMMA ChainsAreExact == TypeOK /\ RevisionsExact => ChainsExact
<1> SUFFICES ASSUME TypeOK, RevisionsExact, NEW d \in Docs
    PROVE  /\ Chain[d] \in Seq(Bodies)
           /\ Len(Chain[d]) = doc[d].version
           /\ \A v \in 1..doc[d].version, b \in Bodies : Stored(d, v, b) <=> b = Chain[d][v]
  BY DEF ChainsExact
<1> DEFINE n == doc[d].version
<1>1. doc[d] \in Row \cup {Absent} /\ n \in Nat /\ revisions[d] \subseteq Row
  BY DEF TypeOK, Row, Absent
<1>2. Chain[d] = [v \in 1..n |-> IF v = n THEN doc[d].body
                    ELSE CHOOSE b \in Bodies : [version |-> v, body |-> b] \in revisions[d]]
  BY DEF Chain
<1>3. ASSUME NEW v \in 1..n
      PROVE  Chain[d][v] \in Bodies /\ \A b \in Bodies : Stored(d, v, b) <=> b = Chain[d][v]
  <2>1. CASE v = n
    <3>1. doc[d] \in Row
      BY <1>1, <2>1 DEF Absent
    <3>2. Chain[d][v] = doc[d].body /\ doc[d].body \in Bodies
      BY <1>2, <2>1, <3>1 DEF Row
    <3>3. \A b \in Bodies : [version |-> v, body |-> b] \notin revisions[d]
      BY <1>1, <2>1 DEF RevisionsExact
    <3>4. \A b \in Bodies : doc[d] = [version |-> v, body |-> b] <=> b = doc[d].body
      BY <2>1, <3>1 DEF Row
    <3>5. QED
      BY <3>2, <3>3, <3>4 DEF Stored
  <2>2. CASE v # n
    <3>1. \A b \in Bodies : Stored(d, v, b) <=> [version |-> v, body |-> b] \in revisions[d]
      BY <2>2 DEF Stored
    <3>2. PICK t \in Txns : Saved(t) /\ req[t].doc = d /\ Stored(d, v, req[t].body)
      BY DEF RevisionsExact
    <3>3. req[t].body \in Bodies
      BY <1>1, <2>2, <3>2 DEF Stored, Row
    <3>4. \E b \in Bodies : [version |-> v, body |-> b] \in revisions[d]
      BY <3>1, <3>2, <3>3
    <3>5. ASSUME NEW b \in Bodies, NEW c \in Bodies,
                 [version |-> v, body |-> b] \in revisions[d],
                 [version |-> v, body |-> c] \in revisions[d]
          PROVE  b = c
      <4>1. [version |-> v, body |-> b] = [version |-> v, body |-> c]
        BY <3>5 DEF RevisionsExact
      <4>2. QED
        BY <4>1
    <3>6. Chain[d][v] = CHOOSE b \in Bodies : [version |-> v, body |-> b] \in revisions[d]
      BY <1>2, <2>2
    <3>7. Chain[d][v] \in Bodies /\ [version |-> v, body |-> Chain[d][v]] \in revisions[d]
      BY <3>4, <3>6
    <3>8. QED
      BY <3>1, <3>5, <3>7
  <2>3. QED
    BY <2>1, <2>2
<1>4. Chain[d] \in Seq(Bodies) /\ Len(Chain[d]) = n
  <2>1. Chain[d] \in [1..n -> Bodies]
    BY <1>2, <1>3
  <2>2. QED
    BY <1>1, <2>1
<1>5. QED
  BY <1>3, <1>4

\* Every statement keeps running requests unanswered and taken keys accounted for.
LEMMA ProgressStep == TypeOK /\ LockInv /\ Progress /\ [Next]_vars => Progress'
<1> SUFFICES ASSUME TypeOK, LockInv, Progress, [Next]_vars PROVE Progress'
  OBVIOUS
<1>1. ASSUME NEW t \in Txns, Begin(t) PROVE Progress'
  BY <1>1 DEF Begin, Goto, TypeOK, Progress, database, ReceiptFor
<1>2. ASSUME NEW t \in Txns, Save(t) \/ Crash(t) PROVE Progress'
  <2>1. /\ req' = req /\ pc[t] # "new"
        /\ \A u \in Txns \ {t} : pc'[u] = pc[u] /\ outcome'[u] = outcome[u]
    BY <1>2, OthersUntouched
  <2>2. meeting' = meeting /\ \A d \in Docs : receipts[d] \subseteq receipts'[d]
    <3>1. CASE Commit(t)
      BY <3>1 DEF Commit, Publish, TypeOK
    <3>2. CASE ~Commit(t)
      BY <1>2, <3>2, OthersUntouched DEF database
    <3>3. QED
      BY <3>1, <3>2
  <2>3. \A u \in Txns : pc[u] # "new" => req[u].doc \in Docs
    BY ContentAssumption DEF TypeOK, Request
  <2>4. \A u \in Txns : pc[u] = "existing" /\ meeting # "PURGED" =>
           ReceiptFor(req[u].doc, req[u].key)' # {}
    BY <2>1, <2>2, <2>3 DEF Progress, ReceiptFor
  <2>5. /\ pc'[t] # "new"
        /\ pc'[t] # "done" => outcome'[t] = Unanswered
        /\ pc'[t] \in {"claim", "existing"} => req[t].key # NoKey
        /\ pc'[t] = "existing" /\ meeting # "PURGED" => ReceiptFor(req[t].doc, req[t].key)' # {}
    <3> USE DEF Step, Goto, Answer, Refuse, TypeOK, Progress, database
    <3>1. CASE CheckMeeting(t)
      BY <2>1, <3>1 DEF CheckMeeting, AfterChecks
    <3>2. CASE RequireTranscript(t)
      BY <2>1, <3>2 DEF RequireTranscript, AfterChecks
    <3>3. CASE ClaimKey(t)
      BY <2>1, <3>3 DEF ClaimKey, ReceiptFor
    <3>4. CASE ReplayReceipt(t)
      BY <3>4 DEF ReplayReceipt
    <3>5. CASE SelectForUpdate(t)
      BY <3>5 DEF SelectForUpdate
    <3>6. CASE InsertDocument(t) \/ UpdateDocument(t) \/ LoadSaved(t)
      BY <3>6 DEF InsertDocument, UpdateDocument, LoadSaved
    <3>7. CASE Commit(t)
      BY <3>7 DEF Commit, Publish
    <3>8. CASE Crash(t)
      BY <3>8 DEF Crash
    <3>9. QED
      BY <1>2, <3>1, <3>2, <3>3, <3>4, <3>5, <3>6, <3>7, <3>8 DEF Save
  <2>6. QED
    BY <2>1, <2>2, <2>4, <2>5 DEF Progress
<1>3. CASE Deletion
  BY <1>3 DEF Deletion, LockForArchive, LockForPurge, LockMeeting, CommitArchive, CommitPurge,
              RollbackDeletion, Unlock, Progress, ReceiptFor, LockInv, MeetingHeld
<1>4. CASE UNCHANGED vars
  BY <1>4 DEF vars, Progress, ReceiptFor
<1>5. QED
  BY <1>1, <1>2, <1>3, <1>4 DEF Next, Quiescent

\* Attempts wait unanswered, and a taken key is that of a receipt.
THEOREM ProgressCorrect == Spec => []Progress
<1>1. Init => Progress
  BY DEF Init, Progress
<1>2. QED
  BY <1>1, ProgressStep, TypeCorrect, LocksCorrect, PTL DEF Spec

-----------------------------------------------------------------------------
(* The steps. *)

\* A statement that leaves the documents alone leaves their chains alone.
LEMMA ChainsUnchanged ==
  ASSUME UNCHANGED <<doc, revisions>> PROVE Chain' = Chain
BY DEF Chain

\* The commit of a save appends its content to the chain of its document.
LEMMA CommitAppends ==
  ASSUME TypeOK, LockInv, HistoryInv, ChainsExact, ChainsExact', NEW t \in Txns, Commit(t)
  PROVE  Chain' = [Chain EXCEPT ![req[t].doc] = Append(@, req[t].body)]
<1>1. PICK d \in Docs, b \in Bodies, n \in Nat :
        /\ d = req[t].doc /\ b = req[t].body /\ n = doc[d].version + 1
        /\ doc' = [doc EXCEPT ![d] = [version |-> n, body |-> b]]
        /\ revisions' = [revisions EXCEPT ![d] = @ \cup ({doc[d]} \ {Absent})]
  <2>1. req[t].doc \in Docs /\ req[t].body \in Bodies
    BY CommitEffect DEF Request
  <2>2. doc[req[t].doc].version + 1 \in Nat
    BY <2>1 DEF TypeOK, Row, Absent
  <2>3. /\ doc' = [doc EXCEPT ![req[t].doc] =
                     [version |-> doc[req[t].doc].version + 1, body |-> req[t].body]]
        /\ revisions' = [revisions EXCEPT ![req[t].doc] = @ \cup ({doc[req[t].doc]} \ {Absent})]
    BY CommitEffect
  <2>4. QED
    BY <2>1, <2>2, <2>3
<1>2. doc'[d] = [version |-> n, body |-> b] /\ n \in 1..doc'[d].version
  BY <1>1 DEF TypeOK, Row, Absent
\* Nothing that was stored is lost, so every entry of every chain stays.
<1>3. ASSUME NEW e \in Docs, NEW v \in 1..doc[e].version, NEW c \in Bodies, Stored(e, v, c)
      PROVE  Stored(e, v, c)'
  <2>1. doc[e] = [version |-> v, body |-> c] => doc[e] # Absent
    BY DEF Absent, TypeOK
  <2>2. doc[e] # Absent => doc'[e] = doc[e] \/ doc[e] \in revisions'[e]
    BY <1>1 DEF TypeOK
  <2>3. revisions[e] \subseteq revisions'[e]
    BY <1>1 DEF TypeOK
  <2>4. QED
    BY <1>3, <2>1, <2>2, <2>3 DEF Stored
<1>4. ASSUME NEW e \in Docs, NEW v \in 1..doc[e].version PROVE Chain'[e][v] = Chain[e][v]
  <2>1. Chain[e][v] \in Bodies
    BY ElementOfSeq DEF ChainsExact
  <2>2. PICK c \in Bodies : c = Chain[e][v]
    BY <2>1
  <2>3. Stored(e, v, c)'
    BY <1>3, <2>2 DEF ChainsExact
  <2>4. v \in 1..doc'[e].version
    BY <1>1 DEF TypeOK, Row, Absent
  <2>5. QED
    BY <2>2, <2>3, <2>4 DEF ChainsExact
<1>5. Chain'[d] = Append(Chain[d], b)
  <2>1. Chain[d] \in Seq(Bodies) /\ Len(Chain[d]) = doc[d].version /\ Len(Chain[d]) + 1 = n
    BY <1>1 DEF ChainsExact
  <2>2. Chain'[d] \in Seq(Bodies) /\ Len(Chain'[d]) = n
    BY <1>1, <1>2 DEF ChainsExact
  <2>3. Chain'[d][n] = b
    <3>1. Stored(d, n, b)'
      BY <1>2 DEF Stored
    <3>2. QED
      BY <1>2, <3>1 DEF ChainsExact
  <2>4. /\ Append(Chain[d], b) \in Seq(Bodies)
        /\ Len(Append(Chain[d], b)) = n
        /\ \A v \in 1..doc[d].version : Append(Chain[d], b)[v] = Chain[d][v]
        /\ Append(Chain[d], b)[n] = b
    BY <2>1, AppendProperties
  <2>5. \A v \in 1..n : v \in 1..doc[d].version \/ v = n
    BY <1>1 DEF TypeOK, Row, Absent
  <2>6. \A v \in 1..n : Chain'[d][v] = Append(Chain[d], b)[v]
    BY <1>4, <2>3, <2>4, <2>5
  <2>7. QED
    BY <2>2, <2>4, <2>6, SeqEqual
<1>6. ASSUME NEW e \in Docs, e # d PROVE Chain'[e] = Chain[e]
  <2>1. /\ Chain[e] \in Seq(Bodies) /\ Len(Chain[e]) = doc[e].version
        /\ Chain'[e] \in Seq(Bodies) /\ Len(Chain'[e]) = doc[e].version
    BY <1>1, <1>6 DEF ChainsExact
  <2>2. QED
    BY <1>4, <2>1, SeqEqual
<1>7. Chain' = [e \in Docs |-> Chain'[e]] /\ Chain = [e \in Docs |-> Chain[e]]
  BY DEF Chain
<1>8. QED
  BY <1>1, <1>5, <1>6, <1>7

\* A purge empties the chains.
LEMMA EmptyChains ==
  ASSUME \A d \in Docs : doc[d] = Absent PROVE Chain = [d \in Docs |-> <<>>]
<1>1. ASSUME NEW d \in Docs PROVE Chain[d] = <<>>
  <2>1. doc[d].version = 0 /\ 1..0 = {}
    BY DEF Absent
  <2>2. DOMAIN Chain[d] = {}
    BY <2>1 DEF Chain
  <2>3. Chain[d] = [v \in {} |-> Chain[d][v]]
    BY <2>1, <2>2 DEF Chain
  <2>4. QED
    BY <2>3
<1>2. QED
  BY <1>1 DEF Chain

Refusals == {"VERSION_CONFLICT", "KEY_CONFLICT", "NOT_FOUND", "TRANSCRIPT_REQUIRED", "FAILED"}

\* A save that is refused is refused for a reason.
LEMMA RefusalTruthful ==
  ASSUME TypeOK, LockInv, HistoryInv, Progress, ChainsExact,
         NEW t \in Txns, Save(t) \/ Crash(t), NEW tag \in Refusals, Refuse(t, tag)
  PROVE  Atomic!Truthful(t, tag)
<1> USE DEF Refusals
<1> SUFFICES ASSUME tag # "FAILED" PROVE
      \/ tag = "VERSION_CONFLICT" /\ Len(Chain[req[t].doc]) # req[t].base
      \/ tag = "NOT_FOUND" /\ meeting # "ACTIVE"
      \/ tag = "TRANSCRIPT_REQUIRED" /\ Chain["transcript"] = <<>>
      \/ /\ tag = "KEY_CONFLICT"
         /\ \/ meeting = "PURGED"
            \/ \E u \in Txns : /\ Saved(u) /\ req[u] # req[t]
                               /\ req[u].doc = req[t].doc /\ req[u].key = req[t].key
  BY DEF Atomic!Truthful, Atomic!Applied, Saved, Answered
<1>0. /\ pc[t] \notin {"new", "done"} /\ req[t] \in Requests /\ req[t].doc \in Docs
      /\ pc'[t] = "done" /\ outcome'[t].tag = tag
  BY OthersUntouched, ContentAssumption DEF TypeOK, Request, Refuse, Answer, Goto
<1> USE DEF Refuse, Answer, Step, Goto, TypeOK
<1>1. CASE CheckMeeting(t)
  BY <1>0, <1>1 DEF CheckMeeting, AfterChecks
<1>2. CASE RequireTranscript(t)
  <2>1. tag = "TRANSCRIPT_REQUIRED" /\ doc["transcript"].version = 0
    BY <1>0, <1>2 DEF RequireTranscript, AfterChecks
  <2>2. Chain["transcript"] \in Seq(Bodies) /\ Len(Chain["transcript"]) = 0
    BY <2>1 DEF ChainsExact, Docs
  <2>3. QED
    BY <2>1, <2>2, EmptySeq
<1>3. CASE ClaimKey(t) \/ Crash(t)
  BY <1>0, <1>3 DEF ClaimKey, Crash
<1>4. CASE ReplayReceipt(t)
  <2>1. pc[t] = "existing" /\ tag = "KEY_CONFLICT"
        /\ {r \in receipts[req[t].doc] : r.request = req[t]} = {}
    BY <1>0, <1>4 DEF ReplayReceipt
  <2>2. CASE meeting # "PURGED"
    <3>1. PICK r \in receipts[req[t].doc] : r.request.key = req[t].key
      BY <2>1, <2>2 DEF Progress, ReceiptFor
    <3>2. r.request # req[t] /\ r.request.doc = req[t].doc
      BY <1>0, <2>1 DEF LockInv, KeysUnused
    <3>3. PICK u \in Txns : Saved(u) /\ req[u] = r.request
      BY <1>0 DEF HistoryInv, ReceiptsTruthful
    <3>4. QED
      BY <2>1, <3>1, <3>2, <3>3
  <2>3. QED
    BY <2>1, <2>2
<1>5. CASE SelectForUpdate(t)
  BY <1>0, <1>5 DEF SelectForUpdate, ChainsExact
<1>6. CASE InsertDocument(t) \/ UpdateDocument(t) \/ LoadSaved(t)
  BY <1>0, <1>6 DEF InsertDocument, UpdateDocument, LoadSaved
<1>7. CASE Commit(t)
  BY <1>0, <1>7 DEF Commit, Publish
<1>8. QED
  BY <1>1, <1>2, <1>3, <1>4, <1>5, <1>6, <1>7 DEF Save

\* The commit of a save is the compare-and-swap of the atomic store.
LEMMA CommitApplies ==
  ASSUME TypeOK, LockInv, HistoryInv, Progress, ChainsExact, ChainsExact',
         NEW t \in Txns, Commit(t)
  PROVE  Atomic!Apply(t)
<1>0. pc[t] = "commit" /\ req[t] # None /\ outcome[t] = Unanswered
  BY ContentAssumption DEF Commit, Publish, Progress, TypeOK
<1>1. /\ req[t].doc \in Docs /\ meeting # "PURGED" /\ meeting' = meeting /\ req' = req
      /\ doc[req[t].doc].version = req[t].base /\ Claimed(t) = (req[t].key # NoKey)
      /\ outcome' = [outcome EXCEPT ![t] = [tag |-> "SAVED", version |-> req[t].base + 1]]
  BY CommitEffect
<1>2. Len(Chain[req[t].doc]) = req[t].base
  BY <1>1 DEF ChainsExact
<1>3. req[t].key # NoKey \/ req[t].base = 0 => meeting = "ACTIVE"
  BY <1>0, <1>1 DEF LockInv, MeetingHeld, HoldsKeyShare, ReadIsCurrent, Holding
<1>4. req[t].doc = "minutes" => Chain["transcript"] # <<>>
  <2>1. req[t].doc = "minutes" => doc["transcript"].version > 0
    BY <1>0, <1>1 DEF HistoryInv, MinutesChecked
  <2>2. Len(Chain["transcript"]) = doc["transcript"].version /\ Len(<<>>) = 0
    BY EmptySeq DEF ChainsExact, Docs
  <2>3. QED
    BY <2>1, <2>2
<1>5. req[t].key # NoKey => \A u \in Txns :
        ~(Saved(u) /\ req[u].doc = req[t].doc /\ req[u].key = req[t].key)
  <2> SUFFICES ASSUME req[t].key # NoKey, NEW u \in Txns,
                      Saved(u), req[u].doc = req[t].doc, req[u].key = req[t].key
      PROVE  FALSE
    OBVIOUS
  <2>1. [request |-> req[u], response |-> outcome[u].version] \in receipts[req[t].doc]
    BY <1>1 DEF HistoryInv, SavedHasReceipt
  <2>2. \A r \in receipts[req[t].doc] : r.request.key # req[t].key
    BY <1>1 DEF LockInv, KeysUnused
  <2>3. QED
    BY <2>1, <2>2
<1>6. Chain' = [Chain EXCEPT ![req[t].doc] = Append(@, req[t].body)]
  BY CommitAppends
<1>7. Atomic!Reply(t, "SAVED", req[t].base + 1)
  BY <1>0, <1>1 DEF Atomic!Reply, Atomic!Waiting, Atomic!Pending, Unanswered
<1>8. QED
  BY <1>0, <1>1, <1>2, <1>3, <1>4, <1>5, <1>6, <1>7
     DEF Atomic!Apply, Atomic!Applied, Saved, Answered

\* Every step is a step of the atomic store, or none that its callers see.
LEMMA StepImplements ==
  ASSUME TypeOK, LockInv, HistoryInv, Progress, ChainsExact, ChainsExact', [Next]_vars
  PROVE  [Atomic!Next]_(Atomic!avars)
<1> USE DEF Atomic!Next, Atomic!avars
<1>1. ASSUME NEW t \in Txns, Begin(t) PROVE \E r \in Requests : Atomic!Ask(t, r)
  <2>1. Chain' = Chain
    BY <1>1, ChainsUnchanged DEF Begin, database
  <2>2. QED
    BY <1>1, <2>1 DEF Begin, database, Atomic!Ask, Progress
<1>2. ASSUME NEW t \in Txns, Save(t) \/ Crash(t), ~Commit(t)
      PROVE  Atomic!Refuse(t) \/ Atomic!Replay(t) \/ UNCHANGED Atomic!avars
  <2>1. UNCHANGED <<meeting, Chain, req>>
    BY <1>2, OthersUntouched, ChainsUnchanged DEF database
  <2>2. req[t] \in Requests /\ req[t] # None /\ req[t].doc \in Docs /\ outcome[t] = Unanswered
    BY <1>2, OthersUntouched, ContentAssumption DEF TypeOK, Request, Progress
  <2>3. ASSUME NEW tag, NEW v, Answer(t, tag, v) PROVE Atomic!Reply(t, tag, v)
    BY <2>1, <2>2, <2>3 DEF Answer, Atomic!Reply, Atomic!Waiting, Atomic!Pending, Unanswered
  <2>4. ASSUME NEW tag \in Refusals, Refuse(t, tag) PROVE Atomic!Refuse(t)
    <3>1. Atomic!Reply(t, tag, 0)
      BY <2>3, <2>4 DEF Refuse
    <3>2. Atomic!Truthful(t, tag)
      BY <1>2, <2>4, RefusalTruthful
    <3>3. QED
      BY <2>1, <2>2, <3>1, <3>2 DEF Atomic!Refuse, Refusals
  <2>5. ASSUME pc[t] = "existing", NEW r \in receipts[req[t].doc], r.request = req[t],
               Answer(t, "REPLAYED", r.response)
        PROVE  Atomic!Replay(t)
    <3>1. PICK u \in Txns : Saved(u) /\ req[u] = r.request /\ outcome[u].version = r.response
      BY <2>2 DEF HistoryInv, ReceiptsTruthful
    <3>2. req[t].key # NoKey
      BY <2>5 DEF Progress
    <3>3. Atomic!Reply(t, "REPLAYED", outcome[u].version)
      BY <2>3, <2>5, <3>1
    <3>4. QED
      BY <2>1, <2>2, <2>5, <3>1, <3>2, <3>3 DEF Atomic!Replay, Atomic!Applied, Saved, Answered
  <2>6. ASSUME NEW label, Step(t, label) PROVE UNCHANGED Atomic!avars
    BY <2>1, <2>6 DEF Step
  <2>7. CASE CheckMeeting(t) \/ RequireTranscript(t) \/ ClaimKey(t)
    BY <2>4, <2>6, <2>7 DEF CheckMeeting, RequireTranscript, ClaimKey, Refusals
  <2>8. CASE ReplayReceipt(t)
    BY <2>4, <2>5, <2>8 DEF ReplayReceipt, Refusals
  <2>9. CASE SelectForUpdate(t)
    BY <2>1, <2>4, <2>9 DEF SelectForUpdate, Refusals
  <2>10. CASE InsertDocument(t) \/ UpdateDocument(t) \/ LoadSaved(t) \/ Crash(t)
    BY <2>4, <2>6, <2>10 DEF InsertDocument, UpdateDocument, LoadSaved, Crash, Refusals
  <2>11. QED
    BY <1>2, <2>7, <2>8, <2>9, <2>10 DEF Save
<1>3. ASSUME NEW t \in Txns, Commit(t) PROVE Atomic!Apply(t)
  BY <1>3, CommitApplies
<1>4. CASE CommitPurge
  <2>1. Chain' = [d \in Docs |-> <<>>]
    <3>1. doc' = [d \in Docs |-> Absent]
      BY <1>4 DEF CommitPurge
    <3>2. \A d \in Docs : Chain'[d] \in Seq(Bodies) /\ Len(Chain'[d]) = 0
      BY <3>1 DEF ChainsExact, Absent
    <3>3. \A d \in Docs : Chain'[d] = <<>>
      BY <3>2, EmptySeq
    <3>4. QED
      BY <3>3 DEF Chain
  <2>2. Atomic!Purge
    BY <1>4, <2>1 DEF CommitPurge, Unlock, LockInv, MeetingHeld, Atomic!Purge, Atomic!Docs, Docs
  <2>3. QED
    BY <2>2
<1>5. CASE CommitArchive
  <2>1. Chain' = Chain
    BY <1>5, ChainsUnchanged DEF CommitArchive
  <2>2. Atomic!Archive
    BY <1>5, <2>1 DEF CommitArchive, Unlock, LockInv, MeetingHeld, Atomic!Archive
  <2>3. QED
    BY <2>2
<1>6. CASE LockForArchive \/ LockForPurge \/ RollbackDeletion \/ UNCHANGED vars
  <2>1. UNCHANGED <<meeting, doc, revisions, req, outcome>>
    BY <1>6 DEF LockForArchive, LockForPurge, LockMeeting, RollbackDeletion, Unlock, vars
  <2>2. QED
    BY <2>1, ChainsUnchanged
<1>7. QED
  BY <1>1, <1>2, <1>3, <1>4, <1>5, <1>6 DEF Next, Deletion, Save, Quiescent

\* The transactions implement the atomic store: seen through the chains of
\* versions and the answers, every behaviour of the SQL statements, whatever
\* interleaves, crashes or deletes the meeting, is one of compare-and-swap
\* saves, replays, truthful refusals, archive and purge.
THEOREM Implementation == Spec => ImplementsAtomicContent
<1>1. Init => Atomic!Init
  <2> SUFFICES ASSUME Init PROVE Atomic!Init
    OBVIOUS
  <2>1. Chain = [d \in Docs |-> <<>>]
    BY EmptyChains DEF Init
  <2>2. QED
    BY <2>1 DEF Init, Atomic!Init, Atomic!Docs, Docs, Atomic!Pending, Unanswered
<1>2. HistoryInv => RevisionsExact
  BY DEF HistoryInv
<1>3. Spec => []ChainsExact
  BY <1>2, ChainsAreExact, TypeCorrect, HistoryCorrect, PTL
<1>4. /\ TypeOK /\ LockInv /\ HistoryInv /\ Progress /\ ChainsExact /\ ChainsExact'
      /\ [Next]_vars
      => [Atomic!Next]_(Atomic!avars)
  BY StepImplements
<1>5. QED
  BY <1>1, <1>3, <1>4, TypeCorrect, LocksCorrect, HistoryCorrect, ProgressCorrect, PTL
     DEF Spec, ImplementsAtomicContent, Atomic!Spec
=============================================================================
