------------------------ MODULE MeetingContent_proofs ------------------------
(***************************************************************************)
(* The safety of MeetingContent for any number of transactions, contents,  *)
(* keys and requests.                                                      *)
(***************************************************************************)
EXTENDS MeetingContent, TLAPS

-----------------------------------------------------------------------------
(* Types. *)

\* Every variable keeps its type, whatever statements interleave.
THEOREM TypeCorrect == Spec => []TypeOK
<1>1. Init => TypeOK
  BY DEF Init, TypeOK, Row, Absent, Unanswered, Tags, Labels
<1>2. TypeOK /\ [Next]_vars => TypeOK'
  <2> SUFFICES ASSUME TypeOK, [Next]_vars PROVE TypeOK'
    OBVIOUS
  <2> USE ContentAssumption DEF TypeOK
  <2>1. ASSUME NEW t \in Txns, NEW tag \in Tags, NEW v \in Nat, Answer(t, tag, v)
        PROVE  /\ pc' \in [Txns -> Labels]
               /\ req' \in [Txns -> Request \cup {None}]
               /\ \A u \in Txns : pc'[u] # "new" => pc[u] # "new" \/ u = t
               /\ read' \in [Txns -> Row \cup {Absent}]
               /\ outcome' \in [Txns -> [tag : Tags, version : Nat]]
    BY <2>1 DEF Answer, Goto, Labels
  <2>2. ASSUME NEW t \in Txns, pc[t] # "new", NEW tag \in Tags, Refuse(t, tag) PROVE TypeOK'
    BY <2>1, <2>2 DEF Refuse, Answer, database
  <2>3. ASSUME NEW t \in Txns, pc[t] # "new", NEW label \in Labels, Step(t, label) PROVE TypeOK'
    BY <2>3 DEF Step, Goto, database
  <2>4. ASSUME NEW t \in Txns, Begin(t) PROVE TypeOK'
    BY <2>4 DEF Begin, Goto, database, Labels
  <2>5. ASSUME NEW t \in Txns, CheckMeeting(t) PROVE TypeOK'
    BY <2>5, <2>2, <2>3 DEF CheckMeeting, AfterChecks, Labels, Tags
  <2>6. ASSUME NEW t \in Txns, RequireTranscript(t) PROVE TypeOK'
    BY <2>6, <2>2, <2>3 DEF RequireTranscript, AfterChecks, Labels, Tags
  <2>7. ASSUME NEW t \in Txns, ClaimKey(t) PROVE TypeOK'
    BY <2>7, <2>2, <2>3 DEF ClaimKey, Labels, Tags
  <2>8. ASSUME NEW t \in Txns, ReplayReceipt(t) PROVE TypeOK'
    <3>1. CASE Refuse(t, "KEY_CONFLICT")
      BY <2>8, <3>1, <2>2 DEF ReplayReceipt, Tags
    <3>2. ASSUME NEW r \in receipts[req[t].doc], Answer(t, "REPLAYED", r.response), UNCHANGED database
          PROVE  TypeOK'
      <4>1. req[t].doc \in Docs
        BY <2>8 DEF ReplayReceipt, Request
      <4>2. r.response \in Nat
        BY <4>1 DEF Receipt
      <4>3. QED
        BY <4>2, <3>2, <2>8, <2>1 DEF ReplayReceipt, Tags, database, Answer
    <3>3. QED
      BY <2>8, <3>1, <3>2 DEF ReplayReceipt
  <2>9. ASSUME NEW t \in Txns, SelectForUpdate(t) PROVE TypeOK'
    <3>1. CASE Refuse(t, "VERSION_CONFLICT")
      BY <2>9, <3>1, <2>2 DEF SelectForUpdate, Tags
    <3>2. CASE ~Refuse(t, "VERSION_CONFLICT")
      <4>1. req[t].doc \in Docs
        BY <2>9 DEF SelectForUpdate, Request
      <4>2. QED
        BY <4>1, <2>9, <3>2 DEF SelectForUpdate, Goto, database, Labels
    <3>3. QED
      BY <3>1, <3>2
  <2>10. ASSUME NEW t \in Txns, InsertDocument(t) PROVE TypeOK'
    BY <2>10, <2>2, <2>3 DEF InsertDocument, Labels, Tags
  <2>11. ASSUME NEW t \in Txns, UpdateDocument(t) PROVE TypeOK'
    BY <2>11, <2>2, <2>3 DEF UpdateDocument, Labels, Tags
  <2>12. ASSUME NEW t \in Txns, LoadSaved(t) PROVE TypeOK'
    BY <2>12, <2>2, <2>3 DEF LoadSaved, Labels, Tags
  <2>13. ASSUME NEW t \in Txns, Commit(t) PROVE TypeOK'
    <3>1. req[t] \in Request /\ req[t].doc \in Docs /\ req[t].body \in Bodies
      BY <2>13 DEF Commit, Publish, Request
    <3>2. read[t].version + 1 \in Nat \ {0} /\ Superseded(t) \subseteq Row
      BY DEF Superseded, Row, Absent
    <3>3. Completed(t, read[t].version + 1) \subseteq Receipt
      BY <3>1, <3>2 DEF Completed, Receipt
    <3>4. Answer(t, "SAVED", read[t].version + 1) /\ pc[t] = "commit"
      BY <2>13 DEF Commit, Publish
    <3>5. doc' \in [Docs -> Row \cup {Absent}]
      BY <2>13, <3>1, <3>2 DEF Commit, Publish, Row
    <3>6. revisions' \in [Docs -> SUBSET Row]
      BY <2>13, <3>1, <3>2 DEF Commit, Publish
    <3>7. receipts' \in [Docs -> SUBSET Receipt]
      BY <2>13, <3>1, <3>3 DEF Commit, Publish
    <3>8. QED
      BY <3>2, <3>4, <3>5, <3>6, <3>7, <2>1, <2>13 DEF Commit, Publish, Answer, Tags
  <2>14. ASSUME NEW t \in Txns, Crash(t) PROVE TypeOK'
    BY <2>14, <2>2 DEF Crash, Tags
  <2>15. CASE Deletion
    BY <2>15 DEF Deletion, LockForArchive, LockForPurge, LockMeeting, CommitArchive,
                 CommitPurge, RollbackDeletion, Unlock
  <2>16. CASE UNCHANGED vars
    BY <2>16 DEF vars
  <2>17. QED
    BY <2>4, <2>5, <2>6, <2>7, <2>8, <2>9, <2>10, <2>11, <2>12, <2>13, <2>14, <2>15, <2>16
       DEF Next, Save, Quiescent
<1>3. QED
  BY <1>1, <1>2, PTL DEF Spec

-----------------------------------------------------------------------------
(* Locks: what the running transactions know and hold. *)

Holding(t) == pc[t] \in {"update", "load", "commit"}
Claimed(t) ==
  pc[t] \in {"select", "insert", "update", "load", "commit"} /\ req[t].key # NoKey

\* A document and a key belong to at most one running transaction.
Exclusion ==
  \A t, u \in Txns : t # u =>
    /\ Holding(t) /\ Holding(u) => req[t].doc # req[u].doc
    /\ Claimed(t) /\ Claimed(u) /\ req[t].key = req[u].key => req[t].doc # req[u].doc

\* What SELECT ... FOR UPDATE returned stays current until the transaction
\* ends, and is the version the request started from.
ReadIsCurrent ==
  \A t \in Txns :
    /\ pc[t] = "insert" => read[t] = Absent /\ req[t].base = 0
    /\ pc[t] = "update" => read[t] # Absent
    /\ Holding(t) => read[t] = doc[req[t].doc] /\ read[t].version = req[t].base

\* Receipts are of keyed requests, and a claimed key has none.
KeysUnused ==
  /\ \A d \in Docs : \A r \in receipts[d] : r.request.doc = d /\ r.request.key # NoKey
  /\ \A t \in Txns : Claimed(t) =>
       \A r \in receipts[req[t].doc] : r.request.key # req[t].key

\* Nobody shares the meeting with its deletion, and a save that shares it has
\* seen it active when it is about to commit.
MeetingHeld ==
  /\ exclusive # "free" \/ meeting = "PURGED" => \A t \in Txns : ~HoldsKeyShare(t)
  /\ meeting = "PURGED" => exclusive = "free"
  /\ exclusive = "archive" => meeting = "ACTIVE"
  /\ \A t \in Txns : pc[t] = "commit" /\ HoldsKeyShare(t) => meeting = "ACTIVE"

\* Nothing is left of a purged meeting and nothing can come back.
PurgeIsFinal ==
  meeting = "PURGED" =>
    /\ \A d \in Docs : doc[d] = Absent /\ revisions[d] = {} /\ receipts[d] = {}
    /\ \A t \in Txns : ~Holding(t)

LockInv == Exclusion /\ ReadIsCurrent /\ KeysUnused /\ MeetingHeld /\ PurgeIsFinal

-----------------------------------------------------------------------------
(* History: what the answers given so far say about the stored versions. *)

\* The answers are those of finished transactions, and a save creates the
\* version after its base.
AnswersFinal ==
  \A t \in Txns :
    /\ pc[t] = "done" <=> outcome[t].tag # "NONE"
    /\ Saved(t) => outcome[t].version = req[t].base + 1

\* A save with a key has left its receipt.
SavedHasReceipt ==
  \A t \in Txns : Saved(t) /\ req[t].key # NoKey /\ meeting # "PURGED" =>
    [request |-> req[t], response |-> outcome[t].version] \in receipts[req[t].doc]

\* A minutes save that is past its checks runs over a confirmed transcript.
MinutesChecked ==
  \A t \in Txns :
    /\ pc[t] \in {"claim", "existing", "select", "insert", "update", "load", "commit"}
    /\ req[t].doc = "minutes" /\ meeting # "PURGED"
    => doc["transcript"].version > 0

HistoryInv ==
  /\ AnswersFinal /\ SavedHasReceipt /\ MinutesChecked
  /\ AcknowledgedSaveStored /\ OneAuthorPerVersion /\ RevisionsExact
  /\ AppliedOncePerKey /\ ReceiptsTruthful /\ MinutesNeedTranscript

IInv == LockInv /\ HistoryInv

-----------------------------------------------------------------------------
\* What a statement of t leaves alone: the program counters, requests and
\* reads of the others.
LEMMA OthersUntouched ==
  ASSUME TypeOK, NEW t \in Txns, Save(t) \/ Crash(t)
  PROVE  /\ req' = req
         /\ pc'[t] \in Labels /\ pc[t] \notin {"new", "done"}
         /\ \A u \in Txns \ {t} : pc'[u] = pc[u] /\ read'[u] = read[u] /\ outcome'[u] = outcome[u]
         /\ ~Commit(t) => UNCHANGED database
<1> USE DEF TypeOK, Answer, Refuse, Step, Goto, database, AfterChecks, Labels
<1>1. CASE CheckMeeting(t)
  BY <1>1 DEF CheckMeeting
<1>2. CASE RequireTranscript(t)
  BY <1>2 DEF RequireTranscript
<1>3. CASE ClaimKey(t)
  BY <1>3 DEF ClaimKey
<1>4. CASE ReplayReceipt(t)
  BY <1>4 DEF ReplayReceipt
<1>5. CASE SelectForUpdate(t)
  BY <1>5 DEF SelectForUpdate
<1>6. CASE InsertDocument(t)
  BY <1>6 DEF InsertDocument
<1>7. CASE UpdateDocument(t)
  BY <1>7 DEF UpdateDocument
<1>8. CASE LoadSaved(t)
  BY <1>8 DEF LoadSaved
<1>9. CASE Commit(t)
  BY <1>9 DEF Commit, Publish
<1>10. CASE Crash(t)
  BY <1>10 DEF Crash
<1>11. QED
  BY <1>1, <1>2, <1>3, <1>4, <1>5, <1>6, <1>7, <1>8, <1>9, <1>10 DEF Save

\* Every statement keeps what the locks give.
LEMMA LockInvStep == TypeOK /\ LockInv /\ [Next]_vars => LockInv'
<1> SUFFICES ASSUME TypeOK, LockInv, [Next]_vars PROVE LockInv'
  OBVIOUS
<1> USE ContentAssumption DEF LockInv, Exclusion, ReadIsCurrent, KeysUnused, MeetingHeld,
        PurgeIsFinal, Holding, Claimed, HoldsKeyShare
\* Answering ends the transaction and frees what it held.
<1>1. ASSUME NEW t \in Txns, Save(t) \/ Crash(t), pc'[t] = "done", UNCHANGED database
      PROVE  LockInv'
  BY <1>1, OthersUntouched DEF database
<1>2. ASSUME NEW t \in Txns, Begin(t) PROVE LockInv'
  BY <1>2 DEF Begin, Goto, database, TypeOK
<1>3. ASSUME NEW t \in Txns, CheckMeeting(t) PROVE LockInv'
  <2>1. pc'[t] \in {"require", "select", "claim", "done"} /\ (pc'[t] = "select" => req[t].key = NoKey)
    BY <1>3 DEF CheckMeeting, Step, Goto, Refuse, Answer, AfterChecks, TypeOK
  <2>2. UNCHANGED database /\ read' = read
    BY <1>3 DEF CheckMeeting, Step, Goto, Refuse, Answer
  <2>3. QED
    BY <1>3, <2>1, <2>2, OthersUntouched DEF database, Save
<1>4. ASSUME NEW t \in Txns, RequireTranscript(t) PROVE LockInv'
  <2>1. pc'[t] \in {"select", "claim", "done"} /\ (pc'[t] = "select" => req[t].key = NoKey)
    BY <1>4 DEF RequireTranscript, Step, Goto, Refuse, Answer, AfterChecks, TypeOK
  <2>2. UNCHANGED database /\ read' = read
    BY <1>4 DEF RequireTranscript, Step, Goto, Refuse, Answer
  <2>3. QED
    BY <1>4, <2>1, <2>2, OthersUntouched DEF database, Save
<1>5. ASSUME NEW t \in Txns, ClaimKey(t) PROVE LockInv'
  <2>1. CASE Step(t, "existing")
    BY <1>5, <2>1, OthersUntouched DEF Save, Step, Goto, database, TypeOK
  <2>2. CASE /\ Step(t, "select") /\ KeyFree(req[t].doc, req[t].key) /\ exclusive = "free"
             /\ ReceiptFor(req[t].doc, req[t].key) = {} /\ meeting # "PURGED" /\ pc[t] = "claim"
    BY <1>5, <2>2, OthersUntouched
       DEF Save, Step, Goto, database, TypeOK, KeyFree, HoldsKey, ReceiptFor
  <2>3. CASE Refuse(t, "FAILED")
    BY <1>1, <1>5, <2>3 DEF Save, Refuse, Answer, Goto, TypeOK
  <2>4. QED
    BY <1>5, <2>1, <2>2, <2>3 DEF ClaimKey
<1>6. ASSUME NEW t \in Txns, ReplayReceipt(t) PROVE LockInv'
  <2>1. pc'[t] = "done"
    BY <1>6 DEF ReplayReceipt, Refuse, Answer, Goto, TypeOK
  <2>2. UNCHANGED database
    BY <1>6 DEF ReplayReceipt, Refuse
  <2>3. Save(t)
    BY <1>6 DEF Save
  <2>4. QED
    BY ONLY <1>1, <2>1, <2>2, <2>3, t \in Txns
<1>7. ASSUME NEW t \in Txns, SelectForUpdate(t) PROVE LockInv'
  <2>1. CASE Refuse(t, "VERSION_CONFLICT")
    BY <1>1, <1>7, <2>1 DEF Save, Refuse, Answer, Goto, TypeOK
  <2>2. CASE ~Refuse(t, "VERSION_CONFLICT")
    <3>1. /\ pc[t] = "select" /\ read'[t] = doc[req[t].doc] /\ UNCHANGED database
          /\ doc[req[t].doc].version = req[t].base
          /\ pc'[t] = IF doc[req[t].doc].version = 0 THEN "insert" ELSE "update"
          /\ doc[req[t].doc].version # 0 => DocumentFree(req[t].doc)
          /\ req[t].doc \in Docs
      BY <1>7, <2>2 DEF SelectForUpdate, Goto, TypeOK, database, Request
    <3>2. doc[req[t].doc].version = 0 => doc[req[t].doc] = Absent
      BY <3>1 DEF TypeOK, Row
    <3>3. QED
      BY <1>7, <3>1, <3>2, OthersUntouched
         DEF Save, database, DocumentFree, HoldsDocument, Absent
  <2>3. QED
    BY <2>1, <2>2
<1>8. ASSUME NEW t \in Txns, InsertDocument(t) PROVE LockInv'
  <2>1. CASE Refuse(t, "FAILED")
    BY <1>1, <1>8, <2>1 DEF Save, Refuse, Answer, Goto, TypeOK
  <2>2. CASE ~Refuse(t, "FAILED")
    <3>1. /\ pc[t] = "insert" /\ pc'[t] = "load" /\ UNCHANGED database /\ read' = read
          /\ doc[req[t].doc].version = 0 /\ DocumentFree(req[t].doc)
          /\ exclusive = "free" /\ meeting # "PURGED" /\ req[t].doc \in Docs
      BY <1>8, <2>2 DEF InsertDocument, Step, Goto, TypeOK, Request
    <3>2. doc[req[t].doc] = Absent /\ Absent.version = 0
      <4>1. doc[req[t].doc] \in Row \cup {Absent} /\ doc[req[t].doc].version = 0
        BY <3>1 DEF TypeOK
      <4>2. QED
        BY <4>1 DEF Row, Absent
    <3>3. read[t] = Absent /\ req[t].base = 0 /\ req' = req
      BY <1>8, <3>1, OthersUntouched DEF Save
    <3>4. \A u \in Txns \ {t} : pc'[u] = pc[u]
      BY <1>8, OthersUntouched DEF Save
    <3>5. Exclusion'
      BY <3>1, <3>3, <3>4 DEF DocumentFree, HoldsDocument
    <3>6. ReadIsCurrent' /\ KeysUnused'
      BY <3>1, <3>2, <3>3, <3>4 DEF database
    <3>7. MeetingHeld' /\ PurgeIsFinal'
      BY <3>1, <3>3, <3>4 DEF database
    <3>8. QED
      BY <3>5, <3>6, <3>7
  <2>3. QED
    BY <2>1, <2>2
<1>9. ASSUME NEW t \in Txns, UpdateDocument(t) PROVE LockInv'
  <2>1. CASE Refuse(t, "NOT_FOUND")
    BY <1>1, <1>9, <2>1 DEF Save, Refuse, Answer, Goto, TypeOK
  <2>2. CASE ~Refuse(t, "NOT_FOUND")
    <3>1. pc[t] = "update" /\ pc'[t] = "load" /\ UNCHANGED database /\ read' = read
      BY <1>9, <2>2 DEF UpdateDocument, Step, Goto, TypeOK
    <3>2. read[t].version # 0
      BY <3>1 DEF TypeOK, Row, Absent
    <3>3. QED
      BY <1>9, <3>1, <3>2, OthersUntouched DEF Save, database
  <2>3. QED
    BY <2>1, <2>2
<1>10. ASSUME NEW t \in Txns, LoadSaved(t) PROVE LockInv'
  <2>1. CASE Refuse(t, "NOT_FOUND")
    BY <1>1, <1>10, <2>1 DEF Save, Refuse, Answer, Goto, TypeOK
  <2>2. CASE ~Refuse(t, "NOT_FOUND")
    <3>1. /\ pc[t] = "load" /\ pc'[t] = "commit" /\ UNCHANGED database /\ read' = read
          /\ meeting = "ACTIVE"
      BY <1>10, <2>2 DEF LoadSaved, Step, Goto, TypeOK
    <3>2. QED
      BY <1>10, <3>1, OthersUntouched DEF Save, database
  <2>3. QED
    BY <2>1, <2>2
<1>11. ASSUME NEW t \in Txns, Commit(t) PROVE LockInv'
  <2>1. /\ pc[t] = "commit" /\ pc'[t] = "done" /\ read' = read /\ req' = req
        /\ req[t].doc \in Docs
        /\ UNCHANGED <<meeting, exclusive>>
        /\ \A d \in Docs : d # req[t].doc =>
             doc'[d] = doc[d] /\ receipts'[d] = receipts[d]
        /\ receipts'[req[t].doc] =
             receipts[req[t].doc] \cup Completed(t, read[t].version + 1)
    BY <1>11 DEF Commit, Publish, Answer, Goto, TypeOK, Request
  <2>2. \A r \in Completed(t, read[t].version + 1) :
           r.request = req[t] /\ req[t].key # NoKey
    BY DEF Completed
  <2>3. Exclusion' /\ MeetingHeld' /\ PurgeIsFinal'
    BY <1>11, <2>1, OthersUntouched DEF Save
  <2>4. ReadIsCurrent'
    BY <1>11, <2>1, OthersUntouched DEF Save, TypeOK, Request
  <2>5. KeysUnused'
    <3>1. ASSUME NEW d \in Docs, NEW r \in receipts'[d]
          PROVE  r.request.doc = d /\ r.request.key # NoKey
      <4>1. CASE d # req[t].doc
        BY <2>1, <3>1, <4>1
      <4>2. CASE d = req[t].doc /\ r \in receipts[d]
        BY <4>2
      <4>3. CASE d = req[t].doc /\ r \in Completed(t, read[t].version + 1)
        BY <2>2, <4>3
      <4>4. QED
        BY <2>1, <3>1, <4>1, <4>2, <4>3
    <3>2. ASSUME NEW u \in Txns, Claimed(u)', NEW r \in receipts'[req[u].doc]
          PROVE  r.request.key # req[u].key
      <4>1. u # t /\ Claimed(u) /\ req[u].doc \in Docs
        BY <1>11, <2>1, <3>2, OthersUntouched DEF Save, TypeOK, Request
      <4>2. \/ r \in receipts[req[u].doc]
            \/ req[u].doc = req[t].doc /\ r.request = req[t] /\ req[t].key # NoKey
        BY <2>1, <2>2, <3>2, <4>1
      <4>3. req[u].doc = req[t].doc => ~(Claimed(t) /\ req[t].key = req[u].key)
        BY <4>1
      <4>4. QED
        BY <2>1, <4>1, <4>2, <4>3
    <3>3. QED
      BY <2>1, <3>1, <3>2
  <2>6. QED
    BY <2>3, <2>4, <2>5
<1>12. ASSUME NEW t \in Txns, Crash(t) PROVE LockInv'
  <2>1. pc'[t] = "done"
    BY <1>12 DEF Crash, Refuse, Answer, Goto, TypeOK
  <2>2. UNCHANGED database
    BY <1>12 DEF Crash, Refuse
  <2>3. QED
    BY ONLY <1>1, <1>12, <2>1, <2>2, t \in Txns
<1>13. CASE Deletion
  <2>1. CASE LockForArchive \/ LockForPurge
    BY <2>1 DEF LockForArchive, LockForPurge, LockMeeting
  <2>2. CASE CommitArchive
    BY <2>2 DEF CommitArchive, Unlock
  <2>3. CASE CommitPurge
    BY <2>3 DEF CommitPurge, Unlock, DocumentFree, HoldsDocument, TypeOK, Request
  <2>4. CASE RollbackDeletion
    BY <2>4 DEF RollbackDeletion, Unlock
  <2>5. QED
    BY <1>13, <2>1, <2>2, <2>3, <2>4 DEF Deletion
<1>14. CASE UNCHANGED vars
  BY <1>14 DEF vars
<1>15. QED
  BY <1>2, <1>3, <1>4, <1>5, <1>6, <1>7, <1>8, <1>9, <1>10, <1>11, <1>12, <1>13, <1>14
     DEF Next, Save, Quiescent

\* The locks give what they are there for: no two transactions hold the same
\* document or key, and what one has read under a lock stays the committed row.
THEOREM LocksCorrect == Spec => []LockInv
<1>1. Init => LockInv
  BY DEF Init, LockInv, Exclusion, ReadIsCurrent, KeysUnused, MeetingHeld, PurgeIsFinal,
         Holding, Claimed, HoldsKeyShare
<1>2. QED
  BY <1>1, LockInvStep, TypeCorrect, PTL DEF Spec

-----------------------------------------------------------------------------
\* A step that leaves the database and the committed saves alone keeps all
\* that is known about them.
LEMMA HistoryKept ==
  ASSUME HistoryInv, UNCHANGED database,
         \A u \in Txns : Saved(u) \/ Saved(u)' => outcome'[u] = outcome[u] /\ req'[u] = req[u]
  PROVE  /\ SavedHasReceipt' /\ OneAuthorPerVersion' /\ RevisionsExact'
         /\ AppliedOncePerKey' /\ ReceiptsTruthful' /\ MinutesNeedTranscript'
<1> USE DEF HistoryInv, database, Saved, Answered
<1>1. SavedHasReceipt'
  BY DEF SavedHasReceipt
<1>2. OneAuthorPerVersion'
  BY DEF OneAuthorPerVersion
<1>3. RevisionsExact'
  <2> SUFFICES ASSUME NEW d \in Docs
      PROVE  /\ \A r \in revisions'[d] : r.version < doc'[d].version
             /\ \A v \in 1..doc'[d].version : \E t \in Txns :
                  /\ Saved(t)' /\ req'[t].doc = d /\ outcome'[t].version = v
                  /\ Stored(d, v, req[t].body)'
             /\ \A r, s \in revisions'[d] : r.version = s.version => r = s
    BY DEF RevisionsExact
  <2>1. \A r \in revisions'[d] : r.version < doc'[d].version
    BY DEF RevisionsExact
  <2>2. ASSUME NEW v \in 1..doc'[d].version
        PROVE  \E t \in Txns :
                 /\ Saved(t)' /\ req'[t].doc = d /\ outcome'[t].version = v
                 /\ Stored(d, v, req[t].body)'
    <3>1. PICK t \in Txns :
            /\ Saved(t) /\ req[t].doc = d /\ outcome[t].version = v
            /\ Stored(d, v, req[t].body)
      BY <2>2 DEF RevisionsExact
    <3>2. outcome'[t] = outcome[t] /\ req'[t] = req[t]
      BY <3>1
    <3>3. QED
      BY <3>1, <3>2 DEF Stored
  <2>3. \A r, s \in revisions'[d] : r.version = s.version => r = s
    BY DEF RevisionsExact
  <2>4. QED
    BY <2>1, <2>2, <2>3
<1>4. AppliedOncePerKey'
  BY DEF AppliedOncePerKey
<1>5. ReceiptsTruthful'
  BY DEF ReceiptsTruthful
<1>6. MinutesNeedTranscript'
  BY DEF MinutesNeedTranscript
<1>7. QED
  BY <1>1, <1>2, <1>3, <1>4, <1>5, <1>6

\* Until the purge, no committed save is ahead of its document.
LEMMA SavedBounded ==
  ASSUME TypeOK, HistoryInv, meeting # "PURGED", NEW u \in Txns, Saved(u)
  PROVE  /\ req[u] \in Request
         /\ outcome[u].version \in Nat
         /\ outcome[u].version <= doc[req[u].doc].version
<1>1. pc[u] = "done" /\ req[u] \in Request
  BY ContentAssumption DEF TypeOK, HistoryInv, AnswersFinal, Saved, Answered
<1>2. req[u].doc \in Docs
  BY <1>1 DEF Request
<1>3. Stored(req[u].doc, outcome[u].version, req[u].body)
  BY DEF HistoryInv, AcknowledgedSaveStored
<1>4. doc[req[u].doc].version \in Nat /\ outcome[u].version \in Nat
  BY <1>2 DEF TypeOK, Row, Absent
<1>5. CASE doc[req[u].doc] = [version |-> outcome[u].version, body |-> req[u].body]
  BY <1>1, <1>4, <1>5
<1>6. CASE [version |-> outcome[u].version, body |-> req[u].body] \in revisions[req[u].doc]
  <2>1. outcome[u].version < doc[req[u].doc].version
    BY <1>2, <1>6 DEF HistoryInv, RevisionsExact
  <2>2. QED
    BY <1>1, <1>4, <2>1
<1>7. QED
  BY <1>3, <1>5, <1>6 DEF Stored

\* A statement answers exactly when it ends the transaction.
LEMMA AnswersStep ==
  ASSUME TypeOK, AnswersFinal, NEW t \in Txns, Save(t) \/ Crash(t)
  PROVE  /\ \A u \in Txns : pc'[u] = "done" <=> outcome'[u].tag # "NONE"
         /\ outcome[t].tag = "NONE"
         /\ ~Commit(t) /\ ~ReplayReceipt(t) => outcome'[t].tag \notin {"SAVED", "REPLAYED"}
<1> DEFINE Ends ==
      /\ \A u \in Txns : pc'[u] = "done" <=> outcome'[u].tag # "NONE"
      /\ outcome[t].tag = "NONE"
      /\ ~Commit(t) /\ ~ReplayReceipt(t) => outcome'[t].tag \notin {"SAVED", "REPLAYED"}
<1>a. ASSUME NEW label, label # "done", pc[t] # "done",
             Goto(t, label), UNCHANGED outcome
      PROVE  Ends
  BY <1>a DEF TypeOK, Goto, AnswersFinal
<1>b. ASSUME NEW tag, tag # "NONE", NEW version, pc[t] # "done", Answer(t, tag, version),
             tag \in {"SAVED", "REPLAYED"} => Commit(t) \/ ReplayReceipt(t)
      PROVE  Ends
  BY <1>b DEF TypeOK, Answer, Goto, AnswersFinal
<1> SUFFICES Ends
  OBVIOUS
<1> HIDE DEF Ends
<1>1. CASE CheckMeeting(t)
  BY <1>1, <1>a, <1>b DEF CheckMeeting, Step, Refuse, AfterChecks
<1>2. CASE RequireTranscript(t)
  BY <1>2, <1>a, <1>b DEF RequireTranscript, Step, Refuse, AfterChecks
<1>3. CASE ClaimKey(t)
  BY <1>3, <1>a, <1>b DEF ClaimKey, Step, Refuse
<1>4. CASE ReplayReceipt(t)
  BY <1>4, <1>b DEF ReplayReceipt, Refuse
<1>5. CASE SelectForUpdate(t)
  BY <1>5, <1>a, <1>b DEF SelectForUpdate, Refuse
<1>6. CASE InsertDocument(t)
  BY <1>6, <1>a, <1>b DEF InsertDocument, Step, Refuse
<1>7. CASE UpdateDocument(t)
  BY <1>7, <1>a, <1>b DEF UpdateDocument, Step, Refuse
<1>8. CASE LoadSaved(t)
  BY <1>8, <1>a, <1>b DEF LoadSaved, Step, Refuse
<1>9. CASE Commit(t)
  BY <1>9, <1>b DEF Commit, Publish
<1>10. CASE Crash(t)
  BY <1>10, <1>b DEF Crash, Refuse
<1>11. QED
  BY <1>1, <1>2, <1>3, <1>4, <1>5, <1>6, <1>7, <1>8, <1>9, <1>10 DEF Save

\* A statement that is not a commit keeps the minutes behind their check.
LEMMA MinutesCheckedStep ==
  ASSUME TypeOK, MinutesChecked, NEW t \in Txns, Save(t) \/ Crash(t), ~Commit(t)
  PROVE  MinutesChecked'
<1>1. /\ req' = req /\ UNCHANGED database
      /\ \A u \in Txns \ {t} : pc'[u] = pc[u]
  BY OthersUntouched
<1>2. /\ pc'[t] \in {"claim", "existing", "select", "insert", "update", "load", "commit"}
      /\ req[t].doc = "minutes"
      =>  \/ pc[t] \in {"claim", "existing", "select", "insert", "update", "load", "commit"}
          \/ doc["transcript"].version > 0
  <2> USE DEF TypeOK, Answer, Refuse, Step, Goto, AfterChecks
  <2>1. CASE CheckMeeting(t)
    BY <2>1 DEF CheckMeeting
  <2>2. CASE RequireTranscript(t)
    BY <2>2 DEF RequireTranscript
  <2>3. CASE ClaimKey(t) \/ ReplayReceipt(t) \/ SelectForUpdate(t)
    BY <2>3 DEF ClaimKey, ReplayReceipt, SelectForUpdate
  <2>4. CASE InsertDocument(t) \/ UpdateDocument(t) \/ LoadSaved(t)
    BY <2>4 DEF InsertDocument, UpdateDocument, LoadSaved
  <2>5. CASE Crash(t)
    BY <2>5 DEF Crash
  <2>6. QED
    BY <2>1, <2>2, <2>3, <2>4, <2>5 DEF Save
<1>3. QED
  BY <1>1, <1>2 DEF MinutesChecked, database

\* What a commit does, in terms of the database it finds: the row it replaces
\* is the one it read, and the version it creates is the next.
LEMMA CommitEffect ==
  ASSUME TypeOK, LockInv, HistoryInv, NEW t \in Txns, Commit(t)
  PROVE  /\ req[t] \in Request /\ req[t].doc \in Docs /\ meeting # "PURGED" /\ meeting' = meeting
         /\ ~Saved(t) /\ Claimed(t) = (req[t].key # NoKey)
         /\ req' = req /\ doc[req[t].doc].version = req[t].base
         /\ outcome' = [outcome EXCEPT ![t] = [tag |-> "SAVED", version |-> req[t].base + 1]]
         /\ doc' = [doc EXCEPT ![req[t].doc] =
                      [version |-> req[t].base + 1, body |-> req[t].body]]
         /\ revisions' = [revisions EXCEPT ![req[t].doc] = @ \cup ({doc[req[t].doc]} \ {Absent})]
         /\ receipts' = [receipts EXCEPT ![req[t].doc] = @ \cup Completed(t, req[t].base + 1)]
<1>1. /\ pc[t] = "commit" /\ req[t] \in Request /\ req[t].doc \in Docs
      /\ Answer(t, "SAVED", read[t].version + 1) /\ UNCHANGED <<meeting, exclusive>>
  BY ContentAssumption DEF Commit, Publish, TypeOK, Request
<1>2. Holding(t) /\ meeting # "PURGED" /\ read[t] = doc[req[t].doc] /\ read[t].version = req[t].base
  BY <1>1 DEF LockInv, ReadIsCurrent, PurgeIsFinal, Holding
<1>3. ~Saved(t)
  BY <1>1 DEF HistoryInv, AnswersFinal, Saved, Answered
<1>4. QED
  BY <1>1, <1>2, <1>3 DEF Commit, Publish, Superseded, Answer, Claimed

\* A commit extends the chain at its end, so that everything answered before
\* it remains true.
LEMMA CommitKeepsHistory ==
  ASSUME TypeOK, LockInv, HistoryInv, NEW t \in Txns, Commit(t)
  PROVE  HistoryInv'
<1> DEFINE d == req[t].doc
           n == req[t].base + 1
<1>1. /\ req[t] \in Request /\ d \in Docs /\ meeting # "PURGED" /\ meeting' = meeting
      /\ ~Saved(t) /\ Claimed(t) = (req[t].key # NoKey)
      /\ req' = req /\ doc[d].version + 1 = n
      /\ outcome' = [outcome EXCEPT ![t] = [tag |-> "SAVED", version |-> n]]
      /\ doc' = [doc EXCEPT ![d] = [version |-> n, body |-> req[t].body]]
      /\ revisions' = [revisions EXCEPT ![d] = @ \cup ({doc[d]} \ {Absent})]
      /\ receipts' = [receipts EXCEPT ![d] = @ \cup Completed(t, n)]
  BY CommitEffect
<1>2. n \in Nat \ {0} /\ doc[d].version \in Nat
  BY <1>1 DEF Request, TypeOK, Row, Absent
<1> HIDE DEF d, n
\* The new row is stored, and everything stored before still is.
<1>3. doc'[d] = [version |-> n, body |-> req[t].body] /\ doc'[d].version = n
  BY <1>1 DEF TypeOK
<1>4. /\ \A e \in Docs : e # d => doc'[e] = doc[e] /\ revisions'[e] = revisions[e]
                                   /\ receipts'[e] = receipts[e]
      /\ revisions'[d] = revisions[d] \cup ({doc[d]} \ {Absent})
      /\ receipts'[d] = receipts[d] \cup Completed(t, n)
  BY <1>1 DEF TypeOK
<1>5. ASSUME NEW e \in Docs, NEW v \in Nat \ {0}, NEW b, Stored(e, v, b)
      PROVE  Stored(e, v, b)'
  <2>1. CASE [version |-> v, body |-> b] \in revisions[e]
    BY <1>4, <2>1 DEF Stored
  <2>2. CASE doc[e] = [version |-> v, body |-> b] /\ e = d
    <3>1. doc[d] # Absent
      BY <2>2 DEF Absent
    <3>2. QED
      BY <1>4, <2>2, <3>1 DEF Stored
  <2>3. CASE doc[e] = [version |-> v, body |-> b] /\ e # d
    BY <1>4, <2>3 DEF Stored
  <2>4. QED
    BY <1>5, <2>1, <2>2, <2>3 DEF Stored
<1>6. /\ Saved(t)' /\ outcome'[t].version = n
      /\ \A u \in Txns : u # t => outcome'[u] = outcome[u]
      /\ \A u \in Txns : Saved(u)' => u = t \/ Saved(u)
      /\ \A u \in Txns : Saved(u) => u # t
  BY <1>1 DEF TypeOK, Saved, Answered
<1>7. AnswersFinal'
  <2>1. \A u \in Txns : pc'[u] = "done" <=> outcome'[u].tag # "NONE"
    BY AnswersStep DEF HistoryInv, Save
  <2>2. \A u \in Txns : Saved(u)' => outcome'[u].version = req'[u].base + 1
    BY <1>1, <1>6 DEF HistoryInv, AnswersFinal, n
  <2>3. QED
    BY <2>1, <2>2 DEF AnswersFinal
<1>8. SavedHasReceipt'
  <2> SUFFICES ASSUME NEW u \in Txns, Saved(u)', req[u].key # NoKey
      PROVE  [request |-> req[u], response |-> outcome'[u].version] \in receipts'[req[u].doc]
    BY <1>1 DEF SavedHasReceipt
  <2>1. CASE u = t
    BY <1>4, <1>6, <2>1 DEF Completed, d
  <2>2. CASE u # t
    <3>1. [request |-> req[u], response |-> outcome'[u].version] \in receipts[req[u].doc]
      BY <1>1, <1>6, <2>2 DEF HistoryInv, SavedHasReceipt
    <3>2. req[u].doc \in Docs
      BY <1>1, <1>6, <2>2, SavedBounded DEF Request
    <3>3. QED
      BY <1>4, <3>1, <3>2
  <2>3. QED
    BY <2>1, <2>2
<1>9. \A e \in Docs : doc[e].version > 0 => doc'[e].version > 0
  BY <1>2, <1>3, <1>4
<1>10. MinutesChecked' /\ MinutesNeedTranscript'
  <2>1. \A u \in Txns : u # t => pc'[u] = pc[u]
    BY OthersUntouched DEF Save
  <2>2. pc'[t] = "done" /\ pc[t] = "commit"
    BY DEF Commit, Publish, Answer, Goto, TypeOK
  <2>3. MinutesChecked'
    BY <1>1, <1>9, <2>1, <2>2 DEF HistoryInv, MinutesChecked, Docs
  <2>4. CASE d = "minutes"
    <3>1. doc["transcript"].version > 0
      BY <1>1, <2>2, <2>4 DEF HistoryInv, MinutesChecked, d
    <3>2. QED
      BY <2>3, <3>1, <1>9 DEF MinutesNeedTranscript, Docs
  <2>5. CASE d # "minutes"
    BY <2>3, <2>5, <1>4, <1>9 DEF HistoryInv, MinutesNeedTranscript, Docs
  <2>6. QED
    BY <2>4, <2>5, <2>3
<1>11. AcknowledgedSaveStored'
  <2> SUFFICES ASSUME NEW u \in Txns, Saved(u)' \/ Answered(u, "REPLAYED")'
      PROVE  /\ outcome'[u].version = req[u].base + 1
             /\ Stored(req[u].doc, outcome[u].version, req[u].body)'
    BY <1>1 DEF AcknowledgedSaveStored
  <2>1. CASE u = t
    BY <1>1, <1>3, <1>6, <2>1 DEF Stored, d, n
  <2>2. CASE u # t
    <3>1. Saved(u) \/ Answered(u, "REPLAYED")
      BY <1>6, <2>2 DEF Saved, Answered
    <3>2. /\ outcome[u].version = req[u].base + 1
          /\ Stored(req[u].doc, outcome[u].version, req[u].body)
      BY <1>1, <3>1 DEF HistoryInv, AcknowledgedSaveStored
    <3>3. req[u] \in Request
      BY <3>1, ContentAssumption DEF HistoryInv, AnswersFinal, TypeOK, Saved, Answered
    <3>4. req[u].doc \in Docs /\ outcome[u].version \in Nat \ {0}
      BY <3>2, <3>3 DEF Request
    <3>5. Stored(req[u].doc, outcome[u].version, req[u].body)'
      BY <1>1, <1>5, <1>6, <2>2, <3>2, <3>4 DEF Stored
    <3>6. QED
      BY <1>1, <1>6, <2>2, <3>2, <3>5
  <2>3. QED
    BY <2>1, <2>2
\* No earlier save has reached the version this one creates.
<1>12. \A u \in Txns : Saved(u) /\ req[u].doc = d => outcome[u].version # n
  BY <1>1, <1>2, SavedBounded
<1>13. OneAuthorPerVersion'
  BY <1>1, <1>6, <1>12 DEF HistoryInv, OneAuthorPerVersion, d
<1>14. RevisionsExact'
  <2> SUFFICES ASSUME NEW e \in Docs
      PROVE  /\ \A r \in revisions'[e] : r.version < doc'[e].version
             /\ \A v \in 1..doc'[e].version : \E u \in Txns :
                  /\ Saved(u)' /\ req'[u].doc = e /\ outcome'[u].version = v
                  /\ Stored(e, v, req[u].body)'
             /\ \A r, s \in revisions'[e] : r.version = s.version => r = s
    BY DEF RevisionsExact
  <2>1. \A r \in revisions[e] : r.version \in Nat /\ r.version < doc[e].version
    BY DEF HistoryInv, RevisionsExact, TypeOK, Row
  <2>2. \A r \in revisions'[e] : r.version < doc'[e].version
    BY <1>1, <1>2, <1>3, <1>4, <2>1
  <2>3. \A r, s \in revisions'[e] : r.version = s.version => r = s
    <3>1. \A r, s \in revisions[e] : r.version = s.version => r = s
      BY DEF HistoryInv, RevisionsExact
    <3>2. QED
      BY <1>4, <2>1, <3>1
  <2>4. ASSUME NEW v \in 1..doc'[e].version
        PROVE  \E u \in Txns :
                 /\ Saved(u)' /\ req'[u].doc = e /\ outcome'[u].version = v
                 /\ Stored(e, v, req[u].body)'
    <3>1. CASE e = d /\ v = n
      <4>1. Stored(e, v, req[t].body)'
        BY <1>1, <1>3, <3>1 DEF Stored
      <4>2. QED
        BY <1>1, <1>6, <3>1, <4>1 DEF d
    <3>2. CASE ~(e = d /\ v = n)
      <4>1. v \in 1..doc[e].version /\ v \in Nat \ {0}
        BY <1>1, <1>2, <1>3, <1>4, <2>4, <3>2 DEF TypeOK, Row, Absent
      <4>2. PICK u \in Txns :
              /\ Saved(u) /\ req[u].doc = e /\ outcome[u].version = v
              /\ Stored(e, v, req[u].body)
        BY <4>1 DEF HistoryInv, RevisionsExact
      <4>3. Stored(e, v, req[u].body)'
        BY <1>1, <1>5, <4>1, <4>2 DEF Stored
      <4>4. Saved(u)' /\ req'[u].doc = e /\ outcome'[u].version = v
        BY <1>1, <1>6, <4>2 DEF Saved, Answered
      <4>5. QED
        BY <4>3, <4>4
    <3>3. QED
      BY <3>1, <3>2
  <2>5. QED
    BY <2>2, <2>3, <2>4
\* A key this transaction has claimed has no receipt, and a save with that key
\* would have left one.
<1>15. AppliedOncePerKey'
  <2>1. ASSUME NEW u \in Txns, Saved(u), req[u].doc = d, req[u].key = req[t].key
        PROVE  req[t].key = NoKey
    <3>1. req[u].key # NoKey =>
            [request |-> req[u], response |-> outcome[u].version] \in receipts[d]
      BY <1>1, <2>1 DEF HistoryInv, SavedHasReceipt
    <3>2. Claimed(t) => \A r \in receipts[d] : r.request.key # req[t].key
      BY DEF LockInv, KeysUnused, d
    <3>3. QED
      BY <1>1, <2>1, <3>1, <3>2
  <2>2. QED
    BY <1>1, <1>6, <2>1 DEF HistoryInv, AppliedOncePerKey, d
<1>16. ReceiptsTruthful'
  <2> SUFFICES ASSUME NEW e \in Docs, NEW r \in receipts'[e]
      PROVE  \E u \in Txns : Saved(u)' /\ req'[u] = r.request /\ outcome'[u].version = r.response
    BY DEF ReceiptsTruthful
  <2>1. CASE r \in receipts[e]
    <3>1. PICK u \in Txns : Saved(u) /\ req[u] = r.request /\ outcome[u].version = r.response
      BY <2>1 DEF HistoryInv, ReceiptsTruthful
    <3>2. QED
      BY <1>1, <1>6, <3>1 DEF Saved, Answered
  <2>2. CASE r \in Completed(t, n)
    BY <1>1, <1>6, <2>2 DEF Completed
  <2>3. QED
    BY <1>4, <2>1, <2>2
<1>17. QED
  BY <1>7, <1>8, <1>10, <1>11, <1>13, <1>14, <1>15, <1>16 DEF HistoryInv

\* Every statement keeps answers, versions, revisions and receipts in agreement.
LEMMA HistoryInvStep == TypeOK /\ LockInv /\ HistoryInv /\ [Next]_vars => HistoryInv'
<1> SUFFICES ASSUME TypeOK, LockInv, HistoryInv, [Next]_vars PROVE HistoryInv'
  OBVIOUS
<1>1. ASSUME NEW t \in Txns, Save(t) \/ Crash(t), ~Commit(t) PROVE HistoryInv'
  <2>1. /\ req' = req /\ UNCHANGED database
        /\ \A u \in Txns : u # t => outcome'[u] = outcome[u]
    BY <1>1, OthersUntouched
  <2>2. /\ \A u \in Txns : pc'[u] = "done" <=> outcome'[u].tag # "NONE"
        /\ outcome[t].tag = "NONE"
        /\ ~ReplayReceipt(t) => outcome'[t].tag \notin {"SAVED", "REPLAYED"}
    BY <1>1, AnswersStep DEF HistoryInv
  <2>3. outcome'[t].tag # "SAVED"
    BY <1>1, <2>2 DEF ReplayReceipt, Answer, Refuse, TypeOK
  <2>4. \A u \in Txns : Saved(u) \/ Saved(u)' => outcome'[u] = outcome[u] /\ req'[u] = req[u]
    BY <2>1, <2>2, <2>3 DEF Saved, Answered
  <2>5. /\ SavedHasReceipt' /\ OneAuthorPerVersion' /\ RevisionsExact'
        /\ AppliedOncePerKey' /\ ReceiptsTruthful' /\ MinutesNeedTranscript'
    BY <2>1, <2>4, HistoryKept
  <2>6. MinutesChecked'
    BY <1>1, MinutesCheckedStep DEF HistoryInv
  <2>7. AnswersFinal'
    BY <2>1, <2>2, <2>4 DEF HistoryInv, AnswersFinal, Saved, Answered
  \* The receipt a replay reads is that of a committed save of the same request.
  <2>8. ASSUME Answered(t, "REPLAYED")', meeting # "PURGED"
        PROVE  /\ outcome'[t].version = req[t].base + 1
               /\ Stored(req[t].doc, outcome'[t].version, req[t].body)
    <3>1. PICK r \in receipts[req[t].doc] :
            r.request = req[t] /\ Answer(t, "REPLAYED", r.response) /\ pc[t] = "existing"
      BY <2>2, <2>8 DEF ReplayReceipt, Answered, Refuse, Answer, TypeOK
    <3>2. req[t].doc \in Docs
      BY <3>1, ContentAssumption DEF TypeOK, Request
    <3>3. PICK u \in Txns : Saved(u) /\ req[u] = r.request /\ outcome[u].version = r.response
      BY <3>2 DEF HistoryInv, ReceiptsTruthful
    <3>4. outcome'[t].version = outcome[u].version
      BY <3>1, <3>3 DEF Answer, TypeOK
    <3>5. QED
      BY <2>8, <3>1, <3>3, <3>4 DEF HistoryInv, AcknowledgedSaveStored
  <2>9. AcknowledgedSaveStored'
    <3> SUFFICES ASSUME NEW u \in Txns, Saved(u)' \/ Answered(u, "REPLAYED")', meeting # "PURGED"
        PROVE  /\ outcome'[u].version = req[u].base + 1
               /\ Stored(req[u].doc, outcome[u].version, req[u].body)'
      BY <2>1 DEF AcknowledgedSaveStored, database
    <3>1. CASE u = t
      BY <2>1, <2>3, <2>8, <3>1 DEF Stored, Saved, Answered, database
    <3>2. CASE u # t
      BY <2>1, <3>2 DEF HistoryInv, AcknowledgedSaveStored, Stored, Saved, Answered, database
    <3>3. QED
      BY <3>1, <3>2
  <2>10. QED
    BY <2>5, <2>6, <2>7, <2>9 DEF HistoryInv
<1>2. ASSUME NEW t \in Txns, Begin(t) PROVE HistoryInv'
  <2>1. /\ UNCHANGED database /\ outcome' = outcome /\ outcome[t].tag = "NONE"
        /\ pc'[t] = "meeting" /\ \A u \in Txns : u # t => pc'[u] = pc[u] /\ req'[u] = req[u]
    BY <1>2 DEF Begin, Goto, TypeOK, HistoryInv, AnswersFinal
  <2>2. \A u \in Txns : outcome[u].tag # "NONE" => req'[u] = req[u]
    BY <2>1
  <2>3. /\ SavedHasReceipt' /\ OneAuthorPerVersion' /\ RevisionsExact'
        /\ AppliedOncePerKey' /\ ReceiptsTruthful' /\ MinutesNeedTranscript'
    <3>1. \A u \in Txns : Saved(u) \/ Saved(u)' => outcome'[u] = outcome[u] /\ req'[u] = req[u]
      BY <2>1, <2>2 DEF Saved, Answered
    <3>2. QED
      BY <2>1, <3>1, HistoryKept
  <2>4. MinutesChecked'
    BY <2>1 DEF HistoryInv, MinutesChecked, database
  <2>5. AnswersFinal'
    BY <1>2, <2>1, <2>2 DEF HistoryInv, AnswersFinal, Saved, Answered, Begin
  <2>6. AcknowledgedSaveStored'
    BY <2>1, <2>2 DEF HistoryInv, AcknowledgedSaveStored, Stored, Saved, Answered, database
  <2>7. QED
    BY <2>3, <2>4, <2>5, <2>6 DEF HistoryInv
<1>3. CASE Deletion
  <2>1. CASE CommitPurge
    BY <2>1 DEF CommitPurge, Unlock, HistoryInv, AnswersFinal, SavedHasReceipt, MinutesChecked,
                AcknowledgedSaveStored, OneAuthorPerVersion, RevisionsExact, AppliedOncePerKey,
                ReceiptsTruthful, MinutesNeedTranscript, Saved, Answered, Absent, Docs
  <2>2. CASE ~CommitPurge
    <3>1. /\ UNCHANGED <<doc, revisions, receipts, pc, req, read, outcome>>
          /\ meeting # "PURGED" \/ meeting' = meeting
      BY <1>3, <2>2 DEF Deletion, LockForArchive, LockForPurge, LockMeeting, CommitArchive,
                        RollbackDeletion, Unlock, LockInv, MeetingHeld
    <3>2. /\ AnswersFinal' /\ SavedHasReceipt' /\ MinutesChecked' /\ AcknowledgedSaveStored'
      BY <3>1 DEF HistoryInv, AnswersFinal, SavedHasReceipt, MinutesChecked,
                  AcknowledgedSaveStored, Stored, Saved, Answered
    <3>3. /\ OneAuthorPerVersion' /\ RevisionsExact' /\ AppliedOncePerKey' /\ ReceiptsTruthful'
          /\ MinutesNeedTranscript'
      BY <3>1 DEF HistoryInv, OneAuthorPerVersion, RevisionsExact, AppliedOncePerKey,
                  ReceiptsTruthful, MinutesNeedTranscript, Stored, Saved, Answered
    <3>4. QED
      BY <3>2, <3>3 DEF HistoryInv
  <2>3. QED
    BY <2>1, <2>2
<1>4. CASE UNCHANGED vars
  BY <1>4 DEF vars, HistoryInv, AnswersFinal, SavedHasReceipt, MinutesChecked,
              AcknowledgedSaveStored, OneAuthorPerVersion, RevisionsExact, AppliedOncePerKey,
              ReceiptsTruthful, MinutesNeedTranscript, Stored, Saved, Answered
<1>5. QED
  BY <1>1, <1>2, <1>3, <1>4, CommitKeepsHistory DEF Next, Save, Quiescent

\* The inductive invariant: with the locks, the answers given so far and the
\* stored versions agree for ever.
THEOREM HistoryCorrect == Spec => []HistoryInv
<1>1. Init => HistoryInv
  BY DEF Init, HistoryInv, AnswersFinal, SavedHasReceipt, MinutesChecked,
         AcknowledgedSaveStored, OneAuthorPerVersion, RevisionsExact, AppliedOncePerKey,
         ReceiptsTruthful, MinutesNeedTranscript, Saved, Answered, Unanswered, Absent, Docs
<1>2. QED
  BY <1>1, HistoryInvStep, TypeCorrect, LocksCorrect, PTL DEF Spec

\* No acknowledged save is lost before the meeting is purged.
THEOREM AcknowledgedSavesAreStored == Spec => []AcknowledgedSaveStored
<1>1. HistoryInv => AcknowledgedSaveStored
  BY DEF HistoryInv
<1>2. QED
  BY <1>1, HistoryCorrect, PTL

\* No update is lost: no two requests produce the same version.
THEOREM NoLostUpdate == Spec => []OneAuthorPerVersion
<1>1. HistoryInv => OneAuthorPerVersion
  BY DEF HistoryInv
<1>2. QED
  BY <1>1, HistoryCorrect, PTL

\* The revisions are exactly the superseded versions.
THEOREM RevisionsAreExact == Spec => []RevisionsExact
<1>1. HistoryInv => RevisionsExact
  BY DEF HistoryInv
<1>2. QED
  BY <1>1, HistoryCorrect, PTL

\* An idempotency key is applied at most once per operation.
THEOREM KeysApplyOnce == Spec => []AppliedOncePerKey
<1>1. HistoryInv => AppliedOncePerKey
  BY DEF HistoryInv
<1>2. QED
  BY <1>1, HistoryCorrect, PTL

\* Every receipt is that of a committed save.
THEOREM ReceiptsAreTruthful == Spec => []ReceiptsTruthful
<1>1. HistoryInv => ReceiptsTruthful
  BY DEF HistoryInv
<1>2. QED
  BY <1>1, HistoryCorrect, PTL

\* There are no minutes without a transcript.
THEOREM MinutesFollowTranscript == Spec => []MinutesNeedTranscript
<1>1. HistoryInv => MinutesNeedTranscript
  BY DEF HistoryInv
<1>2. QED
  BY <1>1, HistoryCorrect, PTL

\* A keyed or first save commits only into an active meeting.
THEOREM KeyedSavesNeedActiveMeeting == Spec => KeyedSaveNeedsActiveMeeting
<1> DEFINE A == \A t \in Txns :
       Answered(t, "NONE") /\ Saved(t)' /\ (req[t].key # NoKey \/ read[t].version = 0)
       => meeting = "ACTIVE"
<1>1. TypeOK /\ LockInv /\ HistoryInv /\ [Next]_vars => [A]_vars
  <2> SUFFICES ASSUME TypeOK, LockInv, HistoryInv, Next, NEW t \in Txns,
                      outcome[t].tag = "NONE", Saved(t)',
                      req[t].key # NoKey \/ read[t].version = 0
      PROVE  meeting = "ACTIVE"
    BY DEF Answered
  <2>1. outcome'[t] # outcome[t] /\ outcome'[t].tag = "SAVED"
    BY DEF Saved, Answered
  <2>2. PICK u \in Txns : Save(u) \/ Crash(u)
    BY <2>1 DEF Next, Begin, Quiescent, vars, Deletion, LockForArchive, LockForPurge, LockMeeting,
                CommitArchive, CommitPurge, RollbackDeletion, Unlock
  <2>3. u = t
    BY <2>1, <2>2, OthersUntouched
  <2>4. Commit(t)
    <3>1. CASE ReplayReceipt(t)
      BY <2>1, <3>1 DEF ReplayReceipt, Refuse, Answer, TypeOK
    <3>2. QED
      BY <2>1, <2>2, <2>3, <3>1, AnswersStep DEF HistoryInv
  <2>5. QED
    BY <2>4 DEF Commit, Publish, LockInv, MeetingHeld, HoldsKeyShare
<1>2. QED
  BY <1>1, TypeCorrect, LocksCorrect, HistoryCorrect, PTL DEF Spec, KeyedSaveNeedsActiveMeeting

\* A retry of a committed keyed save never conflicts with its own earlier
\* attempt, nor is it applied a second time.
THEOREM RetriesNeverSelfConflict == Spec => RetryNeverSelfConflicts
<1> DEFINE A == \A t, u \in Txns :
       /\ pc[t] # "done" /\ pc'[t] = "done"
       /\ Saved(u) /\ req[u] = req[t] /\ req[t].key # NoKey
       /\ meeting # "PURGED"
       => outcome'[t].tag \notin {"VERSION_CONFLICT", "KEY_CONFLICT", "SAVED"}
<1>1. TypeOK /\ LockInv /\ HistoryInv /\ [Next]_vars => [A]_vars
  <2> SUFFICES ASSUME TypeOK, LockInv, HistoryInv, Next, NEW t \in Txns, NEW u \in Txns,
                      pc[t] # "done", pc'[t] = "done",
                      Saved(u), req[u] = req[t], req[t].key # NoKey, meeting # "PURGED"
      PROVE  outcome'[t].tag \notin {"VERSION_CONFLICT", "KEY_CONFLICT", "SAVED"}
    OBVIOUS
  \* The receipt of the committed attempt is there, so the key is not claimed.
  <2>1. [request |-> req[t], response |-> outcome[u].version] \in receipts[req[t].doc]
    BY DEF HistoryInv, SavedHasReceipt
  <2>2. ~Claimed(t)
    BY <2>1 DEF LockInv, KeysUnused
  <2>3. PICK w \in Txns : Save(w) \/ Crash(w)
    BY DEF Next, Begin, Goto, TypeOK, Quiescent, vars, Deletion, LockForArchive, LockForPurge,
           LockMeeting, CommitArchive, CommitPurge, RollbackDeletion, Unlock
  <2>4. w = t
    BY <2>3, OthersUntouched
  <2> USE DEF Answer, Refuse, TypeOK
  <2>5. CASE CheckMeeting(t) \/ RequireTranscript(t) \/ ClaimKey(t) \/ Crash(t)
    BY <2>5 DEF CheckMeeting, RequireTranscript, ClaimKey, Crash, Step, Goto, AfterChecks
  <2>6. CASE ReplayReceipt(t)
    BY <2>1, <2>6 DEF ReplayReceipt
  <2>7. CASE SelectForUpdate(t) \/ InsertDocument(t) \/ UpdateDocument(t) \/ LoadSaved(t) \/ Commit(t)
    BY <2>2, <2>7 DEF SelectForUpdate, InsertDocument, UpdateDocument, LoadSaved, Commit, Publish,
                      Claimed
  <2>8. QED
    BY <2>3, <2>4, <2>5, <2>6, <2>7 DEF Save
<1>2. QED
  BY <1>1, TypeCorrect, LocksCorrect, HistoryCorrect, PTL DEF Spec, RetryNeverSelfConflicts

\* Committed content moves forward one version at a time and keeps what it
\* replaces, until a purge removes all of it at once.
THEOREM ContentMovesForward == Spec => ForwardOnly
<1> DEFINE content == <<doc, revisions, receipts>>
           A == \/ \A d \in Docs :
                     /\ revisions[d] \subseteq revisions'[d]
                     /\ receipts[d] \subseteq receipts'[d]
                     /\ \/ doc'[d] = doc[d]
                        \/ /\ doc'[d].version = doc[d].version + 1
                           /\ doc[d] # Absent => doc[d] \in revisions'[d]
                \/ /\ meeting' = "PURGED"
                   /\ \A d \in Docs : doc'[d] = Absent /\ revisions'[d] = {} /\ receipts'[d] = {}
<1>1. TypeOK /\ LockInv /\ HistoryInv /\ [Next]_vars => [A]_content
  <2> SUFFICES ASSUME TypeOK, LockInv, HistoryInv, Next, content' # content PROVE A
    BY DEF vars
  <2>1. CASE CommitPurge
    BY <2>1 DEF CommitPurge
  <2>2. ASSUME NEW t \in Txns, Commit(t) PROVE A
    <3>0. /\ req[t].doc \in Docs /\ doc[req[t].doc].version = req[t].base
          /\ doc' = [doc EXCEPT ![req[t].doc] =
                       [version |-> req[t].base + 1, body |-> req[t].body]]
          /\ revisions' = [revisions EXCEPT ![req[t].doc] = @ \cup ({doc[req[t].doc]} \ {Absent})]
          /\ receipts' = [receipts EXCEPT ![req[t].doc] = @ \cup Completed(t, req[t].base + 1)]
      BY <2>2, CommitEffect
    <3>1. ASSUME NEW d \in Docs
          PROVE  /\ revisions[d] \subseteq revisions'[d]
                 /\ receipts[d] \subseteq receipts'[d]
                 /\ \/ doc'[d] = doc[d]
                    \/ /\ doc'[d].version = doc[d].version + 1
                       /\ doc[d] # Absent => doc[d] \in revisions'[d]
      <4>1. CASE d = req[t].doc
        <5>1. /\ doc'[d] = [version |-> doc[d].version + 1, body |-> req[t].body]
              /\ revisions'[d] = revisions[d] \cup ({doc[d]} \ {Absent})
              /\ receipts[d] \subseteq receipts'[d]
          BY <3>0, <4>1 DEF TypeOK
        <5>2. QED
          BY <5>1
      <4>2. CASE d # req[t].doc
        BY <3>0, <4>2 DEF TypeOK
      <4>3. QED
        BY <4>1, <4>2
    <3>2. QED
      BY <3>1
  <2>3. CASE Deletion /\ ~CommitPurge
    BY <2>3 DEF Deletion, LockForArchive, LockForPurge, LockMeeting, CommitArchive,
                RollbackDeletion, Unlock
  <2>4. ASSUME NEW t \in Txns, Save(t) \/ Crash(t), ~Commit(t) PROVE A
    BY <2>4, OthersUntouched DEF database
  <2>5. QED
    BY <2>1, <2>2, <2>3, <2>4 DEF Next, Begin, database, Quiescent, vars, Save
<1>2. QED
  BY <1>1, TypeCorrect, LocksCorrect, HistoryCorrect, PTL DEF Spec, ForwardOnly
=============================================================================
