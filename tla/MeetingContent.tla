--------------------------- MODULE MeetingContent ---------------------------
(***************************************************************************)
(* The confirmed content of one meeting in PostgreSQL: its transcript and  *)
(* its minutes, each with a version, its revisions and the receipts of the *)
(* idempotent saves.  Concurrent requests run saveTranscript / saveMinutes *)
(* (packages/db/src/index.ts) inside withTransaction; every SQL statement  *)
(* that another transaction can observe or wait for is one step.           *)
(*                                                                         *)
(* PostgreSQL runs READ COMMITTED: a transaction's writes are private until*)
(* COMMIT, and what others see of a running transaction is the locks it    *)
(* holds.  Each lock is taken by one statement and released at the end of  *)
(* the transaction, so who holds what is a function of pc (HoldsDocument,  *)
(* HoldsKey, HoldsKeyShare) and needs no variable of its own.              *)
(***************************************************************************)
EXTENDS Naturals, FiniteSets

CONSTANTS
  Txns,      \* server-side attempts to save: one transaction each
  Bodies,    \* contents a document can have
  Keys,      \* pairs <<actor, Idempotency-Key>>
  NoKey,     \* the request carries no Idempotency-Key header
  None,      \* no document row, no request
  Requests   \* the requests that clients may send

Docs == {"transcript", "minutes"}

\* A save: the document, the version the editor started from, the new
\* content, the idempotency key.  The request hash of a receipt covers all
\* of it except the key, which is in the receipt as well.
Request == [doc : Docs, base : Nat, body : Bodies, key : Keys \cup {NoKey}]

ASSUME ContentAssumption ==
  /\ Requests \subseteq Request
  /\ NoKey \notin Keys
  /\ None \notin Bodies /\ None \notin Requests

Absent  == [version |-> 0, body |-> None]
Row     == [version : Nat \ {0}, body : Bodies]
Receipt == [request : Request, response : Nat]

VARIABLES
  meeting,    \* "ACTIVE" (any status but ARCHIVED), "ARCHIVED", or "PURGED"
  exclusive,  \* who holds meetings ... FOR UPDATE: "free", "archive", "purge"
  doc,        \* doc[d]: the committed row of transcripts / meeting_minutes
  revisions,  \* revisions[d]: committed rows of the revision table
  receipts,   \* receipts[d]: committed content_mutation_receipts rows
  pc,         \* the next statement of each transaction
  req,        \* the request a transaction serves
  read,       \* the row SELECT ... FOR UPDATE returned to it
  outcome     \* what the caller was told

vars == <<meeting, exclusive, doc, revisions, receipts, pc, req, read, outcome>>
database == <<meeting, exclusive, doc, revisions, receipts>>

Unanswered == [tag |-> "NONE", version |-> 0]
Tags == {"NONE", "SAVED", "REPLAYED", "VERSION_CONFLICT", "KEY_CONFLICT",
         "NOT_FOUND", "TRANSCRIPT_REQUIRED", "FAILED"}
Labels == {"new", "meeting", "require", "claim", "existing", "select",
           "insert", "update", "load", "commit", "done"}

TypeOK ==
  /\ meeting \in {"ACTIVE", "ARCHIVED", "PURGED"}
  /\ exclusive \in {"free", "archive", "purge"}
  /\ doc \in [Docs -> Row \cup {Absent}]
  /\ revisions \in [Docs -> SUBSET Row]
  /\ receipts \in [Docs -> SUBSET Receipt]
  /\ pc \in [Txns -> Labels]
  /\ req \in [Txns -> Request \cup {None}]
  /\ \A t \in Txns : pc[t] # "new" => req[t] \in Requests
  /\ read \in [Txns -> Row \cup {Absent}]
  /\ outcome \in [Txns -> [tag : Tags, version : Nat]]

-----------------------------------------------------------------------------
(* Locks. *)

\* Faulty variants: SELECT without FOR UPDATE, and a transaction that is never
\* ended.
HoldsNothing(t, d) == FALSE
HoldsForEver(t, d) == pc[t] \in {"update", "load", "commit", "done"} /\ req[t].doc = d

\* The row lock of SELECT ... FOR UPDATE, or for a first save the entry it
\* has inserted in the unique index on meeting_id.
HoldsDocument(t, d) == pc[t] \in {"update", "load", "commit"} /\ req[t].doc = d

\* The uncommitted receipt a keyed transaction has inserted.
HoldsKey(t, d, k) ==
  /\ pc[t] \in {"select", "insert", "update", "load", "commit"}
  /\ req[t].doc = d
  /\ req[t].key = k

\* FOR KEY SHARE on the meetings row, taken by the foreign-key check of the
\* receipt or of the first row of the document.
HoldsKeyShare(t) ==
  \/ pc[t] \in {"select", "insert", "update", "load", "commit"} /\ req[t].key # NoKey
  \/ pc[t] \in {"load", "commit"} /\ read[t].version = 0

DocumentFree(d) == \A t \in Txns : ~HoldsDocument(t, d)
KeyFree(d, k)   == \A t \in Txns : ~HoldsKey(t, d, k)

ReceiptFor(d, k) == {r \in receipts[d] : r.request.key = k}

-----------------------------------------------------------------------------
Init ==
  /\ meeting = "ACTIVE"
  /\ exclusive = "free"
  /\ doc = [d \in Docs |-> Absent]
  /\ revisions = [d \in Docs |-> {}]
  /\ receipts = [d \in Docs |-> {}]
  /\ pc = [t \in Txns |-> "new"]
  /\ req = [t \in Txns |-> None]
  /\ read = [t \in Txns |-> Absent]
  /\ outcome = [t \in Txns |-> Unanswered]

Goto(t, label) == pc' = [pc EXCEPT ![t] = label]

Step(t, label) == Goto(t, label) /\ UNCHANGED <<database, req, read, outcome>>

Answer(t, tag, version) ==
  /\ Goto(t, "done")
  /\ outcome' = [outcome EXCEPT ![t] = [tag |-> tag, version |-> version]]
  /\ UNCHANGED <<req, read>>

\* The transaction throws: ROLLBACK, nothing it wrote survives.
Refuse(t, tag) == Answer(t, tag, 0) /\ UNCHANGED database

\* BEGIN, and the membership and role checks that precede the first
\* statement about the meeting.
Begin(t) ==
  /\ pc[t] = "new"
  /\ \E r \in Requests : req' = [req EXCEPT ![t] = r]
  /\ Goto(t, "meeting")
  /\ UNCHANGED <<database, read, outcome>>

\* Where a transaction goes once its preconditions hold: a request without a
\* key skips the receipt (executeIdempotentMutation).
AfterChecks(r) == IF r.key = NoKey THEN "select" ELSE "claim"

\* SELECT id FROM meetings ... status <> 'ARCHIVED': takes no lock.
CheckMeeting(t) ==
  /\ pc[t] = "meeting"
  /\ \/ /\ meeting = "ACTIVE"
        /\ Step(t, IF req[t].doc = "minutes" THEN "require" ELSE AfterChecks(req[t]))
     \/ /\ meeting # "ACTIVE"
        /\ Refuse(t, "NOT_FOUND")

\* Faulty variant: minutes are saved whether or not there is a transcript.
RequireNothing(t) == pc[t] = "require" /\ Step(t, AfterChecks(req[t]))

\* saveMinutes only: SELECT id FROM transcripts ... status = 'CONFIRMED'.
RequireTranscript(t) ==
  /\ pc[t] = "require"
  /\ \/ doc["transcript"].version > 0 /\ Step(t, AfterChecks(req[t]))
     \/ doc["transcript"].version = 0 /\ Refuse(t, "TRANSCRIPT_REQUIRED")

\* Faulty variant: a key that is already taken does not stop the mutation.
ClaimIgnored(t) == pc[t] = "claim" /\ Step(t, "select")

\* INSERT INTO content_mutation_receipts ... ON CONFLICT DO NOTHING: waits for
\* a concurrent insert of the same key; the foreign key waits for whoever
\* holds the meeting FOR UPDATE and fails once the meeting is gone.
ClaimKey(t) ==
  LET d == req[t].doc
      k == req[t].key
  IN  /\ pc[t] = "claim"
      /\ KeyFree(d, k)
      /\ \/ ReceiptFor(d, k) # {} /\ Step(t, "existing")
         \/ /\ ReceiptFor(d, k) = {}
            /\ exclusive = "free"
            /\ \/ meeting # "PURGED" /\ Step(t, "select")
               \/ meeting = "PURGED" /\ Refuse(t, "FAILED")

\* Faulty variant: the payload is not compared with the one of the receipt.
ReplayAnyPayload(t) ==
  /\ pc[t] = "existing"
  /\ \E r \in ReceiptFor(req[t].doc, req[t].key) :
       Answer(t, "REPLAYED", r.response) /\ UNCHANGED database

\* SELECT request_hash ... FOR UPDATE, then COMMIT of a transaction that
\* wrote nothing: the stored response, unless the payload differs or a purge
\* removed the receipt in between.
ReplayReceipt(t) ==
  LET mine == {r \in receipts[req[t].doc] : r.request = req[t]}
  IN  /\ pc[t] = "existing"
      /\ \/ \E r \in mine : Answer(t, "REPLAYED", r.response) /\ UNCHANGED database
         \/ mine = {} /\ Refuse(t, "KEY_CONFLICT")

\* SELECT * ... FOR UPDATE and the optimistic version check.  Without a
\* committed row there is nothing to lock and nothing to wait for.
SelectForUpdate(t) ==
  LET current == doc[req[t].doc]
  IN  /\ pc[t] = "select"
      /\ current.version # 0 => DocumentFree(req[t].doc)
      /\ \/ /\ current.version = req[t].base
            /\ read' = [read EXCEPT ![t] = current]
            /\ Goto(t, IF current.version = 0 THEN "insert" ELSE "update")
            /\ UNCHANGED <<database, req, outcome>>
         \/ /\ current.version # req[t].base
            /\ Refuse(t, "VERSION_CONFLICT")

\* INSERT of the first version: waits for a concurrent first save, violates
\* the unique index if that one committed, and the foreign key if the
\* meeting was purged.
InsertDocument(t) ==
  /\ pc[t] = "insert"
  /\ DocumentFree(req[t].doc)
  /\ \/ doc[req[t].doc].version # 0 /\ Refuse(t, "FAILED")
     \/ /\ doc[req[t].doc].version = 0
        /\ exclusive = "free"
        /\ \/ meeting # "PURGED" /\ Step(t, "load")
           \/ meeting = "PURGED" /\ Refuse(t, "FAILED")

\* The revision of the version being replaced, and the UPDATE.  saveTranscript
\* takes the snapshot from loadTranscriptDocument, which finds nothing once
\* the meeting is archived; saveMinutes maps the locked row.
UpdateDocument(t) ==
  /\ pc[t] = "update"
  /\ \/ /\ req[t].doc = "transcript" => meeting = "ACTIVE"
        /\ Step(t, "load")
     \/ /\ req[t].doc = "transcript" /\ meeting # "ACTIVE"
        /\ Refuse(t, "NOT_FOUND")

\* The document is loaded back through the join with an unarchived meeting.
LoadSaved(t) ==
  /\ pc[t] = "load"
  /\ \/ meeting = "ACTIVE" /\ Step(t, "commit")
     \/ meeting # "ACTIVE" /\ Refuse(t, "NOT_FOUND")

\* What COMMIT makes visible, all at once.
Publish(t, next, superseded, completed) ==
  LET d == req[t].doc
  IN  /\ pc[t] = "commit"
      /\ doc' = [doc EXCEPT ![d] = [version |-> next, body |-> req[t].body]]
      /\ revisions' = [revisions EXCEPT ![d] = @ \cup superseded]
      /\ receipts' = [receipts EXCEPT ![d] = @ \cup completed]
      /\ Answer(t, "SAVED", next)
      /\ UNCHANGED <<meeting, exclusive>>

Superseded(t) == {read[t]} \ {Absent}
Completed(t, response) ==
  IF req[t].key = NoKey THEN {} ELSE {[request |-> req[t], response |-> response]}

\* Faulty variants: the version is not advanced, the revision is forgotten, it
\* is filed under the new version, the receipt is left uncompleted, it keeps
\* the replaced version.
CommitSameVersion(t) == Publish(t, read[t].version, Superseded(t), Completed(t, read[t].version))
CommitWithoutRevision(t) == Publish(t, read[t].version + 1, {}, Completed(t, read[t].version + 1))
CommitWrongRevision(t) ==
  Publish(t, read[t].version + 1, {[r EXCEPT !.version = @ + 1] : r \in Superseded(t)},
          Completed(t, read[t].version + 1))
CommitWithoutReceipt(t) == Publish(t, read[t].version + 1, Superseded(t), {})
CommitStaleReceipt(t) == Publish(t, read[t].version + 1, Superseded(t), Completed(t, read[t].version))

\* The receipt is completed and the transaction commits: the new version,
\* the revision of the one it replaces and the receipt.
Commit(t) == Publish(t, read[t].version + 1, Superseded(t), Completed(t, read[t].version + 1))

\* Faulty variant: without a transaction, the row is already updated when the
\* process dies.
CrashHalfway(t) ==
  /\ pc[t] = "load"
  /\ doc' = [doc EXCEPT ![req[t].doc] = [version |-> read[t].version + 1, body |-> req[t].body]]
  /\ Answer(t, "FAILED", 0)
  /\ UNCHANGED <<meeting, exclusive, revisions, receipts>>

\* A statement fails, or the process or its connection dies: PostgreSQL rolls
\* the transaction back and the caller sees an error.
Crash(t) ==
  /\ pc[t] \notin {"new", "done"}
  /\ Refuse(t, "FAILED")

-----------------------------------------------------------------------------
(* The transactions that remove the meeting under the saves. *)

LockMeeting(holder) ==
  /\ exclusive = "free"
  /\ \A t \in Txns : ~HoldsKeyShare(t)
  /\ exclusive' = holder
  /\ UNCHANGED <<meeting, doc, revisions, receipts, pc, req, read, outcome>>

Unlock == exclusive' = "free" /\ UNCHANGED <<pc, req, read, outcome>>

\* requestMeetingDeletion: SELECT ... FOR UPDATE of a meeting not yet archived.
LockForArchive == meeting = "ACTIVE" /\ LockMeeting("archive")

CommitArchive ==
  /\ exclusive = "archive"
  /\ meeting' = "ARCHIVED"
  /\ Unlock
  /\ UNCHANGED <<doc, revisions, receipts>>

\* runRetentionSweep: an archived meeting past its recovery period, or a
\* meeting of any status past the organization's retention period.
LockForPurge == meeting # "PURGED" /\ LockMeeting("purge")

\* DELETE FROM meetings: the cascade removes content, revisions and receipts
\* and waits for the row locks of the saves.
CommitPurge ==
  /\ exclusive = "purge"
  /\ \A d \in Docs : DocumentFree(d)
  /\ meeting' = "PURGED"
  /\ doc' = [d \in Docs |-> Absent]
  /\ revisions' = [d \in Docs |-> {}]
  /\ receipts' = [d \in Docs |-> {}]
  /\ Unlock

RollbackDeletion ==
  /\ exclusive # "free"
  /\ Unlock
  /\ UNCHANGED <<meeting, doc, revisions, receipts>>

-----------------------------------------------------------------------------
Save(t) ==
  \/ CheckMeeting(t) \/ RequireTranscript(t) \/ ClaimKey(t) \/ ReplayReceipt(t)
  \/ SelectForUpdate(t) \/ InsertDocument(t) \/ UpdateDocument(t)
  \/ LoadSaved(t) \/ Commit(t)

Deletion ==
  LockForArchive \/ CommitArchive \/ LockForPurge \/ CommitPurge \/ RollbackDeletion

\* Every request has been answered and no deletion is running.
Quiescent ==
  /\ \A t \in Txns : pc[t] = "done"
  /\ exclusive = "free"
  /\ UNCHANGED vars

Next ==
  \/ \E t \in Txns : Begin(t) \/ Save(t) \/ Crash(t)
  \/ Deletion
  \/ Quiescent

Spec == Init /\ [][Next]_vars

\* PostgreSQL runs every statement that is not waiting, and its lock queues are
\* first come first served, so a statement whose lock is free again and again
\* is granted it (strong fairness); a deletion that holds the meeting goes on
\* unless it waits.  Nothing makes a client start, a transaction crash or a
\* deletion begin or be rolled back, so no failure can hide a deadlock.
Fairness ==
  /\ \A t \in Txns : SF_vars(Save(t))
  /\ WF_vars(CommitArchive \/ CommitPurge)

FairSpec == Spec /\ Fairness

-----------------------------------------------------------------------------
(* Properties. *)

Answered(t, tag) == outcome[t].tag = tag
Saved(t) == Answered(t, "SAVED")

\* Version v of document d is stored with body b, as the current row or as a
\* revision.
Stored(d, v, b) ==
  \/ doc[d] = [version |-> v, body |-> b]
  \/ [version |-> v, body |-> b] \in revisions[d]

\* No acknowledged save is ever lost: until the meeting is purged, what a
\* caller was told was saved (now or by the attempt whose receipt is replayed)
\* is still stored under the version it was told, the one after its base.
AcknowledgedSaveStored ==
  \A t \in Txns :
    meeting # "PURGED" /\ (Saved(t) \/ Answered(t, "REPLAYED")) =>
      /\ outcome[t].version = req[t].base + 1
      /\ Stored(req[t].doc, outcome[t].version, req[t].body)

\* No lost update: two requests never produce the same version of a document,
\* so every version replaces exactly the one its author had seen.
OneAuthorPerVersion ==
  \A t, u \in Txns :
    Saved(t) /\ Saved(u) /\ req[t].doc = req[u].doc /\ t # u =>
      outcome[t].version # outcome[u].version

\* The revisions are exactly the superseded versions 1 .. version-1, each
\* once, and each with the content one of the saves stored.
RevisionsExact ==
  \A d \in Docs :
    /\ \A r \in revisions[d] : r.version < doc[d].version
    /\ \A v \in 1..doc[d].version : \E t \in Txns :
         /\ Saved(t) /\ req[t].doc = d /\ outcome[t].version = v
         /\ Stored(d, v, req[t].body)
    /\ \A r, s \in revisions[d] : r.version = s.version => r = s

\* Idempotency: of all the attempts that carry one key for one operation at
\* most one creates a version, whatever crashes and races happen in between.
AppliedOncePerKey ==
  \A t, u \in Txns :
    /\ Saved(t) /\ Saved(u) /\ t # u
    /\ req[t].doc = req[u].doc /\ req[t].key = req[u].key
    => req[t].key = NoKey

\* A receipt is the truth: it describes a save that was committed and holds
\* the version that save created; the two are never committed apart.
ReceiptsTruthful ==
  \A d \in Docs : \A r \in receipts[d] :
    \E t \in Txns : Saved(t) /\ req[t] = r.request /\ outcome[t].version = r.response

\* Minutes exist only for a meeting with a confirmed transcript.
MinutesNeedTranscript == doc["minutes"].version > 0 => doc["transcript"].version > 0

\* A retry of a committed save is never told that it conflicts with its own
\* earlier attempt: the receipt is consulted before the version is compared.
RetryNeverSelfConflicts ==
  [][\A t, u \in Txns :
       /\ pc[t] # "done" /\ pc'[t] = "done"
       /\ Saved(u) /\ req[u] = req[t] /\ req[t].key # NoKey
       /\ meeting # "PURGED"
       => outcome'[t].tag \notin {"VERSION_CONFLICT", "KEY_CONFLICT", "SAVED"}]_vars

\* A keyed save, and a first save, holds the meeting against deletion until it
\* commits: none of them ever writes into an archived or purged meeting.  (An
\* update without a key takes no lock on the meeting and may.)
KeyedSaveNeedsActiveMeeting ==
  [][\A t \in Txns :
       Answered(t, "NONE") /\ Saved(t)' /\ (req[t].key # NoKey \/ read[t].version = 0)
       => meeting = "ACTIVE"]_vars

\* Committed content only moves forward, one version at a time, and each
\* version that is replaced is kept; only a purge removes anything, and then
\* everything at once.
ForwardOnly ==
  [][\/ \A d \in Docs :
          /\ revisions[d] \subseteq revisions'[d]
          /\ receipts[d] \subseteq receipts'[d]
          /\ \/ doc'[d] = doc[d]
             \/ /\ doc'[d].version = doc[d].version + 1
                /\ doc[d] # Absent => doc[d] \in revisions'[d]
     \/ /\ meeting' = "PURGED"
        /\ \A d \in Docs : doc'[d] = Absent /\ revisions'[d] = {} /\ receipts'[d] = {}
    ]_<<doc, revisions, receipts>>

\* Every request that is begun is answered: no lock is held for ever, no two
\* transactions wait for each other.
EveryRequestAnswered == \A t \in Txns : pc[t] = "meeting" ~> pc[t] = "done"
=============================================================================
