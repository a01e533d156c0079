------------------------------ MODULE Retention ------------------------------
(***************************************************************************)
(* Deletion and retention of meetings (packages/db/src/index.ts): users    *)
(* ask for a deletion (requestMeetingDeletion), every worker runs a sweep  *)
(* now and then (runRetentionSweep) that schedules the meetings past the   *)
(* retention period of their organization and purges what is due.          *)
(*                                                                         *)
(* A sweep is one transaction of several statements; what it writes is     *)
(* private until COMMIT, and the rows it has locked make other sweeps skip *)
(* them (SKIP LOCKED) and deletion requests wait.                          *)
(***************************************************************************)
EXTENDS Naturals, FiniteSets

CONSTANTS
  Meetings,
  Sweepers,    \* workers with RETENTION_SWEEP_ENABLED=true
  Users,       \* deletion requests sent to the web server
  Expires,     \* coalesce(ended_at, created_at) + retention_days, per meeting
  Recovery,    \* the 30 days a user's deletion can be undone
  Batch,       \* LIMIT of both statements of a sweep
  MaxTime,     \* bound: the clock stops here
  NoRequest,   \* no meeting_deletion_requests row
  None

ASSUME RetentionAssumption ==
  /\ Expires \in [Meetings -> Nat]
  /\ Recovery \in Nat /\ Batch \in Nat \ {0} /\ MaxTime \in Nat
  /\ NoRequest \notin [reason : {"USER_REQUEST", "RETENTION_EXPIRED"},
                       requestedAt : Nat, purgeAfter : Nat]

Reasons == {"USER_REQUEST", "RETENTION_EXPIRED"}
DeletionRequest == [reason : Reasons, requestedAt : Nat, purgeAfter : Nat]
Events == {"MEETING_DELETION_REQUESTED", "RETENTION_DELETION_SCHEDULED", "MEETING_PURGED"}

VARIABLES
  now,        \* the clock
  meeting,    \* "ACTIVE" (any status but ARCHIVED), "ARCHIVED" or "PURGED"
  request,    \* committed meeting_deletion_requests row of each meeting
  audit,      \* number of committed privacy_audit_events per meeting and type
  phase,      \* the next statement of each sweep
  at,         \* the timestamp a sweep works with
  seen,       \* the candidates in the snapshot of its first statement
  locked,     \* meetings its first statement has locked
  scheduled,  \* those of them it has inserted a request for
  due,        \* requests its second statement has locked
  deleted,    \* meetings it has deleted
  pc,         \* the next statement of each deletion request
  target,     \* the meeting it has locked
  since,      \* when it locked it
  answer      \* the receipt its caller got

committed == <<meeting, request, audit>>
sweeps == <<phase, at, seen, locked, scheduled, due, deleted>>
deletions == <<pc, target, since, answer>>
vars == <<now, committed, sweeps, deletions>>

TypeOK ==
  /\ now \in Nat
  /\ meeting \in [Meetings -> {"ACTIVE", "ARCHIVED", "PURGED"}]
  /\ request \in [Meetings -> DeletionRequest \cup {NoRequest}]
  /\ audit \in [Meetings -> [Events -> Nat]]
  /\ phase \in [Sweepers -> {"idle", "snapshot", "schedule", "due", "purge"}]
  /\ at \in [Sweepers -> Nat]
  /\ seen \in [Sweepers -> SUBSET Meetings]
  /\ locked \in [Sweepers -> SUBSET Meetings]
  /\ scheduled \in [Sweepers -> SUBSET Meetings]
  /\ due \in [Sweepers -> SUBSET Meetings]
  /\ deleted \in [Sweepers -> SUBSET Meetings]
  /\ pc \in [Users -> {"new", "locked", "done"}]
  /\ target \in [Users -> Meetings \cup {None}]
  /\ \A u \in Users : pc[u] = "locked" => target[u] \in Meetings
  /\ since \in [Users -> Nat]
  /\ answer \in [Users -> DeletionRequest \cup {NoRequest}]

-----------------------------------------------------------------------------
(* Row locks, and the rows a statement with a LIMIT picks. *)

\* Meetings locked by FOR UPDATE or by DELETE until the end of the sweep.
SweepHolds(s, m) == m \in locked[s] \cup deleted[s]

UserHolds(u, m) == pc[u] = "locked" /\ target[u] = m

FreeForSweep(s, m) ==
  /\ \A o \in Sweepers \ {s} : ~SweepHolds(o, m)
  /\ \A u \in Users : ~UserHolds(u, m)

FreeForUser(m) ==
  /\ \A s \in Sweepers : ~SweepHolds(s, m)
  /\ \A u \in Users : ~UserHolds(u, m)

\* The possible results of ORDER BY key LIMIT Batch (ids order ties at random).
Earliest(rows, key) ==
  {S \in SUBSET rows :
     /\ Cardinality(S) = IF Cardinality(rows) < Batch THEN Cardinality(rows) ELSE Batch
     /\ \A m \in S, n \in rows \ S : key[m] <= key[n]}

-----------------------------------------------------------------------------
Init ==
  /\ now = 0
  /\ meeting = [m \in Meetings |-> "ACTIVE"]
  /\ request = [m \in Meetings |-> NoRequest]
  /\ audit = [m \in Meetings |-> [e \in Events |-> 0]]
  /\ phase = [s \in Sweepers |-> "idle"]
  /\ at = [s \in Sweepers |-> 0]
  /\ seen = [s \in Sweepers |-> {}]
  /\ locked = [s \in Sweepers |-> {}]
  /\ scheduled = [s \in Sweepers |-> {}]
  /\ due = [s \in Sweepers |-> {}]
  /\ deleted = [s \in Sweepers |-> {}]
  /\ pc = [u \in Users |-> "new"]
  /\ target = [u \in Users |-> None]
  /\ since = [u \in Users |-> 0]
  /\ answer = [u \in Users |-> NoRequest]

\* A transaction takes seconds: never as long as the recovery period.  (The
\* clock waits for a deletion request whose recovery period must end before it
\* stops.)
Tick ==
  /\ now < MaxTime
  /\ \A s \in Sweepers : phase[s] # "idle" => now + 1 < at[s] + Recovery
  /\ \A u \in Users : pc[u] = "locked" =>
       now + 1 < since[u] + Recovery /\ now + 1 + Recovery <= MaxTime
  /\ now' = now + 1
  /\ UNCHANGED <<committed, sweeps, deletions>>

-----------------------------------------------------------------------------
(* runRetentionSweep *)

Phase(s, next) == phase' = [phase EXCEPT ![s] = next]

\* setInterval fires: now = new Date(), then BEGIN.
StartSweep(s) ==
  /\ phase[s] = "idle"
  /\ at' = [at EXCEPT ![s] = now]
  /\ Phase(s, "snapshot")
  /\ UNCHANGED <<now, committed, seen, locked, scheduled, due, deleted, deletions>>

\* The first statement takes its snapshot of the meetings without a request.
SeeCandidates(s) ==
  /\ phase[s] = "snapshot"
  /\ seen' = [seen EXCEPT ![s] =
       {m \in Meetings : meeting[m] # "PURGED" /\ request[m] = NoRequest /\ Expires[m] <= at[s]}]
  /\ Phase(s, "schedule")
  /\ UNCHANGED <<now, committed, at, locked, scheduled, due, deleted, deletions>>

ScheduleRows(s, rows, inserted) ==
  /\ locked' = [locked EXCEPT ![s] = rows]
  /\ scheduled' = [scheduled EXCEPT ![s] = inserted]
  /\ Phase(s, "due")
  /\ UNCHANGED <<now, committed, at, seen, due, deleted, deletions>>

Lockable(s) == {m \in seen[s] : meeting[m] # "PURGED" /\ FreeForSweep(s, m)}

\* It locks the candidates it can (FOR UPDATE OF meetings SKIP LOCKED LIMIT)
\* and inserts their requests; a request that was committed after the
\* snapshot is left as it is (ON CONFLICT DO NOTHING).
ScheduleExpired(s) ==
  /\ phase[s] = "schedule"
  /\ \E rows \in Earliest(Lockable(s), Expires) :
       ScheduleRows(s, rows, {m \in rows : request[m] = NoRequest})

\* What the sweep sees of the requests: those committed and its own.
PurgeAfter(s, m) == IF m \in scheduled[s] THEN at[s] ELSE request[m].purgeAfter
Visible(s) == {m \in Meetings : m \in scheduled[s] \/ request[m] # NoRequest}

SelectRows(s, candidates) ==
  /\ phase[s] = "due"
  /\ \E rows \in Earliest(candidates, [m \in candidates |-> PurgeAfter(s, m)]) :
       due' = [due EXCEPT ![s] = rows]
  /\ Phase(s, "purge")
  /\ UNCHANGED <<now, committed, at, seen, locked, scheduled, deleted, deletions>>

Unclaimed(s) == {m \in Visible(s) : \A o \in Sweepers \ {s} : m \notin due[o]}

\* Faulty variants: rows that are not due yet, rows of another sweep, nothing
\* but the requests of this sweep.
SelectEarly(s) == SelectRows(s, Unclaimed(s))
SelectLockedToo(s) == SelectRows(s, {m \in Visible(s) : PurgeAfter(s, m) <= at[s]})
SelectOwn(s) == SelectRows(s, scheduled[s])

\* SELECT ... WHERE purge_after <= $1 ... FOR UPDATE SKIP LOCKED LIMIT.
SelectDue(s) == SelectRows(s, {m \in Unclaimed(s) : PurgeAfter(s, m) <= at[s]})

\* The next due meeting: its MEETING_PURGED event, then DELETE, which waits
\* for whoever has the meeting locked.
NextDue(s) ==
  {m \in due[s] \ deleted[s] :
     \A n \in due[s] \ deleted[s] : PurgeAfter(s, m) <= PurgeAfter(s, n)}

PurgeMeeting(s) ==
  /\ phase[s] = "purge"
  /\ \E m \in NextDue(s) :
       /\ FreeForSweep(s, m)
       /\ deleted' = [deleted EXCEPT ![s] = @ \cup {m}]
  /\ UNCHANGED <<now, committed, phase, at, seen, locked, scheduled, due, deletions>>

\* The end of the transaction releases every lock.
EndSweep(s) ==
  /\ Phase(s, "idle")
  /\ at' = [at EXCEPT ![s] = 0]
  /\ seen' = [seen EXCEPT ![s] = {}]
  /\ locked' = [locked EXCEPT ![s] = {}]
  /\ scheduled' = [scheduled EXCEPT ![s] = {}]
  /\ due' = [due EXCEPT ![s] = {}]
  /\ deleted' = [deleted EXCEPT ![s] = {}]
  /\ UNCHANGED <<now, deletions>>

RecordEvents(s, m) ==
  [audit[m] EXCEPT
     !["RETENTION_DELETION_SCHEDULED"] = @ + (IF m \in scheduled[s] THEN 1 ELSE 0),
     !["MEETING_PURGED"] = @ + (IF m \in deleted[s] THEN 1 ELSE 0)]

\* COMMIT once every due meeting is deleted; the cascade takes its request
\* (and its content) with it, the audit events stay.
CommitSweep(s) ==
  /\ phase[s] = "purge"
  /\ due[s] = deleted[s]
  /\ meeting' = [m \in Meetings |-> IF m \in deleted[s] THEN "PURGED" ELSE meeting[m]]
  /\ request' = [m \in Meetings |->
       IF m \in deleted[s] THEN NoRequest
       ELSE IF m \in scheduled[s]
            THEN [reason |-> "RETENTION_EXPIRED", requestedAt |-> at[s], purgeAfter |-> at[s]]
            ELSE request[m]]
  /\ audit' = [m \in Meetings |-> RecordEvents(s, m)]
  /\ EndSweep(s)

\* Faulty variant: without a transaction the events stay behind.
AbortLeavesEvents(s) ==
  /\ phase[s] # "idle"
  /\ EndSweep(s)
  /\ audit' = [m \in Meetings |-> RecordEvents(s, m)]
  /\ UNCHANGED <<meeting, request>>

\* A statement fails or the worker dies: everything is rolled back.
AbortSweep(s) ==
  /\ phase[s] # "idle"
  /\ EndSweep(s)
  /\ UNCHANGED committed

-----------------------------------------------------------------------------
(* requestMeetingDeletion *)

EndDeletion(u, receipt) ==
  /\ pc' = [pc EXCEPT ![u] = "done"]
  /\ answer' = [answer EXCEPT ![u] = receipt]
  /\ UNCHANGED <<now, sweeps, target, since>>

\* SELECT id, status FROM meetings ... FOR UPDATE: waits for the lock; a purged
\* meeting is MEETING_NOT_FOUND.  (The bound on now lets the recovery period
\* end before the clock stops.)
LockForDeletion(u) ==
  /\ pc[u] = "new"
  /\ now + Recovery <= MaxTime
  /\ \E m \in Meetings :
       /\ FreeForUser(m)
       /\ meeting[m] # "PURGED"
       /\ pc' = [pc EXCEPT ![u] = "locked"]
       /\ target' = [target EXCEPT ![u] = m]
       /\ since' = [since EXCEPT ![u] = now]
  /\ UNCHANGED <<now, committed, sweeps, answer>>

MeetingNotFound(u) ==
  /\ pc[u] = "new"
  /\ \E m \in Meetings : FreeForUser(m) /\ meeting[m] = "PURGED"
  /\ EndDeletion(u, NoRequest)
  /\ UNCHANGED committed

\* A meeting that has a request already: its receipt, whoever made it.
ReturnExisting(u) ==
  /\ pc[u] = "locked"
  /\ request[target[u]] # NoRequest
  /\ EndDeletion(u, request[target[u]])
  /\ UNCHANGED committed

UserRequest(requestedAt, purgeAfter) ==
  [reason |-> "USER_REQUEST", requestedAt |-> requestedAt, purgeAfter |-> purgeAfter]

ArchiveMeeting(u, row) ==
  /\ request' = [request EXCEPT ![target[u]] = row]
  /\ meeting' = [meeting EXCEPT ![target[u]] = "ARCHIVED"]
  /\ audit' = [audit EXCEPT ![target[u]]["MEETING_DELETION_REQUESTED"] = @ + 1]
  /\ EndDeletion(u, row)

\* Faulty variants: a second request replaces the first; the recovery period
\* is counted backwards.
RequestAnew(u) ==
  /\ pc[u] = "locked"
  /\ \E requestedAt \in since[u]..now :
       ArchiveMeeting(u, UserRequest(requestedAt, requestedAt + Recovery))
RequestBackwards(u) ==
  /\ pc[u] = "locked"
  /\ request[target[u]] = NoRequest
  /\ \E requestedAt \in since[u]..now :
       ArchiveMeeting(u, UserRequest(requestedAt, requestedAt - Recovery))

\* Otherwise the request, the status ARCHIVED and the audit event are
\* committed together.  (An archived meeting without a request would be
\* MEETING_NOT_FOUND; there is none.)
RequestDeletion(u) ==
  /\ pc[u] = "locked"
  /\ request[target[u]] = NoRequest /\ meeting[target[u]] = "ACTIVE"
  /\ \E requestedAt \in since[u]..now :
       ArchiveMeeting(u, UserRequest(requestedAt, requestedAt + Recovery))

FailDeletion(u) ==
  /\ pc[u] = "locked"
  /\ EndDeletion(u, NoRequest)
  /\ UNCHANGED committed

-----------------------------------------------------------------------------
Progress(s) ==
  \/ StartSweep(s) \/ SeeCandidates(s) \/ ScheduleExpired(s) \/ SelectDue(s)
  \/ PurgeMeeting(s) \/ CommitSweep(s)

Deletion(u) ==
  \/ LockForDeletion(u) \/ MeetingNotFound(u) \/ ReturnExisting(u)
  \/ RequestDeletion(u) \/ FailDeletion(u)

Next ==
  \/ Tick
  \/ \E s \in Sweepers : Progress(s) \/ AbortSweep(s)
  \/ \E u \in Users : Deletion(u)

Spec == Init /\ [][Next]_vars

\* Every meeting sweep s would delete next is held by o.
WaitsFor(s, o) ==
  /\ s # o
  /\ phase[s] = "purge" /\ due[s] # deleted[s]
  /\ \A m \in NextDue(s) : SweepHolds(o, m)

Deadlocked(s) == \E o \in Sweepers : WaitsFor(s, o) /\ WaitsFor(o, s)

\* Time passes, the sweep interval fires again and again, PostgreSQL runs what
\* is not waiting and ends a sweep that is in a deadlock, a deletion request
\* that has begun goes on, and other failures of sweeps cease at some point (the
\* commit of a sweep that found nothing looks like an abort and is none).
Fairness ==
  /\ WF_vars(Tick)
  /\ \A s \in Sweepers : WF_vars(Progress(s)) /\ WF_vars(Deadlocked(s) /\ AbortSweep(s))
  /\ \A u \in Users : WF_vars(ReturnExisting(u) \/ RequestDeletion(u))
  /\ <>[][\A s \in Sweepers : AbortSweep(s) => CommitSweep(s) \/ Deadlocked(s)]_vars

FairSpec == Spec /\ Fairness

-----------------------------------------------------------------------------
(* Properties. *)

Purged(m) == meeting[m] = "PURGED"
Answered(u) == answer[u] # NoRequest

\* A purge keeps the promise of the receipt: a user who was told that a meeting
\* can be recovered until purgeAfter never finds it purged earlier, also when its
\* retention period ends before, and without a user's request only a meeting past
\* its retention period is purged.  (This is what the code does.  The documents
\* let the retention period override the recovery period instead: see
\* RetentionOverridesRecovery, which the code violates.)
PurgedOnlyWhenDue ==
  \A m \in Meetings : Purged(m) =>
    /\ \A u \in Users : Answered(u) /\ target[u] = m => answer[u].purgeAfter <= now
    /\ audit[m]["MEETING_DELETION_REQUESTED"] = 0 => Expires[m] <= now

\* A replayed deletion request returns the meeting's one request and does not
\* extend the purge (tests/integration/stage7-security-retention.integration.test.ts:118,
\* "hides an authorized whole-meeting deletion immediately and deduplicates
\* replay"): all callers hold the same receipt, and it is the committed request,
\* unchanged, while that exists.
OneReceiptPerMeeting ==
  \A u \in Users : Answered(u) =>
    /\ \A v \in Users : Answered(v) /\ target[u] = target[v] => answer[u] = answer[v]
    /\ request[target[u]] \in {NoRequest, answer[u]}

\* The audit trail is exact: one event for what happened to a meeting, none for
\* what was rolled back or done by a concurrent sweep; and a meeting is hidden
\* exactly by a user's request, which will end it (so that MEETING_NOT_FOUND,
\* for an archived meeting without a request, cannot be the answer).
AuditExact ==
  \A m \in Meetings :
    LET requested == audit[m]["MEETING_DELETION_REQUESTED"]
        expired == audit[m]["RETENTION_DELETION_SCHEDULED"]
        byUser == request[m] # NoRequest /\ request[m].reason = "USER_REQUEST"
    IN  /\ audit[m]["MEETING_PURGED"] = (IF Purged(m) THEN 1 ELSE 0)
        /\ requested + expired = (IF Purged(m) \/ request[m] # NoRequest THEN 1 ELSE 0)
        /\ request[m] # NoRequest => byUser = (requested = 1)
        /\ (meeting[m] = "ARCHIVED") = byUser

\* The meetings of two sweeps are disjoint but for one race: a sweep waits for
\* another only if that one has locked the meeting from a snapshot older than
\* its request.  (With enough sweeps two of them can do so to each other, which
\* PostgreSQL resolves by ending one: see Deadlocked.)
WaitsOnlyForStaleSweep ==
  \A s, o \in Sweepers :
    s # o /\ phase[s] = "purge" =>
      \A m \in NextDue(s) : SweepHolds(o, m) => m \in locked[o] \ scheduled[o]

\* Everything that has to be purged is purged in the end, although sweeps take
\* a batch at a time, skip what others hold and may be rolled back.
DueIsPurged ==
  \A m \in Meetings : request[m] # NoRequest \/ Expires[m] <= now ~> Purged(m)

\* docs/STAGE7_SECURITY_PRIVACY_OPERATIONS.md and docs/DATA_STORAGE_POLICY.md: the
\* end of the retention period overrides the recovery period.  A sweep with room in
\* its batch purges every meeting past its retention period whose request was there
\* when the sweep looked for candidates and is not claimed by another sweep.
RetentionOverridesRecovery ==
  [][\A s \in Sweepers :
       phase[s] = "due" /\ phase'[s] = "purge" /\ Cardinality(due'[s]) < Batch =>
         \A m \in Meetings :
           /\ request[m] # NoRequest /\ m \notin seen[s] /\ Expires[m] <= at[s]
           /\ \A o \in Sweepers \ {s} : m \notin due[o]
           => m \in due'[s]]_vars

\* docs/STAGE7_SECURITY_PRIVACY_OPERATIONS.md: a deletion request hides the
\* meeting at once and for the 30 days.
DeletedIsHidden ==
  \A u \in Users : Answered(u) => meeting[target[u]] # "ACTIVE"
=============================================================================
