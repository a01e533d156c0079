--------------------------- MODULE Retention_proofs ---------------------------
(***************************************************************************)
(* The safety of Retention for any number of meetings, sweeps and users,   *)
(* any batch, any recovery and retention periods.                          *)
(***************************************************************************)
EXTENDS Retention, TLAPS

-----------------------------------------------------------------------------
(* Types. *)

LEMMA RecordEventsType ==
  ASSUME TypeOK, NEW s \in Sweepers, NEW m \in Meetings
  PROVE  /\ RecordEvents(s, m) \in [Events -> Nat]
         /\ RecordEvents(s, m)["MEETING_DELETION_REQUESTED"] =
              audit[m]["MEETING_DELETION_REQUESTED"]
         /\ RecordEvents(s, m)["RETENTION_DELETION_SCHEDULED"] =
              audit[m]["RETENTION_DELETION_SCHEDULED"] + (IF m \in scheduled[s] THEN 1 ELSE 0)
         /\ RecordEvents(s, m)["MEETING_PURGED"] =
              audit[m]["MEETING_PURGED"] + (IF m \in deleted[s] THEN 1 ELSE 0)
  BY DEF TypeOK, RecordEvents, Events

\* Every variable keeps its type, whatever sweeps and users interleave.
THEOREM TypeCorrect == Spec => []TypeOK
<1>1. Init => TypeOK
  BY DEF Init, TypeOK
<1>2. TypeOK /\ [Next]_vars => TypeOK'
  <2> SUFFICES ASSUME TypeOK, [Next]_vars PROVE TypeOK'
    OBVIOUS
  <2> USE RetentionAssumption DEF TypeOK, committed, sweeps, deletions
  <2>1. CASE Tick
    BY <2>1 DEF Tick
  <2>2. ASSUME NEW s \in Sweepers, StartSweep(s) PROVE TypeOK'
    BY <2>2 DEF StartSweep, Phase
  <2>3. ASSUME NEW s \in Sweepers, SeeCandidates(s) PROVE TypeOK'
    BY <2>3 DEF SeeCandidates, Phase
  <2>4. ASSUME NEW s \in Sweepers, ScheduleExpired(s) PROVE TypeOK'
    <3>1. PICK rows \in Earliest(Lockable(s), Expires) :
                 ScheduleRows(s, rows, {m \in rows : request[m] = NoRequest})
      BY <2>4 DEF ScheduleExpired
    <3>2. rows \subseteq Meetings
      BY <3>1 DEF Earliest, Lockable
    <3>3. QED
      BY <3>1, <3>2 DEF ScheduleRows, Phase
  <2>5. ASSUME NEW s \in Sweepers, SelectDue(s) PROVE TypeOK'
    <3>1. PICK rows \in SUBSET Meetings : due' = [due EXCEPT ![s] = rows]
      BY <2>5 DEF SelectDue, SelectRows, Earliest, Unclaimed, Visible
    <3>2. QED
      BY <2>5, <3>1 DEF SelectDue, SelectRows, Phase
  <2>6. ASSUME NEW s \in Sweepers, PurgeMeeting(s) PROVE TypeOK'
    BY <2>6 DEF PurgeMeeting, NextDue
  <2>7. ASSUME NEW s \in Sweepers, EndSweep(s)
        PROVE  /\ now' \in Nat
               /\ phase' \in [Sweepers -> {"idle", "snapshot", "schedule", "due", "purge"}]
               /\ at' \in [Sweepers -> Nat]
               /\ seen' \in [Sweepers -> SUBSET Meetings]
               /\ locked' \in [Sweepers -> SUBSET Meetings]
               /\ scheduled' \in [Sweepers -> SUBSET Meetings]
               /\ due' \in [Sweepers -> SUBSET Meetings]
               /\ deleted' \in [Sweepers -> SUBSET Meetings]
               /\ UNCHANGED deletions
    BY <2>7 DEF EndSweep, Phase
  <2>8. ASSUME NEW s \in Sweepers, CommitSweep(s) PROVE TypeOK'
    <3>1. meeting' \in [Meetings -> {"ACTIVE", "ARCHIVED", "PURGED"}]
      BY <2>8 DEF CommitSweep
    <3>2. request' \in [Meetings -> DeletionRequest \cup {NoRequest}]
      BY <2>8 DEF CommitSweep, DeletionRequest, Reasons
    <3>3. audit' \in [Meetings -> [Events -> Nat]]
      BY <2>8, RecordEventsType DEF CommitSweep
    <3>4. QED
      BY <2>8, <2>7, <3>1, <3>2, <3>3 DEF CommitSweep
  <2>9. ASSUME NEW s \in Sweepers, AbortSweep(s) PROVE TypeOK'
    BY <2>9, <2>7 DEF AbortSweep
  <2>10. ASSUME NEW u \in Users, LockForDeletion(u) PROVE TypeOK'
    BY <2>10 DEF LockForDeletion
  <2>11. ASSUME NEW u \in Users, MeetingNotFound(u) \/ FailDeletion(u) PROVE TypeOK'
    BY <2>11 DEF MeetingNotFound, FailDeletion, EndDeletion
  <2>12. ASSUME NEW u \in Users, ReturnExisting(u) PROVE TypeOK'
    BY <2>12 DEF ReturnExisting, EndDeletion
  <2>13. ASSUME NEW u \in Users, RequestDeletion(u) PROVE TypeOK'
    <3>1. PICK requestedAt \in since[u]..now :
                 ArchiveMeeting(u, UserRequest(requestedAt, requestedAt + Recovery))
      BY <2>13 DEF RequestDeletion
    <3> DEFINE row == UserRequest(requestedAt, requestedAt + Recovery)
    <3>2. row \in DeletionRequest /\ target[u] \in Meetings
      BY <2>13, <3>1 DEF RequestDeletion, UserRequest, DeletionRequest, Reasons
    <3>3. audit' \in [Meetings -> [Events -> Nat]]
      BY <3>1, <3>2 DEF ArchiveMeeting, Events
    <3> HIDE DEF row
    <3>4. QED
      BY <3>1, <3>2, <3>3 DEF ArchiveMeeting, EndDeletion, row
  <2>14. CASE UNCHANGED vars
    BY <2>14 DEF vars
  <2>15. QED
    BY <2>1, <2>2, <2>3, <2>4, <2>5, <2>6, <2>8, <2>9, <2>10, <2>11, <2>12, <2>13, <2>14
       DEF Next, Progress, Deletion
<1>3. QED
  BY <1>1, <1>2, PTL DEF Spec

-----------------------------------------------------------------------------
(* The inductive invariant, in two layers.  Locks: what a running          *)
(* transaction has seen is still so, because of what it holds.             *)

Held(s) == locked[s] \cup deleted[s]

\* A meeting is held by at most one sweep or user, a request is in the batch of
\* at most one sweep, and a sweep holds what its phase allows.
Exclusion ==
  /\ \A s, o \in Sweepers : s # o => Held(s) \cap Held(o) = {} /\ due[s] \cap due[o] = {}
  /\ \A s \in Sweepers, u \in Users : pc[u] = "locked" => target[u] \notin Held(s)
  /\ \A u, v \in Users : u # v /\ pc[u] = "locked" /\ pc[v] = "locked" => target[u] # target[v]
  /\ \A s \in Sweepers :
       /\ scheduled[s] \subseteq locked[s] /\ deleted[s] \subseteq due[s]
       /\ phase[s] # "purge" => due[s] = {}
       /\ phase[s] \in {"idle", "snapshot", "schedule"} => locked[s] = {}

\* A meeting that a sweep has locked or is about to delete is still there, and
\* has the request the sweep saw: none but its own, or one that is due.
ReadsCurrent(s) ==
  /\ at[s] <= now
  /\ \A m \in seen[s] : Expires[m] <= at[s]
  /\ \A m \in locked[s] : meeting[m] # "PURGED"
  /\ \A m \in scheduled[s] : request[m] = NoRequest /\ Expires[m] <= at[s]
  /\ \A m \in due[s] :
       /\ m \in Visible(s) /\ meeting[m] # "PURGED"
       /\ PurgeAfter(s, m) <= at[s]

SweepReadsCurrent == \A s \in Sweepers : ReadsCurrent(s)

\* The meeting that a user has locked is not purged under him.
UserReadsCurrent ==
  \A u \in Users : pc[u] = "locked" => meeting[target[u]] # "PURGED"

\* A purged meeting has no request, and the request of the retention is of a
\* meeting whose period is over.
RequestsFounded ==
  \A m \in Meetings : request[m] # NoRequest =>
    /\ meeting[m] # "PURGED"
    /\ request[m].reason = "RETENTION_EXPIRED" => Expires[m] <= now

LockInv == Exclusion /\ SweepReadsCurrent /\ UserReadsCurrent /\ RequestsFounded

-----------------------------------------------------------------------------
(* History: what the requests, the answers and the audit trail say of each *)
(* other.                                                                  *)

\* Whoever has a receipt holds the meeting's one request until the purge.
AnswersKept ==
  \A u \in Users : Answered(u) =>
    /\ pc[u] = "done" /\ target[u] \in Meetings
    /\ request[target[u]] = answer[u] \/ Purged(target[u])

HistoryInv == AnswersKept /\ OneReceiptPerMeeting /\ AuditExact /\ PurgedOnlyWhenDue

-----------------------------------------------------------------------------
(* The locks. *)

\* What the sweeps have seen stays current through a step that changes neither
\* the sweeps nor the requests and purges nothing.
LEMMA SweepsUndisturbed ==
  ASSUME LockInv, TypeOK, UNCHANGED <<now, request, sweeps>>,
         \A m \in Meetings : meeting'[m] = "PURGED" => meeting[m] = "PURGED"
  PROVE  /\ SweepReadsCurrent'
         /\ \A s, o \in Sweepers : s # o => Held(s)' \cap Held(o)' = {} /\ due'[s] \cap due'[o] = {}
  BY DEF LockInv, Exclusion, SweepReadsCurrent, ReadsCurrent, sweeps, Held, Visible, PurgeAfter, TypeOK

\* The end of a sweep releases what it holds and leaves the others alone.
LEMMA EndSweepReleases ==
  ASSUME TypeOK, Exclusion, NEW s \in Sweepers, EndSweep(s)
  PROVE  /\ Exclusion'
         /\ at'[s] = 0 /\ seen'[s] = {} /\ locked'[s] = {} /\ scheduled'[s] = {} /\ due'[s] = {}
         /\ \A o \in Sweepers \ {s} :
              /\ at'[o] = at[o] /\ seen'[o] = seen[o] /\ locked'[o] = locked[o]
              /\ scheduled'[o] = scheduled[o] /\ due'[o] = due[o]
<1> USE DEF TypeOK, EndSweep, Phase, deletions
<1>1. /\ \A o \in Sweepers \ {s} :
           /\ at'[o] = at[o] /\ seen'[o] = seen[o] /\ locked'[o] = locked[o]
           /\ scheduled'[o] = scheduled[o] /\ due'[o] = due[o] /\ deleted'[o] = deleted[o]
           /\ phase'[o] = phase[o]
      /\ at'[s] = 0 /\ seen'[s] = {} /\ locked'[s] = {} /\ scheduled'[s] = {} /\ due'[s] = {}
      /\ deleted'[s] = {} /\ phase'[s] = "idle" /\ pc' = pc /\ target' = target
  OBVIOUS
<1>2. Exclusion'
  BY <1>1 DEF Exclusion, Held
<1>3. QED
  BY <1>1, <1>2

\* Nothing is locked at first.
LEMMA LocksInit == Init => LockInv
  BY RetentionAssumption
     DEF Init, LockInv, Exclusion, Held, SweepReadsCurrent, ReadsCurrent, UserReadsCurrent, RequestsFounded

\* Every step keeps what has been read of a locked meeting current.
LEMMA LocksKept == TypeOK /\ LockInv /\ [Next]_vars => LockInv'
<1> SUFFICES ASSUME TypeOK, LockInv, [Next]_vars PROVE LockInv'
  OBVIOUS
<1> USE DEF TypeOK, LockInv
<1>1. CASE Tick
  <2>1. now <= now' /\ now' \in Nat /\ UNCHANGED <<committed, sweeps, deletions>>
    BY <1>1 DEF Tick
  <2>2. Exclusion' /\ UserReadsCurrent'
    BY <2>1 DEF Exclusion, Held, UserReadsCurrent, committed, sweeps, deletions
  <2>3. SweepReadsCurrent'
    BY <2>1 DEF SweepReadsCurrent, ReadsCurrent, Visible, PurgeAfter, committed, sweeps
  <2>4. RequestsFounded'
    BY <2>1, RetentionAssumption DEF RequestsFounded, committed
  <2>5. QED
    BY <2>2, <2>3, <2>4
<1>2. ASSUME NEW s \in Sweepers, StartSweep(s) PROVE LockInv'
  <2>1. phase' = [phase EXCEPT ![s] = "snapshot"] /\ at' = [at EXCEPT ![s] = now]
        /\ UNCHANGED <<now, committed, seen, locked, scheduled, due, deleted, deletions>>
    BY <1>2 DEF StartSweep, Phase
  <2>2. Exclusion'
    BY <1>2, <2>1 DEF StartSweep, Exclusion, Held, deletions
  <2>3. SweepReadsCurrent'
    <3>1. locked[s] = {} /\ scheduled[s] = {} /\ due[s] = {}
      BY <1>2 DEF StartSweep, Exclusion
    <3>2. ASSUME NEW o \in Sweepers PROVE ReadsCurrent(o)'
      <4>1. CASE o = s
        BY <2>1, <3>1, <4>1, RetentionAssumption DEF SweepReadsCurrent, ReadsCurrent
      <4>2. CASE o # s
        BY <2>1, <4>2 DEF SweepReadsCurrent, ReadsCurrent, Visible, PurgeAfter, committed
      <4>3. QED
        BY <4>1, <4>2
    <3>3. QED
      BY <3>2 DEF SweepReadsCurrent
  <2>4. QED
    BY <2>1, <2>2, <2>3 DEF UserReadsCurrent, RequestsFounded, committed, deletions
<1>3. ASSUME NEW s \in Sweepers, SeeCandidates(s) PROVE LockInv'
  <2>1. Exclusion'
    BY <1>3 DEF SeeCandidates, Phase, Exclusion, Held, deletions
  <2>2. SweepReadsCurrent'
    BY <1>3 DEF SeeCandidates, SweepReadsCurrent, ReadsCurrent, Visible, PurgeAfter, committed
  <2>3. QED
    BY <1>3, <2>1, <2>2 DEF SeeCandidates, UserReadsCurrent, RequestsFounded, committed, deletions
<1>4. ASSUME NEW s \in Sweepers, ScheduleExpired(s) PROVE LockInv'
  <2>1. PICK rows \in Earliest(Lockable(s), Expires) :
               ScheduleRows(s, rows, {m \in rows : request[m] = NoRequest})
    BY <1>4 DEF ScheduleExpired
  <2>2. \A m \in rows : m \in seen[s] /\ meeting[m] # "PURGED" /\ FreeForSweep(s, m)
    BY <2>1 DEF Earliest, Lockable
  <2>3. Exclusion'
    BY <1>4, <2>1, <2>2 DEF ScheduleExpired, ScheduleRows, Phase, Exclusion, Held, deletions,
                            FreeForSweep, SweepHolds, UserHolds
  <2>4. SweepReadsCurrent'
    BY <1>4, <2>1, <2>2 DEF ScheduleExpired, ScheduleRows, Exclusion, SweepReadsCurrent, ReadsCurrent, Visible,
                            PurgeAfter, committed
  <2>5. QED
    BY <2>1, <2>3, <2>4 DEF ScheduleRows, UserReadsCurrent, RequestsFounded, committed, deletions
<1>5. ASSUME NEW s \in Sweepers, SelectDue(s) PROVE LockInv'
  <2>1. PICK rows : /\ \A m \in rows : m \in Unclaimed(s) /\ PurgeAfter(s, m) <= at[s]
                    /\ due' = [due EXCEPT ![s] = rows]
    BY <1>5 DEF SelectDue, SelectRows, Earliest
  <2>2. /\ phase[s] = "due" /\ phase' = [phase EXCEPT ![s] = "purge"]
        /\ UNCHANGED <<now, committed, at, seen, locked, scheduled, deleted, deletions>>
    BY <1>5 DEF SelectDue, SelectRows, Phase
  <2>3. Exclusion'
    BY <2>1, <2>2 DEF Exclusion, Held, Unclaimed, deletions
  <2>4. \A m \in rows : m \in Visible(s) /\ meeting[m] # "PURGED"
    BY <2>1 DEF Unclaimed, Visible, Exclusion, SweepReadsCurrent, ReadsCurrent, RequestsFounded
  <2>5. SweepReadsCurrent'
    BY <2>1, <2>2, <2>4 DEF SweepReadsCurrent, ReadsCurrent, Visible, PurgeAfter, committed
  <2>6. QED
    BY <2>2, <2>3, <2>5 DEF UserReadsCurrent, RequestsFounded, committed, deletions
<1>6. ASSUME NEW s \in Sweepers, PurgeMeeting(s) PROVE LockInv'
  <2>1. PICK m \in due[s] : FreeForSweep(s, m) /\ deleted' = [deleted EXCEPT ![s] = @ \cup {m}]
    BY <1>6 DEF PurgeMeeting, NextDue
  <2>2. UNCHANGED <<now, committed, phase, at, seen, locked, scheduled, due, deletions>>
    BY <1>6 DEF PurgeMeeting
  <2>3. Exclusion'
    BY <2>1, <2>2 DEF Exclusion, Held, FreeForSweep, SweepHolds, UserHolds, deletions
  <2>4. QED
    BY <2>2, <2>3 DEF SweepReadsCurrent, ReadsCurrent, Visible, PurgeAfter, UserReadsCurrent, RequestsFounded,
                      committed, deletions
<1>7. ASSUME NEW s \in Sweepers, CommitSweep(s) PROVE LockInv'
  <2>1. EndSweep(s)
    BY <1>7 DEF CommitSweep
  <2>2. Exclusion' /\ now' = now /\ UNCHANGED deletions
    BY <2>1, EndSweepReleases DEF EndSweep
  \* The commit changes only what the sweep holds.
  <2>3. ASSUME NEW m \in Meetings
        PROVE  /\ m \in deleted[s] => meeting'[m] = "PURGED" /\ request'[m] = NoRequest
               /\ m \notin deleted[s] => meeting'[m] = meeting[m]
               /\ m \notin deleted[s] /\ m \in scheduled[s] =>
                    request'[m].reason = "RETENTION_EXPIRED" /\ meeting[m] # "PURGED"
                    /\ Expires[m] <= now
               /\ m \notin deleted[s] \cup scheduled[s] => request'[m] = request[m]
    BY <1>7, RetentionAssumption DEF CommitSweep, Exclusion, SweepReadsCurrent, ReadsCurrent, Held
  <2>4. SweepReadsCurrent'
    <3>1. ASSUME NEW o \in Sweepers
          PROVE  ReadsCurrent(o)'
      <4>1. CASE o = s
        BY <2>1, <2>2, <4>1, EndSweepReleases DEF ReadsCurrent
      <4>2. CASE o # s
        <5>1. /\ at'[o] = at[o] /\ seen'[o] = seen[o] /\ locked'[o] = locked[o]
              /\ scheduled'[o] = scheduled[o] /\ due'[o] = due[o]
          BY <2>1, <4>2, EndSweepReleases
        <5>2. \A m \in locked[o] : m \notin Held(s)
          BY <4>2 DEF Exclusion, Held
        <5>3. \A m \in due[o] : m \notin deleted[s]
          BY <4>2 DEF Exclusion
        <5>4. \A m \in scheduled[o] : request'[m] = NoRequest
          BY <2>3, <5>2 DEF Exclusion, Held, SweepReadsCurrent, ReadsCurrent
        <5>5. \A m \in due[o] : m \in scheduled[o] \/ request'[m] = request[m]
          <6> SUFFICES ASSUME NEW m \in due[o], m \notin scheduled[o]
              PROVE  request'[m] = request[m]
            OBVIOUS
          <6>1. request[m] # NoRequest
            BY DEF SweepReadsCurrent, ReadsCurrent, Visible
          <6>2. m \notin scheduled[s]
            BY <6>1 DEF SweepReadsCurrent, ReadsCurrent
          <6>3. QED
            BY <2>3, <5>3, <6>2
        <5>6. ReadsCurrent(o)
          BY DEF SweepReadsCurrent
        <5>7. \A m \in due[o] : m \in Visible(o)' /\ PurgeAfter(o, m)' = PurgeAfter(o, m)
          BY <5>1, <5>5, <5>6 DEF ReadsCurrent, Visible, PurgeAfter
        <5>8. \A m \in locked[o] \cup due[o] : meeting'[m] # "PURGED"
          BY <2>3, <5>2, <5>3, <5>6 DEF ReadsCurrent, Held
        <5>9. QED
          BY <2>2, <5>1, <5>4, <5>6, <5>7, <5>8 DEF ReadsCurrent
      <4>3. QED
        BY <4>1, <4>2
    <3>2. QED
      BY <3>1 DEF SweepReadsCurrent, ReadsCurrent
  <2>5. UserReadsCurrent'
    BY <2>2, <2>3 DEF UserReadsCurrent, Exclusion, Held, deletions
  <2>6. RequestsFounded'
    BY <2>2, <2>3 DEF RequestsFounded
  <2>7. QED
    BY <2>2, <2>4, <2>5, <2>6
<1>8. ASSUME NEW s \in Sweepers, AbortSweep(s) PROVE LockInv'
  <2>1. EndSweep(s) /\ UNCHANGED committed
    BY <1>8 DEF AbortSweep
  <2>2. Exclusion' /\ now' = now /\ UNCHANGED deletions
    BY <2>1, EndSweepReleases DEF EndSweep
  <2>3. SweepReadsCurrent'
    BY <2>1, <2>2, EndSweepReleases
       DEF Exclusion, SweepReadsCurrent, ReadsCurrent, Visible, PurgeAfter, committed
  <2>4. QED
    BY <2>1, <2>2, <2>3 DEF UserReadsCurrent, RequestsFounded, committed, deletions
<1>9. ASSUME NEW u \in Users, LockForDeletion(u) PROVE LockInv'
  <2>1. PICK m \in Meetings :
          /\ FreeForUser(m) /\ meeting[m] # "PURGED"
          /\ pc' = [pc EXCEPT ![u] = "locked"] /\ target' = [target EXCEPT ![u] = m]
    BY <1>9 DEF LockForDeletion
  <2>2. UNCHANGED <<now, committed, sweeps>>
    BY <1>9 DEF LockForDeletion
  <2>3. SweepReadsCurrent'
    BY <2>2, SweepsUndisturbed DEF committed
  <2>4. Exclusion'
    BY <2>1, <2>2 DEF Exclusion, Held, FreeForUser, SweepHolds, UserHolds, sweeps
  <2>5. QED
    BY <2>1, <2>2, <2>3, <2>4 DEF UserReadsCurrent, RequestsFounded, committed
<1>10. ASSUME NEW u \in Users, MeetingNotFound(u) \/ ReturnExisting(u) \/ FailDeletion(u)
       PROVE  LockInv'
  <2>1. pc' = [pc EXCEPT ![u] = "done"] /\ UNCHANGED <<now, committed, sweeps, target>>
    BY <1>10 DEF MeetingNotFound, ReturnExisting, FailDeletion, EndDeletion
  <2>2. SweepReadsCurrent'
    BY <2>1, SweepsUndisturbed DEF committed
  <2>3. QED
    BY <2>1, <2>2 DEF Exclusion, Held, UserReadsCurrent, RequestsFounded, committed, sweeps
<1>11. ASSUME NEW u \in Users, RequestDeletion(u) PROVE LockInv'
  <2> DEFINE m == target[u]
  <2>1. /\ pc[u] = "locked" /\ m \in Meetings /\ request[m] = NoRequest /\ meeting[m] = "ACTIVE"
        /\ pc' = [pc EXCEPT ![u] = "done"] /\ meeting' = [meeting EXCEPT ![m] = "ARCHIVED"]
        /\ UNCHANGED <<now, sweeps, target>>
    BY <1>11 DEF RequestDeletion, ArchiveMeeting, EndDeletion
  <2>2. PICK row : row.reason = "USER_REQUEST" /\ request' = [request EXCEPT ![m] = row]
    BY <1>11 DEF RequestDeletion, ArchiveMeeting, UserRequest
  <2>3. \A s \in Sweepers : m \notin locked[s] /\ m \notin scheduled[s] /\ m \notin due[s]
    BY <2>1 DEF Exclusion, Held, SweepReadsCurrent, ReadsCurrent, Visible
  <2>4. Exclusion'
    BY <2>1 DEF Exclusion, Held, sweeps
  <2>5. SweepReadsCurrent'
    <3>1. ASSUME NEW s \in Sweepers PROVE ReadsCurrent(s)'
      <4>1. \A n \in locked[s] \cup scheduled[s] \cup due[s] :
              meeting'[n] = meeting[n] /\ request'[n] = request[n]
        BY <2>1, <2>2, <2>3
      <4>2. QED
        BY <2>1, <4>1 DEF SweepReadsCurrent, ReadsCurrent, Visible, PurgeAfter, sweeps
    <3>2. QED
      BY <3>1 DEF SweepReadsCurrent
  <2>6. UserReadsCurrent'
    BY <2>1 DEF UserReadsCurrent
  <2>7. RequestsFounded'
    BY <2>1, <2>2 DEF RequestsFounded
  <2>8. QED
    BY <2>4, <2>5, <2>6, <2>7
<1>12. CASE UNCHANGED vars
  <2>1. UNCHANGED <<now, committed, sweeps, deletions>>
    BY <1>12 DEF vars
  <2>2. SweepReadsCurrent'
    BY <2>1, SweepsUndisturbed DEF committed
  <2>3. QED
    BY <2>1, <2>2
       DEF Exclusion, Held, UserReadsCurrent, RequestsFounded, committed, sweeps, deletions
<1>13. QED
  BY <1>1, <1>2, <1>3, <1>4, <1>5, <1>6, <1>7, <1>8, <1>9, <1>10, <1>11, <1>12
     DEF Next, Progress, Deletion

\* What sweeps and users have read of a meeting they have locked is current until
\* they end, and no two of them hold the same meeting.
THEOREM LocksCorrect == Spec => []LockInv
<1>1. QED
  BY LocksInit, LocksKept, TypeCorrect, PTL DEF Spec
-----------------------------------------------------------------------------
(* The history. *)

LEMMA HistoryInit == Init => HistoryInv
  BY DEF Init, HistoryInv, AnswersKept, OneReceiptPerMeeting, AuditExact, PurgedOnlyWhenDue,
         Answered, Purged, Events

\* A step that answers nobody and commits nothing leaves the history as it is.
LEMMA HistoryUndisturbed ==
  ASSUME TypeOK, HistoryInv, UNCHANGED committed, now' >= now, now' \in Nat,
         \A u \in Users : /\ answer'[u] = answer[u]
                          /\ Answered(u) => target'[u] = target[u] /\ pc'[u] = pc[u]
  PROVE  HistoryInv'
<1> USE DEF HistoryInv, committed, Answered, Purged
<1>1. AnswersKept' /\ OneReceiptPerMeeting'
  BY DEF AnswersKept, OneReceiptPerMeeting
<1>2. AuditExact'
  BY DEF AuditExact
<1>3. PurgedOnlyWhenDue'
  <2>1. ASSUME NEW n \in Nat, n <= now PROVE n <= now'
    BY <2>1 DEF TypeOK
  <2>2. \A u \in Users : Answered(u) => answer[u].purgeAfter \in Nat
    BY DEF TypeOK, DeletionRequest
  <2>3. \A m \in Meetings : Expires[m] \in Nat
    BY RetentionAssumption
  <2>4. QED
    BY <2>1, <2>2, <2>3 DEF PurgedOnlyWhenDue
<1>4. QED
  BY <1>1, <1>2, <1>3

\* AuditExact for one meeting.
Requested(m) == audit[m]["MEETING_DELETION_REQUESTED"]
Scheduled(m) == audit[m]["RETENTION_DELETION_SCHEDULED"]
ByUser(m) == request[m] # NoRequest /\ request[m].reason = "USER_REQUEST"
AuditOf(m) ==
  /\ audit[m]["MEETING_PURGED"] = (IF Purged(m) THEN 1 ELSE 0)
  /\ Requested(m) + Scheduled(m) = (IF Purged(m) \/ request[m] # NoRequest THEN 1 ELSE 0)
  /\ request[m] # NoRequest => ByUser(m) = (Requested(m) = 1)
  /\ (meeting[m] = "ARCHIVED") = ByUser(m)

\* The exactness of the audit trail, meeting by meeting.
LEMMA AuditPerMeeting == AuditExact <=> \A m \in Meetings : AuditOf(m)
  BY DEF AuditExact, AuditOf, Requested, Scheduled, ByUser

\* The counts of the audit events are numbers.
LEMMA AuditTypes ==
  ASSUME TypeOK, NEW m \in Meetings
  PROVE  Requested(m) \in Nat /\ Scheduled(m) \in Nat /\ audit[m]["MEETING_PURGED"] \in Nat
  BY DEF TypeOK, Events, Requested, Scheduled

\* Only a user's transaction that has locked a meeting gets a receipt for it, so
\* nobody has one before.
LEMMA HistoryKept == TypeOK /\ LockInv /\ HistoryInv /\ [Next]_vars => HistoryInv'
<1> SUFFICES ASSUME TypeOK, LockInv, HistoryInv, [Next]_vars PROVE HistoryInv'
  OBVIOUS
<1> USE DEF TypeOK, HistoryInv
<1>1. CASE Tick \/ UNCHANGED vars
  BY <1>1, HistoryUndisturbed DEF Tick, vars, deletions
<1>2. ASSUME NEW s \in Sweepers, Progress(s) \/ AbortSweep(s), ~CommitSweep(s) PROVE HistoryInv'
  BY <1>2, HistoryUndisturbed
     DEF Progress, StartSweep, SeeCandidates, ScheduleExpired, ScheduleRows, SelectDue, SelectRows,
         PurgeMeeting, AbortSweep, EndSweep, deletions
<1>3. ASSUME NEW s \in Sweepers, CommitSweep(s) PROVE HistoryInv'
  <2> USE DEF Answered, Purged
  <2>1. UNCHANGED <<now, deletions>>
    BY <1>3 DEF CommitSweep, EndSweep
  \* A meeting it deletes had a request that was due, committed or its own.
  <2>2. ASSUME NEW m \in deleted[s]
        PROVE  /\ meeting'[m] = "PURGED" /\ request'[m] = NoRequest
               /\ meeting[m] # "PURGED" /\ m \in Visible(s) /\ PurgeAfter(s, m) <= now
    <3>1. m \in Meetings /\ m \in due[s] /\ ReadsCurrent(s)
      BY DEF LockInv, Exclusion, SweepReadsCurrent
    <3>2. PurgeAfter(s, m) \in Nat /\ at[s] <= now
      BY <3>1 DEF ReadsCurrent, PurgeAfter, Visible, DeletionRequest
    <3>3. QED
      BY <1>3, <3>1, <3>2 DEF CommitSweep, ReadsCurrent
  \* One that it only schedules had none.
  <2>3. ASSUME NEW m \in scheduled[s]
        PROVE  /\ m \in Meetings /\ meeting[m] # "PURGED" /\ request[m] = NoRequest /\ Expires[m] <= now
               /\ m \notin deleted[s] =>
                    meeting'[m] = meeting[m] /\ request'[m] # NoRequest
                    /\ request'[m].reason = "RETENTION_EXPIRED"
    <3>1. m \in Meetings /\ ReadsCurrent(s) /\ m \in locked[s]
      BY DEF LockInv, Exclusion, SweepReadsCurrent
    <3>2. [reason |-> "RETENTION_EXPIRED", requestedAt |-> at[s], purgeAfter |-> at[s]] # NoRequest
      BY RetentionAssumption
    <3>3. QED
      BY <1>3, <3>1, <3>2, RetentionAssumption DEF CommitSweep, ReadsCurrent
  <2>4. ASSUME NEW m \in Meetings, m \notin deleted[s] \cup scheduled[s]
        PROVE  meeting'[m] = meeting[m] /\ request'[m] = request[m]
    BY <1>3, <2>4 DEF CommitSweep
  <2>5. ASSUME NEW m \in Meetings
        PROVE  /\ Requested(m)' = Requested(m)
               /\ Scheduled(m)' = Scheduled(m) + (IF m \in scheduled[s] THEN 1 ELSE 0)
               /\ audit'[m]["MEETING_PURGED"] =
                    audit[m]["MEETING_PURGED"] + (IF m \in deleted[s] THEN 1 ELSE 0)
    BY <1>3, RecordEventsType DEF CommitSweep, Requested, Scheduled
  <2>6. \A u \in Users : Answered(u) =>
          target[u] \in Meetings /\ target[u] \notin scheduled[s] \ deleted[s]
    BY <2>3 DEF AnswersKept
  <2>7. AnswersKept'
    BY <2>1, <2>2, <2>3, <2>4, <2>6 DEF AnswersKept, deletions
  <2>8. OneReceiptPerMeeting'
    BY <2>1, <2>2, <2>3, <2>4, <2>6 DEF OneReceiptPerMeeting, deletions
  <2>9. AuditExact'
    <3> SUFFICES ASSUME NEW m \in Meetings PROVE AuditOf(m)'
      BY DEF AuditExact, AuditOf, Requested, Scheduled, ByUser, Purged
    <3>1. AuditOf(m) /\ Requested(m) \in Nat /\ Scheduled(m) \in Nat
      BY AuditPerMeeting, AuditTypes
    <3>2. CASE m \in deleted[s]
      BY <2>2, <2>3, <2>5, <3>1, <3>2 DEF AuditOf, ByUser, Visible
    <3>3. CASE m \in scheduled[s] \ deleted[s]
      BY <2>3, <2>5, <3>1, <3>3 DEF AuditOf, ByUser
    <3>4. CASE m \notin deleted[s] \cup scheduled[s]
      BY <2>4, <2>5, <3>1, <3>4 DEF AuditOf, ByUser
    <3>5. QED
      BY <3>2, <3>3, <3>4
  <2>10. PurgedOnlyWhenDue'
    <3> SUFFICES ASSUME NEW m \in Meetings, Purged(m)'
        PROVE  /\ \A u \in Users : Answered(u)' /\ target'[u] = m => answer'[u].purgeAfter <= now'
               /\ Requested(m)' = 0 => Expires[m] <= now'
      BY DEF PurgedOnlyWhenDue, Requested
    <3>1. CASE m \notin deleted[s]
      BY <2>1, <2>3, <2>4, <2>5, <3>1 DEF PurgedOnlyWhenDue, Requested, deletions
    <3>2. CASE m \in deleted[s]
      <4>1. \A u \in Users : Answered(u) /\ target[u] = m => request[m] = answer[u]
        BY <2>2, <3>2 DEF AnswersKept
      <4>2. \A u \in Users : Answered(u) /\ target[u] = m => answer[u].purgeAfter <= now
        BY <2>2, <2>3, <3>2, <4>1 DEF PurgeAfter
      <4>3. Requested(m) = 0 => Expires[m] <= now
        <5>1. CASE m \in scheduled[s]
          BY <2>3, <5>1
        <5>2. CASE m \notin scheduled[s]
          <6>1. request[m] # NoRequest /\ AuditOf(m)
            BY <2>2, <3>2, <5>2, AuditPerMeeting DEF Visible
          <6>2. Requested(m) = 0 => request[m].reason = "RETENTION_EXPIRED"
            BY <6>1 DEF AuditOf, ByUser, DeletionRequest, Reasons
          <6>3. QED
            BY <6>1, <6>2 DEF LockInv, RequestsFounded
        <5>3. QED
          BY <5>1, <5>2
      <4>4. QED
        BY <2>1, <2>5, <3>2, <4>2, <4>3 DEF deletions
    <3>3. QED
      BY <3>1, <3>2
  <2>11. QED
    BY <2>7, <2>8, <2>9, <2>10
<1>4. ASSUME NEW u \in Users, LockForDeletion(u) PROVE HistoryInv'
  <2>1. /\ UNCHANGED <<now, committed, answer>> /\ pc[u] = "new"
        /\ \A v \in Users \ {u} : pc'[v] = pc[v] /\ target'[v] = target[v]
    BY <1>4 DEF LockForDeletion
  <2>2. ~Answered(u)
    BY <2>1 DEF AnswersKept
  <2>3. QED
    BY <2>1, <2>2, HistoryUndisturbed DEF Answered
<1>5. ASSUME NEW u \in Users, MeetingNotFound(u) \/ FailDeletion(u) PROVE HistoryInv'
  <2>1. /\ UNCHANGED <<now, committed, target>> /\ pc[u] # "done"
        /\ answer' = [answer EXCEPT ![u] = NoRequest]
        /\ pc' = [pc EXCEPT ![u] = "done"]
    BY <1>5 DEF MeetingNotFound, FailDeletion, EndDeletion
  <2>2. ~Answered(u)
    BY <2>1 DEF AnswersKept
  <2>3. QED
    BY <2>1, <2>2, HistoryUndisturbed DEF Answered
<1>6. ASSUME NEW u \in Users, ReturnExisting(u) PROVE HistoryInv'
  <2> DEFINE m == target[u]
  <2>1. /\ pc[u] = "locked" /\ m \in Meetings /\ request[m] # NoRequest
        /\ pc' = [pc EXCEPT ![u] = "done"]
        /\ answer' = [answer EXCEPT ![u] = request[m]]
        /\ UNCHANGED <<now, committed, target>>
    BY <1>6 DEF ReturnExisting, EndDeletion
  <2>2. meeting[m] # "PURGED"
    BY <2>1 DEF LockInv, UserReadsCurrent
  <2>3. AnswersKept'
    BY <2>1 DEF AnswersKept, Answered, Purged, committed
  <2>4. OneReceiptPerMeeting'
    BY <2>1, <2>2 DEF OneReceiptPerMeeting, AnswersKept, Answered, Purged, committed
  <2>5. AuditExact'
    BY <2>1 DEF AuditExact, Purged, committed
  <2>6. PurgedOnlyWhenDue'
    BY <2>1, <2>2 DEF PurgedOnlyWhenDue, Answered, Purged, committed
  <2>7. QED
    BY <2>3, <2>4, <2>5, <2>6
<1>7. ASSUME NEW u \in Users, RequestDeletion(u) PROVE HistoryInv'
  <2>0. PICK m \in Meetings : m = target[u]
    BY <1>7 DEF RequestDeletion
  <2>1. PICK requestedAt \in since[u]..now :
               ArchiveMeeting(u, UserRequest(requestedAt, requestedAt + Recovery))
    BY <1>7 DEF RequestDeletion
  <2> DEFINE row == UserRequest(requestedAt, requestedAt + Recovery)
  <2>2. row # NoRequest /\ row.reason = "USER_REQUEST"
    BY RetentionAssumption DEF UserRequest
  <2>3. /\ pc[u] = "locked" /\ m \in Meetings /\ request[m] = NoRequest /\ meeting[m] = "ACTIVE"
    BY <1>7, <2>0 DEF RequestDeletion
  <2>4. /\ request' = [request EXCEPT ![m] = row] /\ meeting' = [meeting EXCEPT ![m] = "ARCHIVED"]
        /\ audit' = [audit EXCEPT ![m]["MEETING_DELETION_REQUESTED"] = @ + 1]
        /\ pc' = [pc EXCEPT ![u] = "done"] /\ answer' = [answer EXCEPT ![u] = row]
        /\ UNCHANGED <<now, target>>
    BY <2>0, <2>1 DEF ArchiveMeeting, EndDeletion
  <2> HIDE DEF row
  <2>5. \A v \in Users : Answered(v) => target[v] # m
    BY <2>3 DEF AnswersKept, Answered, Purged
  <2>6. AnswersKept'
    BY <2>0, <2>2, <2>3, <2>4, <2>5 DEF AnswersKept, Answered, Purged
  <2>7. OneReceiptPerMeeting'
    BY <2>0, <2>2, <2>3, <2>4, <2>5 DEF OneReceiptPerMeeting, AnswersKept, Answered, Purged
  <2>8. /\ Requested(m)' = Requested(m) + 1 /\ Scheduled(m)' = Scheduled(m)
        /\ audit'[m]["MEETING_PURGED"] = audit[m]["MEETING_PURGED"]
        /\ \A n \in Meetings \ {m} : audit'[n] = audit[n]
    <3>1. /\ audit'[m] = [audit[m] EXCEPT !["MEETING_DELETION_REQUESTED"] = @ + 1]
          /\ \A n \in Meetings \ {m} : audit'[n] = audit[n]
      BY <2>3, <2>4
    <3>2. audit[m] \in [Events -> Nat]
      BY <2>3
    <3>3. QED
      BY <3>1, <3>2 DEF Requested, Scheduled, Events
  <2>9. AuditExact'
    <3> SUFFICES ASSUME NEW n \in Meetings PROVE AuditOf(n)'
      BY DEF AuditExact, AuditOf, Requested, Scheduled, ByUser, Purged
    <3>1. AuditOf(n) /\ Requested(n) \in Nat /\ Scheduled(n) \in Nat
      BY AuditPerMeeting, AuditTypes
    <3>2. CASE n = m
      BY <2>2, <2>3, <2>4, <2>8, <3>1, <3>2 DEF AuditOf, ByUser, Purged
    <3>3. CASE n # m
      BY <2>3, <2>4, <2>8, <3>1, <3>3 DEF AuditOf, ByUser, Purged, Requested, Scheduled
    <3>4. QED
      BY <3>2, <3>3
  <2>10. PurgedOnlyWhenDue'
    BY <2>0, <2>3, <2>4, <2>5, <2>8 DEF PurgedOnlyWhenDue, Answered, Purged
  <2>11. QED
    BY <2>6, <2>7, <2>9, <2>10
<1>8. QED
  BY <1>1, <1>2, <1>3, <1>4, <1>5, <1>6, <1>7 DEF Next, Progress, Deletion

\* The inductive invariant: answers, committed requests, purges and audit events
\* agree for ever.
THEOREM HistoryCorrect == Spec => []HistoryInv
<1>1. QED
  BY HistoryInit, HistoryKept, TypeCorrect, LocksCorrect, PTL DEF Spec

-----------------------------------------------------------------------------
(* The properties of the runs. *)

\* Nobody who was told that a meeting can be recovered until a date finds it
\* purged before, and the retention purges only what is past its period.
THEOREM PurgesKeepPromises == Spec => []PurgedOnlyWhenDue
<1>1. HistoryInv => PurgedOnlyWhenDue
  BY DEF HistoryInv
<1>2. QED
  BY <1>1, HistoryCorrect, PTL

\* All who ask for the deletion of a meeting get the same receipt, and it is the
\* committed request, unchanged, until the purge.
THEOREM ReceiptsAgree == Spec => []OneReceiptPerMeeting
<1>1. HistoryInv => OneReceiptPerMeeting
  BY DEF HistoryInv
<1>2. QED
  BY <1>1, HistoryCorrect, PTL

\* The audit trail has exactly one event for what happened to a meeting.
THEOREM AuditTrailExact == Spec => []AuditExact
<1>1. HistoryInv => AuditExact
  BY DEF HistoryInv
<1>2. QED
  BY <1>1, HistoryCorrect, PTL

\* A sweep waits for another only over a meeting that the other has locked from
\* a snapshot older than its request.
THEOREM SweepsWaitOnlyForStale == Spec => []WaitsOnlyForStaleSweep
<1>1. LockInv => WaitsOnlyForStaleSweep
  <2> SUFFICES ASSUME LockInv, NEW s \in Sweepers, NEW o \in Sweepers, s # o,
                      NEW m \in NextDue(s), SweepHolds(o, m)
      PROVE  m \in locked[o] \ scheduled[o]
    BY DEF WaitsOnlyForStaleSweep
  <2>1. m \in due[s] /\ m \in locked[o]
    BY DEF NextDue, SweepHolds, LockInv, Exclusion
  <2>2. request[m] = NoRequest => m \in locked[s]
    BY <2>1 DEF LockInv, Exclusion, SweepReadsCurrent, ReadsCurrent, Visible
  <2>3. m \in locked[s] => m \notin locked[o]
    BY DEF LockInv, Exclusion, Held
  <2>4. m \in scheduled[o] => request[m] = NoRequest
    BY DEF LockInv, SweepReadsCurrent, ReadsCurrent
  <2>5. QED
    BY <2>1, <2>2, <2>3, <2>4
<1>2. QED
  BY <1>1, LocksCorrect, PTL

\* A request stands until the purge: neither another request nor the end of the
\* retention period brings it forward, puts it off or withdraws it.
RequestsStand ==
  [][\A m \in Meetings : request[m] # NoRequest /\ ~Purged(m)' => request'[m] = request[m]]_vars

\* For any number of sweeps and users that find the meeting at the same time: the
\* conflict clause of runRetentionSweep and the check of requestMeetingDeletion.
THEOREM CommittedRequestsStand == Spec => RequestsStand
<1>1. TypeOK /\ LockInv /\ [Next]_vars =>
        [\A m \in Meetings : request[m] # NoRequest /\ ~Purged(m)' => request'[m] = request[m]]_vars
  <2> SUFFICES ASSUME TypeOK, LockInv, [Next]_vars, NEW m \in Meetings,
                      request[m] # NoRequest, ~Purged(m)'
      PROVE  request'[m] = request[m]
    OBVIOUS
  <2>1. CASE request' = request
    BY <2>1
  <2>2. ASSUME NEW s \in Sweepers, CommitSweep(s) PROVE request'[m] = request[m]
    <3>1. m \notin scheduled[s]
      BY DEF LockInv, SweepReadsCurrent, ReadsCurrent
    <3>2. m \notin deleted[s]
      BY <2>2 DEF CommitSweep, Purged
    <3>3. QED
      BY <2>2, <3>1, <3>2 DEF CommitSweep
  <2>3. ASSUME NEW u \in Users, RequestDeletion(u) PROVE request'[m] = request[m]
    <3>1. m # target[u]
      BY <2>3 DEF RequestDeletion
    <3>2. PICK row : request' = [request EXCEPT ![target[u]] = row]
      BY <2>3 DEF RequestDeletion, ArchiveMeeting
    <3>3. QED
      BY <3>1, <3>2 DEF TypeOK
  <2>4. QED
    BY <2>1, <2>2, <2>3 DEF Next, Progress, Deletion, Tick, StartSweep, SeeCandidates, ScheduleExpired,
       ScheduleRows, SelectDue, SelectRows, PurgeMeeting, AbortSweep, EndSweep, LockForDeletion,
       MeetingNotFound, ReturnExisting, FailDeletion, committed, vars
<1>2. QED
  BY <1>1, TypeCorrect, LocksCorrect, PTL DEF Spec, RequestsStand
=============================================================================
