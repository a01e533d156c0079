------------------------------ MODULE Workspace ------------------------------
(***************************************************************************)
(* The organization's data around its contents: registrations, projects,   *)
(* meetings, the meeting of the quick recordings that the home page makes  *)
(* sure of, the consents with their audit events, and the paged list of    *)
(* meetings (packages/db/src/index.ts).                                    *)
(*                                                                         *)
(* Every caller runs one transaction, a statement at a time, in READ       *)
(* COMMITTED; what it has written shows at its COMMIT, and until then makes *)
(* others wait (Holds...).  The variables hold what is committed.  The     *)
(* deletion of a meeting is one step here: Retention models its parts.     *)
(***************************************************************************)
EXTENDS Integers, FiniteSets

CONSTANTS
  Callers,    \* transactions
  Role,       \* the role of every member of the organization
  Requests,   \* what the callers may ask for, see Request
  Keys,       \* the keys of projects
  Earlier,    \* the sequences of meetings that may have been made before
  MaxMeetings, \* bound of the meetings
  PageSize,   \* of the list
  MaxTime,    \* bound of the clock
  None

Quick == "QUICK"   \* the key of the project of the quick recordings

\* A meeting's id, which breaks the ties of the list.
Ids == 1..MaxMeetings

Ops == {"register", "project", "archive", "restore", "meeting", "quick", "recording", "ai"}

\* actor: a member, or the new user's email.  name: the slug of an organization,
\* the key of a project or the idempotency key of a consent.  on: the project
\* or the meeting concerned.
Fields == {"op", "actor", "name", "on"}

\* A request comes from a member, unless it registers one.  An idempotency key
\* is made for one consent to one meeting: the web client creates a new one for
\* each (RecordingPanel.tsx:316), and assertAuditIdempotencyKey asks for it.
ASSUME RequestsWellFormed ==
  /\ Quick \in Keys /\ MaxMeetings \in Nat /\ PageSize \in Nat \ {0} /\ MaxTime \in Nat \ {0}
  /\ None \notin Requests /\ None # "OK" /\ None \notin [id : Ids, start : 0..MaxTime]
  /\ \A r \in Requests :
       /\ DOMAIN r = Fields /\ r.op \in Ops
       /\ r.op # "register" => r.actor \in DOMAIN Role
       /\ r.op = "project" => r.name \in Keys
       /\ r.op \in {"archive", "restore", "meeting"} => r.on \in Keys
       /\ r.op \in {"recording", "ai"} => r.name # None /\ r.on \in Ids
  /\ \A r, s \in Requests :
       r.op \in {"recording", "ai"} /\ r.op = s.op /\ r.actor = s.actor /\ r.name = s.name
         => r.on = s.on

\* The meetings of an organization that has some: at most one quick capture.
ASSUME EarlierWellFormed ==
  \A made \in Earlier :
    /\ DOMAIN made \subseteq Ids
    /\ \A m \in DOMAIN made :
         /\ made[m] \in [project : Keys, status : {"REVIEW"}, start : 0..MaxTime,
                         consent : BOOLEAN, quick : BOOLEAN]
         /\ made[m].quick => made[m].project = Quick
    /\ \A m, n \in DOMAIN made : made[m].quick /\ made[n].quick => m = n

VARIABLES
  accounts,   \* the registered [email, slug] of a user and an organization
  projects,   \* by key: status, and whether it has the id of the quick project
  meetings,   \* by id: project, status, start, consent, made by a quick capture
  events,     \* the audit events of consents
  consents,   \* to external AI: <<meeting, actor>>
  pc, req,    \* where each transaction is, and its request
  start,      \* when the meeting it inserts starts; 0 if it inserts none
  outcome,    \* the caller's answer
  list,       \* a member paging through the list of meetings
  now

tables == <<accounts, projects, meetings, events, consents>>
vars == <<tables, pc, req, start, outcome, list, now>>

NoProject == [status |-> "none", quick |-> FALSE]
NoMeeting == [project |-> None, status |-> "none", start |-> 0, consent |-> FALSE, quick |-> FALSE]

Listed(m) == meetings[m].status = "REVIEW"

-----------------------------------------------------------------------------
(* What a transaction has written and not yet committed.                   *)

Is(t, op) == req[t] # None /\ req[t].op = op
Ending(t, op) == Is(t, op) /\ pc[t] = "commit"

HoldsEmail(t, email) ==
  Is(t, "register") /\ pc[t] \in {"organization", "commit"} /\ req[t].actor = email
HoldsSlug(t, slug) == Ending(t, "register") /\ req[t].name = slug

\* The project's row, or its entry in the unique index of the keys.  Faulty
\* variant: an upsert that does nothing, and locks nothing, if there is a row.
HoldsWritten(t, k) ==
  \/ Ending(t, "project") /\ req[t].name = k
  \/ (Ending(t, "archive") \/ Ending(t, "restore")) /\ req[t].on = k
HoldsInserted(t, k) ==
  \/ HoldsWritten(t, k)
  \/ Is(t, "quick") /\ pc[t] \in {"find", "insert", "commit"} /\ k = Quick
       /\ projects[k] = NoProject
HoldsProject(t, k) ==
  \/ HoldsWritten(t, k)
  \/ Is(t, "quick") /\ pc[t] \in {"find", "insert", "commit"} /\ k = Quick

\* The meeting's row that has been updated, or that a foreign key needs.
HoldsMeeting(t, m) == Is(t, "recording") /\ pc[t] \in {"event", "commit"} /\ req[t].on = m
NeedsMeeting(t, m) == Is(t, "ai") /\ pc[t] \in {"event", "commit"} /\ req[t].on = m
HoldsConsent(t, m, u) == NeedsMeeting(t, m) /\ req[t].actor = u
HoldsEvent(t, r) == Ending(t, r.op) /\ req[t].actor = r.actor /\ req[t].name = r.name

-----------------------------------------------------------------------------
Init ==
  /\ accounts = {} /\ consents = {}
  /\ \E made \in Earlier :
       /\ events = {[op |-> "recording", actor |-> None, name |-> None, meeting |-> m, by |-> None] :
                      m \in {n \in DOMAIN made : made[n].consent}}
       /\ meetings = [m \in Ids |-> IF m \in DOMAIN made THEN made[m] ELSE NoMeeting]
       /\ projects = [k \in Keys |->
            IF \E m \in DOMAIN made : made[m].project = k
              THEN [status |-> "ACTIVE", quick |-> k = Quick] ELSE NoProject]
  /\ pc = [t \in Callers |-> "new"]
  /\ req = [t \in Callers |-> None]
  /\ start = [t \in Callers |-> 0]
  /\ outcome = [t \in Callers |-> None]
  /\ list = [stage |-> "closed", filter |-> None, last |-> None, seen |-> {}, twice |-> {},
             began |-> {}]
  /\ now = 1

Goto(t, label) == pc' = [pc EXCEPT ![t] = label]
Step(t, label) == Goto(t, label) /\ UNCHANGED <<tables, req, start, outcome, list, now>>
Answer(t, tag) ==
  /\ Goto(t, "done")
  /\ outcome' = [outcome EXCEPT ![t] = tag]
  /\ UNCHANGED <<req, start, list, now>>
Refuse(t, tag) == Answer(t, tag) /\ UNCHANGED tables

\* assertProjectManagerRole, assertMeetingEditorRole, assertMinutesEditorRole.
Managers == {"ORG_ADMIN", "PROJECT_ADMIN"}
Editors == Managers \cup {"EDITOR"}
Allowed(r) ==
  \/ r.op = "register"
  \/ r.op \in {"project", "archive", "restore"} /\ Role[r.actor] \in Managers
  \/ r.op \in {"meeting", "quick", "recording", "ai"} /\ Role[r.actor] \in Editors

First == [register |-> "user", project |-> "key", archive |-> "row", restore |-> "row",
          meeting |-> "project", quick |-> "upsert", recording |-> "update", ai |-> "check"]

\* BEGIN, and requireActiveMembership: no operation ends a membership.
Begin(t) ==
  /\ pc[t] = "new"
  /\ \E r \in Requests :
       /\ req' = [req EXCEPT ![t] = r]
       /\ \/ /\ Allowed(r)
             /\ Goto(t, First[r.op]) /\ UNCHANGED outcome
          \/ /\ ~Allowed(r)
             /\ Goto(t, "done") /\ outcome' = [outcome EXCEPT ![t] = "FORBIDDEN"]
  /\ UNCHANGED <<tables, start, list, now>>

-----------------------------------------------------------------------------
(* registerOrganization.                                                   *)

InsertUser(t) ==
  /\ pc[t] = "user"
  /\ \A o \in Callers : ~HoldsEmail(o, req[t].actor)
  /\ \/ \E a \in accounts : a.email = req[t].actor /\ Refuse(t, "EMAIL_ALREADY_EXISTS")
     \/ (\A a \in accounts : a.email # req[t].actor) /\ Step(t, "organization")

InsertOrganization(t) ==
  /\ pc[t] = "organization"
  /\ \A o \in Callers : ~HoldsSlug(o, req[t].name)
  /\ \/ \E a \in accounts : a.slug = req[t].name /\ Refuse(t, "SLUG_ALREADY_EXISTS")
     \/ (\A a \in accounts : a.slug # req[t].name) /\ Step(t, "commit")

CommitRegistration(t) ==
  /\ Ending(t, "register")
  /\ accounts' = accounts \cup {[email |-> req[t].actor, slug |-> req[t].name]}
  /\ Answer(t, "OK")
  /\ UNCHANGED <<projects, meetings, events, consents>>

-----------------------------------------------------------------------------
(* createProject, archiveProject and restoreProject.                       *)

InsertProject(t) ==
  /\ pc[t] = "key"
  /\ \A o \in Callers : ~HoldsProject(o, req[t].name)
  /\ \/ projects[req[t].name] # NoProject /\ Refuse(t, "PROJECT_KEY_ALREADY_EXISTS")
     \/ projects[req[t].name] = NoProject /\ Step(t, "commit")

UpdateProject(t) ==
  /\ pc[t] = "row"
  /\ \A o \in Callers : ~HoldsProject(o, req[t].on)
  /\ \/ projects[req[t].on] = NoProject /\ Refuse(t, "PROJECT_NOT_FOUND")
     \/ projects[req[t].on] # NoProject /\ Step(t, "commit")

CommitProject(t) ==
  /\ \/ /\ Ending(t, "project")
        /\ projects' = [projects EXCEPT ![req[t].name] = [status |-> "ACTIVE", quick |-> FALSE]]
     \/ Ending(t, "archive") /\ projects' = [projects EXCEPT ![req[t].on].status = "ARCHIVED"]
     \/ Ending(t, "restore") /\ projects' = [projects EXCEPT ![req[t].on].status = "ACTIVE"]
  /\ Answer(t, "OK")
  /\ UNCHANGED <<accounts, meetings, events, consents>>

-----------------------------------------------------------------------------
(* createMeeting and ensureQuickCaptureMeeting.                            *)

\* The project is read without a lock: it may be archived before the commit.
CheckProject(t) ==
  /\ pc[t] = "project"
  /\ \/ projects[req[t].on].status = "ACTIVE" /\ Step(t, "insert")
     \/ projects[req[t].on].status # "ACTIVE" /\ Refuse(t, "PROJECT_NOT_FOUND")

\* INSERT INTO projects ... ON CONFLICT (organization_id, key) DO UPDATE.
UpsertQuick(t) ==
  /\ pc[t] = "upsert"
  /\ \A o \in Callers : ~HoldsProject(o, Quick)
  /\ Step(t, "find")

\* The meetings of the project with the quick project's own id.
FindQuick(t) ==
  LET there == \E m \in Ids : Listed(m) /\ meetings[m].project = Quick
  IN  /\ pc[t] = "find"
      /\ Step(t, IF there /\ projects[Quick].quick THEN "commit" ELSE "insert")

InsertNow(t) ==
  /\ Goto(t, "commit")
  /\ start' = [start EXCEPT ![t] = now]
  /\ UNCHANGED <<tables, req, outcome, list, now>>

\* Faulty variant: no foreign key to the project.
InsertAnywhere(t) == pc[t] = "insert" /\ InsertNow(t)

\* The meeting starts now, by the clock of the web server.  A project that was
\* created with the key QUICK has another id, and the foreign key fails.
InsertMeeting(t) ==
  /\ pc[t] = "insert"
  /\ \/ /\ Is(t, "quick") => projects[Quick] = NoProject \/ projects[Quick].quick
        /\ InsertNow(t)
     \/ /\ Is(t, "quick") /\ projects[Quick] # NoProject /\ ~projects[Quick].quick
        /\ Refuse(t, "SYSTEM_ERROR")

Made(t, project) ==
  [project |-> project, status |-> "REVIEW", start |-> start[t],
   consent |-> Is(t, "meeting"), quick |-> Is(t, "quick")]

Event(t, m, name) ==
  [op |-> "recording", actor |-> req[t].actor, name |-> name, meeting |-> m, by |-> t]

\* The consent to record is given in the form of a new meeting.
CommitMeeting(t) ==
  /\ Ending(t, "meeting")
  /\ \E m \in Ids :
       /\ meetings[m] = NoMeeting
       /\ meetings' = [meetings EXCEPT ![m] = Made(t, req[t].on)]
       /\ events' = events \cup {Event(t, m, None)}
  /\ Answer(t, "OK")
  /\ UNCHANGED <<accounts, projects, consents>>

CommitQuick(t) ==
  /\ Ending(t, "quick")
  /\ projects' = [projects EXCEPT ![Quick] =
       [status |-> "ACTIVE", quick |-> @.quick \/ @ = NoProject]]
  /\ \/ start[t] = 0 /\ UNCHANGED meetings
     \/ \E m \in Ids :
          /\ start[t] > 0 /\ meetings[m] = NoMeeting
          /\ meetings' = [meetings EXCEPT ![m] = Made(t, Quick)]
  /\ Answer(t, "OK")
  /\ UNCHANGED <<accounts, events, consents>>

-----------------------------------------------------------------------------
(* recordRecordingConsent and recordExternalAiConsent.                     *)

\* Faulty variant: the update is committed before the event is written.
UpdateAtOnce(t) ==
  /\ pc[t] = "update" /\ Listed(req[t].on)
  /\ \A o \in Callers : ~HoldsMeeting(o, req[t].on)
  /\ meetings' = [meetings EXCEPT ![req[t].on].consent = TRUE]
  /\ Goto(t, "event")
  /\ UNCHANGED <<accounts, projects, events, consents, req, start, outcome, list, now>>

UpdateMeeting(t) ==
  /\ pc[t] = "update"
  /\ \A o \in Callers : ~HoldsMeeting(o, req[t].on)
  /\ \/ Listed(req[t].on) /\ Step(t, "event")
     \/ ~Listed(req[t].on) /\ Refuse(t, "MEETING_NOT_FOUND")

CheckMeeting(t) ==
  /\ pc[t] = "check"
  /\ \/ Listed(req[t].on) /\ Step(t, "consent")
     \/ ~Listed(req[t].on) /\ Refuse(t, "MEETING_NOT_FOUND")

\* The meeting may have been archived since it was checked; once it is purged
\* the foreign key fails.
UpsertConsent(t) ==
  /\ pc[t] = "consent"
  /\ \A o \in Callers : ~HoldsConsent(o, req[t].on, req[t].actor)
  /\ \/ meetings[req[t].on].status # "PURGED" /\ Step(t, "event")
     \/ meetings[req[t].on].status = "PURGED" /\ Refuse(t, "SYSTEM_ERROR")

SameKey(r) == {e \in events : e.op = r.op /\ e.actor = r.actor /\ e.name = r.name}

\* ON CONFLICT DO NOTHING waits for a transaction that has inserted the key.
InsertEvent(t) ==
  /\ pc[t] = "event"
  /\ \A o \in Callers : ~HoldsEvent(o, req[t])
  /\ Step(t, "commit")

CommitConsent(t) ==
  LET m == req[t].on
  IN  /\ \/ /\ Ending(t, "recording")
            /\ meetings' = [meetings EXCEPT ![m].consent = TRUE]
            /\ UNCHANGED consents
         \/ /\ Ending(t, "ai")
            /\ consents' = consents \cup {<<m, req[t].actor>>}
            /\ UNCHANGED meetings
      /\ events' = IF SameKey(req[t]) # {} THEN events
                   ELSE events \cup {[Event(t, m, req[t].name) EXCEPT !.op = req[t].op]}
      /\ Answer(t, "OK")
      /\ UNCHANGED <<accounts, projects>>

\* A statement fails or the process dies: ROLLBACK.
Crash(t) == pc[t] \notin {"new", "done"} /\ Refuse(t, "SYSTEM_ERROR")

-----------------------------------------------------------------------------
(* The deletion of meetings, of which Retention models the rules.          *)

Unused(m) == \A t \in Callers : ~HoldsMeeting(t, m) /\ ~NeedsMeeting(t, m)

Archive(m) ==
  /\ Listed(m) /\ Unused(m)
  /\ meetings' = [meetings EXCEPT ![m].status = "ARCHIVED"]
  /\ UNCHANGED <<accounts, projects, events, consents, pc, req, start, outcome, list, now>>

\* The consents to external AI go with the meeting, its audit events stay.
Purge(m) ==
  /\ meetings[m].status \in {"REVIEW", "ARCHIVED"} /\ Unused(m)
  /\ meetings' = [meetings EXCEPT ![m].status = "PURGED"]
  /\ consents' = {c \in consents : c[1] # m}
  /\ UNCHANGED <<accounts, projects, events, pc, req, start, outcome, list, now>>

-----------------------------------------------------------------------------
(* listMeetings, with a filter on the project or none: the others compare  *)
(* columns of the meeting and its contents in the same WHERE.              *)

Precedes(a, b) == a.start < b.start \/ (a.start = b.start /\ a.id < b.id)

Row(m) == [id |-> m, start |-> meetings[m].start]
Matching(filter) == {m \in Ids : Listed(m) /\ filter \in {None, meetings[m].project}}

\* Faulty variant: the cursor compares the start only.
StartedBefore(r, cursor) == cursor = None \/ r.start < cursor.start

\* The list is read latest first: what is behind the cursor precedes it in time.
Behind(r, cursor) == cursor = None \/ Precedes(r, cursor)

FirstPage(rows) == {r \in rows : Cardinality({s \in rows : Precedes(r, s)}) < PageSize}
LastRow(page) == CHOOSE r \in page : \A s \in page : s = r \/ Precedes(r, s)

\* The next page; there are more if the rows are more than one page.
ReadPage(filter, cursor) ==
  LET rows == {r \in {Row(m) : m \in Matching(filter)} : Behind(r, cursor)}
      more == Cardinality(rows) > PageSize
      ids == {r.id : r \in FirstPage(rows)}
  IN  [list EXCEPT !.stage = IF more THEN "open" ELSE "end", !.filter = filter,
                   !.last = IF more THEN LastRow(FirstPage(rows)) ELSE None,
                   !.seen = @ \cup ids, !.twice = @ \cup (list.seen \cap ids),
                   !.began = IF cursor = None THEN Matching(filter) ELSE @]

OpenList ==
  /\ list.stage = "closed"
  /\ \E filter \in Keys \cup {None} : list' = ReadPage(filter, None)
  /\ UNCHANGED <<tables, pc, req, start, outcome, now>>

NextPage ==
  /\ list.stage = "open"
  /\ list' = ReadPage(list.filter, list.last)
  /\ UNCHANGED <<tables, pc, req, start, outcome, now>>

Tick ==
  /\ now < MaxTime
  /\ now' = now + 1
  /\ UNCHANGED <<tables, pc, req, start, outcome, list>>

Run(t) ==
  \/ Begin(t) \/ InsertUser(t) \/ InsertOrganization(t) \/ CommitRegistration(t)
  \/ InsertProject(t) \/ UpdateProject(t) \/ CommitProject(t)
  \/ CheckProject(t) \/ UpsertQuick(t) \/ FindQuick(t) \/ InsertMeeting(t)
  \/ CommitMeeting(t) \/ CommitQuick(t)
  \/ UpdateMeeting(t) \/ CheckMeeting(t) \/ UpsertConsent(t) \/ InsertEvent(t) \/ CommitConsent(t)
  \/ Crash(t)

Next ==
  \/ \E t \in Callers : Run(t)
  \/ \E m \in Ids : Archive(m) \/ Purge(m)
  \/ OpenList \/ NextPage \/ Tick

Spec == Init /\ [][Next]_vars

-----------------------------------------------------------------------------
(* Properties.                                                             *)

\* Every variable has its type, and the tables keep their unique and foreign
\* keys: two accounts share neither email nor slug, a meeting has its project,
\* the one of a quick capture the quick project.
TypeOK ==
  /\ \A a, b \in accounts : a.email = b.email \/ a.slug = b.slug => a = b
  /\ projects \in [Keys -> [status : {"none", "ACTIVE", "ARCHIVED"}, quick : BOOLEAN]]
  /\ \A m \in Ids : meetings[m] # NoMeeting =>
       /\ meetings[m] \in [project : Keys, status : {"REVIEW", "ARCHIVED", "PURGED"},
                           start : 0..MaxTime, consent : BOOLEAN, quick : BOOLEAN]
       /\ projects[meetings[m].project] # NoProject
       /\ meetings[m].quick => projects[Quick].quick
  /\ events \subseteq [op : {"recording", "ai"}, actor : DOMAIN Role \cup {None}, meeting : Ids,
                       by : Callers \cup {None}, name : {r.name : r \in Requests} \cup {None}]
  /\ consents \subseteq Ids \X DOMAIN Role
  /\ req \in [Callers -> Requests \cup {None}]
  /\ start \in [Callers -> 0..MaxTime] /\ now \in 1..MaxTime

\* The home page, which makes sure of the meeting of the quick recordings every
\* time that it is shown, to any number of members at once, never makes a
\* second one while the first is there.
OneQuickMeeting ==
  \A m, n \in Ids : Listed(m) /\ Listed(n) /\ meetings[m].quick /\ meetings[n].quick => m = n

\* No consent without its audit event: a meeting with a consent to record and a
\* member's consent to external AI have one, and whoever was told that the
\* consent is recorded finds exactly one event for it, of that meeting, however
\* often and at the same time it was sent.
ConsentAudited ==
  /\ \A m \in Ids : meetings[m].consent =>
       \E e \in events : e.op = "recording" /\ e.meeting = m
  /\ \A c \in consents : \E e \in events : e.op = "ai" /\ <<e.meeting, e.actor>> = c
  /\ \A t \in Callers : outcome[t] = "OK" /\ req[t].op \in {"recording", "ai"} =>
       \E e \in events : SameKey(req[t]) = {e} /\ e.meeting = req[t].on

\* Whoever pages to the end of the list has seen every meeting that was there
\* all the time exactly once, and no meeting twice, whatever is created,
\* archived and purged between two pages and however many start at one time.
PagesComplete ==
  /\ list.twice = {}
  /\ list.stage = "end" => \A m \in list.began : Listed(m) => m \in list.seen
=============================================================================
