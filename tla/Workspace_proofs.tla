-------------------------- MODULE Workspace_proofs --------------------------
(***************************************************************************)
(* The safety of Workspace for any number of callers, any requests and any *)
(* number of meetings: the tables keep their keys, the quick recordings    *)
(* have one meeting, and every consent has its audit event.                *)
(***************************************************************************)
EXTENDS Workspace, TLAPS, FiniteSetTheorems, WellFoundedInduction

-----------------------------------------------------------------------------
(* Where a transaction can be.                                             *)

OnPath(r, label) ==
  /\ r # None
  /\ \/ r.op = "register" /\ label \in {"user", "organization", "commit"}
     \/ r.op = "project" /\ label \in {"key", "commit"}
     \/ r.op \in {"archive", "restore"} /\ label \in {"row", "commit"}
     \/ r.op = "meeting" /\ label \in {"project", "insert", "commit"}
     \/ r.op = "quick" /\ label \in {"upsert", "find", "insert", "commit"}
     \/ r.op = "recording" /\ label \in {"update", "event", "commit"}
     \/ r.op = "ai" /\ label \in {"check", "consent", "event", "commit"}

ControlInv ==
  /\ req \in [Callers -> Requests \cup {None}] /\ start \in [Callers -> 0..MaxTime]
  /\ pc = [t \in Callers |-> pc[t]] /\ outcome = [t \in Callers |-> outcome[t]]
  /\ now \in 1..MaxTime
  /\ \A t \in Callers :
       /\ \/ pc[t] = "new" /\ req[t] = None
          \/ pc[t] = "done" /\ req[t] # None
          \/ OnPath(req[t], pc[t])
       /\ outcome[t] = "OK" => pc[t] = "done"
       /\ pc[t] \in {"new", "upsert", "find"} => start[t] = 0

-----------------------------------------------------------------------------
(* Registrations: an email or a slug that is being inserted is nobody's.   *)

Registering(t) == Is(t, "register") /\ pc[t] \in {"organization", "commit"}

AccountsInv ==
  /\ \A a, b \in accounts : a.email = b.email \/ a.slug = b.slug => a = b
  /\ \A t \in Callers : \A a \in accounts :
       /\ Registering(t) => a.email # req[t].actor
       /\ Ending(t, "register") => a.slug # req[t].name
  /\ \A t, o \in Callers : t # o =>
       /\ Registering(t) /\ Registering(o) => req[t].actor # req[o].actor
       /\ Ending(t, "register") /\ Ending(o, "register") => req[t].name # req[o].name

-----------------------------------------------------------------------------
(* Projects: a row is written by one transaction at a time.                *)

ProjectsInv ==
  /\ projects \in [Keys -> [status : {"none", "ACTIVE", "ARCHIVED"}, quick : BOOLEAN]]
  /\ \A t, o \in Callers : \A k \in Keys : HoldsProject(t, k) /\ HoldsProject(o, k) => t = o
  /\ \A t \in Callers :
       /\ Ending(t, "project") => projects[req[t].name] = NoProject
       /\ Is(t, "meeting") /\ pc[t] \in {"insert", "commit"} => projects[req[t].on] # NoProject
       /\ Ending(t, "quick") /\ start[t] > 0 =>
            projects[Quick] = NoProject \/ projects[Quick].quick

-----------------------------------------------------------------------------
(* Meetings, and the one of the quick recordings.                          *)

Meetings == [project : Keys, status : {"REVIEW", "ARCHIVED", "PURGED"}, start : 0..MaxTime,
             consent : BOOLEAN, quick : BOOLEAN]

QuickMeeting(m) == Listed(m) /\ meetings[m].quick

\* It has found none, and will insert one.
WillBeFirst(t) ==
  Is(t, "quick") /\ (pc[t] = "insert" \/ (pc[t] = "commit" /\ start[t] > 0))

\* It has updated the meeting, which nobody can delete until it commits.
Consenting(t) == Is(t, "recording") /\ pc[t] \in {"event", "commit"}

MeetingsInv ==
  /\ meetings \in [Ids -> {NoMeeting} \cup Meetings]
  /\ \A m \in Ids : meetings[m] # NoMeeting => projects[meetings[m].project] # NoProject
  /\ \A m \in Ids : meetings[m].quick => meetings[m].project = Quick /\ projects[Quick].quick
  /\ OneQuickMeeting
  /\ \A t \in Callers : WillBeFirst(t) => \A m \in Ids : ~QuickMeeting(m)
  /\ \A t \in Callers : Consenting(t) => Listed(req[t].on)

-----------------------------------------------------------------------------
(* Consents: their events are those of the requests, one for each key.     *)

Recorded(e) ==
  \E r \in Requests : /\ r.op = e.op /\ r.op \in {"recording", "ai"}
                      /\ r.actor = e.actor /\ r.name = e.name /\ r.on = e.meeting

EventsOK(E) ==
  /\ E \subseteq [op : {"recording", "ai"}, actor : DOMAIN Role \cup {None}, meeting : Ids,
                  by : Callers \cup {None}, name : {r.name : r \in Requests} \cup {None}]
  /\ \A e \in E : e.name # None => Recorded(e)
  /\ \A e, f \in E :
       e.name # None /\ e.op = f.op /\ e.actor = f.actor /\ e.name = f.name => e = f

EventsInv == EventsOK(events)

\* The consents have their events; SameKey finds those of who was answered.
ConsentInv ==
  /\ consents \subseteq Ids \X DOMAIN Role
  /\ \A m \in Ids : meetings[m].consent => \E e \in events : e.op = "recording" /\ e.meeting = m
  /\ \A c \in consents : \E e \in events : e.op = "ai" /\ <<e.meeting, e.actor>> = c
  /\ \A t \in Callers : outcome[t] = "OK" /\ req[t].op \in {"recording", "ai"} =>
       SameKey(req[t]) # {}

-----------------------------------------------------------------------------
(* A transaction moves alone, along the path of its request. *)

\* Where a step of t leads, for ControlInv.
Moved(t, label, s, tag) ==
  /\ pc' = [pc EXCEPT ![t] = label] /\ req' = req /\ now' = now
  /\ start' = [start EXCEPT ![t] = s] /\ outcome' = [outcome EXCEPT ![t] = tag]

\* A step, an answer and an insertion move t.
LEMMA Moves ==
  ASSUME ControlInv, NEW t \in Callers
  PROVE  /\ \A label : Step(t, label) => Moved(t, label, start[t], outcome[t])
         /\ \A tag : Answer(t, tag) => Moved(t, "done", start[t], tag)
         /\ InsertNow(t) => Moved(t, "commit", now, outcome[t])
<1>1. start = [start EXCEPT ![t] = start[t]] /\ outcome = [outcome EXCEPT ![t] = outcome[t]]
  BY DEF ControlInv
<1>2. QED
  BY <1>1 DEF Step, Answer, InsertNow, Goto, Moved

\* Such a move keeps ControlInv when it stays on the path.
LEMMA MovedControl ==
  ASSUME ControlInv, NEW t \in Callers, NEW label, NEW s \in 0..MaxTime, NEW tag,
         Moved(t, label, s, tag), req[t] # None,
         label = "done" \/ OnPath(req[t], label),
         label \in {"new", "upsert", "find"} => s = 0,
         tag = "OK" => label = "done"
  PROVE  ControlInv'
<1>1. /\ pc' = [o \in Callers |-> pc'[o]] /\ outcome' = [o \in Callers |-> outcome'[o]]
      /\ start' \in [Callers -> 0..MaxTime] /\ req' = req /\ now' = now
  BY DEF ControlInv, Moved
<1>2. pc'[t] = label /\ start'[t] = s /\ outcome'[t] = tag
  BY DEF ControlInv, Moved
<1>3. \A o \in Callers : o # t =>
        pc'[o] = pc[o] /\ start'[o] = start[o] /\ outcome'[o] = outcome[o]
  BY DEF ControlInv, Moved
<1>4. ASSUME NEW o \in Callers
      PROVE  /\ \/ pc'[o] = "new" /\ req'[o] = None
                \/ pc'[o] = "done" /\ req'[o] # None
                \/ OnPath(req'[o], pc'[o])
             /\ outcome'[o] = "OK" => pc'[o] = "done"
             /\ pc'[o] \in {"new", "upsert", "find"} => start'[o] = 0
  <2>1. CASE o = t
    BY <1>1, <1>2, <2>1
  <2>2. CASE o # t
    BY <1>1, <1>3, <2>2 DEF ControlInv
  <2>3. QED
    BY <2>1, <2>2
<1>5. QED
  BY <1>1, <1>4 DEF ControlInv

\* A caller who has a path has a request; what it leaves decides where it is.
LEMMA OnWay ==
  ASSUME ControlInv, NEW t \in Callers, pc[t] \notin {"new", "done"}
  PROVE  /\ OnPath(req[t], pc[t]) /\ req[t] # None /\ req[t] \in Requests
         /\ outcome[t] # "OK" /\ start[t] \in 0..MaxTime /\ now \in 0..MaxTime
BY RequestsWellFormed DEF ControlInv, OnPath

\* Every statement leads a transaction along the path of its request.
LEMMA ControlStep == ControlInv /\ [Next]_vars => ControlInv'
<1> SUFFICES ASSUME ControlInv, [Next]_vars PROVE ControlInv'
  OBVIOUS
<1>1. ASSUME NEW t \in Callers, NEW label, Step(t, label), pc[t] \notin {"new", "done"},
             OnPath(req[t], label), label # "new", label # "upsert",
             label = "find" => pc[t] = "upsert"
      PROVE  ControlInv'
  <2>1. Moved(t, label, start[t], outcome[t])
    BY <1>1, Moves
  <2>2. pc[t] = "upsert" => start[t] = 0
    BY DEF ControlInv
  <2>3. QED
    BY <1>1, <2>1, <2>2, OnWay, MovedControl
<1>2. ASSUME NEW t \in Callers, NEW tag, Answer(t, tag), pc[t] \notin {"new", "done"}
      PROVE  ControlInv'
  BY <1>2, Moves, OnWay, MovedControl
<1>3. ASSUME NEW t \in Callers, Begin(t) PROVE ControlInv'
  <2>1. PICK r \in Requests :
          /\ req' = [req EXCEPT ![t] = r]
          /\ \/ Allowed(r) /\ Goto(t, First[r.op]) /\ UNCHANGED outcome
             \/ ~Allowed(r) /\ Goto(t, "done") /\ outcome' = [outcome EXCEPT ![t] = "FORBIDDEN"]
    BY <1>3 DEF Begin
  <2>2. UNCHANGED <<start, now>> /\ pc[t] = "new"
    BY <1>3 DEF Begin
  <2>3. PICK label : pc' = [pc EXCEPT ![t] = label] /\ (label = "done" \/ OnPath(r, label))
                     /\ label # "new"
    <3>1. r # None /\ r.op \in Ops
      BY RequestsWellFormed
    <3>2. OnPath(r, First[r.op]) /\ First[r.op] # "new"
      BY <3>1 DEF OnPath, First, Ops
    <3>3. QED
      BY <2>1, <3>2 DEF Goto
  <2>4. start[t] = 0 /\ outcome[t] # "OK"
    BY <2>2 DEF ControlInv
  <2>5. PICK tag : outcome' = [outcome EXCEPT ![t] = tag] /\ tag # "OK"
    <3>1. CASE UNCHANGED outcome
      <4>1. outcome' = [outcome EXCEPT ![t] = outcome[t]]
        BY <3>1 DEF ControlInv
      <4>2. QED
        BY <2>4, <4>1
    <3>2. CASE outcome' = [outcome EXCEPT ![t] = "FORBIDDEN"]
      <4>1. PICK tag : tag = "FORBIDDEN"
        OBVIOUS
      <4>2. outcome' = [outcome EXCEPT ![t] = tag] /\ tag # "OK"
        BY <3>2, <4>1
      <4>3. QED
        BY <4>2
    <3>3. QED
      BY <2>1, <3>1, <3>2
  <2>6. /\ pc' = [o \in Callers |-> pc'[o]] /\ outcome' = [o \in Callers |-> outcome'[o]]
        /\ req' \in [Callers -> Requests \cup {None}]
    BY <2>1, <2>3, <2>5 DEF ControlInv
  <2>7. /\ \A o \in Callers : o # t => pc'[o] = pc[o] /\ req'[o] = req[o] /\ outcome'[o] = outcome[o]
        /\ pc'[t] = label /\ req'[t] = r /\ outcome'[t] = tag /\ r # None
    BY <2>1, <2>3, <2>5, RequestsWellFormed DEF ControlInv
  <2>8. QED
    BY <2>2, <2>3, <2>4, <2>5, <2>6, <2>7 DEF ControlInv
<1>4. ASSUME NEW t \in Callers,
             \/ InsertUser(t) \/ InsertOrganization(t) \/ InsertProject(t) \/ UpdateProject(t)
             \/ CheckProject(t) \/ UpsertQuick(t) \/ FindQuick(t)
             \/ UpdateMeeting(t) \/ CheckMeeting(t) \/ UpsertConsent(t) \/ InsertEvent(t)
      PROVE  ControlInv'
  <2>1. pc[t] \notin {"new", "done"}
    BY <1>4 DEF InsertUser, InsertOrganization, InsertProject, UpdateProject, CheckProject, UpsertQuick,
         FindQuick, UpdateMeeting, CheckMeeting, UpsertConsent, InsertEvent
  <2>2. OnPath(req[t], pc[t])
    BY <2>1, OnWay
  <2>3. CASE \E tag : Refuse(t, tag)
    BY <1>2, <2>1, <2>3 DEF Refuse
  <2>4. CASE InsertUser(t) \/ InsertOrganization(t)
    BY <1>1, <2>1, <2>2, <2>3, <2>4 DEF InsertUser, InsertOrganization, OnPath
  <2>5. CASE InsertProject(t) \/ UpdateProject(t)
    BY <1>1, <2>1, <2>2, <2>3, <2>5 DEF InsertProject, UpdateProject, OnPath
  <2>6. CASE CheckProject(t)
    BY <1>1, <2>1, <2>2, <2>3, <2>6 DEF CheckProject, OnPath
  <2>7. CASE UpsertQuick(t)
    BY <1>1, <2>1, <2>2, <2>3, <2>7 DEF UpsertQuick, OnPath
  <2>8. CASE FindQuick(t)
    <3>1. pc[t] = "find" /\ (Step(t, "commit") \/ Step(t, "insert"))
      BY <2>8 DEF FindQuick
    <3>2. QED
      BY <1>1, <2>2, <3>1 DEF OnPath
  <2>9. CASE UpdateMeeting(t) \/ CheckMeeting(t)
    BY <1>1, <2>1, <2>2, <2>3, <2>9 DEF UpdateMeeting, CheckMeeting, OnPath
  <2>10. CASE UpsertConsent(t) \/ InsertEvent(t)
    BY <1>1, <2>1, <2>2, <2>3, <2>10 DEF UpsertConsent, InsertEvent, OnPath
  <2>11. QED
    BY <1>4, <2>4, <2>5, <2>6, <2>7, <2>8, <2>9, <2>10
<1>5. ASSUME NEW t \in Callers, InsertMeeting(t) PROVE ControlInv'
  <2>1. pc[t] = "insert" /\ (InsertNow(t) \/ Refuse(t, "SYSTEM_ERROR"))
    BY <1>5 DEF InsertMeeting
  <2>2. CASE InsertNow(t)
    <3>1. Moved(t, "commit", now, outcome[t]) /\ OnPath(req[t], "commit")
      BY <2>1, <2>2, Moves, OnWay DEF OnPath
    <3>2. QED
      BY <2>1, <3>1, OnWay, MovedControl
  <2>3. QED
    BY <1>2, <2>1, <2>2 DEF Refuse
<1>6. ASSUME NEW t \in Callers,
             \/ CommitRegistration(t) \/ CommitProject(t) \/ CommitMeeting(t) \/ CommitQuick(t)
             \/ CommitConsent(t) \/ Crash(t)
      PROVE  ControlInv'
  <2>1. pc[t] \notin {"new", "done"} /\ \E tag : Answer(t, tag)
    BY <1>6 DEF CommitRegistration, CommitProject, CommitMeeting, CommitQuick, CommitConsent, Crash,
         Ending, Refuse
  <2>2. QED
    BY <1>2, <2>1
<1>7. ASSUME UNCHANGED <<pc, req, start, outcome>>, now' \in 1..MaxTime PROVE ControlInv'
  BY <1>7 DEF ControlInv
<1>8. now' \in 1..MaxTime \/ ~(Tick \/ UNCHANGED vars)
  BY RequestsWellFormed DEF ControlInv, Tick, vars
<1>9. ASSUME NEW m \in Ids, Archive(m) \/ Purge(m) PROVE ControlInv'
  BY <1>7, <1>9 DEF Archive, Purge, ControlInv
<1>10. CASE OpenList \/ NextPage
  BY <1>7, <1>10 DEF OpenList, NextPage, ControlInv
<1>11. CASE Tick \/ UNCHANGED vars
  BY <1>7, <1>8, <1>11 DEF Tick, vars
<1>12. QED
  BY <1>3, <1>4, <1>5, <1>6, <1>9, <1>10, <1>11 DEF Next, Run

\* The transactions that do not step stay where they are.
LEMMA OthersStay ==
  ASSUME ControlInv, NEW t \in Callers, Run(t)
  PROVE  \A o \in Callers : o # t => /\ pc'[o] = pc[o] /\ req'[o] = req[o]
                                     /\ start'[o] = start[o] /\ outcome'[o] = outcome[o]
<1> DEFINE others == \A o \in Callers : o # t => /\ pc'[o] = pc[o] /\ req'[o] = req[o]
                                                 /\ start'[o] = start[o] /\ outcome'[o] = outcome[o]
<1>1. ASSUME NEW label, NEW s, NEW tag, Moved(t, label, s, tag) PROVE others
  BY <1>1 DEF Moved, ControlInv
<1>2. ASSUME NEW label, Step(t, label) PROVE others
  BY <1>1, <1>2, Moves
<1>3. ASSUME NEW tag, Answer(t, tag) PROVE others
  BY <1>1, <1>3, Moves
<1>4. CASE InsertNow(t)
  BY <1>1, <1>4, Moves
<1>5. CASE Begin(t)
  <2>1. PICK r \in Requests : req' = [req EXCEPT ![t] = r]
          /\ \/ Goto(t, First[r.op]) /\ UNCHANGED outcome
             \/ Goto(t, "done") /\ outcome' = [outcome EXCEPT ![t] = "FORBIDDEN"]
    BY <1>5 DEF Begin
  <2>2. UNCHANGED start
    BY <1>5 DEF Begin
  <2>3. QED
    BY <2>1, <2>2 DEF Goto, ControlInv
<1>6. QED
  BY <1>2, <1>3, <1>4, <1>5
     DEF Run, InsertUser, InsertOrganization, CommitRegistration, InsertProject, UpdateProject,
         CommitProject, CheckProject, UpsertQuick, FindQuick, InsertMeeting, CommitMeeting, CommitQuick,
         UpdateMeeting, CheckMeeting, UpsertConsent, InsertEvent, CommitConsent, Crash, Refuse

\* Where t is after a step, and what it has begun.
LEMMA WhereTo ==
  ASSUME ControlInv, NEW t \in Callers
  PROVE  /\ \A label : Step(t, label) => pc'[t] = label /\ req'[t] = req[t] /\ start'[t] = start[t]
         /\ \A tag : Answer(t, tag) => /\ pc'[t] = "done" /\ req'[t] = req[t]
                                       /\ start'[t] = start[t] /\ outcome'[t] = tag
         /\ InsertNow(t) => pc'[t] = "commit" /\ req'[t] = req[t] /\ start'[t] = now
         /\ Begin(t) => pc'[t] \in {"done", "user", "key", "row", "project", "upsert", "update", "check"}
<1>1. \A label, s, tag : Moved(t, label, s, tag) =>
        pc'[t] = label /\ req'[t] = req[t] /\ start'[t] = s /\ outcome'[t] = tag
  BY DEF Moved, ControlInv
<1>2. Begin(t) => pc'[t] \in {"done", "user", "key", "row", "project", "upsert", "update", "check"}
  <2>1. SUFFICES ASSUME Begin(t)
                 PROVE  pc'[t] \in {"done", "user", "key", "row", "project", "upsert", "update", "check"}
    OBVIOUS
  <2>2. PICK r \in Requests : Goto(t, First[r.op]) \/ Goto(t, "done")
    BY <2>1 DEF Begin
  <2>3. r.op \in Ops
    BY RequestsWellFormed
  <2>4. First[r.op] \in {"user", "key", "row", "project", "upsert", "update", "check"}
    BY <2>3 DEF First, Ops
  <2>5. QED
    BY <2>2, <2>4 DEF Goto, ControlInv
<1>3. QED
  BY <1>1, <1>2, Moves

-----------------------------------------------------------------------------
(* Registrations. *)

\* Nobody comes to hold an email or a slug: AccountsInv stays.
LEMMA AccountsKept ==
  ASSUME AccountsInv, UNCHANGED accounts,
         \A o \in Callers : /\ Registering(o)' => Registering(o) /\ req'[o] = req[o]
                            /\ Ending(o, "register")' => Ending(o, "register")
  PROVE  AccountsInv'
<1>1. \A o \in Callers : Ending(o, "register") => Registering(o)
  BY DEF Ending, Registering
<1>2. \A o \in Callers : Ending(o, "register")' => Registering(o)'
  BY DEF Ending, Registering
<1>3. QED
  BY <1>1, <1>2 DEF AccountsInv

\* Every statement keeps emails and slugs unique, committed or being inserted.
LEMMA AccountsStep == ControlInv /\ AccountsInv /\ [Next]_vars => AccountsInv'
<1> SUFFICES ASSUME ControlInv, AccountsInv, [Next]_vars PROVE AccountsInv'
  OBVIOUS
<1>1. ASSUME NEW t \in Callers, Run(t), UNCHANGED accounts,
             \/ req'[t] = req[t] /\ ~Is(t, "register")
             \/ pc'[t] \notin {"organization", "commit"}
      PROVE  AccountsInv'
  <2>1. ~Registering(t)' /\ ~Ending(t, "register")'
    BY <1>1 DEF Registering, Ending, Is
  <2>2. \A o \in Callers : o # t => pc'[o] = pc[o] /\ req'[o] = req[o]
    BY <1>1, OthersStay
  <2>3. QED
    BY <1>1, <2>1, <2>2, AccountsKept DEF Registering, Ending, Is
<1>2. ASSUME NEW t \in Callers, Begin(t) PROVE AccountsInv'
  <2>1. pc'[t] \notin {"organization", "commit"}
    BY <1>2, WhereTo
  <2>2. UNCHANGED accounts
    BY <1>2 DEF Begin, tables
  <2>3. QED
    BY <1>1, <1>2, <2>1, <2>2 DEF Run
<1>3. ASSUME NEW t \in Callers, InsertUser(t) PROVE AccountsInv'
  <2>1. CASE Refuse(t, "EMAIL_ALREADY_EXISTS")
    BY <1>1, <1>3, <2>1, WhereTo DEF Refuse, tables, Run
  <2>2. CASE (\A a \in accounts : a.email # req[t].actor) /\ Step(t, "organization")
    <3>1. pc'[t] = "organization" /\ req'[t] = req[t] /\ UNCHANGED accounts
      BY <2>2, WhereTo DEF Step, tables
    <3>2. \A o \in Callers : o # t => pc'[o] = pc[o] /\ req'[o] = req[o]
      BY <1>3, OthersStay DEF Run
    <3>3. \A o \in Callers : Registering(o) => req[o].actor # req[t].actor
      BY <1>3 DEF InsertUser, HoldsEmail, Registering
    <3>4. ~Ending(t, "register")'
      BY <3>1 DEF Ending
    <3>5. \A o \in Callers : o # t => /\ Registering(o)' <=> Registering(o)
                                      /\ Ending(o, "register")' <=> Ending(o, "register")
      BY <3>2 DEF Registering, Ending, Is
    <3>6. QED
      BY <2>2, <3>1, <3>2, <3>3, <3>4, <3>5 DEF AccountsInv
  <2>3. QED
    BY <1>3, <2>1, <2>2 DEF InsertUser
<1>4. ASSUME NEW t \in Callers, InsertOrganization(t) PROVE AccountsInv'
  <2>1. CASE Refuse(t, "SLUG_ALREADY_EXISTS")
    BY <1>1, <1>4, <2>1, WhereTo DEF Refuse, tables, Run
  <2>2. CASE (\A a \in accounts : a.slug # req[t].name) /\ Step(t, "commit")
    <3>1. pc'[t] = "commit" /\ req'[t] = req[t] /\ UNCHANGED accounts
      BY <2>2, WhereTo DEF Step, tables
    <3>2. \A o \in Callers : o # t => pc'[o] = pc[o] /\ req'[o] = req[o]
      BY <1>4, OthersStay DEF Run
    <3>3. \A o \in Callers : Ending(o, "register") => req[o].name # req[t].name
      BY <1>4 DEF InsertOrganization, HoldsSlug
    <3>4. Registering(t)
      BY <1>4, OnWay DEF InsertOrganization, OnPath, Registering, Is
    <3>5. \A o \in Callers : o # t => /\ Registering(o)' <=> Registering(o)
                                      /\ Ending(o, "register")' <=> Ending(o, "register")
      BY <3>2 DEF Registering, Ending, Is
    <3>6. QED
      BY <2>2, <3>1, <3>2, <3>3, <3>4, <3>5 DEF AccountsInv
  <2>3. QED
    BY <1>4, <2>1, <2>2 DEF InsertOrganization
<1>5. ASSUME NEW t \in Callers, CommitRegistration(t) PROVE AccountsInv'
  <2>1. /\ accounts' = accounts \cup {[email |-> req[t].actor, slug |-> req[t].name]}
        /\ pc'[t] = "done" /\ Ending(t, "register") /\ Registering(t)
    BY <1>5, WhereTo DEF CommitRegistration, Registering, Ending
  <2>2. \A o \in Callers : o # t => pc'[o] = pc[o] /\ req'[o] = req[o]
    BY <1>5, OthersStay DEF Run
  <2>3. ~Registering(t)' /\ ~Ending(t, "register")'
    BY <2>1 DEF Registering, Ending
  <2>4. \A o \in Callers : o # t => /\ Registering(o)' <=> Registering(o)
                                    /\ Ending(o, "register")' <=> Ending(o, "register")
    BY <2>2 DEF Registering, Ending, Is
  <2>5. \A a \in accounts' : a \in accounts \/ (a.email = req[t].actor /\ a.slug = req[t].name)
    BY <2>1
  <2>6. \A a, b \in accounts' : a.email = b.email \/ a.slug = b.slug => a = b
    BY <2>1 DEF AccountsInv
  <2>7. QED
    BY <2>1, <2>2, <2>3, <2>4, <2>5, <2>6 DEF AccountsInv
<1>6. ASSUME NEW t \in Callers, NEW label, Step(t, label), ~Is(t, "register"), Run(t) PROVE AccountsInv'
  BY <1>1, <1>6, WhereTo DEF Step, tables
<1>7. ASSUME NEW t \in Callers, NEW tag, Answer(t, tag), UNCHANGED accounts, Run(t) PROVE AccountsInv'
  BY <1>1, <1>7, WhereTo
<1>8. ASSUME NEW t \in Callers,
             \/ InsertProject(t) \/ UpdateProject(t) \/ CheckProject(t) \/ UpsertQuick(t)
             \/ FindQuick(t) \/ InsertMeeting(t) \/ UpdateMeeting(t) \/ CheckMeeting(t)
             \/ UpsertConsent(t) \/ InsertEvent(t)
      PROVE  AccountsInv'
  <2>1. pc[t] \in {"key", "row", "project", "upsert", "find", "insert", "update", "check", "consent", "event"}
    BY <1>8 DEF InsertProject, UpdateProject, CheckProject, UpsertQuick,
         FindQuick, InsertMeeting, UpdateMeeting, CheckMeeting, UpsertConsent, InsertEvent
  <2>2. ~Is(t, "register") /\ Run(t)
    BY <1>8, <2>1, OnWay DEF OnPath, Is, Run
  <2>3. CASE InsertNow(t)
    BY <1>1, <2>2, <2>3, WhereTo DEF InsertNow, tables
  <2>4. CASE \E tag : Refuse(t, tag)
    BY <1>7, <2>2, <2>4 DEF Refuse, tables
  <2>5. CASE \E label : Step(t, label)
    BY <1>6, <2>2, <2>5
  <2>6. QED
    BY <1>8, <2>3, <2>4, <2>5 DEF InsertProject, UpdateProject, CheckProject, UpsertQuick,
         FindQuick, InsertMeeting, UpdateMeeting, CheckMeeting, UpsertConsent, InsertEvent
<1>9. ASSUME NEW t \in Callers,
             CommitProject(t) \/ CommitMeeting(t) \/ CommitQuick(t) \/ CommitConsent(t) \/ Crash(t)
      PROVE  AccountsInv'
  <2>1. UNCHANGED accounts /\ Run(t) /\ \E tag : Answer(t, tag)
    BY <1>9 DEF CommitProject, CommitMeeting, CommitQuick, CommitConsent, Crash, Refuse, tables, Run
  <2>2. QED
    BY <1>7, <2>1
<1>10. ASSUME UNCHANGED <<accounts, pc, req>> PROVE AccountsInv'
  BY <1>10, AccountsKept DEF Registering, Ending, Is
<1>11. QED
  BY <1>2, <1>3, <1>4, <1>5, <1>8, <1>9, <1>10
     DEF Next, Run, Archive, Purge, OpenList, NextPage, Tick, vars, tables

-----------------------------------------------------------------------------
(* Projects. *)

ProjectRows == [status : {"none", "ACTIVE", "ARCHIVED"}, quick : BOOLEAN]

\* A step that writes no project, and holds none that another transaction holds.
LEMMA ProjectsKept ==
  ASSUME ControlInv, ProjectsInv, NEW t \in Callers, Run(t), UNCHANGED projects,
         \A k \in Keys : HoldsProject(t, k)' =>
           HoldsProject(t, k) \/ \A o \in Callers : ~HoldsProject(o, k),
         Ending(t, "project")' => projects[req'[t].name] = NoProject,
         Is(t, "meeting")' /\ pc'[t] \in {"insert", "commit"} => projects[req'[t].on] # NoProject,
         Ending(t, "quick")' /\ start'[t] > 0 => projects[Quick] = NoProject \/ projects[Quick].quick
  PROVE  ProjectsInv'
<1>1. \A o \in Callers : o # t => pc'[o] = pc[o] /\ req'[o] = req[o] /\ start'[o] = start[o]
  BY OthersStay
<1>2. \A o \in Callers : o # t =>
        /\ \A k \in Keys : HoldsProject(o, k)' <=> HoldsProject(o, k)
        /\ \A op \in Ops : Is(o, op)' <=> Is(o, op)
        /\ \A op \in Ops : Ending(o, op)' <=> Ending(o, op)
  BY <1>1 DEF HoldsProject, HoldsWritten, Ending, Is
<1>3. \A o, p \in Callers : \A k \in Keys : HoldsProject(o, k)' /\ HoldsProject(p, k)' => o = p
  BY <1>2 DEF ProjectsInv
<1>4. ASSUME NEW o \in Callers
      PROVE  /\ Ending(o, "project")' => projects'[req'[o].name] = NoProject
             /\ Is(o, "meeting")' /\ pc'[o] \in {"insert", "commit"} => projects'[req'[o].on] # NoProject
             /\ Ending(o, "quick")' /\ start'[o] > 0 =>
                  projects'[Quick] = NoProject \/ projects'[Quick].quick
  BY <1>1, <1>2 DEF ProjectsInv, Ops
<1>5. QED
  BY <1>3, <1>4 DEF ProjectsInv

\* After Begin and after an answer a transaction holds nothing.
LEMMA ProjectsIdle ==
  ASSUME ControlInv, ProjectsInv, NEW t \in Callers, Run(t), UNCHANGED projects,
         pc'[t] \notin {"find", "insert", "commit"}
  PROVE  ProjectsInv'
<1>1. /\ \A k \in Keys : ~HoldsProject(t, k)'
      /\ ~Ending(t, "project")' /\ ~Ending(t, "quick")'
  BY DEF HoldsProject, HoldsWritten, Ending
<1>2. QED
  BY <1>1, ProjectsKept

\* A commit that writes the row that the transaction holds.
LEMMA ProjectWritten ==
  ASSUME ControlInv, ProjectsInv, NEW t \in Callers, Run(t), pc'[t] = "done",
         NEW k \in Keys, HoldsProject(t, k), NEW row \in ProjectRows, row # NoProject,
         projects' = [projects EXCEPT ![k] = row]
  PROVE  ProjectsInv'
<1>1. \A o \in Callers : o # t => pc'[o] = pc[o] /\ req'[o] = req[o] /\ start'[o] = start[o]
  BY OthersStay
<1>2. \A o \in Callers : o # t =>
        /\ \A j \in Keys : HoldsProject(o, j)' <=> HoldsProject(o, j)
        /\ \A op \in Ops : Is(o, op)' <=> Is(o, op)
        /\ \A op \in Ops : Ending(o, op)' <=> Ending(o, op)
  BY <1>1 DEF HoldsProject, HoldsWritten, Ending, Is
<1>3. /\ \A j \in Keys : ~HoldsProject(t, j)'
      /\ ~Ending(t, "project")' /\ ~Ending(t, "quick")'
  BY DEF HoldsProject, HoldsWritten, Ending
<1>4. \A o, p \in Callers : \A j \in Keys : HoldsProject(o, j)' /\ HoldsProject(p, j)' => o = p
  BY <1>2, <1>3 DEF ProjectsInv
<1>5. projects' \in [Keys -> ProjectRows] /\ \A j : j # k => projects'[j] = projects[j]
  BY DEF ProjectsInv, ProjectRows
<1>6. \A o \in Callers : o # t => ~HoldsProject(o, k)
  BY DEF ProjectsInv
<1>7. ASSUME NEW o \in Callers, Ending(o, "project")' PROVE projects'[req'[o].name] = NoProject
  <2>1. o # t /\ Ending(o, "project") /\ req'[o] = req[o] /\ req[o] \in Requests
    BY <1>1, <1>2, <1>3, <1>7 DEF Ops, ControlInv, Ending, Is
  <2>2. req[o].name \in Keys /\ HoldsProject(o, req[o].name)
    BY <2>1, RequestsWellFormed DEF Ending, Is, HoldsProject, HoldsWritten
  <2>3. QED
    BY <1>5, <1>6, <2>1, <2>2 DEF ProjectsInv
<1>8. ASSUME NEW o \in Callers, Is(o, "meeting")', pc'[o] \in {"insert", "commit"}
      PROVE  projects'[req'[o].on] # NoProject
  <2>1. o # t /\ Is(o, "meeting") /\ req'[o] = req[o] /\ pc'[o] = pc[o] /\ req[o] \in Requests
    BY <1>1, <1>2, <1>8 DEF Ops, ControlInv, Is
  <2>2. projects[req[o].on] # NoProject
    BY <1>8, <2>1 DEF ProjectsInv
  <2>3. QED
    BY <1>5, <2>1, <2>2 DEF ProjectsInv
<1>9. ASSUME NEW o \in Callers, Ending(o, "quick")', start'[o] > 0
      PROVE  projects'[Quick] = NoProject \/ projects'[Quick].quick
  <2>1. o # t /\ Ending(o, "quick") /\ start'[o] = start[o]
    BY <1>1, <1>2, <1>3, <1>9 DEF Ops
  <2>2. HoldsProject(o, Quick) /\ Quick \in Keys
    BY <2>1, RequestsWellFormed DEF Ending, HoldsProject
  <2>3. QED
    BY <1>5, <1>6, <1>9, <2>1, <2>2 DEF ProjectsInv
<1>10. QED
  BY <1>4, <1>5, <1>7, <1>8, <1>9 DEF ProjectsInv, ProjectRows

\* Every statement keeps a project row in the hands of one transaction.
LEMMA ProjectsStep == ControlInv /\ ProjectsInv /\ [Next]_vars => ProjectsInv'
<1> SUFFICES ASSUME ControlInv, ProjectsInv, [Next]_vars PROVE ProjectsInv'
  OBVIOUS
<1>1. ASSUME NEW t \in Callers, NEW tag, Answer(t, tag), UNCHANGED projects, Run(t) PROVE ProjectsInv'
  BY <1>1, WhereTo, ProjectsIdle
<1>2. ASSUME NEW t \in Callers, NEW tag, Refuse(t, tag), Run(t) PROVE ProjectsInv'
  BY <1>1, <1>2 DEF Refuse, tables
<1>3. ASSUME NEW t \in Callers, Begin(t) PROVE ProjectsInv'
  <2>1. pc'[t] \notin {"find", "insert", "commit"}
    BY <1>3, WhereTo
  <2>2. UNCHANGED projects /\ Run(t)
    BY <1>3 DEF Begin, tables, Run
  <2>3. QED
    BY <2>1, <2>2, ProjectsIdle
<1>4. ASSUME NEW t \in Callers, NEW label, Step(t, label), Run(t),
             Is(t, "register") \/ Is(t, "recording") \/ Is(t, "ai")
      PROVE  ProjectsInv'
  <2>1. req'[t] = req[t] /\ UNCHANGED projects
    BY <1>4, WhereTo DEF Step, tables
  <2>2. /\ \A k \in Keys : ~HoldsProject(t, k)'
        /\ ~Ending(t, "project")' /\ ~Ending(t, "quick")' /\ ~Is(t, "meeting")'
    BY <1>4, <2>1 DEF HoldsProject, HoldsWritten, Ending, Is
  <2>3. QED
    BY <1>4, <2>1, <2>2, ProjectsKept
<1>5. ASSUME NEW t \in Callers, InsertProject(t) PROVE ProjectsInv'
  <2>1. Run(t) /\ Is(t, "project") /\ req[t] \in Requests
    BY <1>5, OnWay DEF Run, InsertProject, OnPath, Is
  <2>2. CASE projects[req[t].name] = NoProject /\ Step(t, "commit")
    <3>1. req'[t] = req[t] /\ UNCHANGED projects
      BY <2>2, WhereTo DEF Step, tables
    <3>2. Is(t, "project")'
      BY <2>1, <3>1 DEF Is
    <3>3. \A k \in Keys : HoldsProject(t, k)' => k = req[t].name
      BY <3>1, <3>2 DEF HoldsProject, HoldsWritten, Ending, Is
    <3>4. \A o \in Callers : ~HoldsProject(o, req[t].name)
      BY <1>5 DEF InsertProject
    <3>5. ~Ending(t, "quick")' /\ ~Is(t, "meeting")'
      BY <3>2 DEF Ending, Is
    <3>6. QED
      BY <2>1, <2>2, <3>1, <3>3, <3>4, <3>5, ProjectsKept
  <2>3. QED
    BY <1>2, <1>5, <2>1, <2>2 DEF InsertProject
<1>6. ASSUME NEW t \in Callers, UpdateProject(t) PROVE ProjectsInv'
  <2>1. Run(t) /\ (Is(t, "archive") \/ Is(t, "restore")) /\ req[t] \in Requests
    BY <1>6, OnWay DEF Run, UpdateProject, OnPath, Is
  <2>2. CASE projects[req[t].on] # NoProject /\ Step(t, "commit")
    <3>1. req'[t] = req[t] /\ UNCHANGED projects
      BY <2>2, WhereTo DEF Step, tables
    <3>2. (Is(t, "archive") \/ Is(t, "restore"))'
      BY <2>1, <3>1 DEF Is
    <3>3. \A k \in Keys : HoldsProject(t, k)' => k = req[t].on
      BY <3>1, <3>2 DEF HoldsProject, HoldsWritten, Ending, Is
    <3>4. \A o \in Callers : ~HoldsProject(o, req[t].on)
      BY <1>6 DEF UpdateProject
    <3>5. ~Ending(t, "quick")' /\ ~Ending(t, "project")' /\ ~Is(t, "meeting")'
      BY <3>2 DEF Ending, Is
    <3>6. QED
      BY <2>1, <2>2, <3>1, <3>3, <3>4, <3>5, ProjectsKept
  <2>3. QED
    BY <1>2, <1>6, <2>1, <2>2 DEF UpdateProject
<1>7. ASSUME NEW t \in Callers, CheckProject(t) PROVE ProjectsInv'
  <2>1. Run(t) /\ Is(t, "meeting")
    BY <1>7, OnWay DEF Run, CheckProject, OnPath, Is
  <2>2. CASE projects[req[t].on].status = "ACTIVE" /\ Step(t, "insert")
    <3>1. req'[t] = req[t] /\ UNCHANGED projects
      BY <2>2, WhereTo DEF Step, tables
    <3>2. Is(t, "meeting")'
      BY <2>1, <3>1 DEF Is
    <3>3. \A k \in Keys : ~HoldsProject(t, k)'
      BY <3>2 DEF HoldsProject, HoldsWritten, Ending, Is
    <3>4. ~Ending(t, "quick")' /\ ~Ending(t, "project")'
      BY <3>2 DEF Ending, Is
    <3>5. projects[req[t].on] # NoProject
      BY <2>2 DEF NoProject
    <3>6. QED
      BY <2>1, <3>1, <3>3, <3>4, <3>5, ProjectsKept
  <2>3. QED
    BY <1>2, <1>7, <2>1, <2>2 DEF CheckProject
<1>8. ASSUME NEW t \in Callers, UpsertQuick(t) PROVE ProjectsInv'
  <2>1. /\ Run(t) /\ Is(t, "quick") /\ req'[t] = req[t] /\ pc'[t] = "find" /\ UNCHANGED projects
        /\ \A o \in Callers : ~HoldsProject(o, Quick)
    BY <1>8, OnWay, WhereTo DEF Run, UpsertQuick, OnPath, Is, Step, tables
  <2>2. Is(t, "quick")'
    BY <2>1 DEF Is
  <2>3. \A k \in Keys : HoldsProject(t, k)' => k = Quick
    BY <2>2 DEF HoldsProject, HoldsWritten, Ending, Is
  <2>4. ~Ending(t, "quick")' /\ ~Ending(t, "project")' /\ ~Is(t, "meeting")'
    BY <2>1, <2>2 DEF Ending, Is
  <2>5. QED
    BY <2>1, <2>3, <2>4, ProjectsKept
<1>9. ASSUME NEW t \in Callers, FindQuick(t) PROVE ProjectsInv'
  <2>1. /\ Run(t) /\ Is(t, "quick") /\ req'[t] = req[t] /\ UNCHANGED projects /\ start'[t] = 0
        /\ pc[t] = "find"
    <3>1. pc[t] = "find" /\ \E label : Step(t, label)
      BY <1>9 DEF FindQuick
    <3>2. start[t] = 0
      BY <3>1 DEF ControlInv
    <3>3. QED
      BY <1>9, <3>1, <3>2, OnWay, WhereTo DEF Run, OnPath, Is, Step, tables
  <2>2. Is(t, "quick")'
    BY <2>1 DEF Is
  <2>3. \A k \in Keys : HoldsProject(t, k)' => HoldsProject(t, k)
    BY <2>1, <2>2 DEF HoldsProject, HoldsWritten, Ending, Is
  <2>4. ~Ending(t, "project")' /\ ~Is(t, "meeting")'
    BY <2>2 DEF Ending, Is
  <2>5. QED
    BY <2>1, <2>3, <2>4, ProjectsKept
<1>10. ASSUME NEW t \in Callers, InsertMeeting(t) PROVE ProjectsInv'
  <2>1. Run(t) /\ pc[t] = "insert" /\ (Is(t, "quick") \/ Is(t, "meeting"))
    BY <1>10, OnWay DEF Run, InsertMeeting, OnPath, Is
  <2>2. CASE InsertNow(t)
    <3>1. req'[t] = req[t] /\ UNCHANGED projects
      BY <2>2, WhereTo DEF InsertNow, tables
    <3>2. (Is(t, "quick")' <=> Is(t, "quick")) /\ (Is(t, "meeting")' <=> Is(t, "meeting"))
      BY <3>1 DEF Is
    <3>3. \A k \in Keys : HoldsProject(t, k)' => HoldsProject(t, k)
      BY <2>1, <3>1, <3>2 DEF HoldsProject, HoldsWritten, Ending, Is
    <3>4. ~Ending(t, "project")'
      BY <2>1, <3>2 DEF Ending, Is
    <3>5. Is(t, "meeting")' => projects[req'[t].on] # NoProject
      BY <2>1, <3>1, <3>2 DEF ProjectsInv
    <3>6. Ending(t, "quick")' => projects[Quick] = NoProject \/ projects[Quick].quick
      <4>1. CASE Is(t, "quick") => projects[Quick] = NoProject \/ projects[Quick].quick
        BY <3>2, <4>1 DEF Ending
      <4>2. CASE Refuse(t, "SYSTEM_ERROR")
        BY <2>2, <4>2, WhereTo DEF Refuse
      <4>3. QED
        BY <1>10, <4>1, <4>2 DEF InsertMeeting
    <3>7. QED
      BY <2>1, <3>1, <3>3, <3>4, <3>5, <3>6, ProjectsKept
  <2>3. QED
    BY <1>2, <1>10, <2>1, <2>2 DEF InsertMeeting
<1>11. ASSUME NEW t \in Callers, CommitProject(t) PROVE ProjectsInv'
  <2>1. pc'[t] = "done" /\ Run(t)
    BY <1>11, WhereTo DEF CommitProject, Run
  <2>2. CASE /\ Ending(t, "project")
             /\ projects' = [projects EXCEPT ![req[t].name] = [status |-> "ACTIVE", quick |-> FALSE]]
    <3>1. req[t].name \in Keys /\ HoldsProject(t, req[t].name)
      BY <2>2, RequestsWellFormed DEF Ending, Is, HoldsProject, HoldsWritten, ControlInv
    <3>2. PICK k, row : k = req[t].name /\ row = [status |-> "ACTIVE", quick |-> FALSE]
      OBVIOUS
    <3>3. row \in ProjectRows /\ row # NoProject
      BY <3>2 DEF ProjectRows, NoProject
    <3>4. QED
      BY <2>1, <2>2, <3>1, <3>2, <3>3, ProjectWritten
  <2>3. ASSUME NEW status \in {"ACTIVE", "ARCHIVED"}, Ending(t, "archive") \/ Ending(t, "restore"),
               projects' = [projects EXCEPT ![req[t].on].status = status]
        PROVE  ProjectsInv'
    <3>1. req[t].on \in Keys /\ HoldsProject(t, req[t].on)
      BY <2>3, RequestsWellFormed DEF Ending, Is, HoldsProject, HoldsWritten, ControlInv
    <3>2. PICK k, row : k = req[t].on /\ row = [projects[k] EXCEPT !.status = status]
      OBVIOUS
    <3>3. projects \in [Keys -> ProjectRows]
      BY DEF ProjectsInv, ProjectRows
    <3>4. row \in ProjectRows /\ row.status = status
      BY <3>1, <3>2, <3>3 DEF ProjectRows
    <3>5. row # NoProject
      BY <3>4 DEF NoProject
    <3>6. projects' = [projects EXCEPT ![k] = row]
      BY <2>3, <3>1, <3>2, <3>3
    <3>7. QED
      BY <2>1, <3>1, <3>2, <3>4, <3>5, <3>6, ProjectWritten
  <2>4. QED
    BY <1>11, <2>2, <2>3 DEF CommitProject
<1>12. ASSUME NEW t \in Callers, CommitQuick(t) PROVE ProjectsInv'
  <2>1. pc'[t] = "done" /\ Run(t) /\ Ending(t, "quick")
    BY <1>12, WhereTo DEF CommitQuick, Run
  <2>2. Quick \in Keys /\ HoldsProject(t, Quick)
    BY <2>1, RequestsWellFormed DEF Ending, HoldsProject
  <2>3. PICK row : row = [status |-> "ACTIVE",
                          quick |-> projects[Quick].quick \/ projects[Quick] = NoProject]
    OBVIOUS
  <2>4. row \in ProjectRows /\ row # NoProject
    <3>1. (projects[Quick].quick \/ projects[Quick] = NoProject) \in BOOLEAN
      OBVIOUS
    <3>2. QED
      BY <2>3, <3>1 DEF ProjectRows, NoProject
  <2>5. projects' = [projects EXCEPT ![Quick] = row]
    BY <1>12, <2>2, <2>3 DEF CommitQuick, ProjectsInv
  <2>6. QED
    BY <2>1, <2>2, <2>4, <2>5, ProjectWritten
<1>13. ASSUME NEW t \in Callers,
             CommitRegistration(t) \/ CommitMeeting(t) \/ CommitConsent(t) \/ Crash(t)
      PROVE  ProjectsInv'
  <2>1. UNCHANGED projects /\ Run(t) /\ \E tag : Answer(t, tag)
    BY <1>13 DEF CommitRegistration, CommitMeeting, CommitConsent, Crash, Refuse, tables, Run
  <2>2. QED
    BY <1>1, <2>1
<1>14. ASSUME NEW t \in Callers,
             \/ InsertUser(t) \/ InsertOrganization(t) \/ UpdateMeeting(t) \/ CheckMeeting(t)
             \/ UpsertConsent(t) \/ InsertEvent(t)
      PROVE  ProjectsInv'
  <2>1. Run(t) /\ ((\E tag : Refuse(t, tag)) \/ \E label : Step(t, label))
    BY <1>14 DEF Run, InsertUser, InsertOrganization, UpdateMeeting, CheckMeeting, UpsertConsent,
         InsertEvent
  <2>2. Is(t, "register") \/ Is(t, "recording") \/ Is(t, "ai")
    <3>1. pc[t] \in {"user", "organization", "update", "check", "consent", "event"}
      BY <1>14 DEF InsertUser, InsertOrganization, UpdateMeeting, CheckMeeting, UpsertConsent,
           InsertEvent
    <3>2. QED
      BY <3>1, OnWay DEF OnPath, Is
  <2>3. QED
    BY <1>2, <1>4, <2>1, <2>2
<1>15. ASSUME UNCHANGED <<projects, pc, req, start>> PROVE ProjectsInv'
  BY <1>15 DEF ProjectsInv, HoldsProject, HoldsWritten, Ending, Is
<1>16. QED
  BY <1>3, <1>5, <1>6, <1>7, <1>8, <1>9, <1>10, <1>11, <1>12, <1>13, <1>14, <1>15
     DEF Next, Run, Archive, Purge, OpenList, NextPage, Tick, vars, tables

-----------------------------------------------------------------------------
(* Meetings. *)

\* A project stays, and the quick project stays what it is.
LEMMA ProjectsGrow ==
  ASSUME ControlInv, ProjectsInv, [Next]_vars
  PROVE  /\ \A k \in Keys : projects[k] # NoProject => projects'[k] # NoProject
         /\ projects[Quick].quick => projects'[Quick].quick
<1> DEFINE grows == /\ \A k \in Keys : projects[k] # NoProject => projects'[k] # NoProject
                    /\ projects[Quick].quick => projects'[Quick].quick
<1>1. Quick \in Keys /\ projects \in [Keys -> ProjectRows]
  BY RequestsWellFormed DEF ProjectsInv, ProjectRows
<1>2. CASE UNCHANGED projects
  BY <1>2
<1>3. ASSUME NEW t \in Callers, CommitProject(t) PROVE grows
  <2>1. CASE /\ Ending(t, "project")
             /\ projects' = [projects EXCEPT ![req[t].name] = [status |-> "ACTIVE", quick |-> FALSE]]
    <3>1. projects[req[t].name] = NoProject
      BY <2>1 DEF ProjectsInv
    <3>2. ~NoProject.quick /\ [status |-> "ACTIVE", quick |-> FALSE] # NoProject
      BY DEF NoProject
    <3>3. \A k \in Keys : k # req[t].name => projects'[k] = projects[k]
      BY <1>1, <2>1
    <3>4. QED
      BY <1>1, <3>1, <3>2, <3>3
  <2>2. ASSUME NEW k, NEW status \in {"ACTIVE", "ARCHIVED"},
               projects' = [projects EXCEPT ![k].status = status]
        PROVE  grows
    <3>1. \A j \in Keys : projects'[j] = IF j = k THEN [projects[j] EXCEPT !.status = status]
                                                  ELSE projects[j]
      BY <1>1, <2>2
    <3>2. \A j \in Keys : [projects[j] EXCEPT !.status = status].status = status
                          /\ [projects[j] EXCEPT !.status = status].quick = projects[j].quick
      BY <1>1 DEF ProjectRows
    <3>3. NoProject.status = "none"
      BY DEF NoProject
    <3>4. QED
      BY <1>1, <3>1, <3>2, <3>3
  <2>3. QED
    BY <1>3, <2>1, <2>2 DEF CommitProject
<1>4. ASSUME NEW t \in Callers, CommitQuick(t) PROVE grows
  <2>1. PICK row : row = [status |-> "ACTIVE",
                          quick |-> projects[Quick].quick \/ projects[Quick] = NoProject]
    OBVIOUS
  <2>2. projects' = [projects EXCEPT ![Quick] = row]
    BY <1>1, <1>4, <2>1 DEF CommitQuick
  <2>3. row # NoProject /\ (projects[Quick].quick => row.quick)
    BY <2>1 DEF NoProject
  <2>4. QED
    BY <1>1, <2>2, <2>3
<1>5. QED
  BY <1>2, <1>3, <1>4
     DEF Next, Run, Archive, Purge, OpenList, NextPage, Tick, vars, tables,
         InsertUser, InsertOrganization, CommitRegistration, InsertProject, UpdateProject,
         CheckProject, UpsertQuick, FindQuick, InsertMeeting, CommitMeeting, Begin,
         UpdateMeeting, CheckMeeting, UpsertConsent, InsertEvent, CommitConsent, Crash, Refuse,
         Step, InsertNow

\* Meetings that are only archived, purged or consented to.
LEMMA MeetingsKept ==
  ASSUME ControlInv, ProjectsInv, MeetingsInv, [Next]_vars,
         meetings' \in [Ids -> {NoMeeting} \cup Meetings],
         \A m \in Ids :
           /\ meetings[m] = NoMeeting <=> meetings'[m] = NoMeeting
           /\ meetings'[m].project = meetings[m].project /\ meetings'[m].quick = meetings[m].quick
           /\ Listed(m)' => Listed(m),
         \A t \in Callers : WillBeFirst(t)' => \A m \in Ids : ~QuickMeeting(m),
         \A t \in Callers : Consenting(t)' => Listed(req[t].on)'
  PROVE  MeetingsInv'
<1>1. \A m \in Ids : meetings'[m] # NoMeeting => projects'[meetings'[m].project] # NoProject
  <2>1. SUFFICES ASSUME NEW m \in Ids, meetings'[m] # NoMeeting
                 PROVE  projects'[meetings[m].project] # NoProject
    OBVIOUS
  <2>2. meetings[m].project \in Keys /\ projects[meetings[m].project] # NoProject
    BY <2>1 DEF MeetingsInv, Meetings
  <2>3. QED
    BY <2>2, ProjectsGrow
<1>2. QED
  BY <1>1, ProjectsGrow DEF MeetingsInv, OneQuickMeeting, QuickMeeting

\* A step of a transaction that writes no meeting.
LEMMA MeetingsUnwritten ==
  ASSUME ControlInv, ProjectsInv, MeetingsInv, NEW t \in Callers, Run(t), UNCHANGED meetings,
         WillBeFirst(t)' => \A m \in Ids : ~QuickMeeting(m),
         Consenting(t)' => Listed(req'[t].on)
  PROVE  MeetingsInv'
<1>1. \A o \in Callers : o # t => pc'[o] = pc[o] /\ req'[o] = req[o] /\ start'[o] = start[o]
  BY OthersStay
<1>2. \A o \in Callers : o # t => /\ WillBeFirst(o)' <=> WillBeFirst(o)
                                  /\ Consenting(o)' <=> Consenting(o)
  BY <1>1 DEF WillBeFirst, Consenting, Is
<1>3. \A o \in Callers : WillBeFirst(o)' => \A m \in Ids : ~QuickMeeting(m)
  BY <1>2 DEF MeetingsInv
<1>4. \A o \in Callers : Consenting(o)' => Listed(req[o].on)'
  BY <1>1, <1>2 DEF MeetingsInv, Listed
<1>5. /\ meetings' \in [Ids -> {NoMeeting} \cup Meetings]
      /\ \A m \in Ids :
           /\ meetings[m] = NoMeeting <=> meetings'[m] = NoMeeting
           /\ meetings'[m].project = meetings[m].project /\ meetings'[m].quick = meetings[m].quick
           /\ Listed(m)' => Listed(m)
  BY DEF MeetingsInv, Listed
<1>6. [Next]_vars
  BY DEF Next
<1>7. QED
  BY <1>3, <1>4, <1>5, <1>6, MeetingsKept

\* A meeting of the status REVIEW is one.
LEMMA ListedExists ==
  ASSUME MeetingsInv, NEW m \in Ids, meetings[m].status # "none"
  PROVE  meetings[m] \in Meetings /\ meetings[m] # NoMeeting
BY DEF MeetingsInv, NoMeeting

\* A commit that makes a meeting.
LEMMA MeetingMade ==
  ASSUME ControlInv, ProjectsInv, MeetingsInv, NEW t \in Callers, Run(t), pc'[t] = "done",
         NEW m \in Ids, meetings[m] = NoMeeting, NEW row \in Meetings,
         meetings' = [meetings EXCEPT ![m] = row], row.status = "REVIEW",
         projects'[row.project] # NoProject,
         row.quick => /\ row.project = Quick /\ projects'[Quick].quick
                      /\ \A n \in Ids : ~QuickMeeting(n)
                      /\ \A o \in Callers : o # t => ~WillBeFirst(o)
  PROVE  MeetingsInv'
<1>1. \A o \in Callers : o # t => pc'[o] = pc[o] /\ req'[o] = req[o] /\ start'[o] = start[o]
  BY OthersStay
<1>2. \A o \in Callers : o # t => /\ WillBeFirst(o)' <=> WillBeFirst(o)
                                  /\ Consenting(o)' <=> Consenting(o)
  BY <1>1 DEF WillBeFirst, Consenting, Is
<1>3. ~WillBeFirst(t)' /\ ~Consenting(t)' /\ [Next]_vars
  BY DEF WillBeFirst, Consenting, Next
<1>4. /\ meetings' \in [Ids -> {NoMeeting} \cup Meetings]
      /\ \A n \in Ids : meetings'[n] = IF n = m THEN row ELSE meetings[n]
  BY DEF MeetingsInv
<1>5. row # NoMeeting
  BY DEF NoMeeting
<1>6. \A n \in Ids : meetings'[n] # NoMeeting => projects'[meetings'[n].project] # NoProject
  <2>1. SUFFICES ASSUME NEW n \in Ids, n # m, meetings[n] # NoMeeting
                 PROVE  projects'[meetings[n].project] # NoProject
    BY <1>4
  <2>2. meetings[n].project \in Keys /\ projects[meetings[n].project] # NoProject
    BY <2>1 DEF MeetingsInv, Meetings
  <2>3. QED
    BY <1>3, <2>2, ProjectsGrow
<1>7. \A n \in Ids : meetings'[n].quick => meetings'[n].project = Quick /\ projects'[Quick].quick
  BY <1>3, <1>4, ProjectsGrow DEF MeetingsInv
<1>8. \A n \in Ids : QuickMeeting(n)' <=> IF n = m THEN row.quick ELSE QuickMeeting(n)
  BY <1>4 DEF QuickMeeting, Listed
<1>9. OneQuickMeeting'
  <2>1. \A n, o \in Ids : QuickMeeting(n) /\ QuickMeeting(o) => n = o
    BY DEF MeetingsInv, OneQuickMeeting, QuickMeeting
  <2>2. \A n, o \in Ids : QuickMeeting(n)' /\ QuickMeeting(o)' => n = o
    BY <1>8, <2>1
  <2>3. QED
    BY <2>2 DEF OneQuickMeeting, QuickMeeting
<1>10. \A o \in Callers : WillBeFirst(o)' => \A n \in Ids : ~QuickMeeting(n)'
  BY <1>2, <1>3, <1>8 DEF MeetingsInv
<1>11. \A o \in Callers : Consenting(o)' => Listed(req[o].on)'
  <2>1. SUFFICES ASSUME NEW o \in Callers, Consenting(o)' PROVE Listed(req[o].on)'
    OBVIOUS
  <2>2. o # t /\ Consenting(o) /\ req'[o] = req[o]
    BY <1>1, <1>2, <1>3, <2>1
  <2>3. Listed(req[o].on) /\ req[o].on \in Ids
    BY <2>2, RequestsWellFormed DEF MeetingsInv, ControlInv, Consenting, Is
  <2>4. QED
    BY <1>4, <2>2, <2>3 DEF Listed
<1>12. QED
  BY <1>4, <1>6, <1>7, <1>9, <1>10, <1>11 DEF MeetingsInv

\* What the tables of meetings promise is kept by every step.
LEMMA MeetingsStep == ControlInv /\ ProjectsInv /\ MeetingsInv /\ [Next]_vars => MeetingsInv'
<1> SUFFICES ASSUME ControlInv, ProjectsInv, MeetingsInv, [Next]_vars PROVE MeetingsInv'
  OBVIOUS
<1>1. ASSUME NEW t \in Callers, pc'[t] \notin {"insert", "event", "commit"}, UNCHANGED meetings, Run(t)
      PROVE  MeetingsInv'
  BY <1>1, MeetingsUnwritten DEF WillBeFirst, Consenting
<1>2. ASSUME NEW t \in Callers, NEW tag, Answer(t, tag), UNCHANGED meetings, Run(t) PROVE MeetingsInv'
  BY <1>1, <1>2, WhereTo
<1>3. ASSUME NEW t \in Callers, NEW tag, Refuse(t, tag), Run(t) PROVE MeetingsInv'
  BY <1>2, <1>3 DEF Refuse, tables
<1>4. ASSUME NEW t \in Callers, Begin(t) PROVE MeetingsInv'
  BY <1>1, <1>4, WhereTo DEF Begin, tables, Run
<1>5. ASSUME NEW t \in Callers, NEW label, Step(t, label), Run(t), ~Is(t, "quick"), ~Is(t, "recording")
      PROVE  MeetingsInv'
  <2>1. req'[t] = req[t] /\ UNCHANGED meetings
    BY <1>5, WhereTo DEF Step, tables
  <2>2. ~WillBeFirst(t)' /\ ~Consenting(t)'
    BY <1>5, <2>1 DEF WillBeFirst, Consenting, Is
  <2>3. QED
    BY <1>5, <2>1, <2>2, MeetingsUnwritten
<1>6. ASSUME NEW t \in Callers,
             \/ InsertUser(t) \/ InsertOrganization(t) \/ InsertProject(t) \/ UpdateProject(t)
             \/ CheckProject(t) \/ CheckMeeting(t) \/ UpsertConsent(t)
      PROVE  MeetingsInv'
  <2>1. Run(t) /\ ((\E tag : Refuse(t, tag)) \/ \E label : Step(t, label))
    BY <1>6 DEF Run, InsertUser, InsertOrganization, InsertProject, UpdateProject, CheckProject,
         CheckMeeting, UpsertConsent
  <2>2. ~Is(t, "quick") /\ ~Is(t, "recording")
    <3>1. pc[t] \in {"user", "organization", "key", "row", "project", "check", "consent"}
      BY <1>6 DEF InsertUser, InsertOrganization, InsertProject, UpdateProject, CheckProject,
           CheckMeeting, UpsertConsent
    <3>2. QED
      BY <3>1, OnWay DEF OnPath, Is
  <2>3. QED
    BY <1>3, <1>5, <2>1, <2>2
<1>7. ASSUME NEW t \in Callers, UpsertQuick(t) PROVE MeetingsInv'
  <2>1. Run(t) /\ Step(t, "find") /\ UNCHANGED meetings
    BY <1>7 DEF UpsertQuick, Run, Step, tables
  <2>2. QED
    BY <1>1, <2>1, WhereTo
<1>8. ASSUME NEW t \in Callers, FindQuick(t) PROVE MeetingsInv'
  <2>1. /\ pc[t] = "find" /\ Run(t) /\ Is(t, "quick") /\ start[t] = 0
        /\ \E label : Step(t, label)
    BY <1>8, OnWay DEF FindQuick, Run, OnPath, Is, ControlInv
  <2>2. UNCHANGED meetings /\ req'[t] = req[t] /\ start'[t] = 0
    BY <2>1, WhereTo DEF Step, tables
  <2>3. Is(t, "quick")' /\ ~Consenting(t)'
    BY <2>1, <2>2 DEF Is, Consenting
  <2>4. ASSUME WillBeFirst(t)', NEW m \in Ids PROVE ~QuickMeeting(m)
    <3>1. pc'[t] = "insert"
      BY <2>2, <2>4 DEF WillBeFirst
    <3>2. \/ ~(\E n \in Ids : Listed(n) /\ meetings[n].project = Quick)
          \/ ~projects[Quick].quick
      BY <1>8, <3>1, WhereTo DEF FindQuick
    <3>3. QED
      BY <3>2 DEF MeetingsInv, QuickMeeting
  <2>5. QED
    BY <2>1, <2>2, <2>3, <2>4, MeetingsUnwritten
<1>9. ASSUME NEW t \in Callers, InsertMeeting(t) PROVE MeetingsInv'
  <2>1. /\ pc[t] = "insert" /\ Run(t) /\ (Is(t, "quick") \/ Is(t, "meeting"))
        /\ (InsertNow(t) \/ Refuse(t, "SYSTEM_ERROR"))
    BY <1>9, OnWay DEF InsertMeeting, Run, OnPath, Is
  <2>2. CASE InsertNow(t)
    <3>1. UNCHANGED meetings /\ req'[t] = req[t]
      BY <2>2, WhereTo DEF InsertNow, tables
    <3>2. ~Consenting(t)' /\ (WillBeFirst(t)' => WillBeFirst(t))
      BY <2>1, <3>1 DEF WillBeFirst, Consenting, Is
    <3>3. QED
      BY <2>1, <3>1, <3>2, MeetingsUnwritten DEF MeetingsInv
  <2>3. QED
    BY <1>3, <2>1, <2>2
<1>10. ASSUME NEW t \in Callers, UpdateMeeting(t) \/ InsertEvent(t) PROVE MeetingsInv'
  <2>1. CASE \E tag : Refuse(t, tag)
    BY <1>3, <1>10, <2>1 DEF Run
  <2>2. CASE \E label : Step(t, label)
    <3>1. UNCHANGED meetings /\ req'[t] = req[t] /\ Run(t)
      BY <1>10, <2>2, WhereTo DEF Step, tables, Run
    <3>2. Is(t, "recording") \/ Is(t, "ai")
      BY <1>10, OnWay DEF UpdateMeeting, InsertEvent, OnPath, Is
    <3>3. ~WillBeFirst(t)' /\ (Consenting(t)' => Is(t, "recording"))
      BY <3>1, <3>2 DEF WillBeFirst, Consenting, Is
    <3>4. CASE Is(t, "recording")
      <4>1. Listed(req[t].on) \/ pc'[t] = "done"
        BY <1>10, <3>4, WhereTo DEF UpdateMeeting, InsertEvent, Refuse, MeetingsInv, Consenting
      <4>2. QED
        BY <3>1, <3>3, <4>1, MeetingsUnwritten DEF Consenting
    <3>5. QED
      BY <3>1, <3>3, <3>4, MeetingsUnwritten
  <2>3. QED
    BY <1>10, <2>1, <2>2 DEF UpdateMeeting, InsertEvent
<1>11. ASSUME NEW t \in Callers, CommitRegistration(t) \/ CommitProject(t) \/ Crash(t)
       PROVE  MeetingsInv'
  <2>1. UNCHANGED meetings /\ Run(t) /\ \E tag : Answer(t, tag)
    BY <1>11 DEF CommitRegistration, CommitProject, Crash, Refuse, tables, Run
  <2>2. QED
    BY <1>2, <2>1
<1>12. ASSUME NEW t \in Callers, CommitMeeting(t) PROVE MeetingsInv'
  <2>1. /\ pc'[t] = "done" /\ Run(t) /\ Is(t, "meeting") /\ ~Is(t, "quick") /\ UNCHANGED projects
        /\ start[t] \in 0..MaxTime /\ req[t] \in Requests
    BY <1>12, WhereTo, OnWay DEF CommitMeeting, Run, Ending, Is
  <2>2. PICK m \in Ids : meetings[m] = NoMeeting
                         /\ meetings' = [meetings EXCEPT ![m] = Made(t, req[t].on)]
    BY <1>12 DEF CommitMeeting
  <2>3. req[t].on \in Keys /\ projects[req[t].on] # NoProject
    BY <1>12, <2>1, RequestsWellFormed DEF ProjectsInv, CommitMeeting, Ending, Is
  <2>4. PICK row : row = Made(t, req[t].on)
    OBVIOUS
  <2>5. row = [project |-> req[t].on, status |-> "REVIEW", start |-> start[t],
               consent |-> TRUE, quick |-> FALSE]
    <3>1. Is(t, "meeting") = TRUE /\ Is(t, "quick") = FALSE
      BY <2>1 DEF Is
    <3>2. QED
      BY <2>4, <3>1 DEF Made
  <2>6. row \in Meetings /\ row.status = "REVIEW" /\ ~row.quick /\ row.project = req[t].on
    BY <2>1, <2>3, <2>5 DEF Meetings
  <2>7. QED
    BY <2>1, <2>2, <2>3, <2>4, <2>6, MeetingMade
<1>13. ASSUME NEW t \in Callers, CommitQuick(t) PROVE MeetingsInv'
  <2>1. /\ pc'[t] = "done" /\ Run(t) /\ Ending(t, "quick") /\ Is(t, "quick") /\ ~Is(t, "meeting")
        /\ start[t] \in 0..MaxTime
    BY <1>13, WhereTo, OnWay DEF CommitQuick, Run, Ending, Is
  <2>2. CASE UNCHANGED meetings
    BY <1>1, <2>1, <2>2
  <2>3. CASE \E m \in Ids : /\ start[t] > 0 /\ meetings[m] = NoMeeting
                            /\ meetings' = [meetings EXCEPT ![m] = Made(t, Quick)]
    <3>1. PICK m \in Ids : /\ start[t] > 0 /\ meetings[m] = NoMeeting
                           /\ meetings' = [meetings EXCEPT ![m] = Made(t, Quick)]
      BY <2>3
    <3>2. PICK row : row = Made(t, Quick)
      OBVIOUS
    <3>3. row = [project |-> Quick, status |-> "REVIEW", start |-> start[t],
                 consent |-> FALSE, quick |-> TRUE]
      <4>1. Is(t, "meeting") = FALSE /\ Is(t, "quick") = TRUE
        BY <2>1 DEF Is
      <4>2. QED
        BY <3>2, <4>1 DEF Made
    <3>4. row \in Meetings /\ row.status = "REVIEW" /\ row.project = Quick /\ Quick \in Keys
      BY <2>1, <3>3, RequestsWellFormed DEF Meetings
    <3>5. WillBeFirst(t)
      BY <2>1, <3>1 DEF WillBeFirst, Ending
    <3>6. \A o \in Callers : o # t => ~WillBeFirst(o)
      <4>1. \A o \in Callers : WillBeFirst(o) => HoldsProject(o, Quick)
        BY DEF WillBeFirst, HoldsProject
      <4>2. QED
        BY <3>4, <3>5, <4>1 DEF ProjectsInv
    <3>7. projects[Quick] = NoProject \/ projects[Quick].quick
      BY <2>1, <3>1 DEF ProjectsInv
    <3>8. projects'[Quick].quick /\ projects'[Quick].status = "ACTIVE"
      BY <1>13, <3>4, <3>7 DEF CommitQuick, ProjectsInv
    <3>9. projects'[Quick] # NoProject
      BY <3>8 DEF NoProject
    <3>10. \A n \in Ids : ~QuickMeeting(n)
      BY <3>5 DEF MeetingsInv
    <3>11. QED
      BY <2>1, <3>1, <3>2, <3>4, <3>6, <3>8, <3>9, <3>10, MeetingMade
  <2>4. QED
    BY <1>13, <2>2, <2>3 DEF CommitQuick
<1>14. ASSUME NEW m \in Ids, NEW row \in Meetings, meetings[m] \in Meetings,
              meetings' = [meetings EXCEPT ![m] = row],
              row.project = meetings[m].project, row.quick = meetings[m].quick,
              row.status = "REVIEW" => Listed(m),
              \A o \in Callers : WillBeFirst(o)' => WillBeFirst(o),
              \A o \in Callers : Consenting(o)' => Consenting(o) /\ req'[o] = req[o]
                                                   /\ (req[o].on = m => row.status = "REVIEW")
       PROVE  MeetingsInv'
  <2>1. \A n \in Ids : meetings'[n] = IF n = m THEN row ELSE meetings[n]
    BY <1>14 DEF MeetingsInv
  <2>2. row # NoMeeting /\ meetings[m] # NoMeeting
    BY <1>14 DEF NoMeeting, Meetings
  <2>3. /\ meetings' \in [Ids -> {NoMeeting} \cup Meetings]
        /\ \A n \in Ids :
             /\ meetings[n] = NoMeeting <=> meetings'[n] = NoMeeting
             /\ meetings'[n].project = meetings[n].project /\ meetings'[n].quick = meetings[n].quick
             /\ Listed(n)' => Listed(n)
    BY <1>14, <2>1, <2>2 DEF MeetingsInv, Listed
  <2>4. \A o \in Callers : Consenting(o) => req[o].on \in Ids
    BY RequestsWellFormed DEF ControlInv, Consenting, Is
  <2>5. \A o \in Callers : Consenting(o)' => Listed(req[o].on)'
    BY <1>14, <2>1, <2>4 DEF MeetingsInv, Listed
  <2>6. \A o \in Callers : WillBeFirst(o)' => \A n \in Ids : ~QuickMeeting(n)
    BY <1>14 DEF MeetingsInv
  <2>7. QED
    BY <2>3, <2>5, <2>6, MeetingsKept
<1>15. ASSUME NEW t \in Callers, CommitConsent(t) PROVE MeetingsInv'
  <2>1. pc'[t] = "done" /\ Run(t)
    BY <1>15, WhereTo DEF CommitConsent, Run
  <2>2. CASE UNCHANGED meetings
    BY <1>1, <2>1, <2>2
  <2>3. CASE Ending(t, "recording") /\ meetings' = [meetings EXCEPT ![req[t].on].consent = TRUE]
    <3>1. Consenting(t)
      BY <2>3 DEF Ending, Consenting
    <3>2. req[t].on \in Ids /\ Listed(req[t].on)
      BY <3>1, RequestsWellFormed DEF MeetingsInv, ControlInv, Consenting, Is
    <3>3. PICK m, row : m = req[t].on /\ row = [meetings[m] EXCEPT !.consent = TRUE]
      OBVIOUS
    <3>4. meetings[m] \in Meetings
      BY <3>2, <3>3, ListedExists DEF Listed
    <3>5. /\ row \in Meetings /\ row.project = meetings[m].project /\ row.quick = meetings[m].quick
          /\ row.status = meetings[m].status
      BY <3>3, <3>4 DEF Meetings
    <3>6. meetings' = [meetings EXCEPT ![m] = row]
      BY <2>3, <3>2, <3>3 DEF MeetingsInv
    <3>7. \A o \in Callers : o # t => pc'[o] = pc[o] /\ req'[o] = req[o] /\ start'[o] = start[o]
      BY <2>1, OthersStay
    <3>8. /\ \A o \in Callers : WillBeFirst(o)' => WillBeFirst(o)
          /\ \A o \in Callers : Consenting(o)' => Consenting(o) /\ req'[o] = req[o]
      BY <2>1, <3>7 DEF WillBeFirst, Consenting, Is
    <3>9. Listed(m) /\ row.status = "REVIEW"
      BY <3>2, <3>3, <3>5 DEF Listed
    <3>10. \A o \in Callers : Consenting(o)' => Consenting(o) /\ req'[o] = req[o]
                                                 /\ (req[o].on = m => row.status = "REVIEW")
      BY <3>8, <3>9
    <3>11. m \in Ids
      BY <3>2, <3>3
    <3>12. QED
      BY <1>14, <3>4, <3>5, <3>6, <3>8, <3>9, <3>10, <3>11
  <2>4. QED
    BY <1>15, <2>2, <2>3 DEF CommitConsent
<1>16. ASSUME NEW m \in Ids, Archive(m) \/ Purge(m) PROVE MeetingsInv'
  <2>1. PICK status \in {"ARCHIVED", "PURGED"} : meetings' = [meetings EXCEPT ![m].status = status]
    BY <1>16 DEF Archive, Purge
  <2>2. UNCHANGED <<pc, req, start>> /\ Unused(m) /\ meetings[m].status # "none"
    BY <1>16 DEF Archive, Purge, Listed
  <2>3. PICK row : row = [meetings[m] EXCEPT !.status = status]
    OBVIOUS
  <2>4. meetings[m] \in Meetings
    BY <2>2, ListedExists
  <2>5. /\ row \in Meetings /\ row.project = meetings[m].project /\ row.quick = meetings[m].quick
        /\ row.status # "REVIEW"
    BY <2>1, <2>3, <2>4 DEF Meetings
  <2>6. meetings' = [meetings EXCEPT ![m] = row]
    BY <2>1, <2>3 DEF MeetingsInv
  <2>7. \A o \in Callers : Consenting(o) => req[o].on # m
    BY <2>2 DEF Unused, HoldsMeeting, Consenting
  <2>8. \A o \in Callers : /\ WillBeFirst(o)' <=> WillBeFirst(o)
                           /\ Consenting(o)' <=> Consenting(o)
    BY <2>2 DEF WillBeFirst, Consenting, Is
  <2>9. QED
    BY <1>14, <2>2, <2>4, <2>5, <2>6, <2>7, <2>8
<1>17. ASSUME UNCHANGED <<tables, pc, req, start>> PROVE MeetingsInv'
  BY <1>17 DEF MeetingsInv, OneQuickMeeting, WillBeFirst, Consenting, Is, QuickMeeting, Listed, tables
<1>18. QED
  BY <1>4, <1>6, <1>7, <1>8, <1>9, <1>10, <1>11, <1>12, <1>13, <1>15, <1>16, <1>17
     DEF Next, Run, OpenList, NextPage, Tick, vars

-----------------------------------------------------------------------------
(* Consents. *)

\* A key has one event, of the meeting of its request.
LEMMA OneEvent ==
  ASSUME NEW E, EventsOK(E), NEW r \in Requests, r.op \in {"recording", "ai"}, NEW e \in E,
         e.op = r.op, e.actor = r.actor, e.name = r.name
  PROVE  /\ {f \in E : f.op = r.op /\ f.actor = r.actor /\ f.name = r.name} = {e}
         /\ e.meeting = r.on
<1>1. e.name # None
  BY RequestsWellFormed
<1>2. \A f \in E : f.op = r.op /\ f.actor = r.actor /\ f.name = r.name => f = e
  BY <1>1 DEF EventsOK
<1>3. Recorded(e)
  BY <1>1 DEF EventsOK
<1>4. e.meeting = r.on
  BY <1>3, RequestsWellFormed DEF Recorded
<1>5. QED
  BY <1>2, <1>4

\* The event of a new meeting has no key.
LEMMA UnkeyedEvent ==
  ASSUME EventsInv, NEW t \in Callers, req[t].actor \in DOMAIN Role, NEW m \in Ids
  PROVE  EventsOK(events \cup {Event(t, m, None)})
BY DEF EventsInv, EventsOK, Event, Recorded

\* The event that a consent adds, when its key is new.
Added(t) == [op |-> req[t].op, actor |-> req[t].actor, name |-> req[t].name,
             meeting |-> req[t].on, by |-> t]

\* An event whose key no committed one has can be added.
LEMMA KeyedEvent ==
  ASSUME EventsInv, NEW t \in Callers, req[t] \in Requests, req[t].op \in {"recording", "ai"},
         SameKey(req[t]) = {}
  PROVE  EventsOK(events \cup {Added(t)})
<1>1. req[t].actor \in DOMAIN Role /\ req[t].on \in Ids
  BY RequestsWellFormed
<1>2. Recorded(Added(t))
  BY DEF Recorded, Added
<1>3. \A e \in events :
        ~(e.op = Added(t).op /\ e.actor = Added(t).actor /\ e.name = Added(t).name)
  BY DEF SameKey, Added
<1>4. Added(t) \in [op : {"recording", "ai"}, actor : DOMAIN Role \cup {None}, meeting : Ids,
                    by : Callers \cup {None}, name : {r.name : r \in Requests} \cup {None}]
  BY <1>1 DEF Added
<1>5. QED
  BY <1>2, <1>3, <1>4 DEF EventsInv, EventsOK

\* What a consent commits.
LEMMA ConsentEvents ==
  ASSUME ControlInv, EventsInv, NEW t \in Callers, CommitConsent(t)
  PROVE  /\ req[t] \in Requests /\ req[t].op \in {"recording", "ai"} /\ req[t].on \in Ids
         /\ events \subseteq events' /\ EventsOK(events')
         /\ \E e \in events' : /\ e.op = req[t].op /\ e.actor = req[t].actor
                               /\ e.name = req[t].name /\ e.meeting = req[t].on
<1>1. req[t] \in Requests /\ req[t].op \in {"recording", "ai"}
  BY DEF CommitConsent, Ending, Is, ControlInv
<1>2. req[t].on \in Ids
  BY <1>1, RequestsWellFormed
<1>3. CASE SameKey(req[t]) # {}
  <2>1. events' = events
    BY <1>3 DEF CommitConsent
  <2>2. PICK e \in events : e.op = req[t].op /\ e.actor = req[t].actor /\ e.name = req[t].name
    BY <1>3 DEF SameKey
  <2>3. e.meeting = req[t].on
    BY <1>1, <2>2, OneEvent DEF EventsInv
  <2>4. QED
    BY <1>1, <1>2, <2>1, <2>2, <2>3 DEF EventsInv
<1>4. CASE SameKey(req[t]) = {}
  <2>1. events' = events \cup {[Event(t, req[t].on, req[t].name) EXCEPT !.op = req[t].op]}
    BY <1>4 DEF CommitConsent
  <2>2. [Event(t, req[t].on, req[t].name) EXCEPT !.op = req[t].op] = Added(t)
    BY DEF Event, Added
  <2>3. Added(t).op = req[t].op /\ Added(t).actor = req[t].actor
        /\ Added(t).name = req[t].name /\ Added(t).meeting = req[t].on
    BY DEF Added
  <2>4. QED
    BY <1>1, <1>2, <1>4, <2>1, <2>2, <2>3, KeyedEvent
<1>5. QED
  BY <1>3, <1>4

\* Steps that write no event.
LEMMA EventsUnwritten ==
  ASSUME [Next]_vars, \A t \in Callers : ~CommitMeeting(t) /\ ~CommitConsent(t)
  PROVE  UNCHANGED events
BY DEF Next, Run, Archive, Purge, OpenList, NextPage, Tick, vars, tables,
       InsertUser, InsertOrganization, CommitRegistration, InsertProject, UpdateProject, CommitProject,
       CheckProject, UpsertQuick, FindQuick, InsertMeeting, CommitQuick, Begin,
       UpdateMeeting, CheckMeeting, UpsertConsent, InsertEvent, Crash, Refuse, Step, InsertNow

\* What a new meeting commits.
LEMMA MeetingEvents ==
  ASSUME ControlInv, EventsInv, NEW t \in Callers, CommitMeeting(t)
  PROVE  \E m \in Ids :
           /\ meetings' = [meetings EXCEPT ![m] = Made(t, req[t].on)]
           /\ events' = events \cup {Event(t, m, None)} /\ EventsOK(events')
<1>1. req[t].actor \in DOMAIN Role
  BY RequestsWellFormed DEF CommitMeeting, Ending, Is, ControlInv
<1>2. PICK m \in Ids : /\ meetings' = [meetings EXCEPT ![m] = Made(t, req[t].on)]
                       /\ events' = events \cup {Event(t, m, None)}
  BY DEF CommitMeeting
<1>3. QED
  BY <1>1, <1>2, UnkeyedEvent

\* Every statement keeps one event per key, and no event is removed.
LEMMA EventsStep == ControlInv /\ EventsInv /\ [Next]_vars => EventsInv' /\ events \subseteq events'
<1> SUFFICES ASSUME ControlInv, EventsInv, [Next]_vars PROVE EventsInv' /\ events \subseteq events'
  OBVIOUS
<1>1. ASSUME NEW t \in Callers, CommitMeeting(t) PROVE EventsOK(events') /\ events \subseteq events'
  BY <1>1, MeetingEvents
<1>2. ASSUME NEW t \in Callers, CommitConsent(t) PROVE EventsOK(events') /\ events \subseteq events'
  BY <1>2, ConsentEvents
<1>3. CASE UNCHANGED events
  BY <1>3 DEF EventsInv
<1>4. QED
  BY <1>1, <1>2, <1>3, EventsUnwritten DEF EventsInv

\* Who is told that a consent is recorded has just committed one.
LEMMA AnswerRecorded ==
  ASSUME ControlInv, EventsInv, ConsentInv, [Next]_vars, NEW t \in Callers,
         outcome'[t] = "OK", req'[t].op \in {"recording", "ai"}
  PROVE  SameKey(req[t])' # {}
<1>1. \A e \in events : e \in events'
  BY EventsStep
<1>2. CASE outcome'[t] = outcome[t] /\ req'[t] = req[t]
  BY <1>1, <1>2 DEF ConsentInv, SameKey
<1>3. CASE ~(outcome'[t] = outcome[t] /\ req'[t] = req[t])
  <2>1. PICK o \in Callers : Run(o)
    BY <1>3 DEF Next, Archive, Purge, OpenList, NextPage, Tick, vars
  <2>2. o = t
    BY <1>3, <2>1, OthersStay
  <2>3. CASE CommitConsent(t)
    <3>1. PICK e \in events' : /\ e.op = req[t].op /\ e.actor = req[t].actor /\ e.name = req[t].name
      BY <2>3, ConsentEvents
    <3>2. req'[t] = req[t]
      BY <2>3, WhereTo DEF CommitConsent
    <3>3. QED
      BY <3>1, <3>2 DEF SameKey
  <2>4. ASSUME NEW tag, Refuse(t, tag), tag # "OK" PROVE FALSE
    BY <2>4, WhereTo DEF Refuse
  <2>5. ASSUME NEW label, Step(t, label) PROVE FALSE
    BY <1>3, <2>5, WhereTo DEF Step
  <2>6. CASE CommitRegistration(t) \/ CommitProject(t) \/ CommitMeeting(t) \/ CommitQuick(t)
    <3>1. req'[t] = req[t]
      BY <2>6, WhereTo DEF CommitRegistration, CommitProject, CommitMeeting, CommitQuick
    <3>2. QED
      BY <2>6, <3>1 DEF CommitRegistration, CommitProject, CommitMeeting, CommitQuick, Ending, Is
  <2>7. CASE Begin(t)
    <3>1. pc'[t] # "new" /\ outcome'[t] # "OK"
      <4>1. outcome[t] # "OK"
        BY <2>7 DEF Begin, ControlInv
      <4>2. outcome' = outcome \/ outcome' = [outcome EXCEPT ![t] = "FORBIDDEN"]
        BY <2>7 DEF Begin
      <4>3. outcome' = outcome \/ outcome'[t] = "FORBIDDEN"
        BY <4>2 DEF ControlInv
      <4>4. QED
        BY <2>7, <4>1, <4>3, WhereTo
    <3>2. QED
      BY <3>1
  <2>8. CASE InsertNow(t)
    BY <1>3, <2>8, WhereTo DEF InsertNow
  <2>9. QED
    BY <2>1, <2>2, <2>3, <2>4, <2>5, <2>6, <2>7, <2>8
       DEF Run, InsertUser, InsertOrganization, InsertProject, UpdateProject, CheckProject,
           UpsertQuick, FindQuick, InsertMeeting, UpdateMeeting, CheckMeeting, UpsertConsent,
           InsertEvent, Crash
<1>4. QED
  BY <1>2, <1>3

\* A meeting comes by its consent together with the event.
LEMMA MeetingConsented ==
  ASSUME ControlInv, ProjectsInv, MeetingsInv, EventsInv, [Next]_vars, NEW m \in Ids, meetings'[m].consent
  PROVE  meetings[m].consent \/ \E e \in events' : e.op = "recording" /\ e.meeting = m
<1> DEFINE recorded == \E e \in events' : e.op = "recording" /\ e.meeting = m
<1>1. meetings \in [Ids -> {NoMeeting} \cup Meetings]
  BY DEF MeetingsInv
<1>2. CASE UNCHANGED meetings
  BY <1>2
<1>3. ASSUME NEW n \in Ids, Archive(n) \/ Purge(n) PROVE meetings[m].consent
  <2>1. PICK status : meetings' = [meetings EXCEPT ![n].status = status]
    BY <1>3 DEF Archive, Purge
  <2>2. meetings'[m] = IF m = n THEN [meetings[m] EXCEPT !.status = status] ELSE meetings[m]
    BY <1>1, <2>1
  <2>3. [meetings[m] EXCEPT !.status = status].consent = meetings[m].consent
    <3>1. CASE meetings[m] = NoMeeting
      BY <3>1 DEF NoMeeting
    <3>2. CASE meetings[m] \in Meetings
      BY <3>2 DEF Meetings
    <3>3. QED
      BY <1>1, <3>1, <3>2
  <2>4. QED
    BY <2>2, <2>3
<1>4. ASSUME NEW t \in Callers, CommitMeeting(t) PROVE meetings[m].consent \/ recorded
  <2>1. PICK n \in Ids : /\ meetings' = [meetings EXCEPT ![n] = Made(t, req[t].on)]
                         /\ events' = events \cup {Event(t, n, None)}
    BY <1>4, MeetingEvents
  <2>2. CASE n = m
    <3>1. Event(t, m, None).op = "recording" /\ Event(t, m, None).meeting = m
      BY DEF Event
    <3>2. QED
      BY <2>1, <2>2, <3>1
  <2>3. CASE n # m
    BY <1>1, <2>1, <2>3
  <2>4. QED
    BY <2>2, <2>3
<1>5. ASSUME NEW t \in Callers, CommitQuick(t), ~UNCHANGED meetings PROVE meetings[m].consent
  <2>1. PICK n \in Ids : meetings' = [meetings EXCEPT ![n] = Made(t, Quick)]
    BY <1>5 DEF CommitQuick
  <2>2. ~Made(t, Quick).consent
    BY <1>5 DEF CommitQuick, Ending, Is, Made
  <2>3. QED
    BY <1>1, <2>1, <2>2
<1>6. ASSUME NEW t \in Callers, CommitConsent(t), ~UNCHANGED meetings
      PROVE  meetings[m].consent \/ recorded
  <2>1. Is(t, "recording") /\ meetings' = [meetings EXCEPT ![req[t].on].consent = TRUE]
    BY <1>6 DEF CommitConsent, Ending
  <2>2. CASE req[t].on = m
    <3>1. PICK e \in events' : e.op = req[t].op /\ e.meeting = req[t].on
      BY <1>6, ConsentEvents
    <3>2. QED
      BY <2>1, <2>2, <3>1 DEF Is
  <2>3. CASE req[t].on # m
    BY <1>1, <2>1, <2>3
  <2>4. QED
    BY <2>2, <2>3
<1>7. QED
  BY <1>2, <1>3, <1>4, <1>5, <1>6
     DEF Next, Run, OpenList, NextPage, Tick, vars, tables,
         InsertUser, InsertOrganization, CommitRegistration, InsertProject, UpdateProject,
         CommitProject, CheckProject, UpsertQuick, FindQuick, InsertMeeting, Begin,
         UpdateMeeting, CheckMeeting, UpsertConsent, InsertEvent, Crash, Refuse, Step, InsertNow

\* Every statement keeps the consents backed by events.
LEMMA ConsentStep ==
  ControlInv /\ ProjectsInv /\ MeetingsInv /\ EventsInv /\ ConsentInv /\ [Next]_vars => ConsentInv'
<1> SUFFICES ASSUME ControlInv, ProjectsInv, MeetingsInv, EventsInv, ConsentInv, [Next]_vars
             PROVE  ConsentInv'
  OBVIOUS
<1>1. events \subseteq events'
  BY EventsStep
<1>2. \A m \in Ids : meetings'[m].consent =>
        \E e \in events' : e.op = "recording" /\ e.meeting = m
  BY <1>1, MeetingConsented DEF ConsentInv
<1>3. \A t \in Callers : outcome'[t] = "OK" /\ req'[t].op \in {"recording", "ai"} =>
        SameKey(req[t])' # {}
  BY AnswerRecorded
<1>4. /\ consents' \subseteq Ids \X DOMAIN Role
      /\ \A c \in consents' : \E e \in events' : e.op = "ai" /\ <<e.meeting, e.actor>> = c
  <2>1. CASE consents' \subseteq consents
    BY <1>1, <2>1 DEF ConsentInv
  <2>2. ASSUME NEW t \in Callers, CommitConsent(t), Ending(t, "ai"),
               consents' = consents \cup {<<req[t].on, req[t].actor>>}
        PROVE  /\ consents' \subseteq Ids \X DOMAIN Role
               /\ \A c \in consents' : \E e \in events' : e.op = "ai" /\ <<e.meeting, e.actor>> = c
    <3>1. /\ req[t] \in Requests /\ req[t].op = "ai" /\ req[t].on \in Ids
          /\ \E e \in events' : e.op = req[t].op /\ e.actor = req[t].actor /\ e.meeting = req[t].on
      BY <2>2, ConsentEvents DEF Ending, Is
    <3>2. req[t].actor \in DOMAIN Role
      BY <3>1, RequestsWellFormed
    <3>3. QED
      BY <1>1, <2>2, <3>1, <3>2 DEF ConsentInv
  <2>3. consents' \subseteq consents \/ \E t \in Callers : CommitConsent(t) /\ Ending(t, "ai")
          /\ consents' = consents \cup {<<req[t].on, req[t].actor>>}
    <3>1. ASSUME NEW t \in Callers, CommitConsent(t)
          PROVE  consents' \subseteq consents \/ (Ending(t, "ai")
                   /\ consents' = consents \cup {<<req[t].on, req[t].actor>>})
      BY <3>1 DEF CommitConsent
    <3>2. QED
      BY <3>1 DEF Next, Run, Archive, Purge, OpenList, NextPage, Tick, vars, tables,
         InsertUser, InsertOrganization, CommitRegistration, InsertProject, UpdateProject,
         CommitProject, CheckProject, UpsertQuick, FindQuick, InsertMeeting, Begin, CommitMeeting,
         CommitQuick, UpdateMeeting, CheckMeeting, UpsertConsent, InsertEvent, Crash, Refuse, Step,
         InsertNow
  <2>4. QED
    BY <2>1, <2>2, <2>3
<1>5. QED
  BY <1>2, <1>3, <1>4 DEF ConsentInv

-----------------------------------------------------------------------------
(* The beginning, and the theorems. *)

AllInv == ControlInv /\ AccountsInv /\ ProjectsInv /\ MeetingsInv /\ EventsInv /\ ConsentInv

\* The earlier state of the workspace is a good one.
LEMMA InitInv == Init => AllInv
<1> SUFFICES ASSUME Init PROVE AllInv
  OBVIOUS
<1>1. \A t \in Callers : pc[t] = "new" /\ req[t] = None /\ start[t] = 0 /\ outcome[t] = None
  BY DEF Init
<1>2. \A t \in Callers : \A op : ~Is(t, op)
  BY <1>1 DEF Is
<1>3. PICK made \in Earlier :
       /\ events = {[op |-> "recording", actor |-> None, name |-> None, meeting |-> m, by |-> None] :
                      m \in {n \in DOMAIN made : made[n].consent}}
       /\ meetings = [m \in Ids |-> IF m \in DOMAIN made THEN made[m] ELSE NoMeeting]
       /\ projects = [k \in Keys |->
            IF \E m \in DOMAIN made : made[m].project = k
              THEN [status |-> "ACTIVE", quick |-> k = Quick] ELSE NoProject]
  BY DEF Init
<1>4. /\ DOMAIN made \subseteq Ids
      /\ \A m \in DOMAIN made : made[m] \in Meetings /\ made[m].status = "REVIEW"
      /\ \A m \in DOMAIN made : made[m].quick => made[m].project = Quick
      /\ \A m, n \in DOMAIN made : made[m].quick /\ made[n].quick => m = n
  BY EarlierWellFormed DEF Meetings
<1>5. ControlInv
  <2>1. /\ req \in [Callers -> Requests \cup {None}] /\ start \in [Callers -> 0..MaxTime]
        /\ now \in 1..MaxTime
    BY RequestsWellFormed DEF Init
  <2>2. pc = [t \in Callers |-> pc[t]] /\ outcome = [t \in Callers |-> outcome[t]]
    BY DEF Init
  <2>3. QED
    BY <1>1, <2>1, <2>2, RequestsWellFormed DEF ControlInv
<1>6. AccountsInv
  BY <1>2 DEF Init, AccountsInv, Registering, Ending
<1>7. ProjectsInv
  <2>1. projects \in [Keys -> [status : {"none", "ACTIVE", "ARCHIVED"}, quick : BOOLEAN]]
    BY <1>3 DEF NoProject
  <2>2. QED
    BY <1>2, <2>1 DEF ProjectsInv, HoldsProject, HoldsWritten, Ending
<1>8. MeetingsInv
  <2>1. \A m \in Ids : meetings[m] = IF m \in DOMAIN made THEN made[m] ELSE NoMeeting
    BY <1>3
  <2>2. ~NoMeeting.quick /\ NoMeeting.status = "none"
    BY DEF NoMeeting
  <2>3. meetings \in [Ids -> {NoMeeting} \cup Meetings]
    BY <1>3, <1>4
  <2>4. \A m \in DOMAIN made : made[m].project \in Keys
    BY <1>4 DEF Meetings
  <2>5. \A m \in DOMAIN made : projects[made[m].project].status = "ACTIVE"
                               /\ projects[made[m].project].quick = (made[m].project = Quick)
    BY <1>3, <2>4
  <2>6. \A m \in DOMAIN made : projects[made[m].project] # NoProject
    BY <2>5 DEF NoProject
  <2>7. \A m \in Ids : meetings[m].quick => meetings[m].project = Quick /\ projects[Quick].quick
    BY <1>4, <2>1, <2>2, <2>5
  <2>8. OneQuickMeeting
    BY <1>4, <2>1, <2>2 DEF OneQuickMeeting
  <2>9. QED
    BY <1>2, <2>1, <2>3, <2>6, <2>7, <2>8 DEF MeetingsInv, WillBeFirst, Consenting
<1>9. EventsInv
  BY <1>3, <1>4 DEF EventsInv, EventsOK
<1>10. ConsentInv
  <2>1. consents = {} /\ \A t \in Callers : outcome[t] # "OK"
    BY <1>1, RequestsWellFormed DEF Init
  <2>2. ASSUME NEW m \in Ids, meetings[m].consent
        PROVE  \E e \in events : e.op = "recording" /\ e.meeting = m
    <3>1. m \in DOMAIN made /\ made[m].consent
      BY <1>3, <2>2 DEF NoMeeting
    <3>2. [op |-> "recording", actor |-> None, name |-> None, meeting |-> m, by |-> None] \in events
      BY <1>3, <3>1
    <3>3. QED
      BY <3>2
  <2>3. QED
    BY <2>1, <2>2 DEF ConsentInv
<1>11. QED
  BY <1>5, <1>6, <1>7, <1>8, <1>9, <1>10 DEF AllInv

\* TablesCorrect: the inductive invariant. A transaction is on the path of its request,
\* and what the tables promise holds together with what every transaction has
\* read or written of them.
THEOREM TablesCorrect == Spec => []AllInv
<1>1. AllInv /\ [Next]_vars => AllInv'
  BY ControlStep, AccountsStep, ProjectsStep, MeetingsStep, EventsStep, ConsentStep DEF AllInv
<1>2. QED
  BY <1>1, InitInv, PTL DEF Spec

\* TypeCorrect: every variable keeps its type and the tables their unique and foreign
\* keys, whatever transactions of registration, projects, meetings and consents
\* run at once.
THEOREM TypeCorrect == Spec => []TypeOK
<1>1. AllInv => TypeOK
  <2>1. SUFFICES ASSUME AllInv PROVE TypeOK
    OBVIOUS
  <2>2. ASSUME NEW m \in Ids, meetings[m] # NoMeeting
        PROVE  /\ meetings[m] \in [project : Keys, status : {"REVIEW", "ARCHIVED", "PURGED"},
                                   start : 0..MaxTime, consent : BOOLEAN, quick : BOOLEAN]
               /\ projects[meetings[m].project] # NoProject
               /\ meetings[m].quick => projects[Quick].quick
    BY <2>1, <2>2 DEF AllInv, MeetingsInv, Meetings
  <2>3. QED
    BY <2>1, <2>2
       DEF AllInv, TypeOK, ControlInv, AccountsInv, ProjectsInv, EventsInv, EventsOK, ConsentInv
<1>2. QED
  BY <1>1, TablesCorrect, PTL

\* QuickMeetingIsOne: the home page never makes a second meeting for the quick
\* recordings, however many members are shown it at once.
THEOREM QuickMeetingIsOne == Spec => []OneQuickMeeting
<1>1. AllInv => OneQuickMeeting
  BY DEF AllInv, MeetingsInv
<1>2. QED
  BY <1>1, TablesCorrect, PTL

\* ConsentsHaveEvents: no consent is without its audit event, and whoever was told
\* that a consent is recorded finds one event for it, however often it was sent.
THEOREM ConsentsHaveEvents == Spec => []ConsentAudited
<1>1. AllInv => ConsentAudited
  <2>1. SUFFICES ASSUME AllInv, NEW t \in Callers, outcome[t] = "OK",
                        req[t].op \in {"recording", "ai"}
                 PROVE  \E e \in events : SameKey(req[t]) = {e} /\ e.meeting = req[t].on
    BY DEF ConsentAudited, AllInv, ConsentInv
  <2>2. SameKey(req[t]) # {} /\ EventsOK(events)
    BY <2>1 DEF AllInv, ConsentInv, EventsInv
  <2>3. req[t] \in Requests
    <3>1. pc[t] = "done"
      BY <2>1 DEF AllInv, ControlInv
    <3>2. QED
      BY <2>1, <3>1 DEF AllInv, ControlInv, OnPath
  <2>4. PICK e \in events : e.op = req[t].op /\ e.actor = req[t].actor /\ e.name = req[t].name
    BY <2>2 DEF SameKey
  <2>5. QED
    BY <2>1, <2>2, <2>3, <2>4, OneEvent DEF SameKey
<1>2. QED
  BY <1>1, TablesCorrect, PTL

-----------------------------------------------------------------------------
(* The list: pages of rows, ordered by their start and their ids.          *)

ListRows == [id : Ids, start : 0..MaxTime]

\* The order of the list is a total one.
LEMMA Order ==
  /\ \A a, b \in ListRows : a = b \/ Precedes(a, b) \/ Precedes(b, a)
  /\ \A a \in ListRows : ~Precedes(a, a)
  /\ \A a, b, c \in ListRows : Precedes(a, b) /\ Precedes(b, c) => Precedes(a, c)
<1>1. \A a \in ListRows : a.id \in Int /\ a.start \in Int /\ a = [id |-> a.id, start |-> a.start]
  BY RequestsWellFormed DEF ListRows, Ids
<1>2. \A a, b \in ListRows : a = b \/ Precedes(a, b) \/ Precedes(b, a)
  <2>1. SUFFICES ASSUME NEW a \in ListRows, NEW b \in ListRows, ~Precedes(a, b), ~Precedes(b, a)
                 PROVE  a = b
    OBVIOUS
  <2>2. a.id = b.id /\ a.start = b.start
    BY <1>1, <2>1 DEF Precedes
  <2>3. QED
    BY <1>1, <2>2
<1>3. QED
  BY <1>1, <1>2 DEF Precedes

\* How many of the rows come before one of them in the list.
Rank(rows, r) == Cardinality({s \in rows : Precedes(r, s)})

\* Ranks are numbers below the number of rows, and fall along the list.
LEMMA Ranks ==
  ASSUME NEW rows, rows \subseteq ListRows, IsFiniteSet(rows)
  PROVE  /\ \A r \in rows : Rank(rows, r) \in Nat /\ Rank(rows, r) < Cardinality(rows)
         /\ \A r, s \in rows : Precedes(r, s) => Rank(rows, s) < Rank(rows, r)
<1>1. ASSUME NEW S, S \subseteq rows, NEW T, T \subseteq S, NEW x \in S, x \notin T
      PROVE  /\ Cardinality(T) \in Nat /\ Cardinality(S) \in Nat
             /\ Cardinality(T) < Cardinality(S)
  <2>1. IsFiniteSet(S) /\ Cardinality(S) \in Nat
    BY <1>1, FS_Subset, FS_CardinalityType
  <2>2. Cardinality(T) \in Nat /\ Cardinality(T) <= Cardinality(S) /\ Cardinality(T) # Cardinality(S)
    BY <1>1, <2>1, FS_Subset, FS_CardinalityType
  <2>3. QED
    BY <2>1, <2>2
<1>2. ASSUME NEW r \in rows PROVE Rank(rows, r) \in Nat /\ Rank(rows, r) < Cardinality(rows)
  <2>1. PICK T : T = {s \in rows : Precedes(r, s)}
    OBVIOUS
  <2>2. T \subseteq rows /\ r \notin T
    BY <1>2, <2>1, Order
  <2>3. QED
    BY <1>1, <1>2, <2>1, <2>2 DEF Rank
<1>3. ASSUME NEW r \in rows, NEW s \in rows, Precedes(r, s) PROVE Rank(rows, s) < Rank(rows, r)
  <2>1. PICK S : S = {u \in rows : Precedes(r, u)}
    OBVIOUS
  <2>2. PICK T : T = {u \in rows : Precedes(s, u)}
    OBVIOUS
  <2>3. S \subseteq rows /\ T \subseteq S /\ s \in S /\ s \notin T
    BY <1>3, <2>1, <2>2, Order
  <2>4. QED
    BY <1>1, <2>1, <2>2, <2>3 DEF Rank
<1>4. QED
  BY <1>2, <1>3

Below == {p \in Nat \X Nat : p[1] < p[2]}

\* A set of numbers has a least one.
LEMMA Least ==
  ASSUME NEW S, S \subseteq Nat, S # {}
  PROVE  \E n \in S : \A m \in S : n <= m
<1>1. IsWellFoundedOn(Below, Nat)
  BY NatLessThanWellFounded DEF OpToRel, Below
<1>2. PICK n \in S : \A m \in S : <<m, n>> \notin Below
  BY <1>1, WFMin
<1>3. \A m \in S : n \in Nat /\ m \in Nat /\ ~(m < n)
  BY <1>2 DEF Below
<1>4. QED
  BY <1>3

\* A page that is the last one has all the rows; another one has a last row, and
\* leaves only what is behind it.
LEMMA Pages ==
  ASSUME NEW rows, rows \subseteq ListRows, IsFiniteSet(rows), NEW page, page = FirstPage(rows)
  PROVE  /\ page \subseteq rows
         /\ Cardinality(rows) <= PageSize => page = rows
         /\ Cardinality(rows) > PageSize =>
              /\ LastRow(page) \in page
              /\ \A s \in page : s = LastRow(page) \/ Precedes(LastRow(page), s)
              /\ \A s \in rows \ page : Precedes(s, LastRow(page))
<1>1. page = {r \in rows : Rank(rows, r) < PageSize}
  BY DEF FirstPage, Rank
<1>2. PageSize \in Nat \ {0} /\ Cardinality(rows) \in Nat
  BY RequestsWellFormed, FS_CardinalityType
<1>3. \A r \in rows : Rank(rows, r) \in Nat /\ Rank(rows, r) < Cardinality(rows)
  BY Ranks
<1>4. Cardinality(rows) <= PageSize => page = rows
  BY <1>1, <1>2, <1>3
<1>5. ASSUME Cardinality(rows) > PageSize
      PROVE  /\ LastRow(page) \in page
             /\ \A s \in page : s = LastRow(page) \/ Precedes(LastRow(page), s)
             /\ \A s \in rows \ page : Precedes(s, LastRow(page))
  <2>1. page # {}
    <3>1. PICK ranks : ranks = {Rank(rows, r) : r \in rows}
      OBVIOUS
    <3>2. rows # {}
      BY <1>2, <1>5, FS_EmptySet
    <3>3. ranks \subseteq Nat /\ ranks # {}
      BY <1>3, <3>1, <3>2
    <3>4. PICK n \in ranks : \A m \in ranks : n <= m
      BY <3>3, Least
    <3>5. PICK r \in rows : n = Rank(rows, r)
      BY <3>1
    <3>6. \A s \in rows : Rank(rows, s) \in Nat /\ ~(Rank(rows, s) < Rank(rows, r))
      BY <1>3, <3>1, <3>4, <3>5
    <3>7. \A s \in rows : ~Precedes(r, s)
      BY <3>6, Ranks
    <3>8. Rank(rows, r) = 0
      BY <3>7, FS_EmptySet DEF Rank
    <3>9. QED
      BY <1>1, <1>2, <3>8
  <2>2. PICK gaps : gaps = {PageSize - Rank(rows, r) : r \in page}
    OBVIOUS
  <2>3. gaps \subseteq Nat /\ gaps # {}
    BY <1>1, <1>2, <1>3, <2>1, <2>2
  <2>4. PICK n \in gaps : \A m \in gaps : n <= m
    BY <2>3, Least
  <2>5. PICK last \in page : n = PageSize - Rank(rows, last)
    BY <2>2
  <2>6. \A s \in page : ~(Rank(rows, last) < Rank(rows, s))
    <3>1. SUFFICES ASSUME NEW s \in page PROVE ~(Rank(rows, last) < Rank(rows, s))
      OBVIOUS
    <3>2. PageSize - Rank(rows, last) <= PageSize - Rank(rows, s)
      BY <2>2, <2>4, <2>5
    <3>3. QED
      BY <1>1, <1>2, <1>3, <3>2
  <2>7. \A s \in page : s = last \/ Precedes(last, s)
    BY <1>1, <2>6, Order, Ranks
  <2>8. PICK l : l = LastRow(page)
    OBVIOUS
  <2>9. l \in page /\ \A s \in page : s = l \/ Precedes(l, s)
    BY <2>7, <2>8 DEF LastRow
  <2>10. ASSUME NEW s \in rows \ page PROVE Precedes(s, l)
    <3>1. ~(Rank(rows, s) < Rank(rows, l)) /\ s # l /\ l \in rows
      <4>1. /\ Rank(rows, s) \in Nat /\ Rank(rows, l) \in Nat /\ Rank(rows, l) < PageSize
            /\ ~(Rank(rows, s) < PageSize)
        BY <1>1, <1>3, <2>9, <2>10
      <4>2. QED
        BY <1>1, <1>2, <2>9, <2>10, <4>1
    <3>2. ~Precedes(l, s)
      BY <2>10, <3>1, Ranks
    <3>3. QED
      BY <2>10, <3>1, <3>2, Order
  <2>11. QED
    BY <2>8, <2>9, <2>10
<1>6. QED
  BY <1>1, <1>4, <1>5

\* A meeting stays what it is in the list, and does not come back to it.
LEMMA MeetingsForward ==
  ASSUME ControlInv, ProjectsInv, MeetingsInv, [Next]_vars, NEW m \in Ids, meetings[m] # NoMeeting
  PROVE  /\ meetings'[m] # NoMeeting
         /\ meetings'[m].start = meetings[m].start /\ meetings'[m].project = meetings[m].project
         /\ Listed(m)' => Listed(m)
<1> DEFINE kept(new) ==
      /\ new # NoMeeting /\ new.start = meetings[m].start /\ new.project = meetings[m].project
      /\ new.status = "REVIEW" => meetings[m].status = "REVIEW"
<1>1. meetings[m] \in Meetings /\ meetings \in [Ids -> {NoMeeting} \cup Meetings]
  BY DEF MeetingsInv
<1>2. kept(meetings[m])
  OBVIOUS
<1>3. ASSUME NEW row \in Meetings,
             \/ \E status \in {"ARCHIVED", "PURGED"} : row = [meetings[m] EXCEPT !.status = status]
             \/ row = [meetings[m] EXCEPT !.consent = TRUE]
      PROVE  kept(row)
  BY <1>1, <1>3 DEF Meetings, NoMeeting
<1>4. ASSUME NEW n, NEW row, meetings' = [meetings EXCEPT ![n] = row],
             \/ \E status \in {"ARCHIVED", "PURGED"} : row = [meetings[n] EXCEPT !.status = status]
             \/ row = [meetings[n] EXCEPT !.consent = TRUE]
      PROVE  kept(meetings'[m])
  <2>1. CASE n # m
    BY <1>1, <1>2, <1>4, <2>1
  <2>2. CASE n = m
    <3>1. meetings'[m] = row
      BY <1>1, <1>4, <2>2
    <3>2. row \in Meetings
      BY <1>1, <1>4, <2>2 DEF Meetings
    <3>3. QED
      BY <1>3, <1>4, <2>2, <3>1, <3>2
  <2>3. QED
    BY <2>1, <2>2
<1>5. ASSUME NEW n \in Ids, meetings[n] = NoMeeting, NEW row, meetings' = [meetings EXCEPT ![n] = row]
      PROVE  kept(meetings'[m])
  BY <1>1, <1>2, <1>5
<1>6. ASSUME NEW t \in Callers, CommitMeeting(t) \/ CommitQuick(t) PROVE kept(meetings'[m])
  BY <1>2, <1>5, <1>6 DEF CommitMeeting, CommitQuick
<1>7. ASSUME NEW t \in Callers, CommitConsent(t) PROVE kept(meetings'[m])
  <2>1. CASE UNCHANGED meetings
    BY <1>2, <2>1
  <2>2. CASE meetings' = [meetings EXCEPT ![req[t].on].consent = TRUE]
    <3>1. meetings' = [meetings EXCEPT ![req[t].on] = [meetings[req[t].on] EXCEPT !.consent = TRUE]]
      BY <2>2
    <3>2. QED
      BY <1>4, <3>1
  <2>3. QED
    BY <1>7, <2>1, <2>2 DEF CommitConsent
<1>8. ASSUME NEW n \in Ids, Archive(n) \/ Purge(n) PROVE kept(meetings'[m])
  <2>1. PICK status \in {"ARCHIVED", "PURGED"} :
          meetings' = [meetings EXCEPT ![n] = [meetings[n] EXCEPT !.status = status]]
    BY <1>8 DEF Archive, Purge
  <2>2. QED
    BY <1>4, <2>1
<1>9. kept(meetings'[m])
  BY <1>2, <1>6, <1>7, <1>8
     DEF Next, Run, OpenList, NextPage, Tick, vars, tables, InsertUser, InsertOrganization,
         CommitRegistration, InsertProject, UpdateProject, CommitProject, CheckProject, UpsertQuick,
         FindQuick, InsertMeeting, Begin, UpdateMeeting, CheckMeeting, UpsertConsent, InsertEvent,
         Crash, Refuse, Step, InsertNow
<1>10. QED
  BY <1>9 DEF Listed

\* Where the reader of the list is: what has been seen comes before the cursor,
\* and what was there from the beginning, and still is, has been seen or is behind.
ListFields == {"stage", "filter", "last", "seen", "twice", "began"}

ListInv ==
  /\ DOMAIN list = ListFields
  /\ list.stage \in {"closed", "open", "end"} /\ list.twice = {}
  /\ list.seen \subseteq Ids /\ list.began \subseteq Ids
  /\ \A m \in list.seen \cup list.began : meetings[m] # NoMeeting
  /\ \A m \in list.began : list.filter \in {None, meetings[m].project}
  /\ list.stage = "closed" => list.seen = {} /\ list.last = None
  /\ list.stage = "open" =>
       /\ list.last # None /\ list.last \in ListRows
       /\ \A m \in list.seen : Row(m) = list.last \/ Precedes(list.last, Row(m))
       /\ \A m \in list.began : Listed(m) => m \in list.seen \/ Precedes(Row(m), list.last)
  /\ list.stage = "end" => \A m \in list.began : Listed(m) => m \in list.seen

\* The rows of the meetings that match a filter, and those behind a cursor, are
\* finitely many.
LEMMA MatchingRows ==
  ASSUME MeetingsInv, NEW filter, NEW cursor, NEW rows,
         rows = {r \in {Row(m) : m \in Matching(filter)} : Behind(r, cursor)}
  PROVE  /\ rows \subseteq ListRows /\ IsFiniteSet(rows)
         /\ \A m \in Ids : meetings[m] # NoMeeting => Row(m) \in ListRows
<1>1. \A m \in Ids : meetings[m] # NoMeeting => Row(m) \in ListRows
  BY DEF MeetingsInv, Meetings, Row, ListRows
<1>2. \A m \in Matching(filter) : m \in Ids /\ meetings[m] # NoMeeting
  BY DEF Matching, Listed, NoMeeting
<1>3. PICK all : all = {Row(m) : m \in Matching(filter)}
  OBVIOUS
<1>4. all \subseteq ListRows /\ rows \subseteq all
  BY <1>1, <1>2, <1>3
<1>5. IsFiniteSet(Matching(filter))
  <2>1. Matching(filter) \subseteq 1..MaxMeetings
    BY DEF Matching, Ids
  <2>2. IsFiniteSet(1..MaxMeetings)
    BY RequestsWellFormed, FS_Interval
  <2>3. QED
    BY <2>1, <2>2, FS_Subset
<1>6. IsFiniteSet(all)
  <2>1. PICK f : f = [m \in Matching(filter) |-> Row(m)]
    OBVIOUS
  <2>2. f \in Surjection(Matching(filter), all)
    BY <1>3, <2>1 DEF Surjection
  <2>3. QED
    BY <1>5, <2>2, FS_Surjection
<1>7. QED
  BY <1>1, <1>4, <1>6, FS_Subset

\* A page continues the list where the cursor is.
LEMMA PageRead ==
  ASSUME MeetingsInv, ListInv, NEW filter, NEW cursor, UNCHANGED meetings,
         list' = ReadPage(filter, cursor),
         \/ list.stage = "closed" /\ cursor = None
         \/ list.stage = "open" /\ cursor = list.last /\ filter = list.filter
  PROVE  ListInv'
<1>1. PICK rows : rows = {r \in {Row(m) : m \in Matching(filter)} : Behind(r, cursor)}
  OBVIOUS
<1>2. PICK page : page = FirstPage(rows)
  OBVIOUS
<1>3. PICK ids : ids = {r.id : r \in page}
  OBVIOUS
<1> DEFINE more == Cardinality(rows) > PageSize
<1>5. PICK last : last = LastRow(page)
  OBVIOUS
<1>6. PICK began : began = IF cursor = None THEN Matching(filter) ELSE list.began
  OBVIOUS
<1>7. list' = [list EXCEPT !.stage = IF more THEN "open" ELSE "end", !.filter = filter,
                           !.last = IF more THEN last ELSE None,
                           !.seen = @ \cup ids, !.twice = @ \cup (list.seen \cap ids),
                           !.began = began]
  BY <1>1, <1>2, <1>3, <1>5, <1>6 DEF ReadPage
<1>8. /\ DOMAIN list' = ListFields /\ list'.stage = (IF more THEN "open" ELSE "end")
      /\ list'.filter = filter /\ list'.last = (IF more THEN last ELSE None)
      /\ list'.seen = list.seen \cup ids /\ list'.twice = list.twice \cup (list.seen \cap ids)
      /\ list'.began = began
  BY <1>7 DEF ListInv, ListFields
<1>9. \A m \in Ids : Row(m).id = m
  BY DEF Row
<1>10. \A m \in Matching(filter) :
         m \in Ids /\ Listed(m) /\ meetings[m] # NoMeeting /\ filter \in {None, meetings[m].project}
  BY DEF Matching, Listed, NoMeeting
<1>11. /\ rows \subseteq ListRows /\ IsFiniteSet(rows)
       /\ \A m \in Ids : meetings[m] # NoMeeting => Row(m) \in ListRows
  BY <1>1, MatchingRows
<1>12. /\ page \subseteq rows
       /\ ~more => page = rows
       /\ more => /\ last \in page
                  /\ \A s \in page : s = last \/ Precedes(last, s)
                  /\ \A s \in rows \ page : Precedes(s, last)
  <2>1. Cardinality(rows) \in Nat /\ PageSize \in Nat
    BY <1>11, RequestsWellFormed, FS_CardinalityType
  <2>2. ~more => Cardinality(rows) <= PageSize
    BY <2>1
  <2>3. QED
    BY <1>2, <1>5, <1>11, <2>2, Pages
<1> HIDE DEF more
<1>13. \A m \in ids : m \in Matching(filter) /\ Row(m) \in page /\ Behind(Row(m), cursor)
  BY <1>1, <1>3, <1>9, <1>10, <1>12
<1>14. cursor # None => /\ list.stage = "open" /\ cursor \in ListRows
                        /\ \A m \in list.seen : Row(m) = cursor \/ Precedes(cursor, Row(m))
                        /\ \A m \in list.began : Listed(m) => m \in list.seen \/ Precedes(Row(m), cursor)
  BY DEF ListInv
<1>15. cursor = None => list.seen = {}
  BY DEF ListInv
<1>16. \A m \in list.seen : m \in Ids /\ Row(m) \in ListRows
  BY <1>11 DEF ListInv
<1>17. list.seen \cap ids = {}
  <2>1. SUFFICES ASSUME NEW m \in list.seen, m \in ids PROVE FALSE
    OBVIOUS
  <2>2. cursor # None
    BY <1>15, <2>1
  <2>3. /\ Row(m) \in ListRows /\ cursor \in ListRows /\ Precedes(Row(m), cursor)
        /\ (Row(m) = cursor \/ Precedes(cursor, Row(m)))
    BY <1>13, <1>14, <1>16, <2>1, <2>2 DEF Behind
  <2>4. QED
    BY <2>3, Order
<1>18. \A m \in began : m \in Ids /\ meetings[m] # NoMeeting /\ filter \in {None, meetings[m].project}
  BY <1>6, <1>10 DEF ListInv
<1>19. \A m \in began : Listed(m) => m \in list.seen \/ Row(m) \in rows
  <2>1. SUFFICES ASSUME NEW m \in began, Listed(m), m \notin list.seen PROVE Row(m) \in rows
    OBVIOUS
  <2>2. m \in Matching(filter)
    BY <1>18, <2>1 DEF Matching
  <2>3. Behind(Row(m), cursor)
    BY <1>6, <1>14, <2>1 DEF Behind
  <2>4. QED
    BY <1>1, <2>2, <2>3
<1>20. \A m \in began : Listed(m) /\ Row(m) \in page => m \in ids
  BY <1>3, <1>9, <1>18
<1>21. ASSUME more
       PROVE  /\ last \in ListRows
              /\ \A m \in list.seen \cup ids : Row(m) = last \/ Precedes(last, Row(m))
              /\ \A m \in began : Listed(m) => m \in list.seen \cup ids \/ Precedes(Row(m), last)
  <2>1. last \in ListRows /\ last \in page
    BY <1>11, <1>12, <1>21
  <2>2. ASSUME NEW m \in list.seen PROVE Precedes(last, Row(m))
    <3>1. cursor # None
      BY <1>15, <2>2
    <3>2. Precedes(last, cursor)
      BY <1>1, <1>12, <2>1, <3>1 DEF Behind
    <3>3. Row(m) \in ListRows /\ cursor \in ListRows /\ (Row(m) = cursor \/ Precedes(cursor, Row(m)))
      BY <1>14, <1>16, <2>2, <3>1
    <3>4. QED
      BY <2>1, <3>2, <3>3, Order
  <2>3. QED
    BY <1>12, <1>13, <1>19, <1>20, <1>21, <2>1, <2>2
<1>22. ~more => \A m \in began : Listed(m) => m \in list.seen \cup ids
  BY <1>12, <1>19, <1>20
<1>23. last # None \/ ~more
  <2>1. SUFFICES ASSUME more PROVE last # None
    OBVIOUS
  <2>2. QED
    BY <1>21, <2>1, RequestsWellFormed DEF ListRows
<1>24. QED
  BY <1>8, <1>10, <1>13, <1>17, <1>18, <1>21, <1>22, <1>23 DEF ListInv, Listed, Row

\* Whatever happens to the meetings while a member reads the list.
LEMMA ListStep == AllInv /\ ListInv /\ [Next]_vars => ListInv'
<1> SUFFICES ASSUME AllInv, ListInv, [Next]_vars PROVE ListInv'
  OBVIOUS
<1>1. CASE OpenList
  <2>1. PICK filter : list' = ReadPage(filter, None)
    BY <1>1 DEF OpenList
  <2>2. list.stage = "closed" /\ UNCHANGED meetings
    BY <1>1 DEF OpenList, tables
  <2>3. QED
    BY <2>1, <2>2, PageRead DEF AllInv
<1>2. CASE NextPage
  BY <1>2, PageRead DEF NextPage, tables, AllInv
<1>3. CASE UNCHANGED list
  <2>1. \A m \in Ids : meetings[m] # NoMeeting =>
          /\ meetings'[m] # NoMeeting /\ Row(m)' = Row(m)
          /\ meetings'[m].project = meetings[m].project /\ (Listed(m)' => Listed(m))
    BY MeetingsForward DEF Row, AllInv
  <2>2. \A m \in list.seen \cup list.began : m \in Ids /\ meetings[m] # NoMeeting
    BY DEF ListInv
  <2>3. \A m \in list.seen \cup list.began :
          /\ meetings'[m] # NoMeeting /\ Row(m)' = Row(m)
          /\ meetings'[m].project = meetings[m].project /\ (Listed(m)' => Listed(m))
    BY <2>1, <2>2
  <2>4. QED
    BY <1>3, <2>3 DEF ListInv
<1>4. QED
  <2>1. ASSUME NEW t \in Callers, Run(t) PROVE UNCHANGED list
    BY <2>1
       DEF Run, InsertUser, InsertOrganization, CommitRegistration, InsertProject, UpdateProject,
           CommitProject, CheckProject, UpsertQuick, FindQuick, InsertMeeting, CommitMeeting,
           CommitQuick, Begin, UpdateMeeting, CheckMeeting, UpsertConsent, InsertEvent,
           CommitConsent, Crash, Refuse, Answer, Step, InsertNow
  <2>2. QED
    BY <1>1, <1>2, <1>3, <2>1 DEF Next, Archive, Purge, Tick, vars

\* ListCorrect: wherever the reader of the list is, what has been seen comes before
\* the cursor of listMeetings, and what was there from the beginning and still is
\* has been seen or comes behind it.
THEOREM ListCorrect == Spec => []ListInv
<1>1. Init => ListInv
  BY RequestsWellFormed DEF Init, ListInv, ListFields
<1>2. QED
  BY <1>1, ListStep, TablesCorrect, PTL DEF Spec

\* PagesAreComplete: whoever pages to the end has seen every meeting that was there
\* all the time, and no meeting twice, whatever is created, archived and purged
\* between two pages and however many meetings start at one time.
THEOREM PagesAreComplete == Spec => []PagesComplete
<1>1. ListInv => PagesComplete
  BY DEF ListInv, PagesComplete
<1>2. QED
  BY <1>1, ListCorrect, PTL
=============================================================================
