----------------------- MODULE MinutesGeneration_proofs -----------------------
(***************************************************************************)
(* The safety of MinutesGeneration for any number of browsers, processes   *)
(* and executions, any number of attempts and any deployment.              *)
(***************************************************************************)
EXTENDS MinutesGeneration, TLAPS, FiniteSetTheorems

-----------------------------------------------------------------------------
(* Executions: who runs what. *)

\* An execution of the worker that BullMQ still waits for.
Working(r) == pc[r] # "free" /\ live[r] /\ ~Inline(r)

\* A free slot belongs to nobody, and only the worker compares versions.
IdleRuns ==
  \A r \in Runs :
    /\ pc[r] = "free" => ~live[r] /\ ~Inline(r)
    /\ Inline(r) => pc[r] # "check"

\* There are jobs in the redis mode only, each asked for with a version, and
\* inline executions in the inline mode only.
OneMode ==
  /\ deploy.mode = "redis" => generating = {} /\ \A r \in Runs : ~Inline(r)
  /\ deploy.mode = "inline" => \A id \in JobIds : state[id] = "absent"
  /\ \A c \in Clients : phase[c] \in {"enqueue", "polling"} =>
       deploy.mode = "redis" /\ want[c] \in Versions

\* A job that is executed is active, and executed once.
JobsHeld ==
  \A r \in Runs : Working(r) =>
    /\ state[job[r]] = "active"
    /\ \A s \in Runs : Working(s) /\ s # r => job[s] # job[r]

\* activeGenerations is the set of processes with an inline execution, and each
\* has one.
LocksHeld ==
  /\ \A r \in Runs : Inline(r) => served[r][1] \in generating
  /\ \A s \in generating : \E r \in Runs : served[r][1] = s
  /\ \A r, s \in Runs : Inline(r) /\ served[s][1] = served[r][1] => s = r

\* Every start of a job is accounted for: by an attempt that failed, by a time
\* it was found stalled, or by the execution that may be running.
StartsOf(id) ==
  /\ state[id] \in {"wait", "delayed"} =>
       starts[id] = attempts[id] + stalls[id] /\ attempts[id] < Attempts
  /\ state[id] = "active" =>
       starts[id] = attempts[id] + stalls[id] + 1 /\ attempts[id] < Attempts
  /\ starts[id] <= Attempts + MaxStalled
StartsCounted == \A id \in JobIds : StartsOf(id)

RunsInv == IdleRuns /\ OneMode /\ JobsHeld /\ LocksHeld /\ StartsCounted

-----------------------------------------------------------------------------
(* Drafts: what was read, for whom, and with which consent. *)

\* Nothing that was asked for is newer than the transcript.
NothingNewer ==
  version # 0 =>
    /\ \A c \in Clients : want[c] <= version
    /\ \A id \in JobIds : payload[id] <= version

\* Whoever waits for a draft or has one has consented to the provider, and so
\* has whoever a job is run for.
Consented ==
  /\ \A c \in Clients : phase[c] \in Waiting \cup {"drafted"} => HasConsent(c)
  /\ \A id \in JobIds : state[id] # "absent" => HasConsent(requester[id])

\* A job is of the version it is named after, and its text is not older.
JobsFresh ==
  /\ \A id \in JobIds :
       /\ state[id] # "absent" => payload[id] = id
       /\ state[id] = "completed" => result[id] >= id
  /\ \A r \in Runs : Working(r) /\ pc[r] \in {"send", "body"} => text[r] >= job[r]

\* An inline execution that is waited for is the one its browser waits for, and
\* its text is not older than what that browser asked for.
InlineFresh ==
  \A r \in Runs : Inline(r) /\ live[r] =>
    /\ phase[served[r][2]] = "posting"
    /\ pc[r] \in {"send", "body"} => text[r] >= want[served[r][2]]
    /\ \A s \in Runs : Inline(s) /\ live[s] /\ served[s][2] = served[r][2] => s = r

\* A draft that is shown is not older than what was asked for.
ShownFresh == \A c \in Clients : phase[c] = "drafted" => draft[c] >= want[c]

DraftsInv == NothingNewer /\ Consented /\ JobsFresh /\ InlineFresh /\ ShownFresh

-----------------------------------------------------------------------------
(* Types, by the part of the state they are about. *)

QueueTypes ==
  /\ state \in [JobIds -> States]
  /\ payload \in [JobIds -> 0..MaxVersion]
  /\ requester \in [JobIds -> Clients \cup {"none"}]
  /\ attempts \in [JobIds -> 0..Attempts]
  /\ stalls \in [JobIds -> 0..MaxStalled]
  /\ starts \in [JobIds -> Nat]
  /\ result \in [JobIds -> 0..MaxVersion]

WorkerTypes ==
  /\ pc \in [Runs -> {"free", "check", "read", "send", "body"}]
  /\ job \in [Runs -> JobIds]
  /\ live \in [Runs -> BOOLEAN]
  /\ text \in [Runs -> 0..MaxVersion]
  /\ served \in [Runs -> (Servers \X Clients) \cup {NotServed}]

Phases == {"idle", "enqueue", "posting", "polling", "drafted", "failed"}

BrowserTypes ==
  /\ phase \in [Clients -> Phases]
  /\ want \in [Clients -> 0..MaxVersion]
  /\ draft \in [Clients -> 0..MaxVersion]

ServerTypes == deploy \in Deployments /\ generating \subseteq Servers /\ consents \subseteq Clients

\* The type invariant by the part of the system that a step can disturb.
LEMMA TypeParts ==
  TypeOK <=>
    version \in 0..MaxVersion /\ QueueTypes /\ WorkerTypes /\ BrowserTypes /\ ServerTypes
BY DEF TypeOK, QueueTypes, WorkerTypes, BrowserTypes, Phases, ServerTypes

\* The browser's part of an answer.
LEMMA AnswerTypes ==
  ASSUME BrowserTypes, NEW c \in Clients, NEW next \in Phases, NEW v \in 0..MaxVersion,
         NEW d \in 0..MaxVersion, Answer(c, next, v, d)
  PROVE  BrowserTypes'
BY DEF BrowserTypes, Answer, Phase

\* A browser that shows a failure keeps its type.
LEMMA FailureTypes ==
  ASSUME BrowserTypes, NEW c \in Clients, ShowFailure(c)
  PROVE  BrowserTypes'
BY GenerationAssumption, AnswerTypes DEF ShowFailure, Phases

\* An attempt that fails is one of the attempts a job has.
LEMMA FailAttemptTypes ==
  ASSUME QueueTypes, NEW id \in JobIds, attempts[id] < Attempts, FailAttempt(id)
  PROVE  QueueTypes'
BY GenerationAssumption DEF QueueTypes, FailAttempt, States

\* Ending an execution gives its slot, and its process, back.
LEMMA EndRunTypes ==
  ASSUME WorkerTypes, ServerTypes, NEW r \in Runs, EndRun(r)
  PROVE  WorkerTypes' /\ ServerTypes'
BY GenerationAssumption DEF WorkerTypes, ServerTypes, EndRun, JobIds, Versions

\* Who an inline execution is for.
LEMMA InlineServes ==
  ASSUME WorkerTypes, NEW r \in Runs, Inline(r)
  PROVE  served[r][1] \in Servers /\ served[r][2] \in Clients
BY DEF WorkerTypes, Inline

\* An execution that throws keeps the types of the queue and its workers.
LEMMA ThrowTypes ==
  ASSUME TypeOK, RunsInv, NEW r \in Runs, pc[r] # "free", Throw(r), version' = version
  PROVE  TypeOK'
<1>1. QueueTypes /\ WorkerTypes /\ BrowserTypes /\ ServerTypes /\ version \in 0..MaxVersion
  BY TypeParts
<1>2. WorkerTypes' /\ ServerTypes'
  BY <1>1, EndRunTypes DEF Throw
<1>3. QueueTypes' /\ BrowserTypes'
  <2>1. CASE live[r] /\ ~Inline(r) /\ FailAttempt(job[r]) /\ UNCHANGED browser
    <3>1. job[r] \in JobIds /\ attempts[job[r]] < Attempts
      BY <1>1, <2>1 DEF RunsInv, JobsHeld, Working, StartsCounted, StartsOf, WorkerTypes
    <3>2. QED
      BY <1>1, <2>1, <3>1, FailAttemptTypes DEF browser, BrowserTypes
  <2>2. CASE live[r] /\ Inline(r) /\ ShowFailure(served[r][2]) /\ UNCHANGED queue
    BY <1>1, <2>2, InlineServes, FailureTypes DEF queue, QueueTypes
  <2>3. CASE UNCHANGED <<queue, browser>>
    BY <1>1, <2>3 DEF queue, QueueTypes, browser, BrowserTypes
  <2>4. QED
    BY <2>1, <2>2, <2>3 DEF Throw
<1>4. QED
  BY <1>1, <1>2, <1>3 DEF TypeOK, QueueTypes, WorkerTypes, BrowserTypes, Phases, ServerTypes

\* An execution that delivers its draft keeps the types.
LEMMA DeliverTypes ==
  ASSUME TypeOK, NEW r \in Runs, Deliver(r), version' = version
  PROVE  TypeOK'
<1>1. QueueTypes /\ WorkerTypes /\ BrowserTypes /\ ServerTypes /\ version \in 0..MaxVersion
  BY TypeParts
<1>2. WorkerTypes' /\ ServerTypes'
  BY <1>1, EndRunTypes DEF Deliver
<1>3. QueueTypes' /\ BrowserTypes'
  <2>1. CASE live[r] /\ ~Inline(r) /\ Complete(r) /\ UNCHANGED browser
    BY <1>1, <2>1 DEF Complete, QueueTypes, WorkerTypes, States, browser, BrowserTypes
  <2>2. CASE /\ live[r] /\ Inline(r) /\ UNCHANGED queue
             /\ Answer(served[r][2], "drafted", want[served[r][2]], text[r])
    <3>1. served[r][2] \in Clients /\ text[r] \in 0..MaxVersion
      BY <1>1, <2>2, InlineServes DEF WorkerTypes
    <3>2. BrowserTypes'
      BY <1>1, <2>2, <3>1, AnswerTypes DEF Phases, BrowserTypes
    <3>3. QED
      BY <1>1, <2>2, <3>2 DEF queue, QueueTypes
  <2>3. CASE UNCHANGED <<queue, browser>>
    BY <1>1, <2>3 DEF queue, QueueTypes, browser, BrowserTypes
  <2>4. QED
    BY <2>1, <2>2, <2>3 DEF Deliver
<1>4. QED
  BY <1>1, <1>2, <1>3 DEF TypeOK, QueueTypes, WorkerTypes, BrowserTypes, Phases, ServerTypes

\* Every step keeps the types.
LEMMA TypeStep == TypeOK /\ RunsInv /\ [Next]_vars => TypeOK'
<1> SUFFICES ASSUME TypeOK, RunsInv, [Next]_vars PROVE TypeOK'
  OBVIOUS
<1>0. QueueTypes /\ WorkerTypes /\ BrowserTypes /\ ServerTypes /\ version \in 0..MaxVersion
  BY TypeParts
<1>a. version' \in 0..MaxVersion /\ QueueTypes' /\ WorkerTypes' /\ BrowserTypes' /\ ServerTypes'
      => TypeOK'
  BY DEF TypeOK, QueueTypes, WorkerTypes, BrowserTypes, Phases, ServerTypes
<1>b. /\ UNCHANGED queue => QueueTypes'
      /\ UNCHANGED worker => WorkerTypes'
      /\ UNCHANGED browser => BrowserTypes'
      /\ UNCHANGED server => ServerTypes'
  BY <1>0 DEF queue, worker, browser, server, QueueTypes, WorkerTypes, BrowserTypes, ServerTypes
<1> USE GenerationAssumption
<1>1. CASE EditTranscript \/ ArchiveMeeting
  BY <1>0, <1>1, <1>a, <1>b DEF EditTranscript, ArchiveMeeting
<1>2. ASSUME NEW c \in Clients, Ask(c) \/ AskRefused(c) PROVE TypeOK'
  <2>1. BrowserTypes'
    BY <1>0, <1>2, AnswerTypes, FailureTypes DEF Ask, AskRefused, Phases
  <2>2. ServerTypes'
    BY <1>0, <1>2 DEF Ask, AskRefused, RecordConsent, ServerTypes
  <2>3. QED
    BY <1>0, <1>2, <1>a, <1>b, <2>1, <2>2 DEF Ask, AskRefused
<1>3. ASSUME NEW c \in Clients, NEW s \in Servers, NEW r \in Runs, AskInline(c, s, r)
      PROVE  TypeOK'
  <2>1. BrowserTypes'
    BY <1>0, <1>3, AnswerTypes, FailureTypes DEF AskInline, Phases
  <2>2. ServerTypes'
    BY <1>0, <1>3 DEF AskInline, RecordConsent, ServerTypes
  <2>3. WorkerTypes'
    <3>1. CASE UNCHANGED worker
      BY <1>b, <3>1
    <3>2. CASE /\ pc' = [pc EXCEPT ![r] = "read"] /\ live' = [live EXCEPT ![r] = TRUE]
               /\ served' = [served EXCEPT ![r] = <<s, c>>] /\ UNCHANGED <<job, text>>
      <4>1. <<s, c>> \in Servers \X Clients
        OBVIOUS
      <4>2. served' \in [Runs -> (Servers \X Clients) \cup {NotServed}]
        BY <1>0, <3>2, <4>1 DEF WorkerTypes
      <4>3. QED
        BY <1>0, <3>2, <4>2 DEF WorkerTypes
    <3>3. QED
      BY <1>3, <3>1, <3>2 DEF AskInline, worker
  <2>4. QED
    BY <1>0, <1>3, <1>a, <1>b, <2>1, <2>2, <2>3 DEF AskInline
<1>4. ASSUME NEW c \in Clients, Enqueue(c) PROVE TypeOK'
  <2>1. BrowserTypes' /\ UNCHANGED <<version, worker, server>>
    BY <1>0, <1>4 DEF Enqueue, Phase, Phases, BrowserTypes
  <2>2. QueueTypes'
    BY <1>0, <1>4, <1>b DEF Enqueue, AddJob, JobId, QueueTypes, BrowserTypes, States
  <2>3. QED
    BY <1>0, <1>a, <1>b, <2>1, <2>2
<1>5. ASSUME NEW c \in Clients, PostFails(c) PROVE TypeOK'
  <2>1. BrowserTypes' /\ WorkerTypes'
    BY <1>0, <1>5, FailureTypes DEF PostFails, WorkerTypes
  <2>2. QED
    BY <1>0, <1>5, <1>a, <1>b, <2>1 DEF PostFails
<1>6. ASSUME NEW c \in Clients, Poll(c) \/ PollFails(c) \/ GiveUp(c) PROVE TypeOK'
  <2>1. CASE ShowFailure(c)
    BY <1>0, <1>6, <1>a, <1>b, <2>1, FailureTypes DEF Poll, PollFails, GiveUp
  <2>2. CASE ~ShowFailure(c)
    <3>1. /\ Answer(c, "drafted", want[c], result[want[c]]) /\ want[c] \in Versions
          /\ UNCHANGED <<version, queue, worker, server>>
      BY <1>6, <2>2 DEF Poll, PollFails, GiveUp, JobId, RunsInv, OneMode
    <3>2. BrowserTypes'
      <4>1. want[c] \in 0..MaxVersion /\ result[want[c]] \in 0..MaxVersion
        BY <1>0, <3>1 DEF QueueTypes, JobIds, Versions
      <4>2. QED
        BY <1>0, <3>1, <4>1, AnswerTypes DEF Phases
    <3>3. QED
      BY <1>0, <1>a, <1>b, <3>1, <3>2
  <2>3. QED
    BY <2>1, <2>2
<1>7. ASSUME NEW r \in Runs, Execute(r) PROVE TypeOK'
  <2>1. CASE Throw(r) /\ pc[r] # "free" /\ version' = version
    BY <2>1, ThrowTypes
  <2>2. CASE Deliver(r) /\ version' = version
    BY <2>2, DeliverTypes
  <2>3. CASE \E next \in {"read", "send", "body"} :
               Goto(r, next) /\ version' = version /\ (text' = text \/ text' = [text EXCEPT ![r] = version])
    <3>1. WorkerTypes' /\ UNCHANGED <<version, queue, browser, server>>
      BY <1>0, <2>3 DEF Goto, WorkerTypes
    <3>2. QED
      BY <1>0, <1>a, <1>b, <3>1
  <2>4. QED
    BY <1>7, <2>1, <2>2, <2>3
       DEF Execute, CheckVersion, ReadTranscript, RunFails, MockMinutes, AskOllama, OllamaAnswers,
           AskGemini, GeminiAnswers
<1>8. ASSUME NEW r \in Runs, Timeout(r) PROVE TypeOK'
  <2>1. job[r] \in JobIds /\ attempts[job[r]] < Attempts
    BY <1>0, <1>8 DEF Timeout, RunsInv, JobsHeld, Working, StartsCounted, StartsOf, WorkerTypes
  <2>2. QueueTypes' /\ WorkerTypes'
    BY <1>0, <1>8, <2>1, FailAttemptTypes DEF Timeout, WorkerTypes
  <2>3. QED
    BY <1>0, <1>8, <1>a, <1>b, <2>2 DEF Timeout
<1>9. ASSUME NEW r \in Runs, NEW id \in JobIds, StartJob(r, id) PROVE TypeOK'
  <2>1. QueueTypes'
    BY <1>0, <1>9 DEF StartJob, QueueTypes, States
  <2>2. WorkerTypes'
    BY <1>0, <1>9 DEF StartJob, WorkerTypes
  <2>3. QED
    BY <1>0, <1>9, <1>a, <1>b, <2>1, <2>2 DEF StartJob
<1>10. ASSUME NEW dead, Die(dead) PROVE WorkerTypes'
  BY <1>0, <1>10 DEF Die, WorkerTypes, JobIds, Versions
<1>11. CASE WorkerCrash
  BY <1>0, <1>10, <1>11, <1>a, <1>b DEF WorkerCrash, Die, ServerTypes
<1>12. ASSUME NEW s \in Servers, ServerCrash(s) PROVE TypeOK'
  <2>1. BrowserTypes'
    <3>1. ASSUME NEW r \in Runs, served[r][1] = s, ShowFailure(served[r][2]) PROVE BrowserTypes'
      <4>1. Inline(r)
        BY <3>1 DEF Inline, NotServed
      <4>2. QED
        BY <1>0, <3>1, <4>1, InlineServes, FailureTypes
    <3>2. QED
      BY <1>12, <1>b, <3>1 DEF ServerCrash
  <2>2. ServerTypes' /\ UNCHANGED <<version, queue>>
    BY <1>0, <1>12 DEF ServerCrash, Die, ServerTypes
  <2>3. QED
    BY <1>0, <1>10, <1>12, <1>a, <1>b, <2>1, <2>2 DEF ServerCrash
<1>13. ASSUME NEW id \in JobIds, Stalled(id) \/ Promote(id) \/ Remove(id) PROVE TypeOK'
  <2>1. QueueTypes'
    BY <1>0, <1>13 DEF Stalled, Promote, Remove, QueueTypes, States
  <2>2. QED
    BY <1>0, <1>13, <1>a, <1>b, <2>1 DEF Stalled, Promote, Remove
<1>14. CASE UNCHANGED vars
  BY <1>0, <1>14, <1>a, <1>b DEF vars
<1>15. QED
  BY <1>1, <1>2, <1>3, <1>4, <1>5, <1>6, <1>7, <1>8, <1>9, <1>11, <1>12, <1>13, <1>14
     DEF Next, Browser

-----------------------------------------------------------------------------
(* Executions stay accounted for. *)

\* What a step leaves alone when it changes jobs and browsers only.
LEMMA RunsUndisturbed ==
  ASSUME TypeOK, RunsInv, UNCHANGED <<deploy, generating, pc, job, live, served>>,
         \A id \in JobIds : state[id] \in {"absent", "active"} => state'[id] = state[id],
         \A id \in JobIds : StartsOf(id)',
         \A c \in Clients : phase'[c] \in {"enqueue", "polling"} =>
           phase[c] \in {"enqueue", "polling"} /\ want'[c] = want[c]
  PROVE  RunsInv'
BY DEF TypeOK, RunsInv, IdleRuns, OneMode, JobsHeld, LocksHeld, StartsCounted, Working, Inline

\* An execution that ends changes the state of no job but the one it ran.
LEMMA EndRunKeepsRuns ==
  ASSUME TypeOK, RunsInv, NEW r \in Runs, pc[r] # "free", EndRun(r),
         \A id \in JobIds : state'[id] # state[id] => Working(r) /\ id = job[r],
         \A id \in JobIds : StartsOf(id)',
         \A c \in Clients : phase'[c] \in {"enqueue", "polling"} =>
           phase[c] \in {"enqueue", "polling"} /\ want'[c] = want[c]
  PROVE  RunsInv'
<1>1. /\ pc'[r] = "free" /\ ~live'[r] /\ served'[r] = NotServed /\ deploy' = deploy
      /\ generating' = generating \ {served[r][1]}
      /\ \A s \in Runs : s # r => /\ pc'[s] = pc[s] /\ live'[s] = live[s]
                                  /\ served'[s] = served[s] /\ job'[s] = job[s]
  BY DEF EndRun, TypeOK
<1>2. IdleRuns'
  BY <1>1 DEF RunsInv, IdleRuns, Inline
<1>3. OneMode'
  BY <1>1 DEF RunsInv, OneMode, Inline, JobsHeld, Working, TypeOK
<1>4. JobsHeld'
  <2> SUFFICES ASSUME NEW s \in Runs, Working(s)'
      PROVE  /\ state'[job'[s]] = "active"
             /\ \A q \in Runs : Working(q)' /\ q # s => job'[q] # job'[s]
    BY DEF JobsHeld
  <2>1. s # r /\ Working(s) /\ job'[s] = job[s] /\ job[s] \in JobIds
    BY <1>1 DEF Working, Inline, TypeOK
  <2>2. state'[job[s]] = "active"
    BY <2>1 DEF RunsInv, JobsHeld
  <2>3. \A q \in Runs : Working(q)' => q # r /\ Working(q)
    BY <1>1 DEF Working, Inline
  <2>4. QED
    BY <1>1, <2>1, <2>2, <2>3 DEF RunsInv, JobsHeld
<1>5. LocksHeld'
  <2>1. Inline(r) \/ served[r][1] = "none"
    BY DEF Inline, NotServed
  <2>2. \A s \in Runs : Inline(s)' => s # r /\ Inline(s) /\ served'[s] = served[s]
    BY <1>1 DEF Inline
  <2>3. \A s \in Runs : Inline(s) => served[s][1] \in Servers
    BY DEF TypeOK, Inline
  <2>4. \A s \in Runs : Inline(s)' => served'[s][1] \in generating'
    BY <1>1, <2>1, <2>2, <2>3, GenerationAssumption DEF RunsInv, LocksHeld
  <2>5. \A s \in generating' : \E q \in Runs : served'[q][1] = s
    BY <1>1 DEF RunsInv, LocksHeld
  <2>6. \A s, q \in Runs : Inline(s)' /\ served'[q][1] = served'[s][1] => q = s
    <3>1. served'[r][1] = "none"
      BY <1>1 DEF NotServed
    <3>2. QED
      BY <1>1, <2>2, <2>3, <3>1, GenerationAssumption DEF RunsInv, LocksHeld
  <2>7. QED
    BY <2>4, <2>5, <2>6 DEF LocksHeld
<1>6. QED
  BY <1>2, <1>3, <1>4, <1>5 DEF RunsInv, StartsCounted

\* The counters of a job after an attempt of it has failed.
LEMMA FailAttemptCounts ==
  ASSUME TypeOK, RunsInv, NEW r \in Runs, Working(r), FailAttempt(job[r])
  PROVE  /\ \A id \in JobIds : StartsOf(id)'
         /\ \A id \in JobIds : id # job[r] => state'[id] = state[id]
         /\ state'[job[r]] \in {"delayed", "failed"}
<1> DEFINE j == job[r]
<1>1. j \in JobIds /\ state[j] = "active" /\ StartsOf(j)
  BY DEF TypeOK, RunsInv, JobsHeld, StartsCounted
<1>2. /\ attempts[j] \in Nat /\ stalls[j] \in 0..MaxStalled /\ starts[j] \in Nat
      /\ Attempts \in Nat /\ MaxStalled \in Nat
  BY <1>1, GenerationAssumption DEF TypeOK
<1>3. /\ attempts'[j] = attempts[j] + 1 /\ stalls' = stalls /\ starts' = starts
      /\ state'[j] = IF attempts[j] + 1 < Attempts THEN "delayed" ELSE "failed"
      /\ \A id \in JobIds : id # j => state'[id] = state[id] /\ attempts'[id] = attempts[id]
  BY <1>1 DEF FailAttempt, TypeOK
<1>4. ASSUME NEW id \in JobIds PROVE StartsOf(id)'
  <2>1. CASE id # j
    BY <1>3, <2>1 DEF RunsInv, StartsCounted, StartsOf
  <2>2. CASE id = j
    <3>1. starts[j] = attempts[j] + stalls[j] + 1 /\ attempts[j] < Attempts
          /\ starts[j] <= Attempts + MaxStalled
      BY <1>1 DEF StartsOf
    <3>2. QED
      BY <1>2, <1>3, <2>2, <3>1 DEF StartsOf
  <2>3. QED
    BY <2>1, <2>2
<1>5. QED
  BY <1>3, <1>4

\* An execution that throws leaves every other one, and every start, counted.
LEMMA ThrowKeepsRuns ==
  ASSUME TypeOK, RunsInv, NEW r \in Runs, pc[r] # "free", Throw(r)
  PROVE  RunsInv'
<1>1. EndRun(r)
  BY DEF Throw
<1>2. CASE Working(r) /\ FailAttempt(job[r]) /\ UNCHANGED browser
  BY <1>1, <1>2, FailAttemptCounts, EndRunKeepsRuns DEF browser
<1>3. CASE Inline(r) /\ ShowFailure(served[r][2]) /\ UNCHANGED queue
  <2>1. \A c \in Clients : phase'[c] \in {"enqueue", "polling"} =>
           phase[c] \in {"enqueue", "polling"} /\ want'[c] = want[c]
    BY <1>3 DEF ShowFailure, Answer, Phase, TypeOK
  <2>2. \A id \in JobIds : StartsOf(id)' /\ state'[id] = state[id]
    BY <1>3 DEF RunsInv, StartsCounted, StartsOf, queue
  <2>3. QED
    BY <1>1, <2>1, <2>2, EndRunKeepsRuns
<1>4. CASE UNCHANGED <<queue, browser>>
  <2>1. \A id \in JobIds : StartsOf(id)' /\ state'[id] = state[id]
    BY <1>4 DEF RunsInv, StartsCounted, StartsOf, queue
  <2>2. QED
    BY <1>1, <1>4, <2>1, EndRunKeepsRuns DEF browser
<1>5. QED
  BY <1>2, <1>3, <1>4 DEF Throw, Working

\* An execution that delivers its draft does so too.
LEMMA DeliverKeepsRuns ==
  ASSUME TypeOK, RunsInv, NEW r \in Runs, pc[r] # "free", Deliver(r)
  PROVE  RunsInv'
<1>1. EndRun(r)
  BY DEF Deliver
<1>2. CASE Working(r) /\ Complete(r) /\ UNCHANGED browser
  <2>1. \A id \in JobIds : state'[id] # state[id] => id = job[r]
    BY <1>2 DEF Complete, TypeOK
  <2>2. \A id \in JobIds : StartsOf(id)'
    BY <1>2 DEF Complete, TypeOK, RunsInv, StartsCounted, StartsOf
  <2>3. QED
    BY <1>1, <1>2, <2>1, <2>2, EndRunKeepsRuns DEF browser
<1>3. CASE /\ Inline(r) /\ UNCHANGED queue
           /\ Answer(served[r][2], "drafted", want[served[r][2]], text[r])
  <2>1. \A c \in Clients : phase'[c] \in {"enqueue", "polling"} =>
           phase[c] \in {"enqueue", "polling"} /\ want'[c] = want[c]
    BY <1>3 DEF Answer, Phase, TypeOK
  <2>2. \A id \in JobIds : StartsOf(id)' /\ state'[id] = state[id]
    BY <1>3 DEF RunsInv, StartsCounted, StartsOf, queue
  <2>3. QED
    BY <1>1, <2>1, <2>2, EndRunKeepsRuns
<1>4. CASE UNCHANGED <<queue, browser>>
  <2>1. \A id \in JobIds : StartsOf(id)' /\ state'[id] = state[id]
    BY <1>4 DEF RunsInv, StartsCounted, StartsOf, queue
  <2>2. QED
    BY <1>1, <1>4, <2>1, EndRunKeepsRuns DEF browser
<1>5. QED
  BY <1>2, <1>3, <1>4 DEF Deliver, Working

\* Every step keeps executions, locks and starts accounted for.
LEMMA RunsStep == TypeOK /\ RunsInv /\ [Next]_vars => RunsInv'
<1> SUFFICES ASSUME TypeOK, RunsInv, [Next]_vars PROVE RunsInv'
  OBVIOUS
<1> USE GenerationAssumption
<1>a. ASSUME UNCHANGED queue PROVE \A id \in JobIds : StartsOf(id)' /\ state'[id] = state[id]
  BY <1>a DEF queue, RunsInv, StartsCounted, StartsOf
<1>1. CASE EditTranscript \/ ArchiveMeeting
  BY <1>1, <1>a, RunsUndisturbed
     DEF EditTranscript, ArchiveMeeting, worker, browser, server
<1>2. ASSUME NEW c \in Clients, Ask(c) \/ AskRefused(c) PROVE RunsInv'
  <2>1. /\ UNCHANGED <<queue, deploy, generating, pc, job, live, served>>
        /\ \A b \in Clients : b # c => phase'[b] = phase[b] /\ want'[b] = want[b]
    BY <1>2 DEF Ask, AskRefused, ShowFailure, Answer, Phase, worker, TypeOK
  <2>2. phase'[c] \in {"enqueue", "polling"} => deploy.mode = "redis" /\ want'[c] \in Versions
    BY <1>2 DEF Ask, AskRefused, ShowFailure, Answer, Phase, TypeOK, Versions
  <2>3. OneMode'
    BY <1>a, <2>1, <2>2 DEF RunsInv, OneMode, Inline
  <2>4. IdleRuns' /\ JobsHeld' /\ LocksHeld' /\ StartsCounted'
    BY <1>a, <2>1 DEF RunsInv, IdleRuns, JobsHeld, LocksHeld, StartsCounted, Working, Inline, TypeOK
  <2>5. QED
    BY <2>3, <2>4 DEF RunsInv
<1>3. ASSUME NEW c \in Clients, NEW s \in Servers, NEW r \in Runs, AskInline(c, s, r)
      PROVE  RunsInv'
  <2>1. \A b \in Clients : phase'[b] \in {"enqueue", "polling"} =>
           phase[b] \in {"enqueue", "polling"} /\ want'[b] = want[b]
    BY <1>3 DEF AskInline, ShowFailure, Answer, Phase, TypeOK
  <2>2. UNCHANGED <<queue, job, deploy>> /\ deploy.mode = "inline" /\ pc[r] = "free" /\ s \notin generating
    BY <1>3 DEF AskInline
  <2>3. CASE UNCHANGED <<generating, pc, live, served>>
    BY <1>a, <2>1, <2>2, <2>3, RunsUndisturbed
  <2>4. CASE /\ generating' = generating \cup {s}
             /\ pc' = [pc EXCEPT ![r] = "read"] /\ live' = [live EXCEPT ![r] = TRUE]
             /\ served' = [served EXCEPT ![r] = <<s, c>>]
    <3>1. /\ pc'[r] = "read" /\ served'[r] = <<s, c>> /\ served'[r][1] = s
          /\ \A q \in Runs : q # r => pc'[q] = pc[q] /\ live'[q] = live[q] /\ served'[q] = served[q]
      BY <2>4 DEF TypeOK
    <3>2. s # "none" /\ <<s, c>> # NotServed
      BY DEF NotServed
    <3>3. Inline(r)' /\ ~Inline(r) /\ \A q \in Runs : q # r => Inline(q)' = Inline(q)
      BY <2>2, <3>1, <3>2 DEF Inline, RunsInv, IdleRuns
    <3>4. IdleRuns'
      BY <3>1, <3>3 DEF RunsInv, IdleRuns
    <3>5. OneMode'
      BY <1>a, <2>1, <2>2 DEF RunsInv, OneMode
    <3>6. JobsHeld'
      <4>1. \A q \in Runs : Working(q)' => Working(q)
        BY <3>1, <3>3 DEF Working
      <4>2. QED
        BY <1>a, <2>2, <4>1 DEF RunsInv, JobsHeld, TypeOK
    <3>7. LocksHeld'
      <4>1. \A q \in Runs : ~Inline(q) => served[q][1] = "none"
        BY DEF Inline, NotServed
      <4>2. \A q \in Runs : q # r => served'[q][1] # s
        BY <2>2, <3>1, <3>2, <4>1 DEF RunsInv, LocksHeld
      <4>3. \A q \in Runs : Inline(q)' => served'[q][1] \in generating'
        BY <2>4, <3>1, <3>3 DEF RunsInv, LocksHeld
      <4>4. \A g \in generating' : \E q \in Runs : served'[q][1] = g
        <5>1. \A g \in generating : \E q \in Runs : q # r /\ served[q][1] = g
          <6>1. served[r][1] \notin generating
            BY <3>3, <4>1 DEF TypeOK
          <6>2. QED
            BY <6>1 DEF RunsInv, LocksHeld
        <5>2. QED
          BY <2>4, <3>1, <5>1
      <4>5. \A p, q \in Runs : Inline(p)' /\ served'[q][1] = served'[p][1] => q = p
        BY <3>1, <3>3, <4>2 DEF RunsInv, LocksHeld
      <4>6. QED
        BY <4>3, <4>4, <4>5 DEF LocksHeld
    <3>8. QED
      BY <1>a, <2>2, <3>4, <3>5, <3>6, <3>7 DEF RunsInv, StartsCounted
  <2>5. QED
    BY <1>3, <2>3, <2>4 DEF AskInline
<1>4. ASSUME NEW c \in Clients, Enqueue(c) PROVE RunsInv'
  <2>1. /\ UNCHANGED <<deploy, generating, pc, job, live, served>> /\ want' = want
        /\ deploy.mode = "redis" /\ want[c] \in Versions
        /\ \A b \in Clients : phase'[b] = IF b = c THEN "polling" ELSE phase[b]
    BY <1>4 DEF Enqueue, Phase, worker, server, TypeOK, RunsInv, OneMode
  <2>2. \A id \in JobIds : state[id] # "absent" => state'[id] = state[id]
    BY <1>4, <1>a DEF Enqueue, AddJob, JobId, TypeOK
  <2>3. ASSUME NEW id \in JobIds PROVE StartsOf(id)'
    <3>1. CASE UNCHANGED queue
      BY <1>a, <3>1
    <3>2. CASE AddJob(want[c], want[c], c)
      BY <3>2 DEF AddJob, StartsOf, TypeOK, RunsInv, StartsCounted
    <3>3. QED
      BY <1>4, <3>1, <3>2 DEF Enqueue, JobId
  <2>4. OneMode'
    BY <1>4, <2>1 DEF RunsInv, OneMode, Inline
  <2>5. IdleRuns' /\ JobsHeld' /\ LocksHeld' /\ StartsCounted'
    BY <2>1, <2>2, <2>3
       DEF RunsInv, IdleRuns, JobsHeld, LocksHeld, StartsCounted, Working, Inline, TypeOK
  <2>6. QED
    BY <2>4, <2>5 DEF RunsInv
<1>5. ASSUME NEW c \in Clients, PostFails(c) PROVE RunsInv'
  <2>1. /\ UNCHANGED <<queue, deploy, generating, pc, job, served>>
        /\ \A r \in Runs : live'[r] => live[r]
        /\ \A b \in Clients : phase'[b] \in {"enqueue", "polling"} =>
             phase[b] \in {"enqueue", "polling"} /\ want'[b] = want[b]
    BY <1>5 DEF PostFails, ShowFailure, Answer, Phase, TypeOK, server
  <2>2. QED
    BY <1>a, <2>1
       DEF RunsInv, IdleRuns, OneMode, JobsHeld, LocksHeld, StartsCounted, Working, Inline, TypeOK
<1>6. ASSUME NEW c \in Clients, Poll(c) \/ PollFails(c) \/ GiveUp(c) PROVE RunsInv'
  <2>1. /\ UNCHANGED <<queue, worker, server>>
        /\ \A b \in Clients : phase'[b] \in {"enqueue", "polling"} =>
             phase[b] \in {"enqueue", "polling"} /\ want'[b] = want[b]
    BY <1>6 DEF Poll, PollFails, GiveUp, ShowFailure, Answer, Phase, TypeOK
  <2>2. QED
    BY <1>a, <2>1, RunsUndisturbed DEF worker, server
<1>7. ASSUME NEW r \in Runs, Execute(r) PROVE RunsInv'
  <2>1. CASE Throw(r) /\ pc[r] # "free"
    BY <2>1, ThrowKeepsRuns
  <2>2. CASE Deliver(r) /\ pc[r] # "free"
    BY <2>2, DeliverKeepsRuns
  <2>3. CASE \E next \in {"read", "send", "body"} : Goto(r, next) /\ pc[r] # "free"
    <3>1. /\ UNCHANGED <<queue, deploy, generating, job, live, served, phase, want>>
          /\ pc[r] # "free" /\ pc'[r] \in {"read", "send", "body"}
          /\ \A q \in Runs : q # r => pc'[q] = pc[q]
      BY <2>3 DEF Goto, browser, server, TypeOK
    <3>2. QED
      BY <1>a, <3>1
         DEF RunsInv, IdleRuns, OneMode, JobsHeld, LocksHeld, StartsCounted, Working, Inline, TypeOK
  <2>4. QED
    BY <1>7, <2>1, <2>2, <2>3
       DEF Execute, CheckVersion, ReadTranscript, RunFails, MockMinutes, AskOllama, OllamaAnswers,
           AskGemini, GeminiAnswers
\* The attempt is given up and nothing of the execution but its slot is left.
<1>8. ASSUME NEW r \in Runs, Timeout(r) PROVE RunsInv'
  <2>1. /\ Working(r) /\ FailAttempt(job[r])
        /\ UNCHANGED <<deploy, generating, pc, job, served, phase, want>>
        /\ live' = [live EXCEPT ![r] = FALSE]
    BY <1>8 DEF Timeout, Working, browser, server
  <2>2. /\ \A id \in JobIds : StartsOf(id)'
        /\ \A id \in JobIds : id # job[r] => state'[id] = state[id]
    BY <2>1, FailAttemptCounts
  <2>3. /\ ~live'[r] /\ \A q \in Runs : q # r => live'[q] = live[q]
    BY <2>1 DEF TypeOK
  <2>4. JobsHeld'
    BY <2>1, <2>2, <2>3 DEF RunsInv, JobsHeld, Working, Inline, TypeOK
  <2>5. OneMode'
    BY <2>1 DEF RunsInv, OneMode, JobsHeld, Inline, TypeOK
  <2>6. IdleRuns' /\ LocksHeld' /\ StartsCounted'
    BY <2>1, <2>2, <2>3 DEF RunsInv, IdleRuns, LocksHeld, StartsCounted, Inline
  <2>7. QED
    BY <2>4, <2>5, <2>6 DEF RunsInv
<1>9. ASSUME NEW r \in Runs, NEW id \in JobIds, StartJob(r, id) PROVE RunsInv'
  <2>1. /\ UNCHANGED <<deploy, generating, served, phase, want, attempts, stalls>>
        /\ pc[r] = "free" /\ pc'[r] = "check" /\ job'[r] = id
        /\ state[id] = "wait" /\ state'[id] = "active" /\ starts'[id] = starts[id] + 1
        /\ \A q \in Runs : q # r => pc'[q] = pc[q] /\ job'[q] = job[q] /\ live'[q] = live[q]
        /\ \A j \in JobIds : j # id => state'[j] = state[j] /\ starts'[j] = starts[j]
    BY <1>9 DEF StartJob, TypeOK, browser, server
  <2>2. ~Inline(r) /\ \A q \in Runs : Inline(q)' = Inline(q)
    BY <2>1 DEF RunsInv, IdleRuns, Inline
  <2>3. \A q \in Runs : Working(q)' /\ q # r => Working(q) /\ job[q] # id
    BY <2>1, <2>2 DEF Working, RunsInv, JobsHeld
  <2>4. JobsHeld'
    BY <2>1, <2>3 DEF RunsInv, JobsHeld, TypeOK
  <2>5. OneMode'
    BY <2>1, <2>2 DEF RunsInv, OneMode
  <2>6. ASSUME NEW j \in JobIds PROVE StartsOf(j)'
    <3>1. CASE j # id
      BY <2>1, <3>1 DEF RunsInv, StartsCounted, StartsOf
    <3>2. CASE j = id
      <4>1. /\ starts[id] = attempts[id] + stalls[id] /\ attempts[id] < Attempts
            /\ attempts[id] \in Nat /\ stalls[id] \in 0..MaxStalled
        BY <2>1 DEF RunsInv, StartsCounted, StartsOf, TypeOK
      <4>2. QED
        BY <2>1, <3>2, <4>1 DEF StartsOf
    <3>3. QED
      BY <3>1, <3>2
  <2>7. IdleRuns' /\ LocksHeld' /\ StartsCounted'
    BY <2>1, <2>2, <2>6 DEF RunsInv, IdleRuns, LocksHeld, StartsCounted, Inline
  <2>8. QED
    BY <2>4, <2>5, <2>7 DEF RunsInv
\* A process that dies takes all its executions with it.
<1>10. ASSUME NEW dead \in SUBSET Runs, Die(dead)
       PROVE  /\ \A r \in Runs \ dead : /\ pc'[r] = pc[r] /\ live'[r] = live[r]
                                        /\ job'[r] = job[r] /\ served'[r] = served[r]
              /\ \A r \in dead : pc'[r] = "free" /\ ~live'[r] /\ served'[r] = NotServed
              /\ UNCHANGED <<queue, deploy>>
  <2>1. UNCHANGED <<queue, deploy>>
    BY <1>10 DEF Die
  <2>2. ASSUME NEW r \in Runs \ dead
        PROVE  /\ pc'[r] = pc[r] /\ live'[r] = live[r]
               /\ job'[r] = job[r] /\ served'[r] = served[r]
    BY <1>10 DEF Die, TypeOK
  <2>3. ASSUME NEW r \in dead PROVE pc'[r] = "free" /\ ~live'[r] /\ served'[r] = NotServed
    BY <1>10 DEF Die
  <2>4. QED
    BY <2>1, <2>2, <2>3
<1>11. CASE WorkerCrash
  <2> DEFINE dead == {r \in Runs : pc[r] # "free" /\ ~Inline(r)}
  <2>1. Die(dead) /\ UNCHANGED <<phase, want, generating>>
    BY <1>11 DEF WorkerCrash, browser
  <2>2. /\ \A r \in Runs : served'[r] = served[r]
        /\ \A r \in Runs : pc'[r] = "free" => ~live'[r] /\ ~Inline(r)
        /\ \A r \in Runs : pc'[r] # "free" => r \notin dead /\ pc'[r] = pc[r]
        /\ \A r \in Runs : ~Working(r)' 
    BY <1>10, <2>1 DEF Working, Inline, RunsInv, IdleRuns
  <2>3. QED
    BY <1>10, <1>a, <2>1, <2>2
       DEF RunsInv, IdleRuns, OneMode, JobsHeld, LocksHeld, StartsCounted, Working, Inline
<1>12. ASSUME NEW s \in Servers, ServerCrash(s) PROVE RunsInv'
  <2> DEFINE dead == {r \in Runs : served[r][1] = s}
  <2>1. Die(dead) /\ generating' = generating \ {s} /\ UNCHANGED <<queue, deploy>>
    BY <1>12, <1>10 DEF ServerCrash
  <2>2. \A c \in Clients : phase'[c] \in {"enqueue", "polling"} =>
           phase[c] \in {"enqueue", "polling"} /\ want'[c] = want[c]
    BY <1>12 DEF ServerCrash, ShowFailure, Answer, Phase, browser, TypeOK
  <2>3. \A r \in Runs : ~Inline(r) => r \notin dead
    BY DEF Inline, NotServed
  <2>4. /\ \A r \in Runs : r \notin dead => /\ pc'[r] = pc[r] /\ live'[r] = live[r]
                                            /\ job'[r] = job[r] /\ served'[r] = served[r]
        /\ \A r \in dead : pc'[r] = "free" /\ ~live'[r] /\ served'[r] = NotServed
    BY <1>10, <2>1
  <2>5. \A r \in Runs : Inline(r)' => Inline(r) /\ r \notin dead
    BY <2>3, <2>4 DEF Inline
  <2>6. IdleRuns' /\ OneMode'
    BY <1>a, <2>1, <2>2, <2>4, <2>5 DEF RunsInv, IdleRuns, OneMode, Inline
  <2>7. JobsHeld'
    <3>1. \A r \in Runs : Working(r)' => Working(r) /\ job'[r] = job[r]
      BY <2>4 DEF Working, Inline
    <3>2. QED
      BY <1>a, <2>1, <3>1 DEF RunsInv, JobsHeld, TypeOK
  <2>8. LocksHeld'
    <3>1. \A r \in dead : served'[r][1] = "none"
      BY <2>4 DEF NotServed
    <3>2. \A r \in Runs : Inline(r)' => served'[r][1] \in generating' /\ served[r][1] \in Servers
      BY <2>1, <2>4, <2>5 DEF RunsInv, LocksHeld, TypeOK, Inline
    <3>3. \A g \in generating' : \E r \in Runs : served'[r][1] = g
      BY <2>1, <2>4 DEF RunsInv, LocksHeld
    <3>4. \A r, q \in Runs : Inline(r)' /\ served'[q][1] = served'[r][1] => q = r
      BY <2>4, <2>5, <3>1, <3>2 DEF RunsInv, LocksHeld
    <3>5. QED
      BY <3>2, <3>3, <3>4 DEF LocksHeld
  <2>9. QED
    BY <1>a, <2>1, <2>6, <2>7, <2>8 DEF RunsInv, StartsCounted
<1>13. ASSUME NEW id \in JobIds, Stalled(id) PROVE RunsInv'
  <2>1. /\ UNCHANGED <<deploy, generating, pc, job, live, served, phase, want, attempts, starts>>
        /\ state[id] = "active"
        /\ \/ stalls[id] < MaxStalled /\ stalls'[id] = stalls[id] + 1 /\ state'[id] = "wait"
           \/ stalls'[id] = stalls[id] /\ state'[id] = "failed"
        /\ \A j \in JobIds : j # id => state'[j] = state[j] /\ stalls'[j] = stalls[j]
    BY <1>13 DEF Stalled, TypeOK, worker, browser, server
  <2>2. \A r \in Runs : Working(r) => job[r] # id
    BY <1>13 DEF Stalled, Running, Working
  <2>3. \A r \in Runs : Inline(r)' = Inline(r) /\ Working(r)' = Working(r)
    BY <2>1 DEF Inline, Working
  <2>4. JobsHeld'
    BY <2>1, <2>2, <2>3 DEF RunsInv, JobsHeld, TypeOK
  <2>5. ASSUME NEW j \in JobIds PROVE StartsOf(j)'
    <3>1. CASE j # id
      BY <2>1, <3>1 DEF RunsInv, StartsCounted, StartsOf
    <3>2. CASE j = id
      <4>1. /\ starts[id] = attempts[id] + stalls[id] + 1 /\ attempts[id] < Attempts
            /\ starts[id] <= Attempts + MaxStalled
            /\ attempts[id] \in Nat /\ stalls[id] \in Nat
        BY <2>1 DEF RunsInv, StartsCounted, StartsOf, TypeOK
      <4>2. QED
        BY <2>1, <3>2, <4>1 DEF StartsOf
    <3>3. QED
      BY <3>1, <3>2
  <2>6. OneMode'
    BY <2>1, <2>3 DEF RunsInv, OneMode
  <2>7. IdleRuns' /\ LocksHeld' /\ StartsCounted'
    BY <2>1, <2>3, <2>5 DEF RunsInv, IdleRuns, LocksHeld, StartsCounted
  <2>8. QED
    BY <2>4, <2>6, <2>7 DEF RunsInv
<1>14. ASSUME NEW id \in JobIds, Promote(id) PROVE RunsInv'
  <2>1. /\ \A j \in JobIds : state[j] \in {"absent", "active"} => state'[j] = state[j]
        /\ \A j \in JobIds : StartsOf(j)'
    BY <1>14 DEF Promote, TypeOK, RunsInv, StartsCounted, StartsOf
  <2>2. QED
    BY <1>14, <2>1, RunsUndisturbed DEF Promote, worker, browser, server
<1>15. ASSUME NEW id \in JobIds, Remove(id) PROVE RunsInv'
  <2>1. /\ \A j \in JobIds : state[j] \in {"absent", "active"} => state'[j] = state[j]
        /\ \A j \in JobIds : StartsOf(j)'
    BY <1>15 DEF Remove, Settled, TypeOK, RunsInv, StartsCounted, StartsOf
  <2>2. QED
    BY <1>15, <2>1, RunsUndisturbed DEF Remove, worker, browser, server
<1>16. CASE UNCHANGED vars
  BY <1>16, <1>a, RunsUndisturbed DEF vars, worker, browser, server
<1>17. QED
  BY <1>1, <1>2, <1>3, <1>4, <1>5, <1>6, <1>7, <1>8, <1>9, <1>11, <1>12, <1>13, <1>14, <1>15,
     <1>16 DEF Next, Browser

\* Every variable keeps its type, and every execution, lock and start is
\* accounted for, whatever times out, crashes or is retried.
THEOREM RunsCorrect == Spec => [](TypeOK /\ RunsInv)
<1>1. Init => TypeOK /\ RunsInv
  BY GenerationAssumption
     DEF Init, TypeOK, States, JobIds, Versions, NotServed, RunsInv, IdleRuns, OneMode, JobsHeld,
         LocksHeld, StartsCounted, StartsOf, Working, Inline
<1>2. QED
  BY <1>1, TypeStep, RunsStep, PTL DEF Spec

-----------------------------------------------------------------------------
(* Drafts stay fresh. *)

\* A step that changes neither the executions nor the jobs keeps what it leaves
\* the browsers, and what it lets them start consented.
LEMMA BrowserKeepsDrafts ==
  ASSUME TypeOK, RunsInv, DraftsInv, NEW c \in Clients,
         UNCHANGED <<version, queue, pc, job, text, served, deploy>>, consents \subseteq consents',
         phase[c] # "posting" \/ \A r \in Runs : served[r][2] = c => ~live'[r],
         \A r \in Runs : live'[r] => live[r],
         \A b \in Clients \ {c} : phase'[b] = phase[b] /\ want'[b] = want[b] /\ draft'[b] = draft[b],
         version # 0 => want'[c] <= version,
         phase'[c] \in Waiting \cup {"drafted"} => HasConsent(c)',
         phase'[c] = "drafted" => draft'[c] >= want'[c]
  PROVE  DraftsInv'
<1> USE DEF DraftsInv, queue
<1>1. NothingNewer'
  BY DEF NothingNewer
<1>2. Consented'
  BY DEF Consented, HasConsent
<1>3. JobsFresh'
  BY DEF JobsFresh, Working, Inline
<1>4. InlineFresh'
  <2>1. \A r \in Runs : Inline(r)' /\ live'[r] =>
          Inline(r) /\ live[r] /\ served[r][2] \in Clients \ {c}
    BY InlineServes, TypeParts DEF Inline, InlineFresh
  <2>2. QED
    BY <2>1 DEF InlineFresh, Inline
<1>5. ShownFresh'
  BY DEF ShownFresh
<1>6. QED
  BY <1>1, <1>2, <1>3, <1>4, <1>5

\* What the end of an execution may do to the browser it was for, and to the job
\* it ran.
LEMMA EndRunKeepsDrafts ==
  ASSUME TypeOK, RunsInv, DraftsInv, NEW r \in Runs, pc[r] # "free", EndRun(r),
         UNCHANGED <<version, payload, requester>>,
         \A id \in JobIds : state'[id] = "absent" <=> state[id] = "absent",
         \A id \in JobIds : state'[id] = "completed" => result'[id] >= id,
         \A c \in Clients :
           \/ phase'[c] = phase[c] /\ want'[c] = want[c] /\ draft'[c] = draft[c]
           \/ /\ Inline(r) /\ live[r] /\ c = served[r][2]
              /\ \/ phase'[c] = "failed" /\ want'[c] = 0
                 \/ phase'[c] = "drafted" /\ want'[c] = want[c] /\ draft'[c] >= want[c]
  PROVE  DraftsInv'
<1> USE DEF DraftsInv
<1>1. /\ pc'[r] = "free" /\ ~live'[r] /\ served'[r] = NotServed /\ UNCHANGED <<deploy, consents>>
      /\ \A s \in Runs : s # r => /\ pc'[s] = pc[s] /\ live'[s] = live[s] /\ text'[s] = text[s]
                                  /\ served'[s] = served[s] /\ job'[s] = job[s]
  BY DEF EndRun, TypeOK
<1>2. NothingNewer'
  BY DEF NothingNewer, TypeOK
<1>3. Consented'
  BY <1>1 DEF Consented, HasConsent, InlineFresh, Waiting
<1>4. JobsFresh'
  BY <1>1 DEF JobsFresh, Working, Inline
<1>5. InlineFresh'
  <2>1. \A s \in Runs : Inline(s)' /\ live'[s] => /\ s # r /\ Inline(s) /\ live[s]
                                                  /\ served'[s] = served[s]
    BY <1>1 DEF Inline
  <2>2. \A s \in Runs : Inline(s)' /\ live'[s] /\ Inline(r) /\ live[r] =>
           served[s][2] # served[r][2]
    BY <2>1 DEF InlineFresh
  <2>3. \A s \in Runs : Inline(s)' /\ live'[s] =>
           phase'[served[s][2]] = phase[served[s][2]] /\ want'[served[s][2]] = want[served[s][2]]
    BY <2>1, <2>2, InlineServes, TypeParts
  <2>4. QED
    BY <1>1, <2>1, <2>3 DEF InlineFresh
<1>6. ShownFresh'
  BY DEF ShownFresh
<1>7. QED
  BY <1>2, <1>3, <1>4, <1>5, <1>6

\* An execution that throws changes no draft.
LEMMA ThrowKeepsDrafts ==
  ASSUME TypeOK, RunsInv, DraftsInv, NEW r \in Runs, pc[r] # "free", Throw(r), version' = version
  PROVE  DraftsInv'
<1>1. EndRun(r)
  BY DEF Throw
<1>2. CASE Working(r) /\ FailAttempt(job[r]) /\ UNCHANGED browser
  <2>1. /\ UNCHANGED <<payload, requester, result, phase, want, draft>>
        /\ \A id \in JobIds : state'[id] = "absent" <=> state[id] = "absent"
        /\ \A id \in JobIds : state'[id] = "completed" => state[id] = "completed"
    BY <1>2, FailAttemptCounts DEF FailAttempt, browser, RunsInv, JobsHeld, TypeOK
  <2>2. QED
    BY <1>1, <2>1, EndRunKeepsDrafts DEF DraftsInv, JobsFresh
<1>3. CASE live[r] /\ Inline(r) /\ ShowFailure(served[r][2]) /\ UNCHANGED queue
  <2>1. \A c \in Clients :
           \/ phase'[c] = phase[c] /\ want'[c] = want[c] /\ draft'[c] = draft[c]
           \/ c = served[r][2] /\ phase'[c] = "failed" /\ want'[c] = 0
    BY <1>3 DEF ShowFailure, Answer, Phase, TypeOK
  <2>2. QED
    BY <1>1, <1>3, <2>1, EndRunKeepsDrafts DEF DraftsInv, JobsFresh, queue
<1>4. CASE UNCHANGED <<queue, browser>>
  BY <1>1, <1>4, EndRunKeepsDrafts DEF DraftsInv, JobsFresh, queue, browser
<1>5. QED
  BY <1>2, <1>3, <1>4 DEF Throw, Working

\* A draft that is delivered is no older than what was asked for.
LEMMA DeliverKeepsDrafts ==
  ASSUME TypeOK, RunsInv, DraftsInv, NEW r \in Runs, pc[r] \in {"send", "body"}, Deliver(r),
         version' = version
  PROVE  DraftsInv'
<1>1. EndRun(r)
  BY DEF Deliver
<1>2. CASE Working(r) /\ Complete(r) /\ UNCHANGED browser
  <2>1. job[r] \in JobIds /\ state[job[r]] = "active" /\ text[r] >= job[r]
    BY <1>2 DEF TypeOK, RunsInv, JobsHeld, DraftsInv, JobsFresh
  <2>2. /\ UNCHANGED <<payload, requester, phase, want, draft>>
        /\ \A id \in JobIds : state'[id] = "absent" <=> state[id] = "absent"
        /\ \A id \in JobIds : state'[id] = "completed" => result'[id] >= id
    BY <1>2, <2>1 DEF Complete, browser, TypeOK, DraftsInv, JobsFresh
  <2>3. QED
    BY <1>1, <2>2, EndRunKeepsDrafts
<1>3. CASE /\ live[r] /\ Inline(r) /\ UNCHANGED queue
           /\ Answer(served[r][2], "drafted", want[served[r][2]], text[r])
  <2>1. served[r][2] \in Clients /\ text[r] >= want[served[r][2]]
    BY <1>3, InlineServes, TypeParts DEF DraftsInv, InlineFresh
  <2>2. \A c \in Clients :
           \/ phase'[c] = phase[c] /\ want'[c] = want[c] /\ draft'[c] = draft[c]
           \/ /\ c = served[r][2] /\ phase'[c] = "drafted" /\ want'[c] = want[c]
              /\ draft'[c] >= want[c]
    BY <1>3, <2>1 DEF Answer, Phase, TypeOK
  <2>3. QED
    BY <1>1, <1>3, <2>2, EndRunKeepsDrafts DEF DraftsInv, JobsFresh, queue
<1>4. CASE UNCHANGED <<queue, browser>>
  BY <1>1, <1>4, EndRunKeepsDrafts DEF DraftsInv, JobsFresh, queue, browser
<1>5. QED
  BY <1>2, <1>3, <1>4 DEF Deliver, Working

\* Every step keeps the versions of requests, texts and drafts in order.
LEMMA DraftsStep == TypeOK /\ RunsInv /\ DraftsInv /\ [Next]_vars => DraftsInv'
<1> SUFFICES ASSUME TypeOK, RunsInv, DraftsInv, [Next]_vars PROVE DraftsInv'
  OBVIOUS
<1> USE GenerationAssumption
<1>1. CASE EditTranscript \/ ArchiveMeeting
  BY <1>1 DEF EditTranscript, ArchiveMeeting, queue, worker, browser, server, DraftsInv, NothingNewer,
              Consented, HasConsent, JobsFresh, InlineFresh, ShownFresh, Working, Inline, TypeOK
<1>2. ASSUME NEW c \in Clients, Ask(c) \/ AskRefused(c) PROVE DraftsInv'
  <2>1. /\ UNCHANGED <<version, queue, pc, job, live, text, served, deploy>>
        /\ consents \subseteq consents' /\ phase[c] # "posting"
        /\ \A b \in Clients \ {c} : phase'[b] = phase[b] /\ want'[b] = want[b] /\ draft'[b] = draft[b]
    BY <1>2 DEF Ask, AskRefused, RecordConsent, ShowFailure, Answer, Phase, worker, Waiting, TypeOK
  <2>2. /\ version # 0 => want'[c] <= version
        /\ phase'[c] # "drafted"
    BY <1>2 DEF Ask, AskRefused, ShowFailure, Answer, Phase, TypeOK
  <2>3. phase'[c] \in Waiting => HasConsent(c)'
    BY <1>2 DEF Ask, AskRefused, ShowFailure, Answer, Phase, TypeOK, RecordConsent, HasConsent, Waiting
  <2>4. QED
    BY <2>1, <2>2, <2>3, BrowserKeepsDrafts
<1>3. ASSUME NEW c \in Clients, NEW s \in Servers, NEW r \in Runs, AskInline(c, s, r)
      PROVE  DraftsInv'
  <2>1. /\ UNCHANGED <<version, queue, job, text, deploy>>
        /\ consents \subseteq consents' /\ phase[c] \notin Waiting /\ pc[r] = "free"
        /\ \A b \in Clients \ {c} : phase'[b] = phase[b] /\ want'[b] = want[b] /\ draft'[b] = draft[b]
    BY <1>3 DEF AskInline, RecordConsent, ShowFailure, Answer, Phase, TypeOK
  <2>2. CASE UNCHANGED <<pc, live, served>> /\ ShowFailure(c)
    <3>1. phase'[c] = "failed" /\ want'[c] = 0
      BY <2>2 DEF ShowFailure, Answer, Phase, TypeOK
    <3>2. QED
      BY <2>1, <2>2, <3>1, BrowserKeepsDrafts DEF Waiting, TypeOK
  <2>3. CASE /\ pc' = [pc EXCEPT ![r] = "read"] /\ live' = [live EXCEPT ![r] = TRUE]
             /\ served' = [served EXCEPT ![r] = <<s, c>>]
             /\ Answer(c, "posting", version, 0)
    <3>1. /\ pc'[r] = "read" /\ live'[r] /\ served'[r] = <<s, c>> /\ served'[r][2] = c
          /\ \A q \in Runs : q # r => pc'[q] = pc[q] /\ live'[q] = live[q] /\ served'[q] = served[q]
          /\ phase'[c] = "posting" /\ want'[c] = version
      BY <2>3 DEF Answer, Phase, TypeOK
    <3>2. \A q \in Runs : q # r => Inline(q)' = Inline(q)
      BY <3>1 DEF Inline
    <3>3. Inline(r)'
      BY <3>1 DEF Inline, NotServed
    <3>4. \A q \in Runs : q # r /\ Inline(q) /\ live[q] => served[q][2] \in Clients \ {c}
      BY <2>1, InlineServes, TypeParts DEF DraftsInv, InlineFresh, Waiting
    <3>5. InlineFresh'
      BY <2>1, <3>1, <3>2, <3>4 DEF DraftsInv, InlineFresh
    <3>6. NothingNewer' /\ ShownFresh'
      BY <2>1, <3>1 DEF DraftsInv, NothingNewer, ShownFresh, queue, TypeOK
    <3>7. Consented'
      BY <1>3, <2>1 DEF AskInline, RecordConsent, DraftsInv, Consented, HasConsent, queue
    <3>8. JobsFresh'
      BY <2>1, <3>1, <3>2, <3>3 DEF DraftsInv, JobsFresh, Working, queue
    <3>9. QED
      BY <3>5, <3>6, <3>7, <3>8 DEF DraftsInv
  <2>4. QED
    BY <1>3, <2>2, <2>3 DEF AskInline
<1>4. ASSUME NEW c \in Clients, Enqueue(c) PROVE DraftsInv'
  <2>1. /\ UNCHANGED <<version, pc, job, live, text, served, deploy, consents, want, draft>>
        /\ phase[c] = "enqueue" /\ phase' = [phase EXCEPT ![c] = "polling"]
        /\ want[c] \in JobIds /\ HasConsent(c)
    BY <1>4 DEF Enqueue, Phase, worker, server, RunsInv, OneMode, JobIds, DraftsInv, Consented, Waiting
  <2>2. \/ UNCHANGED queue
        \/ /\ state[want[c]] = "absent"
           /\ state' = [state EXCEPT ![want[c]] = "wait"]
           /\ payload' = [payload EXCEPT ![want[c]] = want[c]]
           /\ requester' = [requester EXCEPT ![want[c]] = c]
           /\ result' = [result EXCEPT ![want[c]] = 0]
    BY <1>4 DEF Enqueue, AddJob, JobId
  <2>3. \A b \in Clients : /\ phase'[b] \in Waiting => phase[b] \in Waiting
                           /\ phase'[b] = "drafted" <=> phase[b] = "drafted"
                           /\ phase'[b] = "posting" <=> phase[b] = "posting"
    BY <2>1 DEF Waiting, TypeOK
  <2>4. NothingNewer' /\ ShownFresh' /\ InlineFresh'
    <3>1. InlineFresh'
      BY <2>1, <2>3, InlineServes, TypeParts DEF DraftsInv, InlineFresh, Inline
    <3>2. ShownFresh'
      BY <2>1, <2>3 DEF DraftsInv, ShownFresh
    <3>3. NothingNewer'
      BY <2>1, <2>2 DEF DraftsInv, NothingNewer, queue, TypeOK
    <3>4. QED
      BY <3>1, <3>2, <3>3
  <2>5. Consented'
    BY <2>1, <2>2, <2>3 DEF DraftsInv, Consented, HasConsent, queue, TypeOK
  <2>6. JobsFresh'
    BY <2>1, <2>2 DEF DraftsInv, JobsFresh, Working, Inline, queue, TypeOK
  <2>7. QED
    BY <2>4, <2>5, <2>6 DEF DraftsInv
<1>5. ASSUME NEW c \in Clients, PostFails(c) PROVE DraftsInv'
  <2>1. /\ UNCHANGED <<version, queue, pc, job, text, served, deploy, consents>>
        /\ \A r \in Runs : live'[r] => live[r] /\ served[r][2] # c
        /\ phase'[c] = "failed" /\ want'[c] = 0
        /\ \A b \in Clients \ {c} : phase'[b] = phase[b] /\ want'[b] = want[b] /\ draft'[b] = draft[b]
    BY <1>5 DEF PostFails, ShowFailure, Answer, Phase, TypeOK, server
  <2>2. QED
    BY <2>1, BrowserKeepsDrafts DEF Waiting, TypeOK
<1>6. ASSUME NEW c \in Clients, Poll(c) \/ PollFails(c) \/ GiveUp(c) PROVE DraftsInv'
  <2>1. /\ UNCHANGED <<version, queue, pc, job, live, text, served, deploy, consents>>
        /\ phase[c] = "polling" /\ HasConsent(c) /\ want[c] \in JobIds
    BY <1>6 DEF Poll, PollFails, GiveUp, worker, server, RunsInv, OneMode, JobIds,
                DraftsInv, Consented, Waiting
  <2>2. /\ \A b \in Clients \ {c} : phase'[b] = phase[b] /\ want'[b] = want[b] /\ draft'[b] = draft[b]
        /\ \/ phase'[c] = "failed" /\ want'[c] = 0
           \/ phase'[c] = "drafted" /\ want'[c] = want[c] /\ draft'[c] >= want[c]
    BY <1>6, <2>1 DEF Poll, PollFails, GiveUp, ShowFailure, Answer, Phase, JobId, TypeOK,
                      DraftsInv, JobsFresh
  <2>3. version # 0 => want'[c] <= version
    BY <2>2 DEF DraftsInv, NothingNewer, TypeOK
  <2>4. HasConsent(c)'
    BY <2>1 DEF HasConsent
  <2>5. QED
    BY <2>1, <2>2, <2>3, <2>4, BrowserKeepsDrafts
<1>7. ASSUME NEW r \in Runs, Execute(r) PROVE DraftsInv'
  <2>1. CASE Throw(r) /\ pc[r] # "free" /\ version' = version
    BY <2>1, ThrowKeepsDrafts
  <2>2. CASE Deliver(r) /\ pc[r] \in {"send", "body"} /\ version' = version
    BY <2>2, DeliverKeepsDrafts
  \* The text is read after the version was compared or asked for.
  <2>3. CASE /\ version' = version
             /\ \/ Goto(r, "read") /\ text' = text
                \/ pc[r] = "send" /\ Goto(r, "body") /\ text' = text
                \/ /\ Goto(r, "send") /\ version # 0 /\ text' = [text EXCEPT ![r] = version]
    <3>1. /\ UNCHANGED <<version, queue, job, live, served, browser, deploy, consents>>
          /\ \A q \in Runs : q # r => pc'[q] = pc[q] /\ text'[q] = text[q]
          /\ \/ pc'[r] = "read"
             \/ pc[r] = "send" /\ text'[r] = text[r]
             \/ version # 0 /\ text'[r] = version
          /\ pc[r] = "free" => pc'[r] # "free"
      BY <2>3 DEF Goto, server, TypeOK
    <3>2. pc[r] # "free"
      BY <1>7, <2>3 DEF Execute, CheckVersion, ReadTranscript, RunFails, MockMinutes, AskOllama,
                        OllamaAnswers, AskGemini, GeminiAnswers
    <3>3. ASSUME NEW q \in Runs, Working(q)', pc'[q] \in {"send", "body"} PROVE text'[q] >= job[q]
      <4>1. Working(q) /\ job[q] \in JobIds /\ state[job[q]] = "active"
        BY <3>1, <3>2, <3>3 DEF Working, Inline, RunsInv, JobsHeld, TypeOK
      <4>2. CASE q # r \/ (pc[r] = "send" /\ text'[r] = text[r])
        BY <3>1, <3>3, <4>1, <4>2 DEF DraftsInv, JobsFresh
      <4>3. CASE q = r /\ version # 0 /\ text'[r] = version
        BY <4>1, <4>3 DEF DraftsInv, JobsFresh, NothingNewer
      <4>4. QED
        BY <3>1, <3>3, <4>2, <4>3
    <3>4. ASSUME NEW q \in Runs, Inline(q)', live'[q], pc'[q] \in {"send", "body"}
          PROVE  text'[q] >= want[served[q][2]]
      <4>1. Inline(q) /\ live[q] /\ served[q][2] \in Clients
        BY <3>1, <3>4, InlineServes, TypeParts DEF Inline
      <4>2. CASE q # r \/ (pc[r] = "send" /\ text'[r] = text[r])
        BY <3>1, <3>4, <4>1, <4>2 DEF DraftsInv, InlineFresh
      <4>3. CASE q = r /\ version # 0 /\ text'[r] = version
        BY <4>1, <4>3 DEF DraftsInv, NothingNewer
      <4>4. QED
        BY <3>1, <3>4, <4>2, <4>3
    <3>5. JobsFresh'
      BY <3>1, <3>3 DEF DraftsInv, JobsFresh, queue
    <3>6. InlineFresh'
      BY <3>1, <3>4 DEF DraftsInv, InlineFresh, Inline, browser
    <3>7. NothingNewer' /\ Consented' /\ ShownFresh'
      BY <3>1 DEF DraftsInv, NothingNewer, Consented, HasConsent, ShownFresh, queue, browser
    <3>8. QED
      BY <3>5, <3>6, <3>7 DEF DraftsInv
  <2>4. QED
    BY <1>7, <2>1, <2>2, <2>3
       DEF Execute, CheckVersion, ReadTranscript, RunFails, MockMinutes, AskOllama, OllamaAnswers,
           AskGemini, GeminiAnswers
<1>8. ASSUME NEW r \in Runs, Timeout(r) PROVE DraftsInv'
  <2>1. /\ UNCHANGED <<version, payload, requester, result, pc, job, text, served, browser, deploy, consents>>
        /\ Working(r) /\ FailAttempt(job[r]) /\ \A q \in Runs : live'[q] => live[q]
    BY <1>8 DEF Timeout, Working, FailAttempt, server, TypeOK
  <2>2. \A id \in JobIds : /\ state'[id] # "absent" => state[id] # "absent"
                           /\ state'[id] = "completed" => state[id] = "completed"
    BY <2>1, FailAttemptCounts DEF RunsInv, JobsHeld, TypeOK
  <2>3. NothingNewer' /\ Consented' /\ ShownFresh' /\ JobsFresh'
    BY <2>1, <2>2 DEF DraftsInv, NothingNewer, Consented, HasConsent, ShownFresh, browser, JobsFresh,
                      Working, Inline
  <2>4. InlineFresh'
    BY <2>1 DEF DraftsInv, InlineFresh, Inline, browser
  <2>5. QED
    BY <2>3, <2>4 DEF DraftsInv
<1>9. ASSUME NEW r \in Runs, NEW id \in JobIds, StartJob(r, id) PROVE DraftsInv'
  <2>1. /\ UNCHANGED <<version, payload, requester, result, text, served, browser, deploy, consents>>
        /\ pc[r] = "free" /\ pc'[r] = "check"
        /\ state[id] = "wait" /\ state' = [state EXCEPT ![id] = "active"]
        /\ \A q \in Runs : q # r => pc'[q] = pc[q] /\ job'[q] = job[q] /\ live'[q] = live[q]
    BY <1>9 DEF StartJob, TypeOK, server
  <2>2. \A q \in Runs : Inline(q)' = Inline(q) /\ (Inline(q) => q # r)
    BY <2>1 DEF RunsInv, IdleRuns, Inline
  <2>3. NothingNewer' /\ Consented' /\ ShownFresh' /\ JobsFresh'
    BY <2>1, <2>2 DEF DraftsInv, NothingNewer, Consented, HasConsent, ShownFresh, browser, JobsFresh,
                      Working, TypeOK
  <2>4. InlineFresh'
    BY <2>1, <2>2 DEF DraftsInv, InlineFresh, browser
  <2>5. QED
    BY <2>3, <2>4 DEF DraftsInv
<1>10. ASSUME NEW dead \in SUBSET Runs, Die(dead),
              \A r \in dead, c \in Clients :
                 Inline(r) /\ live[r] /\ served[r][2] = c => phase'[c] = "failed" /\ want'[c] = 0,
              \A c \in Clients :
                 \/ phase'[c] = phase[c] /\ want'[c] = want[c] /\ draft'[c] = draft[c]
                 \/ /\ \E r \in dead : Inline(r) /\ live[r] /\ served[r][2] = c
                    /\ phase'[c] = "failed" /\ want'[c] = 0
       PROVE  DraftsInv'
  <2>1. /\ UNCHANGED <<version, queue, deploy, consents>>
        /\ \A r \in Runs : live'[r] => /\ r \notin dead /\ live[r]
        /\ \A r \in Runs \ dead : /\ pc'[r] = pc[r] /\ text'[r] = text[r]
                                  /\ job'[r] = job[r] /\ served'[r] = served[r]
    BY <1>10 DEF Die
  <2>2. NothingNewer' /\ Consented' /\ ShownFresh'
    BY <1>10, <2>1 DEF DraftsInv, NothingNewer, Consented, HasConsent, ShownFresh, Waiting, queue, TypeOK
  <2>3. JobsFresh'
    BY <2>1 DEF DraftsInv, JobsFresh, Working, Inline, queue
  <2>4. InlineFresh'
    <3>1. \A r \in Runs : Inline(r)' /\ live'[r] =>
            r \notin dead /\ Inline(r) /\ live[r] /\ served'[r] = served[r] /\ served[r][2] \in Clients
      BY <2>1, InlineServes, TypeParts DEF Inline
    <3>2. \A r \in Runs : Inline(r)' /\ live'[r] =>
            phase'[served[r][2]] = phase[served[r][2]] /\ want'[served[r][2]] = want[served[r][2]]
      BY <1>10, <3>1 DEF DraftsInv, InlineFresh
    <3>3. QED
      BY <2>1, <3>1, <3>2 DEF DraftsInv, InlineFresh
  <2>5. QED
    BY <2>2, <2>3, <2>4 DEF DraftsInv
<1>11. CASE WorkerCrash
  <2>1. \A r \in {q \in Runs : pc[q] # "free" /\ ~Inline(q)} : ~Inline(r)
    OBVIOUS
  <2>2. QED
    BY <1>10, <1>11, <2>1 DEF WorkerCrash, browser
<1>12. ASSUME NEW s \in Servers, ServerCrash(s) PROVE DraftsInv'
  <2> DEFINE dead == {r \in Runs : served[r][1] = s}
  <2>1. \A r \in dead : Inline(r)
    BY DEF Inline, NotServed
  <2>2. \A q, r \in dead : q = r
    BY <2>1 DEF RunsInv, LocksHeld
  <2>3. CASE \E r \in dead : live[r] /\ ShowFailure(served[r][2])
    <3>1. PICK r \in dead : live[r] /\ ShowFailure(served[r][2])
      BY <2>3
    <3>2. served[r][2] \in Clients
      BY <2>1, InlineServes, TypeParts
    <3>3. \A c \in Clients :
            IF c = served[r][2] THEN phase'[c] = "failed" /\ want'[c] = 0
            ELSE phase'[c] = phase[c] /\ want'[c] = want[c] /\ draft'[c] = draft[c]
      BY <3>1, <3>2 DEF ShowFailure, Answer, Phase, TypeOK
    <3>4. QED
      BY <1>10, <1>12, <2>1, <2>2, <3>1, <3>3 DEF ServerCrash
  <2>4. CASE ~(\E r \in dead : live[r]) /\ UNCHANGED browser
    BY <1>10, <1>12, <2>4 DEF ServerCrash, browser
  <2>5. QED
    BY <1>12, <2>3, <2>4 DEF ServerCrash
<1>13. ASSUME NEW id \in JobIds, Stalled(id) \/ Promote(id) PROVE DraftsInv'
  <2>1. /\ UNCHANGED <<version, payload, requester, result, worker, browser, server>>
        /\ \A j \in JobIds : /\ state'[j] # "absent" => state[j] # "absent"
                             /\ state'[j] = "completed" => state[j] = "completed"
    BY <1>13 DEF Stalled, Promote, TypeOK
  <2>2. QED
    BY <2>1 DEF worker, browser, server, DraftsInv, NothingNewer, Consented, HasConsent, JobsFresh,
                InlineFresh, ShownFresh, Working, Inline
<1>14. ASSUME NEW id \in JobIds, Remove(id) PROVE DraftsInv'
  <2>1. /\ UNCHANGED <<version, worker, browser, server>>
        /\ state'[id] = "absent" /\ payload'[id] = 0
        /\ \A j \in JobIds \ {id} : /\ state'[j] = state[j] /\ payload'[j] = payload[j]
                                    /\ requester'[j] = requester[j] /\ result'[j] = result[j]
    BY <1>14 DEF Remove, TypeOK
  <2>2. NothingNewer'
    BY <2>1 DEF browser, DraftsInv, NothingNewer, TypeOK
  <2>3. Consented'
    BY <2>1 DEF browser, server, DraftsInv, Consented, HasConsent
  <2>4. JobsFresh' /\ InlineFresh' /\ ShownFresh'
    BY <2>1 DEF worker, browser, DraftsInv, JobsFresh, InlineFresh, ShownFresh, Working, Inline
  <2>5. QED
    BY <2>2, <2>3, <2>4 DEF DraftsInv
<1>15. CASE UNCHANGED vars
  BY <1>15 DEF vars, queue, worker, browser, server, DraftsInv, NothingNewer, Consented, HasConsent,
               JobsFresh, InlineFresh, ShownFresh, Working, Inline
<1>16. QED
  BY <1>1, <1>2, <1>3, <1>4, <1>5, <1>6, <1>7, <1>8, <1>9, <1>11, <1>12, <1>13, <1>14, <1>15
     DEF Next, Browser

\* What was asked for, read, generated and shown stays in order of its version,
\* and nobody's text is sent without a consent.
THEOREM DraftsCorrect == Spec => []DraftsInv
<1>1. Init => DraftsInv
  BY GenerationAssumption
     DEF Init, JobIds, Versions, NotServed, DraftsInv, NothingNewer, Consented, HasConsent, Waiting,
         JobsFresh, InlineFresh, ShownFresh, Working, Inline
<1>2. QED
  BY <1>1, DraftsStep, RunsCorrect, PTL DEF Spec

-----------------------------------------------------------------------------
(* The properties. *)

\* Every variable keeps its type.
THEOREM TypeCorrect == Spec => []TypeOK
BY RunsCorrect, PTL

\* A job is executed by one run at a time while BullMQ has it active, and a web
\* process generates in at most one run, under its lock.
THEOREM JobsRunOnce == Spec => []OneRunPerJob
<1>1. TypeOK /\ RunsInv => OneRunPerJob
  <2> SUFFICES ASSUME TypeOK, RunsInv PROVE OneRunPerJob
    OBVIOUS
  <2>1. ASSUME NEW r \in Runs, NEW s \in Runs, Working(r)
        PROVE  /\ state[job[r]] = "active"
               /\ pc[s] # "free" /\ live[s] /\ s # r => job[s] # job[r]
    <3>1. state[job[r]] = "active" /\ job[r] \in JobIds
      BY <2>1 DEF RunsInv, JobsHeld, TypeOK
    <3>2. deploy.mode = "redis"
      BY <3>1, GenerationAssumption DEF RunsInv, OneMode, TypeOK
    <3>3. ~Inline(s)
      BY <3>2 DEF RunsInv, OneMode
    <3>4. QED
      BY <2>1, <3>1, <3>3 DEF RunsInv, JobsHeld, Working
  <2>2. ASSUME NEW s \in Servers
        PROVE  Cardinality({r \in Runs : served[r][1] = s}) = (IF s \in generating THEN 1 ELSE 0)
    <3>1. \A r \in Runs : served[r][1] = s => Inline(r)
      BY GenerationAssumption DEF Inline, NotServed
    <3>2. CASE s \in generating
      <4>1. PICK r \in Runs : served[r][1] = s
        BY <3>2 DEF RunsInv, LocksHeld
      <4>2. {q \in Runs : served[q][1] = s} = {r}
        BY <3>1, <4>1 DEF RunsInv, LocksHeld
      <4>3. QED
        BY <3>2, <4>2, FS_Singleton
    <3>3. CASE s \notin generating
      <4>1. {r \in Runs : served[r][1] = s} = {}
        BY <3>1, <3>3 DEF RunsInv, LocksHeld
      <4>2. QED
        BY <3>3, <4>1, FS_EmptySet
    <3>4. QED
      BY <3>2, <3>3
  <2>3. QED
    BY <2>1, <2>2 DEF OneRunPerJob, Working
<1>2. QED
  BY <1>1, RunsCorrect, PTL

\* A job is started a bounded number of times.
THEOREM ExecutionsAreBounded == Spec => []BoundedExecutions
<1>1. RunsInv => BoundedExecutions
  BY DEF RunsInv, StartsCounted, StartsOf, BoundedExecutions
<1>2. QED
  BY <1>1, RunsCorrect, PTL

\* No draft is older than what was asked for, and none is generated or shown
\* without a consent.
THEOREM DraftsAreFresh == Spec => []NoStaleDraft
<1>1. TypeOK /\ RunsInv /\ DraftsInv => NoStaleDraft
  <2> SUFFICES ASSUME TypeOK, RunsInv, DraftsInv PROVE NoStaleDraft
    OBVIOUS
  <2>1. \A c \in Clients : phase[c] = "drafted" => draft[c] >= want[c] /\ HasConsent(c)
    BY DEF DraftsInv, ShownFresh, Consented
  <2>2. ASSUME NEW r \in Runs, live[r], pc[r] \in {"send", "body"}, Inline(r)
        PROVE  HasConsent(served[r][2])
    BY <2>2, InlineServes, TypeParts DEF DraftsInv, InlineFresh, Consented, Waiting
  <2>3. ASSUME NEW r \in Runs, live[r], pc[r] \in {"send", "body"}, ~Inline(r)
        PROVE  HasConsent(requester[job[r]])
    BY <2>3 DEF DraftsInv, Consented, RunsInv, JobsHeld, Working, TypeOK
  <2>4. QED
    BY <2>1, <2>2, <2>3 DEF NoStaleDraft
<1>2. QED
  BY <1>1, RunsCorrect, DraftsCorrect, PTL

\* A settled job stays as it is until it is removed.
THEOREM SettledJobsStay == Spec => SettledIsFinal
<1> DEFINE A == \A id \in JobIds :
       state[id] \in Settled =>
         \/ state'[id] = "absent"
         \/ state'[id] = state[id] /\ result'[id] = result[id]
<1>1. TypeOK /\ RunsInv /\ [Next]_vars => [A]_vars
  <2> SUFFICES ASSUME TypeOK, RunsInv, Next, NEW id \in JobIds, state[id] \in Settled,
                      state'[id] # "absent"
      PROVE  state'[id] = state[id] /\ result'[id] = result[id]
    OBVIOUS
  <2>0. \A r \in Runs : Working(r) => job[r] # id
    BY DEF RunsInv, JobsHeld, Settled
  <2>a. CASE UNCHANGED queue
    BY <2>a DEF queue
  <2>1. ASSUME NEW r \in Runs, Execute(r) PROVE state'[id] = state[id] /\ result'[id] = result[id]
    <3>1. CASE pc[r] # "free" /\ Working(r) /\ FailAttempt(job[r])
      BY <2>0, <3>1 DEF FailAttempt, TypeOK
    <3>2. CASE pc[r] # "free" /\ Working(r) /\ Complete(r)
      BY <2>0, <3>2 DEF Complete, TypeOK
    <3>3. QED
      BY <2>1, <2>a, <3>1, <3>2
         DEF Execute, CheckVersion, ReadTranscript, RunFails, MockMinutes, AskOllama, OllamaAnswers,
             AskGemini, GeminiAnswers, Throw, Deliver, Goto, Working
  <2>2. ASSUME NEW r \in Runs, Timeout(r) PROVE state'[id] = state[id] /\ result'[id] = result[id]
    BY <2>0, <2>2 DEF Timeout, FailAttempt, Working, TypeOK
  <2>3. ASSUME NEW r \in Runs, NEW j \in JobIds, StartJob(r, j)
        PROVE  state'[id] = state[id] /\ result'[id] = result[id]
    BY <2>3 DEF StartJob, Settled, TypeOK
  <2>4. ASSUME NEW j \in JobIds, Stalled(j) \/ Promote(j) \/ Remove(j)
        PROVE  state'[id] = state[id] /\ result'[id] = result[id]
    BY <2>4 DEF Stalled, Promote, Remove, Settled, TypeOK
  <2>5. ASSUME NEW c \in Clients, Browser(c) PROVE state'[id] = state[id] /\ result'[id] = result[id]
    <3>1. CASE state[JobId(want[c])] = "absent" /\ AddJob(JobId(want[c]), want[c], c)
      BY <3>1 DEF AddJob, Settled, TypeOK
    <3>2. QED
      BY <2>5, <2>a, <3>1 DEF Browser, Ask, AskRefused, AskInline, Enqueue, PostFails, Poll, PollFails,
                              GiveUp
  <2>6. QED
    BY <2>a, <2>1, <2>2, <2>3, <2>4, <2>5
       DEF Next, EditTranscript, ArchiveMeeting, WorkerCrash, ServerCrash, Die
<1>2. QED
  BY <1>1, RunsCorrect, PTL DEF Spec, SettledIsFinal
=============================================================================
