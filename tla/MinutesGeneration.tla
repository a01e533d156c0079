-------------------------- MODULE MinutesGeneration --------------------------
(***************************************************************************)
(* AI minutes.  A browser asks the web server for minutes of the           *)
(* transcript (RecordingPanel.tsx, minutes-generation.ts).  In the redis   *)
(* mode the web server adds a job named after the transcript version       *)
(* (packages/queue), a worker runs it against the database and the AI      *)
(* provider (apps/worker, packages/ai), and the browser polls.  In the     *)
(* inline mode the web server generates in the request itself, one         *)
(* generation of the meeting per process.                                  *)
(*                                                                         *)
(* BullMQ is external and modelled from the options the code gives it: a   *)
(* job whose id is still known is not added again, a failed attempt is     *)
(* retried after a delay, a job whose worker died is found stalled.  A     *)
(* transcript's text is represented by its version.  The browsers of one   *)
(* behaviour use one provider: jobs of different providers share nothing   *)
(* but the worker.                                                         *)
(***************************************************************************)
EXTENDS Naturals, FiniteSets

CONSTANTS
  Clients,      \* browsers with the meeting open, each of a user of its own
  Servers,      \* web processes
  Deployments,  \* [mode, provider, usable]: usable is FALSE when the API key
                \* is missing, or the demo provider is used in production
  Runs,         \* executions of the processor, abandoned ones included
  Concurrency,  \* WORKER_CONCURRENCY
  Attempts,     \* attempts of defaultJobOptions
  MaxStalled,   \* maxStalledCount of the worker
  MaxVersion    \* bound: edits of the transcript

ASSUME GenerationAssumption ==
  /\ Concurrency \in Nat \ {0} /\ Attempts \in Nat \ {0}
  /\ MaxStalled \in Nat /\ MaxVersion \in Nat \ {0}
  /\ Deployments \subseteq [mode : {"redis", "inline"}, usable : BOOLEAN,
                            provider : {"mock", "ollama", "gemini"}]
  /\ "none" \notin Servers \cup Clients

Versions == 1..MaxVersion
JobIds == Versions

VARIABLES
  deploy,    \* the deployment; it does not change
  version,   \* the confirmed transcript; 0 once the meeting is archived
  state,     \* state of each job in BullMQ, "absent" when it has no such job
  payload,   \* transcriptVersion of its payload
  requester, \* requestedBy of its payload
  attempts,  \* attemptsMade
  stalls,    \* times it was found stalled
  starts,    \* times the processor was started for it
  result,    \* version of the text its return value was generated from
  pc,        \* the next step of each execution
  job,       \* the job it executes
  live,      \* FALSE once nobody waits for it: withJobTimeout has given up on
             \* it, or the connection of its request is lost
  text,      \* version of the text it has read
  served,    \* <<web process, browser>> of an inline execution
  generating, \* web processes whose activeGenerations holds the meeting
  consents,  \* browsers whose user has consented to the external provider
  phase,     \* of each browser
  want,      \* transcript version its last request was made for
  draft      \* version of the text the answer to it was generated from

queue == <<state, payload, requester, attempts, stalls, starts, result>>
worker == <<pc, job, live, text, served>>
browser == <<phase, want, draft>>
server == <<deploy, generating, consents>>
vars == <<version, queue, worker, browser, server>>

NotServed == <<"none", "none">>

States == {"absent", "wait", "active", "delayed", "completed", "failed"}
Settled == {"completed", "failed"}

TypeOK ==
  /\ version \in 0..MaxVersion
  /\ state \in [JobIds -> States]
  /\ payload \in [JobIds -> 0..MaxVersion]
  /\ requester \in [JobIds -> Clients \cup {"none"}]
  /\ attempts \in [JobIds -> 0..Attempts]
  /\ stalls \in [JobIds -> 0..MaxStalled]
  /\ starts \in [JobIds -> Nat]
  /\ result \in [JobIds -> 0..MaxVersion]
  /\ pc \in [Runs -> {"free", "check", "read", "send", "body"}]
  /\ job \in [Runs -> JobIds]
  /\ live \in [Runs -> BOOLEAN]
  /\ text \in [Runs -> 0..MaxVersion]
  /\ served \in [Runs -> (Servers \X Clients) \cup {NotServed}]
  /\ generating \subseteq Servers
  /\ consents \subseteq Clients
  /\ deploy \in Deployments
  /\ phase \in [Clients -> {"idle", "enqueue", "posting", "polling", "drafted",
                            "failed"}]
  /\ want \in [Clients -> 0..MaxVersion]
  /\ draft \in [Clients -> 0..MaxVersion]

Init ==
  /\ deploy \in Deployments
  /\ version = 1
  /\ state = [id \in JobIds |-> "absent"]
  /\ payload = [id \in JobIds |-> 0]
  /\ requester = [id \in JobIds |-> "none"]
  /\ attempts = [id \in JobIds |-> 0]
  /\ stalls = [id \in JobIds |-> 0]
  /\ starts = [id \in JobIds |-> 0]
  /\ result = [id \in JobIds |-> 0]
  /\ pc = [r \in Runs |-> "free"]
  /\ job = [r \in Runs |-> 1]
  /\ live = [r \in Runs |-> FALSE]
  /\ text = [r \in Runs |-> 0]
  /\ served = [r \in Runs |-> NotServed]
  /\ generating = {} /\ consents = {}
  /\ phase = [c \in Clients |-> "idle"]
  /\ want = [c \in Clients |-> 0]
  /\ draft = [c \in Clients |-> 0]

\* saveTranscript commits a new version.
EditTranscript ==
  /\ version \in 1..(MaxVersion - 1)
  /\ version' = version + 1
  /\ UNCHANGED <<queue, worker, browser, server>>

\* The meeting is archived: loadTranscriptDocument finds nothing from now on.
ArchiveMeeting ==
  /\ version # 0
  /\ version' = 0
  /\ UNCHANGED <<queue, worker, browser, server>>

-----------------------------------------------------------------------------
(* The browser and its web server. *)

Phase(c, next) == phase' = [phase EXCEPT ![c] = next]

Answer(c, next, v, d) ==
  /\ Phase(c, next)
  /\ want' = [want EXCEPT ![c] = v]
  /\ draft' = [draft EXCEPT ![c] = d]

\* The browser shows an error or a warning and forgets the request.
ShowFailure(c) == Answer(c, "failed", 0, 0)

\* createMinutesProvider, assertProviderExecutionAllowed: the demo provider is
\* refused in production.
Configured == deploy.provider = "mock" => deploy.usable

\* recordExternalAiConsent, with which every request to the external provider
\* begins; it may have been committed before what follows it fails.
RecordConsent(c) ==
  consents' = IF deploy.provider = "gemini" THEN consents \cup {c} ELSE consents

\* assertExternalAiConsent: a consent is never withdrawn.
HasConsent(c) == deploy.provider = "gemini" => c \in consents

Waiting == {"enqueue", "posting", "polling"}

\* POST minutes/generate in the redis mode: the server loads the confirmed
\* transcript and uses its version for the job.
Ask(c) ==
  /\ deploy.mode = "redis" /\ phase[c] \notin Waiting
  /\ RecordConsent(c)
  /\ \/ /\ version # 0 /\ Configured
        /\ Answer(c, "enqueue", version, 0)
     \/ /\ version = 0 \/ ~Configured
        /\ ShowFailure(c)
  /\ UNCHANGED <<version, queue, worker, deploy, generating>>

\* The request is refused before it does anything: the consent cannot be
\* recorded, or its web process is generating already.
AskRefused(c) ==
  /\ phase[c] \notin Waiting
  /\ \/ version = 0 /\ deploy.provider = "gemini" /\ UNCHANGED consents
     \/ deploy.mode = "inline" /\ generating # {} /\ RecordConsent(c)
  /\ ShowFailure(c)
  /\ UNCHANGED <<version, queue, worker, deploy, generating>>

\* generateMinutesForMeeting takes the lock of its process, and releases it at
\* once when the provider is not configured.
AskInline(c, s, r) ==
  /\ deploy.mode = "inline" /\ phase[c] \notin Waiting
  /\ s \notin generating /\ pc[r] = "free"
  /\ RecordConsent(c)
  /\ \/ /\ Configured
        /\ generating' = generating \cup {s}
        /\ pc' = [pc EXCEPT ![r] = "read"]
        /\ live' = [live EXCEPT ![r] = TRUE]
        /\ served' = [served EXCEPT ![r] = <<s, c>>]
        /\ Answer(c, "posting", version, 0)
     \/ ~Configured /\ ShowFailure(c) /\ UNCHANGED <<generating, pc, live, served>>
  /\ UNCHANGED <<version, queue, job, text, deploy>>

\* Faulty variant: the job is not named after the version.
JobOfMeeting(v) == 1

\* createIdempotencyKey, createBullMqJobId.
JobId(v) == v

AddJob(id, v, c) ==
  /\ state' = [state EXCEPT ![id] = "wait"]
  /\ payload' = [payload EXCEPT ![id] = v]
  /\ requester' = [requester EXCEPT ![id] = c]
  /\ attempts' = [attempts EXCEPT ![id] = 0]
  /\ stalls' = [stalls EXCEPT ![id] = 0]
  /\ starts' = [starts EXCEPT ![id] = 0]
  /\ result' = [result EXCEPT ![id] = 0]

\* Faulty variant: a known job is replaced.
EnqueueAgain(c) ==
  /\ phase[c] = "enqueue"
  /\ AddJob(JobId(want[c]), want[c], c)
  /\ Phase(c, "polling")
  /\ UNCHANGED <<version, worker, want, draft, server>>

\* queue.add: a job with a known id is left as it is.
Enqueue(c) ==
  /\ phase[c] = "enqueue"
  /\ \/ state[JobId(want[c])] = "absent" /\ AddJob(JobId(want[c]), want[c], c)
     \/ state[JobId(want[c])] # "absent" /\ UNCHANGED queue
  /\ Phase(c, "polling")
  /\ UNCHANGED <<version, worker, want, draft, server>>

\* The connection, the web server, the database or Redis fails before the
\* answer: nothing is added, or an inline execution goes on unheard.
PostFails(c) ==
  /\ phase[c] \in {"enqueue", "posting"}
  /\ ShowFailure(c)
  /\ live' = [r \in Runs |-> live[r] /\ served[r][2] # c]
  /\ UNCHANGED <<version, queue, pc, job, text, served, server>>

\* The first poll that fails ends the loop.
PollFails(c) ==
  /\ phase[c] = "polling"
  /\ ShowFailure(c)
  /\ UNCHANGED <<version, queue, worker, server>>

\* GET minutes/generate?jobId: the draft, or an error when the job failed, is
\* not there any more, or the transcript is gone.
Poll(c) ==
  LET id == JobId(want[c])
  IN  /\ phase[c] = "polling"
      /\ \/ /\ version # 0 /\ state[id] = "completed"
            /\ Answer(c, "drafted", want[c], result[id])
         \/ /\ version = 0 \/ state[id] \in {"failed", "absent"}
            /\ ShowFailure(c)
      /\ UNCHANGED <<version, queue, worker, server>>

\* The deadline of 180 s, whatever the worker is doing.
GiveUp(c) ==
  /\ phase[c] = "polling"
  /\ ShowFailure(c)
  /\ UNCHANGED <<version, queue, worker, server>>

-----------------------------------------------------------------------------
(* The executions: of the worker, and of the web processes inline. *)

Inline(r) == served[r] # NotServed
Running(id) == {r \in Runs : pc[r] # "free" /\ live[r] /\ job[r] = id}
Busy == {r \in Runs : pc[r] # "free" /\ live[r]}

StartJob(r, id) ==
  /\ pc[r] = "free"
  /\ Cardinality(Busy) < Concurrency
  /\ state[id] = "wait"
  /\ state' = [state EXCEPT ![id] = "active"]
  /\ starts' = [starts EXCEPT ![id] = @ + 1]
  /\ pc' = [pc EXCEPT ![r] = "check"]
  /\ job' = [job EXCEPT ![r] = id]
  /\ live' = [live EXCEPT ![r] = TRUE]
  /\ UNCHANGED <<version, payload, requester, attempts, stalls, result, text, served,
                 browser, server>>

\* Faulty variants: attempts are not counted, an exhausted job gets a state of
\* its own.
RetryForEver(id) ==
  /\ state' = [state EXCEPT ![id] = "delayed"]
  /\ UNCHANGED <<payload, requester, attempts, stalls, starts, result>>
FailDead(id) ==
  /\ attempts' = [attempts EXCEPT ![id] = @ + 1]
  /\ state' = [state EXCEPT ![id] = IF attempts[id] + 1 < Attempts THEN "delayed" ELSE "dead"]
  /\ UNCHANGED <<payload, requester, stalls, starts, result>>

\* The processor's promise is rejected: another attempt later, or the end,
\* whatever the error is.
FailAttempt(id) ==
  /\ attempts' = [attempts EXCEPT ![id] = @ + 1]
  /\ state' = [state EXCEPT ![id] = IF attempts[id] + 1 < Attempts THEN "delayed" ELSE "failed"]
  /\ UNCHANGED <<payload, requester, stalls, starts, result>>

\* However it ends, an inline execution releases the lock of its process.
EndRun(r) ==
  /\ pc' = [pc EXCEPT ![r] = "free"]
  /\ live' = [live EXCEPT ![r] = FALSE]
  /\ text' = [text EXCEPT ![r] = 0]
  /\ job' = [job EXCEPT ![r] = 1]
  /\ served' = [served EXCEPT ![r] = NotServed]
  /\ generating' = generating \ {served[r][1]}
  /\ UNCHANGED <<deploy, consents>>

\* The execution throws; nobody listens to one that has been given up.
Throw(r) ==
  /\ EndRun(r)
  /\ \/ live[r] /\ ~Inline(r) /\ FailAttempt(job[r]) /\ UNCHANGED browser
     \/ live[r] /\ Inline(r) /\ ShowFailure(served[r][2]) /\ UNCHANGED queue
     \/ ~live[r] /\ UNCHANGED <<queue, browser>>

Goto(r, next) ==
  /\ pc' = [pc EXCEPT ![r] = next]
  /\ UNCHANGED <<queue, job, live, served, browser, server>>

\* loadTranscript, the comparison of its version with the payload's, and the
\* consent of the user in the payload.
CheckVersion(r) ==
  LET id == job[r]
      fit == version = payload[id] /\ HasConsent(requester[id]) /\ Configured
  IN  /\ pc[r] = "check"
      /\ \/ fit /\ Goto(r, "read") /\ UNCHANGED text
         \/ ~fit /\ Throw(r)
      /\ UNCHANGED version

\* generateMinutesFromTranscript loads the segments again.
ReadTranscript(r) ==
  /\ pc[r] = "read"
  /\ \/ version # 0 /\ Goto(r, "send") /\ text' = [text EXCEPT ![r] = version]
     \/ version = 0 /\ Throw(r)
  /\ UNCHANGED version

Complete(r) ==
  /\ state' = [state EXCEPT ![job[r]] = "completed"]
  /\ result' = [result EXCEPT ![job[r]] = text[r]]
  /\ UNCHANGED <<payload, requester, attempts, stalls, starts>>

\* Faulty variant: the answer of an execution given up is taken.
DeliverLate(r) ==
  /\ EndRun(r)
  /\ \/ ~Inline(r) /\ Complete(r) /\ UNCHANGED browser
     \/ Inline(r) /\ UNCHANGED <<queue, browser>>

\* The draft completes the job, or is the answer to the inline request.
Deliver(r) ==
  /\ EndRun(r)
  /\ \/ live[r] /\ ~Inline(r) /\ Complete(r) /\ UNCHANGED browser
     \/ live[r] /\ Inline(r) /\ UNCHANGED queue
        /\ Answer(served[r][2], "drafted", want[served[r][2]], text[r])
     \/ ~live[r] /\ UNCHANGED <<queue, browser>>

-----------------------------------------------------------------------------
(* The provider call: packages/ai.                                         *)

\* The demo provider answers from the text alone.
MockMinutes(r) ==
  /\ deploy.provider = "mock" /\ pc[r] = "send"
  /\ Deliver(r)
  /\ UNCHANGED version

\* The local model is asked: its headers arrive with a status that is ok, or the
\* call throws, AI_TIMEOUT, AI_PROVIDER_UNAVAILABLE or AI_MODEL_NOT_FOUND.
AskOllama(r) ==
  /\ deploy.provider = "ollama" /\ pc[r] = "send"
  /\ \/ Goto(r, "body") /\ UNCHANGED text
     \/ Throw(r)
  /\ UNCHANGED version

\* The external model is asked, if there is an API key.
AskGemini(r) ==
  /\ deploy.provider = "gemini" /\ pc[r] = "send"
  /\ \/ deploy.usable /\ Goto(r, "body") /\ UNCHANGED text
     \/ Throw(r)
  /\ UNCHANGED version

\* The body of the answer is a draft, or the call throws: AI_RESPONSE_INVALID,
\* or the error of response.json(), for which no timeout is set any more.
OllamaAnswers(r) ==
  /\ deploy.provider = "ollama" /\ pc[r] = "body"
  /\ Deliver(r) \/ Throw(r)
  /\ UNCHANGED version

GeminiAnswers(r) ==
  /\ deploy.provider = "gemini" /\ pc[r] = "body"
  /\ Deliver(r) \/ Throw(r)
  /\ UNCHANGED version

-----------------------------------------------------------------------------
\* A query fails, or the payload is not one of this queue.
RunFails(r) ==
  /\ pc[r] \in {"check", "read"}
  /\ Throw(r)
  /\ UNCHANGED version

\* withJobTimeout: the attempt has failed, but nothing stops the execution.
Timeout(r) ==
  /\ pc[r] # "free" /\ live[r] /\ ~Inline(r)
  /\ live' = [live EXCEPT ![r] = FALSE]
  /\ FailAttempt(job[r])
  /\ UNCHANGED <<version, pc, job, text, served, browser, server>>

\* A process dies with its executions: the worker or a web process, whose
\* requests fail.
Die(dead) ==
  /\ dead # {}
  /\ pc' = [r \in Runs |-> IF r \in dead THEN "free" ELSE pc[r]]
  /\ live' = [r \in Runs |-> r \notin dead /\ live[r]]
  /\ text' = [r \in Runs |-> IF r \in dead THEN 0 ELSE text[r]]
  /\ job' = [r \in Runs |-> IF r \in dead THEN 1 ELSE job[r]]
  /\ served' = [r \in Runs |-> IF r \in dead THEN NotServed ELSE served[r]]
  /\ UNCHANGED <<version, queue, deploy, consents>>

WorkerCrash ==
  /\ Die({r \in Runs : pc[r] # "free" /\ ~Inline(r)})
  /\ UNCHANGED <<browser, generating>>

ServerCrash(s) ==
  /\ Die({r \in Runs : served[r][1] = s})
  /\ generating' = generating \ {s}
  /\ \/ \E r \in Runs : served[r][1] = s /\ live[r] /\ ShowFailure(served[r][2])
     \/ ~(\E r \in Runs : served[r][1] = s /\ live[r]) /\ UNCHANGED browser

\* Faulty variant: stalled jobs are not looked for.
StalledIgnored(id) == FALSE /\ UNCHANGED vars

\* An active job that nobody executes is put back, once.
Stalled(id) ==
  /\ state[id] = "active"
  /\ Running(id) = {}
  /\ \/ /\ stalls[id] < MaxStalled
        /\ stalls' = [stalls EXCEPT ![id] = @ + 1]
        /\ state' = [state EXCEPT ![id] = "wait"]
     \/ /\ stalls[id] = MaxStalled
        /\ UNCHANGED stalls
        /\ state' = [state EXCEPT ![id] = "failed"]
  /\ UNCHANGED <<version, payload, requester, attempts, starts, result, worker, browser,
                 server>>

\* The backoff of a failed attempt is over.
Promote(id) ==
  /\ state[id] = "delayed"
  /\ state' = [state EXCEPT ![id] = "wait"]
  /\ UNCHANGED <<version, payload, requester, attempts, stalls, starts, result, worker,
                 browser, server>>

\* removeOnComplete / removeOnFail: an hour, seven days.
Remove(id) ==
  /\ state[id] \in Settled
  /\ state' = [state EXCEPT ![id] = "absent"]
  /\ payload' = [payload EXCEPT ![id] = 0]
  /\ requester' = [requester EXCEPT ![id] = "none"]
  /\ attempts' = [attempts EXCEPT ![id] = 0]
  /\ stalls' = [stalls EXCEPT ![id] = 0]
  /\ starts' = [starts EXCEPT ![id] = 0]
  /\ result' = [result EXCEPT ![id] = 0]
  /\ UNCHANGED <<version, worker, browser, server>>

-----------------------------------------------------------------------------
Browser(c) ==
  \/ Ask(c) \/ AskRefused(c) \/ Enqueue(c) \/ PostFails(c)
  \/ Poll(c) \/ PollFails(c) \/ GiveUp(c)
  \/ \E s \in Servers, r \in Runs : AskInline(c, s, r)

Execute(r) ==
  \/ CheckVersion(r) \/ ReadTranscript(r) \/ RunFails(r)
  \/ MockMinutes(r) \/ AskOllama(r) \/ OllamaAnswers(r) \/ AskGemini(r) \/ GeminiAnswers(r)

Next ==
  \/ EditTranscript
  \/ ArchiveMeeting
  \/ \E c \in Clients : Browser(c)
  \/ \E r \in Runs : Execute(r) \/ Timeout(r) \/ \E id \in JobIds : StartJob(r, id)
  \/ WorkerCrash
  \/ \E s \in Servers : ServerCrash(s)
  \/ \E id \in JobIds : Stalled(id) \/ Promote(id) \/ Remove(id)

Spec == Init /\ [][Next]_vars

\* Executions go on and their provider calls end (fetch ends a request without
\* headers, and the HTTP client a silent body), the worker is restarted and
\* takes the jobs in turn, BullMQ promotes delayed jobs and looks for stalled
\* ones.  Nothing is assumed of the browsers.
Fairness ==
  /\ \A r \in Runs : WF_vars(Execute(r))
  /\ \A id \in JobIds :
       /\ SF_vars(\E r \in Runs : StartJob(r, id))
       /\ WF_vars(Stalled(id))
       /\ WF_vars(Promote(id))

FairSpec == Spec /\ Fairness

-----------------------------------------------------------------------------
(* Properties. *)

\* "Duplicate submissions for one transcript revision execute only once": a job
\* is executed by one run at a time, and only while BullMQ has it active; a web
\* process has the meeting in activeGenerations while it generates inline, in
\* one run, and not a moment longer.
OneRunPerJob ==
  /\ \A r, s \in Runs :
       pc[r] # "free" /\ live[r] /\ ~Inline(r) =>
         /\ state[job[r]] = "active"
         /\ pc[s] # "free" /\ live[s] /\ s # r => job[s] # job[r]
  /\ \A s \in Servers :
       Cardinality({r \in Runs : served[r][1] = s}) = (IF s \in generating THEN 1 ELSE 0)

\* Timeouts, provider errors, edits and crashes together start a job a bounded
\* number of times.
BoundedExecutions == \A id \in JobIds : starts[id] <= Attempts + MaxStalled

\* No draft is generated from a text older than the one the user asked for, and
\* none is shown, nor a text sent, without a consent to the external provider:
\* of the user it is shown to, of the user the job is run for.
NoStaleDraft ==
  /\ \A c \in Clients : phase[c] = "drafted" => draft[c] >= want[c] /\ HasConsent(c)
  /\ \A r \in Runs :
       live[r] /\ pc[r] \in {"send", "body"} =>
         HasConsent(IF Inline(r) THEN served[r][2] ELSE requester[job[r]])

\* A settled job stays as it is until it is removed: the late answer of an
\* execution that was given up changes nothing.
SettledIsFinal ==
  [][\A id \in JobIds :
       state[id] \in Settled =>
         \/ state'[id] = "absent"
         \/ state'[id] = state[id] /\ result'[id] = result[id]]_vars

\* Every job that is added is settled in the end, whatever crashes, and every
\* inline request is answered.
JobsSettle ==
  /\ \A id \in JobIds : state[id] = "wait" ~> state[id] \in Settled
  /\ \A c \in Clients : phase[c] = "posting" ~> phase[c] # "posting"

\* apps/worker/src/index.test.ts: "processes only the requested confirmed
\* transcript revision" - the draft of a job is generated from the transcript
\* version in its payload, which it is labelled with.
OnlyRequestedRevision ==
  \A id \in JobIds : state[id] = "completed" => result[id] = payload[id]
=============================================================================
