# TLA+ development for the SRE incident agent

This directory models the control logic of the incident-response backend
(`src/backend`, `src/agents`): how an incident runs from its alert to RESOLVED or
ERROR, how destructive actions wait for human approval, how calls to the LLM are
guarded, and how state reaches Redis and the clients. Modules are model-checked
with TLC and, where marked, proved with TLAPS for every value of their constants.

## 1. The system

One Python process. FastAPI's `async def` handlers and every `run_pipeline` task run
on one asyncio event loop; plain `def` handlers (approve, reject, reset, the list
and get endpoints) run in worker threads. Loop code is interrupted only at an `await`,
and `run_pipeline` has a single one (`agents/pipeline.py:239`, waiting for approvals).
Worker threads interleave with the loop, and with each other, at any access to shared
objects; the store has no lock.

| Component | State | Operations | What is hard, and what must hold |
|---|---|---|---|
| Approval gate: `await_hitl`, `resolve_hitl`, `reset_incident`, apply loop | `hitl_pending`, each request's status, decider and event, `hitl_history` | register, wait, time out, approve, reject, reset, apply | threads racing each other and the timeout; a reset that hides requests; a live, unvalidated timeout. Nothing destructive runs unapproved; a verdict nobody contradicts counts; the wait ends |
| Incident store, Redis snapshots | `INCIDENTS`, `RESTORED_INCIDENTS`, `incident:{id}`, `incidents:index` | create, six hooks, restore | crash between any two steps; commands failing silently; a dictionary cleared under an iteration. No copy shows a half-finished RESOLVED incident; results are durable |
| Pipeline orchestrator: `run_pipeline` | the task and its context | four stages, except handler | exceptions in hooks, and in the handler's own hooks; the run ends |
| Circuit breaker | state, failure and success counts, opening time | call, status | a lazy OPEN to HALF_OPEN transition inside a property; counters carried across states. It implements its docstring and recovers |
| Inference: `run_inference`, hallucination guard, `run_diagnosis` | breaker, live threshold | call, fall back, validate, gate | five ways into the simulation, with and without the guard; a patched threshold. What cannot be trusted asks for review |
| Trace stream (SSE) | per-incident queues | connect, replay, relay, disconnect | the trace grows while a client replays; a status that may go back. In order, once, complete, and ended |
| AIMS audit trail: `log_event`, `append_aims_event` | in-process list, Redis lists, AIMS API, local file | recheck, persist | the loop and tool calls write at once, command by command; failures, expiry, crashes. Whoever finds a forced event finds its anomaly, and the copies agree |
| Remediation: planner, execution, report | the proposal's actions and lists, requests' outcomes, timeline | choose template, re-verify, execute, ask, apply, report | model output is partly trusted; steps may share numbers; three accounts of the same actions. What runs is what was safe or approved, and the accounts agree |
| Triage agent, anomaly detection | `_SEEN_FINGERPRINTS` | cluster, dedup, severity, burst, graph, z-score | a window that slides with every sighting; a failure after the cache was updated; integer thresholds. No incident gets through twice, no first one is held back |
| Live configuration, API keys, secrets | overrides, history; key registry; provider chosen at start | start, get, set, reset, authorise | any value is accepted and read between steps of others; updates that stop midway; single reads of a store that fail. Only ADMIN keys of the start change anything, and the history is true |
| Incident history over processes | Redis keys and index, what a start restored | save, expire, restore, list | processes that run on fakeredis meanwhile; keys expire, the index does not; the list reads `INCIDENTS` twice. What was saved stays visible, and is listed once |
| Global feed and dashboard | global queue, the browser's list, requests under way | replay, relay, fetch, land | a gap at the join; answers that overtake each other; nothing polls. At rest the page is current |
| Retrieval, tools, metrics, PDF, automata, other panels | mostly none | | see section 7 |

`main.py` creates an incident and a task per alert batch; the task calls the agents
and reports through `StoreHooks`, which changes the live incident, broadcasts, feeds the
SSE queues and saves a snapshot. Agents call `run_inference`, which goes through one
breaker per agent and the guard. Handlers decide requests, reset incidents and patch
the live configuration while all that runs.

## 2. Modules

| Module | Models | Implements |
|---|---|---|
| `ApprovalGate` | what the approval gate promises: verdicts are issued, an action is executed only after an approval and withheld only after a rejection or timeout, each once | |
| `HITLGate` | `await_hitl`, `resolve_hitl`, `reset_incident`, the HITL section of `run_pipeline` and the live timeout | `ApprovalGate` |
| `BreakerContract` | the docstring of `circuit_breaker.py` as a specification: a streak of failures opens for a window, then one trial | |
| `CircuitBreaker` | the class, the clock, the API | `BreakerContract` |
| `Inference` | `run_inference`, `validate_agent_output`, `run_diagnosis`; EXTENDS `CircuitBreaker` | its `Spec` |
| `IncidentLifecycle` | `run_pipeline`'s hook calls, `StoreHooks`, `_persist`, `set_incident`, key expiry, restore, resets, crashes | |
| `TraceStream` | `stream_incident` with `subscribe`, `on_trace`, `unsubscribe` | |
| `AuditTrail` | `log_event`, `append_aims_event`, the remote send and its fallback | |
| `AnomalyDetector` | the statistics of `anomaly_detector.py` as functions over integers | |
| `AlertTriage` | `run_triage` and its dedup cache; EXTENDS `AnomalyDetector` | |
| `Remediation` | `run_remediation`, the two execution passes of `run_pipeline`, `run_postmortem`: one incident's actions from diagnosis to report | |
| `Configuration` | secret manager, key registry, `require_scope`, `HotReloadConfig`, the handlers of `/config/live`: a process from its start to its end | |
| `IncidentHistory` | Redis snapshots and index over several incidents and processes; `list_incident_summaries` and `get_incident_view` | |
| `IncidentFeed` | `GET /events`, `_broadcast_global`, and the dashboard's list with its fetches | |
| `Parts` | `AlertTriage` (EXTENDS) with `Remediation`, `Configuration` and `IncidentHistory` (INSTANCE) and a metric: the sum of five that share no state | `AlertTriage!Spec` |
| `LiveParts` | `Inference` (EXTENDS) with `HITLGate` (INSTANCE): the sum of two that share no state, under the fairness of both | |
| `..._proofs` | theorems and proofs about the module they are named after; `Parts_proofs` also about the parts, triage and the z-scores among them; `HITLGate_proofs` also relates the gate to `Remediation` | `Remediation!Resolve`, `!ApplyVerdicts` |
| `MC...` | the instances TLC checks | |

### How state and actions correspond to the code

*HITLGate.* `pending` is the key set of `hitl_pending`; `status`, `decidedBy` and `event`
are the fields of a request and its `asyncio.Event`. A caller steps through
`resolve_hitl` one shared access at a time: `Lookup` (352-358), `Check` (359-360), `Decide`
(361), `Signal` (362-364), `Reply` (the handler's second read of the status). A waiter is a
`_wait_one` task: `StartWait` reads the live timeout, `Wake` or `Expire` ends `wait_for`,
and `Expire`'s check of the status and the write that follows (`MarkTimedOut`, `Stamp`) are
separate steps, because a thread can run in between. The same holds for the apply
loop's two reads of the status (`ApplyApproved`, `ApplyOther`). `LoopIdle` keeps other loop code out while
one task is between two of its awaits. `Broadcast`/`Broadcasted` is `summary_dict`'s iteration
over the dictionary, which a concurrent `clear()` can break. A timeout is represented by
what `asyncio.wait_for` does with it: positive, elapsed (zero or less), null, invalid.
Between the event being set and the waiter running, the timer may still fire first, as it
can in Python 3.11's `wait_for`.

*CircuitBreaker.* `StateRead` is the `state` property, which itself moves OPEN to HALF_OPEN.
A call is one step: `CallBlocked`, `CallReturns` or `CallRaises`. `openFor` stands for
the clock and `_opened_at`. `MaxFailures` bounds the failure counter for TLC.

*Inference.* A diagnosis is one step, since all of it runs on the loop without an
await. `UseAnswer` is an answer that parses; `Substitute` the fallback inside the
try; `Rescue` the fallback of the outer except, past the guard. Confidences and thresholds are
grades; a threshold may be unusable (PATCH accepts any value), and comparing with it
raises. A hypothesis is what the guard and gate look at: confidence, where its
citations come from, hedging, its review flag. Which log lines match is a free choice.

*IncidentLifecycle.* `PipelineHooks` is the sequence of changes `run_pipeline` makes;
`at` and `phase` say which one it is in: `Apply` changes the live incident, `Publish`
evaluates `summary_dict`, `Save` evaluates `to_public_dict` and does SETEX, `Index` does SADD. Each can fail
as in the code: a swallowed Redis error goes on to the next hook, an exception goes to `ErrorHooks`,
and an exception there ends the task (`died`). `Crash` may happen at any point; it
wipes fakeredis and keeps an external Redis. `Decide` here stands for the last decision on the
incident's requests. `timeout` is what `wait_for` makes of the live value when the wait reads it: with a number `Expire` ends the wait, with null only
`Decide` does, with anything else `Abandon` raises. `Lapse` is the end of a snapshot's seven days (`redis_store.py:81`, `101`); every SETEX
starts them anew, so a key only expires when no hook has run for a week: the run is over, or waits.

*TraceStream.* Trace steps come in two bursts, because the pipeline gives up the loop only while
it waits. A client is a generator: `Connect` copies the trace, `Replay` yields from
the copy, `Subscribe`, then `Relay` or `KeepAlive` and `Check` for the end.

*AuditTrail.* A writer takes its events through `Remember` (the in-process list), `Push`,
`Trim` and `PushOwn` (one Redis command each; EXPIRE belongs to the last) and `Send` (the AIMS API,
else the file). `Log` creates the event and, when the recheck fires, its anomaly, which
goes first. What an event's text says is two facts that do not follow from each other: it claims that a destructive action was executed, and
a phrase of the recheck's list is in it (`Wordings`). The recheck sees only the second, and whether an event is blocked is the caller's choice. `RedisFails` is an error with or without the command's effect; fakeredis has none.
`external` means that Redis answers at every start. `Expire` needs idle writers, since a list
lives a week and a write takes seconds. `cut` and `unwritten` record what was
lost, so that the properties can say that nothing else was.

*AlertTriage.* `run_triage` has no await, so `Triage` is one step: it updates the cache (`Remember`), then
either completes (with a model's answer, whose claim about duplication the cache overrides, or with the
simulation) or, for a start time that `fromtimestamp` refuses, gives up. An alert is a kind (what clusters
are keyed on) and a start time in units of the burst window. `Restart` empties the cache;
`sighted` and `fresh` are histories of what was seen and reported.

*AnomalyDetector.* A z-score is compared by its square, so that everything stays in integers; a
burst counts the alerts within the window of some alert, on both sides, as the matrix of deltas does.

*Remediation.* `Plan` chooses the template with the most matching keywords or takes a model's draft, and
re-derives the flags (`Verified` leaves `executed` as it came). `InOrder` is a pass over some of the actions, in the list's order. `AutoExecute` and `ApplyVerdicts` are the two
execution passes; between them `RequestApprovals` and `Resolve` stand for the approval gate, which
`HITLGate` has in full. `PostMortem` reads runbook and timeline. A command is its verdict by
`is_destructive_command`, a cause the number of keywords of each template it has.

*Configuration.* `Start` settles the provider, resolves the four keys with any subset of reads failing, and builds
the registry. A PATCH (`Update`) goes key by key and stops at the first that is not allowed; `Reset` deletes an override. Each
is one step, since the handlers run on the loop without an await. `Rotate` changes a store behind the process's
back. `Delete` takes any key, as the handler does: for one that is no setting, the record's value is None. Each history entry also has the caller's key, which the code does not record; properties need it.

*IncidentHistory.* An incident is a counter of its changes. `Start` chooses the backend once per process and
restores; `Save` is SETEX then SADD, either of which may fail; `Expire` removes a key and leaves its id in the index. A
list request is three steps in a worker thread (`List`, `ListIds`, `ListOthers`), the loop's `Create` and `Change`
come between.

*IncidentFeed.* The server's generator (`Connect`, `ReplayNext`, `Subscribe`, `Relay`) copies the ids and then yields each
summary as it is at that moment. The page fetches the list for each event it is told; `Answer` is the server's
reading, `Land` the browser's, which replaces the list whatever it had; `Fail` is a request that fails, of which nothing follows.

*LiveParts.* Diagnoses through a breaker and the approval gate, the two places where something must happen in the end. They share no
variable; `part` says which of the two a behaviour is of, and each action's fairness is that of its part.

*Parts.* Triage, a metric that is being read, one incident's remediation, a process's configuration and the history share no
variable: a behaviour of the sum is a behaviour of one of them, chosen by `part` at the start, while the others stay in
their initial states. Its properties are the parts' own.

## 3. Runs

| Run | Bounds | Shows |
|---|---|---|
| `hitl_safety` | 2 requests, 2 callers, all four kinds of timeout, symmetry | the safety of the gate, in about a million states |
| `hitl_decided_twice` | 1 request, 2 callers | violated: a request can be decided twice |
| `progress` | threshold 3, window 3 ticks, up to 7 failures, all confidence thresholds; 2 requests, 1 caller, every timeout but null | docstring contract of the breaker, recovery, review, vetting, breaker discipline; the gate opens |
| `lifecycle` | one incident, Redis faults at every command, every kind of timeout, key expiry | what copies show, durability, the run's end |
| `stream` | 2 clients, 5 steps, resets | order, no loss after subscription, the end is told |
| `stream_gap` | 1 client | violated: steps can be lost at the join |
| `audit` | the loop and one tool call, 3 events worded as the recheck expects, a global list of 1 | what each copy of the trail holds, after anything |
| `audit_unheard` | 1 event worded as `str()` does | violated: a claimed execution is stored unblocked |
| `feed` | 2 incidents, 2 changes each, 2 requests at once, 1 failure | what the stream says, and when the page is current |
| `parts` | see below | triage, z-scores, remediation, configuration, history, in about a million states |
| `parts_claim` | the same | violated: a destructive action can show as executed unapproved |
| `parts_burst` | the same | violated: what is reported as a burst is not what the docstring calls one |

The properties, by run:

- `hitl_safety`: `GateContract` (refinement of `ApprovalGate`), `GatheredMeansDecided` (the apply
  loop never sees PENDING, for which it has no branch), `LoneVerdictHonoured` (a verdict
  nobody contradicts decides fate and timeline), `SoleDeciderCredited` (`decided_by`),
  `HistoryExact` (every request enters the history once, decided). Two callers and the timeout
  are all the parties that can race on a request; two requests are needed for
  `gather`, for the order of the history and for one waiter failing while another goes on.
- `progress`: `BreakerImplementsDoc`, `BreakerDriven`, `Recovers`, `UntrustedReviewed`, `ModelOutputVetted`, `GateOpens`, and the
  breaker's `TypeOK`. Seven failures re-open the window four times; larger counts only repeat that. `UntrustedReviewed` and `ModelOutputVetted`
  say nothing against a passing report put in the place of a missing one (`diagnostician_agent.py:245`) or of invented citations with an empty
  corpus: the code does both on purpose.
- `lifecycle`: `ResolvedIsComplete`, `ResultsDurable`, `CompletedSurvives`,
  `SnapshotsGrow`, `RunEnds`. What is saved is there until its key expires. `RunEnds` names the one wait that need not end, null's. What incidents share is in `IncidentHistory`; the state space is finite
  without further bounds.
- `stream`: `OrderedOnce`, `NothingLostSinceJoin`, `StreamEnds`. Clients do not wait for each other;
  two show that one's progress does not disturb the other's queue.
- `audit`: `AnomalyFirst`, `ListsAgree`, `NothingLost`. Three
  events are a forced event, its anomaly and a third that pushes both out of a global list of
  one; a longer list only delays that. A repeated LPUSH (`retry_on_timeout`) is included. All three
  are also proved for any bounds and wordings. `NothingLost` is weaker than the docstring's "no audit data is ever lost" (`aims_logger.py:21`): it exempts what the code gives up in
  silence, a file that cannot be written (`unwritten`) and what a failing command or a week takes from Redis (`cut`).
- `feed`: `NeverBackwards` (the stream never says something older than it said), `LostOnlyInGap`,
  `CurrentAtRest` (at rest the page shows the last broadcast change, unless a named exception applies), `QueuedIsShown`
  (liveness). Two requests are the least that overlap; two incidents show that one's gap is not the other's.
- `parts`: `DedupExact`, `BurstBracketed` (batches of up to three alerts, started together, within one window, within
  two and further apart; dedup window 2, clock to 3); `FewReadingsNeverAnomalous` (up to eight readings of values
  0 to 2, the least with which an anomaly exists; another metric's reading may come between; `MaxReadings` and `Readings`
  are bounds of the run, which the proof leaves open); `FateMatchesVerdict` and
  `AccountsAgree` (drafts of up to two actions that may share a step number; causes with up to two matches in up to two
  templates, so that ties and shadowing occur); `ChangesAuthorised`, `HistoryTrue`, `RefusedInPart` (two keys,
  four fields, stores that lack, empty and share entries; updates refused at their first and second key; three
  changes, the least for set, set, reset of one key); `SavedStaysVisible`, `ListedOnce` (two
  incidents, three versions, any number of processes); `PartsTypeOK`.

Type invariants are checked for the gate, the breaker and the parts, and proved for these, the incident's life, the audit trail and the trace
streams; in the other modules `TypeOK` documents the state.

### What the violated properties say

1. A request can be decided by two callers, or by a caller and the timeout
   (`store.py:321`, `359-361`): every check-then-write of the status is unlocked. Which write
   is last decides; the contract of `ApprovalGate` still holds, since either verdict
   was really given.
2. An SSE client that joins while a burst of steps comes misses it (`main.py:952-955`).
3. The re-verification of a runbook keeps the model's `executed`
   (`remediation_agent.py:239`): a destructive action can be stored and reported as executed before
   anyone approves it, or after a rejection, against the module's docstring. Nothing is really run; what is wrong is what is
   said.
4. The recheck of the audit trail (`aims_logger.py:51-53`) knows three phrases, the third in JSON's spelling, but callers make their summaries with `str()`:
   `executed=True` (`lyzr_inference.py:166`) is not heard, and an event that claims a destructive execution is stored unblocked, against the module's
   docstring (11-15). The claim itself is the model's, as in 3.
5. A burst is "more than burst_threshold alerts within window_minutes of each other" by its docstring (`anomaly_detector.py:72-73`). The code asks for the
   threshold itself (`>=`, line 88), and each alert counted need be within the window of one in the middle only. `BurstBracketed` says what the code does.

### Facts the models contain and no run is dedicated to

- Gate and pipeline: the apply loop reads the status twice (`pipeline.py:243`, `248`), and a verdict overwritten in
  between is recorded as a timeout. A live timeout of null waits for ever (`GateOpens` is checked without it for that reason;
  `hitl_safety` and `lifecycle` have it); an unusable one ends the pipeline in ERROR while its requests can still be approved,
  to no effect. A reset while requests wait makes them undecidable until they time out, and one
  under an iteration makes `_persist` raise although its docstring says it never does. A triage result without services
  makes `summary_dict` raise, in the stage and again in the handler called the top-level safety net (`store.py:95`, `pipeline.py:286`).
- Inference: with an empty corpus (every webhook incident) invented citations pass (`hallucination_guard.py:86`). A model call
  that raises is replaced without the guard (`lyzr_inference.py:133-139`), and `run_diagnosis` then
  reports that validation passed. An unusable confidence threshold makes `run_inference` return None,
  which `run_diagnosis` turns into a hypothesis that asks for review.
- Remediation: `requires_human_review` does not hold back safe actions. The report says "executed automatically" of
  approved actions too. The except branch of `run_remediation` cannot be reached.
- Triage: the model's severity is used as it comes, although the prompt sets rules for it and the simulation keeps
  them; an analysis is never HIGH
  without anomaly scores, which no caller passes; a z-score needs eight readings to pass 2.5 although three are accepted.
- Configuration: the history ends at 100 entries; a store that lacks a key is passed over for the environment, never for the next
  store (`secrets.py:27-28`), and the GCP provider is chosen but never read; "configured Vault always wins"
  (`settings.py:146`) holds for reads that succeed.
- History and feed: a reset, a decision, a report and an executed flag reach Redis only with a later snapshot; restored incidents are
  listed but the endpoints below them answer 404; a reset broadcasts nothing; after a restart with nothing live the dashboard
  keeps the old process's list.

## 4. Fairness

- `LiveParts`, for the gate: weak fairness of the pipeline's steps, of each waiter's and of a caller that found its
  request: the event loop runs every ready task and fires every due timer, and a worker
  thread that has begun finishes. None for callers beginning, resets or patches.
- `LiveParts`, for the breaker: weak fairness of the clock and of diagnoses, that is, incidents keep arriving, whatever the
  breaker does with their calls. `Recovers` says nothing of a system nobody uses.
- `IncidentLifecycle`: weak fairness of the loop. None of decisions, resets, crashes.
- `TraceStream`: weak fairness of each connected client's generator.
- `IncidentFeed`: weak fairness of the generator, and of each request's answer and arrival: the loop runs what is ready,
  and HTTP requests end. None of failures, disconnections, reconnections and restarts: `QueuedIsShown` says what follows
  while none happens.
- The other specifications state no fairness and no liveness.

## 5. Proofs

The theorems hold for every value of the constants that the named ASSUMEs admit. Where a property is not inductive, the
module of its proof states the invariant that is.

**`HITLGate_proofs`**, for any requests, callers and timeouts: `TypeCorrect`, `GatheredDecided`, `LoneVerdict`,
`DeciderCredited`, `HistoryComplete`, `GateImplementsContract`. They rest on `IInv` (`Invariance`): that the apply loop
sees no PENDING needs to know that a set event means a decided request, that a waiter that finished saw one, and
that no step writes PENDING back; that a lone verdict stands needs to know that a status other than PENDING is one of
the verdicts issued. `Records`, on top of it, says that the history holds exactly the requests whose waiters are past
their wait, and that `decided_by`, whatever is written in between, is somebody who decided. The refinement is proved step by step: each
action maps to `Issue`, `Settle`, `Execute`, `Withhold` or a stutter. `GateResolves` closes the other gap: `Remediation`, where the gate is
one free choice per request, is what the gate comes to. For any runbook whose destructive actions are the requests, each
step of the gate is `Remediation!Resolve` of one request, at the branch the apply loop takes, which nothing overwrites; or
`ApplyVerdicts`, when the loop ends; or nothing.

**`CircuitBreaker_proofs`**: `TypeCorrect` for all parameters, and, for a success threshold of one (the only value the
program uses), `CountsFit` and `ImplementsDoc` for every failure threshold and window. With a larger success threshold the
docstring's "success closes the circuit" would not hold.

**`Inference_proofs`**, for any breaker parameters and patched thresholds: `Reviewed`, `Vetted` from the invariant `Sound`, which says of
a diagnosis as a whole that its report is about the hypothesis it comes with; and `DrivesBreaker`, a refinement: every
diagnosis is a step of `CircuitBreaker` or leaves it alone.

**`TraceStream_proofs`**, for any clients: `Ordered`, `NothingLost`, `TypeCorrect`. The invariant says that a subscriber's
queue is the end of the trace without a gap, so that what it has yielded is everything from its subscription up to
there; a client that is still replaying has yielded 1, 2, 3 and so on.

**`IncidentFeed_proofs`**, for any incidents, changes, requests at once and failures: `Forward`, `GapOnly`, `Current`.
`ReplaySound` says that what a replay has not told yet is still to be replayed or in the gap. `FetchesSound` is what makes the page
current: a request that runs alone is the only one, and its answer is at least as new as all the stream told, since an event
meanwhile would have sent another request. `CurrentAtRest` alone says nothing about requests under way, and is not inductive.

**`AuditTrail_proofs`**, for any writers, incidents, wordings and events and any length of the global list: `TypeCorrect`, `AnomaliesFirst`, `Agree`, `KeepsReturned`. `Base` types the state and says that a queue is one event, or an anomaly and the
event it accuses; and that everything stored or queued was created.
`Progress` says what is stored already of the event a writer is at, and `Accused` that a writer comes to an accused event only
when its anomaly is in every copy it is ever going to be in. The argument is by lemmas on each action: commands store nothing
but the event at hand, new events accuse no earlier one, and crashes and expiries record what they take.

**`IncidentLifecycle_proofs`**, with Redis external or not: `TypeCorrect`, `ResolvedComplete`, `Durability`, `CompletedKept`,
`GrowingSnapshots`. None of these is inductive: that a RESOLVED incident is complete holds because the status comes
after everything else. `Rules` says so: until something raises, the results and the trace of the live incident are a function of the number of
hook calls applied, and it is RESOLVED only after all of them (`Ordered`); the handler adds one trace step (`Failed`);
every copy may be shown, and the snapshot is never ahead of the incident (`Copies`); what is in Redis lags by at
most the hook call under way, if its last write went through (`Durable`), and after the last call it is all (`Kept`). The table `Do`, `What` of the twenty hook calls, proved to be
`PipelineHooks`, stands for the sequence in the proofs, and each action has a lemma of its own. A first attempt at the
lemma for `Publish` failed for a reason: the action had a CASE whose guards overlapped at the await, whose meaning
TLA+ leaves open. It is a disjunction now.

**`Parts_proofs`** proves of the composition `PartsSpec`, for any constants that satisfy `PartsAssumption`, what the run `parts` checks:
`Deduplicates`, `BurstsBracketed`, `FewNeverAnomalous`, `PartsTyped`, `FatesMatch`, `AccountsMatch`, `ChangesByAdmins`, `HistoryIsTrue`,
`RefusalsHalfDone`, `SavedVisible`, `ListedOnceEach`, further `BestIsChosen`. The theorems on triage are stated of its own
specification, and `TriageIsPart` (`PartsSpec => Spec`) carries them over. `PartsInvariance` is the conjunction of one
invariant per part; a step of the composition is, for each part, a step of its own or none.

- Triage, for any kinds, batches, keywords, windows and clocks: `TypeCorrect`, `Deduplicates` (which needs that
  the cache's entry is the last sighting of this process), `SeveritiesGrounded`, `GraphsSound` (correlation is an equivalence, and the
  root has the worst hint), `BurstsBracketed` (a full row of the matrix is a group within twice the window, a group within the window is part of
  the row of each of its alerts; every finite set has subsets of each smaller size) and `NeverHigh`. They rest on lemmas about the
  least and greatest elements of sets of numbers, proved there.
- Z-scores, for any integer readings: `EightReadingsNeeded`. With n readings, the last off the mean by d, the others are off by
  -d in sum, so the sum of squares is at least d*d*n/(n-1) (the inequality of Cauchy, one reading at a time), and z*z is at most n-1;
  25/4 is more than that up to n = 7. `SumOf` and `Series` are recursive functions, of which the prover knows only
  that they are a CHOOSE: that they exist, and what they come to at each step, is proved from the least number at which it would fail, in
  the place of an induction.
- Remediation: `RunbookInv` says of each action, by stage, when it may and when it must be executed. `AccountsInv` says what
  the timeline, the lists, the verdicts and the report are at each stage, the timeline as the concatenation of the
  passes so far. That each action is told of once follows from `InOrder` being an enumeration without repetition, whose
  existence is proved for every finite set of positions.
- Configuration: the keys in force are those the provider held at the start (`KeysResolved`), and every entry of the history was made with one
  of them that has ADMIN (`MadeByAdmin`). `HistoryTrue` and `RefusedInPart` are inductive together with the types; an update of any length
  is handled at once, by what each position of the new history is.
- History: what is kept has a snapshot and is in the index, and whenever the process can read it, it is shown (`KeptShown`); ids are not
  reused, and nothing is both live and restored (`NumbersOnce`); an entry of a list under way is the incident as it is live, or, for one
  that is not, as it was restored (`ListSound`).

Assumptions are the named ASSUMEs of the modules: at least one request, the names "system" and "nobody" are no callers,
thresholds are positive, the global list has a length, keyword and hint tables have the kinds as domain, batches are not empty,
drafts are sequences of what a model may send, secret stores give tokens or lack an entry, the keys that may be patched are settings, and
an update names a key once, as a JSON object does. `RemediationAssumption` and `ConfigurationAssumption` are definitions of
their modules, which are only instantiated; `PartsAssumption` assumes both, and TLC evaluates it in the run `parts`.

Every safety property the runs check is proved. The run `progress` checks those of the breaker and of diagnoses on `LiveSpec`, each of
whose steps is one of `Inference` or of `HITLGate` and leaves the other alone; the theorems are about these two modules. Only model-checked:

- liveness (`GateOpens`, `Recovers`, `RunEnds`, `StreamEnds`, `QueuedIsShown`), and anything about ENABLED, which is beyond the prover;
- what the violated properties say: TLC shows the behaviours.

## 6. Plan

1. The automata pipeline's stored result next to the incident's own, and the tools' second keyword list.
2. The dashboard's other panels, which fetch on trace events.

## 7. Not modelled

Retrieval (numeric ranking, a free choice in `Inference`), the phrase matching inside the guard, the text of prompts and reports, PDF layout,
metrics nobody reads back, token accounting (`/stats` counts totals twice), demo scenarios, the
third-party automata call beyond its stored result, `tools.py` (stateless wrappers with a keyword list of their own), the dashboard's other panels, the scopes each route declares,
range checks and computed properties of the settings, deployment files. `delete_incident`, `flush_all`, `reset_all` and
`generate_api_key`, which nothing calls. `asyncio.Event.set` from a
worker thread is taken to wake its waiter, as it does in practice when the thread's
handler returns.
