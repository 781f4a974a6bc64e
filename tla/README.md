# A TLA+ model of Intaris

Intaris (`src/intaris`, Python) stands between AI agents and their tools: agents
ask it whether a tool call may run, it evaluates the call, records the decision,
lets a human or a Judge model resolve what it escalates, records the session's
events, and analyses sessions in the background. This directory models the
concurrent core of the service, checks it with TLC and proves its main safety
properties with TLAPS.

## 1. Inventory

| Part | Source | State | Operations | What is hard | Correct when |
|---|---|---|---|---|---|
| Analysis task queue | `background.py` `TaskQueue` | `analysis_tasks` rows: status, retry count, heartbeat, claim token | enqueue, claim, heartbeat, complete, fail, reset stale, clean up | leases lost while a thread still works; several processes | one owner per row, results of the last claim, every row ends |
| Workers | `background.py` `BackgroundWorker` | the claimed row, its scope | execute, write, report; sweeps, scheduler, event flusher | state read before an LLM call and written after it | no write after a lost claim |
| Participation fences | `session_modes.py`, `session.py` | `analytics_*`, `guardrails_*` flags and revisions | toggle, snapshot, validate | opting out and in again during a task | nothing of an opted-out session is stored |
| Session store | `session.py` | lifecycle, policy, revisions, event sequences | create, patch, sweep, reserve sequences | unconditional updates racing guarded ones | a client's decision is not overwritten |
| Hybrid authorization | `evaluator.py`, `hybrid_runtime.py`, `policy_inheritance.py` | a captured session, a verdict | evaluate | policy, parent and lifecycle change under way | nothing is approved under a stale policy |
| Legacy evaluation, decision matrix | `evaluator.py`, `decision.py` | cached paths, write scopes, earlier rows | evaluate, clamp, cap, reuse | what was approved is reused by a later call | no floor, ceiling or human denial is passed |
| Audit, escalation | `audit.py` | `audit_log` | admit, resolve, mark execution | Judge, human and retry at once | human decisions final; floors hold; one admission |
| Judge | `judge.py` | — | review with a deadline | late answers | a human's decision wins |
| Event spool and archive | `events/spool.py`, `store.py`, `backend.py` | files, reservations, chunks, in-memory index | append, assign, export, delete, recover, flush | crash between any two effects, lost answers | acknowledged events are not lost, and get archived |
| Wakeup | `queue_wakeup.py` | generation, event, draining | claim, notify, listen | lost wakeups | due work is claimed |
| Intention barrier | `intention.py` | pending tasks, tokens, time stamps | trigger, invalidate, wait | stale results of threads that cannot be stopped | the newest intention wins |
| Alignment barrier | `alignment.py` | misaligned set, overrides, pending checks | check, wait, acknowledge, recheck | timeouts, restarts, verdicts on a past intention | a child is let through for the intention that was found compatible |
| MCP proxy and connections | `mcp/client.py`, `mcp/proxy.py` | connection cache, locks, lifecycle tasks | connect, evict, sweep, call | cancellation while a lock is handed over; a row written by a thread | the row is true; no connection is lost |
| Search outbox | `search/outbox.py`, `service.py`, `state.py` | `search_outbox`, `search_state` | enqueue, claim, done, fail, reindex | expired leases, a loop that stands still | every change is indexed |
| Event bus, rate limiter, tokens, idempotency | `api/stream.py`, `ratelimit.py`, `notifications/tokens.py`, `events/idempotency.py` | bounded queues, windows, claims | publish, record, verify, claim | limits and expiry | bounds are kept |
| Classifier, scopes, analyzer, LLM clients | `classifier.py`, `analyzer.py`, `llm/` | none | parsing, prompts | — | their definition |

The parts meet in the database: evaluations and the queue share the session's
rows and revisions, an event reservation also moves the session's revision, and
the background worker drives both the queue and the event flusher.
`PROJECT.json` lists all parts under `components`, with those that are not
modelled and why, and the hazards at their lines under `hazards`.

## 2. Modules

| Module | What it is |
|---|---|
| `TaskQueue` | the queue, its workers and the participation fences |
| `TaskLedger` | what the queue promises: rows leased, moved on by the last lease only |
| `Authorization` | hybrid evaluations, admission, resolution, child policies |
| `LegacyReview` | evaluations outside the hybrid policy, with Judge, human and caches |
| `EventSpool` | spool, reservations, archive, flusher, recovery |
| `AnalysisWakeup` | who wakes the queue's workers, and when they sleep |
| `IntentionBarrier`, `AlignmentBarrier` | the two barriers an evaluation waits at |
| `McpConnections` | proxied calls, connections, locks, lifecycle tasks |
| `SearchIndex` | outbox, indexers of several processes, reindex |
| `X_proofs` | the theorems about `X` |
| `MC*` and `.cfg` | the instances TLC checks |

Definitions named "Mutant" in a comment are plausible mistakes. Nothing of the
specifications uses them; a check that puts one in the place of the definition it
precedes must violate the property it is listed with in `PROJECT.json`.

**Granularity.** One action is one transaction, one durable effect, what a
coroutine does between two awaits, or one step of a thread. An executor thread is
never stopped by the cancellation of the task that awaits it: it goes on, and
what it writes is guarded in the database or not at all.

`TaskQueue`. `Claim`, `Complete`, `Fail`, `ResetStale`, `SetParticipation` and the
others carry the conditions of their `UPDATE ... WHERE`. Time is two facts, `due`
and `stale`. A claim token is the number of claims so far, so it never repeats, as
a fresh UUID never does. `WriteDerived` and `WriteIntention` are the guarded writes
(`analytics_write`, `update_generated_intention`). Left out: payloads other than
the participation revision, the LLM, metrics, follow-up rows. Cancelled rows are
never cleaned up by the code, and by the model neither. On PostgreSQL the claim
check of a derived write does not lock the task row; the session row locks order
the writes that matter, and the model keeps each transaction one action.

`Authorization`. An evaluation is a sequence of reads (`Read`, `Inherit`,
`Activate`, `Fetch`, `Resume`), a verdict (`Assess`) and the admitting transaction
(`Admit`, `AuditStore.insert`), with anything else in between. `Human` and `Judge`
are `resolve_escalation`. A policy is one of `judged` and `bound`
(`maximum_outcome = approve`); the raw outcome of rules and models is any outcome;
a floor is `none`, `human` or `deny`; ancestry is one level deep (assumed); every
refusal, timeout and crash is `GiveUp`; the ten-minute window of reusable
approvals is the choice not to find one. `Evidence` stands for all writers that
only move the state revision. Left out: workflow registry, the `read_only_static`
veto, mode identity, decision watermark, and that the Judge may also settle a row that
requires it without being escalated (`audit.py:983`).

`LegacyReview`. A call is a process: a thread evaluates it, then the request waits
for the Judge with a timeout, or (the MCP proxy) answers and leaves the review to a
task. The classifier's kind of an action is a constant; model and Judge may say
anything; `rev` stands for both revisions. Left out: the read-only overlay,
precedents, lifecycle stops.

`EventSpool`. What runs under a session's lock is its `op`; the process may die
between any two steps. The phases of an append (`old`, `prepare`, `assign`,
`check`, `reply`), of an export (`select` to `retire`) and of a deletion (`tomb` to
`clear`) follow `_append_spooled`, `export` and `delete`. `file`, `manifest`,
`chunk` and `tomb` survive a crash; `index`, `counter` and the error latches do not.
A group closes by count; by bytes, at any point. A failing recovery is a crash. The
model has the server's configuration: a `SessionStore`, spool syncing on, an
idempotency key for each batch. Left out: reads, checksums, compression, audit
projection, the stripe of 256 locks, sessions that are no longer in the database. A
shutdown is a crash at the point its flush reached.

`AnalysisWakeup`. The body of `claim()` is one turn of the event loop, but each of
its statements is an action between which other processes commit; no callback of
the loop runs meanwhile. `woken` and `unchecked` stand for the event and the
comparison of generations, `covers` for the rows a timer goes off for. `next_wakeup`
reads only the earliest deadline, which is a timer for all rows while it is to come.
Once it is past and another process claimed its row first, the wait is a flat second
(`queue_wakeup.py:159`) that covers nothing: `skips` holds the rows that were read as
due later.

`IntentionBarrier`. Updates are numbered by their triggers; the number is the
generation token and the time stamp, which never repeat. An intention is the
message it was generated from. Both generations of the store are modelled. Left
out: the wait for an arrival, and that a failed update moves the state revision
(`intention.py:763`), as `Write` may at any time.

`AlignmentBarrier`. An intention is its version, a verdict is any; the state is in the
row (hybrid) or in memory (legacy). A policy is `legacy`, `hybrid`, `autonomous` (the
profile `bounded_autonomy`: no wait, no check on the spot, and an undecided child is a
fact for the policy and its Judge) or `bound` (`maximum_outcome = approve`: alignment
is not consulted, whatever the profile). `Activate` replaces it at any time, as a PATCH
or `refresh_inherited_policy` does, and leaves both kinds of state alone. The evaluation
the barrier is a gate for (`Enter` to `Approve`) reads the row, may check on the spot,
and decides; a human approves what was escalated, or the Judge a legacy escalation.
Left out: `EVALUATION_POLICY_FORCE=legacy`, which shows every session as a legacy one;
a bound policy whose profile does not wait (it passes either way); the `cancel()` of
`wait()` for a child that opted out since `waits_for_alignment` read it, which does
early what the handler of the opt-out does (`Tell`). The handlers of two overlapping
PATCHes with the same value count as one.

`McpConnections`. An `asyncio.Lock` that was released belongs to nobody until the
first of its waiters runs, which is when cancellations hurt. `SearchIndex`. A
document is a number; the embedding of a batch that fails is its rows failing one
by one; deletes have no caller in the code and are left out, and so is the collection
that a start with another embedding dimension deletes and makes anew
(`vector.py:480`), before it reindexes.

## 3. Runs

Related instances share a run: a variable `which`, chosen by the initial predicate,
says which of them moves, the others stand still. Each instance is then explored by
itself; a run holds several because they ask the same question or are small.

| Run | Instances | Shows |
|---|---|---|
| `queue` | an analysis of two roots behind the summary of one that has a child, 2 workers, 3 claims; two bootstrap rows of one session, 4 claims | `SingleOwner`, `OptedOutHasNoLiveTask`, `FenceVouchesForSources`, `BootstrapOnce`, `WritesInClaimOrder`, `BootstrapYieldsToUser`; the queue implements `TaskLedger` |
| `auth_calls` | two evaluations under one logical id; three calls of a changing session; two evaluations of a child | `FloorsHeld`, `OneAdmission`, `ReceiptsStayInPolicy`, `VetoStands`, `HumanFinal`, `ChildGrantWithinParent` |
| `auth_killed` | one call, two evaluations, one client | violated: a terminated session is resumed |
| `intention` | 2 messages, 2 updates, one other write; and an analysis behind a summary with one crash or dead heartbeat, 5 claims | `CurrentIsAwaited`, `LatestReflected`, `NewestWins`, `UpdatesEnd`; `EventuallySettled` |
| `alignment` | 2 checks, 2 intentions of child and parent, one toggle, activation, restart, message or lifecycle change, four kinds of policy | `CurrentCheckAwaited`, `ReadyIsForThisIntention`, `PassedIsCompatible`, `ChecksEnd` |
| `services` | two legacy calls under three policies and modes of the Judge; two proxied calls, of one server or of two under a limit of one, with every fault | `UnattendedSettledByJudge`, `CappedDenialWaits`, `FloorHeld`, `DenialOutlivesScope`; `RowTellsTruth`, `NoStrays`, `FinalStateStays` |
| `legacy_unattended` | two calls | violated: a cached path spares an unattended call its review |
| `search` | the outbox of one process with a reindex, and of two; two proxied calls | `NothingDropped`, `EventuallyIndexed`; `CallsEnd` |
| `wakeup` | a worker, a summary and the analysis that waits for it, other processes | `NoSleepOverWork`, `WaitersGetWork`, `LeasesRecovered` |
| `spool_safe` | two batches of one session, any 3 of the faults it names | `AckedNeverLost`, `ArchiveMatchesReceipts`, `DeletedStaysDeleted` |
| `spool_live` | two sessions, a deletion and a failing archive call | `EventuallyArchived`, `WritesReopen` |
| `spool_stuck` | one session, a failing archive read | violated: writes stay closed |

**Bounds** are in the guards of what clients, workers and faults do, and are
constants named `Max...`. Three claims let a row be lost, taken over and taken over
again; two toggles give the ABA of a fence that compares flags only; retries reach
their limit (2 here, 3 in the code). Three calls let an escalation, its resolution
and its use be separate rows. Two updates or checks let one be superseded while its
thread goes on; two versions let a verdict be about the other one. Four
connections let a call reconnect after an eviction and another after a sweep; a
limit of one per user stands for ten. Two crashes and a lost answer reach each
window of an export and of its replay; two batches of sizes 1 and 2 make a group, a
leftover and a retry with another payload, and a client sends each again and again.
Two outbox rows let one be claimed again while its first claim still works. The
theorems of section 4 need none of these bounds to be small.

**Deadlock** is checked in the spool and wakeup runs. In the others clients are
bounded and a system without work is quiet.

**Fairness.** Weak fairness of what a thread, a task or a callback does when it
can go on: a worker's task returns (its LLM calls have timeouts) and its loop
reports the result, a claimable row is claimed, back-off and leases run out, the
sweep resets stale rows; a barrier's task and thread go on, and a waiter whose event
is set runs, while no wait is assumed to time out. Strong fairness where the code
gets its turn again and again rather than continuously: the flusher, which starts a
pass every second, at a lock that is free again and again; a worker loop whose turn
may be taken by others; a proxied call in the line of a lock. Nothing is assumed of
clients, users or faults.

## 4. Proofs

TLAPS checks the theorems for every value of the constants: any number of sessions,
rows, workers, calls, messages and faults. They rest on the named assumptions of the
modules and on nothing else: `ConstantsAssumption`, `AuthorizationAssumption`,
`InputAssumption` and `NothingAssumption` of `LegacyReview`, `SpoolAssumption` and
`NothingAssumption` of `EventSpool`, `WakeupAssumption`, `SearchBounds`,
`AlignmentAssumption`, `IntentionAssumption`, `McpAssumption`. They say that bounds are numbers, that
a session has one parent that has none, and that values standing for "nothing" are
not values of the type; TLC evaluates each on the instances of its run. Every
inductive invariant was an invariant of a TLC run before it was proved.

| Module | Inductive invariant | Theorems that state a checked property |
|---|---|---|
| `TaskQueue_proofs` | `TypeInv`, `SafeInv`, `FenceInv` | `OptOutRevokes`, `OneOwnerAlways`, `WritesOrdered`, `BootstrappedOnce`, `BootstrapYields`, `FenceVouches`, `QueueImplementsLedger` |
| `Authorization_proofs` | `Typed`, `Held`, `VetoInv`, `ChildrenBound` | `HumanDecisionFinal`, `FloorsAlwaysHeld`, `LogicalCallAdmittedOnce`, `ReceiptsInTheirPolicy`, `VetoAlwaysStands`, `ChildStaysWithinParent` |
| `Services_proofs` | `IInv` of `LegacyReview` | `UnattendedAlwaysSettled`, `CappedDenialAlwaysWaits`, `FloorAlwaysHeld`, `DenialAlwaysOutlivesScope` |
| `Services_proofs` | `RowInv`, `CalmInv` of `McpConnections` | `RowAlwaysTrue`, `FinalAlwaysStays`, `NothingStrays` |
| `EventSpool_proofs` | `IInv`, `OrderSound` | `AckedBatchesKept`, `DeletedNeverReturns`, `ArchiveInOrder` |
| `AnalysisWakeup_proofs` | `WakeInv` | `NoWakeupLost` |
| `IntentionBarrier_proofs` | `IInv` | `CurrentAlwaysAwaited`, `LatestAlwaysReflected`, `NewestAlwaysWins` |
| `AlignmentBarrier_proofs` | `BarrierInv` | `CheckAlwaysAwaited`, `ReadyForThisIntention`, `PassedAlwaysCompatible` |
| `SearchIndex_proofs` | `SearchInv` | `IndexedBeforeDeleted` |

Each module but `McpConnections` also proves `TypeOK`. Why the properties are not
inductive by themselves, and what the invariants add:

`TaskQueue`. Ownership compares a ticket with a token, which says something only when
tickets do not repeat: `TicketInv`. `RowInv` adds that what is stored in a row never
belongs to a claim later than its token. `FenceInv` ties what a snapshot read to the
participation revisions, so that a validation that passes vouches for all of them.
`QueueImplementsLedger` maps each step to a step of `TaskLedger` or a stutter.

`Authorization`. `Held` adds to what an evaluation holds at each place: an effect
differs from its verdict only by a resolution, a verdict is one the matrix allows, and
at one state revision there is one policy revision; admission compares state
revisions, and only that makes a receipt's policy the present one. `VetoInv` dates the
resolutions: the latest decision on an action is a maximum, and dates are apart.
`ChildrenBound`: a child is bound only with the identity of a bound parent, in the
row and in what an evaluation captured.

`LegacyReview`. `Staged` says what a process knows at each of its stages, `RowsSound`
what a row may say according to who decided it, `ScopeSound` that a scope that was
found is not denied unless the revision moved, which the insert compares.

`EventSpool`. `SessionSound` relates file, receipt, manifest, chunk and index of a
batch whoever holds the session's lock; `OpSound` says what the holder knows at each
step of an append, an export or a deletion. Every action, each of which is one
durable effect, keeps both: this is what a crash between any two effects finds.
That chunks do not overlap needs `OrderSound` besides: receipts of a session have
places apart, a frozen export and a chunk span exactly the places of their batches
(`Group` leaves no gap for another), no batch is in two chunks since a chunk is either
the frozen export's or nothing of it is left in the spool, and nothing of it comes
back: while the service is up, a receipt without a record is settled (`Settled`).

`AnalysisWakeup`. Open rows are announced, covered by a timer or skipped by a flat
second for each sleeping worker (`Resting`) and for the next to sleep without reading
(`Remembered`); what is not due is announced or skipped for the one that has read and
is about to claim (`Reading`), which has no timer of its own (`Inside`).

`IntentionBarrier`. `EntryNewest` and `EntryHeard` tie the entry to the last trigger
and its message, `AboutSource` a thread to the message it is for; `Owed` follows the
last update from trigger to store: where its task is (`Placed`), what it has read
(`Informed`), why it stored nothing (`Outdated`), and that no older thread replaces
what it stored (`Reflected`). A by-product: the branch of `trigger` for a source that
is already running is never taken in the model, since a request whose message was
heard last does not trigger.

`AlignmentBarrier`. What has been read is recognised by the state revision
(`JobsDated`, `RowsDated`); in the hybrid engine readiness is about the present
intention once a verdict was given (`Ready`); in memory, a missing entry means that the verdict is known
(`VerdictKnown`), and an evaluation that waited decides on an intention at least
as late as the one it waited for (`Arrived`, `RowsCompared`, `Informed`).

`SearchIndex`. What a drain took for stored is stored, whoever claimed the row since
(`GoodAreStored`).

`McpConnections`. `RowInv` says what a call may still do with its row, and which
threads are on their way to it. `CalmInv` holds a server's lock, mutex, lifecycle task
and connection together while nothing was cancelled and no lock dropped: whoever
connects holds the lock that counts (`LockSound`), whoever closes holds the mutex
(`MutexSound`), the two exclude one another (`PhasesApart`), so that a server has one
user (`OneUserPerServer`); its task has exactly that user's operation to run, has run
it or is being stopped by it, or rests (`ServerSound`); every other task has ended or
is still to come (`TasksSound`). A cancellation breaks this, which is why `NoStrays`
excuses it, and what it takes out of a lock's line is `SelectSeq`, a recursive
operator of the library whose result the prover cannot type.

**Only model-checked.** Liveness and refinement of fairness, with `ENABLED`, are out
of the prover's reach, and so is `TypeOK` of `McpConnections`. Every safety and action
property that a passing run checks has a theorem.

## 5. What the runs found

- `auth_killed` (code): the auto-resume of an idle session is an unconditional
  `UPDATE` after an earlier read (`evaluator.py:793`); a client's `terminated` between
  the two is overwritten, and the call goes on.
- `spool_stuck` (code): the archive read an append makes for its first sequence fails
  after the batch was staged. Writes close; the recovery pass raises on the batch
  without a sequence before it can reopen them; only an append or a restart would
  assign it, and appends are refused.
- `legacy_unattended` (documentation): a cached path that a user approved spares an
  unattended call the review that the documentation says every such call gets.

**Divergences** that were met while modelling and are not runs. Where a formula is
named, its module states it and it does not hold.

Barriers:
- A child that becomes hybrid stays as it was created: activating hybrid_v1 for a legacy
  child, by a PATCH or by `refresh_inherited_policy` after the parent's policy moved
  (`session.py:189`), leaves `alignment_state` at its default `ready`
  (`session.py:116`), and the misalignment that is in memory is no longer consulted
  (`evaluator.py:889`). `ReadyIsForThisIntention` and `PassedIsCompatible` excuse it
  (`waived`, `lapsed`) until a verdict in the new engine.
- An approval of an alignment escalation, by a human or by the Judge, is recorded for
  the session, not for the intention that was escalated (`judge.py:1275`,
  `alignment.py:468`). Approved after the child's intention changed, it lets the new one
  through unseen;
  `alignment.py:340` says overrides are cleared when the intention changes.
  `PassedIsCompatible` therefore excuses evaluations that have `lapsed`; without the
  excuse TLC refutes it with two evaluations of a legacy session, `MaxVersion = 2`,
  `MaxParent = 1`, `MaxChecks = 2`, `MaxMoves = 1`.
- `MisalignedWithPresentParent`: the recheck of a parent's children skips one whose
  check is under way (`alignment.py:602`), which may have read the parent's earlier
  intention.
- `LatestIntentSeen`: two requests resolve their messages in threads and may trigger
  in the other order (`api/analysis.py:244`).

Queue and spool:
- After a claim that found nothing a worker sleeps for a second although another row
  falls due within it (`queue_wakeup.py:161` replaces the past deadline and knows no
  other); the comment before it explains the second by spinning only.
  `NoSleepOverWork` excuses these rows; without the excuse TLC refutes it on the
  instance of `wakeup`.
- Two workers may execute one row after a lost lease; results are fenced, the
  docstring at `background.py:1066` is not exact.
- A batch without a sequence ends each pass of the flusher (`background.py:1809`,
  `spool.py:460`), so sessions visited after it exceed the flush interval.

Evaluation:
- Errors and timeouts are said to finalize as denials; a stale resolution does not
  (`judge.py:1585`, `audit.py:906`).
- `clear_approved_paths` (`evaluator.py:1949`) is meant for a change of intention and
  is not called on one.
- `find_approved_escalation` ignores a human denial made after the approval.
- `PATCH /session/{id}/status` accepts every status from every other;
  `docs/rest-api.md` lists fewer transitions.

MCP connections:
- `EvictsWhatFailed`: a failed call evicts by name (`client.py:347`) and closes the
  connection another call has opened meanwhile.
- Concurrent first calls pass a user's limit of connections. A cancelled connect loses
  its connection (`NoStrays` excuses cancellations). A sweep may drop a lock that is
  being handed over.

Search:
- `ReindexReturns`: a `threading.Lock` is held across an await (`service.py:761`), so a
  second reindex on the same loop stands still for ever. Two requests of one process,
  one document, `MaxAttempts = 2`, `MaxRows = 2`, no fault, `LiveSpec`.
- `ReindexEnds`: a process that dies leaves the shared state running
  (`service.py:763`). One request, one process that may drift, one fault.
- `OutboxDurable`: the last failed attempt deletes a row that was never indexed
  (`service.py:376`). One process, `MaxAttempts = 1`, one fault.
- Deletes have no caller; compaction shifts `OFFSET` paging; `save_resolved_config`
  precedes the backfill; two replicas can mark each other's job done; an enqueue is
  not part of the document's transaction.

## 6. Not modelled, and the plan

Much of the code builds prompts and parses commands, model answers and
configurations (`analyzer.py`, `classifier.py`, most of `judge.py` and
`judge_simulator.py`): sequential text processing whose definition is the code. The
models take its result to be any result.

What is left, in this order:

1. `SessionLifecycle`: the writers of `session.py` that overwrite one another
   (inherited policy, orphan denial, sweeps), from `Authorization`'s session part.
2. An abstract log that `EventSpool` implements: appended, acknowledged once, readable
   until deleted.
3. `finalize_result`, caps and clamps as operators against a reference definition;
   the rate limiter, the event bus, action tokens and idempotency claims.
