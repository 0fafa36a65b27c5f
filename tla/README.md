# Verification of the Job Hunters API

TLA+ models of the parts of this repository where a mistake is hard to test and hard to
undo: the application queue, which sends a person's job application to a provider, and
what stands around it: the leases and browser slots that keep runners apart, the hunts
that find jobs, the playground, outreach on LinkedIn, the questions of an attempt, the
daily allowance, a user's browser on its host, the reasoning loop that fills a form, and
the gate of a job board. The modules are translated from the
TypeScript under `src/`; TLC checks them on small instances and TLAPS proves what
matters most for every instance. `PROJECT.json` lists the runs, the theorems, the
hazards, and for every definition the lines of code it stands for.

## 1. The system

A *hunt* (`hunt_runs`) discovers jobs, ranks them into *candidates*
(`hunt_candidates`), and waits for its owner. What the owner approves becomes an
*application* with a durable *dispatch*; a BullMQ job executes the dispatch on a
runner, which drives a browser through the provider's form and keeps an *attempt*
with everything that happened. Postgres is the truth, Redis (BullMQ, leases) executes
and excludes, and a sweep on every runner puts right what stopped half way.

| Component | State | Operations | What is hard |
|---|---|---|---|
| Application API (`hunt/approval.ts`, `modules/applications/actions.ts`, `admin-flags.ts`, `/hunt/stop`) | applications, candidates, dispatches, flags, the run | approve a batch, call the hunt back, cancel, retry, flag, resolve a flag | a cancel races the start of its job; a retry checks and commits in two steps; an approval lock that is a lease |
| Dispatch and job processor (`hunt/application-queue.ts`) | dispatches, BullMQ jobs and locks, lanes | publish the outbox, pick up, take lanes, claim, run, end, finish the run | publishers act on old rows, jobs are redelivered, fail at the first stall, or vanish with Redis; workers outlive their lock |
| Browser operation (`hunt/apply.ts`, `apply/fill.ts`, `submission-guard.ts`, `tailoring.ts`) | attempts with the submit fence, candidate, application, the guard's scope | prepare, open, fill, submit by agent, form or accident, record | a click cannot be rolled back; its effect may be seen late, never, or after a crash |
| Failure handler and sweep (`application-queue.ts`) | the same rows | close in-flight attempts, park candidates and applications, settle the run | they work from old readings, one update at a time, beside everybody else |
| Retry policy (`hunt/application-policy.ts`) | none | `safeRetryReason`, `dailyBudget`, `effectiveConcurrency` | which evidence permits another attempt; limits |
| Batch plan and allowance (`enqueueApprovedCandidates`, `planApplicationOrder`, `approval-lock.ts`) | applications queued today, the approval lease | count, cap per portal, take in turns, reserve, give back | one allowance over several hunts, approvals and retries; a lease lost before the commit; midnight |
| Discovery runs (`queues/discover.ts`, `queues/schedule.ts`, `hunt/discovery/service.ts`, `worker.ts`) | hunt_runs, the job and the stop key of each | open, pick up, look for a stop, discover, store, offer, fail, requeue | every update is by id; a stop against the worker's later writes; stalls, and a sweep that requeues |
| Resource locks (`lib/locks.ts`) | token keys with expiry | wait, acquire, renew, release | a holder whose renewals fail; release by token |
| Browser slots (`browser/limit.ts`, `session.ts`, `profiles.ts`) | a counting semaphore with a line | take, wait, time out, open, close, hand over to a person | a hand-over that meets a timeout; a session nobody closes |
| Browser sessions and the VM agent (`browser/session.ts`, `vm-client.ts`, `lifecycle.ts`, `vm-agent/server.ts`) | one Chrome per tenant, its mode, the lifecycle lock, the profile lane | start, refuse, stop, connect, disconnect, remove | stops name the tenant, not the session; calls are given up while the host works on them |
| Playground (`playground/*`, `modules/playground/routes.ts`) | one run's row, its list of replies, its browsers | create, execute, ask, approve, submit, clean up | one list for approvals and answers; second executions; a clean-up beside live runners |
| Outreach (`outreach/*`, `skills/linkedin/*`, `modules/outreach/routes.ts`) | prospects, messages, account health, LinkedIn itself | find, draft, approve, edit, take, send, mark, trip the breaker | a click cannot be recorded with its effect; edits during a send; a breaker under another lock |
| Live questions (`hunt/apply/live-questions.ts`, `modules/applications/questions.ts`, `question-resolution.ts`) | the questions of an attempt, a lease for guesses | ask, answer, guess, fill, hide, record, expire, resume | guesses return late; the last answers race; the runner writes by id |
| Reasoning loop (`agent/loop.ts`) | one run's counts of errors, its report | observe, think, act, done | calls that outlive their deadline; a `done` behind a failure |
| Detail stage of a discovery (`hunt/discovery/fetcher.ts`, `runner.ts`) | a gate per host, robots.txt, read pages, the loops of a stage | take a job, enter, pause, fetch, retry, leave | a retry that overtakes the waiter it woke; pauses that end together |
| Form drivers, connectors and ranking, inbox and referrals, live view, accounts, billing, resumes, extension | single rows, files, pages, prompts | handlers and pipelines | data, not interleavings |

What makes each of them correct, in short: the queue applies at most once per
permission of the owner, never acts for a cancelled or superseded dispatch, never takes
back a recorded success, and never leaves work neither done nor parked; a lease excludes
until renewals fail twice in a row, and a dead holder frees what it held; a slot is
neither lost nor used twice, and nobody passes the line; an allowance is not exceeded by
concurrent reservations; a hunt is offered only with its candidates, does not come back
from a stop, and does not stay unfinished; one approval sends one application; what
leaves in a person's name is what the person agreed to, within the caps; a guess does not
replace an answer, and complete answers resume the application; nobody takes a browser
from the one who uses it; a run that permits a submission has made good its last error;
a host is not asked for more than its policy and one, and every listed job is settled.

## 2. The modules

```
ApplicationPolicy          which applications may be attempted again
  ApplicationState         the tables, the job queue, the actors' progress; TypeOK, Init
    ApplicationApi         users: Approve, Stop, Cancel, RetryCheck/RetryCommit, Flag, ResolveFlag
    ApplicationDispatch    publishers, the BullMQ processor, locks, stalls, crashes
      ApplyWorker          the browser operation, update by update
    ApplicationRecovery    the 'failed' handler and the recovery sweep
      ApplicationQueue     all of them composed; fairness and properties; refines ApplicationPromise
        MCApplicationQueue         TLC
        ApplicationQueueProofs     frames, type correctness, dispatches and claims
          ApplicationSafetyProofs  one browser, attempts, fences, submissions, the promise
ApplicationPromise         abstract: what is promised of one application

LeasedExclusion            abstract: one owner, replaced only when it is late
ResourceLock               withUserResourceLock: tokens, beats, expiry
BrowserPool                the semaphore, launches, closes, interactive sign-ins
  BrowserUse               both composed: slots taken inside locks; refines LeasedExclusion
    MCBrowserUse           TLC
    BrowserUseProofs       types, exclusion, its refinement, the semaphore, its line

DiscoveryRuns              hunts, their jobs, the worker, the sweep
  MCDiscoveryRuns          TLC
  DiscoveryRunsProofs      types, candidates before the offer, stops that settle
Playground                 one playground run
  MCRuns                   TLC: DiscoveryRuns and Playground, one at a time

Outreach                   invitations and messages of one LinkedIn account
LiveQuestions              the questions of one attempt
Turns                      planApplicationOrder and balancedSelection, as functions
  JobChoices               both, asked for every input
    TurnsProofs            fair plans and selections
  Allowance                the daily allowance over batches, retries and cancels
    LimitsProofs           the allowance; the cap of Outreach, its words and its breaker
TenantBrowser              one user's browser on its host
  TenantBrowserProofs      whose browser it is, the removed profile
AgentLoop                  one run of the reasoning loop
PoliteFetch                the detail stage at one host: loops, gate, retries
  ServicesProofs           of AgentLoop, PoliteFetch, LiveQuestions and Playground
  MCServices               TLC: these seven, one at a time
  MCPools                  TLC: BrowserUse and PoliteFetch, one at a time
```

`MCRuns`, `MCServices` and `MCPools` bring together modules that share no state: a constant
variable (`kind`, `part`, `pool`) says whose behaviour it is, and the others stay in their
initial states. In `MCRuns` and `MCPools`, where fairness is assumed of both, no fair action of either
is enabled in its initial state, so that the one that stands still owes nothing. What
interacts is composed in earnest: the application queue's parts over their shared
tables, and locks with slots in `BrowserUse`.

### The application queue

**State.** `candidate`, `application`, `run` are the status columns; `stale` says that
`updated_at` is older than `INTERRUPTED_AFTER_MS`. The dispatches of a candidate `c` are
`<<c, 1>> .. <<c, dispatches[c]>>` in the order of creation, `cancelled` those with
`cancelled_at`; attempts likewise, with their status, fence (`submit_started_at`), a kind
of error, and their *epoch*, the number of dispatches when they were created, which is
all the comparison of `created_at` columns in the publisher's query can tell. `job` and
`lock` are BullMQ's; `worker`, `handler`, `publishing`, `sweep` and `retrying` hold the
local variables and the position of the code that is running; `submissions`, `confirms`
and `faults` are history variables.

**Steps.** One action is one statement, transaction or Redis command of one actor.
The actions of an operation follow each other by its `pc`, so that everybody else may
move in between: `Claim`, `Enter`, `Tailor`, `CheckCandidate`, `Prepare`, `Mark`, `Open`,
the submit paths, then `WriteAttempt`, `WriteCandidate`, `WriteApplication`, as in
`applyApprovedCandidate`; `CountActive` and `FinishRun` are the two statements of
`finishRunWhenSettled`.

**Submitting.** `SubmitPaths` selects who may reach the provider. `"agent"`: the fence is
written, then the tool clicks. `"form"`: `submitForm` clicks, and writes the fence when
it has read the page's reaction. `"step"`: a click meant as a step that the provider
takes for the submission; the tool notes it, or the page pilot takes the confirmation
for its own result. The provider accepts or not, at the click; what the page shows
afterwards may be missing.

**Failures.** A process stops (`Crash`, `HandlerLost`, `SweepLost`, `PublishGiveUp`), a
cancel's transaction does not commit, a lane lease is lost, the browser is busy; with
`Zombies`, a job lock lapses or Redis loses its data while the worker goes on; with
`InfoFails`, `applicationJobInfo` cannot see the queue. Each transient one counts towards
`MaxFaults`, the bound of `faults`. A job fails at its first stall
(`maxStalledCount: 0`).

#### Abstractions

- One user and one run. Rows of other hunts share only the lane and the allowance.
- Free text is reduced to the kinds the retry policy's expressions tell apart; a live
  'submitting' event is only ever written after the fence, so it is not kept apart.
- Several endings that write the same columns are one result: *review* is a blocked form,
  an invalid form, a closed posting, a login; *uncertain* is a submit without
  confirmation and an error after one; *submitted* a confirmation, whatever failed after.
  An ending's writes of one row by `transition` and by the update that follows are one.
- What a publisher selects is taken together with the transaction before it; each
  `add` is a step of its own. `delivered_at` orders and pages the query and is dropped.
- The batch plan and the allowance appear as the choice of a subset in `Approve`, and as
  `RetryAbandon`.
- The candidate row stays locked during a cancel, so its updates are one step with the
  removal of the jobs; `CancelRollback` is the removal without the commit.
- A row ages only while the sweep is not between its look at the jobs and its query:
  the code takes its cutoff before both, and ageing later does not count.
- `Prepare` finds the application row (approval inserted it).
- Left out: run counters and `hunt_run_jobs`, events and logs, the takeover branch
  (`apply.ts:583-623`), questions to the owner, stopping an interrupted browser, jobs
  without dispatch, the profile and portal lanes (they only narrow the user lane),
  database errors inside the projections of a result (a crash between them is modelled),
  the loss of the approval lock, and the statuses nothing here writes (`viewed`,
  `interview`, `paused`, `approved`).

**The promise.** `ApplicationPromise` says of each application what its owner may rely on,
without rows, jobs, locks or recovery: what they were told (`standing`: unasked, asked,
applied, withdrawn), how often it may be sent (`permits`), how often the provider took it
(`sent`), and who works on it (`browser`). A browser begins only on what is asked for and
alone; it sends only while that holds and, where whoever submits counts (`Counted`, the
agent's path), only what is permitted; what is recorded as applied was sent, and is the
end of it; an application is withdrawn, or asked for again, only when no browser is at it.
`ApplicationQueue` maps the status column to `standing` (whatever is queued, applying,
failed or in review is asked for), approval and `confirms` to `permits`, `submissions` to `sent`
and the operations in progress to `browser`. So an operation of the code is one `Begin`, some `Send`
and one `Record` or `End`, however many updates, crashes and sweeps lie between, and all of
recovery is a stutter.

### Locks and slots

`ResourceLock` counts time in intervals of the heartbeat: a key lives three of them, a
`Tick` ages every key, and before the next one each holder's beat has arrived (`Renew`)
or failed (`MissBeat`, whose error the code drops). `missed` counts failures in a row.
Nothing tells the holder: it goes on, and its release compares tokens (`Released`).
`LeasedExclusion` says what is left of mutual exclusion then; `BrowserUse` maps `owner`
to a key whose holder lives, and `late` to two misses. `BrowserPool` keeps the number,
the line and each caller's slot; `HandOver` is `beginInteractiveLogin`, which closes the
connection and forgets the session that would release the slot.

### Hunts and the playground

`DiscoveryRuns` has each read and each write of the worker, the requests and the sweep as
a step: `CheckStop` is the only look at the stop key, `SetRunning`, `Store`, `Finish` and
`FailRun` are the updates of `discoverForRun` and `failRun`. What finds and ranks jobs
may fail at any point (`Throw`). `Approved` and `Settled` stand for the application
queue. The key of a stop lives six hours, so it outlasts everybody who has the run in
hand (`KeyExpires`); the theorem about stops rests on that.

`Playground` keeps the list of replies as a sequence; a reply remembers how often each
execution had asked when it was posted. Routes check the run's status and post in two
steps (`PgAskApi`, `PgPost`). An execution may be lapsed, crashed or executed again once;
`pgSession` is the session the row names, `pgBrowsers` the browsers that are up.

### The services

- `Outreach`: a send may be taken by LinkedIn and then fail, meet a checkpoint or crash;
  `orHistory.lost` counts the clicks nobody recorded, `orHistory.outran` what left after
  a recorded pause, `orHistory.agreed` the words that were approved. Limits of invites
  and messages have one bound, `OrCap`; warm-up arithmetic is left out.
- `LiveQuestions`: an answer is its source (the person, a guess), not its text. Saving is
  conditional on the status that was read, as in the code; the runner's writes are by id.
  Optional questions hold nothing up and are left out.
- `Allowance`: `alSpent` is what really was queued on a day and not given back,
  `alExcused` the jobs the count of the day cannot see: a batch that began before
  midnight, and a row closed by hand that still carries the note of an earlier cancel.
- `Turns`: both orders are one idea, heads of queues in turns; portals are kinds of
  jobs. What a filter leaves of a list is `Keep`, recursive over its places. `FairPlan` and `FairSelection` say what the result promises without turns.
- `TenantBrowser`: the host serialises the requests of a tenant (`chain`) in the order
  in which they were sent; `/status` does not wait. A caller may give a request up, and
  the host serves it all the same (`Unheard`). `BrowserLeftToItsUser` excuses the close
  of a session whose browser had gone by itself or had been ended, or whose lane was
  lost: a stop names the tenant only. Left out: the agent's own crash, the browser
  policy proxy, uploads, Chrome's profile on disk.
- `AgentLoop`: an error is a model value, as far as `errorKey` tells errors apart;
  `errors` are the three pairs of `last...Error` and `repeated...Errors`, `report` is what
  `finalizeAgentReport` makes of it, `late` the calls that were given up and still act.
  Tools are of three kinds: what fills a field, what moves about, and the submit.
  Questions to a person have no deadline and are a tool like another; pictures, prompts
  and the trimming of the conversation are left out.
- `PoliteFetch`: one turn of Node's event loop is one step. The gate's operations are
  functions of gate, loops and history together (`Net`), since a turn may release,
  acquire and wake: in `Retry` the loop that goes round enters before the waiter its own
  release has woken. A tick is the unit of the pause between starts; `age` is history.
  Any number of pages may break off, be empty, or answer an error. Left out: the lapse
  of cached pages after six hours, other hosts (each has its own gate), and adapters
  that fetch a second page for a job.

## 3. What is checked

The runs of the application queue use one candidate: no action reads two candidates
except the count that settles a run, and every property speaks of one. Two workers, two
dispatches and two attempts are the least with which a job can meet its own retry; all
three bounds are guards of the actions that count (`Approve`, `RetryCommit`,
`RetryCheck`, `Prepare`, `ParkAttempt`, `Open`). Symmetry is used where only safety is
checked.

| Run | Instance | Shows |
|---|---|---|
| `Crashes` | 2 workers, 1 lane, agent path, retries, 1 fault; 1.9 M states | `TypeOK`; `SubmittedOnce`: the provider gets one application and one more per confirmation of the owner; `FencedAttemptsAreConfirmed`; `OneInFlightAttempt`; `ImplementsPromise`, with counted sends |
| `Interleavings` | 2 workers, 2 lanes, all submit paths, one repeated submit, stop, cancel, retry; 2.4 M states | `CancelledStaysOut`, `AppliedIsFinal`, `OneBrowserPerCandidate`; `ImplementsPromise`, on every submit path and with the owner's moves |
| `BlindRetries` | 2 workers, 2 lanes, retries and flags while the queue is unreadable; 2.9 M states | `OnlyNewestOpen`, `ClaimUsesNewestDispatch`: the comment at `application-queue.ts:478-479` |
| `Repair` | 1 worker, cancel and flag, 1 fault of any kind with lapsed locks and lost Redis data, fairness; 220 K states | `InterruptedIsRepaired`; `AppliedWasSent`, though a lapsed lock may set two workers to one application |
| `BrowserUse` | 3 callers, 1 resource, 1 slot, 2 missed beats, 1 sign-in; or 3 loops, 3 jobs with 2 postings, 1 request at a time, 1 retry; fairness; 122 K states | `ExclusiveUntilTwoMisses`, `SlotsAddUp`, `NobodyPassesTheLine`; `ImplementsExclusion`, the refinement of `LeasedExclusion`; `DeadHolderFreesResource`, `EveryCallEnds`: no deadlock across lock and line; `EveryJobIsSettled` |
| `Runs` | a hunt (from its owner or the daily job), 2 executions, 1 stall, 1 fault; or a playground run, 2 executions, 2 approvals, 1 question, 1 fault; fairness; 203 K states | `ApprovalHasCandidates`, `StopSettles`, `RunsMoveOn`; `ApprovalPerSubmission`, `AnswersFollowTheirQuestion`, `CleanUpSparesLiveRuns`, `QueuedRunEnds` |
| `Services` | 2 senders, 3 drafts, a cap of 1; or 2 questions, 2 requests, a runner; or 2 requests, 2 jobs, 1 slot a day, 1 midnight; or every batch of up to 5 jobs on 3 portals and every offer of two portals; or 3 sessions, 2 visits, the sweep, 1 fault; or 5 steps, a budget of 3, 2 errors; or the gate as above with a pause of 2 ticks; 1.9 M states | `InvitesStayUnderCap`, `ApprovedWordsSend`, `OneSendOutrunsTheBreaker`; `AnswerWaitsForItsUse`, `CompleteAnswersResume`; `AllowanceHolds`; `PlansAreFair`, `SelectionsAreFair`; `BrowserLeftToItsUser`, `RemovedProfileRests`; `DoneMeansRecovered`; `HostIsSpared` |

**Bounds.** Two executions, requests or sessions are what a race takes; a third caller in
`BrowserUse` makes a line behind a waiter, a third session in `Services` is one without a
lane beside two that want it; with three loops at a gate for one, one retries while
another waits and a third pauses. One fault, at any step, is one failed update, one crash or
one lapse; the theorems of section 4 hold for any number of actors, faults, edits and
retries, and for any caps, policies and budgets. `MaxRuns`
is 1 in `Runs`, as what a hunt shares with another is the user's lock and the newest
run's choice; two hunts were explored without liveness as far as memory allows, and the
theorems cover any number. Plans are functions of their input and are checked on all of
it: all orders of five jobs, with one portal above its cap, two at theirs.

Deadlock is checked, except in `Runs`, `StopUndone` and `Services`, where everything may
be over and a person need not do anything more.

Every property has a mutant in `PROJECT.json`: a definition changed as a plausible bug
would change it (a dropped condition of the claim, a retry that looks only at the status,
an inner join in the sweep, a click before the fence, a release without comparing tokens,
a waiter left in the line, ...), with which TLC finds the property violated. The mutants
stand beside the definitions they replace.

**Fairness.** Node runs what it has started, and timers go on: that is all that is
assumed, and nothing of users, failures, or providers.

- `Repair`, `CalledBack`: weak fairness of a worker's steps, of picking up a job, of
  publishers, handlers and the sweep (`application-queue.ts:511-519`, BullMQ's renewal and
  stalled check). Strong fairness of `Age`: time passes in every state the model has, but
  the action stands aside while the sweep reads. A flag pauses the user's queue as long
  as it is open, so the property excepts it.
- `BrowserUse`, `LostSlot`: time passes, each caller's poll, deadline, beat and waiting
  timer fires, a launch ends, and (strong fairness, as it may be interrupted by crashes of
  the process) an operation ends and closes what it opened. For the detail stage: time
  passes, robots.txt and requests have deadlines (8 and 15 s), and Node runs what is
  ready; nothing is assumed of what a host answers.
- `Runs`: a worker goes on; a job that waits again and again is picked up, and a lock that
  is free again and again is taken (strong: others may have them in between); keys and
  leases expire, runs age, the stalled check and the sweep come round, and a request that
  has begun finishes unless it is lost. For the playground the same, and every wait of
  `awaitReply` has a deadline.

### Where the documents and the code differ

| Run | Statement | Code |
|---|---|---|
| `LateFence` | "The `submit_started_at` fence is saved before deterministic or agent submit actions." (`docs/application-execution.md:20`) | `submitForm` clicks at `fill.ts:852` and fences after reading the page (859, 863, 873). An error in between is a plain failure; a retry needs no confirmation; the provider may take two applications. |
| `SecondSubmit` | "A second submit in one application operation is refused." (the same line) | `apply.ts:672-713` calls `submitForm` again after an unconfirmed outcome; the click comes before the guard's error. |
| `CalledBack` | recovery exists "or the dashboard can report "applying" forever" (`application-queue.ts:286`) | A stop between claim and `apply.ts:99` ends the operation without an update; the sweep sees only hunts that are applying (line 318). |
| `LostSlot` | "Holding it would make one stuck session permanently shrink the pool" (`browser/session.ts:156-158`) | `beginInteractiveLogin` (`profiles.ts:134`) closes the connection and drops the session; its slot is never released, and after `BROWSER_MAX_CONCURRENT_SESSIONS` sign-ins every launch waits in vain. |
| `StopUndone` | "one already executing sees the stop flag at its next checkpoint" (`modules/hunt/routes.ts:291-292`) | The worker looks once, before its lock (`discover.ts:194`); `discoverForRun` then sets 'running' and 'awaiting_approval' by id (`service.ts:381, 552`): a stopped hunt comes back and is offered for approval. |

Met while modelling and not run: `runner.ts:72-74` says that an account never has two
LinkedIn sessions, while prospecting runs under the lock `linkedin` and sends under
`outreach`. The comment at `locks.ts:88-90` counts one beat too many: a key lives
exactly three, so the second miss in a row already lets it expire. A message LinkedIn
took is sent again after a crash, an error or a checkpoint behind the click; a cancel
during a playground question is an empty answer (`run.ts:272`); a call to the browser
host that is given up may leave a browser nobody owns (`vm-client.ts:61`).
`docs/application-execution.md:16` says a retry "never retries ... unknown ... or
submit-fenced attempts", while `confirmedNotSubmitted` (`application-policy.ts:36`)
permits exactly those; the properties count such confirmations in `confirms`. A
candidate that `createMinimalResumeVariant` left 'tailored' after a crash is repaired by
nobody. With a lapsed job lock two browsers may work on one candidate:
`OneBrowserPerCandidate` is checked without that.

Met while proving: recovery parks a candidate with two updates, the candidate's first
and the application's second (`application-queue.ts:436-453`, and the same in the sweep,
326-356). Let one of them stop between the two while the other has already done both, let the owner
retry, and then let the second update run: the application goes back to `needs_review`
under a candidate that is queued, and the next retry is let through. That retry cancels a dispatch
whose job may have started meanwhile, and its own job meets it: two browsers on one
candidate. TLC finds the trace (35 states) with two workers, three dispatches, two
attempts, two lanes, the agent's path, retries and one fault; `Interleavings` has two
dispatches, where it cannot happen. Likewise a cancellation that removes the failed job
of a crashed operation and then does not commit lets a publisher with an old row add the
job again, and a second attempt stands beside the first. The theorems assume the two
windows away by name (section 4).

`fetcher.ts:18` promises a "minimum gap between two request *starts*": requests that
pause for it together start together, since each computed its pause from the same
`lastStart`; and a request that retries enters beside the waiter it woke, so that one
more than `maxConcurrent` is under way. `HostIsSpared` states the bounds that hold, and
its theorem says no more can happen. `loop.ts:339-341` says that a second answer without
a tool call "ends the run": only an empty one does. A `done` that was refused after an
error is accepted only after another action has worked; when the steps run out before
that, its report is lost.

## 4. What is proved

TLAPS checks, for any finite or infinite sets of candidates and workers and any bounds:

- `ApplicationQueueProofs!TypesAreKept`: `Spec => []TypeOK`. `TypeOK` is not inductive
  by itself: a worker's step updates the rows of its job's candidate, and the record's
  type allows a busy worker without a job. The strengthening `TypeInv` adds
  `AssignedWork`, that a worker is idle or has a dispatch. One lemma per action, over
  lemmas for what the actions have in common.
- `ApplicationQueueProofs!OnlyNewestIsOpen`: `Spec => []OnlyNewestOpen`, and
  `ApplicationQueueProofs!ClaimsUseNewest`: `Spec => ClaimUsesNewestDispatch`.
  The invariant `DispatchInv` says that every dispatch anybody has in hand exists (what a
  publisher will still add, what has a job, what a worker holds), that a candidate without
  an application row (`Fresh`) has none, and that only the newest of a candidate is open. Approval needs
  `Fresh`: it does not cancel anything, and is right only
  because it takes candidates without an application row. Existence is what makes "not
  cancelled" mean "open", so that the claim's condition picks the newest.
- `ApplicationSafetyProofs`, for any number of approvals, retries, cancellations, stops,
  redeliveries, crashes and publishers: `OneBrowser` (`OneBrowserPerCandidate`),
  `CancelledIsOut` (`CancelledStaysOut`), `AppliedStays` (`AppliedIsFinal`),
  `OneAttemptInFlight` (`OneInFlightAttempt`), `FencesAreConfirmed`
  (`FencedAttemptsAreConfirmed`) and `SubmitsOnce` (`SubmittedOnce`, where only the agent
  submits). The invariants build on one another. `OwnInv`, who may work: whoever is busy
  holds the lock of its active job, an operation's dispatch is open, and where a retry is
  being decided nobody works, the application is parked and no job of the candidate can
  start. `AppliedInv`: what is applied has been put to rest. `TraceInv`: an operation's
  attempt is its candidate's newest. `RestInv`: no attempt is in flight but the newest,
  and not that one when the candidate can be claimed again. `EvidenceInv`: of the fenced
  attempts all but the newest are confirmed, and that one as well before a dispatch may
  start another. `SubmitInv`: every click of the agent comes after a fence of its own. TLC
  checked each of them on instances with up to three dispatches and two faults before it
  was proved.
  The hypotheses: `~Zombies` and `~InfoFails`, a job's lock does not lapse while its
  worker goes on and the queue can be read (with either, two browsers may meet);
  `[][OwnerStandsBack]_vars`, no retry commits, and no cancellation fails to, while
  recovery is between its two updates of that candidate; and for `OneAttemptInFlight` also
  `CancelsCommit`. Without the last two the properties are false in larger instances, see
  section 3; the behaviours they exclude are a few milliseconds wide and need a crash. The runs check the
  properties without these two hypotheses, on instances too small for the windows.
- `ApplicationSafetyProofs!AppliedMeansSent`: `Spec => []AppliedWasSent`, without any of
  these hypotheses. `SentInv` says that an operation that has seen a confirmation, or is
  about to write what follows from one, works on a candidate the provider has taken
  (`SeenWasSent`), and that submissions are never lost; a zombie sees the same.
- `ApplicationSafetyProofs!PromiseIsKept`: under `~Zombies`, `~InfoFails` and
  `[][OwnerStandsBack]_vars`, `Spec => ImplementsPromise`. Initial states map to initial
  states; approval maps to `Ask`, a cancellation that commits to `Withdraw`, a retry to `AskAgain`, a
  claim to `Begin`, a click the provider takes to `Send`, the end of an operation to
  `Record` or `End`, and every other step to a stutter. Its guards are the invariants
  above: `OwnInv` for who works on what, `SubmitInv` for a permitted send, `SentInv` for
  what is recorded, and `UnaskedUnconfirmed`, that there is nothing to confirm of what was not
  asked for. So each of the safety theorems is used for the step that needs it, and
  the refinement says that together they are enough.
- `BrowserUseProofs!LeaseExcludes`: `UseSpec => []ExclusiveUntilTwoMisses`. The
  invariant `LeaseInv` relates the two clocks: a caller at work that has missed fewer than
  two beats owns the key, and the key has as many intervals to live as the missed beats
  and the one that is due leave it.
- `BrowserUseProofs!LeaseImplementsExclusion`: `UseSpec => ImplementsExclusion`. Initial
  states map to initial states, and every step to a step of `LeasedExclusion` or to none:
  an acquisition to `AbsAcquire`, a key that expires under its late holder to a
  replacement, the rest to stutters. The abstract guard, that whoever is replaced
  is late, is what `LeaseInv` gives.
- `BrowserUseProofs!SemaphoreAddsUp`: `UseSpec => []SlotsAddUp`, and `UseTypesAreKept`.
  `SlotsAddUp` is inductive with the types; the work is in `Cardinality(Holders)` under
  each step, with `FiniteSetTheorems`. `LineIsKept`: `UseSpec => NobodyPassesTheLine`.
- `DiscoveryRunsProofs!OffersHaveCandidates`: `DiscoverySpec => []ApprovalHasCandidates`,
  and `HuntTypesAreKept`. `Stored` adds that an execution about to offer its run has
  stored the candidates; `Known` that whoever holds a run holds one that exists.
- `DiscoveryRunsProofs!StopsSettle`: `DiscoverySpec => StopSettles`. The invariant
  `Halted` says that a stopped run has its key, or nobody has the run in hand any more;
  so whoever comes across it at `CheckStop` turns back.
- `ServicesProofs!HostIsAlwaysSpared`: `FetchSpec => []HostIsSpared`, and
  `FetchTypeCorrect`. `FetchInv` says that the gate's count is that of the loops between
  acquire and release (`Counted`), that the line holds waiting loops, each once
  (`Queued`), and that no start is later than `lastStart` (`Latest`). For the starts it
  must look ahead: for every `a` below the interval, the loops that started at most `a`
  ticks ago together with those whose pause is over before the first of those starts is
  an interval old, the *burst* of `a`, are at most the limit and one
  (`Calm`). Each gate function (`Admitted`, `Acquired`, `Vacated`, `Wakes`) has lemmas of
  its own, and the actions combine them.
- `ServicesProofs!DoneAlwaysMeansRecovered`: `AgentSpec => []DoneMeansRecovered`, and
  `AgentTypeCorrect`. `AgentInv` says that a failed action stays counted while the loop
  runs; `Budget` that a part whose count is full has ended the run.

- `ServicesProofs!LastAnswerResumes`: `LiveSpec => []CompleteAnswersResume`. A request
  that answers looks at the jobs after it has saved, and counts what is open after that:
  once an answer came late, either the application is resumed, or a question is open, or
  some request is still to look or to count (`SomebodyCounts`). `PersonsAnswerWaits`:
  `LiveSpec => AnswerWaitsForItsUse`, since what a guess is saved over was open when the
  guess looked (`GuessSawOpen`), and the update takes only rows that still are as they
  were read.
- `ServicesProofs!EveryClickWasApproved`: `PlaygroundSpec => []ApprovalPerSubmission`.
  Presses of Apply are accounted for: the clicks, the executions between an approval and
  its click, and the approvals that wait in the list are together at most as many
  (`ApprovalsLast`). `NoAnswerBeforeItsQuestion`: what waits was posted after the question
  being asked (`RepliesAreFresh`). `LiveRunsAreSpared`: nobody works in the session of a
  row untouched for ten minutes, so the clean-up, which acts on an old reading, cannot
  meet a live one (`AgedRunsRest`).
- `LimitsProofs!CapIsKept`: `OutreachSpec => []InvitesStayUnderCap`. A sender at work
  holds the lock (`OneAtWork`); what LinkedIn has seen is recorded, about to be recorded, or
  was lost (`UnderCap`). `ApprovedLeave` (`ApprovedWordsSend`): an approval covers the
  words as they are and a send the words it took. `BreakerStopsSending`
  (`OneSendOutrunsTheBreaker`): the click that comes after the pause is the last
  (`BreakerHolds`).
- `LimitsProofs!AllowanceIsKept`: `AllowanceSpec => []AllowanceHolds`, and
  `AllowanceTypeIsKept`. Whoever has counted holds the advisory lock until its rows are
  inserted, so that a plan that fitted still fits (`PlanFits`). A retry whose row needed
  no slot when it was read needs none later (`RetryStaysCounted`), for as long as the
  approval lease is its own, and it looks at the lease before it commits.
- `TurnsProofs!EveryPlanIsFair`: `ChoicesSpec => []PlansAreFair`, for every choice of
  approved jobs in every order, any portals, caps and target. `PlanIsFair` is the lemma about
  the operator `Plan`. The two recursive definitions it rests on are followed one step at
  a time (`KeepRuns`, `FlattenRuns`), by induction over numbers, with the property
  written as a set (`Counting`), since the library's theorem wants an operator. From there: the
  jobs of a portal in one sequence after another are those of the first and then those of the
  second (`FoundInBoth`); so after `n` rounds each portal has had `n` of its jobs, or all
  (`FoundInTurns`); the plan ends somewhere in a round (`RoundOf`), and what is cut off that
  round leaves each portal its whole turn or nothing (`PlanOfTurns`); and the groups are one per
  portal, none forgotten (`FirstsAreTheirOwn`, `GroupsAre`). `PlanSelects`, that
  the plan takes some of the jobs and no more than there is room for, is what `AllowanceIsKept` needs.
- `TurnsProofs!EverySelectionIsFair`: `ChoicesSpec => []SelectionsAreFair`, for all postings,
  any number of portals, target and cap; `SelectionIsFair` is the lemma about `Balanced`. The
  sort is stated by rank, the n-th newest being the posting with n - 1 before it; there is
  one, since rank is one-to-one on as many places as there are ranks (`PlacesAre`). Every place of the
  turns taken comes from some queue's turn in some round, all turns have their
  place, and the rounds follow one another (`TurnsFollow`, from `FlattenSpreads` for the rounds
  and again for the turns of a round). When a posting is the first of its fingerprint, those
  of all before it have come in already (`FirstsAreTheirOwn`), so a turn is kept after all earlier
  turns; and a list without repetition counts what it lists (`ListedOnce`).
- `TenantBrowserProofs!BrowserIsLeft`: `TenantSpec => BrowserLeftToItsUser`, and
  `RemovedProfileIsFree`: `TenantSpec => []RemovedProfileRests`. A stop names the tenant
  and not a browser; that it reaches the right one is a matter of order. A session has
  one request with the agent at a time (`RequestsInTurn`), and Chrome is its own until
  its stop is served (`OwnBrowser`); behind a launch somebody listens for there is no other
  (`NoLaunchBehind`), which is the lifecycle lock (`LockHeld`); the sweep, which stops
  somebody else's, asks when the lane is free and nobody's launch is ahead of its stop
  (`SweepFindsNobody`). Requests that were given up stay in the line and are served all
  the same, and the invariant speaks of them too.

The assumptions are those of the modules (bounds and caps are natural numbers, null
values are outside their sets, the callers of locks and slots are the same, sets are
finite where they are counted), which TLC evaluates in the runs. Every invariant was
checked by TLC on an instance before it was proved.

The types of the modules that stand beside each other in `MCServices` and `MCRuns` are
proved and not listed in the runs: `FetchTypeCorrect`, `AgentTypeCorrect`,
`LiveTypeCorrect` and `PlaygroundTypeCorrect` (`ServicesProofs`), `OutreachTypeCorrect` and
`AllowanceTypeIsKept` (`LimitsProofs`), `TenantTypeCorrect` and `HuntTypesAreKept`.

Only model-checked: everything about liveness (`InterruptedIsRepaired`,
`DeadHolderFreesResource`, `EveryCallEnds`, `EveryJobIsSettled`, `RunsMoveOn`,
`QueuedRunEnds`), which is beyond the prover.

## 5. What is left

`OwnerStandsBack` and `CancelsCommit` are hypotheses on purpose. Without the first every
theorem that has it is false of larger instances: once recovery clears a claim that a
retry has made anew, two browsers work on one candidate, and whatever is said of its
claims, attempts and submissions fails with `OneBrowserPerCandidate`. They go when
the code locks the candidate between recovery's two updates.

Open are two candidates in one run, which would meet only in the lanes, and `AgentLoop` composed with
`ApplyWorker`, whose operation would then be two actors when a tool call outlives its
deadline (`agent/loop.ts:371`).

### Not modelled

- *Form drivers, page reading and prompts, connectors, extraction and ranking, resumes*:
  what they do depends on pages, files and models; what they may do to shared state (an application, a run,
  an answer) is in the modules above.
- *Inbox and referrals*: rows are read and upserted by id, one job at a time under one
  lock; a disconnect during a sync is undone by its upsert, the one race met there.
- *Live view*: frames and input over sockets; it changes no row.
- *Accounts, billing and the other routes*: handlers over single rows, each one
  statement or transaction.
- *Browser extension, openclaw guard, scripts, spikes*: programs of their own.
