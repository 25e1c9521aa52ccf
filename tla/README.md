# Zentomic in TLA+

Zentomic is a library of voice-call building blocks for a Lambda-hosted IVR:
signed Twilio callbacks come in, small helpers authenticate them, bind them to
one trusted call, move a call one step, and keep three kinds of durable state
(call status, one-shot claims, voicemail status) in injected stores. Most of
it is pure. What is hard is what happens when several callbacks, workers and
clocks meet: these modules model that part, check it with TLC and prove most
of its safety properties with TLAPS.

Sources are quoted relative to the repository's root, `src/`.

## The system

### Components

| Component (source, under `zentomic/`) | State | Operations | Modelled in |
|---|---|---|---|
| Lifecycle policy: `call_status.py` | none | `advance_call_status` | `CallStatus` |
| Call-status delivery: `call_status_event.py` | one loop per delivery: attempt, loaded snapshot | prepare, persist, retry; retry hook with delays and budget | `CallStatusEvent`, `RequestBudget` |
| In-memory status store: `call_status_store.py` | a dictionary under a lock, at most `max_entries` legs | `load`, `observe` | `InMemoryCallStatus` |
| DynamoDB status store: `dynamodb_call_status_store.py` | one table item per leg | `load`, `observe` = read + conditional update | `DynamoDBCallStatus` |
| Callback claims: `callback_claim_store.py`, `dynamodb_callback_claim_store.py` | the set of claimed steps | `claim` | `CallbackClaims` |
| Claimed helpers: `gather_event.py`, `speech_event.py`, `confirmation_event.py`, `dial_event.py`, `voicemail_event.py` | none | authenticate, admit, claim, decide, in one of two orders | `CallbackClaims` (order), `VoiceSession` (a whole call) |
| Voicemail status store: `voicemail_status_store.py`, `voicemail_status_event.py` | statuses, tombstones, next version, under one lock | record, delete, expire, four purges, list due, extend / hold / release deadlines | `VoicemailStatusStore` |
| Retention worker: `voicemail_retention.py` | one pass: clock reading, batch, partitions | list, purge each, report with a follow-up class, publish and restore the counts | `VoicemailRetention`, `RetentionTelemetry` |
| Budgets: `budget.py` | none | remaining time, operation timeout, transitions left, admission of a voice step | `Budget`, `OperationBudget`, `VoicePolicies` |
| Lambda hooks: `lambda_budget.py` | last readings of two clocks, per reader | admit a request; read the remaining time | `RequestBudget` |
| Business hours: `business_hours.py` | none | target at an instant | `BusinessHours` |
| Voice policies: `gather.py`, `intent.py`, `classification.py`, `routing.py`, `dial.py`, `speech.py`, `voicemail.py` | session or attempt counts passed by the caller | propose one decision | `VoicePolicies`, `VoiceSession`; the limits of `speech.py` in `SpeechPolicy` |
| Authentication: `authentication.py`, `twilio_signature.py` | none | verdict on one request | its verdict, in `CallbackClaims` |
| Demo, command line: `demo.py`, `__main__.py` | none | walk the policies through a call, check arguments, print | the sequence in `VoiceSession`, the limit checks in `SpeechPolicy` |
| Transport: `webhook.py`, `webhook_event.py`, `response.py`, `handler.py`; `twiml.py` | none | parse, render | no |

### How they interact

```
 Twilio ──callback (again, late, reordered)──▶ *_event helpers ──▶ policies (pure)
                                                   │  ▲
                     before_request / before_retry │  │ snapshot, claim, conflict
                                                   ▼  │
                  budgets + two clocks ────▶ stores: status · claims · voicemail
                                                              ▲
                 retention scheduler ──▶ retention worker ────┘
```

* The status loop calls `load`, then `observe` at the revision that was loaded;
  the store raises `StatusConflictError` when the revision moved, and the loop
  goes round, through the retry hook, at most `max_conflict_retries` times.
* Claimed helpers call `claim` once and act only when it answers `True`. What
  they decide is only proposed: their docstrings ask the adapter to bind the
  current step, to admit the next one by `resolve_voice_step_budget`, and to
  save it conditionally before anything is emitted.
* Voicemail callbacks, operators and retention jobs call the voicemail store
  with what they saw earlier: a status, a version, a deadline, a clock reading.
* Stores call `before_request` before each DynamoDB request; it may deny it.
* Nothing in the repository starts a thread; the locks, the conditional
  expressions and the tests on concurrency show that callers may.

### What is hard, and what makes it correct

| Component | Hard behaviour | What must hold |
|---|---|---|
| Status stores | a write between reload and update; rows removed and created again under the same revision; an applied write without an answer; SDK resends | first terminal status wins; answers were stored at that instant; nothing acknowledged is lost; a change is reported once; conflicts are never spurious; the loop ends |
| Claims | simultaneous and late redelivery, lost answers, death with the claim, a full store | a step is decided once; uncertain claims admit nobody; bad callbacks consume nothing; no decision vanishes silently |
| Voicemail store | stale versions and deadlines, holds racing purges, one bound for two dictionaries | no recreation under a tombstone; no purge before the deadline; versions name one tombstone |
| Retention worker | overlapping passes, candidates that change after listing, partial failure, full batches | a receipt for exactly what was listed, once; "no follow-up" means nothing was left, to whoever reads the record too |
| Voice steps | redelivery, late results of an earlier leg, malformed results, death with a claim, a status or a route that changes between two steps | work is bounded and paid for; nothing is started after the end; callers choose their destination; the call ends |
| Transcript limits | eleven limits that exclude each other only in combination, checked twice | refusals are right; accepted limits can be met |
| Budgets and hooks | clocks that step, waits and requests that end late, readings used later | admitted work, reserve and waits fit; neither clock gives time back |
| Business hours | offset changes, midnight, week's turn, overrides | the answer agrees with the clock on the wall |

`PROJECT.json` lists each hazard at its line, with the properties it is for.

## The modules

Each component has a module; `MC...` modules add only symmetry sets and
constant values for TLC, and `...Proofs` modules hold its theorems.
Operators commented "Plausible bug" are not part of the model: they are the
wrong forms of the definitions below them, kept so that each property can be
shown to fail when the code is wrong in that way.

```
 CallStatus ◀─ CallStatusRegister            (abstract: one register per leg)
     ▲                ▲        ▲
 CallStatusEvent      │ implements
     ▲      ▲         │        │
     │      └── InMemoryCallStatus
     └───────── DynamoDBCallStatus
 CallbackClaims
 VoicemailStatusStore ◀─ VoicemailRetention ─▶ RetentionTelemetry
 Budget ◀─ OperationBudget, RequestBudget
 CallStatus, Budget ◀─ VoicePolicies ◀─ VoiceSession ─ implements ─▶ VoiceCall
 SpeechPolicy
 BusinessHours
```

### Call status

`CallStatus` is the policy (`Supersedes`, `Advance`, `Observed`).
`CallStatusEvent` is the loop of `retry_call_status_event`: `pc[d]` is
"load", "observe", "update", "backoff" or an end; `Prepared`, `Persisted`,
`Conflicted`, `Retry`, `Failed` are its transitions. A redelivered callback is
a second delivery that carries the same status.

`InMemoryCallStatus` makes each of `load` and `observe` one step, as the lock
does, and lets threads run between them. `DynamoDBCallStatus` splits `observe`
where the code sends a request: `Reload` reads and compares the revision;
`UpdateAcknowledged`, `UpdateRejected`, `UpdateUnacknowledged` and
`UpdateResent` are the fates of the conditional update. It is sent for no-op
observations too, and its condition checks the status beside the revision:
rows may be removed from outside (`DeleteRow`, an operator or the table's
time-to-live), a new row's revisions start at 1 again, and then the revision
alone would match another row. `UpdateResent` is the SDK's own retry after a
lost answer, below the admission hook and the loop; a delivery may so meet its
own write as a conflict. `Fail` stands for every other exception, an
item that does not parse and a revision over the limit included.

`CallStatusRegister` is what both stores promise: a snapshot per leg that
only a whole observation of its present value, or a removal, changes. Both
are shown to implement it with `register <- rows` and `register <- states`.

### Callback claims

`CallbackClaims` holds both adapters, chosen by the variable `claimer`. A
delivery is authenticated (`genuine`), admitted before the claim where the
helper does that (`AdmitFirst`, `admissible`), claims, and resolves. `Full`
belongs to the memory adapter; `PutUnanswered` to DynamoDB, where an applied
put raises or is resent and then finds its own entry. No path of the code
gives a claim back.

### Voicemail

`VoicemailStatusStore` has one action per method that changes state, each
guarded by what the method compares. `Extend`, `Hold` and `Release` are the
helpers that change a tombstone's deadline. Since callers keep what they saw earlier,
`Next` passes every version issued so far, every deadline and every clock
reading up to now. Calls that raise or answer `None` or `False` change
nothing. `Tick` is the trusted clock.

`VoicemailRetention` adds workers. `List` is `list_due_expiries` with a fresh
reading; the candidates are then taken in order, each ending in a receipt
(`PurgeCandidate`), a conflict or a miss; `Report` ends the pass and
`FollowUpAction` is its class; `Abort` is an unexpected exception. `Others`
are all other callers of the store, between any two steps. One workspace is
modelled. A candidate that is held and released at the same deadline between
listing and purging is purged: it is the same tombstone, and due.

`RetentionTelemetry` is the record in which a report travels: the counts, and
derived fields that repeat what the counts say. `Accepted` is
`from_telemetry`. The report publishes it; `ConsumersAreNotMisled` reads it
back unharmed and with any one field changed.

### Voice steps

`VoicePolicies` has one operator per decision: `Gather`, `Confirm`, `Speech`,
`Parse`, `DialResult`, `StepAdmitted`. Digits and labels are members of small
sets, a score is a percentage or malformed, a text is admissible or not.
Types, names and sizes of the configuration are checked by the code and
assumed here (`VoiceAssumption`).

`VoiceSession` puts them in a call. A process loads the session with its
routes and binds the callback (`Receive`), claims the step and decides
(`Claim`, `Classify`), asks the budgets with the stored status and a clock
that may be set back (`Admit`), saves (`Save`) and answers (`Emit`). Between
any two of these the other process, the status callbacks (`Observe`) and the
workspace (`RemoveRoute`) act, and a process may die, its claim kept
(`Crash`). `Post` keeps the provider's last callback, which may be received
any number of times; a dialled leg may report something unreadable first. The
order of the stages is the one `demo.py` walks through. The adapter is not in
the repository: `CurrentStep`, `Save`, `Emit`, `HangUp` do what the helpers'
docstrings ask of it (`gather_event.py:68-72`, `budget.py:102-108`), and are
marked external. So the properties say that the helpers suffice for an adapter
that keeps their contract, and the mutants break the helpers.

`VoiceCall` is what the helpers promise together: to whoever reads the session
there is one step after the other. The step that runs is decided by the callback that
reports of it (`Outcomes`, with the routes known at some moment between the
report and now), and the next one is there at once, paid and never after the end
(`Proceed`), or the call is over (`End`). Processes, claims, redeliveries, deaths,
the time between a decision and its save are not in it. `VoiceSession` implements
it with `callback <- posted` and the session, status and routes as they are. It
says nothing of how often the provider reports: a leg may report twice.

A session whose process died with the claim stays where it is: no path gives a
claim back, and every redelivery is a replay. `CallSettles` excepts it
(`dropped`); the deadline only denies work that is asked for.

### Transcript limits

`SpeechPolicy` lets a workspace configure the limits of `speech.py`, directly
or through the command line, which repeats the checks. A text is a function
from positions to characters, which are known by their bytes and whether they
are white space or end a line. What the limits see of it (`Measure`) are the
sizes of sets: of its positions, of the places where a word starts or a line
breaks, and of its bytes, which are pairs of a position and an index.
`Understands` is the test of a transcript, `Accepts` the check of the limits,
`Usable` its reference: some transcript is understood. `Overlooked` says
exactly which accepted limits are not usable. Letters are the content, so the alphanumeric and
letter requirements, which any content here meets, are left out.

### Budgets

`Budget` has the operators of `budget.py`; `IsLongestFit` defines what a
timeout should be without the order of the code's subtractions and rounding.
`OperationBudget` runs operations one after another under one deadline, each
with the timeout the code computes. `RequestBudget` is one invocation: the
requests of the status loop with the admission hook before each, the retry
hook's sampling, waiting and checking again, and two clocks (the runtime's
remaining time and the wall clock) that may step at any moment. Time passes in
requests and waits, each of which may end up to `Lateness` late; CPU time
counts as lateness, but for the time that may pass between a reader's two
readings (`Remaining(gap)`, at most `MaxGap`): the runtime's clock is read
first, so what it shows may be that much too old when the minimum is taken.
The wall clock is read last and loses nothing. `bound` says whether the retry
hook was built with the call's deadline. The true time `elapsed` is not visible
to the code.

A wall clock that goes back by less than the time between two readings is not
noticed; it extends the call's deadline by as much. The module docstring of
`budget.py` leaves that to the adapters, so the properties about the true time
assume the clock in question did not step (`stepped`), and those about the
readings assume nothing.

### Business hours

`BusinessHours` sets `ResolveAt`, which converts an instant by division, next
to a clock on the wall that ticks, turns over and is set forward or back, and
compares the answers. The zone database is external: a zone is two offsets
and the instant between them. No offset, nor a change of one, is more than a day
(`CalendarAssumption`).

## Model checking

| Run | Instance | What it shows |
|---|---|---|
| `dynamodb_status` | 2 deliveries, 1 leg, 5 statuses, 2 retries, 2 removals, fairness | nothing reported as saved is lost, one delivery reports a change, conflicts are paid for by stages that the leg has passed; no terminal status is replaced; the store implements the register; every delivery settles |
| `in_memory_status` | 3 threads, 2 legs, room for 1 | answers are what is stored, no leg is stored past the capacity and a full store serves the legs it holds, the register is implemented |
| `callback_claims` | 3 deliveries, a claim-first and an admit-first step, both adapters, room for 1 | one decision, no admission on an uncertain claim, no step consumed by a bad callback, none lost silently |
| `voicemail_store` | 3 recordings, room for 2, 2 deadlines, 3 versions | recreation guard, deadlines, first status, the shared bound |
| `retention_workers` | 2 workers, batches of 1 and 2, 2 recordings | receipts are exact and unique; no follow-up means drained; accepted records say what the worker reported |
| `retention_liveness` | the same with batches of 1, 1 deadline, fairness | overdue tombstones are purged |
| `request_budget` | 1 invocation, 2 retries, a runtime clock that steps by 1 and a wall clock by 2, readings 1 apart | reserves kept, retries funded, waits fit the first reading |
| `operation_budget` | timeout 8, several deadlines and policies | the timeout is the longest that fits; operations end in time |
| `business_hours` | days of 4 minutes, weeks of 2 days, 3 days | the target follows the clock on the wall |
| `speech_policy` | transcripts up to 4 characters, 10 byte limits, all limits up to 4 | refusals are right, in the library and the command line; accepted limits can be met, but for the two kinds below, which cannot |
| `speech_policy_comment` | the same | the comment "cannot admit any transcript" does not hold: a violation |
| `voice_session` | 2 processes, 2 attempts a stage, 4 transitions, 1 death, 2 intents, fairness | steps are paid for and bounded; the processes look like one call, with no step after its end; only the current leg decides; destinations are chosen; the call ends |

Every property of a passing run has a mutant in `PROJECT.json`: a form of one mapped
definition with a plausible bug, under which TLC finds the property violated
in the same instance.

### Bounds

* Two deliveries overtake each other as often as the retries allow, and two
  removals let a row be removed and created again, and again, while one of them
  holds the old revision. What a third delivery could add is left to the
  theorems, which hold for any number. A leg changes at most four times
  (theorem `RevisionsBounded`), so revisions up to 4 are all there are;
  `MAX_STATUS_REVISION` (10^38 - 1) is not met by a leg that started absent.
  Statuses are chosen to have several active ranks, and two terminal ones. Four
  retries or more make a conflict impossible to raise (theorem
  `FourRetriesSuffice`), so runs use one or two, where it can be.
* One entry of room, two steps or legs: the store is full and still asked
  for both. Three recordings with room for two: statuses and tombstones
  compete.
* Three versions let a key be buried, purged and buried again while a stale
  version is held; two are enough for the worker, whose candidates are exact.
* A batch of one is always saturated when anything is due, and two recordings
  leave something behind; the batch of two beside it is filled or not, and is
  overtaken by the smaller one. Damaged records take every value of one field,
  counts up to one more than the batch.
* Two processes can both hold a step's callback, and a third could only be
  refused as the second is. Two attempts allow one retry. The longest call here
  emits two collections in each of two stages and two forwarding attempts, so
  takes five transitions; four make the count budget end some calls and not
  others. A deadline of 1 gives the clock one reading before and one at the
  deadline; it may go back. One death meets every place where a process can die. One
  destination can be removed, the other stays.
* Transcripts of four characters are the shortest in which two words and two
  lines share a separator or not, and breaks lead, end or divide the text. Byte
  limits lie on both sides of what one to four characters can hold.
* The budgets' numbers are small enough for every boundary (exactly fitting,
  one too many, zero) to be met; delays up to 2 distinguish the base delay
  from its doubling and the cap. The wall clock steps
  by more than the gap, so that trusting it alone is noticed. The gap is needed
  where it is allowed: without it in their bounds TLC finds
  `InvocationReserveIsKept` and `RetryIsFunded` violated.
* Days of four minutes and weeks of two have every edge the code has: first
  and last minute, half-open ends, midnight, the week's turn.

### Fairness

* `DynamoDBCallStatus!FairSpec`: weak fairness of each delivery. Requests are
  made by a client with timeouts of its own, so each returns or raises.
  Nothing is assumed about the table or about who wins.
* `VoicemailRetention!FairWork`: the clock advances, a scheduler keeps
  starting passes (weak), and a pass is not aborted for ever (strong fairness
  of `PurgeNext` and `Report`): the code propagates adapter errors and leaves
  the retry to its scheduler, so a pass that aborts every time purges nothing. `EventuallyPurged`
  is stated for stores that other callers leave alone from some time on; one
  who extended deadlines for ever could rightly keep a tombstone.
* `VoiceSession!FairSpec`: the provider reports of each step it runs (a gather
  that times out posts too, a dialled leg ends), a callback that can be handled
  is, by some process, and a process that does not die takes its next step
  (its requests return or raise). Deaths are bounded by `MaxCrashes`. Nothing
  is assumed of the clock, the status or the routes.

Deadlock is checked in `voicemail_store`, `retention_workers`,
`retention_liveness` and `operation_budget`. Elsewhere it is off: deliveries
and invocations end, calls are over, limits are judged once, and the calendar
has a last instant.

### A disagreement with a comment

`speech.py:116-117` says of the checks: "Reject trusted policies that cannot
admit any transcript instead of silently spending every collection attempt."
They let two kinds of such policies pass, and `speech_policy_comment` finds the
first:

* with `require_transcript_printable`, the white space between words is the
  plain blank, one byte each, while line 178 allows three: two words, at most
  three characters, at least ten bytes is accepted, and nine is the most;
* with one word and several lines the breaks stand around the word: they count
  against the maximum of bytes, not for the minimum, and the two are only
  compared with each other (one word, two lines, two bytes at least and at
  most). If a second word is allowed but has no room, the characters of the
  breaks are also taken for content when the minimum of bytes is checked.

`AcceptedIsUsable` says that an accepted policy understands nobody if it is of
these kinds, and somebody if it is not; it is proved for limits of every size.

## Proofs

TLAPS checks these for all values of the constants allowed by the named
assumptions (finite key sets, positive bounds, known statuses, trusted time
values in range, recordings numbered by integers, since their identifiers are
what the code sorts by).

* `CallStatusProofs`: lemmas on the policy: progress never falls, terminal
  statuses stay, observations keep snapshots reachable.
* `DynamoDBCallStatusProofs`: all safety properties of the run, and two that no run
  checks: `AcknowledgedWasStored` (answers were stored when given) and
  `RowsReachable` (an item changes at most four times).
  None of them is inductive by itself. The invariant joins the type with
  `AttemptLeft` (a delivery that waits to retry has an attempt left), `Readings`
  (rows and what was read of them are snapshots that a leg which started absent
  can reach) and, while no row was removed, `History`: what was read precedes
  the row and a revision names one snapshot of it, each retry is paid for, the
  results are kept and the reported changes differ. `FourRetriesSuffice`: without removals and
  with at least four retries no delivery ever ends in a conflict.
* `InMemoryCallStatusProofs`: type, capacity (`CapacityKept`), entries are kept
  (`TerminalIsKept`), and the three properties of the run. For
  `CapacityIsExact` and `AnswersAreCurrent` the invariant adds `History`:
  what a thread loaded or was answered has no later revision than the entry,
  and what it loaded is the entry itself if the revisions are equal. So an
  observation of a stale snapshot is a conflict, never an error, and a revision
  is reported as a change once.
* `CallbackClaimsProofs`: the type and all five invariants. `Holding` says that a holder's step
  is claimed with an answer, that a delivery which passed the door earned it, and
  that each claim was made by a delivery that earned it and is accounted for.
* `VoicemailProofs`: the store and the workers over it.
  * The store's five properties, from the type, `ActiveOrExpired` and
    `VersionsAreUnique`, inductive together.
  * `StoreIsKeptByWorkers`: each step of a worker is a call of the store or
    leaves it alone, so the workers' behaviours are among the store's, and its
    theorems hold while any number of passes overlap.
  * The four properties of the passes. `WorkInv` joins the store's invariant
    with what a pass holds: `Listed` (what is due was listed at versions that
    were issued, one tombstone per recording, and the batch is its least
    part), `Classified` (the partitions are disjoint parts of the batch) and
    `PurgedIsGone` itself: the version under a receipt is buried no longer, and
    as it is below the next one it is never issued again. For
    `NoFollowUpMeansDrained` a batch below its limit must be all that was due:
    of what a short batch would leave out, the least (it exists by
    well-foundedness, `ShortBatchesAreComplete`) would have belonged to it.
  * `ConsumersFollowTheWorker`: the counts of a pass add up
    (`CountsAreConsistent`), an accepted record's derived fields are those its
    counts imply (`AcceptedSpeaksForItsCounts`, for any record), and a changed
    count no longer adds up while a changed limit contradicts the reasons
    (`DamageIsSeen`).
* `RequestBudgetProofs`: the type and all five properties. `HookInvariant` adds to the reserve
  invariants that an unstepped clock shows the true time, that a reader's two
  readings were taken at most the gap apart, that a wait in progress is funded by the reading
  before it, and that the waits so far and the last remaining time add up to no
  more than the first reading.
* `PolicyProofs`: what the pure policies compute. First, what rests on
  division, with lemmas on quotient and remainder by any unit (`Division`, `DivisionIsUnique`, `DivisionSteps`).
  * Operation timeouts: `LongestTimeout` (subtract, cap, round down gives
    the longest fitting multiple, for every policy) and both invariants.
  * `HoursFollowTheWall`: `TargetFollowsWallClock` for every length of day and
    week (the run's days have four minutes, the code's 1440), schedule, override and
    zone. `CalendarInv` says that the wall clock shows the local time, as quotient
    and remainder; `ClockMoves`, that moving the clock by at most a day is moving
    the time that it shows, over midnight and the week's turn.
  * Then what rests on counting. `NoUsablePolicyIsRefused`: a refused policy is one that some measure
    contradicts: `WhatTextsMeasure` has the inequalities between the measures
    of any text (its words have separators between them, a break is white
    space, a character has one to four bytes), each from the size of a set or a
    map from one set into another. They make every clause of `Accepts`
    necessary (`UsableIsAccepted`). `CommandLineAgrees`: the copy of the checks
    accepts the same policies.
  * `AcceptedPoliciesAreUsable`: for an accepted policy that is not
    `Overlooked` a text is built: content everywhere but at chosen places for the separators
    (`TextWithGaps`), or one word with the breaks ahead of it
    (`TextAfterBreaks`). Its characters can have any number of bytes between the
    least and the most: were some number missing, the least such would be one more
    than a number that can be had, and one more byte fits into some character
    while any has fewer than it can (`BytesCanBeHad`). That this least number,
    and the first and last content of a text, exist comes from
    well-foundedness, which stands in for induction over the text.
* `VoiceSessionProofs`: the type and the four safety properties of the run.
  First, what each policy may decide (`GatherDecides` to `DecisionsFollow`):
  any decision is a step that `Follows` the session, and one that dials is
  `Earned` by the callback's fields. Then `SessionInv`. Its core is the claim:
  the claimed steps are those before the current one, or up to it (`Claimed`);
  one process at a time is past the claim of the current step (`Alone`); what
  others loaded is the session itself until somebody claims (`Loaded`). What
  the process past the claim is about to save follows the session and is earned
  by the provider's last callback, which does not change meanwhile (`Worked`):
  a leg reports again only while it has reported no result, and such a callback
  claims nothing. `Prompts` balances the prompts of each stage against attempts
  and transitions. `SessionMoves` then says that only a save or an end by that
  process changes the session, and each action property is one of its parts.
  `EndedCallsGetNoWork`, which the refinement subsumes, is kept by itself.
  * `SessionIsOneCall`: the session implements `VoiceCall`. The invariant is
    joined by `Justified`: while a process holds what it decided,
    the callback still leads there with the routes it loaded, which lie between
    those of the report and those of now. So its save is a `Proceed`; the end is
    an `End`; every other step of a process changes nothing that can be seen.

Refinement of the register is proved step by step: each step of a store is a
`Record`, a `Forget` or a stutter.

The strengthened invariants were themselves model-checked on the runs'
instances before they were proved.

Only model-checked:

* liveness (`Settles`, `EventuallyPurged`, `CallSettles`) and everything under
  fairness, which TLAPS does not treat.

## Not modelled

* Webhook parsing, TwiML, the health handler, most of the command line's
  arguments: functions of one input without state, or printing.
* Signatures: only the verdict, and that it comes before the claim.
* Item encodings of the DynamoDB stores: a malformed item is a failure.
* JSON text of the telemetry, its size limits and the types of its values.
* The decisions of `voicemail.py` and `voicemail_status.py`: tables over two
  fields of one callback. Where they are taken, and what they are stored as, is
  in `CallbackClaims` and `VoicemailStatusStore`.
* Types, names and sizes of configured values, everywhere: the code raises
  before it does anything.
* One workspace, one call: keys of different ones never meet.

## Plan

Done: call status with its stores and register, claims, voicemail store,
retention worker and its record, request, operation and voice step budgets,
voice policies in a whole call and the abstract call they implement, transcript
limits, business hours; theorems for every safety property of the passing runs.

Next: an abstract pass of the retention worker, one sequence of conditional
removals of the store, and the proof that `VoicemailRetention` implements it.
