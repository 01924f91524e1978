# TLA+ models of sing-box-agent

The agent edits the configuration file of a sing-box proxy and tells sing-box
to reload it. Two parts of it write that file: the REST endpoints, for single
inbounds and users, and the desired-state synchronisation, for everything at
once. Their interleavings, the debounced reload with its rollback, and the
failure paths of a plan are where the program is hard to get right and hard to
test. Around them are the handlers, the request filters (authentication with its
nonce cache, idempotency), the background tasks that talk to the control plane,
and the traffic metrics.

## Inventory

| Component | Source (src/internal) | State | Operations | Module |
|---|---|---|---|---|
| File and mutex | `cfglock` | the file, one mutex per path | lock, unlock | `ConfigFile` |
| Reloaders, sing-box | `sync/reloader.go` | what sing-box runs | reload | `ConfigFile` |
| REST client | `singbox/client.go` | `mu`, debounce timer, the bytes before and after the window | create, update, delete of inbounds and users; timer expiry; reload, rollback, second reload | `ConfigClient`, `ConfigData`; promise: `ConfigStore` |
| REST handlers | `handlers/inbounds.go`, `handlers/users.go` | none | get, create, update, delete: look, then call the client | `RestHandlers` |
| Subscriptions | `handlers/subscription.go` | map of generated records | generate, get | `RestHandlers` |
| Config manager | `sync/config_manager.go` | none beyond the file | the six edits, as steps of a plan | `SyncEngine`, `ConfigData` |
| Diff, plan | `sync/diff.go`, `sync/plan.go` | a plan and the steps executed | build, execute, roll back | `SyncEngine`, `ConfigData`, `SyncPlans` |
| Engine, status | `sync/engine.go`, `sync/status.go` | state, version, in-sync flag | reconcile, apply | `SyncEngine` |
| Desired-state endpoint | `handlers/sync.go` | none | push with a version check | `SyncEngine` |
| Lifecycle | `server/lifecycle.go` | a context | initial pull, drift checks, heartbeats, stop | `ControlPlane`, `SyncEngine` |
| Control-plane client | `client/fastify.go`, `client/retry.go` | none | fetch, report, heartbeat, with retries | `ControlPlane` |
| Core service | `singbox/core_service.go` | none | explicit reload, restart | `Agent` |
| The process | `server/server.go` | everything in memory | end, start | `Server` |
| Idempotency | `store/idempotency.go`, `middleware/idempotency.go` | entries with expiry | get, handle, store, clean up | `Idempotency` |
| Authentication | `middleware/auth.go`, `auth/replay.go` | nonce map and queue | check, store, expire, evict | `NonceCache` |
| Traffic metrics | `metrics/loop.go`, `metrics/collector.go`, `singbox/v2ray_stats.go` | last values, counters | query, observe | `Traffic` |
| v2ray API codec | `v2rayapi/v2rayapi.go` | none | encode, decode | `StatsCodec` |
| Readiness, configuration loading, process entry | see `PROJECT.json` | | | not modelled |

How they interact: the two writers share the file, the mutex and sing-box, and
nothing else. A REST request holds `c.mu` and the mutex from its read of the
file to the opening of the debounce window; the reload happens in a goroutine
of its own up to several seconds later, without a lock. A plan takes the mutex
for every single step and releases it in between. sing-box reads the file
without any lock. Handlers read the configuration, sometimes twice, before they
call the client, which reads it again. Requests come from the control plane and
from its retries; the agent's own calls to the control plane are retried as well.

What makes each part correct:

* client: no update is lost, every write is followed by a reload, a rollback
  takes away nothing but the writes of its own window, every request ends;
* handlers: an answer was true at some moment of the request, a subscription
  never mixes two users;
* engine: the version it reports is what the file serves, it never goes back,
  a failed plan is undone, applying a version again takes nobody out of service,
  the status always leaves "syncing";
* the agent as a whole: when idle, sing-box runs what is on disk; a damaged file
  is not overwritten;
* lifecycle: what is reported was applied, a failed fetch is never applied, the
  agent catches up, Stop ends all tasks;
* metrics: no byte is counted twice and, without a restart, none is missed;
* idempotency: a retry gets the original answer, a key keeps its answer until
  it expires, the store stays within its limit;
* nonce cache: a message is accepted once, map and queue agree.

## Modules

`ConfigFile` declares the shared state. `disk` is the file (a document or
`Torn`), `lock` the holder of the mutex, `loaded` what sing-box runs (or
`Down`), and `Reload(ok)` one call of a reloader. A document sing-box accepts is
run; one it refuses leaves the old instance or none, and is reported by the
systemctl and command reloaders but not by a signal (`ReportsFailure`); a call
may also fail for a reason of its own (timeout, cancelled request), at most
`MaxFlakes` times. `unseen` is a history variable: a client write no reload has
been tried after.

`ConfigClient` has one action per section of `client.go` that no lock protects
from interleaving: `Begin` (take `c.mu`), `Load` or `Refuse` (take the mutex,
read, edit), `Save` or `SaveFails` (the rename of `writeFileAtomic`),
`Schedule` (the debounce section and the return), `TimerFire`, `TakeWindow`,
`FirstReload`, `RollbackCheck`, `Restore` or `RestoreFails`, `RetryReload`. The
documents and the edits are constants here. Timers are objects: `Reset` may
re-arm one that has fired and whose goroutine has not yet run. The variables
`live`, `own`, `kept`, `cown` and `ckept` are history: which writes are in the
file, which ones belong to a window, and which ones its rollback bytes contain.

`ConfigStore` is what the handlers rely on: a document that a request changes in
one step (`Change`), that a rollback may take back to an earlier one (`Revert`),
and the copies of earlier documents somebody still holds (`snapshots`).
`ConfigClient` implements it (`ImplementsStore`): `doc` is `disk`, and
`snapshots` the documents held in the window's `original`, in the goroutines'
copies, and in a request's `previous` (`Held`). `Save` is a `Change`, `Restore` a
`Revert`; everything else is a `Forget` or a stutter.

`ConfigData` gives the documents and edits: inbounds with users in the two forms
the two writers give them, the statistics names, the REST client's six edits,
the manager's six, the diff, the order of a plan's steps, and each step's
execution and rollback. A document is abstract: an inbound's type, address and
options are one value, a user is its SubID, its uuid and one value for the other
fields. What is kept is what the diff and the rollback tell apart: whether the
users lie in the inbound or under `options`, whether an entry has a name, and
which fields are read back.

`RestHandlers` has the eight handlers for inbounds and users and the two for
subscriptions. Each is a goroutine that goes through its reads (`ReadInbounds`,
`ReadUsers`), its client call (`Call`, one step, since the client implements
`ConfigStore`) or its map (`Lookup`, `StoreRecord`), and answers. Which of these
an operation has, and what it answers when a look fails, is in `AfterInbounds`,
`AfterUsers` and `Call`. A subscription record is reduced to whose credentials
and whose options it carries. `Rollback` is `ConfigStore`'s `Revert`.

`SyncEngine` has one action per step of a synchronisation: `Push` and `Pull`,
`BeginReconcile`, the two reads, `BeginApply`, `ExecStep` and `Fill` (the
truncation and the write of `os.WriteFile`), `ExecDone`, `ReloadStep`,
`UndoStep` and `Refill`, `UndoDone`, `ReReload`, `Succeed`, `Fail`. Plans, their
execution and their undoing are constants. A pull takes the published version or
version 0, the zero Config that `doJSON` leaves when a successful answer has no
data. What a version desires is a function of the version; an answer without data
desires nothing.

`SyncPlans` is the engine over the documents and plans of `ConfigData`. It has the
properties that speak of the contents of documents, and what they ask of the
world: `Trusted` (what the control plane sends and the agent finds) and `Serial` (no
two synchronisations overlap).

`Agent` composes `ConfigClient`, `SyncEngine` and the explicit reloads over one
`ConfigFile`. In the code the engine's reads also take `c.mu` for reading; the
model lets them go ahead while a request waits for the mutex with `c.mu` held,
which only adds interleavings. `Server` adds the end of the process, at any
moment, and its restart: everything in memory is gone, the file and sing-box
stay as they are, and neither the shutdown nor the start asks for a reload.

`ControlPlane` has the three goroutines of the lifecycle, with the control plane
reduced to the newest version and the set of versions reported to it. A call is
a loop of attempts: answered, refused, lost, received without an answer
(`SendFails`), or not sent because the context is cancelled; `Wait` is the
select of `Retry`. Applying is one step here (`SyncEngine` has it in detail).

`Traffic` has sing-box counting and restarting, the collection loop with its two
queries per inbound, and the collector. What travels between them is a constant;
`StatsCodec` has the encoder and decoder, with the base of a digit as a constant
so that small numbers take several bytes, and `TrafficWire` has one query over
it: the service reads the agent's request and may send the fields of its answer
in either order and with fields the agent does not know between them.

`Idempotency` and `NonceCache` each have one action per critical section, with a
clock that ticks at any moment.

The `MC*` modules give the constants values and hold the properties that speak
about them; `ControlPlane` is run as it is. Definitions
whose comment begins with "Mutant of" are plausible mistakes in the code;
replacing the definition by its mutant makes the property named in
`PROJECT.json` fail.

## Runs

Bounds are named constants with guards: `MaxWrites`, `MaxSyncs`, `MaxVersion`,
`MaxRequests`, `MaxArrivals`, `MaxMoved` and `MaxTime` limit how often something
happens, `MaxFlakes`, `MaxFaults`, `MaxIOFaults`, `MaxFailures`, `MaxReverts`
and `MaxRestarts` how often something fails. All runs allow the system to stop:
clients need not send anything.

| Run | Result | Shows |
|---|---|---|
| `client` | pass | three requests from two goroutines, two timers, two timer goroutines, a failing read or write, a flaky reload: no lost update, no forgotten reload, an idle client runs what is on disk, a rollback spares newer writes, the client implements `ConfigStore`; under fairness every write is reloaded and every request answered |
| `rest` | pass | three concurrent requests out of fifteen, a failing read or write, a rollback, a map with room for one record: answers were true, subscriptions are genuine |
| `sync` | pass | one goroutine that pushes or pulls, three versions of which sing-box refuses the last, answers without data, two flaky reloads, a failing read or write: the reported version is served, plans can be executed, a plan whose reload fails is undone unless it drops an inbound with its users, applying a version again changes nothing for its users; every synchronisation ends |
| `agent` | pass | requests, a puller, explicit reloads and one restart of the process: the parts' properties in the composition, only a restart forgets a reload, an idle agent runs what is on disk, a file left half-written is never replaced |
| `control_plane` | pass | two versions, two retries, three faults among lost requests, lost answers, refusals, empty answers and failed applies: reports are true, only published versions are applied, retries wait the doubled and capped delays; under fairness the agent catches up, and Stop ends every task |
| `traffic` | pass | an inbound that goes and comes back, two restarts, a failing query, eleven messages for zero and ten for each other value: decoded as sent, nothing counted twice, exact without a restart; under fairness every amount moved is counted |
| `idem_store` | pass | two requests, room for one key: limit (a new key is refused), expiry and ownership of answers |
| `nonce_cache` | pass | three nonces, room for two, the smallest TTL the assumption allows: map and queue agree, a message is accepted once unless its nonce was evicted |
| `agent_rollback` | violation | a sync step within a debounce window is rolled back with it |
| `sync_stale_version` | violation | an older version, or an answer without data, replaces a newer one |
| `sync_drop_inbound` | violation | the rollback of a dropped inbound with users stops half-way |
| `idem_concurrent` | violation | a retry during the original runs the handler again |

The violations are disagreements between the code and its comments or
documentation, quoted under `findings` in `PROJECT.json`. Two more findings belong
to passing runs, whose properties state what the code does where the documents say
something else:

* `DamageIsKept` (run `agent`). SECURITY.md and CHANGELOG.md call the writing of
  the configuration atomic. `saveConfigMap` uses `os.WriteFile`, which truncates
  and then writes; a restart in between leaves half a file, and since every writer
  reads before it writes, requests and synchronisations of all later processes
  fail until an operator repairs it. The property is the good side of that: nobody
  takes the damage for an empty configuration and writes over it.
* `KeptUntilExpiry` (run `idem_store`). The specification describes an LRU cache
  of keys that remembers every new key. `Store` refuses a new key when it is full
  and the middleware drops the error, so the new request is not remembered and no
  old one is evicted.

The passing runs leave out, on purpose, inputs for which the code does not do
what the property asks; they follow from the same definitions:

* `RollbackSparesNewerWrites` is checked for writes that never give the bytes of
  an earlier one again. `needRollback` compares bytes, so a later window that
  recreates a deleted user is taken for the earlier one.
* `PlanIsExecutable` is checked for desired states that move nobody (`OneHome`).
  `DiffUsers` pairs users by SubID, so a user moved to another inbound becomes an
  update of a user that inbound does not have.
* `FailedPlanRestores` is about plans that drop only inbounds without users of
  their own (`sync_drop_inbound` shows the other case, with `FailedApplyRestores`,
  which does not exclude it) and that fail without a failing read or write: the
  step that fails is rolled back too, and its rollback's error ends the others'.
* `VersionNeverRegresses` is checked in `sync_stale_version` alone. Even with one
  syncer an answer without data takes the version back to 0.
* `DriftCheckKeepsService` is about what the file serves. A drift check is not
  idle: the file that a synchronisation wrote always differs from the desired state
  for `inboundsDiffer`, so each check edits the file and reloads sing-box.
* `SyncedServesDesired` and the other three properties of `SyncPlans` are checked
  for one syncer and without a REST client. Two plans made from one file interleave their steps, and with a
  pusher and a puller that overlap TLC finds each of the four violated.
* `QuietAgentRunsDisk` says nothing after a synchronisation that gave up (a plan
  that fails before its reload is rolled back on disk without one: `spoiled`) and
  after a restart (`orphan`), until sing-box has read the file again.
* `LiveUnlessCached` says nothing about a record found in the map. The map is
  never emptied and, once full, takes no newer record even for a SubID it has,
  so a record in it may be older than the user it describes.
* `AnswersWereTrue` leaves out requests that met a failing read: `inboundExists`
  takes one for "not found".
* `WholeWhenUnlocked` is about readers inside the agent. sing-box does not take
  the mutex, and a reload may meet a truncated file; the model treats it as a
  configuration sing-box refuses.

Why the bounds are enough. Client: a race of two windows needs a request that
opened the first, one that opens the second while the first's goroutine is
between its sections, and one that changes the file in between; three requests,
two timers and two goroutines give all of it. Handlers: an answer depends on at
most three looks of one request, and a document changes between them by another
request, by a third one that undoes it, or by a rollback. Engine: the plans have
up to five steps, so a failure can come first, in the middle and last; with the two
syncers of `sync_stale_version` every pair of steps interleaves. Agent: one request
goroutine with two requests, two windows and a syncer that runs twice, before and
after a restart, through a desired state with a user and the empty one; the
restart may come between the truncation and the write of a step.
Control plane: a call can fail on every attempt (two retries, three faults), the
delay reaches its cap on the second retry (2, then 3 instead of 4), and the
initial pull can hold an old version while a drift check applies the new one.
Traffic: the two directions of an inbound stand for all counters, which do not
interact; a burst of 4 of at most 8 bytes lets a restarted counter fall short
of, reach and pass its old value; with Base 2 the values take one to four bytes.
The messages that travel in the run are those for 0, 4 and 8, all well-formed;
other values, the 64-bit edge and what the decoder does in general are the
theorems' part.
Idempotency and nonces: time runs past one TTL, and there is one more key (or
nonce) than fits.

Fairness. `ClientFairness` and `EngineFairness` are weak fairness of every
goroutine that has started and of every armed timer: Go runs each runnable
goroutine, no lock is held across an unbounded wait (a reload has a 30 second
timeout and is made without a lock), and timers expire. Nothing makes a client
send a request, so the start of a request has no fairness. `EventuallyReloaded`
relies on `MaxWrites`: a client that never pauses for the debounce interval
could postpone the reload for ever. `ControlPlane` has weak fairness of each
task, including the tick that starts the next round (attempts end by an answer
or by the HTTP client's timeout), and strong fairness of a loop's `ctx.Done`
case: between two rounds the loop waits in its select with the context already
done, usually with no tick pending, and Go chooses at random when both are
ready. `Traffic` has weak fairness of a collection round; failing queries are
bounded by `MaxFailures`, since a service that never answers is never counted.

## Proofs

TLAPS checks these for every value of the constants.

`ServerProofs`, first part, the REST client: `ClientTypeCorrect`, `ClientNoLostUpdate`,
`ClientNoForgottenReload`, `ClientRunsWhatIsOnDisk`. The inductive invariant is
`ClientInv`. Its first part, `ClientCore`, is about the client's own state and
holds beside another writer too: the types; who holds `c.mu` and the mutex at
each point of the code (`LockInv`), without which a rollback might write while a
request is between its read and its rename; what the locals hold there
(`LocalInv`); and that the fields of the debounce window are set and cleared
together and a set timer is armed or has fired (`WindowInv`), without which
`Reset` could extend a window nobody will take. Each action has a lemma with one
step per part. `ReloadStaysDue` and `FreshInv` (only an unseen write separates
sing-box from an acceptable file) add what the reloads do. `ClientStepMoves` says
what any step of the client may do to the mutex, the file and sing-box, and
`ClientUntouched` which steps of somebody else leave `ClientCore` alone; the
composition is proved from those two.

`ClientImplementsStore` is the refinement of `ConfigStore`. Besides `ClientInv` it
needs `EditInv`: what a request is about to write is an edit of the document it
loaded. `NoLostUpdate` then makes its rename a `Change` of the document on disk,
and `LocalInv` makes a rollback's bytes one of the `snapshots`.

`ClientRollbackSparesNewerWrites` is `RollbackSparesNewerWrites` under the
hypothesis `NewBytes`: no request under way has the bytes that a window on its
way to a reload or rollback wrote. The code does not ensure it, and without it the
property is false, because `needRollback` compares bytes; requests that delete
what another created, or write what is there already, are within the hypothesis
as long as they do not meet such a window. The windows under way are ordered by
the numbers of their writes. A document fits the windows before it (`Fits`) when,
if it has the bytes of one of them, that window is the last and accounts for
every write in the document. `RollbackInv` says that the file fits all windows
under way and that the bytes each window would restore fit the earlier ones, so a
rollback leaves a file that fits; the open window and a request between its
rename and its debounce section need the same (`OpenInv`, `SavedInv`). TLC checked
the invariant first, with deletions and under the hypothesis as a constraint, and
`NewBytes` itself holds in the run `client`.

`SyncEngineProofs`: `EngineTypeCorrect`, `EngineWholeWhenUnlocked`,
`EngineSyncingMeansActive` from `EngineInv`, whose `HoldInv` says that exactly
the syncer that truncated the file holds the mutex and has a document to fill it
with. `EngineCore` and the lemmas about the engine's moves play the part that
`ClientCore` plays for the client.

The same module's second part, the plans, is about `SyncPlans`:
`PlansAreExecutable`, `SyncedMeansServed`, `DriftCheckIsHarmless` and
`RollbackRestores` state its four properties for all documents, all desired states,
plans of any length and every order that Go's maps may give the steps of a group.
Their hypotheses:

* `Documents`: the constants of `SyncEngine` are what the configurations of the runs
  make them (`Document`, `Reconcile`, `ExecuteStep`, `RollbackStep`,
  `AttrsAccepted`);
* `Trusted`: no two inbounds of one tag and no two users of one SubID in an inbound
  of the installed file or in a desired state, every desired user's inbound is
  desired too, and nobody is asked to move (`OneHome`). The code checks none of it.
  `MCSyncEngine` asserts it of the instances (`InstanceTrusted`);
* `[]Serial`: no two synchronisations overlap, which nothing in the code ensures.
  Any number of syncers may exist and take turns, pushing and pulling.

Without `Serial` each of the four is false, as TLC shows with two syncers; in the
run `sync` it holds in every state.

The argument has three layers, the first two in `ConfigDataProofs`. A document is
reduced to what it says, a set of facts (`Facts`): there is an inbound with this
attribute, this user has this uuid in this inbound. Each of the manager's six edits
changes the facts of one kind and name and keeps a document tidy (`Edited`), and a
change of the diff is about one kind and name (`About`). After a set X of changes a
document has been reached (`Reached`) when it says of the names X is about what is
desired, and of the others what it said before, so the order within a group does
not matter. `Executes` shows that a step succeeds and adds itself to X if the
changes of lower rank are in X: users come after the inbounds they live in and
inbounds go after their users. `Undoes` takes it away again if those in X have no
higher rank, and `ReconcileInOrder` shows that the sequences of `buildSteps` list
every change once, in that order. One thing beside the facts has to be carried
along: an inbound that had a list of users of its own keeps one (`FlatTags`). Undoing
the update of such an inbound writes its remembered users under `options`, where
they change nothing only because the list of its own goes first. The third
layer is the invariant `PlanInv` of the engine: a syncer's plan is one for the file
it saw, and the document on disk, or in the buffer of an open write, is reached by
the first `pos` steps (`OnTheWay`); an idle engine that reports a version has a file
that says what that version desires (`AppliedInv`). Errors other than those of the
disk are then impossible before the reload, and a reload that fails, unless it fails
by itself (`flakes`), has met a refused inbound the control plane asked for.
`RestoreInv` follows the rollback back to the first step.

`ServerProofs`, second part, is about the whole agent with its restarts:
`ServerNoLostUpdate`,
`ServerWholeWhenUnlocked`, `ServerSyncingMeansActive`, `ServerOnlyARestartForgets`,
`ServerQuietRunsDisk` and `ServerDamageIsKept`. A step of one part leaves the other's core alone, since
it changes the file only while it holds the mutex. What sing-box runs differs from
an acceptable file only while somebody still owes a reload: an unseen write of the
client, a plan between its first step and its reload, a restart (`orphan`) or a
synchronisation that gave up (`spoiled`). For the damaged file the invariant adds
that the file is whole while a request or a rollback holds the mutex (`HeldWhole`):
a request parses it first, and a rollback goes on only if it finds the bytes its
window wrote, which are a whole document (`DamageStays`).

`RestHandlersProofs`: `RestTypeCorrect`, `RestAnswersWereTrue`,
`RestRecordsAreGenuine` and `RestLiveUnlessCached`, over arbitrary documents in
which no two inbounds have one tag (`UniqueTags` of the installed document, which
sing-box asks for; that the edits keep it is proved). The first half is about the
REST client's edits: from what a search finds, and what removing a user and
flattening the users of all inbounds give (`ConfigDataProofs`), follows what each of
the six makes true of the document it returns, and of the one it refuses
(`ClientEdits`). The
invariant says of each handler what the looks it has behind it showed
(`InTheMap`, `Looked`) and that its answer, once given, was confirmed by a document
of its time (`Said`), and of the map of subscriptions that its records are genuine.

`TrafficProofs` has three parts. The first is the codec: `RequestRoundTrip`,
`ResponseRoundTrip` and `ServiceRead`, for every base, every 64-bit number and
every list of patterns, Stats or unknown fields. `AllDigits` shows by induction on
the number that `varint` adds up the digits `appendVarint` wrote; it needs what a
number is worth from a place on (`WorthSplit`), and that ten digits are enough for
a number below 2^64 (`WorthLast`). Every reader fails or leaves fewer bytes than
it was given (`Reading`), which is why the loop of the `Unmarshal` methods ends
and unfolds field by field (`FieldsUnfold`) on any input. `Carries` says that the
loop finds given fields in front of whatever bytes follow: tags with their
payloads carry one field, and what carries can be put together, any number of
times (`CarriesAll`). The messages are such compositions.

The second part is the collector: `TrafficTypeCorrect`, `CollectorNeverOvercounts`
and `CollectorExactUntilRestart`, each under the hypothesis that answers are
decoded as they were sent (`DecodesWhatWasSent`). The invariant says of every value
on its way to the collector that counting it is safe (`Safe`): what has been
exported, the difference the value adds and the one that sing-box's counter adds
after it stay within what was moved. It has to hold for sing-box's own counter
(`CounterInv`) and for the values in the loop's hands (`PendingInv`), which may be
older than a restart. `FirstRunInv` is its sharper form before the first restart:
values lie between the last one observed and the counter.

The third part joins them: `AgentDecodesWhatWasSent`, and from it
`CollectorOverTheWire`, which has no hypothesis about decoding. `Wired` says that
the constants of `Traffic` are what they stand for: the replies for a value are
messages of the service (`Messages`), and their value is what `queryStats` reads.
`MCTraffic` takes its replies from that set and its values from `queryStats`. The
counter has to stay below 2^63 (`TrafficWireAssumption`), since the agent makes a
negative `int64` a zero.

`ControlPlaneProofs`: `PlaneReportsAreTrue`, `PlaneAppliesPublished` and
`PlaneWaitsDouble`. A task whose call is a status report carries a version that was
applied (`ReportInv`), and one that is about to apply carries a version that was
published, or the empty one after an answer without data (`FetchInv`). For the
waits the loop of `backoff`, which doubles and stops at the limit, is shown to give
the capped double for every attempt (`BackoffDoubles`).

`IdempotencyProofs`: `StoreTypeCorrect`, `StoreNeverOverfull`,
`MiddlewareAnswersOwnRun` and `StoreKeepsUntilExpiry`. A response, wherever it
is, belongs to the run it names (`OwnerInv`), and runs are only appended; the
limit needs that the set of keys is finite (`FullInv`).

`NonceCacheProofs`: `NonceTypeCorrect`, `NonceQueueMatchesCache` and
`NonceAcceptedOnce`. The queue has every nonce of the map once (`QueueInv`); a
request under way arrived at most `ReadTimeout` ago and within `Skew` of its
timestamp (`FlightInv`); a message that was accepted is evicted, too old for
anybody to present, or still in the map under a time no earlier than its
timestamp less `Skew` (`SpentInv`). That is inductive because the code's TTL is
at least twice the skew and the read timeout (`NonceCacheAssumption`).

Recursive functions (the filtered list of `only`, the flattened list of
`GetUsers`, the documents of `Stages`, the delays of `backoff`, the sums of `WaitsDouble`, the digits and
fields of the codec) are reasoned about without the library's induction theorems,
whose operator parameters the provers cannot instantiate: `Least` takes the least number
for which a claim fails from the well-foundedness of the natural numbers, and
`Reaches` says that a claim that holds at the first number and passes on to the
next holds up to the last; `Everything` is the strong induction over all numbers,
stated for the set of those that satisfy the claim. That such a function exists and follows its equation
is proved the same way, from longer and longer initial pieces (`Recursion`,
`FilterExists`, `FlattenExists`).

Assumptions: the named `ASSUME`s of the modules, which keep the special values
apart and the bounds natural numbers, say that the installed document has unique
tags, and for the nonce cache relate its TTL to the skew and the read timeout.

Only model-checked: liveness (`EventuallyReloaded`, `RequestsAnswered`, `SyncingEnds`,
`EventuallyCaughtUp`, `StopEndsTasks`, `EventuallyCounted`), which is out of the
prover's reach; and `RollbackSparesNewerWrites` without `NewBytes`, which the
documents of the run `client` satisfy. Every invariant of a passing run is a
theorem.

## Not modelled

* The readiness probe: one read and one answer. (It asserts the status' state to
  be a `string` while it has the type `SyncState`, so a failed synchronisation
  does not make it answer 503, although its comment says so.)
* The statistics endpoint and `UserTrafficBatch`: they hand on what a query
  returns and keep nothing.
* The exported `Plan.Rollback`, `DryRun`, and the messages GetStats and SysStats
  of the codec: nothing calls or sends them.
* The encoding of users for protocols other than vless and vmess.
* The backup file `.agent.bak`: written, never read.
* Prometheus gauges and the registration of metrics; bearer token and HMAC
  computations; TLS, routing and logging; configuration loading and the process
  entry.
* The list handlers for inbounds and users, which only read.
* `reloadSystemService`, the client's reload without a reloader: `server.New`
  always injects one.
* Restarts in `NonceCache` and `Idempotency`: both keep their state in memory, and a
  message or key of before a restart is new to the next process. The periodic
  `Cleanup` of the idempotency store, which the server never starts, is modelled; it
  only adds behaviours.

Simplifications of the data, in the comments of the definitions: a user entry is
found by its SubID, while the code also accepts one whose name, email or uuid (in
the manager: sub_id, uuid or name) equals the SubID asked for; requests for
inbounds carry no users among their options; an inbound that a plan writes always
has an `options` key, as one with any option has; repeated tags, of which the diff's
maps keep the last, are excluded by `Trusted`; a reload reads the file at one
moment within the call, while a signal or `systemctl` may have it read a little
later; in `Traffic` the file and sing-box have the same inbounds, and all of them
have tags; a subscription record does not show the options of a shadowtls
inbound's detour; in `NonceCache` the server's read timeout bounds the whole check
of a request, the wait for the mutex included.

## Plan

1. Done: the two writers of the file and their composition, the request filters,
   and their first proofs; then the process and its restart, the abstract store
   and its refinement, the handlers and subscriptions, the control-plane client
   and the lifecycle, the traffic metrics and the codec; then the proofs for the
   composition, the handlers, the retries, the rollback, the codec and the plans.
2. Left: a statement about desired states that move users or name two users with
   one SubID, for which the code's plans fail; two overlapping synchronisations, and
   plans beside requests, for which the properties of the plans are false as the
   code stands; restarts of the request filters; the protocols other than vless and
   vmess.
