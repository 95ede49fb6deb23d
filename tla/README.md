# A TLA+ model of molu

molu is a stdio MCP server written in Go. An agent (the MCP client) calls the
tools that molu lists; molu checks each call, translates it into HTTP requests
to **xolu**, the store behind it, and maps what xolu answers to a small taxonomy
of codes the agent can act on. The package `hub` is the beginnings of a registry
where publishers register tools of their own.

This directory holds TLA+ modules for the parts with state, TLC configurations
that check them on small instances, and proofs for TLAPS. `PROJECT.json` lists
the components, runs, mutants, hazards and theorems, and maps every definition
to the lines of Go it stands for.

    tlc -workers 2 -config MCHealthz.cfg MCHealthz   # one run
    tlapm HealthzProofs.tla                          # one module of proofs

## 1. Inventory

| Part | Source | State it keeps | Operations | What is hard |
|---|---|---|---|---|
| Probe | `pkg/exec/probe.go` | last pong, last failure, failures in a row, next retry | `WaitReady`, `Run`, `pingOnce`, `Healthy`, `Check` | pings in flight while calls read the state; the pong is stamped late; backoff |
| Schema loader | `pkg/schema/loader.go` | the catalogue of primitives | `Load`, `Refresh`, `Run` (ticker), `GetPrimitives` | two refreshes at once, retries |
| MCP server | `pkg/mcp/server.go` | the offered list, the writer of stdout | `HandleMessage`, `UpdatePrimitives`, `executeTool`, `Serve` | notification and responses from two goroutines; a gate that is asked early; errors read as text |
| xolu client | `pkg/xolu/*.go` | none | `Execute`, `doRequest`, `executeList`, `executeDescribe`, calendar calls | one call, many requests; writes whose answer is lost |
| Process | `cmd/molu/main.go` | ctx, the signal channel | startup, signals, shutdown | one slot for three signals; goroutines that block on stdout |
| Hub registry | `pkg/hub/registry.go`, `publisher_api.go` | two indices and the schemas they share with callers | `Register`, `Update`, `Unregister`, lists | ownership; aliasing of maps |
| Hub discovery, RPI | `pkg/hub/discovery.go`, `pkg/rpi` | none | `ListTools`: snapshot, `Admit`, `Score` | publishers go on while a list is made |
| Log rotation | `pkg/telemetry/rotation.go` | the open file and its size; files on disk | `Write`, `rotateLocked`, `compressFile`, `cleanupOldFiles`, `Close` | goroutines without the lock; failing renames; kills |
| Health endpoint | `pkg/telemetry/health.go`, `main.go:160` | the last good ping of a second ping loop | `SetXoluStatus`, `Ready`, `Handler` | two clocks and two windows that know nothing of each other |
| Loggers | `pkg/telemetry/logger.go`, `types.go` | contexts and maps of fields, shared by reference | `WithContext`, `WithFields`, the four domains | what one branch adds must not show in another's lines |
| Configuration | `pkg/config/config.go`, `pkg/telemetry/config.go` | none | `LoadFromEnv`, `validate` | what is accepted here and fails later |
| Taxonomy, schema validation, bridge, metrics, middleware, obs | the rest of `pkg` | none that changes | pure functions, parsing, wrappers of libraries | |

They interact like this. `main` waits for the probe, loads the schemas, wires
loader and server and starts the goroutines: stdio, the probe's `Run`, the
loader's ticker, the health ping and the signal handler. A `tools/call` asks the
probe (gate), the server's list (offer), the loader's catalogue (contract), then
the client. SIGHUP refreshes the loader and copies its catalogue to the server,
which notifies the agent; the ticker refreshes the loader only. SIGTERM and
SIGINT cancel ctx. Registry and discovery are used through the publisher API and
are not started by `main` yet; nor is the rotator (`logger.go:412` opens a plain
file).

What makes each part correct: the probe never raises a false alarm, never keeps
an old verdict and comes back after an outage; a client never stays with an old
list it was not told about; a code never tells the agent that a write did not
happen when it may have; a startup whose attempts are limited ends, and SIGTERM
ends a process that has started or whose startup ends; a name in the registry has
one owner and a list shows one moment; no accepted log line is lost; a read of many
requests is whole or says that it is not; a booking that xolu holds is one the
agent can name; an accepted configuration does not end the process later.

## 2. Modules

| Module | Models | Composes |
|---|---|---|
| `Probe`, `Backoff` | the goroutine of the probe on a discrete clock, `nextDelay` | `MCProbe` gives `Probe` the delays of `Backoff` |
| `Healthz` | the second ping loop and `/healthz` | extends `Probe`: two loops, one xolu, one clock |
| `HotReload` | loader, ticker, signal handler, `UpdatePrimitives`, `Serve`, the pipe to the client that lists and calls | |
| `AtMostOnce` | abstract: a write takes effect at most once, and what the agent is told of it stays true | |
| `ToolCall` | `executeTool` and the requests of one call | implements `AtMostOnce` |
| `ListPaging`, `Describe`, `Calendar` | `executeList` page after page, `executeDescribe` request after request, the four calendar calls | `MCClient`: the agent makes one of them |
| `Config` | `LoadFromEnv`, `validate`, the telemetry configuration | |
| `Lifecycle` | `main` from start to exit, the signal channel, stdio | extends `Config`, uses `Backoff` |
| `Registry` | registry and publisher API, with maps as references | implements `Catalogue` |
| `Catalogue` | abstract: named tools with one owner each | |
| `Discovery` | `ListTools` over any catalogue | extends `Catalogue` |
| `LogRotator` | rotation, compression, cleaning, restarts | |
| `Logger` | the loggers derived from one another | |
| `HealthzProofs`, `HotReloadProofs`, `ToolCallProofs`, `LifecycleProofs` | theorems about `Probe`, `Backoff` and `Healthz`; `HotReload`; `ToolCall`; `Lifecycle` and `Config` | each extends the modules it is about |
| `HubProofs`, `TelemetryProofs`, `ClientProofs` | theorems about `Registry` and `Discovery`; `LogRotator` and `Logger`; `ListPaging`, `Describe` and `Calendar` | the same |
| `Induction` | lemmas: induction over numbers, recursive functions unfolded | used by `HealthzProofs` and `ClientProofs` |

How state and actions correspond to code:

- **Probe**. The five variables of `ProbeState` have the code's names; `pc` says
  where the goroutine is (start ping, start wait, arm, wait, ping), `due` when
  its timer or its ping ends. A ping is two steps, so anything may happen while
  it is out. `Pong` and `Fail` are the end of `pingOnce`, `Arm` is the part of
  `Run` that publishes `NextRetryAt`. xolu goes up and down at will; a ping may
  succeed if xolu was up at some instant of the flight and fail unless it was up
  throughout.
- **Healthz**. `LoopPings` and `LoopAnswered` are the two halves of the closure in
  `main.go:160`; a tick that fires while a ping is out is dropped, as a
  `time.Ticker` does. `SetXoluStatus(FALSE)` changes nothing: only the window
  turns the verdict. `Handler` reads `Ready` and the time of the ping in two
  critical sections; only the first decides the status, so it is one step here.
- **HotReload**. A catalogue is the version of xolu it was fetched from, or
  `Blank` (a 4xx whose JSON decodes to nothing). Each refresher goes asked,
  answered, swapped, and the signal goroutine further: read, replaced (list
  swapped under `mu`), notified (under `writeMu`). `pipe` is stdout; a full pipe
  blocks both writers. A call is offered from one catalogue and validated
  against another, in two steps. `late` is history: whether the loader's catalogue
  was put there by a refresh that another had overtaken.
- **ToolCall**. A call walks gate, offer, contract, request, answer, finish. A
  request that was sent lives on its own in `atXolu`, so xolu may apply a write
  after the client gave up. Error text is the set of words the code looks for.
  A `describe` that was given a name may end in NOT_FOUND although xolu answered
  every request (`NothingOfThatName`, `describe.go:70`).
- **ListPaging**. `rows` is xolu's table after filtering; `Read` is one request
  and the loop body after it; others insert and delete between reads.
- **Describe**. `todo` holds the per-item requests that the listing of a group
  calls for; items are identified by name.
- **Calendar**. A call takes its calendars from `calendars` or `calendar_id`, in
  the order the operation reads them (propose and confirm read them in opposite
  order). A proposal is on its way until xolu applies it, its answer may be lost,
  and the id it was given comes from the arguments or from the clock. A
  `booking_id` that is null becomes the text `<nil>`: one id, for every call that
  does this. That a proposal expires is xolu's affair and left out.
- **Config**, **Lifecycle**. An environment is a function from the variables that
  are set to their values; `Problems` is what `LoadFromEnv` reports. `phase` is
  where `main` stands, `handler` and `serve` are the two goroutines that can
  block, `sigCh` the channel of capacity one. `PingFails` and `LoadFails` stop at
  `MaxFailures`, a bound of the model; the specification does not assume that an
  attempt succeeds there, so a process that stands still at the bound stands for
  one that fails for ever.
- **Registry**. A registration holds its schema as a *cell*, as a Go map is a
  reference: `Own` cells belong to callers, `Stored` to the registry, `Copy` to
  readers. A missing deep copy makes two of them one cell.
- **Discovery**. A call takes a snapshot, asks `Admit`, then `Score`; `since`
  remembers the catalogues that existed during it. The static rules are keyed by
  tenant and role joined with a colon, as in the code, so that two pairs may share
  one key (`Key`); texts are sequences of the parts between their colons. `main` wires discovery to a
  fresh registry that nobody publishes to, so its `discovery/list` is always
  empty; the model has publishers, as the package is meant to.
- **LogRotator**. A write is one step under the mutex, `rotateLocked` included;
  the compressing goroutine goes open, create, remove original, close (the
  deferred flush of gzip comes last, as in the code); the cleaner holds one
  cutoff and removes file by file; `Restart` is a kill and `NewLogRotator`.
- **Logger**. `loggers` is a sequence of wrappers, each with the number of the one
  it wraps, and references into `contexts` and `maps`. `WithContext` on a logger
  that has fields drops them, and on a plain logger it ignores a context without
  ids, as the code does; `Line` is what a line of a logger carries.

Definitions whose comment begins with *Faulty variant* are what a plausible bug
would make of the definition below them. Nothing in the specifications uses
them; putting one in place of its original shows that a property can fail.

## 3. Runs

Where one run checks two modules that do not share state (`hub`, `telemetry`,
`client`), its specification chooses at the start which of them moves and lets
the other rest: the states are the sum of the modules', not their product, and
every property is asked of each.

| Run | Properties | Bounds, and why they are enough |
|---|---|---|
| `health` | no false alarm of gate or endpoint, evidence behind an open gate and behind an ok, bounded recovery, honest retry hints, startup gives up in time, capped doubling, gate and endpoint agree again after any change | both windows cover a cycle *exactly* (1 + 1 = 2, 2 + 1 = 3), so one tick more anywhere breaks them; 8 ticks hold several cycles of each loop. The scheduler's lag is 0 here, the theorems cover every lag |
| `hub` | indices agree, refusals change nothing, only owners withdraw, views are isolated, `Catalogue!CatalogueSpec`; an answer is the admission of one catalogue of its time | two publishers, a primitive's and a function's name, one request per rule of `validate`, one reader with its own copies; one agent (agents share nothing), two tools of two owners, two pairs of tenant and role with one key, three catalogues during a call |
| `hot_reload` | a stale client is told, a loader goes back only where refreshes overlap, a call in hand meets an older contract only after an overtaken refresh, SIGHUP publishes what is recent, the client catches up | two versions of xolu (old and new) and the blank one, a pipe of one message, so that each writer can find it full |
| `hot_reload_ticker` | *violation*: `RefreshReachesServer` | the same without the blank catalogue |
| `tool_call` | `AtMostOnce!Spec`, a success is whole, a red probe costs one call at most, every call ends | one tool of each kind the code tells apart, two calls (an old one in flight beside a new one), two requests each |
| `tool_call_words` | *violation*: `NotFoundMeansMissing` | an id that contains the word |
| `lifecycle` | an accepted configuration wires, the load keeps the probe's schedule, startup is not cancelled, a startup with limited attempts ends, a SIGTERM in the channel stops a process that has started or whose attempts are limited | some sixty environments: each number alone at zero, each choice and its companion wrong in turn, a boolean that is none, limits of every sign, delays that double below, up to and past the ceiling; six failures in a row |
| `lifecycle_term` | *violation*: `TermIsHeard` | the same |
| `lifecycle_telemetry` | *violation*: `BadTelemetryIsRefused` | the same; among them a path without a slash, a path given twice, ports that are no number or out of range |
| `telemetry` | a young line that was accepted is held unless two rotations shared a second or a flush failed; files are bounded; a line shows its own derivation and nothing else | files of two lines, five lines, four seconds and a retention of one: two rotations in one second and in different ones, files that expire while they are compressed; four loggers (a chain, a fork, two requests), one id, one label, one field, two values |
| `log_rotator_loss` | *violation*: `NothingIsLost` | files of one line, three lines |
| `client` | a list follows its rows and costs its window, a describe is whole, a 404 has a cause, a check is true of each calendar, a booking can be named and confirmed | pages of two rows and windows over up to three pages, six rows, two changes; two names, all groups and scopes, one change; two calendars, lists of up to two, one id of the agent's own, three calls and two changes of others |

Deadlock is not checked where the modelled program ends by itself: a process
that exits, a clock that reaches its bound, a read that has been answered. The
`MC` modules of registry, probe and rotator have no run of their own: `MCHub`,
`MCHealthz` and `MCTelemetry` extend them. The type invariants of modules with a
proof are theorems and are not asked again of a run.

The five violation runs state what the repository's documents say:

1. `specs/006-mcp-server-stdio/spec.md:286` (RF-6) says that a refresh by SIGHUP
   *or by the ticker* updates the server and notifies. The ticker's refresh
   stops at the loader (`loader.go:109`).
2. `docs/runbook.md:132` says that NOT_FOUND is an object that does not exist.
   `executeTool` looks for words in the text of any error, and the text of a
   transport error quotes the URL with the id (`server.go:342`).
3. `docs/deployment/007-telemetry-deployment.md:149` says that SIGTERM stops
   molu. `sigCh` holds one signal and is read late: a SIGTERM behind a SIGHUP is
   dropped (`main.go:74`). The property leaves startups without limits aside, in
   which a SIGTERM is not heard either (below).
4. `docs/configuration/007-telemetry-config.md:112` says that a bad telemetry
   configuration ends molu with an error and exit code 1. `main` never calls
   `Config.Validate`: a path without a slash panics, a bad port is only logged
   (`main.go:34`).
5. `specs/007-telemetry-and-observability/spec.md:77` says that rotation under
   concurrent writes loses nothing. Rotated files are named after the second,
   and a second rotation in it replaces the first file (`rotation.go:106`).

Further divergences were met while modelling and have no run of their own:

- The documents describe a `describe` that answers from memory while xolu is
  down and no tool traffic while the probe is red (part 2, line 682); `describe`
  is gated like any tool, and a call that passed the gate goes on sending
  (`RedCostsOneCall` says how far).
- An `update` of an object that does not exist and a transport error come back
  as JSON-RPC -32603, not as NOT_FOUND and SUBSTRATE_UNAVAILABLE
  (`specs/006-mcp-server-stdio/spec.md:106` and `:301`, `docs/runbook.md:139`).
  The metrics do not count these, while a request that client and server both
  count is counted twice.
- A call is offered from the server's list and validated against the loader's
  (part 2, line 112), and a refresh may come between; `ContractFollowsOffer` says
  that only an overtaken refresh then brings an older contract.
- `WaitReady` and `Load` retry for ever when their limit is 0 (`probe.go:156`,
  `loader.go:50`), and 0 is the default of `MOLU_FRONT_SCHEMA_MAX_ATTEMPTS`
  (`config.go:95`; `docs/configuration/007-telemetry-config.md:57` says 10, from 1
  to 100). The goroutine that reads signals starts after them (`main.go:178`), so
  while xolu stays down a SIGTERM never ends such a process, against
  `docs/deployment/007-telemetry-deployment.md:149`. This is why `StartupEnds`,
  `TermStops` and `TermIsHeard` have `Limited` in them; without it TLC finds a
  SIGTERM that waits in the channel for ever in `TermStops`.
- `static_context_rules.go:49` says that the tenant of a rule ends at the first
  colon, but `isAllowed` joins tenant and role: the role `clerk` of a tenant
  `acme:eu` and the role `eu:clerk` of `acme` have the same rules.
- A SIGHUP that a ticker refresh overlaps can publish the older catalogue
  (`HupPublishesRecent` has the exception).
- A machine deleted while `describe` reads the definitions is reported as if
  xolu did not offer machines (`describe.go:21` names only a disabled
  `/api/v2`; `A404HasACause` has the exception).
- The wait at startup uses the normal interval, not the backoff
  (`specs/002-xolu-probe/spec.md:22`); `MOLU_FRONT_CALL_TIMEOUT` is read, checked
  and not used, since the client takes the ping's timeout for every request
  (part 2, line 564); shutdown does not drain the call in hand
  (`docs/deployment/007-telemetry-deployment.md:152`); a process whose stdin has
  ended lives on until a signal.
- `/healthz` stays 200 for up to 30 s after the agent is told
  SUBSTRATE_UNAVAILABLE (`specs/007-telemetry-and-observability/spec.md:100` and
  `docs/runbook.md:147` and `:177` say 503; `VerdictsAgree` says when the two
  agree again), and it is never `down` while the process shuts down
  (`docs/runbook.md:235`): `Live` returns true.
- `WithContext` drops the fields a logger already had, which
  `specs/007-telemetry-and-observability/plan.md:150` calls enriched; the format
  of the log is `console` by default in one configuration and `json` in the
  other; the assertion of `newSecurityWriter` on `*os.File` never holds.

## 4. Fairness

Safety runs need none. The liveness properties assume:

- `HotReload`: weak fairness of each goroutine, since the Go scheduler runs what
  is runnable; strong fairness of the two writers of stdout, because they take
  `writeMu`, a `sync.Mutex`, whose starvation mode serves a waiter; the client
  reads its input and lists after a notification. xolu need not change, the
  operator need not signal, the client need not call. `ClientCatchesUp` excepts
  a client that hung up.
- `ToolCall`: the server takes its next step and the HTTP client's timeout
  fires. xolu need not answer.
- `Lifecycle`: `main` takes its own steps, an attempt of `WaitReady` or `Load`
  ends, well or badly, because the client's timeout ends it, and the two
  goroutines run. xolu owes no good answer: at `MaxFailures` nothing is assumed,
  so no unlimited startup is made to end by the bound. The limits in the run lie
  below it. Nothing is assumed of the client either, so a client that stops reading stdout may keep SIGTERM from being
  heard, and `TermStops` says under which condition it is.

## 5. Proofs

The theorems hold for every value of the constants that the named assumptions
allow; each module's header gives its argument. Every invariant and every action
property of the passing runs is a theorem, and so are both refinements. Each
theorem about behaviours rests on an inductive invariant, with one lemma per
action.

- **HealthzProofs** assumes of the probe `TimesAssumption` (positive times, any
  lag) and `DelayAssumption` (every delay positive and bounded, the delay without
  failure is the interval). The properties are not inductive: whether the gate
  may close depends on how far the timer can lie from the last pong, and that on
  the program counter. `IInv` adds, for each `pc`, how late the goroutine can be
  (`OnTime`), how far `due` lies from the last pong (`CadenceInv`), the last
  failure (`BackoffInv`) and the published hint (`HintInv`), what xolu was doing
  then (`EvidenceInv`), that failures are no more than the ticks spent waiting
  (`PaceInv`, which keeps `Delay` inside its domain) and the state of the startup
  loop (`StartupInv`).
- *nextDelay*, in the same module. The loop stops doubling once it has reached the
  ceiling and then takes the lesser of the two: `CappedPower` says that this is
  the floor times a power of two under the ceiling, for every floor, ceiling and
  number of failures. `NextDelayFits` derives `DelayAssumption` from what
  `config.go` checks (interval, floor and ceiling positive), so nothing about the
  delays is taken on trust. `RetriesWaitCappedPower` puts `BackoffAssumption` (the
  probe's delays are those of `nextDelay`) and `RetryInv` (a retry is armed within
  `Lag` of its failure) together.
- *The endpoint*, in the same module, assumes `HealthzAssumption` as well. Every
  step of `Healthz` is one of `Probe` or leaves it alone (`HealthzIsProbe`), so
  the probe's theorems carry over; `LoopTime`, `LoopEvidence` and `LoopCadence` say
  how late the second loop can be, and `LoopCatchesUp` that it has asked xolu
  since xolu came up. `GateAndEndpointAgree` puts the two together.
- **HotReloadProofs**. A refresh that was not overtaken has seen every catalogue
  that was there when it began (`Fits`: loader, server and the list about to be
  published are no newer than `from`); from this follow the two action properties.
  What the call in hand was offered from is bounded likewise by the beginning of
  every refresh that nothing has overtaken (`OfferInv`), so that a swap that is not
  late does not fall below it: `ContractsFallBehindByOverlap`. A waiting client has its one response in the serve loop or in the
  pipe (`ClientInv`), so `NewestList` is well defined and every step keeps
  `StaleClientWillRelist`. Fairness is not used.
- **ToolCallProofs**. `IInv` says what the call in hand has sent (`SentInv`,
  `EffectInv`), what an answer of xolu says about the write it answers
  (`AnswerInv`) and which refusals can be relied on (`RefusalInv`). Types, whole
  successes, the cost of a red probe and `HeardRefusalsAreFinal` (a refusal by the
  gate, the offer, the contract or an answer of xolu is final) hold whatever the
  ids contain. What depends on the text of a transport error, which quotes the
  id, has the hypothesis `PlainIds`, that no id contains the words `executeTool`
  looks for: `RefusalsAreFinal`, `NotFoundIsMissing` and, because it includes the
  former, the refinement `CallsAreAtMostOnce`. `NotFoundIsMissing` names both ways
  to NOT_FOUND: xolu refused the request as such, or `describe` listed nothing of
  the name it was given. `tool_call_words` shows
  `NotFoundIsMissing` fail without it.
- **LifecycleProofs** starts from `AcceptedIsSane`: an environment without problems
  gives positive durations and floors below their ceilings. `LoadWaitsLikeProbe`
  compares `Load`'s delay with `nextDelay`, a recursive function of the number of
  failures; instead of an induction over that number, the steps of `Load` carry
  the unfolding along: each wait adds one member to the one sequence of
  doublings (`Doubling`).
- **HubProofs** assumes `RequestsAssumption` of the registry. `IInv` is the type
  invariant, `IndicesAgree` and `Keyed` (a registration is filed under its own
  name and holds its own stored cell). Isolation follows because cells of
  different roles are different; refinement of `Catalogue` because each accepted
  call is a `Claim` or a `Release` and all others stutter. Of discovery,
  `ListIsOneCatalogue` shows that a call carries a catalogue of its time from
  snapshot to answer, for any number of agents and any change of the catalogue.
- **TelemetryProofs** follows each line from the file to the archive. As long as
  no two rotations shared a second, goroutines have different seconds and find
  their archive unwritten, or gone only when its lines are old (`JobInv`); a file
  is as new as its newest line (`MtimeInv`), so that the cleaner's cutoff, which
  lies `MaxAge` back or further (`OrderInv`), spares young lines; then every line
  that was taken is old or held (`Kept`). Of the loggers,
  `LinesAreTheirDerivations` needs no more than the types, in which references
  point at what is there, because contexts and maps are only ever added
  (`Keeps`): what a logger refers to is never changed under it.
- **ClientProofs**, `executeList`. No property of a list is inductive, since rows
  move between two pages. `ListInv` adds how far the call has read (`PageInv`,
  `AmountInv`); that, without insertions, nothing collected lies ahead of the
  reader (`OnceInv`, so nothing is collected twice); that, without deletions,
  what stayed is collected or lies ahead (`StayedInv`, so nothing is left out);
  and that an undisturbed list is exactly the window as far as it was read
  (`ExactInv`). The work is in what an inserted or a deleted row does to the
  positions of the others, and in the run of the page that `Cut` keeps.
  `ListPagingAssumption` has finitely many rows, as any table has: only a finite
  set can be laid out in a sequence.
- **ClientProofs**, `executeDescribe`. `TodoInv` says what may still be asked for
  at each group, `FoundInv` that what was found was asked for and was there,
  `WholeInv` that what stayed in a group was found and has its details, or its
  details are in `todo`, `ReturnedInv` what the two good outcomes mean.
- **ClientProofs**, the calendar. `CheckInv`: each answer so far is about an
  instant of the call, because `wasFree` and `wasBusy` grow with every change.
  `BookingInv`: a booking under an id that molu drew was told or its answer was
  lost, except the one proposal still in hand. The calendars that arguments name
  are computed by a recursive function, which `SetInduction` and
  `BoundedInduction` unfold.
- **Induction** proves induction over numbers from the least counterexample, with
  *sets* for predicates (the library's theorems take an operator, which the
  provers cannot instantiate), and that there is a sequence of the iterations of a
  function, which stays in its range.

Where a run's specification lets one of several modules move (section 3), the
theorem is about the specification of that module alone; the run adds only
behaviours in which the module rests and another moves.

Only model-checked: liveness (`ClientCatchesUp`, `EveryCallEnds`, `StartupEnds`,
`TermStops`), which TLAPS does not reach, since fairness needs `ENABLED`.

## 6. Not modelled

- JSON-RPC parsing, JSON schemas and their validation, intervals of the calendar:
  data. A call is accepted or refused by its contract at will.
- Messages of the taxonomy, levels and outputs of the logger, metrics: output.
- `bridge`, `middleware` and `obs` are functions without state that `main` does
  not reach; the typed `Walk`, `Find` and `Get` of the client and the mocks
  neither.
- Of `rpi`, `Offer` and the logging; of the publisher API, decoding.
- Log lines have one size, a write to an open log file succeeds, and names of
  rotated files tell seconds apart. A rotator that could not open its new file
  is never given another chance (`rotation.go:132`); the model has that state and
  no property, since the code promises nothing for it.
- The call that is being handled when `main` returns (`main.go:196`): what becomes
  of its write is `ToolCall`'s unknown outcome, and no code waits for it.

## 7. Plan

1. *Done*: all components with state, alone and where they share state together;
   the two abstract specifications; every invariant and action property of a
   passing run as a theorem.
2. *Next*: the steps that liveness rests on, which need no fairness: that a call
   has a measure which each of its steps lowers, that the waits of a startup are
   bounded in time, that a client told of a change holds the last message of
   the pipe.
3. *Then*: `HotReload` composed with `ToolCall`, so that a refusal by an older
   contract is traced to what the agent was told; `Lifecycle` composed with
   `ToolCall` at shutdown; the prometheus counters against the outcomes of
   `ToolCall`.
