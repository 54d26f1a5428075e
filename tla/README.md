# TLA+ models of testrig

testrig brings up the services a Go integration test needs (containers, an
OIDC issuer, the test's own), publishes their addresses as properties, and
takes them down again. This directory models the parts of it that hold state
and run concurrently, model-checks them with TLC on small instances, and proves
the main results with TLAPS for every value of the constants.

All paths below are relative to `src/`.

## 1. The system

| Component | Code | State | Operations | What makes it hard |
|---|---|---|---|---|
| Engine | `env.go`, `stages.go` | `state`, `properties`, `started`, guarded by `mu`; registered tracks, stages, hooks | `Start`, `Stop`, the rollback of a failed `Start`, hook loops, `Properties` | a goroutine per track and per service, error groups that cancel siblings, failures half way up, calls that overlap |
| Log stream supervisor | `dockerlog/dockerlog.go` 67-226 | `logStop`, `logDone` and the streaming goroutine | `Start`, `Cancel`, `Wait`, `Running` | goroutines that outlive the call that gave up on them; late watchdogs |
| Log stream loop | `dockerlog/dockerlog.go` 228-438 | `since`, the backoff, the two line buffers | `streamFrom`, `lineWriter.Write`, `Flush` | reopening, backoff arithmetic, lines split over writes |
| Test kit | `dockerlog/testkit.go` | a fake stream | `ContainerLogs`, `WriteStream`, `Close` | one channel for many streams |
| Postgres, WireMock | `services/postgres/postgres.go`, `services/wiremock/wiremock.go` | `container`, the supervisor of its log | `Start`, `Stop` | failure after the container is up; the order Cancel, Terminate, Wait; contexts that are over |
| OIDC issuer | `services/oidc` | key, address, code store, refresh store, server | `Start`, `Stop`, `/authorize`, `/token` (three grants), `/userinfo`, discovery, JWKS, `Sign` | net/http runs handlers concurrently with each other and with `Stop`; fields read without the lock; expiry |
| Sample app | `examples/internal/sampleapp` | a table of responses | save, lookup, background fetch | work that outlives its request and overtakes other work |
| Viper and koanf apps | `examples/*/main.go`, `examples/*/app` | the HTTP server, the channel of its goroutine | `main`, `New`, `Run` | shutdown with a deadline while requests still come; exits that skip deferred calls |
| Scenario harness | `examples/internal/sampletest` | the remote's stubs, the table | the scenarios, each a test goroutine | a table and saves that outlive a test |
| Wiring | `examples/*/testenv`, `examples/internal/{seed,demo}`, `envvars.go` | none of their own | set-up of the above | - |

How they interact:

- A test (or a `main`) owns an `Env` and calls `Start` and `Stop`. `Env` calls
  `Start` and `Stop` of each registered service, concurrently within a stage
  and across tracks, and runs the lifecycle hooks. A service being started reads
  `Env.Properties` through its handle.
- Postgres and WireMock are services. Each owns a container (testcontainers)
  and a `dockerlog.Supervisor`, whose goroutine reads the container's log from
  Docker and writes to the service's logger.
- The issuer is a service whose HTTP server runs in process. The code under
  test and the tests' own clients send it requests while the Env is running, and
  possibly while it stops.
- The contexts that `Env.stopTracks` and `stopTrack` hand to `Stop` belong to
  error groups: the failure of one service cancels those of its siblings.
- An example app's `main` owns an Env too, and a database handle; its server
  hands each save to a goroutine that asks the remote (WireMock, in the
  examples) and writes to the database. The harness drives the same server from
  tests, stubs the remote and reads the table directly.

What correctness means for each, and where it is stated:

- Engine: a Stop and a failed Start take everything down, in reverse; dependencies
  hold at all times; a running env is complete; every call returns; a failure ends a
  Start that would otherwise wait (`Env.tla`, `Lifecycle.tla`).
- Engine with containers: a failure cuts short only what shares its error group,
  and a container that stays means an error (`Teardown.tla`).
- Supervisor: one goroutine at most, always within reach, no leaked context
  (`Supervisor.tla`).
- Log stream loop: the lines logged are the container's, however they come in pieces; what
  is sent twice is bounded, what is missed lies between two streams, idle streams
  slow it down (`LogStream.tla`).
- Container services: a container is left behind only when its Terminate failed, no
  stream of another container, no log reopened after its container is gone
  (`ContainerService.tla`).
- Issuer: a grant has one bearer, never comes back, and stays in
  the run it was made in; Stop and the requests end (`Issuer.tla`).
- Sample app: a row belongs to its user and is not put back to an older answer;
  an accepted save is carried out; Run returns, and no handler loses the database or
  the services; a test fails only when a save was late (`SampleApp.tla`,
  `AppRun.tla`, `SampleTest.tla`).

The hazards, each with its line and the properties aimed at it, are in
`PROJECT.json` under `hazards`.

## 2. Modules

| Module | Role |
|---|---|
| `Lifecycle.tla` | abstract specification of an Env: phases, and services going up and down |
| `Env.tla` | the engine; implements `Lifecycle` |
| `MCEnv.tla` | instances of `Env`: tracks, stages, published keys |
| `EnvProofs.tla` | theorems about `Env` |
| `Supervisor.tla`, `SupervisorProofs.tla` | the log stream supervisor with its goroutines |
| `ContainerService.tla`, `ContainerProofs.tla` | Postgres and WireMock, composed with `Supervisor` |
| `LogStream.tla`, `MCLogStream.tla`, `LogStreamProofs.tla` | the streaming goroutine in full; implements `Supervisor` for one cycle |
| `Teardown.tla`, `MCTeardown.tla`, `TeardownProofs.tla` | an Env with container services, seen from the contexts of its Stop; implements `Lifecycle` |
| `Issuer.tla`, `IssuerProofs.tla` | the OIDC issuer |
| `SampleApp.tla` | the server of the example apps: requests, saves, the table |
| `AppRun.tla`, `AppRunProofs.tla` | the process of an example app; instantiates `SampleApp` |
| `SampleTest.tla`, `SampleTestProofs.tla` | the harness and its scenarios; instantiates `SampleApp` |

`PROJECT.json` maps each definition to the lines it stands for.

### Env

A caller is a goroutine that may call `Start` or `Stop`. `pc[c]` says where it is
in the call (`"tracks"` is `g.Wait` in `Start`, `"rollback"` the `Stop` a failed
`Start` makes, `"stopping"` is `stopTracks`), and `gor[c][s]` is the goroutine of
`runTrack` that starts service `s` on its behalf: `starting` inside `svc.Start`,
`ok` when it has returned and is not yet recorded, then `recorded` or `failed`.
Each critical section of `e.mu` is one action; everything else interleaves. The
error groups are not variables: a track is done, or has failed, as a function of
`gor` (`TrackDone`, `TrackAborted`), and the contexts they cancel are
`StartCtxDone`. The maps `properties` and `started` are kept with the caller
that filled them, so that data of an earlier run cannot pass for this run's;
`alloc` says whether the two fields are non-nil. Writing to the nil maps is
`RecordPanics`: the process is over and every caller is `"dead"`.

Assumed of services and hooks: they return (a service in `Blocking` may wait for
the end of its context), and each may fail at any time. `StopDuringStart` says
whether clients call `Stop` while a `Start` is in progress. The code allows it
(`beginStop` accepts the starting state and its comment speaks of concurrent
callers), and what then goes wrong is shown by the run `env_overlap_leak`.
`OverlapIsSafe` says how far an overlap may go before anything does: `Crossed` is a
stopper at work while the tracks of another caller's Start are being brought up, and up
to the first such moment nothing is left up, stopped twice or made to panic. It
does not say that AfterStart hooks find their services up: a `Stop` of
another goroutine may tear them down under the hooks.

### Teardown

The same env at a coarser grain, and what is below it at a finer one. A
successful Start is one step per service (`Env` has its interleavings), a Stop
is taken apart: `stage[t]` is where `stopTrack` is, `stop[s]` the call of
`s.Stop`, which removes the container (`clean`), fails by itself (`failed`, for
the services in `Faulty`) or is cut short by its context (`cut`). Contexts are not variables but functions of what has failed:
`StageCtxDone` is the group of `stopTrack`, `GroupCtxDone` the one of
`stopTracks` with the caller's context above. A Terminate given a context that is
over may still succeed. `docker` has the containers by service and round, so one that was left behind is
told from the one of a later Start; `handle` is the service's `container` field.
`errored` is history: the rounds whose Stop returned an error.

### Supervisor

A cycle is one effective `Start`: a context, a done channel and a goroutine.
`logDone` and `logStop` hold the number of a cycle or 0 for nil, which is exactly
what the channel comparison in `clearCycleState` distinguishes. The goroutine is
`opening`, `reading`, `pausing` or `exited`. Start on a supervisor that is still
streaming does nothing in the code and is no step here. All watchdogs of one
cycle are one element of `watchdogs`, because after the first nothing is left
to clear. Clients are free: they call the methods in any order, concurrently.

### ContainerService

One call at a time (`pc`), as an Env makes them, beside the supervisor's
goroutines. The module INSTANCEs `Supervisor` with the service as its only client
and uses that module's own actions: what the supervisor does is defined once.
`up` is the set of containers Docker has, `streamed[k]` the container that cycle
`k` streams (a container may have no cycle, when no log is wanted or the
supervisor is busy with a wedged goroutine). `Terminate` may
fail in a `Stop`, which returns the error (`reported`), and in the cleanup of a failed
`Start`, which drops it (`dropped`; `postgres.go:207`, `wiremock.go:180`). Postgres and WireMock have the same
sequence of steps; the map names the lines of one or the other.

### LogStream

What `Supervisor` has as `opening`, `reading` and `pausing`, step by step: `Frame` is the
`Write` that StdCopy makes for one frame, `WriteStep` one turn of the loops inside
`lineWriter.Write`, `ReadEOF` the clean end with the backoff, `RecordSince` the
timestamp, `Return` every return with its deferred `Flush`. A byte is its position in the
daemon's log and has a stream and a kind (`char`, `cr`, `nl`); time is the length of
that log, and `Behind` and `Ahead` bound how far the client's clock is off. The daemon takes
`since` as inclusive, so the next stream begins with the bytes it stamped with that
very instant, at most `SameInstant` of them (`From`). Frames
cut the log anywhere between bytes of one stream, and the daemon may end a stream
anywhere. `received`, `first` and `idle` are history. Left out: slice aliasing (lines are
values here), the byte counters beyond "none or some", negative pauses and those so
long that doubling overflows 64 bits of nanoseconds.

### Issuer

Each request is a net/http goroutine, and each read of an issuer field by a
handler is a step, because handlers do not take `i.mu`. That goes for each of the
lines of `refresh.go` that says `i.refreshStore` (59-61, 89-99): the mutex that is locked, the map
that is changed and the mutex that is unlocked need not be of one store. If `Stop` has
cleared the field in between, the handler panics: net/http recovers it, and the mutex it holds
stays locked unless its `Unlock` was deferred (`locked`). To unlock a mutex that nobody holds
ends the process (`mu = "dead"`); this takes a request that outlives `Stop` and the next `Start`. Runs of the server are
numbered: `key = 2` means that `i.privKey` is the key of the second run. `mu` is
what `Start` or `Stop` is doing while it holds `i.mu`. A grant is named by its
code; `Bearers` collects whoever may still turn it into tokens. The clock ticks
in units of which `Second` make a second, and `Exp` is the exp claim, cut to
whole seconds. `ShutdownMayEnd` says whether the context of `Stop` may be over
before the requests are.

Abstracted: contents of tokens other than grant, key, audience and expiry; the
syntax checks of a request, which end in a response and change nothing; PKCE,
which is a choice between fitting and not fitting, after the code was taken.
`client_credentials` stores nothing and is left out.

### SampleApp, AppRun, SampleTest

`req[r]` is a net/http goroutine, `save[f]` the goroutine of the f-th accepted save:
`fetching` until the remote has answered, `storing` until the upsert, then
`stored` or `failed`. The remote's answers for a key are numbered and grow in
`AppRun`; `save[f].body` is the number it got, so "older" has a meaning. A row
holds the save that wrote it. `after` is history: the saves stored when this one was
accepted. Left out: response bodies, the syntax of headers and tokens (a request
is good or bad), the number of connections of the pool.

`AppRun` adds the process around it: `main` goes through its steps, each of which may fail
into `log.Fatalf` (`"fatal"`, where nothing deferred runs); `serve` and `errCh` are
the goroutine and channel of `Run`; `env` whether the environment was started and
whether `cleanup` has stopped it, which ignores the error of `env.Stop`
(`testenv.go:58`), so that a stopped one may still have containers. Requests
come while `main` is in `Run`, and on open connections until `Shutdown` ends.
Once `main` is over, nothing takes a step.

`SampleTest` puts the test goroutine of the harness in its place: reset and stub
the remote, save, poll the table, look up, for the two scenarios that do so and for
a request that is refused. The four kinds of refused token are one. `Rounds` is
the argument of `go test -count`: the environment and its table stay for all rounds.
A poll may give up at any time (`DBPollWait`, ten seconds), also with the test's own save in
flight; `LateTests` bounds the number of tests it does so in.

## 3. What is checked

| Run | Setting | Shows |
|---|---|---|
| `env_serial` | 2 callers, 4 services in two tracks, one with two stages, 2 of them slow, 2 hooks, any failures | dependencies, hooks, stops of exactly what started, no panic, calls return, fail-fast, and `Lifecycle` with its fairness |
| `env_overlap` | 2 callers, 2 services in two stages, 1 hook, `Stop` at any time | no harm before a stopper is at work while tracks are brought up |
| `env_overlap_leak` | the same | finding 1 |
| `teardown` | 4 services, 3 with containers, two tracks, one with two stages, 2 rounds, 3 services may fail, the client's context may end | errors reported, failures contained, and `Lifecycle` with its fairness |
| `teardown_leak` | the same, 1 service may fail, a live context | finding 2 |
| `supervisor` | 2 clients, 3 cycles | the supervisor's safety and that it drains |
| `log_stream` | 2 outputs, 3 bytes, lines of 2, 2 clean ends, client clock 1 behind or ahead, 1 byte of the same instant | lines against a reference, what is repeated and what is missed, backoff, and `Supervisor` with its fairness |
| `container` | 3 containers, the goroutine of the second may hang | a container is left only by a failed Terminate, streams of the own container, calls return |
| `issuer` | 2 requests, 2 runs, 1 code, 2 refresh tokens, clock to 2 | the issuer's safety and liveness, Stop waiting for requests |
| `app_run` | 1 connection, 2 users, 1 key, 2 saves of which the second may fail, 2 answers | rows, order of answers, handlers served, Run, accepted saves |
| `app_exit` | 1 user, 1 save | finding 3 |
| `sample_test` | 3 rounds of 3 tests, the poll too short in the first 3 tests | tests end, and fail only by a late save |

Why the bounds are enough. Two callers give every overlap of two calls, and a
third could only repeat what the second does, since the env's fields have one
owner each. The two tracks of `MCEnv` have a stage with two services, a later
stage, and a track beside it: a failure can be in the same stage, an earlier
one, or another track; two services publish the same key. Two hooks let the
first succeed and the second fail. Three cycles let a watchdog of the first meet
the third. Three bytes and lines of two fill a buffer in two writes and run over, with a
carriage return at the cut; what is repeated makes longer texts. In `Teardown` a
container can be cut short by its neighbour, by the other track and by the client, but
not by the later stage on top of it; two rounds tell a container left behind from its successor. Two saves on one connection are enough to
overlap, since the request ends when the save begins; two users share a key, and two answers have an order. Three
rounds are the fewest in which a leftover save breaks a test whose poll is long enough: the
first writes the row, the second leaves a save running, the third is hit by it. `LateTests` of 3
lets the poll of every scenario give up once with its save in flight, and that save run into
the rounds that follow. In `LogStream` one byte of the same instant, and a clock one byte off either way,
make repeats and losses of each kind. A base pause of 3 and a
cap of 8 meet the doubling and the cap in two idle streams. One code and two refresh tokens let a grant be presented by two
requests in each of its forms, once rotated; two runs let one leave something
for the next. A clock of 2 passes the lifetimes of a code and of a token (1 each).
Bounds are named (`MaxCycles`, `MaxContainers`, `MaxRuns`, `MaxCodes`,
`MaxTokens`, `MaxTime`, `MaxLog`, `MaxReopens`, `MaxRounds`, `MaxSaves`, `MaxAnswer`, `Rounds`, `LateTests`, `SameInstant`), each stands in one
guard or in the definition a guard uses, and the theorems hold for all of them.

Some properties have a theorem and no run of their own, because a property that is
run is stronger, or nearly the same: `NoLeak`, `TeardownIsExclusive` and the parts of `Dependencies` and
`HooksSeeRun` in `Env`; `QuietWhenStopped` and `NoReopen` in `ContainerService`; `Promise`, which `Lifecycle`
implies; the types of `Supervisor`, `Teardown` and `AppRun`.

Deadlock is checked in `env_serial`. The other runs may stop for good: a process
that died or ended, tests that are done, a bound that is used up.

Fairness. Weak fairness on every goroutine's own steps: the Go scheduler runs
what can run, timers fire. Handlers of the issuer get strong fairness, since they wait
for the mutex of a store, and a `sync.Mutex` starves nobody. On the environment:
services and hooks return (in `Blocking`, once their context is done); Docker
answers; a read of a log ends when its container is gone, except for the cycles
in `MayHang`. In the apps the remote and the database answer background saves, the
deadline of `Shutdown` comes, and handlers may take for ever; in the tests, which have no
deadline of their own, handlers return. There is none on clients: nobody is obliged to call Start, Stop,
Cancel or Wait, to cancel a context, or to send a request, and the clock need not
tick.

### Findings

1. `env_overlap_leak` (`env.go:267`). `beginStop` copies what is recorded so far.
   A service whose `Start` returns after that is recorded too late, stays up,
   and is forgotten by `finishStop`. If the overlapping `Stop` has finished by then,
   the goroutine of `Start` writes to a nil map instead and the process dies
   (`env.go:192`; `NeverPanics` has the condition under which it does not), and
   `Start` sets the state to running with `properties` nil (`env.go:165`).
2. `teardown_leak` (`env.go:290`). One `Stop` that fails cancels the contexts of
   those beside it and of the other tracks. `Terminate` with such a context may
   leave the container, and the service drops its handle all the same
   (`postgres.go:246`, `wiremock.go:215`), so a second `Stop` is a no-op. `Stop` does return an
   error (`LeftMeansError`), and while the client's context is live it leaves
   only containers that are faulty themselves or have a faulty service in their stage
   or in another track (`ShelteredAreReleased`).
3. `app_exit` (`examples/viper-app/main.go:63`). `log.Fatalf` in `main` skips the
   deferred `cleanup`: a Ctrl-C while the database is opened, or any failure after
   `Setup`, leaves the containers up.

Not findings, but conditions worth knowing.

- A request that outlives `Issuer.Stop`, because the context of `Stop` ended first, may store
  its grant in the next run (`RunsAreIsolated` assumes `~ShutdownMayEnd`), or unlock a
  mutex of the next run that it never locked, which may end the process, or delete a token's
  record from the next run's store in place of its own (so `NeverForks` assumes the same).
- `Issuer.Stop` may clear `i.refreshStore` (`server.go:68`) while a request is between lines 59 and 61 of
  `refresh.go`: the request panics with the mutex locked, and one that waits for it
  waits for ever, as does `Shutdown` unless its context ends. `EverythingEnds` names this case
  (`Jammed`) and says that there is no other.
- A refresh token may be handed out when it has expired, if its lifetime is short: the exp claim is cut to
  seconds and counted from before the token is signed and stored.
- When a `Start` of Postgres or WireMock fails and `Terminate` then fails, too, the container stays
  and nobody is told, against the intent of the comment at `postgres.go:199`
  (`LeftOnlyByFailure` has it as `dropped`).
- A reopened log stream repeats some bytes and misses others; `dockerlog/README.md:67-75` says so.
- The shared scenarios may fail under `go test -count=3`: the row of an earlier round satisfies the poll, so the
  save of a round may run into the next reset and store an unmatched answer over a
  good one. Or the poll gives up while the save is in flight. `FailsOnlyIfLate` says that nothing else makes them fail.
  `examples/viper-app/README.md:36` has each test use "a unique DB key", which holds
  within one round.

## 4. What is proved

Every theorem below is for all values of the constants that satisfy the named
assumptions of its module (`ShapeAssumption`, `IssuerAssumptions` and so on: types
and positive lifetimes).

**Env** (`EnvProofs`), assuming `~StopDuringStart`: `AllocationCorrect`, `NeverLeaks`, `DependenciesHold` (with its parts `StagesRespected` and
`PropertiesVisible`), `HooksCorrect` (with `RunningComplete` and
`AfterStopCorrect`), `StopsCorrect`, `TeardownExclusive`, `NeverPanics`, and
`Refinement`: the engine implements the safety part of `Lifecycle`. Whatever calls overlap,
`TypeCorrect` and `OverlapHarmless` (`OverlapIsSafe`): the
goroutines of a Start and the sets of a stopper are its own, so that `LocalInv` needs no
assumption, and as long as nothing has `Crossed`, `OverlapInv` is kept. The properties are not inductive by themselves. The strengthening ties
the state to the one caller that is inside the env (`ControlInv`), each caller's
variables to its `pc` (`LocalInv`), and the services that are up to the
goroutines, the recorded entries and the stopper's sets (`UpInv`): a service is up
iff it is `ok` or recorded and not yet stopped. Given these, `DependenciesUp` is
preserved because a stage is left only when all of it is recorded, and
because stoppers drain in reverse (`StopOrder` is part of the invariant).
The refinement maps `phase` to `state` and `up` to the services of the
entries that are up.

**Teardown** (`TeardownProofs`), for any tracks, stages and services:
`TypeCorrect`, `NothingLeftInSilence`, `CutsStayContained`, `Refinement` (the safety
part of `Lifecycle`), `PromiseKept` (what any implementation of `Lifecycle` inherits from its
`Promise`), and `ShelteredAreReleased`, which assumes that the client's context stays
live: an idle env has left behind only containers whose service is `Faulty` or has a faulty
one in its stage or in another track, so a failure above or below a service in its own track costs
it nothing. The strengthening ties the
handles to the stages (`Shape`: what still has one is at its track's current stage or below, and
is of this round) and gives every cut a first cause that is not a cut
(`CutsHaveRoots`): a failure beside it, or one in another track that is done.

**Supervisor** (`SupervisorProofs`), no assumption but the bound being a natural
number: `TypeCorrect`, `OneLive`, `NeverOrphaned`, `ContextsReleased`,
`ClearedOnlyAfterExit`. The strengthening says that the fields hold the last cycle
or none, and that every other cycle has exited and was cancelled.

**LogStream** (`LogStreamProofs`), for any length of line, pauses and difference of
clocks: `TypeCorrect`, `RepeatsAreBounded`, `StreamsSkipNothing`, `Refinement`
(the safety part of `Supervisor`, for one cycle), `LinesAreWhole`, `LinesMatch`,
`PauseDoubles` and `WriteTerminates` (a measure that every turn of the loop in `Write`
decreases, also the one that only empties a full buffer). The strengthening says that the buffer, followed by what `Write` has not
looked at, is the end of what was received (`WholeInv`), and that whatever was received lies
before the place a stream will continue from, but for `Behind` and `SameInstant` (`RepeatInv`).
For `LinesMatch` (`LinesMatchBytes`) the proof follows one place in what a writer was
given, the first byte that is in no line yet (`Uncut`). `CutInv` says that what is logged
are the reference's pieces before it, that all of these are closed, so that no later byte
can change them, and that the place is a whole number of pieces into its line. A piece that is full
(`CutFull`), a newline (`CutAtNewline`) or the end (`CutLast`) moves it to the next
piece; a frame (`CutExtends`) and a log that grows (`CutGrows`) leave it. These
lemmas speak of any log, sequence and place, not of the variables. For `PauseDoubles`,
`DoubledIs` shows that the recursive function of the reference exists and satisfies its
equation, by induction on sets of numbers (`AllNats`, from the least element of a set), and
`PauseInv` that the byte counters tell whether a stream went beyond where it began.

**ContainerService** (`ContainerProofs`): `DrivesSupervisor` shows that the service
uses its supervisor as a client may, so the invariant proved for any clients is
taken over by instantiating `SupervisorProofs`. With it `TypeCorrect`,
`LeavesOnlyByFailure`, `StreamsOwnContainer`, `QuietAfterStop`, `NeverReopened`. The
strengthening adds that the service holds its container from creation to
`Forget` (`HandleInv`), and that from Cancel to the next Start every live
goroutine is cancelled, and from Wait on given up or waited for (`DrainInv`).

**AppRun** (`AppRunProofs`), for any users, keys, requests and saves: `TypeCorrect`,
`RowsStayOwn`, `NothingStale`, `HandlersStayServed`. The strengthening says that a fetched
answer is not newer than the remote's (`Fetched`), and that a save's answer is not
older than that of any save of its key stored before it was accepted (`Ordered`): a row can
then go back only between saves that overlapped. For `HandlersStayServed`
it says where `main` may be while a request is handled (`Served`): in `run`, in `shutdown`, or in a
`log.Fatalf`, which skips the deferred calls.

**SampleTest** (`SampleTestProofs`), for any number of rounds and requests:
`FailsOnlyLate`. A property about a verdict says little by itself, so the strengthening
follows the test from step to step: the one request there is and its
answer (`Requests`), the stub that holds until the test ends (`Stubbed`), the last save,
which is the test's own and gets that stub's answer (`Owned`), and the row the test has
seen, which no save may overwrite unless there is a leftover (`Seen`). A poll that gives up with its own save in flight ends the test, so nothing of this
has to survive it but the leftover it makes (`LateSave`, `LateStep`). All of it rests on
`Latest`: without leftovers, saves of a key are stored in the order they were accepted.

**Issuer** (`IssuerProofs`): `TypeCorrect` and `CodesSurvive` without assumption on
Stop; `NeverForks`, `StaysSpent`, `RunsAreIsolated` and `StoredVerify` assuming
that `Stop` waits for the requests (`~ShutdownMayEnd`). A request that reads
`i.refreshStore` anew on each line holds the mutex of the store it read first, so that one bearer
follows only if all these reads are of one store or panic: `DrainInv` says which run each field, each request, each
token and each locked mutex belongs to while the server drains, and that no two
requests are between the lines of one mutex (`MutexInv`). `Unforked` counts the bearers of a
grant one kind at a time, and `IInv` ties each request and token to its grant.

Only model-checked: everything temporal (`CallsReturn`, `FailFast`,
`DrainsAfterTerminate`, `EverythingEnds`, `RunReturns`, `AcceptedIsStored`, `TestsEnd`, and
the fairness part of the refinements), because liveness under fairness is out of
the prover's reach. Every invariant and every action property of a passing run has a theorem.

## 5. What is not modelled

The spy of `dockerlog/testkit.go`, a fake driven by unit tests: one channel serves every
stream it opens, so a test that reopens a stream closes it twice. The user claims of the
issuer, a map set by the test and read by handlers without a lock: what it holds is the
content of tokens. Discovery, JWKS, userinfo and `client_credentials`, which store nothing.

Configuration setters (called before the first `Start`; they are the constants),
log records of the program itself, the content of HTTP documents and claims, PKCE arithmetic, property
names, SQL, config loading, CI scripts. testcontainers, Docker, net/http and the
clock are modelled from how the code uses them and marked external in the map. In
particular the models take testcontainers' run to leave no container when it
fails, which the code relies on (`postgres.go:190`).

## 6. Plan

Done: every module above, with the proofs of `Env`, `Teardown`, `Supervisor`, `LogStream`,
`ContainerService`, `Issuer`, `AppRun` and `SampleTest`.

Next, in this order:

1. `Env` and `Teardown` in one refinement: that a teardown of `Env`, its
   contexts included, is one of `Teardown`.
2. The spy of the test kit under a supervisor that reopens its stream.
