# Verification of miele-to-mqtt-gw

The bridge reads the state of Miele appliances from the Miele cloud, by polling
and over a server-sent event stream, and publishes it over MQTT, with discovery
messages for Home Assistant. This directory holds TLA+ modules of the parts that
keep state, configurations for TLC, and proofs for TLAPS. Paths below are
relative to `src/app` unless they start with `src/`.

    tlc -config MCSSEClient.cfg MCSSEClient      # check a model
    tlapm SSEClientProofs.tla                    # check proofs

## 1. Inventory

| Component | State | Operations | Correct when |
|---|---|---|---|
| SSE client (`miele/sse/sse.go`) | `resp`, `lastEvent`, `watchdog`, streak, `dispatchedThisConnection`, `lastStatus`, `stopCh` | `loop`, `connect`, `readLoop`, watchdog goroutine, `Stop`, `Close` | the state reported is the truth, no stream is left open, attempts go on with growing delays, Stop ends it |
| Back-off table (same file) | `backoffTable` | `Start`, `buildBackoffTable`, `selectBackoffDelay`, `estimateNextRetry` | never indexed out of range, ends at the maximum, and does not step down unless a product wraps |
| Publisher (`bridge/publisher.go`) | `lastHash`, `discoveredTopics`, `mieleLast` | `PublishDevice`, `publishDiscovery`, `publishWithDedup`, `CleanupDiscovery`, `PublishMieleState` | suppression never hides a difference, every announced topic is cleared |
| Discovery payloads (`bridge/discovery.go`) | none | `buildDiscoveryPayloads`, `extractIdentity` | a device has one identity |
| Token manager (`miele/login`) | `tok`, and the cloud's view of it | `Login`, `RecoverFromConfig`, `NeedsRefresh` | a token near its end is replaced, a rotated token is never lost |
| Configuration (`config/config.go`) | `cfg`, the file | `LoadConfig`, `ApplyDefaults`, `PersistToken` | the file is readable at every start and holds the token in use |
| Application (`app.go`, `main.go`) | the goroutines and their stop channels | `start`, `pollOnce`, `onDevices`, `maybeRefresh`, `stop` | start and stop in order, nothing outlives the stop that matters |
| API client (`miele/api`) | none | `FetchDevices` | pure I/O |
| SSE line parser (`readLoop` in `sse.go`) | event name, data lines | the scan loop, `dispatch` | exactly the complete devices events are handed on |
| Transformation (`miele/transform`) | none | `Build`, `StripNulls`, the enum tables | the topics of a device tell the same, the raw message lacks nothing but nulls, and the end shown for a program does not drift |
| Metrics (`metrics/metrics.go`) | one guarded record and atomics | `Record...`, snapshot | agree with what they describe |
| mqtt-gateway (external) | the MQTT connection | `Start`, `PublishAbsolute` | taken as one step that reaches the broker |

How they interact: `main` loads the configuration, recovers and renews the token,
connects to MQTT and calls `app.start`. The event stream's goroutine and the
polling goroutine both call `onDevices`, which writes the metrics and the
publisher. The stream reads the token through `CurrentAccessToken` for each
attempt and reports its state through `OnStatus`. A third goroutine checks the
token every minute; when it comes near its end it closes the stream and logs in
again. `stop` tells the stream to stop, waits for the other two, clears the
discovery topics and publishes `disconnected`.

What is hard: three goroutines of the application plus one watchdog for each
connection; a status that is announced before it is earned; locks released
between a decision and its effect (watchdog, deduplication); a stop that does
not cancel a dial and does not wait for the stream; a cloud that replaces the
refresh token with each use while the process may be killed before it is written
down; and a file that is rewritten in place. `PROJECT.json` lists each hazard at
its line, and the properties that would notice it going wrong.

## 2. Modules

| Module | Models | Composes |
|---|---|---|
| `Backoff` | the delay rule, as operators | |
| `BackoffTable` | the `sse-backoff` section of the file, `Start`'s defaults and `buildBackoffTable`, with the width of `time.Duration` | `Backoff` |
| `StreamHealth` | abstract: what the client promises to readers of its reports | |
| `EventStream` | the client as the rest of the bridge sees it: dialling, up or waiting, whether its body is open, what it may report | |
| `SSEClient` | the client, the watchdogs, Stop, Close, and the server | `Backoff`; instantiates `StreamHealth` and `EventStream` |
| `SSEParser` | the lines of a stream, and the events they make | |
| `TopicRegister` | abstract: what the publisher promises for each topic | |
| `Publisher` | the two producers, the deduplication, discovery, the shutdown's cleanup, a crash, the broker | the parts of `app.go` that drive it; instantiates `TopicRegister` |
| `Transform` | from a device's JSON to its small, raw and discovery messages, update after update | `transform`, `discovery.go` |
| `TokenSource` | the token manager as the rest of the bridge sees it: the token in use, and whether a login is under way | |
| `TokenManager` | the login, the persistence, the start, the minute check, crashes, the cloud | `config.go`, `main.go`, `app.go` where they touch the token; instantiates `TokenSource` |
| `Gateway` | the process: start, stream, reports, polling loop, token check, signal, stop | `app.go`, `main.go`, the client as `EventStream`, the token manager as `TokenSource`, `PublishMieleState`, the metrics |
| `Recursion` | recursive definitions over a rank, for the proofs | |
| `MC...` | values for TLC | |
| `...Proofs` | theorems | |

An action is the stretch of code of one goroutine that nobody else can observe
in the middle: it ends at a blocking call, a callback, a release of the lock that
others take, a step of the file system, or a request that reaches the cloud.

### SSEClient

`pc` is the place of the loop goroutine: `top` (the stop check), `dialing` (in
`Do`), `opened` (response registered), `reading` (in `Scan`), `dispatching` (in
the callbacks), `closing` (after `readLoop`), `account` (`recordFailure`),
`report` (`emitPostAttemptStatus`), `waiting` (the second select), `halted`.
`registered` is `c.resp != nil` and `body` is the newest response's body. The code
keeps `c.resp` when a connection ends by itself, and so does the model, which is
why closing an old body is harmless and `StreamReachable` is worth checking.

- An event is one of three kinds: a `devices` event that parses, another event
  with data (which only feeds the watchdog), and lines that dispatch nothing.
- `Do`'s return and the registration of the response are one step: the time
  between them differs from a dial that takes longer only in that a close in it
  finds the previous response. The start of the watchdog and the report of
  `connected` are one step as well.
- A watchdog's tick and its comparison are one step; the close is another, as the
  lock is released in between. A watchdog that outlives its connection with the
  decision to close is a straggler. A watchdog left on a stopped ticker never
  wakes before Stop and is not counted.
- The streak is counted up to `StreakCap`, beyond which the delay is constant.
  `MaxPending` bounds the events in flight and `MaxStragglers` the late watchdogs.

### SSEParser

A line is one of six kinds: the name `devices`, another name, data, data that keeps
its event from being parsed, blank, and anything `readLoop` skips. The parser's
variables are those of the code; data lines and payloads are kept as sets of
positions of lines, and `lastEvent` as the position of the line that set it. The
properties define the events of a stream from its lines alone: a block of lines up
to a blank one, its data, and the name given last.

### Publisher

A payload stands for its own hash. Each producer works off the devices of its
event or poll; for a device it performs the writes of `PublishDevice` in order,
the configurations in any order, since the code ranges over a map. A write is
`Track` (discovery only), `Swap` (the locked part of `publishWithDedup`) and
`Send` (the publish). The stream receives any set of devices, the poll all. Which
identity a payload leads to is the parameter `IdentOf`: a payload without
fabrication number falls back to the device id, and so one device can have
topics under two identities.

`TopicRegister` is what a subscriber may rely on: a topic holds what was offered
last, except while that is being written, and an offer goes unwritten only if the
broker holds the same. It knows nothing of hashes: `RegisterRefined` says that
comparing with one's own memory is as good as comparing with the broker, through
crashes, as long as one producer publishes.

The small message holds a time of day made from the remaining duration, so it
changes with the clock; `Converges` is stated for the raw message, which does not.

### TokenManager

A token is the number of the grant that issued it; number 1 is the user's, in
the configuration file. `file` is what the file holds: a token, none, or a file
cut off. `exact` says whether its entry is what `PersistToken` would write for that
token, expiry included; the user's may not be (`validUntil` missing or written in another
way), and is then rewritten at the first login. `Login` is one action for each request and for each step of
`PersistToken`. `os.WriteFile` truncates and then writes, so it is two actions
and a crash may fall between them. The cloud may keep or retire an exchanged refresh token, may
give none, may give a lifetime under a day (so that the token is due at once),
may revoke an access token, and may serve a refresh whose answer is lost. The
settings (persistence, password, write access) are chosen by `Init`, so one run
covers all eight. Time passes for the tokens somebody still holds (`Held`): what
happens to others changes nothing.

### Transform

A JSON value is a tree over `Keys`, nested at most `MaxDepth` deep; numbers are whole. `Build`, `DropNulls` and `Discovery` are the
code's functions, and `OnDevice` applies them to one device as `onDevices` does: the
small message and the configurations from the data as received, the raw message
without its nulls. The names of states and phases are told apart by their codes, and a
configuration's device name by what it is put together from. A device reports its data
once and then that its program goes on, after any number of seconds: `left` is the time
left to the second and `ends` the time of day at which the program ends, both known to the
device only, which reports hours and minutes and rounds down or up as it likes. Programs
of three elements are data like any other but do not go on, as nobody can say what the
elements mean (section 5). Left out: fractions, which `int(n)` cuts, negative times of
running programs, pauses, daylight saving, and the units and availability list of a
configuration.

`Stripped` says what a value is without its nulls as a relation between the two: which keys
are left in an object, and from which places, in which order, the elements of an array
come. It drops nothing itself, so that `OnlyNullsDropped` compares `DropNulls` with
something else than itself.

### Gateway

`main` is the place of the main goroutine: `app.start`, the wait for the signal, and
each step of `app.stop` down to the return of `main`, which ends the process whatever
its goroutines do. The event client is `EventStream`: `stream` is
dialling, up or waiting, `open` says whether the body is open, `bearer` is the token
it dialled with. What it reports is left open but for two rules of
`emitPostAttemptStatus` and `emitStatus`: `degraded` needs a poll that delivered, and
only changes are reported. Each step of the client in `Gateway` is an action of
`EventStream`, and `SSEClient` implements `EventStream` (`StreamRefined`): what is shown of
the process with the abstract client holds with the detailed one as far as `EventStream`
speaks of it, which leaves out the streak, the delays and the watchdog. In the same way the
steps of the token check are actions of `TokenSource`, which `TokenManager` implements
(`TokenRefined`): the token in use changes under a login only, to the newest the cloud has
given out, and a login that fails leaves it. `TokenSource` also allows an answer without a
token, which `TokenManager` does not have. A report is three steps, as others run between them: the
metric, the swap of `mieleLast` under the lock, the publish after it. The polling loop
and the token check are their select, their request and what follows. Tokens are
numbered; 0 is the empty one that an answer without `access_token` leaves. `Init` lets
the broker hold whatever an earlier process left on the topic.

## 3. Runs

| Run | Shows | Bounds |
|---|---|---|
| `sse_client` | status, streak, delays, metrics and streams consistent in every interleaving; implements `StreamHealth` and `EventStream`; Stop settles, ended streams are retried, outages surface, silent streams are caught | threshold 2, table of 2 steps, streak 4, 2 pending events, 1 straggler |
| `sse_parser` | the complete devices events are handed on, each with its own lines; the watchdog's clock is fed by complete events of any name | all streams of 6 lines of 6 kinds, cut off anywhere |
| `backoff_table` | a table that is returned is usable, and exponential unless a product wraps; the loop ends or is stuck at zero, the latter only after a wrap | 15 x 15 x 15 delays and 4 thresholds given to `Start`, 17 x 17 x 4 files, zero, negative, missing and malformed values included; a 16 bit duration, with the largest maximum that does not wrap (5462), the next and the largest Duration among the delays |
| `publisher_poll` | polling mode: implements `TopicRegister`, metrics agree, cleanup complete, convergence through a crash, shutdown ends | 1 device, 2 entities, 3 payloads, 2 changes, 1 crash |
| `publisher_no_dedup` | two producers without deduplication converge | 1 device, 1 entity, 2 payloads, 2 changes, 1 crash |
| `token_manager` | file follows memory, no used-up token is kept, metrics show the token in use; implements `TokenSource`; renewal and start succeed | 2 grants, 1 crash, all settings |
| `transform` | all topics of a device agree, the raw message is the data without its nulls, place by place, the time of completion stays within a minute of the real one | 91 shapes of the state and 64 of the identity, three times of day, programs to 25 hours that take up to 59 seconds less or 31 more than they say, updates 397 or 7001 seconds apart, values 4 deep |
| `gateway` | the three places that show the connection agree between reports, `degraded` is backed by a poll, cleanup is quiet; a stop ends, an outage reaches the broker, a renewed token comes into use | both modes, 3 tokens and the empty one |
| `gateway_polling_unavailable`, `gateway_final_state`, `publisher_race`, `token_torn_file` | disagreements of code and documents, section 5 | |

Why the bounds are enough. The client behaves differently below the threshold, at
it, within the table and at the table's end: a streak of 4 with threshold 2 and
two steps passes all four, and the cap keeps the last case. One straggler is the
first that can hit a later connection. In the publisher two producers and two
changes suffice to cross; a device's topics are independent of another's, so one
device stands for all, while two entities let a cleanup be interrupted. For
tokens, one exchange has all the windows; the theorems hold for any number. In the
gateway three tokens allow a renewal before, during and after a dial. Six lines hold
two events and a beginning; `SSEParserProofs` covers any number. A duration of 16 bits
wraps like one of 64, only earlier: the loop variable loses a bit with each step, and 17
entries are more than it has. The spans of `transform` are prime, so that the seconds of
an update take many values against the minute; `TransformProofs` covers all of them.

`CHECK_DEADLOCK FALSE` is set where the program stops: a halted client, an exited
process, a finished table or program, a stream at its end. `token_manager` has no such state and checks it.

Fairness. The Go scheduler runs every goroutine that can run, timers fire and
tickers tick: weak fairness of the loop's own steps, of each watchdog step, of
Stop's second half, of a producer's steps, of the login's steps. Requests of the
token manager and the poll have timeouts, those of the stream have none: nothing
is assumed about `Do` or about the server ending a stream. The production compose
file restarts the process always, hence fairness of `Boot`. The poll is answered
again and again (`Receive("poll")`); without that nothing could converge. In `Gateway`
the requests of the poll and the login end (`api.NewClient` and the context set limits),
the dial of the stream need not. When a ticker and a stop are both ready, `select` picks
at random, so that the stop is not passed over for ever: strong fairness of `PollQuits`
and `RefreshQuits`. `OutageReachesBroker` and `RenewedTokenTakesOver` say in their
premises that attempts go on, since a dial may hang.

## 4. Proofs

| Module | Theorems |
|---|---|
| `Recursion` | `RecursiveFunction`: a recursive definition that descends along a rank has the function it asks for |
| `BackoffTableProofs` | `TypeCorrect`, `TableIsUsable`, `StepsArePowers`: from the file to the table, for every file and all options, wrapped products included |
| `SSEParserProofs` | `TypeCorrect`, `ParsesFaithfully`, `HearsEveryEvent`: for streams of any length |
| `GatewayProofs` | `SafetyInductive`, `TypeCorrect`, one theorem per safety property, for any number of tokens and any modes |
| `SSEClientProofs` | `TypeCorrect`, `SafetyInductive`, one theorem per safety property, `DelaysGrow`, `ImplementsHealth`, `ImplementsStream`; `StepIndexInRange`, `DelayInRange`, `DelayMonotone` for every table that is well formed |
| `PublisherProofs` | `TypeCorrect`, and `SolePublisherSafe`: with the poll as only producer, deduplication and cleanup are right for any devices, payloads and entities; `AnnouncedTopicsTracked`; `SoleSummaryAgrees`; `ImplementsRegister`: with deduplication on, it implements `TopicRegister` |
| `TokenManagerProofs` | `TypeCorrect`, `SafetyInductive`, one theorem per safety property, `ImplementsSource` |
| `TransformProofs` | `TopicsAlwaysAgree`, `NullsAlwaysDropped`, `CountdownAlwaysHolds`: for values of any depth over any keys, any times and any sequence of updates |

The arguments:

- **SSEClient.** The safety properties are not inductive alone. That an attempt
  takes `connected` back before the wait needs `AnnouncedWhileUp` (while a stream is
  up, `connected` is on display, and a new attempt has dispatched nothing). That
  delays do not shrink needs `DelayFollowsStreak`: the last delay was at most the
  one the present streak asks for, except between a dispatch and the end of its
  attempt; with `DelayMonotone` the next is no smaller. `ImplementsHealth` maps each step to a
  step of `StreamHealth` or a stutter under `Attempt`, with the invariant; `ImplementsStream`
  does the same for `EventStream`, where most steps stutter (`OtherStepsOutside`).
  Assumed of the constants: the table is well formed, and the streak's cap lies beyond
  threshold and table. `TableIsUsable` proves the first of every accepted file and of
  `Start`, provided that the settled maximum leaves room for six times what is below it
  (`Fits`: about 427000 hours in the code). Under a greater one the client is not covered.
- **BackoffTable.** A wrapped product is a Duration (`WrapTyped`), so that the types and the end of the
  table need no assumption. Under `Fits` the loop variable stays above the last entry and
  below six times the maximum: nothing wraps and entries rise. `Exponential` adds that it
  is the base times the power of six that its position asks for.
- **Recursion.** The installed provers cannot use the library's induction theorems, which
  take an operator as a parameter. `Recursion` is a module with operators as constants
  (`Rank`, `Def`) instead, and instantiating it gives a theorem for each recursive function.
  Its ground is `LeastNatural`, that a set of numbers has a least element, from the library's
  theorem that strict inclusion of finite sets is well founded. Two solutions of the
  equation agree (`SolutionsAgree`) and there is one as far as any rank (`SolutionsExist`),
  as the least counterexample of either would not be one. The powers of six, the levels of JSON values, `Kept`, `DropNulls` and
  `Stripped` are unfolded by `RecursiveFunction`, and `LeastRanked` is the induction over the
  depth of a value.
- **Transform.** `Published` (what is published is `Build`, `DropNulls` and `Discovery` of the
  last data) is inductive as it stands; the work is in the functions. `FieldOfDropped`
  and `WalkOfDropped`: looking a path up and dropping nulls commute, as a missing key
  and a null one read the same. `ArrayOfDropped`: an array without a null is not
  shortened. `KeptGathers` gives the places that the kept elements of an array come from,
  by induction over its length, and `DroppedIsStripped` is by induction over the depth.
  For `CountdownHolds`, `OnSchedule` says that the end the device knows is the clock plus
  what is left, and that what it reports is less than a minute off; each update starts
  from what is left to the second, which is why errors do not add up. `TimeLeftCases` says that
  what is reported is read back as it was made and that the rest of the data stays, and
  `NearOnTheClock` that times less than a minute apart show minutes at most one apart,
  midnight or not.
- **SSEParser.** `Collected` says that what the parser holds is what the open block has
  brought so far. A line that is not blank extends the open block and changes no other
  (`BlocksStay`, `BlockGrows`); a blank one closes it (`BlockCloses`, `EndsGrow`).
- **Gateway.** `BridgeAgrees` speaks of the moments between reports; `Reporting` says for
  each step of a report what already has the new state and what still agrees on the
  old one. `DegradedReported` carries the rule of `emitPostAttemptStatus` to the broker.
  `Awaited` says which loop each step of `stop` has waited for.
- **Publisher.** With one producer the cache can differ from the broker on the one
  topic between its swap and its send; the rest of the invariant says where in the
  device's writes the producer is. `ImplementsRegister` maps a swap to an offer and a send
  to its write. The summary agrees because the small message is a device's first write
  (`WritesOrder`), and nothing after it touches that topic (`RestIsNotSmall`).
- **TokenManager.** `FileState` says that the file lags behind the memory only from a
  grant to its being stored, and that what will be stored is not yet spent;
  `FileNotSpent` is then kept by each step. `MemoryNotSpent` is for the entry that is rewritten
  because of its expiry alone: the token in use may be one whose successor was lost. `OnlyIssued` makes a new grant's number
  fresh. `ImplementsSource` maps what happens before the first login is done to `Prepare`
  (`StepsPrepare`), a grant to `Renew`, and what does not reach the token to a stutter.

Only model-checked: all liveness (`StopSettles`, `EndLeadsToRetry`, `OutageSurfaces`,
`StalledStreamCaught`, `TableIsBuilt`, `Converges`, `StopFinishes`,
`NearTokenIsReplaced`, `ComesUp`, `StopCompletes`, `OutageReachesBroker`,
`RenewedTokenTakesOver`), since TLAPS does not reason about fairness. Every other property
of a passing run is a theorem. The type invariants of `BackoffTable`, `SSEParser`, `Gateway`,
`SSEClient` and `TokenManager` are proved and not repeated in a run.

## 5. Where code and documents disagree

Each has a run that TLC refutes; the finding in `PROJECT.json` quotes the line.

- `gateway_polling_unavailable`: in polling mode nothing ever publishes `connected`; the
  bridge topic stays `unknown` and Home Assistant keeps every entity unavailable.
- `gateway_final_state`: `stop` does not wait for the event loop, whose last report may
  come after the final `disconnected` and stays retained.
- `publisher_race`: the poll and the stream can cross in `publishWithDedup`: broker and
  cache differ until the device changes again.
- `token_torn_file`: the config file is rewritten in place: a crash at the wrong moment
  leaves a file the next start refuses.

Met while modelling, with a definition in the module but without a run of their own.
To see one, make it the only property of the module's configuration (for
`CleanupComplete`, with the stream as a second producer):

- `SSEClient!StopEndsLoop`: the stream that a dial opens after Stop is closed by nobody,
  and the loop goes on (`src/openspec/specs/miele-event-stream/spec.md:80`).
- `SSEClient!DegradedHeld`: `degraded` is given up when a body opens, before any event
  has arrived (lines 45 and 61 there).
- `SSEClient!BarrenAttemptCounts`: an attempt skipped for want of a token inherits the last
  attempt's success (comment at `miele/sse/sse.go:170`).
- `Publisher!CleanupComplete`: a topic the stream announces after the cleanup took its list
  is left behind (`src/README.md:234`). The cause is that of `gateway_final_state`.
- `TokenManager!NearTokenIsAlwaysReplaced`: a token without a refresh token that still works
  is never replaced, while the stream is closed every minute for it
  (`src/openspec/specs/app-runtime/spec.md:32`).
- `BackoffTable!StepsGrow`, `BackoffTable!TableIsReturned`: the comment at
  `miele/sse/sse.go:126` has `buildBackoffTable` return steps that grow sixfold. Under an
  accepted `max-delay` beyond a sixth of the largest `time.Duration` (427000 hours) `d *= 6`
  may wrap and steps turn negative, which means no wait at all; under one near the limit the
  loop variable reaches zero first, and `Start` appends zeros for ever.
- `Transform!FullIsUnmodified`: the message on `/full` is called the unmodified data
  (`src/README.md:36`, `src/openspec/specs/miele-message-transform/spec.md:34` and `:39`);
  its nulls are dropped.
- `Transform!KeepsElements`: the same specification (line 44) and the comments at
  `miele/transform/transform.go:131` and `:142` speak of keys whose value is null; elements
  of arrays are dropped as well, and those behind them move up. With a null among the
  elements of `remainingTime` the small and the raw message differ in what they mean.
- `Transform!SecondsComeFirst`: the comment at `miele/transform/transform.go:48` calls three
  elements `[seconds, minutes, hours]`; the code reads hours, minutes, seconds.

Met while modelling, and not stated in a module:

- A stream dialled while the login runs keeps the old token until it ends;
  `src/openspec/specs/miele-event-stream/spec.md:41` has it reconnect with the new one.
- An idle device's `timeCompleted` is the present time, so that its small message differs
  every minute and deduplication does not suppress it.
- `app.start` sets no watchdog timeout: the watchdog that
  `src/openspec/changes/archive/2026-05-17-sse-failure-backoff/design.md:78`
  counts on is off. The model with `WatchdogEnabled = FALSE` refutes
  `StalledStreamCaught`; `sse_client` shows what an enabled one achieves.
- The watchdog closes what is registered after it released the lock, which can be a
  stream that has just spoken, or the next connection's.
- The metric `next_retry_after` keeps showing the past retry while the client dials.
- The default table is 30s, 3m, 10m; the specification's is 5s, 30s, 2m, 10m.
- A 401 does not lead to a refresh, which
  `src/openspec/specs/miele-api-client/spec.md:33` asks for.
- The first login is not recorded in the metrics: the callback comes later.
- `main` logs in before it connects to MQTT; the specification has it the other way.

## 6. Not modelled

- `mqtt-gateway`, of which the repository shows only the calls: connection, last will,
  `bridge/state`, environment substitution. A publish is a step that reaches the broker;
  one that is lost with the connection is not modelled, as the library reports nothing.
- The HTTP of the API client and the OAuth forms: their outcomes are choices of the
  models. `Ping` is called by nobody.
- The defaults of settings that no model reads, logging, pprof, version and build files.
- The timestamps, error texts and the snapshot of the metrics: counters without readers
  in the program. Those the program reads or that must agree with other state are
  modelled beside it.
- An edit of the config file by the user while `PersistToken` rewrites it.
- The goroutines of watchdogs parked on a stopped ticker (`miele/sse/sse.go:475`): one
  more with each connection when a watchdog is configured, which the bridge never does.

What could follow: `Publisher` driven by `Gateway`'s stream and poll in place of producers
of its own, and a broker that loses its connection once the library is at hand.
