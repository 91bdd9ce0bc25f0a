# Flight Control Center: specifications, checks and proofs

TLA+ modules for the control center (`internal/`), the TLC runs that check them
on small instances, and TLAPS proofs of most of their safety properties.
`PROJECT.json` maps every definition to the lines it models; paths below are
relative to `src/internal/`, and `client.go` of Yandex is the vendored
`src/vendor/github.com/ferux/yandexmapclient/client.go`.

## The system

One process (`cmd/main.go`) serves an HTTP api and, if configured, a GOB api
over TCP. It keeps devices that ping it, tells a Telegram chat when they come
and go, updates DNS records, and looks up the next bus.

| Component | State | Operations | Talks to | What is hard | What makes it correct |
|---|---|---|---|---|---|
| Device store (`ping/`) | map id -> Device, RWMutex, subscribers | `Ping`, `PingDevice`, `MarkOffline`, `GetDevice(s)`, the sweep every 60 s | HTTP handlers call it; it calls the subscriber on the caller's thread | reads, changes and writes in separate critical sections; the sweep reads without a lock and stores old copies; notifications take seconds | a device is offline only when silent, silent devices go offline in time, answered pings are kept, the last announcement agrees |
| Notifications (`cmd/main.go:170`) | none | `deviceStateNotify` | Telegram | 15 s timeout inside the sweep | as above |
| GOB api (`api/fccgob`) | listener, connections, one `Message` variable for each | accept, decode, dispatch, answer, shut down | Telegram client | one goroutine and one watcher per connection, descriptors, partial and failing writes, shutdown at any step, panics that nothing recovers | one answer to each request, in order; nothing reaches Telegram unasked; everything ends with the context |
| VPS client (`vpsmanager/`) | token | `New`, `UpdateDNS`: several requests | control panel | updates overlap, requests fail in the middle or take effect late | success means that every known name was set; nothing else changes |
| DNS client (`dnsupdater/`) | none | `New`, `UpdateDNS`: one request | DNS service | a failed request may take effect | the same |
| HTTP api (`api/fcchttp`) | request counter | `/ping`, `/devices`, `/update_dns`, `/send_message`, `/nextbus`, `/info` | all of the above | concurrent handlers, clients that leave, no shutdown, panics, errors that become status codes | every request gets one valid answer; one that is told it was wrong has changed nothing; the counter is exact |
| Next bus (`yandex/`, `handlers.go:23`) | token of the shared client | `Fetch`, choice of a bus | Yandex (vendored client) | token replaced without a lock, one loop for two kinds of retry; comparison of hours, a clock read anew for each bus | the bus shown is the next one of today; a token costs one try |
| Telegram client (`telegram/`) | timeout of `http.DefaultClient` | `SendMessageViaHTTP` | Telegram | a failed call may have delivered | a refusal has delivered nothing |
| Lifecycle (`cmd/main.go`) | context, signal channel, what has been made | start, signal, cancel, farewell | everything | servers run while main goes on; signals at any time; order of cancellation and the last message | what handlers reach exists; a signal ends the process; what it can die of otherwise is known |
| Pub/sub (`pubsub/`) | topics | `Subscribe`, `Notify` | nobody, and nobody calls it | - | - |
| Config, context, models, logging, durations, templates | - | - | - | sequential | - |

## The modules

**Device store**

- `DeviceStore` is `ping/store.go` with a goroutine per request, the sweeper,
  and process restarts. A thread has a program counter (`pc`), its local copy
  of a record (`dev`), and for handlers the call (`op`, `msg`). `Read` is
  `getDevice`; `PingRegister`, `PingRejected`, `PingRefresh`, `CallMissing`,
  `PingDeviceFound` and `MarkOfflineFound` are the branches of the calls after
  it; `Notify`, `Lock` and `Write` are `notify` and the two halves of
  `setDevice`. `SweepWake`, `ScanRead`, `ScanExpire`, `ScanSkip` and `ScanEnd`
  are `start` and `updateDevicesState`. The sweep's unsynchronised reads are a
  choice over what the build can produce (`RaceOutcomes`): the old or the
  stored record, a mixture of both field by field ("torn"), or the fatal error
  of the Go runtime ("fatal"). `Down` is the end of the process; nothing is
  persisted. Name, IP, BuildTime and UpdatedAt are left out because no decision
  reads them. The configured API key is taken to be one that fits into a URL:
  with any other, the process panics with its start message
  (`Lifecycle!GreetPanics`), long before the first sweep, and what a ping does
  until then is `HttpApi!PingPanics`.
- `Presence` is what the store promises: unknown, online with the time of some
  ping, or offline with a time that is old enough. It shows by omission what is
  not promised: that the ping shown is the latest one.
- `DeviceStoreAudit` adds history: which pings were answered (`acked`), and
  which ids two handlers (`raced`), or a handler and one that marks devices
  offline (`swept`: the sweep or `MarkOffline`), have worked on at once. It states what holds when calls do not overlap and what
  holds even if they do.
- `TimedDeviceStore` gives every step but a notification zero duration, so that
  a bound on the detection of a silent device can be stated.
- `DeviceStoreProofs` has the theorems about `DeviceStore`,
  `DeviceStoreAuditProofs` and `TimedDeviceStoreProofs` those about the two
  modules above.

**GOB api**

- `GobServer` has clients that dial, send messages or garbage, and leave; the
  accept loop; the two kinds of goroutine that close things when the context
  ends; and `handleConnection` from `Decode` to `Respond` or `Reject`. gob
  omits zero fields and leaves those of the target alone: `Decoded` is that,
  and the one definition of a library's behaviour the module depends on. Only
  `Talkers` send anything; the other clients just hold connections. Two of the
  handlers panic on what a client can send them (`Panics`): the log handler on a
  severity the logger does not know, the notify handler on an API key no URL can
  be made with. No goroutine here recovers, so `HandlerPanics` ends the process.
- `GobProofs` has its theorems.

**DNS updates**

- `DnsUpdate` is what both clients promise to `handleDNSUpdate`.
- `DnsCalls` is what the two have in common: the namespaces, and the calls of
  `handleDNSUpdate`, one goroutine each.
- `VpsManager` is the client that lists zones and records and then sets them
  one by one; `DnsUpdater` the one that sends one request, with its no-op
  variant. In both, a request that failed for the client may be carried out
  later (`late`).
- `DnsClients` composes them as main does: the configuration decides which one
  is made, and both are shown to implement the same `DnsUpdate`.
- `DnsProofs` has the invariants of `DnsClients`, `DnsRefinementProofs` the
  proof that it implements `DnsUpdate`.

**Next bus**

- `NextBus` is a `/nextbus` request from its check of `stop_id` to its answer:
  the tries of `FetchStopInfo` (`Send`, then `Refused`, `UnknownStop`, `Fails`
  or `Listed`), the store of a new token (`StoreToken`), the filters of `Fetch`
  and of the handler (`Listed`), and the loop that picks a bus, one comparison
  a step, since each reads the clock. All requests share `token`. It is read
  and written without a lock, so a read or a store that overlaps another store
  may yield a mixture (`Torn`), which Yandex refuses like an old one. `mixed`
  has the requests whose store has overlapped another's: such a one may leave a
  mixture behind. `Panics` is a body that says it is gzip and is not:
  `client.go:211` drops the error and reads from the reader it has not got.
- `NextBusProofs` has its theorems.

**The process**

- `Lifecycle` is `main`, a step for everything it makes or starts; the servers
  and the start message as goroutines that may fail at any time, or end the
  process by a panic (`GobPanics`, `GreetPanics`); signals before and after
  `signal.Notify`, and those it does not catch (`Kill`); and the next start.
  `asked` is that somebody has sent a signal: a panic or a fatal error of the
  runtime does not set it.
- `HttpApi` is a request: the router, the CORS, counting and request-id
  middlewares, the checks of its handler in their order (`Rejection`), the call
  the handler makes, and `serveError`. What is called returns any outcome its
  own module allows, and has had its effect (`done`), not (`none`), or will
  have it after it has been given up (`late`). Three calls may panic instead,
  which `net/http` recovers from without an answer: one that sends to Telegram
  with a key the client chose (`TelegramPanics`), one that announces a device
  with a malformed key (`PingPanics`), and one that asks Yandex (`FetchPanics`).
  `/info` reads the counter without the atomic operation, and may show any count
  since its own.
- `ControlCenter` composes the two: requests come only while the HTTP server
  runs, and the end of the process cuts off those in flight. A ping under way can
  be that end (`MapFatal`), when it writes the map the sweep ranges over.
- `ControlCenterProofs` has its theorems.

`MC*` modules and `.cfg` files instantiate these for TLC. Operators named
`X_Something` after a definition `X` are mutants: what a plausible bug would
make of `X`. No specification uses them; with one of them in place of `X` the
property it is listed with in `PROJECT.json` must fail.

## Runs

| Run | Asks | Result |
|---|---|---|
| `DeviceStoreSerial` | `NoticeAgrees`, `AnsweredPingKept`, `IdentityKept`; pings and offline marks, restarts | holds |
| `DeviceStoreRaces` | types, `LockDiscipline`; pings and offline marks, torn reads and fatal races | holds |
| `DeviceStoreLive` | `OfflineIsStale`, `PendingIsStale`, `SeenInThePast`; the store implements `Presence` through restarts; silent devices go offline, calls return | holds |
| `DeviceStoreTimed` | `DetectionBound`, and that the deadlines of that model do not stop time | holds |
| `DeviceStoreLostPing` | is an answered ping kept at all times? | violated |
| `GobServer` | answers match requests, Telegram gets what was asked for, every message of a client that stays is answered; when the server stops accepting; everything ends | holds |
| `GobPanic` | is what has been handled answered? | violated |
| `GobReplay` | is every Telegram message one that was asked for with a notify? | violated |
| `DnsClients` | both clients implement `DnsUpdate`, other records are untouched, updates return | holds |
| `NextBus` | which bus is shown; what an old or torn token costs; every request is answered, or a broken body has made its handler panic | holds |
| `NextBusStatus` | does 500 mean that something failed? | violated |
| `ControlCenter` | what exists when requests come, what their answers say, what panics leave behind, what the process dies of; a signal ends it, requests come to an end | holds |

The properties in words:

- `OfflineIsStale`: offline means silent for longer than `OfflineAfter`, as far
  as the record itself says. `PendingIsStale` is its inductive half.
- `NoticeAgrees`: once nobody works on an id, the last announcement tells its
  stored status, unless a handler and the sweep have overlapped on it.
- `AnsweredPingKept`: without overlaps, no answered ping is lost.
- `IdentityKept`: type and creation time last unless two handlers overlapped;
  the sweep's stale copies cannot change them.
- `DetectionBound`: an online device is never silent for longer than
  `OfflineAfter`, plus the sweep's sleep, plus one notification timeout for
  every device twice over, less one.
- `ServesUntilFull`: the accept loop ends early only for want of descriptors.
  They do run out: nothing closes a connection that its client has left.
- `OthersUntouched`: of all records of the account only the last A record of a
  host that some namespace lists can ever change.
- `NextOfToday`: the bus shown had not left when Yandex listed it, is on a
  route asked for, and, unless midnight passes meanwhile, no bus still to come
  today is earlier. The weak spot of the comparison of hours is outside it: a
  bus after midnight is passed over unless it is the first one listed.
- `OneRefusal`: whatever earlier requests have left in the shared client, a
  request that nothing disturbs is refused at most once. Two tries remain for
  the stop, which is what the limit of three is for (client.go:143-147).
- `ReadyToServe`: when a request can come, the store has its subscriber, the
  DNS client exists, and `http.DefaultClient` has its timeout. That timeout is
  set by `yandex.New` and `telegram.New` in passing; the DNS clients depend on
  it and set none. `RequestsEnd` fails without it.
- `RefusalChangesNothing`: a request answered with a 4xx has no effect, then or
  later.
- `CountsEveryRequest`: no increment is lost, and `/info` shows a count that
  includes itself and all that came before it, although its plain read may miss
  what was added since.
- `PanicChangesNothing`: which requests may end in a panic, and that of those
  only a ping can have changed anything: a device that registers is stored
  before it is announced.
- `IdleStaysUp`: a process that has come as far as its start message, and is
  sent no signal, dies only of a message to its GOB server, a ping that meets the
  sweep, or a malformed key. A server that cannot listen does not end it.
- `EveryMessageAnswered`: a message that is not behind garbage is answered while
  client and server stay; if it never is, somebody, on any connection, has sent
  what a handler panics on. `HandlersAnswer` leaves that exception out, and fails.
- `AnsweredUnlessBroken`: a `/nextbus` request gets an answer unless a body of
  Yandex was broken in one of its tries.

What the violated runs show of the code:

1. *Lost ping* (`ping/store.go:90-95`). The sweep reads a stale record and
   announces it (up to 15 s); the device pings, is stored as online and
   answered; the sweep stores its copy. The device is shown offline, with its
   old `PingedAt`, until it pings again.
2. *Replay* (`api/fccgob/api.go:87-93`): a message with zero kind and data is
   decoded into what the previous message left, and is handled as that one.
3. *Next bus status* (`client.go:159-171`, `handlers.go:49-59`): an unknown stop
   is retried, ends as an error and is answered 500; a failure ends as an empty
   answer and is answered 404. `assets/swagger/spec.yml:75-82` says the
   opposite of both.
4. *One message ends the process* (`api/fccgob/handlers.go:26,45`,
   `telegram/client.go:53-55`): a log of severity 8 or above, or a notify with a
   key such as `%`, panics on a goroutine that nothing recovers. Its client gets
   no answer, and neither does any other.

Smaller ones are in the models without a run of their own. `ping/store.go:132`
stores `m.Revision` as the branch (`DeviceStore!Refreshed`). The answer to a
kind without handler has an empty request id (`api/fccgob/api.go:120` passes
`ctx`, not `msgCtx`), which `AnswersMatchRequests` allows for. With the VPS
client an unknown namespace, or a name without an A record, is not an error
(`vpsmanager/client.go:115-123`): `/update_dns` answers 200 having updated
nothing, where the DNS client reports not found. Two updates of a namespace
that both succeed interleave name by name there, and can leave its names with
different addresses; `DnsUpdate` allows all of it. An empty `chat_id` or `text`
is an error without a code (`telegram/client.go:43,47`) and is answered 500,
where `spec.yml` has 400. Any JSON in Telegram's answer is success, also
`"ok": false`, and `/send_message` answers 200 (`telegram/client.go:76-85`,
`HttpApi!TelegramAnswers`). main cancels its context before it sends "shutting
down" with it (`cmd/main.go:148-150`), so that message is never sent
(`Lifecycle!Farewell`). A signal that comes before `signal.Notify` ends the
process without a farewell, and a failing `vpsmanager.New` with status 0.

### Bounds

- One device for the untimed runs: operations on different devices meet only
  in the lock and in the sweep, which carries one key at a time; the timed run
  has two, since there they delay each other. Two handlers and the sweep are
  the three ways in which operations can overlap: request with request, with
  the sweep, and both.
- `MaxTime` leaves room for a record to become stale, be found, be refreshed
  and become stale again. One tick is a minute in the untimed runs, with
  `OfflineAfter` 0: records are stale after one tick. `LastCall` ends the
  arrival of requests before the clock stops, so that liveness is not decided
  by the end of the clock: a sleep due later ends at `MaxTime`.
- `MarkOffline`, which nobody in the repository calls, is only in
  `DeviceStoreSerial` and `DeviceStoreRaces`; the other runs are of a store
  where it is not called. Torn reads are only in `DeviceStoreRaces`, whose clock
  ends after one tick because they have so many outcomes; that they never make
  a fresh record offline (`StaleOffline`) and never delay the sweep beyond
  `DetectionDelay` (`FoundWithinDelay`) is proved, not run.
- The timed run has `OfflineAfter` 3, `SweepDelay` 4 and `NotifyMax` 1: 60 s
  each in the code and 15 s, or a quarter, for the timeout, with the first
  one less because an age must exceed it. `MaxTime` leaves the whole
  `DetectionDelay` after the last call. The bound is tight there: with one tick
  less the property is violated. There is one handler, because two can take
  turns at one instant for ever, which no execution in real time does.
- GOB: two connections for one descriptor, so that the limit is met; they share
  nothing else. One of them sends up to two messages of every kind, with and
  without an id and data, or garbage: a message and one that is decoded into
  the variable of the first. `GobPanic` has two that talk, one message each: enough
  for one to make a handler panic while the other waits.
- DNS: two callers with two calls each, and names that are shared, unknown, of
  another type, and listed twice at the service; with the control panel, with
  the DNS service, and without namespaces.
- Next bus: two requests, six instants (one in the hour before last, two in the
  hours on either side of midnight, one after them), a clock that makes three
  steps, so that midnight can pass within a request, and one withdrawal of the
  tokens: a token is then fresh, withdrawn, replaced by the other request, or
  torn. The timetables have buses out of order, gone, by frequency, without a
  time, on another route, or nothing to show at all. An older token and a torn
  one are the same to Yandex (`Torn`); requests served before those of the run
  may have left one behind (`Init`), so that an undisturbed request can meet it.
- Process: one request that asks anything while another is counted, and four
  configurations that between them have and lack every part, one of them with a
  malformed key. Restarts are unbounded: nothing is carried over from one process
  to the next.
- Deadlock is checked for the device store and the process, which start again
  for ever. The GOB, DNS and next bus runs have no deadlock check: their
  clients may stop sending, and bounded calls run out.

### Fairness

`DeviceStore!Fairness`: the Go scheduler runs every goroutine that can run, and
the clock goes on. No fairness is assumed of the lock, of callers, or of who
starts and stops the process. `GobServer!FairSpec`: every goroutine of the
server runs; a client reads what it is sent; a call to Telegram ends, by the
10 s timeout of `http.DefaultClient` at the latest. Clients need not send,
leave, or be well-behaved. `DnsClients!ClientsFairSpec` and `NextBus!FairSpec`:
a request ends in an error at the latest; that the service answers is not
assumed. `ControlCenter!FairSpec`: main and the handlers run when they can, but
what a handler calls ends only if `http.DefaultClient` has a timeout by then;
nothing is assumed of servers, signals or clients. `TimedSpec` uses strong
fairness for the steps of threads and the clock, because calls that arrive one
upon the other can disable the clock again and again in zero time.

## Proofs

Every theorem is about the specification TLC checks, for all values of its
constants that satisfy the named assumptions: any number of devices, handlers,
connections, callers and requests, any messages, records and timetables.

`DeviceStoreProofs`

- `TypeCorrect`: `Spec => []TypeOK`. It is inductive as it stands; its part
  "a record is stored under its own id" needs that torn reads mix two versions
  of one id, or of one id and no record (`SnapshotType`).
- `MutualExclusion`: `Spec => []LockDiscipline`, by itself inductive given
  types. The readers of the map are atomic steps that need the lock to be free.
- `StaleOffline`: `Spec => []OfflineIsStale`. Not inductive: a thread may carry
  an offline record from its read, over a notification, to its write. The
  invariant adds `PendingIsStale` (`StalePending`): every record on its way to
  the map is online or stale *already*. It stays stale because only the clock
  moves (`StaleLasts`). Torn reads do not hurt, because the sweep's own check
  comes after the read.
- `TimesOfPings`: `Spec => []SeenInThePast`, the other thing the refinement
  rests on.
- `Refinement`: without torn reads and `MarkOffline`, `Spec =>
  ImplementsPresence`. Every step of the store is `Appear`, `Expire`, `Forget`,
  `Tick` or a stutter of `Presence`; only `Write`, `Down` and `Tick` are not
  stutters. Nobody in the repository calls `MarkOffline`, and the first
  assumption is the reason to care about the unlocked read: a torn record could
  carry the status of one version and the time of another.

`DeviceStoreAuditProofs` is about histories, and its three theorems come from
one invariant. `Shape` says what each thread holds at each point of a call and
that `raced` and `swept` have seen what overlaps now. To it are added, for every
id that did not overlap with what the theorem excludes:

- `NoticesAgree`: `AuditSpec => []NoticeAgrees`. Record and message change in
  separate steps, and in one order for a registration (stored, then announced),
  in the other for everything else. `NoticeInv` says what makes up for the
  difference at every moment: a stored "online" was told, *or* a handler is yet
  to announce it, *or* somebody has told "offline" and is yet to store it
  (`RecordTold`, `DownsTold`). That a registration's announcement tells what is
  stored (`AnnouncesStored`) has to be part of it: without it the step that
  announces does not preserve the rest.
- `AnswersKept`: `AuditSpec => []AnsweredPingKept`. Whatever holds a record of a
  device, the map or a thread, holds the latest answered ping (`AckedInv`). A
  second thread at work on the device is what could hold an older one, and
  then `raced` or `swept` has it.
- `IdentitiesLast`: without torn reads, `AuditSpec => IdentityKept`. Whatever
  holds a record holds the stored identity, or is a registration of an id that
  is not stored (`IdentityInv`); the sweep's unlocked copy is one of the holders.
  The hypothesis cannot be dropped. TLC finds a sweep that reads a record torn
  between none and a registration: its type is empty, its id is not, and the
  sweep writes it back.

`TimedDeviceStoreProofs`: `FoundWithinDelay`, `TimedSpec => []DetectionBound`.
The deadlines bound how long the sweep takes to a key:
`Left(k)` is the rest of the sleep, or the rest of the notification under way
(`InWork`), plus a notification for every device the sweep has not seen
(`RestCost`, by the library's facts about cardinality), plus a sleep and a whole
sweep if it has passed the key already. The invariant is that age and `Left` of
an online record together never exceed `Oldest` (`FoundInTime`): a tick moves a
unit from one to the other, a key taken by the sweep does the same between
`RestCost` and `InWork`, and a ping only makes the record younger. While the
sweep has the record in hand it may get one notification older than that
(`InHandOK`). A ping that is stored after its notification is as old as that
notification (`FreshOK`), which must not exceed `OfflineAfter`: `NotifyMax <=
OfflineAfter` is an assumption of the module, and 15 seconds against a minute in
the code.

Torn reads make the sweep pass over a silent device, or mark one offline that
has just been pinged, but do not break the bound, for two reasons. The sweep
reads a torn record of a device only while a handler is between `Lock` and
`Unlock` (`Overwritten`), and then nothing has to be said of the old record, for
the handler stores a younger one before any time passes (`OverwrittenOK`). And
of a device not stored yet the sweep may read a record that is online, old and
without an id, and notify about that: one notification more than the other
devices account for. It matters only to that very device, and only when no other
has been seen before it (`TornFirst`); what is stored for it meanwhile is younger
than that notification (`TornOK`).

`GobProofs`: `TypeCorrect`, `AnswersInOrder`, `ChatOnRequest` and `ServesOn`
follow from one invariant. `Shape` has the types. `ConnInv` says of each
connection that its watcher lives as long as it is open (`Linked`); that the
message in hand is the last one taken, in the fields it had, and otherwise what
earlier ones left there (`InHand`); and how many messages are answered, with
which ids, and sent on (`Answered`, `Chatted`). The Telegram messages cannot
be counted without `InHand`: a message without a kind may be handled as a
notify, but only if it counts as one. `Capacity` bounds the open connections
by the limit, which makes "no descriptor is left" the only way out of the loop
before the context ends, while the process runs; it is the one part that counts,
and uses the library's facts about cardinality. A panic closes every connection
and ends every goroutine at once, so it leaves nothing the invariant speaks of
(`PanicConns`).

`DnsProofs`: `TypeCorrect` and `OthersKept`. The invariant (`Inv`) holds the
index of a call to be that of the records (`FullIndex`), the position within
the names, and, of the service, that every record that has changed *and every
request given up* concerns a record that may be set (`Settable`). That the
index has the last record of a host needs that a finite set of numbers has a
largest member (`Largest`): the member with fewest above it, by
well-foundedness of the strict subset order. `dnsupdater` touches none of it.

`DnsRefinementProofs`: `Refinement`, `ClientsSpec => ImplementsDnsUpdate`. To
`Inv` it adds that the service knows the same hosts throughout, and that a call
which has come to the names has indexed all records (`RInv`). Each step of
either client is one of `DnsUpdate`'s or none: `vpsmanager` sets one name a
step, which `DnsUpdate` sees as `Set`, and its answer "ok" as a `Succeed` that
sets nothing more, because every name behind the position is done or unknown;
`dnsupdater` sets all names with its answer. A request that failed is a `Fail`
with the hosts it may still set. `done` is read off the position in the names of
the call, so the proof needs that no step changes those while a call is at work.

`NextBusProofs`: `TypeCorrect`, `ShowsTheNextBus` and `AtMostOneRefusal`. For
the second, `ChoiceInv` says of a loop under way that the candidate is one of
the kept buses and none before the position beats it, among those that come
today by the clock of *now*. A later clock passes over more buses, never fewer
(hours grow within a day, `CalendarAssumption`), so comparisons made earlier
stay good. For the third, `TokenInv` says that an undisturbed request that has
stored a token is alone: its store has met no other (`mixed`), and the shared
token is what it has stored itself.

`ControlCenterProofs`: seven theorems from `MainInv` (where main is decides what
has been made, and a signal has been sent before it is received) and `ApiInv`
(a request is active only while the HTTP server has been started; only calls
have effects, and none that can still be refused; every counted request is past
the counter, once; and which panics are possible). `EndsUnaskedByUse` needs of
each step that ends the process why it does (`EndsForAReason`), and that this
reason is still to be seen in the ended process (`EndedStays`).

Model-checked only: liveness (`SilentGoesOffline`, `CallsReturn`, `ShutsDown`,
`EveryMessageAnswered`, `AnsweredUnlessBroken`, `StopsOnSignal`, `RequestsEnd`,
`TimePasses`), which the prover does not reach. Every invariant, action property
and refinement that a passing run checks is also a theorem. `IdentityKept` and
the refinement of `Presence` are proved without torn reads because they are
false with them; `DetectionBound` is proved with them, and run without: they
multiply its states.
Every inductive invariant was checked by TLC on small instances before it was
proved.

## Not modelled

- Configuration parsing, logging, durations, templates and assets are
  sequential, generated or pure I/O. `pubsub/` is used by nothing (and could
  not be: `Subscribe` writes to a map that is never made and calls `RUnlock`
  after `Lock`).
- Text: names, messages, addresses, JSON and what the logs say. Where a text
  decides, as with `strings.Contains(tr.Name, filterRoute)`, the model has the
  set of names that match.
- Fatal errors of the runtime other than the one of concurrent map access
  (memory, stack), which can end the process anywhere: for the store and the
  requests they are like a kill, which is modelled.
- A GOB client that never reads its answers blocks the goroutine that serves
  it; this is excluded by the fairness above. Readers of the store
  (`GetDevices`) change nothing and have no action.
- Cookies of the Yandex client, and what its forecast mode changes in the
  answer: that a try spent on a token costs the forecast is in the model
  (`Tried`), but no property speaks of it.

## Where the work stands

All components with state of their own are modelled, composed in `DnsClients`
and `ControlCenter`, and checked. `ControlCenter` keeps of the store, the DNS
clients and the next bus the outcomes their own modules allow, rather than
their variables: the product of all of them is beyond TLC, and nothing they
share with each other goes beyond the timeout of `http.DefaultClient`, which is
in it.
