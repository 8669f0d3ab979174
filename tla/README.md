# A verification of api-pack

api-pack is one Go program that runs a dozen small HTTP services: reverse
proxies with address rotation, gateways in front of language models, video and
picture proxies, and an imageboard. `src/internal/app/app.go` starts those that
the environment configures. Most of the code rewrites requests and pages and
keeps no state; the part worth a model is the small set of components that share
state between goroutines, stream data under timeouts, or run several steps that
can fail one by one. The exhentai mirror also ships scripts that run in the
browser; those that keep state over time - a service worker, a reader, a store
for userscripts, a database of translations - are modelled too. This directory
holds TLA+ models of all these, the TLC runs that check them, and TLAPS proofs.

Source paths below are relative to `src/`.

## 1. Inventory

### Components with state and concurrency

| Component | State | Operations | Talks to |
|---|---|---|---|
| **IP rotator** `internal/exhentai/main.go`, `pkg/fetch/v2/ip.go` (repeated in `exhentai/stream/main.go`) | per slot: current client (atomic pointer), standby, usage counter (atomic), `rotationMu`; a round-robin counter; the addresses on the network interface | `newClientSlot`, `execute`, `performRotation`, `backgroundPrepare`, `FetchWithRetry` | called by the exhentai handler per request; spawns a goroutine per rotation; adds and deletes IPv6 addresses |
| **qwen broker** `internal/service/qwen/qwen.go` | manager: agents, chat routes, response channels, each under its lock; per agent: busy flag, watchdog timer | `handleChatAPI`, `handleWS`, `PickAndLockAgent`, `BindChat`, `TryLock`, `Unlock` | browsers by websocket, clients by HTTP; both kinds of goroutine meet in the channels |
| **opencode SSE pump** `internal/service/opencode/opencode.go` | two bounded channels, the pump's flags, `done` | `pump`, its reader, `Read`, `Close` | upstream's body on one side, the server's copy loop on the other |
| **model token table** `internal/proxy/model_tokens.go` | groups, mtime and size, last check, one counter per group | `NewModelTokenTable`, `reloadIfChanged`, `nextToken` | read by the generic proxy; the file is written by an operator |
| **video stream** `internal/proxy/video_stream.go` | per request: limit, bytes copied; counters of streams and aborts | `StreamVideoProxy` | routes of `twimg.go`; nginx in front asks for slices |
| **moonchan board** `internal/service/moonchan/main.go`, `reaction_alt.go` | two SQL tables, `thread` and `board` | `post`, `deleteThread`, `get`, the dice reaction | a database; `post` also wakes the bots |
| **service worker** `exhentai/sw.js` | the set of controllers, timers, the cache of assets, the worker in charge | `fetch` (navigation, picture, asset), `install`, `activate` | every open tab of the mirror; the mirror, a proxy for pictures, the browser's cache |
| **gallery page scripts** `exhentai/gscript.js`, `exhentai/reader.js` | the links in `#gdt`; `PAGE_URLS`, `CACHE`, `REQS`, `RELOAD_KEYS`, the viewer's page and picture | merging of the pages; `preload`, `getSrc`, open, turn, `handleReload` | share `#gdt`; the pages of the gallery |
| **userscript storage** `exhentai/gm-polyfill.js` | `valueCache` of each window, the database, the channel between windows | preload, `GM_setValue`, `GM_deleteValue`, `onmessage` | used by EhSyringe; IndexedDB and a `BroadcastChannel` |
| **tag database** in `exhentai/EhSyringe.user.js` | `TagDatabase`, `DatabaseUpdater`, the copy of the translations `Syringe` keeps, what all of them have in storage | `init`, `update`, check for a release, download, `updateTagMap` | storage, the releases on a server; the user's popup |
| **page walks** in `exhentai/ex.js`, `exhentai/venera.js` | next and previous address and the strip; the next sheet | `execWaterfall`; `loadThumbnails` | one page after the other from the mirror |
| video gate `internal/proxy/video_gate.go` | minute counters per address, a pool of one slot | `Acquire`, `Release` | nobody but tests at this commit |
| twimg divert `internal/proxy/twimg.go` | per source counters by day, a QPS window | choice of a source, then its counting | unused outside tests, too |
| kilo gateway `internal/service/kilo` | transports cached per egress | routing, retry classification | upstream gateways |
| containers `pkg/utils`, `pkg/orderedmap` | LRU list and map, sharded map, map with a count, ordered map | get, put, remove | caches of bilibili use the LRU, without a lock |
| moonchan reactions, bot | reaction counters (SQL), the list of the latest 50 | add, list; commands in posts | the board |
| file and message handlers `pkg/ginutil/handler` | files by id, a message list, websocket connections | upload, download, broadcast | not routed at this commit |
| sharer `cmd/sharer` | a list under one lock | every handler is one critical section | |

### Components without state of their own

The generic model proxy (`generic_proxy.go`, `inbound_auth.go`): authorisation,
choice of a token and rewriting of one request. exhentai's handlers: access
control and page rewriting in front of the rotator (`exhentai/modify` has one
plain client and no rotator). The page proxies root, nyaa, sukebei, echo.
opencode's handler. bilibili, apart from its caches. chatto, ehviewer. The
middleware, `fetch`, `sqlite`, `db`, `curl`, `debug`, `jsonpath`, the small
commands. Of the browser scripts: the libraries bundled into EhSyringe, its
widgets and its tables of texts, the widgets of `ex.js`, the parsing of pages in
`venera.js`.

`PROJECT.json` lists all 34 components with their files and what became of each,
and, under `hazards`, what in them is hard to test, each at its line.

### What is hard, and what has to hold

* **IP rotator.** A request loads its client, and only later counts, takes the
  lock and rotates; by then another may have rotated. Preparations and delayed
  cleanups of several generations run at once, and preparations fail. Must hold:
  an address in service is configured and is never removed under its requests;
  rotation never goes back; a standby is not lost; the lock taken in one function
  and released in another is released on every path; every request is answered.
  Should hold, and does not: no address stays configured without an owner.
* **qwen broker.** Unlocking has four sources (finished chunk, done message,
  watchdog, timeout), and none knows who holds the lock. The agent's only reader
  blocks on a full channel. A request gives up between the lookup of its channel
  and its use. Must hold: chunks arrive in order, without gaps, whole when the
  stream ends normally; no send on a closed channel; agents and requests get free.
  Should hold, and does not: one request per agent.
* **SSE pump.** Reads split events anywhere, the idle timer races data, the
  client closes at any moment. Must hold: nothing skipped, a finished answer is
  not continued, one `[DONE]`, both goroutines end. Should hold, and does not:
  every stream ends.
* **Token table.** Reloads are unsynchronised, the file is half written or gone,
  mtime and content are taken in two calls. Must hold: a bad document is never
  served; the table converges. Should hold, and does not: a table that takes
  itself to be current is current.
* **Video stream.** The client leaves between a check and a read; upstream
  ignores the range, stalls, breaks off. Must hold: bounded overread, upstream
  released soon after the client left, right bytes, aborts counted, an end. Should
  hold, and does not: a 206 carries the range it announces.
* **Board.** Several statements without a transaction, each of which may fail,
  among concurrent requests. Must hold: reply counts miss nothing that was
  counted, deleted rows stay hidden, a posted topic is found.
* **Service worker.** One worker answers for all tabs; refreshes that no page waits
  for land late and in any order, and are still under way when a new version of the
  worker clears the cache; the browser stops the worker between two events. Must hold:
  a new version leaves nothing of the old one's cache behind; navigations and first
  fetches end by their timers; a navigation ends whatever a handler still waits for.
  Should hold, and does not: it releases all that the page before has left under way.
* **Gallery page scripts.** Two scripts, in any order, read and rewrite one container.
  Lookups are shared, made ahead and answered in any order while the reader turns pages
  and asks for reloads. Must hold: the picture on view is the one its list has there.
  It does not after two orders of steps, which are named below.
* **Userscript storage.** A change travels to the database and to each window on its
  own, and a window that is loading reads the database meanwhile. Must hold: once
  nothing is under way, windows and database agree. They need not where two changes meet,
  or a change meets a preload.
* **Tag database.** Every page has its own database over a storage it shares, checks
  and downloads overlap, and a page is left between the two writes of a release. Must
  hold: what the page shows is no older than its database; the database never goes back
  to an older release within a load. Should hold, and does not: a label, whoever put it,
  tells what this page shows, or what is stored under it.
* **Page walks.** One page at a time, each of which may fail or lack its link. Must
  hold: pictures come in order, none twice and none left out.

## 2. Modules

| Module | What it is |
|---|---|
| `IPRotator` | the rotator: slots, requests, background goroutines |
| `IPRotatorProofs` | its inductive invariant and five theorems |
| `Relay` | abstract: what a streaming relay promises to its clients |
| `QwenBroker` | the broker; refines `Relay` |
| `QwenBrokerProofs` | its inductive invariant and the refinement |
| `SSEPump`, `SSEPumpProofs` | reader, pump and consumer of one opencode stream, and its proofs |
| `ModelTokens`, `ModelTokensProofs` | the token table and its proofs |
| `VideoStream`, `VideoStreamProofs` | one request through the video proxy, and its proofs |
| `Forum`, `ForumProofs` | post, delete and get over the board's tables, and its proofs |
| `ServiceWorker` | the worker under all tabs |
| `GalleryReader` | the merging of pages and the reader |
| `PageWalk` | the waterfall and the thumbnails |
| `MirrorProofs` | the proofs of the three modules before it |
| `GMStore` | the values of userscripts in windows, channel and database |
| `TagDatabase` | the translations of tags, from release to page |
| `UserscriptProofs` | the proofs of the two modules before it |
| `MCBrowser` | the four smaller browser modules in one run: they share no state, and `part` says which of them moves |
| `MCShared` | `Forum` and `TagDatabase` in one run, in the same way |
| other `MC...` | one per component: what TLC needs (symmetry), nothing else |

A definition whose comment begins with "Mutant" is not part of any behaviour: it
is a wrong variant of the operator after it, which the property named with it in
`PROJECT.json` must reject. `PROJECT.json` also maps each definition to the lines
it stands for.

### How state and actions correspond to the code

Each goroutine has a step variable (`pc`, `loop`, `pump`, `step`...). A step is
the code between two points where another goroutine can see or change what it
uses: an atomic operation, a critical section, a channel operation, an SQL
statement, a system call. A local variable that survives such a point is a
variable of the model.

**IPRotator.** `current`, `next`, `usage`, `mu` are the fields of `clientSlot`;
`iface` is the interface. `GenerateIP` draws a random suffix; an address is
modelled by its place in the order of generation, so that a new one is new, which
a random suffix is for practical purposes. A request goes
`load - count - try - (rewind | switch - reset - unlock) - reload - fetch`, a
background job `prepare - lock - publish - cleanup`. Counters saturate at
`MaxUsage`, which must not be below `Threshold`: above it the code compares, and takes
100 off where there is no standby (`main.go:196`). A saturated counter may stand for a
higher one, so less may be missing after that (`Rewound`). A `DelAddr` that
fails, which is only logged (`ip.go:70-78`), is left out: it would leave an address behind
as well, by another way than the one `NoOrphan` is about.

**QwenBroker.** `busy`, `timer`, `fired` are an agent's lock and watchdog:
`Stop` does not recall a timer that has fired, so `fired` counts those waiting
for the agent's mutex. `streams` is the map of response channels, `queue` and
`closed` each channel. The handler's steps follow its deferred calls in order.
The browser is external: it answers what it is sent with chunks, the last one
perhaps marked finished, and one done or error message, or never. A write to the client
is a step of its own (`flush`) that need not end. That net/http's writers are `Flusher`s is
taken for granted: the return where one is not (`qwen.go:348-351`) is left out.

**SSEPump.** `raw` and `out` (the part of `sent` not yet `taken`) are the
channels. Event kinds are what the pump distinguishes: content, finish reason,
`[DONE]`, error, other, comment. Gaps of time are a choice wherever the pump looks
at the clock: a slow client can hold a send up for as long as one likes, and the
age of the last content is not renewed meanwhile.

**ModelTokens.** Version *v* of the file is its *v*-th state: good, bad, or
missing. `groups` is the version the table was built from and `stamp` the one
whose mtime and size it recorded: the code's order of `Stat` and `ReadFile` is
what relates the two.

**VideoStream.** A byte is its position in the file. What upstream sends is a
run of positions and what the client gets a prefix of it. Range headers are
structured values with every number from 0 to the size + 1, the absent and the
malformed one included. `Clamped` and `Rewrites` are the arithmetic of lines
173-203.

**Forum.** The two tables, a statement per step, a reader's two goroutines, and a
failure of any statement. A crash between two statements needs no action of its
own: a handler that never moves again leaves the same tables.

**ServiceWorker.** A promise callback runs to its end before the next event, so an
action goes from an event - a request, a response, a timer, an abort - to the next
`await`. `controllers` is `activeControllers`, with one controller for a request's
first fetch and one for that through the proxy; `stage` is the `await` a handler
stands at. `storing` is the put of an asset that nothing awaits: its handler has returned
and taken its controller out, and the body is still on its way. The asset is known by the
number of its deployment, and `body` is the one a response carries. The worker fetches it
with the default cache mode and the mirror serves it with `max-age=86400`
(`exhentai.go:360`, under a comment that says one hour), so that the browser's HTTP cache
or a shared one may answer: `fresh` is the oldest copy one of them still calls fresh, and
an answer is anything from there to what is deployed. `since` remembers the oldest copy
that was to be had anywhere when the worker in charge was activated. The browser may end
the worker when no event waits for it (`Unneeded`): then refreshes and puts under way are
lost.

**GalleryReader.** `box` is what `#gdt` links to, `urls`, `found`, `reqs`, `keyOf`
are `PAGE_URLS`, `CACHE`, `REQS`, `RELOAD_KEYS`, and `flights` the fetches under way,
each with the address it was made from. `wanted` is the fetch whose effect has not
been cancelled (`m` of the code). `moved` and `strayed` record the two orders of steps
after which the viewer may show another picture: the links were rebuilt between two
readings while lookups of the first were kept, or a page was turned before a reload
came back.

**GMStore.** One variable per place a value is in: the windows' caches, the
requests a window has made of the database, the messages from window to window, the
database. The browser is external and only keeps orders the specifications of
IndexedDB and `BroadcastChannel` promise. `unsettled` names the keys whose last
change was lost, met another one or ran into a preload.

**TagDatabase.** One window is modelled in full; the others share its storage, and
`OtherWindow` puts a whole release of theirs, which gm-polyfill's channel writes into this
window's cache (`gm-polyfill.js:125-128`) while EhSyringe listens to none of it. A release
is its number. `Save` writes label and map as two requests
that the end of the page may come between (`torn`), and decides at once which of them
the database will have carried out by then; this is a prophecy, and only a page that
starts reads the result. Handlers are the rebuild, the automatic update and the
user's presses of the popup's button; `goal` is the release that was current when one
of them asked, or the one it downloads.
Six history variables name the steps that the properties leave out. For `PageKeepsUp` they
are `torn` (a label met another release's content: the page was left with half of a pair
put, or another window put both between the two reads of a start), `overwritten` (the
preload of this load wrote over what the page had set itself) and `misled` (Syringe went
by a label, or showed a copy, that another window had put; `foreign` says that the label in
the cache is such a one). For `NeverBack` they are `overtaken` (a check was answered after a
later one), `crowded` (two handlers waited for one update) and `told` (another window has
put a release while this one was open). What concerns a load starts afresh with the next.

**PageWalk.** An address is the number of its picture. The code keeps the first next link
as it stands (`ex.js:572`) and takes the host out of later ones (607); as the mirror has
taken it out of every page it serves (`exhentai.go:509`), both are written alike. The page a waterfall is
started on may have been opened at an address no other page links to (`plain` is false).

## 3. Runs

| Run | Instance | States | Shows |
|---|---|---|---|
| `rotator` | 1 slot, 2 requests, threshold 2, 4 addresses, 1 retry | 3 x 10^5 | `TypeOK`, `InServiceConfigured`, `RotatesForward`, `StandbyNotLost`, `PreparedIsPublished`, `EveryRequestAnswered` |
| `rotator_orphan` | 2 slots, 2 requests, 3 addresses | finds | `NoOrphan` violated |
| `broker` | 1 agent, 2 requests, 1 chat, channel of 1, 2 chunks | 4 x 10^5 | `TypeOK`, `BusyIsWatched`, `NoPanic`, `RelaysAnswers`, `AgentFreed`, `RequestEnds`, `LoopReturns` |
| `broker_exclusive` | 1 agent, 3 requests, nothing slow | finds | `OneRequestPerAgent` violated |
| `pump` | channels of 1, 3 events of any kind | 3 x 10^5 | `TypeOK`, `NothingSkipped`, `NoInjectionAfterFinish`, `WellTerminated`, `StreamEndsOrBreaks`, `CloseEndsAll` |
| `pump_error` | channels of 1, 2 events | finds | `EveryStreamEnds` violated |
| `tokens` | 2 requests, 4 states of the file | 2 x 10^5 | `TypeOK`, `OnlyGoodTables`, `InstallsNoOlder`, `Converges` |
| `tokens_start` | 1 request, 3 states of the file | finds | `UpToDate` violated |
| `video` | 4 bytes, buffer of 2 | 6 x 10^4 | `TypeOK`, `ReadsNoFurther`, `StopsOnDisconnect`, `RightBytes`, `AbortsCounted`, `HandlerEnds` |
| `video_range` | 3 bytes, buffer of 2 | finds | `RangeDelivered` violated |
| `browser` | the four smaller browser components, one at a time | 4 x 10^5 | `NothingFromBefore`, `TimeoutsEnd`, `ShowsPageOnView`, `StoresAgree`, `WalksInOrder` |
| `shared` | board: 3 posters, 1 deletion, 1 reader, 3 rows; translations: 2 or 3 handlers, 2 releases, 2 loads, other windows | 3 x 10^6 | `TypeOK`, `RepliesCounted`, `DeletedStaysHidden`, `PostedIsReadable`, `PageKeepsUp`, `NeverBack` |

### Bounds, and why they are enough

* *Rotator.* Two requests are what a race needs: one that loaded early and one
  that rotates. Four addresses are the one in service, its standby, and two more
  rotations, so that cleanups of two generations overlap; slots are independent
  but for the choice of one, which the violation run exercises with two. Threshold
  2 and a counter up to 2 keep "below", "at" and "above after rewinding".
* *Broker.* A channel of one is full with one chunk, so that the loop blocks; with
  two chunks one is in the channel while the next is carried. Two requests share
  the agent one after the other, with every late message of the first.
* *Pump.* Three events are one to hide, one to finish and one after it; channels of
  one block at once.
* *Tokens.* Four states of the file let one reload span two changes while another
  overtakes it.
* *Video.* Four bytes and a buffer of two give a first, a middle and a last chunk,
  ranges that end inside a chunk, at its edge, at the end and beyond it.
* *Shared: the board.* Three posters make a topic and two competing replies, or two topics,
  beside a deletion and a reader.
* *Browser.* Four modules are checked in one run: its state space is the sum of
  theirs, since `part` is chosen at the start and the other three stay as they are.
  Worker: two tabs and two requests, so that a navigation in one meets a request of
  the other; three deployments and two workers, so that one refresh is older and one newer
  than the change of workers, and a copy older than both may be in an HTTP cache. Reader: two pages of two links, one picture looked up
  ahead, two turns and a reload, which reach both exempted orders. Storage: two
  windows, one key and three changes, one to settle, one to conflict, one to put right.
  Walks: seven pictures, three to a sheet, so that the last sheet is not full.
* *Shared: the translations.* Two releases, one to be current and one to be newer, of which
  this window and another may each have either. One part has two loads, so that one finds
  what the other has left, with a rebuild and an automatic update; the other part has one
  load, but a press of the popup's button as well, so that two handlers wait for a third.

The type invariants of the five modules of the browser and `RegisteredWhileAwaited` hold on
these instances too; the cfgs leave them out, since the proofs establish them for every
instance.

What does not depend on the bounds is proved, see below.

### Fairness

Goroutines that can run do run (weak fairness of each), which is what Go's
scheduler gives. In addition:

* a goroutine waiting in `Lock` on `rotationMu` gets it although callers of
  `TryLock` come and go (strong fairness of `Locking`): Go's mutex hands itself to
  a waiter that has starved for a millisecond;
* timers that are armed fire (the broker's watchdog and timeout, the video
  context's 30 minutes), and the ttl of the token table passes;
* a fetch returns, by its own timeouts;
* nothing is asked of others: a browser may never answer, upstream may stall for
  ever, a client may never close, an operator may never touch the file. A stalled
  upstream read only returns once its context is cancelled.
* no write to a client or a browser has to return. Of the servers these handlers run in,
  one alone has a write timeout, that of the second video proxy (`twimg.go:519`); the
  broker (`qwen.go:235`), the opencode gateway (gin's `Run`, `moonchan/main.go:701,707`) and
  the first video proxy (`twimg.go:122,155`) have none, so that a peer which stops reading
  and keeps its connection holds its handler for good. The liveness properties name that
  case: `RequestEnds` and `LoopReturns` (`flush`), `StreamEndsOrBreaks` (`ClientStalls`),
  `HandlerEnds` (a client that stays in `write`). `AgentFreed` and `CloseEndsAll` need no
  exemption.
* in the browser only time passes by itself: the timers of a picture (10 s) and of a
  navigation (15 s) fire. Neither the mirror nor the proxy need ever answer, and that
  is all `TimeoutsEnd` rests on. Nothing is assumed of the proxy's answer, which no
  timer limits, and nothing is claimed of it.

The board has no liveness property and no fairness: its handlers are straight lines.
The reader, the storage, the tag database and the walks have none either: whether their
fetches are answered is up to others.
Deadlock checking is off where everything may be over: each request of the broker
and of the board runs once, `pump` and `video` are one stream. It is on for the
rotator and the token table, which serve for ever.

### Disagreements found

Each is shown by a run that reaches it; `PROJECT.json` quotes the lines.

1. `main.go:176`: a rotation cleans up the client its request loaded before taking
   the lock. If another rotation came between, the address that is really replaced
   is never removed from the interface.
2. `qwen.go:259`: a finished chunk and the done message that follows it both unlock
   the agent. The second unlock frees it under the next request, and a third one
   joins in.
3. `opencode.go:536`: after an error event the pump injects its tool call and
   leaves without the EOF that every other end sends; the reader of the body waits.
4. `model_tokens.go:94`: the constructor reads the file before it takes the mtime;
   a change in between is recorded as loaded.
5. `video_stream.go:221`: when upstream ignores a range, the answer is labelled with
   it but carries the file's first bytes; for `bytes=a-` the computed limit is 1 - a.

Others were seen, and are in the models, but have no run of their own:

* `sw.js:119` speaks of releasing what the page before has left under way. Lines 120-127
  abort every registered request, those of other tabs that are still wanted included
  (`Release`), and miss an asset's put: its controller is out of the set as soon as the head
  of the answer is there (271), and the put that nothing awaits (264) goes on (`storing`).
* `EhSyringe.user.js:22582` logs that the page's data are up to date when `databaseSha`
  (22568) is that of the map. Another window's puts change it (`gm-polyfill.js:125-128`), and
  then the page shows older translations, or none (`misled`).
* `EhSyringe.user.js:23274` logs that there is no new version when the map's sha is the
  latest one. `update` puts the sha before the map and waits for neither (24004-24010): a page
  left in between leaves old translations under the label of the new release (`torn`).
* `video_stream.go:108` speaks of a 504 within 20 seconds when upstream does not respond;
  line 166 answers 502 (`RequestFails`).

## 4. Proofs

The theorems hold for every value of the constants that the named `ASSUME`s of the
component's module admit: positive sizes and capacities, distinct model values,
disjoint roles. TLC evaluates these in the runs.

* **IPRotatorProofs.** The safety properties are not inductive: that a cleanup
  spares the address in service depends on how old the address is that it was given.
  The invariant orders addresses by their numbers. What a job will remove is older
  than what its slot serves from; a standby and whatever is being prepared is newer;
  a request's loaded client is never newer than the current one; and at most one
  goroutine per slot - the rotating request, or one preparing job - is on its way to
  a new standby, only while there is none (`SlotInv`, `RequestInv`, `JobInv`; `BootInv`
  for the time before the server listens). From it: `TypeCorrect`,
  `ServiceConfigured`, `RotationsForward`, `StandbyKept`, and
  `LockReleased`: `rotationMu` is held exactly by a goroutine that is about to release
  it (`HolderUnlocks`), the part of `PreparedIsPublished` that is not a matter of fairness.
* **QwenBrokerProofs.** The invariant follows a chunk: while a request streams, what
  its browser has emitted is what was written to its client (a write that has not returned
  included), what is in its channel, and the chunk its agent's loop carries, if any, in that
  order (`StreamInv`). It needs
  that a message in the loop is the last its browser sent for a request of this agent
  whose channel is open (`FlightInv`), that a closed channel's answer has ended
  (`ClosedInv`), and that a request that has not sent its command has an untouched
  channel (`FreshInv`). From it: `TypeCorrect`, `Watched`, `ChannelsUsedOpen`, and
  `Relays`, the refinement of `Relay`: initial states map to initial states, every
  step to a step of `Relay` or a stutter.
* **ModelTokensProofs.** `OrderInv`: a request about to install has content no older
  than the mtime it saw; `GoodInv`: what is installed, or about to be, was a good
  document. From it: `TypeCorrect`, `GoodTables`, `NoOlderInstalled`.
* **VideoStreamProofs.** `CopyInv` is the balance at the head of the loop: written is
  what was read, cut to the limit, and a read starts only below it. `AnswerInv` relates
  status and limit to upstream's answer, `EndInv` lists the reasons to stop, `LateInv`
  says that a read which started after the client left is the last. `AskedInterval` and
  `HonouredRange` are the facts about ranges it rests on: what a range asks for is
  consecutive, so an upstream that honours it sends just that. From it: `TypeCorrect`,
  `NoOverread`, `DisconnectStops`, `AbortsAreCounted`, `BytesRight`.
* **ForumProofs.** What is known of one request (`WriterSound`, `ReaderSound`) only
  depends on its own variables and on rows that keep their place, their parent and, once
  deleted, that mark (`RowsKept`): so `OthersSound` carries it over every step of
  another request, and each statement has to be looked at for the request that runs it.
  A reader's part says of everything gathered so far that it was not deleted when the
  reader arrived, and what its goroutine has checked of the thread it is asked for.
  `TablesSound` says that listed threads are topics, that what was posted is listed and
  that the thread of a counted reply is: therefore a topic that becomes listed with count
  0 has no counted reply yet. From it: `ForumTypeCorrect`, `CountsCorrect`,
  `DeletedIsHidden`, `PostedIsFound`.
* **SSEPumpProofs.** Who forwards in order only shows across three processes: the events
  the pump has dealt with, those in its buffer, those in the raw channel and those the
  reader holds are consecutive (`ChainInv`: there is an h up to which everything was
  forwarded or may be missing, and from which buffer, channel and reader go on without a
  gap). `ItemInv` says what a chunk is and that the end of upstream is the last item,
  `SentInv` that nothing but events was sent while the pump still forwards, `FlagInv`
  what `finished` and `doneSent` know, and that an injection starts only while nothing was
  finished; `EndingInv` says what may stand behind an ending, and that `doneSent` without a
  `[DONE]` in the channel is a pump about to forward one, or one that gave up. From it:
  `PumpTypeCorrect`, `ForwardsAll`, `FinishedStaysFinished`, `EndsWell`.
* **MirrorProofs, the service worker.** `RegisteredWhileAwaited` is inductive with the types
  and `AskedWhenStarted` (the lemma `ControllersExact`); so a navigation, which empties the
  set, ends just the requests whose handlers wait within their `try`
  (`NavigationReleases`). A put that outlives its handler is none of these.
  `NothingFromBefore` needs `FreshBodies`: whatever can still be
  had - from the server, from an HTTP cache, with an answer under way or received and not
  put yet - is no older than what was to be had when the worker in charge was activated,
  because an activation ends the requests of the worker before and a cache is only filled
  with what somebody had (`CacheIsRecent`).
* **MirrorProofs, the reader.** `LookupsAgree`: what is known and what is under way was asked
  for from the address the list has now, up to the key of a reload; `WaitsForPageOnView`:
  a fetch whose result will be shown is one of the page on view; `BeforeOpen`: until the
  viewer opens, an index being looked up has its entry in `REQS`, which is what `moved`
  is decided by. From it: `ViewerShowsItsPage`. The types are a theorem with an invariant of
  its own, `ReaderTypeCorrect`: that what the page on view or a reload waits for is really
  under way needs the same of every fetch that `REQS` lets others share
  (`SharedUnderWay`), and that an index is one of the gallery needs that gscript appends no
  more links than its pages hold (`ListsFit`) and that keys run at most one attempt ahead
  of the reloads (`AttemptsCounted`).
* **MirrorProofs, the walks.** `StripInOrder` and `SheetsInOrder` say where the next picture and
  the next sheet begin; `LastSheet` is the arithmetic of the division that gives the number
  of sheets. From it: `WalkTypeCorrect`, `WalksCorrect`.
* **UserscriptProofs, the storage.** `StoresAgree` speaks of the moment when nothing is under
  way, so its invariant speaks of what is: for each settled key there is one window whose
  changes are the only ones under way, and the last of them is the value which the
  database, once it has carried out its requests, and every window, once it has its messages
  and its preload, will have (`Settled`, `Convergent`). `Quiet` says that a closed window has
  nothing under way. `AboutAppend` and `AboutTail` are the facts about lists of changes it
  rests on. From it: `StoreTypeCorrect`, `CachesAgree`.
* **UserscriptProofs, the tags.** A page reads what others have left, so the invariant is about
  storage as much as about the page. `SeenInv`: the release last seen, or before one is
  seen that in storage, is no older than any translations in the page, its cache or the
  database (`Covers`). `TaskInv`: a handler that asks covers them too, and one that
  downloads is alone and fetches the release last seen. `StartInv` describes a page that
  has not read its database yet. `PageInv`: no pair in storage has a label newer than its
  copy, which is what writing the label last is for, and the label there is that of what
  the page shows unless another window has put it. Two exempted orders (`overtaken`,
  `crowded`) are the ones that break `SeenInv` and `TaskInv`, three others (`torn`,
  `overwritten`, `misled`) the ones that break `PageInv`. `StartInv` and `PageInv` hold
  whatever other windows put. `SeenInv` and `TaskInv` (`Ordered`) end with the first release
  another window puts while the page is open, and hold again from the next load on if it
  finds a whole release: `TagInv` is the types, `StartInv`, `PageInv` and `told \/ Ordered`.
  From it: `TagTypeCorrect`, `PageUpToDate` and the action property `NoOlderTranslations`.

Only model-checked, not proved: the liveness properties `PreparedIsPublished`,
`EveryRequestAnswered`, `AgentFreed`, `RequestEnds`, `LoopReturns`, `StreamEndsOrBreaks`,
`CloseEndsAll`, `Converges`, `HandlerEnds` and `TimeoutsEnd`. Liveness under fairness needs
`ENABLED`, which is beyond the prover used, and so are induction over data and `RECURSIVE`
operators; no module needs one of these so far. Every safety invariant and every action
property that a passing run checks is a theorem.

## 5. What is not modelled

* Inside modelled components: texts, headers and durations; the rotation of tokens inside a group
  and the JSON of the token table; the reaction counters, previews, cookies and pages
  of the board; opencode's rewriting of requests; zooming and dragging in the reader;
  listeners, tabs, menus, styles and requests of the userscript polyfill; the widgets
  of `ex.js`, the pages and accounts of `venera.js`.
* `EhSyringe.user.js` is a bundle of 24,937 lines, nine tenths of the JavaScript here.
  Its own code that keeps state over time - the five services in `TagDatabase` - is a
  few hundred lines of it. The rest is core-js, webpack's runtime, RxJS and lit-html, which
  are other people's, and tables of texts and widgets that draw what they are given. The
  share of all lines that these models stand for is small for that reason and cannot grow
  much: there is no further state, order or failure in those lines to model.
* The HTTP caches in front of the mirror are known by the oldest copy they may still serve:
  their keys, revalidation and the exact age are left out, as is a copy served stale
  because the mirror is down.
* Of the other windows of EhSyringe only what they put is modelled, a release at a time
  and each in one step: that their five puts are told one by one, and that they may be
  left half done or interleave with this window's, is left out. There a label of one window may come to stand over
  the copy of another, which would be one more way to what `torn` names and `PageKeepsUp`
  exempts; `NeverBack` claims nothing once another window has put a release (`told`).
* Whole components: see `PROJECT.json`, each with its reason. Code that only converts
  or forwards has nothing a state machine would show; code unused at this commit comes
  last.
* Data races proper - bilibili's LRU, used without a lock, two writers on one websocket - are
  hazards without a property: Go defines no outcome that a property could speak of.

Hazards that were seen and are in no list of `PROJECT.json`, since no property could
speak of them or they cost time and nothing else:

* `exhentai/main.go:196` the counter is rewound after the unlock and may postpone a rotation
  by 100 requests; `:346` the backup's response is used before its error is looked at, and a
  panic ends that request; `:337` a retry sends a body that the first attempt has consumed;
* `qwen.go:320` a chat may be bound to an agent that was just removed, and the router then
  falls through to another; `:345` two requests on one agent write to one connection; `:323`
  request ids are the clock;
* `opencode.go:598` a slow client makes the stream look idle; `:657` a comment in front
  hides events until the timeout of the first chunk; `:564` a last event without its blank
  line is dropped;
* `model_tokens.go:189` a change that keeps mtime and size is not seen; `:201` a file that
  cannot be parsed is read again at every request;
* `moonchan/main.go:462` a body that cannot be parsed is answered 400 and stored all the
  same; `twimg.go:365` a source's limit is checked before it is counted;
  `handler/websocket.go:93` a shared map is changed under the read lock;
* `video_stream.go:248` upstream breaks off in a body of unknown length, and the loop ends as
  at its end (`ReadFails`; by what a client tells a cut answer is the HTTP server's);
* `venera.js:311` an empty list is truthy, so that the other layouts are never tried.

## 6. Plan

Done: the core of the Go services and of the mirror's scripts, with the proofs above. What
would come next, in this order:

1. Containers as operators against reference definitions: the LRU (list and map agree,
   capacity, recency), the ordered map, the map with a count; `jsonpath` over small
   documents.
2. The kilo gateway: its cache of transports and its classification of failures; the
   generic proxy and its authorisation as a decision procedure over abstract requests,
   composed with `ModelTokens`, group rotation included; exhentai's access rules.
3. `VideoGate` (quota and the single pool slot) and the divert sources of twimg (check,
   then increment; the QPS window), although both are unused at this commit.
4. Reactions on the board; the file, message and websocket handlers; sharer.
5. The polyfill's listeners and tabs on top of `GMStore`, and `GMStore` as the storage
   `TagDatabase` runs on.
