# A verification of bury-report

bury-report collects behaviour records, errors and screen recordings of web
pages and mini-programs, alerts on errors and replays sessions in a console.
This directory holds TLA+ models of it, the TLC configurations that check them
on small instances, and proofs of theorems about them that TLAPS checks.

Everything is translated from the source. `PROJECT.json` names, for every
definition that stands for code, the lines it stands for.

    tlc -workers 2 -config one_page.cfg MCBrowserSender
    tlapm BrowserSenderProofs.tla

Contents: [the system](#the-system), [the modules](#the-modules),
[the runs](#the-runs), [where the code departs from its words](#where-the-code-departs-from-its-words),
[the proofs](#the-proofs), [what is not covered](#what-is-not-covered),
[the plan](#the-plan).

## The system

    build plugin / injector ──> the SDK in a page or a mini-program
      plugins (errors, performance, requests, recording, tracks) ── report()
        │
     page ── report() ──> memory buffer ──> localStorage queue ──> fetch ─┐
     │  └─────────────> memory cache ──> worker (retry buffer) ──> fetch ─┤
     mini-program ── report() ──> buffer, queue ──> uni.request ──────────┤
                                                                          v
                     log service (Rust, actix): insert ─> MongoDB, Kafka
                       └─ alert facts and counts in memory ─> MongoDB, Kafka
                                                                          v
                     session worker (Rust): Kafka ─> Redis ─> object storage
                                            Kafka ─> notification webhooks
     server (Deno, Oak): administration, queries, tasks with timers, replays
        ├── web console (Vue)
        └── MCP server: two tools for agents

Components share no memory. The client speaks to the log service by HTTP, and from
a browser in mode `no-cors`, so that it cannot read an answer. The log service and the
session worker speak by Kafka, and the server, the log service and the session
worker share MongoDB. Some state is shared more closely, and this is where the
difficulties are: `localStorage` by all pages of an origin, the alert
maps by request threads and flushes, the retry buffer by the overlapping runs of the
worker, Redis by the consumer and the expiry handler of the session worker, the
documents of the console by handlers that await between reading and writing them.

### Inventory

**SDK: report queue and limits** (`packages/core/src/utils.ts`). State: the memory
buffer with its one-second timer, and the queue in localStorage. Operations: write,
flush, trim to a number and to a size, remove what was sent, pick what fits a
budget. Hard: two collections, one with a timer, whose writes may fail; limits that
must spare device information. Correct: nothing leaves the queue unless it was sent or a
limit dropped it; the limits hold; a buffered record has a timer.

**SDK: sender** (`core/src/browser/index.ts`). State: the store:false cache, the flags
`sending`, `pendingSend`, `stopped`, the send timer, the streak of failures, whether a
worker exists, whether the page's leaving was reported. Operations: `report` with its
options, a normal send, a keepalive send in chunks, page hidden, shown, left, worker
messages and errors. Hard: state read before an await and used after it; two kinds of
send that overlap under one lock; the end of all sending while requests are out.
Correct: what was accepted is delivered, or dropped by a limit; what was delivered is
not sent again; the lock has one owner; after the end nothing is sent.

**SDK: worker** (`core/src/browser/worker.ts`). State: retry buffer, timer, streak,
whether it is exhausted. Hard: each run awaits several requests and runs overlap on the
shared state. Correct: every record has one place; retries are bounded; what failed is
retried.

**SDK: collection plugins** (`core/src/browser/injector.ts`, `browser/plugins`). State:
listeners on the window, the wrapped `console.error` and `XMLHttpRequest`, the
recorder's batch and timers, the performance metrics. Hard: two scripts that arrive in
any order, two plugins that hand over to each other, the order of listeners as the page
is hidden. Correct: an error is reported once; a recording is whole and in order; the
performance record leaves with the last flush; the host notices nothing.

**SDK: setup and identity** (`core/src/lib.ts`, `utils.ts`). State: the built files, the
options; device and session ids in storages that tabs share or copy. Correct: one SDK
with the options the user gave; the records of a load under one device and session.

**Mini-program SDK** (`core/src/mp-uni`). As the browser's sender, with one
request at a time whose status it can read, and no worker; hooks on `uni.request`, pages and
the app. Same hazards; storage survives the launch.

**Log service: ingestion** (`packages/logs/src/apis/record.rs`, `services/`, `model.rs`). State:
slots that refuse with 503, collections in MongoDB. Operations: insert each group of a batch,
insert unique devices, cut and hand recordings to Kafka, count errors. Hard:
find-then-insert by parallel requests; one group of several failing; retries of a batch half stored.
Correct: a success means the batch is stored; errors count once; slots come back; no recording is cut wrongly.

**Log service: alert aggregation** (`packages/logs/src/alert.rs`, `alert/gc.rs`, `alert/notify.rs`). State: a fact and a
count per fingerprint in maps, the rules, a flush lock. Operations: an occurrence, a flush every ten
seconds and one at shutdown, replacement of the rules, start. Hard: requests change the maps while the flush awaits
writes of its copies; a failed write may have been applied; a restart loads old
facts. Correct: nothing is counted twice; a fact not marked for writing is
stored; alerts are spaced as the rule says; changes get written.

**Log service: error grouping** (`alert/group.rs`, `alert/tokenizer.rs`). Pure: text to a fingerprint.

**Session worker** (`packages/worker/src/main.rs`). State: per session a list, a shadow key that expires and an entry of a
sorted set, in Redis; Kafka offsets. Operations: append a batch, handle an expiry event (read, start the upload,
delete), compensation at the start. Hard: events lost while down, appends between reading and
deleting, an upload that fails after the key is gone. Correct: a batch is in a file, or on its way, or lost in one of
the ways the code accepts; every session is collected.

**Session worker: notifications** (`packages/worker/src/notify.rs`). One HTTP call per message; keeps nothing.

**Server: tasks and timers** (`packages/server/src/apis/task.ts`, `utils/TaskManager.ts`). State: task documents, timers in
memory. Operations: create, edit, stop, trigger, fire, restore at the start. Hard: a webhook is awaited between reading and
writing a task. Correct: a timer that lives is the one its task names; a stopped task does not run by itself; a scheduled one ends.

**Server: administration** (`apis/alert.ts`, `app.ts`, `project.ts`, `auth.ts`, `main.ts`). Rules, apps, projects, users, and a
nightly clean-up. Hard: two documents written side by side with no transaction; a hand-over of rules to the log service
that may be lost or overtaken; counting what is then deleted.

**Server: queries, figures, replay, video** (`apis/record.ts`, `device.ts`, `statistics.ts`, `model/index.ts`, `utils/replay.ts`,
`utils/rrweb2video.ts`). Pure functions over collections that change meanwhile, and one long export.

**Web console** (`packages/web`). State: token, app id, routes and menus; the list of projects; the dialog of a session with its
poll, player and export. Hard: answers that overtake each other and arrive after what asked for them is gone.

**MCP server** (`packages/mcp-server`). State: a transport per session. Two tools, each a chain of requests.

**Proxy, signatures, build configuration, deployment.** A stateless forwarder, one computation, configuration.

The hazards, each with its line and the properties that
cover it, are in `PROJECT.json`.

## The modules

| module | models | extends |
| --- | --- | --- |
| `Delivery` | what a client SDK promises of a record, abstractly | |
| `ReportQueue` | the record collections and their limits, as operators | |
| `BrowserSender` | the pages of one origin: buffer, queue, cache, sends | `ReportQueue` |
| `MpSender` | the reporter of a mini-program | `ReportQueue` |
| `RetryWorker` | the worker of one page | |
| `CollectionPlugins` | what one page collects, from injector to unload | |
| `AlertFlush` | the alert maps, the flushes, MongoDB, restarts | |
| `RecordIngest` | `POST /record`, request against request | |
| `SessionPipeline` | Kafka, Redis, object storage, session documents | |
| `TaskScheduler` | tasks, timers, webhooks, restart | |
| `Administration` | rules, apps and projects, the clean-up, as interleaved calls | |
| `SessionConsole` | the dialog of a session, its player and its export | |
| `TrackPayload` | cutting, joining and merging recordings | |
| `RecordQueries` | filters and pages of the console's lists | |
| `HostHooks` | wrapped requests and logs of the host | |
| `FcpAnalysis`, `FcpCharts` | first paint: entries, report, analysis, timeline; the charts | |
| `MpTrail` | tracks of a mini-program and their timeline | |
| `DeviceInfo`, `Identity`, `SdkSetup` | environment, ids, options | |
| `ConsoleAccess`, `Portal` | captcha, login, routes, menus; the list of projects | |
| `McpServer`, `Overview` | the tools; the counts of an app's overview | |
| `ClientParts` | the setup and the ids, login, windows, charts and board, and what they promise together | `SdkSetup`, `Identity`, `ConsoleAccess`, `FcpCharts`, `Portal` |
| `SmallParts` | the parts from `TrackPayload` on, one at a time | those |
| `BrowserSenderProofs`, `RetryWorkerProofs`, `AlertFlushProofs`, `RecordIngestProofs`, `TaskSchedulerProofs` | theorems about the module they are named after | the module, `TLAPS` |
| `SessionProofs` | theorems about both ends of a session | `SessionPipeline`, `SessionConsole`, `TLAPS` |
| `AdministrationProofs` | theorems about the server's calls and the tools | `Administration`, `McpServer`, `TLAPS` |
| `ClientProofs` | theorems about what runs with a user | `MpSender`, `CollectionPlugins`, `HostHooks`, `ClientParts`, `TLAPS` |
| `MC...` | sizes and inputs for TLC | the module |

In all of them a handler runs to its first `await` in one step, as it does in the single-threaded hosts of the code
(and between two awaits of a task in the Rust services, whose shared maps are locked entry by entry); whatever an await
lets in is another action. History variables, which only the properties read, are marked as such where they are declared.

### Delivery, ReportQueue and BrowserSender

`Delivery` says of every record that the SDK accepts for its stored queue: it is held until it is delivered or dropped, it may be
delivered more than once but not after it has left, and a record that is no longer held never comes back. `BrowserSender` and
`MpSender` are each shown to implement it (`D == INSTANCE Delivery WITH ...`, `Delivers == D!Spec`): what is held is what is in a
buffer or the queue, whichever page holds it.

A record is the number of its `report` call. The arrays of the code grow at the
end only, so the set of a collection's records says its order as well: older is smaller. (A trim puts
device information first; it is reported at the start and is the oldest anyway.)
`Size` gives each record a size, `Info` are the records of device information, which no limit drops, and
`Track` those of the recorder, which choose their own options.

`page[p]` is the record of the variables of page p's copy of the code; `queue` is in localStorage; `requests` are the fetches
that have not settled. There is one action per handler and one per settling of a
fetch: `Open`, `Close`, `Report`, `SendTimer`, `FlushTimer`, `CompleteNormal`, `CompleteKeepalive`, the
page's events and the worker's, and `Arrive`, the answers that come when nobody waits for them any more: a keepalive fetch outlives its
page, and another that is aborted with it may have reached the service. A handler calls functions that call functions; each of these is an operator
from a state `h` to the set of states it may leave, and the action composes them as the code does.

What is in the state because the code depends on it:

- `flushSet` and `flushDue`: the variable `flushTimer` and the timer it once named, which
  part ways when the buffer is empty as the timer fires.
- `alias` and `array` in a request: a normal send keeps a *reference* to the cache.
  While no filter has replaced the array, what is pushed later is in it.
- `pending`, `sending`, `stopped`, `failStreak`, `sendTimer`: as in the code.

What is in it to state properties: `stored`, `cached` (accepted), `acked`, `handed`
(left the page), `cut` (dropped by a limit), `gone` (died with a page), `unsaved` (a write of it failed), `late` and `outlived` (on the way when their page
closed, and arrived after).

The fetch of a page is fulfilled by every answer, whatever its status (`no-cors`; the repository's own test cases
document that), so "success" here is what the code takes for one.

Abstractions: the keepalive chunks are an outcome for each record; `maxRetry` is finite;
records that cannot be serialized are left out; a handler's accesses to localStorage are not interleaved with those of another page.

### MpSender

`app` holds the variables of `createProxy` and the stored queue; each function of the code is an operator from the state a
handler sees to the state it leaves, so that a handler is a composition of them (`Report` of `WriteMemory` or `PushMemory`, `SendRequest` and `ScheduleSend`; `Success` of `FinishDone` and `SendRequest`). One request is in flight at a
time and ends confirmed (`Success`), refused, failed or timed out (`Fail`), or thrown at the call. `app.memory` is the list `memoryOnly`; a
success empties it whole, with what was pushed since the request left, as the code does. `Abort` is `abort()`; `Restart` a
new launch: memory dies, the stored queue stays. `pendingImmediate` is left out, for it is always set, cleared and read with `pendingSend`.

### RetryWorker

`todo[r]` are the requests run r of `sendWithRetry` still has to finish, the first of them under
way, and `failed[r]` the records of those that failed. Several runs share `buffer`, `timer`
and `streak`. `PackTrackPayloads` and `Slice` are recursive functions on sequences. The kinds "other" and "api" share a request
and are one kind here. A report of a page being left sends the buffer once without
waiting (`parting`). An exhausted worker tells the page, which terminates it (`Terminate`);
until then it still handles messages. `MaxRuns` bounds the runs under way at once.

### CollectionPlugins

One page from the moment it is built with the injector: the early error plugin, the scripts of the SDK and the recorder, which arrive
in any order or not at all, the registry, the three plugins with state (errors, performance, recording), the visibility of the page
and its end. A task of the page, an event with all its listeners in the order they were added, is one action. `report` is the sequence of
what the plugins hand over. Events of the recording are numbered as rrweb emits them.

### AlertFlush

One application; a fact or count of 0 is one that is not in its map. An occurrence
(`AlertError`) runs on any thread at any time. A flush is a sequence of steps with an
occurrence possible between any two: take the lock and copy (`CollectFacts`), write a fact (`WriteFact`),
clear its mark if it is as it was copied (`FactWritten`), expire (`Retain`), copy the counts (`CollectSummary`), write
one (`WriteCount`), `Subtract`, `Remove`, `Finish`. Two flushers exist, the loop and the final flush of a
shutdown. A write may be applied and succeed, be applied and fail (the answer was lost), or
fail. `Restart` loses memory at any moment and loads the facts and rules of the database, or
nothing when that fails.

The two maps are locked one after the other in the code and in one step here: nothing relates them and a flush
reads them at different times. The local variables of a flush are reset when they go out
of scope. MongoDB is external: a document is what the last applied write made it. The watchdog and
the probe only log and are left out; the width of the 64-bit counters is ignored.

History: `reported`, `givenUp` (by a failed write), `died` (with the process);
`sentAt`, `seenAt`, `since`, `forgot`, `steady` about the latest alert.

### RecordIngest

A request takes a slot or is refused, is parsed, and writes its groups side by side, each in its own order and each await an action that
may fail. The group of devices looks for a device, then for its session, and inserts what it did not find (`insert_unique`). A batch that
failed may be sent again. Only a batch all of whose groups were written hands its errors to the alerts.

### SessionPipeline

`topic` is Kafka's, of which the consumer has passed `next` messages and the group has committed `committed`. A batch is appended by four commands
(`Rpush`, `Expire`, `SetEx`, `Zadd`) whose result the code discards, so each of them may be without effect (`Applied`), and so may those that delete (`RemoveIndex`, `DeleteList`).
The commands whose result it does look at end a task: `ListenerPanics` that of the events, `Crash` the worker. `Consume` begins at the committed offset, or at the end
of the topic when there is none. The shadow key expires, after its time or after the second that the server's sync leaves it (`ShadowExpires`); its event is heard or missed.
The score of the index is reached at about the same time, before or after (`ScoreReached`). `ttl` says whether the list itself was given its double time or may expire any moment.
Uploads are spawned; `refused` are the keys that name no application, whose list is deleted without one. A crash ends every task and keeps Redis and the committed offset.

`lost` is what went, whatever the way; `unheard` and `unindexed` are the sessions whose expiry the worker misses and whose entry was not written.

### TaskScheduler

A request and a firing timer are runs from await to await over the documents and the timers. `astray` marks a task that one of the departures
below has struck, so that the properties hold of every other one. Time is a clock with a bound; the webhook may fail; the trigger may be missing.

### Administration

A handler is a record in `calls` that says what it does next. Rules: write, then tell the log service, which reads the collection and replaces its copy
in two steps. Apps: `apps` and the entries of `projects` are written by parallel updates. Clean-up: devices are aggregated by updates nobody awaits, then
old records are deleted. `unsynced`, `torn` and `crossed` are history: what failed, or met another call, halfway.

### SessionConsole

The server keeps the number of files the worker has uploaded; `asked` and `answers` are the requests in flight and what they will say, in any order.
`view` is the component: its poll, its detail, the promise of events, its player. An export is a job with the interval that sends its state and the chunks it takes.
`fetchEventSource` makes the request again when a connection is lost (`ConnectionLost`, `Retry`) or a hidden tab is shown (`TabHides`, `TabShows`), and the server then makes
another video, whose chunks the page appends: a job holds the latest video, and in `left` what earlier ones have put in the file. ffmpeg may end at any chunk (`FfmpegClose`) or report an error (`FfmpegError`).
A video whose connection is gone is made to its end and seen by nobody; it is left out.

### The small parts

Thirteen parts share no state with each other, and each alone is too small for a run: `SmallParts` chooses one of them at the start of a behaviour and
leaves the others at rest. Pure code is an operator and the actions supply its inputs: `TrackPayload` sends payloads through `SplitTrackPayload`,
`JoinBatches` and `MergeReplayPayloads`; `FcpAnalysis` takes page loads through `perf.ts`, every version of the report, the analysis and the timeline;
`DeviceInfo` takes user agents, represented by their fields, through the chain of conditions of `collect.ts`; `SdkSetup` takes options
through defaults, JSON and defaults again. The others are small machines: `RecordQueries` (a reader turns pages while records arrive and the oldest
are dropped), `HostHooks`, `MpTrail`, `Identity`, `ConsoleAccess`, `Portal`, `McpServer`, `Overview`, `FcpCharts`. The head of each
module says what a value stands for.

Some that are easily made simpler than the code: in `TrackPayload` an event has two sizes, as text and compressed, so that a payload may compress worse than the service expects,
and the producer refuses what is above its limit or comes when its queue is full. In `HostHooks` a body or a response is a text with a size, no text, or missing, and each host reports these in its own way.
`FcpAnalysis` names requests of slow loads only, merges entries that the browser gives twice, groups them as the console does and lists so many. `MpTrail` has pages of the tab bar, which stay alive, and
both orders of the hooks of a page and the app. `ConsoleAccess` counts in parts of a pixel, for the code reads the place of a piece back from the text of a style.

## The runs

Each run asks one question. Each ends within four minutes with two workers. Deadlock is
not checked, because each model does stop: its bounds run out, its page is stopped or closed.

| run | shows | bounds | states |
| --- | --- | --- | --- |
| `one_page` | sends do not overlap and release the lock; the cache loses nothing; the end is final; what was delivered to a page is not sent again | a page with a worker, opened twice, hidden, shown and left with requests under way, storage may fail; 4 records, one device information, one recording; room for 2 in buffer and queue, 1 in the cache | 1.7 M |
| `two_pages` | two pages on one queue implement `Delivery`; every record leaves in the end; limits hold and a buffered record has a timer | workers fail and start, storage may fail, three openings; 2 records, sizes that reach the byte limit before the number limit | 62 k |
| `retry_worker` | no record is lost or duplicated in the worker; retries are bounded; nothing waits for ever before a success | 4 records, chunks of two, room for 2, 3 runs, 2 retries | 19 k |
| `mp_sender` | the mini-program implements `Delivery`; its lock; every record leaves in the end | 4 records, room for 2, two launches, storage and the request may throw | 68 k |
| `plugins` | one reporter for an error; a whole recording; performance leaves before the last flush; snapshots are taken | one error, 4 recorded events, one foreign wrapper of `console.error`, two turns of visibility | 1.3 M |
| `flush` | nothing is counted twice; a clean fact is stored; alerts are spaced; changes get written | strategies once and window, 2 occurrences, clock to 1, loop and shutdown, one restart | 332 k |
| `ingest` | a success is the whole batch; errors count once; slots come back | 2 slots, 3 posts of batches with each group, one fault | 293 k |
| `sessions` | where a batch may be lost, and nowhere else; every session is collected | one session, 2 batches, a crash, commands to Redis and uploads that fail, a broken subscription, a key that is refused | 538 k |
| `tasks` | no timer is left over; a cancelled task is not dispatched by a timer; a scheduled one ends | one task, 3 calls, one restart, clock to 2 | 1.2 M |
| `admin` | rules are fresh; the catalogue is kept; openings count once | two rules of a kind, two apps, 3 calls at once, clock to 2, one fault | 2.7 M |
| `console` | one player; a whole file; a replay that comes | 2 files, 2 clicks, 3 requests in flight, 2 chunks, an export that is requested twice | 911 k |
| `small_parts` | thirteen parts, see below | each its own, in `small_parts.cfg` and `MCSmallParts` | 1.0 M |

A behavior of `small_parts` is about one part. The tools of the MCP server are taken one at a time, for one reads the tasks and the other the records; so are the wrapped requests of a browser and of a mini-program, for a host has one of them, and the errors of the host; and in the console two captchas come while no request is under way, requests with one captcha.
A user who has left a page does not come back to it while requests are wrapped.

What it checks, part by part: a replay has every event and page trace that was sent, once, in the order of time, however the payload was
cut, resent and uploaded, except what the producer refused, and one that cannot read a file loses that file only; of the size of a message only what was not cut, or cannot be, is refused; a reader who turns pages to the end has seen every record that was there all the time;
a mini-program's timeline shows every stay with its time; a tool of the MCP server acts on the one task of a name and tells one story of an error;
a search of the projects hides but never mixes (`ReadersAreToldTheTruth`). A request is reported as it ended, from the page it was made at, with its texts whole if it failed, and the SDK's own never; an error with a name and a text
(`RequestsAreReported`). A request of a slow load is before the paint exactly if it was and is counted once, those kept are the nearest to the paint, the buckets, groups, days and percentiles of an analysis fit its samples, the overview's counts fit each other and the
time they were asked, the device described is the one held (`DerivedDataIsRight`). One SDK runs, with the options that were set, and a load's records are filed under one
device and one session (`ClientIsSetUp`). A captcha is gone once a verdict was given on it, and a piece put in its slot short of the slider's ends is accepted; a window asks about the app it shows and lists its entries, no chart is left on an element
that is gone, only an empty project is deleted (`ConsoleIsSound`).

Why the bounds are enough. Limits are one less than the number of records, so that
each of them is reached and passed, with a protected record among those it meets. A
streak of failures passes `maxRetry` within two or three failed sends, and three runs of the worker are the
fewest in which one fails, one succeeds and one is still out. One fingerprint suffices because no step relates two (a flush only orders its writes), and the proofs cover any number.
One restart or crash suffices because it leaves nothing behind but what is stored, and pages are opened twice so that one finds what an earlier one has left.
Two slots and three requests are one request refused or queued behind two that race. In `sessions`, `tasks` and `admin` one object suffices where the code never relates
two (a session, a task); three calls are one that interrupts another and a third that finds what they left. In `console` and `small_parts` two of each thing are enough to be out of order.

Where a property is checked under a restriction, the departure that breaks it without is named below: `EventuallyDelivered` and `BuffersAreTimed` of the
browser for pages that are not hidden, `NoCacheLoss` with a worker, `AckedNotResent` for what arrived while its page was there, `NothingWaitsForever` up to the first success of a run, and the histories
`astray`, `torn`, `crossed`, `unsynced`, `overtaken` in the others. Each of those excuses one object, not a whole behaviour.

Each property has a mutant, a small plausible bug of the code kept beside the
definition it replaces and marked "Mutant" (`TimerKeepingFlush`: a flush forgets to clear the timer's variable; `AlwaysUnchanged`: a fact is marked as written whatever
happened meanwhile; `CommitEnd`: the end of the topic is committed; `PercentileFloor`: the rank is rounded down). With
the mutant in place the run of the property fails.

### Fairness

- Browser (`FairSpec` of `BrowserSender`): the timers of an open page fire, a fetch
  settles. The event loop does the first, the browser's network timeout the second. That a fetch
  succeeds is not assumed: `EventuallyDelivered` allows the page to give up.
- Mini-program: timers fire, a request ends (its `timeout` of three seconds).
- Worker: a request ends, the timer fires. Success is not assumed.
- Plugins: the recorder's timers fire; animation frames are not assumed, since a hidden page has none.
- Alerts: the loop comes round (`run_flush` never ends), each of its steps is taken, and a write of
  a fact that is tried for ever succeeds at some time (strong fairness). Without the
  last, a database that is down keeps facts dirty for ever, and rightly so. Nothing is assumed of
  requests, rule changes, restarts and the shutdown.
- Ingestion: every await of a request ends, with whatever result.
- Sessions: the worker is started again (its supervisor does), its loops go on, keys expire and a score is reached. That a batch arrives, an upload succeeds or an event is published is not assumed.
- Tasks: the clock goes on, timers fire, handlers and the restoration go on; webhooks end (`fetch` fails in the end).
- Console: the interval fires, the server answers, files are fetched.

## Where the code departs from its words

Each is a passage where the code does other than a comment, a type, a doc or a test of the repository says, or than its own purpose asks; the models contain it, and the properties are stated beside it.

Sender and worker:

- `browser/index.ts:272`, `403`: without a worker, a record pushed to the cache while
  a request is out is dropped when the request succeeds, though it was not in it: the
  cache was remembered by reference and its payload built earlier. The comment at 393 says that what enters during a send is kept.
- `browser/index.ts:415`: a record reported while a keepalive send
  holds the lock is left with no timer and no send. The comment at 204 promises the opposite.
- `utils.ts:429`: a flush timer that fires on an empty buffer keeps its variable set; later
  records are buffered with no timer, where `type.ts:167` says the buffer is flushed by one.
- `browser/worker.ts:99`: a run that succeeds clears the timer set for what
  another run failed to send. The comment at 90 and a test (`worker.spec.ts:53`) say that it is retried automatically.
- `browser/index.ts:325`: a keepalive request goes on when its page is gone, as the comment at 334 wants, but its answer finds nobody who takes its records off the
  stored queue: the next page sends them again.
- `mp-uni/index.ts:178`: the mini-program's memory list is remembered by reference as well, and records pushed to it during a request are dropped with it; the comment at 168 says they are kept.

Plugins and setup:

- `error.ts:48`, `58`: the error listener is added for the capture phase and removed without it, so it stays after the handover and after an abort: uncaught errors are reported twice after the one, and still after the other. `ErrorsHaveOneReporter` is about the other two kinds. A wrapper of `console.error` that the host put on in between is dropped.
- A recorder's script that arrives before the SDK's is never registered; one that arrives after an abort records on. The performance plugin's `pagehide` listener is on the document, where the event never comes.
- A failed `XMLHttpRequest` is reported by its own event and by `loadend`; an object that is opened twice has its listeners twice. `getNetworkProfile` takes the first entry of a URL, of whichever request.
- `track.ts:87` hands the arguments of `createPage` to the host's `onLoad`.
- `lib.ts`: `maxRetry: Infinity` becomes `null` in the build and then 5; `new BuryReport({ url, appid })` without the build plugin never reports; `entry` left out for the web throws, where `README.md:113` of the package gives a default; `$` patterns in options are interpreted by `String.replace`.
- A device held the other way round in landscape (270 degrees) is said to stand upright; an iPad with a desktop user agent keeps its upright width.
- Two tabs that are the first of a browser make two devices. A mini-program without the collect plugin, or whose storage cannot be cleared, keeps its old session.

Log service and worker:

- `alert/gc.rs:174`: an occurrence counted between the release of an emptied
  entry and its removal is lost. The comment at 148 says that it stays for the next round.
- `services/task.rs:131`: a sync of the rules that is overtaken puts the older ones back, and the server looks at no status of the call it makes. A disabled rule that is newer hides an enabled one of the same kind.
- `model.rs:132`: two requests insert a device twice. `record_logs.rs:127`: a batch that failed in one group and is sent again is stored twice in the others.
- Session worker: a batch that is appended between reading and deleting a session is lost, and so is one whose upload fails or whose offset was committed before a crash.
- `worker/src/main.rs:81`: the errors of the commands that store a batch are discarded and its offset is committed all the same: a batch that Redis refuses is gone, one without its list's expiry may go any moment, one without shadow key or
  index entry waits for the next batch. Those at 192 are discarded too: a list that stays after its upload is uploaded again or found by nobody.
- `worker/src/main.rs:293`: a list that cannot be read panics the task that hears of expiries, and nobody starts it again while the worker lives. A key that names no application (294) has its list deleted without an upload.
- `worker/src/main.rs:53`: `auto.offset.reset` is not set, so that what is in the topic before the group's first commit is passed over when the consumer begins.
- The scan at the start (`worker/src/main.rs:46`) compares a score in whole seconds, set after the key that expires: a session between the two is overlooked, and its event has gone by.
- `services/split.rs:7` wants every message below the limit. One that compresses less than expected, or cannot be cut further, is handed over as it is and refused by the producer; so are all messages while its queue is full (`task.rs:186`). The service counts them and answers that the batch was stored.
- A page trace of a mini-program is shown twice if its payload is sent again and cut differently, for its key contains the part number.

Server:

- A task stopped during its webhook is written as successful; an edit during a run leaves a timer nobody can stop; two edits at a time leave two timers; an edit without a time takes the timer away and is then refused, so that the task is pending for ever; a time already past never fires. The comment at `task.ts:323` ("not dispatched twice") is not kept against a timer that is firing.
- The restoration after a start cancels a task created since the server listened, whose timer lives.
- `move_to` of an app pulls by an `ObjectId` where the entries hold a string: nothing is pulled, and the entry it pushes has no id. An app that is created and deleted at once stays listed.
- Clean-up: updates of devices are not awaited, and the two readings of the clock leave records that are deleted and never counted.
- `paginationWithCursor` asks for greater ids in both directions; a status of 0 cannot be filtered; alerts sorted by `last_seen` can skip one that is updated meanwhile.
- A captcha's slot is drawn where the slider cannot reach in some cases (from 252 on); two captchas of a millisecond share a key; an expired one answers in the wrong field; two logins that found it before one removed it are both judged on it (`auth.ts:23`, `29`); an unknown path is answered with 200 and code 0.
- The overview reads a collection that the present log service does not write, and its "yesterday" is written in the code.

Console and MCP server:

- A double click on sync leaves an interval; an answer that overtakes takes the player off for good; a replay opened early is not refreshed; an export that fails in ffmpeg leaves its interval running and the client waiting.
- `web/src/apis/app.ts:440`: `fetchEventSource` is used without `openWhenHidden`, and `onerror` (454) does not throw: a tab that is hidden and shown, or a lost connection, has the server make the video again, and its chunks are appended to
  what the file has already. After an error the promise is rejected, and that file is never saved; after a hidden tab it is. `rrweb2video.ts:156` looks at no exit code: a video that ffmpeg did not finish is saved like any other.
- `captcha.vue:90` reads the place of the piece from the text of its style. With the slider at an end that is a whole number, the bracket before it is taken along, and what is sent is no number: a piece in its slot is refused.
- Search throws at an app that was moved (it has no id); an overtaken list is shown; the server does not check that a deleted project is empty; a dialog confirmed before it has loaded makes a new app; a tab whose address is edited keeps the id of the previous app.
- The MCP server looks at neither status nor code, so a refused stop is told as done; its query strings are not encoded.

These are documented by the repository and not departures: a second alert after a window without
occurrences, an alert exactly at the limit and only then, fact documents that are
never deleted, an error status that a page takes for success.

## The proofs

Eight modules have theorems, for all values of the constants that satisfy the assumption of the module: types and signs, and what
the code fixes. `MaxClock` of the scheduler is positive, since the clock starts at 1. The administration keeps a device record for at least
a day before it adds it up (`main.ts:66` passes 1), and no longer than `cycle_log`: with no days, a record written at the moment of the clean-up would be removed and not added up.
Of the files of a mini-program's build two of its own never have the same path, an option is a number, the tasks are finitely many, the bars of a chart are at least one, and a text that the SDK
puts in itself is a text.
All safety properties of the runs but two are proved (`ReadersAreToldTheTruth` and `DerivedDataIsRight`, see the end), and so are the two refinements.

Each proof has one inductive invariant, one lemma per action, and lemmas for the functions that actions are composed of.
TLC checked every invariant before it was proved, on the instance of the module's run: `BrowserSender` 1,748,866 states,
`RetryWorker` 19,448, `AlertFlush` 3.5 million (and 6.3 million with another rule), `RecordIngest` 292,980, `TaskScheduler` 9.7 million, `Administration` 2.7 million;
`SessionPipeline` 537,820 (and 20.1 million with two sessions and failing commands); `CollectionPlugins` 1.3 million (and 916 k with the recorder alone), `SessionConsole` 910,811, and of the small parts those of `HostHooks` 437,680,
`Identity` 329,533, `ConsoleAccess` 293,940, `FcpCharts` 770; those of `MpSender` (68,401) and of `SdkSetup`, `Portal` and `McpServer` in the runs of the project.

Where an induction over data is needed, the least counterexample does not exist: that a well-founded order has minimal elements is a first-order
fact (`WFMin`, with the order of the numbers or of the subsets of a finite set). So the lemmas about the limits of `ReportQueue`, the values of
`MapThenSumSet`, the cuts of `PackTrackPayloads` and the groups of an ingested batch are proved for every input.

**BrowserSender** (`BrowserSenderProofs`). A handler is a composition of operators from state to states, and so is its proof. `Good` is what each of
them keeps of the state it is given (types, limits, the flags of a stopped page, buffer and queue apart, a request's share of
the cache); `Runs` what may have happened between two states when nothing was accepted or confirmed. `IInv` says that every open page is
`Good` and has a lock with one owner (`Lock`), that a closed page is as new and has no requests (`Shut`), that pages share no record in
memory (`Alone`), that each request carries what was accepted (`Carried`) and each departure has one keepalive send (`Departures`), that what may still
arrive for a page that is gone was accepted and is in no cache (`Adrift`), and where the records are (`Numbered`, `Accounted`, `Marked`). From it:

- `Locked` (`SendsDoNotOverlap`), `Limits` (`LimitsHold`), `Stopped` (`StoppedIsFinal`), without further hypotheses.
- `Implements` (`Delivers`): the sender implements `Delivery`. A report is `Accept`, a fulfilled fetch `Confirm` of what it carried, also when its page is gone and nothing is taken off the queue, everything else `Lose` or a stutter.
- `Buffered` (`BuffersAreTimed`) for pages that are never hidden (`~Lifecycle`): a flush as the page leaves, on an empty buffer, leaves the
  variable of the flush timer set (`utils.ts:416`, `462`), and later records find no timer.
- `CacheKept` (`NoCacheLoss`) and `SentOnce` (`AckedNotResent`) with a worker that works (`~WorkerFails`): without one, the main thread
  sends the cache itself and drops the array it remembered by reference (`browser/index.ts:272`, `403`). `SentOnce` excepts what was confirmed after its page was gone (`outlived`), for that is sent again.

**MpSender** (`ClientProofs`). `SendingIsALock` proves `SendingIsLock`, and `MiniProgramDelivers` that the module implements `Delivery`. The
functions of the code have a lemma each: what `FlushMemoryToStorage`, `FinishFailed`, `FinishDone`, `SendRequest`, `WriteMemory`, `PushMemory`, `ScheduleSend`
and `StopSending` keep of a state that is `Good` (types, the lock, and that the buffer and the queue are disjoint), and that they
lose exactly what they enter in `cut` (`Loses`). They rest on three lemmas about the limits, which only drop. `MpInv` adds to `Good` what
the refinement needs: that the queue and what is sent from it are records reported with `store`, and the memory list is not (`Apart`). Without it a
confirmation, or a full memory list, could say something of a record of the other kind. And every number is at most `last`, so that no record comes back
that was dropped. Each handler has then one step: `Report` is `Accept` or, without `store`, `Lose`; `Success` is `Confirm` of the request's
list, also when the next request leaves at once; all others are `Lose`. `NextStep` gathers them.

**RetryWorker.** `DeadServerIsLeftAlone` proves `RetriesAreBounded`. A streak above `MaxRetry` means that the worker is exhausted and
has no timer, so no run starts; each failure above the limit ends a run that was under way when the limit was passed. `WornOut`
says so: then streak + the number of busy runs is at most `MaxRetry + MaxRuns`.

`RecordsStayOnce` proves `EachRecordOnce`: runs that overlap, fail and are retried neither lose a record nor hold it twice. The property
says where a record is, the invariant `OnceInv` why two runs cannot hold the same: the requests of a run are a *split* of its records
(disjoint, each without repetitions), a run's failed records and its open requests are apart, and so are two runs (`RunsOK`); and each record is at exactly one
of eight places (`OnePlace`: not reported yet, buffer, a run, sent as the page left, delivered, cut, given up, ignored). Most of the proof is that the functions on
sequences keep this: `Slice` and `PackTrackPayloads` split their argument, a full buffer drops its oldest, a reported set is put in order once.

**AlertFlush.** `NeverCountedTwice` is not inductive: it says nothing of counts in memory or under way. `IInv` adds:

- `LockInv`: a flusher past the start of a flush holds `FLUSH_LOCK`, so there is one of them. Without it, two
  flushes could write the same copy.
- `CountInv`: what a flusher has copied and not yet written is still in the map, since
  requests only add to it. So subtracting what was written never takes away more.
- `LedgerInv`: database + given up + died + unsaved is at most what was reported. It is "at
  most" because of the occurrences lost at `gc.rs:174`.
- `FactInv`: a fact that is not dirty is as the database has it, and one that has been
  written and not yet marked is in the database as it was copied; so when it
  still equals the copy, clearing the mark is right.

`TypeCorrect`, `AtMostOnce` (`NeverCountedTwice`), `CleanFactsAreStored` (`CleanIsStored`) and
`FlushesExclude` follow. `AlertsKeepTheirDistance` proves `AlertsAreSpaced` from `SpacedInv`: while a rule stays and nothing has forgotten an alert, the
fact in memory remembers it (once), or the latest occurrence (window), or is old enough to have expired; and the hits of a fact are no more than the occurrences
since the alert, or are past the limit (limit). A flusher's reading of the clock is never ahead of it, so it removes nothing too early.

**RecordIngest.** The properties speak of requests that are answered, the invariant of those under way. `Counts`: a request that has finished
a group has left a document of each record of it, beyond all the answers before. `Sound`: what devices and sessions a request has passed exist. `Slots`: the
documents of a key and the requests that looked for it in vain are together at most `Concurrency`. `StoredOnSuccess` proves
`SuccessIsStored`, `ErrorsCounted` proves `ErrorsCountOnce` under `ErrorsAreOwn`: a record of an error is in one payload, as an occurrence is reported
once by the SDK, and not in a raw body, which holds recordings. Otherwise "once per success" of a payload has no meaning for it.

**SessionPipeline** (`SessionProofs`). `BatchesAreKept` proves `EveryBatchAccounted` (with the types). Two facts make it inductive: what an actor has read of a list
and is about to delete is in an upload or a file or lost already (`ReadKept`), so a delete loses exactly what came after the read; and a session with
batches is without its entry in the index only while its list is being deleted or a batch of it appended, or it is in `unindexed` (`Indexed`).

**SessionConsole** (`SessionProofs`). `OnePlayerAlways` proves `OnePlayer` from `DialogInv`: whatever callbacks are still to come, the players that live are the one the dialog knows
(`Playing`), and it is open. A step of the code makes a player only through `NewPlayer`, which takes the old one off first, or finds the dialog closed.
`FileIsAlwaysWhole` proves `FileIsWhole` from `JobsOK`: while the connection holds, the chunks that were made are *cut* into what is in the file, the messages on the wire, and what waits at the server
(`Cuts`, a sequence of positions that never decreases). A tick of the interval and the end of the export each move one cut, so that no order of the two can lose or repeat a chunk. The cut of one request begins anew with the next, behind what is `left` of it.

**CollectionPlugins** (`ClientProofs`). `PluginsInv` has a part for each plugin and one that joins them. `Listening`: before the SDK only the early error
plugin listens to `console.error` and to rejections, afterwards only the plugin, and a running SDK with the option does. `Unstarted`: nothing is collected before there is an SDK.
`Recording`: what was reported and what is buffered are the events so far, and a buffer that is not empty has a timer and a plugin. `SnapshotsOnce`: a snapshot that was taken is one that is done, so the frame and the
timer that both wait for it cannot take it twice. `Sealed`: the performance plugin has reported exactly if it says so. From it `ErrorsAlwaysHaveOneReporter`, `RecordingIsAlwaysWhole` and
`PerfAlwaysLeavesWithTheFlush`. That a batch cut from the recording is followed by the rest is an equation of `FlattenSeq`, which has a lemma.

**HostHooks** (`ClientProofs`). `RequestsAlwaysReported` proves `RequestsAreReported`. The calls are *numbered*: a call that is under way is so in one object, or one request of a
mini-program, and nothing is said of a call before it ends (`Ended`). So what is reported of a call that has ended is about no other, and stays true. What is told within the limits
(`CollectTells`) and that an error's text is never empty (`NormalizedIsText`, `NormalizedLog`) are lemmas about the operators.

**ClientParts** (`ClientProofs`). Five parts, an invariant each.

- `SetupInv`: the SDK's code is put in an entry only of a mini-program, only in files of the main entry's path, of which there is one, and in a page only for the web. So there is one copy (`OneCopy`).
  That its options are those that were set, through the defaults, JSON and the defaults again, is the lemma `ConfigKeeps`.
- `IdentityInv`: what a tab has filed in a load is under the ids it keeps in memory (`UnderCached`); devices are at most one for each load that made one (`Pool`); with a storage that works a stored device is found
  (`FoundInv`) and a session is that of its tab or its launch (`SessionsInv`). `ClientAlwaysSetUp` proves `ClientIsSetUp` from the two.
- `WindowsInv`: the page a window shows, its menu, the id it keeps and the requests it has sent are of one app. `CaptchasInv`: the captcha that an answer has found is, as long as it is kept, the first kept
  under its key; so what a verdict removes is what was found, or it was gone.
- `ChartsInv`: exactly while there is an analysis on view every chart is on the element the page has now and draws that analysis.
- `BoardInv`: a project shown as empty was empty in the list the search filters. `ConsoleAlwaysSound` proves `ConsoleIsSound` from the three.

**McpServer** (`AdministrationProofs`). `OnlyTheNamedTaskIsDeployed`: a tool that is about to act has found exactly one task under the name (`PlanInv`), whatever users rename, plan and drop
between its calls. It is a part of `ReadersAreToldTheTruth`.

**TaskScheduler.** The invariant is about a task that is not `astray`, which no two calls have met on. A run that will arm a
timer is alone on its task from its first await to its last (`Alone`); every other takes the timer away before it writes; and while a run is past its
read, or the restoration has still to come to the task, no timer is set (`Named`). `TimersAreNamed` proves `NoTimerLeftOver`, `CancelHolds` the action property
`CancelledIsNotDispatched`.

**Administration.** `AdminInv` has three parts about separate variables and separate kinds of calls; a frame lemma carries the two
that a step does not touch.

- `RulesInv`: unless a sync failed or was overtaken, the copy of the rules is that of the last write, or a call is under way that has not
  read yet or has read since it. `RulesStayFresh` proves `RulesAreFresh`.
- `AppsInv`: a live app without an entry has a call under way that will list or delete it (`Listed`); and if its calls did not overlap, what the one under way
  has left to do says how the app and its entry differ (`InOrder`). `CatalogStays` proves `CatalogIsKept`.
- `LogInv`: an opening that has been added up, or is being, is in the batch of the clean-up that did so as long as it is in the log; and what
  that clean-up will remove is in its batch, because the clock it adds up by was read after the one it removes by. `OpensAreCounted` proves `OpensCountedOnce`.

**Only model-checked.** All liveness (`EventuallyDelivered`, `NothingWaitsForever`, `ChangesAreFlushed`, `SlotsAreFreed`, `SessionsAreCollected`, `ScheduledTaskEnds`,
`SnapshotsAreTaken`, `ReplayIsShown`), which the prover does not reach. Of the small parts `ReadersAreToldTheTruth` and `DerivedDataIsRight`: they compare algorithms (merging, paging, percentiles, counts by day) with
a reference on bounded inputs, and these are made of `SelectSeq`, `SortSeq` and folds over a `LAMBDA`, which the backends do not know.

## What is not covered

- Two pages in different processes that write localStorage at the same moment: handlers are
  atomic towards each other here, and browsers do not promise that. (Of the ids, which are a single key each, `Identity` does interleave the reading and the writing.)
- After exhaustion, one run of the worker may still succeed and a third one fail, which arms the timer
  again. The model reaches this; no property speaks of it, since the page is told to terminate the worker.
- Occurrences between the final flush and the end of the process (`main.rs:162`): the model
  has them and counts them as died.
- A fact that expired in memory and returns from the database with a restart (FLU-06) may only hold an
  alert back; `AlertsAreSpaced` says when alerts may come, not that they do.
- A task triggered by hand beside its firing timer is dispatched twice; no promise of the code excludes it.
- The old paths of the log service (records of the first form) and of the console (sessions without merged events) are in the models only where they change the control.

Not modelled, and why:

- Grouping of errors (`alert/group.rs`, `alert/tokenizer.rs`): text to text, with no property short of its characters.
- Notifications of the session worker, the proxy, signatures: nothing is kept between two calls.
- The console's forms, tables, details of one record, alert and task pages: each shows one answer or sends one call, whose handlers are modelled.
- The statistics views and the editor of charts: the server has no route for two of their calls (update and delete), so what they do cannot be followed.
- `initSched`'s alert mails, `db.ts`, logging, styles, types, mocks, playgrounds and build scripts.

## The plan

Done: every module of the first plan, and with `CollectionPlugins`, `Administration`, `SessionConsole` and the small parts what it had left aside.

What is left:

1. `RecordQueries` and `Portal`: that a reader who turns pages misses nothing, and that a search never mixes, for lists of any length. Both need lemmas about `SelectSeq` first.
2. `SessionPipeline`: an abstract specification of a session from its first batch to its replay, which `TrackPayload` and `SessionConsole` would share.
3. The statistics views, once the server has the routes they call.
