# A TLA+ development of Luidium

Luidium deploys users' containers ("blocks", grouped in versions of an
"application"). This directory holds TLA+ modules translated from the source
under `src/`, TLC configurations that model-check them on small instances,
and theorems about them checked by TLAPS.

| module | what it is |
|---|---|
| `BuildQueue` | the path of a request: Kafka partition, consumer goroutine, channel, worker pool, process of the builder-server |
| `BlockRows` | what the status column of the blocks promises to its readers; the abstract specification of `BlockDeploy` |
| `BlockDeploy` | EXTENDS `BuildQueue`: handlers of the main-server, workers of the builder-server, Docker and the object storage |
| `BlockProvisioning` | creation and deletion of blocks: cap, prime domain, DNS, ports, rows, nginx file |
| `Applications` | creation, versions and deletion of applications: rows, caps, authorities, buckets |
| `Modals` | the stack of modals of the web-client; used by `Forge`, `BlockCreator`, `Accounts`, `Dashboard` and `Versions` |
| `Forge` | the list of blocks and the commands of a block, over `BlockRows` |
| `BlockCreator` | the form and the saga that create a block from a template, over `BlockRows` |
| `BlockFiles` | the files and the configuration of a block, in the browser and in the storage |
| `FileTree` | the conversion of a listing into the tree that is shown |
| `Accounts` | sign-up, sign-in, sessions and CLI tokens, from the page to the table |
| `Dashboard` | the list of applications and the form that creates one |
| `Versions` | the version managers that several windows show of one application |
| `WebPages` | composes the six pages after `Forge`, which share no state |
| `MC*` | definitions the `.cfg` files give to the constants |
| `*Proofs` | theorems and proofs |

Run `tlc -config DeployCrashes.cfg MCBlockDeploy` (any configuration with the
MC module of its specification) or `tlapm BuildQueueProofs.tla`.

## 1. The system

### Components

**main-server** (Rust, axum on a multi-threaded tokio runtime,
`src/main-server/src`). Serves the web client and the CLI. It keeps its tables
in ScyllaDB behind one session (`app_state.session`, an async mutex that most
services lock for a single query), and calls the sentinel-server (users,
authorities, caps), the storage-server (files), the host-server (DNS) and
Kafka. Every handler is a saga: a sequence of awaited calls, none of them
undone when a later one fails.

| part | state | operations |
|---|---|---|
| blocks (`modules/block`) | tables `blocks` and `ports`, the nginx file | create, update, read, build, run, build_and_run, stop, update_block_status (called by the builder-server), delete, authorities |
| applications (`modules/application`) | table `applications` | create, create version, delete version, activate a version, delete, display name and description, authorities |
| CLI (`modules/cli`) | table of tokens | create token, check token, upload files and start a `build_and_run` |
| files (`modules/file`) | none of its own | client of the storage-server |
| blueprints (`modules/blueprint`) | one table | create, read, update, delete |
| auth (`modules/auth`), sentinel client (`modules/sentinel`) | a cookie; none | register, login, logout; calls of the sentinel-server |
| `util/nginx.rs`, `util/cloudflare.rs` | the nginx file; none | add and remove a server section; create and remove a DNS record |

**builder-server** (Go, `src/builder-server`). One goroutine reads the topic
and sends each message to the buffered channel `msgChan`; `WORKER_COUNT`
workers take messages from it and call `handleRequest`, which drives Docker
and MinIO and writes the status of the block back to the main-server with a
PATCH. On SIGTERM the consumer closes the channel, the workers empty it and
the process ends; a Shutdown longer than five seconds, a panic in any
goroutine or a kill end it at once.

**sentinel-server** (Go, PostgreSQL): users and sessions, authorities
(owner, writer, reader of applications and blocks), usage caps per user,
application and version, and an append-only log. **storage-server** (Go,
MinIO): a bucket for each application name, with folders and files.
**host-server** (Go): forwards the creation and removal of DNS records to
Cloudflare. **web-landing**: static pages. **database-setup**,
**compose.yaml**: schema and deployment.

**web-client** (Next.js, `src/web-client/src`). Its pages keep what they show in
React state and change it in the callbacks of requests; nothing orders two
answers, cancels a request or catches one that fails. A callback opens a loading
modal first and closes it last, and timers of 1.4 seconds stand for requests
nobody waits for.

| page | state | operations |
|---|---|---|
| `forge` (`Forge.tsx`, `BlockCard.tsx`) | list, selection, modals | poll every two seconds, select, build, run, stop, delete |
| `forge/block` (`BlockCreatorScreen.tsx`) | a form | choose type and framework, create with template and configuration |
| `forge/blockBrowser` (`BlockBrowser.tsx`, `utils/fileTree.ts`) | file tree, text, configuration | list, show, upload, clear, volume and environment variables |
| `signup`, `signin`, `settings/api` | forms, tokens, a cookie | check an address, register, log in, log out, tokens of the CLI |
| `home` (`MyAppScreen.tsx`, `AppCreatorScreen.tsx`) | list, panel, form | select, delete, check a name, create |
| `versionManager` (`VersionManager.tsx`) | list of versions, a field | create, delete, activate a version |
| `canvas`, `logPage`, `settings` | drawings, lists | read-only but for the blueprints |

### How they interact

    user ──▶ web-client ──HTTP──▶ main-server ──Kafka──▶ builder-server ──▶ Docker, MinIO
                 ▲   polls         │  ▲   │                   │
                 └─────────────────┘  │   └─▶ sentinel,       │
                                      │       storage, host   │
                                      └────── PATCH status ───┘

A deployment is asked for by writing `pending` into the row and producing a
message; everything after that is asynchronous, and the user only ever sees the
status column, by polling it. Containers, images and image files are named by
bucket, version and block *name*, while rows are named by *id*: several requests
for one block, and several blocks that bear a name one after the other, share
those objects.

### What is hard

* several workers handle requests of one block at the same time, over one
  container name and one image name;
* the consumer commits an offset as soon as it read the message: a crash loses
  what was committed and repeats what was not;
* the handlers of the main-server interleave at every await, and may be dropped
  at any of them when the client goes away;
* the status may be written by a late worker, after a newer request or after
  the block was deleted;
* answers are ignored: of the PATCH, of Docker's stop and remove, of the
  goroutine that exports the image, of the DELETE before a port is freed;
* check-then-act over several services: the name of a block, the prime domain,
  the cap, the nginx file, the address of a user;
* several services hold parts of one application, and a saga that stops leaves
  them apart: a row without authority, an authority without row, a cap charged
  for nothing, a bucket of another application of the same name;
* in the pages, answers overtake each other, the state they are about has been
  edited or selected away, a callback stops half way when a request fails, and
  a window acts on what another one has changed.

### What makes each component correct

* *transport*: no request is lost or repeated unless the process crashed; the
  order of the partition is kept; the drain ends; what is produced is handled.
* *deployment*: a settled status tells what Docker does; `pending` is never
  for ever; deleted rows stay deleted.
* *provisioning*: a port has one owner and is never lost; the DNS record a row
  names exists; cap, prime flag, names and nginx routes agree with the rows.
* *applications*: the caps of a user, an application and a version agree with
  what exists; an application its owner was told exists stays usable; one that is
  gone leaves no authority, cap or bucket.
* *accounts*: what is registered was checked; addresses are unique; users have
  caps; a page belongs to the session the browser has.
* *pages*: what is shown converges to what the server has; what is sent is what
  was checked; concurrent edits lose nothing; a modal ends.

`PROJECT.json` lists the hazards at their lines with the properties that would
catch each of them.

## 2. The models and the code

A step of a model ends where another thread, goroutine, process or callback may
run: at an await, at a channel operation, at a call to another server. Local
computation in between is part of the step.

### BuildQueue: `builder-server/main.go`, `produce_builder_server_request`

| variable | code |
|---|---|
| `log`, `committed` | the partition of the topic; the committed offset of the consumer group |
| `position`, `polled`, `consumer` | the consumer's stored offset, the local `msg`, where the goroutine's loop is |
| `msgChan` | the channel made with capacity `WORKER_COUNT` |
| `worker` | the message each worker handles |
| `process` | up, draining after SIGTERM, down |
| `restarts`, `handled`, `lost`, `redo` | history, read by properties and by the bound on restarts only |

`ConsumerPoll`, `ConsumerRead`, `ConsumerTimeout`, `ConsumerSend` and
`ConsumerClose` are the branches of the loop (`main.go:60-75`); `Take` and
`Finish` delimit `handleRequest` in a worker; `Signal`, `Exit`, `Crash` and
`Restart` are the life of `main`. `AutoCommit` is librdkafka's: the source
leaves `enable.auto.commit` and `enable.auto.offset.store` at their defaults.
Only one partition is modelled, the broker's default for a topic made by its
first message. The key of a message is the block's id, so with several partitions
the requests of one block would still be in one.

### BlockRows and BlockDeploy: `block/handler.rs`, `block/service.rs`, `handleRequest`, `lib/actions.go`

`BlockRows` is what anybody who reads the status column may rely on: one row
changes at a time, it is inserted as `ready`, a status is written only to a row
that exists, and an id that was deleted names no row again. `BlockDeploy` is
shown to implement it (`RowsRefined`), and the pages of the web-client that poll
the status run against it: for them the whole back end is `BlockRows`.

In `BlockDeploy`, `row` is the status column; `task` is where a handler is and
what it does (`Pend`, `Read`, `Send`, and for a deletion `Cleanup`, `DeleteFolder`,
`DeleteRow`); `job` is the next call of each worker. `container`, `image` and
`tar` are Docker's containers, local images and the `-image.tar` objects by name.
Each call of `lib/actions.go` to Docker or MinIO is one action, with the failure
branch the code has: `CallFails` for what `handleRequest` reports as failed,
`StopContainerFails` and `ExportImage` of a missing image for the errors the code
ignores. The transport's actions are used as they are: `Send` conjoins
`Produce`, `TakeRequest` conjoins `Take`, and the last call of a worker conjoins
`Finish`.

`Create` has two steps, the check of the name (`CheckName`, `handler.rs:425`) and the
INSERT (`InsertRow`, `service.rs:28`), because several calls are awaited between them:
`creating` holds the blocks in between, and two blocks of one name may both get there.
`shared` remembers the names a block got while another block of that name was still in
use: it had a row, an open request, or a message that nobody has handled yet.

A container also records the worker that created it, because `StartContainer`
works on the id that `CreateContainer` returned. The contents of images are not
distinguished: which upload runs is not a question the model answers.

Faults have a kind, are enabled per instance by `FaultKinds` and bounded by
`MaxFaults`: produce (the message never arrives), duplicate, abandon (the handler
is dropped; `AbandonSent` drops it while it waits for the broker's answer, and its
message still arrives), patch (the status is not written), docker (a stop or a store
fails), delete (a call of the deletion fails). `stranded` and `halfDeleted` remember
the blocks for which the code has no way to correct the status.

### BlockProvisioning: `handle_create_block`, `handle_delete_block`, `util/nginx.rs`

One application, several versions. `task` holds the handler's local variables:
the request, the cap it read, the port it selected, whether it has a DNS record
id, and the nginx file it read. `mutex` is the session: `create_block` and
`delete_block` keep it locked over their statements, every other query needs it
free. `conf` is the nginx file as a set of server sections, whose only interesting
textual property is which name contains which (`Inside`), since `remove_nginx_conf`
drops sections by substring. Running out of ports indexes an empty result and
panics (`SelectPort`, `FreePort`): the handler dies and the mutex is released, as
tokio's is.

### Applications: `application/handler.rs` and the services it calls

| variable | code |
|---|---|
| `apps` | table `applications`: owner, name, `version_list` as a set, active version |
| `appCap`, `versionCap`, `blockCaps` | the three tables of caps of the sentinel-server: what a user has left, what an application has left (`NoCap`: no row), and how many rows a version has in the third, which has no key |
| `authority`, `buckets` | the owner's rows in table `authority`; the buckets of MinIO |
| `task` | the local variables of each handler: its request, the cap it read, the name it read |
| `maker`, `created`, `deleting`, `overlap` | history: who asked for an id, which creations were answered with success, which deletions began, whether two requests ever overlapped |

`BeginCreate`, `BeginVersion`, `BeginRemove`, `BeginActivate` and `BeginDelete` are
the requests; their guards are what the web-client offers on its screens, as the
handlers themselves check almost nothing. The other actions are the handlers' awaited
calls in their order: `CreateStep` for `handle_create_application`, `VersionStep` for
the three version handlers, `DeleteStep` for `handle_delete_application`. `Upsert` is
what this database does with an UPDATE of a missing row. `DeleteVersionCaps` and
`DeleteBlockCaps` are the two statements of one call, which the sentinel-server does
not put in a transaction. Faults: the query for duplicates fails and counts as no
duplicate, a cap is refused and counts as charged, or the request stops at any step
(`Stops`).

### The pages of the web-client

All of them follow one pattern. The state of a component is a variable for each
`useState`; a callback is cut at its awaits, and what it keeps across one is in a
record (`saga`, `calls`, `registers`, `call`). A request reads or changes the server
in one step and its answer arrives in another, in any order: `polls`, `answers`,
`checks`, `lists` are the answers on their way. A timer is a state that ends at any
time. A request that fails ends its callback where it is (`thrown`), because nothing
catches it; what the callback would have closed stays open. `Modals` is
`useModal.js`: modals lie over each other in the order they were opened. A modal is a
fixed layer without focus trap and makes nothing inert (`useModal.js:50-69`): it keeps
the mouse from what it covers, and not the keyboard. By mouse the user reaches the one
on top, so an action of the mouse asks for the modal it is in to be on top
(`Top(modals)`); Enter reaches a button that is mounted and has the focus, below a
loading modal too. `Accounts` (sign-in), `BlockCreator` and `BlockFiles` model both: a
second sign-in, creation or edit starts while the first one is under way. The other
pages are modelled for the mouse only. Loading the page again starts the component anew
while its requests still reach the server.

| module | server side | what interleaves |
|---|---|---|
| `Forge` | `BlockRows`, driven by anybody; the active version | overlapping polls of application and list, the delayed opening of the browser, commands, changes by others |
| `BlockCreator` | rows, templates and configurations in the storage | the seven requests of a creation, clicks on Create that overlap, a form that is edited under the overlay, the second reading of the active version, the upload nobody waits for, others who delete or activate |
| `BlockFiles` | the files of several blocks in one prefix, the configuration object | listings and texts that cross, edits that read, change and write the configuration and may overlap, uploads slower than the timer, clearing by a prefix without a slash |
| `FileTree` | none | the loops of `convertPathsToItems`, one part of a name and one child of the root item a step, over every listing of the instance |
| `Accounts` | tables users, sessions, caps and CLI tokens; `RegisterUser` in its two statements | the check of an address while it is edited, two registrations, sign-ins below the overlay, reads of the tokens |
| `Dashboard` | the applications of the user | a check for every keystroke, collaborators of two selections, deletions and creations with their reads |
| `Versions` | list, active version and cap of one application | the callbacks of two windows, each acting on the list it has read |

`Dashboard` and `Versions` take the handlers of the main-server as one step;
`Applications` has their interleavings. `WebPages` composes the six modules that
share no state: `tab` says which page is shown and the variables of the others
are idle, so that one run explores each page by itself, and one theorem is about
each. Its constants are those of the pages; where two pages use one name for
different things, the page's name is part of it (`FileBlocks`, `AppVersions`,
`MaxFileEvents`). `MCWebPages` only defines the instance.

## 3. Runs

`CHECK_DEADLOCK FALSE` is said where the system really may stop: when users
ask for nothing more and the builder-server is down and is not started again, or,
in `web_pages`, when the bounds on what the user does are used up. In `forge` the
interval polls for ever and deadlock is checked.

| run | instance | shows |
|---|---|---|
| `queue_safety` | 2 workers, 6 messages, 1 restart | `DispatchOrder`, `NoSilentLoss`, `NoRepeatWithoutCrash`, `LossBounded` |
| `deploy_crashes` | 1 worker, 2 handlers, build/run/cli/stop, 2 messages, 1 restart, 1 fault | `StatusTrue` through crashes, redeliveries, dropped handlers and lost PATCHes |
| `deploy_faults` | 1 worker, 2 handlers, 2 blocks with one name, created in two steps, build_and_run/delete, 3 messages, wrong uploads, 1 fault (handler, Docker, deletion) | `StatusTrue`, and that deployments implement `BlockRows` (`RowsRefined`) |
| `deploy_two_workers` | 2 workers, 2 handlers, build_and_run/stop/delete, fairness | `PendingSettles`, `QueueLive` with concurrent workers |
| `deploy_two_workers_running` | 2 workers, 2 CLI uploads | *violated*: `RunningRuns` |
| `provisioning_races` | 2 handlers, 2 ids, 2 ports, 1 fault of any kind | `PortsOwned`, `RecordsExist`, `NoPortLost` |
| `provisioning_sequential` | 1 handler, 4 ids, 3 ports, 2 versions | `CapCountsBlocks`, `PrimeIsOneBlock`, `WebNameUnique`, `DomainsRouted` with requests one at a time, the port table exhausted included |
| `provisioning_name_race` | 2 handlers | *violated*: `WebNameUnique` |
| `provisioning_nested_names` | 1 handler | *violated*: `DomainsRouted` |
| `applications` | 2 handlers, 2 users, 3 ids, 2 names, 2 versions, 4 requests, 1 fault | `WriterExists`, `VersionsUsable` under every interleaving and fault; `ListsCounted`, `NothingOutlives` with requests one at a time |
| `forge` | 1 block, 2 versions, 3 commands, 2 polls under way, 2 changes by others, 1 failing request, fairness | `BrowserOnSettled`, `ListConverges`, `OverlaysEnd` |
| `web_pages` | each page by itself, see below, fairness | `CreatedWhole`, `ViewCurrent`, `FilesKept`, `TreeCorrect`, `AccountsSound`, `SessionShown`, `CreatedChecked`, `DashboardCurrent`, `VersionsKept`, `OverlaysEnd` |

### Bounds and why they are enough

* `WorkerCount` 2 is the least number for which two workers race; 1 removes
  that race so that the other hazards can be seen, because `RunningRuns` does not
  hold with two (see section 6).
* `MaxLog` 6 in `queue_safety` exceeds the five messages that two workers, the
  channel and the consumer hold together. In `BlockDeploy` two messages make
  every pair of operations race; `deploy_faults` has three, two deletions of a block
  and a deployment of another one under its name.
* `MaxRestarts` 1 gives a crash, a redelivery and a second life that may end
  by a crash or a drain.
* `MaxFaults` 1 puts one fault at every step of every behaviour. Two faults are
  not explored.
* Two handlers are the least number that interleaves. `Begin` counts the open
  handlers against `MaxLog` so that no handler finds the bounded log full.
* Provisioning: two concurrent sagas for the races; four creations over three
  ports sequentially, so that ports are reused and also run out. Two names, one
  containing the other, for the substring.
* Applications: four requests of two concurrent handlers are a creation twice, a
  version and a deletion; the caps of two can be used up. Two users for what a
  deletion may take from the other one, three ids for the other application of the
  same user. One run holds both the concurrent and the sequential behaviours:
  `overlap` tells them apart.
* `Forge`: two polls are enough to overtake each other, two changes put a deletion
  or an activation after a deployment, one failing request is put at every step.
* `web_pages`: three events for the list of applications and the versions, four for
  accounts (with the form's own steps free) and files: a registration by each of two
  clients and a sign-in; a dialog, two clicks in it and a failure, so that edits overlap
  or one is lost; two windows that create and delete. Two callbacks of a page are under
  way at a time, in `BlockCreator` two creations with one change by others and one
  failing request. Three blocks, one of which has a name that begins with that of
  another; listings of at most three of ten paths, with folders of one name, the name
  of the root item and an inherited property; a framework of each of two types.

In safety runs handlers and block ids are symmetric, and handlers, users, application
ids and names in `applications`; no symmetry where liveness is checked.

### Fairness

`Fairness` of `BlockDeploy` assumes what the Go scheduler and tokio give: a
goroutine or task that can run does run, and calls return (weak fairness of
the consumer's, workers' and handlers' steps and of `Exit`). Delivery by Kafka
gets strong fairness (`ConsumerRead`), because the one-second poll of the consumer
may time out between two messages and disables it. Crashes, restarts, signals,
faults and users are never fair. Liveness properties are therefore conditioned
on `<>[](process = "up")` where a builder-server that is down would defeat them.

In the pages the browser runs timers and answers, and servers answer: each has weak
fairness of its `Progress`, the steps that need no user and no fault. `Forge` gives
fairness to the interval and to each kind of answer. That a request may also
be answered by an error is a fault, and never fair.

## 4. What the properties mean

* `NoSilentLoss`, `NoRepeatWithoutCrash`, `LossBounded`, `DispatchOrder`: at
  least once before the commit, at most once after it, with the loss bounded by what
  the process can hold, `2 * WORKER_COUNT + 1` messages for each crash.
* `QueueLive` (`EventuallyHandled`, `DrainEnds`): the full channel, the poll with a
  timeout and the drain block nothing for ever.
* `StatusTrue` is `PendingHasWork` (a block that shows `pending` or `building` has a
  request that will settle it), `RunningRuns` and `StoppedDoesNotRun` (when nobody
  works on a name, the status tells the truth), except for a block a fault has
  stranded, or whose deletion removed the container and stopped half way. The first
  holds for any number of workers. The other two need one worker; a name that is not
  in `shared`, because a late stop or removal of another block of the name takes the
  container of this one (section 6); and, for `StoppedDoesNotRun`, that Docker stops
  what it is asked to, because the code ignores its error.
* `PendingSettles` is the liveness side of `PendingHasWork`.
* `RowsRefined`: `UPDATE ... IF EXISTS` holds against every late status.
* `PortsOwned`: no two blocks share a port, except one whose DELETE failed:
  `delete_block` then frees its port all the same, and another block may get it.
* `NoPortLost`: until a fault happens, a taken port belongs to a block or to the
  creation or deletion in the session. With faults ports do get lost (a failed
  INSERT, a failed `free_port`): no code repairs that.
* `RecordsExist`: the row goes before the DNS record.
* `CapCountsBlocks`, `PrimeIsOneBlock`, `WebNameUnique`, `DomainsRouted` are
  what the sagas keep when requests come one at a time. The first two are said while a
  port is left for each creation (`PortsSuffice`): one that finds none panics after it
  charged the cap and took the prime domain, and nothing gives them back. With concurrent requests each
  of them is broken by a check-then-act or a lost update; setting
  `Handlers = {h1, h2}` in `ProvisioningSequential.cfg` shows it.
* `WriterExists`: an application whose creation was reported can be written by its
  owner until a deletion of it begins, however requests interleave and fail.
* `VersionsUsable`: no version is listed before blocks can be created in it. It
  leaves out the users who deleted an application, because `delete_all_usage_cap`
  takes the caps of all their applications: deleting one makes the others
  unusable, which the code does even with requests one at a time.
* `ListsCounted` is `CapsCount` and `ActiveListed`, `NothingOutlives` is `NamesUnique`
  and `NothingLeft`: what a creation makes and charges, its deletion takes and gives
  back, with requests one at a time and without faults (`ActiveListed`: even failing
  ones). Concurrent requests lose updates of the caps and pass the check of the name
  together; a deletion that is repeated gives the cap back twice. That the active
  version is listed depends on what the web-client offers: the main-server does not
  check it.

Of the pages, each property names the situation in which the code does not keep it,
as a history variable that is set exactly then (`mixed`, `late`, `crossed`, ...):

* `BrowserOnSettled`, `ListConverges`: the browser never stands open on a block that
  was pending when it was clicked, and the title and the list end up at what the
  server has once it stops changing, although older answers may be shown in between.
* `CreatedWhole`: what the form submits fits together, each creation is made of what its
  own click submitted, although the form is edited and sent again while it runs, row and
  configuration (and the template, unless another version was activated meanwhile) are of
  one version, and a row without configuration is left only by a request that failed or a
  page that was left.
* `ViewCurrent`, `FilesKept`: text and tree are of what is selected and stored. The
  configuration ends up with every edit of this window, overlapping ones included, unless
  an edit read it while the upload of another one was on its way, or an upload was lost
  (`EditsKept`, the history `missed`); and that takes an upload slower than the timer, or
  a click below the loading modal, or one while a dialog is ending (`EditsApart`, the
  histories `late` and `rushed`). Clearing reaches no block but those whose names begin
  with this one's.
* `TreeCorrect`: below an item stand exactly the parts of names that continue it,
  once each, every file is reachable, and the conversion throws only for a folder
  with the name of an inherited property.
* `AccountsSound`: the last stage of the sign-up shows a password and an address that
  were checked, unless the address was edited during its check; addresses are unique
  although `RegisterUser` looks and inserts in two statements; a user without a cap is
  one whose registration was answered with an error.
* `SessionShown`: the tokens shown are those of the session, and a browser whose session
  ended stays only until it asks for something.
* `CreatedChecked`, `DashboardCurrent`: an application is created only under a name
  found free; list, panel and collaborators are those of the server and the selection
  when reads do not overlap.
* `VersionsKept`: versions are well-formed, the active one is listed and the cap counts
  them, unless a window acted on old data or the button was used after the field
  was emptied.
* `OverlaysEnd`: a loading modal goes away unless a request of the callback that opened
  it failed.

## 5. Proofs

All proofs are for every value of the constants, from the named assumptions on
them (`WorkerCountAssumption`, `NameOfAssumption`, `FormsAssumption`, ...). The
assumptions of the pages are definitions of their modules, and `PagesAssumption` of
`WebPages` is that they hold of its constants. Most of them bound the instance or keep
the values apart that stand for nothing: `Statuses` holds neither `unborn` nor
`deleted`, which are no statuses but rows that are not there, and `Mounts` has no
`"missing"`, the field that tells a configuration that is not there from one that is.

**BuildQueueProofs.** `QueueTypeOK` and `DispatchOrder` are inductive together:
`DispatchOrder` describes exactly which offsets the consumer, the channel and the
workers hold, and needs the type invariant for arithmetic on offsets. The
delivery properties then follow from them with one strengthening,
`RepeatsAreRedone`: a handled message beyond the position must have been put into
`redo` by a crash; without it a read after a restart could not be shown to be
allowed to repeat. `QueueInv` is the conjunction. `LossIsBounded` adds `LossInv`
and a cardinality lemma (`HeldBounded`): workers, channel and consumer together
hold at most `2 * WORKER_COUNT + 1` messages.

**BlockDeployProofs.** Every action of `BlockDeploy` is written as one of `BuildQueue`
with more conjuncts, or leaves its variables alone, so that `Spec => QueueSpec` holds by
construction but for `TaskOK`: `Produce` wants the message of a handler to be in
`Requests`. It is a lemma (`DeployUsesTransport`), which carries every theorem about
`BuildQueue` over to deployments; `DeployLosesNothingSilently` is one of them.
`DeployImplementsRows` is the refinement `Spec => Rows!Spec`: every
action is an `Insert`, a `Report` or a `Delete` of one row, or none. Its invariant adds
`TaskBorn`: the block of an open request has, or had, a row, so that a deletion never
makes a `deleted` row out of an id that was not used yet. `DeletedRowStaysDeleted` is
proved action by action.

`DeployTypeCorrect` needs to know where a worker is: `JobsFit` says that a busy worker
has an offset of the log and that its next call belongs to the action of that message.
`PendingIsServed` proves `PendingHasWork` for any number of workers and faults. It is
not inductive as it stands, because a deletion that has read its block counts as work
of it there and yet ends without a status: `PendingCovered` leaves deletions out,
`PendOps` says that a deletion writes no `pending`, and `JobsFit` that a message which
leaves without a status is a removal. What a crash takes is what `stranded` gets; the
rest is in flight again.

`RunningBlocksRun` and `StatusIsTrue` are the whole of `StatusTrue`, for any number of
blocks, handlers, messages, crashes and faults, with one worker; blocks may have one name,
and a name in `shared` is exempted, as in the property; what rests needs a Docker that
stops what it is asked to (`DockerStops`). Section 6 has what happens otherwise. Neither half is inductive, as
both speak only of blocks nobody works on. `StatusInv` says what is true all the time:
a worker about to report `running` has a running container, one about to report
`stopped` has none (`WorkTrue`); a block whose container differs from its row has a
message in flight that will settle it, or a removal in the topic (`RunsServed`,
`RestsServed`); and a removal in the topic is the trace of a deletion that is open,
done or half done (`Removals`). `OneUser` says that two blocks which are in use have
different names, or have made theirs shared. It and the one worker make the message
under way the only one that touches the container, and the last one the one that decides.

**BlockProvisioningProofs.** `PortsOwned` is not inductive: a creation takes a
port it has read to be available two steps before, and a deletion frees the port
of a row it removed in the step before. `PortInv` adds `Locked` (who is
between the statements of the session holds it), `Fresh` (the id of a creation
that has not written its row is in no row, no port and no other handler) and
`Taken` (what the handler in the session knows about its port). The theorems are
`ProvisioningTypeCorrect` and `BlocksOwnTheirPorts`.

`RowsHaveRecords` adds `Known` to it: a creation that has a record id has its record in
the zone, one that has not called the zone has no id, and a deletion that is about to
remove a record has removed the row. `PortsAccounted` adds `Held` (the mutex is held
only by a handler between the statements) and `OnePort` (no id has two ports).

**ProvisioningInTurnProofs.** What is kept when requests come one at a time
(`OneAtATime`: there is one handler), for every set of ids, forms, versions and
ports. A saga writes one table after the other, so each property is stated over the
tables as they will be when the request under way has ended, and holds between
requests because nothing is under way then.

* `WebNamesAreUnique`, whatever fails but the query for the name: `NamesInv` keeps
  the name free that a creation has looked for, until its row is there.
* `CapCountsTheBlocks`, where at most the DNS provider fails: `CapInv` counts the block
  that is charged and has no row yet, leaves out the one that is given back and has
  its row still, and knows that the cap a request has read is the one there is. It
  counts with the library's theorems on cardinality, and needs finitely many ports
  only for `PortsSuffice`.
* `PrimeIsOneBlockOnly`, with the same assumptions: `PrimeInv` counts, in the same way,
  the blocks that have the prime domain.
* `EveryDomainRouted`, with the same faults, where no name is a part of another
  (`Flat`, see section 6): `RouteInv` excepts the block whose section is being written
  or was removed, and knows that the file a request has read is the one there is.

**ApplicationsProofs.** The properties relate rows that different services write at
different steps of a request, so the invariant follows the requests. `AppInv` adds to
the types `Owners` (a request belongs to the maker of its application, a deletion
under way is known as one), `Creations` (an id has one creation, which is over when
reported: without it the success of one could be claimed for another), `Writers` (from
`create_authority` on the owner has the authority, unless a deletion began) and
`Capped` (the row is there and its versions have their rows of caps, step by step).
Each action is shown to do what one of three predicates on steps allows (`Follows`,
`KeepsAuthority`, `KeepsCaps`; `Quiet` for the steps that touch none of it), and three
lemmas show that these preserve the invariant. The theorems are
`ApplicationsTypeCorrect`, `FinishedHaveWriter` and `ListedVersionsUsable`.

`CapsFitTheLists` and `DeletedLeaveNothing` are about requests one at a time, for any
number of handlers: what they say holds while requests have not overlapped, and
`Lone` gives the proof the one handler that works (`Current`). `ListedInv` is what
failing requests keep, too: the active version is listed, and a request to remove or
activate a version is about one that may be. `CleanInv` is what holds without faults:
`Counted` compares the caps with the lists as they will be when the request under way
ends (`AppsCounted`, `VersionsCounted`), keeps the name free that a creation has
checked (`NamesApart`), and follows a deletion step by step, the authorities gone
first, then each table of caps (`Tidy`). `Grounded` holds of every interleaving: an
authority is of the user who made the application, and the lists are finite, so that
they can be counted.

**ForgeProofs.** `ForgeTypeCorrect` and `BrowserOpensOnSettled`, for any number of
blocks, polls, changes by others and failing requests. Selection, delay and opening are
three steps, so the invariant (`ScreenInv`) is about what lies over the page: one of
five screens, the timer running under its own modal only, a command under that of the
browser, and, whenever anything covers the page, a selection that was settled when it
was clicked, because a click on another block needs the page. The lemmas on `Closed`
and `Opened` are about every stack of their shape.
`CurrentListStays` is what is safe about `ListConverges`: a current list can only be
spoilt by an answer on its way, so `ListCurrent` speaks of these, too, and then nothing
but a change on the server, or loading the page again, ends it. That the old answers
come to an end is the live half, and TLC's.

**WebPagesProofs and BlockPagesProofs.** The theorems are about `WebPages`. A page takes
its own steps only, and starts as its module says (`PageStarts`, `PageSteps`), so the
invariant of each page is proved of the page's module and carried over: it holds while
the page is shown (`CreatorAlways`, `FilesAlways`, ...). What is shared are the
lemmas on `Modals`: what closing leaves of up to two modals, what opening makes of them,
and what the mouse reaches. Each page has its own few stacks (`CreatorStacks`,
`DashboardStacks`, ...), which is more than `ModalStacks` of the type invariants says.

No property of a page is inductive, because they speak of the times when nothing is
under way. The invariants say what is on its way, and what it will bring.

* Accounts, `RegistrationsSound`: the answer of a check does not say which address it is
  about, so `FormKnown` ties the checks on their way to the address in the field, and
  the stage of the form to what was checked to get there. `SessionIsShown`:
  `ShownInv` says what holds until something crosses: one read of the tokens at most
  is under way, and it, or else the page, has what the user of the session has; a page
  without session has asked for something, or had asked before its session ended.
* Versions, `WindowsKeepVersions`, for any number of windows: the server does what it is
  told, so `ChecksKnown` and `CallsKnown` say what a window knew when it offered a
  button and when it sent a call, of the data each was computed from; a call that
  does not set `crossed` acts on data the server still has.
* Dashboard, `CreationIsChecked` and `DashboardIsCurrent`: one flag says "available" for
  every name that was typed, so `FormChecked` says that the checks on their way, and the
  one that was answered last, are about the name in the field. `PeopleKnown` does the
  same for the panel. `ListKnown` says of the list that a read which was served has what
  the server has, and that a selection the server has no longer will be closed by a
  deletion that was served, or by the list it waits for.
* BlockCreator, `CreationIsWhole`, for any number of clicks that overlap: `SagaOK` says of
  every step of a run what its click submitted, which block and which version it is
  about, and that the active version is still that one unless somebody switched it. No
  two runs are about one block (`BlocksApart`), because each gets a row of its own.
  `BlocksWhole` then follows a block through its run: nothing is there before the row,
  everything after it is of its version, and a row without configuration is that of a
  creation under way. `FormFits` says of the fields, which may change at any time,
  what a click may take from them.
* BlockFiles, `ViewIsCurrent` and `FilesAreKept`, for any number of callbacks that overlap:
  `EditsThrough` says that the configuration this window wants is in the storage, or
  on its way whole, until an edit reads it while another one's upload is on its way; that
  upload is younger than the timer of its callback unless something was late or a click
  came early (`rushed`). Until one does, one callback at a time is under way (`OneActive`),
  which is what the loading modal does for the mouse. `ListsCurrent` says that the lists on their way
  are what the storage has, and that one is on its way, or an upload will ask for it,
  while what is shown is not; `TextsSelected` does so for the text. `MissingOrNot` says
  that a block has a configuration from the start or never.
* FileTree, `TreeIsComplete`, for every listing of every set of names: the invariant of
  the loops. `MetIndexes` says which parts of which names they have been through,
  `ItemsOfMet` and `ItemsMatch` that these have their items, and each item the children
  met so far, once; the last loop adds to the root item those it has come to
  (`Rooted`). What the loops compute is thus proved without an induction over the listing:
  each turn is a step. The one exception are inherited properties of a JavaScript object,
  and the conversion throws only there.
* `PagesTyped`: the types of each page follow from its invariant, but for the accounts and
  the windows of the version manager. There `AccountsTyped` and `WindowsTyped` are
  inductive with what is known of the form: that a short password is never registered
  needs `FormKnown`.

Only model-checked: the liveness properties and everything about `ENABLED`, which are out
of the prover's reach. Every other invariant a run checks is stated by a theorem.

## 6. Where the code and its documents disagree

* `deploy_two_workers_running`: two uploads of one block handled by two workers.
  One removes the image tag the other is about to export, so an empty object is
  stored; it then stops the container of the other and fails to load, or the
  final statuses arrive in the other order. The block ends as `running` with no
  container.
* `provisioning_name_race`: the comment at `block/handler.rs:425` wants web names
  unique in the application; two concurrent creations both pass the check.
* `provisioning_nested_names`: `remove_nginx_conf` drops every section whose text
  contains the name, so that deleting `web` cuts `web2` off.

The models also show behaviours that no document speaks about. They are described in
the properties as the cases these leave out:

* a stop, or a second deletion, that has read its block before a deletion of it ends,
  and sends after another block took the name, takes the container of that block, which
  goes on showing `running` (one worker, no fault: in `DeployFaults.cfg` two deletions of
  b1 and a deployment of b2 do it, which `StatusTrue` exempts by `shared`);
* two creations that check a name together make two blocks which share image and
  container, with the same end;
* a deletion that is dropped once its message may be on its way leaves the row of a
  block without container, which shows whatever it showed before;
* a malformed address is registered when it is edited while the former one is
  checked; the sign-up is offered for every name that is not empty, also one the form
  warns of; a logout without a session rejects and leaves the page as it is;
* a registration whose cap fails leaves a user without cap and the overlay on;
* after a version was created the button is still offered over the emptied field and
  creates the version `""`; windows that act on old lists delete or activate
  versions that are gone;
* Create pressed while the check of the new name is on its way uses the answer about
  the former name; late collaborators are shown under another application; the end of
  a deletion closes whatever panel or dialog is open then;
* clearing the files of a block lists by a prefix without a slash at its end and
  clears the blocks whose names begin with this one's, too;
* an edit whose upload outlasts 1.4 seconds is lost to the next one; so is one of two
  edits when Enter starts the second below the loading modal before the first has
  written;
* Enter on Create below the loading modal starts a second creation; the first one to end
  closes the screen of both, and one that is refused takes the loading modal of the other.

## 7. Not modelled

* `update_block` (`block/service.rs:161`: its UPDATE has no IF EXISTS, and it may rename
  a block): the web-client defines the call (`service/block/api.ts:69`) and uses it
  nowhere, so no behaviour of the system reaches it;
* collaborators other than the owner, and reads that only show;
* volumes of containers, the two HTTP routes of the builder-server, the text of
  Dockerfiles and configurations (only right or wrong, or which volume and variables);
* a database statement that reports a failure although it was applied;
* rebalancing and several partitions of the topic;
* of applications: display name and description (one UPDATE each), and the blocks of an
  application that is deleted, which the code leaves where they are: that
  needs `Applications` and `BlockProvisioning` composed, whose product is beyond TLC
  at bounds where anything happens;
* requests about an application or version that the web-client does not offer;
* the keyboard below the modals of `Forge`, `Dashboard` and `Versions` (in `Versions` a
  second window does to the server what a second click would);
* two windows of one page other than the version manager; pictures, the contents of
  files, the prime domain's checkbox;
* the logger, blueprints and their canvas, lists of logs, settings, schema and deployment
  files, `web-landing`: each operation is one query or draws what it was given, and
  they have no protocol of their own.

## 8. Plan

Done, in this order: `BuildQueue`, `BlockDeploy` over it, `BlockProvisioning`,
`Applications`, and their proofs; `BlockRows` as the abstraction of the deployments and
`Forge` and `BlockCreator` over it; the other pages; the proofs about records and ports,
the work behind a status, the truth of a settled status, what provisioning and
applications keep when requests come one at a time, the screens of `Forge`, and all
pages of `WebPages`. `BlockDeploy` composes the main-server,
the transport and the builder-server; provisioning and applications are separate because
they share only the row and the cap of a version with it.

Next, in the order of their worth:

1. The other half of safety in `ListConverges`: how many old answers can still come,
   by a measure that every delivery lowers.
2. An abstract cap (what a user may still create) that `Applications` and
   `BlockProvisioning` implement.
