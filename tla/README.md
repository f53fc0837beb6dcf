# A verification project for cardinal-wings

cardinal-wings is the daemon that runs on every node of a hosting panel. It serves an HTTP API over
the container runtime `cardinal`, and keeps beside it what the runtime does not: asynchronous jobs,
on-demand mounts of stopped containers, console sessions, SFTP, backups, tokens and limits.

This directory holds TLA+ models of the daemon's stateful parts, the TLC configurations that check
them on small instances, and theorems checked by TLAPS for every value of their constants. Every
definition is translated from the Go source; `PROJECT.json` gives the source lines of each under `map`.

* [Inventory](#inventory): the parts of the system, their state and what makes them correct
* [Plan](#plan): modules, order, runs, theorems
* [The models](#the-models): how each module corresponds to the code, bounds, fairness, results
* [What is proved](#what-is-proved)
* [Findings](#findings)
* [What is not modelled](#what-is-not-modelled)
* [Running it](#running-it)

## Inventory

| Part | Source | State | Operations | Hard behaviour |
|---|---|---|---|---|
| Task manager | `internal/tasks/tasks.go`, `server/tasks.go` | map of tasks, of jobs, of cancel functions, a sequence number, a JSON file | submit, run, finish, cancel, retry, prune, restore | one goroutine per task against HTTP handlers; callbacks outside the lock; an in-place file write that is cut by a kill or fails without a word; retry with a gap between check and submission |
| Webhooks | `internal/webhooks`, `server/webhooks.go` | configured hooks | fire on completion | a goroutine per delivery: order and failures |
| Mount leases | `server/sftp.go` (`sftpLeases`), `server/filemanager.go` | lease table with counts, two mutexes, the host's mount table | acquire, release, mount stack, unmount stack, begin and close a file-manager session | shared by SFTP sessions, backups and HTTP requests; double-checked locking over two mutexes; a stack that fails half way, or is handed out without some of its layers; cardinal mounts the same paths |
| Console sessions | `server/terminal.go` | ring, fragment, subscribers, stdin channel | broadcast, flush, subscribe, unsubscribe, close, write input | slow subscribers, timers, close against send, a process that does not read |
| Console manager and handlers | `server/terminal.go`, `agent/exec.go` | newest session per container, attach processes | open, replace, remove, close, stream | a handler ending late against the session that replaced its own; contexts of requests |
| Websocket | `internal/ws/ws.go` | closing flag, `closeOnce`, socket | read, write, close | reader and writer both close; a write without a deadline holds the lock that a close needs |
| SFTP credentials | `server/sftp.go` (`sftpStore`) | map of users, a JSON file | set, remove, look up | saved outside the lock, through one temporary file |
| SFTP server and path jail | `server/sftp.go`, `server/filemanager.go` | none but the tree itself | resolve a path, read, write, make, remove, rename, link | links the container makes and changes; parents and targets that do not exist yet |
| Temporary starts | `server/sftp.go` | sessions that started their container | start, poll, stop | sessions, the panel and the autostart pass start and stop one container |
| Backups | `server/backups_store.go`, `server/backups.go` | archives on disk, jobs | snapshot, download, delete, restore, report to the panel | two jobs with one uuid, two restores at one time, a full disk under `tar`, restart in a job |
| Archives | `server/archive.go`, `server/fmzip.go` | none | validate, extract | path rules, links that wait for the files, links that are there already |
| Authentication, limits | `internal/auth`, `server/limits.go` | token buckets, counters | take, prune, acquire, release | full maps, refill arithmetic |
| Panel tokens, browser console | `server/paneljwt.go`, `server/panelbrowser.go` | permissions of a connection, an expiry goroutine | verify, first frame, drive the server, expire | permissions that outlive the frame they came in; expiry against the handler's own close |
| Panel link | `server/panellink.go`, `server/panel.go` | link file | save, load | file writes |
| Audit log | `server/audit.go` | an open file and its size | record, rotate | a failure in the middle of a rotation |
| Autostart | `server/autostart.go` | none | one pass at boot | acts on a state read earlier |
| Health and nodes | `server/healthcheck.go`, `server/nodes.go` | registered nodes, last results | register, remove, tick, snapshot | ticker against registration |
| Configuration | `internal/config/config.go` | parsed file | load, validate, authorize | rules and defaults |
| Local agent | `internal/agent/local.go` | a child process | start, wait, stop | time-outs |
| Routes | `server/containers*.go`, `images.go`, ... | none | dispatch, gate by role, one call of cardinal each | which of some hundred routes is gated by what |

How they interact: HTTP handlers (one goroutine per request) call the singletons above directly; the task manager calls
back into the webhooks; SFTP sessions and backup jobs share the lease table, and the leases share `fmMountMu` and the
host's mount table with file-manager requests and with cardinal itself; a console session is shared by an attach
goroutine, websocket handlers with a writer goroutine each, SSE streams and HTTP input requests, and its output goes out
through a websocket that the handler may be closing, or the goroutine that waits for a panel token to expire. Every
authenticated request passes one chain: limit by address, authentication, limit by key, audit, route. Everything in
memory is lost by a restart; tasks, credentials, the panel link, backups and the audit log are files.

What makes each part correct (stated as properties where a module exists, see below):

* **Tasks**: what a client reads as finished is on disk, or is again with the next save that succeeds; a cancelled job's
  context is cancelled; what subscribers are told agrees with the list; a retry does not run beside the task it repeats,
  unless that was cancelled; unfinished tasks are not pruned; every task is announced.
* **Leases**: what a root was prepared over stays mounted under everyone who was given it; the count is exact; every temporary
  mount has somebody who will unmount it; nobody waits for ever for a mutex.
* **Console sessions**: output is neither lost, repeated nor reordered before it is sent; the replay joins the
  live output exactly; no channel is closed twice or written after its close; input is always answered.
* **Console manager**: the live session is the published one; a closed session leaves nothing
  running, and the end of a console reaches its client, unless that client has stopped reading.
* **Websocket**: one close frame, never swallowed, and a complete close.
* **Credentials**: the file follows the map. **Backups**: an archive that is offered is complete, a
  deleted one stays deleted. **Temporary starts**: no container stays up that nobody wants any more.
* **Configuration**: the keys wings runs with are those the file says. **Limits**: never more than the burst plus
  the refill, whatever pruning forgets. **Audit**: no entry is lost by a rotation, and a request is
  recorded before it acts. **Routes**: what changes something asks for an admin key.
* **Panel tokens**: a browser does what its token was signed for, and not for ever if it reads. **Path jail**: no file
  operation reaches outside of the data directory, but for archives unpacked over links of the container's own.

`PROJECT.json` lists the hazards of the code with the line at which each bites and the properties that
cover it; a `note` says what of it is still open.

## Plan

| # | Modules | Status |
|---|---|---|
| 1 | `TaskManager`, `MCTaskManager`, `TaskManagerProofs` | done |
| 2 | `SharedMount` (abstract), `MountLease` (implements it), `MCMountLease`, `LeaseProofs` | done |
| 3 | `TerminalSession`, `Terminal`, `WsConn` and the MC modules of the first two, `TerminalSessionProofs`, `TerminalProofs`, `FrontDoorProofs` | done |
| 4 | `Files` (the os package), `SftpStore`, `MCSftpStore`, `SftpStoreProofs` | done |
| 5 | `BackupStore`, `MCBackupStore`, `BackupStoreProofs` | done |
| 6 | `TempStart` (implements `MountLease`), `MCTempStart`, `LeaseProofs` | done |
| 7 | `Config`, `Routes`, `Access`, `MCAdminRoutes`, `FrontDoorProofs` | done |
| 8 | `PanelToken`, `BrowserConsole` (implements `WsConn`), `FrontDoorProofs` | done |
| 9 | `PathJail`, `PathJailProofs` | done |
| 10 | `FrontDoor`, `MCFrontDoor`, `FrontDoorProofs`: 7, 8 and 9 behind one configuration | done |

Composition. A console is three modules deep: `Terminal` (who owns which session), `TerminalSession` (what is inside of
one) and `WsConn` (how its socket closes). Each abstracts the next one: in `Terminal` a channel holds the end marker or
not, and a websocket is open, stalled by a client that does not read, or closed. `BrowserConsole` EXTENDS `WsConn` and
`PanelToken`. `MountLease` implements `SharedMount` for every container, and `TempStart` implements `MountLease`.
`SftpStore` and `BackupStore` share the directory of `Files`. `Access`, `PanelToken` and, in `FrontDoor`, `PathJail`
stand on `Config`: what they do depends on the configuration that was read.

Abstract specifications: the shared mount, and the lower of two modules wherever one implements another.
Theorems that remain worth proving: that a `BrowserConsole` whose token has expired is on its way to be closed (the safety half of
`ExpiredIsClosed`), and that an extraction over links of the container's own leaves the data directory only through them.

## The models

Conventions: a critical section is one action; what the code does outside its locks, and every call
that may fail, block or be overtaken, is an action of its own. A variable or operator bears the
name of the Go identifier where it stands for one. An *observer* is a variable the code does not have,
that only properties read. A definition named `X_Something` above an `X` is a mutant of `X`: the bug it
names is put in place of `X` to see that the property it is paired with in `PROJECT.json` notices.

### Tasks: `TaskManager`

| State | Code |
|---|---|
| `tasks`, `listed`, `jobs`, `cancels`, `seq` | `Manager.tasks`, `.jobs`, `.cancels`, `.seq` |
| `worker` | the goroutine of a task: spawned by `submitJob`, working after `run`'s critical section |
| `calls` | calls of `onComplete` that were decided and not yet made |
| `retrying` | a `Retry` between its check and its `submitJob` |
| `file` | what the JSON file parses to: nothing before the first save and when a write was cut |
| `signalled`, `announced`, `parent`, `life`, `failures`, `unsaved`, `forgotten` | observers |

`Submit`, `Run`, `Finish`, `Cancel`, `RetryCheck`, `RetrySubmit`, `Prune` are the methods of the same
names; `OnComplete` is the callback, delivered in any order; `Restart` kills the process, possibly in the
middle of `saveLocked`, and runs `WithPersistence`. A finish time is zero, recent or older than the
one-hour limit, and `HourPasses` ages it. A retried task keeps no link to the first one in the code:
`parent` is an observer. Output, progress and labels of tasks are left out.

A save may fail without a kill: `saveLocked` returns on the errors of `Marshal` and `MkdirAll` and drops that of
`WriteFile`, which has truncated the file by then if the disk is full. `Saves` are the three outcomes (written, left
alone, cut), at every call of `Finish`, `Cancel` and `Prune`; `MaxFailedSaves` bounds how many fail. Nobody is told, so
a restart may bring back less than clients have read, a pruned task, or a task as cancelled that was announced as
succeeded: `unsaved` names the ids whose latest change is in no save that succeeded, `forgotten` those a restart then
restored from what was there.

* `tasks` (two tasks, one restart, one failed save). `FinishedIsDurable`: what a client reads as over is in the file,
  but for the tasks whose own save failed (all, when it cut the file), and for those until any save succeeds, as each
  writes the whole list. `CancelReachesJob`: Cancel always finds the cancel function of a body that runs.
  `AnnouncedAsListed`: webhooks and list agree, saved or not; what a restart brings back in place of an unsaved end is
  excepted. `RetryOverlapsOnlyCanceled`, and `EveryTaskAnnounced` under fairness. Two tasks are enough for a retry
  beside its original and for a prune of one beside the other; one restart is enough for an id to be used twice, one
  failed save for a save that has to make good for it and for a restart before that.
* `tasks_cancel_stays`, `tasks_restart_replaces`: see [Findings](#findings).

Fairness: goroutines run (`Run`, `OnComplete`), and job bodies return (`Finish`). The last is an assumption on
the jobs: a body is an image pull or a command with a context, and the manager has no time limit of its own.

### Mounts: `SharedMount`, `MountLease`, `TempStart`

| State | Code |
|---|---|
| `active` | `sftpLeases.active`: reference count, the layers the entry owns and (observer) those under its root |
| `fm`, `lmu` | the holders of `fmMountMu` and `sftpLeases.mu` |
| `own`, `at` | the `fmSession` a goroutine has in hand, and how far its mount work is |
| `mounted`, `running`, `leftover`, `imaged` | the host's mount table, containers cardinal runs, a merged directory with content, containers with a disk image the host can mount |
| `pc`, `ref`, `lease` | where a user is, how it spelled the container, whether it holds a release function |
| `temporary`, `under` | observers: the layers wings mounted and has not unmounted; those a root was prepared over |

`acquire` is `AcquireFast`, `AcquireLock`, `AcquireRecheck`, then `MountNext` per layer, and `MountDone` or `Undo`;
`release` is `ReleaseLock`, `ReleaseRef` and `Close`. `BeginRequest` is `beginFMSession`, which holds `fmMountMu` until
its response is written. `Fallback` is `ensureDataRoot`'s and the SFTP session's way on without a lease. `MountNext`
passes a layer (`passLayer`) or ends the session (`failLayer`), with every way `mountOverlaySession` has to do so: a
layer is found, mounted, or left out, as the disk image is on a host without loop devices and all volumes are while the
container's state is unreadable and its overlay mounted; every mount may fail, a volume may be refused though it is
mounted, and one that was bound and could not be made read-only stays mounted, owned by nobody, if its `umount` fails as
well. A tmpfs volume is never mounted here and is no layer. `CardinalStart` and `CardinalStop` are the runtime, as the
daemon's comments and its use of it describe them.

`TempStart` adds who starts and stops containers. A session that finds nothing to mount goes through
`TryStart`, `PollFinds` or `PollGivesUp`, `EndSession` and `TryStop` (`step`, `started`); the pass of `autostart.go` is
`AutostartInspect` and `AutostartStart` with `found` between them; the panel starts and stops at any time;
cardinal accepts a start at once and brings the container up later or never (`starting`). `asked` and `stray` are observers:
what the panel or the pass want running, and what a failed stop, a start that took effect after its
time-out or a kill left behind. Those three are exceptions the code makes. It promises nothing in the other
direction either: a session may stop a container that somebody else wants by then.

* `leases` (`MCTempStart`: two sessions, one request, one container with one ref, three layers: a disk image, the
  overlay, a volume). `ServedFromMount`: the overlay, the disk image where there is one, and every volume that was
  mounted or found when a root was prepared stay there under everyone who was given it. That this is every volume of the
  container is not promised by the code. `RefsCountHolders`: the count is exact. `TemporaryHasOwner`: every temporary
  mount has somebody who will unmount it, until its `umount` is refused, which the code ignores. `NotLeftRunning`: a
  container that nobody asked for is up only while a session is there to stop it (not the other direction: see above).
  `ImplementsSharedMount`: every step is a step of `SharedMount`. `WaitersProceed`: an error path that forgets a mutex
  would show here. Two sessions are enough for every double check, three layers for a layer below and above the overlay.
  More of them, and any number of containers, are what the proofs cover.
* `leases_two_refs`: the same with a name and an id for one container, see [Findings](#findings).

Fairness: `sync.Mutex` hands over to a waiter that starves after a millisecond, so taking it is strongly fair; mount
work is weakly fair (`mount` and `umount` return); a file-manager request ends, as its server has time-outs. A session
that started its container goes on (its polls are counted). It need never end, and cardinal need never start or stop
anything.

### Consoles: `TerminalSession`, `Terminal`, `WsConn`

`TerminalSession` is one `terminalSession`: `pending` (the fragment held for its newline), `ring`, `subs` and their
channels with contents and state, `stdin`, `closed`. Output is numbered pieces, so that
order, loss and repetition can be told; a chunk is a sequence of pieces or a marker. Actions are
`FlushPending` (the timer, at any moment), `AttachOutput`/`AttachExit`/`AttachEnd`/`AttachClose` (the goroutine of
`open`), `Subscribe`, `Unsubscribe`, `Receive`, `InputCheck` and `Input` (the two halves of `writeInput`, the second
after the lock is given up), `CloseByOther`.

* `console_session` (two subscribers, one typist, three pieces, capacities 2, 2 and 1 in place of 200, 512 and
  64). The caps keep the relation the code relies on: a ring fits a channel. `RingInOrder` and `ReplayJoinsLive` say
  that nothing is lost, repeated or reordered, and that replay and live output join exactly, unless a
  channel was full; `ChannelsSafe` that no channel is closed twice or sent to after its close;
  `InputAnswered` that a typist is answered though the console never reads. Fairness: a request that is
  served goes on (its timer fires).

`Terminal` is `terminalManager` with the attach goroutine of every session, the handlers of the POST, websocket and SSE
routes, and the writer goroutine of a websocket. Sessions are numbered in the order they open; `ctxDone` is the context
of the session, which kills the attach process. `conn` is a websocket: it stalls when its client stops reading and the
buffers on the way are full (`ClientStalls`). `WriteText` has no deadline and holds `writeMu`, and `Close` needs
`writeMu` before it closes the socket: while the websocket is stalled, the writer's write and the handler's close may
wait.

* `console_manager` (two sessions, one stream: a session and its replacement). `LiveIsPublished`: the deferred removal
  of an old session never takes out the new one. `ClosedIsCleanedUp`, `EndReachesClient`: nothing is left running and a
  client learns of the end. Both except a websocket whose client has stopped reading and keeps its connection, and show
  that it holds up nothing else: the attach process is killed, the session leaves the map, the streams return. Fairness
  (`Work`): some work of the daemon's goroutines is always done; as that work is finite this is all of it. The writes to
  a stalled websocket (`Sends`) are not part of it; those of a stream are, as the `WriteTimeout` of the server ends
  them. Nothing is assumed of consoles, nor of clients, which may stop reading for good.
* `console_open`: see [Findings](#findings).

`WsConn` is the closing handshake: the flag `closing` swapped atomically, `closeOnce`, the frames that went out. Its
peer may stall the socket (`PeerStalls`): a write then waits (`writes`), and with it whoever needs `writeMu`. Its
properties are safety: none says that `Close` returns.

Its run is `front_door`, where the browser console uses it; the theorems are for any number of connections.

### Files: `Files`, `SftpStore`, `BackupStore`

`Files` is a directory as the `os` package shows it: names stand for files, an open file outlives its name, and
two goroutines that create one name write into one file. The two stores below are built on it.

`SftpStore` is `sftpStore`: the map `users`, changed under its lock by `set`, `removeUser` and `removeAll` (`remove` in the
code), then `save` in four steps (`Marshal`, `Create`, `Write`, `Rename`) outside of it, each of which may fail. `Restart`
kills the process between any two and loads the file. The temporary file has one name for all
savers, so overlapping saves may write into one file (`written`). `open`, `sole`, `settled` are observers: usernames
whose change is not answered with success, and whether saves overlapped.

* `sftp_store` (two handlers, two usernames, two containers, one restart, symmetric). `AnsweredIsSaved`: a restart
  loads every credential that was answered, whatever fails or is killed later. It holds until saves overlap and again
  after the next undisturbed one; in between the code does not promise it, since an older copy may be
  renamed over a newer one. Two handlers are what it takes to
  overlap; one restart is enough, as a second one starts from a file the first left.

`BackupStore` is one container's snapshots: a job (`Lease`, `Create`, `TarBlock`, `TarDone` or `TarFails`, `Rename`,
`Report`), `Delete`, any number of restores (`Restore` with its `ExtractBlock`s), and a kill. When the disk fills up
under `tar` (`DiskFull`), `io.Copy` returns and `cmd.Wait` waits for a `tar` that waits for room in its pipe: the job
hangs with its `.part` file and its lease until somebody kills that `tar` (`TarKilled`). Only when the rest fits into
the pipe is a full disk one of the failures of `TarFails`. Nothing keeps two restores apart: `mixing` names those that
another one ran beside. An archive is one or two blocks, each named after the job that wrote it, so that a mixture or a
part is told from the whole. `clashed` names the snapshots two jobs made at one time.

* `backups` (two jobs of one uuid, two restores, two blocks, one kill). `StoredIsWhole`: what can be downloaded is one
  job's whole archive. `ReportIsTrue`: what the panel was told describes what is stored. `RestoreReadsOneArchive`: a
  restore reads one archive, also while its snapshot is deleted or replaced, and what it has extracted is that archive's
  unless another restore ran beside it. `JobsReport`: every accepted job reports, or is killed, or hangs on a full disk.
  The first three do not speak of clashed uuids, whose jobs share one `.part` file, and none of them of a deletion that
  the rename of a job undoes. One uuid is enough: snapshots of different ones share no file (`NamesApart` is proved for
  any number), and it makes every pair of jobs and every pair of restores meet in one. A kill may leave a `.part` for
  good; nothing cleans it up. Fairness: the goroutine of a job runs, `tar` ends while its pipe is read, and the report
  has a time limit of 30 s.

### The way in: `Config`, `Routes`, `Access`, `PanelToken`, `BrowserConsole`, `PathJail`, `FrontDoor`

`Config` is `config.Load` and `Validate`. A file is a sequence of tables, each a sequence of key and value; `Load` goes
through them line by line as the scanner does: the first line of an array of tables begins an entry (`starts`), and any
other line goes to the last one. `StartUp` applies the flags of `main.go` and validates: wings serves, or it exits.

`Routes` is the table of the authenticated routes, file by file: `hasHandler` says which have a handler,
`needsAdmin` which are wrapped in `AdminOnly`, with `splitRef` and `isMutating` as the dispatchers use them.

| `Access` | Code |
|---|---|
| `clients`, `keys` | the buckets of the two limiters: by address and by key name |
| `reqs` | the requests, and the middleware each has passed |
| `auditFile`, `auditSize`, `auditLog`, `auditOld` | the audit log, whether it is open, and the file it was rotated to |
| `now` | time in ticks; a token has `Cost` parts, so that a rate is a whole number |
| `window`, `byHost`, `byKey`, `serial`, `lost` | observers: what was let through since a moment (`StartWindow`), entries numbered, entries that found no open log |

`Arrive` is CORS, body limit and the limit by address, `AuthLimit` the authentication with the limit by key, `Audit` the record with
every outcome of `rotate`, `Route` the gate and the handler, `Restart` the loss of all but the files. `PruneAssumption`
says that a bucket old enough to be forgotten is full again. The defaults make it true; `Validate` does not enforce it.

`PanelToken` is `verifyPanelJWT`: a token names the key it was signed with, and its claims. `BrowserConsole` is
`handleLegacyWS`: `FirstFrame` (the token), `ArmTimer` (the expiry goroutine, first for the warning and then for the end),
`OpenSession`, `Drive` (a frame that acts on the server), the ways out of the loop, `TimerFires`. The handler is the
reader of `WsConn` and the goroutine its writer. `shown` and `driven` are for the properties.

`PathJail` is a small file system with links: `tree` maps paths to directories, files and links, `walk` resolves as the
kernel does, one name at a time (`look`), and every file operation of SFTP, the file manager and the browser is one
step, check and use together; so is the unpacking of an archive. `ContainerPuts` is the container, which changes its own
data between the requests. `strayed` collects what a request read or changed outside of the data directory. Three limits
of what this says:

* The rest of the host is fixed (`Outside`) and has no link that leads into a data directory (`OutsideAssumption`): what other
  programs do with such a link is no matter of this code.
* Archives are unpacked by name: `unzipInto` and `extractTarGz` check the names of the entries and resolve none, so the
  kernel follows what links are below the destination. As long as the data directory has only links of the kind wings
  makes (`plain`), an extraction stays in it; over other links it may leave it, contrary to the comment at
  `archive.go:62` ("without ever leaving it"). `astray` says that this has happened: the property excepts what follows,
  and `JailNext` does not go on from there (a bound on the states, not a guard of the code).
* The data directory itself counts as inside. `fm/rm` and the others compare the name they were asked for with it, not the
  real path, so a request that comes to it through a link to a directory above may remove it.

`FrontDoor` puts them behind one configuration. What lies behind the doors shares nothing else, so a behaviour takes one
of six: `config` (which reads other files than the rest, `WrittenFiles`), `addresses` and `keys` (the two limiters),
`api` (audit and routes), `console`, `files`. `Focus` bounds the middle three: one reading request at a time for the
limiters, mutating requests from loopback for the audit.

* `front_door` (two keys of two roles; two requests, three hosts of which one is loopback; room for one bucket; four
  ticks; three audited requests, rotation at one; one connection, six tokens, clock to 3; two names, paths of depth
  three, four targets of links that stay, leave, leave to what does not exist and lead above the data directory, twelve
  lookups to a walk, where the kernel counts the links). About 210 000 states. `AcceptedAsWritten`: whatever the order
  of the lines in `[[keys]]` tables, wings runs with the keys the file says or refuses it. `Throttled`: over any stretch
  of time nobody gets more than a burst and what the rate gives. `KnownBuckets`: tokens nobody knows make no buckets.
  `AuditComplete`: no entry is cut off by a rotation or out of order, but for those that found no open log.
  `DriveGranted`: a server is driven with a permission an admin key signed. It does not bound how long: a frame that is
  read after the expiry and before the close acts. `ExpiredIsClosed`: a connection with an expiry ends, unless its
  browser has stopped reading. `OneCloseFrame`, `FlagMeansFrame`, `CloseIsComplete`: the closing handshake as a handler,
  its reader and the expiry goroutine use it. `ServedInside`: the path jail, with archives as above. One bucket's room
  is what makes pruning happen, two requests what lets one overtake another in the chain, and the paths are long enough
  for a link below a link and a missing parent below a link. More requests, connections and rates are what the proofs
  cover.
* `admin_routes` (a key of each role, a changing route in three groups): see [Findings](#findings).

Fairness: the clock moves, a timer that is due fires, and a goroutine in `Close` goes on, each as far as its writes end.
The expiry goroutine writes before it closes (`wsSend`), so a browser that stops reading holds it up; whether it reads
is not assumed.

Deadlock is not checked where the system may stop: all tasks used up, all sessions over, all jobs done, the clock at its
bound.

## What is proved

For every value of the constants, from the assumptions named in the modules.

* `TaskManagerProofs`: `Invariance`, and from it `TypeCorrect`, `Durability`, `Cancellation`, `Announcement` and
  `RetryAndPrune`. The properties are not inductive: an id is used again after a restart, so the invariant must know
  which ids belong to the current life (`CurrentIds`), that a final status carries a finish time, that nothing is
  announced before it, and what the file would bring back (`FileSaysCanceled`). `SaveStep` says what each outcome of a
  save leaves in the file and whom it leaves unsaved.
* `LeaseProofs`, about `MountLease`: `ShapeInvariant`, `TypeCorrect` and `CountsHolders` hold however containers are
  addressed; `LeaseInvariant`, `MountedWhileServed`, `NoMountLost` and `Implements` (every step of `MountLease` is a
  step of `SharedMount` or a stutter) under `OneRefPerContainer`, which is what `leases_two_refs` shows to be necessary.
  The invariant adds to the properties the mutual exclusion of `fmMountMu`, the shape of handlers and table, how far
  mount work has come (`MountProgress`), that what a root lies over is mounted under everyone who *relies* on it, those
  included that have not given their reference back yet, and that whoever is about to unmount is alone (`OwnersAlone`).
  `HighestFirst` picks the layer an unmount takes next, by induction over the layers. About `TempStart`:
  `RefinesMountLease` (every step is a step of `MountLease` or a stutter, so what is proved of the leases holds with
  temporary starts), `TempInvariant` and `StartedIsStopped`. The invariant adds where a session is in `MountLease` while
  it polls, serves and stops (`StepShape`): it keeps its ref until it has stopped what it started.
* `FrontDoorProofs`. About `Access`: `RatesHold`, from `RatesAssumption` and `PruneAssumption`. The bound alone is not
  inductive: `LimitInv` bounds what has been let through *plus* what the bucket would give now (`available`), which
  refilling and forgetting leave below a burst and the refill. `NoEntryIsCutOff`: the two files, one after the other,
  are ordered and have no gap (`Kept`), which appending, losing an entry and replacing the older file by the newer one
  preserve; a request's entry is its own because numbers are given once (`AuditInv`). `OnlyKnownBuckets`: nothing is
  counted before the configuration is read, and a token that is let in has a first key it matches (`FirstMatch`).
  `StartsAsWritten`, about `Config` and every file that `FilesAssumption` admits: by induction over the tables and over
  the lines of each, what `Load` has read so far is what is written so far, but for lines that went to an entry too
  early or too late; a key or role lost that way leaves another entry without one, and `Validate` refuses the file.
  About `WsConn`: `Invariance`, `TypeCorrect`, `OneFrame`, `NoFrameSwallowed`, `CloseCompletes`. That one frame goes out
  rests on who is about to send it, which the swap of the flag grants once (`Local`). About `BrowserConsole`:
  `RefinesWsConn`, and with it `ConsoleCloses`; `DrivesAreGranted`, since whatever permission a connection has at any
  time is one its token was granted (`GrantInv`), whatever frames follow the first and after the token has expired.
  About all of them, side by side in `FrontDoor`: `PartsAreTyped` and `TheFrontDoorHolds`, every safety invariant of the
  run `front_door` as a theorem of `FrontSpec`. A step of one part leaves the others alone (`FrontSteps`), so the
  invariants of the parts hold together (`FrontInv`). Types need a little more than those: `ConsoleTypes` says that the
  handler has left its session before it is inside `Close`.
* `PathJailProofs`: `JailTypes` and `InsideTheJail`, from `PathsAssumption` and `OutsideAssumption`, for any names,
  paths, link targets, host and number of lookups. Walks are compared name by name: the walk of a path passes through
  that of what is above it, and a tree in which one place was made, dropped or moved sends a walk elsewhere only at that
  place. Lookups may run out in one walk and not in the other, so the lemmas say where it is after each of them
  (`Ahead`, `EndsAt`). What `resolve` checks, that the real path of the nearest parent that exists is inside, says where
  the path leads (a link to nothing exists for `Lstat`), and still does after `MkdirAll` has made what is missing
  (`MkdirAllSafe`). The invariant (`JailInv`): the tree is well formed, every node in a directory, and unless an
  extraction went astray, it is outside of the data directory what it was. For archives two more: in a `plain` tree
  every walk from the data directory stays in it (`PlainWithin`), and over any other the tree stays well formed
  (`Unpacked`).
* `TerminalProofs`: `Invariance`, `TypeCorrect`, `LiveSessionIsPublished`. It rests on the order of the deferred calls
  (`Published`): a websocket handler removes its session and then closes it, a stream only removes what it has closed.
* `TerminalSessionProofs`, from `CapsAssumption` (a ring fits a channel) and `MarkersAssumption`: `SessionInvariant`, and from it
  `TypeCorrect`, `OutputInOrder`, `ReplayJoins` and `ChannelsNeverPanic`. Ring, channels and fragment are runs of consecutive
  pieces (lemmas about cutting and joining such runs carry the proof), and every run but the fragment ends where the fragment
  begins: that is why replay and live output join.
* `BackupStoreProofs`, from `JobsAssumption` and `BoundsAssumption`: `BackupInvariant`, `TypeCorrect`, `WholeArchives`,
  `ReportsAreTrue`, `RestoresOneArchive`, for any number of jobs and restores. A job whose uuid no other job has at the
  time is alone with its `.part` (`Solo`), the names of two uuids never stand for one file (`NamesApart`), nobody writes
  what a restore reads (`SourceApart`), and a job past its blocks has written all of them (`Written`).
* `SftpStoreProofs`: `Invariance`, `TypeCorrect`, `AnswersSurvive`, for a finite set of handlers (`BoundsAssumption`).
  The handler nobody disturbed has the store's map as its copy and the temporary file for itself (`Undisturbed`); while
  no saves overlapped the two names stand for two files (`Apart`), and one more is always free (`OneIsUnused`, by
  counting).

Only model-checked: all liveness (`EveryTaskAnnounced`, `WaitersProceed`, `InputAnswered`, `ClosedIsCleanedUp`,
`EndReachesClient`, `JobsReport`, `ExpiredIsClosed`), since the proof system does not handle fairness and ENABLED. Every
invariant of a passing run is a theorem. Recursive functions are no obstacle: what they compute is proved by
well-founded induction over their bounded domain.

## Findings

Each is a run that finds a statement of the repository violated by what the code does.

* `tasks_cancel_stays`: `run` does not look whether its queued task was cancelled; the task runs on, marked
  running with a finish time, cannot be cancelled any more, and is announced twice.
* `tasks_restart_replaces`: the sequence restarts at zero, so a new task replaces a finished one that was restored.
* `leases_two_refs`: a name and an id of one container are two leases for one mount; the first to end unmounts it
  under the other.
* `console_open`: the session of `POST .../terminal` lives in the context of that request and is killed when
  it is answered.
* `admin_routes`: the dispatcher of the containers' routes looks for the action at the place of the ref, so a readonly key
  may perform a container action that changes state, which the documentation reserves to admin keys.

What the models show beside these, as an exception that a passing property names and the code's comments do not:

* An extraction over links that wings did not make is not bound to its destination by the checks of names
  (`archive.go:62`, `ServedInside`).
* A failed save is reported to nobody, and a restart then restores what was saved before (`tasks.go:102-109`, `FinishedIsDurable`).
* A snapshot job hangs when the disk fills up under its `tar` (`backups_store.go:172-173`, `JobsReport`), and restores
  mix when they run side by side (`RestoreReadsOneArchive`).
* A client that stops reading its websocket holds up its writer, the close of its handler and its expiry (`ws.go:145-181`,
  `ClosedIsCleanedUp`, `EndReachesClient`, `ExpiredIsClosed`).

## What is not modelled

`PROJECT.json` lists every part with its status and what a partly modelled one leaves out.

* Parts without a state of their own, or with one that a single goroutine sets once: the health checker (nodes are
  registered before its ticker starts, and a round overwrites one snapshot), the local agent (a subprocess started before and
  stopped after everything else), the CLI wrappers and the API client of cardinal, the URL guard, the dashboard and the
  reports. The handlers that only pass one call on to cardinal are in `Routes` by their gate alone.
* The panel link: one value in a file, written the way `SftpStore` writes its map.
* What is outside of the daemon: the HTTP delivery of webhooks, the SSH protocol, signatures, the tar and TOML formats
  (quotes and comments included), what files hold.
* Inside modelled parts: the resize of a console; the pipes of its process, whose last output `exec.go` may lose; backups
  streamed to a client or restored from an upload or a URL; caps on sizes; changes of a link by the container between the
  check of a path and its use; time, except where a module counts it (one hour for tasks, ticks for limits and tokens).

## Running it

    tlc -config MCTaskManager.cfg MCTaskManager        # any MC module with its configuration
    tlapm TaskManagerProofs.tla                        # a proof module

`PROJECT.json` lists the runs with their properties, and the mutants each property was tried on. The largest, `leases`,
`console_manager`, `backups` and `front_door`, take two to four minutes on two cores; the proofs of a module one to two
minutes.
