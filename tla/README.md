# Etherpad: a verification project

These TLA+ modules describe Etherpad 3.3.3 (`src/etherpad-3.3.3`), a collaborative text editor: a
Node server, browsers connected to it by socket.io, and a key-value database. They cover the heart of
the program, collaborative editing of a pad over unreliable connections, and the parts where its
server keeps state over time: pads and their database records, the self-updater, and the rotation of
the secrets that sign cookies.

Paths below are relative to `src/etherpad-3.3.3/src`.

## The system

| Part | State | Operations | Talks to |
|---|---|---|---|
| Collab client (`static/js/collab_client.ts`) | `rev`, `committing`, `isPendingRevision`, channel state | send USER_CHANGES; handle NEW_CHANGES, ACCEPT_COMMIT, CLIENT_RECONNECT in a task queue | changeset tracker (calls), server (messages) |
| Changeset tracker (`static/js/changesettracker.ts`) | `baseAText`, `submittedChangeset`, `userChangeset` | compose typing, apply a foreign changeset, prepare and commit a submission | editor (callbacks) |
| Browser connection (`static/js/pad.ts`) | socket, `receivedClientVars` | connect, reconnect, give up, disconnect messages | collab client, server |
| Message handler (`node/handler/PadMessageHandler.ts`) | `sessioninfos`, rooms, one promise chain per pad | CLIENT_READY, USER_CHANGES, `updatePadClients`, connect, disconnect; also chat, saved revisions, options | pads, browsers |
| Changeset algebra (`static/js/Changeset.ts`) | none | apply, compose, follow, pack and unpack | everyone above |
| Pad (`node/db/Pad.ts`) | `head`, `atext`, pool, revisions in the database | `appendRevision`, chat, saved revisions, reads, copy, remove, check | database, hooks |
| Pad manager (`node/db/PadManager.ts`) | cache of pads, list of pad ids | load, unload, remove | pads, database |
| Cleanup (`node/utils/Cleanup.ts`) | none | delete old revisions, or all | pads, pad manager |
| HTTP API (`node/db/API.ts`), imports | none | append to a pad, update its clients; copy, move, delete, compact; manage groups, authors, sessions | pads, message handler |
| Authors, groups, sessions (`node/db/*Manager.ts`) | database records | create, delete, list; access decisions | API, message handler |
| Express sessions (`node/db/SessionStore.ts`) | timers per session | get, set, touch, destroy, expire | web access |
| Secret rotation (`node/security/SecretRotator.ts`) | secrets, timers, parameters in a shared database | publish, prune, derive | other servers, session cookies, identity provider |
| Updater (`node/updater/`) | state file, lock, installed tree, drain | poll, schedule, apply, cancel, execute, verify, roll back | message handler (drain), restarts |
| Plugins (`static/js/pluginfw/`) | hook tables, installer queue | run hooks, install, remove | everyone |
| History view, undo, chat, skip list (`static/js/`) | revision graph, undo stack, paging, line list | jumps, rebase, load older messages, splice | collab client |

### Why it is hard

Node runs one handler at a time, but a handler gives way at every `await`.

*Editing.* Changesets of one pad are handled one after the other through the pad's queue
(`padChannels`). Two other kinds of code append or send revisions outside this queue: the arrival of
a browser (`handleClientReady`) and API calls and imports. All three end in `updatePadClients`, which
for each socket reads the revision after the session's `rev`, waits for it, sends it and moves `rev`.
Several of these loops can run over one socket at once. A browser keeps the text as three layers:
what it knows to be stored (`base`), what it has submitted, and what the user has typed since. A
connection may break with a submission or its acknowledgment on the way. The returning browser tells
the server its revision, gets the revisions it missed, and has to find its own among them.

*Texts.* Editor, tracker and server each rebase the same edits by other calls of `follow`, and never
compare results. A different order of two insertions in one of them garbles a pad for good.

*Records.* A pad is many database records and an object in memory. Calls change the object, set
records and wait for them; others load, copy, renumber or remove the same records meanwhile.

*Updates.* The state of an update outlives the process. Polls, an administrator, a timer, background
writes and a restart all read the state file, wait, and write it back.

*Secrets.* Instances with different clocks publish, extend and delete each other's parameters.

What makes each part correct:

* The browser: `base` is always the text of revision `rev`; each own edit is shown exactly once from
  the keystroke on; `rev` never goes back; a connected browser reaches the head and gets to send.
* The message handler: a commit is accepted only when its author has been sent all earlier
  revisions; every socket of the room has a session; a second tab of an author replaces the first.
* The algebra and the tracker: all texts converge; what is typed arrives whole; no submission of a
  browser is refused.
* Pads: each revision applies to the text before it; no edit is stored twice; at any moment a pad
  passes its own `check()`; what a call was answered for outlives a crash; a copy is a snapshot.
* The updater: one run at a time; the file says what is installed; a canceled update is not
  executed; a healthy release stays verified; a broken one is left again; drains and updates end.
* Secrets: what one instance signed all accept until it expires, and then the secret goes.

## Modules

| Module | Models |
|---|---|
| `PadRevisions` | edits, changesets, texts and the stored history: what the protocol needs of the algebra |
| `SocketIO` | connections: ordered delivery per socket, loss when it breaks, a new socket per reconnection (external code, as `pad.ts` and `PadMessageHandler.ts` rely on it) |
| `CollabClient` (extends both) | collab client, changeset tracker and connection handling of each browser |
| `PadMessageHandler` (extends both) | the server's handlers, its queue, `appendRevision` and the API's writers |
| `PadCollab` (extends these two) | the composition: `Init`, `Next`, fairness, types and properties |
| `CollabLog` | the abstract pad: one history, copies that follow it, unsaved edits |
| `SteadyPad` (extends `PadCollab`) | a pad that nobody joins, returns to or writes to by API: its inductive invariant |
| `Changeset` | the algebra itself: ops, their canonical form, `applyZip`, apply, compose, follow |
| `ChangesetTracker` (extends it) | editor, tracker and server as they rebase and apply concurrent edits |
| `PadRecords` | loaded pads and database records: the pad manager, `Pad`, `Cleanup`, the calls on them, crashes |
| `Updater` | the self-updater: file, tree, process, lock, runs, drain, verification, rollback |
| `SecretRotator` | instances that rotate secrets in one database, and the consumers of the secrets |
| `MCPadCollab`, `MCChangesetTracker`, `MCPadRecords`, `MCUpdater`, `MCSecretRotator` | instances for TLC |
| `PadCollab_proofs`, `PadSafety_proofs`, `Changeset_proofs`, `ChangesetTracker_proofs` (extends it), `PadRecords_proofs`, `PadCalls_proofs`, `Updater_proofs`, `SecretRotator_proofs` | theorems and proofs |

The pad protocol (`PadCollab`) and the texts (`ChangesetTracker`) are two views of the same code:
the first leaves out positions and asks which messages are sent, in any situation; the second keeps
positions and one connection and asks what the messages do to the texts. What `PadCollab` assumes of
the algebra (a rebase keeps the edits and moves the length) the other checks (`TypedTextArrives`,
`TypeOK`).

*Mistakes.* A definition directly before the one it varies (`MaySendWhilePending` before `MaySend`)
is a plausible bug. Replacing the real definition by it must violate the property `PROJECT.json`
pairs it with. Nothing in the models uses these definitions.

### Collaborative editing: state and code

*Data.* An edit is a pair of its origin and a number. A changeset is the set of edits it inserts and
the length it was made for; a text is how often each edit occurs in it, and a length. `Follow` and
`ApplyToText` compare and move lengths as `follow` and `applyToText` do, including the assertion that
lengths match. So an equal text means equal content here; order is the subject of `ChangesetTracker`.
A user's edits are distinct, so two changesets are equal only when one is a retransmission of the
other.

*Browser.* `base`, `submitted` and `user` are the tracker's three layers. Since every change of
`base` rebases the two local changesets, their lengths always fit and only their edits are kept.
`mode` is what `pad.ts` knows about the connection: `out` (page not opened), `joining` (waiting for
CLIENT_VARS), `on`, `lost` (socket.io tries again), `gone` (disconnected for good). Each message is
one task of `serverMessageTaskQueue`, and so one action. A task that throws keeps what it assigned
before the throw: after a failed `applyChangesToBase` or `acceptCommit`, `rev` has moved and `base`
has not. `Reconnect` makes the editor usable at once, as `setChannelState('CONNECTED')` does.

*Server.* `sessioninfos` is `absent`, `empty` (`{}`: connected, or kicked) or `ready` (CLIENT_READY
was seen). `sessionRev` outlives the session, since handlers hold the session object. The variables
`task`, `arriving`, `apiCalls` and `reads` are the program counters of suspended handlers: each action
runs from one await to the next.

| Handler | Actions |
|---|---|
| `handleMessage` | `HandleMessage`: to the queue, or to `handleClientReady` |
| `handleUserChanges` | `StartUserChanges`, `Rebase` (one per revision read), `AppendChanges`, `CorrectMarkers`, `AcceptCommit`, `FlushChanges`, `FinishUserChanges` |
| `updatePadClients` | `updatePadClients` (the first read of each socket), `SendRevision` (each answer) |
| `handleClientReady` | `EnterPad` or `AbandonEntry`, then `SendMissed` (returning) or `JoinPad`, `CatchUp` (new) |
| `setText`, `appendText`, `setHTML`, `restoreRevision` | `ApiAppend`, `ApiUpdateClients` |
| `handleConnect`, `handleDisconnect` | `HandleConnect`, `HandleDisconnect` |

The awaits inside `handleMessage` before a USER_CHANGES is queued are one step with its arrival: a
browser has one USER_CHANGES under way per connection, so they cannot reorder anything of that
browser. Whether a correction of line markers follows a changeset is a free choice, as it depends on
text that is not modelled.

*Bounds.* `MaxEdits` (edits typed per browser), `MaxApi`, `MaxFix` (corrections), `MaxConn`
(connections per browser). A connection breaks only when another one is left, so that no browser is
stuck for the bound's sake. `LateReconnect` restricts the environment: browsers return only once the
server is done with what they sent on earlier sockets. Where it is FALSE they may be faster.

### Texts: state and code

`Changeset` keeps ops with their text, count and attributes, of which there is one that can be set
and removed (a style), so that all branches of `composeAttributes` and `followAttributes` matter.
`Assemble` is what the assemblers do: removals before insertions, runs merged, the final keep
dropped, inserted text cut behind its last newline. `applyZip` runs one of `slicerZipperFunc` and
`followOps` over two lists of ops. Line counts of keeps and removals, the attribute pool and the
string encoding are left out.

In `ChangesetTracker`, `doc` is the text in the editor, character by character. `Type` makes a splice
anywhere (behind the final newline too) and, as `doIncorpLineSplice` does, keeps the final newline
out of the changeset (`Adjusted`). `Prepare` is `prepareUserChangeset` with the USER_CHANGES it
sends, `applyChangesToBase` and `ReceiveAcceptCommit` are the tracker's other operations,
`handleUserChanges` is the rebase and the checks of the server in one step, which is how the pad's
queue lets other appends see it; the messages to other browsers are `down`. A submission may be lost
before the server has it, and is then composed with what was typed since. Left out: `insertorder`
and author attributes and the checks on them, loss after the server has the submission (that is
`PadCollab`), recognition of retransmissions.

*Bounds.* `MaxEdits` per author, `MaxLosses`.

### Pads and records: state and code

A text is the sequence of its edits, a changeset the edits it adds, so a text that lacks, repeats or
reorders a revision differs. `view` is what a read returns, `disk` what outlives a crash: reads see
what was last set, a write is resolved once it is on disk, and keys reach the disk in any order
(`Flush`); `Crash` loses the rest and all objects. This is how the code uses ueberdb, whose own code
is external.

A task is a call on the server. Its `pc` moves from await to await; `awaits` are the keys whose
writes it waits for. An action sets all records that the code sets before it gives way.

| Code | Actions |
|---|---|
| `PadManager.getPad`, `Pad.init` | `getPad`, `init`, `cachePad` (absent from the cache, loaded over awaits, then cached) |
| `appendRevision`, `appendChatMessage`, `addSavedRevision` | `AppendEdit`, `appendChatMessage`, `addSavedRevision`, each up to `Written` |
| `Pad.remove`, `PadManager.removePad` | `remove` |
| `copy`, `movePad` | `SaveSource`, `removePadIfForceIsTrueAndAlreadyExist`, `ReadRecords`, on long pads `ReadMessages`, `copyRecord`, `RecordsCopied`, `getPad` again, `Copied` |
| `copyPadWithoutHistory` | `SaveSource`, the removal, `getPad` again, `AppendSnapshot` |
| `deleteAllRevisions` | the same twice (`collapse`, then `recreate`), then `remove` |
| `deleteRevisions` | `LoadRevisions`, `DeleteRevisions`, `RewriteRecord`, `RewriteRevisions`, `Unload`, `Reloaded` |

An object is a number that `mem` maps to the pad it holds; a number is used again once nobody refers
to its object. `Composed` is the text that the revisions up to one make, `check` is `Pad.check()`.
`kept` is what calls have been answered for. `forgone` is what of it the code itself gives up, by
compacting a whole history. `Overlaps` says which calls may run together with others on the same pad;
see "What goes wrong" below.

A copy reads its records through `Stream.batch(100).buffer(99)`: the pad's record and the revisions come
first, the messages last, and a second batch is read only after the first record has been written. The
generator asks for `chatHead` when the messages' turn comes. A pad whose record and revisions fit into
less than a batch is read at once (`ReadRecords`, with the messages); on a longer one the messages are
counted and read later (`ReadMessages`; `CopyBatch` is the 100). `stray` is the messages so read that the
copied record, written before, does not count. The other records of later batches cannot have changed:
a revision or message is never written twice, unless the pad itself is rewritten.

*Bounds.* `MaxCalls`, `MaxHead` (revisions of a pad), `MaxCrashes`; `KeyInterval` and `CopyBatch` are 100
in the code. Batches of 500 deletions are one.

### Updater: state and code

`file` is `var/update-state.json` reduced to the status of the execution, its target tag, the sha to
return to, the boot counter and the latest release; `mem` is `inMemoryState`. `tree` is the release
checked out, the one whose packages are installed (0 when half installed) and the one whose pages are
built. `proc` is the process. A release is a number; `Broken` ones never become healthy and crash.
`runs` has the calls of `applyUpdate` that the administrator (`admin`) and the scheduler (`timer`)
have started, with the state each holds in its variables, and whether a cancel was accepted after it was
started and before it had recorded that it executes (`canceled`, which the program does not keep). `lock` is
the lock file: absent, naming a live process (`held`) or a dead one (`stale`), or created by a run that has not
written it yet. `CancelSituation` and `DeathSituation` name the moments at which an administrator may
click and a kill may fall; the constants `Cancels` and `Deaths` choose among them, `LockRaces` whether two
runs may be about the lock at the same time, and `StalePolls` whether a poll may save a memory that differs
from the file.

| Code | Actions |
|---|---|
| `expressCreateServer`, `checkPendingVerification` | `Boot`, `expressCreateServer`, `BackgroundWrite` (writes nobody awaits) |
| `markBootHealthy`, the health timer | `markBootHealthy`, `HealthTimeout` |
| `performRollback` | `RollbackCheckout`, `RollbackInstall`, `RollbackDone`, `RollbackFails` |
| `performCheck`, `decideSchedule`, `schedulerTriggerApply` | `performCheck`, `TimerFires` |
| the administrator's handlers | `Apply`, `Cancel`, `CancelSaves`, `Acknowledge`; `Repair` by hand |
| `applyUpdate` | `Load`, then `acquireLock` (`CreateLock`, `WriteLock`, `ReadLock`, `ReapLock`), `SavePreflight`, `PreflightFails`, `PreflightPasses`, `SaveDraining`, `StartDrain`, `DrainEnds`, `DrainCanceled`, `AfterFailure` |
| `executeUpdate` | `SaveExecuting`, `ExecutorThrows`, `Fetch`, `Checkout`, `Install`, `Build`, `Finish` |
| outside | `Kill`, `Crash` |

Assumptions: no e-mail address is configured; the maintenance window only delays the timer; saving
the file in a rollback does not fail; reading and writing the file in `TimerFires` and `Acknowledge`,
and the last save and exit of `executeUpdate`, are one step; an administrator acknowledges a failed
rollback only after repairing the installation.

*Bounds.* `MaxVersion`, `MaxKills`.

### Secret rotation: state and code

A secret is the parameters (an id) and the interval it is derived for; derivation is a function, so
no more is needed to tell secrets apart. `update[i]` holds the variables of an `_update` that is
suspended: `find` (before `findKeys` answers), `read` (one `ReadParams` per record, in any order;
`ReadThrows` when a record is gone), `derive` (`Publish` has set the records), `await` (`Activate` has
replaced the secrets). `writes` are on their way to the database. `Clock(i)` is `now + Skew[i]`; time
stands still while an instance must act and is late by `Slack` already. The consumer either holds the
array (`Live`, the identity provider) or the first secret as it was at the start (express sessions).
`used` is what was signed, and when last: an instance that is up signs at every moment.

Until rotation is switched on, express signs with `settings.sessionKey` itself, which is the rotator's static
secret: it is among what was `used` before the first start if the consumer is that of express (`Live = FALSE`).
The identity provider signs with a hash of a label and the key (`OidcProviderSecurity.ts:58-63`), while its
rotator is given the key as it is (`OAuth2Provider.ts:119-120`). What it signed before is no secret of
any instance, and is refused from the first start on: with `Live = TRUE` nothing was signed before, which leaves
those cookies out of `SignedIsAccepted`. It still publishes and drops the static secret.

Assumptions: skew and slack together are less than an interval, as the settings ask for; all
instances have one interval and lifetime, and the interval may change while none is running; no write fails.

*Bounds.* `MaxTime`, `MaxStarts`, from moment `Epoch`.

## Runs

The runs on editing have two browsers: enough for one to overtake, miss, or be mistaken for the
other. Two edits per writer let one be submitted while the next is typed; two API calls let two
flushes overlap; two connections are one loss and one return.

| Run | Situation | Shows |
|---|---|---|
| `steady` | both browsers joined and write 2 edits each, 1 correction | types; commits in order; no `badChangeset`; the invariant `LosslessInv`; everything typed reaches everyone; `CollabLog` is implemented |
| `api_readers` | 2 API calls, two readers, one of which may lose its connection | a browser that only reads shows the pad's text, however flushes overlap, and no reader is left behind |
| `join` | a browser joins and writes while another writes | the text it was sent and the revisions that follow fit together |
| `unreliable` | a writer returns at any time, twice | what the server stores and reads stays sound, no ghost and no former socket of the author in the room, no browser goes back, whatever arrives late |
| `recovery` | a writer and a reader return late | the missed revisions are replayed onto the text they belong to, and nothing is lost or stored twice; the abstract log is implemented |
| `convergence` | two authors, 2 and 1 edits of any kind at any place of a one-line text, 1 loss | editor, tracker and server agree on one text; nothing typed is dropped, reordered or refused |
| `records` | two tasks, two pads, 3 calls of all ten kinds, 3 revisions, a key revision every second, batches of 3 records, messages posted while they are copied, 1 crash | pads pass their check, cache and record agree, nothing is left of removed pads but such messages, acknowledged edits outlive the crash, copies are snapshots |
| `updater` | 3 releases, the second broken, tier `auto`, cancels of schedule, preflight and drain, 1 kill | one run at a time, the file tells the truth, what is canceled is not executed, a broken release is left, drains and updates end |
| `rotation` | two instances, one clock ahead by one, timers late by one, interval 4, lifetime 6, 3 starts, times 7 to 21 | what is signed is accepted everywhere until it expires; secrets go |

Why the bounds are enough. `convergence`: divergence needs an edit of each author that crosses, and a
second one that rebases over the first; a line, a break in it and the final newline are all the
places `follow` tells apart. `records`: each hazard is one call between two steps of another; the
third call observes or destroys what they left, and three revisions with a key revision every second
cover key and other revisions, kept and deleted ones. `updater`: a third release is what a stale poll
or schedule confuses with the second; four boots of a broken release are reached, as crashes are not
counted in `MaxKills`. `rotation`: three
boundaries are passed, with times in which nothing runs, and the end comes late enough for parameters to
be extended, superseded and deleted, the static secret to be dropped, and for an instance to throw because
another has deleted what it was about to read. A lifetime longer than the interval makes an instance hold
several secrets of one set of parameters. The second interval, and a fourth start, lead to what "What goes
wrong" describes.

Deadlock is not checked: users, callers and administrators stop, and the systems may then rest. That
no handler is stuck is what the liveness properties say.

The following runs find behaviour that contradicts what comments and docs say of the code; `findings`
in `PROJECT.json` quotes them.

| Run | Violated | What happens |
|---|---|---|
| `cancel_ignored` | `CanceledStaysCanceled` | the administrator cancels the drain of an update that the scheduler started; the handler knows only the drainer of the administrator's own runs, writes `idle` and answers that it is canceled, and the update goes on |
| `verified_again` | `HealthyIsVerified` | a release is installed, boots, becomes healthy, and `verified` is written; the poll 5 s after the start saves what the process has remembered since before, and the file says `pending-verification` again: Apply is refused as busy, nothing is scheduled, and the next start verifies once more |
| `first_secret` | `SignedIsAccepted` | the session middleware is given one secret, not the array: keys are never rotated while the server runs, and old ones never checked. In the trace a cookie signed with the static secret is refused as soon as the first start with rotation is over; a restart in a later interval does the same |

## What goes wrong outside the runs

Each passing run names a situation. These constants lead out of it, to behaviour that breaks the
named property; the counterexamples are found in seconds to minutes by changing the `.cfg` as said.

*Editing.*

* From `steady`, `Flaky = {c1}` and `MaxConn = 2` (or `Joined = {c1}`, or `MaxApi = 1`):
  `CommitsInOrder`. The session of a returning browser is at its own revision until the next flush,
  and the first commit fails the assertion `assert.equal(thisSession.rev, r)`
  (`PadMessageHandler.ts:1018`).
* `recovery` with `LateReconnect = FALSE`: a submission is stored twice, when it is sent again with
  later typing while the first transmission is queued (`StoredAtMostOnce`); a flush sends a returning
  browser its own revision (`OwnEditsShownOnce`); and a browser stays pending for ever when the head
  moves while missed revisions are read.
* `recovery` with `AuthorOf <- SameAuthor`, or `MaxFix = 1`: a missed revision of the same user's other
  window, or a correction in the user's name, is taken for the own one (`BaseMatchesRevision`).
* `join` with `MaxApi = 1`, or with a third browser that arrives meanwhile: a flush sends a writer its own
  revision as NEW_CHANGES before it is told ACCEPT_COMMIT (`BaseMatchesRevision`). With one newcomer and
  no API call nobody else flushes the writer's socket.
* `join` with `AuthorOf <- SameAuthor` and `Joined = {}`: two tabs that arrive together do not see each other
  (`OneTabPerAuthor`). The condition `TabsTakeTurns` of the theorem excludes this; a returning browser, as
  in `unreliable`, meets it.

What remains true in *every* situation is proved for every situation: `TypeOK`,
`PendingRevisionsExist`, `HistoryApplies`, `RoomSocketsHaveSessions`, `RevNeverGoesBack` and
`ReadersShowPad`.

*Records.* `Overlaps` is `{"chat"}` in the run.

* With `"load"`, two first loads of a pad get an object each and both append the same revision number
  (`CheckPasses`, `CacheMatches`). With `"compact"`, an edit made meanwhile is written under its old number or
  lost (the code says `TODO: Handle concurrency`); with `"remove"`, a call that holds the object writes
  records of a pad that is gone; with `"copy"`, calls on the destination mix with the copied records. Each
  violates `CheckPasses` and `AcknowledgedKept`, most also `CacheMatches` and `CopyIsSnapshot`.
* A message posted while a pad whose head is 98 or more is copied is copied past the `chatHead` that was
  copied before (`Pad.ts:663-673`), and stays in the database when the copy is removed. `NothingLeftBehind`
  excepts exactly these messages: without `\ stray` the run violates it. The other properties hold over them.
* `compactPad` without `keepRevisions` (mode `all`) makes the pad anew from a copy that
  `copyPadWithoutHistory` has made, which copies no messages, so the pad's chat is lost; `API.ts:721-722` says
  "Pad text and chat history are preserved in both modes." That call does not await the revision with
  the text either, so a crash after the removal of the old records can take the text, too.
  `AcknowledgedKept` therefore leaves out what a pad held when its whole history was compacted:
  without `\ forgone[p]` the run violates it, without any crash. What is acknowledged after that is kept.
* A snapshot's text is not among what `AcknowledgedKept` promises, for the same missing await. A crash while
  `deleteRevisions` rewrites a pad loses its history, so the model has no crash there.
* `KeepRevisions = 0`, which `compactPad` accepts although its comment says "positive integer", passes the run
  like any other number.

*Updater.*

* `StalePolls = TRUE` is the common case, not a rare one: `performCheck` saves the state remembered since
  the start over what was written since. After every successful update the poll 5 s after the boot puts
  `pending-verification` back (`verified_again`; `UpdateEnds` is violated, too), and a poll during a run may
  undo a cancel (`CanceledStaysCanceled`). The passing run lets a poll save only while memory and file
  agree: it shows what the rest of the updater does when polls do not interfere.
* `LockRaces = TRUE`: both runs are about the lock at the same time. `acquireLock` creates an empty file and
  writes the process id after an await; the other run cannot parse the empty file, takes it for stale and
  unlinks it, and both go on; after a kill, two runs can each unlink the stale file, the slower one
  the file that the faster has created (`OneRunHoldsTheLock`, `CanceledStaysCanceled`). Any other overlap
  of two runs is in the passing run.
* `Cancels` with `"starting"`: a cancel of the schedule that is accepted while the timer's run loads the
  state or takes the lock writes `idle`, the run's save of `preflight` overwrites it, and the canceled update
  is executed. With `"handover"`, a cancel between the making of the drainer and `start()` leaves the gate
  closed and the lock held (`GateOpensAgain`), and one between the end of the drain and the next save is
  overwritten. With `"timer"`, see `cancel_ignored`. With `"overlap"`, the cancel handler's write, which comes an
  await after its read, crosses those of a run. Each alone violates `CanceledStaysCanceled`.
* `Deaths` with `"execute"` or `"rollback"`: the file keeps that status, which no start, poll or click
  leads out of (`UpdateEnds`); and a server that becomes healthy after its health timer has fired writes
  `verified` over the rollback, which stands if the process is then killed within it (`TreeMatchesState`).
  With `"early"`, a release that crashes before the updater's hook runs never counts its boots and is
  never rolled back (`BrokenReleaseIsLeft`).
* `Broken = {}`: such a server, with `verified` in the file, lets an update start while it still rolls
  back; both change the tree, and in the end it need not be what the file says (`TreeMatchesState`). It takes a
  release that becomes healthy in the end, so the run, where the second release never does, has no such
  state.
* Not expressed by a property: a rollback does not rebuild the pages; `types.ts:58` and
  `doc/admin/updates.md` permit a manual apply after a failed rollback, which `AllowedEntry` refuses;
  a new process may have the number of the lock's dead owner.

*Secrets.* `RacingStarts = TRUE` (an update overlaps the first one of another instance):
`SignedIsAccepted`. Two instances that start together each make parameters (a TODO of the code says
so); and a slow first update can write the record back with an earlier `end`, after which an instance that starts
at the next boundary makes parameters that the others do not know. Without racing starts,
`Intervals = {3, 4}` with `Lifetime = 2`, `Epoch = 6`, `MaxTime = 11` and `MaxStarts = 4` (two minutes): after a
change of the interval, the parameters of the old one still make updates fall at its boundaries
(`next = Math.min(next, t1)`), so updates of two instances with skewed clocks overlap across a boundary of the
new one. Both read, extend and write the parameters in force; the slower one writes the earlier
`end` over the later. When that instance then stops, the other finds the parameters ended, makes new
ones, and signs with them before they are published: if it stops then, nobody accepts what it signed.
So the property is one of a constant
interval, in the run as in the theorem. With one interval and no racing starts, `Slack` must be under half of it. Beyond that, an instance
whose first answers take 2 of 3 minutes, and whose timer is then late by 2 more, updates only after its
parameters have ended; one that starts before it does so makes new parameters, and signs with secrets
that the first does not know.

## Fairness

*Editing.* `FairSpec` assumes weak fairness of each suspended handler (database reads return, and
Node's event loop runs their continuations), of each socket's messages, of each browser's own steps
(its timers and its task queue run while the page is open), and of reconnecting after a loss
(socket.io's timer). Nothing is assumed of users, of connections breaking, of `slowcommit`, of giving
up, or of API callers. Weak fairness is enough because each of these steps, once possible, stays
possible until taken or until the connection goes.

*Texts.* Submissions are made when they may be, and arrive or are lost; messages are handled. The
conditions name the one variable that these steps change, which says the same and is cheaper.

*Updater.* The supervisor restarts the process, handlers and child processes come to an end, writes
are written, timers fire. Nobody has to poll, apply, cancel, acknowledge or repair.

*Records, secrets.* Only safety is checked, and no fairness assumed.

## Refinement

`Log` in `PadCollab` maps the state to `CollabLog`: the history is the edits of the stored
revisions, a user's copy is `base` at `rev`, and unsaved edits are those of `submitted` and `user`. So
`ImplementsLog` says: all of the server's sessions, queues and flushes add up to one history, which
each user sees in order without a gap, each own edit leaving the unsaved ones in the very step in
which it appears in the copy, and no edit being saved twice.

## Proofs

The theorems hold for all values of the constants that satisfy the assumptions in the modules that
declare them. TLC evaluates these assumptions in each run.

* `TypeCorrect`, `ReadsInRange` (`PadCollab_proofs`): `TypeOK` and `PendingRevisionsExist` for `Spec`,
  for any number of clients, authors, connections, edits, corrections and API calls. Neither is
  inductive alone: `SendRevision` and `SendMissed` index `revisions` by what a suspended handler
  remembers, so the type of what they send needs that revision to exist; and that it exists needs
  `revisions` only to grow and the remembered numbers to be numbers. Their conjunction `TypeInv` is
  inductive. The proof has a lemma per action, or per group of actions of one component.
* `RoomHasSessions` (`PadCollab_proofs`): `RoomSocketsHaveSessions` for `Spec`. The room and the
  sessions are changed by different handlers, some of which resume long after they last looked; the
  inductive invariant `SessionInv` says that each socket sends one `CLIENT_READY`, before all else, and
  that the room does not have it until it has entered, so a kick never hits a session that is about
  to join.
* `HistoryAlwaysApplies` (`PadSafety_proofs`): `HistoryApplies` for `Spec`. Only three actions append;
  each tests or takes the length of the head text without giving way in between.
* `RevisionsMoveForward` (`PadCollab_proofs`): `RevNeverGoesBack` for `Spec`. A browser tests the
  number of each revision it is sent, but takes that of CLIENT_VARS untested, over whatever it has. So
  it has to have nothing: `GreetingInv` says that a socket of a browser without a collab client is
  told nothing before CLIENT_VARS, since what could be told it (a flush, an answer to a submission)
  needs a socket of the room, and its only way there sends CLIENT_VARS first.
* `OneTabAtATime` (`PadCollab_proofs`): `OneTabPerAuthor` for `Spec`, if tabs of one author take
  turns (`TabsTakeTurns`: a tab outside the room is not to be overtaken by another of its author, and
  does not return; those who have joined already may return, as in `unreliable`). The kick and the joining are steps of one handler
  with reads between them; `JoinsAlone` says that no tab of the author enters the room in between.
* `ReadersSeeThePad` (`PadSafety_proofs`): `ReadersShowPad` for `Spec`, in every situation, those in
  which `BaseMatchesRevision` is broken included. The invariant `ReaderInv` needs two things of the
  state: whatever is on its way to a browser still holds what the pad holds (`MessagesTrue`; it
  remains so because what is stored does not change), and nobody else submits (`OnlyWritersSend`). A browser
  goes wrong only where it takes a revision for its own, which it does by the author's name: so the browsers
  meant are those whose author writes nowhere, and is not the one corrections are made for.
* `SteadyCommitsInOrder` (`PadSafety_proofs`): if everyone has joined, nobody can return and there is
  no API call (`Steady`), the assertion of `handleUserChanges` never fails. The inductive invariant is
  `TypeInv /\ SteadyInv`: between two changesets every session of the room is at the head, and while
  the queue's task flushes, each session that is behind has a read under way which is for exactly its
  next revision. The awaited flush at the end of `handleUserChanges` is what re-establishes it. Each
  condition of `Steady` is needed (above).
* `PadIsLossless`, `PadImplementsLog` (`PadSafety_proofs`): for `Steady`, too, `LosslessInv` and the
  refinement `ImplementsLog`, step by step, and from them `BrowsersShowTheirRevision`, `OwnEditsSeenOnce`,
  `NoEditStoredTwice` and `NobodyToldBadChangeset`. `LosslessInv` adds to `SteadyInv` where everything is:
  each edit typed is in a revision the browser has seen, or submitted, or waiting
  (`OwnEditsInOnePlace`); what is submitted is in one of the connection, the queue and the task, fits
  the revision it is based on, and is not stored yet, or it is all of one revision the browser has
  not seen (`OneSubmissionEach`); a session's messages are the revisions between its browser's and its
  own (`DeliveredInOrder`), which is where `SteadyInv` is needed: the author's own revision must go to it
  as ACCEPT_COMMIT, and would go as NEW_CHANGES if a flush overtook the acceptance. Each of the lemmas
  before `LosslessSteps` says what one action does in such a pad; after it there is one lemma per part
  of the invariant and kind of step. The other runs that check these properties (`join`, `recovery`)
  leave `Steady`: there they rest on TLC.
* `RecordsTyped`, `CacheMatchesStored`, `PadPassesCheck`, `NothingIsLeft` (`PadRecords_proofs`): `TypeOK`,
  `CacheMatches`, `CheckPasses` and `NothingLeftBehind` for `Spec`, for any tasks, pads, calls, crashes,
  revisions and interval of key revisions, if calls that need a pad for themselves have it
  (`TakeTurns`: none of the overlaps `"load"`, `"remove"`, `"compact"` and `"copy"`, each of which breaks these
  properties, above; and messages posted during a copy if pads are no longer than a batch, `MaxHead + 2 <
  CopyBatch`, that is heads up to 97 in the code). The run shows what remains true of longer ones. For these
  pads `NothingIsLeft` proves more than `NothingLeftBehind`: `NothingAtAll`, which excepts no message.
  Three invariants build on each other. `TypeInv` also bounds the messages of a pad by the
  calls made. `HandsInv` says what a task may rely on when it resumes: the object it holds is the
  cached one, a destination it has cleared is still absent from cache and database, what it loads is
  known to nobody else, and what it is about to write are records of its own pad. `Footprint` is the
  frame of any step: it leaves alone the pads others have for themselves. `RecordsInv` is about content:
  until a crash, the records of a pad nobody has half written are exactly those of its head and text
  (`Exact`: no revision too many, none missing), and what is half written will be so
  when what the task still holds is written, too (`Planned` for a copy, `Compacted` for deleteRevisions). So each
  write of a copy or compaction leaves what it will have made as it is, and its last one makes it
  true. A crash takes `RecordsInv` away for good (a key that got lost leaves a pad that fails its check, as
  in the code), the others stay.
* `CopiesAreSnapshots` (`PadCalls_proofs`): `CopyIsSnapshot` for `Spec`, if `TakeTurns`, with crashes. The
  text a copy takes up (`from`) is long past when it is done, so `SourceInv` carries it along: what is being
  read, what is still to be written (`Planned`) and what is loaded again of the destination goes on from
  it, and the source goes on from that (`Between`). It rests on `TextsGrow`: whoever has a pad loaded only
  adds to its text.
* `AnswersOutliveCrashes` (`PadCalls_proofs`): `AcknowledgedKept` for `Spec`, if `TakeTurns`, with crashes. It is
  about what is promised and not given up (`Promised`: `kept` without `forgone`); compacting a whole history
  gives up what the pad held, as the code loses it there (above).
  Records reach the disk one by one in any order, so `KeptInv` says for each edit or message a call was
  answered for which two records keep it (`Safe`: the pad's and the revision's or message's), that these
  are on the disk, or in what a call under way still awaits (`EditSafe`, before its answer) or is yet to
  write (`PlanSafe`, for a compaction, whose first revision is to hold what the deleted ones held). That
  takes three facts about the disk: what is not there yet is awaited by somebody, or of a pad that
  exists, so that its removal will await it (`NothingForgotten`); what a copy has cleared and written is
  there or awaited (`CopyAwaited`, with `CopiedKept` for what it has answered); and a compaction's
  deletions are down before it goes on (`DeletedAwaited`). `NothingForgotten` is there for writes nobody
  awaits (`SaveSource` for a snapshot, `AppendSnapshot`): they must not come up after a pad has
  been replaced. `Onward` is what any other step does to a pad's records.
* `UpdaterTypeCorrect`, `OneUpdateAtATime` (`Updater_proofs`): `TypeOK` and `OneRunHoldsTheLock` for
  `Spec`, for any number of releases, whichever are broken, every tier, and all the situations of
  cancels, kills and stale polls, those the run leaves out included. The first holds with lock races, too; the
  second assumes that there are none (`~LockRaces`), since the code's lock does not stand them. What is left to
  prove is that each end of a run, and no other, gives up the lock, and that a stale lock is only
  reaped when no run of this process has one. The inductive
  invariant `IInv` adds `SourcesKnown`: a rollback or a health timer knows a release to return to,
  and a run the release to install. Without it a checkout could leave the tree at release 0. It holds
  because `loadState` resets a file whose status needs a sha it lacks.
* `FileIsReliable`, `CancelIsFinal` (`Updater_proofs`): `CanceledStaysCanceled` for `Spec`, with any broken
  releases and deaths in all situations, late and early ones included, as long as polls do not write over
  what is newer, runs do not race for the lock, and cancels fall into the schedule, preflight or the drain of
  the administrator's run (`Orderly`; each part is needed, above). The property is not about one write of
  the file but about a run: once a cancel is accepted it stays marked, through whatever it reads and saves
  later, and must not come to execute. The invariant `StatusInv` says what each party may rely on:
  what the file says at each stage of a run (`RunStatus`), that a boot is verified while nothing else is
  under way and its unawaited writes agree with the file and with each other (`Verification`), and that
  an accepted cancel finds the run where it was (`CancelWaits`).
* `TreeIsWhatTheFileSays` (`Updater_proofs`): `TreeMatchesState` for `Spec`, if `Orderly`, if the
  process does not die within a rollback, and for executions in which no update is applied while a
  rollback is under way (`UpdatesWait`; above). `TreeInv` follows the tree through
  the commands of a run and of a rollback: whole until the packages are installed, the target's from the
  checkout on, and never torn without the file saying `rolling-back` and to what. A death while an
  update executes leaves a torn tree, and a file that says so.
* `RotatorTypeCorrect`, `OldSecretsAreDropped` (`SecretRotator_proofs`): `TypeOK` and `OldSecretsGo` for
  `Spec`, for any instances, intervals, lifetimes, clocks and delays with `Skew[i] + Slack` less than an
  interval, and with racing starts, which the run leaves out. Types refer to the ids made up so far,
  so each step must show that these only grow; and `Publish` must leave an update with parameters that
  are in force. `OldSecretsGo` is not inductive: an update computes when the next one is due from the
  parameters it reads, long before it replaces the secrets and later still sets the timer. `Timely`
  follows that promise through the update: what it plans is within an interval of every parameter it
  has seen, hence of every secret it then derives, and it ends before the interval does.
* `SignedSecretsAccepted` (`SecretRotator_proofs`): `SignedIsAccepted` for `Spec`, for any number of
  instances, starts and stops, any lifetime and times in which nothing runs, if `Punctual`: the consumer
  holds the array, there is one interval, no update runs beside the first one of another instance, and
  `Skew[i] + 2 * Slack` is less than the interval (all four needed, above). The `rotation` run is an
  instance of it with three starts; the theorem has no bound on time and starts.
  The invariant `AInv` says of the database that the parameters of different ids follow each other
  without overlap (`InOrder`), and of each instance (`Local`) that its update has read all that may
  still be of use (`Gathered`), has chosen the latest parameters or knows that nobody signs with any
  (`Chosen`), writes and deletes nothing that others rely on (`Pending`), and that it signs with the
  latest parameters for an interval they cover, holding the secrets of that interval's neighbours
  (`Uses`, `OnTime`). Clocks in step (`InStep`) put what two instances sign for at most one interval
  apart. `Known` relates a secret in `used` to its parameters: they stay in the database until an
  interval and a lifetime after their end, when nothing signed with them is valid (`KnownStays`), so the
  next update derives it again (`ActivateAccepts`). The slower of two updates that extend the same
  parameters is the delicate case: both are in one interval, or the later one has not begun (`Abreast`).
* `OfficialTextsAgree` (`ChangesetTracker_proofs`): `BaseIsRevision` for `Spec`, with no assumption. A
  browser never learns what the server made of its submission: ACCEPT_COMMIT names a revision only, and
  the browser composes its own `submitted` into its official text. That this is the revision stored needs
  the invariant `TrackerInv`: what is on its way takes the browser through every revision, in order
  (`BroughtUpToDate`); at most one submission is under way (`OneUnderWay`); what the browser holds is what
  it sent, rebased over the revisions it has since applied (`HeldAsSent`, which a rebase over some
  of them and then over the rest makes the same as the server's, `RebasedTwice`); and once it is stored,
  rebasing the rest of the way gives the text of the revision acknowledged (`HeldAsAccepted`, also where
  the submission was dropped for changing nothing and the revision acknowledged is an older one). This part
  needs no law of the algebra, only that both sides call `follow` on the same arguments.
* `FollowMeets`, `ComposeMakes`, `ApplyMakes` (`Changeset_proofs`): the laws of the algebra, for texts and
  changesets of any length. The meaning of a list of ops is a machine that reads a text and writes another
  (`Act`, run over the list: `FitsOn` says that it does not get stuck, `Makes` what it writes). A text is a
  body and its final newline (`Whole`), and a changeset fits a body (`Fit`) if it is canonical, has its
  length and does not reach into that newline. The argument has three layers. The assemblers do not
  change what a list makes: a removal may go before insertions, equal neighbours may be one op, the final keep may go, a run may be
  written in two (`Reorder`, `Merge`, the trimming and the cutting behind the last newline), and what
  they write they leave alone when they read it again, which is what "canonical" asks for. `applyZip`
  makes progress and keeps an invariant on what is left of the two lists. For the merge law both zips, of (c1, c2)
  and of (c2, c1), are followed at once: what one has written, on the text of the other, is at each
  point the same text, because both take the same prefix of a run and give way to the same insertion
  (`InsertsFirst`). Each is an induction over the steps of a list or a zip, made by a least counterexample.
* `TextsAndChangesetsFit`, `EditorShowsLayers`, `SubmissionsAreTaken`, `SubmittedTextArrives`
  (`ChangesetTracker_proofs`): `TypeOK`, `DocIsLayers`, `NeverRejected` and `TypedTextArrives` for `Spec`, with no
  assumption but that a pad's first text ends in a newline (`Pad.init` inserts the text before the newline
  that a pad is made with). The inductive invariant is `TrackerInv /\ TextsInv`: each revision fits the text before it (`HistoryOk`); what is
  submitted fits the official text, what is typed fits what that makes, and both together make what the
  editor shows (`LayersOk`); what is on its way to the server fits the revision it is based on
  (`WireOk`). It is `Fit` that is carried, not only lengths: a changeset of the right length that removed the final newline would be
  refused after a rebase. That edits have it is where the editor's adjustment at the end of the text
  (`Adjusted`) is needed (`TypeFits`); `FollowMeets` then carries the layers over each NEW_CHANGES and a
  submission over the revisions it missed (`RebasedFits`). The runs' properties follow; that typed text
  arrives takes one more fact of `follow`, that it neither drops nor reorders insertions (`RebasedInserts`).
  `SettledTextsAgree` is the safe half of `Converges`: a browser with nothing to submit and nothing under
  way shows the pad's text. That all browsers come to that is left to TLC.

Only model-checked: `BaseMatchesRevision`, `OwnEditsShownOnce`, `StoredAtMostOnce` and `ImplementsLog`
with browsers that join or return, the records of pads longer than a batch while messages are posted,
and all liveness (`Converges` among it: that texts agree in the end), which the prover does not handle. Where a proof needs an
induction (the text that the revisions of a pad make, `FlattensAlike` and `ComposedHas`; what
a rebase and a text are, `CarryExists` and `CarryAlike`), it is by a
least counterexample (`SeqInduction` and its like in `Changeset_proofs`), as the library's induction
theorems take an operator, which the provers cannot instantiate. `Changeset` is written with recursive
functions over ops for that reason.

## Not modelled

* More than one pad in the editing protocol; the session's pad does not change.
* Restarts of the server in the editing protocol. Pads and records have them (`PadRecords`); what
  browsers then do is the returning case with a fresh server. The composition of the two, with a pad
  that is compacted or removed while a browser is away, is planned.
* Failing database calls; group, author and read-only records of a pad; the list of pad names.
* The wait of NEW_CHANGES for the end of a character composition: tasks stay in order, so it is a
  slow delivery here, but ends of compositions are not events of the model.
* Paging of chat, user info, options, the history view, undo, hooks and the installer, sessions and
  groups, express sessions, access decisions: planned, below.
* Request routing, file conversion, settings, page assets, the user interface, vendored libraries and
  the command line tools: input and output, or configuration, without state of their own that several
  actors share. They are most of the source's lines.

## Plan

1. Extend `LosslessInv` to browsers that join.
2. Compose `PadRecords` and `PadCollab`: a server that restarts, and browsers that come back to a pad
   that was compacted, replaced or removed.
3. `GroupSessions` (sessions, groups, authors and access decisions) and `SessionStore` (timers, and the
   cleanup that reads expiry dates which `touch` has outdated).
4. Browser algorithms: undo, the history view's jumps, chat paging, hook order, the skip list.
