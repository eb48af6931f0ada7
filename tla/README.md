# Verification of amplifier-bundle-teamwork

TLA+ specifications of the Teamwork hook of `amplifier-bundle-teamwork`, TLC
configurations that check them on small instances, and TLAPS proofs of their
main theorems. Paths and line numbers refer to the repository;
`__init__.py` is `modules/hooks-teamwork/amplifier_module_hooks_teamwork/__init__.py`.

## The system

The hook is mounted in an agent session (the *harness*). It shares the visible
turns of that session with a *project* of a Teamwork service over HTTP, brings
the project's records into the agent's context before each prompt, and sends a
*receipt* for what the harness accepted. It may run in one process or in
several; one SQLite file per credential survives them.

| Component | State | Operations | Interacts with | Hard behaviour | What makes it correct |
| --- | --- | --- | --- | --- | --- |
| Journal and outbox (`Journal`, `replay_pending.py`) | `state`, `outbox` tables | `load`, `save`, `flush`, replay | all handlers; the service | overlapping flush threads and processes, death between send and delete, lost and late requests | each row applied once, in order, never dropped, never refused for its version |
| Turn lifecycle (`on_start`, `on_submit`, `finish`, `on_complete`, `cleanup`) | `self.state["turn"]`, `entered`, `_session_ended`, `_shutdown_binding` | one handler each, under `self.lock` | journal, harness context, rebind | crash between two saves, unknown acceptance, rebind at an await, failing save | receipts only for observed acceptance; each turn published once, whole, to its own session; the session's end last |
| Binding (`rebind`) | `sid`, `client`, `connection`, `state` | change of project, not under `self.lock` | everything that awaits | every `await` of every handler and tool | nothing of one project reaches another |
| Cards (`register_agent`, `report_presence`, `_publish_card`) | versions, statuses, in-flight set, under `_card_lock` | two sends in threads | service, rebind | late answers, one rebase after a conflict, A→B→A rebinding | versions monotone; an old binding's answer changes no status |
| Context reads, waits, live arrivals (`retrieve`, `declare_wait`, `await_answer`, `note_answer`, `live_watch`, `deliver_live`) | `cursor`, `cache`, `_wait`, `waiting_on`, `seen`, `_live_submissions` | page, ask, poll, time out, submit, stop | journal, service, live host | partial pages, retired cursors, cancelled polls, time-outs that may still succeed | an answer ends its own wait only; the cache is true; no arrival is lost |
| Filing (`file_reports`, `mirror`, `Queue`) | `filed`, `mirrored`, `mirror_attempts` | file, read back, mirror | local tracker, service | crash between file and save, unknown outcomes, a cancelled handler's thread beside the next one, rebind beside a thread | no blind retry, right queue, everything filed in the end |
| Queue names (`queue_name.py`) | registry file | `normalise`, `bind` | several processes | unlocked read-modify-write | one owner per name |
| Detection (`detect_*`, `_record_verdict`, `Recorder`, `RecordInsightTool`) | windows, watermarks, fingerprints, deliberate marks | capture, judge, record | journal, tasks, shutdown | tasks outliving consent, cancellation with a request on its way | one publication per claim, a turn examined once |
| Work tools (`WorkTools`, `AskTool`, `SendTool`, `PublishWorkTool`) | what a call has pinned and read | tasks, write, ask, send, publish | service, rebind, people | paged reads, rebind between read and write, lost answers | effect in the project and on the version decided for; no guess; honest reports |
| Enrollment (`teamwork_connect`, `setup_teamwork.py`) | connection file | mint, verify, save, revoke | browser thread, service | cancel racing a mint, shared file | no active credential left unsaved and unnamed |
| Attach (`attach_teamwork.py`) | two private files and `.gitignore` | check, reserve, write, enable, roll back, verify | other runs, people | a directory exchanged between two steps | nobody's file touched; whole or nothing |
| Judge, page, URL and Entra helpers, evaluations | none | text in, text out | — | — | not modelled |

`PROJECT.json` lists the components with their status, and the hazards of the
code at their lines, each with the property that would catch it, or a note that
says what the model shows of it.

## Modules

| Module | Models |
| --- | --- |
| `FifoDelivery` | what the outbox promises: every row takes effect at most once, after all earlier rows of its session |
| `Outbox` | the journal's outbox, the flush threads, `replay_pending.py`, the network and the service |
| `Turns` | one mounted hook: handlers, rebind, crash and resume |
| `Cards` | agent registration and presence: threads, `_card_lock`, rebind, restart |
| `Arrivals` | `retrieve` into one cache by prompts, waits and the watch; answers to waits; the live host |
| `QueueNames` | the registry of tracker names, shared by processes without a lock |
| `Filing` | filing and mirroring of inbound messages; extends `QueueNames`, whose registry its `BindName` and `ClaimName` go through |
| `Recording` | detection tasks, the recorder, deliberate recording, shutdown |
| `Work` | the tools that read and write shared records beside rebind and people |
| `Enrollment` | consent forms and the setup script after one connection file |
| `Attach` | runs of the attach script in a directory that may be exchanged |
| `OutboxProofs`, `TurnsProofs`, `CardsProofs`, `ArrivalsProofs`, `FilingProofs`, `RecordingProofs`, `WorkProofs` | theorems about these modules |
| `ConnectionProofs` | theorems about `Enrollment` and `Attach`, the two ways to a connection |
| `MCOutbox` … `MCAttach` | instances for TLC |

How they fit together. `Turns` refines the producer side of `Outbox` (`OutboxSpec`), and
`Outbox` refines `FifoDelivery` (`FifoSpec`). `Cards`, `Arrivals`, `Filing`, `Recording` and `Work`
share with `Turns` the binding that `rebind` exchanges. Each of them models `rebind`
for the part of the hook it is about, because what the code compares after an
await differs from place to place: the identity of client and connection in
`_publish_card` and `WorkTools`, the state object in `Recorder`, the project of the batch in
`file_reports`.

### Outbox

A row's index in `rows` is its `seq` and its idempotency key; `outbox` holds the
seqs still in the table; `version` is `state["version"]` as persisted with the
row that uses it. A body is reduced to its session, its kind and the
`expected_version` of a session record. `SaveSession`, `SaveTurn` and
`SaveReceipts` are the three calls of `Journal.save` that add rows.

A flusher is a thread of a hook or a run of `replay_pending.py`. Its steps are
those of `Journal.flush`: the SELECT (`SelectHead`, `FlushReturn`), the request
(`Accept` at the service, then `Answer`), the DELETE. Two flushers may be anywhere
in this loop at once: `await_answer` cancels the wait for a thread and not the
thread, and the replay helper is a process of its own. A request fails
(`RequestFail`) with or without having been applied, and when its sender gives up
before it arrived it may arrive later (`wire`, `LateArrival`). `Die` ends a flusher
anywhere.

The service is external: it applies the first arrival of a key, takes a session
record only at its current version, and turns and receipts only for a session it
knows. This is what the hook assumes of it (`expected_version`,
`Idempotency-Key`, the comment on the first prompt in `on_submit`).

Not in the module: that a credential is revoked or refused for ever (a head that
is always refused blocks its session, by design), and two processes that run the
same native session at once, which would share a version counter.

### Turns

One hook and the journal rows of its sessions (one per project). A step of a
handler ends where the code awaits or where a save has committed, so rebind, the
tools' saves and a crash fall where they can in the program. `mem` is
`self.state`, `jour` the persisted states, `rows` the rows ever queued, `gen` the
identity that `detection_binding` compares, `pinned` the shutdown binding. An
injection is identified with its turn. History variables (`opened`, `offered`,
`accepted`) record what happened, for the properties; `prompt` is the harness's
side: the prompt it is answering.

`Rebind` is the whole of `_rebind`, which contains no await: the open turn is
finished under the old session before anything changes. `RebindWhileSubmitting`
says whether it may run while `on_submit` awaits. `Start` and `Submit` are not taken once `cleanup` has
pinned its binding (`pinned = 0`): the code does not check it (`__init__.py:1080`, `1506`), it is
assumed of the host, which submits no prompt to a session it is shutting down; a host that did would
have a turn queued after the session's end. `SaveState` (the tools, `retrieve`, `file_reports`) saves the state
between the steps of a handler; left out is that the thread of a cancelled handler saves it
between a change of memory and the save that belongs to it, say between the two in `finish`, with a
death right after. `SaveMayFail` says whether a save
that no handler guards may raise; memory then stays ahead of the journal.

`Turns` refines `Outbox`'s producer side: under the mapping `Journal`, each step is a
`Save` of `Outbox` or a stutter (`OutboxSpec`). This is what justifies the guards of
`SaveTurn` and `SaveReceipts` and the consecutive versions of `SaveSession`.

### Cards

`register_agent` and `report_presence` bypass the outbox: a heartbeat delivered late is
a lie, so each call sends what it sees now or nothing. `th[t]` is one call in a
thread, with its locals: the version it started from, the one its operation
carries, whether a rebase is left. `bind` and `gen` stand for `self.sid` and for the
identity of client and connection, which `current()` compares; `own`, `versions`
and `inflight` are `agent_version`/`presence_version`, `_card_versions` and
`_card_inflight`. Each step is what runs without releasing `_card_lock`, or without
it: `Begin`, then for a registration `Observe` and `CheckBinding` (the queue is read
outside the lock), the request (`Serve`), the branches after an answer (`Rebase`,
`Downgrade`, `Accepted`, `Refused`, `Transient`) and the `finally` (`End`). `Rebind` and
`Restart` fit between any two of them.

A card's content is reduced to `obs`, the number of the observation it tells of,
and, for a registration, the project whose queue it describes. The service is
external: it takes a card at its current version only. An abandoned request may be lost, have
been applied, or arrive later (`wire`); so may one of a process that has ended.

A second process that registers the same session is in the module only as far as it looks like a restart
or a late request.

Not in the module: the timing of heartbeats (`Begin` may happen whenever the code lets
it) and the waiting reason they carry (`waiting` in `Arrivals`).

### Arrivals

`state` is the cursor and the cache of `self.state`, `saved` the journal's copy for each
project, `lock`, `page` and `pin` the retrieve under way: its reader, its page, and the binding
it began with. Prompts, waits and the watch read in the same way. A prompt (`on_submit`) reads
once and only its saving and reading are in the module; a wait or the watch reads at each poll,
under a binding of its own (`bound`). `wait` and `waiting` are `_wait` and `waiting_on`; `answer` is the
ticket's; `seen`, `batch` and `flight` are the watch's dictionary, the arrivals of the
present poll and the one submission the host has. A page is read and applied in
one step: its reader holds the lock, and a page that comes after a rebind or a
cancellation is dropped whole. A new process is not in the module: what it finds
cached in the journal counts as seen when its watch starts. That the cache forgets a deleted record rests on the
service, which is external: a page lists deletions too, also when it is read from the start after a retired cursor. A record that was answered, deleted and
created again shows its answer from its new version on.

A page may leave out a body (`Omissible`), which keeps the cached version while the
cursor moves on. For a request this means that its answer is never seen
(`__init__.py:918-921` says so), so the run lets only knowledge be omitted. A retired
cursor (410) empties the cache and reads from the start (`refetch`).

### Filing and QueueNames

`on_submit` runs `file_reports` in a thread, and waits for it (`__init__.py:1561`). A handler that is
cancelled there frees `self.lock` and leaves its thread running; the next prompt starts another on the
same state. So a hook has several threads (`Of`), `Turn` starts one, and `Starts` counts in `overlaps` those that
start beside a running one (threads differ in nothing but their names, so a handler takes `Free`); `Resolve` is a thread that only resolves the queue's name (`Queue.status` for the
agent's card, `Queue.items` for the publish tool). No lock orders the steps of two threads.

`pc` follows each thread of `file_reports`: `retry_mirrors`, then each unfiled message of the
batch with its add, the read-back after an unknown outcome (`ReadBack`), the save, and
its mirror. `mem` and `jour` hold the marks `filed`, `mirrored` and `mirror_attempts` in memory and in
the journal. `tracker` counts the copies in each tracker project, `shared` what was
mirrored. The tracker is external; an add takes effect, if at all, before its command
ends. `calm` is the point from which nothing fails; it is only used by the liveness
properties. A 403 sets `said` and ends mirroring for the binding. `Crash` is a death together with the
start of the next process, which may be bound to any project.

Not in the module: an exception because one thread changes a dictionary that another iterates over
(`unfiled`, `retry_mirrors`), which ends a batch as a failure does; a person who
empties the tracker or the registry.

### Recording

A writer is a detection task or a call of `record_insight`. A task captures its binding,
takes the turns above the watermark (`Take`), judges, reserves its fingerprint, and
publishes; a call goes under `self.lock` and records that the session spoke for itself,
which a task compares (`MayRecord`). A call belongs to the turn it was made in, and the mark it
leaves is the latest of these turns (`Latest`). A turn enters the detectors' buffers when it ends
(`EndTurn`), when the next one begins without a completion (`BeginTurn`), or when `rebind` leaves the session. `flying` are the requests on their way, `published` those the
service took; `Cancel` may come at any await and recalls neither. `Restart` and `DieTaking`
are deaths of the process, the latter between the watermark and the saved buffer.

A refused call (`Refused`) puts back its two marks in the state it pinned and in the journal. The
code saves the whole of the pinned state (`restore_deliberate_attempt`), so after a rebind there and back it
also puts older values of the session's other fields into the journal. Only the marks matter to the properties here.

### Work

A call pins `hook` (its project and how often it was exchanged), reads page by page
(`ReadPage`, with the comparisons before and after the request merged), decides, and sends.
`steady` is a history variable: what the call is looking for that was there, and was
wanted, throughout its read. `late` are requests nobody waits for. The service is
external: it takes a write only over the version it expects. `ask` and `send` report
`unknown` after a lost answer; the others report a refusal (`RefusedMeansNo` below).
`teamwork_bind`'s search for its project (git remote, saved files) only chooses the argument
of `Bind`; that an explicit project keeps the token of the connection before is not in
the module.

### Enrollment

An actor is a consent form's handler or a run of the setup script. Its steps are the
requests and file operations of `connect`: check the file, reserve it, sign in, mint, write,
seal, and on the way back revoke, keep or name the credential (`Undo`, `GiveBack`) and
unlink. A form is cancelled, expires or is interrupted by its own thread at any point
(`requested`, `expired`, `denied`, `answer`). A mint whose answer is lost may still be served (`late`); the same
branch of `Mint` stands for the other answers that do not tell, a 5xx or a 200 that cannot be read.
For the setup script `SetupMayTimeOut = FALSE` excludes all three (`setup_teamwork.py:102-121`, `271`), not only the
time-out: after each of them the script knows of no credential and the service may have one.

### Attach

A run opens the directory (`Pin`), works in what it opened, and compares it with what
the path stands for at the end (`Final`, `CheckPlace`). Its two files are created
exclusively, written, and rolled back in the opposite order; a run that found the files (`existing`) only verifies.
The reads of one check are one step, as are the stat and the unlink of one file; the
project directory and `.amplifier` are one place, and file modes are left out. People
may add files and do not delete these while the script runs. An interrupt between the creation of a
file and the note that it is owned (`attach_teamwork.py:68-70`) counts as a death: such a run reports a refusal and
leaves an empty file behind, which its rollback does not know of.

## Runs

| Run | Bounds | Shows |
| --- | --- | --- |
| `outbox` | 2 sessions, 1 project, 1 hook thread, 1 replay process, 4 rows | `TypeOK`, `NothingLost`, `NoConflict`, `CaughtUp`, refinement of `FifoDelivery` |
| `outbox_live` | the same, 2 rows | `EventuallyApplied` |
| `turns` | 2 sessions, 2 turns, 2 deliveries, 1 crash, 2 rebinds, rebind at any await | `NoInventedReceipt`, `AcceptedAccountedFor`, `TurnsNeverDropped` |
| `turns_serial` | 2 sessions, 2 turns, 1 delivery, 1 crash, 2 rebinds, rebind between handlers | `RecordMatchesReceipts`, `TurnsNeverSplit`, `EndIsLast`, `CleanupEndsSession`, refinement of `Outbox` |
| `turns_rebind` | as `turns` | counterexample to `TurnsNeverSplit` |
| `cards` | 2 sessions, 2 threads, 3 observations, 2 rebinds, 1 restart, a service that knows both cards | `OneSender`, `NeverAhead`, `StatusIsEarned`, `NoStaleOverwrite` |
| `filing` | 1 hook, 2 threads, 3 messages (one evicted in the end), 2 projects with one queue name, batch of 1, 2 mirror attempts, one project that refuses the mirror; one overlap, or up to two of a death and a rebind | `FiledIsThere`, `FiledOnce`, `OneBacklog`, `EventuallyFiled`, `EventuallyMirrored` |
| `enrollment` | 2 forms, the setup script, one request for a credential each, 1 death | `Accounted`, `FileUsable`, `CancelIsHonest`, `SavedStays` |
| `recording` | 2 sessions, 1 detector, 2 tasks, 1 claim, 1 call, 2 turns, 2 rebinds, 1 restart | `OncePerClaim`, `ExaminedOnce`, `DeliberateFirst` |
| `arrivals` | 2 projects, a request and a claim, 1 prompt after another, 1 wait and the watch, 2 pages a read, batch of 1, 2 edits, 1 rebind or retired cursor | `AnswerIsMine`, `AnswerNotMissed`, `CacheFaithful`, `NoArrivalLost` |
| `work` | 2 calls, 2 projects, 1 record, 3 people, 2 pages, 2 edits, 1 rebind | `WrittenAtHome`, `NoGuess`, `HonestAnswer` |
| `attach` | 3 runs, 2 credentials, 2 directories, 2 exchanges, 1 death | `Protected`, `WholeOrNothing`, `NothingTaken` |

Bounds. The conflicts of the outbox are between two flushers of one session: a
stale DELETE needs two flushers and two rows, a late duplicate that overtakes
needs three rows, and the second session shows that sessions do not disturb one
another; four rows leave room for a session record on each side of them. Two
turns, one crash and two rebinds let a turn survive a crash, be found again and
meet another one, and let the hook leave a session and come back. For cards, two
threads, three observations and two rebinds let a thread outlive its binding, find the hook
back in its session, and meet another thread and a late request there. In `filing`, a second
thread meets the first at every pair of steps, with a message that is being added, marked or mirrored; three
messages to two projects with a batch of one let a message wait behind another, be
retried after a death and be found to belong to a queue that is taken, and two attempts
reach the limit. The faults share a bound, `MaxFaults`, in which an overlap counts as two, so the run has an overlap
apart from a death and a rebind. Two configurations of the same module that pass have the rest: `MCFilingSafety`
an overlap, a death and a rebind together and a message too large to file, for the three invariants, and `MCFilingQueue`
three projects, two of which share a queue name, with two rebinds that visit all of them, a death and no overlap, for `OneBacklog`
(with an overlap, `MCFilingOverlap` breaks it). In `enrollment`, two forms and a script meet at every pair of steps, and a
form after a failure may submit again. In `recording`, two tasks with one claim to find are
the collision the fingerprints are for, two turns let windows be disjoint or
not, and two rebinds bring a session back under a new state. The run makes one call; two, made
in different turns and submitted, refused or cancelled in either order, are checked by
`MCRecordingCalls`, a configuration of the same module without a rebind, which passes, and by the
proof for any number of them. In `arrivals`, two names with a batch of one let an arrival be left for the next poll,
and two pages a read let a retrieve stop before the end; two versions let one replace
another in flight. A rebind there and back is checked for the invariants by `MCArrivalsSafety`, a configuration
of the same module that passes, and by the proof for any number of rebinds. In `work`, three people on pages of one with a limit of two make a list
that is cut off, and two edits let one person take the name while another loses it. In
`attach`, a third run shows what two others leave, and two exchanges bring the first
directory back.

A type invariant is checked in the run `outbox`; the other modules have theirs as `TypeOK`,
proved for `Turns`, `Cards`, `Arrivals`, `Filing`, `Recording`, `Enrollment`, `Work` and (as `AttachTypeOK`) `Attach`. Deadlock is checked in `outbox`, `outbox_live`, `turns`, `turns_serial` and
`filing`. In the others the system may stop: the observations, the edits, the
submissions or the calls are used up and nothing is left to do. The runs
with symmetry check safety only.

Each property has a mutant of the code's model (the operators commented *Mutant* or *A
defect*) that it must reject.

Fairness. `EventuallyApplied` rests on `FlushFairness` (a thread runs on, SQLite answers or
times out after 10 s, the HTTP client returns or raises within 30 s) and on `Recovery`: the
hook flushes at each turn boundary, so a session in use is flushed again and again,
and no step fails for ever. It is strong fairness because a failure may always come
first. `CleanupEndsSession` assumes that handlers end and that cleanup, waiting for
`self.lock`, gets it: `asyncio.Lock` is first come, first served, so a waiter passed over for
ever is excluded (strong fairness of `EndBegin`). `EventuallyFiled` and `EventuallyMirrored` assume
that faults end (`Calm`), that threads run on and that turns keep coming, whatever else resolves the queue's name in between. `NoArrivalLost`
assumes that the watch runs on, since it polls on a timer and every request has a
deadline, and that it gets `self.lock`, first come, first served again (`SF` of `Read(Watch)`); that a
wait ends, which has a deadline, and a prompt's read, whose requests have one; that the host settles
what it was given and does not refuse for ever (`SF` of `HostAccepts`); and that a retrieve is not cut
short for ever (`SF` of `ReadsAll`), since the code comes back at each poll. That a prompt, a rebind
or an edit ever begins is not assumed. A host that suppresses cancellation and
never completes is outside this: the one submission in flight then blocks further live
delivery, by design.

`CleanupEndsSession` is in two parts: a hook told to shut down ends the session
it has entered, and closes an open turn. It cannot promise the session's end for
every open turn: a turn that a rebind restored during another turn, and that
`on_complete` closed without `ensure_session`, belongs to a session this process has
not entered, and `cleanup` ends entered sessions only. This is the state that
`OwnResponse` below is about.

## What does not hold

The run `turns_rebind` finds: `on_submit` goes on after `await context.add_message` without
comparing its binding, unlike `retrieve`, `live_poll` and `cleanup`; the receipts of a turn
already published to the old session are queued for the new one. Whether a host
can run `rebind` at that moment depends on the host; the repository's tests do so at
other awaits.

Beside the runs there are configurations that TLC finds a counterexample for. They
show what the properties of the runs depend on, and are kept for whoever changes
that code.

| Configuration | Property | What happens |
| --- | --- | --- |
| `MCOutboxReplay` | `NotReattributed` | `replay_pending.py:28-30` uses the connection file's project for every session in the file. The file is named after the token, and `teamwork_bind` with an explicit project keeps the token, so a journal can hold rows of two projects. |
| `MCTurnsResponse` | `OwnResponse` | a turn restored from the journal by a rebind during another turn is published with that other turn's answer (`__init__.py:1608`) |
| `MCTurnsSave` | `TurnsNeverDropped` | `finish` clears `state["turn"]` before the save that carries its row; a save that raises loses it |
| `MCCardsDisabled` | `DisabledOnlyIfUnsupported` | after its one rebase `_publish_card` raises a second conflict, and a 409 disables a card the service supports for the rest of the binding (comment at `__init__.py:757-759`) |
| `MCFilingRebind` | `MirroredHome` | a rebind beside the thread of `file_reports`: the rest of the batch goes to the new project |
| `MCFilingNames` | `OneBacklog` | two processes claim one queue name at once (`queue_name.py:85-90`): both read, both write |
| `MCFilingOverlap` | `OneBacklog` | two threads of one process resolve queue names at once: one reads the registry that the other has just emptied and writes it back without the claim of a third project, whose name is then given away (`queue_name.py:79-103`) |
| `MCEnrollmentShared` | `SharingWorks` | a form reuses another form's connection before it is sealed, and the other one then revokes it |
| `MCEnrollmentSetup` | `Accounted` | the setup script asks again after a time-out, and both requests may be served; or it gives up after an answer it cannot read |
| `MCWorkPublish` | `PublishedAtHome` | a bind between publish's reading and its posts: an item of one project's queue goes to the other |
| `MCWorkRefused` | `RefusedMeansNo` | a write whose answer is lost is reported as not recorded, and is |
| `MCAttachVerified` | `VerifiedIsThere` | a second run verifies an attachment that the first then rolls back |

Two consequences of the models are not properties of a configuration: a 403
that answers a thread of the old project after a rebind silences the mirror of the new
one, and a
run of the attach script that is killed, or cannot unlink, leaves half an attachment that
later runs refuse and preserve.

## Proofs

For every value of the constants that satisfies `OutboxAssumption`, whatever the
number of sessions, flushers and rows:

* `TypeCorrect`: `Spec => []TypeOK`.
* `NothingIsLost`: `Spec => []NothingLost`. Alone it is not inductive: that a DELETE
  removes an applied row only needs to know that whoever stands at *delete* holds
  a row that was applied, and that a row is sent only when its predecessors are.
  `OrderInv` in `OutboxProofs` says both.
* `ImplementsFifo`: `Spec => FifoSpec`. A request in flight, abandoned ones included, is
  for a row whose predecessors have all been applied; so an accepted request is a
  `Deliver` of `FifoDelivery` or a repeat, and every other step is a `Submit` or a stutter.
* `NeverConflicts` and `AgreesWhenDrained`: under `OneProjectOnly` (there is one project,
  so the counterexample of `outbox_replay` cannot arise), `[]NoConflict` and `[]CaughtUp`.
  `VersionInv` says that the pending session records of a session are numbered
  without gaps from the service's version to the persisted one.

For every value of the constants that satisfies `TurnsAssumption`, whatever the number of
sessions, turns, deliveries, crashes and rebinds:

* `TypeCorrect`: `Spec => []TypeOK`.
* `NoInventedReceiptAlways`: also where saves raise and `rebind` runs at any await. `Sound` says of
  memory and of every session's journal that a turn marked as injected was accepted, and `Stage`
  that the turn `on_submit` holds has been accepted when its receipts are saved;
  `Honest` says the same of every row.
* `AcceptedAccountedForAlways`: while no save raises (`SaveMayFail = FALSE`; a save that raises leaves
  memory ahead of the journal, see `MCTurnsSave`). `Covers` says that memory knows every candidate the journal
  of its session has, so that a save which puts memory in the journal's place
  loses none; and `finish` either sets the candidate aside or publishes a record
  that says it was delivered, because `Sound` ties the boundary to the flag.

While no save raises, and, but for the first, where `rebind` waits for `on_submit`
(`RebindWhileSubmitting = FALSE`; `turns_rebind` shows why):

* `TurnsNeverDroppedAlways` (`rebind` at any await): a turn is open in one session at most, memory and
  journal agree on it where the session is the current one, and a turn that is open has no row (`OInv`: `Agrees`, `Owned`,
  `Published`, `Once`). `finish` is then the only step that closes one, and its save carries the row.
* `TurnsNeverSplitAlways`, `RecordMatchesReceiptsAlways`: `SInv` says of the turn `on_submit` holds across its
  awaits that it is the open one of the current session (`Held`), that the flag and
  the receipts are saved together (`SameFlag`, `Told`), and that what was queued for a turn was queued for the
  session it was opened in (`Addressed`).
* `EndIsLastAlways`: `LInv` relates the last row of each session to `entered` and `_session_ended`: whoever
  can still save a turn or a receipt has a session whose last word is that it is active
  (`Speaking`, `Silenced`), so `ensure_session` comes first after an end.
* `SavesAreTheOutboxs`: `Spec => OutboxSpec`. `VInv` says that memory's version is the journal's and that of the
  last session record queued, so versions are consecutive; `OInv` and `SInv` that a session was announced before anything is
  saved for it. Under the mapping the bound of `Outbox` on rows is `RowBound`, and `RInv` shows that it never
  stops the hook: what is queued and what may still come is bounded by the
  turns, deliveries, rebinds and crashes there can be.

For every value of the constants that satisfies `CardsAssumption` (the proofs use none
of it), whatever the number of sessions and threads:

* `TypeCorrect`: `Spec => []TypeOK`. Most steps of a thread go on with one attempt and change
  neither its card nor its observation; `GoingContinues` says so once for all of them.
* `OneSenderAlways`: alone it is not inductive, since `End` could take another
  thread's card out of the set. `Guarded` adds that every card being sent is in it.
* `NeverAheadAlways`: `Behind` adds the same of the versions the threads carry, and
  that an accepted request is behind the service, so that noting its outcome late,
  also after a rebind, remembers nothing the service does not have.
* `NoStaleOverwriteAlways`: `Newest` says that what a thread is about to show is at
  least as new as what is shown and as every abandoned request of its card, and
  that an abandoned request whose version still fits is newer than what is shown. It needs
  both invariants above: one sender, and no version ahead of the service.
* `StatusIsEarnedAlways` and `OwnQueueAlways`: `BoundInv` relates each attempt to the
  binding it began with. `gen` only grows, so an attempt whose binding is still
  current was never interrupted by a rebind, not even one that came back.

For every value of the constants that satisfies `ArrivalsAssumption`, whatever the number of
projects, records, waits, prompts, edits and rebinds:

* `TypeCorrect`: `Spec => []TypeOK`, with at most a batch of arrivals at a time.
* `CacheFaithfulAlways`: about one record it is not inductive, since a page, a rebind and a retired cursor
  replace the whole state. `True` says of a state what it knows of its project's records,
  in memory and in every session's journal: the cursor is never ahead (`Covered`), a cached answer was
  given (`Told`), one the cursor has passed is cached (`Shown`), a claim is cached as last read or asked for
  again (`Claims`), and all of it is of this project (`From`). A page keeps it because `StillBound`
  makes the project asked and the state changed the same.
* `AnswerIsMineAlways`: `Asked` says that what is looked for is what the current wait asked, so an answer
  noted by any reader is the current ticket's; `Told`, that the one found in the cache was given.
* `AnswerNotMissedAlways`: `Watching` says that the current wait is looked for until it has its
  answer, and `Heard` that one that polls has it as soon as the cache does, whoever applied the page; `Shown` relates
  the cache to the cursor. It is proved for requests that come with their body
  (`Requests \cap Omissible = {}`), as in the run: without, the code misses the answer
  (`__init__.py:918-921`).

The proof of the last one found an error of the model: a record that was answered, deleted and created again
kept the version of its old answer, which the cursor had passed while the answer was
evicted. It takes four versions to see, two more than the run has.

For every value of the constants that satisfies `FilingAssumption`, whatever the number of hooks, of
threads and of overlaps between them, of projects, names, messages, attempts and deaths:

* `TypeCorrect`: `Spec => []TypeOK`, with what each program counter implies of the thread's locals (`Stage`).
* `FiledIsThereAlways` and `FiledOnceAlways`: while no rebind falls beside a thread of the hook
  (`RebindWhileFiling = FALSE`), and with no restriction on cancelled handlers. The assumption is needed: with a rebind beside the thread and projects
  of two names, TLC violates `FiledIsThere`, `FiledOnce` and `OneBacklog`, since a message may be marked in the state of one
  project and filed in another (`MCFilingRebind` shows the first step of it). `FInv` says that every thread works on messages of
  its hook's project, in the queue it resolved for it (`AtHome`, `Bound`, `Work`), and that a mark stands for words
  in that queue, in memory and in the journal (`Kept`). `FiledOnce` allows `1 + crashes + overlaps` copies of a message, and a
  death or an overlap does cost one: the mark is set only after the tracker has answered (1484), so a
  thread started meanwhile adds the message again. `CInv` counts (`Counted`): the copies of a message that has its mark and the threads that have
  it in their batch already (`Ahead`) make at most one more than the deaths and overlaps so far; of one without
  a mark, the copies and all threads at work that may still add it (`Unspent`) make at most that, and as many as the
  deaths and overlaps once every thread rests. A failed add keeps this because an unknown outcome is read back
  before anything is added again. `Saved` says that memory and journal agree when no thread has a batch under way.
* `OneBacklogAlways`: for one process (`OneProcess`), under the same condition, while no two of its threads overlap
  (`MaxOverlaps = 0`). `NInv` says that a claim read from the
  registry is still what the registry says when it is written (`Alone`, `Claim`), so that a queue that
  received a message belongs to its project (`Ledger`, `Owns`). `OneBacklogApart` has any number of processes and overlapping threads instead,
  when no two projects have one queue name. Each of the conditions of `OneBacklogAlways` is needed: without them
  `MCFilingNames` and `MCFilingOverlap` are the counterexamples. The latter includes the thread
  of `register_agent` and the publish tool, which resolve the name as well.

For every value of the constants that satisfies `RecordingAssumption`, whatever the number of
sessions, detectors, tasks, calls and claims:

* `ExaminedOnceAlways`: a window lies at or below the watermark of its session and
  detector (`Taken`), and a later window lies above it, so they are disjoint. A death
  between the watermark and the buffer leaves turns in the buffer that no later window takes.
* `OncePerClaimAlways`: a task holds its fingerprint from its reservation on, also when it
  was cancelled with a request on its way (`Kept`), and no two tasks hold one
  (`Unshared`). A cancelled task keeps it, since the request cannot be recalled.
* `DeliberateFirstAlways`: the mark covers every call that stands, in memory and in the journal (`Marked`), so a task
  that captures later leaves the window alone; a task that captured earlier
  is behind in generation (`Noticed`). Neither is inductive while a request of a call may
  still be refused and put back what it overwrote: `Undone` says that both hold of what would then be restored. They rest on
  the lock, held from the flush to the answer (`Locked`), and on no binding coming back
  after a rebind (`Past`).
* `TypeCorrect`: `Spec => []TypeOK`.

For every value of the constants that satisfies `AttachAssumption`, whatever the number of runs,
directories and exchanges (in `ConnectionProofs`, where the names of `Attach` stand apart from
those of `Enrollment`):

* `AttachTypeCorrect`: `AttachSpec => []AttachTypeOK`.
* `ProtectedAlways`, `WholeOrNothingAlways`, `NothingTakenAlways`: `Located` says that whatever
  a run created is in the directory it pinned, which is ignored there; `Written`, step
  by step, which of its two files are complete; `Ordered`, that settings stand only
  beside the whole connection of the same run. A step of another run leaves all
  three alone because files are created exclusively and only their creator
  removes them.

For every value of the constants that satisfies `EnrollmentAssumption`, whatever the number of forms,
scripts and requests:

* `TypeCorrect`: `Spec => []TypeOK`. It needs that `MaxMints` leaves the setup script room to ask, which
  `EnrollmentAssumption` says: the bound never decides what the script does.
* `FileUsableAlways`, `SavedStaysAlways`, `CancelIsHonestAlways`: `Reserved`, `Hands` and `Stands` say, actor by actor and
  step by step, whose file is there, what it holds and what the service thinks of it;
  `Promised` what a form may have told the person at that point. An actor gives back only a credential it
  asked for (`Hands`: one it found was asked for by another) and removes only a file it
  reserved, so a step of one leaves all of this true of the others (`OthersKeep`).
* `AccountedAlways`: under `SetupMayTimeOut = FALSE`, as `MCEnrollmentSetup` shows it must be. `Known` adds that
  an actor about to drop a credential has given it back or told the person,
  and `AInv` that every request still to be served is one the person knows of.

For every value of the constants that satisfies `WorkAssumption`, whatever the number of calls,
projects, records and people, and whatever the bounds on edits and rebinds:

* `WrittenAtHomeAlways` and `HonestAnswerAlways`: `Sending` says of every request that was
  sent, waits, is late or was applied what was decided when it was sent, and `Telling`
  that a call that is told of its request had no other.
* `NoGuessAlways`: `Reading` says that while a call reads, whatever it looks for and was
  there throughout is on a page it has read or still after its cursor. A page takes the
  next entry (`PageOne`), so nothing is skipped; a complete read has therefore found all
  of them, and one match is the only one.
* `TypeCorrect`: `Spec => []TypeOK`, with finitely many calls. That no version exceeds `MaxVersion` is not a
  matter of types. `Single` says that a call reads a record once and never has two requests for
  one record, waiting, late or applied; so it is among the `Writers` of a record once at
  most, and `Lasting` bounds a version by the edits of people and the number of its writers.
  Of a request that gets no answer, the code sends no second one; if it did, `Single` would fail.

Each named assumption is evaluated by TLC in every run of a module that extends the
module that states it.

Every invariant and action property of a run is proved. Only model-checked: the five liveness properties
(`EventuallyApplied`, `CleanupEndsSession`, `EventuallyFiled`, `EventuallyMirrored`, `NoArrivalLost`),
since liveness under fairness is out of the prover's reach. The counterexamples are TLC's.

## Not modelled

* `render` and `influence`, the excerpt: pure functions of the cache that choose and lay
  out text within a budget of bytes. What they chose is an input of `Turns`.
* The judge's prompts and their parsing (`decision_judge.py`, `events.py`): text without state;
  the verdict is an input of `Recording`.
* The consent page, the URL, git and Entra helpers: strings and subprocesses without
  state of their own. How `teamwork_bind` and the mount find a project only chooses which
  one is bound.
* `scripts/` and `evals/`: development scripts outside the running system.
* The service, the tracker and the hosts are external: each is modelled by what the
  code relies on.

## What to do next

1. The budget of the excerpt as a recursive function, against a reference definition.
2. `replay_pending.py` with the connection of each session, once the program keeps it
   (`NotReattributed` would then be a property of a run).
