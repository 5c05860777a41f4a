# A verification project for macos-apps-mcp

macos-apps-mcp is a local MCP server: tools for Mail, Calendar, Reminders, Notes and other
Apple apps, driven through AppleScript, EventKit, Accessibility and read-only SQLite. This
directory holds TLA+ modules that model its stateful parts, configurations that check small
instances with TLC, and proofs for TLAPS. `PROJECT.json` holds the machine-readable side:
which lines of the source each definition stands for (`map`), the runs, for each property
of a run a mutated definition that breaks it (`mutants`), the hazards of the code with the
properties that watch them (`hazards`), and the theorems.

Parse with `tlasany M.tla`, check with `tlc -workers 2 -config X.cfg MCModule`, prove with
`tlapm M_proofs.tla`.

## 1. Inventory of the system

Paths are below `src/macos_apps_mcp/`. One server process per client (stdio), a daemon that
launchd keeps alive on a unix socket, a shim that forwards a client to the daemon, and a
`dedupe-mail` command all share the user's apps and one data directory. Tools run on worker
threads; the native calls of a process are serialised on one worker thread.

| component | state it keeps | operations | what is hard | what makes it correct | modules |
|---|---|---|---|---|---|
| recoverable mail plane: `adapters/mail_recover.py`, move, trash, dedupe and undo of `adapters/mail.py` | backup files, plan and done records in the log, the answers of one script | `recoverable` (backup, plan, act, done), `move_mail`, `trash_mail`, `dedupe_batch`, `undo`, `preview`, `purge_backup` | a killed script whose Apple events land later, verbs that silently do nothing, several copies of one Message-ID, concurrent calls and a user who drags messages, crashes | the receipt replays whatever moved; nothing moves before its plan; no answer claims too much; dedupe never takes the last copy | MailRecover, RecoverableReceipts |
| audit log: `audit.py` | `audit.jsonl`, `audit.jsonl.1` | `audit_write`, `read_all`, `AuditMiddleware` | no lock between processes and threads, rotation under a reader | a record outlives one rotation; files stay bounded; an uncut read is complete | AuditLog |
| daemon and shim: `daemon.py` | the socket path, the listening socket | `bind_socket`, `serve`, `restart`, `shim_check`, the shim's warning | start against a stale or live file, crash at any step, a call whose connection ends | it comes back; a refused call did not run; each call ends | DaemonSocket |
| native reply: `open_reply_with_text`, `_ReplyFlow` of `adapters/mail_outgoing.py` | the flow's ids, times and answers | open, insert, discard, sweep, send | a timeout whose verb runs later, an autosave at a time of Mail's own, a send that may have been accepted | "nothing was created" is true; only the call's own copy is deleted; a sent reply is never called refused | NativeReply |
| Drafts sweep: `adapters/mail_reply_cleanup.py` | none (reads Mail's index) | `index_top`, `new_rows`, `find_own_draft` | rows of others that look alike, rows that land late | proves a copy to be the call's own before it is deleted | NativeReply |
| clipboard borrow: `runtime.compose_insert` | the user's clipboard, while it is borrowed | save, write, Cmd-V, settle, restore, confirm | the user copies at any moment; Mail handles the key late | the reply holds the text once; the clipboard never leaks into a reply and comes back | ClipboardPaste |
| other outgoing mail: the rest of `mail_outgoing.py`, `mail_drafts.py` | Mail's outgoing messages and Drafts | send, send of a stored draft, forward, create and delete a draft, previews, rollback, outbox read | timeouts after acceptance, a rollback that fails, a removal that lands late | an unwarned error sent nothing; a rolled back message is gone; an approved draft leaves Drafts only once it was sent | OutgoingMail |
| runtime: `runtime.py` | the native worker, the set of child processes | `run_native`, `run_osascript`, `tracked_run`, `terminate_children`, `read_via_sqlite` | a wedged call blocks every later one; a child started during the exit; a lock that a signal handler takes again | waits end, except behind a wedged read; the process ends with its children terminated | NativeWorker |
| lifecycle: `lifecycle.py` | the parent's pid | the orphan watcher, exit hooks | the exit of a process in the middle of an act | a process whose client is gone ends | NativeWorker |
| dedupe command: `dedupe.py` | a plan over hours, a report | `cross_account_plan`, `_run_mailbox`, `_run_cross_account` | a stale plan; a failing batch; keepers that vanish; two runs with opposite orders | each message keeps a copy or the report says so; only equal bodies are collapsed | DedupeMail |
| id sidecar: `mail_ids.py`, the top-up and notes of `mail_index.py` | the sidecar of Message-IDs, its marks; per process the cached mode | harvest, top-up, staleness note, wipe | Mail rebuilds its index; a reader beside a build | an answer without a note lacks nothing that was never looked for | MailIds |
| index queries: `mail_index.py`, `mailbox_url.py` | none (reads Mail's index) | search, thread, overview, stats, duplicates, locations, the label guard | labels, tombstones, several copies | the reads agree; what may be moved is stored where it is shown | MailQueries |
| body index: `build_body_index`, `body_coverage`, `get_bodies` | the full-text sidecar | build, search, coverage, bodies | files rewritten under the build, several builds, partial downloads | a stale body is never recorded as current; "covered" and "missing" are true | MailBodies |
| reminders, calendar: `adapters/reminders*.py`, `adapters/calendar.py`, `eventkit.py` | EventKit's store and the objects it keeps | create, update, complete, delete, with verification | a kept object with unsaved fields, subtasks EventKit does not show, iCloud reverting a save | a refused call is never saved; no subtask goes unasked; "ok" is true when it is said | EventKitWrites |
| notes: `adapters/notes.py` | none | search, list, body, create, update, delete over a file and an app | keys reused in another store, the file lags behind the app, schema drift | what an answer tells was true of that note; a search without a note searched all | NotesPlanes |
| registry, tiers, server: `server.py`, `registry.py`, `tiers.py` | gates read at import | registration of tools | the gates change on disk under a running process | a tool runs only when its tier and adapter allow it | AdapterSwitches |
| deployment, doctor: `deploy.py`, `doctor.py` | launchd agent, `allow_send`, `adapters_off` | allow-send, the switch files, install, upgrade, probes | launchd restarts between two steps | what the operator was told is what the daemon does | AdapterSwitches, NativeWorker |
| dashboard: `dashboard/*` | `_pending` toggles, the write lock, the Health lock | toggle, discard, restart, the pages | two tabs and an editor over one file; a page behind a wedged native call; a log cut by rotation | what it shows is what happened | AdapterSwitches, DashboardRecords, NativeWorker |
| file exports: `files.py`, `photos.export`, `MailAdapter.export`, attachments | a staging directory per call | export a photo, mails, save an attachment | a name that fills between check and write, half written files, kills, reused pids | nothing is overwritten; the answer names what is there | FileExports |
| other adapters, `text.py`, `errors.py`, `cli.py`, `mail_addressing.py` | none | thin reads, single writes, pure helpers, dispatch | - | - | - |

How they interact: every mail write goes through `run_native` and `run_osascript`; the
recoverable plane writes and reads its receipts through the audit log; the dedupe command
and every server process run that plane side by side; the dashboard reads the same log; the
daemon hosts the same tools and the dashboard; a native reply calls `compose_insert` and the
sweep inside one closure on the native worker and hands its discard to the insert as a
callback; `move_mail` and `trash_mail` ask the index queries whether a mailbox is a label
before they touch it.

## 2. Modules and how they correspond to the code

Definitions marked external in the map (Mail's verbs, autosave and index, EventKit, the apps,
the user, launchd, other programs) are modelled from what the code relies on.

### Mail writes

**MailRecover** is the core. An element of `Ops` is one call of `recoverable()` and so one
receipt. `pc[o]` is the next native call or log write of the call: `backup` (`locate` and
`_backup`), `plan` (`audit_write` of the plan), `copies` (`_bulk_read`), `before` (`_counts`
of the destination), `script` (the AppleScript of the op, one copy per step), `verify`
(the delayed check of `_TRASH` and `_DEDUPE`), `fold` (the Python after the script) and
`record` (the done record); `expired` is a timeout on its way to its record. `at`,
`lingers` and `mover` are Mail: where each copy is stored, the source that still lists it
after a delete, and who filed it. `plans`/`dones` are the log. `Timeout`, `ActRaises` and
`Crash` cut a call off at any step, and what the killed script still had to do may land
later (`late`, `LateEvent`). `UndoTargets` is what `undo_plan` replays, and `Undo` starts an
ordinary move with it. **RecoverableReceipts** is the abstract promise: a receipt is promised
before anything is filed, can be narrowed once, and never past a message its operation did
file. MailRecover implements it (`ImplementsReceipts`, with `replay <- UndoTargets`).

**DedupeMail** is the command above that plane: a run reads a plan once (`PlanCross`: rows,
keeper accounts, losers; `PlanSame`: the mailboxes with doubles), deletes batch by batch with a
bulk read before each (`StartBatch`, `DeleteCopy`, `BatchTurns`), and looks for its keepers in
the end (`PostPass`). `at` and `body` are the copies, `by` who trashed each, `evidence` the
copies a run weighed against one another. Killed batches have late deletes. What a batch
records is MailRecover's.

**OutgoingMail** has the scripts of send, send of a stored draft, forward, create_draft and
delete_draft. A call is a row of Apple events (`call[c].step`): make, fill, address, send,
rollback, probe, outbox, drop. `Fault` is Mail refusing an event, not answering in time (then it may
handle it later: `pending`), or quitting; the script's own timeout is seen by its error
handler, the host's kills it. `object` is the outgoing message of a call in Mail.

**NativeReply** EXTENDS **ClipboardPaste** and is its caller. ClipboardPaste has the steps of
`compose_insert`: the two reads of the change count, the write, the key, the settle loop, the
restore; the clipboard's content is told apart by whose it is, keys are queued and Mail
handles them later or never. In NativeReply, `flow` has the fields of `_ReplyFlow`, `rows` the
new rows of Mail's index that thread to the original (`by`, who made them, is what the code
cannot see), `now` a clock that `sweep`, `_may_claim` and the autosave compare with. `rollback`
is the callback that the insert runs before the clipboard comes back. `Refusal` is the wording
of `refusal`.

### Mail reads

**MailIds** is the sidecar of Message-IDs on a macOS whose index stores none: the build reads
the rows once, walks the files and commits in one transaction; a read looks at the mode twice
(`_index_mode`), absorbs up to `TopUpMax` new rows, joins the map and asks `staleness_note`.
`cache[p]` is what a process keeps of the mode.

**MailQueries** states each read of the index as an operator over it (`Membership`, `Search`,
`Thread`, `OverviewTotal`, `OverviewUnread`, `StatsUnread`, `Redundant`, `Locations`,
`IsLabelMailbox`); only Mail acts, and its actions lead to the indexes the reads are checked on.
What `dedupe-mail` makes of a mailbox is there too: `Announced` is the number it prints, `SafeIn`
the sets whose copies agree on size and date (`SizeDate`), `LeftAlone` the sets it skips, and
`DoomedCopies` what it deletes.

**MailBodies** has `build_body_index` file by file (stat, read, record, commit, prune),
`body=` searches with `body_coverage`, and the walk of `mail_bodies`. `disk` is what stands
at each path, `sidecar` the recorded stamps and bodies, `writer` the holder of the write
transaction, `wholeText` what a message other than a draft says wherever it is filed.

### Stores of the other apps

**EventKitWrites**: a call is one block on the native worker; between any two EventKit calls of
it the apps and iCloud act. `object` is the object EventKit keeps of an item with its unsaved
fields, `rows` what the Reminders store shows (it lags), `before` what iCloud may put back.
Values are told apart by who set them. A span is resolved from the event before the setters
change it (`NeedsSpan`, `SpanOf`), and `Save` uses the one that was resolved.

**NotesPlanes**: a call picks the plane (`read_via_sqlite`), reads or writes and verifies. `app`
is what Notes shows, `disk` what the file holds, `shut` what cannot be read, `had` the facts
that were true at some moment of the call.

### Files, log, switches and the process

**AuditLog**: `live`/`old` are what the two paths name, `content` what each inode holds. The
steps of `audit_write` are its system calls: the size check, `replace`, `open`, the append.
The readers are `find_receipt` and `_left_sources`, each two file reads. `openedAt` and
`sinceStart` are history.

**DashboardRecords** takes the same log as a sequence of records and is what the Writes and
Backups pages make of it: `Rows`, `Follows`, `Ordinal`, `Outcomes`, `Card`. Its actions are the
records that calls write, rotations, and a process that dies.

**FileExports**: `entry` is the directory, `stage` the staging directory of each call, `pids`
what runs under each pid. Photos go through a staging directory and a link, mails through an
exclusive creation and a write in parts, attachments through Mail's own save with a check
before and a look afterwards.

**AdapterSwitches**: `file` is adapters_off, `gate` allow_send; `registered` and `snapshot` are
what the daemon read at its import, tool by tool. The page's requests take the lock, read,
write a temporary file and replace it; `allow-send` writes, then kicks launchd.

**DaemonSocket**: `path` is the file's owner, `dpc` the step of each daemon in `bind_socket`
(bind, probe of an existing file, unlink, second bind, listen) or in the end of `serve` and
`restart`; `cpc`, `via`, `cut` and `ran` are the tool calls of clients behind the shim.

**NativeWorker** is one process: the executor's queue and its job, the children and the
registry of children with its lock (bytecode by bytecode where a signal may fall), the ways to
end (parent gone, SIGTERM, atexit, the daemon's watchdog), and the Health page that waits
behind the same worker.

Three modules put two components side by side that read or write the same kind of thing:
**MailTexts** (DedupeMail and MailBodies), **AppStores** (EventKitWrites and NotesPlanes) and
**Dashboard** (AdapterSwitches and DashboardRecords); MCServerFiles does so with AuditLog and
FileExports. The two sides share no variable: in a behaviour one of them moves and the other
stays as it began. The `MC*` modules give TLC the instances, the `*_proofs` modules hold the
theorems.

## 3. Runs

| run | instance | what it shows |
|---|---|---|
| `recover_single` | 2 calls, 1 message stored once, 1 drag | whatever times out, crashes or lands late, the receipt replays what moved (`WhatMovedIsReplayable`); the plane implements RecoverableReceipts |
| `recover_copies` | 2 calls of any op, 2 copies of one message | nothing moves unplanned; `ok` and `not-in-source` claim no more than what happened (`AnswersClaimNoMore`); dedupes, even killed and landing late, never take the last copy (`OneCopySurvives`) |
| `texts` | dedupe: a copy in one account, two in another (one may be elsewhere or say otherwise), 2 runs with opposite orders or one of each kind, batches of 1, 1 unreadable file, 2 drags; bodies: 3 paths, a message that arrives as a partial and a draft, 2 changes by Mail, two builds or a build and a read; no Message-ID comes back with another text | a set is never lost with every run reporting success; only equal bodies are collapsed; nothing that body reads say or skip hides a text on the disk |
| `outgoing` | 2 calls, 2 drafts, 1 address | an error without the warning sent nothing and never will; a plain error after a rollback leaves nothing; an approved draft leaves Drafts only after its send |
| `reply` | 1 call, 1 copy by the user, 1 row of others, clock 0..3 | see below |
| `index_ids` | 1 build, 1 reader, 2 messages, 2 ROWIDs (3 in a rebuilt index), top-up of 1, 1 rebuild, 1 wipe | an answer without a note lacks no message that was never looked for, but after a top-up that was overtaken |
| `queries` | 3 rows in 2 conversations (symmetric); All Mail with an INBOX label and a folder of another account, 2 label rows, 2 changes | what may be moved is stored where it is shown; overview, search, duplicates, stats and own thread agree over every such index; dedupe announces what the table calls redundant, and deletes all of it unless it leaves a set alone, never a copy that has one of another size or date (two rows agree on these, the third does not) |
| `stores` | EventKit: 2 calls, a reminder with a subtask or a new one, an event, 2 lists, 1 change by the apps or iCloud; Notes: 1 call, 2 keys in 2 stores, 1 change by others | refused is never saved; no subtask goes unasked; "ok" of reminders is true when said; what Notes answers tell was true; a search without a note searched all |
| `files` | log: 2 writers with 3 records each, threshold 1, one undo reading; exports: 2 calls, 2 processes, 2 names, 3 messages of which two share a name, 2 changes | a record outlives one rotation; an uncut read is complete; files are as told; nothing is overwritten |
| `dashboard` | switches: 2 adapters (one sends), 2 requests, 1 terminal, 1 edit by hand, 1 crash; records: a move, its undo and that undo's preview, 1 rotation, 1 missing record, 1 tick | the last word stands; sending is as told; one write is one row, keeps its place, and "back" is true |
| `daemon_launchd` | 2 daemon processes one after the other, 2 calls, 3 exits | a crash at any step never keeps the daemon down; every call ends for its client; refused means it did not run |
| `worker` | a script and a store read, 2 loads of the Health page, the boot request | at most one thread waits for the Health page; every wait ends, except behind a read that never returns; a process told to end does |

`reply` checks that a report without a leftover is true then and later and a refused reply was
not accepted (`CleanReportIsTrue`), that only the call's own copy is deleted, that a reply
handed over or sent holds the text once with the quote that was asked for and no paste to
come, that the user's clipboard gets into a reply only if its discard was tried first and
failed, that what the user copied last is what is found (after a write), and that every call
ends.

**Why the bounds are enough.** The races are between two actors: two calls, or a call and the
user, or a build and a reader. A third adds no kind of step, and what the proofs reach
(section 5) does not depend on their number. Two copies are the least at which the folding of
answers, the surplus of dedupe and counts that hide each other happen; three copies let a
mailbox hold doubles beside a copy in another account. For the log, two writers are what a
double rotation takes, and six records let each cross the threshold twice. For the daemon,
three exits let every step crash, and the process that recovers crash again. In `reply` the
ticks keep the order of the code's three times (gap < wait = span < the end of the clock), so
that a discard is inside and outside the span and a read inside and outside the gap; a second
row of others only adds `unproven`. In `stores` one change by the outside is enough to revert,
move, complete or delete between any two steps; for EventKit two pass as well. In `files` two
messages that derive one name are what the exclusive creation is for, and two processes what
reused pids are. In `queries` each row may be a tombstone, labelled, or without an id, and two
label rows are a message shown in two mailboxes.
`CHECK_DEADLOCK FALSE` is set everywhere because finished calls, a log that is no longer
written and a daemon at its bound of exits really stop.

**Fairness.** MailRecover: weak fairness of each call's own steps; Python runs a started call to
its end and each native call has a host timeout (`ImplementsReceipts` needs none of it).
DaemonSocket: launchd's KeepAlive starts an ended daemon, a started one runs, a called tool
ends; nothing makes one exit. NativeReply: the call's own steps, and time. NativeWorker: the
worker's steps, the return of a call, the page's own timeout, the end of boot and of the exit
paths, the watcher's and the watchdog's look; children, signals, wedged reads and clients owe
nothing. All other modules have only safety properties.

**Assumptions of the models.** A verb that raises did not move its copy (the code's own reading).
A killed osascript may still have the event it sent and the rest of its batch land. Mail saves
one copy of a scripted reply, before or at most `Lag` after its window went; `SWEEP_GAP_S` of
the code rests on that measurement (`LagAssumption`), and the run checks that the gap is used
where it is needed. `Instant` names three places of `compose_insert` (the write, the read of
the count behind it, the restore) where a copy by the user would fall between a check and the
call right after it; the clipboard has no compare-and-set, so nothing can hold there. A
hand-written draft that reads exactly like the call's own, in the same account and landing
while the window is open, is left out: the source names it as its residual; nor does the user
send or close the reply window while the call still works in it. `QuitMayAccept`,
`SignalAnywhere`, `RebuildsAnytime`, `DragsAcross`, `ReadsMayDiffer` and `ReusesIds` are FALSE in
the runs; section 4 says what each of them breaks. MailBodies: a file whose text changes gets
another second or size; a message other than a draft keeps its text wherever it is filed again
(`MayHold`); a partial that has a text has the whole one; two paths of a message do not
stand at once; a build with `rebuild=True` runs alone; drafts are never partial. MailQueries:
NULL is no Message-ID and no mailbox, no Message-ID reads like the key `rowid:N` of a row without
one, and a row keeps its size and `date_sent`, here one value per ROWID (`QueriesAssumption`;
mail_index.py:446). NotesPlanes: one call at a time, and the grant of Full Disk Access stays
during a behaviour.

**Exceptions that are part of a property.** Three properties except what the code lets happen,
and name it: `NoSetIsLostSilently` a same-mailbox pass beside two opposite cross-account passes
(`OutOfStep`), the three properties of the log's rows the calls of an older version whose
records carry no call id (`old`, `MayBeMistaken`), `NoNoteMeansLookedFor` a process that kept
"floor" and a top-up that a harvest overtook (`Overtakes`). Section 4 tells how each comes about.

## 4. Observations

What the models show of the code beyond the properties that hold. No run states these; the
definitions named here are in the modules and may be checked by hand.

*Mail plane.* When an id's copies answer ERROR and unknown, the fold is plain text and the
receipt records `stayed` although the unknown copy may have moved (mail.py:1713–1725,
mail_recover.py:684–690). A trash whose delete lingers while the Trash count fell meanwhile is
recorded as stayed (mail.py:1846). So the replay property holds for messages stored once and
without trash, which is what its theorem assumes. An error of the second count comes after the
act (mail.py:1692), where mail_recover.py:459–460 says nothing acted (`ErrorMeansNothingActed`).

*Audit log.* Two writers that both saw a full file rotate twice: a full backup is gone
(audit.py:103).

*Daemon.* A second daemon started by hand between another's bind and listen unlinks a live path
and both serve; the first one's `finally` then removes the second's (daemon.py:88, 345).

*Native reply.* After a failed open that left no window, a reply that another program scripts
is discarded by the id-free path (mail_outgoing.py:606, 624–638). A retry claims the late copy of
its refused first call (1254). A sweep that answers `removed` has not waited for the gap.

*Outgoing.* A refused `send` verb re-raises plainly although its outgoing object stays, where
the comment at 161–163 speaks of cleanup (`LeftoverIsReported`). `stored_draft` passes the draft's
sender on without `owned_sender` (`SentFromAsReported`). With `QuitMayAccept` an accepted message
whose Mail quits before answering (-609, AppNotRunning) passes `_send_may_have_happened`
(1486–1495) unwarned. create_draft's host timeout of 30 s is below its script's 120 s. Two calls
with one draft_id both send. An autosaved stray copy stays after a send (#133), and an edit that
Mail saved under the same id would be removed unsent.

*Runtime.* With `SignalAnywhere`, a SIGTERM between two bytecodes of `terminate_children` on the
main thread deadlocks on `_children_lock` (runtime.py:229). Behind a plain native read that never
returns, every later call waits (runtime.py:77).

*Dedupe.* With `DragsAcross` all copies can end in Trash with both runs clean. A keeper account
whose only copy is in its own Trash may win. A batch acts by Message-ID on whatever its
mailbox holds by then. The same-mailbox pass has no post-pass and also runs over Trash mailboxes
that hold doubles. With three runs a set can be lost while all report success: of two opposite
cross-account passes the first to look finds its keeper, because the other's delete silently
did nothing, and a same-mailbox pass then takes that copy (`OutOfStep`; the proof attempt found
it, two runs are too few to show it).

*Ids.* A process that kept "floor" under a sidecar that exists notes nothing any more
(mail_index.py:996); `NoNoteMeansLookedFor` excepts it. A top-up that is measured from the
mark of the old index, once a rebuilt one has grown past that mark, and that lands after the
harvest which settles the new index, sets the mark beyond rows that neither of the two looked
for: reads lack them without a note until the next full harvest (`Overtakes`; mail_index.py:1071–1085, mail_ids.py:274–327,
against "never silently stale" at mail_index.py:1063). The build and the top-up are of two
processes, or of two threads of one. With `RebuildsAnytime` the top-up's mark can
pass rows that were never looked for. While the first build runs, reads answer from an empty
map without a note (`NeverSilentlyStale`). Rows of an index that Mail rebuilt stay in
`global_ids` and may be cited for reissued gids (`CitedIdIsOwn`; mail_ids.py:203, 225). Deleting
the newest message makes a "rebuilt" note.

*Queries.* A copy in another conversation is left out before the ranking, so a thread may cite
a lesser copy than the search (`ThreadCitesAsSearch`; docstring of `build_thread_query`).
`build_stats_query`'s docstring says unread iff every copy is, but MIN(read) = 0 iff any copy is.
A bare label whose key folds to a physical mailbox's reads as physical.

*Bodies.* An empty answer after the header filters carries no coverage note, though
`body_coverage`'s docstring says every empty one tells; `body=`'s LIMIT is applied before the
header filters; a build between the search and the coverage makes a full-coverage empty answer
false; a rename during the walk of `mail_bodies` gives a false "missing" (excepted by `still`);
when both `1.emlx` and `1.partial.emlx` stand, the partial sorts later and replaces; bodies of
deleted messages stay in the sidecar; with `ReusesIds` two builds record a stale body as
current: one reads a file, the message is expunged and comes back at another path with another
text under its Message-ID, the other build records that, and the first then stores what it had
read (mail_index.py:1705–1733); an unindexable file's INSERT holds the write transaction
until the next commit.

*EventKit.* The setters run before `_resolve_list` or `_resolve_calendar` may raise or the save
be refused: the kept object stays dirty, and a later complete_reminder saves the failed call's
values. That call answered an error, not "no change was made", so `RefusedIsNeverSaved` allows
it. The calendar's `_refetch_event` does not refresh, which is why `OkIsTrueWhenSaid` speaks of
reminders only. A stale kept subtask may be reported as completed.

*Notes.* A query without a word of two letters searches no bodies and carries no note;
undecodable bodies are left out silently; a delete is not verified, and its expect_title is an
Apple event of its own; a create or update killed by the host may land later; the store's lag
gives a false "did not persist"; `_read_title_by_id` and `note_bodies` have no trash filter.

*Switches.* With `ReadsMayDiffer` a toggle whose file becomes unreadable between its two reads
drops other names (`_apply_toggle`, dashboard/adapters.py:320–331). `_audit_lost` is forgotten at a
restart, and the watchdog may kill between the file's write and its record. allow_send is read
per send tool during the import. A page's write replaces an operator's edit made in between.

*Records.* A batch's row moves from its plan's place to its line's. A receipt page says "a later
mail_undo moved the messages back" also of a partial one, and hides the prompt, though it could be
repeated; it offers the prompt for a batch from which nothing left. An undo that died before
its line shows as move_mail. A line without receipt that lies apart from its done record shows
as a row of its own.

*Exports.* Two attachment saves into one name both answer ok though one replaced the other, a
window files.py:40–42 accepts. `confirm_written` and the unlink of `export_mail` remove whatever is
at the path by then. A save whose host wait (300 s) ended before its script's (600 s) may land
later. Staging residue in a directory that is never exported to again, or under a pid in use,
stays.

## 5. Proofs

What is proved holds for every value of the constants that the assumptions of the modules allow
(`NobodyAssumption`, `CopiesAssumption`, `TextsAssumption` and the like say that ids are distinct
and sets finite where the code has it so). Where a theorem assumes more, the last column says
what; section 3 or 4 says why, and what goes wrong without it.

| module | theorems | assuming |
|---|---|---|
| `MailRecover_proofs` | `TypeCorrect`, `EventsArePlanned` (NothingMovesUnplanned), `AnswersAreHonest` (AnswersClaimNoMore), `CollapsesSpareOne` (OneCopySurvives) | nothing |
| | `MovedIsReplayable` (WhatMovedIsReplayable), `ReceiptsAreKept` (ImplementsReceipts) | `SingleCopies`, `NoTrash` |
| `MailTexts_proofs` | `DistinctStay` (DistinctBodiesStay) | nothing: also with drags across accounts |
| | `NoneLostSilently` (NoSetIsLostSilently) | `~DragsAcross` |
| | `BodiesHideNothing` (BodyReadsAreHonest) | `~ReusesIds` |
| `NativeReply_proofs` | `TypeCorrect`, `KeptRepliesHoldTheText` (KeptReplyHoldsTheText), `ClipboardStaysOut` (ClipboardStaysOutOfReply) | nothing |
| | `NewestCopySurvives` (NewestCopySurvivesAWrite) | `ShortSteps`: no copy by the user in the three places of `Instant` |
| | `SweepTakesOwn` (SweepTakesOnlyOwnCopy), `CleanReportsAreTrue` (CleanReportIsTrue) | `NoneLanding`: no copy of an earlier scripted reply is still to land |
| `OutgoingMail_proofs` | `TypeCorrect`, `UnwarnedIsUnsent` (UnwarnedErrorSentNothing), `RollbackHonest` (RollbackIsHonest), `DraftsFollow` (DraftsFollowSends) | `~QuitMayAccept` |
| `AppStores_proofs` | `RefusedStaysUnsaved` (RefusedIsNeverSaved), `SubtasksAsked` (NoSubtaskGoesUnasked), `OkIsTrue` (OkIsTrueWhenSaid), `AnswersWereTrue` (AnswersAreTrue), `SearchIsComplete` (NoNoteMeansSearched) | nothing |
| `Dashboard_proofs` | `LastWord` (LastWordStands) | `~ReadsMayDiffer` |
| | `SendingAsTold` (SendingIsAsTold), `RecordsOfOneCall` (RowsAreCalls), `BackWasMoved` (BackIsTrue), `RowsStay` (RowsKeepTheirPlace) | nothing |
| `Server_proofs` | of the log `TypeCorrect`, `OneRotationKeepsRecords` (OneRotationLosesNothing), `QuietReadsComplete` (QuietReadIsComplete), `FilesBounded` (FilesStayBounded); of the exports `FilesTold` (FilesAreAsTold), `NothingOverwritten` (NothingIsOverwritten) | nothing |
| | of the daemon `DaemonTypeCorrect`, `RefusedNeverRuns` (RefusedMeansNotRun) | nothing: also with a second daemon |
| | of the worker `OneThreadWaits` (ThreadsStayBounded) | nothing: also with signals anywhere |
| `MailReads_proofs` | of the sidecar `NoNoteIsHonest` (NoNoteMeansLookedFor) | `~RebuildsAnytime` |
| | of the queries `MovesAreStored` (WhatMovesIsStored), `ReadsAllAgree` (ReadsAgree) | nothing |

The runs `stores`, `texts` and `dashboard` check two components side by side. `StoresAreBoth`,
`TextsAreBoth` and `PagesAreBoth` prove that such a composition behaves as each of its parts, so a
theorem about EventKitWrites, DedupeMail or AdapterSwitches holds of it.

How they go. None of the properties is inductive as it stands; each proof has an invariant that
is, one lemma per action (or group of actions) that it is kept, and a last step in temporal
logic. The invariants were checked by TLC on the runs' instances before they were proved.
Where an argument is by induction over a finite set or a sequence, it is put as one over a least
counterexample (`WFMin` of the library's WellFoundedInduction), because the induction theorems
themselves take an operator that the provers cannot instantiate.

- *MailRecover.* `PlanInv` ties a copy filed by a late event of a killed call to that call's
  plan: an op past its plan, and one with late events, is in `plans`. `ReplayInv` adds what a
  call still knows of each copy it filed (`Filed`: asked for, in the destination, its answer
  `sent`, `moved` or `unknown` up to the fold, its `left_source` not `stayed` after it), what the
  log holds at each step (`LogOK`), and that what is read or lands late was asked for
  (`TargetsOK`). `StepFrame` says what a step of one call leaves alone of the others,
  `OthersKeep` that this suffices for their invariants. `MovedIsReplayable` is false without
  either assumption (section 4). `ReceiptsAreKept` goes action by action: a plan is a `Promise`, a
  verb or a late event a filing, a done record a `Settle`, an expiry's record too, and everything
  else leaves what the receipts say as it is. `CollapseInv` is the argument that dedupes spare one
  copy: whatever a dedupe has captured beyond the first copy of a message, or may still delete
  late, is *condemned*, and every condemned copy is *outlived* by an earlier copy of the same
  message in the same mailbox; the earliest copy is never condemned, by however many dedupes.
  `AnswersAreHonest` keeps, for each copy, what its call reported of it (`FiledKnown`,
  `ReportIsTrue`), and the fold can only weaken that (`FoldClaims`).
- *DedupeMail.* What a run will delete, may still delete late or has deleted is of one body with
  what it is weighed against: `CrossInv` for the planned sets, `SameInv` for the rows read again.
  `IdleInv` and `LateInv` say when a run has nothing in hand; bodies never change, so plans may
  be as stale as they like. For `NoneLostSilently`, `AnswerInv` says what a run owes for the copies
  it took: a cross-account run takes only against a keeper it still has to look for
  (`AgainstKeepers`), a same-mailbox run only copies with an earlier one in the same account
  (`AllButTheFirst`), so when the last copy of a message goes, one of the runs has not looked
  yet or has said that its keeper is missing (`SomeoneOwes`).
- *MailBodies.* `BodiesInv`: a stamp names one text of a path, so what a build has in hand is that
  text or its stamp is no longer the file's (`InHand`); what it recorded without a text has none
  (`OpenTextless`); and what a read has found so far is complete unless something changed since
  it began (`AskInv`).
- *NativeReply.* `ReplyInv` is the conjunction of what is known at each step of the flow (`FlowOK`),
  of the keys posted and what they did to the body (`KeysOK`), of the clipboard while it is
  borrowed (`BorrowOK`), of Mail's window (`WindowOK`) and of the claim on a late copy
  (`ClaimOK`); it has no assumption. `RowsOK` tells the call's own row from all others by the time
  and place where rows can land, which is what the sweep relies on; `EndOK` says that after a
  clean report no copy can land any more; `ClipboardOK` follows the change count through
  `compose_insert`.
- *OutgoingMail.* `Shapes`: at each step (`StepFits`) and after each answer (`AnswerFits`) what
  outgoing message of the call there can be in Mail and what event can still be on its way.
  `DraftInv` ties a removed draft, and a removal to come, to an accepted message.
- *EventKitWrites.* `TraceInv`: the values of a call that has not begun, has called no setter yet
  or has said that it changed nothing are on no item, on no kept object and in nothing that
  iCloud may bring back (`NoTrace`); a later save can only take values from there. `RunInv`: the
  subtasks the store has shown throughout are among those it listed to the delete. `TakenInv`
  carries that from the remove to the answer. `ViaInv` adds whose target the running call has,
  for the step that says "ok".
- *NotesPlanes.* A running call remembers every fact that was true while it ran (`Recalls`); what is
  asked at each step (`Shape`), that a note which nobody touched is in the file as in the app
  (`Stays`), and what lies between the two statements of a search (`BetweenReads`) give both
  theorems.
- *AuditLog.* `Placed`: an acknowledged record, and the one a writer is about to append, is in an
  inode that is the live file until the first rotation after the open and the backup until the
  second. `BackupSeen` and `AllSeen` say what a pass has read so far. `SizeInv`: a file beyond the
  threshold has room for the writers that are still `Heading` for it, and for nobody else.
- *FileExports.* Per call: what it remembers fits its step (`Route`), which entries are its own and
  what they hold (`Files`), and where it runs (`Place`). `FilesKept` is what a step of one call does
  to the files of the others.
- *AdapterSwitches.* What a request knows from its look at the file is still so while it holds the
  lock (`LockInv`); the file says what was asked last (`WordInv`); what a toggle is about to write
  changes its own adapter only (`NextWordInv`). For `SendingAsTold`, the tools registered so far
  agree with the gate the terminal wrote last, import by import (`ImportInv`, `ToldInv`).
- *DashboardRecords.* `RecordsInv`: what a record says of its call (`Honest`), that no call writes two
  records of one phase, and that a line next to another batch's done record, where the page may
  join the two, belongs to a call that ran beside it (`NextToRanBeside`, kept by `LastRanBeside`);
  a rotation cuts the log without breaking any of it. For `RowsStay`, a step that does not cut the
  log adds at most one record (`StepOfLog`); with it a batch's row stays where it is or goes to
  the end, and only a waiting one goes (`LinesStay`, `PlaceStays`), a batch or a line that is new
  stands at the end (`NewPlace`, `LoneLater`), so that the rows before a settled row in its second
  correspond one to one to those of the longer log (`OrdinalStays`).
- *DaemonSocket.* A call that was refused, or never sent, is in no daemon's hands (`Unsent`).
- *NativeWorker.* `PageInv`: the Health page's lock is held by a thread exactly while that thread
  asks doctor, and what it asked is in the queue or running once, and nowhere else
  (`AskedOnce`). So the bound does not rest on the page's timeout, which leaves the thread behind.
- *MailIds.* `IdsInv`: a build that runs holds every row up to the highest that it holds
  (`SnapInv`); in a settled index nothing below the mark, and nothing below the point from which a
  top-up was measured, is missed (`SettledInv`, `TopInv`); and where the index is not settled, what
  is missed there is in the hands of the build that will settle it (`WholeInv`). The attempt to
  prove it found the top-up that overtakes (section 4, *Ids*).
- *MailQueries.* The reads are operators, so the work is in lemmas about them. `RowsInv` says that
  an index is finite with one row for each ROWID. Rank, date, ROWID and mailbox order the copies
  of a message strictly, so each message is cited once (`FirstHit`, `CitedOnce`); counts agree where
  one set maps onto the other one to one (`OverviewIsSearch`, `OverviewIsDistinct`), and a set less
  one representative of each key is what is redundant (`Representatives`, `BeyondFirstCount`). The
  duplicates table counts over all stored rows, `dedupe-mail` over the rows that have a copy
  (`RedundantIsAnnounced`); it deletes fewer just where it leaves a set alone (`DeletesAnnounced`),
  and only from sets whose copies agree on size and date (`DeletesIdentical`).

Only model-checked: liveness (`EveryReplyEnds`, `ServesAgain`, `EveryCallEnds`, `EveryWaitEnds`,
`EndsWhenTold`), since fairness and ENABLED are out of the prover's reach.

## 6. Plan

Done: the modules of section 2, in the order mail plane, log, daemon, reply, worker, dedupe,
ids, queries, outgoing mail, EventKit, notes, switches, records, exports, bodies; and a theorem
for every safety property that the runs check.

Next, in this order:

1. Theorems about the promises of single steps that no run states yet: of MailIds that a full
   harvest settles the index, of ClipboardPaste that a borrow that ends has restored or told.
2. One composition: DedupeMail over RecoverableReceipts, so that what a batch reports is what
   the receipts allow.
3. Install and upgrade of `deploy.py`: the order in which the environment, the agent and the
   shim's configuration are replaced.
4. The grammar of `mailbox_url.py` and `mail_addressing.py` as functions over segments: parse and
   build are inverse on the urls that the index holds.
5. Larger instances of `texts` (four copies) and `index_ids` (a build beside two readers).

## 7. Not modelled, and why

Decoding of `.emlx`, protobuf and plist data (abstracted to "readable or not"), rendering of pages
and answers, HTTP and FastMCP's dispatch, launchd and TCC themselves, the thin adapters
(contacts, messages, music, safari, shortcuts) whose calls are one Apple event or one query each
with no state of their own, argument parsing, and the wording of errors. The grammar of mailbox
addresses is used as classes of mailboxes (roles, accounts, labels) and not parsed. Inside the
modelled components:

- mail plane: `purge_backup`, the label and ambiguous-Trash refusals before the plane, the folders
  of an undo's targets, how the osascript of a batch is chunked;
- log: the usage log and the repair of the directory;
- outgoing: texts, html and attachments beyond the kind of a draft;
- sweep: signature shapes and quote splitting, which are one predicate (`ours`);
- reads: result limits and ties of dates, Sent triage, the listing of attachments;
- EventKit: alarms, reads, free/busy, the creation of lists, ids reissued by a move between lists;
- notes: folders, and the persistence of a body;
- exports: what is in a file, the sanitising of names and the containment in the root (a name
  is an entry of the directory);
- runtime: the schema fingerprint and the Photos door;
- dashboard: rendering, the guard's tokens, Grants and Usage;
- registry: notices and contracts; deployment: install and upgrade; doctor: its reports.
