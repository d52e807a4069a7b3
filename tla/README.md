# Verification of KilnCMS

TLA+ models of the parts of KilnCMS in which independent processes share state,
the TLC instances that check them, and theorems about them proved with TLAPS.
KilnCMS is an Elixir application (Phoenix, Ash, Oban, Postgres) with a good deal of
code in browsers: the admin's LiveView hooks, a JavaScript SDK and a bridge that
front ends embed.

On the server a content action commits, effects run after the commit in the same
process, and the rest is done by Oban jobs that retry, run concurrently and are
re-run after a crash. Nearly every hazard there comes from that shape: a worker
reads a row, does something slow, and writes what it decided on the old copy. In
the browser the shape is the same with other actors: a page acts on what it was
last shown, its pushes and the answers cross each other, timers race both, and the
line drops with all of it under way.

## Contents

| file | what it is |
|---|---|
| `Webhooks.tla` | the webhook pipeline: fan-out, ledger, worker, endpoint health, recovery, announcement |
| `Propagation.tla` | propagation records, and the CDN purge they wait for |
| `ReleaseContract.tla` | what a content release promises: its life cycle and its two moments of effect |
| `Releases.tla` | a content release: composing, claims, the worker and its transaction, roll-back, the documents; it implements `ReleaseContract` |
| `DraftEditing.tla` | a draft open in two editors: autosave, the optimistic lock, field locks and takeover, dropped lines |
| `SyncMirror.tla` | the sync API and the SDK's `sync()`: a consumer that mirrors the public site by polling |
| `Collab.tla` | one block edited in real time: pages, channels, the room's server |
| `ClientCalls.tla`, `BridgeStream.tla`, `ImageSrcset.tla` | the SDK's other calls, the live-preview socket, responsive-image URLs |
| `LineWatch.tla`, `FlashTimer.tla`, `PushOptIn.tla`, `OfflinePage.tla` | the admin page's watch over its line, its flashes, its push subscription, its offline page |
| `MarkdownPaste.tla`, `ListPaste.tla`, `ListOrder.tla`, `ReferencePicker.tla`, `TagPicker.tla`, `Dialogs.tla`, `Accordion.tla`, `Calendar.tla`, `AdvisoryJump.tla` | the editor's widgets, each with the handler it talks to |
| `MCWebhooks.tla`, `MCPropagation.tla`, `MCReleases.tla`, `MCWidgets.tla`, `MCLists.tla`, `MCClientSide.tla`, `*.cfg` | the TLC instances; `MCClientSide` composes the modules of the browser side, with those of `MCWidgets` and `MCLists` |
| `WebhooksProofs.tla`, `PropagationProofs.tla`, `ReleasesProofs.tla`, `DraftEditingProofs.tla` | the theorems about the server and the draft editor |
| `Subsequences.tla` | the filters of the code (`Enum.filter`, `Array.filter`), told without recursion |
| `ListProofs.tla` | lemmas about filters, numberings and sequences laid end to end; the lists of a paste, the reference picker and dragged lists |
| `WireProofs.tla` | the theorems about the SDK (`SyncMirror`, `ClientCalls`) and about a page and its line (`Collab`, `LineWatch`) |
| `WidgetProofs.tla` | the invariants of seven widgets and hooks |
| `ClientSideProofs.tla` | the image URLs and the advisories' marks, and what all of it comes to in the composition `MCClientSide`, whose properties its theorems state |
| `PROJECT.json` | the inventory of components, runs, mutants, the map to the source, hazards, findings and theorems |

In every module a definition whose name has an underscore (`Ready_AnyPurge`) is
a plausible mistake in the definition of the same name; no action uses it. It
is there so that each property can be shown to catch a bug of the code.

## Inventory

| component | state | operations | what is hard |
|---|---|---|---|
| **Webhook delivery** (`webhooks.ex`, `webhooks/`, `cms/webhook_*.ex`) | endpoints (active, consecutive failures, auto-disable stamp), ledger rows, Oban jobs | dispatch after commit, fan-out, ping, redeliver, POST, settle, auto-disable, recover a lost retraction, announce a loss, edit, delete, prune | workers, an admin's form and deletions interleave; the outcome is settled in several statements; a node may stop between any two |
| **Propagation and CDN purge** (`propagation.ex`, `cdn.ex`, `cdn/purge_worker.ex`) | one row per transition, with counts over the ledger and a purge verdict | open, settle by a delivery, settle by a purge, complete | several settlers decide who is last; purges coalesce; a release's rows become visible together |
| **Releases** (`cms/releases.ex`, `content_release.ex`, `release_worker.ex`) | release state, items with verdicts, a snapshot for roll-back | schedule, claim, go live in one transaction, fail, abandon, roll back, archive | claims are compare-and-set, later marks are not; crash leaves `:publishing`; stale admin pages |
| **Effects after commit** (`after_commit.ex`) | a per-process queue | defer, flush, drop on roll-back | nested transactions |
| **Content workflow, working copies** (`cms/content.ex`, `cms/working_copy.ex`) | document state, version, working copy | submit, approve, publish, unpublish, archive, trash, promote the working copy | optimistic locking; a scheduled publish racing an editor |
| **Draft editing** (`content_editor_live.ex`, `content_editor/session.ex`, `collab/field_lock.ex`, `assets/js/rich_text.js`) | per tab an editor host, a LiveView with a form and a save state; the row with its version; a lock per field | type, push, autosave, save, reload, lock, take over, flush, rejoin | everything is fire-and-forget over a line that drops with its process |
| **Firing and the sync API** (`firing/`, `clients/js`) | fired artifacts, versions, cursors; reference edges, sweep queue | fire on publish, purge, page through a snapshot or a delta; re-fire referencing documents, sweep | a version shows after its timestamp; an artifact is fired after the version; a call dies between two pages |
| **Governance chain** (`governance/`) | an append-only hash chain, Merkle checkpoints | append, checkpoint, verify | concurrent writers to one chain head |
| **Real-time collaboration** (`collab/doc_server.ex`, `collab_channel.ex`, `assets/js/collab.js`) | a CRDT document per page and in the room's server, a checkpoint, the record | join, seed, update, checkpoint, materialize, idle stop | who seeds an empty room; a join answer that is lost |
| **JavaScript SDK and bridge** (`clients/js`, `priv/static/bridge.js`) | a call's legs, retries and idempotency key; a socket with its token and back-off | read, write, upload, retry, abort, reconnect, renew a token | an answer cut off on the way; a token renewed while the old one is refused |
| **The admin page** (`assets/js/`, `priv/static/sw.js`) | the line and its notices, flashes, push subscription, offline page, pastes, pickers, lists, dialogs, calendar, advisories | what an editor does, and what the server answers meanwhile | the page acts on what it was last shown |
| **Cache** (`cache.ex`, `cache/cluster_bust.ex`) | per-node cache | read-through, bust, cluster bust | a fill racing a bust |
| **Billing, newsletter, federation** | provider events, mails, inbox | idempotent event handling, one mail per subscriber, replay protection | duplicates and reordering |
| Automation, notifications, push, social, experiments, forms | | best-effort consumers of the same events | little shared state |
| Media, search, assist, accounts, rendering | | I/O, ranking, policies, formatting | not state machines this project could check |

What makes each correct: a webhook row never claims what did not happen and a
retraction is never lost unseen; a propagation record completes once, with true
counts, after everything it waited for; a release goes live entirely or not at
all, once; a document's published artifact is the one last published; the chain
has one head; a word an author typed is saved, still before the author's eyes, or
the author is told; a mirror has no hole and no ghost; a caller learns what became of
the call; a cache forgets what changed; an event is applied once.

## Webhooks

**State.** `endpoint[e]` is the `webhook_endpoints` row (present, active,
consecutive failures, and the stamp `auto_disabled_at`, `"fresh"` for
`retraction_stale_after_days` and then `"stale"`). `ledger[i]` is a
`webhook_deliveries` row, `job[i]` the Oban job that delivers it and `worker[i]`
the process performing it, with the endpoint *as it read it*. `request[r]` is a
process that runs a content action and fans its event out; `form[e]` is the
endpoint as an open admin form holds it. `heard`, `notice`, `switchedOff` and `lapsed`
are history variables: what receivers acknowledged, what `RetractionLost` announced,
which endpoints an admin switched off, and which rows a kill or a failed database call
of their own left unfinished.

**Actions.** One per database statement, so that everything interleaves:
`Commit`, `FanOut`, `CreateDelivery`, `InsertJob`, `Report` (the request), `Fetch`,
`Read`, `Post`, `Record`, `RecordDeliverySuccess`, `MarkRecovered`, `Surface`,
`RecordDeliveryFailure`, `Finish` (the worker, in the order of
`DeliveryWorker.settle/4`), `Ping`, `Redeliver`, `Register`, `OpenForm`,
`SaveForm`, `DeleteEndpoint` (the admin), `Age`, `Prune`, `CrashWorker`,
`CrashRequest`, `Rescue` (time, retention, crashes and Oban's Lifeline). Any of the
database calls may fail: `RequestFails` raises into the caller, `ReadFails` ends the attempt
unsent, `RecordFails`, `HealthFails`, `RecoveryFails` and `SurfaceFails` are logged and passed
over, as the worker's `{:error, _}` branches and rescues do.
`MarkRecovered` lists the lost rows and stamps them in one step: no other step
writes `recovered_at`, and a row that fails between the list and the stamps is
one the listing did not see, which is the step taken earlier.

**Abstractions.** An event is its verb and document; a verb is `published`,
`withdrawn` (a retraction verb on a live document), `tombstone` (the same on a
draft) or `ping`. Subscriptions, payloads, signing, secret rotation and the delay
of the backoff are left out: a retry may run at any time, which allows more
interleavings than the backoff does. Oban is modelled as the code uses it: an attempt
is counted when it starts, a returned `{:error, _}` retries or discards,
`{:cancel, _}` cancels, a killed job stays `executing` until Lifeline re-runs or
discards it.

| run | instance | what it shows |
|---|---|---|
| `webhooks` | one endpoint, one document already published, two rows, two edit forms or deletions, one kill or failed call, auto-disable at the first exhausted delivery, fair scheduling | `TypeOK`, `PendingHasJob`, `LostRetractionAnnounced`, `RecoveredMeansTold`, `LedgerTruth`, `SettledForGood`, `RetractionSparesHealth`, `StampSurvivesPipeline`, `EveryDeliverySettles`, `EveryJobEnds` |
| `webhooks_switched_off` | two rows, two edits | **violated** `SwitchedOffRefuses` |
| `webhooks_silent_loss` | two rows, one kill or failed call | **violated** `RetractionNotSilentlyLost` |

**Bounds.** `MaxDelivery` ledger rows, `MaxStarted` transitions, pings and
replays, `MaxEdits` edit forms opened and deletions, `MaxFaults` kills and failed calls. Two rows of one
endpoint are what a race on its health needs, and give a retraction that is lost with
a later one that recovers it, which takes a document `Published` before the
first step; one fault per execution reaches every point at which a
process may stop or a call fail. Thresholds are scaled down (auto-disable after 1 rather than 10,
attempts 1 and 2 rather than 5 and 30): the code compares with them and does nothing
else. The one thing a threshold of 1 hides, a count that spans a success, is described
below; the theorems hold for every threshold.
`PendingHasJob`, `LostRetractionAnnounced`, `SettledForGood` and `EveryDeliverySettles`
except the rows in `lapsed`: a row whose own process was killed, or whose own job insert, last
read or ledger write failed, is left as it is by the code. The others hold of every row.

**Fairness.** Weak fairness of a request's next statement, of a worker's next
statement, of `Fetch` (Oban stages and takes the available jobs) and of `Rescue`
(Lifeline runs on a timer, `application.ex:264-292`). No fairness for admins,
content actions, time or crashes.

## Propagation and the CDN purge

**State.** `record[a]` is the `propagations` row of action `a`; `delivery[a][e]`
the webhook delivery of that action to `e` with its job and worker, in the
detail that settling needs; `purge[a]` the purge job `a` inserted, with what its
worker holds; `stamped` the actions whose `cdn_enqueued_at` has been read off
the clock, so that "enqueued before this purge started" is membership in
`purge[q].begun`, the value of `stamped` when the attempt started; `txn` the
release's transaction. `covered` and `lapsed` are history: what had committed when a purge the
CDN then acknowledged was sent, and which actions' own dispatch or settling a kill or a
failed database call cut short.

**Actions.** `Commit`, `StampAfterCommit`, `OpenRecord`, `EnqueueDelivery`,
`FannedOut`, `EnqueuePurge` (the action's process); `StampInRelease`,
`CommitRelease`, `RollBackRelease`; `FetchDelivery`, `RecordAttempt`,
`SettleDelivery`, `CompleteDelivery` (a delivery worker: a read of the record
with its counts, then an update); `DuePurge`, `StartPurge`, `PostPurge`,
`ListPending`, `StampCdn`, `SettlePurge`, `CompletePurge`, `FinishPurge` (a purge
worker); `UnsetPurgeUrl`. The completing update and its telemetry event are one step.
Processes are killed (`CrashAction`, `CrashDelivery`, `CrashPurge`), and the database calls
that the code only logs may fail: opening the record (`OpenFails`), the fan-out (`FanOutFails`),
inserting the purge (`PurgeFails`, the rescue of `purge_site`), the write of an attempt
(`AttemptUnrecorded`), and the reads and updates under the rescues of `settle/2` and
`cdn_settled/3` (`SettleDeliveryFails`, `SettlePurgeFails`, `CdnSettledFails`). After most of them
the job ends `:ok` and the record stays open, which is what the moduledoc says of it
(`propagation.ex:58-63`): the properties about records that settle leave out the actions in
`lapsed`, and those alone; other records are unharmed by it.

| run | instance | what it shows |
|---|---|---|
| `propagation_records` | two actions, two endpoints, two attempts of everything, one kill or failed call, at most one of the actions a transition | `TypeOK`, `CompletedTruthfully`, `CompletedAfterPurge`, `EmittedOnce`, `SomeoneSettles` |
| `propagation_live` | an ordinary publish beside a release, both with purges alone; or one of them alone with two deliveries and a purge; two attempts of everything, one kill or failed call, fair scheduling | `AcknowledgedCovers`, `PurgeFollows`, `EveryRecordSettles` |
| `propagation_release` | an ordinary publish beside a release, purges alone, no faults | **violated** `AcknowledgedCoversAll` |

**Bounds.** Two actions are the least that coalesce or race; two deliveries and
a purge are the least with three settlers of one record. In
`propagation_records` the constraint `OneTransition` keeps at most one record:
records share nothing but the purge, and the other action's purge runs beside it.
Endpoints are symmetric there: no property names one and the run has no
liveness. In `propagation_live` the constraint `DeliveriesAlone` lets an action have deliveries only
where it is the only one: that is the race of the last settlers under fairness, in which either
delivery or the purge may be last, and any of them may be killed, retried or fail to settle. With two
actions it is the race of two purges and a release's transaction. The constraint bounds what is
dispatched and cuts no behaviour after that.
`AcknowledgedCovers` is about the records of ordinary transitions, with a release beside them; of a
release's own it is false, which `propagation_release` shows.

**Fairness.** A process goes on running and Oban goes on staging and taking
jobs; a killed job runs again, or is spent, in the step that kills it. Kills and failures are not fair: a bounded number
of them happens or not.

## Releases

**State.** `release` is the `content_releases` row (its state, whether
`published_at` is set), `item[d]` the latest `release_items` row for document `d`
with its action, status and the two things captured for the roll-back, `doc[d]`
the document: workflow state, text, the text `published_version_id` remembers,
the working copy with the live text it is based on, and whether `updated_at` is
past the release's last write of it. `job[j]` is the j-th worker job with its
process: the items it listed, the item it is at, the document as fetched, and the
rows it has written in its open transaction. `page[a]` is the release as a
console page shows it. `edit` is an item write that has been validated and not
made. `owner`, `shipped`, `lapsed` (the jobs that were killed, or whose own read or write of the
release failed) and an item's `live` and `clean` are history.

**Actions.** Editors: `Update`, `SaveWorkingCopy`, `PublishChanges`, `PublishDoc`,
`UnpublishDoc`, `ArchiveDoc`, `MoveDoc`, `TrashDoc`. Composing: `BeginEdit`
(validation), `FinishEdit` (the write). Console and cron: `CronClaim`,
`PublishNow`, `RollBack` (compare-and-swap, job inserted in the claim's
transaction), `Schedule`, `Unschedule`, `Reopen`, `Archive`, `Delete`, `Abandon`,
`Refresh`. Worker: `Begin`, `List`, `Fetch`, `Apply` or `Undo` per item, `Commit`,
`Abort`, `RecordFailure`, `Announce`, `Raise`, `AbandonRun`, `Rescue`, and what leaves a claim to
an admin, `Lapse`: a job that cannot read its release (`ReadFails`, the error branches of
`release_worker.ex:41-52`), an outcome that cannot be written (`FailureUnrecorded`,
`releases.ex:391-401`), an abandon whose write fails and is swallowed (`AbandonFails`,
`release_worker.ex:91-95`), and `Kill`. The
transaction is modelled by what others see: rows it has written cannot be written
by others, are invisible until `Commit`, and vanish at `Abort`, `Raise` and `Kill`.
A read inside it sees what is committed, so the record fetched may be stale when
its transition's own filter judges the row.

**What the surroundings may get wrong** is the constant `Slips`. With no slips, an
admin clicks on a page that shows the row, abandons only a claim whose worker is
not running (what the console asks to confirm), no item write straddles a claim,
and a claim is taken when the last job has ended. `"stale_page"`,
`"blind_abandon"`, `"late_edit"` and `"quick_restart"` each drop one of these. The code excludes
none of them, and the life-cycle promises depend on them: with `"late_edit"` an item written after an archive goes
on reserving its document (`ReservationsEnd`), with `"quick_restart"` a claim has no job (`ClaimIsOwned`), and with
`"stale_page"` a button writes over a claim (`ContractSpec`); setting the constant shows it. What a roll-back does to a document depends on none.

| run | instance | what it shows |
|---|---|---|
| `releases_contract` | no slips, two documents, two claims, an editor's write, one kill or exception, any failed read or write of the release, fair worker | `TypeOK`, `ClaimIsOwned`, `ReservationsEnd`, `ShippedIsUndoable`, `ContractSpec` (refinement), `ClaimsEnd` |
| `releases_rollback` | every slip, one document, two texts, two claims, an editor's write | `RollbackPutsBack`, `RollbackSparesOthers` |
| `releases_inexact_rollback` | no slips, one document | **violated** `RollbackIsExact` |

`ClaimIsOwned` and `ClaimsEnd`: a claimed release has a job that will run or a worker that runs, and
its claim ends, unless the claim's own job was killed or its own read or write of the release failed
(`lapsed`). Nothing else excuses it: another job's failure does not, and neither does a failing item.

`ContractSpec` is the refinement: under `state <- release.state`,
`launched <- release.published` and `inForce <- ` the documents with an applied
item, every step of `Releases` is a step of `ReleaseContract` or leaves it alone.
In particular only a claimed release launches, all its applied items come into
force in the step that says so, and a roll-back withdraws them together or not at
all. `RollbackPutsBack` is about each document the worker undoes: one that was live
is left live, with the text that was live, and one that was not is left down and, if
it was in review, not in draft. Its text claim is made for *clean* items: the
item's action did not change under the worker, nobody wrote the document between
the worker's fetch and its transition, `published_version_id` named the text that was
live, and taking the document down folded no working copy. The last two conditions
are real gaps of the code, and the violation run shows one of them.

**Bounds.** `MaxFaults` counts kills and exceptions; failed reads and writes of the release are not
counted. `MaxClaims` jobs: two are a launch and its roll-back, a launch and its
retry, or two workers of one claim. `MaxEdits` editor's writes; one is enough since
documents start as a draft, live, or live with a working copy. Two documents make "all or none" mean something; in the roll-back
runs, where each property is about one document, there is one and there are two
texts. The contract run has one text: its properties name none.

**Fairness.** Weak fairness of each worker's next step (Oban runs what is enqueued, and a
running process goes on), for `ClaimsEnd` only. After a `Lapse` `Abandon` is the only way
out, as `content_release.ex:297-305` and `releases.ex:391-401` say, and nothing is assumed of admins.

**Left out.** A second release: it shares documents with this one, and what it does to
them is an editor's write here; the reservation between releases is one unique
index. The order of items in the walk (any order is allowed). The size limit, the
readiness panel, events and notifications, authorship and policies. Recording an
editor's `published_version_id` is one step with its publish.

## Draft editing

**State.** One draft with one rich-text block, and the sessions that have it open with
real-time collaboration off (the default). `browser[s]` is the block's host on the
page (text, running debounce, whether it was edited, the version and the editor
generation it shows, whether it looks locked), `line[s]` and `wire[s]` the connection and
what was pushed over it, `server[s]` the LiveView (the version `@record` and the form are
built on, its text, its save state, conflict, an outstanding flush), `record` the row with
its `lock_version`, `lock` the block's field lock with the requester waiting for it. `typed`,
`everSaved`, `told` and `remounted` are history: what each author typed, what any save wrote,
what an author was told is not saved, what a rejoin dropped. A text is the set of edits it
shows; every message carries it whole, as the hook does, so an edit is lost by being absent
from a later write.

**Actions.** `Type`, `PushBody` (the 300 ms debounce), `PressSave`, `HearFlush`, `Patch` (the
page); `Receive` (a body, a flush's answer or a save, in the order pushed), `Autosave`,
`FlushFallback`, `ReloadConflict`, `Focus`, `Blur`, `Takeover` (the process and its lock
events); `HoldEnds`, `FlushTimeout` (the lock server); `Drop`, `ProcessGone`, `Rejoin` (the
line). `Submitted` is the optimistic lock: it judges the version it is given, `@record`'s for
the autosave and the form's for Save. Any save may be refused for another reason (`Refused`: a
validation, the database): an autosave leaves the save state `"error"` and is not retried until the
next edit (`content_editor_live.ex:5597-5601`), a Save has cancelled the timer of the edit it leaves
in the form (`"held"`, which is `:pending` in the code), and a flush whose autosave is refused gives
the lock away all the same (`session.ex:565-576`). `KeptHost` and `ReplacedHost` are the two things a
rejoin does with an ignored host.

| run | instance | what it shows |
|---|---|---|
| `editing` | two sessions, two edits, three events, any save refused, fair processes | `TypeOK`, `OnlyRemountsLose`, `TakeoverNoteIsTrue`, `EveryEditSettles` |
| `editing_overwrite` | the same | **violated** `NoSilentOverwrite` |

`TakeoverNoteIsTrue`: what the holder reads of an answered takeover is so. Where the note says the
changes are saved, all that the block showed was written or refused aloud; where it says they are
still in the form, they are. `EveryEditSettles`: an edit ends saved, refused aloud as a conflict,
dropped with a replaced host, or for ever in a form whose save state or flash says why it is not saved.

**Bounds.** An *event* is somebody typing, asking for a held field or pressing Save, or a line
that drops; three of them hold every pair with a third beside it (an edit here, an edit there
and a drop; an edit, a takeover and a drop). Refusals, pushes, saves, timers, locks and rejoins are not
counted.

**Fairness.** A debounce fires, a process handles its mailbox and its autosave timer, a process
without a line goes, and a page whose line dropped rejoins. Nothing is assumed of people.

**Assumptions.** Nobody types between asking for a lock and its answer, or in the moment a
remount is on its way to the page. The clicks of the conflict and takeover dialogs come 300 ms
or more after the last keystroke. The other sessions hear of a save at once (one that heard after
its own next edit behaves as if that edit had come first). The version a host shows is the last
one it heard before the drop, and the old process is gone before its browser rejoins. The record
is a draft; `assign_record` after a save is one step with it. Other blocks and fields of the form
are left out.

## The sync API and a mirror

**State.** On the server, per document: what is `public`, the `fired` artifact, whether a fire
is queued, a write inserted and not committed (`writing`), the times of its committed
`versions`; `exposed` is `SyncExposure`. On the consumer's side: its `mirror`, the `stored`
cursor, and the `call` of `sync()` in progress with its position, the changes collected and
the retries. `clock` counts ticks.

**Actions.** `BeginWrite`, `CommitWrite`, `Fire` and a purge as part of the write that
withdraws; `Poll`, `PageServed`, `PageEmpty` (nothing is settled yet), `PageCompiling` (an
artifact is missing: the page is refused whole and its fire queued), `PageUnavailable` (the
database is away), both 503s that the call rides out, `PageLost`, `Rotate` (the secret that
signs cursors), `Tick`.

`FireFails` gives a queued fire up: its attempts failed, or its job was not inserted.

A fire is an Oban job, and nothing bounds how late it runs; the time passes with it queued. Once it is
later than the commit lag (`FallsDue`), or given up, with an older artifact in place, the document is
`overdue` until its next write: the delta that covers the edit's version handed the older
body over, and no later window holds that version. The mirror keeps that body until the next
write, a gap of the code that the properties name and except.

`MirrorTrue` is what remains, whatever fires do: about every document its
stored cursor says nothing more will be said about, a mirror has it if and only if it is public, and
with the public body unless it is overdue. A document with no artifact at all is no such case: its page
is refused until it is fired. `MirrorCatchesUp`: once writing stops, a consumer that keeps polling ends
with the site as it is, but for overdue bodies; it takes a poll that is made again and again, a page that is
served again and again when it is asked for again and again, and a page that is refused for a missing
artifact queueing its fire.

A fire's read and its write are one step; that an edit's job may collapse into one that is executing
is not modelled beyond `FireFails`.

## Real-time collaboration

One block of one document: `page[p]` with its Y.Doc and its channel, `session[p]` its channel
process, the frames `up` and `down`, the `room` (`DocServer`), and what the database has
(`saved`: the checkpoint and the record's blocks). A Yjs document is the set of operations it
has and merging is union, as Yjs promises; the stored HTML enters as one operation, the seed. A
page is told at its join how many clients the room has, and the first one seeds. The room has two
flags, as the code has: `dirty`, what the checkpoint lacks, and `unwritten`, what the record lacks. A
heard update sets both unless a checkpoint is due already, when it sets neither (`Merged`, the early return
of `mark_dirty/1`); and the record's write may be skipped (`Skipped`: a document that is gone or no
draft any more, a save that came between), which the room takes for written.

`SeededOnce`: the stored text is in the room once. `KeepsWords`: a word is in an open page, on
its way, in the room or in the database: in the checkpoint or in the record, since the two flags let a word
be in the checkpoint alone, a gap described below. `SeededOnce` and `KeepsWords` make exceptions, which are gaps the code has:
`strays`, seeds that are elsewhere when the next page is told it is first (on a connection that
closed with the join's answer, in a page that a refusal left alone), `abandoned` words (their page
was closed while its connection was down) and a room that `crashed` without `terminate`. The
subscription is one step with the attachment, a page is not opened again once closed, and the
stored HTML is not empty. The 30-day prune of checkpoints and the page's own autosave of the record are left
out. Phoenix's channels are the environment: ordered, rejoined after every
loss; `WordsReachTheRoom`, a word typed in a page that stays open ends in the room, takes no more.

## The browser side: one run for many parts

The modules of the browser side share no state: they are independent components, each small.
`MCClientSide` composes them with a variable `part` that says which one this behaviour is of;
the others stay in one of their initial states. It extends the modules whose names are their own,
and takes the others, which name a variable alike (a `focus`, a `doc`), from `MCWidgets` and
`MCLists`, where each is an instance with variables of its own (`Paste!LandsOnce`). The run `client_side` is thereby the sum of the
parts' state spaces, not their product, and its properties are conjunctions of theirs.

| part | models | properties, and the conjunction they are in |
|---|---|---|
| `SyncMirror` | above | `MirrorTrue`; `MirrorCatchesUp` (`PartsSettle`) |
| `Collab` | above | `SeededOnce`, `KeepsWords` (`RoomKeepsTheText`); `WordsReachTheRoom` (`PartsSettle`) |
| `ClientCalls` | every method of the SDK as its legs: requests, retries, idempotency keys, a body cut off, an abort or a timeout at any point | `ToldWhatHappened` (`CallersAreTold`); `CallsEnd` (`PartsSettle`) |
| `BridgeStream` | the live-preview socket: tokens, refusals, back-off, giving up | `StreamResumes` (`PartsSettle`) |
| `LineWatch` | the watch over a silent line, the connection notice, the save line | `NoticesAreCurrent` (`PagesSayWhatIsSo`), `LiveLineLeftAlone` (`NothingIsTaken`), `LineHeals` (`PartsSettle`) |
| `PushOptIn` | the push toggle across key rotations, revocations, pruned rows | `SignedWithItsKey`, `OnMeansThisKey` (`PagesSayWhatIsSo`) |
| `OfflinePage` | the service worker's installations, refreshes and navigations | `FallbackCatchesUp` (`PartsSettle`) |
| `ImageSrcset` | the URLs a front end is given against what the server accepts and renders | `SrcsetTellsTheWidth` (`WorkedOutAsMeant`) |
| `MarkdownPaste` | a conversion whose reply lands in an edited document | `LandsOnce` (`WidgetsKeepTheEntry`), `OnlyTheSelectedGoes` (`NothingIsTaken`) |
| `ListPaste` | the two passes that make lists of pasted paragraphs, against definitions by the paragraphs alone | `WordKeepsItsShape`, `RunsAreTheLists`, `NoParagraphMoves` (`WorkedOutAsMeant`) |
| `ListOrder` | drags, adds and removes named by position or by id | `AsTheEditorLeftIt` (`WorkedOutAsMeant`), `NothingSlipsAway` (`NoRowSlipsAway`) |
| `ReferencePicker` | the picker's hook, component and editor | `PickerHolds` (`WorkedOutAsMeant`) |
| `TagPicker` | the filter box, its debounce, Enter and the reset | `ListedIsWhatTheBoxSays` (`WidgetsKeepTheEntry`) |
| `Calendar` | drags and nudges of a chip, others' moves, the coalesced re-query | `MovesAddUp`, `StaleMeansRequery` (`WidgetsKeepTheEntry`), `GridCatchesUp` (`PartsSettle`) |
| `Dialogs` | focus and Escape among nested and stacked dialogs, live navigation | `FocusComesBack` (`PagesSayWhatIsSo`), `EscapeClosesTheTop` (`NothingIsTaken`) |
| `FlashTimer` | a flash, its timer, hover and `lv:clear-flash` | `ShownUntilItsTime`, `NobodyIsCutShort` (`PagesSayWhatIsSo`) |
| `Accordion` | a `<details>` under patches | `TheToggleIsKept` (`PagesSayWhatIsSo`) |
| `AdvisoryJump` | a finding resolved in a body that was edited since | `LeadsToTheFault`, `OneFindingShown` (`WorkedOutAsMeant`) |

Each property is read next to the comment over it, which names its exceptions; they are the gaps
of the code listed below.

**Bounds.** Two to four of what a person does per part: enough for an act, another before its
answer, and in most a third after it; one to three of what goes wrong. Time is
scaled to the order of the thresholds (`Ask` < `Quiet` < `Revive`, the commit lag below the
horizon), since the code only compares. `ListPaste` takes every paste of four paragraphs of three
levels and three numbers, `ImageSrcset` every item with sides to 5 under a ladder 1, 2, 4, two
ratios and two densities, `AdvisoryJump` every two-block body over five elements.

**Fairness.** Stated in each module and used as the hypothesis of its liveness property, so that
one run can hold them all: timers fire, a mailbox is handled, a line that broke is rebuilt by
Phoenix's own reconnect, a server that is asked again and again answers again and again. A device
with an offline page is used: it navigates. Nothing is assumed of people otherwise.

**Assumptions.** LiveView holds back the patches of a hook's element while a push of that element
is unanswered (`ListOrder`). A tag's text is the trimmed one, and the server never replaces the
box (`TagPicker`). Other sessions move a chip within the days on screen (`Calendar`).
`new WebSocket` does not throw (`BridgeStream`). The reference picker's create form and its
reorders are not modelled. LiveView, Phoenix's socket, TipTap, Yjs, the browser's `fetch`, push
service and service-worker machinery are external: each is modelled as the code uses it.

## Where the code and its documents differ

Five are shown by a run:

* `webhooks_switched_off`. `docs/webhooks.md:537-539`: "An endpoint an admin
  switched off (unticked **Active**) receives nothing; that was a decision, not a
  fault." `record_delivery_failure` counts from the worker's copy and writes
  `active: false` with the auto-disable stamp without looking at the row
  (`cms/webhook_endpoint.ex:358`): an exhausted delivery that settles after the
  admin's save stamps the endpoint as auto-disabled, and it receives retractions.
* `webhooks_silent_loss`. `docs/right-everywhere-provably.md:76`: "A retraction
  cannot be silently lost". Only the process performing the last attempt settles
  the row (`webhooks/delivery_worker.ex:121`): when its node stops, Lifeline
  discards the spent job and the row stays `:pending`, unannounced. So does a last attempt
  that cannot read its row, or only logs that it could not write it (`:51-56`, `:146-168`).
* `releases_inexact_rollback`. `docs/content-releases.md:241-242`: "rollback brings
  back the body that was actually live rather than whatever it drifted into". An
  `:unpublish` item folds the page's working copy into it, and `applied_at` is
  stamped after that write, so `drifted?/2` (`cms/releases.ex:546`) sees an untouched
  record and the roll-back republishes the folded, unpublished draft.
* `propagation_release`. `propagation.ex:39-40`: one purge covers "every transition enqueued
  before it started". A release's records take `cdn_enqueued_at` inside the transaction: a
  purge sent before the commit may list them after it (`propagation.ex:185`) and
  acknowledge content the CDN could not have seen.
* `editing_overwrite`. The comment over `refresh_saved_record`
  (`content_editor_live.ex:5631-5645`) says that advancing `@record` while the form still
  holds older data "hands the lock a version it will accept and then writes the stale form
  over the peer's save — silently, with no conflict flash", and lets a session with nothing
  in flight do it. Its form and its hosts are the older text all the same: its next keystroke
  pushes that text, the lock accepts it, and the peer's words are gone
  (`content_editor_live.ex:5684`).

The models contain the following ones too, most of them a few steps away; none has a
run of its own. On the server:

* a success that resets the failure counter is undone by a worker that read the
  count before, so an endpoint may be disabled on a count that spans it
  (`cms/webhook_endpoint.ex:358`; `docs/webhooks.md:515-520` says ten in a row);
* a worker killed after recording a given-up row leaves its job to be re-run,
  and the row may be delivered or reopened (`webhooks/delivery_worker.ex:153`;
  `docs/webhooks.md:507-508`: "nothing retries it further unless an admin
  redelivers it"); killed before announcing, on the last attempt, the loss is
  never announced (`docs/webhooks.md:548-553`);
* an *earlier* retraction that gets through late marks a later loss as recovered
  (`webhooks.ex:479`; `docs/webhooks.md:557-559` says "any later");
* an endpoint deleted between the scan and the insert raises out of the fan-out
  (`webhooks.ex:368` rescues only `Forbidden`; `webhooks.ex:239-240`: "The webhook
  fan-out never raises into the caller");
* a crash between the commit and the inserts of an ordinary transition's deliveries loses
  the notification (`cms/changes/notify_webhooks.ex:74`), and a publish and the unpublish
  after it are retried apart, so a receiver may hear them in either order
  (`webhooks/delivery_worker.ex:124`);
* an endpoint's edit form writes what differs from the copy it opened, over whatever the row says
  by then (`webhook_live.ex:118`);
* trashing a live document enqueues no purge (`cdn.ex:69`; `cdn.ex:8-11`: "an
  editorial event that changes what delivery serves enqueues one
  `KilnCMS.CDN.PurgeWorker` job");
* an in-place `:update` of a live page does not move `published_version_id`
  (`cms/content.ex:2858`), so a roll-back that restores the captured version brings
  back the text before that update;
* `:mark_published` and `:mark_failed` judge the worker's copy and carry no filter
  (`cms/content_release.ex:245`): a worker that outlives an abandon writes its state over
  the row;
* an item write validated while a release composes and made after it was archived stays `:pending` and
  reserves its document: `release_open_for_edit.ex:35` reads the release without a lock, to refuse
  what its moduledoc (3-8) says would "sit there `:pending` forever";
* a claim whose job collapses into one that still counts as executing (killed less
  than a minute after it was inserted, or about to end) commits with no job of its own
  (`cms/changes/enqueue_release_worker.ex:54`; `docs/content-releases.md:314-316`:
  "a claim can never commit without one");
* `:schedule`, `:unschedule`, `:reopen` and `:archive` judge the struct a page holds
  (`cms/content_release.ex:208`), so a stale page's button writes over a claim, a step the states of
  `docs/content-releases.md:304-307` do not have;
* `:cancel` has no status filter (`cms/release_item.ex:153`): validated before the
  claim and written after the launch, it takes an applied item out of the roll-back's
  sight;
* of two purge workers that listed the same record, the second overwrites the
  first one's verdict (`cms/propagation.ex:87` has no filter);
* Save submits the form, built on an older row than `@record`, on which the autosave
  builds: after a peer's save was adopted, Save is refused where the autosave is not.

In the browser, and between it and the server:

* a rejoin may replace a rich-text host with the words in it. `assets/js/rich_text.js:1135-1140`: after a
  rejoin "this host is `phx-update="ignore"`, so the words are still here". The host's id carries
  `@editor_version` (`content_editor_live.ex:7577`), which a conflict reload, a restore or a
  granted takeover moves and a fresh mount starts at 0: after any of them the words typed since the last save
  are gone without a word (`remounted`, the exception of `OnlyRemountsLose`);
* a flush whose autosave is refused hands the lock over all the same (`session.ex:570`), so the requester
  may reload a row without the holder's words; the comment over `{:lock_granted, _, _}` (191-194) says that the
  flush "persisted whatever it had". The words stay in the holder's form, whose note says so;
* words typed by a page that comes back to a room while its checkpoint is due may never reach the record:
  `mark_dirty/1` (`collab/doc_server.ex:172`) returns at once and leaves the record's flag unset, where
  the comment at 126-128 says of the last editor's leaving that "the server materializes the converged text
  into the record itself". The words stay in the checkpoint;
* an artifact fired later than the commit lag leaves the older body in every mirror until the next write: a
  delta refuses a page for a missing artifact and not for an old one (`firing/sync.ex:490`), and the fire
  writes no version; `docs/api.md:880-884` says that "any editorial write to a public document
  re-sends it";
* a token handed to the bridge while its last attempt is under way with the old one is never
  tried: `setPreviewToken` (`bridge.js:369`) reconnects only where there is no socket, where the comment at
  262-266 has it give up "until the front end supplies a new token";
* a takeover's reload remounts all of a page's editors, those of other blocks within their
  300 ms debounce too, and the host's `destroyed()` leaves the debounce running
  (`rich_text.js`); an answer to a flush that had timed out answers the next takeover's
  flush;
* a failure while the SDK reads a body escapes unwrapped, and an abort while it reads an
  error's body surfaces as the HTTP error (`client.ts`, `errors.ts`);
* two pages seed a shared document twice, or none does, after a lost join answer or a refusal
  other than "over budget"; what was typed over a dead connection goes with the page that is
  closed (`rich_text.js:819`, `collab.js`);
* two clicks of the push toggle around one rotation bind a row to a key its browser never
  used (`settings_live.ex:88`);
* a `lv:clear-flash` on its way clears a newer flash (`flash_auto_dismiss.js`);
* the `toggle` of a `<details>` that arrives open seeds the opposite of what the server
  rendered, so the first patch may undo the editor's (`app.js:1200-1209`);
* two nudges of a calendar chip in one round trip count from the same day, and one across
  another session's move undoes it (`app.js:1082`);
* two picks in one round trip overfill a reference list, both checked before either; a
  search opened while a pick is on its way offers the record again, and picking it changes
  nothing and leaves focus on `<body>` (`content_editor/reference_picker.ex`, `reference_picker.js`);
* a gallery's and a list field's changes name positions, good for one round trip;
  `rebuild_columns` drops a child its page had not drawn;
* an Enter whose tag is refused has cancelled the query of what is still in the box, and a
  query pushed behind a create is answered before the box is emptied;
* dialogs closed out of order leave focus on `<body>`;
* a block whose poor links say something else than the example gets all of them marked, an
  example cut short is found nowhere, and the first pulse's timer ends a later pulse
  (`advisory_jump.js`).

## What is proved

`WebhooksProofs`, for any number of endpoints, documents, requests, rows, crashes
and any thresholds:

* `TypeCorrect`: `Spec => []TypeOK`.
* `LedgerIsTrue`: `Spec => []LedgerTruth`, and `RecoveredWasTold`:
  `Spec => []RecoveredMeansTold`. Neither is inductive. `LedgerInv` adds that rows
  are inserted in order and nothing (no job, no worker) exists beyond the last
  one, that a row keeps the address and the verb it was inserted with and names its
  endpoint or none, and that a worker which carries a 2xx, or is past it, heard
  it. `LedgerFrame` says what most steps leave alone; each lemma then treats one
  process, and in it the one or two actions that disturb a conjunct.
* `StampSurvives`: `Spec => StampSurvivesPipeline`, and `RetractionsSpared`:
  `Spec => RetractionSparesHealth`, from `HealthInv`: an unregistered endpoint
  carries no stamp, and a worker about to count a failure delivers no retraction.
  `EndpointSteps` lists the only steps that write an endpoint.
* `NothingOrphaned`: `Spec => []PendingHasJob`, `LossesAnnounced`:
  `Spec => []LostRetractionAnnounced`, and `SettledOnce`: `Spec => SettledForGood`, each
  about every row but those that lapsed, whatever befalls the others. `SettleInv` ties the
  three records of a delivery together: a worker exists exactly while its job executes,
  and its phase says what has become of the row (`RowTidy`: while it posts the row is
  pending; past `record` the row carries the outcome it recorded; it finishes with the row
  settled or with an attempt left); a row without a job waits for one request, which has
  only that to insert (`InsertsWait`); and a row names an endpoint only while it is there
  (`EndpointsStand`), so that the copy a worker read is missing only for a row whose loss
  needs no announcement.

`PropagationProofs`, for any number of actions, endpoints, attempts and crashes,
with the endpoints finite:

* `TypeCorrect`: `Spec => []TypeOK`.
* `TelemetryOnce`: `Spec => []EmittedOnce`, and `MeasuredAfterPurge`:
  `Spec => []CompletedAfterPurge`. A settler writes what it decided from a read one
  step earlier, so `RecordInv` says what such a settler knows (`SettlersSawPurge`:
  the record it is about to complete has no pending purge), that purge workers hold
  only inserted records, and that before its insertion a record is blank and has no
  deliveries, so that inserting it cannot make a settled purge pending again.
  `RecordChanges`, `DeliveryChanges` and `PurgeChanges` list what a step may do to
  one record, one delivery and one purge; the invariant is checked against those.
* `OrdinaryPurgesCover`: `Spec => []AcknowledgedCovers`: the acknowledgement of a record outside
  a release answers a purge sent after its commit, with releases running beside it. The argument
  follows one chain: `cdn_enqueued_at` is read after the commit, a purge looks only for records
  stamped before it began, and it began before its POST. In a release the first link
  breaks, which `propagation_release` shows; nothing is claimed of its records.
* `RecordsTellTheTruth`: `Spec => []CompletedTruthfully`, and `NoRecordForgotten`:
  `Spec => []SomeoneSettles`, each about every record but those that lapsed, whatever is killed or fails
  elsewhere. `CountInv` adds to `RecordInv`, of those records, that what a record expects is what dispatch
  has enqueued and what it has still to do (`DispatchTidy`); that a settler found the record `Ended` and
  nothing that has ended starts again, so that its count is final (`SettlersCounted`); that
  a purge job is inserted once (`PurgeUnborn`); and that an open record awaits something
  (`Awaits`): whoever ends last finds it ready and goes on to complete it.

`ReleasesProofs`, for any number of documents, texts, admins, claims, edits and faults:

* `TypeCorrect`: `Spec => []TypeOK`. `TypeInv` adds that a worker outside its walk holds no
  rows, and that the item it is at is one it listed.
* `ClaimOwned`: `Spec => []ClaimIsOwned`, `ReservationsAreReleased`: `Spec => []ReservationsEnd`,
  `ShippedStaysUndoable`: `Spec => []ShippedIsUndoable`, and the refinement, `Implements`:
  `Spec => ContractSpec`. All four assume `Slips = {}`, since each slip breaks a link of the
  argument: `"quick_restart"` and `"stale_page"` give a release two workers, `"blind_abandon"`
  takes the claim from under one, `"late_edit"` writes an item the walk did not list. Without the
  assumption `ReservationsEnd`, `ClaimIsOwned` and `ContractSpec` are false, each with one slip. What may fail inside the worker is not assumed away: a claim has its job
  or its worker unless that job lapsed.
  `LifeInv` is that argument: at most one job is at work (`OneWorker`) and on the claim its
  release is in (`WorkersServe`), a claimed release has an owner (`OwnerStands`), items are
  written only while composing (`EditsCompose`), what a worker has listed and written so far
  is all that is pending, or all that is applied (`WalksOut`, `WalksBack`), and nothing is
  applied before the launch (`Unlaunched`).
* `RollbackIsConfined`: `Spec => RollbackSparesOthers`, whatever slips. `Spared` says that an
  item is applied, in the table or in a worker's open transaction, only where the launch wrote
  the document, so that a roll-back lists no other, even with two workers on the release.
* `RollbackRestores`: `Spec => RollbackPutsBack`, assuming `Slips = {}`. `CaptureInv` adds to
  `LifeInv` what the launch captured: a clean applied item remembers a version that is the text
  it took away, and a document it took down still has that text until somebody writes it
  (`Remembers`), in the table as in a worker's open transaction (`WalkTrue`); and the items a
  rollback has read are the rows as they stand (`ReadsTrue`), so that what it decides from its
  copy it decides of the item. `Restored` then brings the remembered text back wherever the
  document may have drifted, and leaves alone the text that has not.

`WireProofs`, for any number of documents, writes, pages, retries, failures and
rotations, and any lag within time:

* `SyncTypes`: `SyncSpec => []SyncTypeOK`. `TypeInv` adds that the clock and a snapshot's
  beginning are past the first lag, so that a window stays in the naturals.
* `MirrorIsTrue`: `SyncSpec => []MirrorTrue`. Call a document quiet
  after a time `t` if no version and no write of it is later. `MirrorInv` says that every write
  ends within the lag (`WritesEnd`), and that its fire follows within it or the document is
  overdue or has no artifact, so that a document
  quiet after a settled time, one a whole lag ago, was public as it is now, and an artifact it
  has shows it so; that every stored position is of a settled time (`CursorSettled`); that whatever
  a page or a mirror holds is exposed (`CopiesDisclosed`), so that a withdrawal is not kept
  from who has a copy; and what the call has said so far of the documents up to its position,
  in a snapshot (`SnapshotSent`) and in a delta (`DeltaSaid`). The site's steps keep all of it
  for quiet documents; a page adds its rows (`PageRows`, `SnapshotCovers`, `DeltaCovers`); the
  last page turns what was said into the mirror (`PageEndsCall`).

* `CallsInvariant`: `CallsSpec => []CallsInv`, and `CallersTold`: `CallsSpec => []ToldWhatHappened`.
  What a caller is told is decided from the last answer alone, so `CallsInv` says what the
  server has done by then: each leg before the current one was sent, and once and performed once if it
  writes (`EarlierLegs`); the current one was sent once per attempt, and only reads have attempts
  to spend (`Attempted`), which bounds how often it was performed (`Done`); the legs
  after it were never sent (`LaterLegs`); and what each outcome says of the current leg (`Outcome`).
* `RoomInvariant`: `CollabSpec => []CollabInv`, and `RoomKeepsItsText`:
  `CollabSpec => [](SeededOnce /\ KeepsWords)`. Neither property is inductive: a
  word goes from page to frame to room to database, each time by a step that looks at one of
  them. `CollabInv` says where it can be counted on: frames are on channels that have a
  process (`LinesHaveEnds`), and that process is a client of a living room (`Attached`); the room
  has what it was restored from, and what its checkpoint lacks is marked `dirty` (`RoomKeeps`; of the record's flag
  nothing is claimed); what a
  joined page has is in the room or on its way up, and what was sent to a page is in the
  room (`PagesMatch`). Of the seeds it says that while a page has still to seed there is none but
  the strays, and that a room has one page that was told it is first (`OneSeed`). All of it
  is about rooms that have not crashed, as the properties are.
* `LineInvariant`: `LineSpec => []LineInv`, `PageSaysWhatIsSo`: `LineSpec => []NoticesAreCurrent`, and
  `LineLeftAlone`: `LineSpec => LiveLineLeftAlone`. The watch takes a line down on what its clocks say,
  so `Listening` ties them: on an open line in front, a question is out and was asked in
  time, or the silence is no older than the last question, which is too young for the next.

`DraftEditingProofs`, for any number of sessions, edits and events:

* `TypeCorrect`: `Spec => []TypeOK`.
* `OnlyRemountsLoseEdits`: `Spec => []OnlyRemountsLose`, and `TakeoverNotesAreTrue`:
  `Spec => TakeoverNoteIsTrue`. `EditsInv` follows a session's words from the page to the
  row: what a page shows and nothing has kept is still in its debounce, or in the last body
  on the wire, or in its process's text (`Reaches`); a process with nothing in flight holds
  only what was saved or what its person was told of; a host nobody typed in shows only kept
  text; a page under a patch it has not taken, or waiting for a takeover, has nothing on its
  way; and the text of a flush's answer is in the process when the answer arrives. Each link
  is first proved of one session's record (`FineFrame`, `FinePushBody`, `FineReceiveBody`, ...),
  then of the actions that move it. `EditsInv` was model-checked, for two sessions with two
  edits, before it was proved.

`WidgetProofs`, for any number of clicks, pastes, keystrokes, panels, flashes and days, has the
invariants of seven parts and the lemma that each implies what the part promises:

* `PushInv`: rows and reports name endpoints that were made, one row each (`PushRecords`), and, while
  nobody clicks ahead of an answer (`PushCalm`), a row has the key its endpoint was made
  with, and one call or one report is under way, from a page that shows what the view says, about
  the key of that page.
* `TagInv`: while no query was pushed behind a create (`crossed`), the last query on its way, or
  the list if none is, is what the box says, unless a debounce still runs, an answer that empties the
  box is on its way, or a create that cut a query short is unanswered.
* `CalInv`: the entry is due on the day the moves made so far add up to, or the one move on its way
  says so; and a stale drawing has a re-query queued.
* `DialogInv`: panels are nested and come after what they are in; the places remembered as openers
  lie in panels that were opened, and every set of connected dialogs has one whose opener lies
  in none of them, so that following openers ends; unless one strayed, every
  opener is still on the page, so focus has a place to go back to.
* `PasteInv`: only a settled paste has a piece in the document, and one; a span fits the document
  it was taken in; and the document of the last landing is the one before with its one piece put
  in, which was not there.
* `FlashInv`, and `FoldStep` for the section whose property is inductive as it stands.

`ListProofs` begins with what a filter returns. `Subsequences` tells it by places and cardinalities,
so that its facts (`KeptFacts`, `AscendingFacts`, `PickedRange`) follow from the
cardinality of an interval; where a fact would go by induction, the lemma `LeastNumber` takes the least place at
which it fails, which the library's well-foundedness of `<` on the naturals yields without a
predicate as a parameter. `FlatAppend` does the same for `FlattenSeq`. Then, for a paste of any
number of paragraphs, levels and numbers, for the picker and for dragged rows:

* `ListsInv`: of the pass over Word's items, that the open lists are those of the items nothing has
  closed yet, outermost first (`HoldsOpen`), and every item so far is in the list of its siblings, under
  the item above it (`PlacesHeld`); of the pass over other text, that the closed runs and the open
  one are disjoint, in order, and cover every bullet, every pair of bullets and every count (`TextRuns`).
  The slice made of them has every paragraph once and in its order.
* `PickerInv`, for any number of records, picks and answers on their way. The page's copy, the component's
  and the editor's differ while anything is under way, so `PickerShape` ties the last render to the
  component, and `PickerInOrder` says, while nobody was faster than the answers, that at most one pick
  or removal is under way and where it is: in the mailbox with what it will come to certain
  (`PickerUnderway`), or answered with the render that says so still to land (`PickerAnswering`).
* For the list whose rows are dragged, with any number of drags, adds and removes under way:
  `OrderInv` says that a columns block's pushes lead, one by one, from the server's list to the
  editor's wish (`Traced`), and that a gallery or a list field edited one thing at a time is in one
  of the three places of its round trip (`OneRound`); of the children, that each is once in every
  list, push and answer, and that unless a drag was reported ahead of a render, every drag on its
  way names all that the server will hold when it arrives (`ColumnsInv`). A gallery's rows stay by
  counting: its new order is a permutation of its positions (`Contents`).

`ClientSideProofs` first has the two parts that only search:

* `SrcsetInv`: the requests are those made of the options. What is proved of them is arithmetic: a size the
  client snaps to is a rung the server has, and the width it prints is the width the server renders,
  for any ladder and any item, at the ratios of the instance (`CoveredWidth` is the step that a
  ratio enters, and is of any).
* `JumpInv`: one finding's marks at a time. `JumpSafe` is about the search itself, for any body (a run's
  are those of the instance) and any finding: what a jump marks holds the text the finding was made of, or is the block it names.

It then lifts all of them to `MCClientSide`'s specification: the steps of the other
parts leave a part's variables alone (`SyncPart`, ..., `FlashMoves`, ...), so that what
holds of a part alone holds of the composition. `PollersHaveATrueMirror`,
`CallersToldWhatHappened` (`Spec => []CallersAreTold`), `RoomsKeepTheText` (`RoomKeepsTheText`),
`WidgetsKeepEntries` (`WidgetsKeepTheEntry`), `PagesAreRight` (`PagesSayWhatIsSo`),
`AllIsWorkedOutAsMeant` (`WorkedOutAsMeant`), `BrowserTypes` (`ClientTypeOK`), `NothingWasTaken`
(`NothingIsTaken`) and `RowsStay` (`NoRowSlipsAway`) are the properties of the run `client_side`
themselves, all but its liveness. The types add to each part's invariant what only they need: a push
is of a key that was made (`PushKeyed`), a paste is saved with a span of its document (`PasteSized`), no render lists more
than there is (`PickerListed`), a list hangs under an item that was taken (`ListsSized`).

Two proofs failed for a good reason. `PickerHolds` was false from the fifth act on, one beyond what
the run allowed then: opening the search does not wait for a pick (the gap listed above). It counts
as being faster than the answers now, and the run's bound is past it. And `AsTheEditorLeftIt` had an
exception, for a columns block dragged ahead of a render, that nothing needs: it is gone.

**Assumptions.** Those of the constants, named where they are declared (a bound is a natural
number), and `Slips = {}` where a theorem states it.

**Only model-checked.** Liveness: `PartsSettle` and the other properties under fairness are beyond the
proof system, and so are runs that expect a violation. Every safety invariant and every action
property of the passing runs is a theorem. The runs of a proved property
remain: they are what its mutants are checked with.

## What is not modelled

The components marked so in the inventory of `PROJECT.json`: the effects after commit, the
governance chain, the caches, billing, newsletters, federation, automation and the other
consumers of events are state machines of the same kind as those above and would be the next;
media, search, accounts and rendering are I/O, ranking, declarative policies and formatting.
Of the document's own workflow only what the releases, the draft editor and the sync API do to
it is here, and of firing only one artifact per document, without the re-fire cascade.

Within webhooks and propagation: payloads, signing and secret rotation, subscriptions, the
payload scrub, percentiles and the retention of propagation records, purges of taxonomy and
synonym writes (an `updated` event stands for a purge without a record). Within releases: a
second release, the size limit, previews. Within the draft editor: other fields and blocks,
the structural block events, publishing from it. In the browser: the media picker, the slash
menu and toolbars, maps and charts, click-to-edit overlays, the SDK's types, query building
and signing.

## What would come next

1. `ContentWorkflow`: the document's state machine with stale editors and the scheduler.
2. The re-fire cascade over reference edges, against unpublish and the sweep.
