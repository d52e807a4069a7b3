------------------------------- MODULE Releases -------------------------------
(***************************************************************************)
(* One content release (KilnCMS.CMS.ContentRelease), its items             *)
(* (KilnCMS.CMS.ReleaseItem), the worker that launches it or rolls it back *)
(* (KilnCMS.CMS.Releases, KilnCMS.CMS.Workers.ReleaseWorker) and the       *)
(* documents it moves, which editors go on editing meanwhile.              *)
(*                                                                         *)
(* The worker's transaction is modelled by what other processes see of it: *)
(* rows it has written are locked, invisible until it commits, and gone if *)
(* it does not.  Two releases share nothing but documents, so what another *)
(* release does to a document is an editor's transition here.              *)
(*                                                                         *)
(* A definition with an underscore in its name is a plausible mistake in   *)
(* the definition of that name below it; no action uses one.               *)
(***************************************************************************)
EXTENDS Naturals, FiniteSets

CONSTANTS
  Docs,        \* documents; the release holds at most one item for each
  Texts,       \* the bodies a document may have
  Admins,      \* console pages held open on the release
  None,        \* no document, no text
  Slips,       \* what the surroundings may get wrong, see SlipNames
  MaxClaims,   \* bound: jobs ever inserted
  MaxEdits,    \* bound: writes of editors to documents
  MaxFaults    \* bound: workers killed or raising

\* "stale_page"     a button that is not a compare-and-swap is clicked on a
\*                  page that no longer shows the row;
\* "blind_abandon"  a claim is abandoned while its worker is running;
\* "late_edit"      an item write validated before a claim lands after it;
\* "quick_restart"  a claim is taken before the job of the last one has ended,
\*                  or within the minute in which a killed job still counts.
SlipNames == {"stale_page", "blind_abandon", "late_edit", "quick_restart"}

ASSUME ReleasesAssumption ==
  /\ None \notin Docs \cup Texts
  /\ Texts # {}
  /\ Slips \subseteq SlipNames
  /\ MaxClaims \in Nat \ {0}
  /\ MaxEdits \in Nat
  /\ MaxFaults \in Nat

VARIABLES
  release,   \* the content_releases row
  item,      \* item[d]: the latest release_items row for document d
  doc,       \* doc[d]: the document's row
  job,       \* job[j]: the j-th oban_jobs row and the worker running it
  owner,     \* history: the job the latest claim inserted, 0 if none
  edit,      \* an item write, validated and not yet made
  page,      \* page[a]: the release row as page a last read it
  edits,     \* what MaxEdits counts
  faults,    \* what MaxFaults counts
  lapsed,    \* history: jobs killed, or whose own read or write of the release failed
  shipped    \* history: documents a committed launch changed

vars == <<release, item, doc, job, owner, edit, page, edits, faults, lapsed, shipped>>
-----------------------------------------------------------------------------
Editable == {"open", "scheduled", "failed"}
Claimed == {"publishing", "rolling_back"}

ReleaseRow == [state: {"open", "scheduled", "publishing", "published", "failed",
                       "rolling_back", "rolled_back", "archived", "deleted"},
               published: BOOLEAN]          \* published_at is set

DocStates == {"draft", "in_review", "published", "archived", "gone"}

DocRow == [state: DocStates,
           text: Texts \cup {None},
           version: Texts \cup {None},      \* what published_version_id holds
           working: Texts \cup {None},      \* the working copy
           base: Texts \cup {None},         \* the live text it started from
           moved: BOOLEAN]                  \* written since the release last wrote it

Gone == [state |-> "gone", text |-> None, version |-> None, working |-> None,
         base |-> None, moved |-> FALSE]

ItemRow == [status: {"none", "pending", "applied", "skipped", "cancelled",
                     "rolled_back"},
            action: {"publish", "unpublish"},
            prior: DocStates,               \* prior_state
            version: Texts \cup {None},     \* prior_version_id
            live: Texts \cup {None},        \* history: the text the launch replaced
            clean: BOOLEAN]                 \* history: see Apply

NewItem(action) == [status |-> "pending", action |-> action, prior |-> "draft",
                    version |-> None, live |-> None, clean |-> TRUE]

NoItem == [NewItem("publish") EXCEPT !.status = "none"]

ASSUME NoneIsNoRow == None \notin ItemRow \cup DocRow

\* A row for some of the documents: what a worker has read, or has written and
\* not committed.
Rows(R) == [Docs -> R \cup {None}]

NoRows == [d \in Docs |-> None]

In(rows) == {d \in Docs : rows[d] # None}

JobRow == [mode: {"publish", "rollback"},
           phase: {"none", "available", "list", "walk", "fail", "abandon",
                   "announce", "done", "killed", "discarded"},
           list: Rows(ItemRow),             \* items read and still to walk
           at: Docs \cup {None},            \* the item being walked
           seen: DocRow,                    \* its document as fetched
           items: Rows(ItemRow),            \* item rows written, uncommitted
           docs: Rows(DocRow)]              \* document rows written, uncommitted

NoJob == [mode |-> "publish", phase |-> "none", list |-> NoRows, at |-> None,
          seen |-> Gone, items |-> NoRows, docs |-> NoRows]

NewJob(mode) == [NoJob EXCEPT !.mode = mode, !.phase = "available"]

\* A worker that is past its transaction, or whose transaction is gone.
Past(j, phase) == [NewJob(job[j].mode) EXCEPT !.phase = phase]

Jobs == 1..MaxClaims

NoEdit == [op |-> "none", doc |-> None, action |-> "publish"]

TypeOK ==
  /\ release \in ReleaseRow
  /\ item \in [Docs -> ItemRow]
  /\ doc \in [Docs -> DocRow]
  /\ job \in [Jobs -> JobRow]
  /\ owner \in 0..MaxClaims
  /\ edit \in [op: {"none", "add", "cancel", "set_action"}, doc: Docs \cup {None},
               action: {"publish", "unpublish"}]
  /\ page \in [Admins -> ReleaseRow]
  /\ edits \in 0..MaxEdits
  /\ faults \in 0..MaxFaults
  /\ lapsed \subseteq Jobs
  /\ shipped \subseteq Docs

Init ==
  /\ release = [state |-> "open", published |-> FALSE]
  /\ item = [d \in Docs |-> NoItem]
  /\ doc \in LET text == CHOOSE t \in Texts : TRUE
                draft == [Gone EXCEPT !.state = "draft", !.text = text]
                live == [draft EXCEPT !.state = "published", !.version = text]
            IN [Docs -> {draft, live} \cup
                  {[live EXCEPT !.working = t, !.base = text] : t \in Texts \ {text}}]
  /\ job = [j \in Jobs |-> NoJob]
  /\ owner = 0
  /\ edit = NoEdit
  /\ page = [a \in Admins |-> release]
  /\ edits = 0
  /\ faults = 0
  /\ lapsed = {}
  /\ shipped = {}
-----------------------------------------------------------------------------
(* Documents: what their actions do to the row. *)

Pending(row) == row.state = "published" /\ row.working # None

\* WorkingCopy.reconcile/1: the copy and the live text both left the base.
Conflict(row) ==
  /\ Pending(row)
  /\ row.working # row.base
  /\ row.text # row.base

\* The text after the copy of the row is promoted, judged against the live
\* text of the struct the caller holds.
Promoted(seen, row) ==
  IF row.working \notin {None, row.base} /\ seen.text = row.base
  THEN row.working
  ELSE row.text

Cleared(row) == [row EXCEPT !.working = None, !.base = None]

Published(row) == [row EXCEPT !.state = "published", !.version = row.text]

ChangesPublished(row) ==
  [Cleared(row) EXCEPT !.text = Promoted(row, row), !.version = Promoted(row, row)]

\* FoldWorkingCopy and ClearPublishedVersion, on the way out of published.
Retired(seen, row, to) ==
  [Cleared(row) EXCEPT !.state = to, !.version = None, !.text = Promoted(seen, row)]

\* Rows another process may not write: a transaction holds them.
DocHeld(d) == \E j \in Jobs : d \in In(job[j].docs)
ItemHeld(d) == \E j \in Jobs : d \in In(job[j].items)

Write(d, row) ==
  /\ edits < MaxEdits
  /\ doc[d].state # "gone"
  /\ ~DocHeld(d)
  /\ doc' = [doc EXCEPT ![d] = [row EXCEPT !.moved = TRUE]]
  /\ edits' = edits + 1
  /\ UNCHANGED <<release, item, job, owner, edit, page, faults, lapsed, shipped>>

\* :update, in place; on a published document readers see it at once.
Update(d) ==
  \E text \in Texts \ {doc[d].text} : Write(d, [doc[d] EXCEPT !.text = text])

\* :save_working_copy and :discard_changes.  A copy equal to the live text is
\* no copy; a copy that exists keeps the base it started from.
SaveWorkingCopy(d) ==
  /\ doc[d].state = "published"
  /\ \E text \in Texts :
       Write(d, IF text = doc[d].text
                THEN Cleared(doc[d])
                ELSE [doc[d] EXCEPT !.working = text,
                                    !.base = IF @ = None THEN doc[d].text ELSE @])

PublishChanges(d) ==
  /\ Pending(doc[d])
  /\ \/ ~Conflict(doc[d]) /\ Write(d, ChangesPublished(doc[d]))
     \/ Conflict(doc[d]) /\ \E text \in {doc[d].text, doc[d].working} :
          Write(d, [Cleared(doc[d]) EXCEPT !.text = text, !.version = text])

PublishDoc(d) ==
  doc[d].state \in {"draft", "in_review"} /\ Write(d, Published(doc[d]))

UnpublishDoc(d) ==
  doc[d].state = "published" /\ Write(d, Retired(doc[d], doc[d], "draft"))

ArchiveDoc(d) ==
  doc[d].state # "archived" /\ Write(d, Retired(doc[d], doc[d], "archived"))

\* :submit_for_review, :return_to_draft and :unarchive.
MoveDoc(d) ==
  \E edge \in {<<"draft", "in_review">>, <<"in_review", "draft">>, <<"archived", "draft">>} :
    doc[d].state = edge[1] /\ Write(d, [doc[d] EXCEPT !.state = edge[2]])

TrashDoc(d) == Write(d, Gone)

EditDoc(d) ==
  \/ Update(d) \/ SaveWorkingCopy(d) \/ PublishChanges(d) \/ PublishDoc(d)
  \/ UnpublishDoc(d) \/ ArchiveDoc(d) \/ MoveDoc(d) \/ TrashDoc(d)
-----------------------------------------------------------------------------
(* Composing: an item write is validated against the release, then made. *)

BeginEdit_AnyRelease(op, d, action) ==
  /\ edit = NoEdit
  /\ op = "add" <=> item[d].status # "pending"
  /\ edit' = [op |-> op, doc |-> d, action |-> action]
  /\ UNCHANGED <<release, item, doc, job, owner, page, edits, faults, lapsed,
                 shipped>>

BeginEdit(op, d, action) ==
  /\ edit = NoEdit
  /\ release.state \in Editable                  \* ReleaseOpenForEdit
  /\ doc[d].state # "gone" \/ op # "add"         \* ReleaseContentExists
  /\ op = "add" <=> item[d].status # "pending"
  /\ CASE op = "add" -> TRUE
       [] op = "cancel" -> action = item[d].action
       [] op = "set_action" -> action # item[d].action
  /\ edit' = [op |-> op, doc |-> d, action |-> action]
  /\ UNCHANGED <<release, item, doc, job, owner, page, edits, faults, lapsed,
                 shipped>>

\* The row an item write leaves; unchanged where the database refuses it.
Edited(d) ==
  CASE edit.op = "add" /\ item[d].status \in {"none", "cancelled"} -> NewItem(edit.action)
    [] edit.op = "cancel" -> [item[d] EXCEPT !.status = "cancelled"]
    [] edit.op = "set_action" /\ item[d].status = "pending" ->
         [item[d] EXCEPT !.action = edit.action]
    [] OTHER -> item[d]

FinishEdit ==
  /\ edit # NoEdit
  /\ ~ItemHeld(edit.doc)
  /\ item' = IF release.state = "deleted" THEN item
             ELSE [item EXCEPT ![edit.doc] = Edited(edit.doc)]
  /\ edit' = NoEdit
  /\ UNCHANGED <<release, doc, job, owner, page, edits, faults, lapsed, shipped>>

\* No item write is under way, or the surroundings may let one land late.
Quiet == edit = NoEdit \/ "late_edit" \in Slips
-----------------------------------------------------------------------------
(* Claims: the state, and the job inserted in the same transaction. *)

\* States of the job's uniqueness: available and executing.  The row of a
\* killed worker says executing until it is rescued.
Unfinished(j) == job[j].phase \notin {"none", "done", "discarded"}

Unhurried == \A j \in Jobs : Unfinished(j) => job[j].phase = "killed"

Enqueue(mode) ==
  \/ \E j \in Jobs :
       /\ job[j].phase = "none"
       /\ \A i \in Jobs : job[i].phase = "none" => j <= i
       /\ job' = [job EXCEPT ![j] = NewJob(mode)]
       /\ owner' = j
  \/ /\ "quick_restart" \in Slips
     /\ \E j \in Jobs : Unfinished(j) /\ job[j].mode = mode
     /\ owner' = 0
     /\ UNCHANGED job

Claim(mode, state) ==
  /\ Quiet
  /\ Unhurried \/ "quick_restart" \in Slips
  /\ release' = [release EXCEPT !.state = state]
  /\ Enqueue(mode)
  /\ UNCHANGED <<item, doc, edit, edits, faults, lapsed, shipped>>

\* The minute cron, on a release that is due.
CronClaim ==
  /\ release.state = "scheduled"
  /\ Claim("publish", "publishing")
  /\ UNCHANGED page

\* classify_record/2.
Skips(action, row) ==
  \/ action = "publish" /\ row.state = "published" /\ ~Pending(row)
  \/ action = "unpublish" /\ row.state \in {"draft", "in_review", "archived"}

Blocks(action, row) ==
  \/ row.state = "gone"
  \/ action = "publish" /\ (row.state = "archived" \/ Conflict(row))

ItemsIn(status) == {d \in Docs : item[d].status = status}

\* "publish_now" reloads the release, and asks whether it can ship.
PublishNow(a) ==
  /\ release.state \in {"open", "scheduled"}
  /\ ItemsIn("pending") # {}
  /\ \A d \in ItemsIn("pending") : ~Blocks(item[d].action, doc[d])
  /\ Claim("publish", "publishing")
  /\ page' = [page EXCEPT ![a] = release']

\* "roll_back", from the page's copy; the compare-and-swap judges the row.
RollBack(a) ==
  /\ page[a].state = "published"
  /\ release.state = "published"
  /\ Claim("rollback", "rolling_back")
  /\ page' = [page EXCEPT ![a] = release']
-----------------------------------------------------------------------------
(* The console's other buttons write what the page's copy allows. *)

Fresh(a) == page[a] = release \/ "stale_page" \in Slips

Click(a, from, state) ==
  /\ Fresh(a)
  /\ page[a].state \in from
  /\ release.state # "deleted"
  /\ release' = [release EXCEPT !.state = state]
  /\ page' = [page EXCEPT ![a] = release']
  /\ UNCHANGED <<doc, job, owner, edit, edits, faults, lapsed, shipped>>

Schedule(a) == Click(a, {"open", "scheduled"}, "scheduled") /\ UNCHANGED item
Unschedule(a) == Click(a, {"scheduled"}, "open") /\ UNCHANGED item
Reopen(a) == Click(a, {"failed"}, "open") /\ UNCHANGED item

\* CancelPendingReleaseItems, in the same transaction.
Archive(a) ==
  /\ Quiet
  /\ \A d \in ItemsIn("pending") : ~ItemHeld(d)
  /\ Click(a, Editable \cup {"published", "rolled_back"}, "archived")
  /\ item' = [d \in Docs |-> IF d \in ItemsIn("pending")
                             THEN [item[d] EXCEPT !.status = "cancelled"]
                             ELSE item[d]]

Delete_Shipped(a) ==
  /\ Quiet
  /\ \A d \in Docs : ~ItemHeld(d)
  /\ Click(a, Editable \cup {"archived"}, "deleted")
  /\ item' = [d \in Docs |-> NoItem]

\* ReleaseDeletable judges the page's copy; the items go with the row.
Delete(a) ==
  /\ Quiet
  /\ ~page[a].published
  /\ \A d \in Docs : ~ItemHeld(d)
  /\ Click(a, Editable \cup {"archived"}, "deleted")
  /\ item' = [d \in Docs |-> NoItem]

Running(j) == job[j].phase \in {"list", "walk", "fail", "abandon"}

AbandonedTo_Named(state) == "abandoned"

AbandonedTo(state) == IF state = "rolling_back" THEN "published" ELSE "failed"

\* The row must be a claim; where it goes is read off the page's copy.
Abandon(a) ==
  /\ release.state \in Claimed
  /\ "blind_abandon" \in Slips \/ \A j \in Jobs : ~Running(j)
  /\ Click(a, Claimed, AbandonedTo(page[a].state))
  /\ UNCHANGED item

Refresh(a) ==
  /\ page[a] # release
  /\ page' = [page EXCEPT ![a] = release]
  /\ UNCHANGED <<release, item, doc, job, owner, edit, edits, faults, lapsed,
                 shipped>>
-----------------------------------------------------------------------------
(* The worker. *)

ClaimOf(mode) == IF mode = "publish" THEN "publishing" ELSE "rolling_back"
Wanted(mode) == IF mode = "publish" THEN "pending" ELSE "applied"

Begin_AnyState(j) ==
  /\ job[j].phase = "available"
  /\ job' = [job EXCEPT ![j].phase = "list"]
  /\ UNCHANGED <<release, item, doc, owner, edit, page, edits, faults, lapsed,
                 shipped>>

\* perform/1: a release that is not in the claim's state is left alone.
Begin(j) ==
  /\ job[j].phase = "available"
  /\ job' = [job EXCEPT ![j].phase =
               IF release.state = ClaimOf(job[j].mode) THEN "list" ELSE "done"]
  /\ UNCHANGED <<release, item, doc, owner, edit, page, edits, faults, lapsed,
                 shipped>>

\* pending_items/2 or applied_items/2; then the transaction opens.
List(j) ==
  /\ job[j].phase = "list"
  /\ job' = [job EXCEPT ![j].phase = "walk",
                        ![j].list = [d \in Docs |->
                          IF item[d].status = Wanted(job[j].mode) THEN item[d] ELSE None]]
  /\ UNCHANGED <<release, item, doc, owner, edit, page, edits, faults, lapsed,
                 shipped>>

Fetch(j, d) ==
  /\ job[j].phase = "walk"
  /\ job[j].at = None
  /\ d \in In(job[j].list)
  /\ job' = [job EXCEPT ![j].at = d, ![j].seen = doc[d]]
  /\ UNCHANGED <<release, item, doc, owner, edit, page, edits, faults, lapsed,
                 shipped>>

\* The item is walked: its row is written, and its document's unless row = None.
Stage(j, mark, row) ==
  LET d == job[j].at IN
  /\ ~ItemHeld(d)
  /\ release.state # "deleted"
  /\ row # None => ~DocHeld(d)
  /\ job' = [job EXCEPT
       ![j].at = None,
       ![j].seen = Gone,
       ![j].list[d] = None,
       ![j].items[d] = mark,
       ![j].docs[d] = IF row = None THEN None ELSE [row EXCEPT !.moved = FALSE]]
  /\ UNCHANGED <<release, item, doc, owner, edit, page, edits, faults, lapsed,
                 shipped>>

\* mark_applied/3.  An item is clean if its row still says what the worker does,
\* the version it remembers is the text that was live, nobody wrote the document
\* between the fetch and the transition, and taking the document down folded no
\* working copy into it.
Applied(d, action, seen, row, after) ==
  [status |-> "applied", prior |-> seen.state, version |-> seen.version,
   live |-> row.text,
   clean |-> /\ item[d].action = action
             /\ seen = row
             /\ seen.version = row.text
             /\ after.state = "published" \/ after.text = row.text]

Mark(d, how) == [item[d] EXCEPT !.status = how.status, !.prior = how.prior,
                                !.version = how.version, !.live = how.live,
                                !.clean = how.clean]

Skipped_AsApplied(d, seen) == [item[d] EXCEPT !.status = "applied", !.prior = seen.state]
Skipped(d, seen) == [item[d] EXCEPT !.status = "skipped", !.prior = seen.state]

\* apply_item/3.
Apply(j) ==
  LET d == job[j].at
      seen == job[j].seen
      action == job[j].list[d].action
      Do(row) == Stage(j, Mark(d, Applied(d, action, seen, doc[d], row)), row)
  IN
  /\ job[j].phase = "walk"
  /\ job[j].mode = "publish"
  /\ d # None
  /\ \/ /\ Skips(action, seen)
        /\ Stage(j, Skipped(d, seen), None)
     \/ /\ action = "publish"
        /\ seen.state \in {"draft", "in_review"}
        /\ doc[d].state \in {"draft", "in_review"}       \* the action's filter
        /\ Do(Published(doc[d]))
     \/ /\ action = "publish"
        /\ Pending(seen) /\ ~Conflict(seen)
        /\ doc[d] = seen                                 \* the optimistic lock
        /\ Do(ChangesPublished(seen))
     \/ /\ action = "unpublish"
        /\ seen.state = "published"
        /\ doc[d].state = "published"                    \* the action's filter
        /\ Do(Retired(seen, doc[d], "draft"))

Drifted_EditedOnly(plan, seen) == seen.moved

\* drifted?/2.
Drifted(plan, seen) ==
  \/ plan.action = "publish" /\ plan.prior = "published"
  \/ seen.moved

\* restore_state/4 for a document that was live: its version, then republish/4.
Restored(plan, seen, row) ==
  LET body == IF plan.version # None /\ Drifted(plan, seen)
              THEN [Cleared(row) EXCEPT !.text = plan.version]
              ELSE row
  IN IF body.state = "published" THEN body ELSE Published(body)

\* ... and for one that was not: take_down/4, then restore_review/4.
TakenDown(plan, seen, row) ==
  LET down == IF seen.state = "published" THEN Retired(seen, row, "draft") ELSE row
  IN IF plan.prior = "in_review" /\ down.state = "draft"
     THEN [down EXCEPT !.state = "in_review"]
     ELSE down

\* undo_item/3.
Undo(j) ==
  LET d == job[j].at
      seen == job[j].seen
      plan == job[j].list[d]
      mark == [item[d] EXCEPT !.status = "rolled_back"]
      Put(row) == Stage(j, mark, IF row = doc[d] THEN None ELSE row)
  IN
  /\ job[j].phase = "walk"
  /\ job[j].mode = "rollback"
  /\ d # None
  /\ \/ /\ seen.state = "gone"
        /\ Stage(j, mark, None)
     \/ /\ seen.state # "gone" /\ doc[d].state # "gone"
        /\ plan.prior = "published"
        /\ doc[d].state # "archived"                     \* publish's filter
        /\ Put(Restored(plan, seen, doc[d]))
     \/ /\ seen.state # "gone" /\ doc[d].state # "gone"
        /\ plan.prior # "published"
        /\ seen.state = "published" => doc[d].state = "published"
        /\ Put(TakenDown(plan, seen, doc[d]))

\* mark_published / mark_rolled_back, and the commit.
Commit(j) ==
  /\ job[j].phase = "walk"
  /\ In(job[j].list) = {}
  /\ release.state # "deleted"
  /\ release' = IF job[j].mode = "publish"
                THEN [state |-> "published", published |-> TRUE]
                ELSE [release EXCEPT !.state = "rolled_back"]
  /\ item' = [d \in Docs |-> IF d \in In(job[j].items) THEN job[j].items[d] ELSE item[d]]
  /\ doc' = [d \in Docs |-> IF d \in In(job[j].docs) THEN job[j].docs[d] ELSE doc[d]]
  /\ shipped' = IF job[j].mode = "publish" THEN shipped \cup In(job[j].docs) ELSE shipped
  /\ job' = [job EXCEPT ![j] = Past(j, "announce")]
  /\ UNCHANGED <<owner, edit, page, edits, faults, lapsed>>

\* An item that cannot be applied, a gate that refuses it, the deadline, or a
\* release row that is gone or locked against its own worker.
Abort(j) ==
  /\ job[j].phase = "walk"
  /\ job' = [job EXCEPT ![j] = Past(j, "fail")]
  /\ UNCHANGED <<release, item, doc, owner, edit, page, edits, faults, lapsed,
                 shipped>>

RecordFailure_Nowhere(j) ==
  /\ job[j].phase = "fail"
  /\ job' = [job EXCEPT ![j] = Past(j, "announce")]
  /\ UNCHANGED <<release, item, doc, owner, edit, page, edits, faults, lapsed,
                 shipped>>

\* fail/4: a write of its own, after the transaction is gone.
RecordFailure(j) ==
  /\ job[j].phase = "fail"
  /\ release' = IF release.state = "deleted" THEN release
                ELSE [release EXCEPT !.state = AbandonedTo(ClaimOf(job[j].mode))]
  /\ job' = [job EXCEPT ![j] = Past(j, "announce")]
  /\ UNCHANGED <<item, doc, owner, edit, page, edits, faults, lapsed, shipped>>

\* announce/1: every page open on the release reads it again.
Announce(j) ==
  /\ job[j].phase = "announce"
  /\ job' = [job EXCEPT ![j] = Past(j, "done")]
  /\ page' = [a \in Admins |-> release]
  /\ UNCHANGED <<release, item, doc, owner, edit, edits, faults, lapsed, shipped>>

\* An exception: guarded/2 turns it into an abandon, which finds no claim and
\* announces nothing if the outcome is already written.
Raise(j) ==
  /\ faults < MaxFaults
  /\ job[j].phase \in {"list", "walk", "fail", "announce"}
  /\ job' = [job EXCEPT ![j] = Past(j, "abandon")]
  /\ faults' = faults + 1
  /\ UNCHANGED <<release, item, doc, owner, edit, page, edits, lapsed, shipped>>

AbandonRun_Swallowed(j) ==
  /\ job[j].phase = "abandon"
  /\ job' = [job EXCEPT ![j] = Past(j, "done")]
  /\ UNCHANGED <<release, item, doc, owner, edit, page, edits, faults, lapsed, shipped>>

AbandonRun(j) ==
  /\ job[j].phase = "abandon"
  /\ release' = IF release.state \in Claimed
                THEN [release EXCEPT !.state = AbandonedTo(ClaimOf(job[j].mode))]
                ELSE release
  /\ job' = [job EXCEPT ![j] = Past(j, "done")]
  /\ UNCHANGED <<item, doc, owner, edit, page, edits, faults, lapsed, shipped>>
-----------------------------------------------------------------------------
(* What the worker loses: each leaves the release in its claim. *)

Loses(j, from, to) ==
  /\ job[j].phase \in from
  /\ job' = [job EXCEPT ![j] = Past(j, to)]
  /\ lapsed' = lapsed \cup {j}
  /\ UNCHANGED <<release, item, doc, owner, edit, page, edits, shipped>>

\* perform/1 cannot read the release: a refusal discards the job, and anything
\* else is taken for a release that vanished.
ReadFails(j) ==
  UNCHANGED faults /\ \E to \in {"done", "discarded"} : Loses(j, {"available"}, to)

\* announce_failure/4, {:error, reason}: publish/1 and roll_back/1 announce it
\* all the same.
FailureUnrecorded(j) == UNCHANGED faults /\ Loses(j, {"fail"}, "announce")

\* abandon/1 ignores an error and rescues an exception.
AbandonFails(j) == UNCHANGED faults /\ Loses(j, {"abandon"}, "done")

\* The worker's node goes away; the job's row says executing until rescued.
Kill(j) ==
  /\ faults < MaxFaults
  /\ faults' = faults + 1
  /\ Loses(j, {"list", "walk", "fail", "abandon", "announce"}, "killed")

Lapse(j) == ReadFails(j) \/ FailureUnrecorded(j) \/ AbandonFails(j) \/ Kill(j)

\* max_attempts is 1: a rescued job is discarded.
Rescue(j) ==
  /\ job[j].phase = "killed"
  /\ job' = [job EXCEPT ![j].phase = "discarded"]
  /\ UNCHANGED <<release, item, doc, owner, edit, page, edits, faults, lapsed,
                 shipped>>

Step(j) ==
  \/ Begin(j) \/ List(j) \/ (\E d \in Docs : Fetch(j, d)) \/ Apply(j) \/ Undo(j)
  \/ Commit(j) \/ Abort(j) \/ RecordFailure(j) \/ Announce(j) \/ AbandonRun(j)
-----------------------------------------------------------------------------
Next ==
  \/ \E d \in Docs : EditDoc(d)
  \/ \E op \in {"add", "cancel", "set_action"}, d \in Docs, action \in {"publish", "unpublish"} :
       BeginEdit(op, d, action)
  \/ FinishEdit
  \/ CronClaim
  \/ \E a \in Admins :
       \/ Schedule(a) \/ Unschedule(a) \/ PublishNow(a) \/ RollBack(a) \/ Reopen(a)
       \/ Archive(a) \/ Delete(a) \/ Abandon(a) \/ Refresh(a)
  \/ \E j \in Jobs : Step(j) \/ Raise(j) \/ Lapse(j) \/ Rescue(j)

Spec == Init /\ [][Next]_vars

\* The queue runs what is enqueued, and a running worker takes its next step.
FairSpec == Spec /\ \A j \in Jobs : WF_vars(Step(j))
-----------------------------------------------------------------------------
(* Properties. *)

\* A release that is claimed is somebody's: a job that will run or a worker that
\* is running (EnqueueReleaseWorker: a claim never commits without its job).
\* Only if the claim's own job was killed, or could not read the release or
\* write its outcome, is it left to an admin (announce_failure/4).
ClaimIsOwned ==
  release.state \in Claimed =>
    \E j \in Jobs :
      /\ ClaimOf(job[j].mode) = release.state
      /\ job[j].phase = "available" \/ Running(j) \/ (j = owner /\ j \in lapsed)

\* Once a release is past composing no item of it goes on reserving its
\* document, be the items walked, cancelled or deleted; the write of an item
\* that was validated earlier is taken to have landed ("late_edit"), as
\* ReleaseOpenForEdit says it refuses one that has not.
ReservationsEnd ==
  release.state \in {"published", "rolling_back", "rolled_back", "archived", "deleted"} =>
    ItemsIn("pending") = {}

\* What a launch changed and no rollback has undone is remembered, item by
\* item, for as long as it can be undone: whoever cancels, edits, retries,
\* archives or deletes (ReleaseDeletable, ReleaseItem's :set_action).
ShippedIsUndoable ==
  \A d \in shipped : item[d].status \in {"applied", "rolled_back"}

\* The documented life of a release, and its two moments of effect.
Contract == INSTANCE ReleaseContract WITH
  state <- release.state, launched <- release.published, inForce <- ItemsIn("applied")

ContractSpec == Contract!Spec

\* A claim ends by itself, through failures and exceptions of its worker, unless
\* its own job was killed, or could not read the release or write its outcome
\* (then Abandon is left).
ClaimsEnd ==
  \A j \in Jobs :
    (release.state \in Claimed /\ owner = j) ~> (release.state \notin Claimed \/ j \in lapsed)

\* Worker j undoes document d in this step.
Undoes(j, d) ==
  /\ job[j].mode = "rollback" /\ job[j].phase = "walk"
  /\ d \in In(job'[j].items) \ In(job[j].items)

\* The document as worker j leaves it for its commit.
Leaves(j, d) == IF d \in In(job'[j].docs) THEN job'[j].docs[d] ELSE doc[d]

\* A rollback puts every document back where the launch found it: the live ones
\* live, and the others not, unless someone writes the document between the
\* worker's read and its write.  The text readers saw comes back too, through
\* every edit made since, when the item is clean (Releases.restore_state/4).
RollbackPutsBack ==
  [][\A j \in Jobs, d \in Docs :
       Undoes(j, d) /\ job[j].seen.state # "gone" =>
         LET left == Leaves(j, d) IN
         /\ item[d].prior = "published" => left.state = "published"
         /\ job[j].seen = doc[d] =>
              IF item[d].prior = "published"
              THEN item[d].clean => left.text = item[d].live
              ELSE /\ left.state # "published"
                   /\ item[d].prior = "in_review" => left.state # "draft"]_vars

\* The same with no condition on the item: what the documentation says.
RollbackIsExact ==
  [][\A j \in Jobs, d \in Docs :
       /\ Undoes(j, d)
       /\ item[d].prior = "published"
       /\ job[j].seen.state # "gone"
       /\ job[j].seen = doc[d]
       => Leaves(j, d).text = item[d].live]_vars

\* A rollback never writes a document the release did not change, whatever
\* happened to its item in between (Releases: skipped items are left alone).
RollbackSparesOthers ==
  [][\A j \in Jobs, d \in Docs \ shipped :
       job[j].mode = "rollback" => d \notin In(job'[j].docs)]_vars
=============================================================================
