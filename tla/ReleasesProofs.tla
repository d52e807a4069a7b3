--------------------------- MODULE ReleasesProofs ---------------------------
(***************************************************************************)
(* Theorems about Releases, for any number of documents, texts, console    *)
(* pages, claims, edits and faults.  The types hold whatever slips, and so *)
(* does what a rollback spares; the life of a release, the contract it     *)
(* implements and what a rollback puts back are proved where the           *)
(* surroundings get nothing wrong.                                         *)
(***************************************************************************)
EXTENDS Releases, TLAPS

-----------------------------------------------------------------------------
(* Types.  A worker outside its walk holds nothing, and inside it is at an *)
(* item it has read.                                                       *)

WellHeld(row) ==
  /\ row.phase # "walk" => /\ row.at = None
                          /\ row.list = NoRows
                          /\ row.items = NoRows
                          /\ row.docs = NoRows
  /\ row.at # None => row.at \in In(row.list)

TypeInv == TypeOK /\ \A j \in Jobs : WellHeld(job[j])

LEMMA BlankRows ==
  /\ NoItem \in ItemRow
  /\ \A action \in {"publish", "unpublish"} : NewItem(action) \in ItemRow
  /\ Gone \in DocRow
  /\ \A R : NoRows \in Rows(R)
  /\ In(NoRows) = {}
BY DEF NoItem, NewItem, ItemRow, DocStates, Gone, DocRow, NoRows, Rows, In

LEMMA BlankJobs ==
  ASSUME NEW mode \in {"publish", "rollback"}
  PROVE  /\ NoJob \in JobRow
         /\ \A phase \in {"available", "fail", "abandon", "announce", "done", "killed", "discarded"} :
              /\ [NewJob(mode) EXCEPT !.phase = phase] \in JobRow
              /\ [NewJob(mode) EXCEPT !.phase = phase].phase = phase
              /\ [NewJob(mode) EXCEPT !.phase = phase].mode = mode
              /\ [NewJob(mode) EXCEPT !.phase = phase].at = None
              /\ [NewJob(mode) EXCEPT !.phase = phase].list = NoRows
              /\ [NewJob(mode) EXCEPT !.phase = phase].items = NoRows
              /\ [NewJob(mode) EXCEPT !.phase = phase].docs = NoRows
         /\ NewJob(mode) = [NewJob(mode) EXCEPT !.phase = "available"]
<1>1. NoJob \in JobRow
  BY BlankRows DEF NoJob, JobRow
<1>2. /\ NewJob(mode) \in JobRow
      /\ NewJob(mode).phase = "available" /\ NewJob(mode).mode = mode
      /\ NewJob(mode).at = None /\ NewJob(mode).list = NoRows
      /\ NewJob(mode).items = NoRows /\ NewJob(mode).docs = NoRows
  BY <1>1 DEF NewJob, NoJob, JobRow
<1>3. NewJob(mode) = [NewJob(mode) EXCEPT !.phase = "available"]
  BY DEF NewJob, NoJob
<1> QED BY <1>1, <1>2, <1>3 DEF JobRow

\* What a document's actions write is a document's row.
LEMMA DocWrites ==
  ASSUME NEW row \in DocRow, NEW seen \in DocRow
  PROVE  /\ [row EXCEPT !.moved = TRUE] \in DocRow
         /\ [row EXCEPT !.moved = FALSE] \in DocRow
         /\ \A text \in Texts \cup {None} : [row EXCEPT !.text = text] \in DocRow
         /\ \A state \in DocStates : [row EXCEPT !.state = state] \in DocRow
         /\ Cleared(row) \in DocRow
         /\ Promoted(seen, row) \in Texts \cup {None}
         /\ Published(row) \in DocRow
         /\ ChangesPublished(row) \in DocRow
         /\ \A to \in {"draft", "archived"} : Retired(seen, row, to) \in DocRow
<1>1. Cleared(row) \in DocRow
  BY DEF DocRow, Cleared
<1>2. /\ Promoted(seen, row) \in Texts \cup {None}
      /\ Promoted(row, row) \in Texts \cup {None}
  BY DEF DocRow, Promoted
<1>3. Published(row) \in DocRow
  BY DEF DocRow, Published, DocStates
<1>4. ChangesPublished(row) \in DocRow
  BY <1>1, <1>2 DEF DocRow, ChangesPublished
<1>5. \A to \in {"draft", "archived"} : Retired(seen, row, to) \in DocRow
  BY <1>1, <1>2 DEF DocRow, DocStates, Retired
<1> QED BY <1>1, <1>2, <1>3, <1>4, <1>5 DEF DocRow

LEMMA UndoWrites ==
  ASSUME NEW plan \in ItemRow, NEW seen \in DocRow, NEW row \in DocRow
  PROVE  Restored(plan, seen, row) \in DocRow /\ TakenDown(plan, seen, row) \in DocRow
<1>1. plan.version \in Texts \cup {None}
  BY DEF ItemRow
<1>2. [Cleared(row) EXCEPT !.text = plan.version] \in DocRow
  BY <1>1, DocWrites DEF DocRow
<1>3. Published([Cleared(row) EXCEPT !.text = plan.version]) \in DocRow
  BY <1>2, DocWrites
<1>4. Restored(plan, seen, row) \in DocRow
  BY <1>2, <1>3, DocWrites DEF Restored
<1>5. Retired(seen, row, "draft") \in DocRow
  BY DocWrites
<1>6. \A down \in DocRow : [down EXCEPT !.state = "in_review"] \in DocRow
  BY DEF DocRow, DocStates
<1> QED BY <1>4, <1>5, <1>6 DEF TakenDown

\* An item the worker marks is an item's row.
LEMMA Marks ==
  ASSUME NEW d \in Docs, item[d] \in ItemRow, NEW seen \in DocRow
  PROVE  /\ Skipped(d, seen) \in ItemRow /\ Skipped(d, seen).status = "skipped"
         /\ [item[d] EXCEPT !.status = "rolled_back"] \in ItemRow
         /\ [item[d] EXCEPT !.status = "rolled_back"].status = "rolled_back"
         /\ \A action, after : \A row \in DocRow :
              /\ Mark(d, Applied(d, action, seen, row, after)) \in ItemRow
              /\ Mark(d, Applied(d, action, seen, row, after)).status = "applied"
<1>1. /\ Skipped(d, seen) \in ItemRow /\ Skipped(d, seen).status = "skipped"
      /\ [item[d] EXCEPT !.status = "rolled_back"] \in ItemRow
      /\ [item[d] EXCEPT !.status = "rolled_back"].status = "rolled_back"
  BY DEF Skipped, ItemRow, DocRow
<1>2. ASSUME NEW action, NEW row \in DocRow, NEW after
      PROVE  /\ Mark(d, Applied(d, action, seen, row, after)) \in ItemRow
             /\ Mark(d, Applied(d, action, seen, row, after)).status = "applied"
  <2> DEFINE how == Applied(d, action, seen, row, after)
  <2>1. /\ how.status = "applied" /\ how.prior \in DocStates
        /\ how.version \in Texts \cup {None} /\ how.live \in Texts \cup {None}
        /\ how.clean \in BOOLEAN
    BY DEF Applied, DocRow
  <2> HIDE DEF how
  <2>2. Mark(d, how) \in ItemRow /\ Mark(d, how).status = "applied"
    BY <2>1 DEF Mark, ItemRow
  <2> QED BY <2>2 DEF how
<1> QED BY <1>1, <1>2

\* A step of one job changes one row.
LEMMA OneJob ==
  ASSUME TypeInv, NEW j \in Jobs,
         job' = [job EXCEPT ![j] = job'[j]], job'[j] \in JobRow, WellHeld(job'[j])
  PROVE  /\ job' \in [Jobs -> JobRow]
         /\ \A i \in Jobs : WellHeld(job'[i])
         /\ \A i \in Jobs \ {j} : job'[i] = job[i]
<1>1. /\ job' \in [Jobs -> JobRow]
      /\ \A i \in Jobs \ {j} : job'[i] = job[i]
  BY DEF TypeInv, TypeOK
<1> QED BY <1>1 DEF TypeInv

\* A worker that is past its transaction.
LEMMA PastRow ==
  ASSUME TypeInv, NEW j \in Jobs,
         NEW phase \in {"fail", "abandon", "announce", "done", "killed", "discarded"},
         job' = [job EXCEPT ![j] = Past(j, phase)]
  PROVE  /\ job' = [job EXCEPT ![j] = job'[j]]
         /\ job'[j] \in JobRow /\ WellHeld(job'[j])
         /\ job'[j].phase = phase /\ job'[j].mode = job[j].mode
<1>1. job[j].mode \in {"publish", "rollback"}
  BY DEF TypeInv, TypeOK, JobRow
<1>2. job'[j] = [NewJob(job[j].mode) EXCEPT !.phase = phase]
  BY DEF TypeInv, TypeOK, Past
<1>3. job' = [job EXCEPT ![j] = job'[j]]
  BY <1>2 DEF TypeInv, TypeOK, Past
<1>4. phase # "walk"
  OBVIOUS
<1> DEFINE blank == [NewJob(job[j].mode) EXCEPT !.phase = phase]
<1>5. /\ blank \in JobRow
      /\ blank.phase = phase /\ blank.mode = job[j].mode
      /\ blank.at = None /\ blank.list = NoRows
      /\ blank.items = NoRows /\ blank.docs = NoRows
  BY <1>1, BlankJobs
<1>6. job'[j] = blank
  BY <1>2
<1> HIDE DEF blank
<1> QED BY <1>3, <1>4, <1>5, <1>6 DEF WellHeld

\* What a job loses is its own place in the queue.
LEMMA Lost ==
  ASSUME NEW j \in Jobs, Lapse(j)
  PROVE  /\ \E to \in {"announce", "done", "killed", "discarded"} :
              /\ job' = [job EXCEPT ![j] = Past(j, to)]
              /\ to = "announce" => job[j].phase = "fail"
         /\ job[j].phase \in {"available", "list", "walk", "fail", "abandon", "announce"}
         /\ lapsed' = lapsed \cup {j}
         /\ UNCHANGED <<release, item, doc, owner, edit, page, edits, shipped>>
         /\ faults' = faults \/ (faults < MaxFaults /\ faults' = faults + 1)
<1>1. CASE ReadFails(j)
  BY <1>1 DEF ReadFails, Loses
<1>2. CASE FailureUnrecorded(j)
  BY <1>2 DEF FailureUnrecorded, Loses
<1>3. CASE AbandonFails(j)
  BY <1>3 DEF AbandonFails, Loses
<1>4. CASE Kill(j)
  BY <1>4 DEF Kill, Loses
<1> QED BY <1>1, <1>2, <1>3, <1>4 DEF Lapse

\* A worker that has walked an item.
LEMMA StagedRow ==
  ASSUME TypeInv, NEW j \in Jobs, NEW mark \in ItemRow, NEW row \in DocRow \cup {None},
         job[j].phase = "walk", job[j].at # None, Stage(j, mark, row)
  PROVE  /\ job' = [job EXCEPT ![j] = job'[j]]
         /\ job'[j] \in JobRow /\ WellHeld(job'[j])
         /\ job'[j].phase = "walk" /\ job'[j].mode = job[j].mode
         /\ job'[j].list = [job[j].list EXCEPT ![job[j].at] = None]
         /\ job'[j].items = [job[j].items EXCEPT ![job[j].at] = mark]
         /\ job'[j].docs = [job[j].docs EXCEPT ![job[j].at] =
                              IF row = None THEN None ELSE [row EXCEPT !.moved = FALSE]]
<1> DEFINE d == job[j].at
           left == IF row = None THEN None ELSE [row EXCEPT !.moved = FALSE]
<1>1. /\ job \in [Jobs -> JobRow] /\ job[j] \in JobRow
      /\ d \in Docs
      /\ job[j].list \in Rows(ItemRow) /\ job[j].items \in Rows(ItemRow)
      /\ job[j].docs \in Rows(DocRow)
  BY DEF TypeInv, TypeOK, JobRow
<1>2. left \in DocRow \cup {None}
  BY DocWrites
<1>3. /\ [job[j].list EXCEPT ![d] = None] \in Rows(ItemRow)
      /\ [job[j].items EXCEPT ![d] = mark] \in Rows(ItemRow)
      /\ [job[j].docs EXCEPT ![d] = left] \in Rows(DocRow)
  <2> HIDE DEF d, left
  <2> QED BY <1>1, <1>2 DEF Rows
<1>4. job' = [job EXCEPT ![j].at = None, ![j].seen = Gone, ![j].list[d] = None,
                         ![j].items[d] = mark, ![j].docs[d] = left]
  BY DEF Stage
<1>5. /\ job'[j] = [job[j] EXCEPT !.at = None, !.seen = Gone, !.list = [@ EXCEPT ![d] = None],
                                 !.items = [@ EXCEPT ![d] = mark], !.docs = [@ EXCEPT ![d] = left]]
      /\ job' = [job EXCEPT ![j] = job'[j]]
  <2> HIDE DEF d, left
  <2> QED BY <1>1, <1>4 DEF JobRow
<1>6. /\ job'[j].phase = "walk" /\ job'[j].mode = job[j].mode
      /\ job'[j].at = None /\ job'[j].seen = Gone
      /\ job'[j].list = [job[j].list EXCEPT ![d] = None]
      /\ job'[j].items = [job[j].items EXCEPT ![d] = mark]
      /\ job'[j].docs = [job[j].docs EXCEPT ![d] = left]
  <2> HIDE DEF d, left
  <2> QED BY <1>1, <1>5 DEF JobRow
<1>7. job'[j] \in JobRow
  <2> HIDE DEF d, left
  <2>1. job'[j] = [mode |-> job[j].mode, phase |-> "walk",
                   list |-> [job[j].list EXCEPT ![d] = None], at |-> None, seen |-> Gone,
                   items |-> [job[j].items EXCEPT ![d] = mark],
                   docs |-> [job[j].docs EXCEPT ![d] = left]]
    BY <1>1, <1>5 DEF JobRow
  <2> QED BY <1>1, <1>3, <2>1, BlankRows DEF JobRow
<1> QED BY <1>5, <1>6, <1>7 DEF WellHeld

LEMMA InitTypeInv == Init => TypeInv
<1> SUFFICES ASSUME Init PROVE TypeInv
  OBVIOUS
<1>1. release \in ReleaseRow /\ page \in [Admins -> ReleaseRow]
  BY DEF Init, ReleaseRow
<1>2. item \in [Docs -> ItemRow]
  BY BlankRows DEF Init
<1>3. doc \in [Docs -> DocRow]
  <2> DEFINE text == CHOOSE t \in Texts : TRUE
             draft == [Gone EXCEPT !.state = "draft", !.text = text]
             live == [draft EXCEPT !.state = "published", !.version = text]
  <2>1. text \in Texts
    BY ReleasesAssumption
  <2>2. Gone \in DocRow
    BY BlankRows
  <2>3. draft \in DocRow
    <3> HIDE DEF text
    <3> QED BY <2>1, <2>2 DEF DocRow, DocStates
  <2>4. live \in DocRow
    <3> HIDE DEF text, draft
    <3> QED BY <2>1, <2>3 DEF DocRow, DocStates
  <2>5. ASSUME NEW t \in Texts
        PROVE  [live EXCEPT !.working = t, !.base = text] \in DocRow
    <3> HIDE DEF text, live
    <3> QED BY <2>1, <2>4 DEF DocRow
  <2>6. doc \in [Docs -> {draft, live} \cup {[live EXCEPT !.working = t, !.base = text] :
                                               t \in Texts \ {text}}]
    BY DEF Init
  <2> DEFINE begun == {draft, live} \cup {[live EXCEPT !.working = t, !.base = text] :
                                          t \in Texts \ {text}}
  <2>7. begun \subseteq DocRow
    <3> HIDE DEF text, draft, live
    <3> QED BY <2>3, <2>4, <2>5
  <2>8. doc \in [Docs -> begun]
    BY <2>6
  <2> HIDE DEF begun
  <2> QED BY <2>7, <2>8
<1>4. job \in [Jobs -> JobRow]
  <2>1. NoJob \in JobRow
    BY BlankJobs
  <2> QED BY <2>1 DEF Init
<1>5. \A j \in Jobs : WellHeld(job[j])
  BY DEF Init, NoJob, WellHeld
<1>6. /\ owner \in 0..MaxClaims /\ edits \in 0..MaxEdits /\ faults \in 0..MaxFaults
      /\ lapsed \subseteq Jobs /\ shipped \subseteq Docs
  <2>1. owner = 0 /\ edits = 0 /\ faults = 0 /\ lapsed = {} /\ shipped = {}
    BY DEF Init
  <2>2. 0 \in 0..MaxClaims /\ 0 \in 0..MaxEdits /\ 0 \in 0..MaxFaults
    BY ReleasesAssumption
  <2> QED BY <2>1, <2>2
<1>7. edit \in [op: {"none", "add", "cancel", "set_action"}, doc: Docs \cup {None},
                action: {"publish", "unpublish"}]
  BY DEF Init, NoEdit
<1> QED BY <1>1, <1>2, <1>3, <1>4, <1>5, <1>6, <1>7 DEF TypeInv, TypeOK

LEMMA SameJobs ==
  ASSUME TypeInv, UNCHANGED job
  PROVE  job' \in [Jobs -> JobRow] /\ \A j \in Jobs : WellHeld(job'[j])
BY DEF TypeInv, TypeOK

LEMMA WriteTypes ==
  ASSUME TypeInv, NEW d \in Docs, NEW row \in DocRow, Write(d, row)
  PROVE  TypeInv'
<1>1. doc' \in [Docs -> DocRow]
  <2>1. [row EXCEPT !.moved = TRUE] \in DocRow
    BY DocWrites
  <2> QED BY <2>1 DEF TypeInv, TypeOK, Write
<1>2. edits' \in 0..MaxEdits
  BY ReleasesAssumption DEF TypeInv, TypeOK, Write
<1>3. job' \in [Jobs -> JobRow] /\ \A j \in Jobs : WellHeld(job'[j])
  BY SameJobs DEF Write
<1> QED BY <1>1, <1>2, <1>3 DEF TypeInv, TypeOK, Write

LEMMA EditDocTypes ==
  ASSUME TypeInv, NEW d \in Docs, EditDoc(d)
  PROVE  TypeInv'
<1>1. doc[d] \in DocRow
  BY DEF TypeInv, TypeOK
<1>2. CASE Update(d)
  <2>1. \A text \in Texts : [doc[d] EXCEPT !.text = text] \in DocRow
    BY <1>1, DocWrites
  <2> QED BY <1>2, <2>1, WriteTypes DEF Update
<1>3. CASE SaveWorkingCopy(d)
  <2>1. PICK text \in Texts :
          Write(d, IF text = doc[d].text
                   THEN Cleared(doc[d])
                   ELSE [doc[d] EXCEPT !.working = text,
                                       !.base = IF @ = None THEN doc[d].text ELSE @])
    BY <1>3 DEF SaveWorkingCopy
  <2>2. [doc[d] EXCEPT !.working = text, !.base = IF @ = None THEN doc[d].text ELSE @] \in DocRow
    BY <1>1 DEF DocRow
  <2> QED BY <1>1, <2>1, <2>2, DocWrites, WriteTypes
<1>4. CASE PublishChanges(d)
  <2>1. \A text \in {doc[d].text, doc[d].working} :
          [Cleared(doc[d]) EXCEPT !.text = text, !.version = text] \in DocRow
    <3>1. Cleared(doc[d]) \in DocRow
      BY <1>1, DocWrites
    <3>2. {doc[d].text, doc[d].working} \subseteq Texts \cup {None}
      BY <1>1 DEF DocRow
    <3> QED BY <3>1, <3>2 DEF DocRow
  <2>2. ChangesPublished(doc[d]) \in DocRow
    BY <1>1, DocWrites
  <2> QED BY <1>4, <2>1, <2>2, WriteTypes DEF PublishChanges
<1>5. CASE PublishDoc(d) \/ UnpublishDoc(d) \/ ArchiveDoc(d)
  BY <1>1, <1>5, DocWrites, WriteTypes DEF PublishDoc, UnpublishDoc, ArchiveDoc
<1>6. CASE MoveDoc(d)
  <2>1. [doc[d] EXCEPT !.state = "in_review"] \in DocRow /\ [doc[d] EXCEPT !.state = "draft"] \in DocRow
    BY <1>1 DEF DocRow, DocStates
  <2> QED BY <1>6, <2>1, WriteTypes DEF MoveDoc
<1>7. CASE TrashDoc(d)
  BY <1>7, BlankRows, WriteTypes DEF TrashDoc
<1> QED BY <1>2, <1>3, <1>4, <1>5, <1>6, <1>7 DEF EditDoc

LEMMA ComposeTypes ==
  ASSUME TypeInv,
         \/ \E op \in {"add", "cancel", "set_action"}, d \in Docs, action \in {"publish", "unpublish"} :
              BeginEdit(op, d, action)
         \/ FinishEdit
  PROVE  TypeInv'
<1>1. CASE \E op \in {"add", "cancel", "set_action"}, d \in Docs, action \in {"publish", "unpublish"} :
             BeginEdit(op, d, action)
  <2>1. job' \in [Jobs -> JobRow] /\ \A j \in Jobs : WellHeld(job'[j])
    BY <1>1, SameJobs DEF BeginEdit
  <2>2. edit' \in [op: {"none", "add", "cancel", "set_action"}, doc: Docs \cup {None},
                   action: {"publish", "unpublish"}]
    BY <1>1 DEF BeginEdit
  <2> QED BY <1>1, <2>1, <2>2 DEF TypeInv, TypeOK, BeginEdit
<1>2. CASE FinishEdit
  <2>1. job' \in [Jobs -> JobRow] /\ \A j \in Jobs : WellHeld(job'[j])
    BY <1>2, SameJobs DEF FinishEdit
  <2>2. edit' \in [op: {"none", "add", "cancel", "set_action"}, doc: Docs \cup {None},
                   action: {"publish", "unpublish"}]
    BY <1>2 DEF FinishEdit, NoEdit
  <2>3. ASSUME edit.doc \in Docs
        PROVE  Edited(edit.doc) \in ItemRow
    <3>1. item[edit.doc] \in ItemRow /\ edit.action \in {"publish", "unpublish"}
      BY <2>3 DEF TypeInv, TypeOK
    <3>2. NewItem(edit.action) \in ItemRow
      BY <3>1, BlankRows
    <3>3. /\ [item[edit.doc] EXCEPT !.status = "cancelled"] \in ItemRow
          /\ [item[edit.doc] EXCEPT !.action = edit.action] \in ItemRow
      BY <3>1 DEF ItemRow
    <3> QED BY <3>1, <3>2, <3>3 DEF Edited
  <2>4. item' \in [Docs -> ItemRow]
    BY <1>2, <2>3 DEF TypeInv, TypeOK, FinishEdit
  <2> QED BY <1>2, <2>1, <2>2, <2>4 DEF TypeInv, TypeOK, FinishEdit
<1> QED BY <1>1, <1>2

\* A claim inserts a job, or another's counts for it.
LEMMA Enqueued ==
  ASSUME TypeInv, NEW mode \in {"publish", "rollback"}, Enqueue(mode)
  PROVE  /\ job' \in [Jobs -> JobRow] /\ \A j \in Jobs : WellHeld(job'[j])
         /\ owner' \in 0..MaxClaims
         /\ \/ /\ "quick_restart" \in Slips /\ UNCHANGED job
            \/ /\ owner' \in Jobs /\ job[owner'].phase = "none"
               /\ job'[owner'].phase = "available" /\ job'[owner'].mode = mode
               /\ \A j \in Jobs \ {owner'} : job'[j] = job[j]
<1>1. CASE "quick_restart" \in Slips /\ UNCHANGED job /\ owner' = 0
  <2>1. 0 \in 0..MaxClaims
    BY ReleasesAssumption
  <2> QED BY <1>1, <2>1, SameJobs
<1>2. ASSUME NEW j \in Jobs, job[j].phase = "none", job' = [job EXCEPT ![j] = NewJob(mode)],
             owner' = j
      PROVE  /\ job' \in [Jobs -> JobRow] /\ \A i \in Jobs : WellHeld(job'[i])
             /\ owner' \in 0..MaxClaims
             /\ owner' \in Jobs /\ job[owner'].phase = "none"
             /\ job'[owner'].phase = "available" /\ job'[owner'].mode = mode
             /\ \A i \in Jobs \ {owner'} : job'[i] = job[i]
  <2> DEFINE blank == [NewJob(mode) EXCEPT !.phase = "available"]
  <2>1. /\ NewJob(mode) = blank /\ blank \in JobRow
        /\ blank.phase = "available" /\ blank.mode = mode
        /\ blank.at = None /\ blank.list = NoRows
        /\ blank.items = NoRows /\ blank.docs = NoRows
    BY BlankJobs
  <2>2. job'[j] = NewJob(mode) /\ job' = [job EXCEPT ![j] = job'[j]]
    BY <1>2 DEF TypeInv, TypeOK
  <2> HIDE DEF blank
  <2>3. job'[j] \in JobRow /\ WellHeld(job'[j])
    BY <2>1, <2>2 DEF WellHeld
  <2>4. owner' \in 0..MaxClaims
    BY <1>2, ReleasesAssumption DEF Jobs
  <2> QED BY <1>2, <2>1, <2>2, <2>3, <2>4, OneJob
<1> QED BY <1>1, <1>2 DEF Enqueue

LEMMA ClaimTypes ==
  ASSUME TypeInv,
         CronClaim \/ \E a \in Admins : PublishNow(a) \/ RollBack(a)
  PROVE  TypeInv'
<1>1. ASSUME NEW mode \in {"publish", "rollback"}, NEW state \in {"publishing", "rolling_back"},
             Claim(mode, state),
             page' = page \/ \E a \in Admins : page' = [page EXCEPT ![a] = release']
      PROVE  TypeInv'
  <2>1. release' \in ReleaseRow
    BY <1>1 DEF Claim, TypeInv, TypeOK, ReleaseRow
  <2>2. page' \in [Admins -> ReleaseRow]
    BY <1>1, <2>1 DEF TypeInv, TypeOK
  <2>3. /\ job' \in [Jobs -> JobRow] /\ \A j \in Jobs : WellHeld(job'[j])
        /\ owner' \in 0..MaxClaims
    BY <1>1, Enqueued DEF Claim
  <2> QED BY <1>1, <2>1, <2>2, <2>3 DEF TypeInv, TypeOK, Claim
<1> QED BY <1>1 DEF CronClaim, PublishNow, RollBack

LEMMA ClickTypes ==
  ASSUME TypeInv, NEW a \in Admins,
         \/ Schedule(a) \/ Unschedule(a) \/ Reopen(a) \/ Archive(a) \/ Delete(a) \/ Abandon(a)
         \/ Refresh(a)
  PROVE  TypeInv'
<1>1. ASSUME NEW from, NEW state \in {"scheduled", "open", "archived", "deleted", "published", "failed"},
             Click(a, from, state), item' \in [Docs -> ItemRow]
      PROVE  TypeInv'
  <2>1. release' \in ReleaseRow
    BY <1>1 DEF Click, TypeInv, TypeOK, ReleaseRow
  <2>2. page' \in [Admins -> ReleaseRow]
    BY <1>1, <2>1 DEF Click, TypeInv, TypeOK
  <2>3. job' \in [Jobs -> JobRow] /\ \A j \in Jobs : WellHeld(job'[j])
    BY <1>1, SameJobs DEF Click
  <2> QED BY <1>1, <2>1, <2>2, <2>3 DEF TypeInv, TypeOK, Click
<1>2. item \in [Docs -> ItemRow]
  BY DEF TypeInv, TypeOK
<1>3. CASE Schedule(a) \/ Unschedule(a) \/ Reopen(a) \/ Abandon(a)
  BY <1>1, <1>2, <1>3 DEF Schedule, Unschedule, Reopen, Abandon, AbandonedTo
<1>4. CASE Archive(a)
  <2>1. \A d \in Docs : [item[d] EXCEPT !.status = "cancelled"] \in ItemRow
    BY <1>2 DEF ItemRow
  <2>2. item' \in [Docs -> ItemRow]
    BY <1>2, <1>4, <2>1 DEF Archive
  <2> QED BY <1>1, <1>4, <2>2 DEF Archive
<1>5. CASE Delete(a)
  BY <1>1, <1>5, BlankRows DEF Delete
<1>6. CASE Refresh(a)
  <2>1. job' \in [Jobs -> JobRow] /\ \A j \in Jobs : WellHeld(job'[j])
    BY <1>6, SameJobs DEF Refresh
  <2> QED BY <1>6, <2>1 DEF TypeInv, TypeOK, Refresh
<1> QED BY <1>3, <1>4, <1>5, <1>6

\* Walking one item, on the way out or back.
Walked(j) ==
  LET d == job[j].at IN
  /\ job[j].phase = "walk" /\ d \in In(job[j].list)
  /\ job' = [job EXCEPT ![j] = job'[j]]
  /\ job'[j] \in JobRow /\ WellHeld(job'[j])
  /\ job'[j].phase = "walk" /\ job'[j].mode = job[j].mode
  /\ job'[j].list = [job[j].list EXCEPT ![d] = None]
  /\ \E mark \in ItemRow :
       /\ job'[j].items = [job[j].items EXCEPT ![d] = mark]
       /\ job[j].mode = "publish" => mark.status \in {"applied", "skipped"}
       /\ job[j].mode = "rollback" => mark.status = "rolled_back"
       /\ \E row \in DocRow \cup {None} :
            /\ job'[j].docs = [job[j].docs EXCEPT ![d] = row]
            /\ job[j].mode = "publish" => (row # None <=> mark.status = "applied")
  /\ UNCHANGED <<release, item, doc, owner, edit, page, edits, faults, lapsed,
                 shipped>>

LEMMA StageWalks ==
  ASSUME TypeInv, NEW j \in Jobs, NEW mark \in ItemRow, NEW row \in DocRow \cup {None},
         job[j].phase = "walk", job[j].at # None, Stage(j, mark, row),
         job[j].mode = "publish" => mark.status \in {"applied", "skipped"},
         job[j].mode = "rollback" => mark.status = "rolled_back",
         job[j].mode = "publish" => (row # None <=> mark.status = "applied")
  PROVE  Walked(j)
<1> DEFINE left == IF row = None THEN None ELSE [row EXCEPT !.moved = FALSE]
<1>1. left \in DocRow \cup {None} /\ (left # None <=> row # None)
  BY DocWrites, NoneIsNoRow
<1>2. job[j].at \in In(job[j].list)
  BY DEF TypeInv, WellHeld
<1>3. UNCHANGED <<release, item, doc, owner, edit, page, edits, faults, lapsed,
                  shipped>>
  BY DEF Stage
<1>4. /\ job' = [job EXCEPT ![j] = job'[j]]
      /\ job'[j] \in JobRow /\ WellHeld(job'[j])
      /\ job'[j].phase = "walk" /\ job'[j].mode = job[j].mode
      /\ job'[j].list = [job[j].list EXCEPT ![job[j].at] = None]
      /\ job'[j].items = [job[j].items EXCEPT ![job[j].at] = mark]
      /\ job'[j].docs = [job[j].docs EXCEPT ![job[j].at] = left]
  BY StagedRow
<1> HIDE DEF left
<1> QED BY <1>1, <1>2, <1>3, <1>4 DEF Walked

LEMMA ApplyWalks ==
  ASSUME TypeInv, NEW j \in Jobs, Apply(j)
  PROVE  Walked(j)
<1> DEFINE d == job[j].at
           seen == job[j].seen
<1>1. /\ d \in Docs /\ d # None /\ item[d] \in ItemRow
      /\ doc[d] \in DocRow /\ seen \in DocRow
      /\ job[j].phase = "walk" /\ job[j].mode = "publish"
  BY DEF TypeInv, TypeOK, JobRow, Apply
<1>2. ASSUME Stage(j, Skipped(d, seen), None)
      PROVE  Walked(j)
  BY <1>1, <1>2, Marks, StageWalks
<1>3. ASSUME NEW action, NEW row \in DocRow,
             Stage(j, Mark(d, Applied(d, action, seen, doc[d], row)), row)
      PROVE  Walked(j)
  <2>1. /\ Mark(d, Applied(d, action, seen, doc[d], row)) \in ItemRow
        /\ Mark(d, Applied(d, action, seen, doc[d], row)).status = "applied"
    <3>1. \A how, after : \A was \in DocRow :
            /\ Mark(d, Applied(d, how, seen, was, after)) \in ItemRow
            /\ Mark(d, Applied(d, how, seen, was, after)).status = "applied"
      BY <1>1, Marks
    <3> HIDE DEF d, seen
    <3> QED BY <1>1, <3>1
  <2>2. row # None
    BY NoneIsNoRow
  <2> HIDE DEF d, seen
  <2> QED BY <1>1, <1>3, <2>1, <2>2, StageWalks DEF d
<1>4. /\ Published(doc[d]) \in DocRow /\ ChangesPublished(seen) \in DocRow
      /\ Retired(seen, doc[d], "draft") \in DocRow
  BY <1>1, DocWrites
<1> QED BY <1>2, <1>3, <1>4 DEF Apply

LEMMA UndoWalks ==
  ASSUME TypeInv, NEW j \in Jobs, Undo(j)
  PROVE  Walked(j)
<1> DEFINE d == job[j].at
           seen == job[j].seen
           plan == job[j].list[d]
           mark == [item[d] EXCEPT !.status = "rolled_back"]
<1>1. /\ d \in Docs /\ d # None /\ item[d] \in ItemRow
      /\ doc[d] \in DocRow /\ seen \in DocRow
      /\ job[j].phase = "walk" /\ job[j].mode = "rollback"
  BY DEF TypeInv, TypeOK, JobRow, Undo
<1>2. plan \in ItemRow
  <2>1. d \in In(job[j].list) /\ job[j].list \in Rows(ItemRow)
    BY <1>1 DEF TypeInv, TypeOK, JobRow, WellHeld
  <2> QED BY <2>1 DEF In, Rows
<1>3. mark \in ItemRow /\ mark.status = "rolled_back"
  BY <1>1, Marks
<1>4. /\ Restored(plan, seen, doc[d]) \in DocRow
      /\ TakenDown(plan, seen, doc[d]) \in DocRow
  BY <1>1, <1>2, UndoWrites
<1>5. \E row \in DocRow \cup {None} : Stage(j, mark, row)
  BY <1>1, <1>4 DEF Undo
<1> HIDE DEF mark
<1> QED BY <1>1, <1>3, <1>5, StageWalks

\* A worker that goes on without taking or leaving anything.
LEMMA PhaseRow ==
  ASSUME TypeInv, NEW j \in Jobs, job[j].phase # "walk",
         NEW phase \in {"list", "done", "discarded"}, job' = [job EXCEPT ![j].phase = phase]
  PROVE  /\ job' = [job EXCEPT ![j] = job'[j]]
         /\ job'[j] \in JobRow /\ WellHeld(job'[j])
         /\ job'[j].phase = phase /\ job'[j].mode = job[j].mode
<1>1. job \in [Jobs -> JobRow] /\ job[j] \in JobRow /\ WellHeld(job[j])
  BY DEF TypeInv, TypeOK
<1>2. job'[j] = [job[j] EXCEPT !.phase = phase] /\ job' = [job EXCEPT ![j] = job'[j]]
  BY <1>1
<1>3. job'[j] \in JobRow
  BY <1>1, <1>2 DEF JobRow
<1>4. /\ job'[j].phase = phase /\ job'[j].mode = job[j].mode
      /\ job'[j].at = job[j].at /\ job'[j].list = job[j].list
      /\ job'[j].items = job[j].items /\ job'[j].docs = job[j].docs
  BY <1>1, <1>2 DEF JobRow
<1> QED BY <1>1, <1>2, <1>3, <1>4 DEF WellHeld

LEMMA BeginRow ==
  ASSUME TypeInv, NEW j \in Jobs, Begin(j)
  PROVE  /\ job' = [job EXCEPT ![j] = job'[j]]
         /\ job'[j] \in JobRow /\ WellHeld(job'[j])
         /\ job'[j].phase = (IF release.state = ClaimOf(job[j].mode) THEN "list" ELSE "done")
         /\ job'[j].mode = job[j].mode
<1> DEFINE phase == IF release.state = ClaimOf(job[j].mode) THEN "list" ELSE "done"
<1>1. /\ phase \in {"list", "done", "discarded"} /\ job[j].phase # "walk"
      /\ job' = [job EXCEPT ![j].phase = phase]
  BY DEF Begin
<1> HIDE DEF phase
<1> QED BY <1>1, PhaseRow DEF phase

LEMMA ListRow ==
  ASSUME TypeInv, NEW j \in Jobs, List(j)
  PROVE  /\ job' = [job EXCEPT ![j] = job'[j]]
         /\ job'[j] \in JobRow /\ WellHeld(job'[j])
         /\ job'[j].phase = "walk" /\ job'[j].mode = job[j].mode
         /\ job'[j].items = NoRows /\ job'[j].docs = NoRows
         /\ In(job'[j].list) = ItemsIn(Wanted(job[j].mode))
<1> DEFINE read == [d \in Docs |-> IF item[d].status = Wanted(job[j].mode) THEN item[d] ELSE None]
<1>1. /\ job \in [Jobs -> JobRow] /\ job[j] \in JobRow /\ item \in [Docs -> ItemRow]
      /\ job[j].at = None /\ job[j].items = NoRows /\ job[j].docs = NoRows
  BY DEF TypeInv, TypeOK, WellHeld, List
<1>2. read \in Rows(ItemRow) /\ In(read) = ItemsIn(Wanted(job[j].mode))
  BY <1>1, NoneIsNoRow DEF Rows, In, ItemsIn
<1>3. /\ job' = [job EXCEPT ![j].phase = "walk", ![j].list = read]
  BY DEF List
<1> HIDE DEF read
<1>4. /\ job'[j] = [job[j] EXCEPT !.phase = "walk", !.list = read]
      /\ job' = [job EXCEPT ![j] = job'[j]]
  BY <1>1, <1>3
<1>5. job'[j] \in JobRow
  BY <1>1, <1>2, <1>4 DEF JobRow
<1>6. /\ job'[j].phase = "walk" /\ job'[j].mode = job[j].mode
      /\ job'[j].at = None /\ job'[j].list = read
      /\ job'[j].items = NoRows /\ job'[j].docs = NoRows
  BY <1>1, <1>4 DEF JobRow
<1> QED BY <1>2, <1>4, <1>5, <1>6 DEF WellHeld

LEMMA FetchRow ==
  ASSUME TypeInv, NEW j \in Jobs, NEW d \in Docs, Fetch(j, d)
  PROVE  /\ job' = [job EXCEPT ![j] = job'[j]]
         /\ job'[j] \in JobRow /\ WellHeld(job'[j])
         /\ job'[j].phase = "walk" /\ job'[j].mode = job[j].mode
         /\ job'[j].list = job[j].list
         /\ job'[j].items = job[j].items /\ job'[j].docs = job[j].docs
<1>1. /\ job \in [Jobs -> JobRow] /\ job[j] \in JobRow /\ doc[d] \in DocRow
      /\ job[j].phase = "walk" /\ d \in In(job[j].list)
  BY DEF TypeInv, TypeOK, Fetch
<1>2. /\ job'[j] = [job[j] EXCEPT !.at = d, !.seen = doc[d]]
      /\ job' = [job EXCEPT ![j] = job'[j]]
  BY <1>1 DEF Fetch
<1>3. job'[j] \in JobRow
  BY <1>1, <1>2 DEF JobRow
<1>4. /\ job'[j].phase = "walk" /\ job'[j].mode = job[j].mode
      /\ job'[j].at = d /\ job'[j].list = job[j].list
      /\ job'[j].items = job[j].items /\ job'[j].docs = job[j].docs
  BY <1>1, <1>2 DEF JobRow
<1> QED BY <1>1, <1>2, <1>3, <1>4 DEF WellHeld

LEMMA WorkerTypes ==
  ASSUME TypeInv, NEW j \in Jobs, Step(j) \/ Raise(j) \/ Lapse(j) \/ Rescue(j)
  PROVE  TypeInv'
<1>1. ASSUME job' = [job EXCEPT ![j] = job'[j]], job'[j] \in JobRow, WellHeld(job'[j])
      PROVE  job' \in [Jobs -> JobRow] /\ \A i \in Jobs : WellHeld(job'[i])
  BY <1>1, OneJob
<1>2. CASE Begin(j)
  BY <1>1, <1>2, BeginRow DEF Begin, TypeInv, TypeOK
<1>3. CASE List(j)
  BY <1>1, <1>3, ListRow DEF List, TypeInv, TypeOK
<1>4. CASE \E d \in Docs : Fetch(j, d)
  BY <1>1, <1>4, FetchRow DEF Fetch, TypeInv, TypeOK
<1>5. CASE Apply(j) \/ Undo(j)
  BY <1>1, <1>5, ApplyWalks, UndoWalks DEF Walked, TypeInv, TypeOK
<1>6. CASE Commit(j)
  <2>1. /\ job' \in [Jobs -> JobRow] /\ \A i \in Jobs : WellHeld(job'[i])
    BY <1>1, <1>6, PastRow DEF Commit
  <2>2. job[j].items \in Rows(ItemRow) /\ job[j].docs \in Rows(DocRow)
    BY DEF TypeInv, TypeOK, JobRow
  <2>3. item' \in [Docs -> ItemRow]
    BY <1>6, <2>2 DEF Commit, TypeInv, TypeOK, Rows, In
  <2>4. doc' \in [Docs -> DocRow]
    BY <1>6, <2>2 DEF Commit, TypeInv, TypeOK, Rows, In
  <2>5. release' \in ReleaseRow
    BY <1>6 DEF Commit, TypeInv, TypeOK, ReleaseRow
  <2>6. shipped' \subseteq Docs
    BY <1>6 DEF Commit, TypeInv, TypeOK, In
  <2> QED BY <1>6, <2>1, <2>3, <2>4, <2>5, <2>6 DEF Commit, TypeInv, TypeOK
<1>7. CASE Abort(j)
  BY <1>1, <1>7, PastRow DEF Abort, TypeInv, TypeOK
<1>8. CASE RecordFailure(j) \/ AbandonRun(j)
  <2>1. /\ job' \in [Jobs -> JobRow] /\ \A i \in Jobs : WellHeld(job'[i])
    BY <1>1, <1>8, PastRow DEF RecordFailure, AbandonRun
  <2>2. release' \in ReleaseRow
    <3>1. \A state : AbandonedTo(state) \in {"published", "failed"}
      BY DEF AbandonedTo
    <3> QED BY <1>8, <3>1 DEF RecordFailure, AbandonRun, TypeInv, TypeOK, ReleaseRow
  <2> QED BY <1>8, <2>1, <2>2 DEF RecordFailure, AbandonRun, TypeInv, TypeOK
<1>9. CASE Announce(j)
  <2>1. /\ job' \in [Jobs -> JobRow] /\ \A i \in Jobs : WellHeld(job'[i])
    BY <1>1, <1>9, PastRow DEF Announce
  <2> QED BY <1>9, <2>1 DEF Announce, TypeInv, TypeOK
<1>10. CASE Raise(j)
  <2>1. /\ job' \in [Jobs -> JobRow] /\ \A i \in Jobs : WellHeld(job'[i])
    BY <1>1, <1>10, PastRow DEF Raise
  <2>2. faults' \in 0..MaxFaults
    BY <1>10, ReleasesAssumption DEF Raise, TypeInv, TypeOK
  <2> QED BY <1>10, <2>1, <2>2 DEF Raise, TypeInv, TypeOK
<1>12. CASE Lapse(j)
  <2>1. /\ job' \in [Jobs -> JobRow] /\ \A i \in Jobs : WellHeld(job'[i])
    BY <1>1, <1>12, Lost, PastRow
  <2>2. faults' \in 0..MaxFaults
    BY <1>12, Lost, ReleasesAssumption DEF TypeInv, TypeOK
  <2> QED BY <1>12, <2>1, <2>2, Lost DEF TypeInv, TypeOK
<1>11. CASE Rescue(j)
  BY <1>1, <1>11, PhaseRow DEF Rescue, TypeInv, TypeOK
<1> QED BY <1>2, <1>3, <1>4, <1>5, <1>6, <1>7, <1>8, <1>9, <1>10, <1>11, <1>12
    DEF Step

LEMMA NextTypeInv == TypeInv /\ [Next]_vars => TypeInv'
<1> SUFFICES ASSUME TypeInv, [Next]_vars PROVE TypeInv'
  OBVIOUS
<1>1. CASE UNCHANGED vars
  BY <1>1 DEF vars, TypeInv, TypeOK
<1>2. CASE Next
  BY <1>2, EditDocTypes, ComposeTypes, ClaimTypes, ClickTypes, WorkerTypes DEF Next
<1> QED BY <1>1, <1>2

\* Every variable keeps its type, whatever the surroundings get wrong: a
\* worker's open transaction holds rows of items and documents, and the
\* counters keep within their bounds.
THEOREM TypeCorrect == Spec => []TypeOK
<1>1. TypeInv => TypeOK
  BY DEF TypeInv
<1> QED BY <1>1, InitTypeInv, NextTypeInv, PTL DEF Spec

-----------------------------------------------------------------------------
(* The life of a release where nothing slips.  A claim is served by one    *)
(* worker, items are written only while the release is composed, and a     *)
(* walk takes in every item that it has to.                                *)

AtWork(phase) == phase \in {"available", "list", "walk", "fail", "abandon", "announce"}

OneWorker ==
  \A i, j \in Jobs : AtWork(job[i].phase) /\ AtWork(job[j].phase) => i = j

WorkersServe ==
  \A j \in Jobs :
    /\ job[j].phase \in {"list", "walk", "fail"} => release.state = ClaimOf(job[j].mode)
    /\ job[j].phase \in {"available", "abandon", "announce"} /\ release.state \in Claimed =>
         release.state = ClaimOf(job[j].mode)

OwnerStands ==
  release.state \in Claimed =>
    /\ owner \in Jobs
    /\ release.state = ClaimOf(job[owner].mode)
    /\ job[owner].phase \in {"available", "list", "walk", "fail", "abandon"} \/ owner \in lapsed

EditsCompose ==
  edit # NoEdit =>
    /\ release.state \in Editable
    /\ edit.doc \in Docs
    /\ edit.op # "add" => item[edit.doc].status = "pending"

WalksOut ==
  \A j \in Jobs :
    job[j].phase = "walk" /\ job[j].mode = "publish" =>
      /\ In(job[j].list) \cup In(job[j].items) = ItemsIn("pending")
      /\ In(job[j].docs) \subseteq In(job[j].items)
      /\ \A d \in In(job[j].items) : job[j].items[d].status \in {"applied", "skipped"}
      /\ \A d \in In(job[j].docs) : job[j].items[d].status = "applied"

WalksBack ==
  \A j \in Jobs :
    job[j].phase = "walk" /\ job[j].mode = "rollback" =>
      /\ In(job[j].list) \cup In(job[j].items) = ItemsIn("applied")
      /\ \A d \in In(job[j].items) : job[j].items[d].status = "rolled_back"

Unlaunched == ~release.published => ItemsIn("applied") = {} /\ shipped = {}

Life ==
  /\ OneWorker /\ WorkersServe /\ OwnerStands /\ EditsCompose
  /\ WalksOut /\ WalksBack
  /\ Unlaunched /\ ReservationsEnd /\ ShippedIsUndoable

LifeInv == TypeInv /\ Life

LEMMA InitLife == Init => LifeInv
<1> SUFFICES ASSUME Init PROVE Life
  BY InitTypeInv DEF LifeInv
<1>1. \A j \in Jobs : job[j].phase = "none"
  BY DEF Init, NoJob
<1>2. OneWorker /\ WorkersServe /\ WalksOut /\ WalksBack
  BY <1>1 DEF AtWork, OneWorker, WorkersServe, WalksOut, WalksBack
<1>3. OwnerStands /\ EditsCompose /\ ReservationsEnd
  BY DEF Init, Claimed, OwnerStands, EditsCompose, ReservationsEnd
<1>4. ItemsIn("applied") = {}
  BY DEF Init, NoItem, NewItem, ItemsIn
<1> QED BY <1>2, <1>3, <1>4 DEF Init, Unlaunched, ShippedIsUndoable, Life

LEMMA SameLife ==
  ASSUME LifeInv, UNCHANGED <<release, item, job, owner, edit, lapsed, shipped>>
  PROVE  Life'
BY DEF LifeInv, Life, OneWorker, WorkersServe, OwnerStands, EditsCompose, WalksOut, WalksBack,
       Unlaunched, ReservationsEnd, ShippedIsUndoable, ItemsIn

\* Nobody walks a release that is not claimed.
LEMMA NobodyWalks ==
  ASSUME LifeInv, release.state \notin Claimed
  PROVE  \A j \in Jobs : job[j].phase \notin {"list", "walk", "fail"}
<1>1. \A mode : ClaimOf(mode) \in Claimed
  BY DEF ClaimOf, Claimed
<1> QED BY <1>1 DEF LifeInv, Life, WorkersServe

LEMMA BeginEditLife ==
  ASSUME LifeInv, NEW op \in {"add", "cancel", "set_action"}, NEW d \in Docs,
         NEW action \in {"publish", "unpublish"}, BeginEdit(op, d, action)
  PROVE  Life'
<1>1. EditsCompose'
  <2>1. op # "add" => item[d].status = "pending"
    BY DEF BeginEdit
  <2>2. edit'.op = op /\ edit'.doc = d
    BY DEF BeginEdit
  <2> QED BY <2>1, <2>2 DEF BeginEdit, EditsCompose
<1> QED BY <1>1 DEF BeginEdit, LifeInv, Life, OneWorker, WorkersServe, OwnerStands, WalksOut,
           WalksBack, Unlaunched, ReservationsEnd, ShippedIsUndoable, ItemsIn

\* An item write leaves what a launch applied as it is.
LEMMA FinishEditLife ==
  ASSUME LifeInv, FinishEdit
  PROVE  Life' /\ UNCHANGED <<release, ItemsIn("applied")>>
<1>1. /\ release.state \in Editable /\ edit.doc \in Docs
      /\ edit.op # "add" => item[edit.doc].status = "pending"
  BY DEF FinishEdit, LifeInv, Life, EditsCompose
<1>2. /\ item \in [Docs -> ItemRow]
      /\ edit.op \in {"none", "add", "cancel", "set_action"}
      /\ edit.action \in {"publish", "unpublish"}
  BY DEF LifeInv, TypeInv, TypeOK
<1>3. item' = [item EXCEPT ![edit.doc] = Edited(edit.doc)]
  BY <1>1 DEF FinishEdit, Editable
<1>4. \/ Edited(edit.doc) = item[edit.doc]
      \/ /\ item[edit.doc].status \in {"none", "cancelled", "pending"}
         /\ Edited(edit.doc).status \in {"cancelled", "pending"}
  <2>1. NewItem(edit.action).status = "pending"
    BY DEF NewItem
  <2>2. /\ [item[edit.doc] EXCEPT !.status = "cancelled"].status = "cancelled"
        /\ [item[edit.doc] EXCEPT !.action = edit.action].status = item[edit.doc].status
    BY <1>1, <1>2 DEF ItemRow
  <2> QED BY <1>1, <1>2, <2>1, <2>2 DEF Edited
<1>5. \A d \in Docs : item'[d].status # item[d].status =>
        /\ item[d].status \in {"none", "cancelled", "pending"}
        /\ item'[d].status \in {"cancelled", "pending"}
  BY <1>1, <1>2, <1>3, <1>4
<1>6. ItemsIn("applied")' = ItemsIn("applied")
  BY <1>5 DEF ItemsIn
<1>7. ShippedIsUndoable'
  <2>1. \A d \in shipped : d \in Docs /\ item[d].status \in {"applied", "rolled_back"}
    BY DEF LifeInv, Life, ShippedIsUndoable, TypeInv, TypeOK
  <2> QED BY <1>5, <2>1 DEF ShippedIsUndoable, FinishEdit
<1>8. \A j \in Jobs : job[j].phase # "walk"
  BY <1>1, NobodyWalks DEF Editable, Claimed
<1>9. EditsCompose' /\ ReservationsEnd' /\ OwnerStands'
  BY <1>1 DEF FinishEdit, EditsCompose, ReservationsEnd, OwnerStands, Editable, Claimed
<1> QED BY <1>6, <1>7, <1>8, <1>9 DEF FinishEdit, LifeInv, Life, OneWorker, WorkersServe,
           WalksOut, WalksBack, Unlaunched

\* A claim is made when no worker is at work, and has one from then on.
LEMMA ClaimLife ==
  ASSUME Slips = {}, LifeInv, NEW mode \in {"publish", "rollback"}, Claim(mode, ClaimOf(mode)),
         release.state \notin Claimed, mode = "rollback" => release.state = "published"
  PROVE  Life'
<1>1. /\ edit = NoEdit /\ edit' = edit
      /\ item' = item /\ shipped' = shipped
      /\ \A j \in Jobs : ~AtWork(job[j].phase)
  BY DEF Claim, Quiet, Unhurried, Unfinished, AtWork
<1>2. /\ release'.state = ClaimOf(mode)
      /\ release'.published = release.published
  BY DEF Claim, LifeInv, TypeInv, TypeOK, ReleaseRow
<1>3. /\ owner' \in Jobs
      /\ job'[owner'].phase = "available" /\ job'[owner'].mode = mode
      /\ \A j \in Jobs \ {owner'} : job'[j] = job[j]
  <2>1. TypeInv /\ Enqueue(mode)
    BY DEF LifeInv, Claim
  <2> QED BY <2>1, Enqueued
<1>4. \A j \in Jobs : AtWork(job'[j].phase) => j = owner'
  BY <1>1, <1>3
<1>5. OneWorker' /\ WorkersServe' /\ OwnerStands'
  <2>1. OneWorker'
    BY <1>4 DEF OneWorker
  <2>2. WorkersServe'
    BY <1>2, <1>3, <1>4 DEF WorkersServe, AtWork
  <2>3. OwnerStands'
    BY <1>2, <1>3 DEF OwnerStands
  <2> QED BY <2>1, <2>2, <2>3
<1>6. WalksOut' /\ WalksBack'
  BY <1>3, <1>4 DEF WalksOut, WalksBack, AtWork
<1>7. ItemsIn("applied")' = ItemsIn("applied") /\ ItemsIn("pending")' = ItemsIn("pending")
  BY <1>1 DEF ItemsIn
<1>8. EditsCompose' /\ Unlaunched' /\ ShippedIsUndoable'
  BY <1>1, <1>2, <1>7 DEF EditsCompose, Unlaunched, ShippedIsUndoable, LifeInv, Life
<1>9. ReservationsEnd'
  BY <1>2, <1>7 DEF ClaimOf, ReservationsEnd, LifeInv, Life
<1> QED BY <1>5, <1>6, <1>8, <1>9 DEF Life

\* A button moves the release along an edge that its row, which is the page's
\* copy, has; and no worker is walking it.
LEMMA Clicked ==
  ASSUME Slips = {}, LifeInv, NEW a \in Admins, NEW from, NEW state, Click(a, from, state),
         \/ from \cap Claimed = {}
         \/ \A j \in Jobs : ~Running(j)
  PROVE  /\ page[a] = release /\ release.state \in from
         /\ release'.state = state /\ release'.published = release.published
         /\ UNCHANGED <<job, owner, edit, lapsed, shipped>>
         /\ \A j \in Jobs : job[j].phase \notin {"list", "walk", "fail"}
<1>1. page[a] = release /\ release.state \in from
  BY DEF Click, Fresh
<1>2. release'.state = state /\ release'.published = release.published
  BY DEF Click, LifeInv, TypeInv, TypeOK, ReleaseRow
<1>3. \A j \in Jobs : job[j].phase \notin {"list", "walk", "fail"}
  BY <1>1, NobodyWalks DEF Running
<1> QED BY <1>1, <1>2, <1>3 DEF Click

\* What is left of the life of a release whose state a button has moved to one
\* that is no claim.
LEMMA UnclaimedLife ==
  ASSUME LifeInv, UNCHANGED <<job, owner, edit, lapsed, shipped>>,
         release'.published = release.published, release'.state \notin Claimed,
         \A j \in Jobs : job[j].phase \notin {"list", "walk", "fail"},
         EditsCompose', ReservationsEnd', ShippedIsUndoable',
         ItemsIn("applied")' \subseteq ItemsIn("applied")
  PROVE  Life'
<1>1. OneWorker' /\ WorkersServe' /\ OwnerStands' /\ WalksOut' /\ WalksBack'
  BY DEF LifeInv, Life, OneWorker, WorkersServe, OwnerStands, WalksOut, WalksBack
<1>2. Unlaunched'
  BY DEF LifeInv, Life, Unlaunched
<1> QED BY <1>1, <1>2 DEF Life

LEMMA ClickLife ==
  ASSUME Slips = {}, LifeInv, NEW a \in Admins,
         \/ Schedule(a) \/ Unschedule(a) \/ Reopen(a) \/ Archive(a) \/ Delete(a) \/ Abandon(a)
         \/ Refresh(a)
  PROVE  Life'
<1>1. CASE Schedule(a) \/ Unschedule(a) \/ Reopen(a)
  <2>1. PICK from \in SUBSET Editable, state \in {"scheduled", "open"} : Click(a, from, state)
    BY <1>1 DEF Schedule, Unschedule, Reopen, Editable
  <2>2. from \cap Claimed = {}
    BY DEF Editable, Claimed
  <2>3. /\ release.state \in from /\ release'.state = state
        /\ release'.published = release.published
        /\ UNCHANGED <<job, owner, edit, lapsed, shipped>>
        /\ \A j \in Jobs : job[j].phase \notin {"list", "walk", "fail"}
    BY <2>1, <2>2, Clicked
  <2>4. item' = item
    BY <1>1 DEF Schedule, Unschedule, Reopen
  <2>5. EditsCompose' /\ ReservationsEnd' /\ ShippedIsUndoable'
    BY <2>3, <2>4 DEF LifeInv, Life, EditsCompose, ReservationsEnd, ShippedIsUndoable, Editable
  <2>6. ItemsIn("applied")' = ItemsIn("applied") /\ release'.state \notin Claimed
    BY <2>3, <2>4 DEF ItemsIn, Claimed
  <2> QED BY <2>3, <2>5, <2>6, UnclaimedLife
<1>2. CASE Archive(a)
  <2> DEFINE from == Editable \cup {"published", "rolled_back"}
  <2>1. Click(a, from, "archived") /\ edit = NoEdit
    BY <1>2 DEF Archive, Quiet
  <2>2. from \cap Claimed = {}
    BY DEF Editable, Claimed
  <2>3. /\ release'.state = "archived"
        /\ release'.published = release.published
        /\ UNCHANGED <<job, owner, edit, lapsed, shipped>>
        /\ \A j \in Jobs : job[j].phase \notin {"list", "walk", "fail"}
    <3> HIDE DEF from
    <3> QED BY <2>1, <2>2, Clicked
  <2>4. \A d \in Docs :
          IF item[d].status = "pending" THEN item'[d].status = "cancelled" ELSE item'[d] = item[d]
    <3>1. item \in [Docs -> ItemRow]
      BY DEF LifeInv, TypeInv, TypeOK
    <3>2. \A d \in Docs : [item[d] EXCEPT !.status = "cancelled"].status = "cancelled"
      BY <3>1 DEF ItemRow
    <3> QED BY <1>2, <3>2 DEF Archive, ItemsIn
  <2>5. EditsCompose'
    BY <2>1, <2>3 DEF EditsCompose
  <2>6. ReservationsEnd' /\ ItemsIn("applied")' = ItemsIn("applied")
    BY <2>4 DEF ReservationsEnd, ItemsIn
  <2>7. ShippedIsUndoable'
    <3>1. \A d \in shipped : d \in Docs /\ item[d].status \in {"applied", "rolled_back"}
      BY DEF LifeInv, Life, ShippedIsUndoable, TypeInv, TypeOK
    <3> QED BY <2>3, <2>4, <3>1 DEF ShippedIsUndoable
  <2> QED BY <2>3, <2>5, <2>6, <2>7, UnclaimedLife DEF Claimed
<1>3. CASE Delete(a)
  <2> DEFINE from == Editable \cup {"archived"}
  <2>1. Click(a, from, "deleted") /\ edit = NoEdit /\ ~page[a].published
    BY <1>3 DEF Delete, Quiet
  <2>2. from \cap Claimed = {}
    BY DEF Editable, Claimed
  <2>3. /\ page[a] = release /\ release'.state = "deleted"
        /\ release'.published = release.published
        /\ UNCHANGED <<job, owner, edit, lapsed, shipped>>
        /\ \A j \in Jobs : job[j].phase \notin {"list", "walk", "fail"}
    <3> HIDE DEF from
    <3> QED BY <2>1, <2>2, Clicked
  <2>4. shipped = {}
    BY <2>1, <2>3 DEF LifeInv, Life, Unlaunched
  <2>5. \A d \in Docs : item'[d].status = "none"
    BY <1>3 DEF Delete, NoItem, NewItem
  <2>6. EditsCompose' /\ ReservationsEnd' /\ ShippedIsUndoable' /\ ItemsIn("applied")' = {}
    BY <2>1, <2>3, <2>4, <2>5 DEF EditsCompose, ReservationsEnd, ShippedIsUndoable, ItemsIn
  <2> QED BY <2>3, <2>6, UnclaimedLife DEF Claimed
<1>4. CASE Abandon(a)
  <2> DEFINE to == AbandonedTo(page[a].state)
  <2>1. Click(a, Claimed, to) /\ \A j \in Jobs : ~Running(j)
    BY <1>4 DEF Abandon
  <2>2. /\ page[a] = release /\ release.state \in Claimed /\ release'.state = to
        /\ release'.published = release.published
        /\ UNCHANGED <<job, owner, edit, lapsed, shipped>>
        /\ \A j \in Jobs : job[j].phase \notin {"list", "walk", "fail"}
    <3> HIDE DEF to
    <3> QED BY <2>1, Clicked
  <2>3. release'.state = (IF release.state = "rolling_back" THEN "published" ELSE "failed")
    BY <2>2 DEF AbandonedTo
  <2>4. item' = item
    BY <1>4 DEF Abandon
  <2>5. EditsCompose' /\ ReservationsEnd' /\ ShippedIsUndoable'
    BY <2>2, <2>3, <2>4 DEF LifeInv, Life, EditsCompose, ReservationsEnd, ShippedIsUndoable,
                            Editable, Claimed, ItemsIn
  <2>6. ItemsIn("applied")' = ItemsIn("applied") /\ release'.state \notin Claimed
    BY <2>3, <2>4 DEF ItemsIn, Claimed
  <2> QED BY <2>2, <2>5, <2>6, UnclaimedLife
<1>5. CASE Refresh(a)
  BY <1>5, SameLife DEF Refresh
<1> QED BY <1>1, <1>2, <1>3, <1>4, <1>5

\* What a worker holds of a release that it walks: WalksOut and WalksBack, for
\* one job.
WalkHeld(row) ==
  row.phase = "walk" =>
    /\ In(row.list) \cup In(row.items) = ItemsIn(Wanted(row.mode))
    /\ row.mode = "rollback" => \A d \in In(row.items) : row.items[d].status = "rolled_back"
    /\ row.mode = "publish" =>
         /\ In(row.docs) \subseteq In(row.items)
         /\ \A d \in In(row.items) : row.items[d].status \in {"applied", "skipped"}
         /\ \A d \in In(row.docs) : row.items[d].status = "applied"

LEMMA WalksHeld ==
  ASSUME job \in [Jobs -> JobRow]
  PROVE  WalksOut /\ WalksBack <=> \A j \in Jobs : WalkHeld(job[j])
<1>1. \A j \in Jobs : job[j].mode \in {"publish", "rollback"}
  BY DEF JobRow
<1>2. Wanted("publish") = "pending" /\ Wanted("rollback") = "applied"
  BY DEF Wanted
<1> QED BY ZenonT(60), <1>1, <1>2 DEF WalksOut, WalksBack, WalkHeld

\* A step of a worker that only its own row shows.
LEMMA RowLife ==
  ASSUME LifeInv, NEW j \in Jobs,
         job' = [job EXCEPT ![j] = job'[j]], job'[j] \in JobRow, WellHeld(job'[j]),
         job'[j].mode = job[j].mode, AtWork(job'[j].phase) => AtWork(job[j].phase),
         UNCHANGED <<release, item, owner, edit, shipped>>,
         job'[j].phase \in {"list", "walk", "fail"} => release.state = ClaimOf(job[j].mode),
         lapsed \subseteq lapsed',
         job'[j].phase \in {"available", "abandon", "announce"} /\ release.state \in Claimed =>
           release.state = ClaimOf(job[j].mode),
         owner = j /\ release.state \in Claimed =>
           job'[j].phase \in {"available", "list", "walk", "fail", "abandon"} \/ j \in lapsed',
         WalkHeld(job'[j])
  PROVE  Life'
<1>1. /\ job' \in [Jobs -> JobRow] /\ job \in [Jobs -> JobRow]
      /\ \A i \in Jobs \ {j} : job'[i] = job[i]
  BY OneJob DEF LifeInv, TypeInv, TypeOK
<1>2. OneWorker'
  <2>1. \A i \in Jobs : AtWork(job'[i].phase) => AtWork(job[i].phase)
    BY <1>1
  <2> QED BY <2>1 DEF LifeInv, Life, OneWorker
<1>3. WorkersServe'
  <2>1. ASSUME NEW i \in Jobs
        PROVE  /\ job'[i].phase \in {"list", "walk", "fail"} => release.state = ClaimOf(job'[i].mode)
               /\ job'[i].phase \in {"available", "abandon", "announce"} /\ release.state \in Claimed =>
                    release.state = ClaimOf(job'[i].mode)
    <3>1. CASE i = j
      BY <3>1
    <3>2. CASE i # j
      BY <1>1, <3>2 DEF LifeInv, Life, WorkersServe
    <3> QED BY <3>1, <3>2
  <2> QED BY <2>1 DEF WorkersServe
<1>4. OwnerStands'
  BY <1>1 DEF LifeInv, Life, OwnerStands
<1>5. WalksOut' /\ WalksBack'
  <2>1. \A i \in Jobs : WalkHeld(job[i])
    BY <1>1, WalksHeld DEF LifeInv, Life
  <2>2. ItemsIn("pending")' = ItemsIn("pending") /\ ItemsIn("applied")' = ItemsIn("applied")
    BY DEF ItemsIn
  <2>3. \A i \in Jobs : WalkHeld(job'[i])
    BY <1>1, <2>1
  <2>4. \A i \in Jobs : job'[i].mode \in {"publish", "rollback"}
    BY <1>1 DEF JobRow
  <2>5. Wanted("publish") = "pending" /\ Wanted("rollback") = "applied"
    BY DEF Wanted
  <2> QED BY <2>2, <2>3, <2>4, <2>5 DEF WalkHeld, WalksOut, WalksBack
<1>6. /\ EditsCompose' /\ Unlaunched' /\ ReservationsEnd' /\ ShippedIsUndoable'
  BY DEF LifeInv, Life, EditsCompose, Unlaunched, ReservationsEnd, ShippedIsUndoable, ItemsIn
<1> QED BY <1>2, <1>3, <1>4, <1>5, <1>6 DEF Life

\* An item that is walked goes from those to walk to those written.
LEMMA WalkedHeld ==
  ASSUME TypeInv, NEW j \in Jobs, Walked(j), WalkHeld(job[j])
  PROVE  WalkHeld(job'[j])
<1> DEFINE d == job[j].at
<1>1. /\ job[j].phase = "walk" /\ d \in In(job[j].list) /\ job'[j].mode = job[j].mode
      /\ job'[j].list = [job[j].list EXCEPT ![d] = None]
      /\ job[j].list \in Rows(ItemRow) /\ job[j].items \in Rows(ItemRow)
      /\ job[j].docs \in Rows(DocRow)
  BY DEF Walked, TypeInv, TypeOK, JobRow
<1>2. d \in Docs
  BY <1>1 DEF In
<1>3. PICK mark \in ItemRow :
        /\ job'[j].items = [job[j].items EXCEPT ![d] = mark]
        /\ job[j].mode = "publish" => mark.status \in {"applied", "skipped"}
        /\ job[j].mode = "rollback" => mark.status = "rolled_back"
        /\ \E row \in DocRow \cup {None} :
             /\ job'[j].docs = [job[j].docs EXCEPT ![d] = row]
             /\ job[j].mode = "publish" => (row # None <=> mark.status = "applied")
  BY DEF Walked
<1>4. PICK row \in DocRow \cup {None} :
        /\ job'[j].docs = [job[j].docs EXCEPT ![d] = row]
        /\ job[j].mode = "publish" => (row # None <=> mark.status = "applied")
  BY <1>3
<1> HIDE DEF d
<1>5. In(job'[j].list) = In(job[j].list) \ {d}
  BY <1>1, <1>2 DEF Rows, In
<1>6. In(job'[j].items) = In(job[j].items) \cup {d}
  BY <1>1, <1>2, <1>3, NoneIsNoRow DEF Rows, In
<1>7. /\ In(job'[j].docs) \subseteq In(job[j].docs) \cup {d}
      /\ d \in In(job'[j].docs) => row # None
  BY <1>1, <1>2, <1>4 DEF Rows, In
<1>8. /\ job'[j].items[d] = mark
      /\ \A e \in Docs \ {d} : job'[j].items[e] = job[j].items[e]
      /\ In(job'[j].items) \subseteq Docs /\ In(job[j].items) \subseteq Docs
      /\ In(job'[j].docs) \subseteq Docs /\ In(job[j].docs) \subseteq Docs
  BY <1>1, <1>2, <1>3 DEF Rows, In
<1>9. In(job[j].list) \cup In(job[j].items) = ItemsIn(Wanted(job[j].mode))
  BY <1>1 DEF WalkHeld
<1>10. In(job'[j].list) \cup In(job'[j].items) = ItemsIn(Wanted(job'[j].mode))
  BY <1>1, <1>5, <1>6, <1>9
<1>11. job[j].mode = "rollback" =>
         \A e \in In(job'[j].items) : job'[j].items[e].status = "rolled_back"
  BY <1>1, <1>3, <1>6, <1>8 DEF WalkHeld
<1>12. job[j].mode = "publish" =>
         /\ In(job'[j].docs) \subseteq In(job'[j].items)
         /\ \A e \in In(job'[j].items) : job'[j].items[e].status \in {"applied", "skipped"}
         /\ \A e \in In(job'[j].docs) : job'[j].items[e].status = "applied"
  BY <1>1, <1>3, <1>4, <1>6, <1>7, <1>8 DEF WalkHeld
<1> QED BY <1>1, <1>10, <1>11, <1>12 DEF WalkHeld

\* The steps of a worker, of its node and of the queue that write nothing but
\* the job.
LEMMA WorkerLife ==
  ASSUME LifeInv, NEW j \in Jobs,
         \/ Begin(j) \/ List(j) \/ (\E d \in Docs : Fetch(j, d)) \/ Apply(j) \/ Undo(j)
         \/ Abort(j) \/ Announce(j) \/ Raise(j) \/ Lapse(j) \/ Rescue(j)
  PROVE  Life'
<1>1. /\ TypeInv /\ WalkHeld(job[j])
      /\ job[j].phase \in {"list", "walk", "fail"} => release.state = ClaimOf(job[j].mode)
      /\ job[j].phase \in {"available", "abandon", "announce"} /\ release.state \in Claimed =>
           release.state = ClaimOf(job[j].mode)
      /\ owner = j /\ release.state \in Claimed =>
           job[j].phase \in {"available", "list", "walk", "fail", "abandon"} \/ j \in lapsed
  <2>1. WalkHeld(job[j])
    BY WalksHeld DEF LifeInv, Life, TypeInv, TypeOK
  <2> QED BY <2>1 DEF LifeInv, Life, WorkersServe, OwnerStands
<1>2. CASE Begin(j)
  <2>1. WalkHeld(job'[j])
    BY <1>1, <1>2, BeginRow DEF WalkHeld
  <2>2. /\ job' = [job EXCEPT ![j] = job'[j]] /\ job'[j] \in JobRow /\ WellHeld(job'[j])
        /\ job'[j].mode = job[j].mode
        /\ UNCHANGED <<release, item, owner, edit, lapsed, shipped>>
    BY <1>1, <1>2, BeginRow DEF Begin
  <2>3. /\ job[j].phase = "available" /\ job'[j].phase \in {"list", "done"}
        /\ job'[j].phase = "list" => release.state = ClaimOf(job[j].mode)
        /\ release.state \in Claimed => job'[j].phase = "list"
    <3>1. job'[j].phase = (IF release.state = ClaimOf(job[j].mode) THEN "list" ELSE "done")
      BY <1>1, <1>2, BeginRow
    <3>2. job[j].phase = "available"
      BY <1>2 DEF Begin
    <3> QED BY <1>1, <3>1, <3>2
  <2> QED BY <2>1, <2>2, <2>3, RowLife DEF AtWork
<1>3. CASE List(j)
  <2>1. In(NoRows) = {}
    BY BlankRows
  <2>2. WalkHeld(job'[j])
    BY <1>1, <1>3, <2>1, ListRow DEF WalkHeld
  <2> QED BY <1>1, <1>3, <2>2, ListRow, RowLife DEF List, AtWork
<1>4. CASE \E d \in Docs : Fetch(j, d)
  <2>1. PICK d \in Docs : Fetch(j, d)
    BY <1>4
  <2>2. WalkHeld(job'[j])
    BY ZenonT(60), <1>1, <2>1, FetchRow DEF WalkHeld, Fetch
  <2> QED BY <1>1, <2>1, <2>2, FetchRow, RowLife DEF Fetch, AtWork
<1>5. CASE Apply(j) \/ Undo(j)
  <2>1. Walked(j)
    BY <1>1, <1>5, ApplyWalks, UndoWalks
  <2>2. WalkHeld(job'[j])
    BY <1>1, <2>1, WalkedHeld
  <2>3. /\ job[j].phase = "walk"
        /\ job' = [job EXCEPT ![j] = job'[j]] /\ job'[j] \in JobRow /\ WellHeld(job'[j])
        /\ job'[j].phase = "walk" /\ job'[j].mode = job[j].mode
        /\ UNCHANGED <<release, item, owner, edit, lapsed, shipped>>
    BY <2>1 DEF Walked
  <2> QED BY <1>1, <2>2, <2>3, RowLife DEF AtWork
<1>6. ASSUME NEW phase \in {"fail", "abandon", "announce", "done", "killed", "discarded"},
             job' = [job EXCEPT ![j] = Past(j, phase)]
      PROVE  /\ job' = [job EXCEPT ![j] = job'[j]] /\ job'[j] \in JobRow /\ WellHeld(job'[j])
             /\ job'[j].phase = phase /\ job'[j].mode = job[j].mode
             /\ WalkHeld(job'[j])
  BY <1>1, <1>6, PastRow DEF WalkHeld
<1>7. CASE Abort(j)
  BY <1>1, <1>6, <1>7, RowLife DEF Abort, AtWork
<1>8. CASE Announce(j)
  BY <1>1, <1>6, <1>8, RowLife DEF Announce, AtWork
<1>9. CASE Raise(j)
  BY <1>1, <1>6, <1>9, RowLife DEF Raise, AtWork
<1>10. CASE Lapse(j)
  <2>1. PICK to \in {"announce", "done", "killed", "discarded"} :
          job' = [job EXCEPT ![j] = Past(j, to)] /\ (to = "announce" => job[j].phase = "fail")
    BY <1>10, Lost
  <2>2. /\ UNCHANGED <<release, item, owner, edit, shipped>>
        /\ lapsed \subseteq lapsed' /\ j \in lapsed' /\ AtWork(job[j].phase)
    BY <1>10, Lost DEF AtWork
  <2>3. /\ job' = [job EXCEPT ![j] = job'[j]] /\ job'[j] \in JobRow /\ WellHeld(job'[j])
        /\ job'[j].phase = to /\ job'[j].mode = job[j].mode /\ WalkHeld(job'[j])
    BY <1>6, <2>1
  <2> QED BY <1>1, <2>1, <2>2, <2>3, RowLife
<1>11. CASE Rescue(j)
  <2>1. /\ job' = [job EXCEPT ![j] = job'[j]] /\ job'[j] \in JobRow /\ WellHeld(job'[j])
        /\ job'[j].phase = "discarded" /\ job'[j].mode = job[j].mode
    BY <1>1, <1>11, PhaseRow DEF Rescue
  <2>2. WalkHeld(job'[j])
    BY <2>1 DEF WalkHeld
  <2> QED BY <1>1, <1>11, <2>1, <2>2, RowLife DEF Rescue, AtWork
<1> QED BY <1>2, <1>3, <1>4, <1>5, <1>7, <1>8, <1>9, <1>10, <1>11

\* The one worker at work ends, and the release is claimed no more.
LEMMA NobodyLeft ==
  ASSUME LifeInv, NEW j \in Jobs, AtWork(job[j].phase),
         NEW phase \in {"announce", "done"}, job' = [job EXCEPT ![j] = Past(j, phase)],
         release'.state \notin Claimed
  PROVE  OneWorker' /\ WorkersServe' /\ OwnerStands' /\ WalksOut' /\ WalksBack'
<1>1. /\ \A i \in Jobs \ {j} : job'[i] = job[i] /\ ~AtWork(job[i].phase)
      /\ job'[j].phase = phase
  <2>1. TypeInv
    BY DEF LifeInv
  <2>2. job' = [job EXCEPT ![j] = job'[j]] /\ job'[j] \in JobRow /\ WellHeld(job'[j])
        /\ job'[j].phase = phase
    BY <2>1, PastRow
  <2>3. \A i \in Jobs \ {j} : job'[i] = job[i]
    BY <2>1, <2>2, OneJob
  <2> QED BY <2>2, <2>3 DEF LifeInv, Life, OneWorker
<1>2. \A i \in Jobs : AtWork(job'[i].phase) => i = j
  BY <1>1
<1>3. OneWorker'
  BY <1>2 DEF OneWorker
<1>4. \A i \in Jobs : job'[i].phase \notin {"list", "walk", "fail", "available", "abandon"}
  BY <1>1 DEF AtWork
<1>5. WorkersServe' /\ OwnerStands' /\ WalksOut' /\ WalksBack'
  BY <1>4 DEF WorkersServe, OwnerStands, WalksOut, WalksBack
<1> QED BY <1>3, <1>5

\* A launch marks every item it had to, and remembers those it applied; a
\* rollback takes every one of them back.
LEMMA Committed ==
  ASSUME LifeInv, NEW j \in Jobs, Commit(j)
  PROVE  /\ release.state = ClaimOf(job[j].mode)
         /\ job[j].mode = "publish" =>
              /\ ItemsIn("pending")' = {}
              /\ shipped' = shipped \cup In(job[j].docs)
              /\ \A d \in In(job[j].docs) : d \in Docs /\ item'[d].status = "applied"
              /\ release' = [state |-> "published", published |-> TRUE]
         /\ job[j].mode = "rollback" =>
              /\ ItemsIn("applied")' = {}
              /\ shipped' = shipped
              /\ release'.state = "rolled_back" /\ release'.published = release.published
         /\ \A d \in Docs : \/ item'[d] = item[d]
                            \/ /\ item[d].status = Wanted(job[j].mode)
                               /\ item'[d].status \in {"applied", "skipped", "rolled_back"}
<1>1. /\ job[j].phase = "walk" /\ In(job[j].list) = {}
      /\ release.state = ClaimOf(job[j].mode)
      /\ WalkHeld(job[j]) /\ job[j].mode \in {"publish", "rollback"}
      /\ \A d \in Docs : item'[d] = IF d \in In(job[j].items) THEN job[j].items[d] ELSE item[d]
  <2>1. WalkHeld(job[j])
    BY WalksHeld DEF LifeInv, Life, TypeInv, TypeOK
  <2> QED BY <2>1 DEF Commit, LifeInv, Life, WorkersServe, TypeInv, TypeOK, JobRow
<1>2. In(job[j].items) = ItemsIn(Wanted(job[j].mode))
  BY <1>1 DEF WalkHeld
<1>3. In(job[j].docs) \subseteq Docs
  BY DEF In
<1>4. CASE job[j].mode = "publish"
  <2>1. /\ In(job[j].items) = ItemsIn("pending")
        /\ In(job[j].docs) \subseteq In(job[j].items)
        /\ \A d \in In(job[j].items) : job[j].items[d].status \in {"applied", "skipped"}
        /\ \A d \in In(job[j].docs) : job[j].items[d].status = "applied"
    BY <1>1, <1>2, <1>4 DEF WalkHeld, Wanted
  <2>2. ItemsIn("pending")' = {}
    BY <1>1, <2>1 DEF ItemsIn
  <2>3. \A d \in In(job[j].docs) : d \in Docs /\ item'[d].status = "applied"
    BY <1>1, <1>3, <2>1
  <2>4. \A d \in Docs : \/ item'[d] = item[d]
                        \/ /\ item[d].status = "pending"
                           /\ item'[d].status \in {"applied", "skipped", "rolled_back"}
    BY <1>1, <2>1 DEF ItemsIn
  <2> QED BY <1>1, <1>4, <2>2, <2>3, <2>4 DEF Commit, Wanted
<1>5. CASE job[j].mode = "rollback"
  <2>1. /\ In(job[j].items) = ItemsIn("applied")
        /\ \A d \in In(job[j].items) : job[j].items[d].status = "rolled_back"
    BY <1>1, <1>2, <1>5 DEF WalkHeld, Wanted
  <2>2. ItemsIn("applied")' = {}
    BY <1>1, <2>1 DEF ItemsIn
  <2>3. \A d \in Docs : \/ item'[d] = item[d]
                        \/ /\ item[d].status = "applied"
                           /\ item'[d].status \in {"applied", "skipped", "rolled_back"}
    BY <1>1, <2>1 DEF ItemsIn
  <2>4. release'.state = "rolled_back" /\ release'.published = release.published
    BY <1>5 DEF Commit, LifeInv, TypeInv, TypeOK, ReleaseRow
  <2> QED BY <1>1, <1>5, <2>2, <2>3, <2>4 DEF Commit, Wanted
<1> QED BY <1>1, <1>4, <1>5

LEMMA CommitLife ==
  ASSUME LifeInv, NEW j \in Jobs, Commit(j)
  PROVE  Life'
<1>1. /\ release.state = ClaimOf(job[j].mode)
      /\ job[j].mode \in {"publish", "rollback"} /\ AtWork(job[j].phase)
      /\ job' = [job EXCEPT ![j] = Past(j, "announce")] /\ edit' = edit
  BY Committed DEF Commit, AtWork, LifeInv, TypeInv, TypeOK, JobRow
<1>2. release'.state \notin Claimed
  BY <1>1, Committed DEF Claimed
<1>3. OneWorker' /\ WorkersServe' /\ OwnerStands' /\ WalksOut' /\ WalksBack'
  BY <1>1, <1>2, NobodyLeft
<1>4. EditsCompose'
  <2>1. edit = NoEdit
    BY <1>1 DEF ClaimOf, Editable, LifeInv, Life, EditsCompose
  <2> QED BY <1>1, <2>1 DEF EditsCompose
<1>5. Unlaunched'
  <2>1. CASE job[j].mode = "publish"
    BY <2>1, Committed DEF Unlaunched
  <2>2. CASE job[j].mode = "rollback"
    BY <2>2, Committed DEF LifeInv, Life, Unlaunched
  <2> QED BY <1>1, <2>1, <2>2
<1>6. ReservationsEnd'
  <2>1. CASE job[j].mode = "publish"
    BY <2>1, Committed DEF ReservationsEnd
  <2>2. CASE job[j].mode = "rollback"
    <3>1. release.state = "rolling_back"
      BY <1>1, <2>2 DEF ClaimOf
    <3>2. ItemsIn("pending") = {}
      BY <3>1 DEF LifeInv, Life, ReservationsEnd
    <3>3. ItemsIn("pending")' = {}
      BY <3>2, Committed DEF ItemsIn
    <3> QED BY <3>3 DEF ReservationsEnd
  <2> QED BY <1>1, <2>1, <2>2
<1>7. ShippedIsUndoable'
  <2>1. \A d \in shipped : d \in Docs /\ item[d].status \in {"applied", "rolled_back"}
    BY DEF LifeInv, Life, ShippedIsUndoable, TypeInv, TypeOK
  <2>2. CASE job[j].mode = "publish"
    <3>1. \A d \in shipped : item'[d].status \in {"applied", "rolled_back"}
      BY <2>1, <2>2, Committed DEF Wanted
    <3> QED BY <2>2, <3>1, Committed DEF ShippedIsUndoable
  <2>3. CASE job[j].mode = "rollback"
    <3>1. \A d \in Docs : item'[d].status # "applied"
      BY <2>3, Committed DEF ItemsIn
    <3>2. \A d \in Docs : item'[d] = item[d] \/ item[d].status = "applied"
      BY <2>3, Committed DEF Wanted
    <3>3. \A d \in In(job[j].items) : item'[d].status = "rolled_back"
      <4>1. WalkHeld(job[j])
        BY WalksHeld DEF LifeInv, Life, TypeInv, TypeOK
      <4> QED BY <2>3, <4>1 DEF WalkHeld, Commit, In
    <3>4. ItemsIn("applied") = In(job[j].items)
      <4>1. WalkHeld(job[j])
        BY WalksHeld DEF LifeInv, Life, TypeInv, TypeOK
      <4> QED BY <2>3, <4>1 DEF WalkHeld, Commit, Wanted
    <3>5. \A d \in shipped : item'[d].status \in {"applied", "rolled_back"}
      BY <2>1, <3>2, <3>3, <3>4 DEF ItemsIn
    <3> QED BY <2>3, <3>5, Committed DEF ShippedIsUndoable
  <2> QED BY <1>1, <2>2, <2>3
<1> QED BY <1>3, <1>4, <1>5, <1>6, <1>7 DEF Life

\* A launch or a rollback that came to nothing.
LEMMA GivenUp ==
  ASSUME LifeInv, NEW j \in Jobs, RecordFailure(j) \/ AbandonRun(j)
  PROVE  /\ UNCHANGED <<item, owner, edit, shipped>>
         /\ AtWork(job[j].phase)
         /\ \E phase \in {"announce", "done"} : job' = [job EXCEPT ![j] = Past(j, phase)]
         /\ \/ /\ \/ release.state = "publishing" /\ release'.state = "failed"
                  \/ release.state = "rolling_back" /\ release'.state = "published"
               /\ release'.published = release.published
            \/ release' = release /\ release.state \notin Claimed
<1>1. job[j].mode \in {"publish", "rollback"} /\ release \in ReleaseRow
  BY DEF LifeInv, TypeInv, TypeOK, JobRow
<1>2. \A mode \in {"publish", "rollback"} :
        \/ ClaimOf(mode) = "publishing" /\ AbandonedTo(ClaimOf(mode)) = "failed"
        \/ ClaimOf(mode) = "rolling_back" /\ AbandonedTo(ClaimOf(mode)) = "published"
  BY DEF ClaimOf, AbandonedTo
<1>3. \A state : /\ [release EXCEPT !.state = state].state = state
                 /\ [release EXCEPT !.state = state].published = release.published
  BY <1>1 DEF ReleaseRow
<1>4. CASE RecordFailure(j)
  <2>1. release.state = ClaimOf(job[j].mode)
    BY <1>4 DEF RecordFailure, LifeInv, Life, WorkersServe
  <2>2. release.state # "deleted"
    BY <1>1, <1>2, <2>1
  <2> QED BY <1>1, <1>2, <1>3, <1>4, <2>1, <2>2 DEF RecordFailure, AtWork
<1>5. CASE AbandonRun(j)
  <2>1. release.state \in Claimed => release.state = ClaimOf(job[j].mode)
    BY <1>5 DEF AbandonRun, LifeInv, Life, WorkersServe
  <2> QED BY <1>1, <1>2, <1>3, <1>5, <2>1 DEF AbandonRun, AtWork
<1> QED BY <1>4, <1>5

LEMMA GivenUpLife ==
  ASSUME LifeInv, NEW j \in Jobs, RecordFailure(j) \/ AbandonRun(j)
  PROVE  Life'
<1>1. /\ UNCHANGED <<item, owner, edit, shipped>> /\ AtWork(job[j].phase)
      /\ release'.published = release.published
      /\ \/ release.state = "publishing" /\ release'.state = "failed"
         \/ release.state = "rolling_back" /\ release'.state = "published"
         \/ release' = release /\ release.state \notin Claimed
  BY GivenUp
<1>2. PICK phase \in {"announce", "done"} : job' = [job EXCEPT ![j] = Past(j, phase)]
  BY GivenUp
<1>3. release'.state \notin Claimed
  BY <1>1 DEF Claimed
<1>4. OneWorker' /\ WorkersServe' /\ OwnerStands' /\ WalksOut' /\ WalksBack'
  BY <1>1, <1>2, <1>3, NobodyLeft
<1>5. EditsCompose' /\ Unlaunched' /\ ReservationsEnd' /\ ShippedIsUndoable'
  BY <1>1 DEF EditsCompose, Unlaunched, ReservationsEnd, ShippedIsUndoable, Editable, Claimed,
              ItemsIn, LifeInv, Life
<1> QED BY <1>4, <1>5 DEF Life

LEMMA EditDocLife ==
  ASSUME LifeInv, NEW d \in Docs, EditDoc(d)
  PROVE  Life'
<1>1. UNCHANGED <<release, item, job, owner, edit, lapsed, shipped>>
  BY DEF EditDoc, Update, SaveWorkingCopy, PublishChanges, PublishDoc, UnpublishDoc, ArchiveDoc,
         MoveDoc, TrashDoc, Write
<1> QED BY <1>1, SameLife

\* What each way of claiming is of a claim.
LEMMA Claims ==
  ASSUME LifeInv, CronClaim \/ \E a \in Admins : PublishNow(a) \/ RollBack(a)
  PROVE  \E mode \in {"publish", "rollback"} :
           /\ Claim(mode, ClaimOf(mode))
           /\ release.state \in IF mode = "publish" THEN {"open", "scheduled"} ELSE {"published"}
BY DEF CronClaim, PublishNow, RollBack, ClaimOf

LEMMA NextLife ==
  ASSUME Slips = {}
  PROVE  LifeInv /\ [Next]_vars => LifeInv'
<1> SUFFICES ASSUME LifeInv, [Next]_vars PROVE LifeInv'
  OBVIOUS
<1>1. TypeInv'
  BY NextTypeInv DEF LifeInv
<1>2. CASE UNCHANGED vars
  BY <1>1, <1>2, SameLife DEF vars, LifeInv
<1>3. CASE CronClaim \/ \E a \in Admins : PublishNow(a) \/ RollBack(a)
  <2>1. PICK mode \in {"publish", "rollback"} :
          /\ Claim(mode, ClaimOf(mode))
          /\ release.state \in IF mode = "publish" THEN {"open", "scheduled"} ELSE {"published"}
    BY <1>3, Claims
  <2>2. release.state \notin Claimed /\ (mode = "rollback" => release.state = "published")
    BY <2>1 DEF Claimed
  <2>3. Life'
    BY <2>1, <2>2, ClaimLife
  <2> QED BY <1>1, <2>3 DEF LifeInv
<1>4. CASE \E a \in Admins :
             \/ Schedule(a) \/ Unschedule(a) \/ Reopen(a) \/ Archive(a) \/ Delete(a) \/ Abandon(a)
             \/ Refresh(a)
  BY <1>1, <1>4, ClickLife DEF LifeInv
<1>5. CASE \E j \in Jobs : Step(j) \/ Raise(j) \/ Lapse(j) \/ Rescue(j)
  BY <1>1, <1>5, WorkerLife, CommitLife, GivenUpLife DEF LifeInv, Step
<1>6. CASE \E d \in Docs : EditDoc(d)
  BY <1>1, <1>6, EditDocLife DEF LifeInv
<1>7. CASE FinishEdit \/ \E op \in {"add", "cancel", "set_action"}, d \in Docs,
                            action \in {"publish", "unpublish"} : BeginEdit(op, d, action)
  BY <1>1, <1>7, BeginEditLife, FinishEditLife DEF LifeInv
<1> QED BY <1>2, <1>3, <1>4, <1>5, <1>6, <1>7 DEF Next

\* Where nothing slips a release that is being published or rolled back is
\* somebody's: a job that will run or a worker that is running; if not, the
\* claim's own job was killed, or could not read the release or write its
\* outcome, and Abandon speaks for it (EnqueueReleaseWorker, announce_failure/4).
THEOREM ClaimOwned ==
  ASSUME Slips = {}
  PROVE  Spec => []ClaimIsOwned
<1>1. LifeInv => ClaimIsOwned
  BY DEF LifeInv, Life, OwnerStands, ClaimIsOwned, Running
<1> QED BY <1>1, InitLife, NextLife, PTL DEF Spec

\* A release that is published, rolled back, archived or deleted reserves no
\* document: every item that was pending was walked by the launch, cancelled or
\* deleted.  This is so where nothing slips: an item write validated while the
\* release composed has landed before the claim, the archive or the delete, and
\* the console's pages are fresh (ReleaseOpenForEdit, CancelPendingReleaseItems).
THEOREM ReservationsAreReleased ==
  ASSUME Slips = {}
  PROVE  Spec => []ReservationsEnd
<1>1. LifeInv => ReservationsEnd
  BY DEF LifeInv, Life
<1> QED BY <1>1, InitLife, NextLife, PTL DEF Spec

\* Where nothing slips what a launch changed stays on record: no edit of an
\* item, failed launch, archive or delete takes it away (ReleaseDeletable).
THEOREM ShippedStaysUndoable ==
  ASSUME Slips = {}
  PROVE  Spec => []ShippedIsUndoable
<1>1. LifeInv => ShippedIsUndoable
  BY DEF LifeInv, Life
<1> QED BY <1>1, InitLife, NextLife, PTL DEF Spec

-----------------------------------------------------------------------------
(* The documented life of a release is what the steps above amount to.     *)

\* A step that moves neither the release nor its items is none of the contract's.
LEMMA Stutters ==
  ASSUME UNCHANGED <<release, item>>
  PROVE  UNCHANGED Contract!contractVars
BY DEF Contract!contractVars, ItemsIn

LEMMA ClickImplements ==
  ASSUME Slips = {}, LifeInv, NEW a \in Admins,
         \/ Schedule(a) \/ Unschedule(a) \/ Reopen(a) \/ Archive(a) \/ Delete(a) \/ Abandon(a)
  PROVE  Contract!Next
<1>1. ASSUME NEW from, NEW to, Click(a, from, to), from \cap Claimed = {}
      PROVE  /\ page[a] = release
             /\ release.state \in from /\ release'.state = to /\ UNCHANGED release.published
  BY <1>1, Clicked
<1>2. Editable \cap Claimed = {}
  BY DEF Editable, Claimed
<1>3. CASE Schedule(a) \/ Unschedule(a) \/ Reopen(a)
  <2>1. UNCHANGED ItemsIn("applied")
    BY <1>3 DEF Schedule, Unschedule, Reopen, ItemsIn
  <2>2. CASE Schedule(a)
    <3>1. {"open", "scheduled"} \cap Claimed = {} /\ Click(a, {"open", "scheduled"}, "scheduled")
      BY <2>2 DEF Schedule, Claimed
    <3>2. Contract!Move({"open", "scheduled"}, "scheduled")
      BY <1>1, <2>1, <3>1 DEF Contract!Move
    <3> QED BY <3>2 DEF Contract!Next, Contract!Compose
  <2>3. CASE Unschedule(a)
    <3>1. {"scheduled"} \cap Claimed = {} /\ Click(a, {"scheduled"}, "open")
      BY <2>3 DEF Unschedule, Claimed
    <3>2. Contract!Move({"scheduled"}, "open")
      BY <1>1, <2>1, <3>1 DEF Contract!Move
    <3> QED BY <3>2 DEF Contract!Next, Contract!Compose
  <2>4. CASE Reopen(a)
    <3>1. {"failed"} \cap Claimed = {} /\ Click(a, {"failed"}, "open")
      BY <2>4 DEF Reopen, Claimed
    <3>2. Contract!Move({"failed"}, "open")
      BY <1>1, <2>1, <3>1 DEF Contract!Move
    <3> QED BY <3>2 DEF Contract!Next, Contract!Compose
  <2> QED BY <1>3, <2>2, <2>3, <2>4
<1>4. CASE Archive(a)
  <2> DEFINE from == Editable \cup {"published", "rolled_back"}
  <2>1. from \cap Claimed = {} /\ Click(a, from, "archived")
    BY <1>4 DEF Archive, Editable, Claimed
  <2>2. UNCHANGED ItemsIn("applied")
    <3>1. item \in [Docs -> ItemRow]
      BY DEF LifeInv, TypeInv, TypeOK
    <3>2. \A d \in Docs : [item[d] EXCEPT !.status = "cancelled"].status = "cancelled"
      BY <3>1 DEF ItemRow
    <3> QED BY <1>4, <3>2 DEF Archive, ItemsIn
  <2>3. /\ release.state \in from /\ release'.state = "archived" /\ UNCHANGED release.published
    <3> HIDE DEF from
    <3> QED BY <1>1, <2>1
  <2>4. Contract!Close
    BY <2>2, <2>3 DEF Contract!Close, Contract!Move, Editable
  <2> QED BY <2>4 DEF Contract!Next
<1>5. CASE Delete(a)
  <2> DEFINE from == Editable \cup {"archived"}
  <2>1. from \cap Claimed = {} /\ Click(a, from, "deleted") /\ ~page[a].published
    BY <1>5 DEF Delete, Editable, Claimed
  <2>2. /\ page[a] = release
        /\ release.state \in from /\ release'.state = "deleted" /\ UNCHANGED release.published
    <3> HIDE DEF from
    <3> QED BY <1>1, <2>1
  <2>3. ItemsIn("applied") = {}
    BY <2>1, <2>2 DEF LifeInv, Life, Unlaunched
  <2>4. ItemsIn("applied")' = {}
    BY <1>5 DEF Delete, ItemsIn, NoItem, NewItem
  <2>5. Contract!Delete
    BY <2>1, <2>2, <2>3, <2>4 DEF Contract!Delete, Contract!Move, Editable
  <2> QED BY <2>5 DEF Contract!Next
<1>6. CASE Abandon(a)
  <2> DEFINE to == AbandonedTo(page[a].state)
  <2>1. Click(a, Claimed, to) /\ \A j \in Jobs : ~Running(j)
    BY <1>6 DEF Abandon
  <2>2. /\ page[a] = release /\ release.state \in Claimed /\ release'.state = to
        /\ UNCHANGED release.published
    <3> HIDE DEF to
    <3> QED BY <2>1, Clicked
  <2>3. UNCHANGED ItemsIn("applied")
    BY <1>6 DEF Abandon, ItemsIn
  <2>4. Contract!GiveUp
    BY <2>2, <2>3 DEF AbandonedTo, Claimed, Contract!GiveUp, Contract!Move
  <2> QED BY <2>4 DEF Contract!Next
<1> QED BY <1>3, <1>4, <1>5, <1>6

LEMMA WorkerImplements ==
  ASSUME LifeInv, NEW j \in Jobs, Step(j) \/ Raise(j) \/ Lapse(j) \/ Rescue(j)
  PROVE  Contract!Next \/ UNCHANGED Contract!contractVars
<1>1. CASE Commit(j)
  <2>1. /\ release.state = ClaimOf(job[j].mode) /\ job[j].mode \in {"publish", "rollback"}
    BY <1>1, Committed DEF LifeInv, TypeInv, TypeOK, JobRow
  <2>2. CASE job[j].mode = "publish"
    <3>1. release.state = "publishing"
      BY <2>1, <2>2 DEF ClaimOf
    <3>2. release'.state = "published" /\ release'.published = TRUE
      BY <1>1, <2>2, Committed
    <3>3. ItemsIn("applied")' \in SUBSET Docs
      BY DEF ItemsIn
    <3>4. Contract!Launch
      BY <3>1, <3>2, <3>3 DEF Contract!Launch
    <3> QED BY <3>4 DEF Contract!Next
  <2>3. CASE job[j].mode = "rollback"
    <3>1. release.state = "rolling_back"
      BY <2>1, <2>3 DEF ClaimOf
    <3>2. /\ release'.state = "rolled_back" /\ release'.published = release.published
          /\ ItemsIn("applied")' = {}
      BY <1>1, <2>3, Committed
    <3>3. Contract!Withdraw
      BY <3>1, <3>2 DEF Contract!Withdraw
    <3> QED BY <3>3 DEF Contract!Next
  <2> QED BY <2>1, <2>2, <2>3
<1>2. CASE RecordFailure(j) \/ AbandonRun(j)
  <2>1. /\ UNCHANGED item
        /\ \/ /\ \/ release.state = "publishing" /\ release'.state = "failed"
                 \/ release.state = "rolling_back" /\ release'.state = "published"
              /\ release'.published = release.published
           \/ release' = release
    BY <1>2, GivenUp
  <2>2. CASE release' = release
    BY <2>1, <2>2, Stutters
  <2>3. CASE release' # release
    <3>1. UNCHANGED ItemsIn("applied")
      BY <2>1 DEF ItemsIn
    <3>2. Contract!GiveUp
      BY <2>1, <2>3, <3>1 DEF Contract!GiveUp, Contract!Move
    <3> QED BY <3>2 DEF Contract!Next
  <2> QED BY <2>2, <2>3
<1>3. CASE Apply(j) \/ Undo(j)
  <2>1. Walked(j)
    BY <1>3, ApplyWalks, UndoWalks DEF LifeInv
  <2> QED BY <2>1, Stutters DEF Walked
<1>4. CASE \/ Begin(j) \/ List(j) \/ (\E d \in Docs : Fetch(j, d)) \/ Abort(j) \/ Announce(j)
           \/ Raise(j) \/ Lapse(j) \/ Rescue(j)
  BY <1>4, Lost, Stutters DEF Begin, List, Fetch, Abort, Announce, Raise, Rescue
<1> QED BY <1>1, <1>2, <1>3, <1>4 DEF Step

LEMMA NextImplements ==
  ASSUME Slips = {}
  PROVE  LifeInv /\ [Next]_vars => [Contract!Next]_(Contract!contractVars)
<1> SUFFICES ASSUME LifeInv, [Next]_vars
             PROVE  Contract!Next \/ UNCHANGED Contract!contractVars
  OBVIOUS
<1>1. CASE UNCHANGED vars
  BY <1>1, Stutters DEF vars
<1>2. CASE CronClaim \/ \E a \in Admins : PublishNow(a) \/ RollBack(a)
  <2>1. PICK mode \in {"publish", "rollback"} :
          /\ Claim(mode, ClaimOf(mode))
          /\ release.state \in IF mode = "publish" THEN {"open", "scheduled"} ELSE {"published"}
    BY <1>2, Claims
  <2>2. release'.state = ClaimOf(mode) /\ UNCHANGED release.published
    BY <2>1 DEF Claim, LifeInv, TypeInv, TypeOK, ReleaseRow
  <2>3. UNCHANGED ItemsIn("applied")
    BY <2>1 DEF Claim, ItemsIn
  <2>4. Contract!Claim
    BY <2>1, <2>2, <2>3 DEF ClaimOf, Contract!Claim, Contract!Move
  <2> QED BY <2>4 DEF Contract!Next
<1>3. CASE \E a \in Admins :
             \/ Schedule(a) \/ Unschedule(a) \/ Reopen(a) \/ Archive(a) \/ Delete(a) \/ Abandon(a)
  BY <1>3, ClickImplements
<1>4. CASE \E a \in Admins : Refresh(a)
  BY <1>4, Stutters DEF Refresh
<1>5. CASE \E j \in Jobs : Step(j) \/ Raise(j) \/ Lapse(j) \/ Rescue(j)
  BY <1>5, WorkerImplements
<1>6. CASE \E d \in Docs : EditDoc(d)
  BY <1>6, Stutters DEF EditDoc, Update, SaveWorkingCopy, PublishChanges, PublishDoc,
                        UnpublishDoc, ArchiveDoc, MoveDoc, TrashDoc, Write
<1>7. CASE FinishEdit
  <2>1. UNCHANGED <<release, ItemsIn("applied")>>
    BY <1>7, FinishEditLife
  <2> QED BY <2>1 DEF Contract!contractVars
<1>8. CASE \E op \in {"add", "cancel", "set_action"}, d \in Docs, action \in {"publish", "unpublish"} :
             BeginEdit(op, d, action)
  BY <1>8, Stutters DEF BeginEdit
<1> QED BY <1>1, <1>2, <1>3, <1>4, <1>5, <1>6, <1>7, <1>8 DEF Next

\* Where nothing slips a release lives the documented life: whatever editors,
\* admins, the clock and failing workers do, its state moves only along the
\* edges of ContentRelease's state machine, its changes come into force all
\* together when a launch commits and go all together when a rollback does, and
\* what was launched is never deleted.
THEOREM Implements ==
  ASSUME Slips = {}
  PROVE  Spec => ContractSpec
<1>1. Init => Contract!Init
  <2> SUFFICES ASSUME Init PROVE Contract!Init
    OBVIOUS
  <2>1. release.state = "open" /\ release.published = FALSE
    BY DEF Init
  <2>2. ItemsIn("applied") = {}
    BY <2>1, InitLife DEF LifeInv, Life, Unlaunched
  <2> QED BY <2>1, <2>2 DEF Contract!Init
<1> QED BY <1>1, InitLife, NextLife, NextImplements, PTL DEF Spec, ContractSpec, Contract!Spec

-----------------------------------------------------------------------------
(* What a rollback may write, whatever slips: an item is applied only where *)
(* the launch wrote its document.                                           *)

SparedBy(row) ==
  row.phase = "walk" =>
    /\ row.mode = "publish" =>
         \A d \in In(row.items) : row.items[d].status = "applied" => d \in In(row.docs)
    /\ row.mode = "rollback" =>
         /\ In(row.list) \subseteq shipped
         /\ In(row.docs) \subseteq shipped
         /\ \A d \in In(row.items) : row.items[d].status # "applied"

Spared ==
  /\ ItemsIn("applied") \subseteq shipped
  /\ \A j \in Jobs : SparedBy(job[j])

LEMMA SparedStays ==
  ASSUME TypeInv, Spared, UNCHANGED <<job, shipped>>,
         ItemsIn("applied")' \subseteq ItemsIn("applied")
  PROVE  Spared'
BY DEF Spared, SparedBy, In

\* The items of a release's row and of its jobs, as a worker's step leaves them.
LEMMA SparedRow ==
  ASSUME TypeInv, Spared, NEW j \in Jobs,
         job' = [job EXCEPT ![j] = job'[j]], job'[j] \in JobRow, WellHeld(job'[j]),
         ItemsIn("applied")' \subseteq shipped', shipped \subseteq shipped',
         job'[j].phase = "walk" => SparedBy(job'[j])
  PROVE  Spared'
<1>1. \A i \in Jobs \ {j} : job'[i] = job[i]
  BY OneJob
<1>2. \A i \in Jobs : SparedBy(job[i])'
  <2>1. ASSUME NEW i \in Jobs, i # j
        PROVE  SparedBy(job[i])'
    BY <1>1, <2>1 DEF Spared, SparedBy, In
  <2>2. SparedBy(job[j])'
    BY DEF SparedBy, In
  <2> QED BY <2>1, <2>2
<1> QED BY <1>2 DEF Spared

LEMMA WalkedSpares ==
  ASSUME TypeInv, Spared, NEW j \in Jobs, Walked(j)
  PROVE  SparedBy(job'[j])
<1> DEFINE d == job[j].at
<1>1. /\ job[j].phase = "walk" /\ d \in In(job[j].list) /\ job'[j].mode = job[j].mode
      /\ job'[j].list = [job[j].list EXCEPT ![d] = None]
      /\ job[j].list \in Rows(ItemRow) /\ job[j].items \in Rows(ItemRow)
      /\ job[j].docs \in Rows(DocRow) /\ SparedBy(job[j])
  BY DEF Walked, TypeInv, TypeOK, JobRow, Spared
<1>2. d \in Docs
  BY <1>1 DEF In
<1>3. PICK mark \in ItemRow :
        /\ job'[j].items = [job[j].items EXCEPT ![d] = mark]
        /\ job[j].mode = "rollback" => mark.status = "rolled_back"
        /\ \E row \in DocRow \cup {None} :
             /\ job'[j].docs = [job[j].docs EXCEPT ![d] = row]
             /\ job[j].mode = "publish" => (row # None <=> mark.status = "applied")
  BY DEF Walked
<1>4. PICK row \in DocRow \cup {None} :
        /\ job'[j].docs = [job[j].docs EXCEPT ![d] = row]
        /\ job[j].mode = "publish" => (row # None <=> mark.status = "applied")
  BY <1>3
<1> HIDE DEF d
<1>5. /\ In(job'[j].list) \subseteq In(job[j].list)
      /\ In(job'[j].docs) \subseteq In(job[j].docs) \cup {d}
      /\ row # None => d \in In(job'[j].docs)
      /\ In(job[j].docs) \ {d} \subseteq In(job'[j].docs)
  BY <1>1, <1>2, <1>4 DEF Rows, In
<1>6. \A e \in In(job'[j].items) :
        /\ e \in Docs
        /\ e = d => job'[j].items[e] = mark
        /\ e # d => job'[j].items[e] = job[j].items[e] /\ e \in In(job[j].items)
  BY <1>1, <1>2, <1>3 DEF Rows, In
<1>7. CASE job[j].mode = "publish"
  <2>1. ASSUME NEW e \in In(job'[j].items), job'[j].items[e].status = "applied"
        PROVE  e \in In(job'[j].docs)
    <3>1. CASE e = d
      BY <1>4, <1>5, <1>6, <1>7, <2>1, <3>1
    <3>2. CASE e # d
      BY <1>1, <1>5, <1>6, <1>7, <2>1, <3>2 DEF SparedBy
    <3> QED BY <3>1, <3>2
  <2> QED BY <1>1, <1>7, <2>1 DEF SparedBy
<1>8. CASE job[j].mode = "rollback"
  <2>1. \A e \in In(job'[j].items) : job'[j].items[e].status # "applied"
    BY <1>1, <1>3, <1>6, <1>8 DEF SparedBy
  <2>2. In(job'[j].list) \subseteq shipped /\ In(job'[j].docs) \subseteq shipped
    BY <1>1, <1>5, <1>8 DEF SparedBy
  <2> QED BY <1>1, <1>8, <2>1, <2>2 DEF SparedBy
<1> QED BY <1>1, <1>7, <1>8 DEF TypeInv, TypeOK, JobRow

LEMMA WorkerSpares ==
  ASSUME TypeInv, Spared, NEW j \in Jobs, Step(j) \/ Raise(j) \/ Lapse(j) \/ Rescue(j)
  PROVE  Spared'
<1>1. ASSUME UNCHANGED <<item, shipped>>, job' = [job EXCEPT ![j] = job'[j]],
             job'[j] \in JobRow, WellHeld(job'[j]), job'[j].phase = "walk" => SparedBy(job'[j])
      PROVE  Spared'
  <2>1. ItemsIn("applied")' \subseteq shipped'
    BY <1>1 DEF Spared, ItemsIn
  <2> QED BY <1>1, <2>1, SparedRow
<1>2. ASSUME UNCHANGED <<item, shipped>>,
             NEW phase \in {"fail", "abandon", "announce", "done", "killed", "discarded"},
             job' = [job EXCEPT ![j] = Past(j, phase)]
      PROVE  Spared'
  <2>1. /\ job' = [job EXCEPT ![j] = job'[j]] /\ job'[j] \in JobRow /\ WellHeld(job'[j])
        /\ job'[j].phase # "walk"
    BY <1>2, PastRow
  <2> QED BY <1>1, <1>2, <2>1
<1>3. CASE Begin(j)
  <2>1. job'[j].phase # "walk"
    BY <1>3, BeginRow
  <2> QED BY <1>1, <1>3, <2>1, BeginRow DEF Begin
<1>4. CASE List(j)
  <2>1. /\ job' = [job EXCEPT ![j] = job'[j]] /\ job'[j] \in JobRow /\ WellHeld(job'[j])
        /\ job'[j].mode = job[j].mode
        /\ job'[j].items = NoRows /\ job'[j].docs = NoRows
        /\ In(job'[j].list) = ItemsIn(Wanted(job[j].mode))
    BY <1>4, ListRow
  <2>2. In(NoRows) = {}
    BY BlankRows
  <2>3. SparedBy(job'[j])
    BY <2>1, <2>2 DEF SparedBy, Spared, Wanted
  <2> QED BY <1>1, <1>4, <2>1, <2>3 DEF List
<1>5. CASE \E d \in Docs : Fetch(j, d)
  <2>1. PICK d \in Docs : Fetch(j, d)
    BY <1>5
  <2>2. /\ job' = [job EXCEPT ![j] = job'[j]] /\ job'[j] \in JobRow /\ WellHeld(job'[j])
        /\ job'[j].phase = "walk" /\ job'[j].mode = job[j].mode
        /\ job'[j].list = job[j].list
        /\ job'[j].items = job[j].items /\ job'[j].docs = job[j].docs
    BY <2>1, FetchRow
  <2>3. SparedBy(job'[j])
    BY <2>1, <2>2 DEF SparedBy, Spared, Fetch
  <2> QED BY <1>1, <2>1, <2>2, <2>3 DEF Fetch
<1>6. CASE Apply(j) \/ Undo(j)
  <2>1. Walked(j)
    BY <1>6, ApplyWalks, UndoWalks
  <2>2. SparedBy(job'[j])
    BY <2>1, WalkedSpares
  <2> QED BY <1>1, <2>1, <2>2 DEF Walked
<1>7. CASE Commit(j)
  <2>1. /\ job' = [job EXCEPT ![j] = job'[j]] /\ job'[j] \in JobRow /\ WellHeld(job'[j])
        /\ job'[j].phase # "walk"
    BY <1>7, PastRow DEF Commit
  <2>2. /\ job[j].mode \in {"publish", "rollback"} /\ SparedBy(job[j]) /\ job[j].phase = "walk"
        /\ \A d \in Docs : item'[d] = IF d \in In(job[j].items) THEN job[j].items[d] ELSE item[d]
        /\ shipped' = IF job[j].mode = "publish" THEN shipped \cup In(job[j].docs) ELSE shipped
    BY <1>7 DEF Commit, Spared, TypeInv, TypeOK, JobRow
  <2>3. ItemsIn("applied")' \subseteq shipped'
    BY <2>2 DEF SparedBy, Spared, ItemsIn
  <2>4. shipped \subseteq shipped'
    BY <2>2
  <2> QED BY <2>1, <2>3, <2>4, SparedRow
<1>8. CASE Abort(j) \/ RecordFailure(j) \/ Announce(j) \/ AbandonRun(j) \/ Raise(j)
  BY <1>2, <1>8 DEF Abort, RecordFailure, Announce, AbandonRun, Raise
<1>10. CASE Lapse(j)
  BY <1>2, <1>10, Lost
<1>9. CASE Rescue(j)
  BY <1>1, <1>9, PhaseRow DEF Rescue
<1> QED BY <1>3, <1>4, <1>5, <1>6, <1>7, <1>8, <1>9, <1>10 DEF Step

LEMMA FinishEditSpares ==
  ASSUME TypeInv, FinishEdit
  PROVE  ItemsIn("applied")' \subseteq ItemsIn("applied")
<1>1. /\ item \in [Docs -> ItemRow]
      /\ item' = item \/ item' = [item EXCEPT ![edit.doc] = Edited(edit.doc)]
  BY DEF FinishEdit, TypeInv, TypeOK
<1>2. ASSUME edit.doc \in Docs
      PROVE  Edited(edit.doc).status = "applied" => item[edit.doc].status = "applied"
  <2>1. NewItem(edit.action).status = "pending"
    BY DEF NewItem
  <2>2. /\ [item[edit.doc] EXCEPT !.status = "cancelled"].status = "cancelled"
        /\ [item[edit.doc] EXCEPT !.action = edit.action].status = item[edit.doc].status
    BY <1>1, <1>2 DEF ItemRow
  <2> QED BY <2>1, <2>2 DEF Edited
<1> QED BY <1>1, <1>2 DEF ItemsIn

LEMMA NextSpares == TypeInv /\ Spared /\ [Next]_vars => Spared'
<1> SUFFICES ASSUME TypeInv, Spared, [Next]_vars PROVE Spared'
  OBVIOUS
<1>1. ASSUME UNCHANGED <<job, shipped, item>> PROVE Spared'
  <2>1. ItemsIn("applied")' = ItemsIn("applied")
    BY <1>1 DEF ItemsIn
  <2> QED BY <1>1, <2>1, SparedStays
<1>2. CASE UNCHANGED vars
  BY <1>1, <1>2 DEF vars
<1>3. CASE \E d \in Docs : EditDoc(d)
  BY <1>1, <1>3 DEF EditDoc, Update, SaveWorkingCopy, PublishChanges, PublishDoc, UnpublishDoc,
                    ArchiveDoc, MoveDoc, TrashDoc, Write
<1>4. CASE FinishEdit
  BY <1>4, FinishEditSpares, SparedStays DEF FinishEdit
<1>5. CASE \E op \in {"add", "cancel", "set_action"}, d \in Docs, action \in {"publish", "unpublish"} :
             BeginEdit(op, d, action)
  BY <1>1, <1>5 DEF BeginEdit
<1>6. CASE CronClaim \/ \E a \in Admins : PublishNow(a) \/ RollBack(a)
  <2>1. PICK mode \in {"publish", "rollback"} : Enqueue(mode) /\ UNCHANGED <<item, shipped>>
    BY <1>6 DEF CronClaim, PublishNow, RollBack, Claim
  <2>2. CASE UNCHANGED job
    BY <1>1, <2>1, <2>2
  <2>3. CASE /\ owner' \in Jobs /\ job'[owner'].phase = "available"
             /\ \A j \in Jobs \ {owner'} : job'[j] = job[j]
    <3>1. \A j \in Jobs : SparedBy(job[j])'
      <4>1. \A j \in Jobs \ {owner'} : SparedBy(job[j])'
        BY <2>1, <2>3 DEF Spared, SparedBy, In
      <4>2. SparedBy(job'[owner'])
        BY <2>3 DEF SparedBy
      <4>3. \A j \in Jobs : j = owner' => SparedBy(job[j])'
        BY <2>3 DEF SparedBy
      <4> QED BY <4>1, <4>3
    <3>2. ItemsIn("applied")' \subseteq shipped'
      BY <2>1 DEF Spared, ItemsIn
    <3> QED BY <3>1, <3>2 DEF Spared
  <2> QED BY <2>1, <2>2, <2>3, Enqueued
<1>7. CASE \E a \in Admins :
             \/ Schedule(a) \/ Unschedule(a) \/ Reopen(a) \/ Archive(a) \/ Delete(a) \/ Abandon(a)
             \/ Refresh(a)
  <2>1. UNCHANGED <<job, shipped>>
    BY <1>7 DEF Schedule, Unschedule, Reopen, Archive, Delete, Abandon, Refresh, Click
  <2>2. ItemsIn("applied")' \subseteq ItemsIn("applied")
    <3>1. \A d \in Docs : [item[d] EXCEPT !.status = "cancelled"].status = "cancelled"
      BY DEF TypeInv, TypeOK, ItemRow
    <3>2. NoItem.status = "none"
      BY DEF NoItem, NewItem
    <3>3. PICK a \in Admins :
            \/ Schedule(a) \/ Unschedule(a) \/ Reopen(a) \/ Archive(a) \/ Delete(a) \/ Abandon(a)
            \/ Refresh(a)
      BY <1>7
    <3>4. \/ item' = item
          \/ \A d \in Docs : item'[d] = [item[d] EXCEPT !.status = "cancelled"] \/ item'[d] = item[d]
          \/ \A d \in Docs : item'[d] = NoItem
      BY <3>3 DEF Schedule, Unschedule, Reopen, Archive, Delete, Abandon, Refresh
    <3> QED BY <3>1, <3>2, <3>4 DEF ItemsIn
  <2> QED BY <2>1, <2>2, SparedStays
<1>8. CASE \E j \in Jobs : Step(j) \/ Raise(j) \/ Lapse(j) \/ Rescue(j)
  BY <1>8, WorkerSpares
<1> QED BY <1>2, <1>3, <1>4, <1>5, <1>6, <1>7, <1>8 DEF Next

\* A job that walks goes on in its mode, and only a launch's commit ships.
LEMMA WalkersGoOn ==
  ASSUME TypeInv, Next, NEW j \in Jobs, job'[j].phase = "walk"
  PROVE  /\ job'[j].mode = job[j].mode
         /\ \/ shipped' = shipped
            \/ job'[j] = job[j]
<1>1. CASE UNCHANGED <<job, shipped>>
  BY <1>1
<1>2. CASE CronClaim \/ \E a \in Admins : PublishNow(a) \/ RollBack(a)
  <2>1. PICK mode \in {"publish", "rollback"} : Enqueue(mode) /\ UNCHANGED shipped
    BY <1>2 DEF CronClaim, PublishNow, RollBack, Claim
  <2>2. \/ UNCHANGED job
        \/ /\ owner' \in Jobs /\ job'[owner'].phase = "available"
           /\ \A i \in Jobs \ {owner'} : job'[i] = job[i]
    BY <2>1, Enqueued
  <2> QED BY <2>1, <2>2
<1>3. ASSUME NEW i \in Jobs, Step(i) \/ Raise(i) \/ Lapse(i) \/ Rescue(i)
      PROVE  /\ job'[j].mode = job[j].mode
             /\ \/ shipped' = shipped
                \/ job'[j] = job[j]
  <2>1. CASE i # j
    <3>1. \A k \in Jobs \ {i} : job'[k] = job[k]
      <4>1. CASE Apply(i) \/ Undo(i)
        BY <4>1, ApplyWalks, UndoWalks, OneJob DEF Walked
      <4>2. CASE Lapse(i)
        BY <4>2, Lost DEF TypeInv, TypeOK
      <4>3. CASE ~(Apply(i) \/ Undo(i) \/ Lapse(i))
        BY <1>3, <4>3 DEF Step, Begin, List, Fetch, Commit, Abort, RecordFailure, Announce,
                          AbandonRun, Raise, Rescue, TypeInv, TypeOK
      <4> QED BY <4>1, <4>2, <4>3
    <3> QED BY <2>1, <3>1
  <2>2. CASE i = j
    <3>1. ASSUME NEW phase \in {"fail", "abandon", "announce", "done", "killed", "discarded"},
                 job' = [job EXCEPT ![j] = Past(j, phase)]
          PROVE  FALSE
      BY <3>1, PastRow
    <3>2. ~Commit(j) /\ ~Abort(j) /\ ~RecordFailure(j) /\ ~Announce(j) /\ ~AbandonRun(j)
          /\ ~Raise(j) /\ ~Lapse(j)
      BY <3>1, Lost DEF Commit, Abort, RecordFailure, Announce, AbandonRun, Raise
    <3>3. CASE Begin(j)
      BY <3>3, BeginRow
    <3>4. CASE List(j)
      BY <3>4, ListRow DEF List
    <3>5. CASE \E d \in Docs : Fetch(j, d)
      BY <3>5, FetchRow DEF Fetch
    <3>6. CASE Apply(j) \/ Undo(j)
      BY <3>6, ApplyWalks, UndoWalks DEF Walked
    <3>7. CASE Rescue(j)
      BY <3>7, PhaseRow DEF Rescue
    <3> QED BY <1>3, <2>2, <3>2, <3>3, <3>4, <3>5, <3>6, <3>7 DEF Step
  <2> QED BY <2>1, <2>2
<1>4. CASE \E i \in Jobs : Step(i) \/ Raise(i) \/ Lapse(i) \/ Rescue(i)
  BY <1>3, <1>4
<1>5. CASE \E d \in Docs : EditDoc(d)
  BY <1>1, <1>5 DEF EditDoc, Update, SaveWorkingCopy, PublishChanges, PublishDoc, UnpublishDoc,
                    ArchiveDoc, MoveDoc, TrashDoc, Write
<1>6. CASE FinishEdit \/ \E op \in {"add", "cancel", "set_action"}, d \in Docs,
                            action \in {"publish", "unpublish"} : BeginEdit(op, d, action)
  BY <1>1, <1>6 DEF FinishEdit, BeginEdit
<1>7. CASE \E a \in Admins :
             \/ Schedule(a) \/ Unschedule(a) \/ Reopen(a) \/ Archive(a) \/ Delete(a) \/ Abandon(a)
             \/ Refresh(a)
  BY <1>1, <1>7 DEF Schedule, Unschedule, Reopen, Archive, Delete, Abandon, Refresh, Click
<1> QED BY <1>2, <1>4, <1>5, <1>6, <1>7 DEF Next

\* A rollback writes only documents its own launch changed, whatever slips: an
\* item that was skipped, cancelled or added since is never undone, even with
\* two workers on the release (Releases.applied_items/2, mark_applied/3).
THEOREM RollbackIsConfined == Spec => RollbackSparesOthers
<1>1. Init => Spared
  <2> SUFFICES ASSUME Init PROVE Spared
    OBVIOUS
  <2>1. ItemsIn("applied") = {}
    BY InitLife DEF Init, LifeInv, Life, Unlaunched
  <2> QED BY <2>1 DEF Init, NoJob, Spared, SparedBy
<1>2. TypeInv /\ Spared /\ TypeInv' /\ Spared' /\ [Next]_vars =>
        [\A j \in Jobs, d \in Docs \ shipped :
           job[j].mode = "rollback" => d \notin In(job'[j].docs)]_vars
  <2> SUFFICES ASSUME TypeInv, Spared, TypeInv', Spared', Next,
                      NEW j \in Jobs, NEW d \in Docs \ shipped, job[j].mode = "rollback"
               PROVE  d \notin In(job'[j].docs)
    BY DEF vars
  <2>1. In(NoRows) = {}
    BY BlankRows
  <2>2. CASE job'[j].phase # "walk"
    <3>1. job'[j].docs = NoRows
      BY <2>2 DEF TypeInv, WellHeld
    <3> QED BY <2>1, <3>1
  <2>3. CASE job'[j].phase = "walk"
    <3>1. job'[j].mode = "rollback" /\ (shipped' = shipped \/ job'[j] = job[j])
      BY <2>3, WalkersGoOn
    <3>2. CASE shipped' = shipped
      BY <2>3, <3>1, <3>2 DEF Spared, SparedBy, In
    <3>3. CASE job'[j] = job[j]
      BY <2>3, <3>3 DEF Spared, SparedBy
    <3> QED BY <3>1, <3>2, <3>3
  <2> QED BY <2>2, <2>3
<1> QED BY <1>1, <1>2, InitTypeInv, NextTypeInv, NextSpares, PTL DEF Spec, RollbackSparesOthers

-----------------------------------------------------------------------------
(* What a rollback puts back, where nothing slips.                         *)

\* A clean item knows the text its launch took away; and while nobody has
\* written a document since the launch took it down, it still has that text.
Remembers(row, after) ==
  row.status = "applied" /\ row.clean =>
    /\ row.version = row.live /\ row.live \in Texts
    /\ row.action = "unpublish" /\ ~after.moved => after.text = row.live

HasText(row) == row.state # "gone" => row.text \in Texts

\* The same of what a worker has written and not committed.
WalkTrue(row) ==
  row.phase = "walk" =>
    /\ \A d \in In(row.docs) : HasText(row.docs[d])
    /\ row.mode = "publish" =>
         \A d \in In(row.items) : row.items[d].status = "applied" =>
           d \in In(row.docs) /\ Remembers(row.items[d], row.docs[d])

\* A worker that rolls back has read the items as they are.
ReadsTrue(row) ==
  row.phase = "walk" /\ row.mode = "rollback" =>
    \A d \in In(row.list) : row.list[d] = item[d]

Captured ==
  /\ \A d \in Docs : HasText(doc[d]) /\ Remembers(item[d], doc[d])
  /\ \A j \in Jobs : WalkTrue(job[j]) /\ ReadsTrue(job[j])

CaptureInv == LifeInv /\ Captured

LEMMA InitCaptured == Init => Captured
<1> SUFFICES ASSUME Init PROVE Captured
  OBVIOUS
<1>1. \A j \in Jobs : WalkTrue(job[j]) /\ ReadsTrue(job[j])
  BY DEF Init, NoJob, WalkTrue, ReadsTrue
<1>2. \A d \in Docs : Remembers(item[d], doc[d])
  BY DEF Init, NoItem, NewItem, Remembers
<1>3. ASSUME NEW d \in Docs
      PROVE  HasText(doc[d])
  <2> DEFINE text == CHOOSE t \in Texts : TRUE
             draft == [Gone EXCEPT !.state = "draft", !.text = text]
             live == [draft EXCEPT !.state = "published", !.version = text]
  <2>1. text \in Texts
    BY ReleasesAssumption
  <2>2. doc[d] \in {draft, live} \cup
          {[live EXCEPT !.working = t, !.base = text] : t \in Texts \ {text}}
    BY DEF Init
  <2> HIDE DEF text
  <2>3. draft.text = text /\ live.text = text
    BY DEF Gone
  <2>4. \A t \in Texts : [live EXCEPT !.working = t, !.base = text].text = text
    BY DEF Gone
  <2> QED BY <2>1, <2>2, <2>3, <2>4 DEF HasText
<1> QED BY <1>1, <1>2, <1>3 DEF Captured

\* Nobody walks, and no applied item or document is written.
LEMMA CapturedStays ==
  ASSUME Captured, UNCHANGED <<job, doc>>,
         \A d \in Docs : item'[d] = item[d] \/ item'[d].status # "applied",
         (\A j \in Jobs : job[j].phase # "walk") \/ item' = item
  PROVE  Captured'
<1>1. \A d \in Docs : HasText(doc'[d]) /\ Remembers(item'[d], doc'[d])
  BY DEF Captured, Remembers
<1>2. \A j \in Jobs : WalkTrue(job'[j])
  BY DEF Captured
<1>3. \A j \in Jobs : ReadsTrue(job[j])'
  BY DEF Captured, ReadsTrue, In
<1> QED BY <1>1, <1>2, <1>3 DEF Captured, WalkTrue, HasText, Remembers, In

\* A step of one job that leaves the tables alone.
LEMMA CapturedRow ==
  ASSUME TypeInv, Captured, NEW j \in Jobs, UNCHANGED <<item, doc>>,
         job' = [job EXCEPT ![j] = job'[j]], job'[j] \in JobRow, WellHeld(job'[j]),
         WalkTrue(job'[j]), ReadsTrue(job'[j])
  PROVE  Captured'
<1>1. \A i \in Jobs \ {j} : job'[i] = job[i]
  BY OneJob
<1>2. \A i \in Jobs : WalkTrue(job'[i])
  BY <1>1 DEF Captured
<1>3. \A i \in Jobs : ReadsTrue(job[i])'
  <2>1. \A i \in Jobs : ReadsTrue(job'[i])
    BY <1>1 DEF Captured
  <2> QED BY <2>1 DEF ReadsTrue, In
<1> QED BY <1>2, <1>3 DEF Captured, WalkTrue, HasText, Remembers, In

LEMMA WriteCaptured ==
  ASSUME TypeInv, Captured, NEW d \in Docs, NEW row \in DocRow, HasText(row), Write(d, row)
  PROVE  Captured'
<1>1. /\ doc \in [Docs -> DocRow] /\ UNCHANGED <<item, job>>
      /\ doc' = [doc EXCEPT ![d] = [row EXCEPT !.moved = TRUE]]
  BY DEF Write, TypeInv, TypeOK
<1>2. LET made == [row EXCEPT !.moved = TRUE] IN
      made.state = row.state /\ made.text = row.text /\ made.moved
  BY DEF DocRow
<1>3. \A e \in Docs : HasText(doc'[e]) /\ Remembers(item[e], doc'[e])
  BY <1>1, <1>2 DEF Captured, HasText, Remembers
<1> QED BY <1>1, <1>3 DEF Captured, WalkTrue, ReadsTrue, HasText, Remembers, In

\* What an editor leaves of a document that is not gone has a text.
LEMMA WritesHaveText ==
  ASSUME NEW row \in DocRow, row.text \in Texts, NEW seen \in DocRow
  PROVE  /\ \A text \in Texts : HasText([row EXCEPT !.text = text])
         /\ \A state \in DocStates : HasText([row EXCEPT !.state = state])
         /\ Cleared(row).text = row.text /\ Cleared(row).state = row.state
         /\ Promoted(seen, row) \in Texts
         /\ HasText(Published(row)) /\ HasText(ChangesPublished(row))
         /\ Published(row).text = row.text /\ Published(row).state = "published"
         /\ ChangesPublished(row).state = row.state
         /\ \A to : HasText(Retired(seen, row, to)) /\ Retired(seen, row, to).state = to
<1>1. /\ \A text \in Texts : HasText([row EXCEPT !.text = text])
      /\ \A state \in DocStates : HasText([row EXCEPT !.state = state])
  BY DEF DocRow, HasText
<1>2. Cleared(row) \in DocRow /\ Cleared(row).text = row.text /\ Cleared(row).state = row.state
  BY DEF DocRow, Cleared
<1>3. Promoted(seen, row) \in Texts /\ Promoted(row, row) \in Texts
  BY DEF DocRow, Promoted
<1>4. /\ HasText(Published(row)) /\ Published(row).text = row.text
      /\ Published(row).state = "published"
  BY DEF DocRow, Published, HasText
<1>5. ChangesPublished(row).text = Promoted(row, row) /\ ChangesPublished(row).state = row.state
  BY <1>2 DEF DocRow, ChangesPublished
<1>6. \A to : Retired(seen, row, to).text = Promoted(seen, row) /\ Retired(seen, row, to).state = to
  BY <1>2 DEF DocRow, Retired
<1> QED BY <1>1, <1>2, <1>3, <1>4, <1>5, <1>6 DEF HasText

LEMMA EditDocCaptured ==
  ASSUME TypeInv, Captured, NEW d \in Docs, EditDoc(d)
  PROVE  Captured'
<1>1. doc[d] \in DocRow /\ doc[d].state # "gone" /\ doc[d].text \in Texts
  <2>1. doc[d].state # "gone"
    BY DEF EditDoc, Update, SaveWorkingCopy, PublishChanges, PublishDoc, UnpublishDoc,
           ArchiveDoc, MoveDoc, TrashDoc, Write
  <2> QED BY <2>1 DEF TypeInv, TypeOK, Captured, HasText
<1>2. CASE Update(d)
  <2>1. PICK text \in Texts : Write(d, [doc[d] EXCEPT !.text = text])
    BY <1>2 DEF Update
  <2>2. [doc[d] EXCEPT !.text = text] \in DocRow
    BY <1>1, DocWrites
  <2> QED BY <1>1, <2>1, <2>2, WritesHaveText, WriteCaptured
<1>3. CASE SaveWorkingCopy(d)
  <2>1. PICK text \in Texts :
          Write(d, IF text = doc[d].text
                   THEN Cleared(doc[d])
                   ELSE [doc[d] EXCEPT !.working = text,
                                       !.base = IF @ = None THEN doc[d].text ELSE @])
    BY <1>3 DEF SaveWorkingCopy
  <2> DEFINE made == [doc[d] EXCEPT !.working = text,
                                    !.base = IF @ = None THEN doc[d].text ELSE @]
  <2>2. made \in DocRow /\ made.text = doc[d].text
    BY <1>1 DEF DocRow
  <2>3. Cleared(doc[d]) \in DocRow /\ Cleared(doc[d]).text = doc[d].text
    BY <1>1, DocWrites, WritesHaveText
  <2>4. HasText(made) /\ HasText(Cleared(doc[d]))
    BY <1>1, <2>2, <2>3 DEF HasText
  <2> QED BY <2>1, <2>2, <2>3, <2>4, WriteCaptured
<1>4. CASE PublishChanges(d)
  <2>1. ASSUME NEW text \in {doc[d].text, doc[d].working}, Pending(doc[d]),
               Write(d, [Cleared(doc[d]) EXCEPT !.text = text, !.version = text])
        PROVE  Captured'
    <3>1. Cleared(doc[d]) \in DocRow
      BY <1>1, DocWrites
    <3>2. text \in Texts
      BY <1>1, <2>1 DEF Pending, DocRow
    <3> DEFINE made == [Cleared(doc[d]) EXCEPT !.text = text, !.version = text]
    <3>3. made \in DocRow /\ made.text = text
      BY <3>1, <3>2 DEF DocRow
    <3>4. HasText(made)
      BY <3>2, <3>3 DEF HasText
    <3> QED BY <2>1, <3>3, <3>4, WriteCaptured
  <2>2. ChangesPublished(doc[d]) \in DocRow /\ HasText(ChangesPublished(doc[d]))
    BY <1>1, DocWrites, WritesHaveText
  <2> QED BY <1>4, <2>1, <2>2, WriteCaptured DEF PublishChanges
<1>5. CASE PublishDoc(d)
  <2>1. Published(doc[d]) \in DocRow /\ HasText(Published(doc[d]))
    BY <1>1, DocWrites, WritesHaveText
  <2> QED BY <1>5, <2>1, WriteCaptured DEF PublishDoc
<1>6. CASE UnpublishDoc(d) \/ ArchiveDoc(d)
  <2>1. \A to \in {"draft", "archived"} :
          Retired(doc[d], doc[d], to) \in DocRow /\ HasText(Retired(doc[d], doc[d], to))
    BY <1>1, DocWrites, WritesHaveText
  <2> QED BY <1>6, <2>1, WriteCaptured DEF UnpublishDoc, ArchiveDoc
<1>7. CASE MoveDoc(d)
  <2>1. PICK state \in {"in_review", "draft"} : Write(d, [doc[d] EXCEPT !.state = state])
    BY <1>7 DEF MoveDoc
  <2>2. state \in DocStates
    BY DEF DocStates
  <2> QED BY <1>1, <2>1, <2>2, DocWrites, WritesHaveText, WriteCaptured
<1>8. CASE TrashDoc(d)
  <2>1. Gone \in DocRow /\ HasText(Gone)
    BY BlankRows DEF HasText, Gone
  <2> QED BY <1>8, <2>1, WriteCaptured DEF TrashDoc
<1> QED BY <1>2, <1>3, <1>4, <1>5, <1>6, <1>7, <1>8 DEF EditDoc

LEMMA FinishEditCaptured ==
  ASSUME LifeInv, Captured, FinishEdit
  PROVE  Captured'
<1>1. /\ release.state \in Editable /\ edit.doc \in Docs
      /\ edit.op # "add" => item[edit.doc].status = "pending"
  BY DEF FinishEdit, LifeInv, Life, EditsCompose
<1>2. /\ item \in [Docs -> ItemRow] /\ edit.op \in {"none", "add", "cancel", "set_action"}
      /\ item' = [item EXCEPT ![edit.doc] = Edited(edit.doc)]
  BY <1>1 DEF LifeInv, TypeInv, TypeOK, FinishEdit, Editable
<1>3. Edited(edit.doc) = item[edit.doc] \/ Edited(edit.doc).status # "applied"
  <2>1. NewItem(edit.action).status = "pending"
    BY DEF NewItem
  <2>2. /\ [item[edit.doc] EXCEPT !.status = "cancelled"].status = "cancelled"
        /\ [item[edit.doc] EXCEPT !.action = edit.action].status = item[edit.doc].status
    BY <1>1, <1>2 DEF ItemRow
  <2> QED BY <1>1, <1>2, <2>1, <2>2 DEF Edited
<1>4. \A j \in Jobs : job[j].phase # "walk"
  BY <1>1, NobodyWalks DEF Editable, Claimed
<1> QED BY <1>1, <1>2, <1>3, <1>4, CapturedStays DEF FinishEdit

LEMMA ClickCaptured ==
  ASSUME Slips = {}, LifeInv, Captured, NEW a \in Admins,
         \/ Schedule(a) \/ Unschedule(a) \/ Reopen(a) \/ Archive(a) \/ Delete(a) \/ Abandon(a)
         \/ Refresh(a)
  PROVE  Captured'
<1>1. CASE Archive(a) \/ Delete(a)
  <2>1. release.state \notin Claimed /\ UNCHANGED <<job, doc>>
    BY <1>1 DEF Archive, Delete, Click, Fresh, Editable, Claimed
  <2>2. \A j \in Jobs : job[j].phase # "walk"
    BY <2>1, NobodyWalks
  <2>3. \A d \in Docs : item'[d] = item[d] \/ item'[d].status # "applied"
    <3>1. item \in [Docs -> ItemRow]
      BY DEF LifeInv, TypeInv, TypeOK
    <3>2. \A d \in Docs : [item[d] EXCEPT !.status = "cancelled"].status = "cancelled"
      BY <3>1 DEF ItemRow
    <3>3. NoItem.status = "none"
      BY DEF NoItem, NewItem
    <3> QED BY <1>1, <3>2, <3>3 DEF Archive, Delete
  <2> QED BY <2>1, <2>2, <2>3, CapturedStays
<1>2. CASE Schedule(a) \/ Unschedule(a) \/ Reopen(a) \/ Abandon(a) \/ Refresh(a)
  BY <1>2, CapturedStays DEF Schedule, Unschedule, Reopen, Abandon, Refresh, Click
<1> QED BY <1>1, <1>2

LEMMA ClaimCaptured ==
  ASSUME TypeInv, Captured, CronClaim \/ \E a \in Admins : PublishNow(a) \/ RollBack(a)
  PROVE  Captured'
<1>1. PICK mode \in {"publish", "rollback"} : Enqueue(mode) /\ UNCHANGED <<item, doc>>
  BY DEF CronClaim, PublishNow, RollBack, Claim
<1>2. CASE UNCHANGED job
  BY <1>1, <1>2, CapturedStays
<1>3. CASE /\ owner' \in Jobs /\ job'[owner'].phase = "available"
           /\ \A j \in Jobs \ {owner'} : job'[j] = job[j]
  <2>1. \A j \in Jobs : WalkTrue(job'[j]) /\ ReadsTrue(job'[j])
    BY <1>3 DEF Captured, WalkTrue, ReadsTrue
  <2> QED BY <1>1, <2>1 DEF Captured, WalkTrue, ReadsTrue, HasText, Remembers, In
<1> QED BY <1>1, <1>2, <1>3, Enqueued

\* What the launch writes on an item is so of the document as it leaves it.
LEMMA MarkRemembers ==
  ASSUME NEW d \in Docs, item[d] \in ItemRow, NEW action \in {"publish", "unpublish"},
         NEW seen \in DocRow, NEW row \in DocRow, row.text \in Texts, NEW after \in DocRow,
         action = "unpublish" => after.state # "published"
  PROVE  Remembers(Mark(d, Applied(d, action, seen, row, after)), [after EXCEPT !.moved = FALSE])
<1> DEFINE how == Applied(d, action, seen, row, after)
<1>1. /\ how.version = seen.version /\ how.live = row.text
      /\ how.clean => /\ item[d].action = action /\ seen.version = row.text
                      /\ after.state = "published" \/ after.text = row.text
  BY DEF Applied
<1> HIDE DEF how
<1>2. /\ Mark(d, how).version = how.version /\ Mark(d, how).live = how.live
      /\ Mark(d, how).clean = how.clean /\ Mark(d, how).action = item[d].action
  BY DEF Mark, ItemRow
<1>3. [after EXCEPT !.moved = FALSE].text = after.text
  BY DEF DocRow
<1>4. Remembers(Mark(d, how), [after EXCEPT !.moved = FALSE])
  BY <1>1, <1>2, <1>3 DEF Remembers
<1> QED BY <1>4 DEF how

\* What walking one item adds to a worker's rows.
LEMMA StageCaptured ==
  ASSUME TypeInv, Captured, NEW j \in Jobs, NEW mark \in ItemRow, NEW row \in DocRow \cup {None},
         job[j].phase = "walk", job[j].at # None, Stage(j, mark, row),
         row # None => HasText(row),
         job[j].mode = "publish" /\ mark.status = "applied" =>
           row # None /\ Remembers(mark, [row EXCEPT !.moved = FALSE])
  PROVE  Captured'
<1> DEFINE d == job[j].at
           left == IF row = None THEN None ELSE [row EXCEPT !.moved = FALSE]
<1>1. /\ d \in Docs /\ job[j].list \in Rows(ItemRow) /\ job[j].items \in Rows(ItemRow)
      /\ job[j].docs \in Rows(DocRow) /\ WalkTrue(job[j]) /\ ReadsTrue(job[j])
  BY DEF TypeInv, TypeOK, JobRow, Captured
<1>2. left \in DocRow \cup {None} /\ (left # None <=> row # None) /\ (left # None => HasText(left))
  <2>1. row # None => /\ [row EXCEPT !.moved = FALSE] \in DocRow
                      /\ [row EXCEPT !.moved = FALSE].state = row.state
                      /\ [row EXCEPT !.moved = FALSE].text = row.text
    BY DEF DocRow
  <2> QED BY <2>1, NoneIsNoRow DEF HasText
<1>3. job[j].mode = "publish" /\ mark.status = "applied" => left # None /\ Remembers(mark, left)
  BY <1>2
<1>4. /\ job' = [job EXCEPT ![j] = job'[j]]
      /\ job'[j] \in JobRow /\ WellHeld(job'[j])
      /\ job'[j].mode = job[j].mode
      /\ job'[j].list = [job[j].list EXCEPT ![d] = None]
      /\ job'[j].items = [job[j].items EXCEPT ![d] = mark]
      /\ job'[j].docs = [job[j].docs EXCEPT ![d] = left]
  BY StagedRow
<1> HIDE DEF d, left
<1>5. \A e \in Docs :
        /\ job'[j].list[e] # None => job'[j].list[e] = job[j].list[e]
        /\ job'[j].items[e] = (IF e = d THEN mark ELSE job[j].items[e])
        /\ job'[j].docs[e] = (IF e = d THEN left ELSE job[j].docs[e])
  BY <1>1, <1>4 DEF Rows
<1>6. WalkTrue(job'[j])
  <2>1. \A e \in In(job'[j].docs) : HasText(job'[j].docs[e])
    BY <1>1, <1>2, <1>5 DEF WalkTrue, In
  <2>2. ASSUME job'[j].mode = "publish", NEW e \in In(job'[j].items),
               job'[j].items[e].status = "applied"
        PROVE  e \in In(job'[j].docs) /\ Remembers(job'[j].items[e], job'[j].docs[e])
    <3>1. CASE e = d
      BY <1>3, <1>4, <1>5, <2>2, <3>1 DEF In
    <3>2. CASE e # d
      <4>1. e \in In(job[j].items) /\ job'[j].items[e] = job[j].items[e]
            /\ job'[j].docs[e] = job[j].docs[e]
        BY <1>5, <2>2, <3>2 DEF In
      <4>2. e \in In(job[j].docs) /\ Remembers(job[j].items[e], job[j].docs[e])
        BY <1>1, <1>4, <2>2, <4>1 DEF WalkTrue
      <4> QED BY <4>1, <4>2 DEF In
    <3> QED BY <3>1, <3>2
  <2> QED BY <2>1, <2>2 DEF WalkTrue
<1>7. ReadsTrue(job'[j])
  BY <1>1, <1>4, <1>5 DEF ReadsTrue, In
<1>8. UNCHANGED <<item, doc>>
  BY DEF Stage
<1> QED BY <1>4, <1>6, <1>7, <1>8, CapturedRow

LEMMA ApplyCaptured ==
  ASSUME TypeInv, Captured, NEW j \in Jobs, Apply(j)
  PROVE  Captured'
<1> DEFINE d == job[j].at
           seen == job[j].seen
           action == job[j].list[d].action
<1>1. /\ d \in Docs /\ d # None /\ item[d] \in ItemRow
      /\ doc[d] \in DocRow /\ seen \in DocRow
      /\ job[j].phase = "walk" /\ job[j].mode = "publish"
  BY DEF TypeInv, TypeOK, JobRow, Apply
<1>2. action \in {"publish", "unpublish"}
  <2>1. d \in In(job[j].list) /\ job[j].list \in Rows(ItemRow)
    BY <1>1 DEF TypeInv, TypeOK, JobRow, WellHeld
  <2>2. job[j].list[d] \in ItemRow
    BY <2>1 DEF In, Rows
  <2> QED BY <2>2 DEF ItemRow
<1>3. CASE Stage(j, Skipped(d, seen), None)
  <2>1. Skipped(d, seen) \in ItemRow /\ Skipped(d, seen).status = "skipped"
    BY <1>1, Marks
  <2> QED BY <1>1, <1>3, <2>1, StageCaptured
<1>4. ASSUME doc[d].text \in Texts, NEW row \in DocRow, HasText(row),
             action = "unpublish" => row.state # "published",
             Stage(j, Mark(d, Applied(d, action, seen, doc[d], row)), row)
      PROVE  Captured'
  <2>1. /\ Mark(d, Applied(d, action, seen, doc[d], row)) \in ItemRow
        /\ Remembers(Mark(d, Applied(d, action, seen, doc[d], row)), [row EXCEPT !.moved = FALSE])
    <3>1. \A how, after : \A was \in DocRow :
            Mark(d, Applied(d, how, seen, was, after)) \in ItemRow
      BY <1>1, Marks
    <3> HIDE DEF d, seen, action
    <3> QED BY <1>1, <1>2, <1>4, <3>1, MarkRemembers
  <2>2. row # None
    BY NoneIsNoRow
  <2> DEFINE mark == Mark(d, Applied(d, action, seen, doc[d], row))
  <2> HIDE DEF mark
  <2>3. mark \in ItemRow /\ Remembers(mark, [row EXCEPT !.moved = FALSE]) /\ Stage(j, mark, row)
    BY <1>4, <2>1 DEF mark
  <2> QED BY <1>1, <1>4, <2>2, <2>3, StageCaptured
<1>5. doc[d].state # "gone" => doc[d].text \in Texts
  BY <1>1 DEF Captured, HasText
<1>6. CASE /\ action = "publish" /\ doc[d].state \in {"draft", "in_review"}
           /\ Stage(j, Mark(d, Applied(d, action, seen, doc[d], Published(doc[d]))), Published(doc[d]))
  <2>1. Published(doc[d]) \in DocRow /\ HasText(Published(doc[d]))
    BY <1>1, <1>5, <1>6, DocWrites, WritesHaveText
  <2> HIDE DEF d, seen, action
  <2> QED BY <1>4, <1>5, <1>6, <2>1
<1>7. CASE /\ action = "publish" /\ Pending(seen) /\ doc[d] = seen
           /\ Stage(j, Mark(d, Applied(d, action, seen, doc[d], ChangesPublished(seen))),
                    ChangesPublished(seen))
  <2>1. ChangesPublished(seen) \in DocRow /\ HasText(ChangesPublished(seen)) /\ doc[d].text \in Texts
    BY <1>1, <1>5, <1>7, DocWrites, WritesHaveText DEF Pending
  <2> HIDE DEF d, seen, action
  <2> QED BY <1>4, <1>7, <2>1
<1>8. CASE /\ action = "unpublish" /\ doc[d].state = "published"
           /\ Stage(j, Mark(d, Applied(d, action, seen, doc[d], Retired(seen, doc[d], "draft"))),
                    Retired(seen, doc[d], "draft"))
  <2>1. /\ Retired(seen, doc[d], "draft") \in DocRow /\ HasText(Retired(seen, doc[d], "draft"))
        /\ Retired(seen, doc[d], "draft").state # "published"
    <3>1. Retired(seen, doc[d], "draft") \in DocRow
      BY <1>1, DocWrites
    <3>2. doc[d].text \in Texts
      BY <1>5, <1>8
    <3>3. \A to : HasText(Retired(seen, doc[d], to)) /\ Retired(seen, doc[d], to).state = to
      <4> HIDE DEF d, seen
      <4> QED BY <1>1, <3>2, WritesHaveText
    <3> QED BY <3>1, <3>3
  <2> HIDE DEF d, seen, action
  <2> QED BY <1>4, <1>5, <1>8, <2>1
<1> QED BY <1>3, <1>6, <1>7, <1>8 DEF Apply

\* The item a worker rolls back is the row it has read.
LEMMA PlanStands ==
  ASSUME LifeInv, Captured, NEW j \in Jobs, Undo(j)
  PROVE  LET d == job[j].at IN
         /\ d \in Docs /\ item[d] \in ItemRow /\ doc[d] \in DocRow /\ job[j].seen \in DocRow
         /\ job[j].list[d] = item[d] /\ item[d].status = "applied"
<1> DEFINE d == job[j].at
<1>1. /\ d \in In(job[j].list) /\ d \in Docs /\ item[d] \in ItemRow /\ doc[d] \in DocRow
      /\ job[j].seen \in DocRow /\ job[j].phase = "walk" /\ job[j].mode = "rollback"
  BY DEF Undo, LifeInv, TypeInv, TypeOK, JobRow, WellHeld
<1>2. job[j].list[d] = item[d]
  BY <1>1 DEF Captured, ReadsTrue
<1>3. d \in ItemsIn("applied")
  BY <1>1 DEF LifeInv, Life, WalksBack
<1> QED BY <1>1, <1>2, <1>3 DEF ItemsIn

LEMMA RestoredIs ==
  ASSUME NEW plan \in ItemRow, NEW seen \in DocRow, NEW row \in DocRow
  PROVE  /\ Restored(plan, seen, row).state = "published"
         /\ Restored(plan, seen, row).text =
              IF plan.version # None /\ Drifted(plan, seen) THEN plan.version ELSE row.text
<1> DEFINE body == IF plan.version # None /\ Drifted(plan, seen)
                   THEN [Cleared(row) EXCEPT !.text = plan.version]
                   ELSE row
<1>1. body \in DocRow
  <2>1. Cleared(row) \in DocRow /\ plan.version \in Texts \cup {None}
    BY DocWrites DEF ItemRow
  <2> QED BY <2>1 DEF DocRow
<1>2. body.text = IF plan.version # None /\ Drifted(plan, seen) THEN plan.version ELSE row.text
  <2>1. Cleared(row) \in DocRow
    BY DocWrites
  <2>2. [Cleared(row) EXCEPT !.text = plan.version].text = plan.version
    BY <2>1 DEF DocRow
  <2> QED BY <2>2
<1>3. Restored(plan, seen, row) = IF body.state = "published" THEN body ELSE Published(body)
  BY DEF Restored
<1> HIDE DEF body
<1>4. Published(body).state = "published" /\ Published(body).text = body.text
  BY <1>1 DEF Published, DocRow
<1> QED BY <1>2, <1>3, <1>4

LEMMA TakenDownIs ==
  ASSUME NEW plan \in ItemRow, NEW row \in DocRow
  PROVE  /\ TakenDown(plan, row, row).state # "published"
         /\ plan.prior = "in_review" => TakenDown(plan, row, row).state # "draft"
<1> DEFINE down == IF row.state = "published" THEN Retired(row, row, "draft") ELSE row
<1>1. Retired(row, row, "draft") \in DocRow
  BY DocWrites
<1>2. Retired(row, row, "draft").state = "draft"
  <2>1. Cleared(row) \in DocRow
    BY DocWrites
  <2> QED BY <2>1 DEF Retired, DocRow
<1>3. down \in DocRow /\ down.state # "published"
  BY <1>1, <1>2
<1>4. TakenDown(plan, row, row) =
        IF plan.prior = "in_review" /\ down.state = "draft"
        THEN [down EXCEPT !.state = "in_review"]
        ELSE down
  BY DEF TakenDown
<1> HIDE DEF down
<1>5. [down EXCEPT !.state = "in_review"].state = "in_review"
  BY <1>3 DEF DocRow
<1> QED BY <1>3, <1>4, <1>5

\* What the worker writes of a document has a text if the document had one.
LEMMA UndoHasText ==
  ASSUME NEW plan \in ItemRow, NEW seen \in DocRow, NEW row \in DocRow, row.text \in Texts
  PROVE  HasText(Restored(plan, seen, row)) /\ HasText(TakenDown(plan, seen, row))
<1>1. HasText(Restored(plan, seen, row))
  <2>1. plan.version \in Texts \cup {None}
    BY DEF ItemRow
  <2> QED BY <2>1, RestoredIs DEF HasText
<1>2. HasText(TakenDown(plan, seen, row))
  <2> DEFINE down == IF seen.state = "published" THEN Retired(seen, row, "draft") ELSE row
  <2>1. Retired(seen, row, "draft") \in DocRow
    BY DocWrites
  <2>2. HasText(Retired(seen, row, "draft")) /\ Retired(seen, row, "draft").state = "draft"
    BY WritesHaveText
  <2>3. down \in DocRow /\ down.text \in Texts
    BY <2>1, <2>2 DEF HasText
  <2>4. TakenDown(plan, seen, row) =
          IF plan.prior = "in_review" /\ down.state = "draft"
          THEN [down EXCEPT !.state = "in_review"]
          ELSE down
    BY DEF TakenDown
  <2> HIDE DEF down
  <2>5. [down EXCEPT !.state = "in_review"].text = down.text
    BY <2>3 DEF DocRow
  <2> QED BY <2>3, <2>4, <2>5 DEF HasText
<1> QED BY <1>1, <1>2

LEMMA UndoCaptured ==
  ASSUME LifeInv, Captured, NEW j \in Jobs, Undo(j)
  PROVE  Captured'
<1> DEFINE d == job[j].at
           seen == job[j].seen
           plan == job[j].list[d]
           mark == [item[d] EXCEPT !.status = "rolled_back"]
<1>1. /\ d \in Docs /\ item[d] \in ItemRow /\ doc[d] \in DocRow /\ seen \in DocRow
      /\ plan \in ItemRow
  BY PlanStands
<1>2. /\ d # None /\ job[j].phase = "walk" /\ job[j].mode = "rollback"
      /\ TypeInv
  BY DEF Undo, LifeInv
<1>3. mark \in ItemRow
  BY <1>1, Marks
<1>4. doc[d].state # "gone" =>
        /\ Restored(plan, seen, doc[d]) \in DocRow /\ HasText(Restored(plan, seen, doc[d]))
        /\ TakenDown(plan, seen, doc[d]) \in DocRow /\ HasText(TakenDown(plan, seen, doc[d]))
  <2>1. doc[d].state # "gone" => doc[d].text \in Texts
    BY <1>1 DEF Captured, HasText
  <2> HIDE DEF d, seen, plan
  <2> QED BY <1>1, <2>1, UndoWrites, UndoHasText
<1>5. \E row \in DocRow \cup {None} : Stage(j, mark, row) /\ (row # None => HasText(row))
  BY <1>4 DEF Undo
<1>6. PICK row \in DocRow \cup {None} : Stage(j, mark, row) /\ (row # None => HasText(row))
  BY <1>5
<1> HIDE DEF mark
<1> QED BY <1>2, <1>3, <1>6, StageCaptured

LEMMA CommitCaptured ==
  ASSUME LifeInv, Captured, NEW j \in Jobs, Commit(j)
  PROVE  Captured'
<1>1. /\ job[j].phase = "walk" /\ In(job[j].list) = {}
      /\ job[j].mode \in {"publish", "rollback"} /\ WalkTrue(job[j])
      /\ job[j].items \in Rows(ItemRow) /\ job[j].docs \in Rows(DocRow)
      /\ \A d \in Docs : item'[d] = IF d \in In(job[j].items) THEN job[j].items[d] ELSE item[d]
      /\ \A d \in Docs : doc'[d] = IF d \in In(job[j].docs) THEN job[j].docs[d] ELSE doc[d]
  BY DEF Commit, LifeInv, TypeInv, TypeOK, JobRow, Captured
<1>2. \A d \in Docs : HasText(doc'[d])
  BY <1>1 DEF WalkTrue, Captured
<1>3. ASSUME job[j].mode = "publish"
      PROVE  \A d \in Docs : Remembers(item'[d], doc'[d])
  <2>1. In(job[j].docs) \subseteq In(job[j].items)
    BY <1>1, <1>3 DEF LifeInv, Life, WalksOut
  <2>2. ASSUME NEW d \in Docs, item'[d].status = "applied"
        PROVE  Remembers(item'[d], doc'[d])
    <3>1. CASE d \in In(job[j].items)
      BY <1>1, <1>3, <2>2, <3>1 DEF WalkTrue
    <3>2. CASE d \notin In(job[j].items)
      BY <1>1, <2>1, <3>2 DEF Captured
    <3> QED BY <3>1, <3>2
  <2> QED BY <2>2 DEF Remembers
<1>4. ASSUME job[j].mode = "rollback"
      PROVE  \A d \in Docs : Remembers(item'[d], doc'[d])
  <2>1. /\ In(job[j].items) = ItemsIn("applied")
        /\ \A d \in In(job[j].items) : job[j].items[d].status = "rolled_back"
    BY <1>1, <1>4 DEF LifeInv, Life, WalksBack
  <2>2. \A d \in Docs : item'[d].status # "applied"
    BY <1>1, <2>1 DEF ItemsIn
  <2> QED BY <2>2 DEF Remembers
<1>5. \A d \in Docs : Remembers(item'[d], doc'[d])
  BY <1>1, <1>3, <1>4
<1>6. /\ job' = [job EXCEPT ![j] = job'[j]] /\ job'[j] \in JobRow /\ WellHeld(job'[j])
      /\ job'[j].phase = "announce"
  BY PastRow DEF Commit, LifeInv
<1>7. \A i \in Jobs \ {j} : job'[i] = job[i]
  BY <1>6, OneJob DEF LifeInv
<1>8. \A i \in Jobs : job'[i].phase # "walk"
  <2>1. \A i \in Jobs : job[i].phase = "walk" => i = j
    BY <1>1 DEF LifeInv, Life, OneWorker, AtWork
  <2> QED BY <1>6, <1>7, <2>1
<1>9. \A i \in Jobs : WalkTrue(job[i])' /\ ReadsTrue(job[i])'
  BY <1>8 DEF WalkTrue, ReadsTrue
<1> QED BY <1>2, <1>5, <1>9 DEF Captured, HasText, Remembers

LEMMA WorkerCaptured ==
  ASSUME LifeInv, Captured, NEW j \in Jobs, Step(j) \/ Raise(j) \/ Lapse(j) \/ Rescue(j)
  PROVE  Captured'
<1>1. TypeInv
  BY DEF LifeInv
<1>2. ASSUME UNCHANGED <<item, doc>>, job' = [job EXCEPT ![j] = job'[j]],
             job'[j] \in JobRow, WellHeld(job'[j]), job'[j].phase # "walk"
      PROVE  Captured'
  <2>1. WalkTrue(job'[j]) /\ ReadsTrue(job'[j])
    BY <1>2 DEF WalkTrue, ReadsTrue
  <2> QED BY <1>1, <1>2, <2>1, CapturedRow
<1>3. ASSUME UNCHANGED <<item, doc>>,
             NEW phase \in {"fail", "abandon", "announce", "done", "killed", "discarded"},
             job' = [job EXCEPT ![j] = Past(j, phase)]
      PROVE  Captured'
  <2>1. /\ job' = [job EXCEPT ![j] = job'[j]] /\ job'[j] \in JobRow /\ WellHeld(job'[j])
        /\ job'[j].phase # "walk"
    BY <1>1, <1>3, PastRow
  <2> QED BY <1>2, <1>3, <2>1
<1>4. CASE Begin(j)
  <2>1. job'[j].phase # "walk"
    BY <1>1, <1>4, BeginRow
  <2> QED BY <1>1, <1>2, <1>4, <2>1, BeginRow DEF Begin
<1>5. CASE List(j)
  <2>1. /\ job' = [job EXCEPT ![j] = job'[j]] /\ job'[j] \in JobRow /\ WellHeld(job'[j])
        /\ job'[j].items = NoRows /\ job'[j].docs = NoRows
    BY <1>1, <1>5, ListRow
  <2>2. \A d \in In(job'[j].list) : job'[j].list[d] = item[d]
    <3>1. job \in [Jobs -> JobRow]
      BY <1>1 DEF TypeInv, TypeOK
    <3>2. job'[j].list = [d \in Docs |->
            IF item[d].status = Wanted(job[j].mode) THEN item[d] ELSE None]
      BY <1>5, <3>1 DEF List, JobRow
    <3> QED BY <3>2 DEF In
  <2>3. In(NoRows) = {}
    BY BlankRows
  <2>4. WalkTrue(job'[j]) /\ ReadsTrue(job'[j])
    BY <2>1, <2>2, <2>3 DEF WalkTrue, ReadsTrue
  <2> QED BY <1>1, <1>5, <2>1, <2>4, CapturedRow DEF List
<1>6. CASE \E d \in Docs : Fetch(j, d)
  <2>1. PICK d \in Docs : Fetch(j, d)
    BY <1>6
  <2>2. /\ job' = [job EXCEPT ![j] = job'[j]] /\ job'[j] \in JobRow /\ WellHeld(job'[j])
        /\ job'[j].phase = "walk" /\ job'[j].mode = job[j].mode
        /\ job'[j].list = job[j].list
        /\ job'[j].items = job[j].items /\ job'[j].docs = job[j].docs
    BY <1>1, <2>1, FetchRow
  <2>3. WalkTrue(job'[j]) /\ ReadsTrue(job'[j])
    BY <2>1, <2>2 DEF Captured, WalkTrue, ReadsTrue, Fetch
  <2> QED BY <1>1, <2>1, <2>2, <2>3, CapturedRow DEF Fetch
<1>7. CASE Apply(j) \/ Undo(j)
  BY <1>1, <1>7, ApplyCaptured, UndoCaptured
<1>8. CASE Commit(j)
  BY <1>8, CommitCaptured
<1>9. CASE Abort(j) \/ RecordFailure(j) \/ Announce(j) \/ AbandonRun(j) \/ Raise(j)
  BY <1>3, <1>9 DEF Abort, RecordFailure, Announce, AbandonRun, Raise
<1>11. CASE Lapse(j)
  BY <1>3, <1>11, Lost
<1>10. CASE Rescue(j)
  BY <1>1, <1>2, <1>10, PhaseRow DEF Rescue
<1> QED BY <1>4, <1>5, <1>6, <1>7, <1>8, <1>9, <1>10, <1>11 DEF Step

LEMMA NextCaptured ==
  ASSUME Slips = {}
  PROVE  CaptureInv /\ [Next]_vars => CaptureInv'
<1> SUFFICES ASSUME LifeInv, Captured, [Next]_vars PROVE Captured'
  BY NextLife DEF CaptureInv
<1>1. TypeInv
  BY DEF LifeInv
<1>2. CASE UNCHANGED vars
  BY <1>2, CapturedStays DEF vars
<1>3. CASE CronClaim \/ \E a \in Admins : PublishNow(a) \/ RollBack(a)
  BY <1>1, <1>3, ClaimCaptured
<1>4. CASE \E a \in Admins :
             \/ Schedule(a) \/ Unschedule(a) \/ Reopen(a) \/ Archive(a) \/ Delete(a) \/ Abandon(a)
             \/ Refresh(a)
  BY <1>4, ClickCaptured
<1>5. CASE \E j \in Jobs : Step(j) \/ Raise(j) \/ Lapse(j) \/ Rescue(j)
  BY <1>5, WorkerCaptured
<1>6. CASE \E d \in Docs : EditDoc(d)
  BY <1>1, <1>6, EditDocCaptured
<1>7. CASE FinishEdit
  BY <1>7, FinishEditCaptured
<1>8. CASE \E op \in {"add", "cancel", "set_action"}, d \in Docs, action \in {"publish", "unpublish"} :
             BeginEdit(op, d, action)
  BY <1>8, CapturedStays DEF BeginEdit
<1> QED BY <1>2, <1>3, <1>4, <1>5, <1>6, <1>7, <1>8 DEF Next

\* Only Undo walks an item of a rollback.
LEMMA OnlyUndoes ==
  ASSUME TypeInv, Next, NEW j \in Jobs, NEW d \in Docs, Undoes(j, d)
  PROVE  Undo(j) /\ d = job[j].at
<1>1. In(NoRows) = {}
  BY BlankRows
<1>2. job'[j].items # job[j].items /\ job[j].phase = "walk" /\ job[j].mode = "rollback"
  BY DEF Undoes, In
<1>3. ~UNCHANGED job
  BY <1>2
<1>4. ASSUME job'[j].items = NoRows PROVE FALSE
  BY <1>1, <1>4 DEF Undoes
<1>5. ~(CronClaim \/ \E a \in Admins : PublishNow(a) \/ RollBack(a))
  <2>1. ASSUME NEW mode \in {"publish", "rollback"}, Enqueue(mode) PROVE FALSE
    BY <1>2, <2>1, Enqueued
  <2> QED BY <2>1 DEF CronClaim, PublishNow, RollBack, Claim
<1>6. \E i \in Jobs : Step(i) \/ Raise(i) \/ Lapse(i) \/ Rescue(i)
  <2>1. ~\E e \in Docs : EditDoc(e)
    BY <1>3 DEF EditDoc, Update, SaveWorkingCopy, PublishChanges, PublishDoc, UnpublishDoc,
                ArchiveDoc, MoveDoc, TrashDoc, Write
  <2>2. /\ ~FinishEdit
        /\ ~\E op \in {"add", "cancel", "set_action"}, e \in Docs, action \in {"publish", "unpublish"} :
              BeginEdit(op, e, action)
    BY <1>3 DEF FinishEdit, BeginEdit
  <2>3. ~\E a \in Admins :
           \/ Schedule(a) \/ Unschedule(a) \/ Reopen(a) \/ Archive(a) \/ Delete(a) \/ Abandon(a)
           \/ Refresh(a)
    BY <1>3 DEF Schedule, Unschedule, Reopen, Archive, Delete, Abandon, Refresh, Click
  <2> QED BY <1>5, <2>1, <2>2, <2>3 DEF Next
<1>7. PICK i \in Jobs : Step(i) \/ Raise(i) \/ Lapse(i) \/ Rescue(i)
  BY <1>6
<1>8. ASSUME NEW phase \in {"fail", "abandon", "announce", "done", "killed", "discarded"},
             job' = [job EXCEPT ![i] = Past(i, phase)]
      PROVE  FALSE
  <2>1. CASE i = j
    <3>1. job'[j].phase = phase /\ WellHeld(job'[j])
      BY <1>8, <2>1, PastRow
    <3> QED BY <1>4, <3>1 DEF WellHeld
  <2>2. CASE i # j
    BY <1>2, <1>8, <2>2 DEF TypeInv, TypeOK
  <2> QED BY <2>1, <2>2
<1>9. ~(\/ Commit(i) \/ Abort(i) \/ RecordFailure(i) \/ Announce(i) \/ AbandonRun(i) \/ Raise(i)
        \/ Lapse(i))
  BY <1>8, Lost DEF Commit, Abort, RecordFailure, Announce, AbandonRun, Raise
<1>10. ~(Begin(i) \/ List(i) \/ Rescue(i))
  <2>1. i # j => ~(Begin(i) \/ List(i) \/ Rescue(i))
    BY <1>2 DEF Begin, List, Rescue, TypeInv, TypeOK
  <2>2. ~(Begin(j) \/ List(j) \/ Rescue(j))
    BY <1>2 DEF Begin, List, Rescue
  <2> QED BY <2>1, <2>2
<1>11. ~\E e \in Docs : Fetch(i, e)
  <2>1. ASSUME NEW e \in Docs, Fetch(i, e) PROVE FALSE
    <3>1. CASE i = j
      BY <1>2, <2>1, <3>1, FetchRow
    <3>2. CASE i # j
      BY <1>2, <2>1, <3>2 DEF Fetch, TypeInv, TypeOK
    <3> QED BY <3>1, <3>2
  <2> QED BY <2>1
<1>12. Apply(i) \/ Undo(i)
  BY <1>7, <1>9, <1>10, <1>11 DEF Step
<1>13. Walked(i)
  BY <1>12, ApplyWalks, UndoWalks
<1>14. i = j
  <2>1. \A k \in Jobs \ {i} : job'[k] = job[k]
    BY <1>13, OneJob DEF Walked
  <2> QED BY <1>2, <2>1
<1>15. Undo(j)
  BY <1>2, <1>12, <1>14 DEF Apply
<1>16. d = job[j].at
  <2>1. PICK mark : job'[j].items = [job[j].items EXCEPT ![job[j].at] = mark]
    BY <1>13, <1>14 DEF Walked
  <2>2. job[j].items \in Rows(ItemRow)
    BY DEF TypeInv, TypeOK, JobRow
  <2> QED BY <2>1, <2>2 DEF Undoes, In, Rows
<1> QED BY <1>15, <1>16

\* What Stage makes of a row, read as Leaves reads it.
LEMMA StageLeaves ==
  ASSUME TypeInv, NEW j \in Jobs, NEW d \in Docs, d = job[j].at, job[j].phase = "walk",
         NEW mark \in ItemRow, NEW row \in DocRow, doc[d] \in DocRow,
         NEW put \in DocRow \cup {None}, put = (IF row = doc[d] THEN None ELSE row),
         Stage(j, mark, put)
  PROVE  Leaves(j, d).state = row.state /\ Leaves(j, d).text = row.text
<1>1. job[j].at # None
  BY ReleasesAssumption
<1>2. job'[j].docs = [job[j].docs EXCEPT ![job[j].at] =
                        IF put = None THEN None ELSE [put EXCEPT !.moved = FALSE]]
  BY <1>1, StagedRow
<1>3. job'[j].docs = [job[j].docs EXCEPT ![d] = IF put = None THEN None ELSE [put EXCEPT !.moved = FALSE]]
  BY <1>2
<1>4. job[j].docs \in Rows(DocRow)
  BY DEF TypeInv, TypeOK, JobRow
<1>5. job'[j].docs[d] = IF put = None THEN None ELSE [put EXCEPT !.moved = FALSE]
  BY <1>3, <1>4 DEF Rows
<1>6. CASE put = None
  <2>1. row = doc[d]
    BY <1>6, NoneIsNoRow
  <2>2. d \notin In(job'[j].docs)
    BY <1>5, <1>6 DEF In
  <2> QED BY <2>1, <2>2 DEF Leaves
<1>7. CASE put # None
  <2>1. put = row /\ [row EXCEPT !.moved = FALSE] \in DocRow
    BY <1>7, DocWrites
  <2>2. [row EXCEPT !.moved = FALSE] # None
    BY <2>1, NoneIsNoRow
  <2>3. /\ [row EXCEPT !.moved = FALSE].state = row.state
        /\ [row EXCEPT !.moved = FALSE].text = row.text
    BY DEF DocRow
  <2>4. Leaves(j, d) = [row EXCEPT !.moved = FALSE]
    BY <1>5, <1>7, <2>1, <2>2 DEF Leaves, In
  <2> QED BY <2>3, <2>4
<1> QED BY <1>6, <1>7

\* Where nothing slips a rollback puts every document back where the launch
\* found it, live or not, and under a clean item with the text readers saw,
\* through every edit made since (Releases.undo_item/3, restore_state/4).
THEOREM RollbackRestores ==
  ASSUME Slips = {}
  PROVE  Spec => RollbackPutsBack
<1>1. CaptureInv /\ [Next]_vars =>
        [\A j \in Jobs, d \in Docs :
           Undoes(j, d) /\ job[j].seen.state # "gone" =>
             LET left == Leaves(j, d) IN
             /\ item[d].prior = "published" => left.state = "published"
             /\ job[j].seen = doc[d] =>
                  IF item[d].prior = "published"
                  THEN item[d].clean => left.text = item[d].live
                  ELSE /\ left.state # "published"
                       /\ item[d].prior = "in_review" => left.state # "draft"]_vars
  <2> SUFFICES ASSUME LifeInv, Captured, Next, NEW j \in Jobs, NEW d \in Docs,
                      Undoes(j, d), job[j].seen.state # "gone"
               PROVE  /\ item[d].prior = "published" => Leaves(j, d).state = "published"
                      /\ job[j].seen = doc[d] =>
                           IF item[d].prior = "published"
                           THEN item[d].clean => Leaves(j, d).text = item[d].live
                           ELSE /\ Leaves(j, d).state # "published"
                                /\ item[d].prior = "in_review" => Leaves(j, d).state # "draft"
    BY DEF vars, CaptureInv
  <2> DEFINE seen == job[j].seen
             mark == [item[d] EXCEPT !.status = "rolled_back"]
  <2>1. TypeInv /\ Undo(j) /\ d = job[j].at
    BY OnlyUndoes DEF LifeInv
  <2>2. /\ item[d] \in ItemRow /\ doc[d] \in DocRow /\ seen \in DocRow
        /\ job[j].list[d] = item[d] /\ item[d].status = "applied"
    BY <2>1, PlanStands
  <2>3. mark \in ItemRow
    BY <2>2, Marks
  <2>4. job[j].phase = "walk"
    BY <2>1 DEF Undo
  <2>5. \/ /\ item[d].prior = "published" /\ doc[d].state # "gone"
           /\ Stage(j, mark, IF Restored(item[d], seen, doc[d]) = doc[d] THEN None
                             ELSE Restored(item[d], seen, doc[d]))
        \/ /\ item[d].prior # "published" /\ doc[d].state # "gone"
           /\ Stage(j, mark, IF TakenDown(item[d], seen, doc[d]) = doc[d] THEN None
                             ELSE TakenDown(item[d], seen, doc[d]))
    BY <2>1, <2>2 DEF Undo
  <2> HIDE DEF seen, mark
  <2>6. ASSUME NEW row \in DocRow, Stage(j, mark, IF row = doc[d] THEN None ELSE row)
        PROVE  Leaves(j, d).state = row.state /\ Leaves(j, d).text = row.text
    <3> DEFINE put == IF row = doc[d] THEN None ELSE row
    <3>1. put \in DocRow \cup {None} /\ put = (IF row = doc[d] THEN None ELSE row)
      OBVIOUS
    <3>2. Stage(j, mark, put)
      BY <2>6
    <3> HIDE DEF put
    <3> QED BY <2>1, <2>2, <2>3, <2>4, <3>1, <3>2, StageLeaves
  <2>7. CASE item[d].prior = "published"
    <3> DEFINE row == Restored(item[d], seen, doc[d])
    <3>1. row \in DocRow
      BY <2>2, UndoWrites
    <3>2. /\ row.state = "published"
          /\ row.text = IF item[d].version # None /\ Drifted(item[d], seen)
                        THEN item[d].version ELSE doc[d].text
      BY <2>2, RestoredIs
    <3>3. Leaves(j, d).state = row.state /\ Leaves(j, d).text = row.text
      <4> HIDE DEF row
      <4> QED BY <2>5, <2>6, <2>7, <3>1 DEF row
    <3>4. ASSUME seen = doc[d], item[d].clean
          PROVE  row.text = item[d].live
      <4>1. /\ item[d].version = item[d].live /\ item[d].live \in Texts
            /\ item[d].action = "unpublish" /\ ~doc[d].moved => doc[d].text = item[d].live
        BY <2>2, <3>4 DEF Captured, Remembers
      <4>2. item[d].version # None
        BY <4>1, ReleasesAssumption
      <4>3. ~Drifted(item[d], seen) => item[d].action = "unpublish" /\ ~doc[d].moved
        BY <2>2, <2>7, <3>4 DEF Drifted, ItemRow
      <4> HIDE DEF row
      <4> QED BY <3>2, <4>1, <4>2, <4>3
    <3> HIDE DEF row
    <3> QED BY <2>7, <3>2, <3>3, <3>4 DEF seen
  <2>8. CASE item[d].prior # "published"
    <3> DEFINE row == TakenDown(item[d], seen, doc[d])
    <3>1. row \in DocRow
      BY <2>2, UndoWrites
    <3>2. seen = doc[d] =>
            /\ row.state # "published"
            /\ item[d].prior = "in_review" => row.state # "draft"
      BY <2>2, TakenDownIs
    <3>3. Leaves(j, d).state = row.state
      <4> HIDE DEF row
      <4> QED BY <2>5, <2>6, <2>8, <3>1 DEF row
    <3> HIDE DEF row
    <3> QED BY <2>8, <3>2, <3>3 DEF seen
  <2> QED BY <2>7, <2>8
<1>2. Init => CaptureInv
  BY InitLife, InitCaptured DEF CaptureInv
<1> QED BY <1>1, <1>2, NextCaptured, PTL DEF Spec, RollbackPutsBack
=============================================================================
