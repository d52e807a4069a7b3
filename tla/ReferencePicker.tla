--------------------------- MODULE ReferencePicker ---------------------------
(***************************************************************************)
(* A list-of-references field of the content editor: the hook on the page  *)
(* (assets/js/reference_picker.js), the picker component it pushes to      *)
(* (KilnCMSWeb.ContentEditor.ReferencePicker) and the editor that holds    *)
(* the value (KilnCMSWeb.ContentEditorLive).  The component asks the       *)
(* editor by message, behind whatever the page has pushed by then, and     *)
(* every change comes back as a patch.                                     *)
(***************************************************************************)
EXTENDS Naturals, Sequences, SequencesExt, Subsequences

CONSTANTS
    MaxRecords,   \* the records that can be connected are 1..MaxRecords
    MaxItems,     \* the field's max_items
    MaxActs       \* how often somebody does something

VARIABLES
    ids,      \* the field's value, in the editor's form
    picker,   \* the component: the ids it was given, its query and results
    mailbox,  \* the LiveView's: the page's events and the component's requests
    patches,  \* the renders on the way to the page
    dom,      \* what the page shows
    hook,     \* the hook's active option and pending note
    focus,    \* document.activeElement
    raced,    \* a pick or a removal was made before the last answer was in, a
              \* search before a pick's (a focus opens one), or a note given up
              \* before its own
    acts

pickerVars == <<ids, picker, mailbox, patches, dom, hook, focus, raced, acts>>

Records == 1..MaxRecords
All == [1..MaxRecords -> Records]
Input == <<"input", 0>>
Body == <<"body", 0>>
RemoveButton(r) == <<"remove", r>>
Event(kind, arg) == [kind |-> kind, arg |-> arg]
NoNote == [kind |-> "none", count |-> 0, index |-> 0]
Note(kind, count, index) == [kind |-> kind, count |-> count, index |-> index]
Found(query, without) == Ascending(query \ Range(without))

\* assign_capacity
Searchable(p) == Len(p.ids) < MaxItems

\* render: the options are listed while the search is open.
Shown(p) ==
    [rows |-> p.ids, search |-> Searchable(p), open |-> p.open,
     options |-> IF Searchable(p) /\ p.open THEN p.results ELSE <<>>]

PickerInit ==
    /\ ids = <<>>
    /\ picker = [ids |-> ids, query |-> Records, open |-> FALSE, results |-> <<>>]
    /\ mailbox = <<>> /\ patches = <<>>
    /\ dom = Shown(picker)
    /\ hook = [active |-> 0, note |-> NoNote]
    /\ focus = Body /\ raced = FALSE /\ acts = 0

Answered == mailbox = <<>> /\ patches = <<>>
Acts == acts < MaxActs /\ acts' = acts + 1

(***************************************************************************)
(* The page.                                                               *)
(***************************************************************************)

\* phx-focus
Opened(box) == Append(box, Event("open", {}))

FocusInput ==
    /\ Acts /\ dom.search /\ focus # Input
    /\ focus' = Input /\ mailbox' = Opened(mailbox)
    /\ raced' = (raced \/ hook.note # NoNote)
    /\ UNCHANGED <<ids, picker, patches, dom, hook>>

Type(query) ==
    /\ Acts /\ dom.search /\ focus = Input
    /\ hook' = [hook EXCEPT !.active = 0]
    /\ mailbox' = Append(mailbox, Event("search", query))
    /\ raced' = (raced \/ hook.note # NoNote)
    /\ UNCHANGED <<ids, picker, patches, dom, focus>>

\* move: the highlight goes round, either way.
Arrow ==
    /\ focus = Input /\ dom.open /\ dom.options # <<>>
    /\ \/ hook' = [hook EXCEPT !.active = IF @ < Len(dom.options) THEN @ + 1 ELSE 1]
       \/ hook' = [hook EXCEPT !.active = IF @ > 1 THEN @ - 1 ELSE Len(dom.options)]
    /\ UNCHANGED <<ids, picker, mailbox, patches, dom, focus, raced, acts>>

\* noteFocus, before LiveView handles the click.
Noted(note, event) ==
    /\ Acts
    /\ hook' = [active |-> IF note.kind = "pick" THEN 0 ELSE hook.active, note |-> note]
    /\ mailbox' = Append(mailbox, event)
    /\ raced' = (raced \/ ~Answered)
    /\ UNCHANGED <<ids, picker, patches, dom>>

\* A click on an option, which takes no focus, or Enter on the active one.
Pick(i) ==
    /\ Noted(Note("pick", Len(dom.rows), 0), Event("pick", {dom.options[i]}))
    /\ \/ focus' = Body
       \/ focus = Input /\ i = hook.active /\ UNCHANGED focus

ClickRemove(i) ==
    /\ Noted(Note("remove", Len(dom.rows), i), Event("remove", {dom.rows[i]}))
    /\ focus' = RemoveButton(dom.rows[i])

\* Escape, which drops the highlight, or Tab or a click away.
Close ==
    /\ dom.open /\ Acts
    /\ mailbox' = Append(mailbox, Event("close", {}))
    /\ hook' = [hook EXCEPT !.active = 0] \/ UNCHANGED hook
    /\ UNCHANGED <<ids, picker, patches, dom, focus, raced>>

\* The note is given up after three seconds.
GiveUp ==
    /\ hook.note # NoNote
    /\ hook' = [hook EXCEPT !.note = NoNote]
    /\ raced' = (raced \/ ~Answered)
    /\ UNCHANGED <<ids, picker, mailbox, patches, dom, focus, acts>>

Exists(f, d) ==
    \/ f = Body
    \/ f = Input /\ d.search
    \/ \E r \in Range(d.rows) : f = RemoveButton(r)

\* Mutant: focus stays where the patch left it.
Restored_Never(f, d) == f

\* restoreFocus, once the rows have changed.
Restored(f, d) ==
    IF hook.note.kind = "none" \/ Len(d.rows) = hook.note.count THEN f
    ELSE LET place == IF hook.note.index < Len(d.rows) THEN hook.note.index ELSE Len(d.rows)
         IN  CASE hook.note.kind = "pick" /\ d.search -> Input
               [] hook.note.kind = "pick" /\ d.rows # <<>> -> RemoveButton(Last(d.rows))
               [] hook.note.kind = "remove" /\ d.rows # <<>> -> RemoveButton(d.rows[place])
               [] hook.note.kind = "remove" /\ d.search -> Input
               [] OTHER -> f

\* A patch lands, then updated().
Patch ==
    LET d == Head(patches)
        kept == IF Exists(focus, d) THEN focus ELSE Body
    IN  /\ patches # <<>> /\ patches' = Tail(patches)
        /\ dom' = d
        /\ hook' = [active |-> IF hook.active > Len(d.options) THEN Len(d.options) ELSE hook.active,
                    note |-> IF Len(d.rows) = hook.note.count THEN hook.note ELSE NoNote]
        /\ focus' = Restored(kept, d)
        /\ mailbox' = IF focus' = Input /\ kept # Input THEN Opened(mailbox) ELSE mailbox
        /\ UNCHANGED <<ids, picker, raced, acts>>

(***************************************************************************)
(* The component and the editor.                                           *)
(***************************************************************************)

\* handle_event
Pushed(event, p) ==
    CASE event.kind = "search" ->
           [p EXCEPT !.query = event.arg, !.open = TRUE, !.results = Found(event.arg, p.ids)]
      [] event.kind = "open" /\ ~p.open ->
           [p EXCEPT !.open = TRUE, !.results = Found(p.query, p.ids)]
      [] event.kind = "close" -> [p EXCEPT !.open = FALSE]
      [] event.kind = "pick" /\ Searchable(p) ->
           [p EXCEPT !.results = Kept(@, Records \ event.arg)]
      [] OTHER -> p

\* notify: a pick that was offered, while there is room, and any removal.
Asked(event, p) ==
    CASE event.kind = "pick" /\ Searchable(p) /\ event.arg \subseteq Range(p.results) ->
           <<Event("add", event.arg)>>
      [] event.kind = "remove" -> <<Event("take", event.arg)>>
      [] OTHER -> <<>>

\* edit_reference_list
Edited(event) ==
    CASE event.kind = "add" -> ids \o Ascending(event.arg \ Range(ids))
      [] event.kind = "take" -> Kept(ids, Records \ event.arg)
      [] OTHER -> ids

\* A message is handled, and what changed on the page is sent to it.
Handle ==
    LET event == Head(mailbox)
    IN  /\ mailbox # <<>>
        /\ ids' = Edited(event)
        /\ picker' = [Pushed(event, picker) EXCEPT !.ids = ids']
        /\ mailbox' = Tail(mailbox) \o Asked(event, picker)
        /\ patches' = IF Shown(picker') = Shown(picker) THEN patches
                      ELSE Append(patches, Shown(picker'))
        /\ UNCHANGED <<dom, hook, focus, raced, acts>>

PickerNext ==
    \/ FocusInput \/ Arrow \/ Close \/ GiveUp \/ Patch \/ Handle
    \/ \E query \in {Records} \union {{r} : r \in Records} : Type(query)
    \/ \E i \in 1..Len(dom.options) : Pick(i)
    \/ \E i \in 1..Len(dom.rows) : ClickRemove(i)

PickerSpec == PickerInit /\ [][PickerNext]_pickerVars

(***************************************************************************)
(* Properties.                                                             *)
(***************************************************************************)

PickerTypeOK ==
    /\ ids \in Seq(Records)
    /\ picker \in [ids : Seq(Records), query : SUBSET Records, open : BOOLEAN, results : Seq(Records)]
    /\ mailbox \in Seq([kind : {"open", "close", "search", "pick", "remove", "add", "take"},
                        arg : SUBSET Records])
    /\ patches \in Seq([rows : Seq(Records), search : BOOLEAN, open : BOOLEAN, options : Seq(Records)])
    /\ hook \in [active : 0..MaxRecords,
                 note : [kind : {"none", "pick", "remove"}, count : Nat, index : Nat]]
    /\ focus \in {Input, Body} \union {RemoveButton(r) : r \in Records}
    /\ raced \in BOOLEAN /\ acts \in 0..MaxActs

\* A record is connected once.  One who waits for each answer never overfills
\* the list, and is never left on <body> by a pick or a removal.  (Two picks in
\* one round trip are both checked against the room before the first.)
PickerHolds ==
    /\ \A i, j \in 1..Len(ids) : ids[i] = ids[j] => i = j
    /\ raced \/ Len(ids) <= MaxItems
    /\ Answered => dom = Shown(picker) /\ picker.ids = ids
    /\ Answered /\ hook.note = NoNote /\ ~raced /\ ids # <<>> => focus # Body
=============================================================================
