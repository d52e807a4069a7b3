------------------------------ MODULE TagPicker ------------------------------
(***************************************************************************)
(* The editor's tag picker: a filter box the page owns (LiveView never     *)
(* patches it), a query the server owns, a debounce between them, and      *)
(* Enter, which makes a tag of what is typed and has the server empty      *)
(* both.  Pushes and answers travel in order.  A text is the trimmed one:  *)
(* both sides trim before they use it.                                     *)
(***************************************************************************)
EXTENDS Naturals, Sequences, SequencesExt

CONSTANTS Names,       \* what an editor may type
          MaxTyping    \* bound: keystrokes, Enters and changes of `conflict`

Nothing == ""

VARIABLES
  box,        \* the filter box
  timer,      \* the debounce is running
  asks,       \* pushes on their way to the server
  answers,    \* events on their way back
  query,      \* the server's tag_query
  listed,     \* the tags the server's picker was loaded for: a query
  tags,       \* the organisation's tags
  ticked,     \* the entry's ticks
  conflict,   \* somebody else saved the entry
  crossed,    \* the last query was pushed while a create was unanswered
  dropped,    \* ... or an Enter cancelled a query and its create was refused,
              \* and the server has handled no query since
  typing

tagVars == <<box, timer, asks, answers, query, listed, tags, ticked, conflict,
             crossed, dropped, typing>>

TagInit ==
  /\ box = Nothing /\ timer = FALSE /\ asks = <<>> /\ answers = <<>>
  /\ query = Nothing /\ listed = Nothing
  /\ tags \in SUBSET Names /\ ticked = {}
  /\ conflict = FALSE /\ crossed = FALSE /\ dropped = FALSE /\ typing = 0

Type ==
  /\ typing < MaxTyping /\ typing' = typing + 1
  /\ box' \in (Names \cup {Nothing}) \ {box}
  /\ timer' = TRUE
  /\ UNCHANGED <<asks, answers, query, listed, tags, ticked, conflict, crossed, dropped>>

CreateUnanswered == \/ \E k \in DOMAIN asks : asks[k].op = "create_tag"
                    \/ "tag-filter-reset" \in ToSet(answers)

(* 300 ms after the last keystroke.                                        *)
Debounced ==
  /\ timer
  /\ timer' = FALSE
  /\ asks' = Append(asks, [op |-> "filter_tags", q |-> box, cut |-> FALSE])
  /\ crossed' = CreateUnanswered
  /\ UNCHANGED <<box, answers, query, listed, tags, ticked, conflict, dropped, typing>>

(* Enter sends what is typed, not what the last query said.                *)
Enter ==
  /\ typing < MaxTyping /\ typing' = typing + 1
  /\ box # Nothing
  /\ timer' = FALSE
  /\ asks' = Append(asks, [op |-> "create_tag", q |-> box, cut |-> timer])
  /\ UNCHANGED <<box, answers, query, listed, tags, ticked, conflict, crossed, dropped>>

FilterTags ==
  /\ asks # <<>> /\ Head(asks).op = "filter_tags"
  /\ query' = Head(asks).q /\ listed' = Head(asks).q
  /\ asks' = Tail(asks)
  /\ dropped' = FALSE
  /\ UNCHANGED <<box, timer, answers, tags, ticked, conflict, crossed, typing>>

(* A name the organisation has is ticked, another is made first.           *)
CreateTag ==
  /\ asks # <<>> /\ Head(asks).op = "create_tag" /\ ~conflict
  /\ LET name == Head(asks).q
     IN tags' = tags \cup {name} /\ ticked' = ticked \cup {name}
  /\ query' = Nothing /\ listed' = Nothing
  /\ answers' = Append(answers, "tag-filter-reset")
  /\ asks' = Tail(asks)
  /\ UNCHANGED <<box, timer, conflict, crossed, dropped, typing>>

(* An entry in conflict takes no tag, and neither does a role that may not *)
(* make one or a name that cannot be saved.                                *)
RefuseTag ==
  /\ asks # <<>> /\ Head(asks).op = "create_tag"
  /\ dropped' = (dropped \/ Head(asks).cut)
  /\ asks' = Tail(asks)
  /\ UNCHANGED <<box, timer, answers, query, listed, tags, ticked, conflict, crossed, typing>>

Conflict ==
  /\ ~conflict /\ conflict' = TRUE
  /\ UNCHANGED <<box, timer, asks, answers, query, listed, tags, ticked, crossed, dropped, typing>>

(* Mutant: the box keeps its words, and its timer runs on.                 *)
Reset_BoxKept ==
  /\ answers # <<>> /\ answers' = Tail(answers)
  /\ UNCHANGED <<box, timer, asks, query, listed, tags, ticked, conflict, crossed, dropped, typing>>

(* tag-filter-reset.                                                       *)
Reset ==
  /\ answers # <<>>
  /\ timer' = FALSE /\ box' = Nothing
  /\ answers' = Tail(answers)
  /\ UNCHANGED <<asks, query, listed, tags, ticked, conflict, crossed, dropped, typing>>

TagNext == Type \/ Debounced \/ Enter \/ FilterTags \/ CreateTag \/ RefuseTag
           \/ Conflict \/ Reset

TagSpec == TagInit /\ [][TagNext]_tagVars

-----------------------------------------------------------------------------
TagTypeOK ==
  /\ box \in Names \cup {Nothing} /\ query \in Names \cup {Nothing}
  /\ timer \in BOOLEAN /\ conflict \in BOOLEAN
  /\ ticked \subseteq tags /\ tags \subseteq Names

(* Whenever nothing is pending, the tags listed are those the box asks     *)
(* for.  Two orders break it, and only these: a query pushed while a       *)
(* create is on its way is handled after the create, and then the reset    *)
(* empties the box; and an Enter whose create is refused has cancelled the *)
(* query for what is still in the box.                                     *)
ListedIsWhatTheBoxSays ==
  (~timer /\ asks = <<>> /\ answers = <<>>)
     => listed = box \/ crossed \/ dropped

=============================================================================
