------------------------------ MODULE ListOrder ------------------------------
(***************************************************************************)
(* A list the editor drags: the rows of a gallery block, the items of a    *)
(* list field and the children of a columns block.  The page reports a     *)
(* whole order, taken from the DOM the drag left; the server rebuilds its  *)
(* own list from that report.  Pushes and answers travel in order, but     *)
(* nothing stops the editor from dragging, adding or removing again before *)
(* the answer to an earlier push has redrawn the rows, and LiveView keeps  *)
(* the list unpatched while a drag of it is unanswered.                    *)
(*                                                                         *)
(* A list is a sequence of columns; a gallery and a list field have one.   *)
(***************************************************************************)
EXTENDS Naturals, FiniteSets, Sequences, SequencesExt, Subsequences

CONSTANTS MaxRows,       \* rows a list may come to hold (a field's max_items)
          MaxListActs    \* bound: things the editor does

VARIABLES
  kind,    \* "gallery", "phrases" (a list field) or "columns"
  held,    \* the server's list: columns of items
  shown,   \* the page's rows: columns of [item, at], `at` the rendered position
  count,   \* the add box's data-count
  up,      \* pushes on their way to the server
  down,    \* answers on their way back, each with the list as it was rendered
  wish,    \* the list as the editor left it
  raced,   \* a push was made while another was unanswered
  behind,  \* a drag was reported while an added row had not been drawn
  acts

listVars == <<kind, held, shown, count, up, down, wish, raced, behind, acts>>

Rows(columns) == [c \in DOMAIN columns |-> [i \in DOMAIN columns[c] |->
                    [item |-> columns[c][i], at |-> i]]]
Items(rows) == [c \in DOMAIN rows |-> [i \in DOMAIN rows[c] |-> rows[c][i].item]]
Places(columns) == UNION {{c} \X DOMAIN columns[c] : c \in DOMAIN columns}
In(columns) == UNION {ToSet(columns[c]) : c \in DOMAIN columns}

(* How often each item is in a list.                                       *)
Contents(columns) == [item \in In(columns) |->
  Cardinality({p \in Places(columns) : columns[p[1]][p[2]] = item})]

ListInit ==
  /\ \/ kind = "gallery" /\ held \in {<< <<1, 2, 3>> >>, << <<1, 2, 1>> >>}
     \/ kind = "phrases" /\ held = << <<1, 2, 3>> >>
     \/ kind = "columns" /\ held = << <<1, 2>>, <<3>> >>
  /\ shown = Rows(held) /\ wish = held
  /\ count = Len(held[1])
  /\ up = <<>> /\ down = <<>>
  /\ raced = FALSE /\ behind = FALSE /\ acts = 0

-----------------------------------------------------------------------------
(* The page.                                                               *)

Unanswered(op) == \/ \E k \in DOMAIN up : up[k].op = op
                  \/ \E k \in DOMAIN down : down[k].op = op

Push(message) ==
  /\ acts < MaxListActs /\ acts' = acts + 1
  /\ up' = Append(up, message)
  /\ raced' = (raced \/ up # <<>> \/ down # <<>>)
  /\ UNCHANGED <<kind, held, down>>

Without(row, columns) == [c \in DOMAIN columns |->
  IF c = row[1] THEN RemoveAt(columns[c], row[2]) ELSE columns[c]]

(* A drop: the row leaves one place for another, of the same column or of  *)
(* a sibling one, and the page reports what every row now says: its        *)
(* rendered position, or its id in a columns block.                        *)
Report(rows) ==
  IF kind = "columns" THEN Items(rows)
  ELSE [c \in DOMAIN rows |-> [i \in DOMAIN rows[c] |-> rows[c][i].at]]

Drag ==
  \E from \in Places(shown) : \E c \in DOMAIN shown :
    LET row  == shown[from[1]][from[2]]
        rest == Without(from, shown)
    IN \E i \in 1..(Len(rest[c]) + 1) :
      LET dropped == [rest EXCEPT ![c] = InsertAt(rest[c], i, row)]
      IN /\ dropped # shown
         /\ shown' = dropped
         /\ Push([op |-> "drag", order |-> Report(dropped)])
         /\ wish' = IF kind = "columns"
                    THEN [d \in DOMAIN dropped |->
                            Kept(Items(dropped)[d], In(wish))]
                    ELSE Items(dropped)
         /\ behind' = (behind \/ Unanswered("add"))
         /\ UNCHANGED count

(* A gallery takes the same image twice, a list field refuses a repeat and *)
(* an item past max_items, a columns block makes a child with a new id.    *)
Added(columns, c, item) ==
  IF kind = "phrases" /\ (item \in ToSet(columns[c]) \/ Len(columns[c]) >= MaxRows)
  THEN columns
  ELSE [columns EXCEPT ![c] = Append(@, item)]

AddRow ==
  \E c \in DOMAIN shown : \E item \in 1..4 :
    /\ kind = "columns" => item = 3 + acts + 1
    /\ kind # "columns" => item \in {2, 4}
    /\ Push([op |-> "add", column |-> c, item |-> item])
    /\ wish' = Added(wish, c, item)
    /\ UNCHANGED <<shown, count, behind>>

(* A row's own remove button carries its rendered position, or its id.     *)
RemoveRow ==
  \E p \in Places(shown) :
    LET row == shown[p[1]][p[2]]
    IN /\ Push([op |-> "remove",
                which |-> IF kind = "columns" THEN row.item ELSE row.at])
       /\ wish' = IF kind = "columns"
                  THEN [c \in DOMAIN wish |->
                          Kept(wish[c], In(wish) \ {row.item})]
                  ELSE Without(p, Items(shown))
       /\ UNCHANGED <<shown, count, behind>>

(* Backspace in the empty add box takes the last item, by data-count.      *)
Backspace ==
  /\ kind = "phrases" /\ count > 0 /\ Len(held[1]) < MaxRows
  /\ Push([op |-> "backspace", which |-> count])
  /\ wish' = IF wish[1] = <<>> THEN wish ELSE <<Front(wish[1])>>
  /\ UNCHANGED <<shown, count, behind>>

(* An answer redraws the rows unless a later drag still holds them, and    *)
(* the add box unless a later push of its own does.                        *)
Answer ==
  /\ down # <<>>
  /\ LET a == Head(down)
         later(op) == \/ \E k \in DOMAIN up : up[k].op = op
                      \/ \E k \in 2..Len(down) : down[k].op = op
     IN /\ shown' = IF later("drag") THEN shown ELSE Rows(a.list)
        /\ count' = IF later("add") \/ later("backspace") THEN count ELSE Len(a.list[1])
        /\ down' = Tail(down)
        /\ IF up = <<>> /\ Len(down) = 1
           THEN raced' = FALSE /\ behind' = FALSE /\ wish' = a.list
           ELSE UNCHANGED <<raced, behind, wish>>
  /\ UNCHANGED <<kind, held, up, acts>>

-----------------------------------------------------------------------------
(* The server.                                                             *)

(* Mutant: what the order does not name is dropped.                        *)
GalleryOrder_NamedOnly(images, order) ==
  LET known == Kept(order, DOMAIN images)
  IN [k \in DOMAIN known |-> images[known[k]]]

(* gallery_reorder: positions it knows, once each, then what the report    *)
(* left out.                                                               *)
GalleryOrder(images, order) ==
  LET firsts == {k \in DOMAIN order : /\ order[k] \in DOMAIN images
                                      /\ \A j \in 1..(k - 1) : order[j] # order[k]}
      indices == PickedAt(order, firsts)
      unmentioned == Ascending(DOMAIN images \ ToSet(indices))
      all == indices \o unmentioned
  IN [k \in DOMAIN all |-> images[all[k]]]

(* list_item_reorder: a permutation of the positions, or nothing.          *)
PhraseOrder(terms, order) ==
  IF ToSet(order) = DOMAIN terms /\ Len(order) = Len(terms)
  THEN [k \in DOMAIN order |-> terms[order[k]]]
  ELSE terms

(* Mutant: the columns as they were.                                       *)
RebuildColumns_Never(current, cols) == current

(* rebuild_columns: every column from the ids reported for it.             *)
RebuildColumns(current, cols) ==
  [c \in DOMAIN cols |->
     Kept(cols[c], In(current))]

DeletedAt(items, i) == IF i \in DOMAIN items THEN RemoveAt(items, i) ELSE items

Reordered(list, order) ==
  CASE kind = "gallery" -> <<GalleryOrder(list[1], order[1])>>
    [] kind = "phrases" -> <<PhraseOrder(list[1], order[1])>>
    [] OTHER            -> RebuildColumns(list, order)

Handled(list, m) ==
  CASE m.op = "drag" -> Reordered(list, m.order)
    [] m.op = "add"  -> Added(list, m.column, m.item)
    [] m.op \in {"remove", "backspace"} ->
         IF kind = "columns"
         THEN [c \in DOMAIN list |-> Kept(list[c], In(list) \ {m.which})]
         ELSE <<DeletedAt(list[1], m.which)>>

HandlePush ==
  /\ up # <<>>
  /\ held' = Handled(held, Head(up))
  /\ down' = Append(down, [op |-> Head(up).op, list |-> held'])
  /\ up' = Tail(up)
  /\ UNCHANGED <<kind, shown, count, wish, raced, behind, acts>>

ListNext == Drag \/ AddRow \/ RemoveRow \/ Backspace \/ HandlePush \/ Answer
ListSpec == ListInit /\ [][ListNext]_listVars

-----------------------------------------------------------------------------
ListTypeOK ==
  /\ kind \in {"gallery", "phrases", "columns"}
  /\ Len(held) = Len(shown) /\ Len(wish) = Len(held)
  /\ count \in Nat
  /\ raced \in BOOLEAN /\ behind \in BOOLEAN

(* What the server holds once the last push is answered is what the editor *)
(* left on the page: a drop lands where it was dropped, a remove takes the *)
(* row whose button was pressed.  Positions are only good for one round    *)
(* trip, so a gallery and a list field promise it for edits made one at a  *)
(* time; a columns block, which reports ids, also for edits made faster    *)
(* than that.  (A drag leaves the children it shows: one that was added    *)
(* and not drawn yet is not among them, see NothingSlipsAway.)             *)
AsTheEditorLeftIt ==
  (up = <<>> /\ down # <<>> /\ Len(down) = 1)
    => \/ held = wish
       \/ kind # "columns" /\ raced

(* No reported order, however old, makes a row disappear or appear twice;  *)
(* but a columns block drops a child its page had not drawn yet.           *)
NothingSlipsAway ==
  [][ (up # <<>> /\ up' = Tail(up) /\ Head(up).op = "drag")
        => \/ Contents(held') = Contents(held)
           \/ kind = "columns" /\ behind ]_listVars

=============================================================================
