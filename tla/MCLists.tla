------------------------------- MODULE MCLists -------------------------------
(***************************************************************************)
(* The instances, for TLC, of the editor's lists: the reference picker, a  *)
(* paste of list items, and the list whose rows are dragged.               *)
(***************************************************************************)
EXTENDS Integers, Sequences, FiniteSets

CONSTANTS MaxRecords, MaxItems, MaxActs
ASSUME PickerAssumption == MaxRecords \in Nat /\ MaxItems \in Nat /\ MaxActs \in Nat
VARIABLES ids, picker, mailbox, patches, dom, hook, focus, raced, acts
pickerVars == <<ids, picker, mailbox, patches, dom, hook, focus, raced, acts>>
Picker == INSTANCE ReferencePicker

CONSTANTS MaxParagraphs, MaxLevel, MaxNumber
ASSUME PasteAssumption == MaxParagraphs \in Nat /\ MaxLevel \in Nat /\ MaxNumber \in Nat
VARIABLES pasted, at, stack, lists, place, run, runs
listVars == <<pasted, at, stack, lists, place, run, runs>>
Lists == INSTANCE ListPaste

CONSTANTS MaxRows, MaxListActs
VARIABLES kind, held, rowsShown, count, orderUp, orderDown, wish, orderRaced, behind, orderActs
orderVars == <<kind, held, rowsShown, count, orderUp, orderDown, wish, orderRaced, behind, orderActs>>
Order == INSTANCE ListOrder
           WITH shown <- rowsShown, up <- orderUp, down <- orderDown,
                raced <- orderRaced, acts <- orderActs
=============================================================================
