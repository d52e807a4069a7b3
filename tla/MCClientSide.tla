---------------------------- MODULE MCClientSide ----------------------------
(***************************************************************************)
(* The code that runs in browsers, for TLC: the SDK, the bridge, and the   *)
(* hooks of the admin's pages.  Its modules share no state, so a behaviour *)
(* is of one part, and the others stay in an initial state of their own.   *)
(***************************************************************************)
EXTENDS SyncMirror, ClientCalls, Collab, LineWatch, BridgeStream, OfflinePage, Accordion,
        MCWidgets, MCLists

VARIABLE part    \* the part this behaviour is of

-----------------------------------------------------------------------------
Init ==
    /\ part \in {"sync", "line", "bridge", "calls", "room", "push", "offline", "paste", "srcset",
                 "picker", "dialog", "lists", "order", "tag", "flash", "fold", "cal", "advice"}
    /\ SyncInit /\ (part = "sync" \/ public = [d \in Docs |-> Hidden])
    /\ LineInit
    /\ BridgeInit
    /\ CallsInit /\ (part = "calls" \/ hasKey)
    /\ CollabInit
    /\ Push!PushInit /\ (part = "push" \/ granted)
    /\ OfflineInit
    /\ Paste!PasteInit /\ (part = "paste" \/ selection = Paste!Range(0, 1))
    /\ IF part = "srcset" THEN Srcset!SrcsetInit
       ELSE source = 0 /\ options = 0 /\ requests = {}
    /\ Picker!PickerInit
    /\ IF part = "dialog" THEN Dialog!DialogsInit
       ELSE /\ parent = 0 /\ closable = {} /\ connected = {} /\ traps = 0 /\ dialogFocus = 0
            /\ pageNumber = 0 /\ pushes = <<>> /\ strayed = FALSE /\ opened = {}
            /\ presses = 0 /\ moves = 0
    /\ IF part = "lists" THEN Lists!ListInit
       ELSE /\ pasted = <<>> /\ at = 1 /\ stack = <<>> /\ lists = <<>> /\ place = <<>>
            /\ run = 0 /\ runs = <<>>
    /\ Order!ListInit /\ (part = "order" \/ kind = "columns")
    /\ Tag!TagInit /\ (part = "tag" \/ tags = {})
    /\ Flash!FlashInit
    /\ AccordionInit /\ (part = "fold" \/ rendered)
    /\ Cal!CalendarInit /\ (part = "cal" \/ due = Today)
    /\ IF part = "advice" THEN Advice!JumpInit
       ELSE /\ body = <<>> /\ findings = {} /\ target = 0 /\ marks = {} /\ clearTimer = FALSE
            /\ pulsing = {} /\ pulseEnds = <<>> /\ jumps = 0

\* Only the part p moves.
Moves(p) ==
    /\ part = p /\ UNCHANGED part
    /\ p # "sync" => UNCHANGED syncVars
    /\ p # "line" => UNCHANGED lineVars
    /\ p # "bridge" => UNCHANGED bridgeVars
    /\ p # "calls" => UNCHANGED callVars
    /\ p # "room" => UNCHANGED collabVars
    /\ p # "push" => UNCHANGED pushVars
    /\ p # "offline" => UNCHANGED offlineVars
    /\ p # "paste" => UNCHANGED pasteVars
    /\ p # "srcset" => UNCHANGED srcsetVars
    /\ p # "picker" => UNCHANGED pickerVars
    /\ p # "dialog" => UNCHANGED dialogVars
    /\ p # "lists" => UNCHANGED listVars
    /\ p # "order" => UNCHANGED orderVars
    /\ p # "tag" => UNCHANGED tagVars
    /\ p # "flash" => UNCHANGED flashVars
    /\ p # "fold" => UNCHANGED accordionVars
    /\ p # "cal" => UNCHANGED calVars
    /\ p # "advice" => UNCHANGED adviceVars

Next ==
    \/ Moves("sync") /\ SyncNext
    \/ Moves("line") /\ LineNext
    \/ Moves("bridge") /\ BridgeNext
    \/ Moves("calls") /\ CallsNext
    \/ Moves("room") /\ CollabNext
    \/ Moves("push") /\ Push!PushNext
    \/ Moves("offline") /\ OfflineNext
    \/ Moves("paste") /\ Paste!PasteNext
    \/ Moves("srcset") /\ Srcset!SrcsetNext
    \/ Moves("picker") /\ Picker!PickerNext
    \/ Moves("dialog") /\ Dialog!DialogsNext
    \/ Moves("lists") /\ Lists!ListNext
    \/ Moves("order") /\ Order!ListNext
    \/ Moves("tag") /\ Tag!TagNext
    \/ Moves("flash") /\ Flash!FlashNext
    \/ Moves("fold") /\ AccordionNext
    \/ Moves("cal") /\ Cal!CalendarNext
    \/ Moves("advice") /\ Advice!JumpNext

vars == <<part, syncVars, lineVars, bridgeVars, callVars, collabVars,
          pushVars, offlineVars, pasteVars, srcsetVars,
          pickerVars, dialogVars, listVars, orderVars, tagVars,
          flashVars, accordionVars, calVars, adviceVars>>

Spec == Init /\ [][Next]_vars

-----------------------------------------------------------------------------
\* Every part's state is of the shape its module gives it.
ClientTypeOK ==
    /\ SyncTypeOK /\ LineTypeOK /\ BridgeTypeOK /\ CallsTypeOK
    /\ part = "room" => CollabTypeOK
    /\ part = "push" => Push!PushTypeOK
    /\ part = "offline" => OfflineTypeOK
    /\ part = "paste" => Paste!PasteTypeOK
    /\ part = "srcset" => Srcset!SrcsetTypeOK
    /\ part = "picker" => Picker!PickerTypeOK
    /\ part = "dialog" => Dialog!DialogsTypeOK
    /\ part = "lists" => Lists!ListTypeOK
    /\ part = "order" => Order!ListTypeOK
    /\ part = "tag" => Tag!TagTypeOK
    /\ part = "flash" => Flash!FlashTypeOK
    /\ part = "fold" => AccordionTypeOK
    /\ part = "cal" => Cal!CalendarTypeOK
    /\ part = "advice" => Advice!JumpTypeOK

\* A caller of the SDK is told what happened to its call, whatever was lost,
\* cut off, retried or aborted on the way.
CallersAreTold == part = "calls" => ToldWhatHappened

\* Two pages on one document seed the stored text into its room once, but for
\* the seeds a lost line, a dead room or a refusal left outside it, and a word
\* typed in either stays in an open page, on its way, in the room or in the
\* database (perhaps in the checkpoint alone), but for what a page that closed
\* without a line, or a server that died, took with it.
RoomKeepsTheText == part = "room" => SeededOnce /\ KeepsWords

\* What an editor does to an entry through a widget is what the entry holds: a
\* paste lands once, the tags listed are those asked for, a moved chip keeps its
\* day, whatever the server answers meanwhile.
WidgetsKeepTheEntry ==
    /\ part = "paste" => Paste!LandsOnce
    /\ part = "tag" => Tag!ListedIsWhatTheBoxSays
    /\ part = "cal" => Cal!MovesAddUp /\ Cal!StaleMeansRequery

\* What a page shows or promises is so: a notice of the trouble the line is in, a
\* flash of a message the server holds, "on" of a subscription that works, a
\* section as it was toggled; and focus is where it was left.
PagesSayWhatIsSo ==
    /\ NoticesAreCurrent
    /\ part = "push" => Push!SignedWithItsKey /\ Push!OnMeansThisKey
    /\ part = "dialog" => Dialog!FocusComesBack
    /\ part = "flash" => Flash!ShownUntilItsTime /\ Flash!NobodyIsCutShort
    /\ part = "fold" => TheToggleIsKept

\* What is worked out of a text, a size or a list comes to what was meant by it:
\* a dragged row keeps its place and a picker its limit and its focus, however many
\* answers are on their way; pasted paragraphs are the lists they were in, a mark
\* is of the fault, a descriptor of the width.
WorkedOutAsMeant ==
    /\ part = "picker" => Picker!PickerHolds
    /\ part = "order" => Order!AsTheEditorLeftIt
    /\ part = "lists" => /\ Lists!WordKeepsItsShape
                         /\ Lists!RunsAreTheLists
                         /\ Lists!NoParagraphMoves
    /\ part = "srcset" => Srcset!SrcsetTellsTheWidth
    /\ part = "advice" => Advice!LeadsToTheFault /\ Advice!OneFindingShown

\* No step takes what nobody gave up: a word that is not selected, a dialog under
\* another, or a line that answers.
NothingIsTaken ==
    /\ LiveLineLeftAlone
    /\ Paste!OnlyTheSelectedGoes
    /\ Dialog!EscapeClosesTheTop

\* No reported order, however old, loses a row of a list or doubles it.
NoRowSlipsAway == Order!NothingSlipsAway

\* A consumer that keeps polling ends with the site as it is; a page in front gets
\* its line back and takes back every word about it; every call of the SDK ends; a
\* bridge with a good token keeps its stream; a device in use ends with the newest
\* worker and offline page; a calendar shows the day its entry is due; a word typed
\* in a page that stays reaches the room.
PartsSettle ==
    /\ SyncFairness => MirrorCatchesUp
    /\ LineFairness => LineHeals
    /\ CallsFairness => CallsEnd
    /\ BridgeFairness => StreamResumes
    /\ OfflineFairness => FallbackCatchesUp
    /\ CollabFairness => WordsReachTheRoom
    /\ Cal!CalendarFairness => Cal!GridCatchesUp
=============================================================================
