------------------------------ MODULE Accordion ------------------------------
(***************************************************************************)
(* A <details> of the editor under LiveView's patches.  Whether it is open *)
(* belongs to the editor, but the server may force it: a patch keeps the   *)
(* editor's toggle unless the server-rendered value has changed since the  *)
(* last one, which the page remembers in data-server-open.  The browser    *)
(* tells the page of a toggle in a task of its own, after the fact, and    *)
(* also of a <details> that arrives open.                                  *)
(***************************************************************************)
EXTENDS Naturals

CONSTANT MaxToggles    \* bound: the editor's toggles and the server's changes

VARIABLES
  rendered,   \* the server-rendered `open`
  open,       \* the page's
  seen,       \* data-server-open: "unset", or the last server value seen
  told,       \* toggle events still to come
  wanted,     \* what the editor, or a later change of the server's, asked for
  early,      \* since then a patch met a data-server-open that was not what
              \* the server had last rendered
  toggles

accordionVars == <<rendered, open, seen, told, wanted, early, toggles>>

Say(b) == IF b THEN "open" ELSE "closed"

(* A section that arrives open announces it.                               *)
AccordionInit ==
  /\ rendered \in BOOLEAN /\ open = rendered
  /\ seen = "unset" /\ told = IF open THEN 1 ELSE 0
  /\ wanted = open /\ early = FALSE /\ toggles = 0

Set(value) ==
  /\ open' = value
  /\ told' = IF value = open \/ told > 0 THEN told ELSE 1   \* one task for many

Toggle ==
  /\ toggles < MaxToggles /\ toggles' = toggles + 1
  /\ Set(~open) /\ wanted' = ~open /\ early' = FALSE
  /\ UNCHANGED <<rendered, seen>>

(* The document's listener: the first toggle seeds what the server said.   *)
ToggleEvent ==
  /\ told > 0 /\ told' = told - 1
  /\ seen' = IF seen = "unset" THEN Say(~open) ELSE seen
  /\ UNCHANGED <<rendered, open, wanted, early, toggles>>

(* Mutant: a patch renders the section as the server has it.               *)
Patched_Plainly(value) ==
  /\ rendered' = value
  /\ Set(value)
  /\ seen' = Say(value)
  /\ wanted' = IF value # rendered THEN value ELSE wanted
  /\ early' = IF value # rendered THEN seen = Say(value) ELSE early \/ seen # Say(value)

(* onBeforeElUpdated, for a patch that renders the section with `value`.   *)
Patched(value) ==
  /\ rendered' = value
  /\ Set(IF seen = Say(value) THEN open ELSE value)
  /\ seen' = Say(value)
  /\ wanted' = IF value # rendered THEN value ELSE wanted
  /\ early' = IF value # rendered THEN seen = Say(value) ELSE early \/ seen # Say(value)

Patch == Patched(rendered) /\ UNCHANGED toggles

ForceSection == /\ toggles < MaxToggles /\ toggles' = toggles + 1
                /\ Patched(~rendered)

AccordionNext == Toggle \/ ToggleEvent \/ Patch \/ ForceSection
AccordionSpec == AccordionInit /\ [][AccordionNext]_accordionVars

-----------------------------------------------------------------------------
AccordionTypeOK ==
  /\ rendered \in BOOLEAN /\ open \in BOOLEAN /\ wanted \in BOOLEAN
  /\ seen \in {"unset", "open", "closed"} /\ told \in 0..1

(* A section stays as the editor left it, or as the server forced it       *)
(* since: a patch that renders what it rendered before moves nothing.  The *)
(* first patch is the exception when the page was not rightly told what    *)
(* the server had rendered: before the toggle event, or after one for a    *)
(* section that arrived open, which seeds the opposite.                    *)
TheToggleIsKept == open = wanted \/ early
=============================================================================
