--------------------------- MODULE ReleaseContract ---------------------------
(***************************************************************************)
(* What a content release promises (KilnCMS.CMS.ContentRelease): the       *)
(* states it may move through, and the only two moments at which it may    *)
(* touch the site.  A launch puts the changes of the release in force all  *)
(* together, a rollback withdraws them all together, and nothing else a    *)
(* release does changes anything readers see.                              *)
(***************************************************************************)
CONSTANT Docs        \* the documents a release may hold

VARIABLES
  state,      \* the release's state
  launched,   \* it went live once: published_at is set
  inForce     \* the documents whose change by this release stands

contractVars == <<state, launched, inForce>>

Init ==
  /\ state = "open"
  /\ launched = FALSE
  /\ inForce = {}

\* One edge of the state machine that leaves the site alone.
Move(from, to) ==
  /\ state \in from
  /\ state' = to
  /\ UNCHANGED <<launched, inForce>>

Compose ==
  \/ Move({"open", "scheduled"}, "scheduled")
  \/ Move({"scheduled"}, "open")
  \/ Move({"failed"}, "open")

Claim ==
  \/ Move({"open", "scheduled"}, "publishing")
  \/ Move({"published"}, "rolling_back")

\* A launch or a rollback that came to nothing.
GiveUp ==
  \/ Move({"publishing"}, "failed")
  \/ Move({"rolling_back"}, "published")

Launch ==
  /\ state = "publishing"
  /\ state' = "published"
  /\ launched' = TRUE
  /\ inForce' \in SUBSET Docs

Withdraw ==
  /\ state = "rolling_back"
  /\ state' = "rolled_back"
  /\ inForce' = {}
  /\ UNCHANGED launched

Close == Move({"open", "scheduled", "failed", "published", "rolled_back"}, "archived")

\* A release that shipped is the only record of what to undo.
Delete ==
  /\ ~launched
  /\ Move({"open", "scheduled", "failed", "archived"}, "deleted")

Next == Compose \/ Claim \/ GiveUp \/ Launch \/ Withdraw \/ Close \/ Delete

Spec == Init /\ [][Next]_contractVars
=============================================================================
