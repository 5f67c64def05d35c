---------------------------------- MODULE App ----------------------------------
(***************************************************************************)
(* The App a part at a time: its dialogs and preferences, adding a blog,   *)
(* and reading a post.  The parts share no state here; those not chosen    *)
(* stand still.                                                            *)
(***************************************************************************)
EXTENDS Appearance, AddFeed, Reading

VARIABLE part

vars == <<appearanceVars, addVars, readingVars, part>>

IdleAppearance ==
  AppearanceInit /\ saved = Default /\ feedSel = (CHOOSE b \in Blogs : TRUE)

IdleAddFeed == AddFeedInit /\ followed = {}

IdleReading ==
  ReadingInit /\ post = (CHOOSE v \in Versions : TRUE) /\ stored = <<>> /\ showImages = TRUE

Init ==
  \/ part = "appearance" /\ AppearanceInit /\ IdleAddFeed /\ IdleReading
  \/ part = "adding" /\ IdleAppearance /\ AddFeedInit /\ IdleReading
  \/ part = "reading" /\ IdleAppearance /\ IdleAddFeed /\ ReadingInit

Next ==
  /\ UNCHANGED part
  /\ \/ part = "appearance" /\ AppearanceNext /\ UNCHANGED <<addVars, readingVars>>
     \/ part = "adding" /\ AddFeedNext /\ UNCHANGED <<appearanceVars, readingVars>>
     \/ part = "reading" /\ ReadingNext /\ UNCHANGED <<appearanceVars, addVars>>

Spec == Init /\ [][Next]_vars

TypeOK == AppearanceTypeOK /\ AddFeedTypeOK /\ ReadingTypeOK
=============================================================================
