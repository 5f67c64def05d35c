-------------------------- MODULE AppearanceProofs --------------------------
(***************************************************************************)
(* Appearance for any blogs, presets, layouts, palettes and keys: a dialog *)
(* acts on its own subject, changes what the reader asked to change and    *)
(* nothing else, and hands it to the worker.                               *)
(*                                                                         *)
(* The worker's answers move the reader from one dialog to another and     *)
(* leave the fields of the first as they are, so the invariant says of     *)
(* each mode what those fields hold while the mode lasts.                  *)
(***************************************************************************)
EXTENDS Appearance, TLAPS

-----------------------------------------------------------------------------
(* The invariant.                                                          *)

Drafts == [target : Blogs \cup {Global}, draft : Palettes]

\* The dialogs in which the target of an earlier one would matter.
Dialogs == {"ThemePicker", "LayoutPicker", "BlogMenu", "ThemeEditor"}

\* They act on what the reader asked for.
DialogsAreAsked == mode \in Dialogs => asked = Or(menuTarget, Global)

\* Nobody is left to take an answer when the App has ended.
NoLateAnswers == mode = Closed => answers = {}

AInv ==
  /\ AppearanceTypeOK /\ editor \in Drafts \cup {NoEditor}
  /\ MenusHaveTheirSubject /\ DialogsAreAsked /\ NoLateAnswers
  /\ BlogsHaveTheirOwnPalette /\ EveryChangeIsSaved

-----------------------------------------------------------------------------
(* Preferences.                                                            *)

OwnPalettes(p) == \A b \in Blogs : p.blog[b].theme = "custom" => p.blog[b].custom # None

\* From p to q the appearance of nobody else changes.
Only(p, q, who) ==
  /\ \A b \in Blogs : q.blog[b] # p.blog[b] => b = who
  /\ [q EXCEPT !.blog = p.blog, !.onboarded = p.onboarded] # p => who = Global

LEMMA Names ==
  /\ None \notin Themes /\ None \notin Palettes /\ None \notin Range(Layouts)
  /\ "custom" \notin Range(PRESETS)
  /\ Len(PRESETS) \in Nat /\ Len(PRESETS) >= 1 /\ Len(Layouts) \in Nat /\ Len(Layouts) >= 1
  /\ \A i \in 1..Len(PRESETS) : PRESETS[i] \in Range(PRESETS)
  /\ \A i \in 1..Len(Layouts) : Layouts[i] \in Range(Layouts)
<1>1. PRESETS \in Seq(STRING) /\ PRESETS # <<>> /\ Layouts \in Seq(STRING)
  BY AppearanceAssumption
<1>2. Len(PRESETS) \in Nat /\ Len(PRESETS) >= 1 /\ Len(Layouts) \in Nat
      /\ DOMAIN PRESETS = 1..Len(PRESETS) /\ DOMAIN Layouts = 1..Len(Layouts)
  BY <1>1
<1>3. Len(Layouts) >= 1
  <2>1. PICK i \in DOMAIN Layouts : Layouts[i] = "TwoPane"
    BY AppearanceAssumption DEF Range
  <2>2. QED
    BY <1>2, <2>1
<1>4. /\ \A i \in 1..Len(PRESETS) : PRESETS[i] \in Range(PRESETS)
      /\ \A i \in 1..Len(Layouts) : Layouts[i] \in Range(Layouts)
  BY <1>2 DEF Range
<1>5. QED
  BY <1>2, <1>3, <1>4, AppearanceAssumption DEF Themes, Palettes

LEMMA Placed ==
  ASSUME NEW s \in Seq(STRING), NEW x \in Range(s)
  PROVE  Position(s, x) \in 1..Len(s)
<1>1. \E i \in 1..Len(s) : s[i] = x
  BY DEF Range
<1>2. QED
  BY <1>1 DEF Position

LEMMA Looks ==
  ASSUME NEW p \in Prefs, NEW target \in Blogs \cup {None}
  PROVE  /\ ThemeFor(p, target) \in Themes /\ LayoutFor(p, target) \in Range(Layouts)
         /\ ColorsFor(p, target) \in Palettes
<1>1. p.theme \in Themes /\ p.layout \in Range(Layouts) /\ p.custom \in Palettes
      /\ p.blog \in [Blogs -> Overrides]
  BY DEF Prefs
<1>2. target # None => p.blog[target] \in Overrides
  BY <1>1
<1>3. target # None => /\ p.blog[target].theme \in Themes \cup {None}
                       /\ p.blog[target].layout \in Range(Layouts) \cup {None}
  BY <1>2 DEF Overrides
<1>4. ThemeFor(p, target) \in Themes /\ LayoutFor(p, target) \in Range(Layouts)
  BY <1>1, <1>3 DEF ThemeFor, LayoutFor, Or
<1>5. QED
  BY <1>1, <1>4 DEF ColorsFor, Themes, Palettes

\* A global setting changes.
LEMMA GlobalChange ==
  ASSUME NEW p \in Prefs, OwnPalettes(p), NEW q \in Prefs, q.blog = p.blog
  PROVE  OwnPalettes(q) /\ Only(p, q, Global)
BY DEF OwnPalettes, Only

\* One blog's override changes.
LEMMA BlogChange ==
  ASSUME NEW p \in Prefs, OwnPalettes(p), NEW b \in Blogs, NEW ov \in Overrides,
         ov.theme = "custom" => ov.custom # None
  PROVE  /\ [p EXCEPT !.blog[b] = ov] \in Prefs
         /\ OwnPalettes([p EXCEPT !.blog[b] = ov])
         /\ Only(p, [p EXCEPT !.blog[b] = ov], b)
<1> DEFINE q == [p EXCEPT !.blog[b] = ov]
           f == [p.blog EXCEPT ![b] = ov]
<1>1. p.blog \in [Blogs -> Overrides] /\ f \in [Blogs -> Overrides]
  BY DEF Prefs
<1>2. q = [p EXCEPT !.blog = f]
  BY DEF Prefs
<1>3. f[b] = ov /\ \A x \in Blogs : x # b => f[x] = p.blog[x]
  BY <1>1
<1> HIDE DEF f
<1>4. [p EXCEPT !.blog = f] \in Prefs /\ [p EXCEPT !.blog = f].blog = f
      /\ [[p EXCEPT !.blog = f] EXCEPT !.blog = p.blog, !.onboarded = p.onboarded] = p
  BY <1>1 DEF Prefs
<1>5. QED
  BY <1>2, <1>3, <1>4 DEF OwnPalettes, Only

LEMMA Onboarded ==
  ASSUME NEW p \in Prefs
  PROVE  /\ [p EXCEPT !.onboarded = TRUE] \in Prefs
         /\ OwnPalettes(p) => OwnPalettes([p EXCEPT !.onboarded = TRUE])
         /\ \A q \in Prefs : \A who :
              Only(q, p, who) => Only(q, [p EXCEPT !.onboarded = TRUE], who)
<1> DEFINE o == [p EXCEPT !.onboarded = TRUE]
<1>1. o \in Prefs /\ o.blog = p.blog
  BY DEF Prefs
<1>2. \A q \in Prefs : [o EXCEPT !.blog = q.blog, !.onboarded = q.onboarded]
                       = [p EXCEPT !.blog = q.blog, !.onboarded = q.onboarded]
  BY DEF Prefs
<1>3. QED
  BY <1>1, <1>2 DEF OwnPalettes, Only

LEMMA SamePrefs ==
  ASSUME NEW p \in Prefs
  PROVE  \A who : Only(p, p, who)
<1>1. [p EXCEPT !.blog = p.blog, !.onboarded = p.onboarded] = p
  BY DEF Prefs
<1>2. QED
  BY <1>1 DEF Only

LEMMA Migrated ==
  ASSUME NEW p \in Prefs
  PROVE  MigrateLegacyBlogCustoms(p) \in Prefs /\ OwnPalettes(MigrateLegacyBlogCustoms(p))
<1> DEFINE g(b) == IF p.blog[b].theme = "custom" /\ p.blog[b].custom = None
                   THEN [p.blog[b] EXCEPT !.theme = None] ELSE p.blog[b]
           f == [b \in Blogs |-> g(b)]
<1>1. \A b \in Blogs : p.blog[b] \in Overrides
  BY DEF Prefs
<1>2. \A b \in Blogs : g(b) \in Overrides /\ (g(b).theme = "custom" => g(b).custom # None)
  <2> SUFFICES ASSUME NEW b \in Blogs
               PROVE  g(b) \in Overrides /\ (g(b).theme = "custom" => g(b).custom # None)
    OBVIOUS
  <2>1. CASE p.blog[b].theme = "custom" /\ p.blog[b].custom = None
    <3>1. g(b) = [p.blog[b] EXCEPT !.theme = None]
      BY <2>1
    <3>2. [p.blog[b] EXCEPT !.theme = None] \in Overrides
          /\ [p.blog[b] EXCEPT !.theme = None].theme = None
      BY <1>1 DEF Overrides
    <3>3. None # "custom"
      BY Names DEF Themes
    <3>4. QED
      BY <3>1, <3>2, <3>3
  <2>2. CASE ~(p.blog[b].theme = "custom" /\ p.blog[b].custom = None)
    <3>1. g(b) = p.blog[b]
      BY <2>2
    <3>2. QED
      BY <1>1, <2>2, <3>1
  <2>3. QED
    BY <2>1, <2>2
<1>3. MigrateLegacyBlogCustoms(p) = [p EXCEPT !.blog = f]
  BY DEF MigrateLegacyBlogCustoms
<1> HIDE DEF g
<1>4. f \in [Blogs -> Overrides] /\ \A b \in Blogs : f[b] = g(b)
  BY <1>2
<1> HIDE DEF f
<1>5. [p EXCEPT !.blog = f] \in Prefs /\ [p EXCEPT !.blog = f].blog = f
  BY <1>4 DEF Prefs
<1>6. QED
  BY <1>2, <1>3, <1>4, <1>5 DEF OwnPalettes

\* A commit gives its target a theme of its own and the palette that goes with it.
LEMMA CommitChange ==
  ASSUME NEW p \in Prefs, OwnPalettes(p), NEW target \in Blogs \cup {Global},
         NEW draft \in Palettes
  PROVE  /\ Committed(p, target, draft) \in Prefs
         /\ OwnPalettes(Committed(p, target, draft))
         /\ Only(p, Committed(p, target, draft), target)
<1>1. CASE target = Global
  <2>1. Committed(p, target, draft) = [p EXCEPT !.custom = draft, !.theme = "custom"]
    BY <1>1 DEF Committed
  <2>2. [p EXCEPT !.custom = draft, !.theme = "custom"] \in Prefs
        /\ [p EXCEPT !.custom = draft, !.theme = "custom"].blog = p.blog
    BY DEF Prefs, Themes
  <2>3. QED
    BY <1>1, <2>1, <2>2, GlobalChange
<1>2. CASE target # Global
  <2> DEFINE ov == [p.blog[target] EXCEPT !.theme = "custom", !.custom = draft]
  <2>1. p.blog[target] \in Overrides /\ target \in Blogs
    BY <1>2 DEF Prefs
  <2>2. ov \in Overrides /\ ov.custom = draft
    BY <2>1 DEF Overrides, Themes
  <2>3. Committed(p, target, draft) = [p EXCEPT !.blog[target] = ov]
    BY <1>2, <2>1 DEF Committed, Prefs, Overrides
  <2>4. draft # None
    BY Names
  <2> HIDE DEF ov
  <2>5. QED
    BY <2>1, <2>2, <2>3, <2>4, BlogChange
<1>3. QED
  BY <1>1, <1>2

-----------------------------------------------------------------------------
(* The steps.                                                              *)

\* What a step must keep, and whom it may change.
Keeps ==
  /\ AInv'
  /\ mode # Closed => \E who \in {asked, asked'} : Only(prefs, prefs', who)

LEMMA Custom1 ==
  /\ Custom \in Nat /\ Custom = Len(PRESETS) + 1
  /\ \A i \in 1..Custom : i \in 1..(Len(PRESETS) + Len(Layouts) + 3)
  /\ \A i \in 1..Custom : i # Custom => i \in 1..Len(PRESETS)
  /\ \A i \in 1..Len(Layouts) : i \in 1..(Len(PRESETS) + Len(Layouts) + 3)
  /\ \A i \in 1..3 : i \in 1..(Len(PRESETS) + Len(Layouts) + 3)
BY Names DEF Custom

\* A picker opens on the entry that is in force.
LEMMA ThemePickerFits ==
  ASSUME AInv, NEW target \in Blogs \cup {None}, ShowThemePicker(target)
  PROVE  mode' = "ThemePicker" /\ menuSel' \in 1..Custom
<1>1. prefs \in Prefs /\ PRESETS \in Seq(STRING)
  BY AppearanceAssumption DEF AInv, AppearanceTypeOK
<1>2. ThemeFor(prefs, target) \in Themes
  BY <1>1, Looks
<1>3. ThemeFor(prefs, target) # "custom" =>
        Position(PRESETS, ThemeFor(prefs, target)) \in 1..Len(PRESETS)
  BY <1>1, <1>2, Placed DEF Themes
<1>4. 1..Len(PRESETS) \subseteq 1..Custom /\ Custom \in 1..Custom
  BY Names DEF Custom
<1>5. QED
  BY <1>3, <1>4 DEF ShowThemePicker

LEMMA LayoutPickerFits ==
  ASSUME NEW p \in Prefs, NEW target \in Blogs \cup {None}, ShowLayoutPicker(p, target)
  PROVE  mode' = "LayoutPicker" /\ menuSel' \in 1..Len(Layouts)
<1>1. LayoutFor(p, target) \in Range(Layouts) /\ Layouts \in Seq(STRING)
  BY Looks, AppearanceAssumption
<1>2. QED
  BY <1>1, Placed DEF ShowLayoutPicker

\* Steps that leave the preferences alone, by what they do to the dialogs.
LEMMA Untouched ==
  ASSUME AInv, UNCHANGED settings, AppearanceTypeOK', editor' \in Drafts \cup {NoEditor},
         MenusHaveTheirSubject', DialogsAreAsked', NoLateAnswers', mode # Closed
  PROVE  Keeps
<1>1. prefs' = prefs /\ saved' = saved /\ prefs \in Prefs
  BY DEF settings, AInv, AppearanceTypeOK
<1>2. Only(prefs, prefs', asked)
  BY <1>1, SamePrefs
<1>3. BlogsHaveTheirOwnPalette' /\ EveryChangeIsSaved'
  BY <1>1 DEF AInv, BlogsHaveTheirOwnPalette, EveryChangeIsSaved
<1>4. QED
  BY <1>2, <1>3 DEF Keeps, AInv

\* Steps that leave the appearance and its dialogs.
LEMMA Elsewhere ==
  ASSUME AInv, UNCHANGED settings, UNCHANGED <<menuTarget, menuSel, editor, onboarding, asked>>,
         mode' \in (Modes \cup {Closed}) \ (Dialogs \cup {"PublicationPicker"}),
         openPub' \in Blogs \cup {None}, feedSel' \in Blogs, choices' \in BOOLEAN,
         syncPrompt' \in BOOLEAN, mode # Closed, mode' = Closed => answers' = {},
         answers' \subseteq {"Results", "SyncDiff", "ChoosePublications"}, keys' \in 0..MaxKeys
  PROVE  Keeps
<1>1. AppearanceTypeOK' /\ editor' \in Drafts \cup {NoEditor}
  BY DEF AInv, AppearanceTypeOK, settings
<1>2. MenusHaveTheirSubject' /\ DialogsAreAsked' /\ NoLateAnswers'
  BY DEF MenusHaveTheirSubject, DialogsAreAsked, Dialogs, NoLateAnswers
<1>3. QED
  BY <1>1, <1>2, Untouched

\* Steps that leave the dialog as it is.
LEMMA SameDialog ==
  ASSUME AInv, UNCHANGED settings, UNCHANGED <<menuTarget, menuSel, editor, onboarding, asked>>,
         mode' = mode, openPub' \in Blogs \cup {None}, feedSel' \in Blogs, choices' = choices,
         syncPrompt' \in BOOLEAN, mode # Closed,
         answers' \subseteq {"Results", "SyncDiff", "ChoosePublications"}, keys' \in 0..MaxKeys
  PROVE  Keeps
<1>1. AppearanceTypeOK' /\ editor' \in Drafts \cup {NoEditor}
  BY DEF AInv, AppearanceTypeOK, settings
<1>2. MenusHaveTheirSubject' /\ DialogsAreAsked' /\ NoLateAnswers'
  BY DEF AInv, MenusHaveTheirSubject, DialogsAreAsked, Dialogs, NoLateAnswers
<1>3. QED
  BY <1>1, <1>2, Untouched

LEMMA KeyPressed ==
  AInv /\ Key => keys' \in 0..MaxKeys
BY AppearanceAssumption DEF AInv, AppearanceTypeOK, Key

LEMMA ListKeys ==
  ASSUME AInv, \/ Quit \/ MoveFeed \/ OpenFeed \/ LeaveDocList \/ Enter \/ Dismiss
               \/ SubmitInput \/ AnswerSyncPrompt \/ AnswerPublicationPicker
  PROVE  Keeps
<1> USE DEF menu, lists, prompts, Modes, Dialogs, Closed
<1>1. keys' \in 0..MaxKeys
  BY KeyPressed DEF Quit, MoveFeed, OpenFeed, LeaveDocList, Enter, Dismiss, SubmitInput,
    AnswerSyncPrompt, AnswerPublicationPicker
<1>2. /\ openPub \in Blogs \cup {None} /\ feedSel \in Blogs /\ choices \in BOOLEAN
      /\ syncPrompt \in BOOLEAN
      /\ answers \subseteq {"Results", "SyncDiff", "ChoosePublications"}
  BY DEF AInv, AppearanceTypeOK
<1>3. CASE Quit
  BY <1>1, <1>2, <1>3, Elsewhere DEF Quit
<1>4. CASE MoveFeed
  BY <1>1, <1>2, <1>4, Elsewhere DEF MoveFeed
<1>5. CASE OpenFeed
  BY <1>1, <1>2, <1>5, Elsewhere DEF OpenFeed
<1>6. CASE LeaveDocList
  BY <1>1, <1>2, <1>6, Elsewhere DEF LeaveDocList
<1>7. CASE Enter
  BY <1>1, <1>2, <1>7, Elsewhere DEF Enter
<1>8. CASE Dismiss
  BY <1>1, <1>2, <1>8, Elsewhere DEF Dismiss
<1>9. CASE SubmitInput
  BY <1>1, <1>2, <1>9, Elsewhere DEF SubmitInput
<1>10. CASE AnswerSyncPrompt
  BY <1>1, <1>2, <1>10, Elsewhere DEF AnswerSyncPrompt
<1>11. CASE AnswerPublicationPicker
  BY <1>1, <1>2, <1>11, Elsewhere DEF AnswerPublicationPicker
<1>12. QED
  BY <1>3, <1>4, <1>5, <1>6, <1>7, <1>8, <1>9, <1>10, <1>11

LEMMA WorkerAnswers ==
  ASSUME AInv, Results \/ Added \/ ChoosePublications \/ SyncDiff
  PROVE  Keeps
<1> USE DEF menu, lists, prompts
<1>1. /\ openPub \in Blogs \cup {None} /\ feedSel \in Blogs /\ choices \in BOOLEAN
      /\ syncPrompt \in BOOLEAN
      /\ answers \subseteq {"Results", "SyncDiff", "ChoosePublications"}
      /\ keys \in 0..MaxKeys
  BY DEF AInv, AppearanceTypeOK
<1>2. mode # Closed
  BY DEF AInv, NoLateAnswers, Results, Added, ChoosePublications, SyncDiff
<1>3. CASE Results
  BY <1>1, <1>2, <1>3, Elsewhere DEF Results, Modes, Dialogs, Closed
<1>4. CASE Added
  BY <1>1, <1>2, <1>4, SameDialog DEF Added
<1>5. CASE ChoosePublications
  <2>1. 1 \in 1..(Len(PRESETS) + Len(Layouts) + 3)
    BY Custom1
  <2>2. AppearanceTypeOK' /\ editor' \in Drafts \cup {NoEditor}
    BY <1>1, <1>5, <2>1 DEF ChoosePublications, AInv, AppearanceTypeOK, Modes, settings
  <2>3. MenusHaveTheirSubject' /\ DialogsAreAsked' /\ NoLateAnswers'
    BY <1>5 DEF ChoosePublications, MenusHaveTheirSubject, DialogsAreAsked, Dialogs,
      NoLateAnswers, Closed
  <2>4. QED
    BY <1>2, <1>5, <2>2, <2>3, Untouched DEF ChoosePublications
<1>6. CASE SyncDiff
  <2>1. CASE mode' = "SyncPrompt"
    BY <1>1, <1>2, <1>6, <2>1, Elsewhere DEF SyncDiff, Modes, Dialogs, Closed
  <2>2. CASE mode' = mode
    BY <1>1, <1>2, <1>6, <2>2, SameDialog DEF SyncDiff
  <2>3. QED
    BY <1>6, <2>1, <2>2 DEF SyncDiff
<1>7. QED
  BY <1>3, <1>4, <1>5, <1>6

\* Opening a dialog, and moving in one: each has its subject and its cursor.
LEMMA DialogKeys ==
  ASSUME AInv, \/ OpenThemePicker \/ OpenLayoutPicker \/ OpenBlogMenu \/ MoveCursor
               \/ EditDraft \/ LeaveBlogMenu
  PROVE  Keeps
<1> USE DEF lists, prompts
<1>1. keys' \in 0..MaxKeys
  BY KeyPressed DEF OpenThemePicker, OpenLayoutPicker, OpenBlogMenu, MoveCursor, EditDraft,
    LeaveBlogMenu
<1>2. AppearanceTypeOK /\ editor \in Drafts \cup {NoEditor} /\ prefs \in Prefs
  BY DEF AInv, AppearanceTypeOK
<1>3. mode # Closed
  BY DEF OpenThemePicker, OpenLayoutPicker, OpenBlogMenu, MoveCursor, EditDraft,
    LeaveBlogMenu, Closed
<1>4. CASE OpenThemePicker
  <2>1. mode' = "ThemePicker" /\ menuSel' \in 1..Custom
    BY <1>4, ThemePickerFits DEF OpenThemePicker
  <2>2. AppearanceTypeOK' /\ editor' \in Drafts \cup {NoEditor}
    BY <1>1, <1>2, <1>4, <2>1, Custom1 DEF OpenThemePicker, AppearanceTypeOK, Modes, settings
  <2>3. MenusHaveTheirSubject' /\ DialogsAreAsked' /\ NoLateAnswers'
    BY <1>4, <2>1, Custom1 DEF OpenThemePicker, MenusHaveTheirSubject, DialogsAreAsked, Or,
      NoLateAnswers, Closed
  <2>4. QED
    BY <1>3, <1>4, <2>2, <2>3, Untouched DEF OpenThemePicker
<1>5. CASE OpenLayoutPicker
  <2>1. mode' = "LayoutPicker" /\ menuSel' \in 1..Len(Layouts)
    BY <1>2, <1>5, LayoutPickerFits DEF OpenLayoutPicker
  <2>2. AppearanceTypeOK' /\ editor' \in Drafts \cup {NoEditor}
    BY <1>1, <1>2, <1>5, <2>1, Custom1 DEF OpenLayoutPicker, AppearanceTypeOK, Modes, settings
  <2>3. MenusHaveTheirSubject' /\ DialogsAreAsked' /\ NoLateAnswers'
    BY <1>5, <2>1 DEF OpenLayoutPicker, MenusHaveTheirSubject, DialogsAreAsked, Or,
      NoLateAnswers, Closed
  <2>4. QED
    BY <1>3, <1>5, <2>2, <2>3, Untouched DEF OpenLayoutPicker
<1>6. CASE OpenBlogMenu
  <2>1. menuTarget' \in Blogs /\ menuTarget' # None /\ asked' = menuTarget'
    BY <1>2, <1>6, AppearanceAssumption DEF OpenBlogMenu, Or, AppearanceTypeOK
  <2>2. AppearanceTypeOK' /\ editor' \in Drafts \cup {NoEditor}
    BY <1>1, <1>2, <1>6, <2>1, Custom1 DEF OpenBlogMenu, AppearanceTypeOK, Modes, settings
  <2>3. MenusHaveTheirSubject' /\ DialogsAreAsked' /\ NoLateAnswers'
    BY <1>6, <2>1 DEF OpenBlogMenu, MenusHaveTheirSubject, DialogsAreAsked, Or,
      NoLateAnswers, Closed
  <2>4. QED
    BY <1>3, <1>6, <2>2, <2>3, Untouched DEF OpenBlogMenu
<1>7. CASE MoveCursor
  <2>1. AppearanceTypeOK' /\ editor' \in Drafts \cup {NoEditor}
    BY <1>1, <1>2, <1>7, Custom1 DEF MoveCursor, AppearanceTypeOK, settings
  <2>2. MenusHaveTheirSubject'
    BY <1>7, Custom1, Names DEF MoveCursor, AInv, MenusHaveTheirSubject
  <2>3. DialogsAreAsked' /\ NoLateAnswers'
    BY <1>7 DEF MoveCursor, AInv, DialogsAreAsked, Or, NoLateAnswers
  <2>4. QED
    BY <1>3, <1>7, <2>1, <2>2, <2>3, Untouched DEF MoveCursor
<1>8. CASE EditDraft
  <2>1. editor \in Drafts /\ mode = "ThemeEditor" /\ mode' = mode
    BY <1>2, <1>8 DEF EditDraft, AInv, MenusHaveTheirSubject
  <2>2. editor' \in Drafts /\ editor'.target = editor.target /\ editor' # NoEditor
    <3>1. PICK palette \in Palettes : editor' = [editor EXCEPT !.draft = palette]
      BY <1>8 DEF EditDraft
    <3>2. palette # None
      BY Names
    <3>3. QED
      BY <2>1, <3>1, <3>2 DEF Drafts, NoEditor
  <2>3. AppearanceTypeOK'
    BY <1>1, <1>2, <1>8, <2>2 DEF EditDraft, AppearanceTypeOK, settings, Drafts
  <2>4. MenusHaveTheirSubject' /\ DialogsAreAsked' /\ NoLateAnswers'
    BY <1>8, <2>1, <2>2 DEF EditDraft, AInv, MenusHaveTheirSubject, DialogsAreAsked, Or,
      NoLateAnswers, Closed
  <2>5. QED
    BY <1>3, <1>8, <2>2, <2>3, <2>4, Untouched DEF EditDraft
<1>9. CASE LeaveBlogMenu
  <2>1. AppearanceTypeOK' /\ editor' \in Drafts \cup {NoEditor}
    BY <1>1, <1>2, <1>9 DEF LeaveBlogMenu, AppearanceTypeOK, Modes, settings
  <2>2. MenusHaveTheirSubject' /\ DialogsAreAsked' /\ NoLateAnswers'
    BY <1>9 DEF LeaveBlogMenu, MenusHaveTheirSubject, DialogsAreAsked, Dialogs,
      NoLateAnswers, Closed
  <2>3. QED
    BY <1>3, <1>9, <2>1, <2>2, Untouched DEF LeaveBlogMenu
<1>10. QED
  BY <1>4, <1>5, <1>6, <1>7, <1>8, <1>9

\* The preferences q are handed over, with the dialogs in order.
LEMMA HandedOver ==
  ASSUME AInv, NEW q \in Prefs, OwnPalettes(q), Persist(q), mode # Closed,
         NEW who \in {asked, asked'}, Only(prefs, q, who),
         prefs' \in Prefs /\ saved' \in Prefs => AppearanceTypeOK',
         editor' \in Drafts \cup {NoEditor},
         MenusHaveTheirSubject', DialogsAreAsked', NoLateAnswers'
  PROVE  Keeps
<1>1. prefs' = q /\ saved' = q
  BY DEF Persist
<1>2. BlogsHaveTheirOwnPalette' /\ EveryChangeIsSaved' /\ AppearanceTypeOK'
  BY <1>1 DEF BlogsHaveTheirOwnPalette, EveryChangeIsSaved, OwnPalettes
<1>3. Only(prefs, prefs', who)
  BY <1>1
<1>4. QED
  BY <1>2, <1>3 DEF Keeps, AInv

\* ... and the dialog closed.
LEMMA Finished ==
  ASSUME AInv, NEW q \in Prefs, OwnPalettes(q), Persist(q), mode # Closed,
         NEW who \in {asked, asked'}, Only(prefs, q, who),
         mode' = "Browse", UNCHANGED <<lists, prompts, answers>>, keys' \in 0..MaxKeys,
         menuTarget' \in Blogs \cup {None}, menuSel' = menuSel,
         editor' \in Drafts \cup {NoEditor}, onboarding' \in BOOLEAN,
         asked' \in Blogs \cup {Global}
  PROVE  Keeps
<1>1. prefs' \in Prefs /\ saved' \in Prefs => AppearanceTypeOK'
  BY DEF AInv, AppearanceTypeOK, lists, prompts, Modes, Drafts
<1>2. MenusHaveTheirSubject' /\ DialogsAreAsked' /\ NoLateAnswers'
  BY DEF MenusHaveTheirSubject, DialogsAreAsked, Dialogs, NoLateAnswers, Closed
<1>3. QED
  BY <1>1, <1>2, HandedOver

LEMMA PrefsNow ==
  AInv => /\ prefs \in Prefs /\ (mode # Closed => OwnPalettes(prefs))
          /\ menuTarget \in Blogs \cup {None} /\ menuSel \in Nat /\ menuSel >= 1
          /\ onboarding \in BOOLEAN /\ asked \in Blogs \cup {Global}
          /\ editor \in Drafts \cup {NoEditor}
BY Names DEF AInv, AppearanceTypeOK, BlogsHaveTheirOwnPalette, OwnPalettes

\* The end of the first launch is kept too.
LEMMA Concludes ==
  ASSUME AInv, NEW p \in Prefs, OwnPalettes(p), Conclude(p),
         NEW who, Only(prefs, p, who)
  PROVE  /\ \E q \in Prefs : OwnPalettes(q) /\ Persist(q) /\ Only(prefs, q, who)
         /\ mode' = "Browse" /\ onboarding' \in BOOLEAN
<1>1. prefs \in Prefs /\ onboarding \in BOOLEAN
  BY PrefsNow
<1>2. CASE onboarding
  <2>1. Persist([p EXCEPT !.onboarded = TRUE]) /\ mode' = "Browse" /\ onboarding' = FALSE
    BY <1>2 DEF Conclude, FinishOnboarding
  <2>2. QED
    BY <1>1, <2>1, Onboarded
<1>3. CASE ~onboarding
  BY <1>1, <1>3 DEF Conclude
<1>4. QED
  BY <1>2, <1>3

LEMMA CycleLayoutKeeps ==
  ASSUME AInv, CycleLayout
  PROVE  Keeps
<1> DEFINE i == (Position(Layouts, prefs.layout) % Len(Layouts)) + 1
<1>1. mode = "Browse" /\ mode # Closed /\ keys' \in 0..MaxKeys /\ asked' = Global
      /\ UNCHANGED <<mode, lists, prompts, answers, menuTarget, menuSel, editor, onboarding>>
  BY KeyPressed DEF CycleLayout, Closed
<1>2. prefs \in Prefs /\ OwnPalettes(prefs)
  BY <1>1, PrefsNow
<1>3. Layouts[i] \in Range(Layouts)
  <2>1. Position(Layouts, prefs.layout) \in 1..Len(Layouts)
    BY <1>2, Placed, AppearanceAssumption DEF Prefs
  <2>2. i \in 1..Len(Layouts)
    BY <2>1, Names
  <2>3. QED
    BY <2>2, Names
<1>4. PICK q : q = [prefs EXCEPT !.layout = Layouts[i]]
  OBVIOUS
<1>5. Persist(q)
  BY <1>2, <1>4 DEF CycleLayout, Prefs
<1> HIDE DEF i
<1>6. q \in Prefs /\ q.blog = prefs.blog
  BY <1>2, <1>3, <1>4 DEF Prefs
<1>7. OwnPalettes(q) /\ Only(prefs, q, Global)
  BY <1>2, <1>6, GlobalChange
<1>8. QED
  BY <1>1, <1>5, <1>6, <1>7, PrefsNow, Finished

LEMMA ChooseThemeKeeps ==
  ASSUME AInv, ChooseTheme
  PROVE  Keeps
<1>1. mode = "ThemePicker" /\ mode # Closed /\ keys' \in 0..MaxKeys
      /\ UNCHANGED <<lists, prompts, answers, menuSel, asked>>
  BY KeyPressed DEF ChooseTheme, Closed
<1>2. prefs \in Prefs /\ OwnPalettes(prefs)
  BY <1>1, PrefsNow
<1>3. asked = Or(menuTarget, Global) /\ menuTarget \in Blogs \cup {None}
      /\ menuSel \in 1..Custom
  BY <1>1, PrefsNow, Custom1 DEF AInv, DialogsAreAsked, Dialogs, MenusHaveTheirSubject
<1>4. CASE menuSel = Custom
  <2>1. OpenThemeEditor
    BY <1>4 DEF ChooseTheme
  <2>2. editor' \in Drafts /\ editor' # NoEditor /\ editor'.target = Or(menuTarget, Global)
    <3>1. CASE menuTarget = None
      <4>1. editor' = [target |-> Global, draft |-> prefs.custom]
        BY <2>1, <3>1 DEF OpenThemeEditor
      <4>2. prefs.custom \in Palettes /\ prefs.custom # None
        BY <1>2, Names DEF Prefs
      <4>3. QED
        BY <3>1, <4>1, <4>2 DEF Drafts, NoEditor, Or
    <3>2. CASE menuTarget # None
      <4> DEFINE draft == Or(prefs.blog[menuTarget].custom, ColorsFor(prefs, menuTarget))
      <4>1. editor' = [target |-> menuTarget, draft |-> draft]
        BY <2>1, <3>2 DEF OpenThemeEditor
      <4>2. prefs.blog[menuTarget].custom \in Palettes \cup {None}
        BY <1>2, <1>3, <3>2 DEF Prefs, Overrides
      <4>3. draft \in Palettes /\ draft # None
        BY <1>2, <1>3, <4>2, Looks, Names DEF Or
      <4> HIDE DEF draft
      <4>4. QED
        BY <1>3, <3>2, <4>1, <4>3 DEF Drafts, NoEditor, Or
    <3>3. QED
      BY <3>1, <3>2
  <2>3. AppearanceTypeOK'
    BY <1>1, <2>1, <2>2 DEF AInv, AppearanceTypeOK, OpenThemeEditor, Modes, settings, Drafts,
      lists, prompts
  <2>4. MenusHaveTheirSubject' /\ DialogsAreAsked' /\ NoLateAnswers'
    BY <1>1, <1>3, <2>1, <2>2 DEF OpenThemeEditor, MenusHaveTheirSubject, DialogsAreAsked,
      NoLateAnswers, Closed, Or
  <2>5. QED
    BY <1>1, <2>1, <2>2, <2>3, <2>4, Untouched DEF OpenThemeEditor
<1>5. CASE menuSel # Custom
  <2>1. PRESETS[menuSel] \in Range(PRESETS)
    BY <1>3, <1>5, Custom1, Names
  <2>2. PRESETS[menuSel] \in Themes /\ PRESETS[menuSel] # "custom"
    BY <2>1, Names DEF Themes
  <2>3. CASE menuTarget # None
    <3>1. PICK b \in Blogs : b = menuTarget
      BY <1>3, <2>3
    <3>2. asked = b
      BY <1>3, <2>3, <3>1 DEF Or
    <3>3. PICK ov : ov = [prefs.blog[b] EXCEPT !.theme = PRESETS[menuSel]]
      OBVIOUS
    <3>4. ov \in Overrides /\ ov.theme # "custom"
      BY <1>2, <2>2, <3>3 DEF Prefs, Overrides
    <3>5. PICK q : q = [prefs EXCEPT !.blog[b] = ov]
      OBVIOUS
    <3>6. /\ Persist(q) /\ mode' = "Browse" /\ menuTarget' = None
          /\ UNCHANGED <<editor, onboarding>>
      BY <1>2, <1>5, <2>3, <3>1, <3>3, <3>5 DEF ChooseTheme, Prefs, Overrides
    <3>7. q \in Prefs /\ OwnPalettes(q) /\ Only(prefs, q, b)
      BY <1>2, <3>4, <3>5, BlogChange
    <3>8. QED
      BY <1>1, <3>2, <3>6, <3>7, PrefsNow, Finished
  <2>4. CASE menuTarget = None
    <3>1. PICK p : p = [prefs EXCEPT !.theme = PRESETS[menuSel]]
      OBVIOUS
    <3>2. Conclude(p) /\ UNCHANGED <<editor, menuTarget>>
      BY <1>5, <2>4, <3>1 DEF ChooseTheme
    <3>3. p \in Prefs /\ p.blog = prefs.blog
      BY <1>2, <2>2, <3>1 DEF Prefs
    <3>4. OwnPalettes(p) /\ Only(prefs, p, Global)
      BY <1>2, <3>3, GlobalChange
    <3>5. asked = Global
      BY <1>3, <2>4 DEF Or
    <3>6. PICK q \in Prefs : OwnPalettes(q) /\ Persist(q) /\ Only(prefs, q, Global)
      BY <3>2, <3>3, <3>4, Concludes
    <3>7. mode' = "Browse" /\ onboarding' \in BOOLEAN
      BY <3>2, <3>3, <3>4, Concludes
    <3>8. QED
      BY <1>1, <3>2, <3>5, <3>6, <3>7, PrefsNow, Finished
  <2>5. QED
    BY <2>3, <2>4
<1>6. QED
  BY <1>4, <1>5

\* Esc in a dialog that belongs to the first launch, to a blog, or to nobody.
LEMMA LeaveThemeDialogKeeps ==
  ASSUME AInv, LeaveThemePicker \/ CancelThemeEditor
  PROVE  Keeps
<1>1. /\ mode \in {"ThemePicker", "ThemeEditor"} /\ mode # Closed /\ keys' \in 0..MaxKeys
      /\ UNCHANGED <<lists, prompts, answers, menuTarget, asked>>
  BY KeyPressed DEF LeaveThemePicker, CancelThemeEditor, Closed
<1>2. prefs \in Prefs /\ OwnPalettes(prefs)
  BY <1>1, PrefsNow
<1>3. asked = Or(menuTarget, Global) /\ menuTarget \in Blogs \cup {None}
  BY <1>1, PrefsNow DEF AInv, DialogsAreAsked, Dialogs
<1>4. editor' \in Drafts \cup {NoEditor}
  BY PrefsNow DEF LeaveThemePicker, CancelThemeEditor
<1>5. CASE onboarding
  <2>1. FinishOnboarding(prefs) /\ UNCHANGED menuSel
    BY <1>5 DEF LeaveThemePicker, CancelThemeEditor
  <2>2. PICK q : q = [prefs EXCEPT !.onboarded = TRUE]
    OBVIOUS
  <2>3. q \in Prefs /\ OwnPalettes(q) /\ Only(prefs, q, asked)
    BY <1>2, <2>2, Onboarded, SamePrefs
  <2>4. Persist(q) /\ mode' = "Browse" /\ onboarding' \in BOOLEAN
    BY <2>1, <2>2 DEF FinishOnboarding
  <2>5. QED
    BY <1>1, <1>4, <2>1, <2>3, <2>4, PrefsNow, Finished
<1>6. CASE ~onboarding
  <2>1. /\ \/ mode' = "BlogMenu" /\ menuSel' = 1 /\ menuTarget # None
           \/ mode' = "Browse" /\ menuSel' = menuSel
        /\ UNCHANGED <<settings, onboarding>>
    <3>1. CASE LeaveThemePicker
      BY <1>6, <3>1 DEF LeaveThemePicker
    <3>2. CASE CancelThemeEditor
      <4>1. editor.target = Or(menuTarget, Global)
        BY <3>2 DEF CancelThemeEditor, AInv, MenusHaveTheirSubject
      <4>2. editor.target # Global => menuTarget # None
        BY <4>1 DEF Or
      <4>3. QED
        BY <1>6, <3>2, <4>2 DEF CancelThemeEditor
    <3>3. QED
      BY <3>1, <3>2
  <2>2. AppearanceTypeOK'
    BY <1>1, <1>4, <2>1, Custom1 DEF AInv, AppearanceTypeOK, Modes, settings, Drafts, lists,
      prompts
  <2>3. MenusHaveTheirSubject' /\ DialogsAreAsked' /\ NoLateAnswers'
    BY <1>1, <1>3, <2>1 DEF MenusHaveTheirSubject, DialogsAreAsked, Dialogs, NoLateAnswers,
      Closed, Or
  <2>4. QED
    BY <1>1, <1>4, <2>1, <2>2, <2>3, Untouched
<1>7. QED
  BY <1>5, <1>6

LEMMA CommitKeeps ==
  ASSUME AInv, CommitThemeEditor
  PROVE  Keeps
<1>1. /\ mode = "ThemeEditor" /\ mode # Closed /\ keys' \in 0..MaxKeys
      /\ Conclude(Committed(prefs, editor.target, editor.draft)) /\ editor' = NoEditor
      /\ menuTarget' = IF editor.target # Global THEN None ELSE menuTarget
      /\ UNCHANGED <<lists, prompts, answers, menuSel, asked>>
  BY KeyPressed DEF CommitThemeEditor, Closed
<1>2. prefs \in Prefs /\ OwnPalettes(prefs)
  BY <1>1, PrefsNow
<1>3. editor \in Drafts /\ editor.target = asked
  BY <1>1, PrefsNow DEF AInv, DialogsAreAsked, Dialogs, MenusHaveTheirSubject
<1>4. PICK target \in Blogs \cup {Global}, draft \in Palettes :
        target = editor.target /\ draft = editor.draft
  BY <1>3 DEF Drafts
<1>5. PICK p : p = Committed(prefs, target, draft)
  OBVIOUS
<1>6. p \in Prefs /\ OwnPalettes(p) /\ Only(prefs, p, target)
  BY <1>2, <1>5, CommitChange
<1>7. Conclude(p)
  BY <1>1, <1>4, <1>5
<1>8. PICK q \in Prefs : OwnPalettes(q) /\ Persist(q) /\ Only(prefs, q, target)
  BY <1>6, <1>7, Concludes
<1>9. mode' = "Browse" /\ onboarding' \in BOOLEAN
  BY <1>6, <1>7, Concludes
<1>10. menuTarget' \in Blogs \cup {None} /\ target = asked
  BY <1>1, <1>3, <1>4, PrefsNow
<1>11. QED
  BY <1>1, <1>8, <1>9, <1>10, PrefsNow, Finished

\* A layout is set for the picker's target.
LEMMA ChooseLayoutKeeps ==
  ASSUME AInv, ChooseLayout
  PROVE  Keeps
<1>1. /\ mode = "LayoutPicker" /\ mode # Closed /\ keys' \in 0..MaxKeys
      /\ menuTarget' = None /\ UNCHANGED <<lists, prompts, answers, editor, onboarding>>
  BY KeyPressed DEF ChooseLayout, Closed
<1>2. prefs \in Prefs /\ OwnPalettes(prefs)
  BY <1>1, PrefsNow
<1>3. asked = Or(menuTarget, Global) /\ menuTarget \in Blogs \cup {None}
      /\ menuSel \in 1..Len(Layouts)
  BY <1>1, PrefsNow, Names DEF AInv, DialogsAreAsked, Dialogs, MenusHaveTheirSubject
<1>4. Layouts[menuSel] \in Range(Layouts)
  BY <1>3, Names
<1>5. \E q \in Prefs : OwnPalettes(q) /\ Persist(q) /\ Only(prefs, q, asked)
  <2>1. CASE menuTarget = None
    <3>1. PICK q : q = [prefs EXCEPT !.layout = Layouts[menuSel]]
      OBVIOUS
    <3>2. Persist(q)
      BY <2>1, <3>1 DEF ChooseLayout
    <3>3. q \in Prefs /\ q.blog = prefs.blog
      BY <1>2, <1>4, <3>1 DEF Prefs
    <3>4. OwnPalettes(q) /\ Only(prefs, q, Global)
      BY <1>2, <3>3, GlobalChange
    <3>5. QED
      BY <1>3, <2>1, <3>2, <3>3, <3>4 DEF Or
  <2>2. CASE menuTarget # None
    <3>1. PICK b \in Blogs : b = menuTarget
      BY <1>3, <2>2
    <3>2. PICK ov : ov = [prefs.blog[b] EXCEPT !.layout = Layouts[menuSel]]
      OBVIOUS
    <3>3. prefs.blog[b] \in Overrides
      BY <1>2 DEF Prefs
    <3>4. ov \in Overrides /\ ov.theme = prefs.blog[b].theme /\ ov.custom = prefs.blog[b].custom
      BY <1>4, <3>2, <3>3 DEF Overrides
    <3>5. PICK q : q = [prefs EXCEPT !.blog[b] = ov]
      OBVIOUS
    <3>6. Persist(q)
      BY <1>2, <2>2, <3>1, <3>2, <3>5 DEF ChooseLayout, Prefs, Overrides
    <3>7. ov.theme = "custom" => ov.custom # None
      BY <1>2, <3>4 DEF OwnPalettes
    <3>8. q \in Prefs /\ OwnPalettes(q) /\ Only(prefs, q, b)
      BY <1>2, <3>4, <3>5, <3>7, BlogChange
    <3>9. QED
      BY <1>3, <2>2, <3>1, <3>6, <3>8 DEF Or
  <2>3. QED
    BY <2>1, <2>2
<1>6. PICK q \in Prefs : OwnPalettes(q) /\ Persist(q) /\ Only(prefs, q, asked)
  BY <1>5
<1>7. CASE onboarding
  <2>1. ShowThemePicker(None) /\ asked' = Global
    BY <1>7 DEF ChooseLayout
  <2>2. mode' = "ThemePicker" /\ menuSel' \in 1..Custom
    BY <2>1, ThemePickerFits
  <2>3. prefs' \in Prefs /\ saved' \in Prefs => AppearanceTypeOK'
    BY <1>1, <2>1, <2>2, Custom1 DEF AInv, AppearanceTypeOK, Modes, lists, prompts
  <2>4. MenusHaveTheirSubject' /\ DialogsAreAsked' /\ NoLateAnswers'
    BY <1>1, <2>1, <2>2, Custom1 DEF MenusHaveTheirSubject, DialogsAreAsked, NoLateAnswers,
      Closed, Or
  <2>5. editor' \in Drafts \cup {NoEditor}
    BY <1>1, PrefsNow
  <2>6. QED
    BY <1>1, <1>6, <2>3, <2>4, <2>5, HandedOver
<1>8. CASE ~onboarding
  <2>1. mode' = "Browse" /\ UNCHANGED <<menuSel, asked>>
    BY <1>8 DEF ChooseLayout
  <2>2. QED
    BY <1>1, <1>6, <2>1, PrefsNow, Finished
<1>9. QED
  BY <1>7, <1>8

LEMMA LeaveLayoutPickerKeeps ==
  ASSUME AInv, LeaveLayoutPicker
  PROVE  Keeps
<1>1. /\ mode = "LayoutPicker" /\ mode # Closed /\ keys' \in 0..MaxKeys
      /\ UNCHANGED <<settings, lists, prompts, answers, menuTarget, editor, onboarding, asked>>
  BY KeyPressed DEF LeaveLayoutPicker, Closed
<1>2. asked = Or(menuTarget, Global) /\ menuTarget \in Blogs \cup {None}
  BY <1>1, PrefsNow DEF AInv, DialogsAreAsked, Dialogs
<1>3. \/ mode' = "ThemePicker" /\ menuSel' \in 1..Custom
      \/ mode' = "Browse" /\ menuSel' = menuSel
  BY <1>2, ThemePickerFits DEF LeaveLayoutPicker
<1>4. AppearanceTypeOK' /\ editor' \in Drafts \cup {NoEditor}
  BY <1>1, <1>3, Custom1 DEF AInv, AppearanceTypeOK, Modes, settings, lists, prompts
<1>5. MenusHaveTheirSubject' /\ DialogsAreAsked' /\ NoLateAnswers'
  BY <1>1, <1>2, <1>3, Custom1 DEF MenusHaveTheirSubject, DialogsAreAsked, Dialogs,
    NoLateAnswers, Closed, Or
<1>6. QED
  BY <1>1, <1>4, <1>5, Untouched

LEMMA ChooseInBlogMenuKeeps ==
  ASSUME AInv, ChooseInBlogMenu
  PROVE  Keeps
<1>1. /\ mode = "BlogMenu" /\ mode # Closed /\ keys' \in 0..MaxKeys
      /\ UNCHANGED <<lists, prompts, answers, editor, onboarding, asked>>
  BY KeyPressed DEF ChooseInBlogMenu, Closed
<1>2. asked = menuTarget /\ menuTarget \in Blogs /\ menuTarget # None /\ menuSel \in 1..3
  BY <1>1, PrefsNow DEF AInv, DialogsAreAsked, Dialogs, MenusHaveTheirSubject, Or
<1>3. prefs \in Prefs /\ OwnPalettes(prefs)
  BY <1>1, PrefsNow
<1>4. CASE menuSel \in {1, 2}
  <2>1. UNCHANGED <<settings, menuTarget>>
    <3>1. CASE menuSel = 1
      BY <3>1 DEF ChooseInBlogMenu
    <3>2. CASE menuSel = 2
      BY <3>2 DEF ChooseInBlogMenu
    <3>3. QED
      BY <1>4, <3>1, <3>2
  <2>2. (mode' = "ThemePicker" /\ menuSel' \in 1..Custom)
        \/ (mode' = "LayoutPicker" /\ menuSel' \in 1..Len(Layouts))
    <3>1. CASE menuSel = 1
      <4>1. ShowThemePicker(menuTarget)
        BY <3>1 DEF ChooseInBlogMenu
      <4>2. QED
        BY <1>2, <4>1, ThemePickerFits
    <3>2. CASE menuSel = 2
      <4>1. ShowLayoutPicker(prefs, menuTarget)
        BY <3>2 DEF ChooseInBlogMenu
      <4>2. QED
        BY <1>2, <1>3, <4>1, LayoutPickerFits
    <3>3. QED
      BY <1>4, <3>1, <3>2
  <2>3. AppearanceTypeOK' /\ editor' \in Drafts \cup {NoEditor}
    BY <1>1, <2>1, <2>2, Custom1 DEF AInv, AppearanceTypeOK, Modes, settings, lists, prompts
  <2>4. MenusHaveTheirSubject' /\ DialogsAreAsked' /\ NoLateAnswers'
    BY <1>1, <1>2, <2>1, <2>2, Custom1, Names DEF MenusHaveTheirSubject, DialogsAreAsked,
      Dialogs, NoLateAnswers, Closed, Or
  <2>5. QED
    BY <1>1, <2>1, <2>3, <2>4, Untouched
<1>5. CASE menuSel = 3
  <2>1. PICK b \in Blogs : b = menuTarget
    BY <1>2
  <2>2. PICK q : q = [prefs EXCEPT !.blog[b] = NoOverride]
    OBVIOUS
  <2>3. Persist(q) /\ menuTarget' = None /\ mode' = "Browse" /\ menuSel' = menuSel
    BY <1>2, <1>5, <2>1, <2>2 DEF ChooseInBlogMenu
  <2>4. NoOverride \in Overrides /\ NoOverride.theme # "custom"
    BY Names DEF NoOverride, Overrides, Themes
  <2>5. q \in Prefs /\ OwnPalettes(q) /\ Only(prefs, q, b)
    BY <1>3, <2>2, <2>4, BlogChange
  <2>6. QED
    BY <1>1, <1>2, <2>1, <2>3, <2>5, PrefsNow, Finished
<1>6. QED
  BY <1>2, <1>4, <1>5

\* A start migrates what an earlier version saved, and hands the result over.
LEMMA NewKeeps ==
  ASSUME AInv, New
  PROVE  Keeps
<1>1. PICK p : p = MigrateLegacyBlogCustoms(saved)
  OBVIOUS
<1>2. /\ mode = Closed /\ Persist(p)
      /\ openPub' = None /\ menuTarget' = None /\ editor' = NoEditor
      /\ choices' = FALSE /\ syncPrompt' = FALSE /\ asked' = Global
      /\ onboarding' = ~p.onboarded
      /\ IF p.onboarded THEN mode' = "Browse" /\ menuSel' = 1 ELSE ShowLayoutPicker(p, None)
      /\ answers' \in SUBSET {"SyncDiff"}
      /\ UNCHANGED <<feedSel, keys>>
  BY <1>1 DEF New
<1>3. p \in Prefs /\ OwnPalettes(p)
  BY <1>1, Migrated DEF AInv, AppearanceTypeOK
<1>4. prefs' = p /\ saved' = p
  BY <1>2 DEF Persist
<1>5. (mode' = "Browse" /\ menuSel' = 1)
      \/ (mode' = "LayoutPicker" /\ menuSel' \in 1..Len(Layouts))
  BY <1>2, <1>3, LayoutPickerFits
<1>6. AppearanceTypeOK' /\ editor' \in Drafts \cup {NoEditor}
  <2>1. onboarding' \in BOOLEAN
    BY <1>2
  <2>2. menuSel' \in 1..(Len(PRESETS) + Len(Layouts) + 3) /\ mode' \in Modes
    BY <1>5, Custom1 DEF Modes
  <2>3. AppearanceTypeOK
    BY DEF AInv
  <2>4. QED
    BY <1>2, <1>3, <1>4, <2>1, <2>2, <2>3 DEF AppearanceTypeOK
<1>7. MenusHaveTheirSubject' /\ DialogsAreAsked' /\ NoLateAnswers'
  BY <1>2, <1>5 DEF MenusHaveTheirSubject, DialogsAreAsked, Dialogs, NoLateAnswers, Closed, Or
<1>8. BlogsHaveTheirOwnPalette' /\ EveryChangeIsSaved'
  BY <1>3, <1>4 DEF BlogsHaveTheirOwnPalette, EveryChangeIsSaved, OwnPalettes
<1>9. QED
  BY <1>2, <1>6, <1>7, <1>8 DEF Keeps, AInv

LEMMA NextKeeps ==
  ASSUME AInv, AppearanceNext
  PROVE  Keeps
BY NewKeeps, ListKeys, WorkerAnswers, DialogKeys, CycleLayoutKeeps, ChooseThemeKeeps,
   LeaveThemeDialogKeeps, CommitKeeps, ChooseLayoutKeeps, LeaveLayoutPickerKeeps,
   ChooseInBlogMenuKeeps DEF AppearanceNext

LEMMA InitAInv ==
  AppearanceInit => AInv
<1> SUFFICES ASSUME AppearanceInit PROVE AInv
  OBVIOUS
<1>1. Default \in Prefs
  BY Names, AppearanceAssumption DEF Default, Prefs, Themes, Palettes, NoOverride, Overrides
<1>2. ASSUME NEW b \in Blogs, NEW ov \in Overrides
      PROVE  [Default EXCEPT !.onboarded = TRUE, !.blog[b] = ov] \in Prefs
  BY <1>1 DEF Prefs
<1>3. (CHOOSE c \in Edited : TRUE) \in Palettes
  BY AppearanceAssumption DEF Palettes
<1>4. /\ NoOverride \in Overrides
      /\ [theme |-> "custom", layout |-> None, custom |-> None] \in Overrides
      /\ [theme |-> "custom", layout |-> Layouts[1],
          custom |-> CHOOSE c \in Edited : TRUE] \in Overrides
  BY <1>3, Names DEF NoOverride, Overrides, Themes
<1>5. Loaded \subseteq Prefs
  <2> DEFINE Left(b, ov) == [Default EXCEPT !.onboarded = TRUE, !.blog[b] = ov]
             Old == {NoOverride, [theme |-> "custom", layout |-> None, custom |-> None],
                     [theme |-> "custom", layout |-> Layouts[1],
                      custom |-> CHOOSE c \in Edited : TRUE]}
  <2>1. Loaded = {Default} \cup {Left(b, ov) : b \in Blogs, ov \in Old}
    BY DEF Loaded
  <2>2. \A b \in Blogs, ov \in Overrides : Left(b, ov) \in Prefs
    BY <1>2
  <2>3. Old \subseteq Overrides
    BY <1>4
  <2> HIDE DEF Left, Old
  <2>4. QED
    BY <1>1, <2>1, <2>2, <2>3
<1>6. saved \in Prefs /\ prefs = saved
  BY <1>5 DEF AppearanceInit
<1>7. AppearanceTypeOK
  <2>1. 1 \in 1..(Len(PRESETS) + Len(Layouts) + 3) /\ 0 \in 0..MaxKeys
    BY Custom1, AppearanceAssumption
  <2>2. QED
    BY <1>6, <2>1 DEF AppearanceInit, AppearanceTypeOK
<1>8. MenusHaveTheirSubject /\ DialogsAreAsked /\ NoLateAnswers
  BY DEF AppearanceInit, MenusHaveTheirSubject, DialogsAreAsked, Dialogs, NoLateAnswers, Closed
<1>9. BlogsHaveTheirOwnPalette /\ EveryChangeIsSaved
  BY DEF AppearanceInit, BlogsHaveTheirOwnPalette, EveryChangeIsSaved
<1>10. QED
  BY <1>7, <1>8, <1>9 DEF AInv, AppearanceInit

LEMMA StepAInv ==
  AInv /\ [AppearanceNext]_appearanceVars => AInv'
<1> SUFFICES ASSUME AInv, [AppearanceNext]_appearanceVars PROVE AInv'
  OBVIOUS
<1>1. CASE AppearanceNext
  BY <1>1, NextKeeps DEF Keeps
<1>2. CASE UNCHANGED appearanceVars
  BY <1>2 DEF appearanceVars, settings, menu, lists, prompts, AInv, AppearanceTypeOK,
    MenusHaveTheirSubject, DialogsAreAsked, NoLateAnswers, BlogsHaveTheirOwnPalette,
    EveryChangeIsSaved
<1>3. QED
  BY <1>1, <1>2

-----------------------------------------------------------------------------
(* Theorems.                                                               *)

\* In every mode the fields of its dialog (app.rs:181-283) are in order, what the reader asked
\* to change is what the dialog is for, and the preferences held are the ones handed over.
THEOREM Invariant ==
  AppearanceSpec => []AInv
<1>1. QED
  BY InitAInv, StepAInv, PTL DEF AppearanceSpec

\* Preferences, modes, cursors and drafts have their types.
THEOREM TypeCorrect ==
  AppearanceSpec => []AppearanceTypeOK
<1>1. AInv => AppearanceTypeOK
  BY DEF AInv
<1>2. QED
  BY <1>1, Invariant, PTL

\* A dialog acts on its own subject, and the cursor stands on one of its entries, however
\* answers moved the reader between dialogs (app.rs:533-547).
THEOREM DialogsHaveSubjects ==
  AppearanceSpec => []MenusHaveTheirSubject
<1>1. AInv => MenusHaveTheirSubject
  BY DEF AInv
<1>2. QED
  BY <1>1, Invariant, PTL

\* Every blog with a custom theme has a palette of its own, migrated preferences included
\* (prefs.rs:161, app.rs:287).
THEOREM OwnPalette ==
  AppearanceSpec => []BlogsHaveTheirOwnPalette
<1>1. AInv => BlogsHaveTheirOwnPalette
  BY DEF AInv
<1>2. QED
  BY <1>1, Invariant, PTL

\* No change of the preferences is lost when the App ends (persist_prefs, app.rs:418-420).
THEOREM ChangesAreSaved ==
  AppearanceSpec => []EveryChangeIsSaved
<1>1. AInv => EveryChangeIsSaved
  BY DEF AInv
<1>2. QED
  BY <1>1, Invariant, PTL

\* What the reader did not ask to change stays as it is, with whatever target an earlier
\* dialog has left (app.rs:862-1180).
THEOREM NothingElseChanges ==
  AppearanceSpec => OnlyTheAskedChanges
<1> DEFINE Asked ==
      mode # Closed =>
        /\ \A b \in Blogs : prefs'.blog[b] # prefs.blog[b] => b \in {asked, asked'}
        /\ [prefs' EXCEPT !.blog = prefs.blog, !.onboarded = prefs.onboarded] # prefs
             => Global \in {asked, asked'}
<1>1. AInv /\ [AppearanceNext]_appearanceVars => [Asked]_appearanceVars
  <2> SUFFICES ASSUME AInv, AppearanceNext, mode # Closed PROVE Asked
    OBVIOUS
  <2>1. PICK who \in {asked, asked'} : Only(prefs, prefs', who)
    BY NextKeeps DEF Keeps
  <2>2. QED
    BY <2>1 DEF Only
<1>2. QED
  BY <1>1, Invariant, PTL DEF AppearanceSpec, OnlyTheAskedChanges
=============================================================================
