----------------------------- MODULE Appearance -----------------------------
(***************************************************************************)
(* The App's modes and what they edit: themes and layouts, the global ones *)
(* and those of one blog, the first-launch flow and the colour editor.     *)
(*                                                                         *)
(* One mode decides which handler gets the reader's next key or click, and *)
(* the worker's answers change it too: the results of a search, the        *)
(* candidates of an added repo and the follows to reconcile each open      *)
(* their own dialog over whatever the reader is doing.  A dialog keeps its *)
(* subject (menu_target, theme_editor, the candidates) in fields of its    *)
(* own, which such an answer leaves behind.  A palette of seven colours is *)
(* one value; arrow keys move a cursor anywhere in one step.               *)
(***************************************************************************)
EXTENDS Integers, SequencesExt

CONSTANTS
  Blogs,     \* followed publications, in the sidebar
  None,      \* no publication, no override
  PRESETS,   \* names of the built-in themes, in picker order
  Layouts,   \* LayoutKind::ALL
  Edited,    \* palettes only the colour editor makes
  MaxKeys    \* bound: keys pressed

ASSUME AppearanceAssumption ==
  /\ None \notin Blogs /\ Edited # {}
  /\ PRESETS \in Seq(STRING) /\ PRESETS # <<>> /\ Layouts \in Seq(STRING)
  /\ Range(PRESETS) \cap Edited = {} /\ "custom" \notin Range(PRESETS)
  /\ "TwoPane" \in Range(Layouts)
  /\ None \notin Range(PRESETS) \cup Range(Layouts) \cup Edited \cup {"custom"}
  /\ MaxKeys \in Nat

VARIABLES
  prefs,      \* the preferences the App holds
  saved,      \* the preferences last handed to the worker
  mode,
  openPub,    \* open_pub
  feedSel,    \* the highlighted feed
  menuTarget, \* menu_target: whose theme or layout a picker sets
  menuSel,    \* menu_sel
  editor,     \* theme_editor
  onboarding,
  choices,    \* publication_choices is not empty
  syncPrompt, \* sync_prompt is not empty
  answers,    \* what the worker still has to tell
  keys,       \* keys pressed so far
  asked       \* history: whose appearance the reader asked to change, or the flow led to

settings == <<prefs, saved>>
menu     == <<menuTarget, menuSel, editor, onboarding, asked>>
lists    == <<openPub, feedSel>>
prompts  == <<choices, syncPrompt>>
appearanceVars     == <<settings, mode, menu, lists, prompts, answers, keys>>

Global   == "global"
Themes   == Range(PRESETS) \cup {"custom"}
Palettes == Range(PRESETS) \cup Edited   \* a preset's name stands for its palette
Custom   == Len(PRESETS) + 1             \* the picker's last entry
NoEditor == [target |-> None, draft |-> None]

Modes == {"Browse", "DocList", "Search", "Palette", "Help", "AddFeed", "SignIn", "SyncPrompt",
          "ThemePicker", "ThemeEditor", "LayoutPicker", "BlogMenu", "StatusDetail",
          "PublicationPicker"}

Closed == "Closed"   \* no App runs

Overrides  == [theme  : Themes \cup {None}, layout : Range(Layouts) \cup {None},
               custom : Palettes \cup {None}]
NoOverride == [theme |-> None, layout |-> None, custom |-> None]

Prefs == [theme : Themes, layout : Range(Layouts), custom : Palettes, onboarded : BOOLEAN,
          blog : [Blogs -> Overrides]]

AppearanceTypeOK ==
  /\ prefs \in Prefs /\ saved \in Prefs
  /\ mode \in Modes \cup {Closed}
  /\ openPub \in Blogs \cup {None} /\ feedSel \in Blogs
  /\ menuTarget \in Blogs \cup {None}
  /\ menuSel \in 1..(Len(PRESETS) + Len(Layouts) + 3)
  /\ editor = NoEditor
       \/ (editor.target \in Blogs \cup {Global} /\ editor.draft \in Palettes)
  /\ onboarding \in BOOLEAN /\ choices \in BOOLEAN /\ syncPrompt \in BOOLEAN
  /\ answers \subseteq {"Results", "SyncDiff", "ChoosePublications"}
  /\ keys \in 0..MaxKeys /\ asked \in Blogs \cup {Global}

-----------------------------------------------------------------------------
(* Preferences.                                                            *)

Or(value, default) == IF value = None THEN default ELSE value

ThemeFor(p, target)  == IF target = None THEN p.theme ELSE Or(p.blog[target].theme, p.theme)
LayoutFor(p, target) == IF target = None THEN p.layout ELSE Or(p.blog[target].layout, p.layout)

\* colors_for_blog, without a palette of the blog's own.
ColorsFor(p, target) ==
  IF ThemeFor(p, target) = "custom" THEN p.custom ELSE ThemeFor(p, target)

\* Mutant: overrides that share the global palette are kept.
KeepLegacyBlogCustoms(p) == p

\* migrate_legacy_blog_customs: a blog's custom theme without a palette of its own
\* goes back to the global theme; its layout stays.
MigrateLegacyBlogCustoms(p) ==
  [p EXCEPT !.blog = [b \in Blogs |->
     IF @[b].theme = "custom" /\ @[b].custom = None THEN [@[b] EXCEPT !.theme = None]
     ELSE @[b]]]

\* persist_prefs: the worker gets a copy of all preferences.
Persist(p) == prefs' = p /\ saved' = p

-----------------------------------------------------------------------------
(* Pickers.                                                                *)

Position(s, x) == CHOOSE i \in 1..Len(s) : s[i] = x

\* show_theme_picker, for the target set by the caller.
ShowThemePicker(target) ==
  /\ mode' = "ThemePicker"
  /\ menuSel' = LET name == ThemeFor(prefs, target)
                IN IF name = "custom" THEN Custom ELSE Position(PRESETS, name)

ShowLayoutPicker(p, target) ==
  /\ mode' = "LayoutPicker"
  /\ menuSel' = Position(Layouts, LayoutFor(p, target))

-----------------------------------------------------------------------------
(* Starting and quitting.                                                  *)

Default == [theme |-> PRESETS[1], layout |-> "TwoPane", custom |-> PRESETS[1],
            onboarded |-> FALSE, blog |-> [b \in Blogs |-> NoOverride]]

\* What a preferences file may hold: nothing (the defaults), or what an earlier
\* version left for a blog.
Loaded ==
  {Default} \cup
  {[Default EXCEPT !.onboarded = TRUE, !.blog[b] = ov] :
     b \in Blogs,
     ov \in {NoOverride,
             [theme |-> "custom", layout |-> None, custom |-> None],
             [theme |-> "custom", layout |-> Layouts[1],
              custom |-> CHOOSE c \in Edited : TRUE]}}

\* No App runs yet.
AppearanceInit ==
  /\ saved \in Loaded /\ prefs = saved
  /\ mode = Closed
  /\ openPub = None /\ feedSel \in Blogs
  /\ menuTarget = None /\ menuSel = 1 /\ editor = NoEditor /\ onboarding = FALSE
  /\ choices = FALSE /\ syncPrompt = FALSE /\ answers = {}
  /\ keys = 0 /\ asked = Global

\* App::new: preferences are loaded and migrated; the first launch starts with a layout
\* picker.  A restored session may have follows to reconcile.
New ==
  LET p == MigrateLegacyBlogCustoms(saved)
  IN /\ mode = Closed
     /\ Persist(p)
     /\ openPub' = None /\ menuTarget' = None /\ editor' = NoEditor
     /\ choices' = FALSE /\ syncPrompt' = FALSE /\ asked' = Global
     /\ onboarding' = ~p.onboarded
     /\ IF p.onboarded THEN mode' = "Browse" /\ menuSel' = 1 ELSE ShowLayoutPicker(p, None)
     /\ answers' \in SUBSET {"SyncDiff"}
     /\ UNCHANGED <<feedSel, keys>>

\* A key or click the App's current mode handles.
Key == keys < MaxKeys /\ keys' = keys + 1

\* `q`, or Quit in the palette: the worker has written what it was handed when it ends.
Quit ==
  /\ Key
  /\ mode \in {"Browse", "DocList", "Palette"}
  /\ mode' = Closed /\ answers' = {}
  /\ UNCHANGED <<settings, menu, lists, prompts>>

-----------------------------------------------------------------------------
(* Lists, prompts and information.                                         *)

\* Arrow keys in the sidebar.
MoveFeed ==
  /\ Key /\ mode = "Browse"
  /\ feedSel' \in Blogs \ {feedSel}
  /\ UNCHANGED <<settings, mode, menu, openPub, prompts, answers>>

\* Enter or a click on a feed of the sidebar, which may be beside the posts as well: its own
\* layout decides where its posts are shown.
OpenFeed ==
  /\ Key
  /\ mode \in {"Browse", "DocList"}
  /\ feedSel' \in Blogs
  /\ openPub' = feedSel'
  /\ mode' = IF LayoutFor(prefs, feedSel') = "TwoPane" THEN "DocList" ELSE "Browse"
  /\ UNCHANGED <<settings, menu, prompts, answers>>

\* A post is opened, or Esc goes back from the post list to the feeds.
LeaveDocList ==
  /\ Key /\ mode = "DocList"
  /\ mode' = "Browse"
  /\ openPub' \in {openPub, None}
  /\ UNCHANGED <<settings, menu, feedSel, prompts, answers>>

\* `/`, `a`, `L`, `:`, `?` and a click on the status line; the palette runs the same.
Enter ==
  /\ Key
  /\ \/ mode = "Browse" /\ mode' \in {"Search", "AddFeed", "SignIn", "Palette", "Help",
                                      "StatusDetail"}
     \/ mode = "DocList" /\ mode' \in {"Search", "Help", "StatusDetail"}
     \/ mode = "Palette" /\ mode' \in {"Search", "AddFeed", "SignIn", "Help"}
  /\ UNCHANGED <<settings, menu, lists, prompts, answers>>

\* Any key or click leaves an informational popup; Esc leaves an input.
Dismiss ==
  /\ Key
  /\ mode \in {"Help", "StatusDetail", "Search", "AddFeed", "SignIn", "Palette"}
  /\ mode' = "Browse"
  /\ UNCHANGED <<settings, menu, lists, prompts, answers>>

\* submit_input: the worker will answer; a search leaves the open feed.
SubmitInput ==
  /\ Key
  /\ mode \in {"Search", "AddFeed", "SignIn"}
  /\ mode' = "Browse"
  /\ openPub' = IF mode = "Search" THEN None ELSE openPub
  /\ answers' = answers \cup {CASE mode = "Search"  -> "Results"
                                [] mode = "AddFeed" -> "ChoosePublications"
                                [] mode = "SignIn"  -> "SyncDiff"}
  /\ UNCHANGED <<settings, menu, feedSel, prompts>>

\* sync_prompt_key: subscribe, remove or Esc, each dismisses the prompt.
AnswerSyncPrompt ==
  /\ Key /\ mode = "SyncPrompt"
  /\ syncPrompt' = FALSE /\ mode' = "Browse"
  /\ UNCHANGED <<settings, menu, lists, choices, answers>>

\* publication_picker_key: Enter or Esc.
AnswerPublicationPicker ==
  /\ Key /\ mode = "PublicationPicker"
  /\ choices' = FALSE /\ mode' = "Browse"
  /\ UNCHANGED <<settings, menu, lists, syncPrompt, answers>>

-----------------------------------------------------------------------------
(* Dialogs that change the appearance.                                     *)

\* Mutant: the picker for the global theme keeps the target of an earlier menu.
OpenThemePickerAsLeft ==
  /\ Key /\ mode \in {"Browse", "Palette"}
  /\ ShowThemePicker(menuTarget) /\ asked' = Global
  /\ UNCHANGED <<settings, lists, prompts, answers, menuTarget, editor, onboarding>>

\* `t`, or Theme in the palette: the global theme.
OpenThemePicker ==
  /\ Key /\ mode \in {"Browse", "Palette"}
  /\ menuTarget' = None /\ ShowThemePicker(None) /\ asked' = Global
  /\ UNCHANGED <<settings, lists, prompts, answers, editor, onboarding>>

\* Layout in the palette: the global layout.
OpenLayoutPicker ==
  /\ Key /\ mode = "Palette"
  /\ menuTarget' = None /\ ShowLayoutPicker(prefs, None) /\ asked' = Global
  /\ UNCHANGED <<settings, lists, prompts, answers, editor, onboarding>>

\* cycle_layout changes the global layout, whatever the open feed's override says.
CycleLayout ==
  /\ Key /\ mode = "Browse"
  /\ Persist([prefs EXCEPT !.layout = Layouts[(Position(Layouts, @) % Len(Layouts)) + 1]])
  /\ asked' = Global
  /\ UNCHANGED <<mode, lists, prompts, answers, menuTarget, menuSel, editor, onboarding>>

\* open_blog_menu: the open feed, else the highlighted one.
OpenBlogMenu ==
  /\ Key /\ mode \in {"Browse", "DocList"}
  /\ mode' = "BlogMenu" /\ menuSel' = 1
  /\ menuTarget' = Or(openPub, feedSel) /\ asked' = menuTarget'
  /\ UNCHANGED <<settings, lists, prompts, answers, editor, onboarding>>

\* Arrow keys in a picker or menu.
MoveCursor ==
  /\ Key
  /\ \/ mode = "ThemePicker" /\ menuSel' \in 1..Custom
     \/ mode = "LayoutPicker" /\ menuSel' \in 1..Len(Layouts)
     \/ mode = "BlogMenu" /\ menuSel' \in 1..3
  /\ UNCHANGED <<settings, mode, lists, prompts, answers, menuTarget, editor, onboarding,
                 asked>>

\* finish_onboarding: never again, and on to the reader.
FinishOnboarding(p) ==
  /\ Persist([p EXCEPT !.onboarded = TRUE])
  /\ onboarding' = FALSE /\ mode' = "Browse"

\* Where a picker ends: preferences p are kept, or the first launch is over.
Conclude(p) ==
  IF onboarding THEN FinishOnboarding(p)
  ELSE Persist(p) /\ mode' = "Browse" /\ UNCHANGED onboarding

\* Mutant: the editor edits for whatever target the menus have.
OpenThemeEditorForMenu ==
  /\ mode' = "ThemeEditor"
  /\ editor' = [target |-> menuTarget, draft |-> prefs.custom]
  /\ UNCHANGED <<settings, onboarding, menuTarget>>

\* open_theme_editor: a blog resumes its own palette, or starts from its colours.
OpenThemeEditor ==
  /\ mode' = "ThemeEditor"
  /\ editor' = IF menuTarget = None THEN [target |-> Global, draft |-> prefs.custom]
               ELSE [target |-> menuTarget,
                     draft  |-> Or(prefs.blog[menuTarget].custom, ColorsFor(prefs, menuTarget))]
  /\ UNCHANGED <<settings, onboarding, menuTarget>>

\* Mutant: the target moves into the editor instead of being copied.
ChooseThemeTakingTarget ==
  /\ Key /\ mode = "ThemePicker"
  /\ CASE menuSel = Custom -> /\ mode' = "ThemeEditor" /\ menuTarget' = None
                              /\ editor' = [target |-> Or(menuTarget, Global),
                                            draft  |-> prefs.custom]
                              /\ UNCHANGED <<settings, onboarding>>
       [] menuSel # Custom /\ menuTarget # None ->
            /\ Persist([prefs EXCEPT !.blog[menuTarget].theme = PRESETS[menuSel]])
            /\ menuTarget' = None /\ mode' = "Browse" /\ UNCHANGED <<editor, onboarding>>
       [] menuSel # Custom /\ menuTarget = None ->
            /\ Conclude([prefs EXCEPT !.theme = PRESETS[menuSel]])
            /\ UNCHANGED <<editor, menuTarget>>
  /\ UNCHANGED <<lists, prompts, answers, menuSel, asked>>

\* choose_theme_entry: a preset for the blog ends here even during the first launch.
ChooseTheme ==
  /\ Key /\ mode = "ThemePicker"
  /\ CASE menuSel = Custom -> OpenThemeEditor
       [] menuSel # Custom /\ menuTarget # None ->
            /\ Persist([prefs EXCEPT !.blog[menuTarget].theme = PRESETS[menuSel]])
            /\ menuTarget' = None /\ mode' = "Browse" /\ UNCHANGED <<editor, onboarding>>
       [] menuSel # Custom /\ menuTarget = None ->
            /\ Conclude([prefs EXCEPT !.theme = PRESETS[menuSel]])
            /\ UNCHANGED <<editor, menuTarget>>
  /\ UNCHANGED <<lists, prompts, answers, menuSel, asked>>

\* Esc in the theme picker ends the first launch, or goes back to the blog's menu.
LeaveThemePicker ==
  /\ Key /\ mode = "ThemePicker"
  /\ IF onboarding THEN FinishOnboarding(prefs) /\ UNCHANGED menuSel
     ELSE /\ mode' = (IF menuTarget # None THEN "BlogMenu" ELSE "Browse")
          /\ menuSel' = (IF menuTarget # None THEN 1 ELSE menuSel)
          /\ UNCHANGED <<settings, onboarding>>
  /\ UNCHANGED <<lists, prompts, answers, menuTarget, editor, asked>>

\* theme_editor_key: some channel of the draft changes.
EditDraft ==
  /\ Key /\ mode = "ThemeEditor"
  /\ \E palette \in Palettes : editor' = [editor EXCEPT !.draft = palette]
  /\ UNCHANGED <<settings, mode, lists, prompts, answers, menuTarget, menuSel, onboarding,
                 asked>>

\* Esc discards the draft.
CancelThemeEditor ==
  /\ Key /\ mode = "ThemeEditor"
  /\ editor' = NoEditor
  /\ IF onboarding THEN FinishOnboarding(prefs) /\ UNCHANGED menuSel
     ELSE /\ mode' = (IF editor.target # Global THEN "BlogMenu" ELSE "Browse")
          /\ menuSel' = (IF editor.target # Global THEN 1 ELSE menuSel)
          /\ UNCHANGED <<settings, onboarding>>
  /\ UNCHANGED <<lists, prompts, answers, menuTarget, asked>>

\* The draft becomes its target's palette, and the palette its target's theme.
Committed(p, target, draft) ==
  IF target = Global THEN [p EXCEPT !.custom = draft, !.theme = "custom"]
  ELSE [p EXCEPT !.blog[target].theme = "custom", !.blog[target].custom = draft]

\* commit_theme_editor
CommitThemeEditor ==
  /\ Key /\ mode = "ThemeEditor"
  /\ Conclude(Committed(prefs, editor.target, editor.draft))
  /\ editor' = NoEditor
  /\ menuTarget' = IF editor.target # Global THEN None ELSE menuTarget
  /\ UNCHANGED <<lists, prompts, answers, menuSel, asked>>

\* Mutant: an unfinished first launch is saved only when its theme is chosen.
ChooseLayoutUnsaved ==
  /\ Key /\ mode = "LayoutPicker"
  /\ LET p == IF menuTarget = None THEN [prefs EXCEPT !.layout = Layouts[menuSel]]
              ELSE [prefs EXCEPT !.blog[menuTarget].layout = Layouts[menuSel]]
     IN IF onboarding THEN prefs' = p /\ UNCHANGED saved ELSE Persist(p)
  /\ menuTarget' = None
  /\ IF onboarding THEN ShowThemePicker(None) /\ asked' = Global
     ELSE mode' = "Browse" /\ UNCHANGED <<menuSel, asked>>
  /\ UNCHANGED <<lists, prompts, answers, editor, onboarding>>

\* Enter in the layout picker takes the target; the first launch goes on to the theme.
ChooseLayout ==
  /\ Key /\ mode = "LayoutPicker"
  /\ Persist(IF menuTarget = None THEN [prefs EXCEPT !.layout = Layouts[menuSel]]
             ELSE [prefs EXCEPT !.blog[menuTarget].layout = Layouts[menuSel]])
  /\ menuTarget' = None
  /\ IF onboarding THEN ShowThemePicker(None) /\ asked' = Global
     ELSE mode' = "Browse" /\ UNCHANGED <<menuSel, asked>>
  /\ UNCHANGED <<lists, prompts, answers, editor, onboarding>>

\* Esc in the layout picker keeps its target.
LeaveLayoutPicker ==
  /\ Key /\ mode = "LayoutPicker"
  /\ IF onboarding THEN ShowThemePicker(menuTarget)
     ELSE mode' = "Browse" /\ UNCHANGED menuSel
  /\ UNCHANGED <<settings, lists, prompts, answers, menuTarget, editor, onboarding, asked>>

\* Enter in the blog's menu: its theme, its layout, or the global appearance.
ChooseInBlogMenu ==
  /\ Key /\ mode = "BlogMenu"
  /\ CASE menuSel = 1 -> ShowThemePicker(menuTarget) /\ UNCHANGED <<settings, menuTarget>>
       [] menuSel = 2 -> /\ ShowLayoutPicker(prefs, menuTarget)
                         /\ UNCHANGED <<settings, menuTarget>>
       [] menuSel = 3 -> /\ IF menuTarget = None THEN UNCHANGED settings
                            ELSE Persist([prefs EXCEPT !.blog[menuTarget] = NoOverride])
                         /\ menuTarget' = None /\ mode' = "Browse" /\ UNCHANGED menuSel
  /\ UNCHANGED <<lists, prompts, answers, editor, onboarding, asked>>

LeaveBlogMenu ==
  /\ Key /\ mode = "BlogMenu"
  /\ menuTarget' = None /\ mode' = "Browse"
  /\ UNCHANGED <<settings, lists, prompts, answers, menuSel, editor, onboarding, asked>>

-----------------------------------------------------------------------------
(* The worker's answers, which come in any mode.                           *)

Results ==
  /\ "Results" \in answers
  /\ answers' = answers \ {"Results"} /\ mode' = "DocList"
  /\ UNCHANGED <<settings, menu, lists, prompts, keys>>

\* One publication or none is followed, or not, without asking.
Added ==
  /\ "ChoosePublications" \in answers
  /\ answers' = answers \ {"ChoosePublications"}
  /\ UNCHANGED <<settings, mode, menu, lists, prompts, keys>>

ChoosePublications ==
  /\ "ChoosePublications" \in answers
  /\ answers' = answers \ {"ChoosePublications"}
  /\ choices' = TRUE /\ menuSel' = 1 /\ mode' = "PublicationPicker"
  /\ UNCHANGED <<settings, lists, syncPrompt, menuTarget, editor, onboarding, asked, keys>>

\* Follows only this device has open the prompt; none clears it, in any mode.
SyncDiff ==
  /\ "SyncDiff" \in answers
  /\ answers' = answers \ {"SyncDiff"}
  /\ \/ syncPrompt' = TRUE /\ mode' = "SyncPrompt"
     \/ syncPrompt' = FALSE /\ UNCHANGED mode
  /\ UNCHANGED <<settings, menu, lists, choices, keys>>

AppearanceNext ==
  \/ New \/ Quit \/ MoveFeed \/ OpenFeed \/ LeaveDocList \/ Enter \/ Dismiss \/ SubmitInput
  \/ AnswerSyncPrompt \/ AnswerPublicationPicker
  \/ OpenThemePicker \/ OpenLayoutPicker \/ CycleLayout \/ OpenBlogMenu \/ MoveCursor
  \/ ChooseTheme \/ LeaveThemePicker \/ EditDraft \/ CancelThemeEditor \/ CommitThemeEditor
  \/ ChooseLayout \/ LeaveLayoutPicker \/ ChooseInBlogMenu \/ LeaveBlogMenu
  \/ Results \/ Added \/ ChoosePublications \/ SyncDiff

AppearanceSpec == AppearanceInit /\ [][AppearanceNext]_appearanceVars

-----------------------------------------------------------------------------
(* Properties.                                                             *)

\* A dialog always has the subject its handler acts on, however the worker's answers
\* moved the reader between dialogs: the blog menu a blog, the editor a draft of the
\* target the picker was opened for, the publication picker its candidates.  The cursor
\* all of them share stands on one of the open dialog's entries.
MenusHaveTheirSubject ==
  /\ mode = "ThemePicker" => menuSel <= Custom
  /\ mode = "LayoutPicker" => menuSel <= Len(Layouts)
  /\ mode = "BlogMenu" => menuTarget # None /\ menuSel <= 3
  /\ mode = "ThemeEditor" => editor # NoEditor /\ editor.target = Or(menuTarget, Global)
  /\ mode = "PublicationPicker" => choices

\* A blog with a custom theme has a palette of its own, whatever an earlier version
\* saved: editing the global palette never changes what such a blog looks like.
BlogsHaveTheirOwnPalette ==
  mode # Closed =>
  \A b \in Blogs : prefs.blog[b].theme = "custom" => prefs.blog[b].custom # None

\* The worker was handed every change of the preferences, so the next App opens with
\* what this one shows, a first launch broken off by an answer included.
EveryChangeIsSaved == saved = prefs

\* Changing one appearance never changes another: not through a target an earlier
\* dialog left, nor a draft an answer interrupted.
OnlyTheAskedChanges ==
  [][mode # Closed =>
       /\ \A b \in Blogs : prefs'.blog[b] # prefs.blog[b] => b \in {asked, asked'}
       /\ [prefs' EXCEPT !.blog = prefs.blog, !.onboarded = prefs.onboarded] # prefs
            => Global \in {asked, asked'}]_appearanceVars
=============================================================================
