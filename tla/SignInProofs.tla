---------------------------- MODULE SignInProofs ----------------------------
(***************************************************************************)
(* MCSignIn for any users, tabs, documents and bounds, the specification   *)
(* that SignIn.cfg checks on a small instance.  The web has a module of    *)
(* its own; here are the desktop's sign-in, the desktop's cache, and at    *)
(* the end all shells together.                                            *)
(*                                                                         *)
(* On the desktop an answer comes several steps after the changes it       *)
(* reports, to files the process may leave half changed by ending at any   *)
(* step between them.  Inductive is what each step of a command knows of   *)
(* them (DeskProgress), which of it holds only while the keyring stays as  *)
(* it is (steady), and that for so long the store chosen at the start of   *)
(* the process is the store a fresh look would choose (StoreKept).         *)
(*                                                                         *)
(* StoreServes speaks of an open cache only, but what it says must survive *)
(* the process that wrote it: the next one may be of another version, and  *)
(* may stop between the three transactions of its start.  Inductive is     *)
(* that the tables agree with the schema stamped in settings at any time,  *)
(* and that an open cache has the stamp of its program.                    *)
(***************************************************************************)
EXTENDS MCSignIn, WebAuthProofs, TLAPS

(* The desktop.                                                            *)

StoreKept == step # "closed" /\ steady => clientStore = Selected

\* What the files hold at the steps an answer, or a move, depends on.
DeskProgress ==
  /\ step \in {"import", "remove"} => clientStore = "keyring"
  /\ step = "import" => keyring = NoSessions /\ sessionFile # NoSessions
  /\ step = "remove" => keyring = sessionFile /\ keyring # NoSessions
  /\ step \in {"restore", "check"} /\ steady /\ reachable /\ keyring = NoSessions =>
       sessionFile = NoSessions
  /\ step \in {"check", "resume", "recheck"} => accountFile = user
  /\ step = "write" => /\ "exact" \in {keyring[user], sessionFile[user]}
                       /\ steady => Held(clientStore)[user] = "exact"
  /\ step = "unlink account" => sessionFile = NoSessions
  /\ step \in {"unlink session", "unlink account"} /\ user = None /\ steady /\ reachable =>
       keyring = NoSessions

\* Whom a command is about: a log-out about nobody, but whom the file names.
Subjects ==
  /\ step = "closed" => account = None
  /\ step \in {"idle", "closed"} => user = None
  /\ step = "revoke" /\ user = None => accountFile # None

DInv == shell = "desktop" /\ DesktopTypeOK /\ StoreKept /\ DeskProgress /\ Subjects

-----------------------------------------------------------------------------
(* The stores.                                                             *)

LEMMA NoSessionsType == NoSessions \in Sessions
BY DEF NoSessions, Sessions

\* What an edit of one session gives.
LEMMA EditedSession ==
  ASSUME NEW map \in Sessions, NEW u \in Users, NEW s \in Scopes \cup {None}
  PROVE  /\ [map EXCEPT ![u] = s] \in Sessions
         /\ [map EXCEPT ![u] = s][u] = s
BY DEF Sessions

LEMMA HeldType ==
  ASSUME DesktopTypeOK, NEW store
  PROVE  Held(store) \in Sessions
BY DEF DesktopTypeOK, Held

\* Replacing the map of a store keeps both stores well typed.
LEMMA ReplacedType ==
  ASSUME DesktopTypeOK, NEW store, NEW map \in Sessions, Replace(store, map)
  PROVE  keyring' \in Sessions /\ sessionFile' \in Sessions
BY DEF DesktopTypeOK, Replace

\* A session that is refreshed or bought leaves the stores well typed.
LEMMA StoredType ==
  ASSUME DesktopTypeOK, user \in Users, StoreSession
  PROVE  keyring' \in Sessions /\ sessionFile' \in Sessions
<1>1. PICK s \in Scopes : Replace(clientStore, [Held(clientStore) EXCEPT ![user] = s])
  BY DEF StoreSession
<1>2. [Held(clientStore) EXCEPT ![user] = s] \in Sessions
  BY HeldType, EditedSession
<1>3. QED
  BY <1>1, <1>2, ReplacedType

-----------------------------------------------------------------------------
(* The invariant.                                                          *)

LEMMA DesktopInitially == DesktopInit => DInv
<1> SUFFICES ASSUME DesktopInit PROVE DInv
  OBVIOUS
<1>1. keyring \in Sessions /\ sessionFile \in Sessions
  BY NoSessionsType, EditedSession DEF DesktopInit
<1>2. DesktopTypeOK
  <2>1. steady \in BOOLEAN /\ reachable \in BOOLEAN
    <3>1. steady = FALSE /\ reachable \in BOOLEAN
      BY DEF DesktopInit
    <3>2. FALSE \in BOOLEAN
      OBVIOUS
    <3>3. QED
      BY <3>1, <3>2
  <2>2. QED
    BY <1>1, <2>1 DEF DesktopInit, DesktopTypeOK, DesktopSteps
<1>3. StoreKept /\ DeskProgress /\ Subjects
  BY DEF DesktopInit, StoreKept, DeskProgress, Subjects
<1>4. QED
  BY <1>2, <1>3 DEF DInv, DesktopInit

\* The steps of a start, and the keyring's coming and going.
LEMMA StartsKeepInv ==
  ASSUME DInv, shell' = shell,
         StartDesktop \/ ImportLegacy \/ RemoveLegacy \/ RestoreAccount \/ KeyringComesOrGoes
  PROVE  DInv'
<1> USE DEF DInv, commandVars, files, stores, StoreKept, DeskProgress, Subjects, Selected
<1>1. CASE StartDesktop
  BY <1>1, SignInAssumption DEF StartDesktop, DesktopTypeOK, DesktopSteps, Held
<1>2. CASE ImportLegacy
  BY <1>2, SignInAssumption DEF ImportLegacy, DesktopTypeOK, DesktopSteps, Held
<1>3. CASE RemoveLegacy
  BY <1>3, SignInAssumption, NoSessionsType DEF RemoveLegacy, DesktopTypeOK, DesktopSteps, Held
<1>4. CASE RestoreAccount
  BY <1>4, SignInAssumption DEF RestoreAccount, End, DesktopTypeOK, DesktopSteps, Held
<1>5. CASE KeyringComesOrGoes
  BY <1>5, SignInAssumption DEF KeyringComesOrGoes, DesktopTypeOK, DesktopSteps, Held
<1>6. QED
  BY <1>1, <1>2, <1>3, <1>4, <1>5

\* A look at the grant: the command goes on with the exact one, revokes any other, or ends.
LEMMA GrantsKeepInv ==
  ASSUME DInv, shell' = shell, CheckGrant \/ RecheckGrant \/ CheckNewGrant
  PROVE  DInv'
<1>1. user \in Users /\ user # None /\ step \in {"check", "recheck", "grant"}
  BY SignInAssumption DEF CheckGrant, RecheckGrant, CheckNewGrant, DInv, DesktopTypeOK
<1>2. UNCHANGED <<keyring, sessionFile, accountFile, reachable, clientStore, steady>>
  BY DEF CheckGrant, RecheckGrant, CheckNewGrant, EnsureGrant, files
<1>3. CASE \/ step = "check" /\ OnTo("resume") /\ UNCHANGED found
           \/ step = "recheck" /\ End(user) /\ UNCHANGED found
           \/ OnTo("revoke") /\ found' = Selected
           \/ End(account) /\ UNCHANGED found
  <2> USE DEF DInv, DesktopTypeOK, DesktopSteps, StoreKept, Selected, DeskProgress, Subjects
  <2>1. CASE step = "check" /\ OnTo("resume") /\ UNCHANGED found
    BY <1>1, <1>2, <2>1 DEF OnTo
  <2>2. CASE step = "recheck" /\ End(user) /\ UNCHANGED found
    BY <1>1, <1>2, <2>2 DEF End
  <2>3. CASE OnTo("revoke") /\ found' = Selected
    BY <1>1, <1>2, <2>3 DEF OnTo
  <2>4. CASE End(account) /\ UNCHANGED found
    BY <1>1, <1>2, <2>4 DEF End
  <2>5. QED
    BY <1>3, <2>1, <2>2, <2>3, <2>4
<1>4. CASE step = "grant" /\ OnTo("write") /\ UNCHANGED found /\ Held(Selected)[user] = "exact"
  BY <1>1, <1>2, <1>4
  DEF OnTo, DInv, DesktopTypeOK, DesktopSteps, StoreKept, Selected, DeskProgress, Held, Subjects
<1>5. QED
  BY <1>3, <1>4 DEF CheckGrant, RecheckGrant, CheckNewGrant, EnsureGrant

\* A session that is refreshed or bought is stored where the client looks.
LEMMA SessionsKeepInv ==
  ASSUME DInv, shell' = shell, ResumeSession \/ ExchangeCode
  PROVE  DInv'
<1>1. /\ user \in Users /\ step \in {"resume", "code"}
      /\ UNCHANGED <<accountFile, reachable, clientStore, found, steady>>
  BY DEF ResumeSession, ExchangeCode, DInv, DesktopTypeOK
<1>2. \/ step = "resume" /\ OnTo("recheck")
      \/ step = "code" /\ OnTo("grant")
      \/ End(account)
  BY DEF ResumeSession, ExchangeCode
<1>3. keyring' \in Sessions /\ sessionFile' \in Sessions
  <2>1. CASE UNCHANGED stores
    BY <2>1 DEF DInv, DesktopTypeOK, stores
  <2>2. CASE StoreSession
    BY <1>1, <2>2, StoredType DEF DInv
  <2>3. QED
    BY <2>1, <2>2 DEF ResumeSession, ExchangeCode
<1>4. QED
  BY <1>1, <1>2, <1>3
  DEF OnTo, End, DInv, DesktopTypeOK, DesktopSteps, StoreKept, Selected, DeskProgress, Subjects

\* The rest of a sign-in.
LEMMA LoginKeepsInv ==
  ASSUME DInv, shell' = shell,
         (\E u \in Users : BeginLogin(u)) \/ WaitForCallback \/ WriteAccount
  PROVE  DInv'
<1> USE DEF DInv, commandVars, files, stores, StoreKept, DeskProgress, Subjects, Selected
<1>1. CASE \E u \in Users : BeginLogin(u)
  BY <1>1, SignInAssumption DEF BeginLogin, DesktopTypeOK, DesktopSteps, Held
<1>2. CASE WaitForCallback
  BY <1>2, SignInAssumption DEF WaitForCallback, OnTo, End, DesktopTypeOK, DesktopSteps, Held
<1>3. CASE WriteAccount
  BY <1>3, SignInAssumption DEF WriteAccount, End, DesktopTypeOK, DesktopSteps, Held
<1>4. QED
  BY <1>1, <1>2, <1>3

\* Revocation, by a log-out or a grant that is not exact, is of somebody and may leave the
\* client's store as it was.
LEMMA RevocationKeepsInv ==
  ASSUME DInv, shell' = shell, RevokeSession
  PROVE  DInv'
<1> DEFINE u == IF user = None THEN accountFile ELSE user
<1>1. /\ step = "revoke" /\ OnTo("clear")
      /\ UNCHANGED <<accountFile, reachable, clientStore, found, steady>>
      /\ u \in Users
  BY DEF RevokeSession, DInv, DesktopTypeOK, Subjects
<1>2. keyring' \in Sessions /\ sessionFile' \in Sessions
  <2>1. CASE UNCHANGED stores
    BY <2>1 DEF DInv, DesktopTypeOK, stores
  <2>2. CASE Replace(clientStore, [Held(clientStore) EXCEPT ![u] = None])
    <3>1. [Held(clientStore) EXCEPT ![u] = None] \in Sessions
      BY <1>1, HeldType, EditedSession DEF DInv
    <3>2. QED
      BY <2>2, <3>1, ReplacedType DEF DInv
  <2>3. QED
    BY <2>1, <2>2 DEF RevokeSession
<1> HIDE DEF u
<1>3. QED
  BY <1>1, <1>2
  DEF OnTo, DInv, DesktopTypeOK, DesktopSteps, StoreKept, Selected, DeskProgress, Subjects

\* A log-out that clears the store it finds leaves none in it, or knows that the keyring
\* refused.
LEMMA ClearingKeepsInv ==
  ASSUME DInv, shell' = shell, ClearStore
  PROVE  DInv'
<1>1. /\ step = "clear" /\ OnTo("unlink session")
      /\ UNCHANGED <<accountFile, reachable, clientStore, found>>
  BY DEF ClearStore
<1>2. keyring' \in Sessions /\ sessionFile' \in Sessions
  BY NoSessionsType DEF ClearStore, Replace, stores, DInv, DesktopTypeOK
<1>3. steady' \in BOOLEAN /\ (steady' => steady)
  <2>1. steady \in BOOLEAN
    BY DEF DInv, DesktopTypeOK
  <2>2. PICK kept \in BOOLEAN : UNCHANGED steady \/ steady' = (steady /\ kept)
    BY Zenon DEF ClearStore
  <2>3. QED
    BY <2>1, <2>2
<1>4. user = None /\ steady' /\ reachable => keyring' = NoSessions
  BY DEF ClearStore, Replace, Selected
<1>5. QED
  BY <1>1, <1>2, <1>3, <1>4
  DEF OnTo, DInv, DesktopTypeOK, DesktopSteps, StoreKept, Selected, DeskProgress, Subjects

LEMMA LogOutKeepsInv ==
  ASSUME DInv, shell' = shell, LogOut \/ UnlinkSession \/ UnlinkAccount
  PROVE  DInv'
<1> USE DEF DInv, DesktopTypeOK, DesktopSteps, StoreKept, Selected, DeskProgress, Subjects,
        files, stores
<1>1. CASE LogOut
  BY <1>1 DEF LogOut, OnTo
<1>2. CASE UnlinkSession
  BY <1>2, NoSessionsType DEF UnlinkSession, OnTo, End
<1>3. CASE UnlinkAccount
  BY <1>3 DEF UnlinkAccount, End
<1>4. QED
  BY <1>1, <1>2, <1>3

\* The process may end at any step: nothing it knew of the files is relied on.
LEMMA EndKeepsInv ==
  ASSUME DInv, shell' = shell, EndDesktop
  PROVE  DInv'
BY NoSessionsType
DEF EndDesktop, Stop, DInv, DesktopTypeOK, DesktopSteps, StoreKept, DeskProgress, Subjects

LEMMA DesktopNextKeepsInv ==
  DInv /\ [DesktopNext]_<<shell, deskVars>> => DInv'
<1> SUFFICES ASSUME DInv, [DesktopNext]_<<shell, deskVars>> PROVE DInv'
  OBVIOUS
<1>1. CASE UNCHANGED <<shell, deskVars>>
  BY <1>1
  DEF deskVars, files, commandVars, DInv, DesktopTypeOK, StoreKept, Selected, DeskProgress,
      Held, Subjects
<1>2. CASE DesktopNext
  BY <1>2, StartsKeepInv, GrantsKeepInv, SessionsKeepInv, LoginKeepsInv, RevocationKeepsInv,
     ClearingKeepsInv, LogOutKeepsInv, EndKeepsInv
  DEF DesktopNext, Continue
<1>3. QED
  BY <1>1, <1>2

\* Whatever users and files: the store, and what each step of a command knows of the files.
THEOREM DesktopInvariant == DesktopSpec => []DInv
BY DesktopInitially, DesktopNextKeepsInv, PTL DEF DesktopSpec

\* The types, and that a step about a user has one.
THEOREM DesktopTypeCorrect == DesktopSpec => []DesktopTypeOK
<1>1. DInv => DesktopTypeOK
  BY DEF DInv
<1>2. QED
  BY <1>1, DesktopInvariant, PTL

-----------------------------------------------------------------------------
(* What the worker answers.                                                *)

\* Only the last look at the grant and the account's file sign someone in.
LEMMA SignsInWithGrant ==
  ASSUME DInv, DesktopNext, account' \notin {account, None}
  PROVE  /\ accountFile' = account'
         /\ "exact" \in {keyring'[account'], sessionFile'[account']}
         /\ steady' => Held(clientStore)'[account'] = "exact"
<1>1. RecheckGrant \/ WriteAccount
  BY DEF DesktopNext, Continue, StartDesktop, BeginLogin, LogOut, ImportLegacy, RemoveLegacy,
         RestoreAccount, CheckGrant, EnsureGrant, ResumeSession, WaitForCallback,
         ExchangeCode, CheckNewGrant, RevokeSession, ClearStore, UnlinkSession, UnlinkAccount,
         EndDesktop, KeyringComesOrGoes, OnTo, End, Stop, commandVars
<1>2. CASE RecheckGrant
  <2>1. /\ Held(Selected)[user] = "exact" /\ End(user)
        /\ UNCHANGED <<keyring, sessionFile, accountFile, reachable, clientStore, steady>>
    BY <1>2 DEF RecheckGrant, EnsureGrant, OnTo, End, files
  <2>2. accountFile = user /\ (steady => clientStore = Selected)
    BY <1>2 DEF RecheckGrant, DInv, StoreKept, DeskProgress
  <2>3. QED
    BY <2>1, <2>2 DEF End, Held, Selected
<1>3. CASE WriteAccount
  <2>1. /\ accountFile' = user /\ End(user)
        /\ UNCHANGED <<keyring, sessionFile, clientStore, steady>>
    BY <1>3 DEF WriteAccount, End, stores
  <2>2. /\ "exact" \in {keyring[user], sessionFile[user]}
        /\ steady => Held(clientStore)[user] = "exact"
    BY <1>3 DEF WriteAccount, DInv, DeskProgress
  <2>3. QED
    BY <2>1, <2>2 DEF End, Held
<1>4. QED
  BY <1>1, <1>2, <1>3

\* Only the file of the account, removed last, logs someone out.
LEMMA LogsOutWithoutSessions ==
  ASSUME DInv, DesktopNext, account # None, account' = None, step' # "closed"
  PROVE  /\ sessionFile' = NoSessions /\ accountFile' = None
         /\ steady' /\ reachable' => keyring' = NoSessions
<1>1. step \in {"recheck", "write"} => user # None
  BY DEF DInv, DesktopTypeOK
<1>2. ~(RecheckGrant \/ WriteAccount)
  BY <1>1 DEF RecheckGrant, EnsureGrant, WriteAccount, OnTo, End
<1>3. UnlinkAccount
  BY <1>2
  DEF DesktopNext, Continue, StartDesktop, BeginLogin, LogOut, ImportLegacy, RemoveLegacy,
      RestoreAccount, CheckGrant, EnsureGrant, ResumeSession, WaitForCallback,
      ExchangeCode, CheckNewGrant, RevokeSession, ClearStore, UnlinkSession, EndDesktop,
      KeyringComesOrGoes, OnTo, End, Stop, commandVars
<1>4. /\ accountFile' = None /\ user = None
      /\ UNCHANGED <<keyring, sessionFile, reachable, steady>>
  BY <1>3 DEF UnlinkAccount, End, stores
<1>5. sessionFile = NoSessions /\ (steady /\ reachable => keyring = NoSessions)
  BY <1>3, <1>4 DEF UnlinkAccount, DInv, DeskProgress
<1>6. QED
  BY <1>4, <1>5

\* Whatever users, files and keyring: signed in means an account the next start finds and
\* an exact grant in one of the stores; logged out means that both files are empty.  While
\* the keyring has neither come, gone nor refused since the process started, the grant is in
\* the client's store, and after a log-out a keyring that is there is empty too (tui auth.rs
\* restore, login, logout).
THEOREM DesktopAnswersKept == DesktopSpec => DesktopAnswersHold
<1>1. DInv /\ [DesktopNext]_<<shell, deskVars>> =>
        [shell = "desktop" =>
         /\ account' \notin {account, None} =>
              /\ accountFile' = account'
              /\ "exact" \in {keyring'[account'], sessionFile'[account']}
              /\ steady' => Held(clientStore)'[account'] = "exact"
         /\ account # None /\ account' = None /\ step' # "closed" =>
              /\ sessionFile' = NoSessions /\ accountFile' = None
              /\ steady' /\ reachable' => keyring' = NoSessions]_deskVars
  BY SignsInWithGrant, LogsOutWithoutSessions
<1>2. QED
  BY <1>1, DesktopInvariant, PTL DEF DesktopSpec, DesktopAnswersHold

LEMMA MovesKeepEach ==
  ASSUME DInv, DesktopNext, step \in {"closed", "import", "remove"},
         NEW u \in Users, keyring[u] # None \/ sessionFile[u] # None
  PROVE  keyring'[u] # None \/ sessionFile'[u] # None
<1>1. \/ StartDesktop \/ KeyringComesOrGoes
      \/ ImportLegacy \/ RemoveLegacy \/ EndDesktop
  BY DEF DesktopNext, Continue, BeginLogin, LogOut, RestoreAccount, CheckGrant, ResumeSession,
      RecheckGrant, WaitForCallback, ExchangeCode, CheckNewGrant, WriteAccount, RevokeSession,
      ClearStore, UnlinkSession, UnlinkAccount
<1>2. CASE StartDesktop \/ KeyringComesOrGoes \/ EndDesktop
  BY <1>2 DEF StartDesktop, KeyringComesOrGoes, EndDesktop, files
<1>3. CASE ImportLegacy
  BY <1>3 DEF ImportLegacy, DInv, DeskProgress, NoSessions
<1>4. CASE RemoveLegacy
  BY <1>4 DEF RemoveLegacy, DInv, DeskProgress
<1>5. QED
  BY <1>1, <1>2, <1>3, <1>4

\* While the keyring stays as it is, a start looks at its end where Findable looked at its
\* beginning, with what was found there.
LEMMA StartKeepsGrant ==
  ASSUME DInv, DesktopNext, step \in {"closed", "import", "remove", "restore", "check"},
         accountFile # None, Findable[accountFile] = "exact", steady'
  PROVE  /\ accountFile' = accountFile /\ Findable'[accountFile] = "exact"
         /\ step' # "revoke"
<1>1. accountFile \in Users
  BY DEF DInv, DesktopTypeOK
<1>2. \/ StartDesktop \/ ImportLegacy \/ RemoveLegacy \/ RestoreAccount \/ CheckGrant
      \/ EndDesktop
  BY DEF DesktopNext, Continue, BeginLogin, LogOut, ResumeSession, KeyringComesOrGoes,
      RecheckGrant, WaitForCallback, ExchangeCode, CheckNewGrant, WriteAccount, RevokeSession,
      ClearStore, UnlinkSession, UnlinkAccount
<1>3. CASE StartDesktop
  BY <1>3 DEF StartDesktop, files, Findable
<1>4. CASE ImportLegacy
  BY <1>4 DEF ImportLegacy, DInv, DeskProgress, Findable
<1>5. CASE RemoveLegacy
  <2>1. reachable /\ keyring = sessionFile /\ keyring # NoSessions
    BY <1>5 DEF RemoveLegacy, DInv, DeskProgress, StoreKept, Selected
  <2>2. QED
    BY <1>5, <2>1 DEF RemoveLegacy, Findable
<1>6. CASE RestoreAccount
  BY <1>6 DEF RestoreAccount, files, Findable
<1>7. CASE CheckGrant
  <2>1. /\ UNCHANGED <<keyring, sessionFile, accountFile, reachable, steady>>
        /\ step = "check" /\ user = accountFile
    BY <1>7 DEF CheckGrant, EnsureGrant, files, DInv, DeskProgress
  <2>2. Held(Selected)[accountFile] = "exact"
    <3>1. CASE reachable /\ keyring = NoSessions
      <4>1. sessionFile = NoSessions
        BY <2>1, <3>1 DEF DInv, DeskProgress
      <4>2. NoSessions[accountFile] = "exact"
        BY <3>1, <4>1 DEF Findable
      <4>3. QED
        BY <3>1, <4>2 DEF Held, Selected
    <3>2. CASE ~(reachable /\ keyring = NoSessions)
      BY <3>2 DEF Findable, Held, Selected
    <3>3. QED
      BY <3>1, <3>2
  <2>3. step' # "revoke"
    BY <1>7, <2>1, <2>2 DEF CheckGrant, EnsureGrant, OnTo, End
  <2>4. QED
    BY <2>1, <2>3 DEF Findable
<1>8. CASE EndDesktop
  BY <1>8 DEF EndDesktop, Stop, Findable
<1>9. QED
  BY <1>2, <1>3, <1>4, <1>5, <1>6, <1>7, <1>8

\* Whatever users and files, moving the sessions loses none at any of its steps, and a start
\* forgets neither the account nor its exact grant while the keyring neither comes, goes nor
\* refuses (tui auth.rs build_client, migrate_legacy_file, restore).
THEOREM StartsKeepSessions == DesktopSpec => StartKeepsSessions
<1>1. DInv /\ [DesktopNext]_<<shell, deskVars>> =>
        [/\ step \in {"closed", "import", "remove"} =>
              \A u \in Users : keyring[u] # None \/ sessionFile[u] # None =>
                                 keyring'[u] # None \/ sessionFile'[u] # None
         /\ step \in {"closed", "import", "remove", "restore", "check"} =>
              (accountFile # None /\ Findable[accountFile] = "exact" /\ steady' =>
                 /\ accountFile' = accountFile /\ Findable'[accountFile] = "exact"
                 /\ step' # "revoke")]_deskVars
  BY MovesKeepEach, StartKeepsGrant
<1>2. QED
  BY <1>1, DesktopInvariant, PTL DEF DesktopSpec, StartKeepsSessions

-----------------------------------------------------------------------------
(* The desktop's cache.                                                    *)

\* Every document is in the stamped format, listed, and posted for each of its words.
DocumentsServed ==
  \A d \in Docs : Stored(d) =>
    /\ documents[d].schema = settings.schema
    /\ <<documents[d].site, d>> \in docsByPub
    /\ \A t \in documents[d].words : <<t, d>> \in index

\* Nothing is posted for a document that has gone.
PostingsStored == \A t \in Terms, d \in Docs : <<t, d>> \in index => Stored(d)

CursorsStamped ==
  \A p \in Pubs : /\ cursors[p] \in {Absent, settings.schema}
                  /\ olderCursors[p] \in {Absent, settings.schema}

OpenStamped == storeStep = "open" => settings.schema = program

\* The follow table is of the type commands use from init_tables on.
TablesMade == storeStep \in {"schema", "open"} => followsType = "str"

SInv ==
  /\ StoreTypeOK /\ TablesMade /\ OpenStamped
  /\ DocumentsServed /\ PostingsStored /\ CursorsStamped

-----------------------------------------------------------------------------

LEMMA NoFileInvariant ==
  ASSUME NoFile, program \in Schemas, storeStep = "closed"
  PROVE  SInv
<1> USE DEF NoFile, NoDocuments, NoCursors
<1>1. settings \in [schema : Formats, images : BOOLEAN]
  BY DEF Formats
<1>2. /\ follows \in [Pubs -> {Absent, "", "rkey"}]
      /\ \A p \in Pubs : follows[p] # "rkey"
  BY StoreAssumption
<1>3. StoreTypeOK
  BY <1>1, <1>2 DEF StoreTypeOK
<1>4. DocumentsServed /\ PostingsStored /\ CursorsStamped /\ OpenStamped /\ TablesMade
  BY DEF DocumentsServed, PostingsStored, CursorsStamped, OpenStamped, TablesMade, Stored
<1>5. QED
  BY <1>3, <1>4 DEF SInv

LEMMA UnversionedInvariant ==
  ASSUME UnversionedFile, program \in Schemas, storeStep = "closed"
  PROVE  SInv
<1>1. /\ documents \in [Docs -> StoredDocs \cup {Absent}]
      /\ \A d \in Docs : Stored(d) => documents[d] \in StoredDocs
                                      /\ documents[d].schema = "unversioned"
  BY DEF UnversionedFile, Stored
<1>2. \A d \in Docs : Stored(d) => documents[d].site \in Pubs
                                   /\ documents[d].words \in SUBSET Terms
  BY <1>1 DEF StoredDocs
<1>3. /\ docsByPub = {<<documents[d].site, d>> : d \in {d \in Docs : Stored(d)}}
      /\ index = UNION {documents[d].words \X {d} : d \in {d \in Docs : Stored(d)}}
  BY DEF UnversionedFile
<1>4. docsByPub \in SUBSET (Pubs \X Docs) /\ index \in SUBSET (Terms \X Docs)
  <2>1. docsByPub \in SUBSET (Pubs \X Docs)
    BY <1>2, <1>3
  <2>2. ASSUME NEW posting \in index
        PROVE  posting \in Terms \X Docs
    <3>1. PICK d \in Docs : Stored(d) /\ posting \in documents[d].words \X {d}
      BY <1>3, <2>2
    <3>2. QED
      BY <1>2, <3>1
  <2>3. QED
    BY <2>1, <2>2
<1>5. /\ settings \in [schema : Formats, images : BOOLEAN]
      /\ settings.schema = "unversioned"
  BY DEF UnversionedFile, Formats
<1>6. /\ cursors \in [Pubs -> Formats \cup {Absent}]
      /\ olderCursors \in [Pubs -> Formats \cup {Absent}]
      /\ \A p \in Pubs : /\ cursors[p] \in {Absent, "unversioned"}
                         /\ olderCursors[p] \in {Absent, "unversioned"}
  BY DEF UnversionedFile, Formats
<1>7. /\ follows \in [Pubs -> {Absent, "", "rkey"}] /\ followsType \in {"unit", "str"}
      /\ followsType = "unit" => \A p \in Pubs : follows[p] # "rkey"
  BY StoreAssumption DEF UnversionedFile
<1>8. StoreTypeOK
  BY <1>1, <1>4, <1>5, <1>6, <1>7 DEF StoreTypeOK
<1>9. DocumentsServed
  <2> SUFFICES ASSUME NEW d \in Docs, Stored(d)
               PROVE  /\ documents[d].schema = settings.schema
                      /\ <<documents[d].site, d>> \in docsByPub
                      /\ \A t \in documents[d].words : <<t, d>> \in index
    BY DEF DocumentsServed
  <2>1. ASSUME NEW t \in documents[d].words
        PROVE  <<t, d>> \in index
    <3>1. <<t, d>> \in documents[d].words \X {d}
      BY <2>1
    <3>2. QED
      BY <1>3, <3>1
  <2>2. QED
    BY <1>1, <1>3, <1>5, <2>1
<1>10. PostingsStored
  <2> SUFFICES ASSUME NEW t \in Terms, NEW d \in Docs, <<t, d>> \in index
               PROVE  Stored(d)
    BY DEF PostingsStored
  <2>1. PICK e \in Docs : Stored(e) /\ <<t, d>> \in documents[e].words \X {e}
    BY <1>3
  <2>2. QED
    BY <2>1
<1>11. CursorsStamped /\ OpenStamped /\ TablesMade
  BY <1>5, <1>6 DEF CursorsStamped, OpenStamped, TablesMade
<1>12. QED
  BY <1>8, <1>9, <1>10, <1>11 DEF SInv

LEMMA StoreInitInvariant == StoreInit => SInv
BY NoFileInvariant, UnversionedInvariant DEF StoreInit

LEMMA StampedSettings ==
  ASSUME NEW map \in [schema : Formats, images : BOOLEAN], NEW format \in Formats
  PROVE  /\ [map EXCEPT !.schema = format] \in [schema : Formats, images : BOOLEAN]
         /\ [map EXCEPT !.schema = format].schema = format
OBVIOUS

\* Opening: the cache is dropped and stamped in one step, or has the stamp already.
LEMMA OpeningInvariant ==
  ASSUME SInv,
         \/ \E p \in Schemas : OpenStore(p)
         \/ MigrateFollows \/ InitTables \/ MigrateSchema \/ CloseStore
  PROVE  SInv'
<1> USE StoreAssumption
    DEF SInv, StoreTypeOK, DocumentsServed, PostingsStored, CursorsStamped, OpenStamped,
        TablesMade, Stored, bodies, Formats
<1>1. ASSUME NEW p \in Schemas, OpenStore(p)
      PROVE  SInv'
  BY <1>1 DEF OpenStore
<1>2. CASE MigrateFollows
  BY <1>2 DEF MigrateFollows
<1>3. CASE InitTables
  BY <1>3 DEF InitTables
<1>4. CASE MigrateSchema
  <2>1. CASE settings.schema = program
    BY <1>4, <2>1 DEF MigrateSchema
  <2>2. CASE settings.schema # program
    <3>1. /\ settings' \in [schema : Formats, images : BOOLEAN]
          /\ settings'.schema = program
      <4>1. /\ settings' = [settings EXCEPT !.schema = program]
            /\ settings \in [schema : Formats, images : BOOLEAN]
        BY <1>4, <2>2 DEF MigrateSchema
      <4>2. PICK format : format = program /\ format \in Formats
        OBVIOUS
      <4>3. QED
        BY <4>1, <4>2, StampedSettings
    <3>2. /\ \A d \in Docs : documents'[d] = Absent
          /\ documents' \in [Docs -> StoredDocs \cup {Absent}]
          /\ docsByPub' = {} /\ index' = {}
          /\ \A p \in Pubs : cursors'[p] = Absent /\ olderCursors'[p] = Absent
          /\ cursors' \in [Pubs -> Formats \cup {Absent}]
          /\ olderCursors' \in [Pubs -> Formats \cup {Absent}]
      <4>1. /\ documents' = [d \in Docs |-> Absent]
            /\ docsByPub' = {} /\ index' = {}
            /\ cursors' = [p \in Pubs |-> Absent] /\ olderCursors' = [p \in Pubs |-> Absent]
        BY <1>4, <2>2 DEF MigrateSchema, NoDocuments, NoCursors
      <4>2. QED
        BY <4>1
    <3>3. storeStep = "schema" /\ storeStep' = "open"
          /\ UNCHANGED <<follows, followsType, program>>
      BY <1>4 DEF MigrateSchema
    <3>4. QED
      BY <3>1, <3>2, <3>3
  <2>3. QED
    BY <2>1, <2>2
<1>5. CASE CloseStore
  BY <1>5 DEF CloseStore
<1>6. QED
  BY <1>1, <1>2, <1>3, <1>4, <1>5

\* A document is written with its listing and its postings; those of its last edition
\* stay, and are of a document that is stored.
LEMMA UpsertInvariant ==
  ASSUME SInv, NEW d \in Docs, NEW site \in Pubs, NEW words \in SUBSET Terms,
         UpsertDocument(d, site, words)
  PROVE  SInv'
<1> DEFINE doc == [site |-> site, words |-> words, schema |-> program,
                   read |-> IF Stored(d) THEN documents[d].read ELSE FALSE]
<1>1. /\ documents' = [documents EXCEPT ![d] = doc]
      /\ UNCHANGED <<cursors, olderCursors, follows, followsType, settings, program,
                     storeStep>>
      /\ storeStep = "open"
      /\ docsByPub' = docsByPub \cup {<<site, d>>}
      /\ index' = index \cup (words \X {d})
  BY DEF UpsertDocument, Writes
<1>2. doc \in StoredDocs /\ doc # Absent
  <2>1. Stored(d) => documents[d].read \in BOOLEAN
    BY DEF SInv, StoreTypeOK, Stored, StoredDocs
  <2>2. program \in Formats
    BY DEF SInv, StoreTypeOK, Formats
  <2>3. doc \in StoredDocs
    BY <2>1, <2>2 DEF StoredDocs
  <2>4. QED
    BY <2>3, StoreAssumption
<1>3. /\ documents' \in [Docs -> StoredDocs \cup {Absent}]
      /\ documents'[d] = doc
      /\ \A e \in Docs : e # d => documents'[e] = documents[e]
  BY <1>1, <1>2 DEF SInv, StoreTypeOK
<1> HIDE DEF doc
<1>4. StoreTypeOK'
  <2>1. docsByPub' \in SUBSET (Pubs \X Docs)
    <3>1. <<site, d>> \in Pubs \X Docs
      OBVIOUS
    <3>2. QED
      BY <1>1, <3>1 DEF SInv, StoreTypeOK
  <2> words \X {d} \subseteq Terms \X Docs
    OBVIOUS
  <2>3. index' \in SUBSET (Terms \X Docs)
    BY <1>1 DEF SInv, StoreTypeOK
  <2>2. QED
    BY <1>1, <1>3, <2>1, <2>3 DEF SInv, StoreTypeOK
<1>5. DocumentsServed'
  <2> SUFFICES ASSUME NEW e \in Docs, Stored(e)'
               PROVE  /\ documents'[e].schema = settings'.schema
                      /\ <<documents'[e].site, e>> \in docsByPub'
                      /\ \A t \in documents'[e].words : <<t, e>> \in index'
    BY DEF DocumentsServed
  <2>1. CASE e = d
    BY <1>1, <1>3, <2>1 DEF doc, SInv, OpenStamped
  <2>2. CASE e # d
    BY <1>1, <1>3, <2>2 DEF SInv, DocumentsServed, Stored
  <2>3. QED
    BY <2>1, <2>2
<1>6. PostingsStored'
  BY <1>1, <1>2, <1>3 DEF SInv, PostingsStored, Stored
<1>7. CursorsStamped' /\ OpenStamped' /\ TablesMade'
  BY <1>1 DEF SInv, CursorsStamped, OpenStamped, TablesMade
<1>8. QED
  BY <1>4, <1>5, <1>6, <1>7 DEF SInv

LEMMA SetReadInvariant ==
  ASSUME SInv, NEW d \in Docs, NEW read \in BOOLEAN, SetRead(d, read)
  PROVE  SInv'
<1>1. documents[d] \in StoredDocs
  BY DEF SInv, StoreTypeOK, SetRead, Stored
<1> DEFINE doc == [documents[d] EXCEPT !.read = read]
<1>2. /\ doc \in StoredDocs /\ doc # Absent
      /\ doc.schema = documents[d].schema /\ doc.site = documents[d].site
      /\ doc.words = documents[d].words
  BY <1>1, StoreAssumption DEF StoredDocs
<1>3. documents' = [documents EXCEPT ![d] = doc]
  BY DEF SetRead
<1> HIDE DEF doc
<1>4. /\ documents' \in [Docs -> StoredDocs \cup {Absent}]
      /\ documents'[d] = doc
      /\ \A e \in Docs : e # d => documents'[e] = documents[e]
  BY <1>2, <1>3 DEF SInv, StoreTypeOK
<1>5. UNCHANGED <<docsByPub, index, cursors, olderCursors, follows, followsType, settings,
                  program, storeStep>>
  BY DEF SetRead, Writes
<1>6. Stored(d)
  BY DEF SetRead
<1>7. StoreTypeOK'
  BY <1>2, <1>4, <1>5 DEF SInv, StoreTypeOK
<1>8. DocumentsServed'
  <2> SUFFICES ASSUME NEW e \in Docs, Stored(e)'
               PROVE  /\ documents'[e].schema = settings'.schema
                      /\ <<documents'[e].site, e>> \in docsByPub'
                      /\ \A t \in documents'[e].words : <<t, e>> \in index'
    BY DEF DocumentsServed
  <2>1. CASE e = d
    BY <1>2, <1>4, <1>5, <1>6, <2>1 DEF SInv, DocumentsServed
  <2>2. CASE e # d
    BY <1>4, <1>5, <2>2 DEF SInv, DocumentsServed, Stored
  <2>3. QED
    BY <2>1, <2>2
<1>9. PostingsStored'
  BY <1>2, <1>4, <1>5 DEF SInv, PostingsStored, Stored
<1>10. CursorsStamped' /\ OpenStamped' /\ TablesMade'
  BY <1>5 DEF SInv, CursorsStamped, OpenStamped, TablesMade
<1>11. QED
  BY <1>7, <1>8, <1>9, <1>10 DEF SInv

\* The commands that leave the documents alone.
LEMMA OtherWritesInvariant ==
  ASSUME SInv,
         \/ \E p \in Pubs : \/ SetSyncCursor(p) \/ SetOlderCursor(p)
                            \/ Follow(p) \/ Unfollow(p) \/ SetFollowRkey(p)
         \/ \E on \in BOOLEAN : SetShowImages(on)
  PROVE  SInv'
<1> USE DEF SInv, StoreTypeOK, DocumentsServed, PostingsStored, CursorsStamped, OpenStamped,
        TablesMade, Stored, bodies, Writes, Formats
<1>1. ASSUME NEW p \in Pubs, SetSyncCursor(p) \/ SetOlderCursor(p)
      PROVE  SInv'
  BY <1>1 DEF SetSyncCursor, SetOlderCursor
<1>2. ASSUME NEW p \in Pubs, Follow(p) \/ Unfollow(p) \/ SetFollowRkey(p)
      PROVE  SInv'
  BY <1>2 DEF Follow, Unfollow, SetFollowRkey
<1>3. ASSUME NEW on \in BOOLEAN, SetShowImages(on)
      PROVE  SInv'
  <2>1. /\ settings' \in [schema : Formats, images : BOOLEAN]
        /\ settings'.schema = settings.schema
    BY <1>3 DEF SetShowImages
  <2>2. QED
    BY <1>3, <2>1 DEF SetShowImages
<1>4. QED
  BY <1>1, <1>2, <1>3

LEMMA StoreNextInvariant == SInv /\ [StoreNext]_storeVars => SInv'
<1> SUFFICES ASSUME SInv, [StoreNext]_storeVars PROVE SInv'
  OBVIOUS
<1>1. CASE UNCHANGED storeVars
  BY <1>1 DEF storeVars, bodies, SInv, StoreTypeOK, DocumentsServed, PostingsStored,
     CursorsStamped, OpenStamped, TablesMade, Stored
<1>2. CASE StoreNext
  BY <1>2, OpeningInvariant, UpsertInvariant, SetReadInvariant, OtherWritesInvariant
  DEF StoreNext
<1>3. QED
  BY <1>1, <1>2

LEMMA StoreInvariant == StoreSpec => []SInv
<1>1. QED
  BY StoreInitInvariant, StoreNextInvariant, PTL DEF StoreSpec

\* The tables hold what their types say, and a follow table of the first version no rkey
\* (store.rs init_tables, migrate_follows).
THEOREM StoreTypeCorrect == StoreSpec => []StoreTypeOK
<1>1. SInv => StoreTypeOK
  BY DEF SInv
<1>2. QED
  BY <1>1, StoreInvariant, PTL

-----------------------------------------------------------------------------

LEMMA InvariantServes == SInv => StoreServes
<1> SUFFICES ASSUME SInv, storeStep = "open"
             PROVE  /\ \A p \in Pubs : /\ cursors[p] \in {Absent, program}
                                       /\ olderCursors[p] \in {Absent, program}
                    /\ \A d \in Docs : Stored(d) =>
                         /\ documents[d].schema = program
                         /\ d \in (IF documents[d].read THEN ReadUris(documents[d].site)
                                   ELSE UnreadDocs(documents[d].site))
                         /\ \A query \in SUBSET documents[d].words :
                              query # {} => d \in Search(query)
                    /\ \A query \in SUBSET Terms : \A d \in Search(query) : Stored(d)
  BY DEF StoreServes
<1>1. \A p \in Pubs : cursors[p] \in {Absent, program} /\ olderCursors[p] \in {Absent, program}
  BY DEF SInv, CursorsStamped, OpenStamped
<1>2. ASSUME NEW d \in Docs, Stored(d)
      PROVE  /\ documents[d].schema = program
             /\ d \in (IF documents[d].read THEN ReadUris(documents[d].site)
                       ELSE UnreadDocs(documents[d].site))
             /\ \A query \in SUBSET documents[d].words : query # {} => d \in Search(query)
  BY <1>2 DEF SInv, DocumentsServed, OpenStamped, ReadUris, UnreadDocs, DocumentsFor, Search
<1>3. ASSUME NEW query \in SUBSET Terms, NEW d \in Search(query)
      PROVE  Stored(d)
  <2>1. query # {} /\ d \in Docs /\ \A t \in query : <<t, d>> \in index
    BY <1>3 DEF Search
  <2>2. PICK t \in query : <<t, d>> \in index
    BY <2>1
  <2>3. QED
    BY <2>1, <2>2 DEF SInv, PostingsStored
<1>4. QED
  BY <1>1, <1>2, <1>3

\* An open store serves what is of its program's format only, each document under its
\* publication and by its words, and no posting of a document that has gone, whatever
\* programs opened the file before and wherever they stopped (store.rs open,
\* upsert_document, search).
THEOREM StoreServesAlways == StoreSpec => []StoreServes
BY InvariantServes, StoreInvariant, PTL

-----------------------------------------------------------------------------

LEMMA FollowKept ==
  ASSUME SInv, StoreNext, NEW p \in Pubs, follows[p] # Absent,
         follows'[p] \notin {follows[p], "rkey"}
  PROVE  Unfollow(p)
<1>1. follows \in [Pubs -> {Absent, "", "rkey"}]
      /\ (followsType # "str" => \A q \in Pubs : follows[q] # "rkey")
  BY DEF SInv, StoreTypeOK
<1>2. follows' # follows
  OBVIOUS
<1>3. ~MigrateFollows
  BY <1>1 DEF MigrateFollows
<1>4. PICK q \in Pubs : Follow(q) \/ Unfollow(q) \/ SetFollowRkey(q)
  BY <1>2, <1>3 DEF StoreNext, OpenStore, InitTables, MigrateSchema, CloseStore,
     UpsertDocument, SetRead, SetSyncCursor, SetOlderCursor, SetShowImages, Writes
<1>5. CASE q = p
  BY <1>1, <1>4, <1>5 DEF Follow, SetFollowRkey
<1>6. CASE q # p
  BY <1>1, <1>4, <1>6 DEF Follow, Unfollow, SetFollowRkey
<1>7. QED
  BY <1>5, <1>6

LEMMA ReadMarkKept ==
  ASSUME SInv, StoreNext, NEW d \in Docs, Stored(d)
  PROVE  IF documents'[d] = Absent
         THEN storeStep = "schema" /\ settings.schema # program /\ settings'.schema = program
         ELSE documents[d].read /\ ~documents'[d].read => SetRead(d, FALSE)
<1>1. documents \in [Docs -> StoredDocs \cup {Absent}] /\ documents[d] \in StoredDocs
  BY DEF SInv, StoreTypeOK, Stored
<1>2. CASE documents' = documents
  BY <1>2 DEF Stored
<1>3. CASE MigrateSchema
  <2>1. CASE settings.schema = program
    BY <1>2, <1>3, <2>1 DEF MigrateSchema, bodies
  <2>2. CASE settings.schema # program
    <3>1. /\ documents'[d] = Absent /\ storeStep = "schema"
          /\ settings' = [settings EXCEPT !.schema = program]
      BY <1>3, <2>2 DEF MigrateSchema, NoDocuments
    <3>2. settings'.schema = program
      BY <3>1 DEF SInv, StoreTypeOK
    <3>3. QED
      BY <2>2, <3>1, <3>2
  <2>3. QED
    BY <2>1, <2>2
<1>4. ASSUME NEW e \in Docs, NEW p \in Pubs, NEW words \in SUBSET Terms,
             UpsertDocument(e, p, words)
      PROVE  documents'[d] # Absent /\ documents'[d].read = documents[d].read
  <2>1. CASE e = d
    <3>1. documents'[d] = [site |-> p, words |-> words, schema |-> program,
                           read |-> documents[d].read]
      BY <1>1, <1>4, <2>1 DEF UpsertDocument
    <3>2. documents'[d] \in StoredDocs
      <4>1. documents[d].read \in BOOLEAN /\ program \in Formats
        BY <1>1 DEF StoredDocs, SInv, StoreTypeOK, Formats
      <4>2. QED
        BY <3>1, <4>1 DEF StoredDocs
    <3>3. documents'[d].read = documents[d].read
      BY <3>1
    <3>4. QED
      BY <3>2, <3>3, StoreAssumption
  <2>2. CASE e # d
    BY <1>1, <1>4, <2>2 DEF UpsertDocument, Stored
  <2>3. QED
    BY <2>1, <2>2
<1>5. ASSUME NEW e \in Docs, NEW read \in BOOLEAN, SetRead(e, read)
      PROVE  /\ documents'[d] # Absent
             /\ documents[d].read /\ ~documents'[d].read => SetRead(d, FALSE)
  <2>1. CASE e = d
    <3>1. documents'[d] = [documents[d] EXCEPT !.read = read]
      BY <1>1, <1>5, <2>1 DEF SetRead
    <3>2. documents'[d] \in StoredDocs /\ documents'[d].read = read
      BY <1>1, <3>1 DEF StoredDocs
    <3>3. CASE read
      BY <3>2, <3>3, StoreAssumption
    <3>4. CASE ~read
      <4>1. SetRead(d, FALSE)
        BY <1>5, <2>1, <3>4
      <4>2. QED
        BY <3>2, <4>1, StoreAssumption
    <3>5. QED
      BY <3>3, <3>4
  <2>2. CASE e # d
    BY <1>1, <1>5, <2>2 DEF SetRead, Stored
  <2>3. QED
    BY <2>1, <2>2
<1>6. QED
  <2>1. CASE \/ MigrateFollows \/ InitTables \/ CloseStore
             \/ \E p \in Schemas : OpenStore(p)
             \/ \E p \in Pubs : \/ SetSyncCursor(p) \/ SetOlderCursor(p)
                                \/ Follow(p) \/ Unfollow(p) \/ SetFollowRkey(p)
             \/ \E on \in BOOLEAN : SetShowImages(on)
    <3>1. documents' = documents
      BY <2>1 DEF MigrateFollows, InitTables, CloseStore, OpenStore, SetSyncCursor,
         SetOlderCursor, Follow, Unfollow, SetFollowRkey, SetShowImages, Writes, bodies
    <3>2. QED
      BY <3>1, <1>2
  <2>2. QED
    BY <1>3, <1>4, <1>5, <2>1 DEF StoreNext

LEMMA PreferenceKept ==
  ASSUME SInv, StoreNext, settings'.images # settings.images
  PROVE  SetShowImages(settings'.images)
<1>1. settings \in [schema : Formats, images : BOOLEAN]
  BY DEF SInv, StoreTypeOK
<1>2. settings' # settings
  OBVIOUS
<1>3. ~MigrateSchema
  BY <1>1 DEF MigrateSchema
<1>4. PICK on \in BOOLEAN : SetShowImages(on)
  BY <1>2, <1>3 DEF StoreNext, OpenStore, MigrateFollows, InitTables, CloseStore,
     UpsertDocument, SetRead, SetSyncCursor, SetOlderCursor, Follow, Unfollow, SetFollowRkey,
     Writes
<1>5. settings'.images = on
  BY <1>1, <1>4 DEF SetShowImages
<1>6. QED
  BY <1>4, <1>5

\* Whatever documents, publications and formats: a follow goes only by the reader's own
\* command, and so does a read mark, but for the change of format that drops every document
\* with its mark; the preference for images survives that too (store.rs migrate_follows,
\* migrate_schema, upsert_document, set_read, follow, unfollow).
THEOREM StoreKeepsAlways == StoreSpec => StoreKeeps
<1> DEFINE Kept ==
      /\ \A p \in Pubs : follows[p] # Absent /\ follows'[p] \notin {follows[p], "rkey"} =>
                           Unfollow(p)
      /\ \A d \in Docs : Stored(d) =>
           IF documents'[d] = Absent
           THEN storeStep = "schema" /\ settings.schema # program /\ settings'.schema = program
           ELSE documents[d].read /\ ~documents'[d].read => SetRead(d, FALSE)
      /\ settings'.images # settings.images => SetShowImages(settings'.images)
<1>1. SInv /\ StoreNext => Kept
  BY FollowKept, ReadMarkKept, PreferenceKept
<1>2. SInv /\ [StoreNext]_storeVars => [Kept]_storeVars
  BY <1>1
<1> HIDE DEF Kept
<1>3. StoreSpec => [][Kept]_storeVars
  BY <1>2, StoreInvariant, PTL DEF StoreSpec
<1>4. QED
  BY <1>3 DEF StoreKeeps, Kept

-----------------------------------------------------------------------------
(* The shells together, as one specification: a worker of one shell, with the files of    *)
(* the others standing still.                                                             *)

\* What is not chosen has neither a worker nor anything a start could find.
OthersIdle ==
  /\ shell \in {"web", "desktop", "cache"}
  /\ shell # "web" => lock = None
  /\ shell # "desktop" => keyring = NoSessions /\ sessionFile = NoSessions /\ accountFile = None
  /\ shell # "cache" => storeStep = "closed"

ShellsInv ==
  /\ OthersIdle
  /\ shell = "web" => WInv
  /\ shell = "desktop" => DInv
  /\ shell = "cache" => SInv

LEMMA ShellsInitially == Init => ShellsInv
<1>1. ASSUME WebInit, IdleDesktop, IdleStore
      PROVE  ShellsInv
  BY <1>1, WebInitInvariant DEF WebInit, IdleDesktop, IdleStore, ShellsInv, OthersIdle
<1>2. ASSUME DesktopInit, IdleWeb, IdleStore
      PROVE  ShellsInv
  BY <1>2, DesktopInitially DEF DesktopInit, IdleWeb, IdleStore, ShellsInv, OthersIdle
<1>3. ASSUME StoreInit, IdleWeb, IdleDesktop, shell = "cache"
      PROVE  ShellsInv
  BY <1>3, StoreInitInvariant DEF IdleWeb, IdleDesktop, ShellsInv, OthersIdle
<1>4. QED
  BY <1>1, <1>2, <1>3 DEF Init

\* A step is one of the shell that was chosen, or none.
LEMMA StepsOfOneShell ==
  ASSUME OthersIdle, [Next]_vars
  PROVE  /\ UNCHANGED shell
         /\ shell = "web" => [WebNext]_<<shell, webVars>> /\ UNCHANGED <<deskOnly, storeVars>>
         /\ shell = "desktop" =>
              [DesktopNext]_<<shell, deskVars>> /\ UNCHANGED <<webOnly, storeVars>>
         /\ shell = "cache" => [StoreNext]_storeVars /\ UNCHANGED <<webVars, deskVars>>
<1> USE DEF vars, webOnly, deskOnly, webVars, tabVars, commitVars, deskVars, files, commandVars
<1>1. CASE WebNext /\ UNCHANGED <<deskOnly, storeVars>>
  BY <1>1 DEF WebNext
<1>2. CASE DesktopNext /\ UNCHANGED <<webOnly, storeVars>>
  BY <1>2 DEF DesktopNext
<1>3. CASE shell = "cache" /\ StoreNext /\ UNCHANGED <<shell, webVars, deskOnly>>
  BY <1>3
<1>4. CASE UNCHANGED vars
  BY <1>4
<1>5. QED
  BY <1>1, <1>2, <1>3, <1>4 DEF Next

LEMMA ShellsNext == ShellsInv /\ [Next]_vars => ShellsInv'
<1> SUFFICES ASSUME ShellsInv, [Next]_vars PROVE ShellsInv'
  OBVIOUS
<1>1. CASE shell = "web"
  <2>1. /\ shell' = "web" /\ [WebNext]_<<shell, webVars>>
        /\ UNCHANGED <<keyring, sessionFile, accountFile, storeStep>>
    BY <1>1, StepsOfOneShell DEF ShellsInv, deskOnly, files, storeVars
  <2>2. WInv'
    BY <1>1, <2>1, WebNextInvariant DEF ShellsInv
  <2>3. QED
    BY <1>1, <2>1, <2>2 DEF ShellsInv, OthersIdle, NoSessions
<1>2. CASE shell = "desktop"
  <2>1. /\ shell' = "desktop" /\ [DesktopNext]_<<shell, deskVars>>
        /\ UNCHANGED <<lock, storeStep>>
    BY <1>2, StepsOfOneShell DEF ShellsInv, webOnly, tabVars, storeVars
  <2>2. DInv'
    BY <1>2, <2>1, DesktopNextKeepsInv DEF ShellsInv
  <2>3. QED
    BY <1>2, <2>1, <2>2 DEF ShellsInv, OthersIdle
<1>3. CASE shell = "cache"
  <2>1. /\ shell' = "cache" /\ [StoreNext]_storeVars
        /\ UNCHANGED <<lock, keyring, sessionFile, accountFile>>
    BY <1>3, StepsOfOneShell DEF ShellsInv, webVars, tabVars, deskVars, files
  <2>2. SInv'
    BY <1>3, <2>1, StoreNextInvariant DEF ShellsInv
  <2>3. QED
    BY <1>3, <2>1, <2>2 DEF ShellsInv, OthersIdle, NoSessions
<1>4. QED
  BY <1>1, <1>2, <1>3 DEF ShellsInv, OthersIdle

LEMMA ShellsInvariant == Spec => []ShellsInv
BY ShellsInitially, ShellsNext, PTL DEF Spec

\* Every variable of the shell that runs has its type, and a step about a user has one
\* (web and desktop auth.rs, store.rs).
THEOREM ShellsTypeCorrect == Spec => []TypeOK
<1>1. ShellsInv => TypeOK
  BY DEF ShellsInv, TypeOK, WInv, DInv, SInv
<1>2. QED
  BY <1>1, ShellsInvariant, PTL

\* Whichever shell runs, a worker that waits for no file has in memory what a reload would
\* find (web auth.rs commit).
THEOREM ShellsMemoryDurable == Spec => []MemoryIsDurable
<1>1. ShellsInv => MemoryIsDurable
  BY DurableMemory DEF ShellsInv, OthersIdle, MemoryIsDurable
<1>2. QED
  BY <1>1, ShellsInvariant, PTL

\* Whichever shell runs, an open cache serves what it holds, and nothing of another format
\* (store.rs open, upsert_document, search).
THEOREM ShellsStoreServes == Spec => []StoreServes
<1>1. ShellsInv => StoreServes
  BY InvariantServes DEF ShellsInv, OthersIdle, StoreServes
<1>2. QED
  BY <1>1, ShellsInvariant, PTL

\* Whichever shell runs, what the web's worker answers is in its file at that moment (web
\* auth.rs restore_inner, login_inner, logout_inner).
THEOREM ShellsAnswersDurable == Spec => AnswersAreDurable
<1> DEFINE InFile ==
      shell = "web" =>
        /\ account' \notin {account, None} =>
             /\ Account(Decode(authFile')) = account'
             /\ Decode(authFile').sessions[account'] = "exact"
        /\ \A t \in Tabs :
             page'[t] # page[t] /\ page'[t] \in Transactions => page'[t] \in authFile'.states
        /\ account # None /\ account' = None /\ lock' # None => authFile' = Empty
<1>1. WInv /\ WebNext => InFile
  BY SignedInIsStored, RedirectIsStored, LoggedOutIsStored
<1>2. shell # "web" => InFile
  OBVIOUS
<1> HIDE DEF InFile
<1>3. ShellsInv /\ [Next]_vars => [InFile]_webVars
  <2> SUFFICES ASSUME ShellsInv, [Next]_vars, shell = "web" PROVE [InFile]_webVars
    BY <1>2
  <2>1. WInv /\ [WebNext]_<<shell, webVars>>
    BY StepsOfOneShell DEF ShellsInv
  <2>2. QED
    BY <1>1, <2>1
<1>4. Spec => [][InFile]_webVars
  BY <1>3, ShellsInvariant, PTL DEF Spec
<1>5. QED
  BY <1>4 DEF AnswersAreDurable, InFile

\* Whichever shell runs, what the desktop's worker answers: signed in, an account the next
\* start finds with an exact grant in one of the stores; logged out, both files empty.  While
\* the keyring has neither come, gone nor refused since the process started, the grant is in
\* the client's store, and after a log-out a keyring that is there is empty too (tui auth.rs
\* restore, login, logout).
THEOREM ShellsDesktopAnswers == Spec => DesktopAnswersHold
<1> DEFINE Found ==
      shell = "desktop" =>
        /\ account' \notin {account, None} =>
             /\ accountFile' = account'
             /\ "exact" \in {keyring'[account'], sessionFile'[account']}
             /\ steady' => Held(clientStore)'[account'] = "exact"
        /\ account # None /\ account' = None /\ step' # "closed" =>
             /\ sessionFile' = NoSessions /\ accountFile' = None
             /\ steady' /\ reachable' => keyring' = NoSessions
<1>1. DInv /\ DesktopNext => Found
  BY SignsInWithGrant, LogsOutWithoutSessions
<1>2. shell # "desktop" => Found
  OBVIOUS
<1> HIDE DEF Found
<1>3. ShellsInv /\ [Next]_vars => [Found]_deskVars
  <2> SUFFICES ASSUME ShellsInv, [Next]_vars, shell = "desktop" PROVE [Found]_deskVars
    BY <1>2
  <2>1. DInv /\ [DesktopNext]_<<shell, deskVars>>
    BY StepsOfOneShell DEF ShellsInv
  <2>2. QED
    BY <1>1, <2>1
<1>4. Spec => [][Found]_deskVars
  BY <1>3, ShellsInvariant, PTL DEF Spec
<1>5. QED
  BY <1>4 DEF DesktopAnswersHold, Found

\* Whichever shell runs, no step of moving the desktop's sessions loses one, and a start
\* forgets neither the account nor its exact grant while the keyring neither comes, goes nor
\* refuses (tui auth.rs build_client, migrate_legacy_file, restore).
THEOREM ShellsStartsKeepSessions == Spec => StartKeepsSessions
<1> DEFINE Kept ==
      /\ step \in {"closed", "import", "remove"} =>
           \A u \in Users : keyring[u] # None \/ sessionFile[u] # None =>
                              keyring'[u] # None \/ sessionFile'[u] # None
      /\ step \in {"closed", "import", "remove", "restore", "check"} =>
           (accountFile # None /\ Findable[accountFile] = "exact" /\ steady' =>
              /\ accountFile' = accountFile /\ Findable'[accountFile] = "exact"
              /\ step' # "revoke")
<1>1. DInv /\ DesktopNext => Kept
  BY MovesKeepEach, StartKeepsGrant
<1>2. UNCHANGED <<keyring, sessionFile>> /\ accountFile = None => Kept
  OBVIOUS
<1> HIDE DEF Kept
<1>3. ShellsInv /\ [Next]_vars => [Kept]_deskVars
  <2> SUFFICES ASSUME ShellsInv, [Next]_vars PROVE [Kept]_deskVars
    OBVIOUS
  <2>1. CASE shell = "desktop"
    <3>1. DInv /\ [DesktopNext]_<<shell, deskVars>>
      BY <2>1, StepsOfOneShell DEF ShellsInv
    <3>2. QED
      BY <1>1, <3>1
  <2>2. CASE shell # "desktop"
    <3>1. UNCHANGED <<keyring, sessionFile>> /\ accountFile = None
      BY <2>2, StepsOfOneShell DEF ShellsInv, OthersIdle, deskOnly, deskVars, files
    <3>2. QED
      BY <1>2, <3>1
  <2>3. QED
    BY <2>1, <2>2
<1>4. Spec => [][Kept]_deskVars
  BY <1>3, ShellsInvariant, PTL DEF Spec
<1>5. QED
  BY <1>4 DEF StartKeepsSessions, Kept

\* Whichever shell runs, follows, read marks and the preference for images go by the
\* reader's own command, or, of the marks, with all documents in a change of format
\* (store.rs migrate_follows, migrate_schema, upsert_document, set_read).
THEOREM ShellsStoreKeeps == Spec => StoreKeeps
<1> DEFINE Kept ==
      /\ \A p \in Pubs : follows[p] # Absent /\ follows'[p] \notin {follows[p], "rkey"} =>
                           Unfollow(p)
      /\ \A d \in Docs : Stored(d) =>
           IF documents'[d] = Absent
           THEN storeStep = "schema" /\ settings.schema # program /\ settings'.schema = program
           ELSE documents[d].read /\ ~documents'[d].read => SetRead(d, FALSE)
      /\ settings'.images # settings.images => SetShowImages(settings'.images)
<1>1. SInv /\ StoreNext => Kept
  BY FollowKept, ReadMarkKept, PreferenceKept
<1> HIDE DEF Kept
<1>2. ShellsInv /\ [Next]_vars => [Kept]_storeVars
  <2> SUFFICES ASSUME ShellsInv, [Next]_vars PROVE [Kept]_storeVars
    OBVIOUS
  <2>1. CASE shell = "cache"
    <3>1. SInv /\ [StoreNext]_storeVars
      BY <2>1, StepsOfOneShell DEF ShellsInv
    <3>2. QED
      BY <1>1, <3>1
  <2>2. CASE shell # "cache"
    <3>1. UNCHANGED storeVars
      BY <2>2, StepsOfOneShell DEF ShellsInv, OthersIdle
    <3>2. QED
      BY <3>1
  <2>3. QED
    BY <2>1, <2>2
<1>3. Spec => [][Kept]_storeVars
  BY <1>2, ShellsInvariant, PTL DEF Spec
<1>4. QED
  BY <1>3 DEF StoreKeeps, Kept
=============================================================================
