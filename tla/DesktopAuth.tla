----------------------------- MODULE DesktopAuth -----------------------------
(***************************************************************************)
(* Signing in on the desktop.  Sessions are in the keyring of the system   *)
(* where there is one that answers, else in session.json, and the account  *)
(* is in account.json.  The client keeps the store it found at its start,  *)
(* where sessions of an earlier version move from the file to the keyring; *)
(* each look at a grant, and each log-out, finds a store anew, and a       *)
(* keyring may be locked or unlocked at any time between them.             *)
(*                                                                         *)
(* A file cut short by a crash does not parse, which reads as no sessions  *)
(* or no account.                                                          *)
(***************************************************************************)
EXTENDS SignIn

VARIABLES
  keyring, sessionFile, accountFile,
  reachable,    \* a keyring is built in and answers
  clientStore,  \* the store the client keeps: "keyring" or "file"
  found,        \* the store the last look at a grant found, which it clears if need be
  steady        \* history: since the process started the keyring neither came nor went,
                \* nor refused an import or to be cleared

stores   == <<keyring, sessionFile>>
files    == <<keyring, sessionFile, accountFile>>
deskVars == <<files, reachable, clientStore, found, steady, commandVars>>

DesktopSteps == {"closed", "idle", "import", "remove", "restore", "check", "resume", "recheck",
                 "waiting", "code", "grant", "write", "revoke", "clear", "unlink session",
                 "unlink account"}

DesktopTypeOK ==
  /\ keyring \in Sessions /\ sessionFile \in Sessions
  /\ accountFile \in Users \cup {None}
  /\ reachable \in BOOLEAN /\ steady \in BOOLEAN
  /\ clientStore \in {"keyring", "file"} /\ found \in {"keyring", "file"}
  /\ step \in DesktopSteps
  /\ user \in Users \cup {None} /\ account \in Users \cup {None}
  /\ step \in {"check", "resume", "recheck", "waiting", "code", "grant", "write"} => user # None

-----------------------------------------------------------------------------
(* The session stores.                                                     *)

\* select_session_store
Selected == IF reachable THEN "keyring" ELSE "file"

Held(store) == IF store = "keyring" THEN keyring ELSE sessionFile

\* A file can be read and written; a keyring, while it is there.
Answers(store) == store = "file" \/ reachable

\* Store::set, del and clear: the map of a store is replaced.
Replace(store, map) ==
  IF store = "keyring" THEN keyring' = map /\ UNCHANGED sessionFile
  ELSE sessionFile' = map /\ UNCHANGED keyring

\* Any files an earlier version, or run, may have left.
DesktopInit ==
  /\ shell = "desktop"
  /\ keyring \in {NoSessions} \cup {[NoSessions EXCEPT ![u] = s] : u \in Users, s \in Scopes}
  /\ sessionFile \in {NoSessions} \cup {[NoSessions EXCEPT ![u] = s] :
                                        u \in Users, s \in Scopes}
  /\ accountFile \in Users \cup {None}
  /\ reachable \in BOOLEAN /\ clientStore = "file" /\ found = "file" /\ steady = FALSE
  /\ step = "closed" /\ user = None /\ account = None

\* build_client: the store is chosen; sessions of the file move to an empty keyring.
StartDesktop ==
  /\ step = "closed"
  /\ clientStore' = Selected /\ steady' = TRUE
  /\ step' = IF reachable /\ keyring = NoSessions /\ sessionFile # NoSessions THEN "import"
             ELSE "restore"
  /\ UNCHANGED <<files, reachable, found, user, account>>

\* Mutant: the file is removed before the keyring has its sessions.
ImportRemovingFirst ==
  /\ step = "import"
  /\ sessionFile' = NoSessions
  /\ step' = "remove"
  /\ UNCHANGED <<keyring, accountFile, reachable, clientStore, found, steady, user, account>>

\* migrate_legacy_file: a keyring that refuses leaves the file alone.
ImportLegacy ==
  /\ step = "import"
  /\ \/ /\ reachable /\ keyring' = sessionFile
        /\ step' = "remove" /\ UNCHANGED steady
     \/ UNCHANGED keyring /\ step' = "restore" /\ steady' = FALSE
  /\ UNCHANGED <<sessionFile, accountFile, reachable, clientStore, found, user, account>>

\* The file that was imported is removed, if it can be.
RemoveLegacy ==
  /\ step = "remove"
  /\ sessionFile' \in {NoSessions, sessionFile}
  /\ step' = "restore"
  /\ UNCHANGED <<keyring, accountFile, reachable, clientStore, found, steady, user, account>>

-----------------------------------------------------------------------------
(* Restoring a session.                                                    *)

\* Auth::restore starts from account.json.
RestoreAccount ==
  /\ step = "restore"
  /\ IF accountFile = None THEN End(account)
     ELSE step' = "check" /\ user' = accountFile /\ UNCHANGED account
  /\ UNCHANGED <<files, reachable, clientStore, found, steady>>

\* Mutant: any session will do.
EnsureAnyGrant(Permitted) ==
  /\ Permitted
  /\ UNCHANGED <<files, reachable, clientStore, found, steady>>

\* ensure_subscription_scope: any grant but the exact one is revoked and removed; a store
\* that does not answer ends the command with everything as it was.
EnsureGrant(Permitted) ==
  /\ \/ Held(Selected)[user] = "exact" /\ Permitted /\ UNCHANGED found
     \/ Held(Selected)[user] # "exact" /\ OnTo("revoke") /\ found' = Selected
     \/ End(account) /\ UNCHANGED found
  /\ UNCHANGED <<files, reachable, clientStore, steady>>

CheckGrant == step = "check" /\ EnsureGrant(OnTo("resume"))

\* The client's store takes a session of the user.
StoreSession ==
  /\ Answers(clientStore)
  /\ \E s \in Scopes : Replace(clientStore, [Held(clientStore) EXCEPT ![user] = s])

\* client.restore: the session may be refreshed, with another scope; a server or a store
\* that does not answer leaves the files for the next start.
ResumeSession ==
  /\ step = "resume"
  /\ \/ /\ Held(clientStore)[user] # None /\ Answers(clientStore)
        /\ UNCHANGED stores \/ StoreSession
        /\ OnTo("recheck")
     \/ End(account) /\ UNCHANGED stores
  /\ UNCHANGED <<accountFile, reachable, clientStore, found, steady>>

RecheckGrant == step = "recheck" /\ EnsureGrant(End(user))

-----------------------------------------------------------------------------
(* Signing in and out.                                                     *)

\* Auth::login: the port is bound, the browser is opened, and the worker waits.  It may
\* have an account already.
BeginLogin(u) ==
  /\ step = "idle"
  /\ step' = "waiting" /\ user' = u
  /\ UNCHANGED <<files, reachable, clientStore, found, steady, account>>

\* wait_for_callback takes the first connection.  Without a code, as after five minutes,
\* the flow ends, and a redirect that follows finds nobody.
WaitForCallback ==
  /\ step = "waiting"
  /\ OnTo("code") \/ End(account)
  /\ UNCHANGED <<files, reachable, clientStore, found, steady>>

\* The code buys a session, which goes to the client's store; either may fail.
ExchangeCode ==
  /\ step = "code"
  /\ \/ StoreSession /\ OnTo("grant")
     \/ End(account) /\ UNCHANGED stores
  /\ UNCHANGED <<accountFile, reachable, clientStore, found, steady>>

CheckNewGrant == step = "grant" /\ EnsureGrant(OnTo("write"))

\* write_account comes last.
WriteAccount ==
  /\ step = "write"
  /\ \/ accountFile' = user /\ End(user)
     \/ accountFile' \in {accountFile, None} /\ End(account)
  /\ UNCHANGED <<stores, reachable, clientStore, found, steady>>

\* Auth::logout: the account is the file's, not the worker's.
LogOut ==
  /\ step = "idle"
  /\ OnTo(IF accountFile = None THEN "clear" ELSE "revoke")
  /\ UNCHANGED <<files, reachable, clientStore, found, steady>>

\* Upstream revocation, best effort: it may delete the client's copy.
RevokeSession ==
  /\ step = "revoke"
  /\ LET u == IF user = None THEN accountFile ELSE user IN
     \/ Answers(clientStore) /\ Replace(clientStore, [Held(clientStore) EXCEPT ![u] = None])
     \/ UNCHANGED stores
  /\ OnTo("clear")
  /\ UNCHANGED <<accountFile, reachable, clientStore, found, steady>>

\* A log-out clears the store it finds now, a refused grant the one it looked in; a store
\* that cannot be cleared is passed over.
ClearStore ==
  /\ step = "clear"
  /\ LET store == IF user = None THEN Selected ELSE found IN
     \/ Answers(store) /\ Replace(store, NoSessions) /\ UNCHANGED steady
     \/ UNCHANGED stores /\ steady' = (steady /\ store = "file")
  /\ OnTo("unlink session")
  /\ UNCHANGED <<accountFile, reachable, clientStore, found>>

\* clear_files: session.json, then account.json; a failure ends the command, and a
\* log-out that failed keeps the account.
UnlinkSession ==
  /\ step = "unlink session"
  /\ \/ sessionFile' = NoSessions /\ OnTo("unlink account")
     \/ UNCHANGED sessionFile /\ End(account)
  /\ UNCHANGED <<keyring, accountFile, reachable, clientStore, found, steady>>

\* Only a log-out makes the worker forget its account.
UnlinkAccount ==
  /\ step = "unlink account"
  /\ \/ accountFile' = None /\ End(IF user = None THEN None ELSE account)
     \/ UNCHANGED accountFile /\ End(account)
  /\ UNCHANGED <<stores, reachable, clientStore, found, steady>>

-----------------------------------------------------------------------------
(* The process and the system.                                             *)

\* The process ends, perhaps while it writes a file: write_private truncates first.
EndDesktop ==
  /\ step # "closed" /\ Stop
  /\ accountFile' \in (IF step = "write" THEN {accountFile, None} ELSE {accountFile})
  /\ sessionFile' \in (IF step \in {"resume", "code", "revoke"} /\ clientStore = "file"
                       THEN {sessionFile, NoSessions} ELSE {sessionFile})
  /\ UNCHANGED <<keyring, reachable, clientStore, found, steady>>

\* A keyring is locked or unlocked, its service starts or stops.
KeyringComesOrGoes ==
  /\ reachable' = ~reachable /\ steady' = FALSE
  /\ UNCHANGED <<files, clientStore, found, commandVars>>

Continue ==
  \/ ImportLegacy \/ RemoveLegacy
  \/ RestoreAccount \/ CheckGrant \/ ResumeSession \/ RecheckGrant
  \/ WaitForCallback \/ ExchangeCode \/ CheckNewGrant \/ WriteAccount
  \/ RevokeSession \/ ClearStore \/ UnlinkSession \/ UnlinkAccount

DesktopNext ==
  /\ shell = "desktop" /\ UNCHANGED shell
  /\ \/ StartDesktop \/ (\E u \in Users : BeginLogin(u)) \/ LogOut
     \/ Continue
     \/ EndDesktop \/ KeyringComesOrGoes

DesktopSpec == DesktopInit /\ [][DesktopNext]_<<shell, deskVars>>

\* Requests time out after 30 seconds, the wait for the browser after 300.
DesktopFairness == WF_deskVars(shell = "desktop" /\ Continue)

-----------------------------------------------------------------------------
(* Properties.                                                             *)

\* Signed in means that the next start knows the account and that one of the stores has
\* an exact grant for it; logged out, that both files are empty.  As long as the keyring has
\* neither come, gone nor refused since the process started, the grant is in the client's
\* own store (otherwise the check may have looked in the other), and a log-out leaves a
\* keyring that is there empty (otherwise it may leave a token, and does not report it).
DesktopAnswersHold ==
  [][shell = "desktop" =>
     /\ account' \notin {account, None} =>
          /\ accountFile' = account'
          /\ "exact" \in {keyring'[account'], sessionFile'[account']}
          /\ steady' => Held(clientStore)'[account'] = "exact"
     /\ account # None /\ account' = None /\ step' # "closed" =>
          /\ sessionFile' = NoSessions /\ accountFile' = None
          /\ steady' /\ reachable' => keyring' = NoSessions]_deskVars

\* The sessions a start would find.
Findable == IF reachable /\ keyring # NoSessions THEN keyring ELSE sessionFile

\* Moving the sessions loses none, broken off at any point or refused by the keyring.  And
\* a start revokes no exact grant of the account and forgets neither, as long as the
\* keyring neither comes, goes nor refuses the sessions: if it refuses them, the check of
\* the same start finds none in it and has both files removed.
StartKeepsSessions ==
  [][/\ step \in {"closed", "import", "remove"} =>
          \A u \in Users : keyring[u] # None \/ sessionFile[u] # None =>
                             keyring'[u] # None \/ sessionFile'[u] # None
     /\ step \in {"closed", "import", "remove", "restore", "check"} =>
          (accountFile # None /\ Findable[accountFile] = "exact" /\ steady' =>
             /\ accountFile' = accountFile /\ Findable'[accountFile] = "exact"
             /\ step' # "revoke")]_deskVars
=============================================================================
