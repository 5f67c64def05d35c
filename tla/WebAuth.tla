------------------------------- MODULE WebAuth -------------------------------
(***************************************************************************)
(* Signing in on the web.  The worker of the tab that holds the account    *)
(* lock keeps one snapshot of transactions, sessions and the account in    *)
(* memory; every change is sent to the tab's main thread, which writes the *)
(* whole snapshot to auth.json, twice at most, and answers.  The worker    *)
(* waits for the answer and takes the change back if it is not stored.     *)
(*                                                                         *)
(* Signing in leaves the page: the transaction must be stored before, and  *)
(* the code that comes back is used by whichever tab gets the lock at its  *)
(* start.  Tokens and keys are left out: a session is the scope granted.   *)
(***************************************************************************)
EXTENDS SignIn, Integers, Sequences, FiniteSets

CONSTANTS
  Tabs,
  MaxSignIns,   \* bound: transactions started
  MaxLoads,     \* bound: pages loaded
  MaxFailures   \* bound: file writes that fail

ASSUME WebAuthAssumption ==
  /\ IsFiniteSet(Users) /\ None \notin Tabs
  /\ MaxSignIns \in Nat /\ MaxLoads \in Nat /\ MaxFailures \in Nat

VARIABLES
  page,      \* page[t]: Shut, Open, or the transaction t is away for
  lock,      \* the tab that holds the account lock
  authFile,  \* auth.json
  memory,    \* the snapshot of the lock's worker
  before,    \* what commit restores
  request,   \* the snapshot to be written
  ack,       \* "none", "sent", "queued", then "stored" or "refused"
  tries,     \* failed writes of the request
  returned,  \* the callback the page was loaded with
  owner,     \* owner[x]: who signs in with transaction x
  expired,   \* transactions older than ten minutes
  loads, failures

tabVars    == <<page, lock, returned, loads>>
commitVars == <<memory, before, request, ack, tries>>
webVars    == <<tabVars, commitVars, commandVars, authFile, owner, expired, failures>>

Shut == -1
Open == 0
Transactions == 1..MaxSignIns
Snapshots == [account : Users \cup {None}, states : SUBSET Transactions, sessions : Sessions]
Empty == [account |-> None, states |-> {}, sessions |-> NoSessions]
NoCallback == [kind |-> "none", state |-> None]

Callbacks == [kind : {"Success", "Error"}, state : Transactions] \cup {NoCallback}

WebSteps == {"closed", "restore", "idle", "spent", "exchange", "signed", "scope", "rescope",
          "named", "refresh", "refreshed", "revoked", "clear", "cleared", "discarded",
          "redirect", "logout", "forget", "forgotten"}

WebTypeOK ==
  /\ page \in [Tabs -> {Shut, Open} \cup Transactions]
  /\ lock \in Tabs \cup {None}
  /\ authFile \in Snapshots /\ memory \in Snapshots
  /\ before \in Snapshots /\ request \in Snapshots
  /\ ack \in {"none", "sent", "queued", "stored", "refused"} /\ tries \in 0..2
  /\ returned \in Callbacks
  /\ step \in WebSteps /\ (step = "closed") = (lock = None)
  /\ user \in Users \cup {None} /\ account \in Users \cup {None}
  /\ owner \in Seq(Users) /\ Len(owner) <= MaxSignIns
  /\ expired \subseteq DOMAIN owner
  /\ loads \in 0..MaxLoads /\ failures \in 0..MaxFailures

-----------------------------------------------------------------------------
(* The snapshot.                                                           *)

\* AuthSnapshot::decode, which forgets old transactions.
Decode(file) == [file EXCEPT !.states = @ \ expired]

\* BrowserStore::account: without a name, that of some session (the first DID's).
Account(snapshot) ==
  LET signedIn == {u \in Users : snapshot.sessions[u] # None}
  IN IF snapshot.account # None THEN snapshot.account
     ELSE IF signedIn = {} THEN None ELSE CHOOSE u \in signedIn : TRUE

\* Mutant: the worker goes on without waiting for the file.
CommitUnawaited(snapshot, next) ==
  /\ before' = memory /\ memory' = snapshot
  /\ request' = snapshot /\ ack' = "stored" /\ tries' = 0
  /\ step' = next

\* BrowserStore::commit: the change is made in memory and sent.
Commit(snapshot, next) ==
  /\ before' = memory /\ memory' = snapshot
  /\ request' = snapshot /\ ack' = "sent" /\ tries' = 0
  /\ step' = next

\* Mutant: a change that was not stored stays in memory.
AnsweredKept ==
  /\ ack \in {"stored", "refused"}
  /\ ack' = "none"
  /\ before' = Empty /\ request' = Empty /\ tries' = 0
  /\ UNCHANGED memory

\* The end of commit: a change that was not stored is taken back.
Answered ==
  /\ ack \in {"stored", "refused"}
  /\ ack' = "none"
  /\ memory' = IF ack = "refused" THEN before ELSE memory
  /\ before' = Empty /\ request' = Empty /\ tries' = 0

-----------------------------------------------------------------------------
(* Pages.                                                                  *)

\* No page is open.  auth.json is missing, or unreadable, or of another schema, which are
\* all the empty snapshot to decode, or of an earlier session, perhaps with an obsolete
\* grant or without the account's name.
WebInit ==
  /\ shell = "web"
  /\ page = [t \in Tabs |-> Shut] /\ lock = None
  /\ \/ authFile = Empty
     \/ \E u \in Users, s \in Scopes, name \in {TRUE, FALSE} :
          authFile = [Empty EXCEPT !.sessions[u] = s, !.account = IF name THEN u ELSE None]
  /\ memory = Empty /\ before = Empty /\ request = Empty /\ ack = "none" /\ tries = 0
  /\ returned = NoCallback /\ step = "closed" /\ user = None /\ account = None
  /\ owner = <<>> /\ expired = {} /\ loads = 0 /\ failures = 0

\* capture_oauth_return takes the callback off the address before run asks for the
\* lock: a tab that does not get it has no sign-in, and has lost the callback.
LoadPage(t, callback) ==
  /\ loads < MaxLoads /\ loads' = loads + 1
  /\ page' = [page EXCEPT ![t] = Open]
  /\ IF lock = None
     THEN /\ lock' = t /\ returned' = callback
          /\ memory' = Decode(authFile) /\ step' = "restore"
     ELSE UNCHANGED <<lock, returned, memory, step>>
  /\ UNCHANGED <<before, request, ack, tries, user, account, authFile, owner, expired,
                 failures>>

Load(t)   == page[t] = Shut /\ LoadPage(t, NoCallback)
Return(t) == page[t] \in Transactions
             /\ \E kind \in {"Success", "Error"} :
     LoadPage(t, [kind |-> kind, state |-> page[t]])

\* The tab is closed or reloaded, or leaves: its worker ends and a write not begun is lost.
Unload(t, next) ==
  /\ page' = [page EXCEPT ![t] = next]
  /\ IF lock = t
     THEN /\ lock' = None /\ Stop /\ returned' = NoCallback
          /\ memory' = Empty /\ before' = Empty /\ request' = Empty
          /\ ack' = "none" /\ tries' = 0
     ELSE UNCHANGED <<lock, returned, commitVars, commandVars>>
  /\ UNCHANGED <<authFile, loads, failures>>

CloseTab(t) ==
  /\ page[t] # Shut /\ Unload(t, Shut)
  /\ UNCHANGED <<owner, expired>>

\* Ten minutes pass for the oldest transaction.
Expire ==
  /\ Cardinality(expired) < Len(owner)
  /\ expired' = expired \cup {Cardinality(expired) + 1}
  /\ UNCHANGED <<tabVars, commitVars, commandVars, authFile, owner, failures>>

-----------------------------------------------------------------------------
(* The main thread.                                                        *)

\* A frame drains the request and starts the writer.
DrainAuth ==
  /\ ack = "sent" /\ ack' = "queued"
  /\ UNCHANGED <<tabVars, memory, before, request, tries, commandVars, authFile, owner, expired,
                 failures>>

WriteAuth ==
  /\ ack = "queued"
  /\ authFile' = request /\ ack' = "stored"
  /\ UNCHANGED <<tabVars, memory, before, request, tries, commandVars, owner, expired,
                 failures>>

\* Mutant: the writer gives up without an answer.
WriteAuthFailsSilently ==
  /\ ack = "queued" /\ tries < 2 /\ failures < MaxFailures
  /\ failures' = failures + 1 /\ tries' = tries + 1
  /\ ack' = IF tries' < 2 THEN ack ELSE "lost"
  /\ UNCHANGED <<tabVars, memory, before, request, commandVars, authFile, owner, expired>>

\* Mutant: the tries are counted from zero.
WriteAuthFailsThrice ==
  /\ ack = "queued" /\ failures < MaxFailures
  /\ failures' = failures + 1 /\ tries' = tries + 1
  /\ ack' = IF tries < 2 THEN ack ELSE "refused"
  /\ UNCHANGED <<tabVars, memory, before, request, commandVars, authFile, owner, expired>>

\* Each write is tried twice; the second failure is the answer.
WriteAuthFails ==
  /\ ack = "queued" /\ failures < MaxFailures
  /\ failures' = failures + 1 /\ tries' = tries + 1
  /\ ack' = IF tries' < 2 THEN ack ELSE "refused"
  /\ UNCHANGED <<tabVars, memory, before, request, commandVars, authFile, owner, expired>>

-----------------------------------------------------------------------------
(* The worker's commands; each ends with an answer to the App.             *)

Environment == <<tabVars, authFile, owner, expired, failures>>

\* A step that only goes on to the next one.
GoOn(next) ==
  /\ step' = next
  /\ UNCHANGED <<commitVars, user, account, Environment>>

\* The answer to the last commit arrives, and the command goes on or ends.
AfterCommit(at, OnStored, OnRefused) ==
  /\ step = at /\ Answered
  /\ IF ack = "stored" THEN OnStored ELSE OnRefused
  /\ UNCHANGED Environment

\* restore_inner takes the callback; client.callback accepts the state of a young
\* transaction only, and deletes it before it exchanges the code.
RestoreSuccess ==
  /\ step = "restore" /\ returned.kind = "Success"
  /\ returned' = NoCallback
  /\ IF returned.state \in memory.states \ expired
     THEN /\ Commit([memory EXCEPT !.states = @ \ {returned.state}], "spent")
          /\ user' = owner[returned.state] /\ UNCHANGED account
     ELSE End(None) /\ UNCHANGED commitVars
  /\ UNCHANGED <<page, lock, loads, authFile, owner, expired, failures>>

RestoreError ==
  /\ step = "restore" /\ returned.kind = "Error"
  /\ returned' = NoCallback
  /\ Commit([memory EXCEPT !.states = @ \ {returned.state}], "discarded")
  /\ UNCHANGED <<page, lock, loads, user, account, authFile, owner, expired, failures>>

Discarded == AfterCommit("discarded", End(None), End(None))

Spent == AfterCommit("spent", OnTo("exchange"), End(None))

\* The code buys a session with the scope the server grants, or fails.
Exchange ==
  /\ step = "exchange"
  /\ \/ \E scope \in Scopes : /\ Commit([memory EXCEPT !.sessions[user] = scope], "signed")
                              /\ UNCHANGED <<user, account>>
     \/ End(None) /\ UNCHANGED commitVars
  /\ UNCHANGED Environment

Signed == AfterCommit("signed", OnTo("scope"), End(None))

\* ensure_subscription_scope refuses any grant but the exact one: revoke, which may
\* delete the session or fail, then clear_all.
RefuseScope ==
  /\ memory.sessions[user] # "exact"
  /\ \/ Commit([memory EXCEPT !.sessions[user] = None], "revoked")
     \/ Commit(Empty, "cleared")
  /\ UNCHANGED <<user, account, Environment>>

Revoked == AfterCommit("revoked", OnTo("clear"), OnTo("clear"))

ClearAll ==
  /\ step = "clear"
  /\ Commit(Empty, "cleared")
  /\ UNCHANGED <<user, account, Environment>>

Cleared == AfterCommit("cleared", End(None), End(None))

\* After the exchange: set_account.
SetAccount ==
  /\ step = "scope"
  /\ \/ RefuseScope
     \/ /\ memory.sessions[user] = "exact"
        /\ Commit([memory EXCEPT !.account = user], "named")
        /\ UNCHANGED <<user, account, Environment>>

Named == AfterCommit("named", End(user), End(None))

\* Without a callback: the stored account, if any.
RestoreStored ==
  /\ step = "restore" /\ returned = NoCallback
  /\ UNCHANGED <<commitVars, Environment>>
  /\ LET stored == Account(memory)
     IN IF stored = None THEN End(None)
        ELSE user' = stored /\ step' = "refresh" /\ UNCHANGED account

\* A permitted session is restored: it may need a refresh, whose answer is stored and may
\* name another scope; the server may not answer.
Refresh ==
  /\ step = "refresh"
  /\ \/ RefuseScope
     \/ /\ memory.sessions[user] = "exact"
        /\ \/ GoOn("rescope")
           \/ End(None) /\ UNCHANGED <<commitVars, Environment>>
           \/ /\ \E scope \in Scopes :
                   Commit([memory EXCEPT !.sessions[user] = scope], "refreshed")
              /\ UNCHANGED <<user, account, Environment>>

Refreshed == AfterCommit("refreshed", OnTo("rescope"), End(None))

Rescope ==
  /\ step = "rescope"
  /\ \/ RefuseScope
     \/ /\ memory.sessions[user] = "exact"
        /\ End(user) /\ UNCHANGED <<commitVars, Environment>>

\* login_inner: the transaction is stored before the page leaves.
Login(u) ==
  /\ step = "idle" /\ account = None /\ Len(owner) < MaxSignIns
  /\ owner' = Append(owner, u)
  /\ Commit([memory EXCEPT !.states = @ \cup {Len(owner')}], "redirect")
  /\ UNCHANGED <<tabVars, user, account, authFile, expired, failures>>

\* LoginOutcome::Redirect: the App navigates away.
Redirect ==
  /\ step = "redirect" /\ ack = "stored"
  /\ Unload(lock, Len(owner))
  /\ UNCHANGED <<owner, expired>>

RedirectRefused ==
  /\ step = "redirect" /\ ack = "refused" /\ Answered
  /\ End(None) /\ UNCHANGED Environment

\* logout_inner: revoke, which may delete the session or fail, then clear_all.
Logout ==
  /\ step = "idle" /\ account # None
  /\ \/ Commit([memory EXCEPT !.sessions[account] = None], "logout")
     \/ Commit(Empty, "forgotten")
  /\ UNCHANGED <<user, account, Environment>>

LogoutRevoked == AfterCommit("logout", OnTo("forget"), OnTo("forget"))

Forget ==
  /\ step = "forget"
  /\ Commit(Empty, "forgotten")
  /\ UNCHANGED <<user, account, Environment>>

\* The worker keeps the account if the log-out fails.
Forgotten == AfterCommit("forgotten", End(None), End(account))

Worker ==
  \/ RestoreSuccess \/ RestoreError \/ Discarded \/ Spent \/ Exchange \/ Signed
  \/ Revoked \/ ClearAll \/ Cleared \/ SetAccount \/ Named
  \/ RestoreStored \/ Refresh \/ Refreshed \/ Rescope
  \/ Redirect \/ RedirectRefused \/ LogoutRevoked \/ Forget \/ Forgotten

WebNext ==
  /\ shell = "web" /\ UNCHANGED shell
  /\ \/ \E t \in Tabs : Load(t) \/ Return(t) \/ CloseTab(t)
     \/ Expire \/ DrainAuth \/ WriteAuth \/ WriteAuthFails
     \/ Worker
     \/ \E u \in Users : Login(u)
     \/ Logout

WebSpec == WebInit /\ [][WebNext]_<<shell, webVars>>

-----------------------------------------------------------------------------
(* Properties.                                                             *)

\* Whenever the worker is not waiting for the file, its memory is what a reload would
\* find: a change that was refused has been taken back, and none was left out.
MemoryIsDurable ==
  lock # None /\ ack = "none" =>
    [memory EXCEPT !.states = @ \ expired] = Decode(authFile)

\* The worker's answers outlive the page.  Signed in: the file names the account, with
\* the exact grant.  Redirected: the file has the transaction the code will come back
\* for.  Logged out: the file has neither session nor transaction.
AnswersAreDurable ==
  [][shell = "web" =>
     /\ account' \notin {account, None} =>
          /\ Account(Decode(authFile')) = account'
          /\ Decode(authFile').sessions[account'] = "exact"
     /\ \A t \in Tabs :
          page'[t] # page[t] /\ page'[t] \in Transactions => page'[t] \in authFile'.states
     /\ account # None /\ account' = None /\ lock' # None => authFile' = Empty]_webVars

\* The browser draws frames, writes end one way or the other, and so do requests.
WebFairness ==
  /\ WF_webVars(DrainAuth)
  /\ WF_webVars(WriteAuth \/ WriteAuthFails)
  /\ WF_webVars(shell = "web" /\ Worker)
=============================================================================
