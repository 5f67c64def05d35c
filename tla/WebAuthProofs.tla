---------------------------- MODULE WebAuthProofs -----------------------------
(***************************************************************************)
(* WebAuth for any users, tabs and bounds: the worker's memory is what a   *)
(* reload would find, and what the worker answers is in the file.          *)
(*                                                                         *)
(* Neither follows from one step: an answer comes several steps after the  *)
(* change it reports, and the file may have refused the change meanwhile.  *)
(* Inductive is what each snapshot is worth while the worker waits         *)
(* (Journal), and what the memory holds at each step of a command          *)
(* (Progress).                                                             *)
(***************************************************************************)
EXTENDS WebAuth, FiniteSetTheorems, TLAPS

\* The steps that wait for the file, and those that do not.
WaitingSteps == {"spent", "discarded", "signed", "revoked", "cleared", "named", "refreshed",
                 "redirect", "logout", "forgotten"}
RunningSteps == {"restore", "idle", "exchange", "scope", "rescope", "refresh", "clear",
                 "forget"}

\* The same snapshot to whoever decodes it.
Same(s, t) ==
  /\ s.account = t.account /\ s.sessions = t.sessions
  /\ s.states \ expired = t.states \ expired

\* Every transaction a snapshot names was started.
Started ==
  /\ authFile.states \subseteq DOMAIN owner /\ memory.states \subseteq DOMAIN owner
  /\ before.states \subseteq DOMAIN owner /\ request.states \subseteq DOMAIN owner

\* The write in progress: what it would go back to is in the file, what it asks for is in
\* memory, and once it is stored that is in the file.
Journal ==
  /\ ack = "none" <=> step \notin WaitingSteps
  /\ ack = "none" /\ lock # None => Same(memory, authFile)
  /\ ack \in {"sent", "queued", "refused"} => Same(before, authFile)
  /\ ack # "none" => memory = request
  /\ ack = "stored" => authFile = memory
  /\ ack \in {"sent", "queued"} => tries < 2

\* What the memory holds at the steps an answer depends on.
Progress ==
  /\ account # None => step \in {"idle", "logout", "forget", "forgotten"}
  /\ step = "forgotten" => memory = Empty
  /\ step \in {"refresh", "rescope", "refreshed"} => user \in Users /\ Account(memory) = user
  /\ step = "named" => memory.account = user /\ memory.sessions[user] = "exact"
  /\ step = "redirect" => Len(owner) \in memory.states

WInv == WebTypeOK /\ Started /\ Journal /\ Progress

-----------------------------------------------------------------------------
(* Snapshots.                                                              *)

\* What an edit of one field of a snapshot gives.
LEMMA EditedStates ==
  ASSUME NEW s \in Snapshots, NEW states \in SUBSET Transactions
  PROVE  /\ [s EXCEPT !.states = states] \in Snapshots
         /\ [s EXCEPT !.states = states].states = states
         /\ [s EXCEPT !.states = states].account = s.account
         /\ [s EXCEPT !.states = states].sessions = s.sessions
BY DEF Snapshots

LEMMA EditedAccount ==
  ASSUME NEW s \in Snapshots, NEW acc \in Users \cup {None}
  PROVE  /\ [s EXCEPT !.account = acc] \in Snapshots
         /\ [s EXCEPT !.account = acc].states = s.states
         /\ [s EXCEPT !.account = acc].account = acc
         /\ [s EXCEPT !.account = acc].sessions = s.sessions
BY DEF Snapshots

LEMMA EmptySnapshot ==
  /\ Empty \in Snapshots /\ Empty.states = {} /\ Empty.account = None
  /\ Empty.sessions = NoSessions
BY DEF Empty, Snapshots, Sessions, NoSessions

\* Decoding keeps what Same compares.
LEMMA DecodeSame ==
  ASSUME NEW s \in Snapshots, NEW t \in Snapshots, expired \subseteq Transactions
  PROVE  Decode(s) = Decode(t) <=> Same(s, t)
<1>1. /\ Decode(s) \in Snapshots /\ Decode(s).states = s.states \ expired
      /\ Decode(s).account = s.account /\ Decode(s).sessions = s.sessions
  BY EditedStates DEF Decode, Snapshots
<1>2. /\ Decode(t) \in Snapshots /\ Decode(t).states = t.states \ expired
      /\ Decode(t).account = t.account /\ Decode(t).sessions = t.sessions
  BY EditedStates DEF Decode, Snapshots
<1>3. ASSUME NEW x \in Snapshots, NEW y \in Snapshots, x.states = y.states,
             x.account = y.account, x.sessions = y.sessions
      PROVE  x = y
  <2>1. x = [account |-> x.account, states |-> x.states, sessions |-> x.sessions]
    BY DEF Snapshots
  <2>2. y = [account |-> y.account, states |-> y.states, sessions |-> y.sessions]
    BY DEF Snapshots
  <2>3. QED
    BY <1>3, <2>1, <2>2
<1>4. QED
  BY <1>1, <1>2, <1>3 DEF Same

LEMMA DecodedFields ==
  ASSUME NEW s \in Snapshots, expired \subseteq Transactions
  PROVE  /\ Decode(s) \in Snapshots /\ Decode(s).states = s.states \ expired
         /\ Decode(s).account = s.account /\ Decode(s).sessions = s.sessions
BY EditedStates DEF Decode, Snapshots

\* The account of a snapshot is a user's, or none; it depends on two fields, and of the
\* sessions only on who has one.
LEMMA AccountType ==
  ASSUME NEW s \in Snapshots
  PROVE  Account(s) \in Users \cup {None}
BY DEF Account, Snapshots

LEMMA AccountDepends ==
  ASSUME NEW s, NEW t, s.account = t.account, s.sessions = t.sessions
  PROVE  Account(s) = Account(t)
BY DEF Account

LEMMA AccountKept ==
  ASSUME NEW s \in Snapshots, NEW t \in Snapshots, s.account = t.account,
         NEW u \in Users, NEW scope \in Scopes, s.sessions[u] # None,
         t.sessions = [s.sessions EXCEPT ![u] = scope]
  PROVE  Account(t) = Account(s)
<1> DEFINE signedIn(x) == {v \in Users : x.sessions[v] # None}
<1>1. \A v \in Users : s.sessions[v] # None <=> t.sessions[v] # None
  BY SignInAssumption DEF Snapshots, Sessions
<1>2. signedIn(s) = signedIn(t)
  BY <1>1
<1>3. Account(s) = IF s.account # None THEN s.account
                   ELSE IF signedIn(s) = {} THEN None ELSE CHOOSE v \in signedIn(s) : TRUE
  BY DEF Account
<1>4. Account(t) = IF t.account # None THEN t.account
                   ELSE IF signedIn(t) = {} THEN None ELSE CHOOSE v \in signedIn(t) : TRUE
  BY DEF Account
<1> HIDE DEF signedIn
<1>5. QED
  BY <1>2, <1>3, <1>4
-----------------------------------------------------------------------------
(* The start, and the three kinds of steps a command is made of.           *)

LEMMA ExpiredStarted == WebTypeOK => expired \subseteq Transactions
<1> SUFFICES ASSUME WebTypeOK PROVE expired \subseteq Transactions
  OBVIOUS
<1>1. expired \subseteq 1..Len(owner) /\ Len(owner) \in Nat /\ Len(owner) <= MaxSignIns
  BY DEF WebTypeOK
<1>2. QED
  BY <1>1, WebAuthAssumption DEF Transactions

LEMMA WebInitInvariant == WebInit => WInv
<1> SUFFICES ASSUME WebInit PROVE WInv
  OBVIOUS
<1>0. owner = <<>> /\ expired = {} /\ loads = 0 /\ failures = 0 /\ tries = 0
  BY DEF WebInit
<1>1. authFile \in Snapshots /\ authFile.states = {}
  <2>1. CASE authFile = Empty
    BY <2>1, EmptySnapshot
  <2>2. ASSUME NEW u \in Users, NEW s \in Scopes, NEW name \in {TRUE, FALSE},
               authFile = [Empty EXCEPT !.sessions[u] = s,
                                        !.account = IF name THEN u ELSE None]
        PROVE  authFile \in Snapshots /\ authFile.states = {}
    BY <2>2 DEF Empty, Snapshots, Sessions, NoSessions
  <2>3. QED
    BY <2>1, <2>2 DEF WebInit
<1>2. owner \in Seq(Users) /\ Len(owner) = 0 /\ DOMAIN owner = {}
  BY <1>0
<1>3. WebTypeOK
  <2>1. /\ page \in [Tabs -> {Shut, Open} \cup Transactions] /\ lock \in Tabs \cup {None}
        /\ step \in WebSteps /\ (step = "closed") = (lock = None)
        /\ returned \in Callbacks
    BY DEF WebInit, WebSteps, Callbacks
  <2>2. /\ memory \in Snapshots /\ before \in Snapshots /\ request \in Snapshots
    BY EmptySnapshot DEF WebInit
  <2>3. Len(owner) <= MaxSignIns /\ loads \in 0..MaxLoads /\ failures \in 0..MaxFailures
    BY <1>0, <1>2, WebAuthAssumption
  <2>4. expired \subseteq DOMAIN owner /\ tries \in 0..2
    BY <1>0, <1>2
  <2>5. ack = "none" /\ user = None /\ account = None
    BY DEF WebInit
  <2>6. QED
    BY <1>1, <1>2, <2>1, <2>2, <2>3, <2>4, <2>5 DEF WebTypeOK
<1>4. Started
  BY <1>1, <1>2, EmptySnapshot DEF WebInit, Started
<1>5. Journal /\ Progress
  BY DEF WebInit, Journal, Progress, WaitingSteps
<1>6. QED
  BY <1>3, <1>4, <1>5 DEF WInv

\* A change is made and sent.  What it would go back to is in the file.
LEMMA CommitInvariant ==
  ASSUME WInv, step \in RunningSteps, NEW s \in Snapshots, NEW next \in WaitingSteps,
         Commit(s, next), UNCHANGED <<page, lock, loads, authFile, expired, failures>>,
         returned' \in Callbacks, user' \in Users \cup {None}, account' \in Users \cup {None},
         owner' \in Seq(Users), Len(owner') <= MaxSignIns,
         DOMAIN owner \subseteq DOMAIN owner', s.states \subseteq DOMAIN owner'
  PROVE  WebTypeOK' /\ Started' /\ Journal' /\ memory' = s /\ step' = next
<1>1. ack = "none" /\ lock # None
  BY DEF WInv, WebTypeOK, Journal, WaitingSteps, RunningSteps
<1>2. /\ before' = memory /\ memory' = s /\ request' = s /\ ack' = "sent" /\ tries' = 0
      /\ step' = next
  BY DEF Commit
<1>3. WebTypeOK'
  BY <1>1, <1>2 DEF WInv, WebTypeOK, WebSteps, WaitingSteps
<1>4. Started'
  BY <1>2 DEF WInv, Started
<1>5. Journal'
  BY <1>1, <1>2 DEF WInv, Journal, Same
<1>6. QED
  BY <1>2, <1>3, <1>4, <1>5

\* The answer to a change, which stays or is taken back.
LEMMA AnswerInvariant ==
  ASSUME WInv, Answered, UNCHANGED Environment, step' \in RunningSteps,
         user' \in Users \cup {None}, account' \in Users \cup {None}
  PROVE  /\ WebTypeOK' /\ Started' /\ Journal'
         /\ ack = "stored" => memory' = memory /\ authFile = memory
<1>1. step \in WaitingSteps /\ lock # None /\ ack \in {"stored", "refused"}
  BY DEF WInv, WebTypeOK, Journal, WaitingSteps, Answered
<1>2. /\ before' = Empty /\ request' = Empty /\ ack' = "none" /\ tries' = 0
      /\ memory' = IF ack = "refused" THEN before ELSE memory
  BY DEF Answered
<1>3. UNCHANGED <<page, lock, returned, loads, authFile, owner, expired, failures>>
  BY DEF Environment, tabVars
<1>4. memory' \in Snapshots
  BY <1>2 DEF WInv, WebTypeOK
<1>5. WebTypeOK'
  BY <1>1, <1>2, <1>3, <1>4, EmptySnapshot DEF WInv, WebTypeOK, WebSteps, RunningSteps
<1>6. Started'
  BY <1>2, <1>3, EmptySnapshot DEF WInv, Started
<1>7. Same(memory', authFile)
  BY <1>1, <1>2 DEF WInv, Journal, Same
<1>8. Journal'
  BY <1>2, <1>3, <1>7 DEF Journal, Same, WaitingSteps, RunningSteps
<1>9. QED
  BY <1>1, <1>2, <1>5, <1>6, <1>8 DEF WInv, Journal

\* A step that changes no snapshot.
LEMMA RunInvariant ==
  ASSUME WInv, step \in RunningSteps, step' \in RunningSteps, UNCHANGED commitVars,
         UNCHANGED <<page, lock, loads, authFile, owner, expired, failures>>,
         returned' \in Callbacks, user' \in Users \cup {None}, account' \in Users \cup {None}
  PROVE  WebTypeOK' /\ Started' /\ Journal'
<1>1. ack = "none" /\ lock # None
  BY DEF WInv, WebTypeOK, Journal, WaitingSteps, RunningSteps
<1>2. UNCHANGED <<memory, before, request, ack, tries>>
  BY DEF commitVars
<1>3. WebTypeOK'
  BY <1>1, <1>2 DEF WInv, WebTypeOK, WebSteps, RunningSteps
<1>4. Started'
  BY <1>2 DEF WInv, Started
<1>5. Journal'
  BY <1>1, <1>2 DEF WInv, Journal, Same, WaitingSteps, RunningSteps
<1>6. QED
  BY <1>3, <1>4, <1>5

-----------------------------------------------------------------------------
(* Pages, time and the file.                                               *)

\* A page that gets the lock starts from the file.
LEMMA LoadInvariant ==
  ASSUME WInv, NEW t \in Tabs, Load(t) \/ Return(t)
  PROVE  WInv'
<1>1. PICK callback \in Callbacks : LoadPage(t, callback)
  BY DEF Load, Return, Callbacks
<1>2. /\ UNCHANGED <<before, request, ack, tries, user, account, authFile, owner, expired,
                     failures>>
      /\ loads' \in 0..MaxLoads
      /\ page' \in [Tabs -> {Shut, Open} \cup Transactions]
  BY <1>1, WebAuthAssumption DEF LoadPage, WInv, WebTypeOK
<1>3. CASE lock = None
  <2>1. lock' = t /\ returned' = callback /\ memory' = Decode(authFile) /\ step' = "restore"
    BY <1>1, <1>3 DEF LoadPage
  <2>2. t # None /\ ack = "none" /\ step = "closed"
    BY <1>3, WebAuthAssumption DEF WInv, WebTypeOK, Journal, WaitingSteps
  <2>3. expired \subseteq Transactions
    BY ExpiredStarted DEF WInv
  <2>4. /\ memory' \in Snapshots /\ memory'.states = authFile.states \ expired
        /\ memory'.account = authFile.account /\ memory'.sessions = authFile.sessions
    BY <2>1, <2>3, DecodedFields DEF WInv, WebTypeOK
  <2>5. WebTypeOK'
    BY <1>2, <2>1, <2>2, <2>4 DEF WInv, WebTypeOK, WebSteps
  <2>6. Started'
    BY <1>2, <2>4 DEF WInv, Started
  <2>7. Journal'
    BY <1>2, <2>1, <2>2, <2>4 DEF Journal, Same, WaitingSteps
  <2>8. Progress'
    BY <1>2, <2>1, <2>2 DEF WInv, Progress
  <2>9. QED
    BY <2>5, <2>6, <2>7, <2>8 DEF WInv
<1>4. CASE lock # None
  <2>1. UNCHANGED <<lock, returned, memory, step>>
    BY <1>1, <1>4 DEF LoadPage
  <2>2. WebTypeOK' /\ Started'
    BY <1>2, <2>1 DEF WInv, WebTypeOK, Started
  <2>3. Journal' /\ Progress'
    BY <1>2, <2>1 DEF WInv, Journal, Progress, Same, Account
  <2>4. QED
    BY <2>2, <2>3 DEF WInv
<1>5. QED
  BY <1>3, <1>4

\* Without its worker there is no command and no write.
LEMMA UnloadInvariant ==
  ASSUME WInv, NEW t \in Tabs, NEW next \in {Shut} \cup Transactions, Unload(t, next),
         UNCHANGED <<owner, expired>>
  PROVE  WInv'
<1>1. /\ UNCHANGED <<authFile, loads, failures>>
      /\ page' \in [Tabs -> {Shut, Open} \cup Transactions]
  BY DEF Unload, WInv, WebTypeOK
<1>2. CASE lock = t
  <2>1. /\ lock' = None /\ step' = "closed" /\ user' = None /\ account' = None
        /\ returned' = NoCallback
        /\ memory' = Empty /\ before' = Empty /\ request' = Empty
        /\ ack' = "none" /\ tries' = 0
    BY <1>2 DEF Unload, Stop
  <2>2. WebTypeOK'
    BY <1>1, <2>1, EmptySnapshot DEF WInv, WebTypeOK, WebSteps, Callbacks
  <2>3. Started'
    BY <1>1, <2>1, EmptySnapshot DEF WInv, Started
  <2>4. Journal' /\ Progress'
    BY <2>1 DEF Journal, Progress, WaitingSteps
  <2>5. QED
    BY <2>2, <2>3, <2>4 DEF WInv
<1>3. CASE lock # t
  <2>1. UNCHANGED <<lock, returned, memory, before, request, ack, tries, step, user, account>>
    BY <1>3 DEF Unload, commitVars, commandVars
  <2>2. WebTypeOK' /\ Started'
    BY <1>1, <2>1 DEF WInv, WebTypeOK, Started
  <2>3. Journal' /\ Progress'
    BY <1>1, <2>1 DEF WInv, Journal, Progress, Same, Account
  <2>4. QED
    BY <2>2, <2>3 DEF WInv
<1>4. QED
  BY <1>2, <1>3

\* What has expired is left out of both snapshots.
LEMMA ExpireInvariant ==
  ASSUME WInv, Expire
  PROVE  WInv'
<1>1. UNCHANGED <<page, lock, returned, loads, memory, before, request, ack, tries, step,
                  user, account, authFile, owner, failures>>
  BY DEF Expire, tabVars, commitVars, commandVars
<1>2. Cardinality(expired) \in Nat
  <2>1. IsFiniteSet(DOMAIN owner)
    BY FS_Interval DEF WInv, WebTypeOK
  <2>2. QED
    BY <2>1, FS_Subset, FS_CardinalityType DEF WInv, WebTypeOK
<1>3. expired \subseteq expired' /\ expired' \subseteq DOMAIN owner
  BY <1>2 DEF Expire, WInv, WebTypeOK
<1>4. WebTypeOK' /\ Started'
  BY <1>1, <1>3 DEF WInv, WebTypeOK, Started
<1>5. \A s, r \in Snapshots : Same(s, r) => Same(s, r)'
  BY <1>3 DEF Same
<1>6. Journal'
  BY <1>1, <1>5 DEF WInv, Journal, Same, WebTypeOK
<1>7. Progress'
  BY <1>1 DEF WInv, Progress, Account
<1>8. QED
  BY <1>4, <1>6, <1>7 DEF WInv

\* The main thread drains the request, and writes it or fails.
LEMMA WriteInvariant ==
  ASSUME WInv, DrainAuth \/ WriteAuth \/ WriteAuthFails
  PROVE  WInv'
<1>1. /\ UNCHANGED <<page, lock, returned, loads, memory, before, request, step, user,
                     account, owner, expired>>
      /\ ack \in {"sent", "queued"} /\ step \in WaitingSteps /\ lock # None
  BY DEF DrainAuth, WriteAuth, WriteAuthFails, tabVars, commandVars, WInv, Journal,
     WebTypeOK, WaitingSteps
<1>2. Progress'
  BY <1>1 DEF WInv, Progress, Account
<1>3. CASE DrainAuth
  <2>1. ack' = "queued" /\ UNCHANGED <<tries, authFile, failures>>
    BY <1>3 DEF DrainAuth
  <2>2. WebTypeOK' /\ Started'
    BY <1>1, <2>1 DEF WInv, WebTypeOK, Started
  <2>3. Journal'
    BY <1>1, <2>1 DEF WInv, Journal, Same
  <2>4. QED
    BY <1>2, <2>2, <2>3 DEF WInv
<1>4. CASE WriteAuth
  <2>1. ack' = "stored" /\ authFile' = request /\ UNCHANGED <<tries, failures>>
    BY <1>4 DEF WriteAuth
  <2>2. WebTypeOK' /\ Started'
    BY <1>1, <2>1 DEF WInv, WebTypeOK, Started
  <2>3. Journal'
    BY <1>1, <2>1 DEF WInv, Journal, Same
  <2>4. QED
    BY <1>2, <2>2, <2>3 DEF WInv
<1>5. CASE WriteAuthFails
  <2>1. /\ ack = "queued" /\ tries' = tries + 1 /\ tries \in 0..1
        /\ failures' \in 0..MaxFailures /\ UNCHANGED authFile
        /\ ack' = IF tries' < 2 THEN "queued" ELSE "refused"
    BY <1>5, WebAuthAssumption DEF WriteAuthFails, WInv, WebTypeOK, Journal
  <2>2. WebTypeOK' /\ Started'
    BY <1>1, <2>1 DEF WInv, WebTypeOK, Started
  <2>3. Journal'
    BY <1>1, <2>1 DEF WInv, Journal, Same
  <2>4. QED
    BY <1>2, <2>2, <2>3 DEF WInv
<1>6. QED
  BY <1>3, <1>4, <1>5

-----------------------------------------------------------------------------
(* The commands.                                                           *)

\* An answer that only goes on or ends.
LEMMA AnswerTypes ==
  ASSUME WInv, NEW next \in RunningSteps, NEW acc \in Users \cup {None}, OnTo(next) \/ End(acc)
  PROVE  /\ step' \in RunningSteps
         /\ user' \in Users \cup {None} /\ account' \in Users \cup {None}
BY DEF OnTo, End, RunningSteps, WInv, WebTypeOK

\* Restoring with a callback.
LEMMA CallbackInvariant ==
  ASSUME WInv, RestoreSuccess \/ RestoreError
  PROVE  WInv'
<1>1. /\ step = "restore" /\ step \in RunningSteps /\ returned' \in Callbacks
      /\ UNCHANGED <<page, lock, loads, authFile, owner, expired, failures>>
      /\ account = None
      /\ owner \in Seq(Users) /\ Len(owner) <= MaxSignIns
  BY DEF RestoreSuccess, RestoreError, RunningSteps, Callbacks, WInv, Progress, WebTypeOK
<1> DEFINE spent == [memory EXCEPT !.states = @ \ {returned.state}]
<1>2. spent \in Snapshots /\ spent.states \subseteq DOMAIN owner
  <2>1. memory.states \ {returned.state} \in SUBSET Transactions
    BY DEF WInv, WebTypeOK, Snapshots
  <2>2. memory \in Snapshots /\ memory.states \subseteq DOMAIN owner
    BY DEF WInv, WebTypeOK, Started
  <2>3. spent \in Snapshots /\ spent.states = memory.states \ {returned.state}
    BY <2>1, <2>2, EditedStates
  <2>4. QED
    BY <2>2, <2>3
<1>3. CASE \/ /\ RestoreSuccess /\ returned.state \in memory.states \ expired
           \/ RestoreError
  <2>1. PICK next \in {"spent", "discarded"} : Commit(spent, next)
    BY <1>3 DEF RestoreSuccess, RestoreError
  <2>2. user' \in Users \cup {None} /\ account' = account
    <3>1. CASE RestoreSuccess /\ returned.state \in memory.states \ expired
      <4>1. returned.state \in DOMAIN owner
        BY <3>1 DEF WInv, Started
      <4>2. QED
        BY <1>1, <3>1, <4>1 DEF RestoreSuccess
    <3>2. CASE RestoreError
      BY <3>2 DEF RestoreError, WInv, WebTypeOK
    <3>3. QED
      BY <1>3, <3>1, <3>2
  <2>3. WebTypeOK' /\ Started' /\ Journal' /\ step' = next
    <3>1. account' \in Users \cup {None} /\ next \in WaitingSteps
      BY <1>1, <2>2 DEF WaitingSteps
    <3> HIDE DEF spent
    <3>2. QED
      BY <1>1, <1>2, <2>1, <2>2, <3>1, CommitInvariant
  <2>4. Progress'
    BY <1>1, <2>2, <2>3 DEF Progress
  <2>5. QED
    BY <2>3, <2>4 DEF WInv
<1>4. CASE RestoreSuccess /\ returned.state \notin memory.states \ expired
  <2>1. End(None) /\ UNCHANGED commitVars
    BY <1>4 DEF RestoreSuccess
  <2>2. step' = "idle" /\ user' = None /\ account' = None /\ step' \in RunningSteps
    BY <2>1 DEF End, RunningSteps
  <2>3. WebTypeOK' /\ Started' /\ Journal'
    BY <1>1, <2>1, <2>2, RunInvariant
  <2>4. QED
    BY <2>2, <2>3 DEF WInv, Progress
<1>5. QED
  BY <1>3, <1>4

\* Steps that commit a change of memory while a command runs, and change nothing else.
LEMMA CommandCommits ==
  ASSUME WInv, step \in RunningSteps, NEW s \in Snapshots, NEW next \in WaitingSteps,
         Commit(s, next), UNCHANGED <<user, account, Environment>>,
         s.states \subseteq DOMAIN owner
  PROVE  /\ WebTypeOK' /\ Started' /\ Journal' /\ memory' = s /\ step' = next
         /\ UNCHANGED <<user, account, owner>>
<1>1. /\ UNCHANGED <<user, account, page, lock, returned, loads, authFile, owner, expired,
                     failures>>
      /\ returned \in Callbacks /\ user \in Users \cup {None} /\ account \in Users \cup {None}
      /\ owner \in Seq(Users) /\ Len(owner) <= MaxSignIns
  BY DEF Environment, tabVars, WInv, WebTypeOK
<1>2. QED
  BY <1>1, CommitInvariant

\* ... the change being a session of one user.
LEMMA SessionCommits ==
  ASSUME WInv, step \in RunningSteps, NEW u, NEW scope \in Scopes \cup {None},
         NEW next \in WaitingSteps, Commit([memory EXCEPT !.sessions[u] = scope], next),
         UNCHANGED <<user, account, Environment>>
  PROVE  /\ WebTypeOK' /\ Started' /\ Journal' /\ step' = next
         /\ memory' \in Snapshots /\ memory'.account = memory.account
         /\ memory'.sessions = [memory.sessions EXCEPT ![u] = scope]
         /\ UNCHANGED <<user, account, owner>>
<1> DEFINE s == [memory EXCEPT !.sessions[u] = scope]
<1>1. memory \in Snapshots /\ memory.states \subseteq DOMAIN owner
  BY DEF WInv, WebTypeOK, Started
<1>2. /\ s \in Snapshots /\ s.states = memory.states /\ s.account = memory.account
      /\ s.sessions = [memory.sessions EXCEPT ![u] = scope]
  BY <1>1 DEF Snapshots, Sessions
<1> HIDE DEF s
<1>3. Commit(s, next)
  BY DEF s
<1>4. QED
  BY <1>1, <1>2, <1>3, CommandCommits

\* ... the change being that nobody is known any more.
LEMMA EmptyCommits ==
  ASSUME WInv, step \in RunningSteps, NEW next \in WaitingSteps, Commit(Empty, next),
         UNCHANGED <<user, account, Environment>>
  PROVE  /\ WebTypeOK' /\ Started' /\ Journal' /\ step' = next /\ memory' = Empty
         /\ UNCHANGED <<user, account, owner>>
BY EmptySnapshot, CommandCommits

\* A grant other than the exact one is refused.
LEMMA RefuseInvariant ==
  ASSUME WInv, step \in {"scope", "refresh", "rescope"}, RefuseScope
  PROVE  WInv'
<1>1. step \in RunningSteps /\ account = None
  BY DEF RunningSteps, WInv, Progress
<1>2. ASSUME Commit([memory EXCEPT !.sessions[user] = None], "revoked"),
             UNCHANGED <<user, account, Environment>>
      PROVE  WInv'
  <2>1. "revoked" \in WaitingSteps /\ None \in Scopes \cup {None}
    BY DEF WaitingSteps
  <2>2. WebTypeOK' /\ Started' /\ Journal' /\ step' = "revoked" /\ account' = account
    BY <1>1, <1>2, <2>1, SessionCommits
  <2>3. QED
    BY <1>1, <2>2 DEF WInv, Progress
<1>3. ASSUME Commit(Empty, "cleared"), UNCHANGED <<user, account, Environment>>
      PROVE  WInv'
  <2>1. "cleared" \in WaitingSteps
    BY DEF WaitingSteps
  <2>2. WebTypeOK' /\ Started' /\ Journal' /\ step' = "cleared" /\ account' = account
    BY <1>1, <1>3, <2>1, EmptyCommits
  <2>3. QED
    BY <1>1, <2>2 DEF WInv, Progress
<1>4. QED
  BY <1>2, <1>3 DEF RefuseScope

\* The code buys a session, whose grant is looked at before its account is named.
LEMMA ExchangeInvariant ==
  ASSUME WInv, Exchange
  PROVE  WInv'
<1>1. step = "exchange" /\ step \in RunningSteps /\ account = None
  BY DEF Exchange, RunningSteps, WInv, Progress
<1>2. ASSUME NEW scope \in Scopes, Commit([memory EXCEPT !.sessions[user] = scope], "signed"),
             UNCHANGED <<user, account, Environment>>
      PROVE  WInv'
  <2>1. "signed" \in WaitingSteps
    BY DEF WaitingSteps
  <2>2. WebTypeOK' /\ Started' /\ Journal' /\ step' = "signed" /\ account' = account
    BY <1>1, <1>2, <2>1, SessionCommits
  <2>3. QED
    BY <1>1, <2>2 DEF WInv, Progress
<1>3. ASSUME End(None), UNCHANGED commitVars, UNCHANGED Environment
      PROVE  WInv'
  <2>1. step' = "idle" /\ user' = None /\ account' = None /\ step' \in RunningSteps
    BY <1>3 DEF End, RunningSteps
  <2>2. /\ UNCHANGED <<page, lock, loads, authFile, owner, expired, failures>>
        /\ returned' \in Callbacks
    BY <1>3 DEF Environment, tabVars, WInv, WebTypeOK
  <2>3. WebTypeOK' /\ Started' /\ Journal'
    BY <1>1, <1>3, <2>1, <2>2, RunInvariant
  <2>4. QED
    BY <2>1, <2>3 DEF WInv, Progress
<1>4. QED
  BY <1>2, <1>3 DEF Exchange

LEMMA SetAccountInvariant ==
  ASSUME WInv, SetAccount
  PROVE  WInv'
<1>1. step = "scope" /\ step \in RunningSteps /\ account = None
  BY DEF SetAccount, RunningSteps, WInv, Progress
<1>2. CASE RefuseScope
  BY <1>1, <1>2, RefuseInvariant
<1>3. ASSUME memory.sessions[user] = "exact", Commit([memory EXCEPT !.account = user], "named"),
             UNCHANGED <<user, account, Environment>>
      PROVE  WInv'
  <2> DEFINE s == [memory EXCEPT !.account = user]
  <2>1. /\ memory \in Snapshots /\ memory.states \subseteq DOMAIN owner
        /\ user \in Users \cup {None}
    BY DEF WInv, WebTypeOK, Started
  <2>2. /\ s \in Snapshots /\ s.states = memory.states /\ s.account = user
        /\ s.sessions = memory.sessions
    BY <2>1, EditedAccount
  <2> HIDE DEF s
  <2>3. Commit(s, "named") /\ "named" \in WaitingSteps
    BY <1>3 DEF s, WaitingSteps
  <2>4. /\ WebTypeOK' /\ Started' /\ Journal' /\ memory' = s /\ step' = "named"
        /\ UNCHANGED <<user, account>>
    BY <1>1, <1>3, <2>1, <2>2, <2>3, CommandCommits
  <2>5. Progress'
    BY <1>1, <1>3, <2>2, <2>4 DEF Progress
  <2>6. QED
    BY <2>4, <2>5 DEF WInv
<1>4. QED
  BY <1>2, <1>3 DEF SetAccount

\* Restoring a stored account: whatever the refresh grants, whose account it is does not
\* change on the way.
LEMMA RestoreStoredInvariant ==
  ASSUME WInv, RestoreStored
  PROVE  WInv'
<1>1. /\ step = "restore" /\ step \in RunningSteps /\ account = None
      /\ UNCHANGED <<page, lock, loads, authFile, owner, expired, failures>>
      /\ UNCHANGED commitVars /\ returned' \in Callbacks
  BY DEF RestoreStored, RunningSteps, WInv, Progress, WebTypeOK, Environment, tabVars
<1>2. Account(memory) \in Users \cup {None}
  BY AccountType DEF WInv, WebTypeOK
<1>3. CASE Account(memory) = None
  <2>1. step' = "idle" /\ user' = None /\ account' = None /\ step' \in RunningSteps
    BY <1>3 DEF RestoreStored, End, RunningSteps
  <2>2. WebTypeOK' /\ Started' /\ Journal'
    BY <1>1, <2>1, RunInvariant
  <2>3. QED
    BY <2>1, <2>2 DEF WInv, Progress
<1>4. CASE Account(memory) # None
  <2>1. /\ step' = "refresh" /\ user' = Account(memory) /\ account' = account
        /\ step' \in RunningSteps
    BY <1>4 DEF RestoreStored, RunningSteps
  <2>2. WebTypeOK' /\ Started' /\ Journal'
    BY <1>1, <1>2, <2>1, RunInvariant
  <2>3. Account(memory') = user' /\ user' \in Users
    BY <1>1, <1>2, <1>4, <2>1 DEF commitVars
  <2>4. Progress'
    BY <1>1, <2>1, <2>3 DEF Progress, Account
  <2>5. QED
    BY <2>2, <2>4 DEF WInv
<1>5. QED
  BY <1>3, <1>4

LEMMA RefreshInvariant ==
  ASSUME WInv, Refresh
  PROVE  WInv'
<1>1. /\ step = "refresh" /\ step \in RunningSteps /\ account = None
      /\ user \in Users /\ Account(memory) = user /\ memory \in Snapshots
  BY DEF Refresh, RunningSteps, WInv, Progress, WebTypeOK
<1>2. CASE RefuseScope
  BY <1>1, <1>2, RefuseInvariant
<1>3. ASSUME GoOn("rescope")
      PROVE  WInv'
  <2>1. /\ UNCHANGED <<page, lock, loads, authFile, owner, expired, failures>>
        /\ UNCHANGED commitVars /\ returned' \in Callbacks
        /\ step' = "rescope" /\ step' \in RunningSteps /\ UNCHANGED <<user, account>>
    BY <1>3 DEF GoOn, RunningSteps, WInv, WebTypeOK, Environment, tabVars
  <2>2. WebTypeOK' /\ Started' /\ Journal'
    BY <1>1, <2>1, RunInvariant
  <2>3. Account(memory') = user' /\ user' \in Users
    BY <1>1, <2>1 DEF commitVars
  <2>4. Progress'
    BY <1>1, <2>1, <2>3 DEF Progress, Account
  <2>5. QED
    BY <2>2, <2>4 DEF WInv
<1>4. ASSUME End(None), UNCHANGED <<commitVars, Environment>>
      PROVE  WInv'
  <2>1. step' = "idle" /\ user' = None /\ account' = None /\ step' \in RunningSteps
    BY <1>4 DEF End, RunningSteps
  <2>2. /\ UNCHANGED <<page, lock, loads, authFile, owner, expired, failures>>
        /\ UNCHANGED commitVars /\ returned' \in Callbacks
    BY <1>4 DEF Environment, tabVars, WInv, WebTypeOK
  <2>3. WebTypeOK' /\ Started' /\ Journal'
    BY <1>1, <2>1, <2>2, RunInvariant
  <2>4. QED
    BY <2>1, <2>3 DEF WInv, Progress
<1>5. ASSUME memory.sessions[user] = "exact", NEW scope \in Scopes,
             Commit([memory EXCEPT !.sessions[user] = scope], "refreshed"),
             UNCHANGED <<user, account, Environment>>
      PROVE  WInv'
  <2>1. "refreshed" \in WaitingSteps
    BY DEF WaitingSteps
  <2>2. /\ WebTypeOK' /\ Started' /\ Journal' /\ step' = "refreshed"
        /\ memory' \in Snapshots /\ memory'.account = memory.account
        /\ memory'.sessions = [memory.sessions EXCEPT ![user] = scope]
        /\ UNCHANGED <<user, account>>
    BY <1>1, <1>5, <2>1, SessionCommits
  <2>3. memory.sessions[user] # None
    BY <1>5, SignInAssumption DEF Scopes
  <2>4. Account(memory') = Account(memory)
    BY <1>1, <2>2, <2>3, AccountKept
  <2>5. Progress'
    BY <1>1, <2>2, <2>4 DEF Progress, Account
  <2>6. QED
    BY <2>2, <2>5 DEF WInv
<1>6. QED
  BY <1>2, <1>3, <1>4, <1>5 DEF Refresh

LEMMA RescopeInvariant ==
  ASSUME WInv, Rescope
  PROVE  WInv'
<1>1. step = "rescope" /\ step \in RunningSteps
  BY DEF Rescope, RunningSteps
<1>2. CASE RefuseScope
  BY <1>1, <1>2, RefuseInvariant
<1>3. ASSUME End(user), UNCHANGED <<commitVars, Environment>>
      PROVE  WInv'
  <2>1. /\ step' = "idle" /\ user' = None /\ account' = user /\ step' \in RunningSteps
        /\ user \in Users \cup {None}
    BY <1>3 DEF End, RunningSteps, WInv, WebTypeOK
  <2>2. /\ UNCHANGED <<page, lock, loads, authFile, owner, expired, failures>>
        /\ UNCHANGED commitVars /\ returned' \in Callbacks
    BY <1>3 DEF Environment, tabVars, WInv, WebTypeOK
  <2>3. WebTypeOK' /\ Started' /\ Journal'
    BY <1>1, <2>1, <2>2, RunInvariant
  <2>4. QED
    BY <2>1, <2>3 DEF WInv, Progress
<1>4. QED
  BY <1>2, <1>3 DEF Rescope

\* The transaction is in the snapshot the page waits for.
LEMMA LoginInvariant ==
  ASSUME WInv, NEW u \in Users, Login(u)
  PROVE  WInv'
<1>1. /\ step = "idle" /\ step \in RunningSteps /\ account = None /\ "redirect" \in WaitingSteps
      /\ UNCHANGED <<page, lock, returned, loads, user, account, authFile, expired, failures>>
      /\ returned \in Callbacks /\ user \in Users \cup {None} /\ account \in Users \cup {None}
  BY DEF Login, RunningSteps, WaitingSteps, tabVars, WInv, WebTypeOK
<1>2. /\ owner' \in Seq(Users) /\ Len(owner') = Len(owner) + 1 /\ Len(owner) \in Nat
      /\ Len(owner') <= MaxSignIns /\ DOMAIN owner \subseteq DOMAIN owner'
      /\ Len(owner') \in DOMAIN owner'
  <2>1. /\ owner \in Seq(Users) /\ Len(owner) < MaxSignIns /\ owner' = Append(owner, u)
    BY DEF Login, WInv, WebTypeOK
  <2>2. /\ owner' \in Seq(Users) /\ Len(owner') = Len(owner) + 1 /\ Len(owner) \in Nat
        /\ DOMAIN owner = 1..Len(owner) /\ DOMAIN owner' = 1..Len(owner')
    BY <2>1
  <2>3. QED
    BY <2>1, <2>2, WebAuthAssumption
<1> DEFINE s == [memory EXCEPT !.states = @ \cup {Len(owner')}]
<1>3. memory \in Snapshots /\ memory.states \subseteq DOMAIN owner
  BY DEF WInv, WebTypeOK, Started
<1>4. memory.states \cup {Len(owner')} \in SUBSET Transactions
  BY <1>2, <1>3, WebAuthAssumption DEF Snapshots, Transactions
<1>5. s \in Snapshots /\ s.states = memory.states \cup {Len(owner')}
  BY <1>3, <1>4, EditedStates
<1> HIDE DEF s
<1>6. Commit(s, "redirect")
  BY DEF Login, s
<1>7. s.states \subseteq DOMAIN owner'
  BY <1>2, <1>3, <1>5
<1>8. WebTypeOK' /\ Started' /\ Journal' /\ memory' = s /\ step' = "redirect"
  BY <1>1, <1>2, <1>5, <1>6, <1>7, CommitInvariant
<1>9. Progress'
  BY <1>1, <1>5, <1>8 DEF Progress
<1>10. QED
  BY <1>8, <1>9 DEF WInv

\* Logging out, and what is left to do once the session has been revoked.
LEMMA LogoutInvariant ==
  ASSUME WInv, Logout \/ Forget \/ ClearAll
  PROVE  WInv'
<1>1. step \in {"idle", "forget", "clear"} /\ step \in RunningSteps
  BY DEF Logout, Forget, ClearAll, RunningSteps
<1>2. ASSUME Commit([memory EXCEPT !.sessions[account] = None], "logout"), step = "idle",
             UNCHANGED <<user, account, Environment>>
      PROVE  WInv'
  <2>1. "logout" \in WaitingSteps /\ None \in Scopes \cup {None}
    BY DEF WaitingSteps
  <2>2. WebTypeOK' /\ Started' /\ Journal' /\ step' = "logout" /\ account' = account
    BY <1>1, <1>2, <2>1, SessionCommits
  <2>3. QED
    BY <2>2 DEF WInv, Progress
<1>3. ASSUME NEW next \in {"forgotten", "cleared"}, Commit(Empty, next),
             UNCHANGED <<user, account, Environment>>,
             next = "cleared" => step = "clear"
      PROVE  WInv'
  <2>1. next \in WaitingSteps
    BY DEF WaitingSteps
  <2>2. /\ WebTypeOK' /\ Started' /\ Journal' /\ step' = next /\ account' = account
        /\ memory' = Empty
    BY <1>1, <1>3, <2>1, EmptyCommits
  <2>3. next = "cleared" => account = None
    BY <1>3 DEF WInv, Progress
  <2>4. QED
    BY <2>2, <2>3 DEF WInv, Progress
<1>4. QED
  BY <1>2, <1>3 DEF Logout, Forget, ClearAll

\* The answers.
LEMMA AnsweredInvariant ==
  ASSUME WInv, \/ Discarded \/ Spent \/ Signed \/ Revoked \/ Cleared \/ Named \/ Refreshed
               \/ RedirectRefused \/ LogoutRevoked \/ Forgotten
  PROVE  WInv'
<1>1. Answered /\ UNCHANGED Environment /\ UNCHANGED owner
  BY DEF Discarded, Spent, Signed, Revoked, Cleared, Named, Refreshed, RedirectRefused,
     LogoutRevoked, Forgotten, AfterCommit, Environment
<1>2. None \in Users \cup {None} /\ user \in Users \cup {None} /\ account \in Users \cup {None}
  BY DEF WInv, WebTypeOK
<1>3. /\ "exchange" \in RunningSteps /\ "scope" \in RunningSteps /\ "clear" \in RunningSteps
      /\ "rescope" \in RunningSteps /\ "forget" \in RunningSteps /\ "idle" \in RunningSteps
  BY DEF RunningSteps
<1>4. PICK next \in RunningSteps, acc \in Users \cup {None} : OnTo(next) \/ End(acc)
  BY <1>2, <1>3 DEF Discarded, Spent, Signed, Revoked, Cleared, Named, Refreshed,
     RedirectRefused, LogoutRevoked, Forgotten, AfterCommit
<1>5. /\ step' \in RunningSteps
      /\ user' \in Users \cup {None} /\ account' \in Users \cup {None}
  BY <1>4, AnswerTypes
<1>6. WebTypeOK' /\ Started' /\ Journal' /\ (ack = "stored" => memory' = memory)
  BY <1>1, <1>5, AnswerInvariant
<1>7. CASE Refreshed
  <2>1. step = "refreshed" /\ account = None /\ user \in Users /\ Account(memory) = user
    BY <1>7 DEF Refreshed, AfterCommit, WInv, Progress
  <2>2. \/ ack = "stored" /\ step' = "rescope" /\ UNCHANGED <<user, account>>
        \/ step' = "idle" /\ account' = None
    BY <1>7 DEF Refreshed, AfterCommit, OnTo, End
  <2>3. Progress'
    BY <1>6, <2>1, <2>2 DEF Progress, Account
  <2>4. QED
    BY <1>6, <2>3 DEF WInv
<1>8. CASE ~Refreshed
  <2>1. /\ step' \in {"exchange", "scope", "clear", "forget", "idle"}
        /\ account' # None => step' \in {"forget", "idle"}
    BY <1>8 DEF Discarded, Spent, Signed, Revoked, Cleared, Named, RedirectRefused,
       LogoutRevoked, Forgotten, AfterCommit, OnTo, End, WInv, Progress
  <2>2. Progress'
    BY <2>1 DEF Progress
  <2>3. QED
    BY <1>6, <2>2 DEF WInv
<1>9. QED
  BY <1>7, <1>8

LEMMA RedirectInvariant ==
  ASSUME WInv, Redirect
  PROVE  WInv'
<1>1. lock \in Tabs /\ Len(owner) \in Transactions
  BY DEF Redirect, WInv, WebTypeOK, Progress, Snapshots
<1>2. Unload(lock, Len(owner)) /\ UNCHANGED <<owner, expired>>
  BY DEF Redirect
<1>3. QED
  BY <1>1, <1>2, UnloadInvariant

LEMMA WebNextInvariant == WInv /\ [WebNext]_<<shell, webVars>> => WInv'
<1> SUFFICES ASSUME WInv, [WebNext]_<<shell, webVars>> PROVE WInv'
  OBVIOUS
<1>1. CASE UNCHANGED <<shell, webVars>>
  BY <1>1 DEF webVars, tabVars, commitVars, commandVars, WInv, WebTypeOK, Started, Journal,
     Progress, Same, Account
<1>2. ASSUME NEW t \in Tabs, CloseTab(t)
      PROVE  WInv'
  BY <1>2, UnloadInvariant DEF CloseTab
<1>3. CASE Worker
  BY <1>3, CallbackInvariant, AnsweredInvariant, ExchangeInvariant, LogoutInvariant,
     SetAccountInvariant, RestoreStoredInvariant, RefreshInvariant, RescopeInvariant,
     RedirectInvariant DEF Worker
<1>4. QED
  BY <1>1, <1>2, <1>3, LoadInvariant, ExpireInvariant, WriteInvariant, LoginInvariant,
     LogoutInvariant DEF WebNext

LEMMA WebInvariant == WebSpec => []WInv
<1>1. QED
  BY WebInitInvariant, WebNextInvariant, PTL DEF WebSpec

\* Every variable has its type; a worker runs exactly in the tab that has the lock.
THEOREM WebTypeCorrect == WebSpec => []WebTypeOK
<1>1. WInv => WebTypeOK
  BY DEF WInv
<1>2. QED
  BY <1>1, WebInvariant, PTL

LEMMA DurableMemory == WInv => MemoryIsDurable
<1> SUFFICES ASSUME WInv, lock # None, ack = "none"
             PROVE  [memory EXCEPT !.states = @ \ expired] = Decode(authFile)
  BY DEF MemoryIsDurable
<1>1. expired \subseteq Transactions
  BY ExpiredStarted DEF WInv
<1>2. Decode(memory) = Decode(authFile)
  BY <1>1, DecodeSame DEF WInv, WebTypeOK, Journal
<1>3. QED
  BY <1>2 DEF Decode

\* Whenever the worker does not wait for the file, its memory is what a reload would find,
\* whichever writes failed and whatever has expired (web auth.rs commit, main.rs
\* maybe_flush_auth).
THEOREM MemoryDurable == WebSpec => []MemoryIsDurable
BY DurableMemory, WebInvariant, PTL

-----------------------------------------------------------------------------
(* What the worker answers.                                                *)

\* Which steps change the account, a page, or take the account away.
LEMMA SigningInSteps ==
  ASSUME WebNext, account' \notin {account, None}
  PROVE  /\ \/ Named /\ ack = "stored"
            \/ Rescope /\ memory.sessions[user] = "exact"
         /\ account' = user /\ UNCHANGED authFile
<1>1. Named \/ Rescope \/ Forgotten
  BY DEF WebNext, Load, Return, LoadPage, CloseTab, Unload, Stop, Expire, DrainAuth, WriteAuth,
     WriteAuthFails, Login, Logout, commandVars, Worker, RestoreSuccess, RestoreError,
     Discarded, Spent, Exchange, Signed, Revoked, ClearAll, Cleared, SetAccount, RefuseScope,
     RestoreStored, Refresh, GoOn, Refreshed, Redirect, RedirectRefused, LogoutRevoked,
     Forget, AfterCommit, OnTo, End
<1>2. CASE Named
  BY <1>2 DEF Named, AfterCommit, End, Answered, Environment
<1>3. CASE Rescope
  BY <1>3 DEF Rescope, RefuseScope, End, Environment
<1>4. CASE Forgotten
  BY <1>4 DEF Forgotten, AfterCommit, End
<1>5. QED
  BY <1>1, <1>2, <1>3, <1>4

LEMMA SignedInIsStored ==
  ASSUME WInv, WebNext, account' \notin {account, None}
  PROVE  /\ Account(Decode(authFile')) = account'
         /\ Decode(authFile').sessions[account'] = "exact"
<1>1. /\ account' = user /\ UNCHANGED authFile /\ user # None
      /\ authFile \in Snapshots /\ memory \in Snapshots
  BY SigningInSteps DEF WInv, WebTypeOK
<1>2. /\ Decode(authFile).account = authFile.account
      /\ Decode(authFile).sessions = authFile.sessions
  BY <1>1, ExpiredStarted, DecodedFields DEF WInv
<1>3. CASE Named /\ ack = "stored"
  <2>1. authFile.account = user /\ authFile.sessions[user] = "exact"
    BY <1>3 DEF Named, AfterCommit, WInv, Journal, Progress
  <2>2. Account(Decode(authFile)) = user
    BY <1>1, <1>2, <2>1 DEF Account
  <2>3. QED
    BY <1>1, <1>2, <2>1, <2>2
<1>4. CASE Rescope /\ memory.sessions[user] = "exact"
  <2>1. Account(memory) = user /\ Same(memory, authFile)
    BY <1>4 DEF Rescope, WInv, Journal, Progress, WebTypeOK, WaitingSteps
  <2>2. Account(Decode(authFile)) = user
    BY <1>2, <2>1, AccountDepends DEF Same
  <2>3. QED
    BY <1>1, <1>2, <1>4, <2>1, <2>2 DEF Same
<1>5. QED
  BY <1>3, <1>4, SigningInSteps

LEMMA RedirectIsStored ==
  ASSUME WInv, WebNext, NEW t \in Tabs, page'[t] # page[t], page'[t] \in Transactions
  PROVE  page'[t] \in authFile'.states
<1>1. page \in [Tabs -> {Shut, Open} \cup Transactions]
  BY DEF WInv, WebTypeOK
<1>2. Shut \notin Transactions /\ Open \notin Transactions
  BY DEF Shut, Open, Transactions
<1>3. CASE Redirect
  <2>1. /\ step = "redirect" /\ ack = "stored" /\ UNCHANGED authFile
        /\ page' = [page EXCEPT ![lock] = Len(owner)]
    BY <1>3 DEF Redirect, Unload
  <2>2. page'[t] = Len(owner)
    BY <1>1, <2>1
  <2>3. Len(owner) \in authFile.states
    BY <2>1 DEF WInv, Journal, Progress
  <2>4. QED
    BY <2>1, <2>2, <2>3
<1>4. ASSUME NEW q \in Tabs, Load(q) \/ Return(q) \/ CloseTab(q)
      PROVE  FALSE
  <2>1. page' = [page EXCEPT ![q] = Open] \/ page' = [page EXCEPT ![q] = Shut]
    BY <1>4 DEF Load, Return, LoadPage, CloseTab, Unload
  <2>2. QED
    BY <1>1, <1>2, <2>1
<1>5. ASSUME ~Redirect, \A q \in Tabs : ~Load(q) /\ ~Return(q) /\ ~CloseTab(q)
      PROVE  UNCHANGED page
  BY <1>5 DEF WebNext, Expire, DrainAuth, WriteAuth, WriteAuthFails, Login, Logout, Worker,
     RestoreSuccess, RestoreError, Discarded, Spent, Exchange, Signed, Revoked, ClearAll,
     Cleared, SetAccount, Named, RefuseScope, RestoreStored, Refresh, GoOn, Refreshed, Rescope,
     RedirectRefused, LogoutRevoked, Forget, Forgotten, AfterCommit, Environment, tabVars
<1>6. QED
  BY <1>3, <1>4, <1>5

LEMMA LoggedOutIsStored ==
  ASSUME WInv, WebNext, account # None, account' = None, lock' # None
  PROVE  authFile' = Empty
<1>1. step \in {"idle", "logout", "forget", "forgotten"}
  BY DEF WInv, Progress
<1>2. Forgotten /\ ack = "stored"
  <2>1. \A t \in Tabs : ~CloseTab(t)
    BY DEF CloseTab, Unload, Stop, commandVars
  <2>2. \A t \in Tabs : ~Load(t) /\ ~Return(t)
    BY DEF Load, Return, LoadPage
  <2>3. ~(Expire \/ DrainAuth \/ WriteAuth \/ WriteAuthFails \/ Logout)
    BY DEF Expire, DrainAuth, WriteAuth, WriteAuthFails, Logout, commandVars
  <2>4. \A u \in Users : ~Login(u)
    BY DEF Login
  <2>5. Worker
    BY <2>1, <2>2, <2>3, <2>4 DEF WebNext
  <2>6. LogoutRevoked \/ Forget \/ Forgotten
    BY <1>1, <2>5 DEF Worker, RestoreSuccess, RestoreError, Discarded, Spent, Exchange, Signed,
       Revoked, ClearAll, Cleared, SetAccount, Named, RestoreStored, Refresh, Refreshed,
       Rescope, Redirect, RedirectRefused, AfterCommit
  <2>7. QED
    BY <2>6 DEF LogoutRevoked, Forget, Forgotten, AfterCommit, OnTo, End, Answered
<1>3. authFile = Empty /\ UNCHANGED authFile
  BY <1>2 DEF Forgotten, AfterCommit, Environment, WInv, Journal, Progress
<1>4. QED
  BY <1>3

\* What the worker reports is in the file at that moment: the account with the exact grant,
\* the transaction the page leaves for, or nothing at all after a log-out, whichever writes
\* failed before (web auth.rs restore_inner, login_inner, logout_inner).
THEOREM AnswersDurable == WebSpec => AnswersAreDurable
<1> DEFINE Stored ==
      shell = "web" =>
        /\ account' \notin {account, None} =>
             /\ Account(Decode(authFile')) = account'
             /\ Decode(authFile').sessions[account'] = "exact"
        /\ \A t \in Tabs :
             page'[t] # page[t] /\ page'[t] \in Transactions => page'[t] \in authFile'.states
        /\ account # None /\ account' = None /\ lock' # None => authFile' = Empty
<1>1. WInv /\ WebNext => Stored
  BY SignedInIsStored, RedirectIsStored, LoggedOutIsStored
<1> HIDE DEF Stored
<1>2. WInv /\ [WebNext]_<<shell, webVars>> => [Stored]_webVars
  BY <1>1
<1>3. WebSpec => [][Stored]_webVars
  BY <1>2, WebInvariant, PTL DEF WebSpec
<1>4. QED
  BY <1>3 DEF AnswersAreDurable, Stored
=============================================================================
