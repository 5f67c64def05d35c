------------------------- MODULE SubscriptionsProofs -------------------------
(***************************************************************************)
(* Subscriptions for any publications, accounts and number of records.     *)
(*                                                                         *)
(* An unfollow only ever deletes a subscription of the publication it is   *)
(* for.  The stored rkeys outlive the account they were learned with, so   *)
(* this does not follow from the account at hand.  The invariant behind it *)
(* is that a key the reader holds anywhere (in its follow list, in the     *)
(* listing it is going through, as the answer to a creation) was handed    *)
(* out already, and that whatever record bears it is of that publication.  *)
(*                                                                         *)
(* Between commands the follow list mirrors the account's records.  While  *)
(* one runs it does not, so the invariant behind that says of every step   *)
(* what the records of a publication are.                                  *)
(***************************************************************************)
EXTENDS Subscriptions, FiniteSetTheorems, TLAPS

\* Steps only a signed-in account reaches.
SignedInSteps ==
  {"list", "import", "importKey", "subscribe", "createFollow", "createSubscribe",
   "linkFollow", "linkSubscribe", "delete"}
SignedIn == pc \in SignedInSteps => account \in Accounts

KeysKnown ==
  /\ \A p \in Publications : follows[p] <= keys /\ listing[p] <= keys
  /\ key <= keys

\* Whatever record bears the key is for the publication.
BelongsTo(k, p) == \A r \in records : r.rkey = k => r.publication = p

KeysBelong ==
  /\ \A p \in Publications : BelongsTo(follows[p], p) /\ BelongsTo(listing[p], p)
  /\ pc \in {"linkFollow", "linkSubscribe"} => BelongsTo(key, target)

\* The PDS hands out a key once.
KeysUnique == \A r, s \in records : r.rkey = s.rkey => r = s

IInv == TypeOK /\ SignedIn /\ KeysKnown /\ KeysBelong /\ KeysUnique

-----------------------------------------------------------------------------

LEMMA InitInvariant == Init => IInv
BY ConstantsAssumption
DEF Init, IInv, TypeOK, SignedIn, SignedInSteps, KeysKnown, KeysBelong, BelongsTo,
    KeysUnique, Steps, TargetSteps, NotFollowed, NoKey, NothingListed

\* Records come and go on other devices: a new one has a new key.
LEMMA OtherDeviceInvariant == IInv /\ OtherDevice => IInv'
<1> SUFFICES ASSUME IInv, OtherDevice PROVE IInv'
  OBVIOUS
<1> USE ConstantsAssumption
    DEF IInv, TypeOK, SignedIn, KeysKnown, KeysBelong, BelongsTo, KeysUnique,
        jobVars
<1>1. ASSUME NEW a \in Accounts, NEW p \in Publications, OtherSubscribes(a, p)
      PROVE  IInv'
  BY <1>1 DEF OtherSubscribes, Subscription, NotFollowed
<1>2. ASSUME NEW r \in records, OtherUnsubscribes(r)
      PROVE  IInv'
  BY <1>2 DEF OtherUnsubscribes
<1>3. QED
  BY <1>1, <1>2 DEF OtherDevice

\* Signing in and the reconciliation: a listed key is a record's own.
LEMMA SessionInvariant == IInv /\ Session => IInv'
<1> SUFFICES ASSUME IInv, Session PROVE IInv'
  OBVIOUS
<1> USE ConstantsAssumption
    DEF IInv, TypeOK, SignedIn, SignedInSteps, KeysKnown, KeysBelong, BelongsTo,
        KeysUnique, jobVars, Steps, TargetSteps, NotFollowed, NoKey
<1>1. CASE RestoreSession
  BY <1>1 DEF RestoreSession, SignIn
<1>2. CASE Logout
  BY <1>2 DEF Logout
<1>3. CASE ListSubscriptions
  <2>1. PICK l \in [Publications -> 0..keys] : listing' = l /\ Lists(l)
    BY <1>3 DEF ListSubscriptions
  <2>2. ASSUME NEW p \in Publications PROVE BelongsTo(l[p], p)
    <3>1. CASE RecordsOf(account, p) = {}
      BY <2>1, <3>1 DEF Lists
    <3>2. CASE RecordsOf(account, p) # {}
      <4>1. Subscription(account, p, l[p]) \in records
        BY <2>1, <3>2 DEF Lists
      <4>2. QED
        BY <4>1 DEF Subscription
    <3>3. QED
      BY <3>1, <3>2
  <2>3. QED
    BY <1>3, <2>1, <2>2 DEF ListSubscriptions
<1>4. CASE ListFails
  BY <1>4 DEF ListFails, Done, NothingListed
<1>5. CASE FinishSync
  BY <1>5 DEF FinishSync, Done, NothingListed, LocalOnly, Followed
<1>6. ASSUME NEW a \in Accounts, Login(a) PROVE IInv'
  BY <1>6 DEF Login, SignIn
<1>7. ASSUME NEW p \in Publications, ImportRemoteOnly(p) PROVE IInv'
  BY <1>7 DEF ImportRemoteOnly, Followed
<1>8. ASSUME NEW p \in Publications, LinkInBoth(p) PROVE IInv'
  BY <1>8 DEF LinkInBoth
<1>9. CASE LinkImported
  BY <1>9 DEF LinkImported
<1>10. QED
  BY <1>1, <1>2, <1>3, <1>4, <1>5, <1>6, <1>7, <1>8, <1>9 DEF Session

\* Following, subscribing, unfollowing: a created key is the publication's.
LEMMA FeedsInvariant == IInv /\ Feeds => IInv'
<1> SUFFICES ASSUME IInv, Feeds PROVE IInv'
  OBVIOUS
<1> USE ConstantsAssumption
    DEF IInv, TypeOK, SignedIn, SignedInSteps, KeysKnown, KeysBelong, BelongsTo,
        KeysUnique, jobVars, Steps, TargetSteps, NotFollowed, NoKey
<1>1. ASSUME NEW ps \in SUBSET Publications, StartFollow(ps) PROVE IInv'
  BY <1>1 DEF StartFollow
<1>2. ASSUME NEW p \in Publications, Follow(p) PROVE IInv'
  BY <1>2 DEF Follow, Followed
<1>3. ASSUME NEW p \in Publications, SubscribeLocal(p) PROVE IInv'
  BY <1>3 DEF SubscribeLocal
<1>4. ASSUME NEW p \in Publications, Unfollow(p) PROVE IInv'
  BY <1>4 DEF Unfollow
<1>5. ASSUME NEW ps \in SUBSET Publications, NEW answered \in BOOLEAN,
             StartUnfollow(ps, answered)
      PROVE  IInv'
  BY <1>5 DEF StartUnfollow
<1>6. CASE StartSubscribeLocal
  BY <1>6 DEF StartSubscribeLocal
<1>7. CASE CreateSubscription
  BY <1>7 DEF CreateSubscription, Created, Subscription, RecordsOf
<1>8. CASE LinkCreated
  BY <1>8 DEF LinkCreated
<1>9. CASE DeleteSubscription
  BY <1>9 DEF DeleteSubscription, Doomed
<1>10. CASE RemoveFollow
  BY <1>10 DEF RemoveFollow
<1>11. CASE FinishCommand
  BY <1>11 DEF FinishCommand, Done, NothingListed
<1>12. CASE DismissPrompt
  BY <1>12 DEF DismissPrompt
<1>13. QED
  BY <1>1, <1>2, <1>3, <1>4, <1>5, <1>6, <1>7, <1>8, <1>9, <1>10, <1>11, <1>12
  DEF Feeds

LEMMA NextInvariant == IInv /\ [Next]_vars => IInv'
<1> SUFFICES ASSUME IInv, [Next]_vars PROVE IInv'
  OBVIOUS
<1>1. CASE OtherDevice
  BY <1>1, OtherDeviceInvariant
<1>2. CASE Session
  BY <1>2, SessionInvariant
<1>3. CASE Feeds
  BY <1>3, FeedsInvariant
<1>4. CASE Crash
  BY <1>4, ConstantsAssumption
  DEF Crash, IInv, TypeOK, SignedIn, SignedInSteps, KeysKnown, KeysBelong, BelongsTo,
      KeysUnique, Steps, TargetSteps, NotFollowed, NoKey, NothingListed
<1>5. CASE UNCHANGED vars
  BY <1>5
  DEF vars, jobVars, IInv, TypeOK, SignedIn, KeysKnown, KeysBelong, BelongsTo,
      KeysUnique
<1>6. QED
  BY <1>1, <1>2, <1>3, <1>4, <1>5 DEF Next

\* The keys the reader holds are known and belong to what they are stored for.
THEOREM Inductive == Spec => []IInv
BY InitInvariant, NextInvariant, PTL DEF Spec

\* Every reachable state is well typed, and a command has a publication at hand
\* exactly at the steps that speak of one.
THEOREM TypeCorrect == Spec => []TypeOK
<1>1. IInv => TypeOK
  BY DEF IInv
<1>2. QED
  BY <1>1, Inductive, PTL

\* worker.rs:853-863: an unfollow deletes only the subscription of its own
\* publication in the signed-in account, whatever account its rkey dates from.
THEOREM UnfollowIsExact == Spec => UnfollowDeletesItsOwn
<1>1. IInv /\ [Next]_vars =>
        [pc = "delete" /\ pc' = "remove" =>
           \A r \in records \ records' :
             r.publication = target /\ r.account = account]_vars
  <2> SUFFICES ASSUME IInv, Next, pc = "delete", pc' = "remove"
               PROVE  \A r \in records \ records' :
                        r.publication = target /\ r.account = account
    BY DEF vars, jobVars
  <2>1. DeleteSubscription
    BY DEF Next, OtherDevice, OtherSubscribes, OtherUnsubscribes, Session,
           RestoreSession, SignIn, Logout, ListSubscriptions, ListFails, FinishSync,
           Login, ImportRemoteOnly, LinkInBoth, LinkImported, Feeds, StartFollow,
           Follow, SubscribeLocal, Unfollow, StartUnfollow, StartSubscribeLocal,
           CreateSubscription, LinkCreated, RemoveFollow, FinishCommand,
           DismissPrompt, Crash, Done, jobVars
  <2>2. target \in Publications
    BY DEF IInv, TypeOK, TargetSteps
  <2>3. BelongsTo(follows[target], target)
    BY <2>2 DEF IInv, KeysBelong
  <2>4. QED
    BY <2>1, <2>3 DEF DeleteSubscription, Doomed, BelongsTo
<1>2. QED
  BY <1>1, Inductive, PTL DEF Spec, UnfollowDeletesItsOwn

-----------------------------------------------------------------------------
(* The mirror.  Mirrored and LinkedOrAsked speak of the end of a command;  *)
(* what they rest on is what the records of a publication are at every     *)
(* step of one (RecordsAreExpected), while the follow list is still to be  *)
(* brought into line, and how far a reconciliation has got (Reconciled).   *)

\* The records the account should have for p, at this step of the command.
Expected(p) ==
  CASE pc \in {"import", "importKey"} /\ p \in todo -> {Subscription(account, p, listing[p])}
    [] pc \in {"linkFollow", "linkSubscribe"} /\ p = target -> {Subscription(account, p, key)}
    [] pc \in {"createFollow", "remove"} /\ p = target -> {}
    [] OTHER -> IF p \in Followed THEN {Subscription(account, p, follows[p])} ELSE {}

RecordsAreExpected ==
  account # SignedOut =>
    \A p \in Publications \ loose : RecordsOf(account, p) = Expected(p)

\* What was listed and gone through is linked.
Reconciled ==
  /\ pc \in {"import", "importKey"} =>
       \A p \in Publications \ todo : listing[p] # NoKey => follows[p] = listing[p]
  /\ pc = "importKey" => target \in todo

\* A sign-in starts from nothing known, and a start from nobody signed in.
Fresh ==
  /\ pc = "start" => account = SignedOut
  /\ pc = "list" => loose = Publications

MInv == IInv /\ IsFiniteSet(records) /\ RecordsAreExpected /\ Reconciled /\ Fresh

-----------------------------------------------------------------------------
(* The parts about the command.                                            *)

LEMMA RecordsStayFinite ==
  ASSUME IInv, IsFiniteSet(records), [Next]_vars
  PROVE  IsFiniteSet(records')
<1>1. \/ records' \subseteq records
      \/ \E x : records' = records \cup {x}
  BY DEF Next, OtherDevice, OtherSubscribes, OtherUnsubscribes, Session,
         RestoreSession, SignIn, Logout, ListSubscriptions, ListFails, FinishSync,
         Login, ImportRemoteOnly, LinkInBoth, LinkImported, Feeds, StartFollow,
         Follow, SubscribeLocal, Unfollow, StartUnfollow, StartSubscribeLocal,
         CreateSubscription, Created, LinkCreated, DeleteSubscription, RemoveFollow,
         FinishCommand, DismissPrompt, Crash, Done, vars
<1>2. QED
  BY <1>1, FS_Subset, FS_AddElement

LEMMA FreshKept ==
  ASSUME IInv, Fresh, [Next]_vars
  PROVE  Fresh'
<1> USE DEF Fresh
<1>1. CASE OtherDevice
  BY <1>1 DEF OtherDevice, OtherSubscribes, OtherUnsubscribes, IInv, TypeOK
<1>2. CASE Session
  BY <1>2 DEF Session, RestoreSession, SignIn, Logout, ListSubscriptions, ListFails,
              FinishSync, Login, ImportRemoteOnly, LinkInBoth, LinkImported, Done
<1>3. CASE Feeds
  BY <1>3 DEF Feeds, StartFollow, Follow, SubscribeLocal, Unfollow, StartUnfollow,
              StartSubscribeLocal, CreateSubscription, LinkCreated, DeleteSubscription,
              RemoveFollow, FinishCommand, DismissPrompt, Done
<1>4. CASE Crash \/ UNCHANGED vars
  BY <1>4 DEF Crash, vars
<1>5. QED
  BY <1>1, <1>2, <1>3, <1>4 DEF Next

\* What a listing names: the keys of the publications that have records.
LEMMA ListedKeys ==
  ASSUME IInv, NEW l \in [Publications -> 0..keys], Lists(l), NEW p \in Publications
  PROVE  l[p] # NoKey <=> RecordsOf(account, p) # {}
<1>1. CASE RecordsOf(account, p) = {}
  BY <1>1 DEF Lists
<1>2. CASE RecordsOf(account, p) # {}
  <2>1. Subscription(account, p, l[p]) \in records
    BY <1>2 DEF Lists
  <2>2. Subscription(account, p, l[p]).rkey \in 1..keys
    BY <2>1 DEF IInv, TypeOK
  <2>3. QED
    BY <1>2, <2>2 DEF Subscription, NoKey
<1>3. QED
  BY <1>1, <1>2

LEMMA ReconciledKept ==
  ASSUME IInv, Reconciled, [Next]_vars
  PROVE  Reconciled'
<1> USE ConstantsAssumption DEF Reconciled, IInv, TypeOK
<1>1. CASE pc' \notin {"import", "importKey"}
  BY <1>1
<1>2. CASE ListSubscriptions
  <2>1. PICK l \in [Publications -> 0..keys] : listing' = l /\ Lists(l)
    BY <1>2 DEF ListSubscriptions
  <2>2. /\ pc' = "import" /\ UNCHANGED follows
        /\ todo' = {p \in Publications : RecordsOf(account, p) # {}}
    BY <1>2 DEF ListSubscriptions
  <2>3. QED
    BY <2>1, <2>2, ListedKeys
<1>3. ASSUME NEW p \in Publications, ImportRemoteOnly(p) PROVE Reconciled'
  BY <1>3 DEF ImportRemoteOnly
<1>4. ASSUME NEW p \in Publications, LinkInBoth(p) PROVE Reconciled'
  BY <1>4 DEF LinkInBoth
<1>5. CASE LinkImported
  BY <1>5 DEF LinkImported, TargetSteps
<1>6. CASE /\ pc' \in {"import", "importKey"} /\ ~ListSubscriptions /\ ~LinkImported
           /\ \A p \in Publications : ~ImportRemoteOnly(p) /\ ~LinkInBoth(p)
  <2>1. UNCHANGED <<pc, todo, target, listing, follows>>
    BY <1>6
    DEF Next, OtherDevice, OtherSubscribes, OtherUnsubscribes, Session,
        RestoreSession, SignIn, Logout, ListFails, FinishSync, Login, Feeds,
        StartFollow, Follow, SubscribeLocal, Unfollow, StartUnfollow,
        StartSubscribeLocal, CreateSubscription, LinkCreated, DeleteSubscription,
        RemoveFollow, FinishCommand, DismissPrompt, Crash, Done, vars, jobVars
  <2>2. QED
    BY <2>1
<1>7. QED
  BY <1>1, <1>2, <1>3, <1>4, <1>5, <1>6

-----------------------------------------------------------------------------
(* The records of a publication that is not loose.                         *)

\* A finite set with an element and no more than one has that one only.
LEMMA OneElement ==
  ASSUME NEW S, IsFiniteSet(S), NEW x \in S, ~(Cardinality(S) > 1)
  PROVE  S = {x}
<1>1. Cardinality(S) \in Nat /\ IsFiniteSet(S \ {x})
      /\ Cardinality(S \ {x}) = Cardinality(S) - 1
  BY FS_RemoveElement, FS_CardinalityType
<1>2. Cardinality(S \ {x}) \in Nat
  BY <1>1, FS_CardinalityType
<1>3. Cardinality(S \ {x}) = 0
  BY <1>1, <1>2
<1>4. S \ {x} = {}
  BY <1>1, <1>3, FS_EmptySet
<1>5. QED
  BY <1>4

\* Other devices leave what they touch loose.
LEMMA OtherDeviceRecords ==
  ASSUME IInv, RecordsAreExpected, OtherDevice
  PROVE  RecordsAreExpected'
<1>1. UNCHANGED <<account, pc, todo, target, key, listing, follows>>
  BY DEF OtherDevice, OtherSubscribes, OtherUnsubscribes, jobVars
<1>2. ASSUME NEW q \in Publications PROVE Expected(q)' = Expected(q)
  BY <1>1 DEF Expected, Followed
<1>3. ASSUME NEW q \in Publications \ loose'
      PROVE  q \notin loose /\ RecordsOf(account, q)' = RecordsOf(account, q)
  <2>1. ASSUME NEW a \in Accounts, NEW p \in Publications, OtherSubscribes(a, p)
        PROVE  q \notin loose /\ RecordsOf(account, q)' = RecordsOf(account, q)
    <3>1. p # q /\ q \notin loose
      BY <1>3, <2>1 DEF OtherSubscribes
    <3>2. QED
      BY <1>1, <2>1, <3>1 DEF OtherSubscribes, RecordsOf, Subscription
  <2>2. ASSUME NEW r \in records, OtherUnsubscribes(r)
        PROVE  q \notin loose /\ RecordsOf(account, q)' = RecordsOf(account, q)
    BY <1>1, <1>3, <2>2 DEF OtherUnsubscribes, RecordsOf
  <2>3. QED
    BY <2>1, <2>2 DEF OtherDevice
<1>4. QED
  BY <1>1, <1>2, <1>3 DEF RecordsAreExpected

\* A listing shows which publications are in step, and with which record.
LEMMA ListedRecords ==
  ASSUME IInv, IsFiniteSet(records), ListSubscriptions
  PROVE  RecordsAreExpected'
<1>1. PICK l \in [Publications -> 0..keys] : listing' = l /\ Lists(l)
  BY DEF ListSubscriptions
<1>2. /\ pc' = "import" /\ UNCHANGED <<follows, records, account>>
      /\ todo' = {p \in Publications : RecordsOf(account, p) # {}}
      /\ loose' = {p \in Publications :
                     \/ Cardinality(RecordsOf(account, p)) > 1
                     \/ RecordsOf(account, p) = {} /\ p \in Followed}
  BY DEF ListSubscriptions
<1>3. ASSUME NEW p \in Publications \ loose'
      PROVE  RecordsOf(account, p)' = Expected(p)'
  <2>1. RecordsOf(account, p)' = RecordsOf(account, p) /\ (p \in Followed' <=> p \in Followed)
    BY <1>2 DEF RecordsOf, Followed
  <2>2. CASE RecordsOf(account, p) = {}
    <3>1. p \notin todo' /\ p \notin Followed'
      BY <1>2, <1>3, <2>1, <2>2
    <3>2. Expected(p)' = {}
      BY <1>2, <3>1 DEF Expected
    <3>3. QED
      BY <2>1, <2>2, <3>2
  <2>3. CASE RecordsOf(account, p) # {}
    <3>1. p \in todo' /\ ~(Cardinality(RecordsOf(account, p)) > 1)
      BY <1>2, <1>3, <2>3
    <3>2. Expected(p)' = {Subscription(account, p, l[p])}
      BY <1>1, <1>2, <3>1 DEF Expected, Subscription
    <3>3. Subscription(account, p, l[p]) \in RecordsOf(account, p)
      BY <1>1, <2>3 DEF Lists, RecordsOf, Subscription
    <3>4. IsFiniteSet(RecordsOf(account, p))
      BY FS_Subset DEF RecordsOf
    <3>5. QED
      BY <2>1, <3>1, <3>2, <3>3, <3>4, OneElement
  <2>4. QED
    BY <2>2, <2>3
<1>4. QED
  BY <1>3 DEF RecordsAreExpected

\* The other steps of signing in and out change no record.
LEMMA SessionRecords ==
  ASSUME IInv, IsFiniteSet(records), RecordsAreExpected, Reconciled, Fresh, Session
  PROVE  RecordsAreExpected'
<1> USE ConstantsAssumption DEF IInv, TypeOK, NoKey, NotFollowed
<1>1. CASE ListSubscriptions
  BY <1>1, ListedRecords
<1>2. CASE RestoreSession
  BY <1>2 DEF RestoreSession, SignIn, Fresh, RecordsAreExpected
<1>3. ASSUME NEW a \in Accounts, Login(a) PROVE RecordsAreExpected'
  BY <1>3 DEF Login, SignIn, RecordsAreExpected
<1>4. CASE ListFails
  BY <1>4 DEF ListFails, Fresh, RecordsAreExpected
<1>5. CASE Logout
  <2>1. UNCHANGED <<records, follows, pc, todo, target, key, listing, loose>>
        /\ account' \in {account, SignedOut}
    BY <1>5 DEF Logout, jobVars
  <2>2. CASE account' = account
    BY <2>1, <2>2 DEF RecordsAreExpected, RecordsOf, Expected, Followed
  <2>3. CASE account' = SignedOut
    BY <2>3 DEF RecordsAreExpected
  <2>4. QED
    BY <2>1, <2>2, <2>3
<1>6. ASSUME UNCHANGED <<records, account, loose>>,
             \A p \in Publications \ loose : Expected(p)' = Expected(p)
      PROVE  RecordsAreExpected'
  BY <1>6 DEF RecordsAreExpected, RecordsOf
<1>7. CASE FinishSync
  <2>1. ASSUME NEW p \in Publications PROVE Expected(p)' = Expected(p)
    BY <1>7 DEF FinishSync, Done, Expected, Followed, Subscription
  <2>2. QED
    BY <1>6, <1>7, <2>1 DEF FinishSync
<1>8. ASSUME NEW q \in Publications, ImportRemoteOnly(q) PROVE RecordsAreExpected'
  <2>1. ASSUME NEW p \in Publications PROVE Expected(p)' = Expected(p)
    BY <1>8 DEF ImportRemoteOnly, Expected, Followed, Subscription
  <2>2. QED
    BY <1>6, <1>8, <2>1 DEF ImportRemoteOnly
<1>9. ASSUME NEW q \in Publications, LinkInBoth(q) PROVE RecordsAreExpected'
  <2>1. ASSUME NEW p \in Publications PROVE Expected(p)' = Expected(p)
    <3>1. CASE p = q
      <4>1. follows'[p] = listing[p] /\ p \in Followed' /\ p \notin todo' /\ p \in todo
        BY <1>9, <3>1 DEF LinkInBoth, Followed
      <4>2. QED
        BY <1>9, <4>1 DEF LinkInBoth, Expected
    <3>2. CASE p # q
      BY <1>9, <3>2 DEF LinkInBoth, Expected, Followed
    <3>3. QED
      BY <3>1, <3>2
  <2>2. QED
    BY <1>6, <1>9, <2>1 DEF LinkInBoth
<1>10. CASE LinkImported
  <2>1. target \in todo /\ target \in Publications
    BY <1>10 DEF LinkImported, Reconciled, TargetSteps
  <2>2. ASSUME NEW p \in Publications PROVE Expected(p)' = Expected(p)
    <3>1. CASE p = target
      <4>1. follows'[p] = listing[p] /\ p \in Followed' /\ p \notin todo' /\ p \in todo
        BY <1>10, <2>1, <3>1 DEF LinkImported, Followed
      <4>2. QED
        BY <1>10, <4>1 DEF LinkImported, Expected
    <3>2. CASE p # target
      BY <1>10, <3>2 DEF LinkImported, Expected, Followed
    <3>3. QED
      BY <3>1, <3>2
  <2>3. QED
    BY <1>6, <1>10, <2>2 DEF LinkImported
<1>11. QED
  BY <1>1, <1>2, <1>3, <1>4, <1>5, <1>7, <1>8, <1>9, <1>10 DEF Session

\* Only creating and deleting change a record.
LEMMA QuietFeedsRecords ==
  ASSUME IInv, RecordsAreExpected, Feeds, ~CreateSubscription, ~DeleteSubscription
  PROVE  RecordsAreExpected'
<1> USE ConstantsAssumption DEF IInv, TypeOK, NoKey, NotFollowed
<1>1. UNCHANGED <<records, account, loose>>
  BY DEF Feeds, StartFollow, Follow, SubscribeLocal, Unfollow, StartUnfollow,
         StartSubscribeLocal, LinkCreated, RemoveFollow, FinishCommand, DismissPrompt
<1>2. SUFFICES ASSUME account # SignedOut, NEW p \in Publications \ loose
               PROVE  Expected(p)' = RecordsOf(account, p)
  BY <1>1 DEF RecordsAreExpected, RecordsOf
<1>3. RecordsOf(account, p) = Expected(p)
  BY <1>2 DEF RecordsAreExpected
<1>4. Subscription(account, p, NoKey) \notin records
  BY DEF Subscription
<1>5. follows[p] = NoKey =>
        p \notin Followed \/ Expected(p) # {Subscription(account, p, follows[p])}
  BY <1>3, <1>4 DEF RecordsOf, Subscription
<1>6. CASE \E ps : StartFollow(ps)
  BY <1>3, <1>6 DEF StartFollow, Expected, Followed, Subscription, TargetSteps
<1>7. ASSUME NEW q \in Publications, Follow(q) PROVE Expected(p)' = RecordsOf(account, p)
  BY <1>2, <1>3, <1>7 DEF Follow, Expected, Followed, Subscription, TargetSteps
<1>8. ASSUME NEW q \in Publications, SubscribeLocal(q)
      PROVE  Expected(p)' = RecordsOf(account, p)
  BY <1>3, <1>8 DEF SubscribeLocal, Expected, Followed, Subscription, TargetSteps
<1>9. ASSUME NEW q \in Publications, Unfollow(q) PROVE Expected(p)' = RecordsOf(account, p)
  BY <1>2, <1>3, <1>5, <1>9 DEF Unfollow, Expected, Followed, Subscription, TargetSteps
<1>10. CASE \E ps, answered : StartUnfollow(ps, answered)
  BY <1>3, <1>10 DEF StartUnfollow, Expected, Followed, Subscription, TargetSteps
<1>11. CASE StartSubscribeLocal
  BY <1>2, <1>3, <1>11 DEF StartSubscribeLocal, Expected, Followed, Subscription, TargetSteps
<1>12. CASE LinkCreated
  <2>1. CASE p = target
    <3>1. follows'[p] = key /\ p \in Followed'
      BY <1>12, <2>1 DEF LinkCreated, Followed
    <3>2. Expected(p)' = {Subscription(account, p, key)}
      BY <1>1, <1>12, <3>1 DEF LinkCreated, Expected, TargetSteps, Subscription
    <3>3. QED
      BY <1>3, <1>12, <2>1, <3>2 DEF LinkCreated, Expected
  <2>2. CASE p # target
    BY <1>3, <1>12, <2>2 DEF LinkCreated, Expected, Followed, Subscription, TargetSteps
  <2>3. QED
    BY <2>1, <2>2
<1>13. CASE RemoveFollow
  BY <1>3, <1>13 DEF RemoveFollow, Expected, Followed, Subscription, TargetSteps
<1>14. CASE FinishCommand
  BY <1>3, <1>14 DEF FinishCommand, Done, Expected, Followed, Subscription, TargetSteps
<1>15. CASE DismissPrompt
  BY <1>3, <1>15 DEF DismissPrompt, Expected, Followed, Subscription, jobVars
<1>16. QED
  BY <1>6, <1>7, <1>8, <1>9, <1>10, <1>11, <1>12, <1>13, <1>14, <1>15 DEF Feeds

\* A creation that is known to be the first is what the publication's records should be;
\* any other leaves it loose.
LEMMA CreationRecords ==
  ASSUME IInv, RecordsAreExpected, CreateSubscription
  PROVE  RecordsAreExpected'
<1> USE ConstantsAssumption DEF IInv, TypeOK
<1>1. target \in Publications /\ UNCHANGED <<follows, account, todo, listing>>
  BY DEF CreateSubscription, TargetSteps
<1>2. SUFFICES ASSUME account # SignedOut, NEW p \in Publications, p \notin loose'
               PROVE  RecordsOf(account, p)' = Expected(p)'
  BY <1>1 DEF RecordsAreExpected
<1>3. CASE p # target
  <2>1. p \notin loose
    BY <1>2, <1>3 DEF CreateSubscription
  <2>2. RecordsOf(account, p)' = RecordsOf(account, p)
    BY <1>1, <1>3 DEF CreateSubscription, Created, RecordsOf, Subscription
  <2>3. Expected(p)' = Expected(p)
    BY <1>1, <1>3 DEF CreateSubscription, Expected, Followed, Subscription
  <2>4. QED
    BY <1>2, <2>1, <2>2, <2>3 DEF RecordsAreExpected
<1>4. CASE p = target
  <2>1. /\ Created /\ key' = keys + 1 /\ UNCHANGED target
        /\ pc' \in {"linkFollow", "linkSubscribe"}
        /\ RecordsOf(account, target) = {}
    BY <1>2, <1>4 DEF CreateSubscription
  <2>2. RecordsOf(account, p)' = {Subscription(account, p, keys + 1)}
    BY <1>1, <1>4, <2>1 DEF Created, RecordsOf, Subscription
  <2>3. Expected(p)' = {Subscription(account, p, keys + 1)}
    BY <1>1, <1>4, <2>1 DEF Expected, Subscription
  <2>4. QED
    BY <2>2, <2>3
<1>5. QED
  BY <1>3, <1>4

\* A deletion takes the record the follow list names, and no other publication's.
LEMMA DeletionRecords ==
  ASSUME IInv, RecordsAreExpected, DeleteSubscription
  PROVE  RecordsAreExpected'
<1> USE ConstantsAssumption DEF IInv, TypeOK
<1>1. /\ target \in Publications /\ pc = "delete" /\ pc' = "remove"
      /\ UNCHANGED <<follows, account, todo, target, key, listing>>
  BY DEF DeleteSubscription, TargetSteps, jobVars
<1>2. SUFFICES ASSUME account # SignedOut, NEW p \in Publications, p \notin loose'
               PROVE  RecordsOf(account, p)' = Expected(p)'
  BY <1>1 DEF RecordsAreExpected
<1>3. p \notin loose /\ RecordsOf(account, p) = Expected(p)
  BY <1>2 DEF DeleteSubscription, RecordsAreExpected
<1>4. \A r \in Doomed : r.publication = target
  BY <1>1 DEF KeysBelong, BelongsTo, Doomed
<1>5. CASE p # target
  <2>1. RecordsOf(account, p)' = RecordsOf(account, p)
    BY <1>1, <1>4, <1>5 DEF DeleteSubscription, RecordsOf
  <2>2. Expected(p)' = Expected(p)
    BY <1>1, <1>5 DEF Expected, Followed
  <2>3. QED
    BY <1>3, <2>1, <2>2
<1>6. CASE p = target
  <2>1. records' = records \ Doomed
    BY <1>2, <1>6 DEF DeleteSubscription
  <2>2. RecordsOf(account, p) \subseteq {Subscription(account, p, follows[p])}
    BY <1>1, <1>3 DEF Expected
  <2>3. RecordsOf(account, p) \subseteq Doomed
    BY <1>6, <2>2 DEF RecordsOf, Doomed, Subscription
  <2>4. RecordsOf(account, p)' = {}
    BY <1>1, <2>1, <2>3 DEF RecordsOf
  <2>5. Expected(p)' = {}
    BY <1>1, <1>6 DEF Expected
  <2>6. QED
    BY <2>4, <2>5
<1>7. QED
  BY <1>5, <1>6

LEMMA NextMirrorInvariant == MInv /\ [Next]_vars => MInv'
<1> SUFFICES ASSUME MInv, [Next]_vars PROVE MInv'
  OBVIOUS
<1>1. IInv' /\ IsFiniteSet(records') /\ Reconciled' /\ Fresh'
  BY NextInvariant, RecordsStayFinite, ReconciledKept, FreshKept DEF MInv
<1>2. RecordsAreExpected'
  <2>1. CASE OtherDevice
    BY <2>1, OtherDeviceRecords DEF MInv
  <2>2. CASE Session
    BY <2>2, SessionRecords DEF MInv
  <2>3. CASE Feeds
    BY <2>3, QuietFeedsRecords, CreationRecords, DeletionRecords DEF MInv
  <2>4. CASE Crash
    BY <2>4 DEF Crash, RecordsAreExpected
  <2>5. CASE UNCHANGED vars
    BY <2>5
    DEF vars, jobVars, MInv, RecordsAreExpected, RecordsOf, Expected, Followed
  <2>6. QED
    BY <2>1, <2>2, <2>3, <2>4, <2>5 DEF Next
<1>3. QED
  BY <1>1, <1>2 DEF MInv

\* What the records of a publication are at every step, in or out of a command.
THEOREM MirrorInductive == Spec => []MInv
<1>1. Init => MInv
  <2> SUFFICES ASSUME Init PROVE MInv
    OBVIOUS
  <2>1. IInv
    BY InitInvariant
  <2>2. IsFiniteSet(records)
    BY FS_EmptySet DEF Init
  <2>3. RecordsAreExpected /\ Reconciled /\ Fresh
    BY DEF Init, RecordsAreExpected, Reconciled, Fresh
  <2>4. QED
    BY <2>1, <2>2, <2>3 DEF MInv
<1>2. QED
  BY <1>1, NextMirrorInvariant, PTL DEF Spec

\* Between commands the account's records and the follow list, with its rkeys, are the
\* same, for every publication not known to be out of step.
THEOREM InStep == Spec => []Mirrored
<1>1. MInv => Mirrored
  BY DEF MInv, RecordsAreExpected, Expected, Mirrored
<1>2. QED
  BY <1>1, MirrorInductive, PTL

\* CHANGELOG.md:140-141: when a reconciliation ends, every follow is linked to the record
\* that was listed, or the reader is asked about it.
THEOREM NoneSilent == Spec => LinkedOrAsked
<1>1. MInv /\ [Next]_vars =>
        [pc = "import" /\ pc' = "idle" =>
           \A p \in Followed :
             \/ p \in prompt'
             \/ follows'[p] = listing[p] /\ listing[p] # NoKey]_vars
  <2> SUFFICES ASSUME MInv, Next, pc = "import", pc' = "idle", NEW p \in Followed
               PROVE  \/ p \in prompt'
                      \/ follows'[p] = listing[p] /\ listing[p] # NoKey
    BY DEF vars, jobVars
  <2>1. FinishSync
    BY DEF Next, OtherDevice, OtherSubscribes, OtherUnsubscribes, Session,
           RestoreSession, SignIn, Logout, ListSubscriptions, ListFails,
           Login, ImportRemoteOnly, LinkInBoth, LinkImported, Feeds, StartFollow,
           Follow, SubscribeLocal, Unfollow, StartUnfollow, StartSubscribeLocal,
           CreateSubscription, LinkCreated, DeleteSubscription, RemoveFollow,
           FinishCommand, DismissPrompt, Crash, Done, jobVars
  <2>2. CASE listing[p] = NoKey
    <3>1. p \in LocalOnly
      BY <2>2 DEF LocalOnly
    <3>2. QED
      BY <2>1, <3>1 DEF FinishSync
  <2>3. CASE listing[p] # NoKey
    <3>1. follows[p] = listing[p]
      BY <2>1, <2>3 DEF FinishSync, MInv, Reconciled, Followed
    <3>2. QED
      BY <2>1, <2>3, <3>1 DEF FinishSync
  <2>4. QED
    BY <2>2, <2>3
<1>2. QED
  BY <1>1, MirrorInductive, PTL DEF Spec, LinkedOrAsked

=============================================================================
