--------------------------- MODULE Subscriptions ---------------------------
(***************************************************************************)
(* The local follow list and its mirror, the account's subscription        *)
(* records on its PDS.                                                     *)
(*                                                                         *)
(* The worker runs one command at a time; every step below is one request  *)
(* or one store transaction.  Other devices subscribe and unsubscribe in   *)
(* between, a request may fail with or without having taken effect, the    *)
(* reader may answer the reconciliation prompt late, and the process may   *)
(* die anywhere.  The PDS never hands out the same record key twice.       *)
(***************************************************************************)
EXTENDS Integers, FiniteSets

CONSTANTS
  Publications,  \* publications that can be followed
  Accounts,      \* accounts the reader signs in with
  SignedOut,     \* no account
  NoTarget,      \* no publication
  MaxKeys        \* bound: how many subscription records are ever created

ASSUME ConstantsAssumption ==
  SignedOut \notin Accounts /\ NoTarget \notin Publications /\ MaxKeys \in Nat

VARIABLES
  \* the accounts' repos
  records,  \* subscription records: account, publication, rkey
  keys,     \* record keys handed out
  \* the store and the stored session
  follows,  \* publication -> its rkey, NoKey when followed without one
  session,  \* the account that is restored at startup
  \* the worker and the command it is running
  account,  \* Worker::account
  pc,       \* the step the command is at
  todo,     \* publications it has still to go through
  target,   \* the one at hand
  key,      \* the rkey create_subscription returned
  listing,  \* publication -> rkey, what list_subscriptions found
  \* the reader
  prompt,   \* App::sync_prompt: the local-only follows asked about
  \* history
  loose     \* publications whose mirror is known to be possibly out of step

jobVars == <<todo, target, key, listing>>
vars == <<records, keys, follows, session, account, pc, jobVars, prompt, loose>>

NotFollowed == -1
NoKey       == 0
Steps == {"start", "idle", "list", "import", "importKey", "follow", "subscribe",
          "createFollow", "createSubscribe", "linkFollow", "linkSubscribe",
          "unfollow", "delete", "remove"}

\* The steps that have a publication at hand.
TargetSteps == {"importKey", "createFollow", "createSubscribe", "linkFollow",
                "linkSubscribe", "delete", "remove"}

Followed == {p \in Publications : follows[p] # NotFollowed}
RecordsOf(a, p) == {r \in records : r.account = a /\ r.publication = p}

TypeOK ==
  /\ keys \in 0..MaxKeys
  /\ records \subseteq [account : Accounts, publication : Publications, rkey : 1..keys]
  /\ follows \in [Publications -> NotFollowed..MaxKeys]
  /\ session \in Accounts \cup {SignedOut} /\ account \in Accounts \cup {SignedOut}
  /\ pc \in Steps
  /\ todo \subseteq Publications /\ target \in Publications \cup {NoTarget}
  /\ target # NoTarget <=> pc \in TargetSteps
  /\ key \in 0..MaxKeys /\ listing \in [Publications -> 0..MaxKeys]
  /\ prompt \subseteq Publications /\ loose \subseteq Publications

NothingListed == [p \in Publications |-> NoKey]

Init ==
  /\ records = {} /\ keys = 0
  /\ follows = [p \in Publications |-> NotFollowed]
  /\ session = SignedOut /\ account = SignedOut
  /\ pc = "start" /\ todo = {} /\ target = NoTarget /\ key = NoKey
  /\ listing = NothingListed
  /\ prompt = {} /\ loose = {}

\* The command is over.
Done ==
  /\ pc' = "idle" /\ todo' = {} /\ target' = NoTarget /\ key' = NoKey
  /\ listing' = NothingListed

-----------------------------------------------------------------------------
(* Other devices.                                                          *)

Subscription(a, p, k) == [account |-> a, publication |-> p, rkey |-> k]

OtherSubscribes(a, p) ==
  /\ keys < MaxKeys
  /\ keys' = keys + 1
  /\ records' = records \cup {Subscription(a, p, keys + 1)}
  /\ loose' = loose \cup {p}
  /\ UNCHANGED <<follows, session, account, pc, jobVars, prompt>>

OtherUnsubscribes(r) ==
  /\ records' = records \ {r}
  /\ loose' = loose \cup {r.publication}
  /\ UNCHANGED <<keys, follows, session, account, pc, jobVars, prompt>>

-----------------------------------------------------------------------------
(* Signing in and out, and the reconciliation that follows a sign-in.      *)

\* login, or restore_session for the stored account; then sync_subscriptions.
SignIn(a) ==
  /\ account' = a /\ session' = a
  /\ pc' = "list"
  /\ loose' = Publications
  /\ UNCHANGED <<records, keys, follows, jobVars, prompt>>

Login(a) == pc = "idle" /\ SignIn(a)

\* A session that cannot be restored is kept for the next start, or cleared when
\* its permissions are obsolete.
RestoreSession ==
  /\ pc = "start"
  /\ \/ session # SignedOut /\ SignIn(session)
     \/ /\ pc' = "idle"
        /\ session' \in {session, SignedOut}
        /\ UNCHANGED <<records, keys, follows, account, jobVars, prompt, loose>>

\* Follows and their rkeys stay.  A log-out that fails half-way has cleared the
\* stored session and leaves the account signed in.
Logout ==
  /\ pc = "idle"
  /\ session' = SignedOut
  /\ account' \in {account, SignedOut}
  /\ UNCHANGED <<records, keys, follows, pc, jobVars, prompt, loose>>

\* What list_subscriptions finds.  The listing is newest first and a later entry
\* replaces an earlier one, so of two records for a publication the oldest counts.
Lists(l) ==
  \A p \in Publications :
    IF RecordsOf(account, p) = {} THEN l[p] = NoKey
    ELSE /\ Subscription(account, p, l[p]) \in records
         /\ \A r \in RecordsOf(account, p) : l[p] <= r.rkey

ListSubscriptions ==
  /\ pc = "list"
  /\ listing' \in {l \in [Publications -> 0..keys] : Lists(l)}
  /\ todo' = {p \in Publications : RecordsOf(account, p) # {}}
  /\ pc' = "import"
  /\ loose' = {p \in Publications :
                 \/ Cardinality(RecordsOf(account, p)) > 1
                 \/ RecordsOf(account, p) = {} /\ p \in Followed}
  /\ UNCHANGED <<records, keys, follows, session, account, target, key, prompt>>

\* Remote-only subscriptions come first: followed, then linked ...
ImportRemoteOnly(p) ==
  /\ pc = "import"
  /\ p \in todo \ Followed
  /\ follows' = [follows EXCEPT ![p] = NoKey]
  /\ pc' = "importKey" /\ target' = p
  /\ UNCHANGED <<records, keys, session, account, todo, key, listing, prompt, loose>>

LinkImported ==
  /\ pc = "importKey"
  /\ follows' = [follows EXCEPT ![target] = listing[target]]
  /\ pc' = "import" /\ todo' = todo \ {target} /\ target' = NoTarget
  /\ UNCHANGED <<records, keys, session, account, key, listing, prompt, loose>>

\* Mutant: an rkey known from before is not replaced.
LinkUnknownOnly(p) ==
  /\ pc = "import"
  /\ todo \subseteq Followed /\ p \in todo
  /\ follows' = [follows EXCEPT ![p] = IF @ = NoKey THEN listing[p] ELSE @]
  /\ todo' = todo \ {p}
  /\ UNCHANGED <<records, keys, session, account, pc, target, key, listing, prompt, loose>>

\* ... then those followed here too take the listed rkey.
LinkInBoth(p) ==
  /\ pc = "import"
  /\ todo \subseteq Followed /\ p \in todo
  /\ follows' = [follows EXCEPT ![p] = listing[p]]
  /\ todo' = todo \ {p}
  /\ UNCHANGED <<records, keys, session, account, pc, target, key, listing, prompt, loose>>

\* Mutant: follows that have an rkey are not asked about.
LocalOnlyUnlinked == {p \in Followed : follows[p] = NoKey}

\* What is left is local-only, and the reader is asked about it.
LocalOnly == {p \in Followed : listing[p] = NoKey}

FinishSync ==
  /\ pc = "import" /\ todo = {}
  /\ prompt' = IF LocalOnly = {} THEN prompt ELSE LocalOnly
  /\ Done
  /\ UNCHANGED <<records, keys, follows, session, account, loose>>

-----------------------------------------------------------------------------
(* Following, and subscribing local-only follows.                          *)

\* follow_publications, for one feed or for those chosen in the picker.
StartFollow(ps) ==
  /\ pc = "idle"
  /\ pc' = "follow" /\ todo' = ps
  /\ UNCHANGED <<records, keys, follows, session, account, target, key, listing,
                 prompt, loose>>

Follow(p) ==
  /\ pc = "follow" /\ p \in todo
  /\ todo' = todo \ {p}
  /\ IF p \in Followed \/ account = SignedOut
     THEN /\ follows' = IF p \in Followed THEN follows ELSE [follows EXCEPT ![p] = NoKey]
          /\ UNCHANGED <<pc, target>>
     ELSE /\ follows' = [follows EXCEPT ![p] = NoKey]
          /\ pc' = "createFollow" /\ target' = p
  /\ UNCHANGED <<records, keys, session, account, key, listing, prompt, loose>>

\* The prompt's "subscribe", for whatever it was showing.
StartSubscribeLocal ==
  /\ pc = "idle" /\ prompt # {}
  /\ prompt' = {}
  /\ IF account = SignedOut THEN UNCHANGED <<pc, todo>>
     ELSE pc' = "subscribe" /\ todo' = prompt
  /\ UNCHANGED <<records, keys, follows, session, account, target, key, listing, loose>>

SubscribeLocal(p) ==
  /\ pc = "subscribe" /\ p \in todo
  /\ todo' = todo \ {p}
  /\ pc' = "createSubscribe" /\ target' = p
  /\ UNCHANGED <<records, keys, follows, session, account, key, listing, prompt, loose>>

Created ==
  /\ keys < MaxKeys
  /\ keys' = keys + 1
  /\ records' = records \cup {Subscription(account, target, keys + 1)}

\* create_subscription: done; failed; or done, but the answer was lost.
CreateSubscription ==
  /\ pc \in {"createFollow", "createSubscribe"}
  /\ \/ /\ Created
        /\ key' = keys + 1
        /\ pc' = IF pc = "createFollow" THEN "linkFollow" ELSE "linkSubscribe"
        /\ loose' = IF RecordsOf(account, target) = {} THEN loose \ {target}
                     ELSE loose \cup {target}
        /\ UNCHANGED target
     \/ /\ Created \/ UNCHANGED <<keys, records>>
        /\ pc' = IF pc = "createFollow" THEN "follow" ELSE "subscribe"
        /\ target' = NoTarget
        /\ loose' = loose \cup {target}
        /\ UNCHANGED key
  /\ UNCHANGED <<follows, session, account, todo, listing, prompt>>

\* Mutant: the rkey goes to the publication after the one it was created for.
LinkCreatedOffByOne ==
  /\ pc \in {"linkFollow", "linkSubscribe"}
  /\ \E p \in IF todo = {} THEN {target} ELSE todo :
       follows' = [follows EXCEPT ![p] = key]
  /\ pc' = IF pc = "linkFollow" THEN "follow" ELSE "subscribe"
  /\ target' = NoTarget /\ key' = NoKey
  /\ UNCHANGED <<records, keys, session, account, todo, listing, prompt, loose>>

\* set_follow_rkey, which also (re-)follows the publication.
LinkCreated ==
  /\ pc \in {"linkFollow", "linkSubscribe"}
  /\ follows' = [follows EXCEPT ![target] = key]
  /\ pc' = IF pc = "linkFollow" THEN "follow" ELSE "subscribe"
  /\ target' = NoTarget /\ key' = NoKey
  /\ UNCHANGED <<records, keys, session, account, todo, listing, prompt, loose>>

-----------------------------------------------------------------------------
(* Unfollowing.                                                            *)

\* Unfollow of one feed, or of all the prompt was showing.
StartUnfollow(ps, answered) ==
  /\ pc = "idle"
  /\ pc' = "unfollow" /\ todo' = ps
  /\ prompt' = IF answered THEN {} ELSE prompt
  /\ UNCHANGED <<records, keys, follows, session, account, target, key, listing, loose>>

Unfollow(p) ==
  /\ pc = "unfollow" /\ p \in todo
  /\ todo' = todo \ {p} /\ target' = p
  /\ pc' = IF account # SignedOut /\ follows[p] \notin {NotFollowed, NoKey}
           THEN "delete" ELSE "remove"
  /\ UNCHANGED <<records, keys, follows, session, account, key, listing, prompt, loose>>

\* delete_subscription names the record by the signed-in account and the stored
\* rkey; a record that does not exist is not an error.
Doomed == {r \in records : r.account = account /\ r.rkey = follows[target]}

DeleteSubscription ==
  /\ pc = "delete"
  /\ \/ records' = records \ Doomed /\ UNCHANGED loose
     \/ UNCHANGED records /\ loose' = loose \cup {target}
  /\ pc' = "remove"
  /\ UNCHANGED <<keys, follows, session, account, jobVars, prompt>>

\* Mutant: the publication at hand is not put away.
RemoveFollowOnly ==
  /\ pc = "remove"
  /\ follows' = [follows EXCEPT ![target] = NotFollowed]
  /\ pc' = "unfollow"
  /\ UNCHANGED <<records, keys, session, account, target, todo, key, listing, prompt,
                 loose>>

\* The local follow goes whatever became of the record.
RemoveFollow ==
  /\ pc = "remove"
  /\ follows' = [follows EXCEPT ![target] = NotFollowed]
  /\ pc' = "unfollow" /\ target' = NoTarget
  /\ UNCHANGED <<records, keys, session, account, todo, key, listing, prompt, loose>>

\* A command that has gone through its publications is over.
FinishCommand ==
  /\ pc \in {"follow", "subscribe", "unfollow"} /\ todo = {}
  /\ Done
  /\ UNCHANGED <<records, keys, follows, session, account, prompt, loose>>

DismissPrompt ==
  /\ prompt # {}
  /\ prompt' = {}
  /\ UNCHANGED <<records, keys, follows, session, account, pc, jobVars, loose>>

-----------------------------------------------------------------------------

\* A listing fails: the reconciliation is given up, the account stays signed in.
ListFails ==
  /\ pc = "list"
  /\ Done
  /\ UNCHANGED <<records, keys, follows, session, account, prompt, loose>>

Crash ==
  /\ pc' = "start" /\ todo' = {} /\ target' = NoTarget /\ key' = NoKey
  /\ listing' = NothingListed
  /\ account' = SignedOut /\ prompt' = {}
  /\ UNCHANGED <<records, keys, follows, session, loose>>

OtherDevice ==
  \/ \E a \in Accounts, p \in Publications : OtherSubscribes(a, p)
  \/ \E r \in records : OtherUnsubscribes(r)

Session ==
  \/ RestoreSession \/ Logout \/ ListSubscriptions \/ ListFails \/ FinishSync
  \/ \E a \in Accounts : Login(a)
  \/ \E p \in Publications : ImportRemoteOnly(p) \/ LinkInBoth(p)
  \/ LinkImported

Feeds ==
  \/ \E ps \in (SUBSET Publications) \ {{}} : StartFollow(ps)
  \/ \E p \in Publications : Follow(p) \/ SubscribeLocal(p) \/ Unfollow(p)
  \/ \E p \in Publications : StartUnfollow({p}, FALSE)
  \/ prompt # {} /\ StartUnfollow(prompt, TRUE)
  \/ StartSubscribeLocal \/ CreateSubscription \/ LinkCreated
  \/ DeleteSubscription \/ RemoveFollow \/ FinishCommand \/ DismissPrompt

Next == OtherDevice \/ Session \/ Feeds \/ Crash

Spec == Init /\ [][Next]_vars

-----------------------------------------------------------------------------
(* What the mirror promises.                                               *)

\* Signed in and between commands, a publication is followed exactly when the
\* account has a subscription record for it, and the stored rkey is that record's,
\* except for publications known to be out of step since the last reconciliation:
\* a request failed, another device changed them, they are local-only and the
\* reader has not subscribed them, or a late answer to the prompt subscribed them
\* a second time (worker.rs:763-865).
Mirrored ==
  pc = "idle" /\ account # SignedOut =>
    \A p \in Publications \ loose :
      RecordsOf(account, p) =
        IF p \in Followed THEN {Subscription(account, p, follows[p])} ELSE {}

\* An unfollow deletes a subscription of the publication it is for and of no
\* other, through any number of sign-ins with different accounts
\* (worker.rs:853-863: the rkey is kept when the reader signs out).
UnfollowDeletesItsOwn ==
  [][pc = "delete" /\ pc' = "remove" =>
       \A r \in records \ records' : r.publication = target /\ r.account = account]_vars

\* CHANGELOG.md:140-141: a reconciliation deletes nothing silently; when it ends,
\* every follow is linked to the record that was listed, or the reader is asked.
LinkedOrAsked ==
  [][pc = "import" /\ pc' = "idle" =>
       \A p \in Followed :
         \/ p \in prompt'
         \/ follows'[p] = listing[p] /\ listing[p] # NoKey]_vars

\* worker.rs:813: SubscribeLocal pushes local-only follows up: a publication whose
\* stored rkey already names its record of the account gets no second one.
SubscribesLocalOnly ==
  [][pc = "createSubscribe" /\ pc' # pc /\ keys' # keys =>
       \A r \in RecordsOf(account, target) : r.rkey # follows[target]]_vars
=============================================================================
