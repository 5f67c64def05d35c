-------------------------- MODULE ReaderViewProofs --------------------------
(***************************************************************************)
(* ReaderView for any publications, posts, editions and keys.              *)
(*                                                                         *)
(* The two channels make every property one about messages: what is right  *)
(* when all is quiet is, while something is on its way, what the last      *)
(* message of its kind will make right.  EndsWith and NoneOf say what the  *)
(* last message of a kind is, and the lemmas about them are all that the   *)
(* proofs need to know of sequences.                                       *)
(***************************************************************************)
EXTENDS ReaderView, FiniteSetTheorems, TLAPS

-----------------------------------------------------------------------------
(* The last message of a kind.                                             *)

\* The last message in s of the given kind is a good one.
EndsWith(s, kind, good) ==
  \E j \in 1..Len(s) : s[j] \in good /\ \A i \in j + 1..Len(s) : s[i] \notin kind

NoneOf(s, kind) == \A i \in 1..Len(s) : s[i] \notin kind

AllOf(s, kind) == \A i \in 1..Len(s) : s[i] \in kind

-----------------------------------------------------------------------------
(* The invariant.                                                          *)

FeedKeys == {"OpenFeed", "Refresh", "LoadOlder"}
DocKeys  == {"OpenDoc", "FreshenDoc", "SetRead"}

Commands ==
  [what : FeedKeys, of : Feeds] \cup [what : DocKeys, of : Docs]
    \cup [what : {"Search", "LoadHome"}, of : {Nothing}]

FeedsEvents == [what : {"Feeds"}, of : [Feeds -> 0..Cardinality(Docs)]]
DocsEvents  ==
  [what : {"Docs"}, of : [feed : Feeds, docs : SUBSET Docs, read : SUBSET Docs]]
DocEvents ==
  [what : {"Doc"}, of : [doc : Docs, edition : 1..MaxEdition, fromCache : BOOLEAN]]
ResultsEvents == [what : {"Results"}, of : SUBSET Docs]
Events == FeedsEvents \cup DocsEvents \cup DocEvents \cup ResultsEvents \cup {ErrorEvent}

\* Commands about a post are about one in the cache; a body is freshened once it was read.
CommandsInUse ==
  {c \in Commands : /\ c.what \in DocKeys => c.of \in cached
                    /\ c.what = "FreshenDoc" => c.of \in read}

\* Events tell of posts in the cache, and call read, or show, only what is read in the store.
EventsInUse ==
  {e \in Events : /\ e.what = "Docs" => e.of.docs \subseteq cached /\ e.of.read \subseteq read
                  /\ e.what = "Doc" => e.of.doc \in read
                  /\ e.what = "Results" => e.of \subseteq cached}

Types ==
  /\ TypeOK
  /\ inbox \in Seq(Commands) /\ AllOf(inbox, CommandsInUse)
  /\ events \in Seq(Events) /\ AllOf(events, EventsInUse)

\* Bodies come only for posts that were opened.
OpenedFirst ==
  readingUri = Nothing =>
    /\ NoneOf(inbox, [what : {"OpenDoc", "FreshenDoc"}, of : Docs])
    /\ NoneOf(events, DocEvents)

\* The last body told of a post is the cached one, and so is the one on screen when none is
\* on its way.
BodiesOf(d)   == {e \in DocEvents : e.of.doc = d}
CurrentOf(d)  == {e \in BodiesOf(d) : e.of.edition = body[d]}
ToldCurrent ==
  \A d \in Docs :
    \/ body[d] = NoBody
    \/ EndsWith(events, BodiesOf(d), CurrentOf(d))
    \/ NoneOf(events, BodiesOf(d)) /\ (reading.doc = d => reading.edition = body[d])

\* The last list told of the open feed is the cached one, and so is the one on screen when
\* none is on its way; results of an earlier search come before it.
ListsOf(f)   == {e \in DocsEvents : e.of.feed = f} \cup ResultsEvents
CachedList(f) == {e \in DocsEvents : e.of.feed = f /\ e.of.docs = CachedOf(f)}
ListTold(f) ==
  \/ f \in failed
  \/ EndsWith(events, ListsOf(f), CachedList(f))
  \/ NoneOf(events, ListsOf(f)) /\ shown = CachedOf(f)

\* What is asked before the open feed is of no account; after it only older posts are.
Asks(f)       == [what : {"OpenFeed", "Refresh"}, of : {f}]
OtherLists(f) ==
  {c \in Commands : c.what \in FeedKeys \cup {"Search"} /\ c # Msg("LoadOlder", f)}
ListAhead ==
  openPub # Nothing =>
    \/ EndsWith(inbox, OtherLists(openPub), Asks(openPub))
    \/ NoneOf(inbox, OtherLists(openPub)) /\ ListTold(openPub)

RInv ==
  /\ Types /\ OpenedFirst /\ BodyIsOfTitle /\ ToldCurrent /\ ListAhead /\ NoFalseMarks

-----------------------------------------------------------------------------
(* Sequences of messages.                                                  *)

LEMMA Joined ==
  ASSUME NEW S, NEW s \in Seq(S), NEW t \in Seq(S)
  PROVE  /\ s \o t \in Seq(S)
         /\ \A kind : NoneOf(s \o t, kind) <=> NoneOf(s, kind) /\ NoneOf(t, kind)
         /\ \A kind : AllOf(s \o t, kind) <=> AllOf(s, kind) /\ AllOf(t, kind)
         /\ \A kind, good : EndsWith(t, kind, good) => EndsWith(s \o t, kind, good)
         /\ \A kind, good : EndsWith(s, kind, good) /\ NoneOf(t, kind) =>
              EndsWith(s \o t, kind, good)
<1> DEFINE n == Len(s)
           m == Len(t)
           u == s \o t
<1>1. /\ n \in Nat /\ m \in Nat /\ Len(u) = n + m /\ u \in Seq(S)
      /\ \A i \in 1..n : u[i] = s[i]
      /\ \A i \in 1..m : u[n + i] = t[i]
  OBVIOUS
<1> HIDE DEF n, m, u
<1>2. \A i \in 1..n + m : i \in 1..n \/ (i - n \in 1..m /\ u[i] = t[i - n])
  <2>1. \A i \in 1..n + m : i \in 1..n \/ (i - n \in 1..m /\ n + (i - n) = i)
    BY <1>1
  <2>2. QED
    BY <1>1, <2>1
<1>3. \A i \in 1..n : i \in 1..n + m
  BY <1>1
<1>4. \A i \in 1..m : n + i \in 1..n + m
  BY <1>1
<1>5. \A kind : NoneOf(u, kind) <=> NoneOf(s, kind) /\ NoneOf(t, kind)
  BY <1>1, <1>2, <1>3, <1>4 DEF NoneOf, n, m
<1>6. \A kind : AllOf(u, kind) <=> AllOf(s, kind) /\ AllOf(t, kind)
  BY <1>1, <1>2, <1>3, <1>4 DEF AllOf, n, m
<1>7. ASSUME NEW kind, NEW good, EndsWith(t, kind, good)
      PROVE  EndsWith(u, kind, good)
  <2>1. PICK j \in 1..m : t[j] \in good /\ \A i \in j + 1..m : t[i] \notin kind
    BY <1>7 DEF EndsWith, m
  <2>2. n + j \in 1..n + m /\ u[n + j] \in good
    BY <1>1, <1>4, <2>1
  <2>3. ASSUME NEW i \in (n + j) + 1..n + m PROVE u[i] \notin kind
    <3>1. i \in 1..n + m /\ i \notin 1..n /\ i - n \in j + 1..m
      BY <1>1, <2>1
    <3>2. QED
      BY <1>2, <2>1, <3>1
  <2>4. QED
    BY <1>1, <2>2, <2>3 DEF EndsWith
<1>8. ASSUME NEW kind, NEW good, EndsWith(s, kind, good), NoneOf(t, kind)
      PROVE  EndsWith(u, kind, good)
  <2>1. PICK j \in 1..n : s[j] \in good /\ \A i \in j + 1..n : s[i] \notin kind
    BY <1>8 DEF EndsWith, n
  <2>2. j \in 1..n + m /\ u[j] \in good
    BY <1>1, <1>3, <2>1
  <2>3. ASSUME NEW i \in j + 1..n + m PROVE u[i] \notin kind
    <3>1. CASE i \in 1..n
      BY <3>1, <1>1, <2>1
    <3>2. CASE i \notin 1..n
      <4>1. i \in 1..n + m
        BY <1>1, <2>1
      <4>2. i - n \in 1..m /\ u[i] = t[i - n]
        BY <4>1, <3>2, <1>2
      <4>3. QED
        BY <4>2, <1>8 DEF NoneOf, m
    <3>3. QED
      BY <3>1, <3>2
  <2>4. QED
    BY <1>1, <2>2, <2>3 DEF EndsWith
<1>9. QED
  BY <1>1, <1>5, <1>6, <1>7, <1>8 DEF u

LEMMA Tailed ==
  ASSUME NEW S, NEW s \in Seq(S), s # <<>>
  PROVE  /\ Tail(s) \in Seq(S) /\ Head(s) \in S
         /\ \A kind : NoneOf(s, kind) => NoneOf(Tail(s), kind) /\ Head(s) \notin kind
         /\ \A kind : AllOf(s, kind) => AllOf(Tail(s), kind) /\ Head(s) \in kind
         /\ \A kind, good : EndsWith(s, kind, good) =>
              \/ EndsWith(Tail(s), kind, good)
              \/ (Head(s) \in good /\ NoneOf(Tail(s), kind))
<1> DEFINE n == Len(s)
           u == Tail(s)
<1>1. /\ n \in Nat /\ n >= 1 /\ Len(u) = n - 1 /\ u \in Seq(S) /\ Head(s) = s[1]
      /\ \A i \in 1..n - 1 : u[i] = s[i + 1]
      /\ s[1] \in S
  OBVIOUS
<1> HIDE DEF n, u
<1>2. 1 \in 1..n /\ \A i \in 1..n - 1 : i + 1 \in 1..n
  BY <1>1
<1>3. \A kind : NoneOf(s, kind) => NoneOf(u, kind) /\ Head(s) \notin kind
  BY <1>1, <1>2 DEF NoneOf, n
<1>4. \A kind : AllOf(s, kind) => AllOf(u, kind) /\ Head(s) \in kind
  BY <1>1, <1>2 DEF AllOf, n
<1>5. ASSUME NEW kind, NEW good, EndsWith(s, kind, good)
      PROVE  EndsWith(u, kind, good) \/ (Head(s) \in good /\ NoneOf(u, kind))
  <2>1. PICK j \in 1..n : s[j] \in good /\ \A i \in j + 1..n : s[i] \notin kind
    BY <1>5 DEF EndsWith, n
  <2>2. CASE j = 1
    <3>1. \A i \in 1..n - 1 : i + 1 \in j + 1..n
      BY <1>1, <2>2
    <3>2. QED
      BY <1>1, <2>1, <2>2, <3>1 DEF NoneOf
  <2>3. CASE j # 1
    <3>1. j - 1 \in 1..n - 1 /\ (j - 1) + 1 = j
      BY <1>1, <2>1, <2>3
    <3>2. u[j - 1] \in good
      BY <1>1, <2>1, <3>1
    <3>3. \A i \in (j - 1) + 1..n - 1 : i + 1 \in j + 1..n /\ i \in 1..n - 1
      BY <1>1, <2>1, <3>1
    <3>4. QED
      BY <1>1, <2>1, <3>1, <3>2, <3>3 DEF EndsWith
  <2>4. QED
    BY <2>2, <2>3
<1>6. QED
  BY <1>1, <1>3, <1>4, <1>5 DEF u

LEMMA Short ==
  /\ \A kind : NoneOf(<<>>, kind) /\ AllOf(<<>>, kind)
  /\ \A kind, good : ~EndsWith(<<>>, kind, good)
  /\ \A c, kind : NoneOf(<<c>>, kind) <=> c \notin kind
  /\ \A c, kind : AllOf(<<c>>, kind) <=> c \in kind
  /\ \A c, kind, good : EndsWith(<<c>>, kind, good) <=> c \in good
  /\ \A s, kind, more : AllOf(s, kind) /\ kind \subseteq more => AllOf(s, more)
  /\ \A s, kind, less : NoneOf(s, kind) /\ less \subseteq kind => NoneOf(s, less)
<1>1. \A c : Len(<<c>>) = 1 /\ <<c>>[1] = c /\ 1..1 = {1} /\ \A i \in 1 + 1..1 : FALSE
  OBVIOUS
<1>2. Len(<<>>) = 0 /\ \A i \in 1..0 : FALSE
  OBVIOUS
<1>3. /\ \A kind : NoneOf(<<>>, kind) /\ AllOf(<<>>, kind)
      /\ \A kind, good : ~EndsWith(<<>>, kind, good)
  BY <1>2 DEF NoneOf, AllOf, EndsWith
<1>4. /\ \A c, kind : NoneOf(<<c>>, kind) <=> c \notin kind
      /\ \A c, kind : AllOf(<<c>>, kind) <=> c \in kind
  BY <1>1 DEF NoneOf, AllOf
<1>5. \A c, kind, good : EndsWith(<<c>>, kind, good) <=> c \in good
  BY <1>1 DEF EndsWith
<1>6. /\ \A s, kind, more : AllOf(s, kind) /\ kind \subseteq more => AllOf(s, more)
      /\ \A s, kind, less : NoneOf(s, kind) /\ less \subseteq kind => NoneOf(s, less)
  BY DEF AllOf, NoneOf
<1>7. QED
  BY <1>3, <1>4, <1>5, <1>6

-----------------------------------------------------------------------------
(* Commands and events, by their kind.                                     *)

LEMMA CommandKinds ==
  ASSUME NEW c \in Commands
  PROVE  /\ c = Msg(c.what, c.of)
         /\ c.what \in FeedKeys => c.of \in Feeds
         /\ c.what \in DocKeys => c.of \in Docs
         /\ c.what \in FeedKeys \cup DocKeys \cup {"Search", "LoadHome"}
BY DEF Commands, Msg, FeedKeys, DocKeys

LEMMA FeedCommands ==
  ASSUME NEW what \in FeedKeys, NEW f \in Feeds
  PROVE  /\ Msg(what, f) \in CommandsInUse
         /\ Msg(what, f) \notin [what : {"OpenDoc", "FreshenDoc"}, of : Docs]
         /\ what # "LoadOlder" => Msg(what, f) \in Asks(f)
         /\ Msg("LoadOlder", f) \notin OtherLists(f)
BY DEF Commands, CommandsInUse, Msg, FeedKeys, DocKeys, Asks, OtherLists

LEMMA DocCommands ==
  ASSUME NEW what \in DocKeys, NEW d \in cached, cached \subseteq Docs,
         what = "FreshenDoc" => d \in read
  PROVE  /\ Msg(what, d) \in CommandsInUse
         /\ \A f : Msg(what, d) \notin OtherLists(f)
BY DEF Commands, CommandsInUse, Msg, FeedKeys, DocKeys, OtherLists

LEMMA OtherCommands ==
  ASSUME NEW what \in {"Search", "LoadHome"}
  PROVE  /\ Msg(what, Nothing) \in CommandsInUse
         /\ Msg(what, Nothing) \notin [what : {"OpenDoc", "FreshenDoc"}, of : Docs]
         /\ \A f : Msg("LoadHome", Nothing) \notin OtherLists(f)
BY DEF Commands, CommandsInUse, Msg, FeedKeys, DocKeys, OtherLists

LEMMA BadgeBounds ==
  ASSUME NEW f \in Feeds
  PROVE  UnreadOf(f) \in 0..Cardinality(Docs)
<1>1. CachedOf(f) \ read \subseteq Docs
  BY DEF CachedOf, DocsOf
<1>2. IsFiniteSet(CachedOf(f) \ read) /\ Cardinality(CachedOf(f) \ read) <= Cardinality(Docs)
  BY <1>1, FS_Subset, ConstantsAssumption
<1>3. Cardinality(CachedOf(f) \ read) \in Nat /\ Cardinality(Docs) \in Nat
  BY <1>2, FS_CardinalityType, ConstantsAssumption
<1>4. QED
  BY <1>2, <1>3 DEF UnreadOf

LEMMA FeedsTold ==
  /\ FeedsEvent \in Events /\ FeedsEvent \in EventsInUse
  /\ FeedsEvent \notin DocEvents /\ \A f : FeedsEvent \notin ListsOf(f)
<1>1. [f \in Feeds |-> UnreadOf(f)] \in [Feeds -> 0..Cardinality(Docs)]
  BY BadgeBounds
<1>2. FeedsEvent \in FeedsEvents /\ FeedsEvent.what = "Feeds"
  BY <1>1 DEF FeedsEvent, FeedsEvents, Msg
<1>3. QED
  BY <1>2 DEF Events, EventsInUse, DocEvents, ListsOf, DocsEvents, ResultsEvents

LEMMA ErrorTold ==
  /\ ErrorEvent \in Events /\ ErrorEvent \in EventsInUse
  /\ ErrorEvent \notin DocEvents /\ \A f : ErrorEvent \notin ListsOf(f)
BY DEF ErrorEvent, Msg, Events, EventsInUse, DocEvents, ListsOf, DocsEvents, ResultsEvents

LEMMA DocsTold ==
  ASSUME NEW f \in Feeds, NEW docs \in SUBSET Docs, NEW marks \in SUBSET Docs
  PROVE  /\ DocsEvent(f, docs, marks) \in Events
         /\ DocsEvent(f, docs, marks) \notin DocEvents
         /\ docs \subseteq cached' /\ marks \subseteq read' =>
              DocsEvent(f, docs, marks) \in EventsInUse'
         /\ docs = CachedOf(f)' => DocsEvent(f, docs, marks) \in CachedList(f)'
<1>1. /\ DocsEvent(f, docs, marks) \in DocsEvents
      /\ DocsEvent(f, docs, marks).what = "Docs"
      /\ DocsEvent(f, docs, marks).of.feed = f
      /\ DocsEvent(f, docs, marks).of.docs = docs
      /\ DocsEvent(f, docs, marks).of.read = marks
  BY DEF DocsEvent, DocsEvents, Msg
<1>2. QED
  BY <1>1 DEF Events, EventsInUse, DocEvents, CachedList

LEMMA DocTold ==
  ASSUME NEW d \in Docs, NEW e \in 1..MaxEdition, NEW b \in BOOLEAN
  PROVE  /\ DocEvent(d, e, b) \in Events
         /\ \A f : DocEvent(d, e, b) \notin ListsOf(f)
         /\ d \in read' => DocEvent(d, e, b) \in EventsInUse'
         /\ e = body'[d] => DocEvent(d, e, b) \in CurrentOf(d)'
         /\ \A o : o # d => DocEvent(d, e, b) \notin BodiesOf(o)
<1>1. /\ DocEvent(d, e, b) \in DocEvents
      /\ DocEvent(d, e, b).what = "Doc"
      /\ DocEvent(d, e, b).of.doc = d
      /\ DocEvent(d, e, b).of.edition = e
  BY DEF DocEvent, DocEvents, Msg
<1>2. QED
  BY <1>1 DEF Events, EventsInUse, CurrentOf, BodiesOf, ListsOf, DocsEvents, ResultsEvents

LEMMA ResultsTold ==
  ASSUME NEW found \in SUBSET Docs
  PROVE  /\ Msg("Results", found) \in Events
         /\ Msg("Results", found) \notin DocEvents
         /\ found \subseteq cached => Msg("Results", found) \in EventsInUse
<1>1. /\ Msg("Results", found) \in ResultsEvents
      /\ Msg("Results", found).what = "Results"
      /\ Msg("Results", found).of = found
  BY DEF ResultsEvents, Msg
<1>2. QED
  BY <1>1 DEF Events, EventsInUse, DocEvents

\* What is in use stays so as the store grows.
LEMMA StillInUse ==
  ASSUME cached \subseteq cached', read \subseteq read'
  PROVE  CommandsInUse \subseteq CommandsInUse' /\ EventsInUse \subseteq EventsInUse'
BY DEF CommandsInUse, EventsInUse

-----------------------------------------------------------------------------
(* What a step does to the channels.                                       *)

\* The store's part of TypeOK.
StoreOK ==
  /\ cached \subseteq Docs /\ read \subseteq cached
  /\ body \in [Docs -> NoBody..MaxEdition]
  /\ \A d \in Docs : body[d] # NoBody => d \in cached
  /\ networkOk \in BOOLEAN /\ failed \subseteq Feeds \cup Docs

\* A listing may drop bodies and tells of none; a body told is the one just cached, of the
\* post the command is about.
BodiesTold(results) ==
  \/ NoneOf(results, DocEvents) /\ \A d \in Docs : body'[d] \in {NoBody, body[d]}
  \/ \E d \in Docs :
       /\ \A o \in Docs : o # d => NoneOf(results, BodiesOf(o)) /\ body'[o] = body[o]
       /\ EndsWith(results, BodiesOf(d), CurrentOf(d)')
       /\ Head(inbox) \in [what : {"OpenDoc", "FreshenDoc"}, of : Docs]

\* The list of f is told as it is now cached, or its request has failed.
Relisted(f, results) == f \in failed' \/ EndsWith(results, ListsOf(f), CachedList(f)')

\* Nothing is told of the list of f, and nothing changes in it.
Unlisted(f, results) ==
  /\ NoneOf(results, ListsOf(f)) /\ CachedOf(f)' = CachedOf(f)
  /\ f \in failed => f \in failed'

ListsTold(results) ==
  \A f \in Feeds :
    /\ Head(inbox) \in Asks(f) => Relisted(f, results)
    /\ Head(inbox) \notin OtherLists(f) => Relisted(f, results) \/ Unlisted(f, results)

\* The worker handles a command with these results.
Works(results) ==
  /\ inbox # <<>> /\ inbox' = Tail(inbox) /\ events' = events \o results
  /\ UNCHANGED <<edition, view, inputs>>
  /\ results \in Seq(Events) /\ AllOf(results, EventsInUse')
  /\ cached \subseteq cached' /\ read \subseteq read' /\ StoreOK'
  /\ BodiesTold(results) /\ ListsTold(results)
  /\ \A d \in Docs : Head(inbox) = Msg("SetRead", d) => d \in read'

\* The command being handled is in use, and of its kind.
LEMMA Handled ==
  ASSUME Types, NEW what, NEW results, Handle(what, results)
  PROVE  /\ Head(inbox) = Msg(what, Head(inbox).of)
         /\ Head(inbox) \in CommandsInUse
         /\ what \in FeedKeys => Head(inbox).of \in Feeds
         /\ what \in DocKeys => Head(inbox).of \in cached /\ Head(inbox).of \in Docs
         /\ what = "FreshenDoc" => Head(inbox).of \in read
         /\ inbox # <<>> /\ inbox' = Tail(inbox) /\ events' = events \o results
         /\ UNCHANGED <<edition, view, inputs>>
<1>1. inbox \in Seq(Commands) /\ inbox # <<>> /\ AllOf(inbox, CommandsInUse)
      /\ Head(inbox).what = what
  BY DEF Types, Handle
<1>2. Head(inbox) \in CommandsInUse
  BY <1>1, Tailed
<1>3. Head(inbox) \in Commands
  BY <1>2 DEF CommandsInUse
<1>4. /\ Head(inbox) = Msg(what, Head(inbox).of)
      /\ what \in FeedKeys => Head(inbox).of \in Feeds
      /\ what \in DocKeys => Head(inbox).of \in Docs
  BY <1>1, <1>3, CommandKinds
<1>5. /\ what \in DocKeys => Head(inbox).of \in cached
      /\ what = "FreshenDoc" => Head(inbox).of \in read
  BY <1>1, <1>2 DEF CommandsInUse
<1>6. QED
  BY <1>1, <1>2, <1>4, <1>5 DEF Handle

\* A command is of one kind, so the conditions of ListsTold and BodiesTold are about it.
LEMMA AboutFeeds ==
  ASSUME NEW what, NEW x, Head(inbox) = Msg(what, x)
  PROVE  /\ \A f : Head(inbox) \in Asks(f) => what \in {"OpenFeed", "Refresh"} /\ f = x
         /\ \A f : Head(inbox) \in Commands /\ Head(inbox) \notin OtherLists(f) =>
              \/ what \notin FeedKeys \cup {"Search"}
              \/ what = "LoadOlder" /\ x = f
         /\ \A d : Head(inbox) = Msg("SetRead", d) => what = "SetRead" /\ x = d
BY DEF Asks, OtherLists, Msg, FeedKeys

LEMMA StoreIsOK ==
  TypeOK => StoreOK
BY DEF TypeOK, StoreOK

LEMMA NoResults ==
  /\ <<>> \in Seq(Events) /\ AllOf(<<>>, EventsInUse')
  /\ \A kind : NoneOf(<<>>, kind)
BY Short

LEMMA OneResult ==
  ASSUME NEW e \in Events
  PROVE  /\ <<e>> \in Seq(Events)
         /\ e \in EventsInUse' => AllOf(<<e>>, EventsInUse')
         /\ \A kind : e \notin kind => NoneOf(<<e>>, kind)
         /\ \A kind, good : e \in good => EndsWith(<<e>>, kind, good)
<1>1. <<e>> \in Seq(Events)
  OBVIOUS
<1>2. QED
  BY <1>1, Short

LEMMA LoadHomeWorks ==
  ASSUME Types, LoadHome
  PROVE  \E results : Works(results)
<1> DEFINE r == <<FeedsEvent>>
<1>1. Handle("LoadHome", r) /\ UNCHANGED <<store, networkOk, failed>>
  BY DEF LoadHome
<1>2. /\ Head(inbox) = Msg("LoadHome", Head(inbox).of)
      /\ inbox # <<>> /\ inbox' = Tail(inbox) /\ events' = events \o r
      /\ UNCHANGED <<edition, view, inputs>> /\ Head(inbox) \in CommandsInUse
  BY <1>1, Handled
<1>3. cached' = cached /\ read' = read /\ body' = body /\ networkOk' = networkOk
      /\ failed' = failed
  BY <1>1 DEF store
<1>4. StoreOK'
  BY <1>3, StoreIsOK DEF Types, StoreOK
<1>5. FeedsEvent \in EventsInUse'
  BY <1>3, FeedsTold, StillInUse
<1>6. r \in Seq(Events) /\ AllOf(r, EventsInUse') /\ NoneOf(r, DocEvents)
      /\ \A f : NoneOf(r, ListsOf(f))
  BY <1>5, FeedsTold, OneResult
<1>7. BodiesTold(r)
  BY <1>3, <1>6 DEF BodiesTold
<1>8. ListsTold(r)
  <2>1. \A f : Unlisted(f, r)
    BY <1>3, <1>6 DEF Unlisted, CachedOf
  <2>2. \A f : Head(inbox) \notin Asks(f)
    BY <1>2, AboutFeeds
  <2>3. QED
    BY <2>1, <2>2 DEF ListsTold
<1>9. \A d \in Docs : Head(inbox) # Msg("SetRead", d)
  BY <1>2, AboutFeeds
<1>10. Works(r)
  BY <1>2, <1>3, <1>4, <1>6, <1>7, <1>8, <1>9 DEF Works
<1>11. QED
  BY <1>10

\* Listings: bodies only go, and the list is told from what is now cached.
LEMMA ListingKeeps ==
  ASSUME Types, Listing, UNCHANGED read, networkOk' \in BOOLEAN,
         failed' \subseteq Feeds \cup Docs
  PROVE  /\ cached \subseteq cached' /\ read \subseteq read' /\ StoreOK'
         /\ \A d \in Docs : body'[d] \in {NoBody, body[d]}
<1>1. PICK new \in SUBSET (Docs \ cached), lost \in SUBSET Docs :
        /\ cached' = cached \cup new
        /\ body' = [d \in Docs |-> IF d \in lost THEN NoBody ELSE body[d]]
  BY DEF Listing
<1>2. StoreOK
  BY StoreIsOK DEF Types
<1>3. \A d \in Docs : body'[d] = IF d \in lost THEN NoBody ELSE body[d]
  BY <1>1
<1>4. NoBody \in NoBody..MaxEdition
  BY ConstantsAssumption DEF NoBody
<1>5. body' \in [Docs -> NoBody..MaxEdition]
  BY <1>1, <1>2, <1>4 DEF StoreOK
<1>6. cached \subseteq cached' /\ cached' \subseteq Docs /\ read' = read
  BY <1>1, <1>2 DEF StoreOK
<1>7. \A d \in Docs : body'[d] # NoBody => d \in cached'
  BY <1>2, <1>3, <1>6 DEF StoreOK
<1>8. QED
  BY <1>2, <1>3, <1>5, <1>6, <1>7 DEF StoreOK

LEMMA ServeDocsTells ==
  ASSUME NEW f \in Feeds, read \subseteq cached, read' = read, cached \subseteq cached',
         cached' \subseteq Docs
  PROVE  /\ ServeDocs(f) \in Events /\ ServeDocs(f) \in EventsInUse'
         /\ ServeDocs(f) \notin DocEvents /\ ServeDocs(f) \in CachedList(f)'
<1> DEFINE docs == cached' \cap DocsOf(f)
           marks == read \cap DocsOf(f)
<1>1. docs \in SUBSET Docs /\ marks \in SUBSET Docs /\ docs \subseteq cached'
      /\ marks \subseteq read' /\ docs = CachedOf(f)'
  BY DEF CachedOf, DocsOf
<1>2. ServeDocs(f) = DocsEvent(f, docs, marks)
  BY DEF ServeDocs
<1> HIDE DEF docs, marks
<1>3. QED
  BY <1>1, <1>2, DocsTold

LEMMA CachedFirstTells ==
  ASSUME Types, NEW f \in Feeds, cached \subseteq cached', read \subseteq read'
  PROVE  /\ CachedFirst(f) \in Seq(Events) /\ AllOf(CachedFirst(f), EventsInUse')
         /\ NoneOf(CachedFirst(f), DocEvents)
<1>1. CASE CachedOf(f) = {}
  BY <1>1, NoResults DEF CachedFirst
<1>2. CASE CachedOf(f) # {}
  <2> DEFINE docs == CachedOf(f)
             marks == read \cap CachedOf(f)
  <2>1. docs \in SUBSET Docs /\ marks \in SUBSET Docs /\ docs \subseteq cached'
        /\ marks \subseteq read'
    BY DEF CachedOf, DocsOf
  <2>2. CachedFirst(f) = <<DocsEvent(f, docs, marks)>>
    BY <1>2 DEF CachedFirst
  <2> HIDE DEF docs, marks
  <2>3. DocsEvent(f, docs, marks) \in Events /\ DocsEvent(f, docs, marks) \in EventsInUse'
        /\ DocsEvent(f, docs, marks) \notin DocEvents
    BY <2>1, DocsTold
  <2>4. QED
    BY <2>2, <2>3, OneResult
<1>3. QED
  BY <1>1, <1>2

LEMMA RefreshDocsWorks ==
  ASSUME Types, NEW what \in {"OpenFeed", "Refresh"}, NEW served,
         RefreshDocs(what, served),
         cached \subseteq cached' /\ read \subseteq read' /\ Head(inbox).of \in Feeds =>
           /\ served \in Seq(Events) /\ AllOf(served, EventsInUse')
           /\ NoneOf(served, DocEvents)
  PROVE  \E results : Works(results)
<1>0. PICK f : f = Head(inbox).of
  OBVIOUS
<1>1. PICK last \in {ServeDocs(f), ErrorEvent} :
        /\ Handle(what, served \o <<last>>)
        /\ last = ServeDocs(f) \/ (last = ErrorEvent /\ Failed(f))
        /\ networkOk' \in {TRUE, networkOk} /\ (Answered(f) \/ Failed(f))
  BY <1>0 DEF RefreshDocs
<1>2. Listing /\ UNCHANGED read
  BY DEF RefreshDocs
<1> DEFINE r == served \o <<last>>
<1>3. /\ Head(inbox) = Msg(what, f) /\ f \in Feeds /\ Head(inbox) \in CommandsInUse
      /\ inbox # <<>> /\ inbox' = Tail(inbox) /\ events' = events \o r
      /\ UNCHANGED <<edition, view, inputs>>
  BY <1>0, <1>1, Handled DEF FeedKeys
<1>4. networkOk' \in BOOLEAN /\ failed' \subseteq Feeds \cup Docs
  BY <1>1, <1>3 DEF Types, TypeOK, Answered, Failed
<1>5. /\ cached \subseteq cached' /\ read \subseteq read' /\ StoreOK'
      /\ \A d \in Docs : body'[d] \in {NoBody, body[d]}
  BY <1>2, <1>4, ListingKeeps
<1>6. served \in Seq(Events) /\ AllOf(served, EventsInUse') /\ NoneOf(served, DocEvents)
  BY <1>0, <1>3, <1>5
<1>7. ServeDocs(f) \in Events /\ ServeDocs(f) \in EventsInUse'
      /\ ServeDocs(f) \notin DocEvents /\ ServeDocs(f) \in CachedList(f)'
  <2>1. read \subseteq cached /\ cached' \subseteq Docs /\ read' = read
    BY <1>2, <1>5 DEF Types, TypeOK, StoreOK
  <2>2. QED
    BY <1>2, <1>3, <1>5, <2>1, ServeDocsTells
<1>8. ErrorEvent \in Events /\ ErrorEvent \in EventsInUse' /\ ErrorEvent \notin DocEvents
  BY <1>5, ErrorTold, StillInUse
<1>9. last \in Events /\ last \in EventsInUse' /\ last \notin DocEvents
  BY <1>1, <1>7, <1>8
<1>10. <<last>> \in Seq(Events) /\ AllOf(<<last>>, EventsInUse') /\ NoneOf(<<last>>, DocEvents)
  BY <1>9, OneResult
<1>11. r \in Seq(Events) /\ AllOf(r, EventsInUse') /\ NoneOf(r, DocEvents)
  BY <1>6, <1>10, Joined
<1>12. BodiesTold(r)
  BY <1>5, <1>11 DEF BodiesTold
<1>13. Relisted(f, r)
  <2>1. CASE last = ServeDocs(f)
    <3>1. EndsWith(<<last>>, ListsOf(f), CachedList(f)')
      BY <2>1, <1>7, <1>9, OneResult
    <3>2. EndsWith(r, ListsOf(f), CachedList(f)')
      BY <3>1, <1>6, <1>10, Joined
    <3>3. QED
      BY <3>2 DEF Relisted
  <2>2. CASE Failed(f)
    BY <2>2 DEF Relisted, Failed
  <2>3. QED
    BY <1>1, <2>1, <2>2
<1>14. ListsTold(r)
  <2>1. \A g : Head(inbox) \in Asks(g) => g = f
    BY <1>3, AboutFeeds
  <2>2. \A g \in Feeds : Head(inbox) \in OtherLists(g)
    BY <1>3, AboutFeeds DEF CommandsInUse, FeedKeys
  <2>3. QED
    BY <1>13, <2>1, <2>2 DEF ListsTold
<1>15. \A d \in Docs : Head(inbox) # Msg("SetRead", d)
  BY <1>3, AboutFeeds
<1>16. Works(r)
  BY <1>3, <1>5, <1>11, <1>12, <1>14, <1>15 DEF Works
<1>17. QED
  BY <1>16

LEMMA ServeFeedWorks ==
  ASSUME Types, ServeFeed
  PROVE  \E results : Works(results)
<1>1. RefreshDocs("OpenFeed", CachedFirst(Head(inbox).of))
  BY DEF ServeFeed
<1>2. cached \subseteq cached' /\ read \subseteq read' /\ Head(inbox).of \in Feeds =>
        /\ CachedFirst(Head(inbox).of) \in Seq(Events)
        /\ AllOf(CachedFirst(Head(inbox).of), EventsInUse')
        /\ NoneOf(CachedFirst(Head(inbox).of), DocEvents)
  BY CachedFirstTells
<1>3. QED
  BY <1>1, <1>2, RefreshDocsWorks

LEMMA RefreshWorks ==
  ASSUME Types, RefreshDocs("Refresh", <<>>)
  PROVE  \E results : Works(results)
BY NoResults, RefreshDocsWorks

LEMMA ServeOlderWorks ==
  ASSUME Types, ServeOlder
  PROVE  \E results : Works(results)
<1>0. PICK f : f = Head(inbox).of
  OBVIOUS
<1>1. PICK r \in {<<>>, <<ServeDocs(f)>>, <<ErrorEvent>>} :
        /\ Handle("LoadOlder", r) /\ UNCHANGED <<read, networkOk>>
        /\ \/ r = <<>> /\ UNCHANGED <<cached, body, failed>>
           \/ r = <<ServeDocs(f)>> /\ Listing /\ Answered(f)
           \/ r = <<ErrorEvent>> /\ UNCHANGED <<cached, body>> /\ Failed(f)
  BY <1>0 DEF ServeOlder
<1>2. /\ Head(inbox) = Msg("LoadOlder", f) /\ f \in Feeds /\ Head(inbox) \in CommandsInUse
      /\ inbox # <<>> /\ inbox' = Tail(inbox) /\ events' = events \o r
      /\ UNCHANGED <<edition, view, inputs>>
  BY <1>0, <1>1, Handled DEF FeedKeys
<1>3. networkOk' \in BOOLEAN /\ failed' \subseteq Feeds \cup Docs
  BY <1>1, <1>2 DEF Types, TypeOK, Answered, Failed
<1>4. /\ cached \subseteq cached' /\ read \subseteq read' /\ StoreOK'
      /\ \A d \in Docs : body'[d] \in {NoBody, body[d]}
  <2>1. CASE Listing
    BY <2>1, <1>1, <1>3, ListingKeeps
  <2>2. CASE UNCHANGED <<cached, body>>
    BY <2>2, <1>1, <1>3, StoreIsOK DEF Types, StoreOK
  <2>3. QED
    BY <1>1, <2>1, <2>2
<1>5. r \in Seq(Events) /\ AllOf(r, EventsInUse') /\ NoneOf(r, DocEvents)
      /\ (Relisted(f, r) \/ Unlisted(f, r))
  <2>1. CASE r = <<>> /\ UNCHANGED <<cached, body, failed>>
    BY <2>1, NoResults DEF Unlisted, CachedOf
  <2>2. CASE r = <<ServeDocs(f)>> /\ Listing
    <3>1. read \subseteq cached /\ cached' \subseteq Docs /\ read' = read
      BY <1>1, <1>4 DEF Types, TypeOK, StoreOK
    <3>2. ServeDocs(f) \in Events /\ ServeDocs(f) \in EventsInUse'
          /\ ServeDocs(f) \notin DocEvents /\ ServeDocs(f) \in CachedList(f)'
      BY <1>1, <1>2, <1>4, <3>1, ServeDocsTells
    <3>3. QED
      BY <2>2, <3>2, OneResult DEF Relisted
  <2>3. CASE r = <<ErrorEvent>> /\ Failed(f)
    <3>1. ErrorEvent \in Events /\ ErrorEvent \in EventsInUse' /\ ErrorEvent \notin DocEvents
      BY <1>4, ErrorTold, StillInUse
    <3>2. QED
      BY <2>3, <3>1, OneResult DEF Relisted, Failed
  <2>4. QED
    BY <1>1, <2>1, <2>2, <2>3
<1>6. BodiesTold(r)
  BY <1>4, <1>5 DEF BodiesTold
<1>7. ListsTold(r)
  <2>1. \A g : Head(inbox) \notin Asks(g)
    BY <1>2, AboutFeeds
  <2>2. \A g \in Feeds : Head(inbox) \notin OtherLists(g) => g = f
    BY <1>2, AboutFeeds DEF CommandsInUse, FeedKeys
  <2>3. QED
    BY <1>5, <2>1, <2>2 DEF ListsTold
<1>8. \A d \in Docs : Head(inbox) # Msg("SetRead", d)
  BY <1>2, AboutFeeds
<1>9. Works(r)
  BY <1>2, <1>4, <1>5, <1>6, <1>7, <1>8 DEF Works
<1>10. QED
  BY <1>9

\* A command about a post: no list is told, and none changes, the post being cached.
LEMMA PostsAreNotListed ==
  ASSUME NEW what, NEW d \in Docs, Head(inbox) = Msg(what, d), what \in DocKeys,
         NEW r, \A f : NoneOf(r, ListsOf(f)), cached' = cached,
         Answered(d) \/ Failed(d) \/ failed' = failed
  PROVE  ListsTold(r)
<1>1. \A f \in Feeds : f # d
  BY ConstantsAssumption
<1>2. \A f \in Feeds : Unlisted(f, r)
  BY <1>1 DEF Unlisted, Answered, Failed, CachedOf
<1>3. \A f : Head(inbox) \notin Asks(f)
  BY AboutFeeds DEF DocKeys
<1>4. QED
  BY <1>2, <1>3 DEF ListsTold

\* The current edition is cached, and told if there is anything to tell.
LEMMA FetchedTells ==
  ASSUME Types, NEW d \in Docs, d \in cached, FetchAndCacheDoc(d), read \subseteq read',
         d \in read', read' \subseteq cached',
         failed' \subseteq Feeds \cup Docs, NEW e, e = edition[d],
         NEW b \in BOOLEAN
  PROVE  /\ cached' = cached /\ StoreOK'
         /\ DocEvent(d, e, b) \in Events /\ DocEvent(d, e, b) \in EventsInUse'
         /\ DocEvent(d, e, b) \in CurrentOf(d)'
         /\ \A o \in Docs : o # d => body'[o] = body[o]
         /\ body'[d] = e
<1>1. StoreOK /\ edition[d] \in 1..MaxEdition /\ MaxEdition \in Nat
  BY StoreIsOK, ConstantsAssumption DEF Types, TypeOK
<1>2. e \in NoBody..MaxEdition /\ e \in 1..MaxEdition
  BY <1>1 DEF NoBody
<1>3. cached' = cached /\ networkOk' = TRUE /\ body' = [body EXCEPT ![d] = e]
  BY DEF FetchAndCacheDoc
<1>4. body' \in [Docs -> NoBody..MaxEdition] /\ body'[d] = e
      /\ \A o \in Docs : o # d => body'[o] = body[o]
  BY <1>1, <1>2, <1>3 DEF StoreOK
<1>5. StoreOK'
  BY <1>1, <1>3, <1>4 DEF StoreOK
<1>6. QED
  BY <1>2, <1>3, <1>4, <1>5, DocTold

LEMMA ServeDocWorks ==
  ASSUME Types, ServeDoc
  PROVE  \E results : Works(results)
<1>0. PICK d : d = Head(inbox).of
  OBVIOUS
<1>1. PICK r : Handle("OpenDoc", r)
  BY <1>0 DEF ServeDoc
<1>2. /\ Head(inbox) = Msg("OpenDoc", d) /\ d \in cached /\ d \in Docs
      /\ inbox # <<>> /\ inbox' = Tail(inbox)
      /\ UNCHANGED <<edition, view, inputs>>
  BY <1>0, <1>1, Handled DEF DocKeys
<1>3. \A f : Head(inbox) # Msg("SetRead", f)
  BY <1>2, AboutFeeds
<1>4. Head(inbox) \in [what : {"OpenDoc", "FreshenDoc"}, of : Docs]
  BY <1>2 DEF Msg
<1>5. failed \subseteq Feeds \cup Docs /\ StoreOK
  BY StoreIsOK DEF Types, TypeOK
<1>6. ASSUME NEW e \in 1..MaxEdition, NEW b \in BOOLEAN,
             Handle("OpenDoc", <<DocEvent(d, e, b)>>),
             StoreOK', cached' = cached, read' = read \cup {d}, body'[d] = e,
             \A o \in Docs : o # d => body'[o] = body[o], Answered(d)
      PROVE  Works(<<DocEvent(d, e, b)>>)
  <2> DEFINE ev == DocEvent(d, e, b)
  <2>1. /\ ev \in Events /\ ev \in EventsInUse' /\ \A f : ev \notin ListsOf(f)
        /\ ev \in CurrentOf(d)' /\ \A o : o # d => ev \notin BodiesOf(o)
    BY <1>2, <1>6, DocTold
  <2> HIDE DEF ev
  <2>2. /\ <<ev>> \in Seq(Events) /\ AllOf(<<ev>>, EventsInUse')
        /\ \A f : NoneOf(<<ev>>, ListsOf(f))
        /\ EndsWith(<<ev>>, BodiesOf(d), CurrentOf(d)')
        /\ \A o : o # d => NoneOf(<<ev>>, BodiesOf(o))
    BY <2>1, OneResult
  <2>3. BodiesTold(<<ev>>)
    BY <1>2, <1>4, <1>6, <2>2 DEF BodiesTold
  <2>4. ListsTold(<<ev>>)
    BY <1>2, <1>6, <2>2, PostsAreNotListed DEF DocKeys
  <2>5. events' = events \o <<ev>>
    BY <1>6 DEF Handle, ev
  <2>6. Works(<<ev>>)
    BY <1>2, <1>3, <1>6, <2>2, <2>3, <2>4, <2>5 DEF Works
  <2>7. QED
    BY <2>6 DEF ev
<1>7. CASE /\ body[d] # NoBody /\ Handle("OpenDoc", <<DocEvent(d, body[d], TRUE)>>)
           /\ read' = read \cup {d} /\ Answered(d) /\ UNCHANGED <<cached, body, networkOk>>
  <2>1. PICK e : e = body[d]
    OBVIOUS
  <2>2. e \in 1..MaxEdition
    BY <1>2, <1>5, <1>7, <2>1, ConstantsAssumption DEF StoreOK, NoBody
  <2>3. StoreOK'
    BY <1>2, <1>5, <1>7 DEF StoreOK, Answered
  <2>4. QED
    BY <1>6, <1>7, <2>1, <2>2, <2>3
<1>8. CASE /\ body[d] = NoBody /\ FetchAndCacheDoc(d)
           /\ Handle("OpenDoc", <<DocEvent(d, edition[d], FALSE)>>)
           /\ read' = read \cup {d} /\ Answered(d)
  <2>1. PICK e : e = edition[d]
    OBVIOUS
  <2>2. e \in 1..MaxEdition
    BY <1>2, <2>1 DEF Types, TypeOK
  <2>3. read' \subseteq cached' /\ failed' \subseteq Feeds \cup Docs
    BY <1>2, <1>5, <1>8 DEF FetchAndCacheDoc, Answered, StoreOK
  <2>4. /\ cached' = cached /\ StoreOK' /\ body'[d] = e
        /\ \A o \in Docs : o # d => body'[o] = body[o]
    BY <1>2, <1>8, <2>1, <2>3, FetchedTells
  <2>5. QED
    BY <1>6, <1>8, <2>1, <2>2, <2>4
<1>9. CASE /\ body[d] = NoBody /\ Handle("OpenDoc", <<ErrorEvent>>) /\ Failed(d)
           /\ UNCHANGED <<store, networkOk>>
  <2>1. cached' = cached /\ body' = body /\ read' = read /\ networkOk' = networkOk
    BY <1>9 DEF store
  <2>2. StoreOK'
    BY <1>2, <1>5, <1>9, <2>1 DEF StoreOK, Failed
  <2>3. ErrorEvent \in Events /\ ErrorEvent \in EventsInUse' /\ ErrorEvent \notin DocEvents
        /\ \A f : ErrorEvent \notin ListsOf(f)
    BY <2>1, ErrorTold, StillInUse
  <2>4. /\ <<ErrorEvent>> \in Seq(Events) /\ AllOf(<<ErrorEvent>>, EventsInUse')
        /\ NoneOf(<<ErrorEvent>>, DocEvents) /\ \A f : NoneOf(<<ErrorEvent>>, ListsOf(f))
    BY <2>3, OneResult
  <2>5. BodiesTold(<<ErrorEvent>>)
    BY <2>1, <2>4 DEF BodiesTold
  <2>6. ListsTold(<<ErrorEvent>>)
    BY <1>2, <1>9, <2>1, <2>4, PostsAreNotListed DEF DocKeys
  <2>7. Works(<<ErrorEvent>>)
    BY <1>2, <1>3, <1>9, <2>1, <2>2, <2>4, <2>5, <2>6 DEF Works, Handle
  <2>8. QED
    BY <2>7
<1>10. QED
  BY <1>0, <1>7, <1>8, <1>9 DEF ServeDoc

LEMMA FreshenDocWorks ==
  ASSUME Types, FreshenDoc
  PROVE  \E results : Works(results)
<1>0. PICK d : d = Head(inbox).of
  OBVIOUS
<1>1. PICK r : Handle("FreshenDoc", r)
  BY <1>0 DEF FreshenDoc
<1>2. /\ Head(inbox) = Msg("FreshenDoc", d) /\ d \in cached /\ d \in Docs /\ d \in read
      /\ inbox # <<>> /\ inbox' = Tail(inbox)
      /\ UNCHANGED <<edition, view, inputs>>
  BY <1>0, <1>1, Handled DEF DocKeys
<1>3. \A f : Head(inbox) # Msg("SetRead", f)
  BY <1>2, AboutFeeds
<1>4. Head(inbox) \in [what : {"OpenDoc", "FreshenDoc"}, of : Docs]
  BY <1>2 DEF Msg
<1>5. failed \subseteq Feeds \cup Docs /\ StoreOK /\ read' = read /\ failed' = failed
  BY StoreIsOK DEF Types, TypeOK, FreshenDoc
<1>6. ASSUME Handle("FreshenDoc", <<>>), cached' = cached, StoreOK',
             \A o \in Docs : body'[o] \in {NoBody, body[o]}
      PROVE  Works(<<>>)
  <2>1. <<>> \in Seq(Events) /\ AllOf(<<>>, EventsInUse') /\ \A kind : NoneOf(<<>>, kind)
    BY NoResults
  <2>2. BodiesTold(<<>>)
    BY <1>6, <2>1 DEF BodiesTold
  <2>3. ListsTold(<<>>)
    BY <1>2, <1>5, <1>6, <2>1, PostsAreNotListed DEF DocKeys
  <2>4. events' = events \o <<>>
    BY <1>6 DEF Handle
  <2>5. QED
    BY <1>2, <1>3, <1>5, <1>6, <2>1, <2>2, <2>3, <2>4 DEF Works
<1>7. CASE networkOk /\ FetchAndCacheDoc(d) /\
           Handle("FreshenDoc",
             IF body[d] = edition[d] THEN <<>> ELSE <<DocEvent(d, edition[d], FALSE)>>)
  <2>1. PICK e : e = edition[d]
    OBVIOUS
  <2>2. e \in 1..MaxEdition
    BY <1>2, <2>1 DEF Types, TypeOK
  <2>3. read' \subseteq cached' /\ failed' \subseteq Feeds \cup Docs /\ read \subseteq read'
        /\ d \in read'
    BY <1>2, <1>5, <1>7 DEF FetchAndCacheDoc, StoreOK
  <2> DEFINE ev == DocEvent(d, e, FALSE)
  <2>4. /\ cached' = cached /\ StoreOK' /\ body'[d] = e
        /\ ev \in Events /\ ev \in EventsInUse' /\ ev \in CurrentOf(d)'
        /\ \A o \in Docs : o # d => body'[o] = body[o]
    BY <1>2, <1>7, <2>1, <2>3, FetchedTells
  <2>5. (\A f : ev \notin ListsOf(f)) /\ \A o : o # d => ev \notin BodiesOf(o)
    BY <1>2, <2>2, DocTold
  <2>6. CASE body[d] = e
    <3>1. Handle("FreshenDoc", <<>>)
      BY <1>7, <2>1, <2>6
    <3>2. \A o \in Docs : body'[o] \in {NoBody, body[o]}
      BY <2>4, <2>6
    <3>3. QED
      BY <1>6, <2>4, <3>1, <3>2
  <2>7. CASE body[d] # e
    <3>1. Handle("FreshenDoc", <<ev>>)
      BY <1>7, <2>1, <2>7
    <3> HIDE DEF ev
    <3>2. /\ <<ev>> \in Seq(Events) /\ AllOf(<<ev>>, EventsInUse')
          /\ \A f : NoneOf(<<ev>>, ListsOf(f))
          /\ EndsWith(<<ev>>, BodiesOf(d), CurrentOf(d)')
          /\ \A o : o # d => NoneOf(<<ev>>, BodiesOf(o))
      BY <2>4, <2>5, OneResult
    <3>3. BodiesTold(<<ev>>)
      BY <1>2, <1>4, <2>4, <3>2 DEF BodiesTold
    <3>4. ListsTold(<<ev>>)
      BY <1>2, <1>5, <2>4, <3>2, PostsAreNotListed DEF DocKeys
    <3>5. events' = events \o <<ev>>
      BY <3>1 DEF Handle
    <3>6. Works(<<ev>>)
      BY <1>2, <1>3, <1>5, <2>4, <3>2, <3>3, <3>4, <3>5 DEF Works
    <3>7. QED
      BY <3>6
  <2>8. QED
    BY <2>6, <2>7
<1>8. CASE Handle("FreshenDoc", <<>>) /\ networkOk' = FALSE /\ UNCHANGED <<cached, body>>
  <2>1. StoreOK'
    BY <1>5, <1>8 DEF StoreOK
  <2>2. QED
    BY <1>6, <1>8, <2>1
<1>9. QED
  BY <1>0, <1>7, <1>8 DEF FreshenDoc

LEMMA SetReadWorks ==
  ASSUME Types, SetRead
  PROVE  \E results : Works(results)
<1>0. PICK d : d = Head(inbox).of
  OBVIOUS
<1>1. Handle("SetRead", <<>>) /\ read' = read \cup ({d} \cap cached)
      /\ UNCHANGED <<cached, body, networkOk, failed>>
  BY <1>0 DEF SetRead
<1>2. /\ Head(inbox) = Msg("SetRead", d) /\ d \in cached /\ d \in Docs
      /\ inbox # <<>> /\ inbox' = Tail(inbox) /\ events' = events \o <<>>
      /\ UNCHANGED <<edition, view, inputs>>
  BY <1>0, <1>1, Handled DEF DocKeys
<1>3. \A o : Head(inbox) = Msg("SetRead", o) => o = d
  BY <1>2, AboutFeeds
<1>4. StoreOK'
  BY <1>1, StoreIsOK DEF Types, StoreOK
<1>5. <<>> \in Seq(Events) /\ AllOf(<<>>, EventsInUse') /\ \A kind : NoneOf(<<>>, kind)
  BY NoResults
<1>6. BodiesTold(<<>>)
  BY <1>1, <1>5 DEF BodiesTold
<1>7. ListsTold(<<>>)
  BY <1>1, <1>2, <1>5, PostsAreNotListed DEF DocKeys
<1>8. Works(<<>>)
  BY <1>1, <1>2, <1>3, <1>4, <1>5, <1>6, <1>7 DEF Works
<1>9. QED
  BY <1>8

\* What a search finds comes before any list asked for after it.
LEMMA ServeSearchWorks ==
  ASSUME Types, ServeSearch
  PROVE  \E results : Works(results)
<1>1. PICK found \in SUBSET cached : Handle("Search", <<Msg("Results", found)>>)
  BY DEF ServeSearch
<1>2. /\ Head(inbox) = Msg("Search", Head(inbox).of) /\ Head(inbox) \in CommandsInUse
      /\ inbox # <<>> /\ inbox' = Tail(inbox)
      /\ events' = events \o <<Msg("Results", found)>>
      /\ UNCHANGED <<edition, view, inputs>>
  BY <1>1, Handled
<1>3. cached' = cached /\ body' = body /\ read' = read /\ networkOk' = networkOk
      /\ failed' = failed
  BY DEF ServeSearch, store
<1>4. StoreOK'
  BY <1>3, StoreIsOK DEF Types, StoreOK
<1> DEFINE ev == Msg("Results", found)
<1>5. found \in SUBSET Docs
  BY <1>1 DEF Types, TypeOK
<1>6. ev \in Events /\ ev \in EventsInUse' /\ ev \notin DocEvents
  BY <1>1, <1>3, <1>5, ResultsTold, StillInUse
<1>7. <<ev>> \in Seq(Events) /\ AllOf(<<ev>>, EventsInUse') /\ NoneOf(<<ev>>, DocEvents)
  BY <1>6, OneResult
<1>8. BodiesTold(<<ev>>)
  BY <1>3, <1>7 DEF BodiesTold
<1>9. ListsTold(<<ev>>)
  <2>1. \A f : Head(inbox) \notin Asks(f)
    BY <1>2, AboutFeeds
  <2>2. \A f : Head(inbox) \in OtherLists(f)
    BY <1>2, AboutFeeds DEF CommandsInUse, FeedKeys
  <2>3. QED
    BY <2>1, <2>2 DEF ListsTold
<1>10. \A d \in Docs : Head(inbox) # Msg("SetRead", d)
  BY <1>2, AboutFeeds
<1>11. Works(<<ev>>)
  BY <1>2, <1>3, <1>4, <1>7, <1>8, <1>9, <1>10 DEF Works
<1>12. QED
  BY <1>11

LEMMA WorkerWorks ==
  ASSUME Types, Worker
  PROVE  \E results : Works(results)
BY LoadHomeWorks, ServeFeedWorks, RefreshWorks, ServeOlderWorks, ServeDocWorks,
   FreshenDocWorks, SetReadWorks, ServeSearchWorks DEF Worker

-----------------------------------------------------------------------------
(* What the App's steps do.                                                *)

\* The App's part of TypeOK.
ViewOK ==
  /\ loading \in BOOLEAN /\ mode \in {"Browse", "DocList"}
  /\ openPub \in Feeds \cup {Nothing}
  /\ shown \subseteq cached /\ readUris \subseteq cached
  /\ readingUri \in cached \cup {Nothing} /\ freshened \subseteq cached
  /\ reading = NoReading \/ (reading.doc \in cached /\ reading.edition \in 1..MaxEdition)
  /\ unread \in [Feeds -> 0..Cardinality(Docs)]

\* A key sends these commands: the list of the feed it opens is asked for, and a marker taken
\* off is recorded.
Asking(commands) ==
  /\ inbox' = inbox \o commands
  /\ UNCHANGED <<edition, store, networkOk, events, failed>>
  /\ inputs' \in 0..MaxInputs /\ ViewOK'
  /\ commands \in Seq(Commands) /\ AllOf(commands, CommandsInUse)
  /\ \/ /\ reading' = reading /\ readingUri' = readingUri
        /\ NoneOf(commands, [what : {"OpenDoc", "FreshenDoc"}, of : Docs])
     \/ reading' = NoReading /\ readingUri' \in Docs
  /\ \/ openPub' = Nothing
     \/ EndsWith(commands, OtherLists(openPub'), Asks(openPub'))
     \/ /\ openPub' = openPub /\ shown' = shown
        /\ openPub # Nothing => NoneOf(commands, OtherLists(openPub))
  /\ \A d \in readUris' \ readUris : ~NoneOf(commands, {Msg("SetRead", d)})

LEMMA KeyTypes ==
  ASSUME Types, NEW commands, Input(commands)
  PROVE  /\ inbox' = inbox \o commands /\ inputs' \in 0..MaxInputs
         /\ edition' = edition /\ cached' = cached /\ body' = body /\ read' = read
         /\ networkOk' = networkOk /\ events' = events /\ failed' = failed
         /\ UNCHANGED <<edition, store, networkOk, events, failed>>
         /\ ViewOK
BY ConstantsAssumption DEF Input, Types, TypeOK, ViewOK, store

LEMMA OneCommand ==
  ASSUME NEW c \in CommandsInUse
  PROVE  /\ <<c>> \in Seq(Commands) /\ AllOf(<<c>>, CommandsInUse)
         /\ \A kind : c \notin kind => NoneOf(<<c>>, kind)
         /\ \A kind : c \in kind => ~NoneOf(<<c>>, kind)
         /\ \A kind, good : c \in good => EndsWith(<<c>>, kind, good)
<1>1. c \in Commands
  BY DEF CommandsInUse
<1>2. <<c>> \in Seq(Commands)
  BY <1>1
<1>3. QED
  BY <1>2, Short

LEMMA NoCommands ==
  /\ <<>> \in Seq(Commands) /\ AllOf(<<>>, CommandsInUse)
  /\ \A kind : NoneOf(<<>>, kind)
BY Short

LEMMA NoteReadTypes ==
  ASSUME ViewOK, NEW d \in cached, NoteRead(d), cached' = cached
  PROVE  /\ readUris' = readUris \cup {d} /\ readUris' \subseteq cached'
         /\ unread' \in [Feeds -> 0..Cardinality(Docs)]
<1>1. Cardinality(Docs) \in Nat
  BY ConstantsAssumption, FS_CardinalityType
<1>2. \A f \in Feeds : unread[f] > 0 => unread[f] - 1 \in 0..Cardinality(Docs)
  BY <1>1 DEF ViewOK
<1>3. readUris' = readUris \cup {d} /\ readUris' \subseteq cached'
  BY DEF NoteRead, ViewOK
<1>4. CASE unread' = unread
  BY <1>3, <1>4 DEF ViewOK
<1>5. CASE openPub # Nothing /\ unread[openPub] > 0
           /\ unread' = [unread EXCEPT ![openPub] = @ - 1]
  <2>1. openPub \in Feeds /\ unread[openPub] - 1 \in 0..Cardinality(Docs)
    BY <1>2, <1>5 DEF ViewOK
  <2>2. QED
    BY <1>3, <1>5, <2>1 DEF ViewOK
<1>6. QED
  BY <1>4, <1>5 DEF NoteRead

LEMMA OpenFeedAsks ==
  ASSUME Types, NEW f \in Feeds, OpenFeed(f) \/ Refresh(f)
  PROVE  \E commands : Asking(commands)
<1>1. PICK what \in {"OpenFeed", "Refresh"} :
        /\ Input(<<Msg(what, f)>>) /\ openPub' = f /\ loading' = TRUE
        /\ shown' \in {{}, shown} /\ mode' \in {"Browse", "DocList", mode}
        /\ UNCHANGED <<readingUri, reading, readUris, unread, freshened>>
  BY DEF OpenFeed, Refresh
<1> DEFINE c == Msg(what, f)
<1>2. /\ inbox' = inbox \o <<c>> /\ inputs' \in 0..MaxInputs /\ cached' = cached
      /\ UNCHANGED <<edition, store, networkOk, events, failed>> /\ ViewOK
  BY <1>1, KeyTypes
<1>3. c \in CommandsInUse /\ c \notin [what : {"OpenDoc", "FreshenDoc"}, of : Docs]
      /\ c \in Asks(f)
  BY <1>1, FeedCommands DEF FeedKeys
<1> HIDE DEF c
<1>4. /\ <<c>> \in Seq(Commands) /\ AllOf(<<c>>, CommandsInUse)
      /\ NoneOf(<<c>>, [what : {"OpenDoc", "FreshenDoc"}, of : Docs])
      /\ EndsWith(<<c>>, OtherLists(openPub'), Asks(openPub'))
  BY <1>1, <1>3, OneCommand
<1>5. ViewOK'
  BY <1>1, <1>2 DEF ViewOK
<1>6. Asking(<<c>>)
  BY <1>1, <1>2, <1>4, <1>5 DEF Asking
<1>7. QED
  BY <1>6

LEMMA LeaveListAsks ==
  ASSUME Types, LeaveList
  PROVE  \E commands : Asking(commands)
<1>1. /\ inbox' = inbox \o <<>> /\ inputs' \in 0..MaxInputs /\ cached' = cached
      /\ UNCHANGED <<edition, store, networkOk, events, failed>> /\ ViewOK
  BY KeyTypes DEF LeaveList
<1>2. ViewOK'
  BY <1>1 DEF ViewOK, LeaveList
<1>3. Asking(<<>>)
  BY <1>1, <1>2, NoCommands DEF Asking, LeaveList
<1>4. QED
  BY <1>3

LEMMA OpenDocAsks ==
  ASSUME Types, NEW d \in Docs, OpenDoc(d)
  PROVE  \E commands : Asking(commands)
<1>1. d \in shown /\ Input(<<Msg("OpenDoc", d)>>)
      /\ readingUri' = d /\ reading' = NoReading /\ loading' = TRUE /\ mode' = "Browse"
      /\ UNCHANGED <<openPub, shown, readUris, unread, freshened>>
  BY DEF OpenDoc
<1> DEFINE c == Msg("OpenDoc", d)
<1>2. /\ inbox' = inbox \o <<c>> /\ inputs' \in 0..MaxInputs /\ cached' = cached
      /\ UNCHANGED <<edition, store, networkOk, events, failed>> /\ ViewOK
  BY <1>1, KeyTypes
<1>3. d \in cached /\ cached \subseteq Docs
  BY <1>1, <1>2 DEF ViewOK, Types, TypeOK
<1>4. c \in CommandsInUse /\ \A f : c \notin OtherLists(f)
  BY <1>3, DocCommands DEF DocKeys
<1> HIDE DEF c
<1>5. /\ <<c>> \in Seq(Commands) /\ AllOf(<<c>>, CommandsInUse)
      /\ \A f : NoneOf(<<c>>, OtherLists(f))
  BY <1>4, OneCommand
<1>6. ViewOK'
  BY <1>1, <1>2, <1>3 DEF ViewOK
<1>7. Asking(<<c>>)
  BY <1>1, <1>2, <1>5, <1>6 DEF Asking
<1>8. QED
  BY <1>7

LEMMA MarkReadAsks ==
  ASSUME Types, MarkRead
  PROVE  \E commands : Asking(commands)
<1>0. PICK d : d = readingUri
  OBVIOUS
<1>1. d # Nothing /\ Input(<<Msg("SetRead", d)>>) /\ NoteRead(d)
      /\ UNCHANGED <<mode, openPub, shown, readingUri, reading, freshened, loading>>
  BY <1>0 DEF MarkRead
<1> DEFINE c == Msg("SetRead", d)
<1>2. /\ inbox' = inbox \o <<c>> /\ inputs' \in 0..MaxInputs /\ cached' = cached
      /\ UNCHANGED <<edition, store, networkOk, events, failed>> /\ ViewOK
  BY <1>1, KeyTypes
<1>3. d \in cached /\ cached \subseteq Docs
  BY <1>0, <1>1, <1>2 DEF ViewOK, Types, TypeOK
<1>4. c \in CommandsInUse /\ \A f : c \notin OtherLists(f)
  BY <1>3, DocCommands DEF DocKeys
<1>5. c \notin [what : {"OpenDoc", "FreshenDoc"}, of : Docs] /\ c = Msg("SetRead", d)
  BY DEF Msg
<1> HIDE DEF c
<1>6. /\ <<c>> \in Seq(Commands) /\ AllOf(<<c>>, CommandsInUse)
      /\ \A f : NoneOf(<<c>>, OtherLists(f))
      /\ NoneOf(<<c>>, [what : {"OpenDoc", "FreshenDoc"}, of : Docs])
      /\ ~NoneOf(<<c>>, {Msg("SetRead", d)})
  BY <1>4, <1>5, OneCommand
<1>7. /\ readUris' = readUris \cup {d} /\ readUris' \subseteq cached'
      /\ unread' \in [Feeds -> 0..Cardinality(Docs)]
  BY <1>1, <1>2, <1>3, NoteReadTypes
<1>8. ViewOK'
  BY <1>1, <1>2, <1>7 DEF ViewOK
<1>9. \A o \in readUris' \ readUris : o = d
  BY <1>7
<1>10. Asking(<<c>>)
  BY <1>1, <1>2, <1>6, <1>8, <1>9 DEF Asking
<1>11. QED
  BY <1>10

LEMMA LoadOlderAsks ==
  ASSUME Types, LoadOlder
  PROVE  \E commands : Asking(commands)
<1>0. PICK f : f = openPub
  OBVIOUS
<1>1. f # Nothing /\ Input(<<Msg("LoadOlder", f)>>) /\ UNCHANGED view
  BY <1>0 DEF LoadOlder
<1> DEFINE c == Msg("LoadOlder", f)
<1>2. /\ inbox' = inbox \o <<c>> /\ inputs' \in 0..MaxInputs /\ cached' = cached
      /\ UNCHANGED <<edition, store, networkOk, events, failed>> /\ ViewOK
  BY <1>1, KeyTypes
<1>3. f \in Feeds
  BY <1>0, <1>1, <1>2 DEF ViewOK
<1>4. c \in CommandsInUse /\ c \notin [what : {"OpenDoc", "FreshenDoc"}, of : Docs]
      /\ c \notin OtherLists(f)
  BY <1>3, FeedCommands DEF FeedKeys
<1> HIDE DEF c
<1>5. /\ <<c>> \in Seq(Commands) /\ AllOf(<<c>>, CommandsInUse)
      /\ NoneOf(<<c>>, [what : {"OpenDoc", "FreshenDoc"}, of : Docs])
      /\ NoneOf(<<c>>, OtherLists(f))
  BY <1>4, OneCommand
<1>6. ViewOK'
  BY <1>1, <1>2 DEF ViewOK, view
<1>7. reading' = reading /\ readingUri' = readingUri /\ openPub' = openPub
      /\ shown' = shown /\ readUris' = readUris
  BY <1>1 DEF view
<1>8. Asking(<<c>>)
  BY <1>0, <1>2, <1>5, <1>6, <1>7 DEF Asking
<1>9. QED
  BY <1>8

LEMMA SearchAsks ==
  ASSUME Types, Search
  PROVE  \E commands : Asking(commands)
<1> DEFINE c == Msg("Search", Nothing)
<1>1. /\ inbox' = inbox \o <<c>> /\ inputs' \in 0..MaxInputs /\ cached' = cached
      /\ UNCHANGED <<edition, store, networkOk, events, failed>> /\ ViewOK
  BY KeyTypes DEF Search
<1>2. c \in CommandsInUse /\ c \notin [what : {"OpenDoc", "FreshenDoc"}, of : Docs]
  BY OtherCommands
<1> HIDE DEF c
<1>3. /\ <<c>> \in Seq(Commands) /\ AllOf(<<c>>, CommandsInUse)
      /\ NoneOf(<<c>>, [what : {"OpenDoc", "FreshenDoc"}, of : Docs])
  BY <1>2, OneCommand
<1>4. ViewOK'
  BY <1>1 DEF ViewOK, Search
<1>5. Asking(<<c>>)
  BY <1>1, <1>3, <1>4 DEF Asking, Search
<1>6. QED
  BY <1>5

LEMMA ChangeFollowsAsks ==
  ASSUME Types, ChangeFollows
  PROVE  \E commands : Asking(commands)
<1> DEFINE c == Msg("LoadHome", Nothing)
<1>1. /\ inbox' = inbox \o <<c>> /\ inputs' \in 0..MaxInputs /\ cached' = cached
      /\ UNCHANGED <<edition, store, networkOk, events, failed>> /\ ViewOK
  BY KeyTypes DEF ChangeFollows
<1>2. c \in CommandsInUse /\ c \notin [what : {"OpenDoc", "FreshenDoc"}, of : Docs]
      /\ \A f : c \notin OtherLists(f)
  BY OtherCommands
<1> HIDE DEF c
<1>3. /\ <<c>> \in Seq(Commands) /\ AllOf(<<c>>, CommandsInUse)
      /\ NoneOf(<<c>>, [what : {"OpenDoc", "FreshenDoc"}, of : Docs])
      /\ \A f : NoneOf(<<c>>, OtherLists(f))
  BY <1>2, OneCommand
<1>4. ViewOK'
  BY <1>1 DEF ViewOK, ChangeFollows, view
<1>5. reading' = reading /\ readingUri' = readingUri /\ openPub' = openPub
      /\ shown' = shown /\ readUris' = readUris
  BY DEF ChangeFollows, view
<1>6. Asking(<<c>>)
  BY <1>1, <1>3, <1>4, <1>5 DEF Asking
<1>7. QED
  BY <1>6

LEMMA KeysAsk ==
  ASSUME Types, Keys
  PROVE  \E commands : Asking(commands)
BY OpenFeedAsks, OpenDocAsks, LeaveListAsks, MarkReadAsks, LoadOlderAsks, SearchAsks,
   ChangeFollowsAsks DEF Keys

\* The App folds e in, and may send a command: a body of the post on screen, or of the first
\* one, is shown, a list of the open feed and any results are, and nothing else is.
Folding(e, commands) ==
  /\ events # <<>> /\ e = Head(events) /\ events' = Tail(events)
  /\ UNCHANGED <<edition, store, networkOk, inputs, failed, openPub, readingUri>>
  /\ ViewOK'
  /\ inbox' = inbox \o commands
  /\ commands \in Seq(Commands) /\ AllOf(commands, CommandsInUse)
  /\ \A f : NoneOf(commands, OtherLists(f))
  /\ commands # <<>> => e \in DocEvents
  /\ \/ /\ reading' = reading
        /\ \A d \in Docs : e \in BodiesOf(d) => readingUri \notin {d, Nothing}
     \/ /\ e \in DocEvents /\ reading' = [doc |-> e.of.doc, edition |-> e.of.edition]
        /\ readingUri \in {e.of.doc, Nothing}
  /\ \A f \in Feeds :
       openPub = f =>
         /\ e \in CachedList(f) => shown' = CachedOf(f)
         /\ e \notin ListsOf(f) => shown' = shown
  /\ readUris' \ readUris \subseteq read

\* The event being folded in is in use, and of its kind.
LEMMA Folded ==
  ASSUME Types, NEW what, Fold(what)
  PROVE  \E e \in EventsInUse :
           /\ e = Head(events) /\ e.what = what /\ Told = e.of
           /\ events # <<>> /\ events' = Tail(events)
           /\ UNCHANGED <<edition, store, networkOk, inputs, failed>>
           /\ cached' = cached /\ ViewOK
<1>1. events \in Seq(Events) /\ events # <<>> /\ AllOf(events, EventsInUse)
      /\ Head(events).what = what
  BY DEF Types, Fold
<1>2. Head(events) \in EventsInUse
  BY <1>1, Tailed
<1>3. cached' = cached
  BY DEF Fold, store
<1>4. ViewOK
  BY DEF Types, TypeOK, ViewOK
<1>5. QED
  BY <1>1, <1>2, <1>3, <1>4 DEF Fold, Told

LEMMA EventKinds ==
  ASSUME NEW e \in EventsInUse
  PROVE  /\ e \in Events
         /\ e.what = "Feeds" => e.of \in [Feeds -> 0..Cardinality(Docs)]
         /\ e.what = "Docs" =>
              /\ e.of.feed \in Feeds /\ e.of.docs \subseteq cached /\ e.of.read \subseteq read
         /\ e.what = "Doc" =>
              /\ e \in DocEvents /\ e.of.doc \in Docs /\ e.of.doc \in read
              /\ e.of.edition \in 1..MaxEdition
         /\ e.what = "Results" => e.of \subseteq cached
         /\ e.what # "Docs" => \A f : e \notin CachedList(f)
         /\ e.what # "Doc" => \A d : e \notin BodiesOf(d)
         /\ \A f : e \in CachedList(f) => e.of.feed = f /\ e.of.docs = CachedOf(f)
         /\ \A f : e.what = "Docs" /\ e \notin ListsOf(f) => e.of.feed # f
         /\ e.what = "Results" => \A f : e \in ListsOf(f)
         /\ \A d : e \in BodiesOf(d) => e.of.doc = d
<1>1. /\ e \in FeedsEvents => e.what = "Feeds" /\ e.of \in [Feeds -> 0..Cardinality(Docs)]
      /\ e \in DocsEvents => e.what = "Docs" /\ e.of.feed \in Feeds
      /\ e \in DocEvents =>
           e.what = "Doc" /\ e.of.doc \in Docs /\ e.of.edition \in 1..MaxEdition
      /\ e \in ResultsEvents => e.what = "Results"
      /\ e = ErrorEvent => e.what = "Error"
  BY DEF FeedsEvents, DocsEvents, DocEvents, ResultsEvents, ErrorEvent, Msg
<1>2. /\ e \in Events
      /\ e.what = "Docs" => e.of.docs \subseteq cached /\ e.of.read \subseteq read
      /\ e.what = "Doc" => e.of.doc \in read
      /\ e.what = "Results" => e.of \subseteq cached
  BY DEF EventsInUse
<1>3. /\ e.what = "Feeds" => e \in FeedsEvents
      /\ e.what = "Docs" => e \in DocsEvents
      /\ e.what = "Doc" => e \in DocEvents
      /\ e.what = "Results" => e \in ResultsEvents
  BY <1>1, <1>2 DEF Events
<1>4. QED
  BY <1>1, <1>2, <1>3 DEF CachedList, ListsOf, BodiesOf

LEMMA FoldFeedsFolds ==
  ASSUME Types, FoldFeeds
  PROVE  \E e, commands : Folding(e, commands)
<1>1. PICK e \in EventsInUse :
        /\ e = Head(events) /\ e.what = "Feeds" /\ Told = e.of
        /\ events # <<>> /\ events' = Tail(events)
        /\ UNCHANGED <<edition, store, networkOk, inputs, failed>>
        /\ cached' = cached /\ ViewOK
  BY Folded DEF FoldFeeds
<1>2. unread' = e.of /\ loading' = FALSE
      /\ UNCHANGED <<inbox, mode, openPub, shown, readingUri, reading, readUris, freshened>>
  BY <1>1 DEF FoldFeeds
<1>3. e.of \in [Feeds -> 0..Cardinality(Docs)]
      /\ (\A f : e \notin CachedList(f)) /\ \A d : e \notin BodiesOf(d)
  BY <1>1, EventKinds
<1>4. ViewOK'
  BY <1>1, <1>2, <1>3 DEF ViewOK
<1>5. inbox' = inbox \o <<>>
  BY <1>2 DEF Types
<1>6. Folding(e, <<>>)
  BY <1>1, <1>2, <1>3, <1>4, <1>5, NoCommands DEF Folding
<1>7. QED
  BY <1>6

LEMMA FoldDocsFolds ==
  ASSUME Types, FoldDocs
  PROVE  \E e, commands : Folding(e, commands)
<1>1. PICK e \in EventsInUse :
        /\ e = Head(events) /\ e.what = "Docs" /\ Told = e.of
        /\ events # <<>> /\ events' = Tail(events)
        /\ UNCHANGED <<edition, store, networkOk, inputs, failed>>
        /\ cached' = cached /\ ViewOK
  BY Folded DEF FoldDocs
<1>2. /\ IF openPub = e.of.feed
         THEN shown' = e.of.docs /\ readUris' = e.of.read /\ loading' = FALSE
         ELSE UNCHANGED <<shown, readUris, loading>>
      /\ UNCHANGED <<inbox, mode, openPub, readingUri, reading, unread, freshened>>
  BY <1>1 DEF FoldDocs
<1>3. /\ e.of.feed \in Feeds /\ e.of.docs \subseteq cached /\ e.of.read \subseteq read
      /\ \A f : e \in CachedList(f) => e.of.feed = f /\ e.of.docs = CachedOf(f)
      /\ \A f : e \notin ListsOf(f) => e.of.feed # f
      /\ \A d : e \notin BodiesOf(d)
  BY <1>1, EventKinds
<1>4. read \subseteq cached
  BY DEF Types, TypeOK
<1>5. ViewOK'
  BY <1>1, <1>2, <1>3, <1>4 DEF ViewOK
<1>6. inbox' = inbox \o <<>>
  BY <1>2 DEF Types
<1>7. readUris' \ readUris \subseteq read
  BY <1>2, <1>3
<1>8. \A f \in Feeds :
        openPub = f =>
          /\ e \in CachedList(f) => shown' = CachedOf(f)
          /\ e \notin ListsOf(f) => shown' = shown
  BY <1>2, <1>3
<1>9. Folding(e, <<>>)
  BY <1>1, <1>2, <1>3, <1>5, <1>6, <1>7, <1>8, NoCommands DEF Folding
<1>10. QED
  BY <1>9

LEMMA FoldDocFolds ==
  ASSUME Types, FoldDoc
  PROVE  \E e, commands : Folding(e, commands)
<1>1. PICK e \in EventsInUse :
        /\ e = Head(events) /\ e.what = "Doc" /\ Told = e.of
        /\ events # <<>> /\ events' = Tail(events)
        /\ UNCHANGED <<edition, store, networkOk, inputs, failed>>
        /\ cached' = cached /\ ViewOK
  BY Folded DEF FoldDoc
<1>2. /\ e \in DocEvents /\ e.of.doc \in Docs /\ e.of.doc \in read
      /\ e.of.edition \in 1..MaxEdition
      /\ \A f : e \notin CachedList(f)
      /\ \A d : e \in BodiesOf(d) => e.of.doc = d
  BY <1>1, EventKinds
<1>3. PICK d \in Docs : d = e.of.doc
  BY <1>2
<1>4. d \in read /\ d \in cached /\ read \subseteq cached /\ cached \subseteq Docs
  BY <1>2, <1>3 DEF Types, TypeOK
<1>5. loading' = FALSE /\ UNCHANGED <<mode, openPub, shown, readingUri>>
  BY DEF FoldDoc
<1>6. CASE ~Accepts(d)
  <2>1. UNCHANGED <<inbox, reading, readUris, unread, freshened>>
    BY <1>1, <1>3, <1>6 DEF FoldDoc
  <2>2. ViewOK'
    BY <1>1, <1>5, <2>1 DEF ViewOK
  <2>3. inbox' = inbox \o <<>>
    BY <2>1 DEF Types
  <2>4. \A o \in Docs : e \in BodiesOf(o) => readingUri \notin {o, Nothing}
    BY <1>2, <1>3, <1>6 DEF Accepts
  <2>5. Folding(e, <<>>)
    BY <1>1, <1>2, <1>5, <2>1, <2>2, <2>3, <2>4, NoCommands DEF Folding
  <2>6. QED
    BY <2>5
<1>7. CASE Accepts(d)
  <2>1. /\ reading' = [doc |-> d, edition |-> e.of.edition] /\ NoteRead(d)
        /\ \/ /\ inbox' = Append(inbox, Msg("FreshenDoc", d))
              /\ freshened' = freshened \cup {d}
           \/ UNCHANGED <<inbox, freshened>>
    BY <1>1, <1>3, <1>7 DEF FoldDoc
  <2>2. /\ readUris' = readUris \cup {d} /\ readUris' \subseteq cached'
        /\ unread' \in [Feeds -> 0..Cardinality(Docs)]
    BY <1>1, <1>4, <2>1, NoteReadTypes
  <2>3. freshened' \subseteq cached'
    BY <1>1, <1>4, <2>1 DEF ViewOK
  <2>4. reading'.doc \in cached' /\ reading'.edition \in 1..MaxEdition
    BY <1>1, <1>2, <1>4, <2>1
  <2>5. ViewOK'
    BY <1>1, <1>5, <2>2, <2>3, <2>4 DEF ViewOK
  <2> DEFINE c == Msg("FreshenDoc", d)
  <2>6. PICK commands \in {<<>>, <<c>>} : inbox' = inbox \o commands
    <3>1. inbox \in Seq(Commands)
      BY DEF Types
    <3>2. CASE inbox' = Append(inbox, c)
      <4>1. Append(inbox, c) = inbox \o <<c>>
        BY <3>1
      <4>2. QED
        BY <3>2, <4>1
    <3>3. CASE inbox' = inbox
      BY <3>1, <3>3
    <3>4. QED
      BY <2>1, <3>2, <3>3
  <2>7. c \in CommandsInUse /\ \A f : c \notin OtherLists(f)
    BY <1>4, DocCommands DEF DocKeys
  <2> HIDE DEF c
  <2>8. /\ commands \in Seq(Commands) /\ AllOf(commands, CommandsInUse)
        /\ \A f : NoneOf(commands, OtherLists(f))
    BY <2>6, <2>7, OneCommand, NoCommands
  <2>9. e \in DocEvents /\ reading' = [doc |-> e.of.doc, edition |-> e.of.edition]
        /\ readingUri \in {e.of.doc, Nothing}
    BY <1>2, <1>3, <1>7, <2>1 DEF Accepts
  <2>10. readUris' \ readUris \subseteq read
    BY <1>4, <2>2
  <2>11. Folding(e, commands)
    BY <1>1, <1>2, <1>5, <2>5, <2>6, <2>8, <2>9, <2>10 DEF Folding
  <2>12. QED
    BY <2>11
<1>8. QED
  BY <1>6, <1>7

LEMMA FoldResultsFolds ==
  ASSUME Types, FoldResults
  PROVE  \E e, commands : Folding(e, commands)
<1>1. PICK e \in EventsInUse :
        /\ e = Head(events) /\ e.what = "Results" /\ Told = e.of
        /\ events # <<>> /\ events' = Tail(events)
        /\ UNCHANGED <<edition, store, networkOk, inputs, failed>>
        /\ cached' = cached /\ ViewOK
  BY Folded DEF FoldResults
<1>2. shown' = e.of /\ mode' = "DocList" /\ loading' = FALSE
      /\ UNCHANGED <<inbox, openPub, readingUri, reading, readUris, unread, freshened>>
  BY <1>1 DEF FoldResults
<1>3. /\ e.of \subseteq cached /\ \A f : e \in ListsOf(f) /\ e \notin CachedList(f)
      /\ \A d : e \notin BodiesOf(d)
  BY <1>1, EventKinds
<1>4. ViewOK'
  BY <1>1, <1>2, <1>3 DEF ViewOK
<1>5. inbox' = inbox \o <<>>
  BY <1>2 DEF Types
<1>6. Folding(e, <<>>)
  BY <1>1, <1>2, <1>3, <1>4, <1>5, NoCommands DEF Folding
<1>7. QED
  BY <1>6

LEMMA FoldErrorFolds ==
  ASSUME Types, FoldError
  PROVE  \E e, commands : Folding(e, commands)
<1>1. PICK e \in EventsInUse :
        /\ e = Head(events) /\ e.what = "Error" /\ Told = e.of
        /\ events # <<>> /\ events' = Tail(events)
        /\ UNCHANGED <<edition, store, networkOk, inputs, failed>>
        /\ cached' = cached /\ ViewOK
  BY Folded DEF FoldError
<1>2. loading' = FALSE
      /\ UNCHANGED <<inbox, mode, openPub, shown, readingUri, reading, readUris, unread,
                     freshened>>
  BY DEF FoldError
<1>3. (\A f : e \notin CachedList(f)) /\ \A d : e \notin BodiesOf(d)
  BY <1>1, EventKinds
<1>4. ViewOK'
  BY <1>1, <1>2 DEF ViewOK
<1>5. inbox' = inbox \o <<>>
  BY <1>2 DEF Types
<1>6. Folding(e, <<>>)
  BY <1>1, <1>2, <1>3, <1>4, <1>5, NoCommands DEF Folding
<1>7. QED
  BY <1>6

LEMMA ApplyFolds ==
  ASSUME Types, Apply
  PROVE  \E e, commands : Folding(e, commands)
BY FoldFeedsFolds, FoldDocsFolds, FoldDocFolds, FoldResultsFolds, FoldErrorFolds DEF Apply

-----------------------------------------------------------------------------
(* Every step preserves the invariant.                                     *)

LEMMA Untailed ==
  ASSUME NEW S, NEW s \in Seq(S), s # <<>>, NEW kind,
         NoneOf(Tail(s), kind), Head(s) \notin kind
  PROVE  NoneOf(s, kind)
<1>1. PICK n : n = Len(s)
  OBVIOUS
<1>2. n \in Nat /\ Len(Tail(s)) = n - 1 /\ \A i \in 1..n - 1 : Tail(s)[i] = s[i + 1]
  BY <1>1
<1>3. \A i \in 1..n : i = 1 \/ i - 1 \in 1..n - 1
  BY <1>2
<1>4. ASSUME NEW i \in 1..n PROVE s[i] \notin kind
  <2>1. CASE i = 1
    BY <2>1
  <2>2. CASE i # 1
    <3>1. i - 1 \in 1..n - 1 /\ Tail(s)[i - 1] = s[i]
      BY <1>2, <1>3, <2>2
    <3>2. QED
      BY <1>2, <3>1 DEF NoneOf
  <2>3. QED
    BY <2>1, <2>2
<1>5. QED
  BY <1>1, <1>4 DEF NoneOf

LEMMA InRange ==
  ASSUME NEW S, NEW s \in Seq(S), NEW c
  PROVE  c \in Range(s) <=> ~NoneOf(s, {c})
BY DEF Range, NoneOf

LEMMA TypesOfParts ==
  TypeOK <=> /\ StoreOK /\ ViewOK /\ edition \in [Docs -> 1..MaxEdition]
             /\ inputs \in 0..MaxInputs
BY DEF TypeOK, StoreOK, ViewOK

LEMMA StillTyped ==
  ASSUME ViewOK, UNCHANGED view, cached \subseteq cached'
  PROVE  ViewOK'
BY DEF ViewOK, view

LEMMA SameStore ==
  ASSUME UNCHANGED <<store, networkOk, failed>>
  PROVE  /\ CommandsInUse' = CommandsInUse /\ EventsInUse' = EventsInUse
         /\ StoreOK => StoreOK'
         /\ \A d : BodiesOf(d)' = BodiesOf(d) /\ CurrentOf(d)' = CurrentOf(d)
         /\ \A f : CachedList(f)' = CachedList(f) /\ CachedOf(f)' = CachedOf(f)
<1>1. cached' = cached /\ body' = body /\ read' = read /\ networkOk' = networkOk
      /\ failed' = failed
  BY DEF store
<1>2. QED
  BY <1>1 DEF CommandsInUse, EventsInUse, StoreOK, BodiesOf, CurrentOf, CachedList, CachedOf

\* Types is preserved.
LEMMA WorkerTypes ==
  ASSUME Types, NEW results, Works(results)
  PROVE  Types'
<1>1. /\ inbox # <<>> /\ inbox' = Tail(inbox) /\ events' = events \o results
      /\ results \in Seq(Events) /\ AllOf(results, EventsInUse')
      /\ cached \subseteq cached' /\ read \subseteq read' /\ StoreOK'
      /\ edition' = edition /\ inputs' = inputs /\ UNCHANGED view
  BY DEF Works
<1>2. CommandsInUse \subseteq CommandsInUse' /\ EventsInUse \subseteq EventsInUse'
  BY <1>1, StillInUse
<1>3. /\ inbox \in Seq(Commands) /\ AllOf(inbox, CommandsInUse)
      /\ events \in Seq(Events) /\ AllOf(events, EventsInUse)
      /\ ViewOK /\ edition \in [Docs -> 1..MaxEdition] /\ inputs \in 0..MaxInputs
  BY TypesOfParts DEF Types
<1>4. inbox' \in Seq(Commands) /\ AllOf(inbox', CommandsInUse')
  BY <1>1, <1>2, <1>3, Tailed, Short
<1>5. events' \in Seq(Events) /\ AllOf(events', EventsInUse')
  BY <1>1, <1>2, <1>3, Joined, Short
<1>6. ViewOK'
  BY <1>1, <1>3, StillTyped
<1>7. TypeOK'
  BY <1>1, <1>3, <1>6 DEF TypeOK, StoreOK, ViewOK
<1>8. QED
  BY <1>4, <1>5, <1>7 DEF Types

LEMMA KeyPressTypes ==
  ASSUME Types, NEW commands, Asking(commands)
  PROVE  Types'
<1>1. /\ inbox' = inbox \o commands /\ events' = events /\ edition' = edition
      /\ UNCHANGED <<store, networkOk, failed>> /\ inputs' \in 0..MaxInputs /\ ViewOK'
      /\ commands \in Seq(Commands) /\ AllOf(commands, CommandsInUse)
  BY DEF Asking
<1>2. CommandsInUse' = CommandsInUse /\ EventsInUse' = EventsInUse /\ StoreOK'
  BY <1>1, SameStore, StoreIsOK DEF Types
<1>3. inbox' \in Seq(Commands) /\ AllOf(inbox', CommandsInUse')
  BY <1>1, <1>2, Joined DEF Types
<1>4. TypeOK'
  BY <1>1, <1>2 DEF TypeOK, StoreOK, ViewOK, Types
<1>5. QED
  BY <1>1, <1>2, <1>3, <1>4 DEF Types

LEMMA FoldTypes ==
  ASSUME Types, NEW e, NEW commands, Folding(e, commands)
  PROVE  Types'
<1>1. /\ inbox' = inbox \o commands /\ events # <<>> /\ events' = Tail(events)
      /\ edition' = edition
      /\ UNCHANGED <<store, networkOk, failed>> /\ inputs' = inputs /\ ViewOK'
      /\ commands \in Seq(Commands) /\ AllOf(commands, CommandsInUse)
  BY DEF Folding
<1>2. CommandsInUse' = CommandsInUse /\ EventsInUse' = EventsInUse /\ StoreOK'
  BY <1>1, SameStore, StoreIsOK DEF Types
<1>3. inbox' \in Seq(Commands) /\ AllOf(inbox', CommandsInUse')
  BY <1>1, <1>2, Joined DEF Types
<1>4. events' \in Seq(Events) /\ AllOf(events', EventsInUse')
  BY <1>1, <1>2, Tailed DEF Types
<1>5. TypeOK'
  BY <1>1, <1>2 DEF TypeOK, StoreOK, ViewOK, Types
<1>6. QED
  BY <1>3, <1>4, <1>5 DEF Types

\* OpenedFirst is preserved: before the first post is opened no body can come.
Openings == [what : {"OpenDoc", "FreshenDoc"}, of : Docs]

LEMMA WorkerOpened ==
  ASSUME RInv, NEW results, Works(results)
  PROVE  OpenedFirst'
<1>1. /\ inbox # <<>> /\ inbox' = Tail(inbox) /\ events' = events \o results
      /\ results \in Seq(Events) /\ readingUri' = readingUri /\ BodiesTold(results)
      /\ inbox \in Seq(Commands) /\ events \in Seq(Events)
  BY DEF Works, view, RInv, Types
<1>2. SUFFICES ASSUME readingUri = Nothing
               PROVE  NoneOf(inbox', Openings) /\ NoneOf(events', DocEvents)
  BY <1>1 DEF OpenedFirst, Openings
<1>3. NoneOf(inbox, Openings) /\ NoneOf(events, DocEvents)
  BY <1>2 DEF RInv, OpenedFirst, Openings
<1>4. NoneOf(inbox', Openings) /\ Head(inbox) \notin Openings
  BY <1>1, <1>3, Tailed
<1>5. NoneOf(results, DocEvents)
  BY <1>1, <1>4 DEF BodiesTold, Openings
<1>6. NoneOf(events', DocEvents)
  BY <1>1, <1>3, <1>5, Joined
<1>7. QED
  BY <1>4, <1>6

LEMMA KeyPressOpened ==
  ASSUME RInv, NEW commands, Asking(commands)
  PROVE  OpenedFirst'
<1>1. /\ inbox' = inbox \o commands /\ events' = events
      /\ commands \in Seq(Commands) /\ inbox \in Seq(Commands)
      /\ \/ readingUri' = readingUri /\ NoneOf(commands, Openings)
         \/ readingUri' \in Docs
  BY DEF Asking, RInv, Types, Openings
<1>2. SUFFICES ASSUME readingUri' = Nothing
               PROVE  NoneOf(inbox', Openings) /\ NoneOf(events', DocEvents)
  BY DEF OpenedFirst, Openings
<1>3. readingUri = Nothing /\ NoneOf(commands, Openings)
  BY <1>1, <1>2, ConstantsAssumption
<1>4. NoneOf(inbox, Openings) /\ NoneOf(events, DocEvents)
  BY <1>3 DEF RInv, OpenedFirst, Openings
<1>5. NoneOf(inbox', Openings)
  BY <1>1, <1>3, <1>4, Joined
<1>6. QED
  BY <1>1, <1>4, <1>5

LEMMA FoldOpened ==
  ASSUME RInv, NEW e, NEW commands, Folding(e, commands)
  PROVE  OpenedFirst'
<1>1. /\ e = Head(events) /\ events # <<>> /\ events' = Tail(events)
      /\ inbox' = inbox \o commands /\ readingUri' = readingUri
      /\ commands # <<>> => e \in DocEvents
      /\ events \in Seq(Events) /\ inbox \in Seq(Commands)
  BY DEF Folding, RInv, Types
<1>2. SUFFICES ASSUME readingUri = Nothing
               PROVE  NoneOf(inbox', Openings) /\ NoneOf(events', DocEvents)
  BY <1>1 DEF OpenedFirst, Openings
<1>3. NoneOf(inbox, Openings) /\ NoneOf(events, DocEvents)
  BY <1>2 DEF RInv, OpenedFirst, Openings
<1>4. NoneOf(events', DocEvents) /\ e \notin DocEvents
  BY <1>1, <1>3, Tailed
<1>5. inbox' = inbox
  BY <1>1, <1>4
<1>6. QED
  BY <1>3, <1>4, <1>5

\* BodyIsOfTitle is preserved: a body is shown under its own title only.
LEMMA FoldTitle ==
  ASSUME RInv, NEW e, NEW commands, Folding(e, commands)
  PROVE  BodyIsOfTitle'
<1>1. e = Head(events) /\ events # <<>> /\ events \in Seq(Events) /\ readingUri' = readingUri
  BY DEF Folding, RInv, Types
<1>2. CASE reading' = reading
  BY <1>1, <1>2 DEF RInv, BodyIsOfTitle, NoReading
<1>3. CASE /\ e \in DocEvents /\ reading' = [doc |-> e.of.doc, edition |-> e.of.edition]
           /\ readingUri \in {e.of.doc, Nothing}
  <2>1. ~NoneOf(events, DocEvents)
    BY <1>1, <1>3, Tailed
  <2>2. readingUri # Nothing
    BY <2>1 DEF RInv, OpenedFirst
  <2>3. reading'.doc = readingUri'
    BY <1>1, <1>3, <2>2
  <2>4. QED
    BY <2>3 DEF BodyIsOfTitle
<1>4. QED
  BY <1>2, <1>3 DEF Folding

\* ToldCurrent is preserved: a body is told as soon as it is cached.
LEMMA WorkerCurrent ==
  ASSUME RInv, NEW results, Works(results)
  PROVE  ToldCurrent'
<1>1. /\ events' = events \o results /\ results \in Seq(Events) /\ events \in Seq(Events)
      /\ reading' = reading /\ BodiesTold(results)
  BY DEF Works, view, RInv, Types
<1>2. SUFFICES ASSUME NEW d \in Docs, body'[d] # NoBody
               PROVE  \/ EndsWith(events', BodiesOf(d), CurrentOf(d)')
                      \/ /\ NoneOf(events', BodiesOf(d))
                         /\ reading.doc = d => reading.edition = body'[d]
  BY <1>1 DEF ToldCurrent, BodiesOf
<1>3. CASE NoneOf(results, BodiesOf(d)) /\ body'[d] = body[d]
  <2>1. CurrentOf(d)' = CurrentOf(d)
    BY <1>3 DEF CurrentOf, BodiesOf
  <2>2. CASE EndsWith(events, BodiesOf(d), CurrentOf(d))
    BY <1>1, <1>3, <2>1, <2>2, Joined
  <2>3. CASE NoneOf(events, BodiesOf(d)) /\ (reading.doc = d => reading.edition = body[d])
    BY <1>1, <1>3, <2>3, Joined
  <2>4. QED
    BY <1>2, <1>3, <2>2, <2>3 DEF RInv, ToldCurrent
<1>4. CASE EndsWith(results, BodiesOf(d), CurrentOf(d)')
  BY <1>1, <1>4, Joined
<1>5. QED
  <2>1. CASE NoneOf(results, DocEvents) /\ \A o \in Docs : body'[o] \in {NoBody, body[o]}
    <3>1. BodiesOf(d) \subseteq DocEvents
      BY DEF BodiesOf
    <3>2. QED
      BY <1>2, <1>3, <2>1, <3>1, Short
  <2>2. CASE \E o \in Docs :
               /\ \A p \in Docs : p # o =>
                    NoneOf(results, BodiesOf(p)) /\ body'[p] = body[p]
               /\ EndsWith(results, BodiesOf(o), CurrentOf(o)')
    BY <1>3, <1>4, <2>2
  <2>3. QED
    BY <1>1, <2>1, <2>2 DEF BodiesTold

LEMMA KeyPressCurrent ==
  ASSUME RInv, NEW commands, Asking(commands)
  PROVE  ToldCurrent'
<1>1. /\ events' = events /\ UNCHANGED <<store, networkOk, failed>> /\ body' = body
      /\ reading' = reading \/ reading' = NoReading
  BY DEF Asking, store
<1>2. \A d : BodiesOf(d)' = BodiesOf(d) /\ CurrentOf(d)' = CurrentOf(d)
  BY <1>1, SameStore
<1>3. \A d \in Docs : NoReading.doc # d
  BY ConstantsAssumption DEF NoReading
<1>4. \A d \in Docs : (reading.doc = d => reading.edition = body[d])
                       => (reading'.doc = d => reading'.edition = body'[d])
  BY <1>1, <1>3
<1>5. QED
  BY <1>1, <1>2, <1>4 DEF RInv, ToldCurrent

LEMMA FoldCurrent ==
  ASSUME RInv, NEW e, NEW commands, Folding(e, commands)
  PROVE  ToldCurrent'
<1>1. /\ e = Head(events) /\ events # <<>> /\ events' = Tail(events)
      /\ events \in Seq(Events) /\ readingUri' = readingUri /\ body' = body
      /\ UNCHANGED <<store, networkOk, failed>>
  BY DEF Folding, RInv, Types, store
<1>2. \A d : BodiesOf(d)' = BodiesOf(d) /\ CurrentOf(d)' = CurrentOf(d)
  BY <1>1, SameStore
<1>3. SUFFICES ASSUME NEW d \in Docs, body[d] # NoBody
               PROVE  \/ EndsWith(events', BodiesOf(d), CurrentOf(d))
                      \/ /\ NoneOf(events', BodiesOf(d))
                         /\ reading'.doc = d => reading'.edition = body[d]
  BY <1>1, <1>2 DEF ToldCurrent
<1>4. BodyIsOfTitle'
  BY FoldTitle
<1>5. CASE e \in CurrentOf(d) /\ NoneOf(events', BodiesOf(d))
  <2>1. e \in BodiesOf(d) /\ e.of.doc = d /\ e.of.edition = body[d]
    BY <1>5 DEF CurrentOf, BodiesOf
  <2>2. CASE reading' = [doc |-> e.of.doc, edition |-> e.of.edition]
    BY <1>5, <2>1, <2>2
  <2>3. CASE reading' = reading /\ readingUri \notin {d, Nothing}
    <3>1. reading'.doc # d
      <4>1. NoReading.doc # d
        BY ConstantsAssumption DEF NoReading
      <4>2. QED
        BY <1>1, <1>4, <2>3, <4>1 DEF BodyIsOfTitle
    <3>2. QED
      BY <1>5, <3>1
  <2>4. QED
    BY <2>1, <2>2, <2>3 DEF Folding
<1>6. CASE EndsWith(events, BodiesOf(d), CurrentOf(d))
  <2>1. EndsWith(events', BodiesOf(d), CurrentOf(d))
        \/ (e \in CurrentOf(d) /\ NoneOf(events', BodiesOf(d)))
    BY <1>1, <1>6, Tailed
  <2>2. QED
    BY <1>5, <2>1
<1>7. CASE NoneOf(events, BodiesOf(d)) /\ (reading.doc = d => reading.edition = body[d])
  <2>1. NoneOf(events', BodiesOf(d)) /\ e \notin BodiesOf(d)
    BY <1>1, <1>7, Tailed
  <2>2. CASE reading' = reading
    BY <1>7, <2>1, <2>2
  <2>3. CASE e \in DocEvents /\ reading' = [doc |-> e.of.doc, edition |-> e.of.edition]
    <3>1. reading'.doc # d
      BY <2>1, <2>3 DEF BodiesOf
    <3>2. QED
      BY <2>1, <3>1
  <2>4. QED
    BY <2>2, <2>3 DEF Folding
<1>8. QED
  BY <1>3, <1>6, <1>7 DEF RInv, ToldCurrent

\* ListAhead is preserved: the worker answers in the order it was asked.
LEMMA ListAgain ==
  ASSUME Types, NEW f \in Feeds, NEW results, Works(results),
         Relisted(f, results) \/ (Unlisted(f, results) /\ ListTold(f))
  PROVE  ListTold(f)'
<1>1. /\ events' = events \o results /\ results \in Seq(Events) /\ events \in Seq(Events)
      /\ shown' = shown
  BY DEF Works, view, Types
<1>2. CASE f \in failed'
  BY <1>2 DEF ListTold
<1>3. CASE EndsWith(results, ListsOf(f), CachedList(f)')
  BY <1>1, <1>3, Joined DEF ListTold, ListsOf
<1>4. CASE Unlisted(f, results) /\ ListTold(f)
  <2>1. CachedOf(f)' = CachedOf(f) /\ NoneOf(results, ListsOf(f))
    BY <1>4 DEF Unlisted
  <2>2. CachedList(f)' = CachedList(f)
    BY <2>1 DEF CachedList
  <2>3. CASE f \in failed
    BY <1>2, <1>4, <2>3 DEF Unlisted
  <2>4. CASE EndsWith(events, ListsOf(f), CachedList(f))
    BY <1>1, <2>1, <2>2, <2>4, Joined DEF ListTold, ListsOf
  <2>5. CASE NoneOf(events, ListsOf(f)) /\ shown = CachedOf(f)
    BY <1>1, <2>1, <2>5, Joined DEF ListTold, ListsOf
  <2>6. QED
    BY <1>4, <2>3, <2>4, <2>5 DEF ListTold
<1>5. QED
  BY <1>2, <1>3, <1>4 DEF Relisted

LEMMA WorkerList ==
  ASSUME RInv, NEW results, Works(results)
  PROVE  ListAhead'
<1>1. PICK f : f = openPub
  OBVIOUS
<1>2. /\ inbox # <<>> /\ inbox' = Tail(inbox) /\ inbox \in Seq(Commands)
      /\ openPub' = f /\ Types /\ ListsTold(results)
      /\ f # Nothing => f \in Feeds
  BY <1>1 DEF Works, view, RInv, Types, TypeOK
<1>3. SUFFICES ASSUME f \in Feeds
               PROVE  \/ EndsWith(inbox', OtherLists(f), Asks(f))
                      \/ NoneOf(inbox', OtherLists(f)) /\ ListTold(f)'
  <2>1. /\ ListAhead' <=> (openPub' # Nothing =>
             \/ EndsWith(inbox', OtherLists(openPub'), Asks(openPub'))
             \/ NoneOf(inbox', OtherLists(openPub')) /\ ListTold(openPub)')
    BY DEF ListAhead, OtherLists, Asks
  <2>2. ListTold(openPub)' <=> ListTold(f)'
    BY <1>2 DEF ListTold, ListsOf, CachedList, CachedOf
  <2>3. QED
    BY <1>2, <2>1, <2>2
<1>4. f # Nothing
  BY <1>3, ConstantsAssumption
<1>5. CASE EndsWith(inbox, OtherLists(f), Asks(f))
  <2>1. EndsWith(inbox', OtherLists(f), Asks(f))
        \/ (Head(inbox) \in Asks(f) /\ NoneOf(inbox', OtherLists(f)))
    BY <1>2, <1>5, Tailed
  <2>2. CASE Head(inbox) \in Asks(f) /\ NoneOf(inbox', OtherLists(f))
    <3>1. Relisted(f, results)
      BY <1>2, <1>3, <2>2 DEF ListsTold
    <3>2. ListTold(f)'
      BY <1>2, <1>3, <3>1, ListAgain
    <3>3. QED
      BY <2>2, <3>2
  <2>3. QED
    BY <2>1, <2>2
<1>6. CASE NoneOf(inbox, OtherLists(f)) /\ ListTold(f)
  <2>1. NoneOf(inbox', OtherLists(f)) /\ Head(inbox) \notin OtherLists(f)
    BY <1>2, <1>6, Tailed
  <2>2. Relisted(f, results) \/ Unlisted(f, results)
    BY <1>2, <1>3, <2>1 DEF ListsTold
  <2>3. ListTold(f)'
    BY <1>2, <1>3, <1>6, <2>2, ListAgain
  <2>4. QED
    BY <2>1, <2>3
<1>7. QED
  BY <1>1, <1>4, <1>5, <1>6 DEF RInv, ListAhead

LEMMA KeyPressList ==
  ASSUME RInv, NEW commands, Asking(commands)
  PROVE  ListAhead'
<1>1. /\ inbox' = inbox \o commands /\ commands \in Seq(Commands) /\ inbox \in Seq(Commands)
      /\ events' = events /\ UNCHANGED <<store, networkOk, failed>>
  BY DEF Asking, RInv, Types
<1>2. CASE openPub' = Nothing
  BY <1>2 DEF ListAhead
<1>3. CASE EndsWith(commands, OtherLists(openPub'), Asks(openPub'))
  <2>1. EndsWith(inbox', OtherLists(openPub'), Asks(openPub'))
    BY <1>1, <1>3, Joined
  <2>2. QED
    BY <2>1 DEF ListAhead, OtherLists, Asks
<1>4. CASE openPub' = openPub /\ shown' = shown /\ openPub # Nothing
           /\ NoneOf(commands, OtherLists(openPub))
  <2>1. PICK f : f = openPub /\ f = openPub'
    BY <1>4
  <2>2. CASE EndsWith(inbox, OtherLists(f), Asks(f))
    <3>1. EndsWith(inbox', OtherLists(f), Asks(f))
      BY <1>1, <1>4, <2>1, <2>2, Joined
    <3>2. QED
      BY <2>1, <3>1 DEF ListAhead, OtherLists, Asks
  <2>3. CASE NoneOf(inbox, OtherLists(f)) /\ ListTold(f)
    <3>1. NoneOf(inbox', OtherLists(f))
      BY <1>1, <1>4, <2>1, <2>3, Joined
    <3>2. CachedOf(f)' = CachedOf(f) /\ CachedList(f)' = CachedList(f) /\ failed' = failed
      BY <1>1, SameStore
    <3>3. ListTold(openPub)'
      <4>1. ListTold(f)'
        BY <1>1, <1>4, <2>3, <3>2 DEF ListTold, ListsOf
      <4>2. QED
        BY <2>1, <4>1 DEF ListTold, ListsOf, CachedList, CachedOf
    <3>4. QED
      BY <2>1, <3>1, <3>3 DEF ListAhead, OtherLists
  <2>4. QED
    BY <1>4, <2>1, <2>2, <2>3 DEF RInv, ListAhead
<1>5. QED
  BY <1>2, <1>3, <1>4 DEF Asking

LEMMA FoldList ==
  ASSUME RInv, NEW e, NEW commands, Folding(e, commands)
  PROVE  ListAhead'
<1>1. /\ e = Head(events) /\ events # <<>> /\ events' = Tail(events)
      /\ events \in Seq(Events) /\ inbox \in Seq(Commands)
      /\ inbox' = inbox \o commands /\ commands \in Seq(Commands)
      /\ \A f : NoneOf(commands, OtherLists(f))
      /\ UNCHANGED <<store, networkOk, failed>> /\ openPub' = openPub
  BY DEF Folding, RInv, Types
<1>2. SUFFICES ASSUME openPub # Nothing PROVE ListAhead'
  BY <1>1 DEF ListAhead
<1>3. PICK f \in Feeds : f = openPub /\ f = openPub'
  BY <1>1, <1>2 DEF RInv, Types, TypeOK
<1>4. CASE EndsWith(inbox, OtherLists(f), Asks(f))
  <2>1. EndsWith(inbox', OtherLists(f), Asks(f))
    BY <1>1, <1>4, Joined
  <2>2. QED
    BY <1>3, <2>1 DEF ListAhead, OtherLists, Asks
<1>5. CASE NoneOf(inbox, OtherLists(f)) /\ ListTold(f)
  <2>1. NoneOf(inbox', OtherLists(f))
    BY <1>1, <1>5, Joined
  <2>2. CachedOf(f)' = CachedOf(f) /\ CachedList(f)' = CachedList(f) /\ failed' = failed
    BY <1>1, SameStore
  <2>3. /\ e \in CachedList(f) => shown' = CachedOf(f)
        /\ e \notin ListsOf(f) => shown' = shown
    BY <1>3 DEF Folding
  <2>4. ListTold(f)'
    <3>1. CASE f \in failed
      BY <2>2, <3>1 DEF ListTold
    <3>2. CASE EndsWith(events, ListsOf(f), CachedList(f))
      <4>1. EndsWith(events', ListsOf(f), CachedList(f))
            \/ (e \in CachedList(f) /\ NoneOf(events', ListsOf(f)))
        BY <1>1, <3>2, Tailed
      <4>2. QED
        BY <2>2, <2>3, <4>1 DEF ListTold, ListsOf
    <3>3. CASE NoneOf(events, ListsOf(f)) /\ shown = CachedOf(f)
      <4>1. NoneOf(events', ListsOf(f)) /\ e \notin ListsOf(f)
        BY <1>1, <3>3, Tailed
      <4>2. QED
        BY <2>2, <2>3, <3>3, <4>1 DEF ListTold, ListsOf
    <3>4. QED
      BY <1>5, <3>1, <3>2, <3>3 DEF ListTold
  <2>5. ListTold(openPub)'
    BY <1>3, <2>4 DEF ListTold, ListsOf, CachedList, CachedOf
  <2>6. QED
    BY <1>3, <2>1, <2>5 DEF ListAhead, OtherLists
<1>6. QED
  BY <1>2, <1>3, <1>4, <1>5 DEF RInv, ListAhead

\* NoFalseMarks is preserved: a marker taken off by hand is on its way to the store.
MarkIsTrue(d) == d \in read \/ ~NoneOf(inbox, {Msg("SetRead", d)})

LEMMA MarksAreTrue ==
  ASSUME Types
  PROVE  NoFalseMarks <=> \A d \in readUris : MarkIsTrue(d)
BY InRange DEF NoFalseMarks, MarkIsTrue, Types

LEMMA WorkerMarks ==
  ASSUME RInv, NEW results, Works(results)
  PROVE  \A d \in readUris' : MarkIsTrue(d)'
<1>1. /\ inbox # <<>> /\ inbox' = Tail(inbox) /\ inbox \in Seq(Commands)
      /\ readUris' = readUris /\ read \subseteq read'
      /\ \A d \in Docs : Head(inbox) = Msg("SetRead", d) => d \in read'
      /\ readUris \subseteq Docs
  BY DEF Works, view, RInv, Types, TypeOK
<1>2. SUFFICES ASSUME NEW d \in readUris
               PROVE  d \in read' \/ ~NoneOf(inbox', {Msg("SetRead", d)})
  BY <1>1 DEF MarkIsTrue
<1>3. d \in read \/ ~NoneOf(inbox, {Msg("SetRead", d)})
  BY <1>2, MarksAreTrue DEF RInv, MarkIsTrue
<1>4. NoneOf(inbox', {Msg("SetRead", d)}) /\ Head(inbox) # Msg("SetRead", d) =>
        NoneOf(inbox, {Msg("SetRead", d)})
  BY <1>1, Untailed
<1>5. QED
  BY <1>1, <1>2, <1>3, <1>4

LEMMA KeyPressMarks ==
  ASSUME RInv, NEW commands, Asking(commands)
  PROVE  \A d \in readUris' : MarkIsTrue(d)'
<1>1. /\ inbox' = inbox \o commands /\ commands \in Seq(Commands) /\ inbox \in Seq(Commands)
      /\ read' = read
      /\ \A d \in readUris' \ readUris : ~NoneOf(commands, {Msg("SetRead", d)})
  BY DEF Asking, RInv, Types, store
<1>2. SUFFICES ASSUME NEW d \in readUris'
               PROVE  d \in read' \/ ~NoneOf(inbox', {Msg("SetRead", d)})
  BY DEF MarkIsTrue
<1>3. CASE d \in readUris
  <2>1. d \in read \/ ~NoneOf(inbox, {Msg("SetRead", d)})
    BY <1>3, MarksAreTrue DEF RInv, MarkIsTrue
  <2>2. QED
    BY <1>1, <2>1, Joined
<1>4. CASE d \notin readUris
  BY <1>1, <1>2, <1>4, Joined
<1>5. QED
  BY <1>3, <1>4

LEMMA FoldMarks ==
  ASSUME RInv, NEW e, NEW commands, Folding(e, commands)
  PROVE  \A d \in readUris' : MarkIsTrue(d)'
<1>1. /\ inbox' = inbox \o commands /\ commands \in Seq(Commands) /\ inbox \in Seq(Commands)
      /\ read' = read /\ readUris' \ readUris \subseteq read
  BY DEF Folding, RInv, Types, store
<1>2. SUFFICES ASSUME NEW d \in readUris'
               PROVE  d \in read' \/ ~NoneOf(inbox', {Msg("SetRead", d)})
  BY DEF MarkIsTrue
<1>3. CASE d \in readUris
  <2>1. d \in read \/ ~NoneOf(inbox, {Msg("SetRead", d)})
    BY <1>3, MarksAreTrue DEF RInv, MarkIsTrue
  <2>2. QED
    BY <1>1, <2>1, Joined
<1>4. CASE d \notin readUris
  BY <1>1, <1>2, <1>4
<1>5. QED
  BY <1>3, <1>4

\* Editing a post changes neither the channels nor what they tell of.
LEMMA EditKeeps ==
  ASSUME RInv, NEW d \in Docs, Edit(d)
  PROVE  RInv'
<1>1. /\ edition[d] < MaxEdition /\ edition' = [edition EXCEPT ![d] = @ + 1]
      /\ UNCHANGED <<store, networkOk, failed>> /\ UNCHANGED view
      /\ UNCHANGED <<inbox, events, inputs>>
  BY DEF Edit
<1>2. /\ CommandsInUse' = CommandsInUse /\ EventsInUse' = EventsInUse /\ StoreOK'
      /\ \A o : BodiesOf(o)' = BodiesOf(o) /\ CurrentOf(o)' = CurrentOf(o)
      /\ \A f : CachedList(f)' = CachedList(f) /\ CachedOf(f)' = CachedOf(f)
  BY <1>1, SameStore, StoreIsOK DEF RInv, Types
<1>3. edition' \in [Docs -> 1..MaxEdition]
  <2>1. edition \in [Docs -> 1..MaxEdition]
    BY DEF RInv, Types, TypeOK
  <2>2. edition[d] + 1 \in 1..MaxEdition
    BY <1>1, <2>1, ConstantsAssumption
  <2>3. QED
    BY <1>1, <2>1, <2>2
<1>4. ViewOK'
  BY <1>1, StillTyped, TypesOfParts DEF RInv, Types, store
<1>5. Types'
  <2>1. TypeOK'
    BY <1>1, <1>2, <1>3, <1>4 DEF TypeOK, StoreOK, ViewOK, RInv, Types
  <2>2. QED
    BY <1>1, <1>2, <2>1 DEF RInv, Types
<1>6. OpenedFirst'
  BY <1>1 DEF RInv, OpenedFirst, view
<1>7. BodyIsOfTitle'
  BY <1>1 DEF RInv, BodyIsOfTitle, view
<1>8. ToldCurrent'
  BY <1>1, <1>2 DEF RInv, ToldCurrent, view, store
<1>9. ListAhead'
  <2>1. \A f : ListTold(f)' <=> ListTold(f)
    BY <1>1, <1>2 DEF ListTold, ListsOf, view
  <2>2. openPub' = openPub /\ inbox' = inbox
    BY <1>1 DEF view
  <2>3. PICK f : f = openPub /\ f = openPub'
    BY <2>2
  <2>4. ListTold(openPub)' <=> ListTold(f)'
    BY <2>3 DEF ListTold, ListsOf, CachedList, CachedOf
  <2>5. QED
    BY <2>1, <2>2, <2>3, <2>4 DEF RInv, ListAhead, OtherLists, Asks
<1>10. NoFalseMarks'
  BY <1>1 DEF RInv, NoFalseMarks, view, store
<1>11. QED
  BY <1>5, <1>6, <1>7, <1>8, <1>9, <1>10 DEF RInv

LEMMA InitRInv ==
  Init => RInv
<1> SUFFICES ASSUME Init PROVE RInv
  OBVIOUS
<1>1. MaxEdition \in Nat \ {0} /\ MaxInputs \in Nat
  BY ConstantsAssumption
<1>2. TypeOK
  <2>1. unread \in [Feeds -> 0..Cardinality(Docs)]
    BY BadgeBounds DEF Init
  <2>2. edition \in [Docs -> 1..MaxEdition] /\ body \in [Docs -> NoBody..MaxEdition]
        /\ inputs \in 0..MaxInputs
    BY <1>1 DEF Init, NoBody
  <2>3. QED
    BY <2>1, <2>2 DEF Init, TypeOK
<1>3. /\ \A kind : NoneOf(inbox, kind) /\ NoneOf(events, kind)
      /\ AllOf(inbox, CommandsInUse) /\ AllOf(events, EventsInUse)
  BY Short DEF Init
<1>4. Types
  BY <1>2, <1>3 DEF Init, Types
<1>5. OpenedFirst
  BY <1>3 DEF OpenedFirst
<1>6. BodyIsOfTitle /\ ListAhead /\ NoFalseMarks
  BY DEF Init, BodyIsOfTitle, ListAhead, NoFalseMarks
<1>7. ToldCurrent
  <2>1. \A d \in Docs : reading.doc # d
    BY ConstantsAssumption DEF Init, NoReading
  <2>2. QED
    BY <1>3, <2>1 DEF ToldCurrent
<1>8. QED
  BY <1>4, <1>5, <1>6, <1>7 DEF RInv

LEMMA StepRInv ==
  RInv /\ [Next]_vars => RInv'
<1> SUFFICES ASSUME RInv, [Next]_vars PROVE RInv'
  OBVIOUS
<1>1. CASE Keys
  <2>1. PICK commands : Asking(commands)
    BY <1>1, KeysAsk DEF RInv
  <2>2. Types' /\ OpenedFirst' /\ ToldCurrent' /\ ListAhead'
    BY <2>1, KeyPressTypes, KeyPressOpened, KeyPressCurrent, KeyPressList DEF RInv
  <2>3. BodyIsOfTitle'
    BY <2>1 DEF RInv, BodyIsOfTitle, Asking, NoReading
  <2>4. NoFalseMarks'
    <3>1. \A d \in readUris' : MarkIsTrue(d)'
      BY <2>1, KeyPressMarks
    <3>2. QED
      BY <2>2, <3>1, InRange DEF NoFalseMarks, MarkIsTrue, Types
  <2>5. QED
    BY <2>2, <2>3, <2>4 DEF RInv
<1>2. CASE Worker
  <2>1. PICK results : Works(results)
    BY <1>2, WorkerWorks DEF RInv
  <2>2. Types' /\ OpenedFirst' /\ ToldCurrent' /\ ListAhead'
    BY <2>1, WorkerTypes, WorkerOpened, WorkerCurrent, WorkerList DEF RInv
  <2>3. BodyIsOfTitle'
    BY <2>1 DEF RInv, BodyIsOfTitle, Works, view, NoReading
  <2>4. NoFalseMarks'
    <3>1. \A d \in readUris' : MarkIsTrue(d)'
      BY <2>1, WorkerMarks
    <3>2. QED
      BY <2>2, <3>1, InRange DEF NoFalseMarks, MarkIsTrue, Types
  <2>5. QED
    BY <2>2, <2>3, <2>4 DEF RInv
<1>3. CASE Apply
  <2>1. PICK e, commands : Folding(e, commands)
    BY <1>3, ApplyFolds DEF RInv
  <2>2. Types' /\ OpenedFirst' /\ BodyIsOfTitle' /\ ToldCurrent' /\ ListAhead'
    BY <2>1, FoldTypes, FoldOpened, FoldTitle, FoldCurrent, FoldList DEF RInv
  <2>3. NoFalseMarks'
    <3>1. \A d \in readUris' : MarkIsTrue(d)'
      BY <2>1, FoldMarks
    <3>2. QED
      BY <2>2, <3>1, InRange DEF NoFalseMarks, MarkIsTrue, Types
  <2>4. QED
    BY <2>2, <2>3 DEF RInv
<1>4. CASE \E d \in Docs : Edit(d)
  BY <1>4, EditKeeps
<1>5. CASE UNCHANGED vars
  <2>1. /\ UNCHANGED <<edition, networkOk, inbox, events, inputs, failed>>
        /\ UNCHANGED store /\ UNCHANGED view
    BY <1>5 DEF vars
  <2>2. QED
    BY <2>1 DEF RInv, Types, TypeOK, OpenedFirst, BodyIsOfTitle, ToldCurrent, ListAhead,
      NoFalseMarks, store, view, CommandsInUse, EventsInUse, BodiesOf, CurrentOf, ListTold,
      ListsOf, CachedList, CachedOf, OtherLists, Asks
<1>6. QED
  BY <1>1, <1>2, <1>3, <1>4, <1>5 DEF Next

-----------------------------------------------------------------------------
(* Theorems.                                                               *)

\* The commands and events in the two channels (worker.rs:37-116) speak of what the store
\* holds; the last of a kind on its way tells what is cached.
THEOREM Invariant ==
  Spec => []RInv
<1>1. QED
  BY InitRInv, StepRInv, PTL DEF Spec

\* The store, the screen and the badges (app.rs:181-283) have their types; a badge stays
\* between nothing and the number of posts.
THEOREM TypeCorrect ==
  Spec => []TypeOK
<1>1. RInv => TypeOK
  BY DEF RInv, Types
<1>2. QED
  BY <1>1, Invariant, PTL

\* The body on screen is the one of the post whose title is (app.rs:456-494).
THEOREM BodyUnderItsTitle ==
  Spec => []BodyIsOfTitle
<1>1. RInv => BodyIsOfTitle
  BY DEF RInv
<1>2. QED
  BY <1>1, Invariant, PTL

\* Once every command is answered and every answer folded in, the body on screen is the
\* cached one (worker.rs:560-589).
THEOREM ScreenCatchesUp ==
  Spec => []ScreenIsCurrent
<1>1. RInv => ScreenIsCurrent
  <2> SUFFICES ASSUME RInv, Quiet, reading # NoReading
               PROVE  body[reading.doc] \in {NoBody, reading.edition}
    BY DEF ScreenIsCurrent
  <2>1. reading.doc \in Docs
    BY DEF RInv, Types, TypeOK
  <2>2. \A kind, good : ~EndsWith(events, kind, good)
    BY Short DEF Quiet
  <2>3. QED
    BY <2>1, <2>2 DEF RInv, ToldCurrent
<1>2. QED
  BY <1>1, Invariant, PTL

\* Once every command is answered and every answer folded in, the list of the open feed is
\* the cached one, unless its last request failed (app.rs:441-455).
THEOREM ListCatchesUp ==
  Spec => []ListIsOfOpenFeed
<1>1. RInv => ListIsOfOpenFeed
  <2> SUFFICES ASSUME RInv, Quiet, openPub # Nothing, openPub \notin failed
               PROVE  shown = CachedOf(openPub)
    BY DEF ListIsOfOpenFeed
  <2>1. \A kind, good : ~EndsWith(events, kind, good) /\ ~EndsWith(inbox, kind, good)
    BY Short DEF Quiet
  <2>2. QED
    BY <2>1 DEF RInv, ListAhead, ListTold
<1>2. QED
  BY <1>1, Invariant, PTL

\* A post loses its unread marker only when it is read in the store, or about to be
\* (app.rs:1482-1500).
THEOREM MarksAreEarned ==
  Spec => []NoFalseMarks
<1>1. RInv => NoFalseMarks
  BY DEF RInv
<1>2. QED
  BY <1>1, Invariant, PTL
=============================================================================
