------------------------------- MODULE AppProofs -------------------------------
(***************************************************************************)
(* What adding a blog and reading a post promise, and that the parts of    *)
(* the App keep their promises side by side.                               *)
(*                                                                         *)
(* Adding: for all names, pages and owners and however often something is  *)
(* added, so long as a listing of publications ends.  The picker shows a   *)
(* copy of the candidates the worker keeps; each answer to it travels on a *)
(* queue, and so does each new list of candidates.  The invariant says     *)
(* that whatever is of the last offer (in the queue to the App, in the     *)
(* picker, in the queue to the worker) is among the candidates kept, until *)
(* an answer to some picker lets go of them.                               *)
(*                                                                         *)
(* Reading: for all versions, edits and documents, and any way of laying   *)
(* them out.  Links, places, images and the kept layout are replaced at    *)
(* different times; the invariant says of which body each of them is.      *)
(***************************************************************************)
EXTENDS App, AppearanceProofs, FiniteSetTheorems, TLAPS

-----------------------------------------------------------------------------
(* The naturals, by the well-foundedness of a set of them.                 *)

LEMMA LeastNatural ==
  ASSUME NEW S \in SUBSET Nat, S # {}
  PROVE  Min(S) \in S
<1>1. PICK x \in S : \A y \in S : ~(<<y, x>> \in OpToRel(<, Nat))
  BY NatLessThanWellFounded, WFMin
<1>2. \A y \in S : x <= y
  <2> SUFFICES ASSUME NEW y \in S, y < x PROVE FALSE
    OBVIOUS
  <2>1. <<y, x>> \in OpToRel(<, Nat)
    BY DEF OpToRel
  <2>2. QED
    BY <1>1, <2>1
<1>3. QED
  BY <1>2 DEF Min

LEMMA Naturally ==
  ASSUME NEW S, 0 \in S, \A n \in Nat : n \in S => n + 1 \in S
  PROVE  Nat \subseteq S
<1> SUFFICES ASSUME Nat \ S # {} PROVE FALSE
  OBVIOUS
<1>1. PICK x \in Nat \ S : \A y \in Nat \ S : ~(<<y, x>> \in OpToRel(<, Nat))
  BY NatLessThanWellFounded, WFMin
<1>2. x # 0 /\ x \in Nat
  OBVIOUS
<1>3. x - 1 \in Nat /\ x - 1 < x /\ (x - 1) + 1 = x
  BY <1>2
<1>4. <<x - 1, x>> \in OpToRel(<, Nat)
  BY <1>2, <1>3 DEF OpToRel
<1>5. x - 1 \in S
  BY <1>3, <1>1, <1>4
<1>6. QED
  BY <1>3, <1>5

LEMMA SequenceLengths ==
  ASSUME NEW S, NEW s \in Seq(S)
  PROVE  s = <<>> \/ Len(s) = 1 \/ Len(s) > 1
<1>1. Len(s) \in Nat
  OBVIOUS
<1>2. CASE Len(s) = 0
  BY <1>2
<1>3. \A n \in Nat : n = 0 \/ n = 1 \/ n > 1
  OBVIOUS
<1>4. QED
  BY <1>1, <1>2, <1>3, Zenon

LEMMA SequenceEntry ==
  ASSUME NEW S, NEW s \in Seq(S), NEW i \in 1..Len(s)
  PROVE  s[i] \in S
OBVIOUS

-----------------------------------------------------------------------------
(* A listing of pages of publications is a sequence of publications.       *)

\* What g has to be, up to page m, to be the flattening of seqs.
Flattens(g, seqs, m) ==
  \A i \in 1..Len(seqs) : i <= m =>
    g[i] = IF i = 1 THEN seqs[i] ELSE g[i - 1] \o seqs[i]

LEMMA FlatteningExists ==
  ASSUME NEW S, NEW seqs \in Seq(Seq(S)), Len(seqs) # 0
  PROVE  \E g \in [1..Len(seqs) -> Seq(S)] : Flattens(g, seqs, Len(seqs))
<1> DEFINE P == {m \in Nat : \E g \in [1..Len(seqs) -> Seq(S)] : Flattens(g, seqs, m)}
<1>0. Len(seqs) \in Nat /\ \A i \in 1..Len(seqs) : seqs[i] \in Seq(S)
  OBVIOUS
<1>1. 0 \in P
  <2>1. [i \in 1..Len(seqs) |-> seqs[i]] \in [1..Len(seqs) -> Seq(S)]
    OBVIOUS
  <2>2. Flattens([i \in 1..Len(seqs) |-> seqs[i]], seqs, 0)
    BY DEF Flattens
  <2>3. QED
    BY <2>1, <2>2
<1>2. ASSUME NEW m \in Nat, m \in P PROVE m + 1 \in P
  <2>1. PICK g \in [1..Len(seqs) -> Seq(S)] : Flattens(g, seqs, m)
    BY <1>2
  <2>2. CASE m + 1 > Len(seqs)
    <3>0. \A i \in 1..Len(seqs) : i <= m
      BY <1>0, <2>2
    <3>1. Flattens(g, seqs, m + 1)
      BY <3>0, <2>1 DEF Flattens
    <3>2. QED
      BY <3>1
  <2>3. CASE m + 1 <= Len(seqs)
    <3> DEFINE last == IF m + 1 = 1 THEN seqs[m + 1] ELSE g[m] \o seqs[m + 1]
               h == [g EXCEPT ![m + 1] = last]
    <3>1. m + 1 \in 1..Len(seqs)
      BY <1>0, <2>3
    <3>2. last \in Seq(S)
      <4>1. CASE m = 0
        BY <1>0, <3>1, <4>1
      <4>2. CASE m # 0
        <5>0. m \in 1..Len(seqs)
          BY <1>0, <2>3, <4>2
        <5>1. g[m] \in Seq(S)
          BY <2>1, <5>0
        <5>2. seqs[m + 1] \in Seq(S)
          BY <1>0, <3>1
        <5>3. g[m] \o seqs[m + 1] \in Seq(S)
          BY <5>1, <5>2
        <5>4. QED
          BY <5>3, <4>2
      <4>3. QED
        BY <4>1, <4>2
    <3>3. h \in [1..Len(seqs) -> Seq(S)] /\ h[m + 1] = last
          /\ \A i \in 1..Len(seqs) : i # m + 1 => h[i] = g[i]
      BY <3>1, <3>2
    <3> HIDE DEF h
    <3>4. Flattens(h, seqs, m + 1)
      <4> SUFFICES ASSUME NEW i \in 1..Len(seqs), i <= m + 1
                   PROVE  h[i] = IF i = 1 THEN seqs[i] ELSE h[i - 1] \o seqs[i]
        BY DEF Flattens
      <4>1. CASE i = m + 1
        <5>1. CASE i = 1
          BY <3>3, <4>1, <5>1
        <5>2. CASE i # 1
          <6>1. i - 1 \in 1..Len(seqs) /\ i - 1 # m + 1 /\ i - 1 = m
            BY <1>0, <4>1, <5>2
          <6>2. h[i - 1] = g[m]
            BY <3>3, <6>1
          <6>3. QED
            BY <3>3, <4>1, <5>2, <6>2
        <5>3. QED
          BY <5>1, <5>2
      <4>2. CASE i # m + 1
        <5>1. i <= m /\ h[i] = g[i]
          BY <3>3, <4>2
        <5>2. i # 1 => i - 1 \in 1..Len(seqs) /\ i - 1 # m + 1
          BY <1>0, <5>1
        <5>3. i # 1 => h[i - 1] = g[i - 1]
          BY <3>3, <5>2
        <5>4. QED
          BY <2>1, <5>1, <5>3 DEF Flattens
      <4>3. QED
        BY <4>1, <4>2
    <3>5. QED
      BY <3>3, <3>4
  <2>4. QED
    BY <1>0, <2>2, <2>3
<1> HIDE DEF P
<1>3. Nat \subseteq P
  BY <1>1, <1>2, Naturally
<1>4. Len(seqs) \in P
  BY <1>0, <1>3
<1>5. QED
  BY <1>4 DEF P

LEMMA FlattenType ==
  ASSUME NEW S, NEW seqs \in Seq(Seq(S))
  PROVE  FlattenSeq(seqs) \in Seq(S)
<1> DEFINE equation(f) == f = [i \in 1..Len(seqs) |->
                                 IF i = 1 THEN seqs[i] ELSE f[i - 1] \o seqs[i]]
<1>0. Len(seqs) \in Nat /\ \A i \in 1..Len(seqs) : seqs[i] \in Seq(S)
  OBVIOUS
<1>1. CASE Len(seqs) = 0
  BY <1>1 DEF FlattenSeq
<1>2. CASE Len(seqs) # 0
  <2>1. PICK g \in [1..Len(seqs) -> Seq(S)] : Flattens(g, seqs, Len(seqs))
    BY <1>2, FlatteningExists
  <2>2. equation(g)
    <3>1. \A i \in 1..Len(seqs) : i <= Len(seqs)
      BY <1>0
    <3>2. \A i \in 1..Len(seqs) : g[i] = IF i = 1 THEN seqs[i] ELSE g[i - 1] \o seqs[i]
      BY <2>1, <3>1 DEF Flattens
    <3>3. QED
      BY <2>1, <3>2, Zenon
  <2>3. PICK f : f = CHOOSE h : equation(h)
    OBVIOUS
  <2>4. equation(f)
    BY <2>2, <2>3
  <2>5. FlattenSeq(seqs) = f[Len(seqs)]
    BY <1>2, <2>3 DEF FlattenSeq
  <2> DEFINE Q == {m \in Nat : m + 1 \in 1..Len(seqs) => f[m + 1] \in Seq(S)}
  <2>6. 0 \in Q
    BY <1>0, <2>4
  <2>7. ASSUME NEW m \in Nat, m \in Q PROVE m + 1 \in Q
    <3> SUFFICES ASSUME m + 2 \in 1..Len(seqs) PROVE f[m + 2] \in Seq(S)
      BY <2>7
    <3>1. f[m + 1] \in Seq(S) /\ seqs[m + 2] \in Seq(S)
      BY <1>0, <2>7
    <3>2. f[m + 2] = f[m + 1] \o seqs[m + 2]
      <4>1. m + 2 # 1 /\ (m + 2) - 1 = m + 1
        OBVIOUS
      <4>2. f[m + 2] = IF m + 2 = 1 THEN seqs[m + 2] ELSE f[(m + 2) - 1] \o seqs[m + 2]
        BY <2>4
      <4>3. QED
        BY <4>1, <4>2
    <3>3. QED
      BY <3>1, <3>2
  <2> HIDE DEF Q
  <2>8. Nat \subseteq Q
    BY <2>6, <2>7, Naturally
  <2>9. Len(seqs) - 1 \in Q
    BY <1>0, <1>2, <2>8
  <2>10. QED
    BY <1>0, <1>2, <2>5, <2>9 DEF Q
<1>3. QED
  BY <1>1, <1>2

-----------------------------------------------------------------------------
(* What the queues hold.                                                   *)

Uris == DOMAIN OwnerOf

Commands == [op : {"AddFeed"}, input : Inputs]
              \cup [op : {"Follow"}, offer : Nat, uris : SUBSET Uris]

Answers == [event : {"Status", "Error", "Feeds"}]
             \cup [event : {"ChoosePublications"}, uris : Seq(Uris), offer : Nat]

Rows == [uri : Uris, ticked : BOOLEAN]

\* The additions still to be worked on.
AddsIn(queue) == {i \in DOMAIN queue : queue[i].op = "AddFeed"}

LEMMA AddsCounted ==
  ASSUME NEW q \in Seq(Commands)
  PROVE  IsFiniteSet(AddsIn(q)) /\ Cardinality(AddsIn(q)) \in Nat
<1>1. IsFiniteSet(1..Len(q))
  BY FS_Interval
<1>2. AddsIn(q) \subseteq 1..Len(q)
  BY DEF AddsIn
<1>3. QED
  BY <1>1, <1>2, FS_Subset, FS_CardinalityType

LEMMA AppendAdds ==
  ASSUME NEW q \in Seq(Commands), NEW c \in Commands
  PROVE  /\ Cardinality(AddsIn(q)) \in Nat
         /\ Cardinality(AddsIn(Append(q, c))) =
              Cardinality(AddsIn(q)) + (IF c.op = "AddFeed" THEN 1 ELSE 0)
<1>1. IsFiniteSet(AddsIn(q)) /\ Cardinality(AddsIn(q)) \in Nat
  BY AddsCounted
<1>2. AddsIn(Append(q, c)) = AddsIn(q) \cup (IF c.op = "AddFeed" THEN {Len(q) + 1} ELSE {})
  <2>1. /\ DOMAIN Append(q, c) = 1..(Len(q) + 1) /\ DOMAIN q = 1..Len(q)
        /\ Append(q, c)[Len(q) + 1] = c
        /\ \A i \in 1..Len(q) : Append(q, c)[i] = q[i]
    OBVIOUS
  <2>2. \A i : i \in 1..(Len(q) + 1) <=> i \in 1..Len(q) \/ i = Len(q) + 1
    OBVIOUS
  <2>3. QED
    BY <2>1, <2>2 DEF AddsIn
<1>3. Len(q) + 1 \notin AddsIn(q)
  BY DEF AddsIn
<1>4. CASE c.op = "AddFeed"
  <2>1. AddsIn(Append(q, c)) = AddsIn(q) \cup {Len(q) + 1}
    BY <1>2, <1>4
  <2>2. QED
    BY <1>1, <1>3, <1>4, <2>1, FS_AddElement
<1>5. CASE c.op # "AddFeed"
  <2>1. AddsIn(Append(q, c)) = AddsIn(q)
    BY <1>2, <1>5
  <2>2. QED
    BY <1>1, <1>5, <2>1
<1>6. QED
  BY <1>4, <1>5

LEMMA TailAdds ==
  ASSUME NEW q \in Seq(Commands), q # <<>>
  PROVE  /\ Cardinality(AddsIn(q)) \in Nat /\ Cardinality(AddsIn(Tail(q))) \in Nat
         /\ Cardinality(AddsIn(Tail(q))) + (IF Head(q).op = "AddFeed" THEN 1 ELSE 0)
              <= Cardinality(AddsIn(q))
<1>1. /\ Tail(q) \in Seq(Commands) /\ Len(Tail(q)) = Len(q) - 1
      /\ \A i \in 1..Len(Tail(q)) : i + 1 \in 1..Len(q) /\ i + 1 # 1 /\ Tail(q)[i] = q[i + 1]
  OBVIOUS
<1>2. IsFiniteSet(AddsIn(q)) /\ Cardinality(AddsIn(q)) \in Nat
  BY AddsCounted
<1>3. IsFiniteSet(AddsIn(q) \ {1}) /\
      Cardinality(AddsIn(q) \ {1}) =
        IF 1 \in AddsIn(q) THEN Cardinality(AddsIn(q)) - 1 ELSE Cardinality(AddsIn(q))
  BY <1>2, FS_RemoveElement
<1>4. 1 \in AddsIn(q) <=> Head(q).op = "AddFeed"
  BY DEF AddsIn
<1> DEFINE shift == [i \in AddsIn(Tail(q)) |-> i + 1]
<1>5. shift \in Injection(AddsIn(Tail(q)), AddsIn(q) \ {1})
  <2>1. DOMAIN Tail(q) = 1..Len(Tail(q)) /\ DOMAIN q = 1..Len(q)
    BY <1>1
  <2>2. \A i \in AddsIn(Tail(q)) : i \in Nat /\ i + 1 \in AddsIn(q) \ {1}
    BY <1>1, <2>1 DEF AddsIn
  <2>3. shift \in [AddsIn(Tail(q)) -> AddsIn(q) \ {1}]
    BY <2>2
  <2>4. \A i, j \in AddsIn(Tail(q)) : shift[i] = shift[j] => i = j
    BY <2>2
  <2>5. QED
    BY <2>3, <2>4 DEF Injection, IsInjective
<1>6. IsFiniteSet(AddsIn(Tail(q))) /\
      Cardinality(AddsIn(Tail(q))) <= Cardinality(AddsIn(q) \ {1})
  BY <1>3, <1>5, FS_Injection
<1>7. Cardinality(AddsIn(Tail(q))) \in Nat
  BY <1>6, FS_CardinalityType
<1>8. QED
  BY <1>2, <1>3, <1>4, <1>6, <1>7

-----------------------------------------------------------------------------
(* What a search finds is publications, in a sequence.                     *)

LEMMA PaginateType ==
  ASSUME NEW did \in DOMAIN Repo
  PROVE  Paginate(Repo[did]) \in Seq(Uris)
<1> PICK pages : pages = Repo[did]
  OBVIOUS
<1>1. /\ pages \in Seq([uris : Seq(Uris), cursor : BOOLEAN])
      /\ \E i \in DOMAIN pages : ~pages[i].cursor \/ pages[i].uris = <<>>
  BY AddFeedAssumption DEF Uris
<1> DEFINE ends == {i \in DOMAIN pages : ~pages[i].cursor \/ pages[i].uris = <<>>}
           last == Min(ends)
<1>2. ends \in SUBSET Nat /\ ends # {} /\ ends \subseteq 1..Len(pages)
  BY <1>1
<1> HIDE DEF ends
<1>3. last \in 1..Len(pages)
  BY <1>2, LeastNatural
<1> HIDE DEF last
<1>4. [i \in 1..last |-> pages[i].uris] \in Seq(Seq(Uris))
  <2> PICK Page : Page = [uris : Seq(Uris), cursor : BOOLEAN]
    OBVIOUS
  <2>0. pages \in Seq(Page) /\ Len(pages) \in Nat
    BY <1>1
  <2>1. ASSUME NEW i \in 1..last PROVE pages[i] \in Page
    <3>1. i \in 1..Len(pages)
      BY <1>3, <2>0
    <3>2. QED
      BY <2>0, <3>1, SequenceEntry
  <2>2. \A i \in 1..last : pages[i].uris \in Seq(Uris)
    BY <2>1
  <2>3. [i \in 1..last |-> pages[i].uris] \in [1..last -> Seq(Uris)]
    BY <2>2
  <2>4. last \in Nat
    BY <1>3
  <2>5. QED
    BY <2>3, <2>4
<1>5. Paginate(pages) = FlattenSeq([i \in 1..last |-> pages[i].uris])
  BY DEF Paginate, ends, last
<1>6. QED
  BY <1>4, <1>5, FlattenType

LEMMA FoundType ==
  ASSUME NEW input \in Inputs, NEW up \in Luck
  PROVE  Found(input, up) = <<>> \/ \E s \in Seq(Uris) : Found(input, up) = <<s>>
<1> PICK identity : identity = ResolveIdentity(input, up)
  OBVIOUS
<1> PICK page : page = ResolveViaPage(input, up)
  OBVIOUS
<1>1. identity = <<>> \/ \E did \in DOMAIN Repo : identity = <<did>>
  BY DEF ResolveIdentity, ResolvePds
<1>2. page = <<>> \/ \E uri \in Uris : page = <<uri>>
  BY AddFeedAssumption DEF ResolveViaPage, Uris
<1>3. CASE identity # <<>>
  <2>1. PICK did \in DOMAIN Repo : identity = <<did>>
    BY <1>1, <1>3
  <2>2. Found(input, up) = IF "list" \in up THEN <<Paginate(Repo[did])>> ELSE <<>>
    <3>1. identity[1] = did
      BY <2>1
    <3>2. Found(input, up) = IF "list" \in up THEN <<Paginate(Repo[identity[1]])>> ELSE <<>>
      BY <1>3 DEF Found
    <3>3. QED
      BY <3>1, <3>2
  <2>3. QED
    BY <2>2, PaginateType
<1>4. CASE identity = <<>> /\ page # <<>>
  <2>1. PICK uri \in Uris : page = <<uri>>
    BY <1>2, <1>4
  <2>2. page \in Seq(Uris)
    BY <2>1
  <2>3. Found(input, up) = <<page>>
    BY <1>4 DEF Found
  <2>4. QED
    BY <2>2, <2>3
<1>5. CASE identity = <<>> /\ page = <<>>
  BY <1>5 DEF Found
<1>6. QED
  BY <1>3, <1>4, <1>5

-----------------------------------------------------------------------------
(* Queues, as the sets of what waits in them.                              *)

LEMMA AppendEntries ==
  ASSUME NEW S, NEW q \in Seq(S), NEW x \in S
  PROVE  Append(q, x) \in Seq(S) /\ ToSet(Append(q, x)) = ToSet(q) \cup {x}
<1>1. /\ Append(q, x) \in Seq(S) /\ DOMAIN q = 1..Len(q) /\ Len(q) \in Nat
      /\ DOMAIN Append(q, x) = 1..(Len(q) + 1) /\ Append(q, x)[Len(q) + 1] = x
      /\ \A i \in 1..Len(q) : Append(q, x)[i] = q[i]
  OBVIOUS
<1>2. \A i : i \in 1..(Len(q) + 1) <=> i \in 1..Len(q) \/ i = Len(q) + 1
  BY <1>1
<1>3. QED
  BY <1>1, <1>2 DEF ToSet

LEMMA TailEntries ==
  ASSUME NEW S, NEW q \in Seq(S), q # <<>>
  PROVE  /\ Tail(q) \in Seq(S) /\ ToSet(Tail(q)) \subseteq ToSet(q)
         /\ Head(q) \in S /\ Head(q) \in ToSet(q)
<1>1. /\ Tail(q) \in Seq(S) /\ DOMAIN Tail(q) = 1..Len(Tail(q)) /\ DOMAIN q = 1..Len(q)
      /\ \A i \in 1..Len(Tail(q)) : i + 1 \in 1..Len(q) /\ Tail(q)[i] = q[i + 1]
      /\ 1 \in 1..Len(q) /\ Head(q) = q[1] /\ q[1] \in S
  OBVIOUS
<1>2. QED
  BY <1>1 DEF ToSet

\* An answer to a command that ends well.
LEMMA ConcatEntries ==
  ASSUME NEW S, NEW q \in Seq(S), NEW x \in S, NEW y \in S
  PROVE  q \o <<x, y>> \in Seq(S) /\ ToSet(q \o <<x, y>>) = ToSet(q) \cup {x, y}
<1> PICK t : t = q \o <<x, y>>
  OBVIOUS
<1>1. /\ t \in Seq(S) /\ DOMAIN q = 1..Len(q) /\ Len(q) \in Nat
      /\ DOMAIN t = 1..(Len(q) + 2) /\ t[Len(q) + 1] = x /\ t[Len(q) + 2] = y
      /\ \A i \in 1..Len(q) : t[i] = q[i]
  OBVIOUS
<1>2. \A i : i \in 1..(Len(q) + 2) <=>
              i \in 1..Len(q) \/ i = Len(q) + 1 \/ i = Len(q) + 2
  BY <1>1
<1>3. QED
  BY <1>1, <1>2 DEF ToSet

\* One entry that is not there leaves a queue different from its tail.
LEMMA NotTail ==
  ASSUME NEW S, NEW q \in Seq(S), q # <<>>
  PROVE  q # Tail(q) /\ \A x \in S : Append(q, x) # Tail(q)
<1>1. /\ Len(q) \in Nat /\ Len(Tail(q)) = Len(q) - 1
      /\ \A x \in S : Len(Append(q, x)) = Len(q) + 1
  OBVIOUS
<1>2. ASSUME q = Tail(q) PROVE FALSE
  <2>1. Len(q) = Len(Tail(q))
    BY <1>2
  <2>2. QED
    BY <1>1, <2>1
<1>3. ASSUME NEW x \in S, Append(q, x) = Tail(q) PROVE FALSE
  <2>1. Len(Append(q, x)) = Len(Tail(q))
    BY <1>3
  <2>2. QED
    BY <1>1, <2>1
<1>4. QED
  BY <1>2, <1>3

-----------------------------------------------------------------------------
(* The invariant.                                                          *)

AddTypes ==
  /\ inbox \in Seq(Commands) /\ events \in Seq(Answers)
  /\ pending \in Seq(Uris) /\ followed \subseteq Uris
  /\ offers \in Nat /\ unanswered \in {0, offers}
  /\ dialog \in {"Browse", "AddFeed", "PublicationPicker"}
  /\ candidates \in [offer : Nat, rows : Seq(Rows)]
  /\ spinner \in BOOLEAN /\ adds \in 0..MaxAdds
  /\ dialog = "AddFeed" => adds < MaxAdds
  /\ offers + Cardinality(AddsIn(inbox)) <= adds

\* What was picked of the last offer, or is to be picked from, is among the candidates
\* the worker keeps, until a picker is answered.
AnswersPending(c) ==
  c.op = "Follow" => /\ c.offer \in 1..offers
                     /\ c.offer = unanswered => c.uris \subseteq ToSet(pending)

OffersPending(e) ==
  e.event = "ChoosePublications" =>
    /\ e.offer \in 1..offers /\ e.uris # <<>>
    /\ e.offer = unanswered => ToSet(e.uris) \subseteq ToSet(pending)

PickerPending ==
  /\ candidates.offer \in 0..offers
  /\ dialog = "PublicationPicker" => candidates.offer # 0 /\ candidates.rows # <<>>
  /\ candidates.offer # 0 /\ candidates.offer = unanswered =>
       \A r \in ToSet(candidates.rows) : r.uri \in ToSet(pending)

AddInv ==
  /\ AddTypes /\ PickerPending
  /\ \A c \in ToSet(inbox) : AnswersPending(c)
  /\ \A e \in ToSet(events) : OffersPending(e)

LEMMA EventTypes ==
  /\ Status \in Answers /\ Failure \in Answers /\ Feeds \in Answers
  /\ \A e \in {Status, Failure, Feeds} : e.event # "ChoosePublications"
BY DEF Status, Failure, Feeds, Answers

LEMMA AddInitially == AddFeedInit => AddInv
<1> SUFFICES ASSUME AddFeedInit PROVE AddInv
  OBVIOUS
<1>1. AddsIn(<<>>) = {} /\ ToSet(<<>>) = {}
  BY DEF AddsIn, ToSet
<1>2. Cardinality(AddsIn(inbox)) = 0
  BY <1>1, FS_EmptySet DEF AddFeedInit
<1>3. followed \subseteq Uris
  BY DEF AddFeedInit, Uris
<1>4. AddTypes
  <2>1. inbox \in Seq(Commands) /\ events \in Seq(Answers) /\ pending \in Seq(Uris)
    BY DEF AddFeedInit
  <2>2. candidates \in [offer : Nat, rows : Seq(Rows)]
    BY DEF AddFeedInit, NoChoices
  <2>3. adds \in 0..MaxAdds
    BY AddFeedAssumption DEF AddFeedInit
  <2>4. /\ offers = 0 /\ unanswered = 0 /\ adds = 0 /\ dialog = "Browse" /\ spinner = FALSE
    BY DEF AddFeedInit
  <2>5. offers + Cardinality(AddsIn(inbox)) <= adds
    BY <1>2, <2>4
  <2>6. QED
    BY <1>3, <2>1, <2>2, <2>3, <2>4, <2>5 DEF AddTypes
<1>5. QED
  BY <1>1, <1>4 DEF AddInv, AddFeedInit, PickerPending, NoChoices

\* The worker's command is taken, and what it answered is another event.
LEMMA WorkTaken ==
  ASSUME AddInv, Work
  PROVE  /\ inbox # <<>> /\ Head(inbox) \in Commands /\ AnswersPending(Head(inbox))
         /\ inbox' = Tail(inbox) /\ inbox' \in Seq(Commands)
         /\ ToSet(inbox') \subseteq ToSet(inbox)
         /\ Cardinality(AddsIn(inbox')) \in Nat
         /\ Cardinality(AddsIn(inbox')) + (IF Head(inbox).op = "AddFeed" THEN 1 ELSE 0)
              <= Cardinality(AddsIn(inbox))
         /\ Cardinality(AddsIn(inbox)) \in Nat
         /\ UNCHANGED appSide
<1>1. inbox \in Seq(Commands) /\ inbox # <<>> /\ inbox' = Tail(inbox) /\ UNCHANGED appSide
  BY DEF Work, AddInv, AddTypes
<1>2. QED
  BY <1>1, TailEntries, TailAdds DEF AddInv

\* A command that makes no new offer: the last one stays, or is answered.
LEMMA NothingOffered ==
  ASSUME AddInv, Work, pending' \in Seq(Uris), followed' \subseteq Uris,
         offers' = offers, unanswered' \in {0, unanswered},
         unanswered' # 0 => pending' = pending,
         events' \in Seq(Answers),
         ToSet(events') \subseteq ToSet(events) \cup {Status, Failure, Feeds}
  PROVE  AddInv'
<1>1. AddTypes'
  <2>1. inbox' \in Seq(Commands)
    BY WorkTaken
  <2>2. UNCHANGED <<dialog, candidates, spinner, adds>>
    BY WorkTaken DEF appSide
  <2>3. unanswered' \in {0, offers'}
    BY DEF AddInv, AddTypes
  <2>4. offers' + Cardinality(AddsIn(inbox')) <= adds'
    <3>1. offers \in Nat /\ adds \in Int /\ offers + Cardinality(AddsIn(inbox)) <= adds
      BY AddFeedAssumption DEF AddInv, AddTypes
    <3>2. /\ Cardinality(AddsIn(inbox')) \in Nat /\ Cardinality(AddsIn(inbox)) \in Nat
          /\ Cardinality(AddsIn(inbox')) <= Cardinality(AddsIn(inbox))
      BY WorkTaken
    <3>3. QED
      BY <2>2, <3>1, <3>2
  <2>5. offers' \in Nat
    BY DEF AddInv, AddTypes
  <2>6. /\ dialog' \in {"Browse", "AddFeed", "PublicationPicker"}
        /\ candidates' \in [offer : Nat, rows : Seq(Rows)]
        /\ spinner' \in BOOLEAN /\ adds' \in 0..MaxAdds
        /\ dialog' = "AddFeed" => adds' < MaxAdds
    BY <2>2 DEF AddInv, AddTypes
  <2>7. QED
    BY <2>1, <2>3, <2>4, <2>5, <2>6 DEF AddTypes
<1>2. PickerPending'
  BY WorkTaken DEF AddInv, PickerPending, appSide
<1>3. \A c \in ToSet(inbox') : AnswersPending(c)'
  BY WorkTaken DEF AddInv, AnswersPending
<1>4. \A e \in ToSet(events') : OffersPending(e)'
  BY EventTypes DEF AddInv, OffersPending
<1>5. QED
  BY <1>1, <1>2, <1>3, <1>4 DEF AddInv

\* Several publications found: a new offer, which nobody has answered yet.
LEMMA Offered ==
  ASSUME AddInv, Work, Head(inbox).op = "AddFeed", NEW s \in Seq(Uris), Len(s) > 1,
         pending' = s, offers' = offers + 1, unanswered' = offers',
         events' = Append(events, Choose(s)), followed' = followed
  PROVE  AddInv'
<1>0. offers \in Nat /\ events \in Seq(Answers)
  BY DEF AddInv, AddTypes
<1>1. AddTypes'
  <2>1. inbox' \in Seq(Commands)
    BY WorkTaken
  <2>2. UNCHANGED <<dialog, candidates, spinner, adds>>
    BY WorkTaken DEF appSide
  <2>3. events' \in Seq(Answers)
    <3>1. Choose(s) \in Answers
      BY <1>0 DEF Choose, Answers
    <3>2. QED
      BY <1>0, <3>1, AppendEntries
  <2>4. offers' + Cardinality(AddsIn(inbox')) <= adds'
    <3>1. offers \in Nat /\ adds \in Int /\ offers + Cardinality(AddsIn(inbox)) <= adds
      BY AddFeedAssumption DEF AddInv, AddTypes
    <3>2. /\ Cardinality(AddsIn(inbox')) \in Nat /\ Cardinality(AddsIn(inbox)) \in Nat
          /\ Cardinality(AddsIn(inbox')) + 1 <= Cardinality(AddsIn(inbox))
      BY WorkTaken
    <3>3. QED
      BY <2>2, <3>1, <3>2
  <2>5. offers' \in Nat /\ unanswered' \in {0, offers'} /\ followed' \subseteq Uris
    BY <1>0 DEF AddInv, AddTypes
  <2>6. /\ dialog' \in {"Browse", "AddFeed", "PublicationPicker"}
        /\ candidates' \in [offer : Nat, rows : Seq(Rows)]
        /\ spinner' \in BOOLEAN /\ adds' \in 0..MaxAdds
        /\ dialog' = "AddFeed" => adds' < MaxAdds
    BY <2>2 DEF AddInv, AddTypes
  <2>7. QED
    BY <2>1, <2>3, <2>4, <2>5, <2>6 DEF AddTypes
<1>2. PickerPending'
  <2>1. UNCHANGED <<dialog, candidates>>
    BY WorkTaken DEF appSide
  <2>2. candidates.offer \in 0..offers
    BY DEF AddInv, PickerPending
  <2>3. candidates'.offer \in 0..offers' /\ candidates'.offer # unanswered'
    BY <1>0, <2>1, <2>2
  <2>4. QED
    BY <2>1, <2>3 DEF AddInv, PickerPending
<1>3. ASSUME NEW c \in ToSet(inbox') PROVE AnswersPending(c)'
  <2>1. AnswersPending(c)
    BY WorkTaken DEF AddInv
  <2>2. c.op = "Follow" => c.offer \in 1..offers' /\ c.offer # unanswered'
    BY <1>0, <2>1 DEF AnswersPending
  <2>3. QED
    BY <2>2 DEF AnswersPending
<1>4. ASSUME NEW e \in ToSet(events') PROVE OffersPending(e)'
  <2>1. Choose(s) \in Answers
    BY <1>0 DEF Choose, Answers
  <2>2. e \in ToSet(events) \/ e = Choose(s)
    BY <1>0, <2>1, AppendEntries
  <2>3. CASE e \in ToSet(events)
    <3>1. OffersPending(e)
      BY <2>3 DEF AddInv
    <3>2. e.event = "ChoosePublications" =>
            e.offer \in 1..offers' /\ e.uris # <<>> /\ e.offer # unanswered'
      BY <1>0, <3>1 DEF OffersPending
    <3>3. QED
      BY <3>2 DEF OffersPending
  <2>4. CASE e = Choose(s)
    <3>1. e.uris = s /\ e.offer = offers'
      BY <2>4 DEF Choose
    <3>2. s # <<>> /\ offers' \in 1..offers'
      BY <1>0
    <3>3. QED
      BY <3>1, <3>2 DEF OffersPending
  <2>5. QED
    BY <2>2, <2>3, <2>4
<1>5. QED
  BY <1>1, <1>2, <1>3, <1>4 DEF AddInv

\* What add_feed does with what was found.
LEMMA AddFeedCases ==
  ASSUME NEW found, AddFeed(found), found = <<>> \/ \E s \in Seq(Uris) : found = <<s>>
  PROVE  \/ UNCHANGED workerSide /\ \E x \in {Status, Failure} : events' = Append(events, x)
         \/ \E s \in Seq(Uris) :
              /\ Len(s) > 1 /\ pending' = s /\ offers' = offers + 1 /\ unanswered' = offers'
              /\ events' = Append(events, Choose(s)) /\ followed' = followed
         \/ \E p \in Uris :
              /\ followed' = followed \cup {p} /\ events' = events \o <<Status, Feeds>>
              /\ UNCHANGED <<pending, offers, unanswered>>
<1>1. CASE found = <<>>
  BY <1>1 DEF AddFeed
<1>2. ASSUME NEW s \in Seq(Uris), found = <<s>>
      PROVE  \/ /\ UNCHANGED workerSide
                /\ \E x \in {Status, Failure} : events' = Append(events, x)
             \/ /\ Len(s) > 1 /\ pending' = s /\ offers' = offers + 1 /\ unanswered' = offers'
                /\ events' = Append(events, Choose(s)) /\ followed' = followed
             \/ \E p \in Uris :
                  /\ followed' = followed \cup {p} /\ events' = events \o <<Status, Feeds>>
                  /\ UNCHANGED <<pending, offers, unanswered>>
  <2>0. found # <<>> /\ found[1] = s
    BY <1>2
  <2>1. CASE s = <<>>
    BY <1>2, <2>1 DEF AddFeed
  <2>2. CASE Len(s) > 1
    <3>1. found # << <<>> >>
      BY <2>0, <2>2
    <3>2. QED
      BY <2>0, <2>2, <3>1 DEF AddFeed
  <2>3. CASE Len(s) = 1
    <3>1. found # << <<>> >> /\ ~(Len(found[1]) > 1)
      BY <2>0, <2>3
    <3>2. /\ followed' = followed \cup ToSet(s) /\ events' = events \o <<Status, Feeds>>
          /\ UNCHANGED <<pending, offers, unanswered>>
      BY <2>0, <3>1 DEF AddFeed, FollowPublications
    <3>3. s[1] \in Uris /\ ToSet(s) = {s[1]}
      BY <2>3 DEF ToSet
    <3>4. QED
      BY <3>2, <3>3
  <2>4. s = <<>> \/ Len(s) > 1 \/ Len(s) = 1
    BY SequenceLengths
  <2>5. QED
    BY <2>1, <2>2, <2>3, <2>4
<1>3. QED
  BY <1>1, <1>2

\* The worker's step, as one of two.
LEMMA WorkCases ==
  ASSUME AddInv, Work
  PROVE  \/ /\ Head(inbox).op = "AddFeed"
            /\ \E found : /\ AddFeed(found)
                          /\ found = <<>> \/ \E s \in Seq(Uris) : found = <<s>>
         \/ /\ Head(inbox).op = "Follow" /\ Head(inbox).uris \subseteq Uris
            /\ FollowChosen(Head(inbox).uris)
<1> PICK command : command = Head(inbox)
  OBVIOUS
<1>1. command \in Commands
  BY WorkTaken
<1>2. CASE command.op = "AddFeed"
  <2>1. PICK up \in Luck : AddFeed(Found(command.input, up))
    BY <1>2 DEF Work
  <2>2. command.input \in Inputs
    BY <1>1, <1>2 DEF Commands
  <2>3. \/ Found(command.input, up) = <<>>
        \/ \E s \in Seq(Uris) : Found(command.input, up) = <<s>>
    BY <2>2, FoundType
  <2>4. QED
    BY <1>2, <2>1, <2>3
<1>3. CASE command.op # "AddFeed"
  <2>1. FollowChosen(command.uris)
    BY <1>3 DEF Work
  <2>2. command.op = "Follow" /\ command.uris \subseteq Uris
    BY <1>1, <1>3 DEF Commands
  <2>3. QED
    BY <2>1, <2>2
<1>4. QED
  BY <1>2, <1>3

LEMMA WorkKeeps == AddInv /\ Work => AddInv'
<1> SUFFICES ASSUME AddInv, Work PROVE AddInv'
  OBVIOUS
<1>0. /\ events \in Seq(Answers) /\ pending \in Seq(Uris) /\ followed \subseteq Uris
  BY DEF AddInv, AddTypes
<1>1. ASSUME events' = events \o <<Status, Feeds>>
      PROVE  /\ events' \in Seq(Answers)
             /\ ToSet(events') \subseteq ToSet(events) \cup {Status, Failure, Feeds}
  BY <1>0, <1>1, EventTypes, ConcatEntries
<1>2. ASSUME NEW found, AddFeed(found), found = <<>> \/ \E s \in Seq(Uris) : found = <<s>>,
             Head(inbox).op = "AddFeed"
      PROVE  AddInv'
  <2>1. CASE UNCHANGED workerSide /\ \E x \in {Status, Failure} : events' = Append(events, x)
    <3>1. PICK x \in {Status, Failure} : events' = Append(events, x)
      BY <2>1
    <3>2. /\ events' \in Seq(Answers)
          /\ ToSet(events') \subseteq ToSet(events) \cup {Status, Failure, Feeds}
      BY <1>0, <3>1, EventTypes, AppendEntries
    <3>3. UNCHANGED <<pending, followed, offers, unanswered>>
      BY <2>1 DEF workerSide
    <3>4. QED
      BY <1>0, <3>2, <3>3, NothingOffered
  <2>2. ASSUME NEW s \in Seq(Uris), Len(s) > 1, pending' = s, offers' = offers + 1,
               unanswered' = offers', events' = Append(events, Choose(s)),
               followed' = followed
        PROVE  AddInv'
    BY <1>2, <2>2, Offered
  <2>3. ASSUME NEW p \in Uris, followed' = followed \cup {p},
               events' = events \o <<Status, Feeds>>,
               UNCHANGED <<pending, offers, unanswered>>
        PROVE  AddInv'
    <3>1. followed' \subseteq Uris
      BY <1>0, <2>3
    <3>2. QED
      BY <1>0, <1>1, <2>3, <3>1, NothingOffered
  <2>4. QED
    BY <1>2, <2>1, <2>2, <2>3, AddFeedCases
<1>3. ASSUME Head(inbox).uris \subseteq Uris, FollowChosen(Head(inbox).uris)
      PROVE  AddInv'
  <2>1. /\ followed' = followed \cup SelectChosen(Head(inbox).uris) /\ pending' = <<>>
        /\ events' = events \o <<Status, Feeds>> /\ unanswered' = 0 /\ offers' = offers
    BY <1>3 DEF FollowChosen, FollowPublications
  <2>2. followed' \subseteq Uris
    BY <1>0, <1>3, <2>1 DEF SelectChosen
  <2>3. pending' \in Seq(Uris)
    BY <2>1
  <2>4. QED
    BY <1>1, <2>1, <2>2, <2>3, NothingOffered
<1>4. QED
  BY <1>2, <1>3, WorkCases

-----------------------------------------------------------------------------
(* The App keeps the invariant.                                            *)

\* A command is sent: it is of a type of the queue's, and true of the candidates.
LEMMA Sent ==
  ASSUME AddInv, NEW c \in Commands, AnswersPending(c), inbox' = Append(inbox, c),
         UNCHANGED workerSide
  PROVE  /\ inbox' \in Seq(Commands) /\ \A d \in ToSet(inbox') : AnswersPending(d)'
         /\ \A n \in Nat : offers + Cardinality(AddsIn(inbox)) <= n =>
              offers' + Cardinality(AddsIn(inbox'))
                <= n + (IF c.op = "AddFeed" THEN 1 ELSE 0)
<1>0. inbox \in Seq(Commands) /\ offers \in Nat
  BY DEF AddInv, AddTypes
<1>1. inbox' \in Seq(Commands) /\ ToSet(inbox') = ToSet(inbox) \cup {c}
  BY <1>0, AppendEntries
<1>2. \A d \in ToSet(inbox') : AnswersPending(d)
  BY <1>1 DEF AddInv
<1>3. \A d \in ToSet(inbox') : AnswersPending(d)'
  BY <1>2 DEF AnswersPending, workerSide
<1>4. /\ Cardinality(AddsIn(inbox)) \in Nat
      /\ Cardinality(AddsIn(inbox')) =
           Cardinality(AddsIn(inbox)) + (IF c.op = "AddFeed" THEN 1 ELSE 0)
  BY <1>0, AppendAdds
<1>5. offers' = offers
  BY DEF workerSide
<1>6. QED
  BY <1>0, <1>1, <1>3, <1>4, <1>5

\* Nothing the worker or the queues have changes.
LEMMA Waiting ==
  ASSUME AddInv, UNCHANGED <<inbox, events, workerSide>>,
         dialog' \in {"Browse", "AddFeed", "PublicationPicker"},
         candidates' \in [offer : Nat, rows : Seq(Rows)], PickerPending',
         spinner' \in BOOLEAN, adds' = adds, dialog' = "AddFeed" => adds < MaxAdds
  PROVE  AddInv'
<1>1. AddTypes'
  BY DEF AddInv, AddTypes, workerSide
<1>2. \A c \in ToSet(inbox') : AnswersPending(c)'
  BY DEF AddInv, AnswersPending, workerSide
<1>3. \A e \in ToSet(events') : OffersPending(e)'
  BY DEF AddInv, OffersPending, workerSide
<1>4. QED
  BY <1>1, <1>2, <1>3 DEF AddInv

LEMMA EnterKeeps == AddInv /\ EnterAddFeed => AddInv'
<1> SUFFICES ASSUME AddInv, EnterAddFeed PROVE AddInv'
  OBVIOUS
<1>1. PickerPending'
  BY DEF AddInv, PickerPending, EnterAddFeed, workerSide
<1>2. QED
  BY <1>1, Waiting DEF EnterAddFeed, AddInv, AddTypes

LEMMA SubmitKeeps == AddInv /\ SubmitAdd => AddInv'
<1> SUFFICES ASSUME AddInv, SubmitAdd PROVE AddInv'
  OBVIOUS
<1>0. adds < MaxAdds
  BY DEF AddInv, AddTypes, SubmitAdd
<1>1. PickerPending'
  BY DEF AddInv, PickerPending, SubmitAdd, workerSide
<1>2. CASE UNCHANGED <<inbox, spinner, adds>>
  BY <1>1, <1>2, Waiting DEF SubmitAdd, AddInv, AddTypes
<1>3. ASSUME NEW input \in Inputs, inbox' = Append(inbox, AddCommand(input)),
             spinner' = TRUE, adds' = adds + 1
      PROVE  AddInv'
  <2>1. /\ UNCHANGED <<events, workerSide, candidates>> /\ dialog' = "Browse"
    BY DEF SubmitAdd
  <2>2. AddCommand(input) \in Commands /\ AddCommand(input).op = "AddFeed"
    BY DEF AddCommand, Commands
  <2>3. AnswersPending(AddCommand(input))
    BY <2>2 DEF AnswersPending
  <2>4. adds \in Nat /\ adds + 1 \in 0..MaxAdds
    BY <1>0, AddFeedAssumption DEF AddInv, AddTypes
  <2>5. offers + Cardinality(AddsIn(inbox)) <= adds
    BY DEF AddInv, AddTypes
  <2>6. /\ inbox' \in Seq(Commands) /\ \A d \in ToSet(inbox') : AnswersPending(d)'
        /\ offers' + Cardinality(AddsIn(inbox')) <= adds + 1
    BY <1>3, <2>1, <2>2, <2>3, <2>4, <2>5, Sent
  <2>7. AddTypes'
    BY <1>3, <2>1, <2>4, <2>6 DEF AddInv, AddTypes, workerSide
  <2>8. \A e \in ToSet(events') : OffersPending(e)'
    BY <2>1 DEF AddInv, OffersPending, workerSide
  <2>9. QED
    BY <1>1, <2>6, <2>7, <2>8 DEF AddInv
<1>4. QED
  BY <1>2, <1>3 DEF SubmitAdd

LEMMA ApplyKeeps == AddInv /\ Apply => AddInv'
<1> SUFFICES ASSUME AddInv, Apply PROVE AddInv'
  OBVIOUS
<1> PICK e : e = Head(events)
  OBVIOUS
<1>1. /\ events \in Seq(Answers) /\ events # <<>> /\ events' = Tail(events)
      /\ UNCHANGED <<inbox, workerSide, adds>>
      /\ spinner' = (spinner /\ e.event = "Status")
  BY DEF AddInv, AddTypes, Apply
<1>2. /\ events' \in Seq(Answers) /\ ToSet(events') \subseteq ToSet(events)
      /\ e \in Answers /\ e \in ToSet(events)
  BY <1>1, TailEntries
<1>3. UNCHANGED <<inbox, pending, followed, offers, unanswered, adds>>
  BY <1>1 DEF workerSide
<1>4. OffersPending(e)
  BY <1>2 DEF AddInv
<1>5. spinner' \in BOOLEAN
  BY <1>1
<1>6. /\ \A c \in ToSet(inbox') : AnswersPending(c)'
      /\ \A f \in ToSet(events') : OffersPending(f)'
  BY <1>2, <1>3 DEF AddInv, AnswersPending, OffersPending
<1>7. CASE e.event # "ChoosePublications"
  <2>1. UNCHANGED <<dialog, candidates>>
    BY <1>7 DEF Apply
  <2>2. AddTypes'
    BY <1>2, <1>3, <1>5, <2>1 DEF AddInv, AddTypes
  <2>3. PickerPending'
    BY <1>3, <2>1 DEF AddInv, PickerPending
  <2>4. QED
    BY <1>6, <2>2, <2>3 DEF AddInv
<1>8. CASE e.event = "ChoosePublications"
  <2> DEFINE rows == [i \in DOMAIN e.uris |-> [uri |-> e.uris[i], ticked |-> TRUE]]
  <2>1. dialog' = "PublicationPicker" /\ candidates' = [offer |-> e.offer, rows |-> rows]
    BY <1>8 DEF Apply
  <2>2. e.uris \in Seq(Uris) /\ e.offer \in Nat
    BY <1>2, <1>8 DEF Answers
  <2>3. /\ e.offer \in 1..offers /\ e.uris # <<>>
        /\ e.offer = unanswered => ToSet(e.uris) \subseteq ToSet(pending)
    BY <1>4, <1>8 DEF OffersPending
  <2>4. rows \in Seq(Rows) /\ rows # <<>> /\ \A r \in ToSet(rows) : r.uri \in ToSet(e.uris)
    <3>1. /\ DOMAIN e.uris = 1..Len(e.uris) /\ Len(e.uris) \in Nat
          /\ Len(e.uris) # 0 /\ \A i \in 1..Len(e.uris) : e.uris[i] \in Uris
      BY <2>2, <2>3
    <3>2. \A i \in 1..Len(e.uris) : rows[i] \in Rows /\ rows[i].uri = e.uris[i]
      BY <3>1 DEF Rows
    <3>3. DOMAIN rows = 1..Len(e.uris)
      BY <3>1
    <3>4. rows \in [1..Len(e.uris) -> Rows]
      BY <3>1, <3>2
    <3> HIDE DEF rows
    <3>5. rows \in Seq(Rows) /\ Len(rows) = Len(e.uris)
      BY <3>1, <3>3, <3>4
    <3>6. rows # <<>>
      BY <3>1, <3>5
    <3>7. \A r \in ToSet(rows) : r.uri \in ToSet(e.uris)
      BY <3>1, <3>2, <3>3 DEF ToSet
    <3>8. QED
      BY <3>5, <3>6, <3>7
  <2> HIDE DEF rows
  <2>5. candidates' \in [offer : Nat, rows : Seq(Rows)]
    BY <2>1, <2>2, <2>4
  <2>6. AddTypes'
    BY <1>2, <1>3, <1>5, <2>1, <2>5 DEF AddInv, AddTypes
  <2>7. PickerPending'
    <3>1. candidates'.offer = e.offer /\ candidates'.rows = rows
      BY <2>1
    <3>2. offers \in Nat
      BY DEF AddInv, AddTypes
    <3>3. QED
      BY <1>3, <2>3, <2>4, <3>1, <3>2 DEF PickerPending
  <2>8. QED
    BY <1>6, <2>6, <2>7 DEF AddInv
<1>9. QED
  BY <1>7, <1>8

\* The rows of the picker ticked otherwise are the same publications.
LEMMA TickKeeps ==
  ASSUME AddInv, dialog = "PublicationPicker", NEW rows,
         rows \in [DOMAIN candidates.rows -> Rows],
         \A i \in DOMAIN candidates.rows : rows[i].uri = candidates.rows[i].uri,
         candidates' = [candidates EXCEPT !.rows = rows],
         UNCHANGED <<inbox, events, workerSide, dialog, spinner, adds>>
  PROVE  AddInv'
<1>1. /\ candidates.rows \in Seq(Rows) /\ candidates.offer \in Nat
      /\ candidates'.offer = candidates.offer /\ candidates'.rows = rows
      /\ candidates' = [offer |-> candidates.offer, rows |-> rows]
      /\ candidates.rows # <<>>
  BY DEF AddInv, AddTypes, PickerPending
<1> PICK old : old = candidates.rows
  OBVIOUS
<1>2. /\ DOMAIN old = 1..Len(old) /\ Len(old) \in Nat /\ old # <<>> /\ Len(old) # 0
  BY <1>1
<1>3. rows \in Seq(Rows) /\ DOMAIN rows = DOMAIN old /\ Len(rows) = Len(old)
  BY <1>2
<1>4. rows # <<>>
  BY <1>2, <1>3
<1>5. \A r \in ToSet(rows) : \E s \in ToSet(old) : r.uri = s.uri
  BY <1>2, <1>3 DEF ToSet
<1>6. PickerPending'
  BY <1>1, <1>4, <1>5 DEF AddInv, PickerPending, workerSide
<1>7. candidates' \in [offer : Nat, rows : Seq(Rows)]
  BY <1>1, <1>3
<1>8. QED
  BY <1>6, <1>7, Waiting DEF AddInv, AddTypes

LEMMA PickerKeeps == AddInv /\ PublicationPickerKey => AddInv'
<1> SUFFICES ASSUME AddInv, PublicationPickerKey PROVE AddInv'
  OBVIOUS
<1>0. /\ dialog = "PublicationPicker" /\ UNCHANGED <<events, workerSide, spinner, adds>>
  BY DEF PublicationPickerKey
<1> PICK old : old = candidates.rows
  OBVIOUS
<1> PICK offer : offer = candidates.offer
  OBVIOUS
<1>1. /\ old \in Seq(Rows) /\ candidates = [offer |-> offer, rows |-> old]
      /\ offer \in 1..offers
      /\ offer = unanswered => \A r \in ToSet(old) : r.uri \in ToSet(pending)
  <2>1. candidates \in [offer : Nat, rows : Seq(Rows)] /\ offers \in Nat
    BY DEF AddInv, AddTypes
  <2>2. QED
    BY <1>0, <2>1 DEF AddInv, PickerPending
<1>2. DOMAIN old = 1..Len(old) /\ \A i \in DOMAIN old : old[i] \in Rows
  BY <1>1
<1>3. ASSUME NEW i \in DOMAIN old, UNCHANGED <<inbox, dialog>>,
             candidates' = [candidates EXCEPT !.rows[i].ticked = ~@]
      PROVE  AddInv'
  <2> DEFINE rows == [old EXCEPT ![i].ticked = ~@]
  <2>1. \A j \in DOMAIN old : rows[j] \in Rows /\ rows[j].uri = old[j].uri
    BY <1>2 DEF Rows
  <2>2. rows \in [DOMAIN old -> Rows]
    BY <1>2, <2>1
  <2>3. candidates' = [candidates EXCEPT !.rows = rows]
    BY <1>1, <1>3
  <2> HIDE DEF rows
  <2>4. QED
    BY <1>0, <1>3, <2>1, <2>2, <2>3, TickKeeps
<1>4. ASSUME NEW on \in BOOLEAN, UNCHANGED <<inbox, dialog>>,
             candidates' = [candidates EXCEPT !.rows =
                              [i \in DOMAIN @ |-> [@[i] EXCEPT !.ticked = on]]]
      PROVE  AddInv'
  <2> DEFINE rows == [j \in DOMAIN old |-> [old[j] EXCEPT !.ticked = on]]
  <2>1. \A j \in DOMAIN old : rows[j] \in Rows /\ rows[j].uri = old[j].uri
    BY <1>2 DEF Rows
  <2>2. rows \in [DOMAIN old -> Rows]
    BY <2>1
  <2>3. candidates' = [candidates EXCEPT !.rows = rows]
    BY <1>1, <1>4
  <2> HIDE DEF rows
  <2>4. QED
    BY <1>0, <1>4, <2>1, <2>2, <2>3, TickKeeps
<1>5. ASSUME candidates' = NoChoices, dialog' = "Browse"
      PROVE  /\ PickerPending' /\ candidates' \in [offer : Nat, rows : Seq(Rows)]
  <2>1. offers' \in Nat
    BY <1>0 DEF AddInv, AddTypes, workerSide
  <2>2. QED
    BY <1>5, <2>1 DEF PickerPending, NoChoices
<1>6. CASE candidates' = NoChoices /\ dialog' = "Browse" /\ UNCHANGED inbox
  BY <1>0, <1>5, <1>6, Waiting DEF AddInv, AddTypes
<1>7. CASE /\ inbox' = Append(inbox, FollowCommand(candidates.offer, Picked))
           /\ candidates' = NoChoices /\ dialog' = "Browse"
  <2> PICK c : c = FollowCommand(candidates.offer, Picked)
    OBVIOUS
  <2>1. Picked \subseteq Uris /\ (offer = unanswered => Picked \subseteq ToSet(pending))
    <3>1. \A r \in ToSet(old) : r \in Rows
      BY <1>2 DEF ToSet
    <3>2. Picked \subseteq {r.uri : r \in ToSet(old)}
      BY DEF Picked
    <3>3. QED
      BY <1>1, <3>1, <3>2 DEF Rows
  <2>2. c.op = "Follow" /\ c.offer = offer /\ c.uris = Picked
    BY DEF FollowCommand
  <2>3. c \in Commands
    <3>1. offer \in Nat
      BY <1>1 DEF AddInv, AddTypes
    <3>2. c = [op |-> "Follow", offer |-> offer, uris |-> Picked]
      BY DEF FollowCommand
    <3>3. QED
      BY <2>1, <3>1, <3>2 DEF Commands
  <2>4. AnswersPending(c)
    BY <1>1, <2>1, <2>2 DEF AnswersPending
  <2>5. /\ inbox' \in Seq(Commands) /\ \A d \in ToSet(inbox') : AnswersPending(d)'
        /\ offers' + Cardinality(AddsIn(inbox')) <= adds
    <3>1. adds \in Nat /\ offers + Cardinality(AddsIn(inbox)) <= adds
      BY AddFeedAssumption DEF AddInv, AddTypes
    <3>2. inbox' = Append(inbox, c)
      BY <1>7
    <3>3. /\ inbox' \in Seq(Commands) /\ \A d \in ToSet(inbox') : AnswersPending(d)'
          /\ \A n \in Nat : offers + Cardinality(AddsIn(inbox)) <= n =>
               offers' + Cardinality(AddsIn(inbox')) <= n + 0
      BY <1>0, <2>2, <2>3, <2>4, <3>2, Sent
    <3>4. QED
      BY <3>1, <3>3
  <2>6. AddTypes'
    <3>1. adds' = adds /\ spinner' = spinner /\ events' = events
      BY <1>0
    <3>2. QED
      BY <1>0, <1>5, <1>7, <2>5, <3>1 DEF AddInv, AddTypes, workerSide
  <2>7. \A e \in ToSet(events') : OffersPending(e)'
    BY <1>0 DEF AddInv, OffersPending, workerSide
  <2>8. QED
    BY <1>5, <1>7, <2>5, <2>6, <2>7 DEF AddInv
<1>8. QED
  BY <1>3, <1>4, <1>6, <1>7 DEF PublicationPickerKey

LEMMA AddFeedKeeps == AddInv /\ [AddFeedNext]_addVars => AddInv'
<1> SUFFICES ASSUME AddInv, [AddFeedNext]_addVars PROVE AddInv'
  OBVIOUS
<1>1. CASE UNCHANGED addVars
  <2>1. UNCHANGED <<inbox, events, workerSide>> /\ UNCHANGED <<dialog, candidates>>
    BY <1>1 DEF addVars, appSide
  <2>2. PickerPending'
    BY <2>1 DEF AddInv, PickerPending, workerSide
  <2>3. UNCHANGED <<spinner, adds>>
    BY <1>1 DEF addVars, appSide
  <2>4. QED
    BY <2>1, <2>2, <2>3, Waiting DEF AddInv, AddTypes
<1>2. QED
  BY <1>1, WorkKeeps, EnterKeeps, SubmitKeeps, ApplyKeeps, PickerKeeps DEF AddFeedNext

\* The worker's memory of what it offered and the App's picker agree: what an answer to the
\* last offer picks is among the candidates the worker keeps (worker.rs pending_pubs,
\* app.rs publication_choices).
THEOREM AddFeedInvariant == AddFeedSpec => []AddInv
  BY AddInitially, AddFeedKeeps, PTL DEF AddFeedSpec

-----------------------------------------------------------------------------
(* What picking promises.                                                  *)

LEMMA AddFeedTypes == AddInv => AddFeedTypeOK
<1> SUFFICES ASSUME AddInv PROVE AddFeedTypeOK
  OBVIOUS
<1>1. Range(pending) \subseteq Uris
  BY DEF Range, AddInv, AddTypes
<1>2. offers \in 0..MaxAdds
  <2>1. Cardinality(AddsIn(inbox)) \in Nat
    <3>1. inbox \in Seq(Commands)
      BY DEF AddInv, AddTypes
    <3>2. QED
      BY <3>1, AddsCounted
  <2>2. offers \in Nat /\ adds \in 0..MaxAdds /\ offers + Cardinality(AddsIn(inbox)) <= adds
    BY DEF AddInv, AddTypes
  <2>3. QED
    BY <2>1, <2>2, AddFeedAssumption
<1>3. /\ unanswered \in {0, offers} /\ candidates.offer \in 0..offers
      /\ (dialog = "PublicationPicker" => candidates.rows # <<>>)
  BY DEF AddInv, AddTypes, PickerPending
<1>4. followed \subseteq Uris /\ spinner \in BOOLEAN /\ adds \in 0..MaxAdds
  BY DEF AddInv, AddTypes
<1>5. dialog \in {"Browse", "AddFeed", "PublicationPicker"}
  BY DEF AddInv, AddTypes
<1>6. QED
  BY <1>1, <1>2, <1>3, <1>4, <1>5 DEF AddFeedTypeOK, Uris

\* The dialogs are of their types: no more lists are offered than things were added, and a
\* picker that is open has rows (app.rs publication_choices, ui.rs render_picker).
THEOREM AddFeedTypeCorrect == AddFeedSpec => []AddFeedTypeOK
  BY AddFeedInvariant, AddFeedTypes, PTL

LEMMA AppFollowsNothing ==
  ASSUME AddInv, followed' = followed,
         inbox' = inbox \/ \E c \in Commands : inbox' = Append(inbox, c)
  PROVE  FollowsAsPicked
<1>1. inbox \in Seq(Commands)
  BY DEF AddInv, AddTypes
<1>2. inbox = <<>> \/ inbox' # Tail(inbox)
  BY <1>1, NotTail
<1>3. followed' \ followed = {}
  OBVIOUS
<1>4. QED
  BY <1>2, <1>3 DEF FollowsAsPicked

LEMMA WorkFollowsAsPicked ==
  ASSUME AddInv, Work
  PROVE  FollowsAsPicked
<1> PICK command : command = Head(inbox)
  OBVIOUS
<1> DEFINE new == followed' \ followed
<1>0. inbox # <<>> /\ inbox' = Tail(inbox) /\ AnswersPending(command)
  BY WorkTaken
<1>1. ASSUME command.op = "AddFeed", NEW found, AddFeed(found),
             found = <<>> \/ \E s \in Seq(Uris) : found = <<s>>
      PROVE  FollowsAsPicked
  <2>1. \/ followed' = followed
        \/ \E p \in Uris : followed' = followed \cup {p} /\ offers' = offers
    BY <1>1, AddFeedCases DEF workerSide
  <2>2. new = {} \/ (offers' = offers /\ \E p \in Uris : new = {p})
    BY <2>1
  <2>3. Cardinality(new) <= 1
    <3>1. CASE new = {}
      BY <3>1, FS_EmptySet
    <3>2. ASSUME NEW p, new = {p} PROVE Cardinality(new) = 1
      BY <3>2, FS_Singleton
    <3>3. QED
      BY <2>2, <3>1, <3>2
  <2>4. QED
    BY <1>0, <1>1, <2>2, <2>3 DEF FollowsAsPicked
<1>2. ASSUME command.op = "Follow", FollowChosen(command.uris)
      PROVE  FollowsAsPicked
  <2>1. followed' = followed \cup {p \in ToSet(pending) : p \in command.uris}
    BY <1>2 DEF FollowChosen, FollowPublications, SelectChosen
  <2>2. command.offer = unanswered => command.uris \subseteq ToSet(pending)
    BY <1>0, <1>2 DEF AnswersPending
  <2>3. command.offer = unanswered => followed' = followed \cup command.uris
    BY <2>1, <2>2
  <2>4. new \subseteq command.uris
    BY <2>1
  <2>5. QED
    BY <1>0, <1>2, <2>3, <2>4 DEF FollowsAsPicked
<1>3. QED
  BY <1>1, <1>2, WorkCases

LEMMA StepFollowsAsPicked == AddInv /\ [AddFeedNext]_addVars => FollowsAsPicked
<1> SUFFICES ASSUME AddInv, [AddFeedNext]_addVars PROVE FollowsAsPicked
  OBVIOUS
<1>1. CASE Work
  BY <1>1, WorkFollowsAsPicked
<1>2. CASE UNCHANGED <<inbox, workerSide>>
  BY <1>2, AppFollowsNothing DEF workerSide
<1>3. CASE SubmitAdd
  <2>1. ASSUME NEW input \in Inputs PROVE AddCommand(input) \in Commands
    BY DEF AddCommand, Commands
  <2>2. followed' = followed
    BY <1>3 DEF SubmitAdd, workerSide
  <2>3. inbox' = inbox \/ \E c \in Commands : inbox' = Append(inbox, c)
    BY <1>3, <2>1 DEF SubmitAdd
  <2>4. QED
    BY <2>2, <2>3, AppFollowsNothing
<1>4. CASE PublicationPickerKey
  <2>1. followed' = followed
    BY <1>4 DEF PublicationPickerKey, workerSide
  <2>2. FollowCommand(candidates.offer, Picked) \in Commands
    <3>1. candidates.offer \in Nat /\ candidates.rows \in Seq(Rows)
      BY DEF AddInv, AddTypes
    <3>2. \A r \in ToSet(candidates.rows) : r \in Rows
      BY <3>1 DEF ToSet
    <3>3. Picked \subseteq Uris
      BY <3>2 DEF Picked, Rows
    <3>4. QED
      BY <3>1, <3>3 DEF FollowCommand, Commands
  <2>3. inbox' = inbox \/ \E c \in Commands : inbox' = Append(inbox, c)
    BY <1>4, <2>2 DEF PublicationPickerKey
  <2>4. QED
    BY <2>1, <2>3, AppFollowsNothing
<1>5. QED
  BY <1>1, <1>2, <1>3, <1>4 DEF AddFeedNext, EnterAddFeed, Apply, addVars

\* What a picker promises: the answer to the newest one follows exactly what was ticked in
\* it, whatever was typed, found or failed in between, a late answer nothing else, and
\* adding at most one publication (worker.rs add_feed and follow_chosen, app.rs
\* publication_picker_key).
THEOREM AddFeedAsPicked == AddFeedSpec => FollowedAsPicked
  BY AddFeedInvariant, StepFollowsAsPicked, PTL DEF AddFeedSpec, FollowedAsPicked

-----------------------------------------------------------------------------
(* Opening and reading a post: what is kept.                               *)

\* What fetching any version brings.
Docs == {doc[1] : doc \in (UNION {FetchAndCacheDoc[v] : v \in Versions}) \ {<<>>}}

AtMostOne(s) == s = <<>> \/ s = <<s[1]>>

\* Its copy and its answer are documents; whoever waits for one has opened a post.
KeptByTheWorker ==
  /\ post \in Versions /\ fetches \in 0..MaxFetches
  /\ AtMostOne(stored) /\ (stored # <<>> => stored[1] \in Docs)
  /\ AtMostOne(answer)
  /\ answer # <<>> => answer[1].doc \in Docs /\ answer[1].fromCache \in BOOLEAN
  /\ wanted \subseteq {"open", "freshen"}
  /\ wanted # {} \/ answer # <<>> => opened # 0

\* The body is a document shown under the post that is open.
KeptOfTheBody ==
  /\ opened \in {0} \cup Openable /\ \E v \in Versions : opens \in 0..MaxOpens[v]
  /\ AtMostOne(reading)
  /\ reading # <<>> => opened # 0 /\ \E d \in Docs : reading[1] = BodyShown(d.blocks, opened)
  /\ readingPlatform \in Seq(STRING) /\ Len(readingPlatform) <= 1
  /\ readingVersion \in Nat /\ freshened \in BOOLEAN

KeptOfTheLinks ==
  /\ links \in Seq(STRING) /\ focusedLink \in NoFocus..(Len(links) - 1)
  /\ attributionLink \in {NoFocus, Len(links) - 1}
  /\ attributionVisible \in BOOLEAN /\ attributionRect \in BOOLEAN

KeptOnTheScreen ==
  /\ showImages \in BOOLEAN /\ images \subseteq requested
  /\ AtMostOne(readerCache) /\ frame \in {"drawn", "touched", "drained"}

RInv == KeptByTheWorker /\ KeptOfTheBody /\ KeptOfTheLinks /\ KeptOnTheScreen

LEMMA EmptySeq == ASSUME NEW S, NEW s \in Seq(S) PROVE s = <<>> <=> Len(s) = 0
OBVIOUS

\* What is assumed of a fetch.
LEMMA Fetches ==
  \A v \in Versions : \A doc \in FetchAndCacheDoc[v] : doc # <<>> =>
    /\ doc = <<doc[1]>>
    /\ doc[1].platform \in Seq(STRING) /\ Len(doc[1].platform) <= 1
    /\ \A w \in Openable : BodyLinks(BodyShown(doc[1].blocks, w)) \in Seq(STRING)
BY ReadingAssumption

LEMMA OfAFetch ==
  ASSUME NEW v \in Versions, NEW doc \in FetchAndCacheDoc[v]
  PROVE  doc = <<>> \/ (doc # <<>> /\ doc = <<doc[1]>> /\ doc[1] \in Docs)
<1>1. ASSUME doc # <<>> PROVE doc = <<doc[1]>>
  BY <1>1, Fetches
<1>2. ASSUME doc # <<>> PROVE doc[1] \in Docs
  <2>1. doc \in (UNION {FetchAndCacheDoc[w] : w \in Versions}) \ {<<>>}
    BY <1>2, Zenon
  <2>2. QED
    BY <2>1, Zenon DEF Docs
<1>3. QED
  BY <1>1, <1>2, Zenon

LEMMA OfADocument ==
  ASSUME NEW d \in Docs
  PROVE  /\ d.platform \in Seq(STRING) /\ Len(d.platform) <= 1
         /\ \A w \in Openable : BodyLinks(BodyShown(d.blocks, w)) \in Seq(STRING)
<1>1. PICK doc \in (UNION {FetchAndCacheDoc[v] : v \in Versions}) \ {<<>>} : d = doc[1]
  BY Zenon DEF Docs
<1>2. PICK v \in Versions : doc \in FetchAndCacheDoc[v]
  <2>1. doc \in UNION {FetchAndCacheDoc[v] : v \in Versions}
    BY <1>1, Zenon
  <2>2. QED
    BY <2>1
<1>3. doc # <<>>
  BY <1>1, Zenon
<1>4. /\ doc[1].platform \in Seq(STRING) /\ Len(doc[1].platform) <= 1
      /\ \A w \in Openable : BodyLinks(BodyShown(doc[1].blocks, w)) \in Seq(STRING)
  BY <1>2, <1>3, Fetches, Zenon
<1>5. QED
  BY <1>1, <1>4, Zenon

LEMMA ReadingInitially == ReadingInit => RInv
<1> SUFFICES ASSUME ReadingInit PROVE RInv
  OBVIOUS
<1>1. KeptByTheWorker
  <2>1. AtMostOne(stored) /\ (stored # <<>> => stored[1] \in Docs)
    BY OfAFetch DEF ReadingInit, AtMostOne
  <2>2. post \in Versions /\ fetches \in 0..MaxFetches
    BY ReadingAssumption DEF ReadingInit
  <2>3. QED
    BY <2>1, <2>2 DEF ReadingInit, KeptByTheWorker, AtMostOne
<1>2. KeptOfTheBody
  <2>1. \E v \in Versions : opens \in 0..MaxOpens[v]
    BY ReadingAssumption DEF ReadingInit
  <2>2. readingPlatform \in Seq(STRING) /\ Len(readingPlatform) <= 1
    BY DEF ReadingInit
  <2>3. QED
    BY <2>1, <2>2 DEF ReadingInit, KeptOfTheBody, AtMostOne
<1>3. KeptOfTheLinks
  <2>1. links \in Seq(STRING) /\ Len(links) = 0
    BY DEF ReadingInit
  <2>2. focusedLink = -1 /\ attributionLink = -1 /\ ~attributionVisible /\ ~attributionRect
    BY DEF ReadingInit, NoFocus
  <2>3. focusedLink \in NoFocus..(Len(links) - 1)
    BY <2>1, <2>2 DEF NoFocus
  <2>4. attributionLink = NoFocus
    BY <2>2 DEF NoFocus
  <2>5. attributionVisible \in BOOLEAN /\ attributionRect \in BOOLEAN
    BY DEF ReadingInit
  <2>6. QED
    BY <2>1, <2>3, <2>4, <2>5 DEF KeptOfTheLinks
<1>4. KeptOnTheScreen
  BY DEF ReadingInit, KeptOnTheScreen, AtMostOne
<1>5. QED
  BY <1>1, <1>2, <1>3, <1>4 DEF RInv

\* Nothing of the App or the worker changes.
LEMMA SameBody ==
  ASSUME RInv, UNCHANGED <<opens, bodyVars>>
  PROVE  KeptOfTheBody'
BY DEF RInv, KeptOfTheBody, bodyVars

LEMMA SameLinks ==
  ASSUME RInv, UNCHANGED <<linkVars, attributionRect>>
  PROVE  KeptOfTheLinks'
BY DEF RInv, KeptOfTheLinks, linkVars

LEMMA SameScreen ==
  ASSUME RInv, UNCHANGED <<imageVars, images, readerCache>>,
         frame' \in {"drawn", "touched", "drained"}
  PROVE  KeptOnTheScreen'
BY DEF RInv, KeptOnTheScreen, imageVars

LEMMA SameWorker ==
  ASSUME RInv, UNCHANGED <<workerVars, wanted, answer, opened>>
  PROVE  KeptByTheWorker'
BY DEF RInv, KeptByTheWorker, workerVars

LEMMA WorkerStepsKeep ==
  ASSUME RInv, EditPost \/ ServeOpen \/ ServeFreshen
  PROVE  RInv'
<1>1. UNCHANGED <<opens, bodyVars, linkVars, imageVars, images, screenVars, frame>>
  BY DEF EditPost, ServeOpen, ServeFreshen
<1>2. KeptByTheWorker'
  <2>1. opened' = opened
    BY <1>1 DEF bodyVars
  <2>2. CASE EditPost
    <3>1. post' \in Versions
      BY <2>2, ReadingAssumption DEF EditPost
    <3>2. QED
      BY <2>1, <2>2, <3>1 DEF EditPost, RInv, KeptByTheWorker
  <2>3. CASE ServeOpen
    <3>1. wanted # {} /\ wanted' \subseteq wanted /\ post' = post
      BY <2>3 DEF ServeOpen
    <3>2. opened' # 0
      BY <2>1, <3>1 DEF RInv, KeptByTheWorker
    <3>3. CASE stored # <<>> /\ answer' = <<[doc |-> stored[1], fromCache |-> TRUE]>>
               /\ UNCHANGED <<stored, fetches>>
      BY <3>1, <3>2, <3>3 DEF RInv, KeptByTheWorker, AtMostOne
    <3>4. ASSUME fetches < MaxFetches, fetches' = fetches + 1,
                 NEW doc \in FetchAndCacheDoc[post], stored' = doc,
                 answer' = IF doc = <<>> THEN <<>>
                           ELSE <<[doc |-> doc[1], fromCache |-> FALSE]>>
          PROVE  KeptByTheWorker'
      <4>1. AtMostOne(stored)' /\ (stored' # <<>> => stored'[1] \in Docs)
        BY <3>4, OfAFetch DEF RInv, KeptByTheWorker, AtMostOne
      <4>2. /\ AtMostOne(answer)'
            /\ answer' # <<>> => answer'[1].doc \in Docs /\ answer'[1].fromCache \in BOOLEAN
        BY <3>4, OfAFetch DEF RInv, KeptByTheWorker, AtMostOne
      <4>3. fetches' \in 0..MaxFetches
        BY <3>4, ReadingAssumption DEF RInv, KeptByTheWorker
      <4>4. QED
        BY <3>1, <3>2, <4>1, <4>2, <4>3 DEF RInv, KeptByTheWorker
    <3>5. QED
      BY <2>3, <3>3, <3>4 DEF ServeOpen
  <2>4. CASE ServeFreshen
    <3>1. /\ wanted # {} /\ wanted' \subseteq wanted /\ post' = post
          /\ fetches < MaxFetches /\ fetches' = fetches + 1
      BY <2>4 DEF ServeFreshen
    <3>2. opened' # 0
      BY <2>1, <3>1 DEF RInv, KeptByTheWorker
    <3>3. PICK doc \in FetchAndCacheDoc[post] :
            /\ stored' = IF doc = <<>> THEN stored ELSE doc
            /\ answer' = <<>> \/ (doc # <<>> /\ answer' = <<[doc |-> doc[1],
                                                            fromCache |-> FALSE]>>)
      BY <2>4 DEF ServeFreshen
    <3>4. AtMostOne(stored)' /\ (stored' # <<>> => stored'[1] \in Docs)
      BY <3>3, OfAFetch DEF RInv, KeptByTheWorker, AtMostOne
    <3>5. /\ AtMostOne(answer)'
          /\ answer' # <<>> => answer'[1].doc \in Docs /\ answer'[1].fromCache \in BOOLEAN
      <4>1. CASE answer' = <<>>
        BY <4>1 DEF AtMostOne
      <4>2. CASE doc # <<>> /\ answer' = <<[doc |-> doc[1], fromCache |-> FALSE]>>
        <5>1. doc[1] \in Docs
          BY <3>1, <4>2, OfAFetch DEF RInv, KeptByTheWorker
        <5>2. QED
          BY <4>2, <5>1 DEF AtMostOne
      <4>3. QED
        BY <3>3, <4>1, <4>2
    <3>6. fetches' \in 0..MaxFetches
      BY <3>1, ReadingAssumption DEF RInv, KeptByTheWorker
    <3>7. QED
      BY <3>1, <3>2, <3>4, <3>5, <3>6 DEF RInv, KeptByTheWorker
  <2>5. QED
    BY <2>2, <2>3, <2>4
<1>3. frame' \in {"drawn", "touched", "drained"}
  BY <1>1 DEF RInv, KeptOnTheScreen
<1>4. QED
  BY <1>1, <1>2, <1>3, SameBody, SameLinks, SameScreen DEF RInv, screenVars

LEMMA LoadKeeps == RInv /\ LoadImages => RInv'
<1> SUFFICES ASSUME RInv, LoadImages PROVE RInv'
  OBVIOUS
<1>1. KeptByTheWorker' /\ KeptOfTheBody' /\ KeptOfTheLinks'
  BY SameWorker, SameBody, SameLinks DEF LoadImages, bodyVars, screenVars
<1>2. KeptOnTheScreen'
  BY DEF LoadImages, RInv, KeptOnTheScreen, imageVars, screenVars
<1>3. QED
  BY <1>1, <1>2 DEF RInv

\* The attribution comes last.
LEMMA AttributionLast ==
  ASSUME NEW hrefs \in Seq(STRING), NEW platform \in Seq(STRING), Len(platform) <= 1,
         AppendAttribution(hrefs, platform)
  PROVE  /\ links' \in Seq(STRING) /\ Len(links') \in Nat
         /\ attributionLink' \in {NoFocus, Len(links') - 1}
<1>1. links' = hrefs \o platform
  BY DEF AppendAttribution
<1>2. platform = <<>> <=> Len(platform) = 0
  BY EmptySeq
<1>3. links' \in Seq(STRING) /\ Len(links') = Len(hrefs) + Len(platform)
      /\ Len(hrefs) \in Nat /\ Len(platform) \in Nat
  BY <1>1
<1>4. attributionLink' = IF platform = <<>> THEN NoFocus ELSE Len(hrefs)
  BY DEF AppendAttribution
<1>5. platform # <<>> => Len(platform) = 1
  <2>1. PICK n : n = Len(platform)
    OBVIOUS
  <2>2. n # 0 => n = 1
    BY <1>3, <2>1
  <2>3. QED
    BY <1>2, <2>1, <2>2, Zenon
<1>6. QED
  BY <1>3, <1>4, <1>5

LEMMA OpenKeeps == RInv /\ OpenDoc => RInv'
<1> SUFFICES ASSUME RInv, OpenDoc PROVE RInv'
  OBVIOUS
<1>1. opened' \in Openable /\ opened' # 0
  <2>1. post \in Versions /\ opens < MaxOpens[post] /\ MaxOpens[post] \in Nat /\ opens \in Nat
    BY ReadingAssumption DEF OpenDoc, RInv, KeptByTheWorker, KeptOfTheBody
  <2>2. post \in Openable
    BY <2>1 DEF Openable
  <2>3. QED
    BY <2>2 DEF OpenDoc, RInv, KeptOfTheBody
<1>2. \E v \in Versions : opens' \in 0..MaxOpens[v]
  <2>1. post \in Versions /\ opens < MaxOpens[post] /\ MaxOpens[post] \in Nat /\ opens \in Nat
        /\ opens' = opens + 1
    BY ReadingAssumption DEF OpenDoc, RInv, KeptByTheWorker, KeptOfTheBody
  <2>2. QED
    BY <2>1
<1>3. readingPlatform' \in Seq(STRING) /\ Len(readingPlatform') <= 1
  <2>1. readingPlatform' = <<>> \/ (stored # <<>> /\ readingPlatform' = stored[1].platform)
    <3>1. readingPlatform' \in {<<>>} \cup {stored[i].platform : i \in DOMAIN stored}
      BY DEF OpenDoc
    <3>2. CASE stored = <<>>
      BY <3>1, <3>2
    <3>3. CASE stored # <<>>
      <4>1. stored = <<stored[1]>>
        BY <3>3 DEF RInv, KeptByTheWorker, AtMostOne
      <4>2. DOMAIN stored = {1}
        BY <4>1
      <4>3. QED
        BY <3>1, <3>3, <4>2
    <3>4. QED
      BY <3>2, <3>3
  <2>2. stored # <<>> => stored[1] \in Docs
    BY DEF RInv, KeptByTheWorker
  <2>3. stored # <<>> => stored[1].platform \in Seq(STRING) /\ Len(stored[1].platform) <= 1
    BY <2>2, OfADocument, Zenon
  <2>4. CASE readingPlatform' = <<>>
    BY <2>4
  <2>5. QED
    BY <2>1, <2>3, <2>4, Zenon
<1>4. KeptByTheWorker'
  BY <1>1 DEF OpenDoc, RInv, KeptByTheWorker, workerVars
<1>5. KeptOfTheBody'
  BY <1>1, <1>2, <1>3 DEF OpenDoc, RInv, KeptOfTheBody, AtMostOne
<1>6. KeptOfTheLinks'
  <2>1. AppendAttribution(<<>>, readingPlatform')
    BY DEF OpenDoc
  <2>2. /\ links' \in Seq(STRING) /\ Len(links') \in Nat
        /\ attributionLink' \in {NoFocus, Len(links') - 1}
    <3>1. PICK platform : platform = readingPlatform'
      OBVIOUS
    <3>2. <<>> \in Seq(STRING) /\ platform \in Seq(STRING) /\ Len(platform) <= 1
      BY <1>3, <3>1
    <3>3. AppendAttribution(<<>>, platform)
      BY <2>1, <3>1
    <3>4. QED
      BY <3>2, <3>3, AttributionLast
  <2>3. /\ focusedLink' = NoFocus /\ attributionVisible' = FALSE
        /\ attributionRect' = attributionRect
    BY DEF OpenDoc, screenVars
  <2>4. focusedLink' \in NoFocus..(Len(links') - 1)
    BY <2>2, <2>3 DEF NoFocus
  <2>5. attributionVisible' \in BOOLEAN /\ attributionRect' \in BOOLEAN
    BY <2>3 DEF RInv, KeptOfTheLinks
  <2>6. QED
    BY <2>2, <2>4, <2>5 DEF KeptOfTheLinks
<1>7. KeptOnTheScreen'
  BY DEF OpenDoc, Touch, RInv, KeptOnTheScreen, screenVars
<1>8. QED
  BY <1>4, <1>5, <1>6, <1>7 DEF RInv

\* A Doc event, as one of its two outcomes.
LEMMA ApplyDocCases ==
  ASSUME RInv, ApplyDoc
  PROVE  \E d \in Docs :
           /\ opened \in Openable
           /\ answer' = <<>> /\ frame' = "drained" /\ readingPlatform' = d.platform
           /\ freshened' \in BOOLEAN /\ wanted' \subseteq wanted \cup {"freshen"}
           /\ UNCHANGED <<workerVars, opens, opened, showImages, images, attributionRect>>
           /\ LET body == BodyShown(d.blocks, opened)
              IN \/ /\ RebuildLinks(body, d.platform, FALSE)
                    /\ reading' = <<body>> /\ readingVersion' = readingVersion + 1
                    /\ requested' = requested \cup (IF showImages THEN BodyImages(body) ELSE {})
                 \/ /\ reading = <<body>> /\ UNCHANGED <<reading, readingVersion, requested>>
                    /\ \/ RebuildLinks(body, d.platform, TRUE)
                       \/ UNCHANGED <<readingPlatform, linkVars, readerCache>>
<1> PICK d : d = answer[1].doc
  OBVIOUS
<1> PICK body : body = BodyShown(d.blocks, opened)
  OBVIOUS
<1> PICK cached : cached = answer[1].fromCache
  OBVIOUS
<1>1. d \in Docs /\ cached \in BOOLEAN /\ opened \in Openable /\ opened # 0
  BY DEF ApplyDoc, RInv, KeptByTheWorker, KeptOfTheBody
<1>2. /\ answer' = <<>> /\ frame' = "drained" /\ readingPlatform' = d.platform
      /\ UNCHANGED <<workerVars, opens, opened, showImages, images, attributionRect>>
  BY DEF ApplyDoc
<1>3. freshened' = (freshened \/ cached)
      /\ wanted' = wanted \cup (IF cached /\ ~freshened THEN {"freshen"} ELSE {})
  BY DEF ApplyDoc
<1>4. freshened' \in BOOLEAN /\ wanted' \subseteq wanted \cup {"freshen"}
  BY <1>3
<1>5. \/ /\ RebuildLinks(body, d.platform, FALSE)
         /\ reading' = <<body>> /\ readingVersion' = readingVersion + 1
         /\ requested' = requested \cup (IF showImages THEN BodyImages(body) ELSE {})
      \/ /\ reading = <<body>> /\ UNCHANGED <<reading, readingVersion, requested>>
         /\ \/ RebuildLinks(body, d.platform, TRUE)
            \/ UNCHANGED <<readingPlatform, linkVars, readerCache>>
  BY DEF ApplyDoc
<1>6. QED
  BY <1>1, <1>2, <1>4, <1>5

LEMMA RebuildKeeps ==
  ASSUME RInv, NEW d \in Docs, opened \in Openable, NEW preserve \in BOOLEAN,
         RebuildLinks(BodyShown(d.blocks, opened), d.platform, preserve),
         attributionRect' = attributionRect
  PROVE  KeptOfTheLinks' /\ readerCache' = <<>>
<1> PICK hrefs : hrefs = BodyLinks(BodyShown(d.blocks, opened))
  OBVIOUS
<1>1. hrefs \in Seq(STRING) /\ d.platform \in Seq(STRING) /\ Len(d.platform) <= 1
  BY OfADocument
<1>2. /\ AppendAttribution(hrefs, d.platform) /\ attributionVisible' = FALSE
      /\ readerCache' = <<>>
      /\ focusedLink' = IF preserve /\ focusedLink < Len(links') THEN focusedLink ELSE NoFocus
  BY DEF RebuildLinks
<1>3. /\ links' \in Seq(STRING) /\ Len(links') \in Nat
      /\ attributionLink' \in {NoFocus, Len(links') - 1}
  BY <1>1, <1>2, AttributionLast
<1>4. focusedLink' \in NoFocus..(Len(links') - 1)
  <2>1. focusedLink \in Int /\ focusedLink >= NoFocus
    BY DEF RInv, KeptOfTheLinks, NoFocus
  <2>2. QED
    BY <1>2, <1>3, <2>1 DEF NoFocus
<1>5. QED
  BY <1>2, <1>3, <1>4 DEF RInv, KeptOfTheLinks

LEMMA ApplyDocKeeps == RInv /\ ApplyDoc => RInv'
<1> SUFFICES ASSUME RInv, ApplyDoc PROVE RInv'
  OBVIOUS
<1>1. PICK d \in Docs :
        /\ opened \in Openable
        /\ answer' = <<>> /\ frame' = "drained" /\ readingPlatform' = d.platform
        /\ freshened' \in BOOLEAN /\ wanted' \subseteq wanted \cup {"freshen"}
        /\ UNCHANGED <<workerVars, opens, opened, showImages, images, attributionRect>>
        /\ LET body == BodyShown(d.blocks, opened)
           IN \/ /\ RebuildLinks(body, d.platform, FALSE)
                 /\ reading' = <<body>> /\ readingVersion' = readingVersion + 1
                 /\ requested' = requested \cup (IF showImages THEN BodyImages(body) ELSE {})
              \/ /\ reading = <<body>> /\ UNCHANGED <<reading, readingVersion, requested>>
                 /\ \/ RebuildLinks(body, d.platform, TRUE)
                    \/ UNCHANGED <<readingPlatform, linkVars, readerCache>>
  BY ApplyDocCases
<1> PICK body : body = BodyShown(d.blocks, opened)
  OBVIOUS
<1>2. opened # 0
  BY <1>1, ReadingAssumption DEF Openable
<1>3. KeptByTheWorker'
  BY <1>1, <1>2 DEF RInv, KeptByTheWorker, AtMostOne, workerVars
<1>4. \/ /\ RebuildLinks(body, d.platform, FALSE)
         /\ reading' = <<body>> /\ readingVersion' = readingVersion + 1
         /\ requested' = requested \cup (IF showImages THEN BodyImages(body) ELSE {})
      \/ /\ reading = <<body>> /\ UNCHANGED <<reading, readingVersion, requested>>
         /\ \/ RebuildLinks(body, d.platform, TRUE)
            \/ UNCHANGED <<readingPlatform, linkVars, readerCache>>
  BY <1>1
<1>5. KeptOfTheBody'
  <2>1. reading' = <<body>> /\ readingVersion' \in Nat
    <3>1. readingVersion \in Nat
      BY DEF RInv, KeptOfTheBody
    <3>2. reading' = <<body>> /\ readingVersion' \in {readingVersion, readingVersion + 1}
      BY <1>4, Zenon
    <3>3. QED
      BY <3>1, <3>2
  <2>2. readingPlatform' \in Seq(STRING) /\ Len(readingPlatform') <= 1
    BY <1>1, OfADocument
  <2>3. AtMostOne(reading)' /\ reading'[1] = body
    BY <2>1 DEF AtMostOne
  <2>4. QED
    BY <1>1, <1>2, <2>1, <2>2, <2>3 DEF RInv, KeptOfTheBody
<1>6. KeptOfTheLinks' /\ (readerCache' = <<>> \/ readerCache' = readerCache)
  BY <1>1, <1>4, RebuildKeeps, SameLinks
<1>7. KeptOnTheScreen'
  <2>1. requested \subseteq requested'
    BY <1>4
  <2>2. QED
    BY <1>1, <1>6, <2>1 DEF RInv, KeptOnTheScreen, AtMostOne
<1>8. QED
  BY <1>3, <1>5, <1>6, <1>7 DEF RInv

LEMMA ToggleKeeps == RInv /\ ToggleImages => RInv'
<1> SUFFICES ASSUME RInv, ToggleImages PROVE RInv'
  OBVIOUS
<1>1. KeptByTheWorker' /\ KeptOfTheBody' /\ KeptOfTheLinks'
  BY SameWorker, SameBody, SameLinks DEF ToggleImages, bodyVars, screenVars
<1>2. requested \subseteq requested'
  BY DEF ToggleImages, RequestCurrentImages
<1>3. KeptOnTheScreen'
  BY <1>2 DEF ToggleImages, Touch, RInv, KeptOnTheScreen, screenVars
<1>4. QED
  BY <1>1, <1>3 DEF RInv

LEMMA Remainder ==
  ASSUME NEW a \in Int, NEW n \in Nat, n > 0
  PROVE  a % n \in 0..(n - 1)
OBVIOUS

LEMMA FocusKeeps ==
  ASSUME RInv, NEW delta \in {1, -1}, FocusLink(delta)
  PROVE  RInv'
<1> PICK n : n = NavigableLinks
  OBVIOUS
<1>1. n \in Nat /\ n > 0 /\ n <= Len(links) /\ Len(links) \in Nat
  <2>1. /\ Len(links) \in Nat /\ attributionLink \in {NoFocus, Len(links) - 1}
    BY DEF RInv, KeptOfTheLinks
  <2>2. n > 0 /\ n = IF attributionLink # NoFocus /\ ~attributionVisible THEN attributionLink
                    ELSE Len(links)
    BY DEF FocusLink, NavigableLinks
  <2>3. QED
    BY <2>1, <2>2 DEF NoFocus
<1>2. focusedLink' \in 0..(n - 1)
  <2>1. focusedLink' = IF focusedLink \in 0..(n - 1) THEN (focusedLink + delta) % n
                       ELSE IF delta < 0 THEN n - 1 ELSE 0
    BY DEF FocusLink
  <2>2. focusedLink \in Int
    BY DEF RInv, KeptOfTheLinks, NoFocus
  <2>3. (focusedLink + delta) % n \in 0..(n - 1)
    BY <1>1, <2>2, Remainder
  <2>4. QED
    BY <1>1, <2>1, <2>3
<1>3. /\ UNCHANGED <<workerVars, wanted, answer, opens, bodyVars, links, attributionLink,
                     attributionVisible, imageVars, images, screenVars>>
      /\ frame' = "touched"
  BY DEF FocusLink, Touch
<1>4. KeptOfTheLinks'
  <2>1. focusedLink' \in NoFocus..(Len(links) - 1)
    BY <1>1, <1>2 DEF NoFocus
  <2>2. QED
    BY <1>3, <2>1 DEF RInv, KeptOfTheLinks, screenVars
<1>5. QED
  BY <1>3, <1>4, SameWorker, SameBody, SameScreen DEF RInv, bodyVars, screenVars

LEMMA DrawKeeps ==
  ASSUME RInv, NEW width, Draw(width)
  PROVE  RInv'
<1>1. /\ UNCHANGED <<workerVars, wanted, answer, opens, bodyVars, links, attributionLink,
                     imageVars, images>>
      /\ frame' = "drawn"
      /\ attributionVisible' = (readingPlatform # <<>> /\ width = "wide")
      /\ attributionRect' = (attributionVisible' /\ attributionLink # NoFocus)
  BY DEF Draw
<1>2. focusedLink' \in {focusedLink, NoFocus}
  BY DEF Draw
<1>3. AtMostOne(readerCache')
  BY DEF Draw, LayOut, RInv, KeptOnTheScreen, AtMostOne
<1>4. KeptOfTheLinks'
  <2>1. focusedLink' \in NoFocus..(Len(links) - 1)
    BY <1>2 DEF RInv, KeptOfTheLinks, NoFocus
  <2>2. attributionVisible' \in BOOLEAN /\ attributionRect' \in BOOLEAN
    BY <1>1
  <2>3. QED
    BY <1>1, <2>1, <2>2 DEF RInv, KeptOfTheLinks
<1>5. KeptOnTheScreen'
  BY <1>1, <1>3 DEF RInv, KeptOnTheScreen, imageVars, AtMostOne
<1>6. QED
  BY <1>1, <1>4, <1>5, SameWorker, SameBody DEF RInv, bodyVars

LEMMA ReadingKeeps == RInv /\ [ReadingNext]_readingVars => RInv'
<1> SUFFICES ASSUME RInv, [ReadingNext]_readingVars PROVE RInv'
  OBVIOUS
<1>1. CASE UNCHANGED readingVars
  <2>1. frame' \in {"drawn", "touched", "drained"}
    BY <1>1 DEF readingVars, RInv, KeptOnTheScreen
  <2>2. UNCHANGED <<workerVars, wanted, answer, opens, bodyVars, linkVars, imageVars, images,
                    screenVars>>
    BY <1>1 DEF readingVars
  <2>3. QED
    BY <2>1, <2>2, SameWorker, SameBody, SameLinks, SameScreen DEF RInv, bodyVars, screenVars
<1>2. QED
  BY <1>1, WorkerStepsKeep, LoadKeeps, OpenKeeps, ApplyDocKeeps, ToggleKeeps, FocusKeeps,
     DrawKeeps DEF ReadingNext

-----------------------------------------------------------------------------
(* What is on the screen.                                                  *)

\* Every image a post can have.
ImagesOfPost(v) ==
  ToSet(CoverOf(v)) \cup (UNION {BodyImages(BodyShown(d.blocks, v)) : d \in Docs})

Images == UNION {ImagesOfPost(v) : v \in Openable}

\* With images on, those of the post on the screen have been asked for.
AskedFor ==
  /\ requested \subseteq Images
  /\ showImages /\ opened # 0 => ToSet(CoverOf(opened)) \subseteq requested
  /\ showImages /\ reading # <<>> => BodyImages(reading[1]) \subseteq requested

\* The links are those of the body, then the attribution.
LinksOfTheBody ==
  /\ links = (IF reading = <<>> THEN <<>> ELSE BodyLinks(reading[1])) \o readingPlatform
  /\ attributionLink = IF readingPlatform = <<>> THEN NoFocus
                       ELSE Len(IF reading = <<>> THEN <<>> ELSE BodyLinks(reading[1]))

Most(width) == IF width = "wide" THEN 2 ELSE 1

LaidOutFor(key) == Segments(reading[1], opened, key[2], key[4], Most(key[1]))

\* A kept layout is that of the body on the screen for the key it is kept under, and the
\* places of links are those found in it.
KeptLayout ==
  /\ reading = <<>> \/ readerCache = <<>> => linkRects = {}
  /\ reading # <<>> /\ readerCache # <<>> =>
       \E key \in {readerCache[1].key} :
         /\ key[2] \in BOOLEAN /\ key[4] \in SUBSET Images /\ key[5] \in Int
         /\ readerCache[1].rows = LinksFound(LaidOutFor(key), key[5]).rows
         /\ readerCache[1].placed = PlacedIn(LaidOutFor(key))
         /\ linkRects = LinksFound(LaidOutFor(key), key[5]).rects

\* After a drawing its key is of the switch and the focus as they are; an attribution has a
\* place if it shows, and the focus only then.
DrawnNow ==
  frame = "drawn" =>
    /\ reading # <<>> =>
         /\ readerCache # <<>>
         /\ readerCache[1].key[2] = showImages /\ readerCache[1].key[5] = focusedLink
    /\ attributionRect = (attributionVisible /\ attributionLink # NoFocus)
    /\ focusedLink # NoFocus /\ focusedLink = attributionLink => attributionVisible

ScreenInv == AskedFor /\ LinksOfTheBody /\ KeptLayout /\ DrawnNow

LEMMA SomeImages ==
  /\ \A v \in Openable : ToSet(CoverOf(v)) \subseteq Images
  /\ \A v \in Openable : \A d \in Docs : BodyImages(BodyShown(d.blocks, v)) \subseteq Images
  /\ RInv /\ opened # 0 => ToSet(CoverOf(opened)) \subseteq Images
  /\ RInv /\ reading # <<>> => BodyImages(reading[1]) \subseteq Images
<1> SUFFICES \A v \in Openable : ImagesOfPost(v) \subseteq Images
  <2>1. ASSUME \A v \in Openable : ImagesOfPost(v) \subseteq Images, NEW v \in Openable
        PROVE  /\ ToSet(CoverOf(v)) \subseteq Images
               /\ \A d \in Docs : BodyImages(BodyShown(d.blocks, v)) \subseteq Images
    BY <2>1 DEF ImagesOfPost
  <2>2. RInv /\ opened # 0 => opened \in Openable
    BY DEF RInv, KeptOfTheBody
  <2>3. RInv /\ reading # <<>> =>
          opened # 0 /\ \E d \in Docs : reading[1] = BodyShown(d.blocks, opened)
    BY DEF RInv, KeptOfTheBody
  <2>4. QED
    BY <2>1, <2>2, <2>3
<1>1. QED
  BY DEF Images

LEMMA ScreenInitially == ReadingInit => ScreenInv
<1> SUFFICES ASSUME ReadingInit PROVE ScreenInv
  OBVIOUS
<1>1. AskedFor
  BY DEF ReadingInit, AskedFor
<1>2. LinksOfTheBody
  <2>1. <<>> \o <<>> = <<>>
    OBVIOUS
  <2>2. QED
    BY <2>1 DEF ReadingInit, LinksOfTheBody
<1>3. KeptLayout
  BY DEF ReadingInit, KeptLayout
<1>4. DrawnNow
  BY DEF ReadingInit, DrawnNow
<1>5. QED
  BY <1>1, <1>2, <1>3, <1>4 DEF ScreenInv

\* Nothing of it changes, but that the drawing may be of yesterday.
LEMMA SameAsked ==
  ASSUME AskedFor, UNCHANGED <<imageVars, bodyVars>>
  PROVE  AskedFor'
BY DEF AskedFor, imageVars, bodyVars

LEMMA SameLinksOfTheBody ==
  ASSUME LinksOfTheBody, UNCHANGED <<bodyVars, links, attributionLink>>
  PROVE  LinksOfTheBody'
BY DEF LinksOfTheBody, bodyVars

LEMMA SameLayout ==
  ASSUME KeptLayout, UNCHANGED <<opened, reading, linkRects, readerCache>>
  PROVE  KeptLayout'
BY DEF KeptLayout, LaidOutFor

LEMMA SameScreenInv ==
  ASSUME ScreenInv, UNCHANGED <<imageVars, bodyVars, links, attributionLink, linkRects,
                                readerCache>>,
         frame' # "drawn" \/ UNCHANGED <<frame, attributionVisible, attributionRect,
                                         focusedLink>>
  PROVE  ScreenInv'
<1>1. UNCHANGED <<opened, reading>>
  BY DEF bodyVars
<1>2. KeptLayout'
  BY <1>1, SameLayout DEF ScreenInv
<1>3. AskedFor' /\ LinksOfTheBody'
  BY SameAsked, SameLinksOfTheBody DEF ScreenInv
<1>4. DrawnNow'
  BY DEF ScreenInv, DrawnNow, imageVars, bodyVars
<1>5. QED
  BY <1>2, <1>3, <1>4 DEF ScreenInv

LEMMA OpenClears ==
  ASSUME RInv, ScreenInv, OpenDoc
  PROVE  ScreenInv'
<1>1. /\ reading' = <<>> /\ showImages' = showImages /\ frame' = "touched" /\ linkRects' = {}
      /\ requested' = requested \cup (IF showImages THEN ToSet(CoverOf(opened')) ELSE {})
  BY DEF OpenDoc, Touch
<1>2. opened' \in Openable
  <2>1. opened' # 0 /\ RInv'
    BY OpenKeeps, ReadingAssumption DEF OpenDoc, RInv, KeptByTheWorker, KeptOfTheBody
  <2>2. QED
    BY <2>1 DEF RInv, KeptOfTheBody
<1>3. AskedFor'
  <2>1. ToSet(CoverOf(opened')) \subseteq Images
    BY <1>2, SomeImages
  <2>2. QED
    BY <1>1, <2>1 DEF ScreenInv, AskedFor
<1>4. LinksOfTheBody'
  <2>1. Len(<<>>) = 0
    OBVIOUS
  <2>2. AppendAttribution(<<>>, readingPlatform')
    BY DEF OpenDoc
  <2>3. links' = <<>> \o readingPlatform'
    BY <2>2 DEF AppendAttribution
  <2>4. attributionLink' = IF readingPlatform' = <<>> THEN NoFocus ELSE Len(<<>>)
    BY <2>2 DEF AppendAttribution
  <2>5. QED
    BY <1>1, <2>3, <2>4, Zenon DEF LinksOfTheBody
<1>5. KeptLayout' /\ DrawnNow'
  BY <1>1 DEF KeptLayout, DrawnNow
<1>6. QED
  BY <1>3, <1>4, <1>5 DEF ScreenInv

\* The Doc event: another body, or another platform only.
LEMMA ApplyDocRebuilds ==
  ASSUME RInv, ScreenInv, ApplyDoc
  PROVE  ScreenInv'
<1>1. PICK d \in Docs :
        /\ opened \in Openable
        /\ frame' = "drained" /\ UNCHANGED <<opened, showImages>>
        /\ readingPlatform' = d.platform
        /\ \/ /\ RebuildLinks(BodyShown(d.blocks, opened), d.platform, FALSE)
              /\ reading' = <<BodyShown(d.blocks, opened)>>
              /\ requested' = requested \cup (IF showImages
                                              THEN BodyImages(BodyShown(d.blocks, opened))
                                              ELSE {})
           \/ /\ reading = <<BodyShown(d.blocks, opened)>> /\ UNCHANGED <<reading, requested>>
              /\ \/ RebuildLinks(BodyShown(d.blocks, opened), d.platform, TRUE)
                 \/ UNCHANGED <<readingPlatform, linkVars, readerCache>>
  BY ApplyDocCases
<1> PICK body : body = BodyShown(d.blocks, opened)
  OBVIOUS
<1>2. DrawnNow'
  BY <1>1 DEF DrawnNow
<1>3. AskedFor'
  <2>1. BodyImages(body) \subseteq Images
    BY <1>1, SomeImages
  <2>2. CASE /\ reading' = <<body>>
             /\ requested' = requested \cup (IF showImages THEN BodyImages(body) ELSE {})
    <3>1. reading'[1] = body
      BY <2>2
    <3>2. QED
      BY <1>1, <2>1, <2>2, <3>1 DEF ScreenInv, AskedFor
  <2>3. CASE UNCHANGED <<reading, requested>>
    BY <1>1, <2>3 DEF ScreenInv, AskedFor
  <2>4. QED
    BY <1>1, <2>2, <2>3
<1>4. reading' = <<body>>
  BY <1>1
<1>5. CASE UNCHANGED <<reading, readingPlatform, linkVars, readerCache>>
  <2>1. LinksOfTheBody'
    BY <1>5 DEF ScreenInv, LinksOfTheBody, linkVars
  <2>2. KeptLayout'
    BY <1>1, <1>5, SameLayout DEF ScreenInv, linkVars
  <2>3. QED
    BY <1>2, <1>3, <2>1, <2>2 DEF ScreenInv
<1>6. CASE \E preserve \in BOOLEAN : RebuildLinks(body, d.platform, preserve)
  <2>1. /\ AppendAttribution(BodyLinks(body), d.platform)
        /\ linkRects' = {} /\ readerCache' = <<>>
    BY <1>6 DEF RebuildLinks
  <2>2. KeptLayout'
    BY <2>1 DEF KeptLayout
  <2>3. /\ links' = BodyLinks(body) \o d.platform
        /\ attributionLink' = IF d.platform = <<>> THEN NoFocus ELSE Len(BodyLinks(body))
    BY <2>1 DEF AppendAttribution
  <2>4. reading' # <<>> /\ reading'[1] = body
    BY <1>4
  <2>5. LinksOfTheBody'
    BY <1>1, <2>3, <2>4, Zenon DEF LinksOfTheBody
  <2>6. QED
    BY <1>2, <1>3, <2>2, <2>5 DEF ScreenInv
<1>7. QED
  BY <1>1, <1>5, <1>6

LEMMA ToggleAsks ==
  ASSUME RInv, ScreenInv, ToggleImages
  PROVE  ScreenInv'
<1>1. /\ UNCHANGED <<bodyVars, linkVars, readerCache>> /\ frame' = "touched"
      /\ showImages' \in BOOLEAN /\ showImages \in BOOLEAN /\ showImages' = ~showImages
  BY DEF ToggleImages, Touch, screenVars, RInv, KeptOnTheScreen
<1>2. UNCHANGED <<opened, reading, links, attributionLink, linkRects>>
  BY <1>1 DEF bodyVars, linkVars
<1>3. AskedFor'
  <2>1. CASE showImages'
    <3> DEFINE shown == UNION {BodyImages(reading[i]) : i \in DOMAIN reading}
    <3>1. requested' = requested \cup shown
                         \cup (IF opened = 0 THEN {} ELSE ToSet(CoverOf(opened)))
      BY <2>1 DEF ToggleImages, RequestCurrentImages
    <3>2. AtMostOne(reading)
      BY DEF RInv, KeptOfTheBody
    <3>3. reading # <<>> => DOMAIN reading = {1}
      BY <3>2 DEF AtMostOne
    <3>4. shown = IF reading = <<>> THEN {} ELSE BodyImages(reading[1])
      BY <3>3
    <3> HIDE DEF shown
    <3>5. requested' \subseteq Images
      BY <3>1, <3>4, SomeImages DEF ScreenInv, AskedFor
    <3>6. QED
      BY <1>2, <3>1, <3>4, <3>5 DEF AskedFor
  <2>2. CASE ~showImages'
    <3>1. requested' = requested
      BY <2>2 DEF ToggleImages
    <3>2. QED
      BY <1>2, <2>2, <3>1 DEF ScreenInv, AskedFor
  <2>3. QED
    BY <2>1, <2>2
<1>4. KeptLayout' /\ LinksOfTheBody'
  BY <1>1, <1>2, SameLayout, SameLinksOfTheBody DEF ScreenInv
<1>5. DrawnNow'
  BY <1>1 DEF DrawnNow
<1>6. QED
  BY <1>3, <1>4, <1>5 DEF ScreenInv

\* A layout is made of what is on the screen, or kept because its key is the same.
LEMMA DrawKeepsLayout ==
  ASSUME RInv, ScreenInv, NEW width, Draw(width)
  PROVE  ScreenInv'
<1>1. /\ UNCHANGED <<bodyVars, imageVars, links, attributionLink>> /\ frame' = "drawn"
      /\ attributionRect' = (attributionVisible' /\ attributionLink # NoFocus)
  BY DEF Draw
<1>2. UNCHANGED <<opened, reading, readingVersion, showImages, requested, readingPlatform>>
  BY <1>1 DEF bodyVars, imageVars
<1>3. AskedFor' /\ LinksOfTheBody'
  BY <1>1, SameAsked, SameLinksOfTheBody DEF ScreenInv
<1> PICK drops \in BOOLEAN :
      drops = (~attributionVisible' /\ attributionLink # NoFocus
                 /\ focusedLink = attributionLink)
  OBVIOUS
<1>4. focusedLink' = IF drops THEN NoFocus ELSE focusedLink
  BY DEF Draw
<1>5. focusedLink' # NoFocus /\ focusedLink' = attributionLink' => attributionVisible'
  <2>1. attributionVisible' \in BOOLEAN
    BY DEF Draw
  <2>2. QED
    BY <1>1, <1>4, <2>1
<1> PICK key : key = <<width, showImages, readingVersion, images, focusedLink'>>
  OBVIOUS
<1>6. /\ key[1] = width /\ key[2] = showImages /\ key[4] = images /\ key[5] = focusedLink'
      /\ key[2] \in BOOLEAN /\ key[4] \in SUBSET Images /\ key[5] \in Int
  <2>1. showImages \in BOOLEAN /\ images \subseteq requested
    BY DEF RInv, KeptOnTheScreen
  <2>2. focusedLink \in Int
    BY DEF RInv, KeptOfTheLinks, NoFocus
  <2>3. QED
    BY <1>4, <2>1, <2>2 DEF ScreenInv, AskedFor, NoFocus
<1> PICK cache : cache = IF drops THEN <<>> ELSE readerCache
  OBVIOUS
<1>7. IF reading = <<>> \/ (cache # <<>> /\ cache[1].key = key)
      THEN readerCache' = cache /\ UNCHANGED linkRects
      ELSE LayOut(Segments(reading[1], opened, showImages, images,
                           IF width = "wide" THEN 2 ELSE 1), key)
  BY DEF Draw
<1>8. CASE reading = <<>>
  <2>1. linkRects' = {}
    BY <1>7, <1>8 DEF ScreenInv, KeptLayout
  <2>2. KeptLayout' /\ DrawnNow'
    BY <1>1, <1>2, <1>5, <1>8, <2>1 DEF KeptLayout, DrawnNow
  <2>3. QED
    BY <1>3, <2>2 DEF ScreenInv
<1>9. CASE reading # <<>> /\ cache # <<>> /\ cache[1].key = key
  <2>1. readerCache' = readerCache /\ linkRects' = linkRects /\ readerCache # <<>>
        /\ readerCache[1].key = key
    BY <1>7, <1>9
  <2>2. KeptLayout'
    BY <1>2, <2>1, SameLayout DEF ScreenInv
  <2>3. DrawnNow'
    BY <1>1, <1>2, <1>5, <1>6, <2>1 DEF DrawnNow
  <2>4. QED
    BY <1>3, <2>2, <2>3 DEF ScreenInv
<1>10. CASE reading # <<>> /\ ~(cache # <<>> /\ cache[1].key = key)
  <2>1. PICK segs : segs = Segments(reading[1], opened, showImages, images, Most(width))
    OBVIOUS
  <2>2. LayOut(segs, key)
    BY <1>7, <1>10, <2>1 DEF Most
  <2>3. PICK found : found = LinksFound(segs, key[5])
    OBVIOUS
  <2>4. /\ readerCache' = <<[key |-> key, rows |-> found.rows, placed |-> PlacedIn(segs)]>>
        /\ linkRects' = found.rects
    BY <1>6, <2>2, <2>3 DEF LayOut
  <2>5. /\ readerCache' # <<>> /\ readerCache'[1].key = key
        /\ readerCache'[1].rows = found.rows /\ readerCache'[1].placed = PlacedIn(segs)
    BY <2>4
  <2>6. reading' # <<>> /\ segs = (LaidOutFor(key))'
    BY <1>2, <1>6, <1>10, <2>1 DEF LaidOutFor
  <2>7. KeptLayout'
    BY <1>6, <2>3, <2>4, <2>5, <2>6 DEF KeptLayout
  <2>8. DrawnNow'
    BY <1>1, <1>2, <1>5, <1>6, <2>5 DEF DrawnNow
  <2>9. QED
    BY <1>3, <2>7, <2>8 DEF ScreenInv
<1>11. QED
  BY <1>8, <1>9, <1>10

LEMMA ScreenKeeps == RInv /\ ScreenInv /\ [ReadingNext]_readingVars => ScreenInv'
<1> SUFFICES ASSUME RInv, ScreenInv, [ReadingNext]_readingVars PROVE ScreenInv'
  OBVIOUS
<1>1. CASE EditPost \/ ServeOpen \/ ServeFreshen \/ LoadImages \/ UNCHANGED readingVars
           \/ \E delta \in {1, -1} : FocusLink(delta)
  <2>1. /\ UNCHANGED <<imageVars, bodyVars, links, attributionLink, linkRects, readerCache>>
        /\ frame' # "drawn" \/ UNCHANGED <<frame, attributionVisible, attributionRect,
                                           focusedLink>>
    BY <1>1 DEF EditPost, ServeOpen, ServeFreshen, LoadImages, FocusLink, Touch, readingVars,
      screenVars, linkVars
  <2>2. QED
    BY <2>1, SameScreenInv
<1>2. QED
  BY <1>1, OpenClears, ApplyDocRebuilds, ToggleAsks, DrawKeepsLayout DEF ReadingNext

\* The layout of a body has a place only for images of the body and for the cover.
PlacesItsImages ==
  \A d \in Docs : \A v \in Openable : \A loaded \in SUBSET Images : \A most \in {1, 2} :
    PlacedIn(Segments(BodyShown(d.blocks, v), v, TRUE, loaded, most))
      \subseteq BodyImages(BodyShown(d.blocks, v)) \cup ToSet(CoverOf(v))

\* Rows and rectangles tell the links of a body: where a cell is in a rectangle, the first
\* has the number of the cell's address, where it is in none the cell is no link; what is
\* lit has the focused address, and something is lit if a link of the body has the focus.
Tells(found, hrefs, focus) ==
  /\ \A p \in CellsOf(found.rows) :
       LET over == Over(found.rects, p.row, p.col)
           idx  == FirstOf(over)
       IN /\ over = {} => p.cell.href = NoHref
          /\ over # {} => idx \in 0..(Len(hrefs) - 1) /\ hrefs[idx + 1] = p.cell.href
          /\ p.cell.lit => focus \in 0..(Len(hrefs) - 1) /\ hrefs[focus + 1] = p.cell.href
  /\ focus \in 0..(Len(hrefs) - 1) => \E p \in CellsOf(found.rows) : p.cell.lit

TellsItsLinks ==
  \A d \in Docs : \A v \in Openable : \A shown \in BOOLEAN : \A loaded \in SUBSET Images :
  \A most \in {1, 2} : \A focus \in Int :
    WellLinked(BodyShown(d.blocks, v)) =>
      Tells(LinksFound(Segments(BodyShown(d.blocks, v), v, shown, loaded, most), focus),
            BodyLinks(BodyShown(d.blocks, v)), focus)

-----------------------------------------------------------------------------
(* What a click and Enter open.                                            *)

\* The links of the body on the screen, and the attribution behind them.
LEMMA LinksOnScreen ==
  ASSUME RInv, ScreenInv
  PROVE  \E hrefs \in Seq(STRING) :
           /\ reading # <<>> => hrefs = BodyLinks(reading[1])
           /\ links = hrefs \o readingPlatform
           /\ attributionLink = IF readingPlatform = <<>> THEN NoFocus ELSE Len(hrefs)
<1> PICK hrefs : hrefs = IF reading = <<>> THEN <<>> ELSE BodyLinks(reading[1])
  OBVIOUS
<1>1. hrefs \in Seq(STRING)
  <2>1. CASE reading = <<>>
    BY <2>1
  <2>2. CASE reading # <<>>
    <3>1. PICK d \in Docs : opened \in Openable /\ reading[1] = BodyShown(d.blocks, opened)
      BY <2>2 DEF RInv, KeptOfTheBody
    <3>2. QED
      BY <2>2, <3>1, OfADocument
  <2>3. QED
    BY <2>1, <2>2
<1>2. /\ links = hrefs \o readingPlatform
      /\ attributionLink = IF readingPlatform = <<>> THEN NoFocus ELSE Len(hrefs)
  BY Zenon DEF ScreenInv, LinksOfTheBody
<1>3. QED
  BY <1>1, <1>2

LEMMA AddressAt ==
  ASSUME NEW hrefs \in Seq(STRING), NEW platform \in Seq(STRING), Len(platform) <= 1,
         links = hrefs \o platform
  PROVE  /\ \A idx \in 0..(Len(hrefs) - 1) : HrefAt(idx) = hrefs[idx + 1]
         /\ Len(links) = Len(hrefs) + Len(platform)
         /\ platform # <<>> => Len(platform) = 1 /\ <<HrefAt(Len(hrefs))>> = platform
<1>1. Len(links) = Len(hrefs) + Len(platform) /\ Len(hrefs) \in Nat /\ Len(platform) \in Nat
  OBVIOUS
<1>2. ASSUME NEW idx \in 0..(Len(hrefs) - 1) PROVE HrefAt(idx) = hrefs[idx + 1]
  <2>1. links[idx + 1] = hrefs[idx + 1]
    BY <1>1
  <2>2. idx \in 0..(Len(links) - 1)
    BY <1>1
  <2>3. QED
    BY <2>1, <2>2 DEF HrefAt
<1>3. ASSUME platform # <<>>
      PROVE  Len(platform) = 1 /\ <<HrefAt(Len(hrefs))>> = platform
  <2>1. Len(platform) = 1
    <3>1. PICK n : n = Len(platform)
      OBVIOUS
    <3>2. n # 0
      BY <1>3, <3>1, EmptySeq, Zenon
    <3>3. QED
      BY <1>1, <3>1, <3>2
  <2>2. links[Len(hrefs) + 1] = platform[1]
    BY <1>1, <2>1
  <2>3. Len(hrefs) \in 0..(Len(links) - 1)
    BY <1>1, <2>1
  <2>4. HrefAt(Len(hrefs)) = platform[1]
    BY <2>2, <2>3 DEF HrefAt
  <2>5. platform = <<platform[1]>>
    BY <2>1
  <2>6. QED
    BY <2>1, <2>4, <2>5
<1>4. QED
  BY <1>1, <1>2, <1>3

\* The kept layout tells the links of the body it was made of.
LEMMA LayoutTells ==
  ASSUME TellsItsLinks, RInv, ScreenInv, reading # <<>>, readerCache # <<>>,
         WellLinked(reading[1])
  PROVE  \E found : /\ Tells(found, BodyLinks(reading[1]), readerCache[1].key[5])
                    /\ LaidOut = CellsOf(found.rows) /\ linkRects = found.rects
<1> PICK key : key = readerCache[1].key
  OBVIOUS
<1>1. /\ key[2] \in BOOLEAN /\ key[4] \in SUBSET Images /\ key[5] \in Int
      /\ readerCache[1].rows = LinksFound(LaidOutFor(key), key[5]).rows
      /\ linkRects = LinksFound(LaidOutFor(key), key[5]).rects
  BY DEF ScreenInv, KeptLayout
<1>2. PICK d \in Docs : opened \in Openable /\ reading[1] = BodyShown(d.blocks, opened)
  BY DEF RInv, KeptOfTheBody
<1>3. PICK most \in {1, 2} : most = Most(key[1])
  BY DEF Most
<1> PICK found : found = LinksFound(Segments(reading[1], opened, key[2], key[4], most), key[5])
  OBVIOUS
<1>4. Tells(found, BodyLinks(reading[1]), key[5])
  BY <1>1, <1>2 DEF TellsItsLinks
<1>5. readerCache[1].rows = found.rows /\ linkRects = found.rects
  BY <1>1, <1>3 DEF LaidOutFor
<1>6. LaidOut = CellsOf(readerCache[1].rows)
  <2>1. DOMAIN readerCache = {1}
    <3>1. AtMostOne(readerCache)
      BY DEF RInv, KeptOnTheScreen
    <3>2. QED
      BY <3>1 DEF AtMostOne
  <2>2. QED
    BY <2>1 DEF LaidOut
<1>7. QED
  BY <1>4, <1>5, <1>6

LEMMA ClicksAsShown ==
  ASSUME TellsItsLinks, RInv, ScreenInv, reading # <<>> => WellLinked(reading[1]),
         frame # "drained"
  PROVE  ClickOpensWhatIsShown
<1> DEFINE drawn == Current /\ reading # <<>>
<1>1. PICK hrefs \in Seq(STRING) :
        /\ reading # <<>> => hrefs = BodyLinks(reading[1])
        /\ links = hrefs \o readingPlatform
        /\ attributionLink = IF readingPlatform = <<>> THEN NoFocus ELSE Len(hrefs)
  BY LinksOnScreen
<1>2. /\ \A idx \in 0..(Len(hrefs) - 1) : HrefAt(idx) = hrefs[idx + 1]
      /\ Len(links) = Len(hrefs) + Len(readingPlatform)
      /\ readingPlatform # <<>> =>
           Len(readingPlatform) = 1 /\ <<HrefAt(Len(hrefs))>> = readingPlatform
  BY <1>1, AddressAt DEF RInv, KeptOfTheBody
<1>3. Len(hrefs) \in Nat
  OBVIOUS
<1>4. ASSUME NEW p \in LaidOut
      PROVE  /\ LinkAt(p.row, p.col) \in {NoHref, p.cell.href}
             /\ drawn => /\ LinkAt(p.row, p.col) = p.cell.href
                         /\ p.cell.lit => FocusedHref = p.cell.href
  <2>1. readerCache # <<>>
    BY <1>4 DEF LaidOut
  <2>2. CASE reading = <<>>
    <3>1. linkRects = {}
      BY <2>2 DEF ScreenInv, KeptLayout
    <3>2. QED
      BY <2>2, <3>1 DEF LinkAt, Over
  <2>3. CASE reading # <<>>
    <3>1. PICK found : /\ Tells(found, hrefs, readerCache[1].key[5])
                       /\ LaidOut = CellsOf(found.rows) /\ linkRects = found.rects
      BY <1>1, <2>1, <2>3, LayoutTells
    <3> PICK focus : focus = readerCache[1].key[5]
      OBVIOUS
    <3> PICK over : over = Over(linkRects, p.row, p.col)
      OBVIOUS
    <3>2. /\ over = {} => p.cell.href = NoHref
          /\ over # {} => /\ FirstOf(over) \in 0..(Len(hrefs) - 1)
                          /\ hrefs[FirstOf(over) + 1] = p.cell.href
          /\ p.cell.lit => focus \in 0..(Len(hrefs) - 1) /\ hrefs[focus + 1] = p.cell.href
      BY <3>1, Zenon DEF Tells
    <3>3. LinkAt(p.row, p.col) = IF over = {} THEN NoHref ELSE HrefAt(FirstOf(over))
      BY DEF LinkAt
    <3>4. LinkAt(p.row, p.col) = p.cell.href
      BY <1>2, <3>2, <3>3
    <3>5. ASSUME drawn, p.cell.lit PROVE FocusedHref = p.cell.href
      <4>1. focusedLink = focus
        BY <3>5 DEF ScreenInv, DrawnNow, Current
      <4>2. focusedLink # attributionLink
        BY <1>1, <1>3, <3>2, <3>5, <4>1 DEF NoFocus
      <4>3. QED
        BY <1>2, <3>2, <3>5, <4>1, <4>2 DEF FocusedHref
    <3>6. QED
      BY <3>4, <3>5
  <2>4. QED
    BY <2>2, <2>3
<1>5. Current /\ attributionRect => <<HrefAt(attributionLink)>> = readingPlatform
  <2>1. Current /\ attributionRect => attributionLink # NoFocus
    BY DEF ScreenInv, DrawnNow, Current
  <2>2. QED
    BY <1>1, <1>2, <2>1
<1>6. ASSUME drawn, focusedLink # NoFocus
      PROVE  \/ attributionRect /\ focusedLink = attributionLink
             \/ \E p \in LaidOut : p.cell.lit
  <2>1. focusedLink \in NoFocus..(Len(links) - 1)
    BY DEF RInv, KeptOfTheLinks
  <2>2. focusedLink \in 0..(Len(links) - 1)
    BY <1>6, <2>1, <1>2, <1>3 DEF NoFocus, RInv, KeptOfTheBody
  <2>3. CASE focusedLink \in 0..(Len(hrefs) - 1)
    <3>1. readerCache # <<>> /\ readerCache[1].key[5] = focusedLink
      BY <1>6 DEF ScreenInv, DrawnNow, Current
    <3>2. PICK found : /\ Tells(found, hrefs, focusedLink)
                       /\ LaidOut = CellsOf(found.rows)
      BY <1>1, <1>6, <3>1, LayoutTells
    <3>3. QED
      BY <2>3, <3>2 DEF Tells
  <2>4. CASE focusedLink \notin 0..(Len(hrefs) - 1)
    <3>1. readingPlatform # <<>> /\ focusedLink = Len(hrefs)
      <4>1. PICK n : n = Len(readingPlatform)
        OBVIOUS
      <4>2. readingPlatform = <<>> => n = 0
        BY <4>1
      <4>3. readingPlatform # <<>> => n = 1
        BY <1>2, <4>1, Zenon
      <4>4. Len(links) = Len(hrefs) + n /\ n \in {0, 1}
        BY <1>2, <4>1, <4>2, <4>3
      <4>5. n = 1 /\ focusedLink = Len(hrefs)
        BY <1>3, <2>2, <2>4, <4>4
      <4>6. QED
        BY <4>2, <4>5
    <3>2. attributionLink = focusedLink
      BY <1>1, <3>1
    <3>3. attributionRect = (attributionVisible /\ attributionLink # NoFocus)
          /\ attributionVisible
      BY <1>6, <3>2 DEF ScreenInv, DrawnNow, Current
    <3>4. QED
      BY <1>6, <3>2, <3>3
  <2>5. QED
    BY <2>3, <2>4
<1>7. QED
  BY <1>4, <1>5, <1>6 DEF ClickOpensWhatIsShown

LEMMA DrawnAsAsked ==
  ASSUME PlacesItsImages
  PROVE  RInv /\ ScreenInv => PlacedImagesAreRequested
<1> SUFFICES ASSUME RInv, ScreenInv, frame = "drawn", showImages, reading # <<>>
             PROVE  readerCache[1].placed \subseteq requested
  BY DEF PlacedImagesAreRequested, Current
<1> PICK key : key = readerCache[1].key
  OBVIOUS
<1>1. showImages = TRUE /\ opened # 0
  BY DEF RInv, KeptOfTheBody, KeptOnTheScreen
<1>2. readerCache # <<>> /\ key[2] = TRUE
  BY <1>1 DEF ScreenInv, DrawnNow
<1>3. key[4] \in SUBSET Images /\ readerCache[1].placed = PlacedIn(LaidOutFor(key))
  BY <1>2 DEF ScreenInv, KeptLayout
<1>4. PICK d \in Docs : opened \in Openable /\ reading[1] = BodyShown(d.blocks, opened)
  BY DEF RInv, KeptOfTheBody
<1>5. PICK most \in {1, 2} : most = Most(key[1])
  BY DEF Most
<1>6. PlacedIn(Segments(reading[1], opened, TRUE, key[4], most))
        \subseteq BodyImages(reading[1]) \cup ToSet(CoverOf(opened))
  BY <1>3, <1>4 DEF PlacesItsImages
<1>7. readerCache[1].placed = PlacedIn(Segments(reading[1], opened, TRUE, key[4], most))
  BY <1>2, <1>3, <1>5 DEF LaidOutFor
<1>8. readerCache[1].placed \subseteq BodyImages(reading[1]) \cup ToSet(CoverOf(opened))
  BY <1>6, <1>7
<1>9. QED
  BY <1>1, <1>8 DEF ScreenInv, AskedFor

-----------------------------------------------------------------------------
(* What opening and reading a post promises.                               *)

\* What the worker keeps is a document it can have fetched, what the App shows is a body of
\* the opened post made of one, and the focus is on a link (worker.rs fetch_and_cache_doc,
\* app.rs Doc event, rebuild_links).
THEOREM ReadingInvariant == ReadingSpec => []RInv
  BY ReadingInitially, ReadingKeeps, PTL DEF ReadingSpec

LEMMA ReadingTypes == RInv => ReadingTypeOK
<1> SUFFICES ASSUME RInv PROVE ReadingTypeOK
  OBVIOUS
<1>1. Len(stored) <= 1 /\ Len(answer) <= 1 /\ Len(reading) <= 1 /\ Len(readerCache) <= 1
  <2>1. ASSUME NEW s, AtMostOne(s) PROVE Len(s) <= 1
    BY <2>1 DEF AtMostOne
  <2>2. QED
    BY <2>1 DEF RInv, KeptByTheWorker, KeptOfTheBody, KeptOnTheScreen
<1>2. /\ post \in Versions /\ wanted \subseteq {"open", "freshen"}
      /\ fetches \in 0..MaxFetches
  BY DEF RInv, KeptByTheWorker
<1>3. /\ opened \in {0} \cup Versions /\ \E v \in Versions : opens \in 0..MaxOpens[v]
      /\ readingVersion \in Nat /\ freshened \in BOOLEAN
  BY DEF RInv, KeptOfTheBody, Openable
<1>4. /\ focusedLink \in NoFocus..(Len(links) - 1)
      /\ attributionLink \in {NoFocus, Len(links) - 1}
      /\ attributionVisible \in BOOLEAN /\ attributionRect \in BOOLEAN
  BY DEF RInv, KeptOfTheLinks
<1>5. /\ showImages \in BOOLEAN /\ images \subseteq requested
      /\ frame \in {"drawn", "touched", "drained"}
  BY DEF RInv, KeptOnTheScreen
<1>6. QED
  BY <1>1, <1>2, <1>3, <1>4, <1>5 DEF ReadingTypeOK

\* At most one copy, answer, body and layout of a post at a time; the focus and the
\* attribution are among the links; an image that is loaded was asked for (app.rs
\* rebuild_links, focus_link, append_attribution_link).
THEOREM ReadingTypeCorrect == ReadingSpec => []ReadingTypeOK
  BY ReadingInvariant, ReadingTypes, PTL

\* What is asked for, linked, kept laid out and drawn agree, whatever the layout of a body is.
THEOREM ScreenInvariant == ReadingSpec => [](RInv /\ ScreenInv)
<1>1. ReadingInit => RInv /\ ScreenInv
  BY ReadingInitially, ScreenInitially
<1>2. RInv /\ ScreenInv /\ [ReadingNext]_readingVars => (RInv /\ ScreenInv)'
  BY ReadingKeeps, ScreenKeeps
<1>3. QED
  BY <1>1, <1>2, PTL DEF ReadingSpec

\* Whatever was opened, freshened, switched and loaded in between: an image with a place on
\* the screen has been asked for, if the layout of a body has places only for what is found
\* in it by collect_image_sources (app.rs request_body_images, request_current_images,
\* open_doc; reader.rs draw with its cache).
THEOREM ReadingPlacesRequested ==
  ASSUME PlacesItsImages
  PROVE  ReadingSpec => []PlacedImagesAreRequested
  BY ScreenInvariant, DrawnAsAsked, PTL

\* Whatever was opened, edited, freshened, focused and redrawn in between: a click opens the
\* link whose text it hits and Enter the one that is lit, never one of an earlier body or
\* layout, if each layout of a body tells the links collected from it (app.rs
\* rebuild_links, link_at, open_focused_link; reader.rs draw with its cache).
THEOREM ReadingClicksAsShown ==
  ASSUME TellsItsLinks
  PROVE  ReadingSpec => []ClickOpensWhatIsShown
<1>1. RInv /\ ScreenInv => ClickOpensWhatIsShown
  BY ClicksAsShown DEF ClickOpensWhatIsShown
<1>2. QED
  BY <1>1, ScreenInvariant, PTL

-----------------------------------------------------------------------------
(* The App as a whole: a part that stands still keeps what it had.         *)

AppInv == AInv /\ AddInv /\ RInv /\ ScreenInv

LEMMA AppInitially == Init => AppInv
<1> SUFFICES ASSUME Init PROVE AppInv
  OBVIOUS
<1>1. AppearanceInit /\ AddFeedInit /\ ReadingInit
  BY DEF Init, IdleAppearance, IdleAddFeed, IdleReading
<1>2. QED
  BY <1>1, InitAInv, AddInitially, ReadingInitially, ScreenInitially DEF AppInv

LEMMA AppSteps ==
  [Next]_vars => /\ [AppearanceNext]_appearanceVars
                 /\ [AddFeedNext]_addVars
                 /\ [ReadingNext]_readingVars
  BY DEF Next, vars

LEMMA AppKeeps == AppInv /\ [Next]_vars => AppInv'
  BY AppSteps, StepAInv, AddFeedKeeps, ReadingKeeps, ScreenKeeps DEF AppInv

\* The invariants of the parts hold side by side, whichever part the reader is in.
THEOREM AppInvariant == Spec => []AppInv
  BY AppInitially, AppKeeps, PTL DEF Spec

\* The variables of every part have their types throughout.
THEOREM AppTypeCorrect == Spec => []TypeOK
<1>1. AppInv => TypeOK
  BY AddFeedTypes, ReadingTypes DEF AppInv, AInv, TypeOK
<1>2. QED
  BY <1>1, AppInvariant, PTL

\* In the whole App too: a dialog acts on its own subject (app.rs:533-547), a custom theme
\* has its own palette (app.rs:287), no change is lost at the end (app.rs:418-420).
THEOREM AppDialogs ==
  Spec => [](MenusHaveTheirSubject /\ BlogsHaveTheirOwnPalette /\ EveryChangeIsSaved)
<1>1. AppInv => MenusHaveTheirSubject /\ BlogsHaveTheirOwnPalette /\ EveryChangeIsSaved
  BY DEF AppInv, AInv
<1>2. QED
  BY <1>1, AppInvariant, PTL

\* In the whole App too: what the reader did not ask to change stays as it is
\* (app.rs:862-1180).
THEOREM AppNothingElseChanges == Spec => OnlyTheAskedChanges
<1> DEFINE Asked ==
      mode # Closed =>
        /\ \A b \in Blogs : prefs'.blog[b] # prefs.blog[b] => b \in {asked, asked'}
        /\ [prefs' EXCEPT !.blog = prefs.blog, !.onboarded = prefs.onboarded] # prefs
             => Global \in {asked, asked'}
<1>1. AppInv /\ [Next]_vars => [Asked]_appearanceVars
  <2> SUFFICES ASSUME AInv, AppearanceNext, mode # Closed PROVE Asked
    BY AppSteps DEF AppInv
  <2>1. PICK who \in {asked, asked'} : Only(prefs, prefs', who)
    BY NextKeeps DEF Keeps
  <2>2. QED
    BY <2>1 DEF Only
<1>2. QED
  BY <1>1, AppInvariant, PTL DEF Spec, OnlyTheAskedChanges

\* In the whole App too: what is followed is what was picked (worker.rs add_feed and
\* follow_chosen, app.rs publication_picker_key).
THEOREM AppFollowsAsPicked == Spec => FollowedAsPicked
<1>1. AppInv /\ [Next]_vars => FollowsAsPicked
  BY AppSteps, StepFollowsAsPicked DEF AppInv
<1>2. QED
  BY <1>1, AppInvariant, PTL DEF Spec, FollowedAsPicked

\* In the whole App too: an image with a place on the screen has been asked for, if layouts
\* have places only for what collect_image_sources finds (app.rs request_body_images,
\* request_current_images, open_doc; reader.rs draw with its cache).
THEOREM AppPlacesRequested ==
  ASSUME PlacesItsImages
  PROVE  Spec => []PlacedImagesAreRequested
<1>1. AppInv => PlacedImagesAreRequested
  BY DrawnAsAsked DEF AppInv
<1>2. QED
  BY <1>1, AppInvariant, PTL

\* In the whole App too: a click opens the link whose text it hits and Enter the one that is
\* lit, if each layout of a body tells the links collected from it (app.rs rebuild_links,
\* link_at, open_focused_link; reader.rs draw with its cache).
THEOREM AppClicksAsShown ==
  ASSUME TellsItsLinks
  PROVE  Spec => []ClickOpensWhatIsShown
<1>1. AppInv => ClickOpensWhatIsShown
  BY ClicksAsShown DEF AppInv, ClickOpensWhatIsShown
<1>2. QED
  BY <1>1, AppInvariant, PTL
=============================================================================
