-------------------------- MODULE OpfsPersistProofs --------------------------
(***************************************************************************)
(* OpfsPersist for any documents, blobs, changes and reloads: no payload   *)
(* is overtaken by the index that names it, nothing is dropped on its way, *)
(* and the index file only moves forward.                                  *)
(*                                                                         *)
(* An op travels from the channel through the queue and the writer to the  *)
(* disk, and others are coalesced into it on the way.  Every part of the   *)
(* invariant is about that whole pipeline, seen while the first `k` ops of *)
(* the channel have been pushed into a queue `q`: between two steps `q` is *)
(* the queue and `k` is 0, and a frame moves `k` one op at a time.         *)
(***************************************************************************)
EXTENDS OpfsPersist, WellFoundedInduction, TLAPS

-----------------------------------------------------------------------------
(* Types, with every revision bounded by the clock.                        *)

BodiesTo(n)    == [rev : 0..n, schema : 0..MaxSchema]
SnapshotsTo(n) == [rev : 0..n, schema : 1..MaxSchema, docs : SUBSET Docs,
                   blobs : SUBSET Blobs, bodies : [Docs -> BodiesTo(n)]]
StoresTo(n)    == [rev : 0..n, docs : SUBSET Docs, blobs : SUBSET Blobs,
                   bodies : [Docs -> BodiesTo(n)]]

IndexOps(n) == [file : {<<"index">>}, data : SnapshotsTo(n)]
PrefsOps(n) == [file : {<<"prefs">>}, data : 0..n]
BodyOps(n)  == [file : {"body"} \X Docs, data : BodiesTo(n) \ {NoBody}]
BlobOps     == [file : {"blob"} \X Blobs, data : {1}]
Ops(n)      == IndexOps(n) \cup PrefsOps(n) \cup BodyOps(n) \cup BlobOps

Queues(n) ==
  [bodyOrder : Seq(Docs), bodies : [Docs -> BodiesTo(n)], blobOrder : Seq(Blobs),
   completed : SUBSET Blobs, index : IndexOps(n) \cup {NoWrite},
   prefs : PrefsOps(n) \cup {NoWrite}]

Disks(n) ==
  [index : SnapshotsTo(n), bodies : [Docs -> BodiesTo(n)], blobs : SUBSET Blobs,
   prefs : 0..n]

Types ==
  /\ clock \in Revisions /\ schema \in 1..MaxSchema /\ reloads \in 0..MaxReloads
  /\ mem \in StoresTo(clock) /\ emitting \in BOOLEAN /\ prefs \in 0..clock
  /\ chan \in Seq(Ops(clock))
  /\ \/ writer \in [tries : {1, 2}, write : Ops(clock)]
     \/ writer \in {Idle, NextUp}
  /\ disk \in Disks(clock) /\ failed \subseteq Files
  /\ line \in Seq(SnapshotsTo(clock)) /\ line # <<>>
  /\ prefsLine \in Seq(0..clock) /\ prefsLine # <<>>

\* Bodies in line are those with contents, each once, and so are blobs; the queue takes
\* no blob for stored that is not.
QueueOK(q) ==
  /\ q \in Queues(clock)
  /\ \A d \in Docs : d \in Range(q.bodyOrder) <=> q.bodies[d] # NoBody
  /\ IsInjective(q.bodyOrder) /\ IsInjective(q.blobOrder)
  /\ q.completed \subseteq disk.blobs

-----------------------------------------------------------------------------
(* What is in the pipeline, when the first k ops of chan are in q.         *)

Body(d) == <<"body", d>>
Blob(b) == <<"blob", b>>

\* chan[k+1..n] holds a write of the file.
InChan(k, n, file) == \E i \in k+1..n : chan[i].file = file

\* Before the ops from n on are written, d's file has revision r or a later one, unless its
\* last write failed for good.
Reached(q, k, n, d, r) ==
  \/ \E i \in k+1..n : chan[i].file = Body(d) /\ chan[i].data.rev >= r
  \/ q.bodies[d] # NoBody /\ q.bodies[d].rev >= r
  \/ writer.write.file = Body(d) /\ writer.write.data.rev >= r
  \/ /\ ~InChan(k, n, Body(d)) /\ q.bodies[d] = NoBody /\ writer.write.file # Body(d)
     /\ disk.bodies[d].rev >= r \/ Body(d) \in failed

\* No write of d after the n-th op, pushed or not, takes its file back below r.
NeverBelow(n, d, r) ==
  \A j \in n+1..Len(chan) : chan[j].file = Body(d) => chan[j].data.rev >= r

BlobReached(q, k, n, b) ==
  \/ b \in disk.blobs \/ Blob(b) \in failed \/ writer.write.file = Blob(b)
  \/ b \in Range(q.blobOrder) \/ InChan(k, n, Blob(b))

\* The bodies of a document are written in the order of their revisions.
BodiesInOrder(q, k) ==
  \A d \in Docs :
    /\ \A i, j \in k+1..Len(chan) :
         i < j /\ chan[i].file = Body(d) /\ chan[j].file = Body(d) =>
           chan[i].data.rev < chan[j].data.rev
    /\ \A j \in k+1..Len(chan) : chan[j].file = Body(d) =>
         /\ q.bodies[d].rev < chan[j].data.rev
         /\ writer.write.file = Body(d) => writer.write.data.rev < chan[j].data.rev
    /\ q.bodies[d] # NoBody /\ writer.write.file = Body(d) =>
         writer.write.data.rev < q.bodies[d].rev

\* A payload is ahead of every index that names it, wherever the index is.
PayloadsAhead(q, k) ==
  /\ \A i \in k+1..Len(chan) : chan[i].file = <<"index">> =>
       /\ \A d \in Docs : /\ Reached(q, k, i, d, chan[i].data.bodies[d].rev)
                          /\ NeverBelow(i, d, chan[i].data.bodies[d].rev)
       /\ \A b \in chan[i].data.blobs : BlobReached(q, k, i, b)
  /\ q.index # NoWrite =>
       /\ \A d \in Docs : /\ Reached(q, k, k, d, q.index.data.bodies[d].rev)
                          /\ NeverBelow(k, d, q.index.data.bodies[d].rev)
       /\ \A b \in q.index.data.blobs : BlobReached(q, k, k, b)
  /\ \A b \in mem.blobs : BlobReached(q, k, Len(chan), b)

\* Once the writer has taken an index its payloads have been written, or have failed, and
\* what comes later of a document is no older.
PayloadsWritten(index, q, k) ==
  /\ \A d \in Docs :
       /\ disk.bodies[d].rev >= index.bodies[d].rev \/ Body(d) \in failed
       /\ q.bodies[d] # NoBody => q.bodies[d].rev >= index.bodies[d].rev
       /\ writer.write.file = Body(d) => writer.write.data.rev >= index.bodies[d].rev
       /\ NeverBelow(k, d, index.bodies[d].rev)
  /\ \A b \in index.blobs : b \in disk.blobs \/ Blob(b) \in failed

IndexWritten(q, k) ==
  /\ PayloadsWritten(disk.index, q, k)
  /\ writer.write.file = <<"index">> => PayloadsWritten(writer.write.data, q, k)

\* Indexes are states of the running store, on their way in the order it took them.
IndexesInOrder(q, k) ==
  LET OfLine(s) == /\ s \in Range(line) /\ s.rev > disk.index.rev
                   /\ emitting => s.rev < mem.rev
  IN /\ emitting => disk.index.rev < mem.rev
     /\ writer.write.file = <<"index">> => OfLine(writer.write.data)
     /\ q.index # NoWrite =>
          /\ OfLine(q.index.data)
          /\ writer.write.file = <<"index">> => writer.write.data.rev < q.index.data.rev
     /\ \A i \in k+1..Len(chan) : chan[i].file = <<"index">> =>
          /\ OfLine(chan[i].data)
          /\ writer.write.file = <<"index">> => writer.write.data.rev < chan[i].data.rev
          /\ q.index # NoWrite => q.index.data.rev < chan[i].data.rev
          /\ \A j \in k+1..Len(chan) : j < i /\ chan[j].file = <<"index">> =>
               chan[j].data.rev < chan[i].data.rev

\* w is the last write of its file on its way; `waiting` is that of the queue, NoWrite when
\* there is none; `done` when w has been written.
IsLast(w, waiting, k, done) ==
  \/ \E i \in k+1..Len(chan) :
       chan[i] = w /\ \A j \in i+1..Len(chan) : chan[j].file # w.file
  \/ /\ ~InChan(k, Len(chan), w.file)
     /\ \/ waiting = w
        \/ /\ waiting = NoWrite
           /\ \/ writer.write = w
              \/ writer.write.file # w.file /\ (done \/ w.file \in failed)

\* The latest contents of every file are the last on their way to it.
LatestIsLast(q, k) ==
  /\ emitting \/ Len(line) = 1 \/
       IsLast(Write(<<"index">>, Snapshot(mem, schema)), q.index, k, disk.index.rev = mem.rev)
  /\ Len(prefsLine) = 1 \/ IsLast(Write(<<"prefs">>, prefs), q.prefs, k, disk.prefs = prefs)
  /\ \A d \in Docs :
       \/ mem.bodies[d] = NoBody
       \/ IsLast(Write(Body(d), mem.bodies[d]),
                 IF q.bodies[d] = NoBody THEN NoWrite ELSE Write(Body(d), q.bodies[d]),
                 k, disk.bodies[d] = mem.bodies[d])

Pipeline(q, k) ==
  /\ QueueOK(q) /\ BodiesInOrder(q, k) /\ PayloadsAhead(q, k) /\ IndexWritten(q, k)
  /\ IndexesInOrder(q, k) /\ LatestIsLast(q, k)

\* The states of this session are told apart by their revisions.
LineInOrder ==
  /\ line[Len(line)] = Snapshot(mem, schema)
  /\ \A i, j \in DOMAIN line : i < j => line[i].rev < line[j].rev
  /\ prefsLine[Len(prefsLine)] = prefs

IInv == Types /\ LineInOrder /\ Pipeline(queue, 0)

-----------------------------------------------------------------------------
(* A fold over the channel pushes its ops one by one.  The induction is    *)
(* the well-foundedness of the naturals, applied to a set of them.         *)

LEMMA Naturally ==
  ASSUME NEW S, 0 \in S, \A n \in Nat : n \in S => n + 1 \in S
  PROVE  Nat \subseteq S
<1> SUFFICES ASSUME Nat \ S # {} PROVE FALSE
  OBVIOUS
<1>1. PICK x \in Nat \ S : \A y \in Nat \ S : ~(<<y, x>> \in OpToRel(<, Nat))
  BY NatLessThanWellFounded, WFMin
<1>2. x # 0 /\ x \in Nat
  OBVIOUS
<1>3. x - 1 \in Nat /\ x - 1 < x /\ (x - 1) + 1 = x
  BY <1>2
<1>4. <<x - 1, x>> \in OpToRel(<, Nat)
  BY <1>2, <1>3 DEF OpToRel
<1>5. x - 1 \in S
  BY <1>3, <1>1, <1>4
<1>6. QED
  BY <1>3, <1>5

LEMMA LargestOfRange ==
  ASSUME NEW n \in Nat, NEW T \in SUBSET (1..n), T # {}
  PROVE  Max(T) \in T /\ \A y \in T : Max(T) >= y
<1>1. PICK x \in T : \A y \in T : x >= y
  <2> DEFINE D == {n - y : y \in T}
  <2>1. D # {} /\ \A d \in D : d \in Nat
    <3>1. \A y \in T : n - y \in Nat
      OBVIOUS
    <3>2. QED
      BY <3>1
  <2> HIDE DEF D
  <2>2. PICK d \in D : \A e \in D : ~(<<e, d>> \in OpToRel(<, Nat))
    BY <2>1, NatLessThanWellFounded, WFMin
  <2>3. \A e \in D : d <= e
    <3> SUFFICES ASSUME NEW e \in D, e < d PROVE FALSE
      BY <2>1
    <3>1. <<e, d>> \in OpToRel(<, Nat)
      BY <2>1 DEF OpToRel
    <3>2. QED
      BY <2>2, <3>1
  <2>4. PICK x \in T : d = n - x
    BY DEF D
  <2>5. \A y \in T : d <= n - y
    BY <2>3 DEF D
  <2>6. \A y \in T : x >= y
    BY <2>4, <2>5
  <2>7. QED
    BY <2>6
<1>2. QED
  BY <1>1 DEF Max

\* What FoldLeft defines, for the first n elements of c.
Iterates(g, q, c, n) ==
  g = [s \in SUBSET (1..n) |->
         IF s = {} THEN q ELSE LET x == Max(s) IN Push(g[s \ {x}], c[x])]

LEMMA IteratesOneMore ==
  ASSUME NEW q, NEW c, NEW n \in Nat, NEW g, Iterates(g, q, c, n)
  PROVE  \E h : Iterates(h, q, c, n + 1)
<1> DEFINE h == [s \in SUBSET (1..(n + 1)) |->
                   IF n + 1 \in s THEN Push(g[s \ {n + 1}], c[n + 1]) ELSE g[s]]
<1>1. ASSUME NEW s \in SUBSET (1..(n + 1))
      PROVE  h[s] = IF s = {} THEN q ELSE LET x == Max(s) IN Push(h[s \ {x}], c[x])
  <2>1. CASE n + 1 \in s
    <3>1. Max(s) = n + 1
      <4>1. n + 1 \in Nat /\ s # {}
        BY <2>1
      <4>2. Max(s) \in s /\ \A y \in s : Max(s) >= y
        BY <4>1, LargestOfRange
      <4>3. Max(s) \in 1..(n + 1) /\ Max(s) >= n + 1
        BY <2>1, <4>2
      <4>4. QED
        BY <4>3
    <3>2. s \ {n + 1} \in SUBSET (1..(n + 1)) /\ n + 1 \notin s \ {n + 1}
      BY <2>1
    <3>3. h[s \ {n + 1}] = g[s \ {n + 1}]
      BY <3>2
    <3>4. QED
      BY <2>1, <3>1, <3>3
  <2>2. CASE n + 1 \notin s
    <3>1. s \in SUBSET (1..n)
      BY <2>2
    <3>2. g[s] = IF s = {} THEN q ELSE Push(g[s \ {Max(s)}], c[Max(s)])
      BY <3>1 DEF Iterates
    <3>3. s \ {Max(s)} \in SUBSET (1..(n + 1)) /\ n + 1 \notin s \ {Max(s)}
      BY <2>2
    <3>4. h[s \ {Max(s)}] = g[s \ {Max(s)}]
      BY <3>3
    <3>5. QED
      BY <2>2, <3>2, <3>4
  <2>3. QED
    BY <2>1, <2>2
<1> HIDE DEF h
<1>2. h = [s \in SUBSET (1..(n + 1)) |-> h[s]]
  BY DEF h
<1>3. Iterates(h, q, c, n + 1)
  BY <1>1, <1>2 DEF Iterates
<1>4. QED
  BY <1>3

LEMMA IteratesExists ==
  ASSUME NEW q, NEW c, NEW n \in Nat
  PROVE  \E g : Iterates(g, q, c, n)
<1> DEFINE S == {k \in Nat : \E g : Iterates(g, q, c, k)}
<1>1. 0 \in S
  <2> DEFINE g == [s \in SUBSET (1..0) |-> q]
  <2>1. Iterates(g, q, c, 0)
    <3>1. \A s \in SUBSET (1..0) : s = {}
      OBVIOUS
    <3>2. QED
      BY <3>1 DEF Iterates
  <2>2. QED
    BY <2>1
<1>2. \A k \in Nat : k \in S => k + 1 \in S
  BY IteratesOneMore
<1> HIDE DEF S
<1>3. n \in S
  BY <1>1, <1>2, Naturally
<1>4. QED
  BY <1>3 DEF S

\* A frame's queue is the last of a row of queues, each with one op more than the one
\* before.
LEMMA FoldPushesOneByOne ==
  ASSUME NEW q, NEW n \in Nat, NEW c, DOMAIN c = 1..n
  PROVE  \E g : /\ g[0] = q
                /\ \A i \in 1..n : g[i] = Push(g[i - 1], c[i])
                /\ g[n] = FoldLeft(Push, q, c)
<1> DEFINE iter == CHOOSE it : Iterates(it, q, c, n)
<1>1. FoldLeft(Push, q, c) = iter[1..n]
  BY DEF FoldLeft, MapThenFoldSet, Iterates
<1>2. Iterates(iter, q, c, n)
  BY IteratesExists
<1> HIDE DEF iter
<1> DEFINE g == [i \in 0..n |-> iter[1..i]]
<1>3. g[0] = q
  <2>1. 1..0 = {} /\ 1..0 \in SUBSET (1..n)
    OBVIOUS
  <2>2. QED
    BY <2>1, <1>2 DEF Iterates
<1>4. ASSUME NEW i \in 1..n
      PROVE  g[i] = Push(g[i - 1], c[i])
  <2>1. 1..i \in SUBSET (1..n) /\ 1..i # {} /\ i \in 1..i /\ i \in Nat
    OBVIOUS
  <2>2. Max(1..i) = i
    <3>1. Max(1..i) \in 1..i /\ Max(1..i) >= i
      BY <2>1, LargestOfRange
    <3>2. QED
      BY <3>1
  <2>3. (1..i) \ {i} = 1..(i - 1) /\ i - 1 \in 0..n
    OBVIOUS
  <2>4. iter[1..i] = Push(iter[(1..i) \ {Max(1..i)}], c[Max(1..i)])
    BY <2>1, <1>2 DEF Iterates
  <2>5. g[i] = iter[1..i] /\ g[i - 1] = iter[1..(i - 1)]
    BY <2>3
  <2>6. QED
    BY <2>4, <2>2, <2>3, <2>5
<1>5. g[n] = iter[1..n]
  OBVIOUS
<1> HIDE DEF g
<1>6. QED
  BY <1>1, <1>3, <1>4, <1>5

-----------------------------------------------------------------------------
(* Ops, and what pushing one does.                                         *)

LEMMA OpKinds ==
  ASSUME NEW n \in Nat, NEW w \in Ops(n)
  PROVE  \/ /\ w.file = <<"index">> /\ w.data \in SnapshotsTo(n) /\ w \in IndexOps(n)
            /\ w.file[1] = "index"
         \/ /\ w.file = <<"prefs">> /\ w.data \in 0..n /\ w \in PrefsOps(n)
            /\ w.file[1] = "prefs"
         \/ \E d \in Docs : /\ w.file = Body(d) /\ w.data \in BodiesTo(n) \ {NoBody}
                            /\ w = Write(Body(d), w.data)
                            /\ w.file[1] = "body" /\ w.file[2] = d
         \/ \E b \in Blobs : /\ w.file = Blob(b) /\ w = Write(Blob(b), 1)
                             /\ w.file[1] = "blob" /\ w.file[2] = b
<1>1. CASE w \in IndexOps(n)
  BY <1>1 DEF IndexOps
<1>2. CASE w \in PrefsOps(n)
  BY <1>2 DEF PrefsOps
<1>3. CASE w \in BodyOps(n)
  BY <1>3 DEF BodyOps, Body, Write
<1>4. CASE w \in BlobOps
  BY <1>4 DEF BlobOps, Blob, Write
<1>5. QED
  BY <1>1, <1>2, <1>3, <1>4 DEF Ops

LEMMA OpIsAWrite ==
  ASSUME NEW n \in Nat, NEW w \in Ops(n)
  PROVE  /\ w # NoWrite /\ w.file # <<"none">> /\ w.file \in Files
         /\ w = Write(w.file, w.data)
BY DEF Ops, IndexOps, PrefsOps, BodyOps, BlobOps, NoWrite, Write, Files

LEMMA FilesDiffer ==
  /\ \A d, e : Body(d) = Body(e) => d = e
  /\ \A d, b : Body(d) # Blob(b)
  /\ \A b, c : Blob(b) = Blob(c) => b = c
  /\ \A d : Body(d) \notin {<<"index">>, <<"prefs">>, <<"none">>}
  /\ \A b : Blob(b) \notin {<<"index">>, <<"prefs">>, <<"none">>}
  /\ <<"index">> # <<"prefs">> /\ <<"index">> # <<"none">> /\ <<"prefs">> # <<"none">>
BY DEF Body, Blob

LEMMA TypesGrow ==
  ASSUME NEW n \in Nat
  PROVE  /\ BodiesTo(n) \subseteq BodiesTo(n + 1)
         /\ SnapshotsTo(n) \subseteq SnapshotsTo(n + 1)
         /\ Ops(n) \subseteq Ops(n + 1)
         /\ Queues(n) \subseteq Queues(n + 1) /\ Disks(n) \subseteq Disks(n + 1)
<1>1. BodiesTo(n) \subseteq BodiesTo(n + 1)
  BY DEF BodiesTo
<1>2. [Docs -> BodiesTo(n)] \subseteq [Docs -> BodiesTo(n + 1)]
  BY <1>1
<1>3. SnapshotsTo(n) \subseteq SnapshotsTo(n + 1)
  BY <1>2 DEF SnapshotsTo
<1>4. /\ IndexOps(n) \subseteq IndexOps(n + 1) /\ PrefsOps(n) \subseteq PrefsOps(n + 1)
      /\ BodyOps(n) \subseteq BodyOps(n + 1)
  BY <1>1, <1>3 DEF IndexOps, PrefsOps, BodyOps
<1>5. QED
  BY <1>1, <1>2, <1>3, <1>4 DEF Ops, Queues, Disks

LEMMA OpsOfFiles ==
  ASSUME NEW n \in Nat, NEW w \in Ops(n)
  PROVE  /\ \A d : w.file = Body(d) => /\ d \in Docs /\ w.data \in BodiesTo(n)
                                       /\ w.data # NoBody /\ w = Write(Body(d), w.data)
         /\ \A b : w.file = Blob(b) => b \in Blobs /\ w = Write(Blob(b), 1)
         /\ w.file = <<"index">> =>
              /\ w \in IndexOps(n) /\ w.data \in SnapshotsTo(n)
              /\ w = Write(<<"index">>, w.data)
         /\ w.file = <<"prefs">> =>
              /\ w \in PrefsOps(n) /\ w.data \in 0..n
              /\ w = Write(<<"prefs">>, w.data)
<1>1. CASE w \in IndexOps(n)
  BY <1>1, FilesDiffer DEF IndexOps, Write
<1>2. CASE w \in PrefsOps(n)
  BY <1>2, FilesDiffer DEF PrefsOps, Write
<1>3. ASSUME NEW d \in Docs, w.file = Body(d), w.data \in BodiesTo(n) \ {NoBody},
             w = Write(Body(d), w.data)
      PROVE  /\ \A e : w.file = Body(e) => /\ e \in Docs /\ w.data \in BodiesTo(n)
                                           /\ w.data # NoBody /\ w = Write(Body(e), w.data)
             /\ \A b : w.file # Blob(b)
             /\ w.file # <<"index">> /\ w.file # <<"prefs">>
  BY <1>3, FilesDiffer
<1>4. ASSUME NEW b \in Blobs, w.file = Blob(b), w = Write(Blob(b), 1)
      PROVE  /\ \A e : w.file # Body(e)
             /\ \A c : w.file = Blob(c) => c \in Blobs /\ w = Write(Blob(c), 1)
             /\ w.file # <<"index">> /\ w.file # <<"prefs">>
  BY <1>4, FilesDiffer
<1>5. QED
  BY <1>1, <1>2, <1>3, <1>4, OpKinds

LEMMA NoBodyType == \A n \in Nat : NoBody \in BodiesTo(n) /\ NoBody.rev = 0
BY BoundsAssumption DEF NoBody, BodiesTo

LEMMA RangeOfAppend ==
  ASSUME NEW S, NEW s \in Seq(S), NEW e \in S
  PROVE  /\ Append(s, e) \in Seq(S)
         /\ \A x : x \in Range(Append(s, e)) <=> x \in Range(s) \/ x = e
         /\ IsInjective(s) /\ e \notin Range(s) => IsInjective(Append(s, e))
<1>1. /\ Append(s, e) \in Seq(S) /\ Len(s) \in Nat /\ DOMAIN s = 1..Len(s)
      /\ DOMAIN Append(s, e) = 1..(Len(s) + 1)
      /\ \A i \in 1..Len(s) : Append(s, e)[i] = s[i]
      /\ Append(s, e)[Len(s) + 1] = e
  OBVIOUS
<1>2. ASSUME NEW x PROVE x \in Range(Append(s, e)) <=> x \in Range(s) \/ x = e
  <2>1. x \in Range(Append(s, e)) <=> \E i \in 1..(Len(s) + 1) : Append(s, e)[i] = x
    BY <1>1 DEF Range
  <2>2. x \in Range(s) <=> \E i \in 1..Len(s) : s[i] = x
    BY <1>1 DEF Range
  <2>3. QED
    BY <2>1, <2>2, <1>1
<1>3. ASSUME IsInjective(s), e \notin Range(s)
      PROVE  IsInjective(Append(s, e))
  <2>1. \A i \in 1..Len(s) : s[i] # e
    BY <1>1, <1>3 DEF Range
  <2>2. QED
    BY <1>1, <1>3, <2>1 DEF IsInjective
<1>4. QED
  BY <1>1, <1>2, <1>3

\* What a push leaves, field by field.
PushOf(q, w, p) ==
  /\ p.index = IF w.file = <<"index">> THEN w ELSE q.index
  /\ p.prefs = IF w.file = <<"prefs">> THEN w ELSE q.prefs
  /\ p.completed = q.completed
  /\ \A d \in Docs : p.bodies[d] = IF w.file = Body(d) THEN w.data ELSE q.bodies[d]
  /\ \A b \in Blobs :
       /\ b \in Range(q.blobOrder) => b \in Range(p.blobOrder)
       /\ w.file = Blob(b) => b \in q.completed \cup Range(p.blobOrder)

LEMMA PushKeepsQueue ==
  ASSUME NEW n \in Nat, NEW w \in Ops(n), NEW q \in Queues(n),
         \A d \in Docs : d \in Range(q.bodyOrder) <=> q.bodies[d] # NoBody,
         IsInjective(q.bodyOrder), IsInjective(q.blobOrder)
  PROVE  LET p == Push(q, w)
         IN /\ PushOf(q, w, p) /\ p \in Queues(n)
            /\ \A d \in Docs : d \in Range(p.bodyOrder) <=> p.bodies[d] # NoBody
            /\ IsInjective(p.bodyOrder) /\ IsInjective(p.blobOrder)
<1> DEFINE p == Push(q, w)
           G == /\ PushOf(q, w, p) /\ p \in Queues(n)
                /\ \A d \in Docs : d \in Range(p.bodyOrder) <=> p.bodies[d] # NoBody
                /\ IsInjective(p.bodyOrder) /\ IsInjective(p.blobOrder)
<1> USE FilesDiffer
<1>0. /\ q.bodyOrder \in Seq(Docs) /\ q.bodies \in [Docs -> BodiesTo(n)]
      /\ q.blobOrder \in Seq(Blobs)
  BY DEF Queues
<1>1. CASE w.file = <<"index">> /\ w \in IndexOps(n) /\ w.file[1] = "index"
  <2>1. p = [q EXCEPT !.index = w]
    BY <1>1 DEF Push
  <2>2. QED
    BY <1>1, <2>1 DEF Queues, PushOf
<1>2. CASE w.file = <<"prefs">> /\ w \in PrefsOps(n) /\ w.file[1] = "prefs"
  <2>1. p = [q EXCEPT !.prefs = w]
    BY <1>2 DEF Push
  <2>2. QED
    BY <1>2, <2>1 DEF Queues, PushOf
<1>3. ASSUME NEW d \in Docs, w.file = Body(d), w.data \in BodiesTo(n) \ {NoBody},
             w.file[1] = "body", w.file[2] = d
      PROVE  G
  <2>1. p = PushBody(q, d, w.data)
    BY <1>3 DEF Push
  <2> DEFINE order == IF d \in Range(q.bodyOrder) THEN q.bodyOrder ELSE Append(q.bodyOrder, d)
             bodies == [q.bodies EXCEPT ![d] = w.data]
  <2>2. p = [q EXCEPT !.bodyOrder = order, !.bodies = bodies]
    BY <2>1 DEF PushBody
  <2>3. /\ order \in Seq(Docs) /\ IsInjective(order)
        /\ \A x : x \in Range(order) <=> x \in Range(q.bodyOrder) \/ x = d
    BY <1>0, RangeOfAppend
  <2>4. /\ bodies \in [Docs -> BodiesTo(n)]
        /\ \A e \in Docs : bodies[e] = IF e = d THEN w.data ELSE q.bodies[e]
    BY <1>0, <1>3
  <2> HIDE DEF order, bodies
  <2>5. /\ p \in Queues(n) /\ p.bodyOrder = order /\ p.bodies = bodies
        /\ p.blobOrder = q.blobOrder /\ p.completed = q.completed
        /\ p.index = q.index /\ p.prefs = q.prefs
    BY <2>2, <2>3, <2>4 DEF Queues
  <2> HIDE DEF p
  <2>6. PushOf(q, w, p)
    BY <1>3, <2>5, <2>4 DEF PushOf
  <2>7. QED
    BY <1>3, <2>3, <2>4, <2>5, <2>6
<1>4. ASSUME NEW b \in Blobs, w.file = Blob(b), w.file[1] = "blob", w.file[2] = b
      PROVE  G
  <2>1. p = PushBlob(q, b)
    BY <1>4 DEF Push
  <2>2. CASE b \in q.completed \cup Range(q.blobOrder)
    <3>1. p = q
      BY <2>1, <2>2 DEF PushBlob
    <3> HIDE DEF p
    <3>2. PushOf(q, w, p)
      BY <1>4, <2>2, <3>1 DEF PushOf
    <3>3. QED
      BY <3>1, <3>2
  <2>3. CASE b \notin q.completed \cup Range(q.blobOrder)
    <3> DEFINE order == Append(q.blobOrder, b)
    <3>1. p = [q EXCEPT !.blobOrder = order]
      BY <2>1, <2>3 DEF PushBlob
    <3>2. /\ order \in Seq(Blobs) /\ IsInjective(order)
          /\ \A x : x \in Range(order) <=> x \in Range(q.blobOrder) \/ x = b
      BY <1>0, <2>3, RangeOfAppend
    <3> HIDE DEF order
    <3>3. /\ p \in Queues(n) /\ p.blobOrder = order /\ p.bodyOrder = q.bodyOrder
          /\ p.bodies = q.bodies /\ p.completed = q.completed
          /\ p.index = q.index /\ p.prefs = q.prefs
      BY <3>1, <3>2 DEF Queues
    <3> HIDE DEF p
    <3>4. PushOf(q, w, p)
      BY <1>4, <3>2, <3>3 DEF PushOf
    <3>5. QED
      BY <3>2, <3>3, <3>4
  <2>4. QED
    BY <2>2, <2>3
<1>5. QED
  BY <1>1, <1>2, <1>3, <1>4, OpKinds

-----------------------------------------------------------------------------
(* A frame: the pipeline before and after one more op is pushed.           *)

\* q becomes p as the op after the k-th is pushed.
Pushed(q, p, k) ==
  /\ k \in Nat /\ Len(chan) \in Nat /\ k + 1 <= Len(chan)
  /\ \A i \in 1..Len(chan) : chan[i] \in Ops(clock)
  /\ PushOf(q, chan[k + 1], p)

LEMMA ReachedAfterPush ==
  ASSUME NEW q \in Queues(clock), NEW p \in Queues(clock), NEW k, Pushed(q, p, k),
         NEW d \in Docs, NEW r \in Int, NEW n \in k..Len(chan), clock \in Nat
  PROVE  /\ n >= k + 1 /\ BodiesInOrder(q, k) /\ Reached(q, k, n, d, r) =>
              Reached(p, k + 1, n, d, r)
         /\ n = k /\ NeverBelow(k, d, r) /\ Reached(q, k, k, d, r) =>
              Reached(p, k + 1, k + 1, d, r)
<1> DEFINE w == chan[k + 1]
<1>1. /\ k \in Nat /\ Len(chan) \in Nat /\ k + 1 \in k + 1..Len(chan)
      /\ w \in Ops(clock) /\ n \in Int
      /\ p.bodies[d] = IF w.file = Body(d) THEN w.data ELSE q.bodies[d]
  BY DEF Pushed, PushOf
<1>2. w.file = Body(d) => w.data \in BodiesTo(clock) /\ w.data # NoBody
  BY <1>1, OpsOfFiles
<1>3. q.bodies[d] \in BodiesTo(clock) /\ q.bodies[d].rev \in Int
      /\ (w.file = Body(d) => w.data.rev \in Int)
  BY <1>2 DEF Queues, BodiesTo
<1>4. ASSUME n >= k + 1, BodiesInOrder(q, k), Reached(q, k, n, d, r)
      PROVE  Reached(p, k + 1, n, d, r)
  <2>1. ASSUME NEW i \in k + 1..n, chan[i].file = Body(d), chan[i].data.rev >= r
        PROVE  Reached(p, k + 1, n, d, r)
    <3>1. CASE i = k + 1
      BY <2>1, <3>1, <1>1, <1>2 DEF Reached
    <3>2. CASE i # k + 1
      <4>1. i \in (k + 1) + 1..n
        BY <3>2, <1>1
      <4>2. QED
        BY <2>1, <4>1 DEF Reached
    <3>3. QED
      BY <3>1, <3>2
  <2>2. CASE q.bodies[d] # NoBody /\ q.bodies[d].rev >= r
    <3>1. w.file = Body(d) => q.bodies[d].rev < w.data.rev
      BY <1>1, <1>4 DEF BodiesInOrder
    <3>2. w.file = Body(d) => w.data.rev >= r
      BY <2>2, <1>3, <3>1
    <3>3. QED
      BY <2>2, <3>2, <1>1, <1>2 DEF Reached
  <2>3. CASE writer.write.file = Body(d) /\ writer.write.data.rev >= r
    BY <2>3 DEF Reached
  <2>4. CASE /\ ~InChan(k, n, Body(d)) /\ q.bodies[d] = NoBody
             /\ writer.write.file # Body(d)
             /\ disk.bodies[d].rev >= r \/ Body(d) \in failed
    <3>1. k + 1 \in k + 1..n /\ (k + 1) + 1..n \subseteq k + 1..n
      BY <1>4, <1>1
    <3>2. w.file # Body(d) /\ ~InChan(k + 1, n, Body(d))
      BY <2>4, <3>1 DEF InChan
    <3>3. QED
      BY <2>4, <3>2, <1>1 DEF Reached
  <2>5. QED
    BY <1>4, <2>1, <2>2, <2>3, <2>4 DEF Reached
<1>5. ASSUME n = k, NeverBelow(k, d, r), Reached(q, k, k, d, r)
      PROVE  Reached(p, k + 1, k + 1, d, r)
  <2>1. w.file = Body(d) => w.data.rev >= r
    BY <1>1, <1>5 DEF NeverBelow
  <2>2. ~InChan(k + 1, k + 1, Body(d)) /\ ~(\E i \in k + 1..k : TRUE)
    BY <1>1 DEF InChan
  <2>3. QED
    BY <1>5, <2>1, <2>2, <1>1, <1>2 DEF Reached
<1>6. QED
  BY <1>4, <1>5

LEMMA BlobReachedAfterPush ==
  ASSUME NEW q, NEW p, NEW k, Pushed(q, p, k), q.completed \subseteq disk.blobs,
         NEW b \in Blobs, NEW n \in k..Len(chan)
  PROVE  /\ n >= k + 1 /\ BlobReached(q, k, n, b) => BlobReached(p, k + 1, n, b)
         /\ n = k /\ BlobReached(q, k, k, b) => BlobReached(p, k + 1, k + 1, b)
<1>1. /\ k \in Nat /\ Len(chan) \in Nat /\ n \in Int
      /\ b \in Range(q.blobOrder) => b \in Range(p.blobOrder)
      /\ chan[k + 1].file = Blob(b) => b \in disk.blobs \cup Range(p.blobOrder)
  BY DEF Pushed, PushOf
<1>2. \A i \in k + 1..n : i = k + 1 \/ i \in (k + 1) + 1..n
  BY <1>1
<1>3. InChan(k, n, Blob(b)) => chan[k + 1].file = Blob(b) \/ InChan(k + 1, n, Blob(b))
  BY <1>2 DEF InChan
<1>4. ~InChan(k, k, Blob(b))
  BY <1>1 DEF InChan
<1>5. QED
  BY <1>1, <1>3, <1>4 DEF BlobReached

LEMMA IsLastAfterPush ==
  ASSUME NEW k \in Nat, Len(chan) \in Nat, k + 1 <= Len(chan),
         NEW w, NEW waiting, NEW done, IsLast(w, waiting, k, done)
  PROVE  IsLast(w, IF chan[k + 1].file = w.file THEN chan[k + 1] ELSE waiting, k + 1, done)
<1> DEFINE waits == IF chan[k + 1].file = w.file THEN chan[k + 1] ELSE waiting
<1>1. ASSUME NEW i \in k + 1..Len(chan), chan[i] = w,
             \A j \in i + 1..Len(chan) : chan[j].file # w.file
      PROVE  IsLast(w, waits, k + 1, done)
  <2>1. CASE i = k + 1
    <3>1. ~InChan(k + 1, Len(chan), w.file)
      BY <1>1, <2>1 DEF InChan
    <3>2. waits = w
      BY <1>1, <2>1
    <3>3. QED
      BY <3>1, <3>2 DEF IsLast
  <2>2. CASE i # k + 1
    <3>1. i \in (k + 1) + 1..Len(chan)
      BY <2>2
    <3>2. QED
      BY <1>1, <3>1 DEF IsLast
  <2>3. QED
    BY <2>1, <2>2
<1>2. CASE /\ ~InChan(k, Len(chan), w.file)
           /\ \/ waiting = w
              \/ /\ waiting = NoWrite
                 /\ \/ writer.write = w
                    \/ writer.write.file # w.file /\ (done \/ w.file \in failed)
  <2>1. k + 1 \in k + 1..Len(chan) /\ (k + 1) + 1..Len(chan) \subseteq k + 1..Len(chan)
    OBVIOUS
  <2>2. chan[k + 1].file # w.file /\ ~InChan(k + 1, Len(chan), w.file)
    BY <1>2, <2>1 DEF InChan
  <2>3. QED
    BY <1>2, <2>2 DEF IsLast
<1>3. QED
  BY <1>1, <1>2 DEF IsLast

\* Each part of the pipeline's invariant is kept as an op moves from the channel into the
\* queue.
LEMMA PushKeepsPipeline ==
  ASSUME Types, NEW k \in Nat, k + 1 <= Len(chan), NEW q, Pipeline(q, k)
  PROVE  Pipeline(Push(q, chan[k + 1]), k + 1)
<1> DEFINE w == chan[k + 1]
           p == Push(q, w)
<1>1. /\ clock \in Nat /\ Len(chan) \in Nat /\ w \in Ops(clock)
      /\ \A i \in 1..Len(chan) : chan[i] \in Ops(clock)
      /\ DOMAIN chan = 1..Len(chan)
  BY DEF Types, Revisions
<1>2. /\ q \in Queues(clock) /\ p \in Queues(clock) /\ PushOf(q, w, p) /\ QueueOK(p)
      /\ q.completed \subseteq disk.blobs
  BY <1>1, PushKeepsQueue DEF Pipeline, QueueOK, PushOf
<1>3. Pushed(q, p, k)
  BY <1>1, <1>2 DEF Pushed
<1> HIDE DEF p
<1>4. /\ k + 1 \in k + 1..Len(chan) /\ (k + 1) + 1..Len(chan) \subseteq k + 1..Len(chan)
      /\ \A i \in k + 1..Len(chan) : i \in Int /\ i >= k + 1 /\ i <= Len(chan)
      /\ \A i \in (k + 1) + 1..Len(chan) : k + 1 < i
  BY <1>1
<1>5. \A d \in Docs : p.bodies[d] = IF w.file = Body(d) THEN w.data ELSE q.bodies[d]
  BY <1>2 DEF PushOf
<1>6. /\ p.index = IF w.file = <<"index">> THEN w ELSE q.index
      /\ p.prefs = IF w.file = <<"prefs">> THEN w ELSE q.prefs
  BY <1>2 DEF PushOf
<1>7. /\ w.file = <<"index">> => w.data \in SnapshotsTo(clock) /\ w # NoWrite
      /\ w.file = <<"prefs">> => w # NoWrite
      /\ \A d : w.file = Body(d) => /\ w.data \in BodiesTo(clock) /\ w.data # NoBody
                                    /\ w = Write(Body(d), w.data)
  BY <1>1, OpsOfFiles, OpIsAWrite
<1> HIDE DEF w
<1>8. BodiesInOrder(p, k + 1)
  <2> SUFFICES ASSUME NEW d \in Docs
               PROVE  /\ \A i, j \in (k + 1) + 1..Len(chan) :
                           i < j /\ chan[i].file = Body(d) /\ chan[j].file = Body(d) =>
                             chan[i].data.rev < chan[j].data.rev
                      /\ \A j \in (k + 1) + 1..Len(chan) : chan[j].file = Body(d) =>
                           /\ p.bodies[d].rev < chan[j].data.rev
                           /\ writer.write.file = Body(d) =>
                                writer.write.data.rev < chan[j].data.rev
                      /\ p.bodies[d] # NoBody /\ writer.write.file = Body(d) =>
                           writer.write.data.rev < p.bodies[d].rev
    BY DEF BodiesInOrder
  <2>1. BodiesInOrder(q, k)
    BY DEF Pipeline
  <2>2. CASE w.file = Body(d)
    BY <2>1, <2>2, <1>4, <1>5 DEF BodiesInOrder, w
  <2>3. CASE w.file # Body(d)
    BY <2>1, <2>3, <1>4, <1>5 DEF BodiesInOrder
  <2>4. QED
    BY <2>2, <2>3
<1>9. PayloadsAhead(p, k + 1)
  <2>1. PayloadsAhead(q, k) /\ BodiesInOrder(q, k)
    BY DEF Pipeline
  <2>2. ASSUME NEW i \in (k + 1) + 1..Len(chan), chan[i].file = <<"index">>
        PROVE  /\ \A d \in Docs : /\ Reached(p, k + 1, i, d, chan[i].data.bodies[d].rev)
                                  /\ NeverBelow(i, d, chan[i].data.bodies[d].rev)
               /\ \A b \in chan[i].data.blobs : BlobReached(p, k + 1, i, b)
    <3>1. i \in k + 1..Len(chan) /\ i \in k..Len(chan) /\ i >= k + 1 /\ i \in 1..Len(chan)
      BY <1>4, <1>1
    <3>2. chan[i].data \in SnapshotsTo(clock)
      BY <3>1, <1>1, <2>2, OpsOfFiles
    <3>3. ASSUME NEW d \in Docs
          PROVE  /\ Reached(p, k + 1, i, d, chan[i].data.bodies[d].rev)
                 /\ NeverBelow(i, d, chan[i].data.bodies[d].rev)
      <4>1. chan[i].data.bodies[d].rev \in Int
        BY <3>2 DEF SnapshotsTo, BodiesTo
      <4>2. /\ Reached(q, k, i, d, chan[i].data.bodies[d].rev)
            /\ NeverBelow(i, d, chan[i].data.bodies[d].rev)
        BY <2>1, <2>2, <3>1 DEF PayloadsAhead
      <4>3. QED
        BY <4>1, <4>2, <3>1, <1>1, <1>2, <1>3, <2>1, ReachedAfterPush
    <3>4. ASSUME NEW b \in chan[i].data.blobs PROVE BlobReached(p, k + 1, i, b)
      <4>1. b \in Blobs
        BY <3>2 DEF SnapshotsTo
      <4>2. BlobReached(q, k, i, b)
        BY <2>1, <2>2, <3>1 DEF PayloadsAhead
      <4>3. QED
        BY <4>1, <4>2, <3>1, <1>2, <1>3, BlobReachedAfterPush
    <3>5. QED
      BY <3>3, <3>4
  <2>3. ASSUME p.index # NoWrite
        PROVE  /\ \A d \in Docs :
                    /\ Reached(p, k + 1, k + 1, d, p.index.data.bodies[d].rev)
                    /\ NeverBelow(k + 1, d, p.index.data.bodies[d].rev)
               /\ \A b \in p.index.data.blobs : BlobReached(p, k + 1, k + 1, b)
    <3>1. k + 1 \in k..Len(chan) /\ k \in k..Len(chan) /\ k + 1 >= k + 1
      BY <1>1
    <3>2. p.index.data \in SnapshotsTo(clock)
      BY <1>2, <2>3 DEF Queues, IndexOps
    <3>3. ASSUME NEW d \in Docs
          PROVE  /\ Reached(p, k + 1, k + 1, d, p.index.data.bodies[d].rev)
                 /\ NeverBelow(k + 1, d, p.index.data.bodies[d].rev)
      <4>1. p.index.data.bodies[d].rev \in Int
        BY <3>2 DEF SnapshotsTo, BodiesTo
      <4>2. CASE w.file = <<"index">>
        <5>1. /\ Reached(q, k, k + 1, d, p.index.data.bodies[d].rev)
              /\ NeverBelow(k + 1, d, p.index.data.bodies[d].rev)
          BY <2>1, <4>2, <1>4, <1>6 DEF PayloadsAhead, w
        <5>2. QED
          BY <5>1, <4>1, <3>1, <1>1, <1>2, <1>3, <2>1, ReachedAfterPush
      <4>3. CASE w.file # <<"index">>
        <5>1. /\ Reached(q, k, k, d, p.index.data.bodies[d].rev)
              /\ NeverBelow(k, d, p.index.data.bodies[d].rev)
          BY <2>1, <2>3, <4>3, <1>6 DEF PayloadsAhead
        <5>2. NeverBelow(k + 1, d, p.index.data.bodies[d].rev)
          BY <5>1, <1>4 DEF NeverBelow
        <5>3. QED
          BY <5>1, <5>2, <4>1, <3>1, <1>1, <1>2, <1>3, ReachedAfterPush
      <4>4. QED
        BY <4>2, <4>3
    <3>4. ASSUME NEW b \in p.index.data.blobs PROVE BlobReached(p, k + 1, k + 1, b)
      <4>1. b \in Blobs
        BY <3>2 DEF SnapshotsTo
      <4>2. CASE w.file = <<"index">>
        <5>1. BlobReached(q, k, k + 1, b)
          BY <2>1, <4>2, <1>4, <1>6 DEF PayloadsAhead, w
        <5>2. QED
          BY <5>1, <4>1, <3>1, <1>2, <1>3, BlobReachedAfterPush
      <4>3. CASE w.file # <<"index">>
        <5>1. BlobReached(q, k, k, b)
          BY <2>1, <2>3, <4>3, <1>6 DEF PayloadsAhead
        <5>2. QED
          BY <5>1, <4>1, <3>1, <1>2, <1>3, BlobReachedAfterPush
      <4>4. QED
        BY <4>2, <4>3
    <3>5. QED
      BY <3>3, <3>4
  <2>4. ASSUME NEW b \in mem.blobs PROVE BlobReached(p, k + 1, Len(chan), b)
    <3>1. b \in Blobs /\ Len(chan) \in k..Len(chan) /\ Len(chan) >= k + 1
      BY <1>1 DEF Types, StoresTo
    <3>2. BlobReached(q, k, Len(chan), b)
      BY <2>1 DEF PayloadsAhead
    <3>3. QED
      BY <3>1, <3>2, <1>2, <1>3, BlobReachedAfterPush
  <2>5. QED
    BY <2>2, <2>3, <2>4 DEF PayloadsAhead
<1>10. IndexWritten(p, k + 1)
  <2>1. ASSUME NEW s, PayloadsWritten(s, q, k)
        PROVE  PayloadsWritten(s, p, k + 1)
    BY <2>1, <1>4, <1>5 DEF PayloadsWritten, NeverBelow, w
  <2>2. QED
    BY <2>1 DEF Pipeline, IndexWritten
<1>11. IndexesInOrder(p, k + 1)
  <2>1. IndexesInOrder(q, k)
    BY DEF Pipeline
  <2>2. CASE w.file = <<"index">>
    BY <2>1, <2>2, <1>4, <1>6, <1>7 DEF IndexesInOrder, w
  <2>3. CASE w.file # <<"index">>
    BY <2>1, <2>3, <1>4, <1>6 DEF IndexesInOrder
  <2>4. QED
    BY <2>2, <2>3
<1>12. LatestIsLast(p, k + 1)
  <2>1. LatestIsLast(q, k)
    BY DEF Pipeline
  <2>2. ASSUME NEW x, NEW waiting, NEW done, IsLast(x, waiting, k, done)
        PROVE  IsLast(x, IF w.file = x.file THEN w ELSE waiting, k + 1, done)
    BY <2>2, <1>1, IsLastAfterPush DEF w
  <2>3. emitting \/ Len(line) = 1 \/
          IsLast(Write(<<"index">>, Snapshot(mem, schema)), p.index, k + 1,
                 disk.index.rev = mem.rev)
    BY <2>1, <2>2, <1>6 DEF LatestIsLast, Write
  <2>4. Len(prefsLine) = 1 \/
          IsLast(Write(<<"prefs">>, prefs), p.prefs, k + 1, disk.prefs = prefs)
    BY <2>1, <2>2, <1>6 DEF LatestIsLast, Write
  <2>5. ASSUME NEW d \in Docs, mem.bodies[d] # NoBody
        PROVE  IsLast(Write(Body(d), mem.bodies[d]),
                 IF p.bodies[d] = NoBody THEN NoWrite ELSE Write(Body(d), p.bodies[d]),
                 k + 1, disk.bodies[d] = mem.bodies[d])
    <3> DEFINE x == Write(Body(d), mem.bodies[d])
               waiting == IF q.bodies[d] = NoBody THEN NoWrite
                          ELSE Write(Body(d), q.bodies[d])
    <3>1. IsLast(x, waiting, k, disk.bodies[d] = mem.bodies[d])
      BY <2>1, <2>5 DEF LatestIsLast
    <3>2. x.file = Body(d)
      BY DEF Write
    <3>3. (IF w.file = x.file THEN w ELSE waiting) =
            IF p.bodies[d] = NoBody THEN NoWrite ELSE Write(Body(d), p.bodies[d])
      BY <3>2, <1>5, <1>7
    <3> HIDE DEF waiting, x
    <3>4. QED
      BY <3>1, <3>3, <2>2 DEF x
  <2>6. QED
    BY <2>3, <2>4, <2>5 DEF LatestIsLast
<1>13. QED
  BY <1>2, <1>8, <1>9, <1>10, <1>11, <1>12 DEF Pipeline, p, w

\* All the ops of the channel are pushed in one frame.
LEMMA FrameKeepsPipeline ==
  ASSUME Types, Pipeline(queue, 0)
  PROVE  Pipeline(FoldLeft(Push, queue, chan), Len(chan))
<1> DEFINE n == Len(chan)
<1>1. n \in Nat /\ DOMAIN chan = 1..n
  BY DEF Types
<1>2. PICK g : /\ g[0] = queue
               /\ \A i \in 1..n : g[i] = Push(g[i - 1], chan[i])
               /\ g[n] = FoldLeft(Push, queue, chan)
  BY <1>1, FoldPushesOneByOne
<1> DEFINE S == {k \in Nat : k <= n => Pipeline(g[k], k)}
<1>3. 0 \in S
  BY <1>2
<1>4. ASSUME NEW k \in Nat, k \in S PROVE k + 1 \in S
  <2>1. SUFFICES ASSUME k + 1 <= n PROVE Pipeline(g[k + 1], k + 1)
    OBVIOUS
  <2>2. Pipeline(g[k], k)
    BY <1>4, <2>1, <1>1
  <2>3. g[k + 1] = Push(g[k], chan[k + 1])
    <3>1. k + 1 \in 1..n /\ (k + 1) - 1 = k
      BY <2>1, <1>1
    <3>2. QED
      BY <3>1, <1>2
  <2>4. QED
    BY <2>1, <2>2, <2>3, PushKeepsPipeline
<1> HIDE DEF S
<1>5. n \in S
  BY <1>1, <1>3, <1>4, Naturally
<1>6. QED
  BY <1>1, <1>2, <1>5 DEF S

\* An empty channel: nothing is in it.
LEMMA Drained ==
  ASSUME NEW n \in Nat
  PROVE  \A i \in n + 1..n : FALSE
OBVIOUS

\* The pipeline does not depend on ops of the channel that are in the queue already.
LEMMA FrameInvariant ==
  ASSUME IInv, Frame
  PROVE  IInv'
<1> DEFINE n == Len(chan)
<1>1. /\ n \in Nat /\ chan' = <<>> /\ Len(chan') = 0
      /\ Pipeline(queue', n)
      /\ UNCHANGED <<clock, schema, reloads, mem, emitting, prefs, disk, failed, line,
                     prefsLine>>
      /\ writer.write' = writer.write
      /\ writer' \in {writer, NextUp} /\ (writer' # writer => writer = Idle)
  <2>1. n \in Nat /\ Pipeline(queue', n)
    BY FrameKeepsPipeline DEF IInv, Frame, Types
  <2>2. writer.write' = writer.write
    BY DEF Frame, Idle, NextUp
  <2>3. QED
    BY <2>1, <2>2 DEF Frame
<1>2. Types'
  BY <1>1 DEF IInv, Types
<1>3. LineInOrder'
  BY <1>1 DEF IInv, LineInOrder
<1>4. \A i \in n + 1..n : FALSE
  BY <1>1, Drained
<1>5. \A i \in 0 + 1..0 : FALSE
  BY Drained
<1>6. ASSUME NEW file PROVE InChan(0, 0, file)' = InChan(n, n, file)
  BY <1>4, <1>5 DEF InChan
<1>7. QueueOK(queue)'
  BY <1>1 DEF Pipeline, QueueOK
<1>8. BodiesInOrder(queue, 0)'
  BY <1>1, <1>5 DEF Pipeline, BodiesInOrder
<1>9. PayloadsAhead(queue, 0)'
  <2>1. PayloadsAhead(queue', n)
    BY <1>1 DEF Pipeline
  <2>2. ASSUME NEW d, NEW r, Reached(queue', n, n, d, r)
        PROVE  Reached(queue, 0, 0, d, r)'
    BY <2>2, <1>1, <1>4, <1>5 DEF Reached, InChan
  <2>3. ASSUME NEW b, BlobReached(queue', n, n, b)
        PROVE  BlobReached(queue, 0, 0, b)'
    BY <2>3, <1>1, <1>4, <1>5 DEF BlobReached, InChan
  <2>4. ASSUME NEW d, NEW r PROVE NeverBelow(0, d, r)'
    BY <1>1, <1>5 DEF NeverBelow
  <2>5. QED
    BY <2>1, <2>2, <2>3, <2>4, <1>1, <1>5 DEF PayloadsAhead
<1>10. IndexWritten(queue, 0)'
  <2>1. ASSUME NEW s, PayloadsWritten(s, queue', n)
        PROVE  PayloadsWritten(s, queue, 0)'
    BY <2>1, <1>1, <1>5 DEF PayloadsWritten, NeverBelow
  <2>2. IndexWritten(queue', n)
    BY <1>1 DEF Pipeline
  <2>3. QED
    BY <2>1, <2>2, <1>1 DEF IndexWritten
<1>11. IndexesInOrder(queue, 0)'
  BY <1>1, <1>5 DEF Pipeline, IndexesInOrder
<1>12. LatestIsLast(queue, 0)'
  <2>1. ASSUME NEW w, NEW waiting, NEW done, IsLast(w, waiting, n, done)
        PROVE  IsLast(w, waiting, 0, done)'
    BY <2>1, <1>1, <1>4, <1>5 DEF IsLast, InChan
  <2>2. LatestIsLast(queue', n)
    BY <1>1 DEF Pipeline
  <2>3. QED
    BY <2>1, <2>2, <1>1 DEF LatestIsLast, Snapshot
<1>13. QED
  BY <1>2, <1>3, <1>7, <1>8, <1>9, <1>10, <1>11, <1>12 DEF IInv, Pipeline

-----------------------------------------------------------------------------
(* The writer.                                                             *)

LEMMA RangeOfTail ==
  ASSUME NEW S, NEW s \in Seq(S), s # <<>>, IsInjective(s)
  PROVE  /\ Head(s) \in S /\ Tail(s) \in Seq(S) /\ IsInjective(Tail(s))
         /\ \A x : x \in Range(Tail(s)) <=> x \in Range(s) /\ x # Head(s)
         /\ Head(s) \in Range(s)
<1>1. /\ Len(s) \in Nat /\ Len(s) >= 1 /\ DOMAIN s = 1..Len(s) /\ Head(s) = s[1]
      /\ Tail(s) \in Seq(S) /\ DOMAIN Tail(s) = 1..(Len(s) - 1) /\ Head(s) \in S
      /\ \A i \in 1..(Len(s) - 1) : Tail(s)[i] = s[i + 1]
  OBVIOUS
<1>2. \A i, j \in 1..Len(s) : s[i] = s[j] => i = j
  BY <1>1 DEF IsInjective
<1>3. IsInjective(Tail(s))
  BY <1>1, <1>2 DEF IsInjective
<1>4. ASSUME NEW x, x \in Range(Tail(s)) PROVE x \in Range(s) /\ x # Head(s)
  <2>1. PICK i \in 1..(Len(s) - 1) : Tail(s)[i] = x
    BY <1>1, <1>4 DEF Range
  <2>2. i + 1 \in 1..Len(s) /\ s[i + 1] = x /\ i + 1 # 1 /\ 1 \in 1..Len(s)
    BY <1>1, <2>1
  <2>3. QED
    BY <1>1, <1>2, <2>2 DEF Range
<1>5. ASSUME NEW x, x \in Range(s), x # Head(s) PROVE x \in Range(Tail(s))
  <2>1. PICK i \in 1..Len(s) : s[i] = x
    BY <1>1, <1>5 DEF Range
  <2>2. i # 1 /\ i - 1 \in 1..(Len(s) - 1) /\ (i - 1) + 1 = i
    BY <1>1, <1>5, <2>1
  <2>3. QED
    BY <1>1, <2>1, <2>2 DEF Range
<1>6. Head(s) \in Range(s)
  BY <1>1 DEF Range
<1>7. QED
  BY <1>1, <1>3, <1>4, <1>5, <1>6

LEMMA RangeOfEmpty == \A x : x \notin Range(<<>>)
BY DEF Range

\* The writer takes a body, a blob, the index when no payload is left, or the preferences,
\* and stops when there is nothing.
TakesBody(d) ==
  /\ d \in Docs /\ queue.bodies[d] # NoBody
  /\ writer' = [tries |-> 1, write |-> Write(Body(d), queue.bodies[d])]
  /\ \A e \in Docs : queue'.bodies[e] = IF e = d THEN NoBody ELSE queue.bodies[e]
  /\ queue'.index = queue.index /\ queue'.prefs = queue.prefs
  /\ queue'.blobOrder = queue.blobOrder

TakesBlob(b) ==
  /\ b \in Blobs
  /\ writer' = [tries |-> 1, write |-> Write(Blob(b), 1)]
  /\ \A x : x \in Range(queue.blobOrder) <=> x \in Range(queue'.blobOrder) \/ x = b
  /\ queue'.index = queue.index /\ queue'.prefs = queue.prefs
  /\ queue'.bodies = queue.bodies

TakesIndex ==
  /\ \A d \in Docs : queue.bodies[d] = NoBody
  /\ \A b : b \notin Range(queue.blobOrder)
  /\ queue.index # NoWrite /\ writer' = [tries |-> 1, write |-> queue.index]
  /\ queue'.index = NoWrite /\ queue'.prefs = queue.prefs
  /\ queue'.bodies = queue.bodies /\ queue'.blobOrder = queue.blobOrder

TakesPrefs ==
  /\ queue.prefs # NoWrite /\ writer' = [tries |-> 1, write |-> queue.prefs]
  /\ queue'.prefs = NoWrite /\ queue'.index = queue.index
  /\ queue'.bodies = queue.bodies /\ queue'.blobOrder = queue.blobOrder

TakesNothing == queue' = queue /\ writer' = Idle

LEMMA TakeNextTakes ==
  ASSUME Types, QueueOK(queue), TakeNext
  PROVE  /\ \/ \E d : TakesBody(d)
            \/ \E b : TakesBlob(b)
            \/ TakesIndex \/ TakesPrefs \/ TakesNothing
         /\ QueueOK(queue)'
<1> DEFINE next == PopNext(queue)
           Takes == \/ \E d : TakesBody(d)
                    \/ \E b : TakesBlob(b)
                    \/ TakesIndex \/ TakesPrefs \/ TakesNothing
<1>1. /\ queue' = next.rest /\ disk' = disk /\ clock' = clock
      /\ writer' = IF next.write = NoWrite THEN Idle ELSE [tries |-> 1, write |-> next.write]
  BY DEF TakeNext
<1>2. /\ queue \in Queues(clock)
      /\ queue.bodyOrder \in Seq(Docs) /\ queue.blobOrder \in Seq(Blobs)
      /\ queue.bodies \in [Docs -> BodiesTo(clock)]
      /\ IsInjective(queue.bodyOrder) /\ IsInjective(queue.blobOrder)
      /\ queue.index \in IndexOps(clock) \cup {NoWrite}
      /\ queue.prefs \in PrefsOps(clock) \cup {NoWrite}
      /\ queue.completed \subseteq disk.blobs
      /\ clock \in Nat
  BY DEF QueueOK, Queues, Types, Revisions
<1>3. \A d \in Docs : d \in Range(queue.bodyOrder) <=> queue.bodies[d] # NoBody
  BY DEF QueueOK
<1>4. CASE queue.bodyOrder # <<>>
  <2> DEFINE d == Head(queue.bodyOrder)
             order == Tail(queue.bodyOrder)
             bodies == [queue.bodies EXCEPT ![d] = NoBody]
  <2>1. /\ d \in Docs /\ order \in Seq(Docs) /\ IsInjective(order)
        /\ \A x : x \in Range(order) <=> x \in Range(queue.bodyOrder) /\ x # d
        /\ d \in Range(queue.bodyOrder)
    BY <1>2, <1>4, RangeOfTail
  <2>2. /\ next.write = Write(Body(d), queue.bodies[d])
        /\ next.rest = [queue EXCEPT !.bodyOrder = order, !.bodies = bodies]
    BY <1>4 DEF PopNext, TakeBody, Taken, Body
  <2> HIDE DEF d, order, next
  <2>3. /\ bodies \in [Docs -> BodiesTo(clock)]
        /\ \A e \in Docs : bodies[e] = IF e = d THEN NoBody ELSE queue.bodies[e]
    BY <1>2, <2>1, NoBodyType
  <2> HIDE DEF bodies
  <2>4. /\ queue' \in Queues(clock) /\ queue'.bodyOrder = order /\ queue'.bodies = bodies
        /\ queue'.blobOrder = queue.blobOrder /\ queue'.completed = queue.completed
        /\ queue'.index = queue.index /\ queue'.prefs = queue.prefs
    BY <1>1, <1>2, <2>1, <2>2, <2>3 DEF Queues
  <2>5. QueueOK(queue)'
    BY <1>1, <1>2, <1>3, <2>1, <2>3, <2>4 DEF QueueOK
  <2>6. next.write # NoWrite
    BY <2>2 DEF Write, NoWrite, Body
  <2>7. TakesBody(d)
    BY <1>1, <1>3, <2>1, <2>2, <2>3, <2>4, <2>6 DEF TakesBody
  <2>8. QED
    BY <2>5, <2>7
<1>5. CASE queue.bodyOrder = <<>> /\ queue.blobOrder # <<>>
  <2> DEFINE b == Head(queue.blobOrder)
             order == Tail(queue.blobOrder)
  <2>1. /\ b \in Blobs /\ order \in Seq(Blobs) /\ IsInjective(order)
        /\ \A x : x \in Range(order) <=> x \in Range(queue.blobOrder) /\ x # b
        /\ b \in Range(queue.blobOrder)
    BY <1>2, <1>5, RangeOfTail
  <2>2. /\ next.write = Write(Blob(b), 1)
        /\ next.rest = [queue EXCEPT !.blobOrder = order]
    BY <1>5 DEF PopNext, TakeBlob, Taken, Blob
  <2> HIDE DEF b, order, next
  <2>3. /\ queue' \in Queues(clock) /\ queue'.bodyOrder = queue.bodyOrder
        /\ queue'.bodies = queue.bodies /\ queue'.blobOrder = order
        /\ queue'.completed = queue.completed
        /\ queue'.index = queue.index /\ queue'.prefs = queue.prefs
    BY <1>1, <1>2, <2>1, <2>2 DEF Queues
  <2>4. QueueOK(queue)'
    BY <1>1, <1>2, <1>3, <2>1, <2>3 DEF QueueOK
  <2>5. next.write # NoWrite
    BY <2>2 DEF Write, NoWrite, Blob
  <2>6. TakesBlob(b)
    BY <1>1, <2>1, <2>2, <2>3, <2>5 DEF TakesBlob
  <2>7. QED
    BY <2>4, <2>6
<1>6. CASE queue.bodyOrder = <<>> /\ queue.blobOrder = <<>> /\ queue.index # NoWrite
  <2>1. next.write = queue.index /\ next.rest = [queue EXCEPT !.index = NoWrite]
    BY <1>6 DEF PopNext, TakeIndex, Taken
  <2> HIDE DEF next
  <2>2. /\ queue' \in Queues(clock) /\ queue'.bodyOrder = queue.bodyOrder
        /\ queue'.bodies = queue.bodies /\ queue'.blobOrder = queue.blobOrder
        /\ queue'.completed = queue.completed
        /\ queue'.index = NoWrite /\ queue'.prefs = queue.prefs
    BY <1>1, <1>2, <2>1 DEF Queues
  <2>3. QueueOK(queue)'
    BY <1>1, <1>2, <1>3, <2>2 DEF QueueOK
  <2>4. TakesIndex
    BY <1>1, <1>3, <1>6, <2>1, <2>2, RangeOfEmpty DEF TakesIndex
  <2>5. QED
    BY <2>3, <2>4
<1>7. CASE queue.bodyOrder = <<>> /\ queue.blobOrder = <<>> /\ queue.index = NoWrite
  <2>1. next.write = queue.prefs /\ next.rest = [queue EXCEPT !.prefs = NoWrite]
    BY <1>7 DEF PopNext, TakePrefs, Taken
  <2> HIDE DEF next
  <2>2. /\ queue' \in Queues(clock) /\ queue'.bodyOrder = queue.bodyOrder
        /\ queue'.bodies = queue.bodies /\ queue'.blobOrder = queue.blobOrder
        /\ queue'.completed = queue.completed
        /\ queue'.index = queue.index /\ queue'.prefs = NoWrite
    BY <1>1, <1>2, <2>1 DEF Queues
  <2>3. QueueOK(queue)'
    BY <1>1, <1>2, <1>3, <2>2 DEF QueueOK
  <2>4. CASE queue.prefs # NoWrite
    <3>1. TakesPrefs
      BY <1>1, <2>1, <2>2, <2>4 DEF TakesPrefs
    <3>2. QED
      BY <2>3, <3>1
  <2>5. CASE queue.prefs = NoWrite
    <3>1. queue' = queue
      BY <1>1, <1>2, <2>1, <2>5 DEF Queues
    <3>2. TakesNothing
      BY <1>1, <2>1, <2>5, <3>1 DEF TakesNothing
    <3>3. QED
      BY <2>3, <3>2
  <2>6. QED
    BY <2>4, <2>5
<1>8. QED
  BY <1>4, <1>5, <1>6, <1>7

\* What is taken was the last of its file in the queue, and is the last in the writer.
LEMMA IsLastAfterTake ==
  ASSUME NEW w, NEW waiting, NEW left, NEW done, w.file # <<"none">>,
         writer.write = NoWrite, IsLast(w, waiting, 0, done), UNCHANGED <<chan, failed>>,
         \/ waiting # NoWrite /\ left = NoWrite /\ writer'.write = waiting
         \/ left = waiting /\ writer'.write.file # w.file
  PROVE  IsLast(w, left, 0, done)'
<1>1. writer.write # w
  BY DEF NoWrite, Write
<1>2. \A n : InChan(0, n, w.file)' = InChan(0, n, w.file)
  BY DEF InChan
<1>3. QED
  BY <1>1, <1>2 DEF IsLast

LEMMA TakeNextInvariant ==
  ASSUME IInv, TakeNext
  PROVE  IInv'
<1>1. /\ QueueOK(queue) /\ QueueOK(queue)'
      /\ \/ \E d : TakesBody(d)
         \/ \E b : TakesBlob(b)
         \/ TakesIndex \/ TakesPrefs \/ TakesNothing
  BY TakeNextTakes DEF IInv, Pipeline
<1>2. /\ UNCHANGED <<clock, schema, reloads, mem, emitting, prefs, chan, disk, failed, line,
                     prefsLine>>
      /\ writer = NextUp /\ writer.write = NoWrite /\ writer.write.file = <<"none">>
      /\ clock \in Nat
  BY DEF TakeNext, NextUp, NoWrite, Write, IInv, Types, Revisions
<1>3. /\ queue \in Queues(clock) /\ queue.bodies \in [Docs -> BodiesTo(clock)]
      /\ queue.index # NoWrite =>
           /\ queue.index.file = <<"index">> /\ queue.index.data \in SnapshotsTo(clock)
           /\ queue.index \in Ops(clock)
      /\ queue.prefs # NoWrite => queue.prefs.file = <<"prefs">> /\ queue.prefs \in Ops(clock)
  BY <1>1 DEF QueueOK, Queues, IndexOps, PrefsOps, Ops
<1>4. Idle.write.file = <<"none">> /\ Idle.write = NoWrite
  BY DEF Idle, NoWrite, Write
<1>5. \A e \in Docs : queue'.bodies[e] = queue.bodies[e] \/
                       (queue'.bodies[e] = NoBody /\ TakesBody(e))
  BY <1>1 DEF TakesBody, TakesBlob, TakesIndex, TakesPrefs, TakesNothing
<1>6. \A e \in Docs : writer'.write.file = Body(e) =>
        /\ TakesBody(e) /\ writer'.write = Write(Body(e), queue.bodies[e])
        /\ writer'.write.data = queue.bodies[e] /\ queue'.bodies[e] = NoBody
        /\ queue.bodies[e] # NoBody
  BY <1>1, <1>3, <1>4, FilesDiffer
  DEF TakesBody, TakesBlob, TakesIndex, TakesPrefs, TakesNothing, Write
<1>7. writer'.write.file = <<"index">> =>
        TakesIndex /\ writer'.write = queue.index /\ queue'.index = NoWrite
  BY <1>1, <1>3, <1>4, FilesDiffer
  DEF TakesBody, TakesBlob, TakesIndex, TakesPrefs, TakesNothing, Write
<1>8. /\ \/ queue'.index = queue.index /\ writer'.write.file # <<"index">>
         \/ TakesIndex
      /\ \/ queue'.prefs = queue.prefs /\ writer'.write.file # <<"prefs">>
         \/ TakesPrefs
  <2>1. ASSUME NEW d, TakesBody(d)
        PROVE  /\ queue'.index = queue.index /\ writer'.write.file # <<"index">>
               /\ queue'.prefs = queue.prefs /\ writer'.write.file # <<"prefs">>
    BY <2>1 DEF TakesBody, Write, Body
  <2>2. ASSUME NEW b, TakesBlob(b)
        PROVE  /\ queue'.index = queue.index /\ writer'.write.file # <<"index">>
               /\ queue'.prefs = queue.prefs /\ writer'.write.file # <<"prefs">>
    BY <2>2 DEF TakesBlob, Write, Blob
  <2>3. CASE TakesIndex
    BY <2>3, <1>3, FilesDiffer DEF TakesIndex
  <2>4. CASE TakesPrefs
    BY <2>4, <1>3, FilesDiffer DEF TakesPrefs
  <2>5. CASE TakesNothing
    BY <2>5, <1>4, FilesDiffer DEF TakesNothing
  <2>6. QED
    BY <1>1, <2>1, <2>2, <2>3, <2>4, <2>5
<1>9. Types'
  <2>1. \A d : TakesBody(d) => writer' \in [tries : {1, 2}, write : Ops(clock)]
    BY <1>3 DEF TakesBody, Ops, BodyOps, Write, Body
  <2>2. \A b : TakesBlob(b) => writer' \in [tries : {1, 2}, write : Ops(clock)]
    BY DEF TakesBlob, Ops, BlobOps, Write, Blob
  <2>3. TakesIndex \/ TakesPrefs => writer' \in [tries : {1, 2}, write : Ops(clock)]
    BY <1>3 DEF TakesIndex, TakesPrefs
  <2>4. writer' \in [tries : {1, 2}, write : Ops(clock)] \/ writer' = Idle
    BY <1>1, <2>1, <2>2, <2>3 DEF TakesNothing
  <2>5. QED
    BY <1>2, <2>4 DEF IInv, Types
<1>10. LineInOrder'
  BY <1>2 DEF IInv, LineInOrder, Snapshot
<1>11. BodiesInOrder(queue, 0)'
  <2>1. BodiesInOrder(queue, 0)
    BY DEF IInv, Pipeline
  <2>2. ASSUME NEW d \in Docs, NEW j \in 0 + 1..Len(chan), chan[j].file = Body(d)
        PROVE  /\ queue'.bodies[d].rev < chan[j].data.rev
               /\ writer'.write.file = Body(d) => writer'.write.data.rev < chan[j].data.rev
    <3>1. queue.bodies[d].rev < chan[j].data.rev
      BY <2>1, <2>2 DEF BodiesInOrder
    <3>2. writer'.write.file = Body(d) => writer'.write.data.rev < chan[j].data.rev
      BY <3>1, <1>6
    <3>3. chan[j].data.rev \in Int /\ queue.bodies[d].rev \in Nat
      <4>1. chan[j] \in Ops(clock)
        BY DEF IInv, Types
      <4>2. chan[j].data \in BodiesTo(clock)
        BY <4>1, <1>2, <2>2, OpsOfFiles
      <4>3. QED
        BY <4>2, <1>2, <1>3 DEF BodiesTo
    <3>4. queue'.bodies[d].rev < chan[j].data.rev
      BY <3>1, <3>3, <1>5 DEF NoBody
    <3>5. QED
      BY <3>2, <3>4
  <2>3. QED
    BY <2>1, <2>2, <1>2, <1>6 DEF BodiesInOrder
<1>12. PayloadsAhead(queue, 0)'
  <2>1. PayloadsAhead(queue, 0)
    BY DEF IInv, Pipeline
  <2>2. ASSUME NEW n, NEW d \in Docs, NEW r, Reached(queue, 0, n, d, r)
        PROVE  Reached(queue, 0, n, d, r)'
    <3>1. writer.write.file # Body(d)
      BY <1>2, FilesDiffer
    <3>2. CASE TakesBody(d)
      <4>1. writer'.write.file = Body(d) /\ writer'.write.data = queue.bodies[d]
        BY <3>2 DEF TakesBody, Write
      <4>2. queue.bodies[d] # NoBody
        BY <3>2 DEF TakesBody
      <4>3. QED
        BY <2>2, <3>1, <4>1, <4>2, <1>2 DEF Reached
    <3>3. CASE ~TakesBody(d)
      <4>1. queue'.bodies[d] = queue.bodies[d] /\ writer'.write.file # Body(d)
        BY <3>3, <1>5, <1>6
      <4>2. InChan(0, n, Body(d))' = InChan(0, n, Body(d))
        BY <1>2 DEF InChan
      <4>3. QED
        BY <2>2, <3>1, <4>1, <4>2, <1>2 DEF Reached
    <3>4. QED
      BY <3>2, <3>3
  <2>3. ASSUME NEW n, NEW b \in Blobs, BlobReached(queue, 0, n, b)
        PROVE  BlobReached(queue, 0, n, b)'
    <3>1. writer.write.file # Blob(b)
      BY <1>2, FilesDiffer
    <3>2. InChan(0, n, Blob(b))' = InChan(0, n, Blob(b))
      BY <1>2 DEF InChan
    <3>3. b \in Range(queue.blobOrder) =>
            b \in Range(queue'.blobOrder) \/ writer'.write.file = Blob(b)
      BY <1>1 DEF TakesBody, TakesBlob, TakesIndex, TakesPrefs, TakesNothing, Write
    <3>4. QED
      BY <2>3, <3>1, <3>2, <3>3, <1>2 DEF BlobReached
  <2>4. \A n, d, r : NeverBelow(n, d, r)' = NeverBelow(n, d, r)
    BY <1>2 DEF NeverBelow
  <2>5. ASSUME NEW i \in 0 + 1..Len(chan), chan[i].file = <<"index">>
        PROVE  /\ \A d \in Docs : /\ Reached(queue, 0, i, d, chan[i].data.bodies[d].rev)'
                                  /\ NeverBelow(i, d, chan[i].data.bodies[d].rev)'
               /\ \A b \in chan[i].data.blobs : BlobReached(queue, 0, i, b)'
    <3>1. chan[i] \in Ops(clock)
      BY DEF IInv, Types
    <3>2. chan[i].data.blobs \subseteq Blobs
      BY <3>1, <1>2, <2>5, OpsOfFiles DEF SnapshotsTo
    <3>3. QED
      BY <2>1, <2>2, <2>3, <2>4, <2>5, <3>2, <1>2 DEF PayloadsAhead
  <2>6. ASSUME queue'.index # NoWrite
        PROVE  /\ \A d \in Docs : /\ Reached(queue, 0, 0, d, queue.index.data.bodies[d].rev)'
                                  /\ NeverBelow(0, d, queue.index.data.bodies[d].rev)'
               /\ \A b \in queue'.index.data.blobs : BlobReached(queue, 0, 0, b)'
    <3>1. queue'.index = queue.index /\ queue.index # NoWrite
      BY <2>6, <1>8 DEF TakesIndex
    <3>2. queue.index.data.blobs \subseteq Blobs
      BY <3>1, <1>3 DEF SnapshotsTo
    <3>3. QED
      BY <2>1, <2>2, <2>3, <2>4, <3>1, <3>2, <1>2 DEF PayloadsAhead
  <2>7. \A b \in mem.blobs : BlobReached(queue, 0, Len(chan), b)'
    <3>1. mem.blobs \subseteq Blobs
      BY DEF IInv, Types, StoresTo
    <3>2. QED
      BY <2>1, <2>3, <3>1, <1>2 DEF PayloadsAhead
  <2>8. QED
    BY <2>5, <2>6, <2>7, <1>2 DEF PayloadsAhead
<1>13. IndexWritten(queue, 0)'
  <2>1. ASSUME NEW s, PayloadsWritten(s, queue, 0)
        PROVE  PayloadsWritten(s, queue, 0)'
    <3>1. \A d, r : NeverBelow(0, d, r)' = NeverBelow(0, d, r)
      BY <1>2 DEF NeverBelow
    <3>2. QED
      BY <2>1, <3>1, <1>2, <1>5, <1>6 DEF PayloadsWritten
  <2>2. IndexWritten(queue, 0) /\ PayloadsAhead(queue, 0)
    BY DEF IInv, Pipeline
  <2>3. ASSUME writer'.write.file = <<"index">>
        PROVE  PayloadsWritten(writer.write.data, queue, 0)'
    <3> DEFINE s == queue.index.data
    <3>1. /\ TakesIndex /\ writer'.write.data = s /\ queue.index # NoWrite
          /\ queue'.bodies = queue.bodies
          /\ \A d \in Docs : queue.bodies[d] = NoBody /\ writer'.write.file # Body(d)
      BY <2>3, <1>7, FilesDiffer DEF TakesIndex
    <3>2. ASSUME NEW d \in Docs
          PROVE  /\ disk.bodies[d].rev >= s.bodies[d].rev \/ Body(d) \in failed
                 /\ NeverBelow(0, d, s.bodies[d].rev)
      <4>1. /\ Reached(queue, 0, 0, d, s.bodies[d].rev)
            /\ NeverBelow(0, d, s.bodies[d].rev)
        BY <2>2, <3>1 DEF PayloadsAhead
      <4>2. writer.write.file # Body(d) /\ ~(\E i \in 0 + 1..0 : TRUE)
        BY <1>2, FilesDiffer
      <4>3. QED
        BY <4>1, <4>2, <3>1 DEF Reached
    <3>3. ASSUME NEW b \in s.blobs PROVE b \in disk.blobs \/ Blob(b) \in failed
      <4>1. BlobReached(queue, 0, 0, b)
        BY <2>2, <3>1 DEF PayloadsAhead
      <4>2. writer.write.file # Blob(b) /\ ~InChan(0, 0, Blob(b))
        BY <1>2, FilesDiffer DEF InChan
      <4>3. b \notin Range(queue.blobOrder)
        BY <3>1 DEF TakesIndex
      <4>4. QED
        BY <4>1, <4>2, <4>3 DEF BlobReached
    <3>4. \A d, r : NeverBelow(0, d, r)' = NeverBelow(0, d, r)
      BY <1>2 DEF NeverBelow
    <3>5. writer'.write.data.bodies = s.bodies /\ writer'.write.data.blobs = s.blobs
      BY <3>1
    <3> HIDE DEF s
    <3>6. QED
      BY <3>1, <3>2, <3>3, <3>4, <3>5, <1>2 DEF PayloadsWritten
  <2>4. QED
    BY <2>1, <2>2, <2>3, <1>2 DEF IndexWritten
<1>14. IndexesInOrder(queue, 0)'
  <2>1. IndexesInOrder(queue, 0)
    BY DEF IInv, Pipeline
  <2>2. CASE TakesIndex
    BY <2>1, <2>2, <1>2, <1>3, <1>7 DEF IndexesInOrder, TakesIndex
  <2>3. CASE queue'.index = queue.index /\ writer'.write.file # <<"index">>
    BY <2>1, <2>3, <1>2 DEF IndexesInOrder
  <2>4. QED
    BY <2>2, <2>3, <1>8
<1>15. LatestIsLast(queue, 0)'
  <2>1. LatestIsLast(queue, 0)
    BY DEF IInv, Pipeline
  <2>2. emitting' \/ Len(line') = 1 \/
          IsLast(Write(<<"index">>, Snapshot(mem, schema)), queue.index, 0,
                 disk.index.rev = mem.rev)'
    <3> DEFINE w == Write(<<"index">>, Snapshot(mem, schema))
               done == disk.index.rev = mem.rev
    <3>1. w.file = <<"index">> /\ w.file # <<"none">>
      BY DEF Write
    <3>2. \/ /\ queue.index # NoWrite /\ queue'.index = NoWrite
             /\ writer'.write = queue.index
          \/ queue'.index = queue.index /\ writer'.write.file # <<"index">>
      BY <1>8 DEF TakesIndex
    <3>3. emitting \/ Len(line) = 1 \/ IsLast(w, queue.index, 0, done)
      BY <2>1 DEF LatestIsLast
    <3> SUFFICES ASSUME IsLast(w, queue.index, 0, done)
                 PROVE  IsLast(w, queue.index, 0, done)'
      BY <3>3, <1>2 DEF Snapshot
    <3>4. w' = w /\ done' = done
      BY <1>2 DEF Snapshot
    <3> HIDE DEF w, done
    <3>5. QED
      BY <3>1, <3>2, <3>4, <1>2, IsLastAfterTake
  <2>3. Len(prefsLine') = 1 \/
          IsLast(Write(<<"prefs">>, prefs), queue.prefs, 0, disk.prefs = prefs)'
    <3> DEFINE w == Write(<<"prefs">>, prefs)
               done == disk.prefs = prefs
    <3>1. w.file = <<"prefs">> /\ w.file # <<"none">>
      BY DEF Write
    <3>2. \/ /\ queue.prefs # NoWrite /\ queue'.prefs = NoWrite
             /\ writer'.write = queue.prefs
          \/ queue'.prefs = queue.prefs /\ writer'.write.file # <<"prefs">>
      BY <1>8 DEF TakesPrefs
    <3> SUFFICES ASSUME IsLast(w, queue.prefs, 0, done)
                 PROVE  IsLast(w, queue.prefs, 0, done)'
      BY <2>1, <1>2 DEF LatestIsLast
    <3>4. w' = w /\ done' = done
      BY <1>2
    <3> HIDE DEF w, done
    <3>5. QED
      BY <3>1, <3>2, <3>4, <1>2, IsLastAfterTake
  <2>4. ASSUME NEW d \in Docs, mem.bodies[d] # NoBody
        PROVE  IsLast(Write(Body(d), mem.bodies[d]),
                 IF queue.bodies[d] = NoBody THEN NoWrite ELSE Write(Body(d), queue.bodies[d]),
                 0, disk.bodies[d] = mem.bodies[d])'
    <3> DEFINE w == Write(Body(d), mem.bodies[d])
               done == disk.bodies[d] = mem.bodies[d]
               waiting == IF queue.bodies[d] = NoBody THEN NoWrite
                          ELSE Write(Body(d), queue.bodies[d])
    <3>1. w.file = Body(d) /\ w.file # <<"none">>
      BY FilesDiffer DEF Write
    <3>2. \/ waiting # NoWrite /\ waiting' = NoWrite /\ writer'.write = waiting
          \/ waiting' = waiting /\ writer'.write.file # Body(d)
      <4>1. Write(Body(d), queue.bodies[d]) # NoWrite
        BY DEF Write, NoWrite, Body
      <4>2. QED
        BY <4>1, <1>5, <1>6 DEF TakesBody
    <3>3. IsLast(w, waiting, 0, done)
      BY <2>1, <2>4 DEF LatestIsLast
    <3>4. w' = w /\ done' = done
      BY <1>2
    <3> HIDE DEF w, done, waiting
    <3>5. IsLast(w, waiting, 0, done)'
      BY <3>1, <3>2, <3>3, <3>4, <1>2, IsLastAfterTake
    <3>6. QED
      BY <3>5 DEF w, done, waiting
  <2>5. QED
    BY <2>2, <2>3, <2>4, <1>2 DEF LatestIsLast
<1>16. QED
  BY <1>1, <1>9, <1>10, <1>11, <1>12, <1>13, <1>14, <1>15 DEF IInv, Pipeline

\* A write that ends: the file has the new contents, or it is one that failed, and no other
\* file is touched.
WriteEnds ==
  /\ UNCHANGED <<clock, schema, reloads, mem, emitting, prefs, chan, line, prefsLine>>
  /\ writer.write \in Ops(clock) /\ writer' = NextUp
  /\ QueueOK(queue)' /\ disk' \in Disks(clock) /\ failed' \subseteq Files
  /\ queue'.bodies = queue.bodies /\ queue'.blobOrder = queue.blobOrder
  /\ queue'.index = queue.index /\ queue'.prefs = queue.prefs
  /\ \A file : file # writer.write.file => (file \in failed' <=> file \in failed)
  /\ \A d \in Docs :
       IF writer.write.file = Body(d)
       THEN disk'.bodies[d] = writer.write.data \/ Body(d) \in failed'
       ELSE disk'.bodies[d] = disk.bodies[d]
  /\ disk.blobs \subseteq disk'.blobs
  /\ \A b : writer.write.file = Blob(b) => b \in disk'.blobs \/ Blob(b) \in failed'
  /\ IF writer.write.file = <<"index">>
     THEN \/ disk'.index = writer.write.data
          \/ disk'.index = disk.index /\ <<"index">> \in failed'
     ELSE disk'.index = disk.index
  /\ IF writer.write.file = <<"prefs">>
     THEN disk'.prefs = writer.write.data \/ <<"prefs">> \in failed'
     ELSE disk'.prefs = disk.prefs

LEMMA WriterAtWork ==
  ASSUME Types, writer.write # NoWrite
  PROVE  /\ writer \in [tries : {1, 2}, write : Ops(clock)]
         /\ writer.write \in Ops(clock) /\ writer.write.file \in Files /\ clock \in Nat
<1>1. writer \in [tries : {1, 2}, write : Ops(clock)]
  BY DEF Types, Idle, NextUp
<1>2. clock \in Nat
  BY DEF Types, Revisions
<1>3. QED
  BY <1>1, <1>2, OpIsAWrite

LEMMA SuccessEnds ==
  ASSUME Types, QueueOK(queue), WriteSucceeds
  PROVE  WriteEnds
<1> DEFINE w == writer.write
<1>1. /\ w \in Ops(clock) /\ w.file \in Files /\ clock \in Nat
      /\ disk' = Stored(w) /\ queue' = MarkSucceeded(w) /\ failed' = failed \ {w.file}
      /\ UNCHANGED <<clock, schema, reloads, mem, emitting, prefs, chan, line, prefsLine>>
      /\ writer' = NextUp
  BY WriterAtWork DEF WriteSucceeds
<1>2. /\ disk \in Disks(clock) /\ queue \in Queues(clock) /\ failed \subseteq Files
      /\ queue.completed \subseteq disk.blobs /\ queue.completed \subseteq Blobs
  BY DEF Types, QueueOK, Queues
<1> HIDE DEF w
<1>3. CASE w.file = <<"index">> /\ w.data \in SnapshotsTo(clock) /\ w.file[1] = "index"
  <2>1. disk' = [disk EXCEPT !.index = w.data] /\ queue' = queue
    BY <1>1, <1>3 DEF Stored, MarkSucceeded
  <2>2. /\ disk' \in Disks(clock) /\ disk'.bodies = disk.bodies /\ disk'.blobs = disk.blobs
        /\ disk'.prefs = disk.prefs /\ disk'.index = w.data
    BY <2>1, <1>2, <1>3 DEF Disks
  <2>3. QueueOK(queue)'
    BY <2>1, <2>2, <1>1 DEF QueueOK
  <2>4. QED
    BY <2>1, <2>2, <2>3, <1>1, <1>2, <1>3, FilesDiffer DEF WriteEnds, w
<1>4. CASE w.file = <<"prefs">> /\ w.data \in 0..clock /\ w.file[1] = "prefs"
  <2>1. disk' = [disk EXCEPT !.prefs = w.data] /\ queue' = queue
    BY <1>1, <1>4 DEF Stored, MarkSucceeded
  <2>2. /\ disk' \in Disks(clock) /\ disk'.bodies = disk.bodies /\ disk'.blobs = disk.blobs
        /\ disk'.prefs = w.data /\ disk'.index = disk.index
    BY <2>1, <1>2, <1>4 DEF Disks
  <2>3. QueueOK(queue)'
    BY <2>1, <2>2, <1>1 DEF QueueOK
  <2>4. QED
    BY <2>1, <2>2, <2>3, <1>1, <1>2, <1>4, FilesDiffer DEF WriteEnds, w
<1>5. ASSUME NEW d \in Docs, w.file = Body(d), w.data \in BodiesTo(clock)
      PROVE  WriteEnds
  <2>1. disk' = [disk EXCEPT !.bodies[d] = w.data] /\ queue' = queue
    BY <1>1, <1>5 DEF Stored, MarkSucceeded, Body
  <2>2. /\ disk' \in Disks(clock) /\ disk'.blobs = disk.blobs
        /\ disk'.prefs = disk.prefs /\ disk'.index = disk.index
        /\ \A e \in Docs : disk'.bodies[e] = IF e = d THEN w.data ELSE disk.bodies[e]
    BY <2>1, <1>2, <1>5 DEF Disks
  <2>3. QueueOK(queue)'
    BY <2>1, <2>2, <1>1 DEF QueueOK
  <2>4. \A e \in Docs : IF w.file = Body(e) THEN disk'.bodies[e] = w.data
                        ELSE disk'.bodies[e] = disk.bodies[e]
    BY <2>2, <1>5, FilesDiffer
  <2>5. QED
    BY <2>1, <2>2, <2>3, <2>4, <1>1, <1>2, <1>5, FilesDiffer DEF WriteEnds, w
<1>6. ASSUME NEW b \in Blobs, w.file = Blob(b)
      PROVE  WriteEnds
  <2>1. /\ disk' = [disk EXCEPT !.blobs = @ \cup {b}]
        /\ queue' = [queue EXCEPT !.completed = @ \cup {b}]
    BY <1>1, <1>6 DEF Stored, MarkSucceeded, Blob
  <2>2. /\ disk' \in Disks(clock) /\ disk'.blobs = disk.blobs \cup {b}
        /\ disk'.prefs = disk.prefs /\ disk'.index = disk.index
        /\ disk'.bodies = disk.bodies
    BY <2>1, <1>2, <1>6 DEF Disks
  <2>3. /\ queue' \in Queues(clock) /\ queue'.completed = queue.completed \cup {b}
        /\ queue'.bodies = queue.bodies /\ queue'.blobOrder = queue.blobOrder
        /\ queue'.index = queue.index /\ queue'.prefs = queue.prefs
        /\ queue'.bodyOrder = queue.bodyOrder
    BY <2>1, <1>2, <1>6 DEF Queues
  <2>4. QueueOK(queue)'
    BY <2>2, <2>3, <1>1, <1>2 DEF QueueOK
  <2>5. /\ \A d : w.file # Body(d)
        /\ w.file # <<"index">> /\ w.file # <<"prefs">>
        /\ \A c : w.file = Blob(c) => c \in disk'.blobs
    BY <2>2, <1>6, FilesDiffer
  <2>6. QED
    BY <2>2, <2>3, <2>4, <2>5, <1>1, <1>2 DEF WriteEnds, w
<1>7. QED
  BY <1>1, <1>3, <1>4, <1>5, <1>6, OpKinds

LEMMA FailureEnds ==
  ASSUME Types, QueueOK(queue), WriteFails, writer.tries # 1
  PROVE  WriteEnds
<1>1. /\ writer.write \in Ops(clock) /\ writer.write.file \in Files
      /\ writer' = NextUp /\ failed' = failed \cup {writer.write.file}
      /\ UNCHANGED <<clock, schema, reloads, mem, emitting, prefs, chan, queue, disk, line,
                     prefsLine>>
  BY WriterAtWork DEF WriteFails
<1>2. QueueOK(queue)' /\ disk' \in Disks(clock) /\ failed' \subseteq Files
  BY <1>1 DEF Types, QueueOK
<1>3. QED
  BY <1>1, <1>2 DEF WriteEnds

\* What was the last of its file in the writer has been written, or has failed.
LEMMA IsLastAfterWrite ==
  ASSUME NEW w, NEW waiting, NEW done, NEW now, IsLast(w, waiting, 0, done),
         w.file # <<"none">>, writer' = NextUp, UNCHANGED chan,
         writer.write.file # w.file =>
           (w.file \in failed => w.file \in failed') /\ (done => now),
         writer.write = w => now \/ w.file \in failed'
  PROVE  IsLast(w, waiting, 0, now)'
<1>1. NextUp.write.file = <<"none">>
  BY DEF NextUp, NoWrite, Write
<1>2. \A n : InChan(0, n, w.file)' = InChan(0, n, w.file)
  BY DEF InChan
<1>3. QED
  BY <1>1, <1>2 DEF IsLast

LEMMA WriteEndsInvariant ==
  ASSUME IInv, WriteEnds
  PROVE  IInv'
<1>1. /\ UNCHANGED <<clock, schema, reloads, mem, emitting, prefs, chan, line, prefsLine>>
      /\ writer' = NextUp /\ writer'.write = NoWrite /\ writer'.write.file = <<"none">>
      /\ writer.write \in Ops(clock) /\ clock \in Nat
      /\ queue'.bodies = queue.bodies /\ queue'.blobOrder = queue.blobOrder
      /\ queue'.index = queue.index /\ queue'.prefs = queue.prefs
  BY DEF WriteEnds, NextUp, NoWrite, Write, IInv, Types, Revisions
<1>2. /\ \A d : writer'.write.file # Body(d)
      /\ \A b : writer'.write.file # Blob(b)
      /\ writer'.write.file \notin {<<"index">>, <<"prefs">>}
  BY <1>1, FilesDiffer
<1>3. /\ disk \in Disks(clock) /\ disk' \in Disks(clock)
      /\ queue.bodies \in [Docs -> BodiesTo(clock)]
      /\ \A i \in 1..Len(chan) : chan[i] \in Ops(clock)
      /\ Len(chan) \in Nat
  BY DEF IInv, Types, Pipeline, QueueOK, Queues, WriteEnds
<1>4. ASSUME NEW d \in Docs
      PROVE  /\ disk.bodies[d].rev \in Int /\ disk'.bodies[d].rev \in Int
             /\ queue.bodies[d].rev \in Int
             /\ writer.write.file = Body(d) => writer.write.data.rev \in Int
             /\ \A i \in 1..Len(chan) : chan[i].file = Body(d) => chan[i].data.rev \in Int
  <2>1. /\ writer.write.file = Body(d) => writer.write.data.rev \in Int
        /\ \A i \in 1..Len(chan) : chan[i].file = Body(d) => chan[i].data.rev \in Int
    BY <1>1, <1>3, OpsOfFiles DEF BodiesTo
  <2>2. QED
    BY <2>1, <1>3 DEF Disks, BodiesTo
<1>5. ASSUME NEW d \in Docs
      PROVE  \/ /\ writer.write.file = Body(d)
                /\ disk'.bodies[d] = writer.write.data \/ Body(d) \in failed'
             \/ /\ writer.write.file # Body(d) /\ disk'.bodies[d] = disk.bodies[d]
                /\ Body(d) \in failed' <=> Body(d) \in failed
  BY DEF WriteEnds
<1>6. \A n, file : InChan(0, n, file)' = InChan(0, n, file)
  BY <1>1 DEF InChan
<1>7. \A n, d, r : NeverBelow(n, d, r)' = NeverBelow(n, d, r)
  BY <1>1 DEF NeverBelow
<1>8. Types' /\ LineInOrder'
  BY <1>1 DEF IInv, Types, LineInOrder, Snapshot, WriteEnds
<1>9. BodiesInOrder(queue, 0) /\ BodiesInOrder(queue, 0)'
  <2>1. BodiesInOrder(queue, 0)
    BY DEF IInv, Pipeline
  <2>2. QED
    BY <2>1, <1>1, <1>2 DEF BodiesInOrder
<1>10. PayloadsAhead(queue, 0)'
  <2>1. PayloadsAhead(queue, 0)
    BY DEF IInv, Pipeline
  <2>2. ASSUME NEW n \in 0..Len(chan), NEW d \in Docs, NEW r \in Int,
               Reached(queue, 0, n, d, r)
        PROVE  Reached(queue, 0, n, d, r)'
    <3>1. CASE \E i \in 0 + 1..n : chan[i].file = Body(d) /\ chan[i].data.rev >= r
      BY <3>1, <1>1 DEF Reached
    <3>2. CASE queue.bodies[d] # NoBody /\ queue.bodies[d].rev >= r
      BY <3>2, <1>1 DEF Reached
    <3>3. CASE writer.write.file = Body(d) /\ writer.write.data.rev >= r
      <4>1. CASE InChan(0, n, Body(d))
        <5>1. PICK i \in 0 + 1..n : chan[i].file = Body(d)
          BY <4>1 DEF InChan
        <5>2. i \in 0 + 1..Len(chan) /\ i \in 1..Len(chan)
          BY <1>3
        <5>3. writer.write.data.rev < chan[i].data.rev
          BY <5>1, <5>2, <3>3, <1>9 DEF BodiesInOrder
        <5>4. chan[i].data.rev >= r
          BY <5>1, <5>2, <5>3, <3>3, <1>4
        <5>5. QED
          BY <5>1, <5>4, <1>1 DEF Reached
      <4>2. CASE queue.bodies[d] # NoBody
        <5>1. writer.write.data.rev < queue.bodies[d].rev
          BY <4>2, <3>3, <1>9 DEF BodiesInOrder
        <5>2. queue.bodies[d].rev >= r
          BY <5>1, <3>3, <1>4
        <5>3. QED
          BY <4>2, <5>2, <1>1 DEF Reached
      <4>3. CASE ~InChan(0, n, Body(d)) /\ queue.bodies[d] = NoBody
        BY <4>3, <3>3, <1>1, <1>2, <1>5, <1>6 DEF Reached
      <4>4. QED
        BY <4>1, <4>2, <4>3
    <3>4. CASE /\ ~InChan(0, n, Body(d)) /\ queue.bodies[d] = NoBody
               /\ writer.write.file # Body(d)
               /\ disk.bodies[d].rev >= r \/ Body(d) \in failed
      BY <3>4, <1>1, <1>2, <1>5, <1>6 DEF Reached
    <3>5. QED
      BY <2>2, <3>1, <3>2, <3>3, <3>4 DEF Reached
  <2>3. ASSUME NEW n, NEW b, BlobReached(queue, 0, n, b)
        PROVE  BlobReached(queue, 0, n, b)'
    BY <2>3, <1>1, <1>6 DEF BlobReached, WriteEnds
  <2>4. ASSUME NEW i \in 0 + 1..Len(chan), chan[i].file = <<"index">>
        PROVE  /\ \A d \in Docs : /\ Reached(queue, 0, i, d, chan[i].data.bodies[d].rev)'
                                  /\ NeverBelow(i, d, chan[i].data.bodies[d].rev)'
               /\ \A b \in chan[i].data.blobs : BlobReached(queue, 0, i, b)'
    <3>1. chan[i] \in Ops(clock) /\ i \in 0..Len(chan)
      BY <1>3
    <3>2. \A d \in Docs : chan[i].data.bodies[d].rev \in Int
      BY <3>1, <1>1, <2>4, OpsOfFiles DEF SnapshotsTo, BodiesTo
    <3>3. QED
      BY <2>1, <2>2, <2>3, <2>4, <3>1, <3>2, <1>1, <1>7 DEF PayloadsAhead
  <2>5. ASSUME queue'.index # NoWrite
        PROVE  /\ \A d \in Docs : /\ Reached(queue, 0, 0, d, queue.index.data.bodies[d].rev)'
                                  /\ NeverBelow(0, d, queue.index.data.bodies[d].rev)'
               /\ \A b \in queue'.index.data.blobs : BlobReached(queue, 0, 0, b)'
    <3>1. queue.index # NoWrite /\ queue'.index = queue.index
      BY <2>5, <1>1
    <3>2. \A d \in Docs : queue.index.data.bodies[d].rev \in Int
      BY <3>1 DEF IInv, Pipeline, QueueOK, Queues, IndexOps, SnapshotsTo, BodiesTo
    <3>3. 0 \in 0..Len(chan)
      BY <1>3
    <3>4. QED
      BY <2>1, <2>2, <2>3, <3>1, <3>2, <3>3, <1>7 DEF PayloadsAhead
  <2>6. QED
    BY <2>1, <2>3, <2>4, <2>5, <1>1 DEF PayloadsAhead
<1>11. IndexWritten(queue, 0)'
  <2>1. ASSUME NEW s, PayloadsWritten(s, queue, 0)
        PROVE  PayloadsWritten(s, queue, 0)'
    <3>1. \A d \in Docs : disk'.bodies[d].rev >= s.bodies[d].rev \/ Body(d) \in failed'
      BY <2>1, <1>5 DEF PayloadsWritten
    <3>2. \A b \in s.blobs : b \in disk'.blobs \/ Blob(b) \in failed'
      BY <2>1 DEF PayloadsWritten, WriteEnds
    <3>3. QED
      BY <2>1, <3>1, <3>2, <1>1, <1>2, <1>7 DEF PayloadsWritten
  <2>2. IndexWritten(queue, 0)
    BY DEF IInv, Pipeline
  <2>3. PayloadsWritten(disk.index, queue, 0)' \/ writer.write.file # <<"index">>
    BY <2>1, <2>2 DEF IndexWritten, WriteEnds, PayloadsWritten
  <2>4. QED
    BY <2>1, <2>2, <2>3, <1>2 DEF IndexWritten, WriteEnds, PayloadsWritten
<1>12. IndexesInOrder(queue, 0)'
  <2>1. IndexesInOrder(queue, 0)
    BY DEF IInv, Pipeline
  <2>2. CASE disk'.index = disk.index
    BY <2>1, <2>2, <1>1, <1>2 DEF IndexesInOrder
  <2>3. CASE writer.write.file = <<"index">> /\ disk'.index = writer.write.data
    BY <2>1, <2>3, <1>1, <1>2 DEF IndexesInOrder
  <2>4. QED
    BY <2>2, <2>3 DEF WriteEnds
<1>13. LatestIsLast(queue, 0)'
  <2>1. LatestIsLast(queue, 0)
    BY DEF IInv, Pipeline
  <2>2. \A file : writer.write.file # file => (file \in failed => file \in failed')
    BY DEF WriteEnds
  <2>3. emitting' \/ Len(line') = 1 \/
          IsLast(Write(<<"index">>, Snapshot(mem, schema)), queue.index, 0,
                 disk.index.rev = mem.rev)'
    <3> DEFINE w == Write(<<"index">>, Snapshot(mem, schema))
               now == disk'.index.rev = mem'.rev
    <3>1. /\ w.file = <<"index">> /\ w.file # <<"none">>
          /\ w.data.rev = mem.rev /\ w' = w
      BY <1>1 DEF Write, Snapshot
    <3>2. writer.write.file # <<"index">> => (disk.index.rev = mem.rev => now)
      BY <1>1 DEF WriteEnds
    <3>3. writer.write = w => now \/ w.file \in failed'
      BY <3>1, <1>1 DEF WriteEnds
    <3> SUFFICES ASSUME IsLast(w, queue.index, 0, disk.index.rev = mem.rev)
                 PROVE  IsLast(w, queue.index, 0, disk.index.rev = mem.rev)'
      BY <2>1, <1>1 DEF LatestIsLast, Snapshot
    <3> HIDE DEF w
    <3>4. QED
      BY <3>1, <3>2, <3>3, <2>2, <1>1, IsLastAfterWrite
  <2>4. Len(prefsLine') = 1 \/
          IsLast(Write(<<"prefs">>, prefs), queue.prefs, 0, disk.prefs = prefs)'
    <3> DEFINE w == Write(<<"prefs">>, prefs)
               now == disk'.prefs = prefs'
    <3>1. /\ w.file = <<"prefs">> /\ w.file # <<"none">>
          /\ w.data = prefs /\ w' = w
      BY <1>1 DEF Write
    <3>2. writer.write.file # <<"prefs">> => (disk.prefs = prefs => now)
      BY <1>1 DEF WriteEnds
    <3>3. writer.write = w => now \/ w.file \in failed'
      BY <3>1, <1>1 DEF WriteEnds
    <3> SUFFICES ASSUME IsLast(w, queue.prefs, 0, disk.prefs = prefs)
                 PROVE  IsLast(w, queue.prefs, 0, disk.prefs = prefs)'
      BY <2>1, <1>1 DEF LatestIsLast
    <3> HIDE DEF w
    <3>4. QED
      BY <3>1, <3>2, <3>3, <2>2, <1>1, IsLastAfterWrite
  <2>5. ASSUME NEW d \in Docs, mem.bodies[d] # NoBody
        PROVE  IsLast(Write(Body(d), mem.bodies[d]),
                 IF queue.bodies[d] = NoBody THEN NoWrite ELSE Write(Body(d), queue.bodies[d]),
                 0, disk.bodies[d] = mem.bodies[d])'
    <3> DEFINE w == Write(Body(d), mem.bodies[d])
               now == disk'.bodies[d] = mem'.bodies[d]
               waiting == IF queue.bodies[d] = NoBody THEN NoWrite
                          ELSE Write(Body(d), queue.bodies[d])
    <3>1. /\ w.file = Body(d) /\ w.file # <<"none">>
          /\ w.data = mem.bodies[d] /\ w' = w /\ waiting' = waiting
      BY <1>1, FilesDiffer DEF Write
    <3>2. writer.write.file # Body(d) => (disk.bodies[d] = mem.bodies[d] => now)
      BY <1>1, <1>5
    <3>3. writer.write = w => now \/ w.file \in failed'
      BY <3>1, <1>1, <1>5
    <3>4. IsLast(w, waiting, 0, disk.bodies[d] = mem.bodies[d])
      BY <2>1, <2>5 DEF LatestIsLast
    <3> HIDE DEF w, waiting
    <3>5. IsLast(w, waiting, 0, disk.bodies[d] = mem.bodies[d])'
      BY <3>1, <3>2, <3>3, <3>4, <2>2, <1>1, IsLastAfterWrite
    <3>6. QED
      BY <3>5 DEF w, waiting
  <2>6. QED
    BY <2>3, <2>4, <2>5, <1>1 DEF LatestIsLast
<1>14. QED
  BY <1>8, <1>9, <1>10, <1>11, <1>12, <1>13 DEF IInv, Pipeline, WriteEnds

LEMMA WriteSucceedsInvariant ==
  ASSUME IInv, WriteSucceeds
  PROVE  IInv'
BY SuccessEnds, WriteEndsInvariant DEF IInv, Pipeline

LEMMA WriteFailsInvariant ==
  ASSUME IInv, WriteFails
  PROVE  IInv'
<1>1. CASE writer.tries = 1
  <2>1. /\ UNCHANGED <<clock, schema, reloads, mem, emitting, prefs, chan, queue, disk, line,
                       prefsLine, failed>>
        /\ writer' = [writer EXCEPT !.tries = 2]
        /\ writer \in [tries : {1, 2}, write : Ops(clock)]
    BY <1>1, WriterAtWork DEF WriteFails, IInv
  <2>2. writer' \in [tries : {1, 2}, write : Ops(clock)] /\ writer'.write = writer.write
    BY <2>1
  <2>3. Types' /\ LineInOrder' /\ QueueOK(queue)' /\ BodiesInOrder(queue, 0)'
    BY <2>1, <2>2
    DEF IInv, Types, LineInOrder, Snapshot, Pipeline, QueueOK, BodiesInOrder
  <2>4. PayloadsAhead(queue, 0)' /\ IndexWritten(queue, 0)'
    BY <2>1, <2>2
    DEF IInv, Pipeline, PayloadsAhead, IndexWritten, PayloadsWritten, Reached, BlobReached,
        NeverBelow, InChan
  <2>5. IndexesInOrder(queue, 0)' /\ LatestIsLast(queue, 0)'
    BY <2>1, <2>2
    DEF IInv, Pipeline, IndexesInOrder, LatestIsLast, IsLast, InChan, Snapshot
  <2>6. QED
    BY <2>3, <2>4, <2>5 DEF IInv, Pipeline
<1>2. CASE writer.tries # 1
  BY <1>2, FailureEnds, WriteEndsInvariant DEF IInv, Pipeline
<1>3. QED
  BY <1>1, <1>2

-----------------------------------------------------------------------------
(* The worker.                                                             *)

LEMMA Grows ==
  ASSUME NEW n \in Nat, Types, clock = n
  PROVE  /\ queue \in Queues(n) => queue \in Queues(n + 1)
         /\ disk \in Disks(n + 1) /\ mem \in StoresTo(n + 1)
         /\ chan \in Seq(Ops(n + 1)) /\ line \in Seq(SnapshotsTo(n + 1))
         /\ prefsLine \in Seq(0..(n + 1)) /\ prefs \in 0..(n + 1)
         /\ \/ writer \in [tries : {1, 2}, write : Ops(n + 1)]
            \/ writer \in {Idle, NextUp}
<1>1. /\ BodiesTo(n) \subseteq BodiesTo(n + 1) /\ 0..n \subseteq 0..(n + 1)
      /\ SnapshotsTo(n) \subseteq SnapshotsTo(n + 1)
      /\ Ops(n) \subseteq Ops(n + 1)
  BY TypesGrow
<1>2. /\ IndexOps(n) \subseteq IndexOps(n + 1) /\ PrefsOps(n) \subseteq PrefsOps(n + 1)
      /\ [Docs -> BodiesTo(n)] \subseteq [Docs -> BodiesTo(n + 1)]
  BY <1>1 DEF IndexOps, PrefsOps
<1>3. disk \in Disks(n + 1) /\ mem \in StoresTo(n + 1)
  BY <1>1, <1>2 DEF Types, Disks, StoresTo
<1>4. queue \in Queues(n) => queue \in Queues(n + 1)
  BY <1>2 DEF Queues
<1>5. /\ chan \in Seq(Ops(n + 1)) /\ line \in Seq(SnapshotsTo(n + 1))
      /\ prefsLine \in Seq(0..(n + 1))
  BY <1>1 DEF Types
<1>6. QED
  BY <1>1, <1>3, <1>4, <1>5 DEF Types

LEMMA AppendLast ==
  ASSUME NEW S, NEW s \in Seq(S), NEW e \in S
  PROVE  /\ s \o <<e>> = Append(s, e) /\ Append(s, e) \in Seq(S)
         /\ Len(Append(s, e)) = Len(s) + 1 /\ Append(s, e)[Len(s) + 1] = e
         /\ \A i \in 1..Len(s) : Append(s, e)[i] = s[i]
         /\ Len(s) \in Nat /\ Append(s, e) # <<>>
OBVIOUS

\* The worker sends at most one op; a body is the newest there is.
Added(i) == i \in Len(chan) + 1..Len(chan')

Sends ==
  /\ UNCHANGED <<queue, writer, disk, failed>>
  /\ clock' \in {clock, clock + 1} /\ clock' \in Revisions
  /\ chan' \in Seq(Ops(clock')) /\ Len(chan') \in {Len(chan), Len(chan) + 1}
  /\ \A i \in 1..Len(chan) : chan'[i] = chan[i]
  /\ \A i, d : Added(i) /\ chan'[i].file = Body(d) => chan'[i].data.rev = clock + 1

\* What is ahead of the ops sent before stays ahead of them.
LEMMA AheadAfterSend ==
  ASSUME Types, Sends, NEW n \in 0..Len(chan)
  PROVE  /\ \A d, r : Reached(queue, 0, n, d, r) => Reached(queue, 0, n, d, r)'
         /\ \A d, r : NeverBelow(n, d, r) /\ r \in Int /\ r <= clock => NeverBelow(n, d, r)'
         /\ \A b : BlobReached(queue, 0, n, b) =>
              BlobReached(queue, 0, n, b)' /\ BlobReached(queue, 0, Len(chan), b)'
<1>1. /\ Len(chan) \in Nat /\ Len(chan') \in {Len(chan), Len(chan) + 1} /\ clock \in Nat
      /\ \A i \in 0 + 1..n : i \in 1..Len(chan) /\ chan'[i] = chan[i]
      /\ \A i \in 0 + 1..n : i \in 0 + 1..Len(chan')
  BY DEF Sends, Types, Revisions
<1>2. \A file : InChan(0, n, file)' = InChan(0, n, file)
  BY <1>1 DEF InChan
<1>3. \A file : InChan(0, n, file) => InChan(0, Len(chan), file)'
  BY <1>1 DEF InChan
<1>4. ASSUME NEW d, NEW r, Reached(queue, 0, n, d, r)
      PROVE  Reached(queue, 0, n, d, r)'
  BY <1>1, <1>2, <1>4 DEF Reached, Sends
<1>5. ASSUME NEW d, NEW r, NeverBelow(n, d, r), r \in Int, r <= clock
      PROVE  NeverBelow(n, d, r)'
  <2>1. SUFFICES ASSUME NEW j \in n + 1..Len(chan'), chan'[j].file = Body(d)
                 PROVE  chan'[j].data.rev >= r
    BY DEF NeverBelow
  <2>2. CASE j \in n + 1..Len(chan)
    BY <2>1, <2>2, <1>1, <1>5 DEF NeverBelow, Sends
  <2>3. CASE Added(j)
    BY <2>1, <2>3, <1>1, <1>5 DEF Sends
  <2>4. QED
    BY <2>2, <2>3, <1>1 DEF Added
<1>6. ASSUME NEW b, BlobReached(queue, 0, n, b)
      PROVE  BlobReached(queue, 0, n, b)' /\ BlobReached(queue, 0, Len(chan), b)'
  BY <1>2, <1>3, <1>6 DEF BlobReached, Sends
<1>7. QED
  BY <1>4, <1>5, <1>6

\* The last write of a file stays the last when none of that file is sent.
LEMMA IsLastAfterSend ==
  ASSUME Types, Sends, NEW w, NEW waiting, NEW done, IsLast(w, waiting, 0, done),
         \A i : Added(i) => chan'[i].file # w.file
  PROVE  IsLast(w, waiting, 0, done)'
<1>1. /\ Len(chan) \in Nat /\ Len(chan') \in Nat /\ Len(chan) <= Len(chan')
      /\ \A i \in 1..Len(chan) : chan'[i] = chan[i]
      /\ \A i \in 0 + 1..Len(chan) : i \in 1..Len(chan)
  BY DEF Sends, Types
<1>2. ASSUME NEW i \in 0 + 1..Len(chan')
      PROVE  \/ i \in 0 + 1..Len(chan) /\ chan'[i] = chan[i]
             \/ chan'[i].file # w.file
  BY <1>1 DEF Added
<1>3. CASE \E i \in 0 + 1..Len(chan) :
             chan[i] = w /\ \A j \in i + 1..Len(chan) : chan[j].file # w.file
  <2>1. PICK i \in 0 + 1..Len(chan) :
          chan[i] = w /\ \A j \in i + 1..Len(chan) : chan[j].file # w.file
    BY <1>3
  <2>2. i \in 0 + 1..Len(chan') /\ chan'[i] = w
    BY <1>1, <2>1
  <2>3. ASSUME NEW j \in i + 1..Len(chan') PROVE chan'[j].file # w.file
    BY <1>1, <1>2, <2>1
  <2>4. QED
    BY <2>2, <2>3 DEF IsLast
<1>4. CASE ~InChan(0, Len(chan), w.file)
  <2>1. ~InChan(0, Len(chan), w.file)'
    BY <1>1, <1>2, <1>4 DEF InChan
  <2>2. CASE ~\E i \in 0 + 1..Len(chan) :
               chan[i] = w /\ \A j \in i + 1..Len(chan) : chan[j].file # w.file
    BY <2>1, <2>2 DEF IsLast, Sends
  <2>3. QED
    BY <2>2, <1>3
<1>5. QED
  BY <1>3, <1>4 DEF IsLast

LEMMA IsLastWhenSent ==
  ASSUME Sends, NEW w, NEW waiting, NEW done, Added(Len(chan')), chan'[Len(chan')] = w,
         Len(chan) \in Nat
  PROVE  IsLast(w, waiting, 0, done)'
<1>1. Len(chan') \in Nat /\ Len(chan') \in 0 + 1..Len(chan')
  BY DEF Added, Sends
<1>2. \A j \in Len(chan') + 1..Len(chan') : FALSE
  BY <1>1
<1>3. QED
  BY <1>1, <1>2 DEF IsLast

\* What a send leaves true whatever it sends.
LEMMA PipelineAfterSend ==
  ASSUME Types, Pipeline(queue, 0), Sends
  PROVE  /\ QueueOK(queue)' /\ BodiesInOrder(queue, 0)' /\ IndexWritten(queue, 0)'
         /\ \A i \in 0 + 1..Len(chan) : chan[i].file = <<"index">> =>
              /\ \A d \in Docs : /\ Reached(queue, 0, i, d, chan[i].data.bodies[d].rev)'
                                 /\ NeverBelow(i, d, chan[i].data.bodies[d].rev)'
              /\ \A b \in chan[i].data.blobs : BlobReached(queue, 0, i, b)'
         /\ queue.index # NoWrite =>
              /\ \A d \in Docs : /\ Reached(queue, 0, 0, d, queue.index.data.bodies[d].rev)'
                                 /\ NeverBelow(0, d, queue.index.data.bodies[d].rev)'
              /\ \A b \in queue.index.data.blobs : BlobReached(queue, 0, 0, b)'
         /\ \A b \in mem.blobs : BlobReached(queue, 0, Len(chan), b)'
<1>1. /\ Len(chan) \in Nat /\ Len(chan') \in {Len(chan), Len(chan) + 1} /\ clock \in Nat
      /\ UNCHANGED <<queue, writer, disk, failed>>
      /\ \A i \in 1..Len(chan) : chan'[i] = chan[i] /\ chan[i] \in Ops(clock)
  <2>1. Len(chan) \in Nat /\ \A i \in 1..Len(chan) : chan[i] \in Ops(clock)
    BY DEF Types
  <2>2. QED
    BY <2>1 DEF Sends, Types, Revisions
<1>2. QueueOK(queue)'
  BY Grows, <1>1 DEF Pipeline, QueueOK, Sends
<1>3. /\ queue \in Queues(clock) /\ disk \in Disks(clock)
      /\ \A d : writer.write.file = Body(d) => writer.write.data \in BodiesTo(clock)
      /\ writer.write.file = <<"index">> => writer.write.data \in SnapshotsTo(clock)
  <2>1. CASE writer \in [tries : {1, 2}, write : Ops(clock)]
    BY <2>1, <1>1, OpsOfFiles DEF Types, Pipeline, QueueOK
  <2>2. CASE writer \in {Idle, NextUp}
    <3>1. writer.write.file = <<"none">>
      BY <2>2 DEF Idle, NextUp, NoWrite, Write
    <3>2. QED
      BY <3>1, FilesDiffer DEF Types, Pipeline, QueueOK
  <2>3. QED
    BY <2>1, <2>2 DEF Types
<1>4. BodiesInOrder(queue, 0)'
  <2>1. BodiesInOrder(queue, 0)
    BY DEF Pipeline
  <2>2. ASSUME NEW d \in Docs, NEW j \in 0 + 1..Len(chan'), chan'[j].file = Body(d)
        PROVE  /\ queue.bodies[d].rev < chan'[j].data.rev
               /\ writer.write.file = Body(d) => writer.write.data.rev < chan'[j].data.rev
               /\ \A i \in 0 + 1..Len(chan') : i < j /\ chan'[i].file = Body(d) =>
                    chan'[i].data.rev < chan'[j].data.rev
    <3>1. CASE j \in 0 + 1..Len(chan)
      <4>1. j \in 1..Len(chan) /\ chan'[j] = chan[j]
        BY <3>1, <1>1
      <4>2. \A i \in 0 + 1..Len(chan') : i < j =>
              i \in 0 + 1..Len(chan) /\ chan'[i] = chan[i]
        BY <3>1, <1>1
      <4>3. QED
        BY <2>1, <2>2, <3>1, <4>1, <4>2 DEF BodiesInOrder
    <3>2. CASE Added(j)
      <4>1. chan'[j].data.rev = clock + 1 /\ j = Len(chan) + 1
        BY <2>2, <3>2, <1>1 DEF Sends, Added
      <4>2. \A b \in BodiesTo(clock) : b.rev < clock + 1
        BY <1>1 DEF BodiesTo
      <4>3. queue.bodies[d] \in BodiesTo(clock)
        BY <1>3 DEF Queues
      <4>4. ASSUME NEW i \in 0 + 1..Len(chan'), i < j, chan'[i].file = Body(d)
            PROVE  chan'[i].data.rev < clock + 1
        <5>1. i \in 1..Len(chan) /\ chan'[i] = chan[i] /\ chan[i] \in Ops(clock)
          BY <4>1, <4>4, <1>1
        <5>2. chan[i].data \in BodiesTo(clock)
          BY <5>1, <4>4, <1>1, OpsOfFiles
        <5>3. QED
          BY <5>1, <5>2, <4>2
      <4>5. QED
        BY <4>1, <4>2, <4>3, <4>4, <1>3
    <3>3. QED
      BY <3>1, <3>2, <1>1 DEF Added
  <2>3. QED
    BY <2>1, <2>2, <1>1 DEF BodiesInOrder
<1>5. ASSUME NEW s \in SnapshotsTo(clock), NEW d \in Docs
      PROVE  s.bodies[d].rev \in Int /\ s.bodies[d].rev <= clock
  BY <1>1 DEF SnapshotsTo, BodiesTo
<1>6. 0 \in 0..Len(chan) /\ Len(chan) \in 0..Len(chan)
  BY <1>1
<1>7. IndexWritten(queue, 0)'
  <2>1. ASSUME NEW s \in SnapshotsTo(clock), PayloadsWritten(s, queue, 0)
        PROVE  PayloadsWritten(s, queue, 0)'
    <3>1. \A d \in Docs : NeverBelow(0, d, s.bodies[d].rev)'
      BY <2>1, <1>5, <1>6, AheadAfterSend DEF PayloadsWritten
    <3>2. QED
      BY <2>1, <3>1, <1>1 DEF PayloadsWritten
  <2>2. IndexWritten(queue, 0)
    BY DEF Pipeline
  <2>3. disk.index \in SnapshotsTo(clock)
    BY <1>3 DEF Disks
  <2>4. QED
    BY <2>1, <2>2, <2>3, <1>1, <1>3 DEF IndexWritten
<1>8. PayloadsAhead(queue, 0)
  BY DEF Pipeline
<1>9. ASSUME NEW i \in 0 + 1..Len(chan), chan[i].file = <<"index">>
      PROVE  /\ \A d \in Docs : /\ Reached(queue, 0, i, d, chan[i].data.bodies[d].rev)'
                                /\ NeverBelow(i, d, chan[i].data.bodies[d].rev)'
             /\ \A b \in chan[i].data.blobs : BlobReached(queue, 0, i, b)'
  <2>1. i \in 0..Len(chan) /\ i \in 1..Len(chan) /\ chan'[i] = chan[i]
    BY <1>1
  <2>2. chan[i].data \in SnapshotsTo(clock)
    BY <1>1, <1>9, <2>1, OpsOfFiles
  <2>3. \A d \in Docs : /\ chan[i].data.bodies[d].rev \in Int
                       /\ chan[i].data.bodies[d].rev <= clock
    BY <1>5, <2>2
  <2>4. QED
    BY <1>8, <1>9, <2>1, <2>3, AheadAfterSend DEF PayloadsAhead
<1>10. ASSUME queue.index # NoWrite
       PROVE  /\ \A d \in Docs : /\ Reached(queue, 0, 0, d, queue.index.data.bodies[d].rev)'
                                 /\ NeverBelow(0, d, queue.index.data.bodies[d].rev)'
              /\ \A b \in queue.index.data.blobs : BlobReached(queue, 0, 0, b)'
  <2>1. queue.index.data \in SnapshotsTo(clock)
    BY <1>3, <1>10 DEF Queues, IndexOps
  <2>2. /\ \A d \in Docs : /\ queue.index.data.bodies[d].rev \in Int
                           /\ queue.index.data.bodies[d].rev <= clock
        /\ queue' = queue
    BY <1>1, <1>5, <2>1
  <2>3. QED
    BY <1>6, <1>8, <1>10, <2>2, AheadAfterSend DEF PayloadsAhead
<1>11. \A b \in mem.blobs : BlobReached(queue, 0, Len(chan), b)'
  BY <1>6, <1>8, AheadAfterSend DEF PayloadsAhead
<1>12. QED
  BY <1>2, <1>4, <1>7, <1>9, <1>10, <1>11

\* A mutator of MemStore changes the store, and sends what it changed of bodies and blobs.
Mutated ==
  /\ ~emitting /\ emitting' = TRUE /\ clock' = clock + 1
  /\ mem' \in StoresTo(clock + 1) /\ mem'.rev = clock + 1
  /\ line' = Append(line, Snapshot(mem', schema))
  /\ UNCHANGED <<schema, reloads, prefs, prefsLine>> /\ Sends
  /\ \A i : Added(i) => chan'[i].file \notin {<<"index">>, <<"prefs">>}
  /\ \A b \in mem'.blobs \ mem.blobs : \E i : Added(i) /\ chan'[i].file = Blob(b)
  /\ \A d \in Docs :
       \/ mem'.bodies[d] = mem.bodies[d] /\ \A i : Added(i) => chan'[i].file # Body(d)
       \/ mem'.bodies[d] = NoBody
       \/ Added(Len(chan')) /\ chan'[Len(chan')] = Write(Body(d), mem'.bodies[d])

LEMMA SnapshotType ==
  ASSUME NEW n \in Nat, NEW m \in StoresTo(n), NEW v \in 1..MaxSchema
  PROVE  Snapshot(m, v) \in SnapshotsTo(n) /\ Snapshot(m, v).rev = m.rev
BY DEF StoresTo, SnapshotsTo, Snapshot

LEMMA MutatedInvariant ==
  ASSUME IInv, Mutated
  PROVE  IInv'
<1>1. /\ Len(chan) \in Nat /\ Len(chan') \in {Len(chan), Len(chan) + 1}
      /\ clock \in Nat /\ clock' = clock + 1 /\ clock' \in Revisions
      /\ UNCHANGED <<queue, writer, disk, failed>>
      /\ \A i \in 1..Len(chan) : chan'[i] = chan[i]
      /\ schema \in 1..MaxSchema /\ schema' = schema
  BY DEF Mutated, Sends, IInv, Types, Revisions
<1>2. /\ Snapshot(mem, schema)' = Snapshot(mem', schema)
      /\ Snapshot(mem', schema) \in SnapshotsTo(clock + 1)
      /\ Snapshot(mem', schema).rev = clock + 1
  <2>1. clock + 1 \in Nat
    BY <1>1
  <2>2. QED
    BY <2>1, <1>1, SnapshotType DEF Mutated, Snapshot
<1>3. Types'
  <2>1. line' \in Seq(SnapshotsTo(clock + 1)) /\ line' # <<>>
    BY <1>1, <1>2, Grows, AppendLast DEF Mutated, IInv
  <2>2. QED
    BY <2>1, <1>1, Grows DEF IInv, Types, Mutated, Sends
<1>4. /\ line \in Seq(SnapshotsTo(clock)) /\ Len(line) \in Nat /\ Len(line') = Len(line) + 1
      /\ line'[Len(line')] = Snapshot(mem', schema)
      /\ \A i \in 1..Len(line) : line'[i] = line[i] /\ line[i] \in SnapshotsTo(clock)
      /\ DOMAIN line = 1..Len(line) /\ DOMAIN line' = 1..(Len(line) + 1)
  BY DEF IInv, Types, Mutated
<1>5. \A s \in SnapshotsTo(clock) : s.rev \in Int /\ s.rev < clock + 1
  BY <1>1 DEF SnapshotsTo
<1>6. LineInOrder'
  <2>1. LineInOrder
    BY DEF IInv
  <2>2. ASSUME NEW i \in DOMAIN line', NEW j \in DOMAIN line', i < j
        PROVE  line'[i].rev < line'[j].rev
    <3>1. CASE j = Len(line) + 1
      BY <3>1, <2>2, <1>2, <1>4, <1>5
    <3>2. CASE j \in 1..Len(line)
      BY <3>2, <2>1, <2>2, <1>4 DEF LineInOrder
    <3>3. QED
      BY <3>1, <3>2, <1>4
  <2>3. QED
    BY <2>1, <2>2, <1>2, <1>4 DEF LineInOrder, Mutated
<1>7. /\ QueueOK(queue)' /\ BodiesInOrder(queue, 0)' /\ IndexWritten(queue, 0)'
      /\ \A i \in 0 + 1..Len(chan) : chan[i].file = <<"index">> =>
           /\ \A d \in Docs : /\ Reached(queue, 0, i, d, chan[i].data.bodies[d].rev)'
                              /\ NeverBelow(i, d, chan[i].data.bodies[d].rev)'
           /\ \A b \in chan[i].data.blobs : BlobReached(queue, 0, i, b)'
      /\ queue.index # NoWrite =>
           /\ \A d \in Docs : /\ Reached(queue, 0, 0, d, queue.index.data.bodies[d].rev)'
                              /\ NeverBelow(0, d, queue.index.data.bodies[d].rev)'
           /\ \A b \in queue.index.data.blobs : BlobReached(queue, 0, 0, b)'
      /\ \A b \in mem.blobs : BlobReached(queue, 0, Len(chan), b)'
  BY PipelineAfterSend DEF IInv, Mutated
<1>8. \A i \in 0 + 1..Len(chan') : chan'[i].file = <<"index">> =>
        i \in 0 + 1..Len(chan) /\ i \in 1..Len(chan) /\ chan'[i] = chan[i]
  <2>1. \A i \in 0 + 1..Len(chan') : i \in 1..Len(chan) \/ Added(i)
    BY <1>1 DEF Added
  <2>2. \A i : Added(i) => chan'[i].file # <<"index">>
    BY DEF Mutated
  <2>3. \A i \in 1..Len(chan) : i \in 0 + 1..Len(chan)
    BY <1>1
  <2>4. QED
    BY <2>1, <2>2, <2>3, <1>1
<1>9. PayloadsAhead(queue, 0)'
  <2>1. ASSUME NEW b \in mem'.blobs
        PROVE  BlobReached(queue, 0, Len(chan), b)'
    <3>1. CASE b \in mem.blobs
      <4>1. BlobReached(queue, 0, Len(chan), b)'
        BY <3>1, <1>7
      <4>2. QED
        BY <4>1
    <3>2. CASE \E i : Added(i) /\ chan'[i].file = Blob(b)
      <4>1. InChan(0, Len(chan), Blob(b))'
        BY <3>2, <1>1 DEF Added, InChan
      <4>2. QED
        BY <4>1 DEF BlobReached
    <3>3. QED
      BY <3>1, <3>2 DEF Mutated
  <2>2. ASSUME NEW i \in 0 + 1..Len(chan'), chan'[i].file = <<"index">>
        PROVE  /\ \A d \in Docs : /\ Reached(queue, 0, i, d, chan[i].data.bodies[d].rev)'
                                  /\ NeverBelow(i, d, chan[i].data.bodies[d].rev)'
               /\ \A b \in chan'[i].data.blobs : BlobReached(queue, 0, i, b)'
    BY <2>2, <1>7, <1>8
  <2>3. QED
    BY <2>1, <2>2, <1>1, <1>7 DEF PayloadsAhead
<1>10. IndexesInOrder(queue, 0)'
  <2>1. IndexesInOrder(queue, 0)
    BY DEF IInv, Pipeline
  <2>2. disk.index \in SnapshotsTo(clock)
    BY DEF IInv, Types, Disks
  <2>3. \A s \in Range(line) : s \in Range(line') /\ s.rev < clock + 1
    BY <1>4, <1>5 DEF Range
  <2>4. mem'.rev = clock + 1 /\ emitting'
    BY DEF Mutated
  <2>5. QED
    BY <2>1, <2>2, <2>3, <2>4, <1>1, <1>5, <1>8 DEF IndexesInOrder
<1>11. LatestIsLast(queue, 0)'
  <2>1. LatestIsLast(queue, 0) /\ Types
    BY DEF IInv, Pipeline
  <2>2. Len(prefsLine') = 1 \/
          IsLast(Write(<<"prefs">>, prefs), queue.prefs, 0, disk.prefs = prefs)'
    <3> DEFINE w == Write(<<"prefs">>, prefs)
               done == disk.prefs = prefs
    <3>1. w.file = <<"prefs">> /\ w' = w /\ done' = done
      BY <1>1 DEF Write, Mutated
    <3> SUFFICES ASSUME IsLast(w, queue.prefs, 0, done)
                 PROVE  IsLast(w, queue.prefs, 0, done)'
      BY <2>1 DEF LatestIsLast, Mutated
    <3> HIDE DEF w, done
    <3>2. QED
      BY <3>1, <2>1, <1>1, IsLastAfterSend DEF Mutated
  <2>3. ASSUME NEW d \in Docs, mem'.bodies[d] # NoBody
        PROVE  IsLast(Write(Body(d), mem.bodies[d]),
                 IF queue.bodies[d] = NoBody THEN NoWrite ELSE Write(Body(d), queue.bodies[d]),
                 0, disk.bodies[d] = mem.bodies[d])'
    <3> DEFINE w == Write(Body(d), mem.bodies[d])
               done == disk.bodies[d] = mem.bodies[d]
               waiting == IF queue.bodies[d] = NoBody THEN NoWrite
                          ELSE Write(Body(d), queue.bodies[d])
    <3>1. w.file = Body(d) /\ waiting' = waiting
      BY <1>1 DEF Write
    <3>2. CASE /\ mem'.bodies[d] = mem.bodies[d]
               /\ \A i : Added(i) => chan'[i].file # Body(d)
      <4>1. w' = w /\ done' = done
        BY <3>2, <1>1
      <4>2. IsLast(w, waiting, 0, done)
        BY <2>1, <2>3, <3>2 DEF LatestIsLast
      <4> HIDE DEF w, done, waiting
      <4>3. IsLast(w, waiting, 0, done)'
        BY <4>1, <4>2, <3>1, <3>2, <2>1, IsLastAfterSend DEF Mutated
      <4>4. QED
        BY <4>3 DEF w, done, waiting
    <3>3. CASE Added(Len(chan')) /\ chan'[Len(chan')] = w'
      <4> HIDE DEF w, done, waiting
      <4>1. IsLast(w, waiting, 0, done)'
        BY <3>1, <3>3, <1>1, IsLastWhenSent DEF Mutated
      <4>2. QED
        BY <4>1 DEF w, done, waiting
    <3>4. QED
      BY <3>2, <3>3, <2>3 DEF Mutated
  <2>4. emitting'
    BY DEF Mutated
  <2>5. QED
    BY <2>2, <2>3, <2>4 DEF LatestIsLast
<1>12. QED
  BY <1>3, <1>6, <1>7, <1>9, <1>10, <1>11 DEF IInv, Pipeline

LEMMA NewRevision ==
  ASSUME NEW n \in Nat, NEW m \in StoresTo(n), NEW r \in 0..n
  PROVE  LET new == [m EXCEPT !.rev = r]
         IN /\ new \in StoresTo(n) /\ new.rev = r /\ new.blobs = m.blobs
            /\ new.bodies = m.bodies
BY DEF StoresTo

\* What is sent: nothing, or one op.
LEMMA SendsNothing ==
  ASSUME Types, clock' = clock + 1, clock < MaxRevision,
         UNCHANGED <<queue, writer, disk, failed>>, chan' = chan \o <<>>
  PROVE  Sends /\ (\A i : ~Added(i)) /\ Len(chan') = Len(chan)
<1>1. /\ chan' = chan /\ Len(chan) \in Nat /\ clock' \in Revisions /\ clock \in Nat
  BY BoundsAssumption DEF Types, Revisions
<1>2. chan' \in Seq(Ops(clock'))
  BY <1>1, Grows
<1>3. \A i : ~Added(i)
  BY <1>1 DEF Added
<1>4. QED
  BY <1>1, <1>2, <1>3 DEF Sends

LEMMA SendsOne ==
  ASSUME Types, clock' \in {clock, clock + 1}, clock' \in Revisions, NEW w \in Ops(clock'),
         UNCHANGED <<queue, writer, disk, failed>>,
         chan' = Append(chan, w) \/ chan' = chan \o <<w>>,
         \A d : w.file = Body(d) => w.data.rev = clock + 1
  PROVE  /\ Sends /\ Len(chan') = Len(chan) + 1 /\ chan'[Len(chan')] = w /\ Added(Len(chan'))
         /\ \A i : Added(i) => i = Len(chan') /\ chan'[i] = w
<1>1. chan \in Seq(Ops(clock')) /\ clock \in Nat
  BY Grows DEF Types, Revisions
<1>2. /\ Len(chan) \in Nat /\ Len(chan') = Len(chan) + 1 /\ chan'[Len(chan) + 1] = w
      /\ chan' \in Seq(Ops(clock'))
      /\ \A i \in 1..Len(chan) : chan'[i] = chan[i]
  BY <1>1, AppendLast
<1>3. \A i : Added(i) => i = Len(chan') /\ chan'[i] = w
  BY <1>2 DEF Added
<1>4. Added(Len(chan'))
  BY <1>2 DEF Added
<1>5. QED
  BY <1>1, <1>2, <1>3, <1>4 DEF Sends

LEMMA MutateMutates ==
  ASSUME IInv,
         \/ \E d \in Docs : UpsertDocument(d, TRUE) \/ UpsertDocument(d, FALSE)
         \/ \E b \in Blobs : PutBlob(b)
         \/ ChangeState
  PROVE  Mutated
<1>1. /\ clock \in Nat /\ clock + 1 \in Nat /\ schema \in 1..MaxSchema
      /\ mem \in StoresTo(clock) /\ mem \in StoresTo(clock + 1) /\ Types
      /\ NoBody \in BodiesTo(clock + 1) /\ clock + 1 \in 0..(clock + 1)
      /\ clock < MaxRevision => clock + 1 \in Revisions
  BY Grows, NoBodyType, BoundsAssumption DEF IInv, Types, Revisions
<1>2. ASSUME NEW d \in Docs, UpsertDocument(d, TRUE)
      PROVE  Mutated
  <2> DEFINE decoded == [rev |-> clock + 1, schema |-> schema]
             w == Write(Body(d), decoded)
             m == [mem EXCEPT !.docs = @ \cup {d}, !.bodies[d] = decoded]
  <2>1. /\ decoded \in BodiesTo(clock + 1) \ {NoBody} /\ decoded.rev = clock + 1
    BY <1>1, BoundsAssumption DEF BodiesTo, NoBody
  <2>2. Mutate(m, <<w>>)
    BY <1>2 DEF UpsertDocument, Body
  <2> HIDE DEF decoded
  <2>3. /\ m \in StoresTo(clock + 1) /\ m.blobs = mem.blobs
        /\ \A e \in Docs : m.bodies[e] = IF e = d THEN decoded ELSE mem.bodies[e]
    BY <1>1, <2>1 DEF StoresTo
  <2> HIDE DEF m
  <2>4. /\ mem' \in StoresTo(clock + 1) /\ mem'.rev = clock + 1 /\ mem'.blobs = mem.blobs
        /\ \A e \in Docs : mem'.bodies[e] = IF e = d THEN decoded ELSE mem.bodies[e]
    BY <1>1, <2>2, <2>3, NewRevision DEF Mutate
  <2>5. w \in Ops(clock + 1) /\ w.file = Body(d) /\ w.data = decoded
    BY <2>1 DEF Ops, BodyOps, Write, Body
  <2> HIDE DEF w
  <2>6. /\ Sends /\ Added(Len(chan')) /\ chan'[Len(chan')] = w
        /\ \A i : Added(i) => chan'[i] = w
    BY <1>1, <2>1, <2>2, <2>5, SendsOne DEF Mutate
  <2>7. /\ \A i : Added(i) => /\ chan'[i].file \notin {<<"index">>, <<"prefs">>}
                              /\ \A e : e # d => chan'[i].file # Body(e)
    BY <2>5, <2>6, FilesDiffer
  <2>8. chan'[Len(chan')] = Write(Body(d), mem'.bodies[d])
    BY <2>4, <2>6 DEF w
  <2>9. QED
    BY <2>2, <2>4, <2>6, <2>7, <2>8 DEF Mutated, Mutate
<1>3. ASSUME NEW d \in Docs, UpsertDocument(d, FALSE)
      PROVE  Mutated
  <2> DEFINE m == [mem EXCEPT !.docs = @ \cup {d}, !.bodies[d] = NoBody]
  <2>1. Mutate(m, <<>>)
    BY <1>3 DEF UpsertDocument
  <2>2. /\ m \in StoresTo(clock + 1) /\ m.blobs = mem.blobs
        /\ \A e \in Docs : m.bodies[e] = IF e = d THEN NoBody ELSE mem.bodies[e]
    BY <1>1 DEF StoresTo
  <2> HIDE DEF m
  <2>3. /\ mem' \in StoresTo(clock + 1) /\ mem'.rev = clock + 1 /\ mem'.blobs = mem.blobs
        /\ \A e \in Docs : mem'.bodies[e] = IF e = d THEN NoBody ELSE mem.bodies[e]
    BY <1>1, <2>1, <2>2, NewRevision DEF Mutate
  <2>4. Sends /\ \A i : ~Added(i)
    BY <1>1, <2>1, SendsNothing DEF Mutate
  <2>5. QED
    BY <2>1, <2>3, <2>4 DEF Mutated, Mutate
<1>4. ASSUME NEW b \in Blobs, PutBlob(b)
      PROVE  Mutated
  <2> DEFINE w == Write(Blob(b), 1)
             m == [mem EXCEPT !.blobs = @ \cup {b}]
  <2>1. Mutate(m, <<w>>)
    BY <1>4 DEF PutBlob, Blob
  <2>2. m \in StoresTo(clock + 1) /\ m.blobs = mem.blobs \cup {b} /\ m.bodies = mem.bodies
    BY <1>1 DEF StoresTo
  <2> HIDE DEF m
  <2>3. /\ mem' \in StoresTo(clock + 1) /\ mem'.rev = clock + 1
        /\ mem'.blobs = mem.blobs \cup {b} /\ mem'.bodies = mem.bodies
    BY <1>1, <2>1, <2>2, NewRevision DEF Mutate
  <2>4. w \in Ops(clock + 1) /\ w.file = Blob(b)
    BY DEF Ops, BlobOps, Write, Blob
  <2> HIDE DEF w
  <2>5. \A d : w.file # Body(d)
    BY <2>4, FilesDiffer
  <2>6. /\ Sends /\ Added(Len(chan')) /\ chan'[Len(chan')] = w
        /\ \A i : Added(i) => chan'[i] = w
    BY <1>1, <2>1, <2>4, <2>5, SendsOne DEF Mutate
  <2>7. \A i : Added(i) => /\ chan'[i].file \notin {<<"index">>, <<"prefs">>}
                           /\ \A d : chan'[i].file # Body(d)
    BY <2>4, <2>6, FilesDiffer
  <2>8. QED
    BY <2>1, <2>3, <2>4, <2>6, <2>7 DEF Mutated, Mutate
<1>5. ASSUME ChangeState PROVE Mutated
  <2>1. /\ mem' \in StoresTo(clock + 1) /\ mem'.rev = clock + 1
        /\ mem'.blobs = mem.blobs /\ mem'.bodies = mem.bodies
    BY <1>1, <1>5 DEF ChangeState, Mutate, StoresTo
  <2>2. Sends /\ \A i : ~Added(i)
    BY <1>1, <1>5, SendsNothing DEF ChangeState, Mutate
  <2>3. QED
    BY <2>1, <2>2, <1>5 DEF Mutated, ChangeState, Mutate
<1>6. QED
  BY <1>2, <1>3, <1>4, <1>5

\* An index names bodies that are ahead of it: those the store holds are on their way.
LEMMA LastIsReached ==
  ASSUME IInv, NEW d \in Docs
  PROVE  Reached(queue, 0, Len(chan), d, mem.bodies[d].rev)
<1> DEFINE r == mem.bodies[d].rev
           w == Write(Body(d), mem.bodies[d])
           waiting == IF queue.bodies[d] = NoBody THEN NoWrite
                      ELSE Write(Body(d), queue.bodies[d])
<1>1. /\ clock \in Nat /\ mem.bodies[d] \in BodiesTo(clock) /\ r \in Int
      /\ queue.bodies[d].rev \in Nat /\ disk.bodies[d].rev \in Nat
      /\ \A i \in 0 + 1..Len(chan) : chan[i] \in Ops(clock)
      /\ Len(chan) \in Nat
  <2>1. Len(chan) \in Nat /\ \A i \in 1..Len(chan) : chan[i] \in Ops(clock)
    BY DEF IInv, Types
  <2>2. /\ clock \in Nat /\ mem.bodies[d] \in BodiesTo(clock)
        /\ queue.bodies[d] \in BodiesTo(clock) /\ disk.bodies[d] \in BodiesTo(clock)
    BY DEF IInv, Types, StoresTo, Disks, Revisions, Pipeline, QueueOK, Queues
  <2>3. QED
    BY <2>1, <2>2 DEF BodiesTo
<1>2. writer.write.file = Body(d) => writer.write.data.rev \in Nat
  <2>1. writer.write.file = Body(d) => writer.write \in Ops(clock)
    BY FilesDiffer DEF IInv, Types, Idle, NextUp, NoWrite, Write
  <2>2. QED
    BY <2>1, <1>1, OpsOfFiles DEF BodiesTo
<1>3. CASE mem.bodies[d] = NoBody
  <2>1. r = 0
    BY <1>3 DEF NoBody
  <2>2. \A i \in 0 + 1..Len(chan) : chan[i].file = Body(d) => chan[i].data.rev >= 0
    BY <1>1, OpsOfFiles DEF BodiesTo
  <2>3. QED
    BY <2>1, <2>2, <1>1, <1>2 DEF Reached, InChan
<1>4. CASE mem.bodies[d] # NoBody
  <2>1. IsLast(w, waiting, 0, disk.bodies[d] = mem.bodies[d])
    BY <1>4 DEF IInv, Pipeline, LatestIsLast
  <2>2. w.file = Body(d) /\ w.data = mem.bodies[d] /\ w.data.rev = r /\ w # NoWrite
    BY DEF Write, NoWrite, Body
  <2>3. /\ waiting = w => queue.bodies[d] = mem.bodies[d] /\ queue.bodies[d] # NoBody
        /\ waiting = NoWrite => queue.bodies[d] = NoBody
    BY <2>2, <1>4 DEF Write, NoWrite, Body
  <2> HIDE DEF w, waiting
  <2>4. CASE \E i \in 0 + 1..Len(chan) : chan[i] = w
    BY <2>2, <2>4, <1>1 DEF Reached
  <2>5. CASE ~InChan(0, Len(chan), Body(d)) /\ waiting = w
    BY <2>3, <2>5, <1>1 DEF Reached
  <2>6. CASE ~InChan(0, Len(chan), Body(d)) /\ waiting = NoWrite /\ writer.write = w
    BY <2>2, <2>6, <1>1 DEF Reached
  <2>7. CASE /\ ~InChan(0, Len(chan), Body(d)) /\ waiting = NoWrite
             /\ writer.write.file # Body(d)
             /\ disk.bodies[d] = mem.bodies[d] \/ Body(d) \in failed
    BY <2>3, <2>7, <1>1 DEF Reached
  <2>8. QED
    BY <2>1, <2>2, <2>4, <2>5, <2>6, <2>7 DEF IsLast
<1>5. QED
  BY <1>3, <1>4

LEMMA EmitIndexInvariant ==
  ASSUME IInv, EmitIndex
  PROVE  IInv'
<1> DEFINE s == Snapshot(mem, schema)
           w == Write(<<"index">>, s)
<1> PICK n : n = Len(chan)
  OBVIOUS
<1>1. /\ emitting /\ ~emitting' /\ chan' = Append(chan, w) /\ Types
      /\ UNCHANGED <<clock, schema, reloads, mem, prefs, queue, writer, disk, failed, line,
                     prefsLine>>
      /\ clock \in Nat /\ clock \in Revisions /\ n \in Nat
  BY DEF EmitIndex, IInv, Types, Revisions
<1>2. /\ s \in SnapshotsTo(clock) /\ w \in Ops(clock) /\ s.rev = mem.rev
      /\ s.bodies = mem.bodies /\ s.blobs = mem.blobs
      /\ w.file = <<"index">> /\ w.data = s /\ s' = s
  <2>1. s \in SnapshotsTo(clock) /\ s.rev = mem.rev
    BY <1>1, SnapshotType DEF Types
  <2>2. w.file = <<"index">> /\ w.data = s /\ w = [file |-> <<"index">>, data |-> s]
    BY DEF Write
  <2>3. w \in Ops(clock)
    BY <2>1, <2>2 DEF Ops, IndexOps
  <2>4. s' = s
    BY <1>1 DEF Snapshot
  <2>5. s.bodies = mem.bodies /\ s.blobs = mem.blobs
    BY DEF Snapshot
  <2>6. QED
    BY <2>1, <2>2, <2>3, <2>4, <2>5
<1> HIDE DEF w
<1>3. /\ Sends /\ Len(chan') = n + 1 /\ chan'[n + 1] = w /\ Added(Len(chan'))
      /\ \A i : Added(i) => i = n + 1 /\ chan'[i] = w
      /\ \A d : w.file # Body(d)
      /\ \A i \in 1..n : chan'[i] = chan[i]
  <2>1. \A d : w.file # Body(d)
    BY <1>2, FilesDiffer
  <2>2. /\ Sends /\ Len(chan') = n + 1 /\ chan'[Len(chan')] = w /\ Added(Len(chan'))
        /\ \A i : Added(i) => i = Len(chan') /\ chan'[i] = w
    BY <1>1, <1>2, <2>1, SendsOne
  <2>3. QED
    BY <2>1, <2>2 DEF Sends
<1> HIDE DEF s
<1>4. /\ QueueOK(queue)' /\ BodiesInOrder(queue, 0)' /\ IndexWritten(queue, 0)'
      /\ \A i \in 0 + 1..Len(chan) : chan[i].file = <<"index">> =>
           /\ \A d \in Docs : /\ Reached(queue, 0, i, d, chan[i].data.bodies[d].rev)'
                              /\ NeverBelow(i, d, chan[i].data.bodies[d].rev)'
           /\ \A b \in chan[i].data.blobs : BlobReached(queue, 0, i, b)'
      /\ queue.index # NoWrite =>
           /\ \A d \in Docs : /\ Reached(queue, 0, 0, d, queue.index.data.bodies[d].rev)'
                              /\ NeverBelow(0, d, queue.index.data.bodies[d].rev)'
           /\ \A b \in queue.index.data.blobs : BlobReached(queue, 0, 0, b)'
      /\ \A b \in mem.blobs : BlobReached(queue, 0, Len(chan), b)'
  BY <1>3, PipelineAfterSend DEF IInv
<1>5. Types' /\ LineInOrder'
  <2>1. chan' \in Seq(Ops(clock'))
    BY <1>3 DEF Sends
  <2>2. emitting' \in BOOLEAN
    BY DEF EmitIndex
  <2>3. Types'
    BY <2>1, <2>2, <1>1 DEF Types
  <2>4. LineInOrder'
    BY <1>1 DEF IInv, LineInOrder, Snapshot
  <2>5. QED
    BY <2>3, <2>4
<1>6. \A i \in 0 + 1..Len(chan') :
        \/ i \in 0 + 1..n /\ i \in 1..n /\ chan'[i] = chan[i] /\ i < n + 1
        \/ i = n + 1 /\ chan'[i] = w
  BY <1>1, <1>3
<1>7. PayloadsAhead(queue, 0)'
  <2>1. ASSUME NEW d \in Docs
        PROVE  /\ Reached(queue, 0, n + 1, d, mem.bodies[d].rev)'
               /\ NeverBelow(n + 1, d, mem.bodies[d].rev)'
    <3> DEFINE r == mem.bodies[d].rev
    <3>1. Reached(queue, 0, n, d, r)
      BY LastIsReached
    <3>2. n \in 0..n /\ r' = r
      BY <1>1
    <3> HIDE DEF r
    <3>3. Reached(queue, 0, n, d, r)'
      BY <3>1, <3>2, <1>1, <1>3, AheadAfterSend
    <3>4. \A i \in 0 + 1..n + 1 : i \in 0 + 1..n \/ chan'[i].file # Body(d)
      BY <1>3, <1>6
    <3>5. \A i \in 0 + 1..n : i \in 0 + 1..n + 1
      BY <1>1
    <3>6. InChan(0, n + 1, Body(d))' = InChan(0, n, Body(d))'
      BY <3>4, <3>5, <1>1, <1>3 DEF InChan
    <3>7. Reached(queue, 0, n + 1, d, r)'
      BY <3>3, <3>5, <3>6 DEF Reached
    <3>8. \A j \in (n + 1) + 1..Len(chan') : FALSE
      BY <1>1, <1>3
    <3>9. NeverBelow(n + 1, d, r)'
      BY <3>8, <1>3 DEF NeverBelow
    <3>10. QED
      BY <3>7, <3>9 DEF r
  <2>2. ASSUME NEW b \in mem.blobs
        PROVE  BlobReached(queue, 0, n + 1, b)'
    <3>1. BlobReached(queue, 0, Len(chan), b)'
      BY <1>4
    <3>2. QED
      BY <3>1, <1>3 DEF BlobReached, InChan
  <2>3. ASSUME NEW i \in 0 + 1..Len(chan'), chan'[i].file = <<"index">>
        PROVE  /\ \A d \in Docs : /\ Reached(queue, 0, i, d, chan[i].data.bodies[d].rev)'
                                  /\ NeverBelow(i, d, chan[i].data.bodies[d].rev)'
               /\ \A b \in chan'[i].data.blobs : BlobReached(queue, 0, i, b)'
    <3>1. CASE i \in 0 + 1..n /\ chan'[i] = chan[i]
      BY <3>1, <2>3, <1>4
    <3>2. CASE i = n + 1 /\ chan'[i] = w
      BY <3>2, <2>1, <2>2, <1>1, <1>2
    <3>3. QED
      BY <3>1, <3>2, <1>6
  <2>4. ASSUME NEW b \in mem'.blobs PROVE BlobReached(queue, 0, Len(chan), b)'
    BY <2>2, <1>1, <1>3
  <2>5. QED
    BY <2>3, <2>4, <1>1, <1>4 DEF PayloadsAhead
<1>8. IndexesInOrder(queue, 0)'
  <2>1. IndexesInOrder(queue, 0) /\ LineInOrder
    BY DEF IInv, Pipeline
  <2>2. s \in Range(line) /\ s.rev > disk.index.rev
    <3>1. Len(line) \in DOMAIN line /\ line[Len(line)] = s
      BY <2>1, <1>1 DEF Types, LineInOrder, s
    <3>2. disk.index.rev < mem.rev /\ disk.index.rev \in Int /\ mem.rev \in Int
      BY <2>1, <1>1 DEF IndexesInOrder, Types, Disks, SnapshotsTo, StoresTo
    <3>3. QED
      BY <3>1, <3>2, <1>2 DEF Range
  <2>3. QED
    BY <2>1, <2>2, <1>1, <1>2, <1>6 DEF IndexesInOrder
<1>9. LatestIsLast(queue, 0)'
  <2>1. LatestIsLast(queue, 0) /\ w' = w
    BY <1>2 DEF IInv, Pipeline, w
  <2>2. IsLast(w, queue.index, 0, disk.index.rev = mem.rev)'
    BY <2>1, <1>1, <1>3, IsLastWhenSent
  <2>3. Len(prefsLine') = 1 \/
          IsLast(Write(<<"prefs">>, prefs), queue.prefs, 0, disk.prefs = prefs)'
    <3> DEFINE x == Write(<<"prefs">>, prefs)
               done == disk.prefs = prefs
    <3>1. x.file = <<"prefs">> /\ x' = x /\ done' = done
      BY <1>1 DEF Write
    <3>2. \A i : Added(i) => chan'[i].file # x.file
      BY <3>1, <1>2, <1>3
    <3> SUFFICES ASSUME IsLast(x, queue.prefs, 0, done)
                 PROVE  IsLast(x, queue.prefs, 0, done)'
      BY <2>1, <1>1 DEF LatestIsLast
    <3> HIDE DEF x, done
    <3>3. QED
      BY <3>1, <3>2, <1>1, <1>3, IsLastAfterSend
  <2>4. ASSUME NEW d \in Docs, mem.bodies[d] # NoBody
        PROVE  IsLast(Write(Body(d), mem.bodies[d]),
                 IF queue.bodies[d] = NoBody THEN NoWrite ELSE Write(Body(d), queue.bodies[d]),
                 0, disk.bodies[d] = mem.bodies[d])'
    <3> DEFINE x == Write(Body(d), mem.bodies[d])
               done == disk.bodies[d] = mem.bodies[d]
               waiting == IF queue.bodies[d] = NoBody THEN NoWrite
                          ELSE Write(Body(d), queue.bodies[d])
    <3>1. x.file = Body(d) /\ x' = x /\ done' = done /\ waiting' = waiting
      BY <1>1 DEF Write
    <3>2. \A i : Added(i) => chan'[i].file # x.file
      BY <3>1, <1>3
    <3>3. IsLast(x, waiting, 0, done)
      BY <2>1, <2>4 DEF LatestIsLast
    <3> HIDE DEF x, done, waiting
    <3>4. IsLast(x, waiting, 0, done)'
      BY <3>1, <3>2, <3>3, <1>1, <1>3, IsLastAfterSend
    <3>5. QED
      BY <3>4 DEF x, done, waiting
  <2>5. QED
    BY <2>2, <2>3, <2>4, <1>1 DEF LatestIsLast, w, s
<1>10. QED
  BY <1>4, <1>5, <1>7, <1>8, <1>9 DEF IInv, Pipeline

LEMMA SavePrefsInvariant ==
  ASSUME IInv, SavePrefs
  PROVE  IInv'
<1> DEFINE w == Write(<<"prefs">>, clock + 1)
<1> PICK n : n = Len(chan)
  OBVIOUS
<1>1. /\ ~emitting /\ chan' = Append(chan, w) /\ Types /\ clock' = clock + 1
      /\ prefs' = clock + 1 /\ prefsLine' = Append(prefsLine, clock + 1)
      /\ UNCHANGED <<schema, reloads, mem, emitting, queue, writer, disk, failed, line>>
      /\ clock \in Nat /\ clock + 1 \in Revisions /\ clock + 1 \in 0..clock + 1 /\ n \in Nat
  BY BoundsAssumption DEF SavePrefs, IInv, Types, Revisions
<1>2. /\ w \in Ops(clock + 1) /\ w.file = <<"prefs">> /\ w.data = clock + 1
      /\ \A d : w.file # Body(d)
      /\ w.file # <<"index">>
  BY <1>1, FilesDiffer DEF Write, Ops, PrefsOps
<1> HIDE DEF w
<1>3. /\ Sends /\ Len(chan') = n + 1 /\ chan'[Len(chan')] = w /\ Added(Len(chan'))
      /\ \A i : Added(i) => i = Len(chan') /\ chan'[i] = w
  BY <1>1, <1>2, SendsOne
<1>4. /\ QueueOK(queue)' /\ BodiesInOrder(queue, 0)' /\ IndexWritten(queue, 0)'
      /\ \A i \in 0 + 1..Len(chan) : chan[i].file = <<"index">> =>
           /\ \A d \in Docs : /\ Reached(queue, 0, i, d, chan[i].data.bodies[d].rev)'
                              /\ NeverBelow(i, d, chan[i].data.bodies[d].rev)'
           /\ \A b \in chan[i].data.blobs : BlobReached(queue, 0, i, b)'
      /\ queue.index # NoWrite =>
           /\ \A d \in Docs : /\ Reached(queue, 0, 0, d, queue.index.data.bodies[d].rev)'
                              /\ NeverBelow(0, d, queue.index.data.bodies[d].rev)'
           /\ \A b \in queue.index.data.blobs : BlobReached(queue, 0, 0, b)'
      /\ \A b \in mem.blobs : BlobReached(queue, 0, Len(chan), b)'
  BY <1>3, PipelineAfterSend DEF IInv
<1>5. /\ Types' /\ LineInOrder'
  <2>1. /\ prefsLine' \in Seq(0..(clock + 1)) /\ prefsLine' # <<>>
        /\ prefsLine'[Len(prefsLine')] = clock + 1
    BY <1>1, Grows, AppendLast
  <2>2. Types'
    BY <2>1, <1>1, <1>3, Grows DEF Types, Sends
  <2>3. QED
    BY <2>1, <2>2, <1>1 DEF IInv, LineInOrder, Snapshot
<1>6. \A i \in 0 + 1..Len(chan') :
        \/ i \in 0 + 1..n /\ chan'[i] = chan[i]
        \/ chan'[i] = w
  <2>1. \A i \in 0 + 1..Len(chan') : i \in 1..n \/ Added(i)
    BY <1>1, <1>3 DEF Added
  <2>2. \A i \in 1..n : i \in 0 + 1..n
    BY <1>1
  <2>3. QED
    BY <2>1, <2>2, <1>3 DEF Sends
<1>7. PayloadsAhead(queue, 0)'
  <2>1. ASSUME NEW b \in mem.blobs
        PROVE  BlobReached(queue, 0, n + 1, b)'
    <3>1. BlobReached(queue, 0, Len(chan), b)'
      BY <1>4
    <3>2. QED
      BY <3>1, <1>3 DEF BlobReached, InChan
  <2>2. ASSUME NEW i \in 0 + 1..Len(chan'), chan'[i].file = <<"index">>
        PROVE  /\ \A d \in Docs : /\ Reached(queue, 0, i, d, chan[i].data.bodies[d].rev)'
                                  /\ NeverBelow(i, d, chan[i].data.bodies[d].rev)'
               /\ \A b \in chan'[i].data.blobs : BlobReached(queue, 0, i, b)'
    BY <2>2, <1>2, <1>4, <1>6
  <2>3. QED
    BY <2>1, <2>2, <1>1, <1>3, <1>4 DEF PayloadsAhead
<1>8. IndexesInOrder(queue, 0)'
  <2>1. IndexesInOrder(queue, 0)
    BY DEF IInv, Pipeline
  <2>2. \A i \in 0 + 1..Len(chan') : chan'[i].file = <<"index">> =>
          i \in 0 + 1..n /\ chan'[i] = chan[i]
    BY <1>2, <1>6
  <2>3. QED
    BY <2>1, <2>2, <1>1 DEF IndexesInOrder
<1>9. LatestIsLast(queue, 0)'
  <2>1. LatestIsLast(queue, 0)
    BY DEF IInv, Pipeline
  <2>2. IsLast(Write(<<"prefs">>, prefs), queue.prefs, 0, disk.prefs = prefs)'
    <3> DEFINE x == Write(<<"prefs">>, prefs)
    <3>1. x' = w
      BY <1>1 DEF w
    <3> HIDE DEF x
    <3>2. IsLast(x, queue.prefs, 0, disk.prefs = prefs)'
      BY <3>1, <1>1, <1>3, IsLastWhenSent
    <3>3. QED
      BY <3>2 DEF x
  <2>3. emitting' \/ Len(line') = 1 \/
          IsLast(Write(<<"index">>, Snapshot(mem, schema)), queue.index, 0,
                 disk.index.rev = mem.rev)'
    <3> DEFINE x == Write(<<"index">>, Snapshot(mem, schema))
               done == disk.index.rev = mem.rev
    <3>1. x.file = <<"index">> /\ x' = x /\ done' = done
      BY <1>1 DEF Write, Snapshot
    <3>2. \A i : Added(i) => chan'[i].file # x.file
      BY <3>1, <1>2, <1>3
    <3> SUFFICES ASSUME IsLast(x, queue.index, 0, done)
                 PROVE  IsLast(x, queue.index, 0, done)'
      BY <2>1, <1>1 DEF LatestIsLast, Snapshot
    <3> HIDE DEF x, done
    <3>3. QED
      BY <3>1, <3>2, <1>1, <1>3, IsLastAfterSend
  <2>4. ASSUME NEW d \in Docs, mem.bodies[d] # NoBody
        PROVE  IsLast(Write(Body(d), mem.bodies[d]),
                 IF queue.bodies[d] = NoBody THEN NoWrite ELSE Write(Body(d), queue.bodies[d]),
                 0, disk.bodies[d] = mem.bodies[d])'
    <3> DEFINE x == Write(Body(d), mem.bodies[d])
               done == disk.bodies[d] = mem.bodies[d]
               waiting == IF queue.bodies[d] = NoBody THEN NoWrite
                          ELSE Write(Body(d), queue.bodies[d])
    <3>1. x.file = Body(d) /\ x' = x /\ done' = done /\ waiting' = waiting
      BY <1>1 DEF Write
    <3>2. \A i : Added(i) => chan'[i].file # x.file
      BY <3>1, <1>2, <1>3
    <3>3. IsLast(x, waiting, 0, done)
      BY <2>1, <2>4 DEF LatestIsLast
    <3> HIDE DEF x, done, waiting
    <3>4. IsLast(x, waiting, 0, done)'
      BY <3>1, <3>2, <3>3, <1>1, <1>3, IsLastAfterSend
    <3>5. QED
      BY <3>4 DEF x, done, waiting
  <2>5. QED
    BY <2>2, <2>3, <2>4, <1>1 DEF LatestIsLast
<1>10. QED
  BY <1>4, <1>5, <1>7, <1>8, <1>9 DEF IInv, Pipeline

-----------------------------------------------------------------------------
(* A reload.                                                               *)

\* Nothing is on its way, and the index on disk has its payloads.
LEMMA ReloadInvariant ==
  ASSUME IInv, Reload
  PROVE  IInv'
<1>1. PICK v \in {schema, schema + 1} \cap 1..MaxSchema, unread \in SUBSET Files :
        /\ schema' = v /\ mem' = Load(v, unread)
        /\ line' = <<Snapshot(mem', v)>>
        /\ prefs' = LoadPrefs(unread) /\ prefsLine' = <<prefs'>>
  BY DEF Reload
<1>2. /\ reloads < MaxReloads /\ reloads' = reloads + 1 /\ emitting' = FALSE /\ chan' = <<>>
      /\ queue' = NewQueue(mem'.blobs) /\ writer' = Idle
      /\ UNCHANGED <<clock, disk, failed>>
      /\ Types /\ clock \in Nat /\ disk \in Disks(clock)
      /\ PayloadsWritten(disk.index, queue, 0)
  BY DEF Reload, IInv, Types, Revisions, Pipeline, IndexWritten
<1>3. /\ disk.index \in SnapshotsTo(clock) /\ disk.bodies \in [Docs -> BodiesTo(clock)]
      /\ disk.blobs \subseteq Blobs /\ disk.prefs \in 0..clock
      /\ NoBody \in BodiesTo(clock)
  BY <1>2, NoBodyType DEF Disks
<1>4. /\ mem' \in StoresTo(clock) /\ mem'.blobs \subseteq disk.blobs
      /\ \A d \in Docs : mem'.bodies[d] \in {NoBody, disk.bodies[d]}
  <2>1. CASE <<"index">> \in unread
    BY <2>1, <1>1, <1>2, <1>3 DEF Load, EmptyMem, StoresTo
  <2>2. CASE <<"index">> \notin unread
    <3> DEFINE blobs == {b \in disk.index.blobs \cap disk.blobs : <<"blob", b>> \notin unread}
               bodies == [d \in Docs |->
                           IF /\ d \in disk.index.docs /\ <<"body", d>> \notin unread
                              /\ disk.index.schema = v
                           THEN disk.bodies[d] ELSE NoBody]
    <3>1. blobs \subseteq disk.blobs /\ blobs \subseteq Blobs
      BY <1>3
    <3>2. bodies \in [Docs -> BodiesTo(clock)]
      BY <1>3
    <3>3. \A d \in Docs : bodies[d] \in {NoBody, disk.bodies[d]}
      OBVIOUS
    <3>4. mem' = [rev |-> disk.index.rev, docs |-> disk.index.docs, blobs |-> blobs,
                  bodies |-> bodies]
      BY <1>1, <2>2 DEF Load
    <3> HIDE DEF blobs, bodies
    <3>5. QED
      BY <3>1, <3>2, <3>3, <3>4, <1>3 DEF StoresTo, SnapshotsTo
  <2>3. QED
    BY <2>1, <2>2
<1>5. /\ line' \in Seq(SnapshotsTo(clock)) /\ Len(line') = 1 /\ line' # <<>>
      /\ line'[Len(line')] = Snapshot(mem', v) /\ DOMAIN line' = {1}
      /\ prefs' \in 0..clock /\ prefsLine' \in Seq(0..clock) /\ Len(prefsLine') = 1
      /\ prefsLine' # <<>> /\ prefsLine'[Len(prefsLine')] = prefs'
  <2>1. Snapshot(mem', v) \in SnapshotsTo(clock)
    BY <1>2, <1>4, SnapshotType
  <2>2. prefs' \in 0..clock
    BY <1>1, <1>2, <1>3 DEF LoadPrefs
  <2>3. QED
    BY <2>1, <2>2, <1>1
<1>6. Types'
  <2>1. /\ clock' \in Revisions /\ schema' \in 1..MaxSchema /\ reloads' \in 0..MaxReloads
        /\ emitting' \in BOOLEAN /\ disk' \in Disks(clock') /\ failed' \subseteq Files
        /\ clock' = clock
    <3>1. reloads' \in 0..MaxReloads
      BY <1>2, BoundsAssumption DEF Types
    <3>2. QED
      BY <3>1, <1>1, <1>2 DEF Types
  <2>2. chan' \in Seq(Ops(clock)) /\ writer' \in {Idle, NextUp}
    BY <1>2
  <2>3. QED
    BY <2>1, <2>2, <1>4, <1>5 DEF Types
<1>7. LineInOrder'
  BY <1>1, <1>5 DEF LineInOrder, Snapshot
<1>8. /\ queue' \in Queues(clock) /\ queue'.bodyOrder = <<>> /\ queue'.blobOrder = <<>>
      /\ queue'.completed \subseteq disk.blobs /\ queue'.index = NoWrite
      /\ queue'.prefs = NoWrite /\ \A d \in Docs : queue'.bodies[d] = NoBody
  <2>1. [d \in Docs |-> NoBody] \in [Docs -> BodiesTo(clock)]
    BY <1>3
  <2>2. mem'.blobs \subseteq Blobs
    BY <1>3, <1>4
  <2>3. QED
    BY <2>1, <2>2, <1>2, <1>4 DEF NewQueue, Queues
<1>9. QueueOK(queue)'
  BY <1>2, <1>8, RangeOfEmpty DEF QueueOK, IsInjective
<1>10. /\ writer'.write = NoWrite /\ writer'.write.file = <<"none">>
       /\ \A d : writer'.write.file # Body(d)
       /\ writer'.write.file \notin {<<"index">>, <<"prefs">>}
       /\ Len(chan') = 0 /\ \A i \in 0 + 1..0 : FALSE
  BY <1>2, FilesDiffer, Drained DEF Idle, NoWrite, Write
<1>11. BodiesInOrder(queue, 0)' /\ IndexesInOrder(queue, 0)'
  BY <1>2, <1>8, <1>10 DEF BodiesInOrder, IndexesInOrder
<1>12. PayloadsAhead(queue, 0)'
  <2>1. \A b \in mem'.blobs : BlobReached(queue, 0, Len(chan), b)'
    BY <1>2, <1>4 DEF BlobReached
  <2>2. QED
    BY <2>1, <1>8, <1>10 DEF PayloadsAhead
<1>13. IndexWritten(queue, 0)'
  BY <1>2, <1>8, <1>10 DEF IndexWritten, PayloadsWritten, NeverBelow
<1>14. LatestIsLast(queue, 0)'
  <2>1. ASSUME NEW d \in Docs, mem'.bodies[d] # NoBody
        PROVE  IsLast(Write(Body(d), mem.bodies[d]), NoWrite, 0,
                      disk.bodies[d] = mem.bodies[d])'
    <3> DEFINE x == Write(Body(d), mem.bodies[d])
    <3>1. x'.file = Body(d) /\ disk'.bodies[d] = mem'.bodies[d]
      BY <2>1, <1>2, <1>4 DEF Write
    <3>2. ~InChan(0, Len(chan), x.file)'
      BY <1>10 DEF InChan
    <3> HIDE DEF x
    <3>3. IsLast(x, NoWrite, 0, disk.bodies[d] = mem.bodies[d])'
      BY <3>1, <3>2, <1>10 DEF IsLast
    <3>4. QED
      BY <3>3 DEF x
  <2>2. ASSUME NEW d \in Docs PROVE queue'.bodies[d] = NoBody
    BY <1>8
  <2>3. QED
    BY <2>1, <2>2, <1>5 DEF LatestIsLast
<1>15. QED
  BY <1>6, <1>7, <1>9, <1>11, <1>12, <1>13, <1>14 DEF IInv, Pipeline

LEMMA InitInvariant ==
  ASSUME Init
  PROVE  IInv
<1>1. /\ clock = 0 /\ schema = 1 /\ reloads = 0 /\ mem = EmptyMem /\ emitting = FALSE
      /\ prefs = 0 /\ chan = <<>> /\ queue = NewQueue({}) /\ writer = Idle
      /\ disk = EmptyDisk /\ failed = {} /\ line = <<Snapshot(EmptyMem, 1)>>
      /\ prefsLine = <<0>> /\ 0 \in Nat /\ 1 \in 1..MaxSchema
  BY BoundsAssumption DEF Init
<1>2. [d \in Docs |-> NoBody] \in [Docs -> BodiesTo(0)] /\ NoBody.rev = 0
  BY <1>1, NoBodyType
<1>3. mem \in StoresTo(0) /\ mem.blobs = {} /\ mem.bodies = [d \in Docs |-> NoBody]
  BY <1>1, <1>2 DEF EmptyMem, StoresTo
<1>4. Snapshot(EmptyMem, 1) \in SnapshotsTo(0)
  BY <1>1, <1>3, SnapshotType
<1>5. /\ disk \in Disks(0) /\ disk.blobs = {} /\ disk.index = Snapshot(EmptyMem, 1)
      /\ disk.bodies = mem.bodies /\ disk.index.bodies = mem.bodies /\ disk.index.blobs = {}
  BY <1>1, <1>2, <1>3, <1>4 DEF EmptyDisk, Disks, EmptyMem, Snapshot
<1>6. Types
  <2>1. /\ line \in Seq(SnapshotsTo(0)) /\ line # <<>> /\ chan \in Seq(Ops(0))
        /\ prefsLine \in Seq(0..0) /\ prefsLine # <<>>
    BY <1>1, <1>4
  <2>2. /\ clock \in Revisions /\ schema \in 1..MaxSchema /\ reloads \in 0..MaxReloads
        /\ clock = 0 /\ prefs \in 0..0
    <3>1. 0 \in 0..MaxReloads /\ 0 \in 0..MaxRevision /\ 0 \in 0..0
      BY BoundsAssumption
    <3>2. QED
      BY <3>1, <1>1 DEF Revisions
  <2>3. emitting \in BOOLEAN /\ failed \subseteq Files /\ writer \in {Idle, NextUp}
    BY <1>1
  <2>4. QED
    BY <2>1, <2>2, <2>3, <1>3, <1>5 DEF Types
<1>7. LineInOrder
  BY <1>1 DEF LineInOrder, Snapshot
<1>8. /\ queue \in Queues(0) /\ queue.bodyOrder = <<>> /\ queue.blobOrder = <<>>
      /\ queue.completed = {} /\ queue.index = NoWrite
      /\ queue.prefs = NoWrite /\ \A d \in Docs : queue.bodies[d] = NoBody
  BY <1>1, <1>2 DEF NewQueue, Queues
<1>9. QueueOK(queue)
  BY <1>1, <1>8, RangeOfEmpty DEF QueueOK, IsInjective
<1>10. /\ writer.write = NoWrite
       /\ \A d : writer.write.file # Body(d)
       /\ writer.write.file \notin {<<"index">>, <<"prefs">>}
       /\ Len(chan) = 0 /\ \A i \in 0 + 1..0 : FALSE
  BY <1>1, FilesDiffer, Drained DEF Idle, NoWrite, Write
<1>11. BodiesInOrder(queue, 0) /\ IndexesInOrder(queue, 0)
  BY <1>1, <1>8, <1>10 DEF BodiesInOrder, IndexesInOrder
<1>12. PayloadsAhead(queue, 0)
  BY <1>3, <1>8, <1>10 DEF PayloadsAhead
<1>13. IndexWritten(queue, 0)
  <2>1. /\ \A d \in Docs : disk.bodies[d].rev = 0 /\ disk.index.bodies[d].rev = 0
        /\ \A d, r : NeverBelow(0, d, r)
    BY <1>2, <1>3, <1>5, <1>10 DEF NeverBelow
  <2>2. PayloadsWritten(disk.index, queue, 0)
    BY <2>1, <1>5, <1>8, <1>10 DEF PayloadsWritten
  <2>3. QED
    BY <2>2, <1>10 DEF IndexWritten
<1>14. LatestIsLast(queue, 0)
  BY <1>1, <1>3 DEF LatestIsLast
<1>15. QED
  BY <1>6, <1>7, <1>9, <1>11, <1>12, <1>13, <1>14 DEF IInv, Pipeline

LEMMA StutterInvariant ==
  ASSUME IInv, UNCHANGED vars
  PROVE  IInv'
<1>1. UNCHANGED <<clock, schema, reloads, mem, emitting, prefs, chan, queue, writer, disk,
                  failed, line, prefsLine>>
  BY DEF vars
<1>2. Types' /\ LineInOrder' /\ QueueOK(queue)' /\ BodiesInOrder(queue, 0)'
  BY <1>1 DEF IInv, Types, LineInOrder, Snapshot, Pipeline, QueueOK, BodiesInOrder
<1>3. PayloadsAhead(queue, 0)' /\ IndexWritten(queue, 0)'
  BY <1>1
  DEF IInv, Pipeline, PayloadsAhead, IndexWritten, PayloadsWritten, Reached, BlobReached,
      NeverBelow, InChan
<1>4. IndexesInOrder(queue, 0)' /\ LatestIsLast(queue, 0)'
  BY <1>1
  DEF IInv, Pipeline, IndexesInOrder, LatestIsLast, IsLast, InChan, Snapshot
<1>5. QED
  BY <1>2, <1>3, <1>4 DEF IInv, Pipeline

LEMMA StepInvariant ==
  ASSUME IInv, [Next]_vars
  PROVE  IInv'
BY MutateMutates, MutatedInvariant, EmitIndexInvariant, SavePrefsInvariant, FrameInvariant,
   TakeNextInvariant, WriteSucceedsInvariant, WriteFailsInvariant, ReloadInvariant,
   StutterInvariant
DEF Next

\* The pipeline's invariant holds of every program that stores documents this way.
THEOREM Invariant == Spec => []IInv
<1>1. Init => IInv
  BY InitInvariant
<1>2. IInv /\ [Next]_vars => IInv'
  BY StepInvariant
<1>3. QED
  BY <1>1, <1>2, PTL DEF Spec

-----------------------------------------------------------------------------
(* What follows.                                                           *)

LEMMA SnapshotsOfRevisions ==
  ASSUME clock \in Revisions
  PROVE  SnapshotsTo(clock) \subseteq Snapshots /\ BodiesTo(clock) \subseteq Bodies
<1>1. BodiesTo(clock) \subseteq Bodies
  BY BoundsAssumption DEF BodiesTo, Bodies, Revisions
<1>2. [Docs -> BodiesTo(clock)] \subseteq [Docs -> Bodies]
  BY <1>1
<1>3. 0..clock \subseteq Revisions
  BY BoundsAssumption DEF Revisions
<1>4. QED
  BY <1>1, <1>2, <1>3 DEF SnapshotsTo, Snapshots

LEMMA InvariantTypes ==
  ASSUME IInv
  PROVE  TypeOK
<1>1. /\ clock \in Revisions /\ clock \in Nat /\ mem \in StoresTo(clock)
      /\ disk \in Disks(clock) /\ queue \in Queues(clock) /\ Types /\ QueueOK(queue)
  BY DEF IInv, Types, Pipeline, QueueOK, Revisions
<1>2. Snapshot(mem, schema) \in Snapshots
  BY <1>1, SnapshotType, SnapshotsOfRevisions DEF Types
<1>3. ASSUME NEW w \in Range(chan) \cup {queue.index, queue.prefs, writer.write}
      PROVE  w = NoWrite \/ w.file \in Files
  <2>1. w \in Ops(clock) \cup {NoWrite}
    <3>1. Range(chan) \subseteq Ops(clock)
      BY <1>1 DEF Types, Range
    <3>2. {queue.index, queue.prefs} \subseteq Ops(clock) \cup {NoWrite}
      BY <1>1 DEF Queues, Ops
    <3>3. writer.write \in Ops(clock) \cup {NoWrite}
      BY <1>1 DEF Types, Idle, NextUp
    <3>4. QED
      BY <3>1, <3>2, <3>3
  <2>2. QED
    BY <2>1, <1>1, OpIsAWrite
<1>4. writer.tries \in 0..2
  BY <1>1 DEF Types, Idle, NextUp
<1>5. /\ disk.index \in Snapshots /\ disk.bodies \in [Docs -> Bodies]
      /\ disk.blobs \subseteq Blobs /\ disk.prefs \in Revisions /\ prefs \in Revisions
  <2>1. [Docs -> BodiesTo(clock)] \subseteq [Docs -> Bodies]
    BY <1>1, SnapshotsOfRevisions
  <2>2. 0..clock \subseteq Revisions
    BY <1>1, BoundsAssumption DEF Revisions
  <2>3. QED
    BY <2>1, <2>2, <1>1, SnapshotsOfRevisions DEF Disks, Types
<1>6. queue.completed \subseteq Blobs
  BY <1>1 DEF Queues
<1>7. QED
  BY <1>1, <1>2, <1>3, <1>4, <1>5, <1>6 DEF TypeOK, Types, QueueOK

\* OpfsPersist.TypeOK for any documents, blobs, changes and reloads: what moves through the
\* channel, the queue and the writer stays well formed, and a body or blob waits only once.
THEOREM TypeCorrect == Spec => []TypeOK
BY Invariant, InvariantTypes, PTL

LEMMA InvariantPayloads ==
  ASSUME IInv
  PROVE  PayloadBeforeIndex
<1>1. PayloadsWritten(disk.index, queue, 0) /\ disk \in Disks(clock)
  BY DEF IInv, Types, Pipeline, IndexWritten
<1>2. \A d \in Docs : disk.bodies[d].rev \in Int /\ disk.index.bodies[d].rev \in Int
  BY <1>1 DEF Disks, SnapshotsTo, BodiesTo
<1>3. QED
  BY <1>1, <1>2 DEF PayloadBeforeIndex, PayloadsWritten, Body, Blob

\* OpfsPersist.PayloadBeforeIndex (persist.rs:75-77): whatever is coalesced, retried, dropped
\* or lost in a reload, the index on disk never names a body or a blob that is not there.
THEOREM PayloadsBeforeIndex == Spec => []PayloadBeforeIndex
BY Invariant, InvariantPayloads, PTL

LEMMA InvariantDrops ==
  ASSUME IInv
  PROVE  NothingDropped
<1>1. /\ LatestIsLast(queue, 0) /\ clock \in Nat /\ Len(chan) \in Nat
      /\ \A i \in 1..Len(chan) : chan[i] \in Ops(clock) /\ chan[i] \in Range(chan)
      /\ \A b \in mem.blobs : BlobReached(queue, 0, Len(chan), b)
  <2>1. \A i \in 1..Len(chan) : chan[i] \in Ops(clock) /\ chan[i] \in Range(chan)
    BY DEF IInv, Types, Range
  <2>2. QED
    BY <2>1 DEF IInv, Pipeline, PayloadsAhead, Types, Revisions
<1>2. ASSUME NEW w, NEW waiting, NEW done, IsLast(w, waiting, 0, done)
      PROVE  w \in Range(chan) \/ waiting = w \/ writer.write = w \/ done \/ w.file \in failed
  BY <1>1, <1>2 DEF IsLast
<1>3. \/ emitting \/ Len(line) = 1 \/ disk.index.rev = mem.rev \/ <<"index">> \in failed
      \/ Underway(Write(<<"index">>, Snapshot(mem, schema)))
  <2> DEFINE w == Write(<<"index">>, Snapshot(mem, schema))
  <2>1. w.file = <<"index">>
    BY DEF Write
  <2>2. emitting \/ Len(line) = 1 \/ IsLast(w, queue.index, 0, disk.index.rev = mem.rev)
    BY <1>1 DEF LatestIsLast
  <2> HIDE DEF w
  <2>3. QED
    BY <2>1, <2>2, <1>2 DEF Underway, w
<1>4. ASSUME NEW d \in Docs, mem.bodies[d] # NoBody
      PROVE  \/ mem.bodies[d] = disk.bodies[d] \/ <<"body", d>> \in failed
             \/ Underway(Write(<<"body", d>>, mem.bodies[d]))
  <2> DEFINE w == Write(Body(d), mem.bodies[d])
             waiting == IF queue.bodies[d] = NoBody THEN NoWrite
                        ELSE Write(Body(d), queue.bodies[d])
  <2>1. /\ w.file = Body(d) /\ w.data = mem.bodies[d] /\ w.file[1] = "body" /\ w.file[2] = d
        /\ w = Write(<<"body", d>>, mem.bodies[d])
    BY DEF Write, Body
  <2>2. IsLast(w, waiting, 0, disk.bodies[d] = mem.bodies[d])
    BY <1>1, <1>4 DEF LatestIsLast
  <2>3. waiting = w => queue.bodies[d] = mem.bodies[d]
    BY DEF Write, NoWrite, Body
  <2> HIDE DEF w, waiting
  <2>4. QED
    BY <2>1, <2>2, <2>3, <1>2, <1>4 DEF Underway, Body
<1>5. ASSUME NEW b \in mem.blobs
      PROVE  \/ b \in disk.blobs \/ <<"blob", b>> \in failed
             \/ Underway(Write(<<"blob", b>>, 1))
  <2> DEFINE w == Write(Blob(b), 1)
  <2>1. w.file[1] = "blob" /\ w.file[2] = b /\ w = Write(<<"blob", b>>, 1)
    BY DEF Write, Blob
  <2>2. writer.write.file = Blob(b) => writer.write = w
    <3>1. writer.write.file = Blob(b) => writer.write \in Ops(clock)
      BY FilesDiffer DEF IInv, Types, Idle, NextUp, NoWrite, Write
    <3>2. QED
      BY <3>1, <1>1, OpsOfFiles
  <2>3. InChan(0, Len(chan), Blob(b)) => w \in Range(chan)
    <3>1. \A i \in 0 + 1..Len(chan) : i \in 1..Len(chan)
      BY <1>1
    <3>2. QED
      BY <3>1, <1>1, OpsOfFiles DEF InChan
  <2> HIDE DEF w
  <2>4. QED
    BY <2>1, <2>2, <2>3, <1>1 DEF BlobReached, Underway, Blob
<1>6. \/ Len(prefsLine) = 1 \/ disk.prefs = prefs \/ <<"prefs">> \in failed
      \/ Underway(Write(<<"prefs">>, prefs))
  <2> DEFINE w == Write(<<"prefs">>, prefs)
  <2>1. w.file = <<"prefs">>
    BY DEF Write
  <2>2. Len(prefsLine) = 1 \/ IsLast(w, queue.prefs, 0, disk.prefs = prefs)
    BY <1>1 DEF LatestIsLast
  <2> HIDE DEF w
  <2>3. QED
    BY <2>1, <2>2, <1>2 DEF Underway, w
<1>7. QED
  BY <1>3, <1>4, <1>5, <1>6 DEF NothingDropped

\* OpfsPersist.NothingDropped (persist.rs:98-147, main.rs:334-372): the latest contents of
\* every file this session changed are on disk, underway, or failed for good.
THEOREM NothingIsDropped == Spec => []NothingDropped
BY Invariant, InvariantDrops, PTL

\* OpfsPersist.RefusedBlobsAreStored (persist.rs:77): the queue takes a blob for stored only
\* when it is.
THEOREM RefusedStored == Spec => []RefusedBlobsAreStored
<1>1. IInv => RefusedBlobsAreStored
  BY DEF IInv, Pipeline, QueueOK, RefusedBlobsAreStored
<1>2. QED
  BY Invariant, <1>1, PTL

-----------------------------------------------------------------------------
(* The index file implements SnapshotLine.                                 *)

\* The first index names no document.
EmptyAtFirst == disk.index.rev = 0 => disk.index.docs = {}

\* Only a finished write of an index changes the one on disk, to a later state.
LEMMA IndexSteps ==
  ASSUME IInv, [Next]_vars
  PROVE  \/ disk'.index = disk.index
         \/ /\ line' = line /\ disk'.index \in Range(line)
            /\ disk'.index.rev > disk.index.rev
<1>1. CASE WriteSucceeds
  <2>1. WriteEnds
    BY <1>1, SuccessEnds DEF IInv, Pipeline
  <2>2. CASE writer.write.file = <<"index">> /\ disk'.index = writer.write.data
    BY <2>1, <2>2 DEF WriteEnds, IInv, Pipeline, IndexesInOrder
  <2>3. QED
    BY <2>1, <2>2 DEF WriteEnds
<1>2. CASE ~WriteSucceeds
  BY <1>2 DEF Next, vars, UpsertDocument, PutBlob, ChangeState, Mutate, EmitIndex, SavePrefs,
              Frame, TakeNext, WriteFails, Reload
<1>3. QED
  BY <1>1, <1>2

LEMMA AlwaysEmptyAtFirst == Spec => []EmptyAtFirst
<1>1. Init => EmptyAtFirst
  BY DEF Init, EmptyDisk, EmptyMem, Snapshot, EmptyAtFirst
<1>2. ASSUME IInv, EmptyAtFirst, [Next]_vars
      PROVE  EmptyAtFirst'
  <2>1. disk.index.rev \in Nat
    BY <1>2 DEF IInv, Types, Disks, SnapshotsTo, Revisions
  <2>2. CASE disk'.index = disk.index
    BY <2>2, <1>2 DEF EmptyAtFirst
  <2>3. CASE disk'.index \in Range(line) /\ disk'.index.rev > disk.index.rev
    BY <2>1, <2>3 DEF EmptyAtFirst
  <2>4. QED
    BY <2>2, <2>3, <1>2, IndexSteps
<1>3. QED
  BY <1>1, <1>2, Invariant, PTL DEF Spec

LEMMA PositionFound ==
  ASSUME Types, LineInOrder, NEW i \in DOMAIN line, line[i].rev = disk.index.rev
  PROVE  Position = i
<1>1. /\ DOMAIN line \subseteq Int
      /\ \A j \in DOMAIN line : line[j].rev \in Int
  <2>1. /\ DOMAIN line = 1..Len(line) /\ Len(line) \in Nat
        /\ \A j \in DOMAIN line : line[j] \in SnapshotsTo(clock)
    BY DEF Types
  <2>2. \A s \in SnapshotsTo(clock) : s.rev \in Int
    BY DEF SnapshotsTo
  <2>3. QED
    BY <2>1, <2>2
<1>2. {j \in DOMAIN line : line[j].rev = disk.index.rev} = {i}
  BY <1>1 DEF LineInOrder
<1>3. QED
  BY <1>2 DEF Position

LEMMA PositionNone ==
  ASSUME \A i \in DOMAIN line : line[i].rev # disk.index.rev
  PROVE  Position = 0
<1>1. {j \in DOMAIN line : line[j].rev = disk.index.rev} = {}
  OBVIOUS
<1>2. QED
  BY <1>1 DEF Position

LEMMA PositionKept ==
  ASSUME UNCHANGED line, disk'.index = disk.index
  PROVE  Position' = Position
<1>1. disk'.index.rev = disk.index.rev /\ DOMAIN line' = DOMAIN line
  OBVIOUS
<1>2. {j \in DOMAIN line' : line'[j].rev = disk'.index.rev} =
        {j \in DOMAIN line : line[j].rev = disk.index.rev}
  BY <1>1
<1>3. QED
  BY <1>2 DEF Position

\* A mutator adds a state to the line, of a revision no file has.
LEMMA LineGrows ==
  ASSUME IInv, Mutated
  PROVE  IndexFile!Change
<1>1. /\ line \in Seq(SnapshotsTo(clock)) /\ Len(line) \in Nat
      /\ line' = Append(line, Snapshot(mem', schema))
      /\ disk' = disk /\ disk.index.rev \in 0..clock /\ clock \in Nat
      /\ clock + 1 \in Nat /\ mem' \in StoresTo(clock + 1) /\ mem'.rev = clock + 1
      /\ schema \in 1..MaxSchema /\ Types /\ LineInOrder
  BY DEF IInv, Types, Mutated, Sends, Disks, SnapshotsTo, Revisions
<1>2. Snapshot(mem', schema).rev = clock + 1
  BY <1>1, SnapshotType
<1>3. /\ Len(line') = Len(line) + 1 /\ SubSeq(line', 1, Len(line)) = line
      /\ \A i \in 1..Len(line) : line'[i] = line[i]
      /\ DOMAIN line = 1..Len(line) /\ DOMAIN line' = 1..(Len(line) + 1)
      /\ line'[Len(line) + 1].rev = clock + 1
  <2>1. /\ Len(line') = Len(line) + 1 /\ line'[Len(line) + 1].rev = clock + 1
        /\ \A i \in 1..Len(line) : line'[i] = line[i]
        /\ DOMAIN line = 1..Len(line) /\ DOMAIN line' = 1..(Len(line) + 1)
    BY <1>1, <1>2
  <2>2. SubSeq(line', 1, Len(line)) = [i \in 1..Len(line) |-> line'[i]]
    BY <1>1, <2>1
  <2>3. line = [i \in 1..Len(line) |-> line[i]]
    BY <1>1
  <2>4. QED
    BY <2>1, <2>2, <2>3
<1> DEFINE held == {i \in DOMAIN line : line[i].rev = disk.index.rev}
<1>4. held' = held
  BY <1>1, <1>3
<1>5. Position = IF held = {} THEN 0 ELSE CHOOSE i \in held : TRUE
  BY DEF Position
<1>6. Position' = IF held' = {} THEN 0 ELSE CHOOSE i \in held' : TRUE
  BY DEF Position
<1> HIDE DEF held
<1>7. Position' = Position
  BY <1>4, <1>5, <1>6
<1>8. QED
  BY <1>1, <1>3, <1>7 DEF IndexFile!Change

\* A finished write of an index takes the file to a later state of the line.
LEMMA IndexSaved ==
  ASSUME IInv, IInv', line' = line, disk'.index \in Range(line),
         disk'.index.rev > disk.index.rev
  PROVE  IndexFile!Save
<1>1. /\ DOMAIN line = 1..Len(line) /\ Len(line) \in Nat /\ LineInOrder /\ Types
      /\ \A i \in DOMAIN line : line[i].rev \in Int
      /\ disk.index.rev \in Int /\ LineInOrder' /\ Types' /\ disk'.index.rev \in Int
  <2>1. /\ DOMAIN line = 1..Len(line) /\ Len(line) \in Nat
        /\ \A j \in DOMAIN line : line[j] \in SnapshotsTo(clock)
        /\ disk.index \in SnapshotsTo(clock) /\ disk'.index \in SnapshotsTo(clock')
    BY DEF IInv, Types, Disks
  <2>2. QED
    BY <2>1 DEF IInv, SnapshotsTo
<1>2. PICK i \in DOMAIN line : line[i] = disk'.index
  BY DEF Range
<1>3. Position' = i
  <2>1. i \in DOMAIN line' /\ line'[i].rev = disk'.index.rev
    BY <1>2
  <2>2. {j \in DOMAIN line' : line'[j].rev = disk'.index.rev} = {i}
    BY <2>1, <1>1 DEF LineInOrder
  <2>3. QED
    BY <2>2 DEF Position
<1>4. Position \in Int /\ Position < i
  <2>1. CASE \E j \in DOMAIN line : line[j].rev = disk.index.rev
    <3>1. PICK j \in DOMAIN line : line[j].rev = disk.index.rev
      BY <2>1
    <3>2. Position = j
      BY <3>1, <1>1, PositionFound
    <3>3. j < i
      BY <3>1, <1>1, <1>2 DEF LineInOrder
    <3>4. QED
      BY <3>2, <3>3, <1>1
  <2>2. CASE \A j \in DOMAIN line : line[j].rev # disk.index.rev
    BY <2>2, <1>1, PositionNone
  <2>3. QED
    BY <2>1, <2>2
<1>5. QED
  BY <1>1, <1>2, <1>3, <1>4 DEF IndexFile!Save

\* A reload goes on from the file, or afresh.
LEMMA IndexReloaded ==
  ASSUME IInv, IInv', EmptyAtFirst, Reload
  PROVE  IndexFile!Restart
<1>1. PICK v \in {schema, schema + 1} \cap 1..MaxSchema, unread \in SUBSET Files :
        mem' = Load(v, unread) /\ line' = <<Snapshot(mem', v)>>
  BY DEF Reload
<1>2. /\ disk' = disk /\ Types' /\ LineInOrder' /\ Len(line') = 1 /\ DOMAIN line' = {1}
      /\ line'[1].rev = mem'.rev /\ line'[1].docs = mem'.docs
  BY <1>1 DEF Reload, IInv, Snapshot
<1>3. mem'.rev = disk.index.rev => Position' = 1
  <2>1. {i \in DOMAIN line' : line'[i].rev = disk'.index.rev} =
          IF mem'.rev = disk.index.rev THEN {1} ELSE {}
    BY <1>2
  <2>2. QED
    BY <2>1 DEF Position
<1>4. mem'.rev # disk.index.rev => Position' = 0
  <2>1. {i \in DOMAIN line' : line'[i].rev = disk'.index.rev} =
          IF mem'.rev = disk.index.rev THEN {1} ELSE {}
    BY <1>2
  <2>2. QED
    BY <2>1 DEF Position
<1>5. CASE <<"index">> \in unread
  <2>1. mem'.rev = 0 /\ mem'.docs = {}
    BY <1>1, <1>5 DEF Load, EmptyMem
  <2>2. CASE disk.index.rev = 0
    BY <2>1, <2>2, <1>2, <1>3 DEF EmptyAtFirst, IndexFile!Restart, ContinuesIndex
  <2>3. CASE disk.index.rev # 0
    BY <2>1, <2>3, <1>2, <1>4 DEF IndexFile!Restart, FreshIndex
  <2>4. QED
    BY <2>2, <2>3
<1>6. CASE <<"index">> \notin unread
  <2>1. mem'.rev = disk.index.rev /\ mem'.docs = disk.index.docs
    BY <1>1, <1>6 DEF Load
  <2>2. QED
    BY <2>1, <1>2, <1>3 DEF IndexFile!Restart, ContinuesIndex
<1>7. QED
  BY <1>5, <1>6

\* OpfsPersist.IndexMovesForward (persist.rs:98-147, 326-352, store.rs:112-160): the index
\* file implements SnapshotLine, for any number of reloads.
THEOREM IndexImplementsLine == Spec => IndexMovesForward
<1>1. ASSUME Init PROVE IndexFile!Init
  <2>1. IInv /\ line = <<Snapshot(EmptyMem, 1)>> /\ disk.index = Snapshot(EmptyMem, 1)
    BY <1>1, InitInvariant DEF Init, EmptyDisk
  <2>2. Len(line) = 1 /\ line[1] = disk.index /\ 1 \in DOMAIN line
    BY <2>1
  <2>3. Position = 1
    BY <2>1, <2>2, PositionFound DEF IInv
  <2>4. QED
    BY <2>2, <2>3 DEF IndexFile!Init
<1>2. ASSUME IInv, IInv', EmptyAtFirst, [Next]_vars
      PROVE  [\/ IndexFile!Change \/ IndexFile!Save
              \/ IndexFile!Restart]_<<line, disk.index, Position>>
  <2>1. CASE Reload
    BY <2>1, <1>2, IndexReloaded
  <2>2. CASE Mutated
    BY <2>2, <1>2, LineGrows
  <2>3. CASE UNCHANGED line
    <3>1. CASE disk'.index = disk.index
      BY <2>3, <3>1, PositionKept
    <3>2. CASE disk'.index \in Range(line) /\ disk'.index.rev > disk.index.rev
      BY <2>3, <3>2, <1>2, IndexSaved
    <3>3. QED
      BY <3>1, <3>2, <1>2, IndexSteps
  <2>4. QED
    <3>1. \/ \E d \in Docs : UpsertDocument(d, TRUE) \/ UpsertDocument(d, FALSE)
          \/ \E b \in Blobs : PutBlob(b)
          \/ ChangeState \/ Reload \/ UNCHANGED line
      BY <1>2 DEF Next, vars, EmitIndex, SavePrefs, Frame, TakeNext, WriteSucceeds, WriteFails
    <3>2. QED
      BY <3>1, <2>1, <2>2, <2>3, <1>2, MutateMutates
<1>3. QED
  BY <1>1, <1>2, Invariant, AlwaysEmptyAtFirst, PTL DEF Spec, IndexMovesForward, IndexFile!Spec
=============================================================================
