-------------------------- MODULE SegmentIndexProofs --------------------------
(***************************************************************************)
(* The safety properties of SegmentIndex, proved for any number of         *)
(* cameras, files, takes, reopenings and crashes.                          *)
(***************************************************************************)
EXTENDS SegmentIndex, FiniteSetTheorems, SequenceTheorems, WellFoundedInduction, TLAPS

-----------------------------------------------------------------------------
(* Numbers, lists and sorting.                                             *)

LEMMA LeastOf == ASSUME NEW S \in SUBSET Nat, S # {} PROVE \E x \in S : \A y \in S : x <= y
<1>1. PICK x \in S : \A y \in S : ~(<<y, x>> \in OpToRel(<, Nat))
  BY NatLessThanWellFounded, WFMin
<1>2. \A y \in S : ~(y < x)
  BY <1>1 DEF OpToRel
<1> QED
  BY <1>2

LEMMA ByInduction ==
    ASSUME NEW S, 0 \in S, \A n \in Nat : n \in S => n + 1 \in S
    PROVE  Nat \subseteq S
<1> SUFFICES ASSUME Nat \ S # {} PROVE FALSE
  OBVIOUS
<1>1. PICK x \in Nat \ S : \A y \in Nat \ S : x <= y
  BY LeastOf
<1>2. x # 0 /\ x - 1 \in Nat
  BY <1>1
<1>3. x - 1 \in S
  BY <1>1, <1>2
<1> QED
  BY <1>1, <1>2, <1>3

LEMMA GreatestOf ==
    ASSUME NEW n \in Nat, NEW S \in SUBSET (1..n), S # {}
    PROVE  Max(S) \in S /\ \A y \in S : y <= Max(S)
<1> DEFINE T == {n - x : x \in S}
<1>1. T \in SUBSET Nat /\ T # {}
  <2>1. \A x \in S : x \in Int /\ n - x \in Nat
    OBVIOUS
  <2>2. PICK x \in S : TRUE
    OBVIOUS
  <2>3. n - x \in T
    OBVIOUS
  <2> QED
    BY <2>1, <2>3
<1>2. PICK d \in T : \A e \in T : d <= e
  <2> HIDE DEF T
  <2> QED
    BY <1>1, LeastOf
<1>3. PICK x \in S : d = n - x
  OBVIOUS
<1>4. \A y \in S : x >= y
  <2> SUFFICES ASSUME NEW y \in S PROVE x >= y
    OBVIOUS
  <2>1. n - y \in T /\ y \in 1..n /\ x \in 1..n
    OBVIOUS
  <2>2. n - x <= n - y
    BY <1>2, <1>3, <2>1
  <2> QED
    BY <2>1, <2>2
<1>5. \E z \in S : \A y \in S : z >= y
  BY <1>4
<1>6. Max(S) \in S /\ \A y \in S : Max(S) >= y
  BY <1>5 DEF Max
<1> QED
  BY <1>6

LEMMA ImageIsFinite ==
    ASSUME NEW S, IsFiniteSet(S), NEW f
    PROVE  IsFiniteSet({f[x] : x \in S})
<1> DEFINE T == {f[x] : x \in S}
           g == [x \in S |-> f[x]]
<1>1. g \in Surjection(S, T)
  BY DEF Surjection
<1> QED
  BY <1>1, FS_Surjection

LEMMA InsertedAt ==
    ASSUME NEW S, NEW q \in Seq(S), NEW k \in 0..Len(q), NEW e \in S
    PROVE  /\ InsertAt(q, k + 1, e) \in Seq(S) /\ Len(InsertAt(q, k + 1, e)) = Len(q) + 1
           /\ \A j \in 1..(Len(q) + 1) :
                InsertAt(q, k + 1, e)[j] = IF j <= k THEN q[j] ELSE IF j = k + 1 THEN e ELSE q[j - 1]
<1> DEFINE a == SubSeq(q, 1, k)
           b == SubSeq(q, k + 1, Len(q))
<1>1. Len(q) \in Nat /\ k \in Nat /\ k <= Len(q) /\ (k + 1) - 1 = k
  OBVIOUS
<1>2. a \in Seq(S) /\ Len(a) = k /\ \A j \in 1..k : a[j] = q[j]
  BY <1>1
<1>3. b \in Seq(S) /\ Len(b) = Len(q) - k /\ \A j \in 1..(Len(q) - k) : b[j] = q[k + j]
  BY <1>1
<1>4. InsertAt(q, k + 1, e) = a \o <<e>> \o b
  BY <1>1 DEF InsertAt
<1> HIDE DEF a, b
<1> DEFINE d == Append(a, e)
<1>5. d \in Seq(S) /\ Len(d) = k + 1 /\ d[k + 1] = e /\ (\A j \in 1..k : d[j] = q[j])
      /\ a \o <<e>> = d
  BY <1>1, <1>2
<1> HIDE DEF d
<1>6. d \o b \in Seq(S) /\ Len(d \o b) = Len(q) + 1
      /\ \A j \in 1..(Len(q) + 1) : (d \o b)[j] = IF j <= k + 1 THEN d[j] ELSE b[j - (k + 1)]
  BY <1>1, <1>3, <1>5
<1>7. \A j \in 1..(Len(q) + 1) : j > k + 1 => b[j - (k + 1)] = q[j - 1]
  <2> SUFFICES ASSUME NEW j \in 1..(Len(q) + 1), j > k + 1 PROVE b[j - (k + 1)] = q[j - 1]
    OBVIOUS
  <2>1. j - (k + 1) \in 1..(Len(q) - k) /\ k + (j - (k + 1)) = j - 1
    BY <1>1
  <2> QED
    BY <1>3, <2>1
<1>8. \A j \in 1..(Len(q) + 1) : (j <= k /\ j \in 1..k /\ j <= k + 1) \/ (j = k + 1 /\ ~(j <= k))
                                \/ (j > k + 1 /\ ~(j <= k) /\ ~(j <= k + 1) /\ j # k + 1)
  BY <1>1
<1> DEFINE r == d \o b
<1>9. InsertAt(q, k + 1, e) = r /\ r \in Seq(S) /\ Len(r) = Len(q) + 1
  BY <1>4, <1>5, <1>6
<1>10. \A j \in 1..(Len(q) + 1) :
        r[j] = IF j <= k THEN q[j] ELSE IF j = k + 1 THEN e ELSE q[j - 1]
  BY <1>5, <1>6, <1>7, <1>8
<1> HIDE DEF r
<1> QED
  BY <1>9, <1>10

Ordered(q) == \A i, j \in DOMAIN q : i < j => q[i].anchor <= q[j].anchor

LEMMA LastOne ==
    ASSUME NEW S, IsFiniteSet(S), S # {}, \A x \in S : x.anchor \in Int
    PROVE  \E x \in S : \A y \in S : y.anchor <= x.anchor
<1> DEFINE G(U) == \E x \in U : \A y \in U : y.anchor <= x.anchor
           T == {n \in Nat : \A U \in SUBSET S : Cardinality(U) = n => U = {} \/ G(U)}
<1>1. 0 \in T
  <2>1. \A U \in SUBSET S : Cardinality(U) = 0 => U = {}
    BY FS_Subset, FS_EmptySet
  <2> QED
    BY <2>1
<1>2. \A n \in Nat : n \in T => n + 1 \in T
  <2> SUFFICES ASSUME NEW n \in Nat, n \in T, NEW U \in SUBSET S, Cardinality(U) = n + 1, U # {}
               PROVE  G(U)
    OBVIOUS
  <2>1. PICK x \in U : TRUE
    OBVIOUS
  <2> DEFINE V == U \ {x}
  <2>2. IsFiniteSet(U) /\ V \in SUBSET S /\ Cardinality(V) = n
    <3>1. IsFiniteSet(U)
      BY FS_Subset
    <3>2. Cardinality(V) = Cardinality(U) - 1
      BY <2>1, <3>1, FS_RemoveElement
    <3> QED
      BY <3>1, <3>2
  <2>3. V = {} \/ G(V)
    BY <2>2
  <2>4. CASE V = {}
    <3>1. \A y \in U : y = x /\ y.anchor \in Int
      BY <2>1, <2>4
    <3> QED
      BY <2>1, <3>1
  <2>5. CASE G(V)
    <3>1. PICK z \in V : \A y \in V : y.anchor <= z.anchor
      BY <2>5
    <3>2. z \in U /\ z.anchor \in Int /\ x.anchor \in Int
      BY <2>1, <3>1
    <3>3. \A y \in U : y.anchor \in Int /\ (y = x \/ y \in V)
      OBVIOUS
    <3>4. CASE z.anchor >= x.anchor
      BY <3>1, <3>2, <3>3, <3>4
    <3>5. CASE x.anchor >= z.anchor
      <4>1. \A y \in U : y.anchor <= x.anchor
        BY <3>1, <3>2, <3>3, <3>5
      <4> QED
        BY <2>1, <4>1
    <3> QED
      BY <3>2, <3>4, <3>5
  <2> QED
    BY <2>3, <2>4, <2>5
<1>3. Nat \subseteq T
  <2> HIDE DEF T
  <2> QED
    BY <1>1, <1>2, ByInduction
<1>4. Cardinality(S) \in Nat
  BY FS_CardinalityType
<1>5. Cardinality(S) \in T
  BY <1>3, <1>4
<1> QED
  BY <1>5

\* std::sort() has an answer: a finite set can be listed in order.
LEMMA Sortable ==
    ASSUME NEW S, IsFiniteSet(S), \A x \in S : x.anchor \in Int
    PROVE  /\ ByAnchor(S) \in Bijection(1..Cardinality(S), S) /\ Ordered(ByAnchor(S))
           /\ Cardinality(S) \in Nat
<1> DEFINE B(n, U) == \E q \in Bijection(1..n, U) : Ordered(q)
           T == {n \in Nat : \A U \in SUBSET S : Cardinality(U) = n => B(n, U)}
<1>1. 0 \in T
  <2> SUFFICES ASSUME NEW U \in SUBSET S, Cardinality(U) = 0 PROVE B(0, U)
    OBVIOUS
  <2>1. U = {}
    BY FS_Subset, FS_EmptySet
  <2> DEFINE q == [i \in 1..0 |-> i]
  <2>2. q \in Bijection(1..0, U) /\ Ordered(q)
    BY <2>1 DEF Bijection, Injection, Surjection, IsInjective, Ordered
  <2> QED
    BY <2>2
<1>2. \A n \in Nat : n \in T => n + 1 \in T
  <2> SUFFICES ASSUME NEW n \in Nat, n \in T, NEW U \in SUBSET S, Cardinality(U) = n + 1
               PROVE  B(n + 1, U)
    OBVIOUS
  <2>1. IsFiniteSet(U) /\ U # {}
    BY FS_Subset, FS_EmptySet
  <2>2. PICK x \in U : \A y \in U : y.anchor <= x.anchor
    BY <2>1, LastOne
  <2> DEFINE V == U \ {x}
  <2>3. V \in SUBSET S /\ Cardinality(V) = n
    <3>1. Cardinality(V) = Cardinality(U) - 1
      BY <2>1, <2>2, FS_RemoveElement
    <3> QED
      BY <3>1
  <2>4. PICK p \in Bijection(1..n, V) : Ordered(p)
    BY <2>3
  <2> DEFINE q == [i \in 1..(n + 1) |-> IF i <= n THEN p[i] ELSE x]
  <2>5. /\ p \in [1..n -> V] /\ (\A i, j \in 1..n : p[i] = p[j] => i = j)
        /\ \A v \in V : \E i \in 1..n : p[i] = v
    BY <2>4 DEF Bijection, Injection, Surjection, IsInjective
  <2>6. \A i \in 1..(n + 1) : i \in 1..n \/ i = n + 1
    OBVIOUS
  <2>7. /\ \A i \in 1..n : i \in 1..(n + 1) /\ q[i] = p[i] /\ q[i] \in V
        /\ n + 1 \in 1..(n + 1) /\ q[n + 1] = x /\ DOMAIN q = 1..(n + 1)
    BY <2>5
  <2> HIDE DEF q
  <2>8. q \in [1..(n + 1) -> U]
    <3>1. q = [i \in 1..(n + 1) |-> q[i]]
      BY DEF q
    <3>2. \A i \in 1..(n + 1) : q[i] \in U
      BY <2>6, <2>7
    <3> QED
      BY <3>1, <3>2
  <2>9. \A i, j \in 1..(n + 1) : q[i] = q[j] => i = j
    BY <2>5, <2>6, <2>7
  <2>10. \A u \in U : \E i \in 1..(n + 1) : q[i] = u
    BY <2>5, <2>7
  <2>11. q \in Bijection(1..(n + 1), U)
    BY <2>8, <2>9, <2>10 DEF Bijection, Injection, Surjection, IsInjective
  <2>12. Ordered(q)
    <3> SUFFICES ASSUME NEW i \in 1..(n + 1), NEW j \in 1..(n + 1), i < j
                 PROVE  q[i].anchor <= q[j].anchor
      BY <2>7 DEF Ordered
    <3>1. i \in 1..n
      BY <2>6
    <3>2. CASE j = n + 1
      BY <2>2, <2>7, <3>1, <3>2
    <3>3. CASE j \in 1..n
      BY <2>4, <2>5, <2>7, <3>1, <3>3 DEF Ordered
    <3> QED
      BY <2>6, <3>2, <3>3
  <2> QED
    BY <2>11, <2>12
<1>3. Nat \subseteq T
  <2> HIDE DEF T
  <2> QED
    BY <1>1, <1>2, ByInduction
<1>4. Cardinality(S) \in Nat
  BY FS_CardinalityType
<1>5. B(Cardinality(S), S)
  BY <1>3, <1>4
<1> QED
  BY <1>4, <1>5 DEF ByAnchor, Ordered

-----------------------------------------------------------------------------
(* The invariant.                                                          *)

Files == Cams \X Nat
Held1 == [to : Int, state : {"open", "flushing", "closed"}, readable : BOOLEAN]
Places == [file : Files, wall : Nat, anchor : Int, end : Int \cup {NoInstant}, len : Int,
           final : BOOLEAN, probes : Nat]
Watching == [at : {"off", "scan", "anchor", "probe", "save", "refresh", "compute"},
             cam : Nat, todo : SUBSET Files, match : SUBSET Files, found : BOOLEAN]
Using == [op : {"idle", "start", "stop"}, step : {"none", "flag", "join", "end"},
          cams : SUBSET Cams]

Typed ==
    /\ now \in Nat /\ epoch \in Int
    /\ file \in [DOMAIN file -> Held1] /\ DOMAIN file \subseteq Files /\ IsFiniteSet(DOMAIN file)
    /\ taking \subseteq Cams /\ attached \in BOOLEAN
    /\ ui \in Using /\ running \in BOOLEAN
    /\ segs \in [Cams -> Seq(Places)]
    /\ w \in Watching

\* What is on the disk, in the list and waiting is about files that exist.
OfFiles ==
    /\ disk \subseteq {[file |-> f, wall |-> From(f)] : f \in DOMAIN file}
    /\ \A c \in Cams : \A i \in DOMAIN segs[c] :
        LET s == segs[c][i]
        IN s.file \in DOMAIN file /\ CamOf(s.file) = c /\ s.wall = From(s.file)
                /\ s.anchor = From(s.file) - epoch
    /\ DOMAIN pending = Cams
    /\ \A c \in Cams : \A f \in DOMAIN pending[c] : f \in DOMAIN file /\ CamOf(f) = c

InOrder ==
    \A c \in Cams : \A i, j \in DOMAIN segs[c] : i < j => segs[c][i].anchor < segs[c][j].anchor

\* A file waits for its place or has one.
WaitsOnce ==
    /\ \A c \in Cams : \A f \in DOMAIN pending[c] : \A i \in DOMAIN segs[c] : segs[c][i].file # f
    /\ w.at = "probe" => w.cam \in Cams /\ w.todo \subseteq DOMAIN pending[w.cam]

\* The thread outlives its flag only while the UI thread waits for it.
StopsWithUi ==
    /\ ui.step = "join" => ~running
    /\ ~running /\ w.at # "off" => ui.step = "join"

OnDisk == \A c \in Cams : \A i \in DOMAIN segs[c] : Entry(segs[c][i]) \in disk

\* Places not on the disk yet are the pass's own, or those stop() is about to write.
WrittenDown ==
    ui.step # "join" /\ w.at # "save" /\ ~(w.at = "probe" /\ w.found) => OnDisk

Closed(f) == f \in DOMAIN file /\ file[f].state = "closed"

\* A length was read from a file that had been closed, or from one the thread waits for.
LengthsKnown ==
    \A c \in Cams : \A i \in DOMAIN segs[c] :
        LET s == segs[c][i]
        IN /\ s.len # 0 => Closed(s.file) \/ s.file \in unclosed
           /\ s.final => Closed(s.file) /\ s.len = file[s.file].to - From(s.file)

NewestIsOpen ==
    \A c \in Cams : Len(segs[c]) > 0 => segs[c][Len(segs[c])].end = NoInstant

Inv ==
    /\ Typed /\ OfFiles /\ InOrder /\ WaitsOnce /\ StopsWithUi /\ WrittenDown /\ LengthsKnown
    /\ NewestIsOpen
LEMMA InitInv == Init => Inv
<1> SUFFICES ASSUME Init PROVE Inv
  OBVIOUS
<1>1. /\ now = 1 /\ epoch = 0 /\ file = <<>> /\ disk = {} /\ taking = {} /\ attached = FALSE
      /\ ui = Idle /\ running = FALSE /\ w = Off
      /\ segs = [c \in Cams |-> <<>>] /\ pending = [c \in Cams |-> <<>>]
  BY DEF Init
<1>2. /\ \A c \in Cams : segs[c] = <<>> /\ DOMAIN segs[c] = {} /\ Len(segs[c]) = 0
      /\ \A c \in Cams : DOMAIN pending[c] = {}
      /\ DOMAIN file = {} /\ DOMAIN pending = Cams
  BY <1>1
<1>3. Typed
  <2>1. file \in [DOMAIN file -> Held1] /\ DOMAIN file \subseteq Files /\ IsFiniteSet(DOMAIN file)
    BY <1>1, <1>2, FS_EmptySet
  <2>2. segs \in [Cams -> Seq(Places)]
    BY <1>1
  <2>3. ui \in Using /\ w \in Watching
    BY <1>1 DEF Using, Watching, Idle, Off
  <2>4. now \in Nat /\ epoch \in Int /\ taking \subseteq Cams /\ attached \in BOOLEAN
        /\ running \in BOOLEAN
    <3>1. now \in Nat /\ epoch \in Int /\ taking \subseteq Cams
      BY <1>1
    <3>2. attached \in BOOLEAN /\ running \in BOOLEAN
      BY <1>1
    <3> QED
      BY <3>1, <3>2
  <2> QED
    BY <2>1, <2>2, <2>3, <2>4 DEF Typed
<1>4. ui.step = "none" /\ w.at = "off"
  BY <1>1 DEF Idle, Off
<1> QED
  BY <1>1, <1>2, <1>3, <1>4
     DEF Inv, OfFiles, InOrder, WaitsOnce, StopsWithUi, WrittenDown, OnDisk, LengthsKnown, NewestIsOpen

-----------------------------------------------------------------------------
(* The recorder, and the UI thread's part in it.                           *)

\* What the folder may do: files come, and a closed one stays as it is.
Grows ==
    /\ DOMAIN file \subseteq DOMAIN file'
    /\ \A f \in DOMAIN file : file[f].state = "closed" =>
            file'[f].state = "closed" /\ file'[f].to = file[f].to

LEMMA WorldKeeps ==
    ASSUME Inv, Typed', Grows, UNCHANGED <<epoch, disk, segs, pending, w, unclosed, running>>,
           ui'.step = "join" <=> ui.step = "join"
    PROVE  Inv'
<1>1. OfFiles'
  BY DEF Inv, OfFiles, Grows
<1>2. InOrder' /\ WaitsOnce' /\ NewestIsOpen' /\ StopsWithUi' /\ WrittenDown'
  BY DEF Inv, InOrder, WaitsOnce, NewestIsOpen, StopsWithUi, WrittenDown, OnDisk, Entry
<1>3. LengthsKnown'
  <2>1. \A f : Closed(f) => Closed(f)' /\ file'[f].to = file[f].to
    BY DEF Closed, Grows
  <2> QED
    BY <2>1 DEF Inv, LengthsKnown
<1> QED
  BY <1>1, <1>2, <1>3 DEF Inv

LEMMA NewFiles ==
    ASSUME NEW files \in [DOMAIN file -> Held1], Typed, NEW new \in SUBSET Files, IsFiniteSet(new),
           file' = WithNew(files, new)
    PROVE  /\ file' \in [DOMAIN file' -> Held1] /\ DOMAIN file' \subseteq Files
           /\ IsFiniteSet(DOMAIN file') /\ DOMAIN file \subseteq DOMAIN file'
           /\ \A f \in DOMAIN file : file'[f] = files[f]
<1>1. DOMAIN file' = DOMAIN file \cup new
  BY DEF WithNew
<1>2. IsFiniteSet(DOMAIN file')
  <2>1. IsFiniteSet(DOMAIN file)
    BY DEF Typed
  <2>2. IsFiniteSet(DOMAIN file \cup new)
    BY <2>1, FS_Union
  <2> QED
    BY <1>1, <2>2
<1>3. \A f \in DOMAIN file' :
        file'[f] = IF f \in DOMAIN file THEN files[f]
                   ELSE [to |-> now, state |-> "open", readable |-> TRUE]
  BY <1>1 DEF WithNew
<1>4. [to |-> now, state |-> "open", readable |-> TRUE] \in Held1
  BY DEF Held1, Typed
<1>5. \A f \in DOMAIN file' : file'[f] \in Held1
  BY <1>3, <1>4
<1>6. file' = [f \in DOMAIN file' |-> file'[f]]
  BY DEF WithNew
<1>7. DOMAIN file' \subseteq Files
  BY <1>1 DEF Typed
<1>8. file' \in [DOMAIN file' -> Held1]
  <2> DEFINE g == file'
  <2>1. g = [f \in DOMAIN g |-> g[f]] /\ \A f \in DOMAIN g : g[f] \in Held1
    BY <1>5, <1>6
  <2> HIDE DEF g
  <2>2. g \in [DOMAIN g -> Held1]
    BY <2>1
  <2> QED
    BY <2>2 DEF g
<1> QED
  BY <1>1, <1>2, <1>3, <1>7, <1>8

LEMMA RecorderInv == ASSUME Inv, Recorder PROVE Inv'
<1>0. Typed /\ UNCHANGED <<epoch, disk, segs, pending, w, unclosed, running, ui, taking>>
  BY DEF Inv, Recorder, Tick, Split, FlushEnds, index
<1>1. CASE Tick
  <2>1. /\ now' = now + 1 /\ attached' \in BOOLEAN
        /\ file' = [f \in DOMAIN file |->
                        IF Open(f) THEN [file[f] EXCEPT !.to = now + 1] ELSE file[f]]
    BY <1>0, <1>1 DEF Tick, Typed
  <2>2. \A f \in DOMAIN file : file[f] \in Held1 /\ now + 1 \in Int
    BY <1>0 DEF Typed
  <2>3. \A f \in DOMAIN file : file'[f] \in Held1
    BY <2>1, <2>2 DEF Held1
  <2>4. DOMAIN file' = DOMAIN file /\ file' \in [DOMAIN file -> Held1]
    BY <2>1, <2>3
  <2>5. Grows
    BY <2>1, <2>4 DEF Grows, Open
  <2>6. Typed'
    BY <1>0, <2>1, <2>4 DEF Typed
  <2> QED
    BY <1>0, <2>5, <2>6, WorldKeeps
<1>2. CASE Split
  <2>1. PICK f \in DOMAIN file :
            /\ Open(f)
            /\ file' = WithNew([file EXCEPT ![f].state = "closed"], {Id(CamOf(f), now)})
    BY <1>2 DEF Split
  <2> DEFINE files == [file EXCEPT ![f].state = "closed"]
  <2>2. files \in [DOMAIN file -> Held1] /\ DOMAIN files = DOMAIN file
    <3>1. file[f] \in Held1
      BY <1>0 DEF Typed
    <3>2. [file[f] EXCEPT !.state = "closed"] \in Held1
      BY <3>1 DEF Held1
    <3> QED
      BY <1>0, <3>2 DEF Typed
  <2>3. {Id(CamOf(f), now)} \in SUBSET Files /\ IsFiniteSet({Id(CamOf(f), now)})
    <3>1. f \in Cams \X Nat /\ now \in Nat
      BY <1>0 DEF Typed, Files
    <3>2. Id(CamOf(f), now) \in Files
      BY <3>1 DEF Files, CamOf, Id
    <3> QED
      BY <3>2, FS_Singleton
  <2>4. \A g \in DOMAIN file : file[g].state = "closed" => files[g] = file[g]
    BY <2>1 DEF Open
  <2> HIDE DEF files
  <2>5. /\ file' \in [DOMAIN file' -> Held1] /\ DOMAIN file' \subseteq Files
        /\ IsFiniteSet(DOMAIN file') /\ DOMAIN file \subseteq DOMAIN file'
        /\ \A g \in DOMAIN file : file'[g] = files[g]
    BY <1>0, <2>1, <2>2, <2>3, NewFiles DEF files
  <2>6. Grows
    BY <2>4, <2>5 DEF Grows
  <2>7. UNCHANGED <<now, attached>>
    BY <1>2 DEF Split
  <2>8. Typed'
    BY <1>0, <2>5, <2>7 DEF Typed
  <2> QED
    BY <1>0, <2>6, <2>8, WorldKeeps
<1>3. CASE FlushEnds
  <2>1. /\ UNCHANGED <<now, attached>>
        /\ file' = [f \in DOMAIN file |->
                        IF file[f].state = "flushing" THEN [file[f] EXCEPT !.state = "closed"]
                        ELSE file[f]]
    BY <1>3 DEF FlushEnds
  <2>2. \A f \in DOMAIN file : file[f] \in Held1
    BY <1>0 DEF Typed
  <2>3. \A f \in DOMAIN file : file'[f] \in Held1
    BY <2>1, <2>2 DEF Held1
  <2>4. DOMAIN file' = DOMAIN file /\ file' \in [DOMAIN file -> Held1]
    BY <2>1, <2>3
  <2>5. Grows
    BY <2>1, <2>4 DEF Grows
  <2>6. Typed'
    BY <1>0, <2>1, <2>4 DEF Typed
  <2> QED
    BY <1>0, <2>5, <2>6, WorldKeeps
<1> QED
  BY <1>1, <1>2, <1>3 DEF Recorder

LEMMA UiOf == Typed => ui.step \in {"none", "flag", "join", "end"} /\ Idle.step = "none"
  BY DEF Typed, Using, Idle

LEMMA PressInv == ASSUME Inv, PressRec \/ PressStop \/ Reopen \/ FiltersOff PROVE Inv'
<1>0. Typed /\ UNCHANGED <<epoch, disk, segs, pending, w, unclosed, running, now>>
  BY DEF Inv, PressRec, PressStop, Reopen, FiltersOff, world, index
<1>1. CASE PressRec
  <2>1. PICK chosen \in SUBSET Cams :
            /\ taking' = chosen /\ file' = WithNew(file, {Id(c, now) : c \in chosen})
            /\ ui' = [op |-> "start", step |-> "flag", cams |-> chosen]
    BY <1>1 DEF PressRec
  <2> DEFINE new == {Id(c, now) : c \in chosen}
  <2>2. new \in SUBSET Files
    BY <1>0 DEF Typed, Files, Id
  <2>3. IsFiniteSet(new)
    <3>1. IsFiniteSet(Cams)
      BY FS_Interval, CamsAssumption DEF Cams
    <3>2. IsFiniteSet(chosen)
      BY <3>1, FS_Subset
    <3> DEFINE at == [c \in chosen |-> Id(c, now)]
    <3>3. IsFiniteSet({at[c] : c \in chosen})
      BY <3>2, ImageIsFinite
    <3>4. {at[c] : c \in chosen} = new
      OBVIOUS
    <3> QED
      BY <3>3, <3>4
  <2>4. file \in [DOMAIN file -> Held1]
    BY <1>0 DEF Typed
  <2> HIDE DEF new
  <2>5. /\ file' \in [DOMAIN file' -> Held1] /\ DOMAIN file' \subseteq Files
        /\ IsFiniteSet(DOMAIN file') /\ DOMAIN file \subseteq DOMAIN file'
        /\ \A g \in DOMAIN file : file'[g] = file[g]
    BY <1>0, <2>1, <2>2, <2>3, <2>4, NewFiles DEF new
  <2>6. Grows
    BY <2>5 DEF Grows
  <2>7. attached' = attached /\ ui = Idle
    BY <1>1 DEF PressRec
  <2>8. ui' \in Using /\ ui'.step = "flag"
    BY <2>1 DEF Using
  <2>9. Typed'
    BY <1>0, <2>1, <2>5, <2>7, <2>8 DEF Typed
  <2> QED
    BY <1>0, <2>6, <2>7, <2>8, <2>9, WorldKeeps, UiOf
<1>2. CASE PressStop \/ Reopen
  <2>1. /\ UNCHANGED <<file, taking>> /\ attached' \in BOOLEAN /\ ui = Idle
        /\ \E op \in {"start", "stop"}, cs \in SUBSET Cams :
                ui' = [op |-> op, step |-> "flag", cams |-> cs]
    BY <1>0, <1>2 DEF PressStop, Reopen, world, Typed
  <2>2. ui' \in Using /\ ui'.step = "flag"
    BY <2>1 DEF Using
  <2>3. Grows
    BY <2>1 DEF Grows
  <2>4. Typed'
    BY <1>0, <2>1, <2>2 DEF Typed
  <2> QED
    BY <1>0, <2>1, <2>2, <2>3, <2>4, WorldKeeps, UiOf
<1>3. CASE FiltersOff
  <2>1. /\ attached' = attached /\ taking' = {} /\ ui' = Idle /\ ui.step = "end"
        /\ file' = [f \in DOMAIN file |->
                        IF Open(f) THEN [file[f] EXCEPT !.state = "flushing"] ELSE file[f]]
    BY <1>3 DEF FiltersOff
  <2>2. \A f \in DOMAIN file : file[f] \in Held1
    BY <1>0 DEF Typed
  <2>3. \A f \in DOMAIN file : file'[f] \in Held1
    BY <2>1, <2>2 DEF Held1
  <2>4. DOMAIN file' = DOMAIN file /\ file' \in [DOMAIN file -> Held1]
    BY <2>1, <2>3
  <2>5. Grows
    BY <2>1, <2>4 DEF Grows, Open
  <2>6. Idle \in Using
    BY DEF Idle, Using
  <2>7. Typed'
    BY <1>0, <2>1, <2>4, <2>6 DEF Typed
  <2> QED
    BY <1>0, <2>1, <2>5, <2>7, WorldKeeps, UiOf
<1> QED
  BY <1>1, <1>2, <1>3

LEMMA ClearInv == ASSUME Inv, ClearRunning PROVE Inv'
<1>1. /\ ui.step = "flag" /\ running' = FALSE
      /\ ui' = [ui EXCEPT !.step = IF running THEN "join" ELSE "end"]
      /\ UNCHANGED <<world, disk, index, w, unclosed>> /\ Typed
  BY DEF ClearRunning, Inv
<1>2. ui' \in Using /\ ui'.step = IF running THEN "join" ELSE "end"
  BY <1>1 DEF Typed, Using
<1>3. Typed'
  BY <1>1, <1>2 DEF Typed, world, index
<1>4. StopsWithUi'
  <2>1. ~running => w.at = "off"
    BY <1>1 DEF Inv, StopsWithUi
  <2> QED
    BY <1>1, <1>2, <2>1 DEF StopsWithUi
<1>5. OfFiles' /\ InOrder' /\ WaitsOnce' /\ LengthsKnown' /\ NewestIsOpen'
  BY <1>1 DEF Inv, OfFiles, InOrder, WaitsOnce, LengthsKnown, NewestIsOpen, Closed, world, index
<1>6. WrittenDown'
  BY <1>1 DEF Inv, WrittenDown, OnDisk, Entry, world, index
<1> QED
  BY <1>3, <1>4, <1>5, <1>6 DEF Inv

\* save() leaves every place of the list on the disk, and nothing but places of files.
LEMMA SaveWrites ==
    ASSUME Inv, Save, UNCHANGED segs
    PROVE  /\ OnDisk'
           /\ disk' \subseteq {[file |-> f, wall |-> From(f)] : f \in DOMAIN file}
<1>1. \A c \in Cams : \A i \in DOMAIN segs[c] :
        /\ Entry(segs[c][i]) \in Held
        /\ Entry(segs[c][i]) \in {[file |-> f, wall |-> From(f)] : f \in DOMAIN file}
  BY DEF Inv, OfFiles, Held, Entry, ToSet
<1>2. Held \subseteq {[file |-> f, wall |-> From(f)] : f \in DOMAIN file}
  <2> SUFFICES ASSUME NEW e \in Held
               PROVE  e \in {[file |-> f, wall |-> From(f)] : f \in DOMAIN file}
    OBVIOUS
  <2>1. PICK c \in Cams : \E s \in ToSet(segs[c]) : e = Entry(s)
    BY DEF Held
  <2>2. PICK i \in DOMAIN segs[c] : e = Entry(segs[c][i])
    BY <2>1 DEF ToSet
  <2> QED
    BY <1>1, <2>2
<1>3. disk' \subseteq {[file |-> f, wall |-> From(f)] : f \in DOMAIN file}
  BY <1>2 DEF Save, Inv, OfFiles
<1>4. OnDisk'
  BY <1>1 DEF OnDisk, Save, Entry
<1> QED
  BY <1>3, <1>4

LEMMA JoinInv == ASSUME Inv, JoinWatcher PROVE Inv'
<1>1. /\ ui.step = "join" /\ w = Off /\ Save /\ ui' = [ui EXCEPT !.step = "end"]
      /\ UNCHANGED <<world, running, index, w, unclosed>> /\ Typed
  BY DEF JoinWatcher, Inv
<1>2. ui' \in Using /\ ui'.step = "end" /\ w.at = "off"
  BY <1>1 DEF Typed, Using, Off
<1>3. Typed'
  BY <1>1, <1>2 DEF Typed, world, index
<1>4. StopsWithUi'
  BY <1>1, <1>2 DEF StopsWithUi
<1>5. OnDisk' /\ disk' \subseteq {[file |-> f, wall |-> From(f)] : f \in DOMAIN file}
  BY <1>1, SaveWrites DEF index
<1>6. OfFiles' /\ WrittenDown'
  BY <1>1, <1>5 DEF Inv, OfFiles, WrittenDown, world, index
<1>7. InOrder' /\ WaitsOnce' /\ LengthsKnown' /\ NewestIsOpen'
  BY <1>1 DEF Inv, InOrder, WaitsOnce, LengthsKnown, NewestIsOpen, Closed, world, index
<1> QED
  BY <1>3, <1>4, <1>6, <1>7 DEF Inv

\* recomputeBoundaries() changes the ends alone, and leaves the newest open.
LEMMA BoundedKeeps ==
    ASSUME NEW q \in Seq(Places)
    PROVE  /\ Bounded(q) \in Seq(Places) /\ Len(Bounded(q)) = Len(q)
           /\ DOMAIN Bounded(q) = DOMAIN q
           /\ \A i \in DOMAIN q :
                /\ Bounded(q)[i].file = q[i].file /\ Bounded(q)[i].wall = q[i].wall
                /\ Bounded(q)[i].anchor = q[i].anchor /\ Bounded(q)[i].len = q[i].len
                /\ Bounded(q)[i].final = q[i].final
           /\ Len(q) > 0 => Bounded(q)[Len(q)].end = NoInstant
<1> DEFINE b == Bounded(q)
           e(i) == IF i < Len(q) THEN q[i + 1].anchor ELSE NoInstant
<1>1. Len(q) \in Nat /\ DOMAIN q = 1..Len(q) /\ \A i \in 1..Len(q) : q[i] \in Places
  OBVIOUS
<1>2. \A i \in 1..Len(q) : e(i) \in Int \cup {NoInstant}
  <2>1. \A i \in 1..Len(q) : i < Len(q) => i + 1 \in 1..Len(q)
    BY <1>1
  <2>2. \A i \in 1..Len(q) : q[i].anchor \in Int
    BY <1>1 DEF Places
  <2> QED
    BY <2>1, <2>2
<1>3. b = [i \in 1..Len(q) |-> [q[i] EXCEPT !.end = e(i)]]
  BY <1>1 DEF Bounded
<1> HIDE DEF b, e
<1>4. \A i \in 1..Len(q) :
        /\ b[i] \in Places /\ b[i].file = q[i].file /\ b[i].wall = q[i].wall
        /\ b[i].anchor = q[i].anchor /\ b[i].len = q[i].len /\ b[i].final = q[i].final
        /\ b[i].end = e(i)
  BY <1>1, <1>2, <1>3 DEF Places
<1>5. b \in Seq(Places) /\ Len(b) = Len(q) /\ DOMAIN b = DOMAIN q
  BY <1>1, <1>3, <1>4
<1>6. Len(q) > 0 => Len(q) \in 1..Len(q) /\ e(Len(q)) = NoInstant
  BY <1>1 DEF e
<1> QED
  BY <1>1, <1>4, <1>5, <1>6 DEF b

LEMMA LoadedInOrder ==
    ASSUME Inv, NEW c \in Cams, NEW wanted
    PROVE  LET q == ByAnchor(Loaded(c, wanted))
           IN  /\ q \in Seq(Places)
               /\ \A i \in DOMAIN q :
                    /\ q[i].file \in DOMAIN file /\ CamOf(q[i].file) = c
                    /\ q[i].wall = From(q[i].file) /\ q[i].anchor = From(q[i].file) - epoch
                    /\ q[i].len = 0 /\ q[i].final = FALSE /\ Entry(q[i]) \in disk
               /\ \A i, j \in DOMAIN q : i < j => q[i].anchor < q[j].anchor
<1> DEFINE L == Loaded(c, wanted)
           q == ByAnchor(L)
           n == Cardinality(L)
           place == [f \in DOMAIN file |->
                        [file |-> f, wall |-> From(f), anchor |-> From(f) - epoch,
                         end |-> NoInstant, len |-> 0, final |-> FALSE, probes |-> 0]]
<1>0. Typed /\ \A f \in DOMAIN file : f \in Files /\ From(f) \in Nat /\ f = <<CamOf(f), From(f)>>
  <2>1. Typed /\ \A f \in DOMAIN file : f \in Cams \X Nat
    BY DEF Inv, Typed, Files
  <2>2. \A f \in DOMAIN file : From(f) \in Nat /\ f = <<CamOf(f), From(f)>>
    BY <2>1 DEF From, CamOf
  <2> QED
    BY <2>1, <2>2 DEF Files
<1>1. \A x \in L : /\ x \in Places /\ x.file \in DOMAIN file /\ CamOf(x.file) = c
                   /\ x.wall = From(x.file) /\ x.anchor = From(x.file) - epoch
                   /\ x.len = 0 /\ x.final = FALSE /\ Entry(x) \in disk
                   /\ x = place[x.file]
  <2> SUFFICES ASSUME NEW x \in L
               PROVE  /\ x \in Places /\ x.file \in DOMAIN file /\ CamOf(x.file) = c
                      /\ x.wall = From(x.file) /\ x.anchor = From(x.file) - epoch
                      /\ x.len = 0 /\ x.final = FALSE /\ Entry(x) \in disk
                      /\ x = place[x.file]
    OBVIOUS
  <2>1. PICK e \in disk :
            /\ CamOf(e.file) = c /\ e.file \in DOMAIN file
            /\ x = [file |-> e.file, wall |-> e.wall, anchor |-> e.wall - epoch,
                    end |-> NoInstant, len |-> 0, final |-> FALSE, probes |-> 0]
    BY DEF Loaded
  <2>2. e.wall = From(e.file) /\ e = [file |-> e.file, wall |-> e.wall]
    BY DEF Inv, OfFiles
  <2>3. x.file = e.file /\ x.wall = e.wall /\ Entry(x) = e
    BY <2>1, <2>2 DEF Entry
  <2>4. x = place[x.file]
    BY <2>1, <2>2
  <2>5. x \in Places
    <3>1. e.file \in Files /\ e.wall \in Nat /\ e.wall - epoch \in Int
      BY <1>0, <2>1, <2>2 DEF Typed
    <3> QED
      BY <2>1, <3>1 DEF Places
  <2> QED
    BY <2>1, <2>2, <2>3, <2>4, <2>5
<1> HIDE DEF place, L
<1>2. IsFiniteSet(L)
  <2>1. IsFiniteSet({place[f] : f \in DOMAIN file})
    <3>1. IsFiniteSet(DOMAIN file)
      BY <1>0 DEF Typed
    <3> QED
      BY <3>1, ImageIsFinite
  <2>2. L \subseteq {place[f] : f \in DOMAIN file}
    BY <1>1
  <2> QED
    BY <2>1, <2>2, FS_Subset
<1>3. \A x, y \in L : x.anchor = y.anchor => x = y
  <2> SUFFICES ASSUME NEW x \in L, NEW y \in L, x.anchor = y.anchor PROVE x = y
    OBVIOUS
  <2>1. From(x.file) = From(y.file)
    <3>1. From(x.file) \in Nat /\ From(y.file) \in Nat /\ epoch \in Int
      BY <1>0, <1>1 DEF Typed
    <3>2. From(x.file) - epoch = From(y.file) - epoch
      BY <1>1
    <3> QED
      BY <3>1, <3>2
  <2>2. x.file = y.file
    <3>1. x.file = <<CamOf(x.file), From(x.file)>> /\ y.file = <<CamOf(y.file), From(y.file)>>
      BY <1>0, <1>1
    <3>2. CamOf(x.file) = CamOf(y.file)
      BY <1>1
    <3> QED
      BY <2>1, <3>1, <3>2
  <2> QED
    BY <1>1, <2>2
<1>4. \A x \in L : x.anchor \in Int
  BY <1>1 DEF Places
<1>5. q \in Bijection(1..n, L) /\ Ordered(q) /\ n \in Nat
  BY <1>2, <1>4, Sortable
<1> HIDE DEF q, n
<1>6. q \in [1..n -> L] /\ \A i, j \in 1..n : q[i] = q[j] => i = j
  BY <1>5 DEF Bijection, Injection, IsInjective
<1>7. DOMAIN q = 1..n /\ \A i \in 1..n : q[i] \in L
  BY <1>6
<1>8. q \in Seq(Places)
  <2>1. q \in [1..n -> Places]
    BY <1>1, <1>6
  <2> QED
    BY <1>5, <2>1
<1>9. \A i, j \in DOMAIN q : i < j => q[i].anchor < q[j].anchor
  <2> SUFFICES ASSUME NEW i \in 1..n, NEW j \in 1..n, i < j PROVE q[i].anchor < q[j].anchor
    BY <1>7
  <2>1. q[i].anchor <= q[j].anchor
    BY <1>5, <1>7 DEF Ordered
  <2>2. q[i].anchor # q[j].anchor
    BY <1>3, <1>6, <1>7
  <2> QED
    BY <1>4, <1>7, <2>1, <2>2
<1> QED
  BY <1>1, <1>7, <1>8, <1>9 DEF q, L

LEMMA LoadInv == ASSUME Inv, Load PROVE Inv'
<1>1. /\ segs' = [c \in Cams |-> Bounded(ByAnchor(Loaded(c, ui.cams)))]
      /\ pending' = [c \in Cams |-> <<>>] /\ running' = TRUE /\ w' = [Off EXCEPT !.at = "scan"]
      /\ ui' = Idle /\ UNCHANGED <<world, disk, unclosed>> /\ Typed
  BY DEF Load, Inv
<1>2. \A c \in Cams :
        /\ segs'[c] \in Seq(Places)
        /\ \A i \in DOMAIN segs'[c] :
            LET s == segs'[c][i]
            IN  /\ s.file \in DOMAIN file /\ CamOf(s.file) = c
                /\ s.wall = From(s.file) /\ s.anchor = From(s.file) - epoch
                /\ s.len = 0 /\ s.final = FALSE /\ Entry(s) \in disk
        /\ \A i, j \in DOMAIN segs'[c] : i < j => segs'[c][i].anchor < segs'[c][j].anchor
        /\ Len(segs'[c]) > 0 => segs'[c][Len(segs'[c])].end = NoInstant
  <2> SUFFICES ASSUME NEW c \in Cams
               PROVE  /\ segs'[c] \in Seq(Places)
                      /\ \A i \in DOMAIN segs'[c] :
                            LET s == segs'[c][i]
                            IN  /\ s.file \in DOMAIN file /\ CamOf(s.file) = c
                                /\ s.wall = From(s.file) /\ s.anchor = From(s.file) - epoch
                                /\ s.len = 0 /\ s.final = FALSE /\ Entry(s) \in disk
                      /\ \A i, j \in DOMAIN segs'[c] :
                            i < j => segs'[c][i].anchor < segs'[c][j].anchor
                      /\ Len(segs'[c]) > 0 => segs'[c][Len(segs'[c])].end = NoInstant
    OBVIOUS
  <2> DEFINE q == ByAnchor(Loaded(c, ui.cams))
  <2>1. /\ q \in Seq(Places)
        /\ \A i \in DOMAIN q :
            /\ q[i].file \in DOMAIN file /\ CamOf(q[i].file) = c
            /\ q[i].wall = From(q[i].file) /\ q[i].anchor = From(q[i].file) - epoch
            /\ q[i].len = 0 /\ q[i].final = FALSE /\ Entry(q[i]) \in disk
        /\ \A i, j \in DOMAIN q : i < j => q[i].anchor < q[j].anchor
    BY LoadedInOrder
  <2>2. segs'[c] = Bounded(q)
    BY <1>1
  <2> HIDE DEF q
  <2> DEFINE b == Bounded(q)
  <2>3. /\ b \in Seq(Places) /\ Len(b) = Len(q) /\ DOMAIN b = DOMAIN q
        /\ \A i \in DOMAIN q :
            /\ b[i].file = q[i].file /\ b[i].wall = q[i].wall /\ b[i].anchor = q[i].anchor
            /\ b[i].len = q[i].len /\ b[i].final = q[i].final
        /\ Len(q) > 0 => b[Len(q)].end = NoInstant
    BY <2>1, BoundedKeeps
  <2>4. segs'[c] = b
    BY <2>2
  <2> HIDE DEF b
  <2>5. \A i \in DOMAIN b : Entry(b[i]) = Entry(q[i])
    BY <2>3 DEF Entry
  <2> QED
    BY <2>1, <2>3, <2>4, <2>5
<1>3. Idle \in Using /\ Idle.step = "none" /\ w' \in Watching /\ w'.at = "scan"
  BY <1>1 DEF Idle, Using, Watching, Off
<1>4. segs' \in [Cams -> Seq(Places)]
  BY <1>1, <1>2
<1>5. Typed'
  BY <1>1, <1>3, <1>4 DEF Typed, world
<1>6. DOMAIN pending' = Cams /\ \A c \in Cams : DOMAIN pending'[c] = {}
  BY <1>1
<1>7. OfFiles' /\ InOrder' /\ NewestIsOpen'
  BY <1>1, <1>2, <1>6 DEF Inv, OfFiles, InOrder, NewestIsOpen, world
<1>8. WaitsOnce' /\ StopsWithUi'
  BY <1>1, <1>3, <1>6 DEF WaitsOnce, StopsWithUi
<1>9. OnDisk'
  BY <1>1, <1>2 DEF OnDisk, Entry
<1>10. WrittenDown'
  BY <1>9 DEF WrittenDown
<1>11. LengthsKnown'
  BY <1>1, <1>2 DEF LengthsKnown
<1> QED
  BY <1>5, <1>7, <1>8, <1>10, <1>11 DEF Inv

LEMMA CrashInv == ASSUME Inv, Crash PROVE Inv'
<1>1. /\ epoch' = now + 1 /\ taking' = {} /\ attached' = FALSE /\ ui' = Idle /\ running' = FALSE
      /\ w' = Off /\ UNCHANGED <<now, disk>> /\ Typed
      /\ segs' = [c \in Cams |-> <<>>] /\ pending' = [c \in Cams |-> <<>>]
  BY DEF Crash, Inv
<1>2. PICK lost : file' = [f \in DOMAIN file |->
                              [file[f] EXCEPT !.state = "closed", !.readable = @ /\ f \notin lost]]
  BY DEF Crash
<1>3. /\ \A c \in Cams : segs'[c] = <<>> /\ DOMAIN segs'[c] = {} /\ Len(segs'[c]) = 0
                        /\ DOMAIN pending'[c] = {}
      /\ DOMAIN pending' = Cams
  BY <1>1
<1>4. DOMAIN file' = DOMAIN file /\ file' \in [DOMAIN file -> Held1]
  <2>1. \A f \in DOMAIN file : file[f] \in Held1
    BY <1>1 DEF Typed
  <2>2. \A f \in DOMAIN file : (file[f].readable /\ f \notin lost) \in BOOLEAN
    OBVIOUS
  <2>3. \A f \in DOMAIN file : file'[f] \in Held1
    BY <1>2, <2>1, <2>2 DEF Held1
  <2> QED
    BY <1>2, <2>3
<1>5. Idle \in Using /\ Idle.step = "none" /\ w' \in Watching /\ w'.at = "off"
  BY <1>1 DEF Idle, Using, Watching, Off
<1>6. Typed'
  <2>1. segs' \in [Cams -> Seq(Places)]
    BY <1>1, <1>3
  <2>2. epoch' \in Int /\ now' \in Nat /\ taking' \subseteq Cams
    BY <1>1 DEF Typed
  <2>3. attached' \in BOOLEAN /\ running' \in BOOLEAN
    BY <1>1
  <2>4. file' \in [DOMAIN file' -> Held1] /\ DOMAIN file' \subseteq Files /\ IsFiniteSet(DOMAIN file')
    BY <1>1, <1>4 DEF Typed
  <2> QED
    BY <1>1, <1>5, <2>1, <2>2, <2>3, <2>4 DEF Typed
<1>7. OfFiles' /\ InOrder' /\ WaitsOnce' /\ StopsWithUi' /\ WrittenDown' /\ LengthsKnown' /\ NewestIsOpen'
  BY <1>1, <1>3, <1>4, <1>5
     DEF Inv, OfFiles, InOrder, WaitsOnce, StopsWithUi, WrittenDown, OnDisk, LengthsKnown, NewestIsOpen
<1> QED
  BY <1>6, <1>7 DEF Inv

-----------------------------------------------------------------------------
(* The watching thread.                                                    *)

LEMMA ScanInv == ASSUME Inv, Scan PROVE Inv'
<1>1. /\ w.at = "scan" /\ running /\ pending' = Scanned /\ w' = [Off EXCEPT !.at = "anchor"]
      /\ UNCHANGED <<segs, disk, unclosed, world, ui, running>> /\ Typed
  BY DEF Scan, Rest, Inv
<1>2. w' \in Watching /\ w'.at = "anchor"
  BY <1>1 DEF Watching, Off
<1>3. Typed'
  BY <1>1, <1>2 DEF Typed, world
<1>4. /\ DOMAIN pending' = Cams
      /\ \A c \in Cams : DOMAIN pending'[c] =
            DOMAIN pending[c] \cup {g \in DOMAIN file : CamOf(g) = c /\ c \in cams /\ ~Known(g)}
  BY <1>1 DEF Scanned
<1>5. OfFiles'
  BY <1>1, <1>4 DEF Inv, OfFiles, world
<1>6. WaitsOnce'
  <2>1. \A c \in Cams : \A f \in DOMAIN pending'[c] : \A i \in DOMAIN segs[c] : segs[c][i].file # f
    BY <1>4 DEF Inv, WaitsOnce, Known, ToSet
  <2> QED
    BY <1>1, <1>2, <2>1 DEF WaitsOnce
<1>7. InOrder' /\ LengthsKnown' /\ NewestIsOpen' /\ StopsWithUi' /\ WrittenDown'
  BY <1>1, <1>2
     DEF Inv, InOrder, LengthsKnown, Closed, NewestIsOpen, StopsWithUi, WrittenDown, OnDisk, Entry, world
<1> QED
  BY <1>3, <1>5, <1>6, <1>7 DEF Inv

\* The steps of the thread that move it along and leave list, disk and lengths alone.
LEMMA MovesKeep ==
    ASSUME Inv, UNCHANGED <<segs, disk, unclosed, world, ui, running>>, w' \in Watching,
           DOMAIN pending' = Cams, \A c \in Cams : DOMAIN pending'[c] = DOMAIN pending[c],
           w'.at = "probe" => w'.cam \in Cams /\ w'.todo \subseteq DOMAIN pending[w'.cam],
           w.at # "off",
           ui.step # "join" /\ w'.at # "save" /\ ~(w'.at = "probe" /\ w'.found) => OnDisk
    PROVE  Inv'
<1>1. Typed'
  BY DEF Inv, Typed, world
<1>2. OfFiles' /\ WaitsOnce'
  BY DEF Inv, OfFiles, WaitsOnce, world
<1>3. InOrder' /\ LengthsKnown' /\ NewestIsOpen' /\ StopsWithUi'
  BY DEF Inv, InOrder, LengthsKnown, Closed, NewestIsOpen, StopsWithUi, world
<1>4. WrittenDown'
  BY DEF WrittenDown, OnDisk, Entry
<1> QED
  BY <1>1, <1>2, <1>3, <1>4 DEF Inv

LEMMA AnchorCameraInv == ASSUME Inv, AnchorCamera PROVE Inv'
<1>1. /\ w.at = "anchor" /\ UNCHANGED <<segs, disk, unclosed, world, ui, running>>
      /\ Typed /\ DOMAIN pending = Cams /\ w \in Watching
  BY DEF AnchorCamera, Rest, Inv, Typed, OfFiles
<1>2. ui.step # "join" => OnDisk
  BY <1>1 DEF Inv, WrittenDown
<1>3. CASE \E a \in {"compute", "refresh"} : w' = [Off EXCEPT !.at = a] /\ UNCHANGED pending
  <2>1. PICK a \in {"compute", "refresh"} : w' = [Off EXCEPT !.at = a] /\ UNCHANGED pending
    BY <1>3
  <2>2. w' = [at |-> a, cam |-> 1, todo |-> {}, match |-> {}, found |-> FALSE]
    BY <2>1 DEF Off
  <2>3. w'.at = a /\ a # "probe" /\ a # "save"
    BY <2>2
  <2>4. w' \in Watching
    BY <2>2, <2>3 DEF Watching
  <2> QED
    BY <1>1, <1>2, <2>1, <2>3, <2>4, MovesKeep
<1>4. CASE \E c \in Cams :
              /\ pending' = [pending EXCEPT ![c] = [f \in DOMAIN @ |-> Tried(@[f])]]
              /\ w' = [w EXCEPT !.cam = c + 1]
  <2>1. PICK c \in Cams : /\ pending' = [pending EXCEPT ![c] = [f \in DOMAIN @ |-> Tried(@[f])]]
                          /\ w' = [w EXCEPT !.cam = c + 1]
    BY <1>4
  <2>2. w' \in Watching /\ w'.at = "anchor"
    BY SMTT(20), <1>1, <2>1, CamsAssumption DEF Watching, Cams
  <2>3. DOMAIN pending' = Cams /\ \A k \in Cams : DOMAIN pending'[k] = DOMAIN pending[k]
    BY <1>1, <2>1
  <2> QED
    BY <1>1, <1>2, <2>2, <2>3, MovesKeep
<1>5. CASE \E c \in Cams :
              /\ w' = [at |-> "probe", cam |-> c, found |-> FALSE,
                       todo |-> {f \in DOMAIN pending[c] : pending[c][f] # Abandoned},
                       match |-> {f \in DOMAIN pending[c] : InRing(f)}]
              /\ UNCHANGED pending
  <2>1. PICK c \in Cams :
              /\ w' = [at |-> "probe", cam |-> c, found |-> FALSE,
                       todo |-> {f \in DOMAIN pending[c] : pending[c][f] # Abandoned},
                       match |-> {f \in DOMAIN pending[c] : InRing(f)}]
              /\ UNCHANGED pending
    BY <1>5
  <2>2. DOMAIN pending[c] \subseteq Files
    BY DEF Inv, OfFiles, Typed
  <2>3. c \in Nat
    BY DEF Cams
  <2>4. /\ w' \in Watching /\ w'.at = "probe" /\ w'.cam = c /\ w'.found = FALSE
        /\ w'.todo \subseteq DOMAIN pending[c]
    BY <2>1, <2>2, <2>3 DEF Watching
  <2> QED
    BY <1>1, <1>2, <2>1, <2>4, MovesKeep
<1>6. \/ \E a \in {"compute", "refresh"} : w' = [Off EXCEPT !.at = a] /\ UNCHANGED pending
      \/ \E c \in Cams :
            \/ /\ pending' = [pending EXCEPT ![c] = [f \in DOMAIN @ |-> Tried(@[f])]]
               /\ w' = [w EXCEPT !.cam = c + 1]
            \/ /\ w' = [at |-> "probe", cam |-> c, found |-> FALSE,
                        todo |-> {f \in DOMAIN pending[c] : pending[c][f] # Abandoned},
                        match |-> {f \in DOMAIN pending[c] : InRing(f)}]
               /\ UNCHANGED pending
  <2> DEFINE S == {k \in Cams : k >= w.cam /\ DOMAIN pending[k] # {}} \cup {NCams + 1}
             c == Min(S)
  <2>1. S \in SUBSET Nat /\ S # {}
    BY CamsAssumption DEF Cams
  <2>2. c \in S
    <3> HIDE DEF S
    <3>1. \E x \in S : \A y \in S : x <= y
      BY <2>1, LeastOf
    <3> QED
      BY <3>1 DEF Min
  <2>3. c > NCams \/ c \in Cams
    BY <2>2, CamsAssumption
  <2> HIDE DEF c
  <2> QED
    BY <2>3 DEF AnchorCamera, c
<1> QED
  BY <1>3, <1>4, <1>5, <1>6

LEMMA AnchorsDoneInv == ASSUME Inv, AnchorsDone PROVE Inv'
<1>1. /\ w.at = "probe" /\ UNCHANGED <<segs, pending, disk, unclosed, world, ui, running>>
      /\ DOMAIN pending = Cams /\ w \in Watching
      /\ w' = IF ~running THEN [Off EXCEPT !.at = "compute"]
              ELSE [w EXCEPT !.at = IF w.found THEN "save" ELSE "anchor", !.cam = @ + 1,
                             !.match = {}, !.found = FALSE]
  BY DEF AnchorsDone, Rest, Inv, Typed, OfFiles
<1>2. CASE ~running
  <2>1. w' \in Watching /\ w'.at = "compute"
    BY <1>1, <1>2 DEF Watching, Off
  <2>2. ui.step = "join"
    BY <1>1, <1>2 DEF Inv, StopsWithUi
  <2> QED
    BY <1>1, <2>1, <2>2, MovesKeep
<1>3. CASE running
  <2> DEFINE a == IF w.found THEN "save" ELSE "anchor"
  <2>a. a \in {"save", "anchor"}
    OBVIOUS
  <2>b. w.cam + 1 \in Nat /\ w.todo \in SUBSET Files
    BY <1>1 DEF Watching
  <2>c. w' = [at |-> a, cam |-> w.cam + 1, todo |-> w.todo, match |-> {}, found |-> FALSE]
    BY <1>1, <1>3 DEF Watching
  <2>1. w' \in Watching /\ w'.at = a
    <3> HIDE DEF a
    <3> QED
      BY <2>a, <2>b, <2>c DEF Watching
  <2>2. ui.step # "join" /\ ~w.found => OnDisk
    BY <1>1 DEF Inv, WrittenDown
  <2>3. w.found \in BOOLEAN
    BY <1>1 DEF Watching
  <2>4. ui.step # "join" /\ w'.at # "save" => OnDisk
    BY <2>1, <2>2
  <2>5. w'.at # "probe"
    BY <2>1
  <2> QED
    BY <1>1, <2>1, <2>4, <2>5, MovesKeep
<1> QED
  BY <1>2, <1>3

LEMMA SaveInv == ASSUME Inv, SaveAnchors PROVE Inv'
<1>1. /\ w.at = "save" /\ Save /\ w' = [w EXCEPT !.at = "anchor"] /\ Typed
      /\ UNCHANGED <<segs, pending, unclosed, world, ui, running>>
  BY DEF SaveAnchors, Rest, Inv
<1>2. w' \in Watching /\ w'.at = "anchor"
  BY <1>1 DEF Typed, Watching
<1>3. Typed'
  BY <1>1, <1>2 DEF Typed, world
<1>4. OnDisk' /\ disk' \subseteq {[file |-> f, wall |-> From(f)] : f \in DOMAIN file}
  BY <1>1, SaveWrites
<1>5. OfFiles' /\ WrittenDown'
  BY <1>1, <1>4 DEF Inv, OfFiles, WrittenDown, world
<1>6. InOrder' /\ WaitsOnce' /\ LengthsKnown' /\ NewestIsOpen' /\ StopsWithUi'
  BY <1>1, <1>2
     DEF Inv, InOrder, WaitsOnce, LengthsKnown, NewestIsOpen, Closed, StopsWithUi, world
<1> QED
  BY <1>3, <1>5, <1>6 DEF Inv

LEMMA LeaveInv == ASSUME Inv, Leave PROVE Inv'
<1>1. /\ w.at = "scan" /\ w' = Off /\ UNCHANGED <<segs, pending, disk, unclosed, world, ui, running>>
      /\ DOMAIN pending = Cams
  BY DEF Leave, Rest, Inv, OfFiles
<1>2. w' \in Watching /\ w'.at = "off"
  BY <1>1 DEF Watching, Off
<1>3. ui.step # "join" => OnDisk
  BY <1>1 DEF Inv, WrittenDown
<1> QED
  BY <1>1, <1>2, <1>3, MovesKeep

LEMMA RecomputeInv == ASSUME Inv, Recompute PROVE Inv'
<1>1. /\ w.at = "compute" /\ segs' = [c \in Cams |-> Bounded(segs[c])]
      /\ w' = IF running THEN [Off EXCEPT !.at = "scan"] ELSE Off
      /\ UNCHANGED <<pending, disk, unclosed, world, ui, running>> /\ Typed
  BY DEF Recompute, Rest, Inv
<1>2. w' \in Watching /\ w'.at = IF running THEN "scan" ELSE "off"
  BY <1>1 DEF Watching, Off
<1>3. \A c \in Cams :
        /\ segs'[c] \in Seq(Places) /\ Len(segs'[c]) = Len(segs[c]) /\ DOMAIN segs'[c] = DOMAIN segs[c]
        /\ \A i \in DOMAIN segs[c] :
            /\ segs'[c][i].file = segs[c][i].file /\ segs'[c][i].wall = segs[c][i].wall
            /\ segs'[c][i].anchor = segs[c][i].anchor /\ segs'[c][i].len = segs[c][i].len
            /\ segs'[c][i].final = segs[c][i].final
        /\ Len(segs[c]) > 0 => segs'[c][Len(segs[c])].end = NoInstant
  BY <1>1, BoundedKeeps DEF Typed
<1>4. Typed'
  <2>1. segs' \in [Cams -> Seq(Places)]
    BY <1>1, <1>3
  <2> QED
    BY <1>1, <1>2, <2>1 DEF Typed, world
<1>5. OfFiles' /\ InOrder' /\ NewestIsOpen'
  BY <1>1, <1>3 DEF Inv, OfFiles, InOrder, NewestIsOpen, world
<1>6. WaitsOnce' /\ LengthsKnown' /\ StopsWithUi'
  <2>1. WaitsOnce'
    BY <1>1, <1>2, <1>3 DEF Inv, WaitsOnce
  <2>2. LengthsKnown'
    BY <1>1, <1>3 DEF Inv, LengthsKnown, Closed, world
  <2>3. StopsWithUi'
    BY <1>1, <1>2 DEF Inv, StopsWithUi
  <2> QED
    BY <2>1, <2>2, <2>3
<1>7. WrittenDown'
  <2>1. ui.step # "join" => OnDisk
    BY <1>1 DEF Inv, WrittenDown
  <2>2. \A c \in Cams : \A i \in DOMAIN segs[c] : Entry(segs'[c][i]) = Entry(segs[c][i])
    BY <1>3 DEF Entry
  <2>3. OnDisk => \A c \in Cams : \A i \in DOMAIN segs[c] : Entry(segs'[c][i]) \in disk
    BY <2>2 DEF OnDisk
  <2>4. OnDisk => OnDisk'
    <3>1. OnDisk' <=> \A c \in Cams : \A i \in DOMAIN segs'[c] : Entry(segs'[c][i]) \in disk'
      BY DEF OnDisk, Entry
    <3> QED
      BY <1>1, <1>3, <2>3, <3>1
  <2> QED
    BY <1>1, <2>1, <2>4 DEF WrittenDown
<1> QED
  BY <1>4, <1>5, <1>6, <1>7 DEF Inv

\* refreshDurations(): a file read while it was still being written is read again after
\* it was closed, and only then can the two lengths agree.
LEMMA RefreshDurationInv == ASSUME Inv, RefreshDuration PROVE Inv'
<1>1. /\ w.at = "refresh" /\ w' = [Off EXCEPT !.at = "compute"] /\ Typed
      /\ UNCHANGED <<pending, disk, world, ui, running>> /\ DOMAIN pending = Cams
      /\ running => \A f \in unclosed : file[f].state = "closed"
  BY DEF RefreshDuration, Rest, Inv, OfFiles
<1>2. w' \in Watching /\ w'.at = "compute"
  BY <1>1 DEF Watching, Off
<1>3. ui.step # "join" => OnDisk
  BY <1>1 DEF Inv, WrittenDown
<1>4. CASE UNCHANGED <<segs, unclosed>>
  BY <1>1, <1>2, <1>3, <1>4, MovesKeep
<1>5. CASE running /\ \E c \in Cams : \E i \in Candidates(c) :
            /\ segs' = [segs EXCEPT ![c][i] = IF Measured(segs[c][i].file) > 0
                                             THEN Settled(@, Measured(segs[c][i].file))
                                             ELSE Unanswered(@)]
            /\ unclosed' = {f \in {segs[c][i].file} : file[f].state # "closed"}
  <2>0. PICK c \in Cams : \E i \in Candidates(c) :
            /\ segs' = [segs EXCEPT ![c][i] = IF Measured(segs[c][i].file) > 0
                                             THEN Settled(@, Measured(segs[c][i].file))
                                             ELSE Unanswered(@)]
            /\ unclosed' = {f \in {segs[c][i].file} : file[f].state # "closed"}
    BY <1>5
  <2>1. PICK i \in Candidates(c) :
            /\ segs' = [segs EXCEPT ![c][i] = IF Measured(segs[c][i].file) > 0
                                             THEN Settled(@, Measured(segs[c][i].file))
                                             ELSE Unanswered(@)]
            /\ unclosed' = {f \in {segs[c][i].file} : file[f].state # "closed"}
    BY <2>0
  <2> DEFINE s == segs[c][i]
             n == Measured(s.file)
             z == IF n > 0 THEN Settled(s, n) ELSE Unanswered(s)
  <2>2. i \in DOMAIN segs[c] /\ segs[c] \in Seq(Places) /\ s \in Places /\ ~s.final
    BY <1>1, <2>1 DEF Candidates, Typed
  <2>3. /\ \A d \in Cams : d # c => segs'[d] = segs[d]
        /\ segs'[c] = [segs[c] EXCEPT ![i] = z] /\ DOMAIN segs'[c] = DOMAIN segs[c]
        /\ segs'[c][i] = z /\ \A j \in DOMAIN segs[c] : j # i => segs'[c][j] = segs[c][j]
    BY <1>1, <2>1, <2>2 DEF Typed
  <2>4. s.file \in DOMAIN file /\ file[s.file] \in Held1 /\ From(s.file) \in Int
    <3>1. s.file \in DOMAIN file
      BY <2>2 DEF Inv, OfFiles
    <3> QED
      BY <1>1, <3>1 DEF Typed, Files, From
  <2>5. n \in Int /\ (Closed(s.file) /\ n > 0 => n = file[s.file].to - From(s.file))
    BY <2>4 DEF Measured, Closed, Held1
  <2> HIDE DEF n
  <2>6. s.len \in Int /\ Max({s.len, n}) \in {s.len, n} /\ (n = s.len => Max({s.len, n}) = n)
    <3>1. s.len \in Int
      BY <2>2 DEF Places
    <3>2. \E x \in {s.len, n} : \A y \in {s.len, n} : x >= y
      BY <2>5, <3>1
    <3> QED
      BY <3>1, <3>2 DEF Max
  <2>7. /\ z \in Places /\ z.file = s.file /\ z.wall = s.wall /\ z.anchor = s.anchor /\ z.end = s.end
        /\ z.final => n > 0 /\ n = s.len /\ z.len = n
    <3>1. CASE n > 0
      <4>1. z = [s EXCEPT !.len = Max({s.len, n}), !.final = (n = s.len), !.probes = 0]
        BY <3>1 DEF Settled
      <4> DEFINE m == Max({s.len, n})
                 b == (n = s.len)
      <4>2. m \in Int /\ b \in BOOLEAN
        BY <2>5, <2>6
      <4> HIDE DEF m, z
      <4>3. z.file = s.file /\ z.wall = s.wall /\ z.anchor = s.anchor /\ z.end = s.end /\ z.len = m
            /\ z.final = b
        BY <2>2, <4>1 DEF Places, m
      <4>4. z \in Places
        <5> HIDE DEF b
        <5>1. z = [s EXCEPT !.len = m, !.final = b, !.probes = 0]
          BY <4>1 DEF m, b
        <5> QED
          BY <2>2, <4>2, <5>1 DEF Places
      <4> QED
        BY <2>6, <3>1, <4>3, <4>4 DEF m
    <3>2. CASE ~(n > 0)
      <4>1. z = [s EXCEPT !.probes = @ + 1]
        BY <3>2 DEF Unanswered
      <4> HIDE DEF s, z
      <4>0. s \in Places
        BY <2>2
      <4>2. s.probes + 1 \in Nat
        BY <4>0 DEF Places
      <4>3. z.file = s.file /\ z.wall = s.wall /\ z.anchor = s.anchor /\ z.end = s.end
            /\ z.final = s.final
        BY <2>2, <4>1 DEF Places
      <4>4. z \in Places
        BY <4>0, <4>1, <4>2 DEF Places
      <4> QED
        BY <2>2, <4>3, <4>4
    <3> QED
      BY <3>1, <3>2
  <2> HIDE DEF z
  <2>8. Typed'
    <3>1. segs'[c] \in Seq(Places)
      BY <2>2, <2>3, <2>7
    <3>2. segs' \in [Cams -> Seq(Places)]
      BY <1>1, <2>1, <2>3, <3>1 DEF Typed
    <3> QED
      BY <1>1, <1>2, <3>2 DEF Typed, world
  <2>9. \A d \in Cams : DOMAIN segs'[d] = DOMAIN segs[d] /\ Len(segs'[d]) = Len(segs[d])
    <3>1. \A d \in Cams : DOMAIN segs'[d] = DOMAIN segs[d]
      BY <2>3
    <3>2. \A d \in Cams : segs[d] \in Seq(Places) /\ segs'[d] \in Seq(Places)
      BY <1>1, <2>8 DEF Typed
    <3> QED
      BY <3>1, <3>2
  <2>10. \A d \in Cams : \A j \in DOMAIN segs[d] :
            /\ segs'[d][j].file = segs[d][j].file /\ segs'[d][j].wall = segs[d][j].wall
            /\ segs'[d][j].anchor = segs[d][j].anchor /\ segs'[d][j].end = segs[d][j].end
    BY <2>3, <2>7
  <2>11. OfFiles' /\ InOrder' /\ NewestIsOpen'
    <3>1. OfFiles'
      BY <1>1, <2>9, <2>10 DEF Inv, OfFiles, world
    <3>2. InOrder'
      BY <2>9, <2>10 DEF Inv, InOrder
    <3>3. NewestIsOpen'
      <4> SUFFICES ASSUME NEW d \in Cams, Len(segs'[d]) > 0 PROVE segs'[d][Len(segs'[d])].end = NoInstant
        BY DEF NewestIsOpen
      <4>1. Len(segs[d]) \in DOMAIN segs[d] /\ Len(segs[d]) > 0 /\ Len(segs'[d]) = Len(segs[d])
        BY <1>1, <2>9 DEF Typed
      <4> QED
        BY <2>10, <4>1 DEF Inv, NewestIsOpen
    <3> QED
      BY <3>1, <3>2, <3>3
  <2>12. WaitsOnce' /\ StopsWithUi'
    BY <1>1, <1>2, <2>9, <2>10 DEF Inv, WaitsOnce, StopsWithUi
  <2>13. WrittenDown'
    <3>1. \A d \in Cams : \A j \in DOMAIN segs[d] : Entry(segs'[d][j]) = Entry(segs[d][j])
      BY <2>10 DEF Entry
    <3>2. OnDisk' <=> \A d \in Cams : \A j \in DOMAIN segs'[d] : Entry(segs'[d][j]) \in disk'
      BY DEF OnDisk, Entry
    <3>3. OnDisk => OnDisk'
      BY <1>1, <2>9, <3>1, <3>2 DEF OnDisk
    <3> QED
      BY <1>1, <1>3, <3>3 DEF WrittenDown
  <2>14. LengthsKnown'
    <3>1. \A f \in unclosed : Closed(f) \/ f \notin DOMAIN file
      BY <1>1, <1>5 DEF Closed
    <3>2. \A d \in Cams : \A j \in DOMAIN segs[d] :
            /\ segs[d][j].len # 0 => Closed(segs[d][j].file)
            /\ segs[d][j].final => Closed(segs[d][j].file)
                                   /\ segs[d][j].len = file[segs[d][j].file].to - From(segs[d][j].file)
      BY <3>1 DEF Inv, LengthsKnown, OfFiles
    <3>3. Closed(z.file) \/ z.file \in unclosed'
      BY <2>1, <2>4, <2>7 DEF Closed
    <3>4. z.final => Closed(z.file) /\ z.len = file[z.file].to - From(z.file)
      BY <2>2, <2>5, <2>7, <3>2
    <3>5. \A d \in Cams : \A j \in DOMAIN segs'[d] :
            /\ segs'[d][j].len # 0 => Closed(segs'[d][j].file) \/ segs'[d][j].file \in unclosed'
            /\ segs'[d][j].final => Closed(segs'[d][j].file)
                    /\ segs'[d][j].len = file[segs'[d][j].file].to - From(segs'[d][j].file)
      BY <2>3, <2>9, <3>2, <3>3, <3>4
    <3> QED
      BY <1>1, <3>5 DEF LengthsKnown, Closed, world
  <2> QED
    BY <2>8, <2>11, <2>12, <2>13, <2>14 DEF Inv
<1>6. \/ UNCHANGED <<segs, unclosed>>
      \/ running /\ \E c \in Cams : \E i \in Candidates(c) :
            /\ segs' = [segs EXCEPT ![c][i] = IF Measured(segs[c][i].file) > 0
                                             THEN Settled(@, Measured(segs[c][i].file))
                                             ELSE Unanswered(@)]
            /\ unclosed' = {f \in {segs[c][i].file} : file[f].state # "closed"}
  <2> DEFINE W == {c \in Cams : Candidates(c) # {}}
  <2>1. CASE ~running \/ W = {}
    BY <2>1 DEF RefreshDuration
  <2>2. CASE running /\ W # {}
    <3>1. Min(W) \in W
      <4> HIDE DEF W
      <4>1. W \in SUBSET Nat
        BY DEF W, Cams
      <4>2. \E x \in W : \A y \in W : x <= y
        BY <2>2, <4>1, LeastOf
      <4> QED
        BY <4>2 DEF Min
    <3> DEFINE c == Min(W)
               I == Candidates(c)
    <3>2. c \in Cams /\ I # {}
      BY <3>1
    <3>3. I \in SUBSET Nat
      <4>1. segs[c] \in Seq(Places)
        BY <1>1, <3>2 DEF Typed
      <4>2. DOMAIN segs[c] \subseteq Nat
        <5> HIDE DEF c
        <5> QED
          BY <4>1
      <4> QED
        BY <4>2 DEF Candidates
    <3>4. Min(I) \in I
      <4> HIDE DEF I
      <4>1. \E x \in I : \A y \in I : x <= y
        BY <3>2, <3>3, LeastOf
      <4> QED
        BY <4>1 DEF Min
    <3>5. /\ segs' = [segs EXCEPT ![c][Min(I)] = IF Measured(segs[c][Min(I)].file) > 0
                                             THEN Settled(@, Measured(segs[c][Min(I)].file))
                                             ELSE Unanswered(@)]
          /\ unclosed' = {f \in {segs[c][Min(I)].file} : file[f].state # "closed"}
      BY <2>2 DEF RefreshDuration
    <3> HIDE DEF c
    <3> QED
      BY <2>2, <3>2, <3>4, <3>5
  <2> QED
    BY <2>1, <2>2
<1> QED
  BY <1>4, <1>5, <1>6

LEMMA AnchorFileInv == ASSUME Inv, AnchorFile PROVE Inv'
<1>1. /\ w.at = "probe" /\ running /\ UNCHANGED <<disk, unclosed, world, ui, running>>
      /\ Typed /\ DOMAIN pending = Cams /\ w \in Watching /\ w.cam \in Cams
      /\ w.todo \subseteq DOMAIN pending[w.cam] /\ ui.step # "join"
  BY DEF AnchorFile, Rest, Inv, Typed, OfFiles, WaitsOnce, StopsWithUi
<1>2. PICK f \in w.todo :
        \/ /\ \E k \in 0..Len(segs[w.cam]) :
                /\ Precedes(k, segs[w.cam], From(f) - epoch)
                /\ segs' = [segs EXCEPT ![w.cam] = InsertAt(@, k + 1, Placed(f))]
           /\ pending' = [pending EXCEPT ![w.cam] = [g \in DOMAIN @ \ {f} |-> @[g]]]
           /\ w' = [w EXCEPT !.todo = @ \ {f}, !.found = TRUE]
        \/ /\ pending' = [pending EXCEPT ![w.cam][f] = Tried(@)]
           /\ w' = [w EXCEPT !.todo = @ \ {f}]
           /\ UNCHANGED segs
  BY DEF AnchorFile
<1>3. f \in DOMAIN file /\ CamOf(f) = w.cam /\ f \in Files /\ From(f) \in Nat
      /\ \A i \in DOMAIN segs[w.cam] : segs[w.cam][i].file # f
  <2>1. f \in DOMAIN pending[w.cam]
    BY <1>1, <1>2
  <2>2. f \in DOMAIN file /\ CamOf(f) = w.cam /\ \A i \in DOMAIN segs[w.cam] : segs[w.cam][i].file # f
    BY <1>1, <2>1 DEF Inv, OfFiles, WaitsOnce
  <2> QED
    BY <1>1, <2>2 DEF Typed, Files, From
<1>4. CASE /\ pending' = [pending EXCEPT ![w.cam][f] = Tried(@)]
           /\ w' = [w EXCEPT !.todo = @ \ {f}]
           /\ UNCHANGED segs
  <2>1. w' \in Watching /\ w'.at = "probe" /\ w'.cam = w.cam /\ w'.todo \subseteq w.todo
        /\ w'.found = w.found
    BY <1>1, <1>4 DEF Watching
  <2>2. DOMAIN pending' = Cams /\ \A c \in Cams : DOMAIN pending'[c] = DOMAIN pending[c]
    BY <1>1, <1>4
  <2>3. ~w'.found => OnDisk
    BY <1>1, <2>1 DEF Inv, WrittenDown
  <2> QED
    BY <1>1, <1>4, <2>1, <2>2, <2>3, MovesKeep
<1>5. CASE /\ \E k \in 0..Len(segs[w.cam]) :
                /\ Precedes(k, segs[w.cam], From(f) - epoch)
                /\ segs' = [segs EXCEPT ![w.cam] = InsertAt(@, k + 1, Placed(f))]
           /\ pending' = [pending EXCEPT ![w.cam] = [g \in DOMAIN @ \ {f} |-> @[g]]]
           /\ w' = [w EXCEPT !.todo = @ \ {f}, !.found = TRUE]
  <2>1. PICK k \in 0..Len(segs[w.cam]) :
            /\ Precedes(k, segs[w.cam], From(f) - epoch)
            /\ segs' = [segs EXCEPT ![w.cam] = InsertAt(@, k + 1, Placed(f))]
    BY <1>5
  <2> DEFINE c == w.cam
             q == segs[c]
             p == Placed(f)
             r == segs'[c]
  <2>2. q \in Seq(Places) /\ p \in Places /\ Len(q) \in Nat /\ DOMAIN q = 1..Len(q)
    <3>1. p \in Places
      BY <1>1, <1>3 DEF Placed, Places, Typed
    <3> QED
      BY <1>1, <3>1 DEF Typed
  <2>3. p.file = f /\ p.wall = From(f) /\ p.anchor = From(f) - epoch /\ p.end = NoInstant
        /\ p.len = 0 /\ p.final = FALSE
    BY DEF Placed
  <2>4. r = InsertAt(q, k + 1, p)
    BY <1>1, <2>1 DEF Typed
  <2>5. /\ r \in Seq(Places) /\ Len(r) = Len(q) + 1 /\ DOMAIN r = 1..(Len(q) + 1)
        /\ \A j \in 1..(Len(q) + 1) : r[j] = IF j <= k THEN q[j] ELSE IF j = k + 1 THEN p ELSE q[j - 1]
    <3> HIDE DEF q, p, r
    <3>1. k \in 0..Len(q)
      BY <2>1 DEF q
    <3>2. q \in Seq(Places) /\ p \in Places
      BY <2>2
    <3> DEFINE x == InsertAt(q, k + 1, p)
    <3> HIDE DEF c
    <3>a. x \in Seq(Places)
      BY <3>1, <3>2, InsertedAt
    <3>b. Len(x) = Len(q) + 1
      BY <3>1, <3>2, InsertedAt
    <3>3. \A j \in 1..(Len(q) + 1) : x[j] = IF j <= k THEN q[j] ELSE IF j = k + 1 THEN p ELSE q[j - 1]
      BY <3>1, <3>2, InsertedAt
    <3>4. r = x
      BY <2>4
    <3> HIDE DEF x
    <3> QED
      BY <2>2, <3>a, <3>b, <3>3, <3>4
  <2>6. \A i \in 1..Len(q) : IF i <= k THEN q[i].anchor < p.anchor ELSE q[i].anchor >= p.anchor
    BY <2>1, <2>2, <2>3 DEF Precedes
  <2>7. \A d \in Cams : d # c => segs'[d] = segs[d] /\ pending'[d] = pending[d]
    BY <1>1, <1>5, <2>1 DEF Typed
  <2>8. DOMAIN pending' = Cams /\ DOMAIN pending'[c] = DOMAIN pending[c] \ {f}
    BY <1>1, <1>5
  <2>9. w' \in Watching /\ w'.at = "probe" /\ w'.cam = c /\ w'.todo = w.todo \ {f} /\ w'.found = TRUE
    BY <1>1, <1>5 DEF Watching
  <2>10. Typed'
    <3>1. segs' \in [Cams -> Seq(Places)]
      BY <1>1, <2>1, <2>4, <2>5 DEF Typed
    <3> QED
      BY <1>1, <2>9, <3>1 DEF Typed, world
  <2> HIDE DEF q, p, r
  <2>11. c \in Cams /\ k \in Nat /\ k <= Len(q)
    BY <1>1, <2>1, <2>2 DEF q
  <2>q. q = segs[c] /\ r = segs'[c]
    BY DEF q, r
  <2> HIDE DEF c
  <2>12. \A j \in DOMAIN r : (j = k + 1 /\ r[j] = p)
                            \/ (j <= k /\ j \in DOMAIN q /\ r[j] = q[j])
                            \/ (j > k + 1 /\ j - 1 \in DOMAIN q /\ r[j] = q[j - 1])
    BY <2>2, <2>5, <2>11
  <2>13. \A j \in DOMAIN r : r[j] = p \/ \E i \in DOMAIN q : r[j] = q[i]
    BY <2>12
  <2>14. OfFiles'
    <3>1. \A i \in DOMAIN r : r[i].file \in DOMAIN file /\ CamOf(r[i].file) = c
                /\ r[i].wall = From(r[i].file) /\ r[i].anchor = From(r[i].file) - epoch
      <4>1. \A i \in DOMAIN q : q[i].file \in DOMAIN file /\ CamOf(q[i].file) = c
                /\ q[i].wall = From(q[i].file) /\ q[i].anchor = From(q[i].file) - epoch
        BY <2>11, <2>q DEF Inv, OfFiles
      <4> QED
        BY <1>3, <2>3, <2>13, <4>1 DEF c
    <3>2. \A d \in Cams : \A i \in DOMAIN segs'[d] :
             segs'[d][i].file \in DOMAIN file /\ CamOf(segs'[d][i].file) = d
             /\ segs'[d][i].wall = From(segs'[d][i].file)
             /\ segs'[d][i].anchor = From(segs'[d][i].file) - epoch
      BY <2>7, <2>q, <3>1 DEF Inv, OfFiles
    <3>3. \A d \in Cams : \A g \in DOMAIN pending'[d] : g \in DOMAIN file /\ CamOf(g) = d
      BY <2>7, <2>8 DEF Inv, OfFiles
    <3> QED
      BY <1>1, <2>8, <3>2, <3>3 DEF Inv, OfFiles, world
  <2>15. \A i \in DOMAIN q : q[i].anchor # p.anchor /\ q[i].anchor \in Int /\ p.anchor \in Int
    <3> SUFFICES ASSUME NEW i \in DOMAIN q
                 PROVE  q[i].anchor # p.anchor /\ q[i].anchor \in Int /\ p.anchor \in Int
      OBVIOUS
    <3>1. q[i].file \in Files /\ CamOf(q[i].file) = c /\ q[i].anchor = From(q[i].file) - epoch
          /\ q[i].file # f
      BY <1>1, <1>3, <2>11, <2>q DEF Inv, OfFiles, Typed, c
    <3>2. q[i].file = <<CamOf(q[i].file), From(q[i].file)>> /\ f = <<CamOf(f), From(f)>>
          /\ From(q[i].file) \in Int /\ From(f) \in Int /\ epoch \in Int
      BY <1>1, <1>3, <3>1 DEF Files, CamOf, From, Typed
    <3>3. From(q[i].file) # From(f)
      BY <1>3, <3>1, <3>2 DEF c
    <3> QED
      BY <2>3, <3>1, <3>2, <3>3
  <2>16. InOrder'
    <3>1. \A i, j \in DOMAIN q : i < j => q[i].anchor < q[j].anchor
      BY <2>11, <2>q DEF Inv, InOrder
    <3>2. \A i \in DOMAIN q : (i <= k => q[i].anchor < p.anchor) /\ (i > k => p.anchor < q[i].anchor)
      BY <2>2, <2>6, <2>11, <2>15
    <3>3. \A i, j \in DOMAIN r : i < j => r[i].anchor < r[j].anchor
      <4> SUFFICES ASSUME NEW i \in DOMAIN r, NEW j \in DOMAIN r, i < j
                   PROVE  r[i].anchor < r[j].anchor
        OBVIOUS
      <4>1. i \in Nat /\ j \in Nat
        BY <2>5
      <4>2. CASE i <= k
        <5>1. i \in DOMAIN q /\ r[i] = q[i]
          BY <2>11, <2>12, <4>1, <4>2
        <5> QED
          BY <2>11, <2>12, <2>15, <3>1, <3>2, <4>1, <4>2, <5>1
      <4>3. CASE i = k + 1
        <5>1. r[i] = p
          BY <2>11, <2>12, <4>3
        <5>2. j > k + 1 /\ j - 1 > k
          BY <2>11, <4>1, <4>3
        <5>3. j - 1 \in DOMAIN q /\ r[j] = q[j - 1]
          BY <2>11, <2>12, <4>1, <5>2
        <5> QED
          BY <3>2, <5>1, <5>2, <5>3
      <4>4. CASE i > k + 1
        <5>1. i - 1 \in DOMAIN q /\ r[i] = q[i - 1] /\ j - 1 \in DOMAIN q /\ r[j] = q[j - 1]
              /\ i - 1 < j - 1
          BY <2>11, <2>12, <4>1, <4>4
        <5> QED
          BY <3>1, <5>1
      <4> QED
        BY <2>11, <4>1, <4>2, <4>3, <4>4
    <3> QED
      BY <2>7, <2>q, <3>3 DEF Inv, InOrder
  <2>17. WaitsOnce'
    <3>1. \A d \in Cams : \A g \in DOMAIN pending'[d] : \A i \in DOMAIN segs'[d] : segs'[d][i].file # g
      <4>1. \A g \in DOMAIN pending'[c] : \A i \in DOMAIN r : r[i].file # g
        BY <2>3, <2>8, <2>11, <2>13, <2>q DEF Inv, WaitsOnce
      <4> QED
        BY <2>7, <2>q, <4>1 DEF Inv, WaitsOnce
    <3>2. w'.cam \in Cams /\ w'.todo \subseteq DOMAIN pending'[w'.cam]
      BY <1>1, <2>8, <2>9, <2>11 DEF c
    <3> QED
      BY <3>1, <3>2 DEF WaitsOnce
  <2>18. StopsWithUi' /\ WrittenDown'
    BY <1>1, <2>9 DEF StopsWithUi, WrittenDown
  <2>19. LengthsKnown'
    <3>1. \A i \in DOMAIN r :
            /\ r[i].len # 0 => Closed(r[i].file) \/ r[i].file \in unclosed
            /\ r[i].final => Closed(r[i].file) /\ r[i].len = file[r[i].file].to - From(r[i].file)
      BY <2>3, <2>11, <2>13, <2>q DEF Inv, LengthsKnown
    <3>2. \A d \in Cams : \A i \in DOMAIN segs'[d] :
            /\ segs'[d][i].len # 0 => Closed(segs'[d][i].file) \/ segs'[d][i].file \in unclosed
            /\ segs'[d][i].final => Closed(segs'[d][i].file)
                                    /\ segs'[d][i].len = file[segs'[d][i].file].to - From(segs'[d][i].file)
      BY <2>7, <2>q, <3>1 DEF Inv, LengthsKnown
    <3> QED
      BY <1>1, <3>2 DEF LengthsKnown, Closed, world
  <2>20. NewestIsOpen'
    <3>1. r[Len(r)].end = NoInstant
      <4>1. Len(r) \in DOMAIN r /\ Len(r) - 1 = Len(q)
        BY <2>2, <2>5
      <4>2. Len(q) > 0 => q[Len(q)].end = NoInstant
        BY <2>11, <2>q DEF Inv, NewestIsOpen
      <4> QED
        BY <2>2, <2>3, <2>5, <2>11, <4>1, <4>2
    <3> QED
      BY <2>7, <2>q, <3>1 DEF Inv, NewestIsOpen
  <2> QED
    BY <2>10, <2>14, <2>16, <2>17, <2>18, <2>19, <2>20 DEF Inv
<1> QED
  BY <1>2, <1>4, <1>5

-----------------------------------------------------------------------------
(* The theorems.                                                           *)

LEMMA StepInv == Inv /\ [Next]_vars => Inv'
<1> SUFFICES ASSUME Inv, [Next]_vars PROVE Inv'
  OBVIOUS
<1>1. CASE Recorder
  BY <1>1, RecorderInv
<1>2. CASE PressRec \/ PressStop \/ Reopen \/ FiltersOff
  BY <1>2, PressInv
<1>3. CASE ClearRunning \/ JoinWatcher \/ Load
  BY <1>3, ClearInv, JoinInv, LoadInv
<1>4. CASE Watcher
  BY <1>4, ScanInv, AnchorCameraInv, AnchorFileInv, AnchorsDoneInv, SaveInv, RefreshDurationInv,
     RecomputeInv, LeaveInv DEF Watcher
<1>5. CASE Crash
  BY <1>5, CrashInv
<1>6. CASE UNCHANGED vars
  <2>1. UNCHANGED <<world, disk, ui, running, index, w, unclosed>>
    BY <1>6 DEF vars
  <2>2. Typed'
    BY <2>1 DEF Inv, Typed, world, index
  <2>3. Grows
    BY <2>1 DEF Grows, world
  <2> QED
    BY <2>1, <2>2, <2>3, WorldKeeps DEF world, index
<1> QED
  BY <1>1, <1>2, <1>3, <1>4, <1>5, <1>6 DEF Next, UiSteps

LEMMA Always == Spec => []Inv
<1>1. Init => Inv
  BY InitInv
<1>2. Inv /\ [Next]_vars => Inv'
  BY StepInv
<1> QED
  BY <1>1, <1>2, PTL DEF Spec

\* Every anchor is where its file was recorded on the clock of this process, and no two
\* files of a camera share one (tryAnchorPending, load, std::sort).
THEOREM AlwaysPlacedTruly == Spec => []PlacedTruly
<1>1. Inv => PlacedTruly
  BY DEF Inv, OfFiles, InOrder, PlacedTruly
<1> QED
  BY <1>1, Always, PTL

\* Outside the pass that places files, and outside stop(), every place is in anchors.json
\* (save() after each camera, and again in stop()).
THEOREM AlwaysOnDisk == Spec => []AnchoredIsOnDisk
<1>1. Inv => AnchoredIsOnDisk
  <2> SUFFICES ASSUME Inv, w.at \notin {"probe", "save"}, ui.step # "join",
                      NEW c \in Cams, NEW s \in ToSet(segs[c])
               PROVE  Entry(s) \in disk
    BY DEF AnchoredIsOnDisk
  <2>1. OnDisk
    BY DEF Inv, WrittenDown
  <2>2. PICK i \in DOMAIN segs[c] : s = segs[c][i]
    BY DEF ToSet
  <2> QED
    BY <2>1, <2>2 DEF OnDisk
<1> QED
  BY <1>1, Always, PTL

\* A final length is the file's own: two reads that agree agree on a closed file
\* (refreshDurations).
THEOREM AlwaysFinalIsTrue == Spec => []FinalIsTrue
<1>1. Inv => FinalIsTrue
  <2> SUFFICES ASSUME Inv, NEW c \in Cams, NEW s \in ToSet(segs[c]), s.final
               PROVE  s.len = file[s.file].to - From(s.file)
    BY DEF FinalIsTrue
  <2>1. PICK i \in DOMAIN segs[c] : s = segs[c][i]
    BY DEF ToSet
  <2> QED
    BY <2>1 DEF Inv, LengthsKnown
<1> QED
  BY <1>1, Always, PTL

\* What a measured file, or the next file's anchor, says a file covers is in the file.
LEMMA CoveredIsFilmed ==
    ASSUME Inv, NEW c \in Cams, \A i \in 1..(Len(segs[c]) - 1) : segs[c][i].final,
           NEW k \in DOMAIN segs[c], CoveredEnd(segs[c][k]) # NoInstant
    PROVE  /\ CoveredEnd(segs[c][k]) \in Int
           /\ CoveredEnd(segs[c][k]) <= file[segs[c][k].file].to - epoch
<1> DEFINE s == segs[c][k]
<1>1. segs[c] \in Seq(Places) /\ s \in Places /\ Typed
  BY DEF Inv, Typed
<1>2. s.file \in DOMAIN file /\ s.anchor = From(s.file) - epoch
  BY DEF Inv, OfFiles
<1>3. From(s.file) \in Int /\ epoch \in Int /\ file[s.file].to \in Int
  BY <1>1, <1>2 DEF Typed, Files, From, Held1
<1>4. CASE s.final
  <2>1. s.len = file[s.file].to - From(s.file)
    BY <1>4 DEF Inv, LengthsKnown
  <2>2. s.anchor + s.len \in Int /\ s.anchor + s.len = file[s.file].to - epoch
    BY <1>2, <1>3, <2>1
  <2>3. s.anchor + s.len # NoInstant
    BY <2>2, InstantAssumption
  <2>4. CoveredEnd(s) = IF s.end = NoInstant THEN s.anchor + s.len ELSE Min({s.anchor + s.len, s.end})
    BY <1>4, <2>3 DEF CoveredEnd
  <2>5. CASE s.end = NoInstant
    BY <1>3, <2>2, <2>4, <2>5
  <2>6. CASE s.end # NoInstant
    <3> DEFINE a == s.anchor + s.len
               b == s.end
    <3>1. a \in Int /\ b \in Int /\ a = file[s.file].to - epoch
      BY <1>1, <2>2, <2>6 DEF Places
    <3> HIDE DEF a, b
    <3>2. \E x \in {a, b} : \A y \in {a, b} : x <= y
      BY <3>1
    <3>3. Min({a, b}) \in {a, b} /\ Min({a, b}) <= a
      BY <3>2 DEF Min
    <3>4. CoveredEnd(s) = Min({a, b})
      BY <2>4, <2>6 DEF a, b
    <3> QED
      BY <3>1, <3>3, <3>4
  <2> QED
    BY <2>5, <2>6
<1>5. CASE ~s.final
  <2>1. k = Len(segs[c]) /\ Len(segs[c]) > 0
    BY <1>1, <1>5
  <2>2. s.end = NoInstant
    BY <2>1 DEF Inv, NewestIsOpen
  <2>3. CoveredEnd(s) = NoInstant
    BY <1>5, <2>2 DEF CoveredEnd
  <2> QED
    BY <2>3
<1> QED
  BY <1>4, <1>5

\* A range is served only when every instant of it was recorded (readRange): at the first
\* file that begins after an instant, the file before it that the code joins it to covers
\* the instant.
THEOREM AlwaysServedIsWhole == Spec => []ServedIsWhole
<1>1. Inv => ServedIsWhole
  <2> SUFFICES ASSUME Inv, NEW c \in Cams, \A k \in 1..(Len(segs[c]) - 1) : segs[c][k].final,
                      NEW r \in Ranges, Serves(c, r[1], r[2]), NEW t \in r[1]..r[2],
                      t \notin Footage(c)
               PROVE  FALSE
    BY DEF ServedIsWhole
  <2> DEFINE i == r[1]
             o == r[2]
             q == segs[c]
             Over == {k \in DOMAIN q : Overlaps(q[k], i, o)}
             Ended(k) == {j \in Over : j < k /\ CoveredEnd(q[j]) # NoInstant}
  <2>1. i \in Int /\ o \in Int /\ t \in Int /\ i <= t /\ t <= o
    BY DEF Ranges
  <2>2. q \in Seq(Places) /\ DOMAIN q = 1..Len(q) /\ Len(q) \in Nat /\ Typed
    BY DEF Inv, Typed
  <2>3. \A k \in DOMAIN q : /\ q[k].anchor \in Int /\ file[q[k].file].to \in Int /\ epoch \in Int
                            /\ q[k].file \in DOMAIN file /\ CamOf(q[k].file) = c
                            /\ q[k].anchor = From(q[k].file) - epoch /\ From(q[k].file) \in Int
    <3> SUFFICES ASSUME NEW k \in DOMAIN q
                 PROVE  /\ q[k].anchor \in Int /\ file[q[k].file].to \in Int /\ epoch \in Int
                        /\ q[k].file \in DOMAIN file /\ CamOf(q[k].file) = c
                        /\ q[k].anchor = From(q[k].file) - epoch /\ From(q[k].file) \in Int
      OBVIOUS
    <3>1. q[k].file \in DOMAIN file /\ CamOf(q[k].file) = c /\ q[k].anchor = From(q[k].file) - epoch
      BY DEF Inv, OfFiles
    <3>2. q[k] \in Places /\ file[q[k].file] \in Held1 /\ q[k].file \in Files /\ epoch \in Int
      BY <2>2, <3>1 DEF Typed
    <3>3. q[k].anchor \in Int /\ file[q[k].file].to \in Int
      BY <3>2 DEF Places, Held1
    <3>4. From(q[k].file) \in Int
      BY <3>2 DEF Files, From
    <3> QED
      BY <3>1, <3>2, <3>3, <3>4
  <2>4. \A k \in DOMAIN q : q[k].anchor <= t => ~(t < file[q[k].file].to - epoch)
    <3> SUFFICES ASSUME NEW k \in DOMAIN q, q[k].anchor <= t, t < file[q[k].file].to - epoch
                 PROVE  FALSE
      OBVIOUS
    <3> DEFINE f == q[k].file
               u == t + epoch
    <3>1. f \in DOMAIN file /\ CamOf(f) = c
      BY <2>3
    <3>2. From(f) <= u /\ u <= file[f].to - 1 /\ u \in Int /\ t = u - epoch
      <4>1. /\ q[k].anchor \in Int /\ file[f].to \in Int /\ epoch \in Int /\ From(f) \in Int
            /\ q[k].anchor = From(f) - epoch
        BY <2>3
      <4> HIDE DEF f, q
      <4>2. t \in Int /\ t < file[f].to - epoch /\ q[k].anchor <= t
        BY <2>1 DEF f
      <4> QED
        BY <4>1, <4>2
    <3>3. u \in From(f)..(file[f].to - 1)
      BY <2>3, <3>2
    <3> QED
      BY <3>1, <3>2, <3>3 DEF Footage
  <2>5. \A k \in DOMAIN q : CoveredEnd(q[k]) # NoInstant =>
            CoveredEnd(q[k]) \in Int /\ CoveredEnd(q[k]) <= file[q[k].file].to - epoch
    BY CoveredIsFilmed
  <2>6. \A k \in Over : q[k].anchor <= i
                        \/ (Ended(k) # {} /\ q[k].anchor <= CoveredEnd(q[Max(Ended(k))]))
    BY DEF Serves
  <2>7. \E k \in Over : ((file[q[k].file].to - epoch) - 1 > o
                        \/ (CoveredEnd(q[k]) # NoInstant /\ CoveredEnd(q[k]) > o))
    BY DEF Serves
  <2>8. \A k \in Over : Ended(k) # {} => Max(Ended(k)) \in Ended(k)
    <3> SUFFICES ASSUME NEW k \in Over, Ended(k) # {} PROVE Max(Ended(k)) \in Ended(k)
      OBVIOUS
    <3> DEFINE E == Ended(k)
    <3>1. E \in SUBSET (1..Len(q))
      BY <2>2
    <3> HIDE DEF E
    <3>2. E # {} /\ Len(q) \in Nat
      BY <2>2 DEF E
    <3>3. Max(E) \in E
      BY <3>1, <3>2, GreatestOf
    <3> QED
      BY <3>3 DEF E
  <2>9. \A k \in Over : \A j \in Ended(k) : j \in Over /\ j < k /\ CoveredEnd(q[j]) # NoInstant
    OBVIOUS
  <2>10. Over \subseteq DOMAIN q /\ Over \subseteq Nat
    BY <2>2
  <2> HIDE DEF Over, Ended, i, o, q
  <2> DEFINE Bad == {k \in Over : q[k].anchor > t}
  <2>11. CASE Bad # {}
    <3>1. PICK k \in Bad : \A j \in Bad : k <= j
      <4>1. Bad \in SUBSET Nat
        BY <2>10
      <4> HIDE DEF Bad
      <4> QED
        BY <2>11, <4>1, LeastOf
    <3> DEFINE j == Max(Ended(k))
    <3>2. k \in DOMAIN q /\ ~(q[k].anchor <= i)
      BY <2>1, <2>3, <2>10, <3>1
    <3>3. j \in Ended(k) /\ q[k].anchor <= CoveredEnd(q[j])
      BY <2>6, <2>8, <3>1, <3>2
    <3> HIDE DEF j
    <3>4. j \in DOMAIN q /\ j < k /\ CoveredEnd(q[j]) # NoInstant /\ ~(q[j].anchor > t) /\ j \in Nat
          /\ k \in Nat
      BY <2>9, <2>10, <3>1, <3>3
    <3>5. q[j].anchor <= t
      BY <2>1, <2>3, <3>4
    <3>6. t < q[k].anchor /\ q[k].anchor \in Int
      BY <2>1, <2>3, <3>1, <3>2
    <3>7. CoveredEnd(q[j]) \in Int /\ CoveredEnd(q[j]) <= file[q[j].file].to - epoch
          /\ file[q[j].file].to - epoch \in Int
      BY <2>3, <2>5, <3>4
    <3>8. t < file[q[j].file].to - epoch
      BY <2>1, <3>3, <3>6, <3>7
    <3> QED
      BY <2>4, <3>4, <3>5, <3>8
  <2>12. CASE Bad = {}
    <3>1. PICK k \in Over : ((file[q[k].file].to - epoch) - 1 > o
                        \/ (CoveredEnd(q[k]) # NoInstant /\ CoveredEnd(q[k]) > o))
      BY <2>7
    <3>2. k \in DOMAIN q /\ q[k].anchor <= t
      BY <2>1, <2>3, <2>10, <2>12
    <3>3. t < file[q[k].file].to - epoch
      BY <2>1, <2>3, <2>5, <3>1, <3>2
    <3> QED
      BY <2>4, <3>2, <3>3
  <2> QED
    BY <2>11, <2>12
<1> QED
  BY <1>1, Always, PTL

=============================================================================
