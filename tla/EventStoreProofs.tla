-------------------------- MODULE EventStoreProofs --------------------------
(***************************************************************************)
(* The safety properties of EventStore, and what of its liveness is        *)
(* safety, proved for any folders, lists, instants and any number of       *)
(* edits, changes of project and faults.                                   *)
(***************************************************************************)
EXTENDS EventStore, FiniteSetTheorems, SequenceTheorems, WellFoundedInduction, TLAPS

-----------------------------------------------------------------------------
(* The greatest of a few numbers.                                          *)

\* A finite set of integers that has no greatest element would have a smallest subset
\* that has none.
LEMMA Greatest ==
    ASSUME NEW S \in SUBSET Int, IsFiniteSet(S), S # {}
    PROVE  Max(S) \in S /\ \A y \in S : Max(S) >= y
<1> DEFINE Bad == {T \in FiniteSubsetsOf(S) : T # {} /\ ~\E x \in T : \A y \in T : x >= y}
<1>1. CASE Bad # {}
  <2>1. Bad \subseteq FiniteSubsetsOf(S)
    OBVIOUS
  <2>2. IsWellFoundedOn(StrictSubsetOrdering(S), FiniteSubsetsOf(S))
    BY FS_StrictSubsetOrderingWellFounded
  <2>3. PICK T \in Bad : \A U \in Bad : ~(<<U, T>> \in StrictSubsetOrdering(S))
    <3> HIDE DEF Bad
    <3> QED
      BY <1>1, <2>1, <2>2, WFMin
  <2>4. T \in SUBSET S /\ IsFiniteSet(T) /\ T # {}
    BY DEF FiniteSubsetsOf
  <2>5. PICK t \in T : TRUE
    BY <2>4
  <2> DEFINE U == T \ {t}
  <2>6. U \in SUBSET S /\ IsFiniteSet(U) /\ U # T
    BY <2>4, <2>5, FS_RemoveElement
  <2>7. <<U, T>> \in StrictSubsetOrdering(S)
    BY <2>4, <2>6 DEF StrictSubsetOrdering
  <2>8. U = {} \/ \E x \in U : \A y \in U : x >= y
    BY <2>3, <2>6, <2>7 DEF FiniteSubsetsOf
  <2>9. \E x \in T : \A y \in T : x >= y
    <3>1. CASE U = {}
      BY <3>1, <2>4, <2>5
    <3>2. CASE \E x \in U : \A y \in U : x >= y
      <4>1. PICK x \in U : \A y \in U : x >= y
        BY <3>2
      <4>2. x \in Int /\ t \in Int
        BY <2>4, <2>5
      <4>3. CASE x >= t
        BY <4>1, <4>3
      <4>4. CASE t >= x
        <5>1. \A y \in U : y \in Int /\ t >= y
          BY <2>6, <4>1, <4>2, <4>4
        <5> QED
          BY <4>2, <5>1
      <4> QED
        BY <4>2, <4>3, <4>4
    <3> QED
      BY <2>8, <3>1, <3>2
  <2> QED
    BY <2>9
<1>2. CASE Bad = {}
  <2>1. S \in FiniteSubsetsOf(S)
    BY DEF FiniteSubsetsOf
  <2>2. \E x \in S : \A y \in S : x >= y
    BY <1>2, <2>1
  <2> QED
    BY <2>2 DEF Max
<1> QED
  BY <1>1, <1>2

LEMMA GreaterOf ==
    ASSUME NEW a \in Int, NEW b \in Int
    PROVE  Max({a, b}) \in Int /\ Max({a, b}) >= a /\ Max({a, b}) >= b
<1>1. \E x \in {a, b} : \A y \in {a, b} : x >= y
  OBVIOUS
<1>2. Max({a, b}) \in {a, b} /\ \A y \in {a, b} : Max({a, b}) >= y
  BY <1>1 DEF Max
<1> QED
  BY <1>2

LEMMA LesserOf ==
    ASSUME NEW a \in Int, NEW b \in Int
    PROVE  Min({a, b}) \in Int /\ Min({a, b}) <= a /\ Min({a, b}) <= b
<1>1. \E x \in {a, b} : \A y \in {a, b} : x =< y
  OBVIOUS
<1>2. Min({a, b}) \in {a, b} /\ \A y \in {a, b} : Min({a, b}) =< y
  BY <1>1 DEF Min
<1> QED
  BY <1>2

-----------------------------------------------------------------------------
(* What the lists keep.                                                    *)

Names == Lists \cup {Min(Lists)}
Homes == Folders \cup {NoFolder}

Event == [id : Int, list : Names, order : Nat, in : Int, out : Int, tag : Int,
          home : Homes, wall : Int]

\* All but the places: what a file keeps, holes and all.
Sound(evs, next, where) ==
    /\ evs \in Seq(Event) /\ next \in Int
    /\ \A i, j \in DOMAIN evs : i # j => evs[i].id # evs[j].id
    /\ \A i \in DOMAIN evs :
        /\ evs[i].id < next
        /\ evs[i].out = NoInstant \/ evs[i].in < evs[i].out
        /\ evs[i].in + epoch = evs[i].wall
        /\ evs[i].home = where

Places(evs) ==
    \A i, j \in DOMAIN evs : i # j /\ evs[i].list = evs[j].list => evs[i].order # evs[j].order

Proper(evs, next, where) == Sound(evs, next, where) /\ Places(evs)

\* An event that may stand at a place of its own.
Fits(e, next, where) ==
    /\ e \in Event /\ e.id < next
    /\ e.out = NoInstant \/ e.in < e.out
    /\ e.in + epoch = e.wall
    /\ e.home = where

LEMMA Elements ==
    ASSUME NEW evs \in Seq(Event)
    PROVE  /\ DOMAIN evs = 1..Len(evs) /\ Len(evs) \in Nat
           /\ \A i \in DOMAIN evs :
                evs[i] \in Event /\ evs[i].order \in Nat /\ evs[i].id \in Int
<1>1. DOMAIN evs = 1..Len(evs) /\ Len(evs) \in Nat /\ \A i \in DOMAIN evs : evs[i] \in Event
  BY ElementOfSeq
<1>2. \A e \in Event : e.order \in Nat /\ e.id \in Int
  BY DEF Event
<1> QED
  BY <1>1, <1>2

LEMMA EndOfList ==
    ASSUME NEW evs \in Seq(Event), NEW l
    PROVE  /\ NextOrderFor(evs, l) \in Nat
           /\ \A i \in DOMAIN evs : evs[i].list = l => evs[i].order < NextOrderFor(evs, l)
<1> DEFINE S == {evs[i].order + 1 : i \in InList(evs, l)}
           T == {0} \cup S
<1>1. DOMAIN evs = 1..Len(evs) /\ Len(evs) \in Nat
      /\ \A i \in DOMAIN evs : evs[i].order \in Nat
  BY Elements
<1>2. IsFiniteSet(InList(evs, l))
  <2>1. IsFiniteSet(1..Len(evs))
    BY <1>1, FS_Interval
  <2> QED
    BY <1>1, <2>1, FS_Subset DEF InList
<1>3. IsFiniteSet(T)
  <2> DEFINE f == [i \in InList(evs, l) |-> evs[i].order + 1]
  <2>1. f \in Surjection(InList(evs, l), S)
    BY DEF Surjection
  <2>2. IsFiniteSet(S)
    <3> HIDE DEF f, S
    <3> QED
      BY <1>2, <2>1, FS_Surjection
  <2> QED
    BY <2>2, FS_Singleton, FS_Union
<1>4. \A i \in InList(evs, l) : evs[i].order \in Nat
  BY <1>1 DEF InList
<1>5. T \in SUBSET Nat /\ T # {}
  BY <1>4
<1>6. Max(T) \in T /\ \A y \in T : Max(T) >= y
  <2> HIDE DEF T
  <2> QED
    BY <1>3, <1>5, Greatest
<1>7. NextOrderFor(evs, l) = Max(T)
  BY DEF NextOrderFor
<1>8. \A i \in InList(evs, l) : evs[i].order + 1 \in T
  OBVIOUS
<1>9. Max(T) \in Nat
  BY <1>5, <1>6
<1> HIDE DEF T
<1> QED
  BY <1>4, <1>6, <1>7, <1>8, <1>9 DEF InList

LEMMA LastOpen ==
    ASSUME events \in Seq(Event), OpenOnes # {}
    PROVE  Max(OpenOnes) \in DOMAIN events /\ events[Max(OpenOnes)].out = NoInstant
<1>1. DOMAIN events = 1..Len(events) /\ Len(events) \in Nat
  OBVIOUS
<1>2. OpenOnes \subseteq DOMAIN events
  BY DEF OpenOnes, InList
<1>3. IsFiniteSet(1..Len(events))
  BY <1>1, FS_Interval
<1>4. IsFiniteSet(OpenOnes)
  BY <1>1, <1>2, <1>3, FS_Subset
<1>5. Max(OpenOnes) \in OpenOnes
  <2>1. OpenOnes \in SUBSET Int
    BY <1>1, <1>2
  <2> QED
    BY <1>4, <2>1, Greatest
<1> QED
  BY <1>5 DEF OpenOnes, InList

-----------------------------------------------------------------------------
(* What may be done to a list.                                             *)

LEMMA AppendOne ==
    ASSUME NEW evs, NEW next, NEW where, Proper(evs, next, where),
           NEW e, Fits(e, next + 1, where), e.id = next, e.order = NextOrderFor(evs, e.list)
    PROVE  Proper(Append(evs, e), next + 1, where)
<1> DEFINE new == Append(evs, e)
<1>1. evs \in Seq(Event) /\ e \in Event /\ next \in Int
  BY DEF Proper, Sound, Fits
<1>2. new \in Seq(Event) /\ DOMAIN new = DOMAIN evs \cup {Len(evs) + 1} /\ DOMAIN evs = 1..Len(evs)
  BY <1>1
<1>3. (\A i \in DOMAIN evs : new[i] = evs[i]) /\ new[Len(evs) + 1] = e
  BY <1>1
<1>4. \A i \in DOMAIN evs : evs[i].list = e.list => evs[i].order < e.order
  BY <1>1, EndOfList
<1>5. \A i \in DOMAIN evs : evs[i] \in Event /\ evs[i].order \in Nat /\ evs[i].id \in Int
  BY <1>1, Elements
<1>6. e.order \in Nat /\ e.id \in Int
  BY <1>1 DEF Event
<1> HIDE DEF new
<1>7. Sound(new, next + 1, where)
  <2>1. \A i, j \in DOMAIN new : i # j => new[i].id # new[j].id
    BY <1>2, <1>3, <1>5 DEF Proper, Sound
  <2>2. \A i \in DOMAIN new :
            /\ new[i].id < next + 1
            /\ new[i].out = NoInstant \/ new[i].in < new[i].out
            /\ new[i].in + epoch = new[i].wall
            /\ new[i].home = where
    BY <1>1, <1>2, <1>3, <1>5, <1>6 DEF Proper, Sound, Fits
  <2> QED
    BY <1>1, <1>2, <2>1, <2>2 DEF Sound
<1>8. Places(new)
  BY <1>2, <1>3, <1>4, <1>5, <1>6 DEF Proper, Places
<1> QED
  BY <1>7, <1>8 DEF Proper, new

LEMMA DropOne ==
    ASSUME NEW evs, NEW next, NEW where, Proper(evs, next, where), NEW i \in DOMAIN evs
    PROVE  Proper(RemoveAt(evs, i), next, where)
<1> DEFINE new == RemoveAt(evs, i)
           old(k) == IF k < i THEN k ELSE k + 1
<1>1. evs \in Seq(Event) /\ next \in Int /\ DOMAIN evs = 1..Len(evs) /\ Len(evs) \in Nat
  BY DEF Proper, Sound
<1> DEFINE left == SubSeq(evs, 1, i - 1)
           right == SubSeq(evs, i + 1, Len(evs))
<1>2. i \in 1..Len(evs) /\ \A k \in 1..Len(evs) : evs[k] \in Event
  BY <1>1, Elements
<1>3. left \in Seq(Event) /\ Len(left) = i - 1 /\ \A k \in 1..(i - 1) : left[k] = evs[k]
  <2>1. \A k \in 1..(i - 1) : evs[k] \in Event
    BY <1>1, <1>2
  <2>2. left \in Seq(Event) /\ Len(left) = (IF 1 <= i - 1 THEN i - 1 - 1 + 1 ELSE 0)
        /\ \A k \in 1..(i - 1 - 1 + 1) : left[k] = evs[1 + k - 1]
    BY <1>1, <1>2, <2>1, SubSeqProperties
  <2> QED
    BY <1>1, <1>2, <2>2
<1>4. right \in Seq(Event) /\ Len(right) = Len(evs) - i
      /\ \A k \in 1..(Len(evs) - i) : right[k] = evs[i + k]
  <2>1. \A k \in (i + 1)..Len(evs) : evs[k] \in Event
    BY <1>1, <1>2
  <2>2. right \in Seq(Event)
        /\ Len(right) = (IF i + 1 <= Len(evs) THEN Len(evs) - (i + 1) + 1 ELSE 0)
        /\ \A k \in 1..(Len(evs) - (i + 1) + 1) : right[k] = evs[i + 1 + k - 1]
    BY SMTT(20), <1>1, <1>2, <2>1, SubSeqProperties
  <2> QED
    BY SMTT(20), <1>1, <1>2, <2>2
<1> HIDE DEF left, right
<1>5. /\ new \in Seq(Event) /\ Len(new) = Len(left) + Len(right)
      /\ \A k \in 1..(Len(left) + Len(right)) :
            new[k] = IF k <= Len(left) THEN left[k] ELSE right[k - Len(left)]
  BY <1>3, <1>4, ConcatProperties DEF RemoveAt, left, right
<1> HIDE DEF new
<1>6. DOMAIN new = 1..(Len(evs) - 1)
  BY <1>1, <1>2, <1>3, <1>4, <1>5
<1>7. \A k \in DOMAIN new : old(k) \in DOMAIN evs /\ new[k] = evs[old(k)]
  <2> SUFFICES ASSUME NEW k \in DOMAIN new
               PROVE  old(k) \in DOMAIN evs /\ new[k] = evs[old(k)]
    OBVIOUS
  <2>1. k \in 1..(Len(evs) - 1) /\ i \in 1..Len(evs)
    BY <1>2, <1>6
  <2>2. old(k) \in DOMAIN evs
    BY <1>1, <2>1
  <2>3. CASE k < i
    <3>1. new[k] = left[k] /\ k \in 1..(i - 1)
      BY SMTT(20), <1>1, <1>3, <1>4, <1>5, <2>1, <2>3
    <3> QED
      BY <1>3, <2>2, <2>3, <3>1
  <2>4. CASE ~(k < i)
    <3>1. new[k] = right[k - (i - 1)] /\ k - (i - 1) \in 1..(Len(evs) - i)
      BY SMTT(20), <1>1, <1>3, <1>4, <1>5, <2>1, <2>4
    <3>2. new[k] = evs[i + (k - (i - 1))] /\ i + (k - (i - 1)) = k + 1
      BY <1>1, <1>4, <2>1, <3>1
    <3> QED
      BY <2>2, <2>4, <3>2
  <2> QED
    BY <2>3, <2>4
<1>8. \A k, l \in DOMAIN new : k # l => old(k) # old(l)
  BY <1>1, <1>6
<1> HIDE DEF old
<1>9. Sound(new, next, where)
  <2>1. \A k, l \in DOMAIN new : k # l => new[k].id # new[l].id
    BY <1>7, <1>8 DEF Proper, Sound
  <2>2. \A k \in DOMAIN new :
            /\ new[k].id < next
            /\ new[k].out = NoInstant \/ new[k].in < new[k].out
            /\ new[k].in + epoch = new[k].wall
            /\ new[k].home = where
    BY <1>7 DEF Proper, Sound
  <2> QED
    BY <1>1, <1>5, <2>1, <2>2 DEF Sound
<1>10. Places(new)
  BY <1>7, <1>8 DEF Proper, Places
<1> QED
  BY <1>9, <1>10 DEF Proper, new

\* An event is changed where it stands, or goes to the end of a list.
LEMMA ChangeOne ==
    ASSUME NEW evs, NEW next, NEW where, Proper(evs, next, where), NEW i \in DOMAIN evs,
           NEW e, Fits(e, next, where), e.id = evs[i].id,
           \/ e.list = evs[i].list /\ e.order = evs[i].order
           \/ e.order = NextOrderFor(evs, e.list)
    PROVE  Proper([evs EXCEPT ![i] = e], next, where)
<1> DEFINE new == [evs EXCEPT ![i] = e]
<1>1. evs \in Seq(Event) /\ e \in Event /\ next \in Int
  BY DEF Proper, Sound, Fits
<1>2. new \in Seq(Event) /\ DOMAIN new = DOMAIN evs
  BY <1>1
<1>3. new[i] = e /\ \A k \in DOMAIN evs \ {i} : new[k] = evs[k]
  BY <1>1
<1>4. \A k \in DOMAIN evs : evs[k] \in Event /\ evs[k].order \in Nat
  BY <1>1, Elements
<1>5. e.order \in Nat
  BY <1>1 DEF Event
<1>6. \A k \in DOMAIN evs \ {i} : evs[k].list = e.list => evs[k].order # e.order
  <2>1. CASE e.list = evs[i].list /\ e.order = evs[i].order
    BY <2>1 DEF Proper, Places
  <2>2. CASE e.order = NextOrderFor(evs, e.list)
    <3>1. \A k \in DOMAIN evs : evs[k].list = e.list => evs[k].order < e.order
      BY <1>1, <2>2, EndOfList
    <3> QED
      BY <3>1, <1>4, <1>5
  <2> QED
    BY <2>1, <2>2
<1> HIDE DEF new
<1>7. Sound(new, next, where)
  <2>1. \A k, l \in DOMAIN new : k # l => new[k].id # new[l].id
    BY <1>2, <1>3 DEF Proper, Sound
  <2>2. \A k \in DOMAIN new :
            /\ new[k].id < next
            /\ new[k].out = NoInstant \/ new[k].in < new[k].out
            /\ new[k].in + epoch = new[k].wall
            /\ new[k].home = where
    BY <1>2, <1>3 DEF Proper, Sound, Fits
  <2> QED
    BY <1>1, <1>2, <2>1, <2>2 DEF Sound
<1>8. Places(new)
  BY <1>2, <1>3, <1>6 DEF Proper, Places
<1> QED
  BY <1>7, <1>8 DEF Proper, new

\* Of two events of a list one comes before the other, and what comes before the first
\* comes before the second.
Ahead(evs, i) == {j \in InList(evs, evs[i].list) : Before(evs, j, i)}

\* An event's place is the number of those before it, and grows along the list.
LEMMA Counted ==
    ASSUME NEW evs \in Seq(Event)
    PROVE  /\ NormalizeOrder(evs) =
                [i \in DOMAIN evs |-> [evs[i] EXCEPT !.order = Cardinality(Ahead(evs, i))]]
           /\ \A i \in DOMAIN evs : Cardinality(Ahead(evs, i)) \in Nat
           /\ \A i, j \in DOMAIN evs :
                evs[i].list = evs[j].list /\ Before(evs, i, j)
                    => Cardinality(Ahead(evs, i)) < Cardinality(Ahead(evs, j))
<1>1. DOMAIN evs = 1..Len(evs) /\ Len(evs) \in Nat /\ \A i \in DOMAIN evs : evs[i].order \in Nat
  BY Elements
<1>2. \A i \in DOMAIN evs : IsFiniteSet(Ahead(evs, i)) /\ Cardinality(Ahead(evs, i)) \in Nat
  <2>1. IsFiniteSet(1..Len(evs))
    <3>1. Len(evs) \in Nat
      BY <1>1
    <3> QED
      BY <3>1, FS_Interval
  <2>2. \A i \in DOMAIN evs : Ahead(evs, i) \in SUBSET (1..Len(evs))
    BY <1>1 DEF InList, Ahead
  <2>3. \A i \in DOMAIN evs : IsFiniteSet(Ahead(evs, i))
    BY <2>1, <2>2, FS_Subset
  <2> QED
    BY <2>3, FS_CardinalityType
<1>3. ASSUME NEW i \in DOMAIN evs, NEW j \in DOMAIN evs, evs[i].list = evs[j].list,
             Before(evs, i, j)
      PROVE  Cardinality(Ahead(evs, i)) < Cardinality(Ahead(evs, j))
  <2>1. Ahead(evs, i) \in SUBSET Ahead(evs, j)
    <3> SUFFICES ASSUME NEW k \in Ahead(evs, i) PROVE k \in Ahead(evs, j)
      OBVIOUS
    <3>1. k \in DOMAIN evs /\ evs[k].list = evs[i].list /\ Before(evs, k, i)
      BY DEF InList, Ahead
    <3>2. Before(evs, k, j)
      BY <1>1, <1>3, <3>1 DEF Before
    <3> QED
      BY <1>3, <3>1, <3>2 DEF InList, Ahead
  <2>2. i \in Ahead(evs, j) /\ i \notin Ahead(evs, i)
    BY <1>1, <1>3 DEF Before, InList, Ahead
  <2>3. /\ Cardinality(Ahead(evs, i)) <= Cardinality(Ahead(evs, j))
        /\ Cardinality(Ahead(evs, i)) # Cardinality(Ahead(evs, j))
    BY <1>2, <2>1, <2>2, FS_Subset
  <2> QED
    BY <1>2, <2>3
<1> QED
  BY <1>2, <1>3 DEF NormalizeOrder, Ahead

LEMMA Normalized ==
    ASSUME NEW evs, NEW next, NEW where, Sound(evs, next, where)
    PROVE  Proper(NormalizeOrder(evs), next, where)
<1> DEFINE new == NormalizeOrder(evs)
<1>1. evs \in Seq(Event) /\ next \in Int
  BY DEF Sound
<1>2. DOMAIN evs = 1..Len(evs) /\ Len(evs) \in Nat
      /\ \A i \in DOMAIN evs : evs[i] \in Event /\ evs[i].order \in Nat /\ evs[i].id \in Int
  BY <1>1, Elements
<1>3. \A i \in DOMAIN evs : Cardinality(Ahead(evs, i)) \in Nat
  BY <1>1, Counted
<1>4. new = [i \in DOMAIN evs |-> [evs[i] EXCEPT !.order = Cardinality(Ahead(evs, i))]]
  BY <1>1, Counted
<1>5. DOMAIN new = DOMAIN evs
  BY <1>4
<1>6. \A i \in DOMAIN evs :
        /\ new[i] \in Event /\ new[i].order = Cardinality(Ahead(evs, i))
        /\ new[i].id = evs[i].id /\ new[i].list = evs[i].list /\ new[i].in = evs[i].in
        /\ new[i].out = evs[i].out /\ new[i].wall = evs[i].wall /\ new[i].home = evs[i].home
  <2> SUFFICES ASSUME NEW i \in DOMAIN evs
               PROVE  /\ new[i] \in Event /\ new[i].order = Cardinality(Ahead(evs, i))
                      /\ new[i].id = evs[i].id /\ new[i].list = evs[i].list
                      /\ new[i].in = evs[i].in /\ new[i].out = evs[i].out
                      /\ new[i].wall = evs[i].wall /\ new[i].home = evs[i].home
    OBVIOUS
  <2>1. evs[i] \in Event /\ Cardinality(Ahead(evs, i)) \in Nat
    BY <1>2, <1>3
  <2>2. new[i] = [evs[i] EXCEPT !.order = Cardinality(Ahead(evs, i))]
    BY <1>4
  <2> HIDE DEF new
  <2> QED
    BY <2>1, <2>2 DEF Event
<1>7. new \in Seq(Event)
  <2> HIDE DEF new
  <2>1. new = [i \in 1..Len(evs) |-> new[i]]
    BY <1>2, <1>4
  <2> QED
    BY <1>2, <1>5, <1>6, <2>1
<1>8. Sound(new, next, where)
  <2> HIDE DEF new
  <2>1. \A i, j \in DOMAIN new : i # j => new[i].id # new[j].id
    BY <1>5, <1>6 DEF Sound
  <2>2. \A i \in DOMAIN new :
            /\ new[i].id < next
            /\ new[i].out = NoInstant \/ new[i].in < new[i].out
            /\ new[i].in + epoch = new[i].wall
            /\ new[i].home = where
    BY <1>5, <1>6 DEF Sound
  <2> QED
    BY <1>1, <1>7, <2>1, <2>2 DEF Sound
<1>9. \A i, j \in DOMAIN evs : evs[i].list = evs[j].list /\ Before(evs, i, j)
        => Cardinality(Ahead(evs, i)) < Cardinality(Ahead(evs, j))
  BY <1>1, Counted
<1>10. Places(new)
  <2> SUFFICES ASSUME NEW i \in DOMAIN evs, NEW j \in DOMAIN evs, i # j,
                      new[i].list = new[j].list
               PROVE  new[i].order # new[j].order
    BY <1>5 DEF Places
  <2>1. evs[i].list = evs[j].list
    BY <1>6
  <2>2. Before(evs, i, j) \/ Before(evs, j, i)
    BY <1>2 DEF Before
  <2> HIDE DEF new
  <2> QED
    BY <1>3, <1>6, <1>9, <2>1, <2>2
<1> QED
  BY <1>8, <1>10 DEF Proper

\* What has been normalized stays as it is.
LEMMA NormalizedStays ==
    ASSUME NEW evs \in Seq(Event)
    PROVE  NormalizeOrder(NormalizeOrder(evs)) = NormalizeOrder(evs)
<1> DEFINE new == NormalizeOrder(evs)
<1>1. /\ DOMAIN evs = 1..Len(evs) /\ Len(evs) \in Nat
      /\ \A i \in DOMAIN evs : evs[i] \in Event /\ evs[i].order \in Nat
  BY Elements
<1>2. new = [i \in DOMAIN evs |-> [evs[i] EXCEPT !.order = Cardinality(Ahead(evs, i))]]
  BY Counted
<1>3. /\ \A i \in DOMAIN evs : Cardinality(Ahead(evs, i)) \in Nat
      /\ \A i, j \in DOMAIN evs : evs[i].list = evs[j].list /\ Before(evs, i, j)
            => Cardinality(Ahead(evs, i)) < Cardinality(Ahead(evs, j))
  BY Counted
<1>4. DOMAIN new = DOMAIN evs
      /\ \A i \in DOMAIN evs : /\ new[i].list = evs[i].list
                               /\ new[i].order = Cardinality(Ahead(evs, i))
                               /\ new[i] = [new[i] EXCEPT !.order = Cardinality(Ahead(evs, i))]
                               /\ new[i] \in Event
  <2> SUFFICES ASSUME NEW i \in DOMAIN evs
               PROVE  /\ new[i].list = evs[i].list
                      /\ new[i].order = Cardinality(Ahead(evs, i))
                      /\ new[i] = [new[i] EXCEPT !.order = Cardinality(Ahead(evs, i))]
                      /\ new[i] \in Event
    BY <1>2
  <2>1. new[i] = [evs[i] EXCEPT !.order = Cardinality(Ahead(evs, i))]
    BY <1>2
  <2>2. evs[i] \in Event /\ Cardinality(Ahead(evs, i)) \in Nat
    BY <1>1, <1>3
  <2> HIDE DEF new
  <2> QED
    BY <2>1, <2>2 DEF Event
<1>5. ASSUME NEW i \in DOMAIN evs PROVE Ahead(new, i) = Ahead(evs, i)
  <2>1. ASSUME NEW j \in DOMAIN evs, evs[j].list = evs[i].list
        PROVE  Before(new, j, i) <=> Before(evs, j, i)
    <3>1. CASE Before(evs, j, i)
      <4>1. new[j].order < new[i].order
        BY <1>3, <1>4, <2>1, <3>1
      <4> HIDE DEF new
      <4> QED
        BY <3>1, <4>1 DEF Before
    <3>2. CASE Before(evs, i, j)
      <4>1. new[i].order < new[j].order /\ new[i].order \in Nat /\ new[j].order \in Nat
        BY <1>3, <1>4, <2>1, <3>2
      <4> HIDE DEF new
      <4> QED
        BY <1>1, <3>2, <4>1 DEF Before
    <3>3. CASE i = j
      <4>1. new[i].order \in Nat /\ i \in Nat
        BY <1>1, <1>3, <1>4
      <4> HIDE DEF new
      <4> QED
        BY <1>1, <3>3, <4>1 DEF Before
    <3>4. i \in Nat /\ j \in Nat /\ evs[i].order \in Nat /\ evs[j].order \in Nat
      BY <1>1
    <3>5. Before(evs, j, i) \/ Before(evs, i, j) \/ i = j
      BY <3>4 DEF Before
    <3> QED
      BY <3>1, <3>2, <3>3, <3>5
  <2> HIDE DEF new
  <2> QED
    BY <1>4, <2>1 DEF Ahead, InList
<1>6. new \in Seq(Event)
  <2> HIDE DEF new
  <2>1. new = [i \in 1..Len(evs) |-> new[i]]
    BY <1>1, <1>2
  <2> QED
    BY <1>1, <1>4, <2>1
<1>7. NormalizeOrder(new) =
        [i \in DOMAIN new |-> [new[i] EXCEPT !.order = Cardinality(Ahead(new, i))]]
  BY <1>6, Counted
<1>8. \A i \in DOMAIN new : [new[i] EXCEPT !.order = Cardinality(Ahead(new, i))] = new[i]
  BY <1>4, <1>5
<1> HIDE DEF new
<1>9. new = [i \in DOMAIN new |-> new[i]]
  BY <1>2, <1>4
<1> QED
  BY <1>7, <1>8, <1>9 DEF new

-----------------------------------------------------------------------------
(* What a file keeps of a list.                                            *)

Written(json, where) ==
    /\ json.kind = "events" /\ json.events \in Seq(Event) /\ json.next \in Int
    /\ \A i, j \in DOMAIN json.events : i # j => json.events[i].id # json.events[j].id
    /\ \A i \in DOMAIN json.events :
        /\ json.events[i].id < json.next
        /\ json.events[i].out < 0 \/ json.events[i].in < json.events[i].out
        /\ json.events[i].in = json.events[i].wall
        /\ json.events[i].home = where

Timed(e, a, b) == [e EXCEPT !.in = a, !.out = b]

LEMMA Retimed ==
    ASSUME NEW e \in Event, NEW a \in Int, NEW b \in Int
    PROVE  /\ Timed(e, a, b) \in Event
           /\ Timed(e, a, b).in = a /\ Timed(e, a, b).out = b /\ Timed(e, a, b).id = e.id
           /\ Timed(e, a, b).wall = e.wall /\ Timed(e, a, b).home = e.home
  BY DEF Event, Timed

LEMMA SavedIsWritten ==
    ASSUME epoch \in Int, NEW evs, NEW next, NEW where, Sound(evs, next, where)
    PROVE  Written(Saved(evs, next), where)
<1> DEFINE json == Saved(evs, next)
           new == ToFile(evs)
<1>1. evs \in Seq(Event) /\ next \in Int
  BY DEF Sound
<1>2. DOMAIN evs = 1..Len(evs) /\ Len(evs) \in Nat
      /\ \A i \in DOMAIN evs : evs[i] \in Event
  BY <1>1, Elements
<1>3. json.kind = "events" /\ json.events = new /\ json.next = next
  BY DEF Saved
<1>4. new = [i \in DOMAIN evs |->
        [evs[i] EXCEPT !.in = ToWall(@), !.out = IF @ = NoInstant THEN OpenEnd ELSE ToWall(@)]]
  BY DEF ToFile
<1>5. DOMAIN new = DOMAIN evs
  BY <1>4
<1>6. \A i \in DOMAIN evs :
        /\ new[i] \in Event /\ new[i].id = evs[i].id
        /\ new[i].in = evs[i].in + epoch /\ new[i].wall = evs[i].wall /\ new[i].home = evs[i].home
        /\ new[i].out = IF evs[i].out = NoInstant THEN OpenEnd ELSE evs[i].out + epoch
  <2> SUFFICES ASSUME NEW i \in DOMAIN evs
               PROVE  /\ new[i] \in Event /\ new[i].id = evs[i].id
                      /\ new[i].in = evs[i].in + epoch /\ new[i].wall = evs[i].wall
                      /\ new[i].home = evs[i].home
                      /\ new[i].out = IF evs[i].out = NoInstant THEN OpenEnd
                                      ELSE evs[i].out + epoch
    OBVIOUS
  <2>1. evs[i] \in Event
    BY <1>2
  <2>2. new[i] = [evs[i] EXCEPT !.in = ToWall(@),
                                !.out = IF @ = NoInstant THEN OpenEnd ELSE ToWall(@)]
    BY <1>4
  <2> HIDE DEF new
  <2>3. evs[i].in \in Int /\ evs[i].out \in Int
    BY <2>1 DEF Event
  <2> DEFINE a == ToWall(evs[i].in)
             b == IF evs[i].out = NoInstant THEN OpenEnd ELSE ToWall(evs[i].out)
  <2>4. a \in Int /\ b \in Int
    BY <2>3 DEF ToWall, OpenEnd
  <2>5. new[i] = [evs[i] EXCEPT !.in = a, !.out = b]
    BY <2>2
  <2>6. a = evs[i].in + epoch
        /\ b = IF evs[i].out = NoInstant THEN OpenEnd ELSE evs[i].out + epoch
    BY DEF ToWall
  <2> HIDE DEF a, b
  <2> DEFINE f == Timed(evs[i], a, b)
  <2>7. /\ f \in Event /\ f.in = a /\ f.out = b
        /\ f.id = evs[i].id /\ f.wall = evs[i].wall /\ f.home = evs[i].home
    BY <2>1, <2>4, Retimed
  <2>8. new[i] = f
    BY <2>5 DEF Timed
  <2> HIDE DEF f
  <2> QED
    BY <2>6, <2>7, <2>8
<1>7. new \in Seq(Event)
  <2> HIDE DEF new
  <2>1. new = [i \in 1..Len(evs) |-> new[i]]
    BY <1>2, <1>4
  <2> QED
    BY <1>2, <1>5, <1>6, <2>1
<1>8. \A i \in DOMAIN evs : evs[i].in \in Int /\ evs[i].out \in Int
  <2>1. \A e \in Event : e.in \in Int /\ e.out \in Int
    BY DEF Event
  <2> QED
    BY <1>2, <2>1
<1> HIDE DEF new
<1>9. \A i, j \in DOMAIN new : i # j => new[i].id # new[j].id
  BY <1>5, <1>6 DEF Sound
<1>10. \A i \in DOMAIN new :
            /\ new[i].id < next
            /\ new[i].out < 0 \/ new[i].in < new[i].out
            /\ new[i].in = new[i].wall
            /\ new[i].home = where
  BY SMTT(20), <1>5, <1>6, <1>8 DEF Sound, OpenEnd
<1> QED
  BY <1>1, <1>3, <1>7, <1>9, <1>10 DEF Written

LEMMA ReadIsSound ==
    ASSUME epoch \in Int, NEW json, NEW where, Written(json, where)
    PROVE  Sound(FromFile(json.events), json.next, where)
<1> DEFINE evs == json.events
           new == FromFile(evs)
<1>1. evs \in Seq(Event) /\ json.next \in Int
  BY DEF Written
<1>2. DOMAIN evs = 1..Len(evs) /\ Len(evs) \in Nat
      /\ \A i \in DOMAIN evs : evs[i] \in Event
  BY <1>1, Elements
<1>4. new = [i \in DOMAIN evs |->
        [evs[i] EXCEPT !.in = FromWall(@), !.out = IF @ < 0 THEN NoInstant ELSE FromWall(@)]]
  BY DEF FromFile
<1>5. DOMAIN new = DOMAIN evs
  BY <1>4
<1>6. \A i \in DOMAIN evs :
        /\ new[i] \in Event /\ new[i].id = evs[i].id
        /\ new[i].in = evs[i].in - epoch /\ new[i].wall = evs[i].wall /\ new[i].home = evs[i].home
        /\ new[i].out = IF evs[i].out < 0 THEN NoInstant ELSE evs[i].out - epoch
  <2> SUFFICES ASSUME NEW i \in DOMAIN evs
               PROVE  /\ new[i] \in Event /\ new[i].id = evs[i].id
                      /\ new[i].in = evs[i].in - epoch /\ new[i].wall = evs[i].wall
                      /\ new[i].home = evs[i].home
                      /\ new[i].out = IF evs[i].out < 0 THEN NoInstant ELSE evs[i].out - epoch
    OBVIOUS
  <2>1. evs[i] \in Event
    BY <1>2
  <2>2. new[i] = [evs[i] EXCEPT !.in = FromWall(@),
                                !.out = IF @ < 0 THEN NoInstant ELSE FromWall(@)]
    BY <1>4
  <2> HIDE DEF new, evs
  <2>3. evs[i].in \in Int /\ evs[i].out \in Int
    BY <2>1 DEF Event
  <2> DEFINE a == FromWall(evs[i].in)
             b == IF evs[i].out < 0 THEN NoInstant ELSE FromWall(evs[i].out)
  <2>4. a \in Int /\ b \in Int
    BY <2>3 DEF FromWall, NoInstant
  <2>5. new[i] = [evs[i] EXCEPT !.in = a, !.out = b]
    BY <2>2
  <2>6. a = evs[i].in - epoch
        /\ b = IF evs[i].out < 0 THEN NoInstant ELSE evs[i].out - epoch
    BY DEF FromWall
  <2> HIDE DEF a, b
  <2> DEFINE f == Timed(evs[i], a, b)
  <2>7. /\ f \in Event /\ f.in = a /\ f.out = b
        /\ f.id = evs[i].id /\ f.wall = evs[i].wall /\ f.home = evs[i].home
    BY <2>1, <2>4, Retimed
  <2>8. new[i] = f
    BY <2>5 DEF Timed
  <2> HIDE DEF f
  <2> QED
    BY <2>6, <2>7, <2>8
<1>7. new \in Seq(Event)
  <2> HIDE DEF new, evs
  <2>1. new = [i \in 1..Len(evs) |-> new[i]]
    BY <1>2, <1>4
  <2> QED
    BY <1>2, <1>5, <1>6, <2>1
<1>8. \A i \in DOMAIN evs : evs[i].in \in Int /\ evs[i].out \in Int /\ evs[i].wall \in Int
  <2>1. \A e \in Event : e.in \in Int /\ e.out \in Int /\ e.wall \in Int
    BY DEF Event
  <2> QED
    BY <1>2, <2>1
<1>9. /\ \A i, j \in DOMAIN evs : i # j => evs[i].id # evs[j].id
      /\ \A i \in DOMAIN evs :
        /\ evs[i].id < json.next
        /\ evs[i].out < 0 \/ evs[i].in < evs[i].out
        /\ evs[i].in = evs[i].wall
        /\ evs[i].home = where
  BY DEF Written
<1> HIDE DEF new, evs
<1>10. \A i, j \in DOMAIN new : i # j => new[i].id # new[j].id
  BY <1>5, <1>6, <1>9
<1>11. \A i \in DOMAIN new :
            /\ new[i].id < json.next
            /\ new[i].out = NoInstant \/ new[i].in < new[i].out
            /\ new[i].in + epoch = new[i].wall
            /\ new[i].home = where
  BY <1>5, <1>6, <1>8, <1>9
<1> QED
  BY <1>1, <1>7, <1>10, <1>11 DEF Sound, new, evs

\* No instant lies before the wall clock's zero, which the file takes for an open end.
OnTheClock == \A i \in DOMAIN events : events[i].out = NoInstant \/ ToWall(events[i].out) >= 0

LEMMA ReadBack ==
    ASSUME events \in Seq(Event), epoch \in Int, OnTheClock
    PROVE  FromFile(ToFile(events)) = events
<1>1. DOMAIN events = 1..Len(events) /\ \A i \in DOMAIN events : events[i] \in Event
  BY Elements
<1> DEFINE file == ToFile(events)
           a(e) == ToWall(e.in)
           b(e) == IF e.out = NoInstant THEN OpenEnd ELSE ToWall(e.out)
<1>2. file = [i \in DOMAIN events |-> Timed(events[i], a(events[i]), b(events[i]))]
  BY DEF ToFile, Timed
<1>3. FromFile(file) = [i \in DOMAIN events |->
        Timed(file[i], FromWall(file[i].in),
              IF file[i].out < 0 THEN NoInstant ELSE FromWall(file[i].out))]
  <2>1. DOMAIN file = DOMAIN events
    BY <1>2
  <2> HIDE DEF file
  <2> QED
    BY <2>1 DEF FromFile, Timed
<1>4. ASSUME NEW i \in DOMAIN events
      PROVE  Timed(file[i], FromWall(file[i].in),
                   IF file[i].out < 0 THEN NoInstant ELSE FromWall(file[i].out)) = events[i]
  <2> DEFINE e == events[i]
             f == Timed(e, a(e), b(e))
  <2>1. e \in Event /\ e.in \in Int /\ e.out \in Int
    BY <1>1 DEF Event
  <2>2. a(e) \in Int /\ b(e) \in Int
    BY <2>1 DEF ToWall, OpenEnd
  <2>3. file[i] = f /\ f \in Event /\ f.in = a(e) /\ f.out = b(e)
    <3>1. file[i] = f
      BY <1>2
    <3> HIDE DEF a, b, file
    <3> QED
      BY <2>1, <2>2, <3>1, Retimed
  <2>4. FromWall(f.in) = e.in
    BY <2>1, <2>3 DEF FromWall, ToWall
  <2>5. (IF f.out < 0 THEN NoInstant ELSE FromWall(f.out)) = e.out
    <3>1. CASE e.out = NoInstant
      BY <2>3, <3>1 DEF OpenEnd
    <3>2. CASE e.out # NoInstant
      <4>1. f.out = e.out + epoch /\ f.out >= 0
        BY <2>3, <3>2 DEF OnTheClock, ToWall
      <4> HIDE DEF f
      <4> QED
        BY <2>1, <4>1 DEF FromWall
    <3> QED
      BY <3>1, <3>2
  <2>6. Timed(f, e.in, e.out) = e
    <3> HIDE DEF a, b, e
    <3> QED
      BY <2>1, <2>2 DEF Timed, Event
  <2> HIDE DEF f, e, file
  <2>7. file[i] = f
    BY <2>3
  <2>8. Timed(file[i], FromWall(file[i].in),
              IF file[i].out < 0 THEN NoInstant ELSE FromWall(file[i].out)) = Timed(f, e.in, e.out)
    BY <2>4, <2>5, <2>7
  <2> QED
    BY <2>6, <2>8 DEF e
<1> HIDE DEF file
<1>5. FromFile(file) = [i \in DOMAIN events |-> events[i]]
  BY <1>3, <1>4
<1>6. events = [i \in DOMAIN events |-> events[i]]
  BY <1>1
<1> QED
  BY <1>5, <1>6 DEF file
-----------------------------------------------------------------------------
(* The marks an edit leaves.                                               *)

Same(e, f) == e.id = f.id /\ e.list = f.list /\ e.order = f.order

LEMMA OldFits ==
    ASSUME NEW evs, NEW next, NEW where, Proper(evs, next, where), NEW i \in DOMAIN evs
    PROVE  Fits(evs[i], next, where)
<1>1. evs \in Seq(Event)
  BY DEF Proper, Sound
<1>2. evs[i] \in Event
  BY <1>1, Elements
<1> QED
  BY <1>2 DEF Proper, Sound, Fits

EndingAt(e, o) == [e EXCEPT !.out = o]
StartingAt(e, i) == [e EXCEPT !.in = i, !.wall = ToWall(i)]

LEMMA OutFits ==
    ASSUME NEW e, NEW next, NEW where, Fits(e, next, where),
           NEW o \in Int, o = NoInstant \/ e.in < o
    PROVE  Fits(EndingAt(e, o), next, where) /\ Same(EndingAt(e, o), e)
<1> DEFINE f == EndingAt(e, o)
<1>1. e \in Event
  BY DEF Fits
<1>2. f \in Event /\ f.out = o /\ f.in = e.in /\ f.wall = e.wall /\ f.home = e.home /\ Same(f, e)
  BY <1>1 DEF Event, Same, EndingAt
<1> HIDE DEF f
<1>3. Fits(f, next, where)
  BY <1>2 DEF Fits, Same
<1> QED
  BY <1>2, <1>3 DEF f

LEMMA InFits ==
    ASSUME epoch \in Int, NEW e, NEW next, NEW where, Fits(e, next, where),
           NEW i \in Int, e.out = NoInstant \/ i < e.out
    PROVE  Fits(StartingAt(e, i), next, where) /\ Same(StartingAt(e, i), e)
<1> DEFINE w == ToWall(i)
           f == [e EXCEPT !.in = i, !.wall = w]
<1>1. e \in Event /\ w \in Int /\ i + epoch = w
  BY DEF Fits, ToWall
<1> HIDE DEF w
<1>2. f \in Event /\ f.out = e.out /\ f.in = i /\ f.wall = w /\ f.home = e.home /\ Same(f, e)
  BY <1>1 DEF Event, Same
<1> HIDE DEF f
<1>3. Fits(f, next, where)
  BY <1>1, <1>2 DEF Fits, Same
<1>4. StartingAt(e, i) = f
  BY DEF StartingAt, f, w
<1> QED
  BY <1>2, <1>3, <1>4

LEMMA MarkFits ==
    ASSUME epoch \in Int, folder \in Homes, selected \in Names,
           Proper(events, nextId, folder),
           NEW i \in Int, NEW o \in Int, o = NoInstant \/ i < o
    PROVE  LET e == NewMark(i, o)
           IN  /\ Fits(e, nextId + 1, folder) /\ e.id = nextId
               /\ e.order = NextOrderFor(events, e.list)
<1> DEFINE e == NewMark(i, o)
<1>1. events \in Seq(Event) /\ nextId \in Int
  BY DEF Proper, Sound
<1>2. NextOrderFor(events, selected) \in Nat
  BY <1>1, EndOfList
<1>3. e = [id |-> nextId, list |-> selected, order |-> NextOrderFor(events, selected),
           in |-> i, out |-> o, tag |-> 0, home |-> folder, wall |-> i + epoch]
  BY DEF NewMark, ToWall
<1>4. e \in Event
  BY <1>1, <1>2, <1>3 DEF Event
<1>5. /\ e.id = nextId /\ e.order = NextOrderFor(events, e.list)
      /\ e.in = i /\ e.out = o /\ e.home = folder /\ e.wall = i + epoch
  BY <1>3
<1> HIDE DEF e
<1>6. Fits(e, nextId + 1, folder)
  BY <1>1, <1>4, <1>5 DEF Fits
<1> QED
  BY <1>5, <1>6 DEF e

LEMMA MovedFits ==
    ASSUME epoch \in Int, NEW e, NEW next, NEW where, Fits(e, next, where), NEW d \in Int
    PROVE  /\ Fits(MovedIn(e, d), next, where) /\ Same(MovedIn(e, d), e)
           /\ Fits(MovedOut(e, d), next, where) /\ Same(MovedOut(e, d), e)
<1>1. e.in \in Int /\ e.out \in Int
  BY DEF Fits, Event
<1> DEFINE moved == e.in + d
           last == e.out - 1
           first == e.in + 1
           later == e.out + d
           least == Min({moved, last})
           to == IF e.out = NoInstant THEN moved ELSE least
           o == Max({first, later})
<1>2. moved \in Int /\ last \in Int /\ first \in Int /\ later \in Int
  BY <1>1
<1>3. to \in Int /\ (e.out = NoInstant \/ to < e.out)
  <2>1. least \in Int /\ least <= last
    <3> HIDE DEF moved, last
    <3> QED
      BY <1>2, LesserOf
  <2> HIDE DEF least
  <2> QED
    BY <1>1, <2>1
<1>4. o \in Int /\ e.in < o
  <2>1. o \in Int /\ o >= first
    <3> HIDE DEF first, later
    <3> QED
      BY <1>2, GreaterOf
  <2> HIDE DEF o
  <2> QED
    BY <1>1, <2>1
<1> HIDE DEF to, o
<1>5. MovedIn(e, d) = StartingAt(e, to)
  BY DEF MovedIn, to, StartingAt
<1>6. Fits(MovedIn(e, d), next, where) /\ Same(MovedIn(e, d), e)
  BY <1>3, <1>5, InFits
<1>7. CASE e.out = NoInstant
  BY <1>6, <1>7 DEF MovedOut, Same
<1>8. CASE e.out # NoInstant
  <2>1. MovedOut(e, d) = EndingAt(e, o)
    BY <1>8 DEF MovedOut, o, EndingAt
  <2> QED
    BY <1>4, <1>6, <2>1, OutFits
<1> QED
  BY <1>7, <1>8

Kept ==
    /\ epoch \in Int /\ folder \in Homes /\ selected \in Names
    /\ Proper(events, nextId, folder)

LEMMA AppendMark ==
    ASSUME Kept, NEW i \in Int, NEW o \in Int, o = NoInstant \/ i < o
    PROVE  Proper(Append(events, NewMark(i, o)), nextId + 1, folder)
<1> DEFINE e == NewMark(i, o)
<1>1. Fits(e, nextId + 1, folder) /\ e.id = nextId /\ e.order = NextOrderFor(events, e.list)
  BY MarkFits DEF Kept
<1> HIDE DEF e
<1>2. Proper(Append(events, e), nextId + 1, folder)
  BY <1>1, AppendOne DEF Kept
<1> QED
  BY <1>2 DEF e

\* A change that leaves the event its id, its list and its place.
LEMMA InPlace ==
    ASSUME Kept, NEW i \in DOMAIN events, NEW e, Fits(e, nextId, folder), Same(e, events[i])
    PROVE  Proper([events EXCEPT ![i] = e], nextId, folder)
  BY ChangeOne DEF Kept, Same

LEMMA EditsAreProper ==
    ASSUME Kept, EditStep, ~SelectList
    PROVE  \E evs, next : Proper(evs, next, folder) /\ Save(evs, next)
<1>1. events \in Seq(Event) /\ nextId \in Int /\ epoch \in Int
      /\ DOMAIN events = 1..Len(events) /\ Len(events) \in Nat
      /\ \A i \in DOMAIN events : events[i] \in Event /\ events[i].order \in Nat
  BY Elements DEF Kept, Proper, Sound
<1>2. \A i \in DOMAIN events : Fits(events[i], nextId, folder)
  BY OldFits DEF Kept
<1>3. CASE MarkIn
  <2>1. PICK t \in Instants :
            Save(Append(events, NewMark(t - epoch - Roll, NoInstant)), nextId + 1)
    BY <1>3 DEF MarkIn
  <2>2. t - epoch - Roll \in Int /\ NoInstant \in Int
    BY <1>1, IntegersAssumption DEF NoInstant
  <2>3. Proper(Append(events, NewMark(t - epoch - Roll, NoInstant)), nextId + 1, folder)
    BY <2>2, AppendMark
  <2> QED
    BY <2>1, <2>3
<1>4. CASE MarkOut
  <2> DEFINE k == Max(OpenOnes)
  <2>1. k \in DOMAIN events
    BY <1>1, <1>4, LastOpen DEF MarkOut
  <2>2. PICK t \in Instants :
            Save([events EXCEPT ![k].out = Max({events[k].in + 1, t - epoch + Roll})], nextId)
    BY <1>4 DEF MarkOut
  <2> HIDE DEF k
  <2> DEFINE a == events[k].in + 1
             b == t - epoch + Roll
             o == Max({a, b})
  <2>3. events[k].in \in Int
    BY <1>1, <2>1 DEF Event
  <2>4. a \in Int /\ b \in Int
    BY <1>1, <2>3, IntegersAssumption
  <2>5. o \in Int /\ o >= a
    <3> HIDE DEF a, b
    <3> QED
      BY <2>4, GreaterOf
  <2>6. events[k].in < o
    <3> HIDE DEF o
    <3> QED
      BY <2>3, <2>5
  <2> DEFINE e == EndingAt(events[k], o)
  <2>7. Save([events EXCEPT ![k] = e], nextId)
    BY <2>2 DEF EndingAt
  <2> HIDE DEF a, b, o
  <2>8. Fits(e, nextId, folder) /\ Same(e, events[k])
    BY <1>2, <2>1, <2>5, <2>6, OutFits
  <2> HIDE DEF e
  <2>9. Proper([events EXCEPT ![k] = e], nextId, folder)
    BY <2>1, <2>8, InPlace
  <2> QED
    BY <2>7, <2>9
<1>5. CASE MarkInOut
  <2>1. PICK t \in Instants :
            Save(Append(events, NewMark(t - epoch - 1 - Roll, t - epoch + Roll)), nextId + 1)
    BY <1>5 DEF MarkInOut
  <2>2. t - epoch - 1 - Roll \in Int /\ t - epoch + Roll \in Int
        /\ t - epoch - 1 - Roll < t - epoch + Roll
    BY <1>1, IntegersAssumption
  <2>3. Proper(Append(events, NewMark(t - epoch - 1 - Roll, t - epoch + Roll)), nextId + 1, folder)
    BY <2>2, AppendMark
  <2> QED
    BY <2>1, <2>3
<1>6. CASE MarkCancel
  <2>1. Max(OpenOnes) \in DOMAIN events /\ Save(RemoveAt(events, Max(OpenOnes)), nextId)
    BY <1>1, <1>6, LastOpen DEF MarkCancel
  <2>2. Proper(RemoveAt(events, Max(OpenOnes)), nextId, folder)
    BY <2>1, DropOne DEF Kept
  <2> QED
    BY <2>1, <2>2
<1>7. CASE RemoveEvent
  <2>1. PICK i \in DOMAIN events : Save(RemoveAt(events, i), nextId)
    BY <1>7 DEF RemoveEvent
  <2>2. Proper(RemoveAt(events, i), nextId, folder)
    BY DropOne DEF Kept
  <2> QED
    BY <2>1, <2>2
<1>8. CASE Annotate
  <2>1. PICK i \in DOMAIN events : Save([events EXCEPT ![i].tag = 1 - @], nextId)
    BY <1>8 DEF Annotate
  <2> DEFINE e == [events[i] EXCEPT !.tag = 1 - @]
  <2>2. Save([events EXCEPT ![i] = e], nextId)
    BY <2>1
  <2>3. events[i] \in Event
    BY <1>1
  <2>4. e \in Event /\ Same(e, events[i]) /\ e.in = events[i].in /\ e.out = events[i].out
        /\ e.wall = events[i].wall /\ e.home = events[i].home
    BY <2>3 DEF Event, Same
  <2> HIDE DEF e
  <2>5. Fits(e, nextId, folder)
    BY <1>2, <2>4 DEF Fits, Same
  <2>6. Proper([events EXCEPT ![i] = e], nextId, folder)
    BY <2>4, <2>5, InPlace
  <2> QED
    BY <2>2, <2>6
<1>9. CASE MovePoint
  <2>1. PICK i \in DOMAIN events, d \in {-2, 1} :
            \/ Save([events EXCEPT ![i] = MovedIn(@, d)], nextId)
            \/ Save([events EXCEPT ![i] = MovedOut(@, d)], nextId)
    BY <1>9 DEF MovePoint
  <2> DEFINE e == MovedIn(events[i], d)
             f == MovedOut(events[i], d)
  <2>2. Save([events EXCEPT ![i] = e], nextId) \/ Save([events EXCEPT ![i] = f], nextId)
    BY <2>1
  <2>3. Fits(e, nextId, folder) /\ Same(e, events[i]) /\ Fits(f, nextId, folder) /\ Same(f, events[i])
    BY <1>1, <1>2, MovedFits
  <2> HIDE DEF e, f
  <2>4. Proper([events EXCEPT ![i] = e], nextId, folder)
        /\ Proper([events EXCEPT ![i] = f], nextId, folder)
    BY <2>3, InPlace
  <2> QED
    BY <2>2, <2>4
<1>10. CASE MoveToList
  <2>1. PICK i \in DOMAIN events, l \in Lists :
            Save([events EXCEPT ![i].list = l, ![i].order = NextOrderFor(events, l)], nextId)
    BY <1>10 DEF MoveToList
  <2> DEFINE n == NextOrderFor(events, l)
             e == [events[i] EXCEPT !.list = l, !.order = n]
  <2>2. Save([events EXCEPT ![i] = e], nextId)
    BY <2>1
  <2>3. events[i] \in Event /\ n \in Nat /\ l \in Names
    BY <1>1, EndOfList DEF Names
  <2> HIDE DEF n
  <2>4. e \in Event /\ e.id = events[i].id /\ e.list = l /\ e.order = n
        /\ e.in = events[i].in /\ e.out = events[i].out
        /\ e.wall = events[i].wall /\ e.home = events[i].home
    BY <2>3 DEF Event
  <2> HIDE DEF e
  <2>5. Fits(e, nextId, folder)
    BY <1>2, <2>4 DEF Fits
  <2>6. e.order = NextOrderFor(events, e.list)
    BY <2>4 DEF n
  <2>7. Proper([events EXCEPT ![i] = e], nextId, folder)
    BY <2>4, <2>5, <2>6, ChangeOne DEF Kept
  <2> QED
    BY <2>2, <2>7
<1>11. CASE MoveEvent
  <2>1. PICK i, j \in DOMAIN events :
            Save(NormalizeOrder([events EXCEPT ![i].order = events[j].order,
                                              ![j].order = events[i].order]), nextId)
    BY <1>11 DEF MoveEvent
  <2> DEFINE evs == [events EXCEPT ![i].order = events[j].order, ![j].order = events[i].order]
  <2>2. DOMAIN evs = DOMAIN events
    BY <1>1
  <2>3. \A k \in DOMAIN events : \E n \in Nat : evs[k] = [events[k] EXCEPT !.order = n]
    <3>1. events[i].order \in Nat /\ events[j].order \in Nat
      BY <1>1
    <3> SUFFICES ASSUME NEW k \in DOMAIN events
                 PROVE  \E n \in Nat : evs[k] = [events[k] EXCEPT !.order = n]
      OBVIOUS
    <3>2. events[k] = [events[k] EXCEPT !.order = events[k].order] /\ events[k].order \in Nat
      <4>1. events[k] \in Event
        BY <1>1
      <4> QED
        BY <4>1 DEF Event
    <3>3. CASE k = j
      <4>1. evs[k] = [[events EXCEPT ![i].order = events[j].order][k] EXCEPT !.order = events[i].order]
        BY <3>3
      <4>2. CASE i = j
        BY <3>1, <3>2, <3>3, <4>1, <4>2
      <4>3. CASE i # j
        BY <3>1, <3>3, <4>1, <4>3
      <4> QED
        BY <4>2, <4>3
    <3>4. CASE k # j /\ k = i
      BY <3>1, <3>4
    <3>5. CASE k # j /\ k # i
      BY <3>2, <3>5
    <3> QED
      BY <3>3, <3>4, <3>5
  <2>4. \A k \in DOMAIN events :
            /\ evs[k] \in Event /\ evs[k].id = events[k].id
            /\ evs[k].in = events[k].in /\ evs[k].out = events[k].out
            /\ evs[k].wall = events[k].wall /\ evs[k].home = events[k].home
    <3> SUFFICES ASSUME NEW k \in DOMAIN events
                 PROVE  /\ evs[k] \in Event /\ evs[k].id = events[k].id
                        /\ evs[k].in = events[k].in /\ evs[k].out = events[k].out
                        /\ evs[k].wall = events[k].wall /\ evs[k].home = events[k].home
      OBVIOUS
    <3>1. PICK n \in Nat : evs[k] = [events[k] EXCEPT !.order = n]
      BY <2>3
    <3>2. events[k] \in Event
      BY <1>1
    <3> HIDE DEF evs
    <3> QED
      BY <3>1, <3>2 DEF Event
  <2>5. evs = [k \in DOMAIN events |-> evs[k]]
    OBVIOUS
  <2> HIDE DEF evs
  <2>6. evs \in Seq(Event)
    <3>1. evs = [k \in 1..Len(events) |-> evs[k]]
      BY <1>1, <2>5
    <3> QED
      BY <1>1, <2>4, <3>1
  <2>7. Sound(evs, nextId, folder)
    <3>1. Sound(events, nextId, folder)
      BY DEF Kept, Proper
    <3>2. \A k, l \in DOMAIN evs : k # l => evs[k].id # evs[l].id
      BY <2>2, <2>4, <3>1 DEF Sound
    <3>3. \A k \in DOMAIN evs :
            /\ evs[k].id < nextId
            /\ evs[k].out = NoInstant \/ evs[k].in < evs[k].out
            /\ evs[k].in + epoch = evs[k].wall
            /\ evs[k].home = folder
      BY <2>2, <2>4, <3>1 DEF Sound
    <3> QED
      BY <1>1, <2>6, <3>2, <3>3 DEF Sound
  <2>8. Proper(NormalizeOrder(evs), nextId, folder)
    BY <2>7, Normalized
  <2> QED
    BY <2>1, <2>8 DEF evs
<1>12. CASE Duplicate
  <2>1. PICK i \in DOMAIN events :
            Save(Append(events, [events[i] EXCEPT !.id = nextId,
                                    !.order = NextOrderFor(events, events[i].list)]), nextId + 1)
    BY <1>12 DEF Duplicate
  <2> DEFINE n == NextOrderFor(events, events[i].list)
             e == [events[i] EXCEPT !.id = nextId, !.order = n]
  <2>2. Save(Append(events, e), nextId + 1)
    BY <2>1
  <2>3. events[i] \in Event /\ n \in Nat
    BY <1>1, EndOfList
  <2> HIDE DEF n
  <2>4. e \in Event /\ e.id = nextId /\ e.list = events[i].list /\ e.order = n
        /\ e.in = events[i].in /\ e.out = events[i].out
        /\ e.wall = events[i].wall /\ e.home = events[i].home
    BY <1>1, <2>3 DEF Event
  <2> HIDE DEF e
  <2>5. Fits(e, nextId + 1, folder)
    BY <1>1, <1>2, <2>4 DEF Fits
  <2>6. e.order = NextOrderFor(events, e.list)
    BY <2>4 DEF n
  <2>7. Proper(Append(events, e), nextId + 1, folder)
    BY <2>4, <2>5, <2>6, AppendOne DEF Kept
  <2> QED
    BY <2>2, <2>7
<1>13. CASE ClearAll
  <2>1. Save(<<>>, 1)
    BY <1>13 DEF ClearAll
  <2>2. <<>> \in Seq(Event) /\ DOMAIN <<>> = {}
    OBVIOUS
  <2>3. Proper(<<>>, 1, folder)
    BY <2>2 DEF Proper, Sound, Places
  <2> QED
    BY <2>1, <2>3
<1> QED
  BY <1>3, <1>4, <1>5, <1>6, <1>7, <1>8, <1>9, <1>10, <1>11, <1>12, <1>13 DEF EditStep

-----------------------------------------------------------------------------
(* The invariant: what is queued, being written or on a disk was kept by   *)
(* the project it is written for.                                          *)

Held(q) == q = Nothing \/ (q.path \in Folders /\ Written(q.json, q.path))

Operation == [step : {"none", "flush", "load", "stop", "gone"}, to : Homes, keys : BOOLEAN]

InHand == Held(queued) /\ Held(writing)
Under == ui \in Operation /\ (ui.step = "load" => ui.to \in Folders)
OnDisk ==
    /\ DOMAIN disk = Folders
    /\ \A f \in Folders : disk[f].kind = "events" => Written(disk[f], f)

Inv == Kept /\ InHand /\ Under /\ OnDisk

LEMMA KeptStays ==
    ASSUME Kept, UNCHANGED <<events, nextId, selected, folder, epoch>> PROVE Kept'
<1>1. events' = events /\ nextId' = nextId /\ selected' = selected /\ folder' = folder
      /\ epoch' = epoch
  OBVIOUS
<1> QED
  BY <1>1 DEF Kept, Proper, Sound, Places

LEMMA InHandStays == ASSUME InHand, UNCHANGED <<queued, writing>> PROVE InHand'
  BY DEF InHand

LEMMA UnderStays == ASSUME Under, UNCHANGED ui PROVE Under'
  BY DEF Under

LEMMA OnDiskStays == ASSUME OnDisk, UNCHANGED disk PROVE OnDisk'
  BY DEF OnDisk

LEMMA NothingMarked == Proper(<<>>, 1, NoFolder)
<1>1. <<>> \in Seq(Event) /\ DOMAIN <<>> = {}
  OBVIOUS
<1> QED
  BY <1>1 DEF Proper, Sound, Places

LEMMA InitInv == Init => Inv
<1> SUFFICES ASSUME Init PROVE Inv
  OBVIOUS
<1>1. Kept
  <2>1. events = <<>> /\ nextId = 1 /\ selected = Min(Lists) /\ folder = NoFolder /\ epoch = 0
    BY DEF Init
  <2> QED
    BY <2>1, NothingMarked DEF Kept, Homes, Names
<1>2. Under
  BY DEF Init, NoOp, Operation, Homes, Under
<1>3. OnDisk
  BY DEF Init, Absent, OnDisk
<1>4. InHand
  BY DEF Init, InHand, Held
<1> QED
  BY <1>1, <1>2, <1>3, <1>4 DEF Inv

\* What is saved goes to the project whose marks they are.
LEMMA SavedIsHeld ==
    ASSUME Inv, NEW evs, NEW next, Proper(evs, next, folder), Save(evs, next)
    PROVE  Held(queued') /\ events' = evs /\ nextId' = next
<1>1. events' = evs /\ nextId' = next
  BY DEF Save
<1>2. CASE folder = NoFolder \/ stopped
  BY <1>1, <1>2 DEF Save, Inv, InHand
<1>3. CASE ~(folder = NoFolder \/ stopped)
  <2>1. queued' = [path |-> folder, json |-> Saved(evs, next)]
    BY <1>3 DEF Save
  <2>2. folder \in Folders
    BY <1>3 DEF Inv, Kept, Homes
  <2>3. Written(Saved(evs, next), folder)
    BY SavedIsWritten DEF Inv, Kept, Proper
  <2>4. queued'.path = folder /\ queued'.json = Saved(evs, next)
    BY <2>1
  <2> QED
    BY <1>1, <2>2, <2>3, <2>4 DEF Held
<1> QED
  BY <1>2, <1>3

LEMMA EditInv == ASSUME Inv, EditStep PROVE Inv'
<1>1. UNCHANGED <<folder, epoch, ui, writing, disk>>
  BY DEF EditStep, MarkIn, MarkOut, MarkInOut, MarkCancel, RemoveEvent, Annotate, MovePoint,
         MoveToList, MoveEvent, Duplicate, ClearAll, SelectList, Edit, files
<1>2. Under' /\ OnDisk'
  BY <1>1, UnderStays, OnDiskStays DEF Inv
<1>3. CASE SelectList
  <2>1. UNCHANGED <<events, nextId, queued>> /\ selected' \in Names
    BY <1>3 DEF SelectList, Names
  <2>2. InHand'
    BY <1>1, <2>1, InHandStays DEF Inv
  <2>3. Kept'
    <3>1. events' = events /\ nextId' = nextId /\ folder' = folder /\ epoch' = epoch
      BY <1>1, <2>1
    <3> QED
      BY <2>1, <3>1 DEF Inv, Kept, Proper, Sound, Places
  <2> QED
    BY <1>2, <2>2, <2>3 DEF Inv
<1>4. CASE ~SelectList
  <2>1. PICK evs, next : Proper(evs, next, folder) /\ Save(evs, next)
    BY <1>4, EditsAreProper DEF Inv
  <2>2. Held(queued') /\ events' = evs /\ nextId' = next
    BY <2>1, SavedIsHeld
  <2>3. selected' = selected
    BY <1>4 DEF EditStep, MarkIn, MarkOut, MarkInOut, MarkCancel, RemoveEvent, Annotate,
                MovePoint, MoveToList, MoveEvent, Duplicate, ClearAll
  <2>4. Kept'
    <3>1. folder' = folder /\ epoch' = epoch
      BY <1>1
    <3> QED
      BY <2>1, <2>2, <2>3, <3>1 DEF Inv, Kept, Proper, Sound, Places
  <2>5. InHand'
    BY <1>1, <2>2 DEF Inv, InHand
  <2> QED
    BY <1>2, <2>4, <2>5 DEF Inv
<1> QED
  BY <1>3, <1>4

\* The load: the marks are those of the project, and nothing else if there is no file.
LEMMA LoadInv == ASSUME Inv, LoadFolder PROVE Inv'
<1> DEFINE f == ui.to
<1>1. f \in Folders /\ folder' = f /\ UNCHANGED <<selected, epoch, queued, writing, disk>>
  BY DEF Inv, Under, LoadFolder
<1>2. Proper(events', nextId', f)
  <2>1. CASE disk[f].kind = "events"
    <3>1. events' = NormalizeOrder(FromFile(disk[f].events)) /\ nextId' = disk[f].next
      BY <2>1 DEF LoadFolder, LoadedEvents
    <3>2. Written(disk[f], f)
      BY <1>1, <2>1 DEF Inv, OnDisk
    <3>3. Sound(FromFile(disk[f].events), disk[f].next, f)
      BY <3>2, ReadIsSound DEF Inv, Kept
    <3> HIDE DEF f
    <3> QED
      BY <3>1, <3>3, Normalized
  <2>2. CASE disk[f].kind # "events"
    <3>1. events' = <<>> /\ nextId' = 1
      BY <2>2 DEF LoadFolder, LoadedEvents
    <3>2. <<>> \in Seq(Event) /\ DOMAIN <<>> = {}
      OBVIOUS
    <3> QED
      BY <3>1, <3>2 DEF Proper, Sound, Places
  <2> QED
    BY <2>1, <2>2
<1>3. Under'
  BY DEF LoadFolder, NoOp, Operation, Homes, Under
<1>4. Kept'
  <2>1. epoch' = epoch /\ selected' = selected /\ folder' = f
    BY <1>1
  <2> HIDE DEF f
  <2> QED
    BY <1>1, <1>2, <2>1 DEF Inv, Kept, Homes, Proper, Sound, Places
<1>5. InHand' /\ OnDisk'
  BY <1>1, InHandStays, OnDiskStays DEF Inv
<1> QED
  BY <1>3, <1>4, <1>5 DEF Inv

LEMMA StepInv == Inv /\ [Next]_vars => Inv'
<1> SUFFICES ASSUME Inv, [Next]_vars PROVE Inv'
  OBVIOUS
<1>1. CASE EditStep
  BY <1>1, EditInv
<1>2. CASE Switch \/ Unload \/ FlushDone \/ FlushTimeout \/ StopWriter \/ JoinWriter
  <2>1. UNCHANGED <<events, nextId, selected, folder, epoch, queued, writing, disk>>
    BY <1>2 DEF Switch, Unload, FlushDone, FlushTimeout, StopWriter, JoinWriter, store, files
  <2>2. Kept' /\ InHand' /\ OnDisk'
    BY <2>1, KeptStays, InHandStays, OnDiskStays DEF Inv
  <2>3. ui \in Operation
    BY DEF Inv, Under
  <2>4. Under'
    <3>1. CASE Switch
      BY <3>1 DEF Switch, Operation, Homes, Under
    <3>2. CASE Unload
      BY <3>2 DEF Unload, NoOp, Operation, Homes, Under
    <3>3. CASE FlushDone \/ FlushTimeout
      <4>1. ui' = [ui EXCEPT !.step = IF ui.to = NoFolder THEN "stop" ELSE "load"]
        BY <3>3 DEF FlushDone, FlushTimeout
      <4> QED
        BY <2>3, <4>1 DEF Operation, Homes, Under
    <3>4. CASE StopWriter \/ JoinWriter
      BY <2>3, <3>4 DEF StopWriter, JoinWriter, Operation, Under, Inv
    <3> QED
      BY <1>2, <3>1, <3>2, <3>3, <3>4
  <2> QED
    BY <2>2, <2>4 DEF Inv
<1>3. CASE LoadFolder
  BY <1>3, LoadInv
<1>4. CASE Take \/ Write \/ Spoil
  <2>1. UNCHANGED <<events, nextId, selected, folder, epoch, ui>>
    BY <1>4 DEF Take, Write, Spoil, store, files
  <2>2. Kept' /\ Under'
    BY <2>1, KeptStays, UnderStays DEF Inv
  <2>3. InHand'
    BY <1>4 DEF Take, Write, Spoil, Inv, InHand, Held
  <2>4. OnDisk'
    <3>1. CASE Take
      BY <3>1, OnDiskStays DEF Take, files, Inv
    <3>2. CASE Write
      <4>1. writing.path \in Folders /\ Written(writing.json, writing.path)
            /\ disk' = [disk EXCEPT ![writing.path] = writing.json]
        BY <3>2 DEF Write, Inv, InHand, Held
      <4> QED
        BY <4>1 DEF Inv, OnDisk
    <3>3. CASE Spoil
      <4>1. PICK f \in Folders : disk' = [disk EXCEPT ![f] = Garbage]
        BY <3>3 DEF Spoil
      <4>2. Garbage.kind # "events"
        BY DEF Garbage
      <4> QED
        BY <4>1, <4>2 DEF Inv, OnDisk
    <3> QED
      BY <1>4, <3>1, <3>2, <3>3
  <2> QED
    BY <2>2, <2>3, <2>4 DEF Inv
<1>5. CASE Crash
  <2>1. events' = <<>> /\ nextId' = 1 /\ folder' = NoFolder /\ selected' = Min(Lists)
        /\ epoch' = epoch + 2 /\ queued' = Nothing /\ writing' = Nothing /\ disk' = disk
        /\ ui' = NoOp
    BY <1>5 DEF Crash, files
  <2>2. <<>> \in Seq(Event) /\ DOMAIN <<>> = {}
    OBVIOUS
  <2>3. Proper(<<>>, 1, NoFolder)'
    BY <2>2 DEF Proper, Sound, Places
  <2>4. Kept'
    BY <2>1, <2>3 DEF Inv, Kept, Homes, Names
  <2>5. Under'
    BY <2>1 DEF NoOp, Operation, Homes, Under
  <2>6. InHand'
    BY <2>1 DEF InHand, Held
  <2>7. OnDisk'
    BY <2>1, OnDiskStays DEF Inv
  <2> QED
    BY <2>4, <2>5, <2>6, <2>7 DEF Inv
<1>6. CASE UNCHANGED vars
  <2>1. UNCHANGED <<events, nextId, selected, folder, epoch, ui, queued, writing, disk>>
    BY <1>6 DEF vars, store, files
  <2> QED
    BY <2>1, KeptStays, InHandStays, UnderStays, OnDiskStays DEF Inv
<1> QED
  BY <1>1, <1>2, <1>3, <1>4, <1>5, <1>6 DEF Next, Moves, Writer

\* The running order of every project is one: places and ids are its own, no mark is
\* inside out or has lost the instant it was taken at, over any edits, loads and restarts.
THEOREM ListsStayInOrder == Spec => []RunningOrder
<1>1. Inv => RunningOrder
  BY DEF Inv, Kept, Proper, Sound, Places, RunningOrder
<1> QED
  BY <1>1, InitInv, StepInv, PTL DEF Spec

\* No change of project, however it falls between a mark, its write and the wait for it,
\* puts a mark into another project's list or file.
THEOREM MarksStayHome == Spec => []InItsOwnProject
<1>1. Inv => InItsOwnProject
  BY DEF Inv, Kept, InHand, OnDisk, Proper, Sound, Held, Written, InItsOwnProject, HomeOf
<1> QED
  BY <1>1, InitInv, StepInv, PTL DEF Spec

-----------------------------------------------------------------------------
(* The backup.                                                             *)

Behind ==
    /\ DOMAIN backup = Folders /\ DOMAIN lastRead = Folders
    /\ \A f \in Folders : backup[f].gen1 = lastRead[f]

\* The first backup is always what the last load that found a list read.
THEOREM BackupIsLastRead == Spec => []AWayBack
<1>1. Init => Behind
  BY DEF Init, Behind
<1>2. Inv /\ Behind /\ [Next]_vars => Behind'
  <2> SUFFICES ASSUME Inv, Behind, [Next]_vars PROVE Behind'
    OBVIOUS
  <2>1. CASE LoadFolder
    <3> DEFINE f == ui.to
    <3>1. f \in Folders
      BY <2>1 DEF LoadFolder, Inv, Under
    <3>2. backup' = [backup EXCEPT ![f] = Rotated(f)]
          /\ lastRead' = [lastRead EXCEPT ![f] = IF disk[f].kind = "events" THEN disk[f] ELSE @]
      BY <2>1 DEF LoadFolder
    <3>3. Rotated(f).gen1 = IF disk[f].kind = "events" THEN disk[f] ELSE lastRead[f]
      BY <3>1 DEF Rotated, Behind
    <3>4. DOMAIN backup' = Folders /\ DOMAIN lastRead' = Folders
      BY <3>2 DEF Behind
    <3> HIDE DEF f
    <3>5. \A g \in Folders : backup'[g].gen1 = lastRead'[g]
      BY <3>1, <3>2, <3>3 DEF Behind
    <3> QED
      BY <3>4, <3>5 DEF Behind
  <2>2. CASE ~LoadFolder
    <3>1. UNCHANGED <<backup, lastRead>>
      BY <2>2 DEF Next, EditStep, MarkIn, MarkOut, MarkInOut, MarkCancel, RemoveEvent, Annotate,
                  MovePoint, MoveToList, MoveEvent, Duplicate, ClearAll, SelectList, Edit, Switch,
                  Unload, Moves, FlushDone, FlushTimeout, StopWriter, JoinWriter, Writer, Take,
                  Write, Spoil, Crash, files, vars
    <3> QED
      BY <3>1 DEF Behind
  <2> QED
    BY <2>1, <2>2
<1>3. Behind => AWayBack
  BY DEF Behind, AWayBack
<1> QED
  BY <1>1, <1>2, <1>3, InitInv, StepInv, PTL DEF Spec

-----------------------------------------------------------------------------
(* What is kept is written.                                                *)

\* What the folder's file says, or will say when the writer has caught up.
Newest ==
    IF queued.path = folder THEN queued.json
    ELSE IF writing.path = folder THEN writing.json
    ELSE disk[folder]

\* The store was saved as it is, or is what was read; it is empty where there was nothing to read.
Answers(json) ==
    \/ json = Garbage
    \/ json = Absent /\ events = <<>> /\ nextId = 1
    \/ json = Saved(events, nextId)
    \/ /\ json.kind = "events" /\ json.next = nextId
       /\ events = NormalizeOrder(FromFile(json.events))

\* No list is left behind: when the writer has nothing to do, the file says what the store says.
NothingUnwritten ==
    folder # NoFolder /\ ~slipped /\ queued = Nothing /\ writing = Nothing
        /\ disk[folder] # Garbage /\ OnTheClock => FileAgrees

Readable(json) == json \in {Absent, Garbage} \/ json.kind = "events"

\* No edit comes once the writer is told to stop, and the load meets nothing on its way to a disk.
InTurn ==
    /\ ui.keys => ui.to # NoFolder
    /\ ui.step = "load" => ui.to # NoFolder
    /\ ui.step \in {"stop", "gone"} => ~ui.keys
    /\ stopped => ui.step \in {"stop", "gone"}
    /\ ~slipped /\ ui.step = "load" => queued = Nothing /\ writing = Nothing

Carried ==
    /\ \A f \in Folders : Readable(disk[f])
    /\ InTurn
    /\ folder # NoFolder /\ ~slipped => Answers(Newest)

LEMMA NoPath == Nothing.path = NoFolder
BY DEF Nothing

LEMMA AnswersStay ==
    ASSUME UNCHANGED <<events, nextId, epoch>>, NEW json, Answers(json)
    PROVE  Answers(json)'
<1>1. events' = events /\ nextId' = nextId /\ epoch' = epoch
  OBVIOUS
<1> QED
  BY <1>1 DEF Answers, Saved, ToFile, ToWall, FromFile, FromWall

LEMMA InitCarried == Init => Carried
BY NoPath DEF Init, Carried, Readable, InTurn, NoOp

LEMMA EditCarried == ASSUME Inv, Carried, EditStep PROVE Carried'
<1>1. /\ UNCHANGED <<folder, epoch, ui, writing, stopped, disk>> /\ (ui = NoOp \/ ui.keys)
      /\ (~slipped' => ~slipped /\ ui.step # "load")
  BY DEF EditStep, MarkIn, MarkOut, MarkInOut, MarkCancel, RemoveEvent, Annotate, MovePoint,
         MoveToList, MoveEvent, Duplicate, ClearAll, SelectList, Edit, files
<1>2. ~stopped
  BY <1>1 DEF Carried, InTurn, NoOp
<1>3. InTurn'
  BY <1>1 DEF Carried, InTurn
<1>4. folder # NoFolder /\ ~slipped' => Answers(Newest)'
  <2> SUFFICES ASSUME folder # NoFolder, ~slipped' PROVE Answers(Newest)'
    OBVIOUS
  <2>1. CASE SelectList
    <3>1. UNCHANGED <<events, nextId, queued>>
      BY <2>1 DEF SelectList
    <3>2. Newest' = Newest /\ Answers(Newest)
      BY <1>1, <3>1 DEF Newest, Carried
    <3>3. Answers(Newest')
      BY <3>2
    <3>4. UNCHANGED <<events, nextId, epoch>>
      BY <1>1, <3>1
    <3> QED
      BY <3>2, <3>4, AnswersStay
  <2>2. CASE ~SelectList
    <3>1. PICK evs, next : Proper(evs, next, folder) /\ Save(evs, next)
      BY <2>2, EditsAreProper DEF Inv
    <3>2. /\ queued' = [path |-> folder, json |-> Saved(evs, next)]
          /\ events' = evs /\ nextId' = next
      BY <1>2, <3>1 DEF Save
    <3>3. Newest' = Saved(evs, next)
      BY <1>1, <3>2 DEF Newest
    <3>4. Saved(evs, next) = Saved(events, nextId)'
      BY <1>1, <3>2 DEF Saved, ToFile, ToWall
    <3> QED
      BY <3>3, <3>4 DEF Answers
  <2> QED
    BY <2>1, <2>2
<1> QED
  BY <1>1, <1>3, <1>4 DEF Carried

LEMMA LoadCarried == ASSUME Inv, Carried, LoadFolder PROVE Carried'
<1> DEFINE f == ui.to
<1>1. /\ ui.step = "load" /\ f \in Folders /\ f # NoFolder /\ folder' = f /\ ui' = NoOp
      /\ UNCHANGED <<epoch, queued, writing, stopped, disk, slipped>>
  BY DEF Inv, Under, LoadFolder, Carried, InTurn
<1>2. InTurn'
  BY <1>1 DEF Carried, InTurn, NoOp
<1>3. ~slipped => Answers(Newest)'
  <2> SUFFICES ASSUME ~slipped PROVE Answers(Newest)'
    OBVIOUS
  <2>1. queued' = Nothing /\ writing' = Nothing
    BY <1>1 DEF Carried, InTurn
  <2>2. Newest' = disk[f]
    BY <1>1, <2>1, NoPath DEF Newest
  <2>3. CASE disk[f].kind = "events"
    <3>1. events' = NormalizeOrder(FromFile(disk[f].events)) /\ nextId' = disk[f].next
      BY <2>3 DEF LoadFolder, LoadedEvents
    <3> HIDE DEF f
    <3> QED
      BY <1>1, <2>2, <2>3, <3>1 DEF Answers, FromFile, FromWall
  <2>4. CASE disk[f].kind # "events"
    <3>1. events' = <<>> /\ nextId' = 1
      BY <2>4 DEF LoadFolder, LoadedEvents
    <3>2. disk[f] \in {Absent, Garbage}
      BY <1>1, <2>4 DEF Carried, Readable
    <3> QED
      BY <2>2, <3>1, <3>2 DEF Answers
  <2> QED
    BY <2>3, <2>4
<1> QED
  BY <1>1, <1>2, <1>3 DEF Carried

LEMMA StepCarried == Inv /\ Carried /\ [Next]_vars => Carried'
<1> SUFFICES ASSUME Inv, Carried, [Next]_vars PROVE Carried'
  OBVIOUS
<1>1. CASE EditStep
  BY <1>1, EditCarried
<1>2. CASE LoadFolder
  BY <1>2, LoadCarried
<1>3. CASE Switch \/ Unload \/ FlushDone \/ FlushTimeout \/ StopWriter \/ JoinWriter
           \/ UNCHANGED vars
  <2>1a. ~slipped' => ~slipped
    <3>1. CASE FlushTimeout
      BY <3>1 DEF FlushTimeout
    <3>2. CASE ~FlushTimeout
      BY <1>3, <3>2 DEF Switch, Unload, FlushDone, StopWriter, JoinWriter, vars
    <3> QED
      BY <3>1, <3>2
  <2>1. /\ UNCHANGED <<events, nextId, folder, epoch, queued, writing, disk>>
        /\ (~slipped' => ~slipped)
    BY <1>3, <2>1a
    DEF Switch, Unload, FlushDone, FlushTimeout, StopWriter, JoinWriter, store, files, vars
  <2>2. InTurn'
    <3>1. ui \in Operation
      BY DEF Inv, Under
    <3>2. CASE Switch
      BY <3>2, FoldersAssumption DEF Switch, NoOp, Carried, InTurn
    <3>3. CASE Unload
      BY <3>3 DEF Unload, NoOp, Carried, InTurn
    <3>4. CASE FlushDone
      BY <3>1, <3>4 DEF FlushDone, Operation, Carried, InTurn
    <3>5. CASE FlushTimeout
      <4>1. ui' = [ui EXCEPT !.step = IF ui.to = NoFolder THEN "stop" ELSE "load"]
            /\ ui.step = "flush" /\ stopped' = stopped
            /\ (ui.to # NoFolder => slipped')
        BY <3>5 DEF FlushTimeout
      <4> QED
        BY <3>1, <4>1 DEF Operation, Carried, InTurn
    <3>6. CASE StopWriter \/ JoinWriter
      BY <3>1, <3>6 DEF StopWriter, JoinWriter, Operation, Carried, InTurn
    <3>7. CASE UNCHANGED vars
      BY <3>7 DEF vars, Carried, InTurn
    <3> QED
      BY <1>3, <3>2, <3>3, <3>4, <3>5, <3>6, <3>7
  <2>3. Newest' = Newest
    BY <2>1 DEF Newest
  <2>4. folder # NoFolder /\ ~slipped' => Answers(Newest)'
    BY <2>1, <2>3, AnswersStay DEF Carried
  <2> QED
    BY <2>1, <2>2, <2>4 DEF Carried
<1>4. CASE Take \/ Write \/ Spoil
  <2>1. UNCHANGED <<events, nextId, folder, epoch, ui, stopped, slipped>>
    BY <1>4 DEF Take, Write, Spoil, store, files
  <2>2. InTurn'
    <3>1. queued = Nothing /\ writing = Nothing => queued' = Nothing /\ writing' = Nothing
      BY <1>4 DEF Take, Write, Spoil
    <3> QED
      BY <2>1, <3>1 DEF Carried, InTurn
  <2>3. \A f \in Folders : Readable(disk'[f])
    <3>1. CASE Take
      BY <3>1 DEF Take, files, Carried
    <3>2. CASE Write
      <4>1. writing.path \in Folders /\ Readable(writing.json)
            /\ disk' = [disk EXCEPT ![writing.path] = writing.json]
        BY <3>2 DEF Write, Inv, InHand, Held, Written, Readable
      <4> QED
        BY <4>1 DEF Inv, OnDisk, Carried
    <3>3. CASE Spoil
      <4>1. PICK f \in Folders : disk' = [disk EXCEPT ![f] = Garbage]
        BY <3>3 DEF Spoil
      <4> QED
        BY <4>1 DEF Inv, OnDisk, Carried, Readable
    <3> QED
      BY <1>4, <3>1, <3>2, <3>3
  <2>4. folder # NoFolder => Newest' = Newest \/ Newest' = Garbage
    <3> SUFFICES ASSUME folder # NoFolder PROVE Newest' = Newest \/ Newest' = Garbage
      OBVIOUS
    <3>1. folder' = folder /\ folder \in Folders /\ DOMAIN disk = Folders
      BY <2>1 DEF Inv, Kept, Homes, OnDisk
    <3>2. CASE Take
      BY <3>1, <3>2, NoPath DEF Take, files, Newest
    <3>3. CASE Write
      BY <3>1, <3>3, NoPath DEF Write, Newest
    <3>4. CASE Spoil
      BY <3>1, <3>4 DEF Spoil, Newest
    <3> QED
      BY <1>4, <3>2, <3>3, <3>4
  <2>5. folder # NoFolder /\ ~slipped => Answers(Newest)'
    <3> SUFFICES ASSUME folder # NoFolder, ~slipped PROVE Answers(Newest)'
      OBVIOUS
    <3>1. CASE Newest' = Newest
      <4>1. Answers(Newest)
        BY DEF Carried
      <4> QED
        BY <2>1, <3>1, <4>1, AnswersStay
    <3>2. CASE Newest' = Garbage
      BY <3>2 DEF Answers, Garbage
    <3> QED
      BY <2>4, <3>1, <3>2
  <2> QED
    BY <2>1, <2>2, <2>3, <2>5 DEF Carried
<1>5. CASE Crash
  BY <1>5 DEF Crash, NoOp, files, Carried, InTurn
<1> QED
  BY <1>1, <1>2, <1>3, <1>4, <1>5 DEF Next, Moves, Writer

\* Whatever was marked, moved to another project or cut short by a restart: once the writer has
\* nothing queued and nothing in hand, a file that can be read holds exactly what the store
\* holds, unless a change came between the flush and the load (the safety half of FileCatchesUp).
THEOREM NothingIsLeftUnwritten == Spec => []NothingUnwritten
<1>1. Inv /\ Carried => NothingUnwritten
  <2> SUFFICES ASSUME Inv, Carried, folder # NoFolder, ~slipped, queued = Nothing,
                      writing = Nothing, disk[folder] # Garbage, OnTheClock
               PROVE  FileAgrees
    BY DEF NothingUnwritten
  <2>1. Answers(disk[folder])
    BY NoPath DEF Carried, Newest
  <2>2. events \in Seq(Event) /\ epoch \in Int /\ folder \in Folders
    BY DEF Inv, Kept, Proper, Sound, Homes
  <2>3. CASE disk[folder] = Absent /\ nextId = 1
    BY <2>3 DEF FileAgrees
  <2>4. CASE disk[folder] = Saved(events, nextId)
    <3>1. /\ disk[folder].kind = "events" /\ disk[folder].next = nextId
          /\ disk[folder].events = ToFile(events)
      BY <2>4 DEF Saved
    <3>2. LoadedEvents(folder) = NormalizeOrder(FromFile(ToFile(events)))
      BY <3>1 DEF LoadedEvents
    <3>3. FromFile(ToFile(events)) = events
      BY <2>2, ReadBack
    <3> QED
      BY <3>1, <3>2, <3>3 DEF FileAgrees
  <2>5. CASE /\ disk[folder].kind = "events" /\ disk[folder].next = nextId
             /\ events = NormalizeOrder(FromFile(disk[folder].events))
    <3>1. Written(disk[folder], folder)
      BY <2>2, <2>5 DEF Inv, OnDisk
    <3>2. FromFile(disk[folder].events) \in Seq(Event)
      BY <2>2, <3>1, ReadIsSound DEF Sound
    <3>3. NormalizeOrder(events) = events
      BY <2>5, <3>2, NormalizedStays
    <3>4. LoadedEvents(folder) = events
      BY <2>5 DEF LoadedEvents
    <3> QED
      BY <2>5, <3>3, <3>4 DEF FileAgrees
  <2> QED
    BY <2>1, <2>3, <2>4, <2>5 DEF Answers
<1> QED
  BY <1>1, InitInv, StepInv, InitCarried, StepCarried, PTL DEF Spec
=============================================================================
