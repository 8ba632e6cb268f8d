-------------------------- MODULE PacketRingProofs --------------------------
(***************************************************************************)
(* What the run `ring` checks on a ring of four packets, of PacketRing and *)
(* of ClipCopy, proved for any budget, any number of packets, any          *)
(* reordering, any clock jump and any chunk.                               *)
(***************************************************************************)
EXTENDS ClipCopy, SequenceTheorems, WellFoundedInduction, TLAPS

-----------------------------------------------------------------------------
(* The eviction loop.                                                      *)

\* Cutting a history at one of its heads leaves a well-formed history that begins at
\* that head, which is a keyframe unless nothing was cut.
LEMMA CutFacts ==
    ASSUME NEW ps \in Seq(Packet), ps # <<>>, NEW head \in Heads(ps)
    PROVE  /\ head \in 1..Len(ps)
           /\ SubSeq(ps, head, Len(ps)) \in Seq(Packet)
           /\ Len(SubSeq(ps, head, Len(ps))) = Len(ps) - (head - 1)
           /\ \A i \in 1..(Len(ps) - (head - 1)) :
                 SubSeq(ps, head, Len(ps))[i] = ps[i + (head - 1)]
           /\ head # 1 => IsKeyframe(ps[head])
<1>1. head \in 1..Len(ps)
  BY DEF Heads
<1>2. head # 1 => IsKeyframe(ps[head])
  BY DEF Heads
<1>3. SubSeq(ps, head, Len(ps)) \in Seq(Packet)
  BY <1>1
<1>4. Len(SubSeq(ps, head, Len(ps))) = Len(ps) - (head - 1)
  BY <1>1
<1>5. \A i \in 1..(Len(ps) - (head - 1)) : SubSeq(ps, head, Len(ps))[i] = ps[i + (head - 1)]
  BY <1>1
<1> QED
  BY <1>1, <1>2, <1>3, <1>4, <1>5

\* Pushing a packet and evicting leaves the end of what was held plus the packet.
LEMMA PushFacts ==
    ASSUME TypeOK, NEW p \in Packet, PushPacket(p)
    PROVE  LET ps == Append(packets, p) IN
           /\ ps \in Seq(Packet) /\ Len(ps) = Len(packets) + 1 /\ ps # <<>>
           /\ log' \in Seq(Packet) /\ Len(log') = Len(log) + 1
           /\ newest' \in Int /\ newest <= newest' /\ p.masterNs <= newest'
           /\ limits' = limits
           /\ \E head \in Heads(ps) :
                 /\ StopsAt(ps, head, newest', limits)
                 /\ packets' = SubSeq(ps, head, Len(ps))
                 /\ packets' \in Seq(Packet)
                 /\ Len(packets') = Len(packets) + 1 - (head - 1)
                 /\ bytes' = bytes + 1 - (head - 1)
                 /\ evicted' = evicted + (head - 1)
<1> DEFINE ps == Append(packets, p)
<1>0. packets \in Seq(Packet)
  BY DEF TypeOK
<1>1. ps \in Seq(Packet) /\ Len(ps) = Len(packets) + 1 /\ ps # <<>>
  <2>1. ps \in Seq(Packet) /\ Len(ps) = Len(packets) + 1
    BY <1>0
  <2>2. Len(<<>>) = 0 /\ Len(packets) \in Nat
    BY <1>0
  <2> QED
    BY <2>1, <2>2
<1>2. log' \in Seq(Packet) /\ Len(log') = Len(log) + 1 /\ limits' = limits
  BY DEF TypeOK, PushPacket
<1>3. newest' \in Int /\ newest <= newest' /\ p.masterNs <= newest'
  BY DEF TypeOK, PushPacket, Packet
<1>4. PICK head \in Heads(ps) :
        /\ StopsAt(ps, head, newest', limits)
        /\ packets' = SubSeq(ps, head, Len(ps))
        /\ bytes' = bytes + 1 - (head - 1)
        /\ evicted' = evicted + (head - 1)
  BY DEF PushPacket, EvictFrom
<1>5. packets' \in Seq(Packet) /\ Len(packets') = Len(packets) + 1 - (head - 1)
  <2> HIDE DEF ps
  <2>1. SubSeq(ps, head, Len(ps)) \in Seq(Packet)
    BY <1>1, CutFacts
  <2>2. Len(SubSeq(ps, head, Len(ps))) = Len(ps) - (head - 1)
    BY <1>1, CutFacts
  <2> QED
    BY <1>1, <1>4, <2>1, <2>2
<1> QED
  BY <1>1, <1>2, <1>3, <1>4, <1>5

\* The packet an encoder thread pushes is a packet.
LEMMA PushedIsPacket ==
    ASSUME TypeOK, NEW track \in Track, pending[track] # <<>>
    PROVE  pending[track][1] \in Packet
BY DEF TypeOK

\* Stamping a generation on a packet leaves it a packet.
LEMMA StampedIsPacket ==
    ASSUME NEW q \in Packet, NEW n \in Int
    PROVE  [q EXCEPT !.generation = n] \in Packet
BY DEF Packet

-----------------------------------------------------------------------------
(* Type correctness.                                                       *)

LEMMA TypeInit == Init => TypeOK
BY BudgetsAssumption DEF Init, TypeOK, Track

LEMMA TypeStep == TypeOK /\ [Next]_vars => TypeOK'
<1> SUFFICES ASSUME TypeOK, [Next]_vars PROVE TypeOK'
  OBVIOUS
<1>1. ASSUME NEW track \in Track, NEW key \in BOOLEAN,
             NEW t \in 0..(clock + 1 + Reorder + AudioLead), Normalize(track, key, t)
      PROVE  TypeOK'
  <2>1. [kind |-> track, keyframe |-> key, masterNs |-> t, generation |-> Unstamped] \in Packet
    BY <1>1, BoundsAssumption DEF Packet, Unstamped, TypeOK
  <2>2. pending' \in [Track -> Seq(Packet)]
    BY <1>1, <2>1 DEF Normalize, TypeOK
  <2>3. seat' \in [Track -> {"unseated", "seated", "moved"}] /\ generation' \in Nat
    BY <1>1 DEF Normalize, TypeOK
  <2>4. clock' \in Int /\ gop' \in Int
    BY <1>1, BoundsAssumption DEF Normalize, TypeOK
  <2> QED
    BY <1>1, <2>2, <2>3, <2>4 DEF Normalize, TypeOK, ringVars
<1>2. ASSUME NEW track \in Track, Stamp(track) PROVE TypeOK'
  <2>1. [pending[track][1] EXCEPT !.generation = generation] \in Packet
    <3>1. pending[track][1] \in Packet /\ generation \in Int
      BY <1>2, PushedIsPacket DEF Stamp, TypeOK
    <3> QED
      BY <3>1, StampedIsPacket
  <2>2. pending' \in [Track -> Seq(Packet)]
    BY <1>2, <2>1 DEF Stamp, TypeOK
  <2> QED
    BY <1>2, <2>2 DEF Stamp, TypeOK, ringVars
<1>3. ASSUME NEW track \in Track, Push(track) PROVE TypeOK'
  <2>1. pending[track][1] \in Packet
    BY <1>3, PushedIsPacket DEF Push
  <2>2. PushPacket(pending[track][1])
    BY <1>3 DEF Push
  <2> DEFINE ps == Append(packets, pending[track][1])
  <2>3. PICK head \in Heads(ps) :
          /\ packets' \in Seq(Packet)
          /\ Len(packets') = Len(packets) + 1 - (head - 1)
          /\ bytes' = bytes + 1 - (head - 1)
          /\ evicted' = evicted + (head - 1)
    BY <2>1, <2>2, PushFacts
  <2>4. head \in 1..Len(ps)
    BY <2>1, <2>2, <2>3, PushFacts, CutFacts
  <2>5. bytes' = Len(packets') /\ evicted' \in Nat
    BY <2>3, <2>4 DEF TypeOK
  <2>6. pushed' \in Nat /\ limits' \in RingLimits
    BY <2>2 DEF PushPacket, TypeOK
  <2>7. log' \in Seq(Packet) /\ newest' \in Int
    BY <2>1, <2>2, PushFacts
  <2>8. pending' \in [Track -> Seq(Packet)]
    BY <1>3 DEF Push, TypeOK
  <2> QED
    BY <1>3, <2>3, <2>5, <2>6, <2>7, <2>8 DEF Push, TypeOK
<1>4. ASSUME NEW gap \in Gaps, Restart(gap) PROVE TypeOK'
  BY <1>4, GapsAssumption DEF Restart, TypeOK, ringVars
<1>5. ASSUME NEW lim \in Budgets, Rearm(lim) PROVE TypeOK'
  BY <1>5, BudgetsAssumption DEF Rearm, Clear, TypeOK
<1>6. CASE UNCHANGED vars
  BY <1>6 DEF vars, ringVars, captureVars, TypeOK
<1> QED
  BY <1>1, <1>2, <1>3, <1>4, <1>5, <1>6 DEF Next, Capture, NewSession

\* The state of the ring and of its two encoder threads stays well formed, and the byte
\* count the eviction loop trusts is always that of the packets held.
THEOREM TypeCorrect == Spec => []TypeOK
BY TypeInit, TypeStep, PTL DEF Spec

-----------------------------------------------------------------------------
(* The ring is the end of what was captured, and begins where a decoder can. *)

\* `ps` is the end of `all`, said position by position.
EndOf(ps, all) ==
    /\ Len(ps) <= Len(all)
    /\ \A i \in 1..Len(ps) : ps[i] = all[Len(all) - Len(ps) + i]

LEMMA EndOfIsSubSeq ==
    ASSUME NEW ps \in Seq(Packet), NEW all \in Seq(Packet), EndOf(ps, all)
    PROVE  ps = SubSeq(all, Len(all) - Len(ps) + 1, Len(all))
<1> DEFINE cut == SubSeq(all, Len(all) - Len(ps) + 1, Len(all))
<1>1. Len(ps) \in Nat /\ Len(all) \in Nat /\ Len(ps) <= Len(all)
  BY DEF EndOf
<1>2. cut \in Seq(Packet) /\ Len(cut) = Len(ps)
  BY <1>1
<1>3. \A i \in 1..Len(ps) : cut[i] = ps[i]
  BY <1>1 DEF EndOf
<1> HIDE DEF cut
<1>4. ps = cut
  BY <1>2, <1>3
<1> QED
  BY <1>4 DEF cut

LEMMA SubSeqIsEndOf ==
    ASSUME NEW ps \in Seq(Packet), NEW all \in Seq(Packet), Len(ps) <= Len(all),
           ps = SubSeq(all, Len(all) - Len(ps) + 1, Len(all))
    PROVE  EndOf(ps, all)
BY SMTT(20) DEF EndOf

\* What must hold for the next packet to be pushed without harm.
IInv ==
    /\ TypeOK
    /\ HeadDecodable
    /\ EndOf(packets, log)
    /\ LiveEdgeCovers
    /\ WithinBudgetOrOneGop

LEMMA InvInit == Init => IInv
<1> SUFFICES ASSUME Init PROVE IInv
  OBVIOUS
<1>1. TypeOK
  BY TypeInit
<1>2. packets = <<>> /\ log = <<>> /\ Len(packets) = 0
  BY DEF Init
<1> QED
  BY <1>1, <1>2 DEF IInv, HeadDecodable, EndOf, LiveEdgeCovers, WithinBudgetOrOneGop

\* The one step that changes what the ring holds.
LEMMA InvPush ==
    ASSUME IInv, NEW p \in Packet, PushPacket(p)
    PROVE  /\ HeadDecodable' /\ EndOf(packets, log)' /\ LiveEdgeCovers'
           /\ WithinBudgetOrOneGop'
<1> DEFINE ps == Append(packets, p)
<1>0. TypeOK /\ packets \in Seq(Packet) /\ log \in Seq(Packet)
  BY DEF IInv, TypeOK
<1>1. /\ ps \in Seq(Packet) /\ Len(ps) = Len(packets) + 1 /\ ps # <<>>
      /\ log' \in Seq(Packet) /\ Len(log') = Len(log) + 1
      /\ newest' \in Int /\ newest \in Int /\ newest <= newest' /\ p.masterNs <= newest'
      /\ limits' = limits
  BY <1>0, PushFacts DEF TypeOK
<1>2. PICK head \in Heads(ps) :
        /\ StopsAt(ps, head, newest', limits)
        /\ packets' = SubSeq(ps, head, Len(ps))
        /\ packets' \in Seq(Packet)
        /\ Len(packets') = Len(packets) + 1 - (head - 1)
  BY <1>0, PushFacts
<1>3. /\ head \in 1..Len(ps)
      /\ \A i \in 1..Len(packets') : packets'[i] = ps[i + (head - 1)]
      /\ head # 1 => IsKeyframe(ps[head])
  <2> HIDE DEF ps
  <2> QED
    BY <1>1, <1>2, CutFacts
<1>4. /\ \A i \in 1..Len(packets) : ps[i] = packets[i]
      /\ ps[Len(packets) + 1] = p
  BY <1>0
<1>5. /\ \A i \in 1..Len(log) : log'[i] = log[i]
      /\ log'[Len(log) + 1] = p
  BY <1>0 DEF PushPacket
<1>6. /\ Len(packets) \in Nat /\ Len(log) \in Nat /\ Len(packets) <= Len(log)
      /\ \A i \in 1..Len(packets) : packets[i] = log[Len(log) - Len(packets) + i]
  BY <1>0 DEF IInv, EndOf
<1> HIDE DEF ps
<1>len. /\ Len(packets) \in Nat /\ Len(log) \in Nat
        /\ head \in Nat /\ 1 <= head /\ head <= Len(packets) + 1
        /\ Len(packets') = Len(packets) + 1 - (head - 1) /\ Len(packets') >= 1
  BY <1>1, <1>2, <1>3, <1>6
<1>7. EndOf(packets, log)'
  <2>1. Len(packets') <= Len(log')
    <3>1. Len(log') = Len(log) + 1
      BY <1>1
    <3> QED
      BY <1>6, <1>len, <3>1
  <2>2. ASSUME NEW i \in 1..Len(packets')
        PROVE  packets'[i] = log'[Len(log') - Len(packets') + i]
    <3> DEFINE k == i + (head - 1)
    <3>0. i \in Nat /\ 1 <= i /\ i <= Len(packets')
      BY <1>len
    <3>1. packets'[i] = ps[k]
      BY <1>3
    <3>2. Len(log') - Len(packets') + i = Len(log) - Len(packets) + k
      <4>1. Len(log') = Len(log) + 1
        BY <1>1
      <4> QED
        BY <1>len, <3>0, <4>1
    <3>5. k \in 1..Len(packets) \/ k = Len(packets) + 1
      <4>1. k \in Nat /\ 1 <= k /\ k <= Len(packets) + 1
        BY <1>len, <3>0
      <4> HIDE DEF k
      <4> QED
        BY <1>len, <4>1
    <3> HIDE DEF k
    <3>3. CASE k \in 1..Len(packets)
      <4>1. Len(log) - Len(packets) + k \in 1..Len(log)
        BY <1>6, <3>3
      <4> QED
        BY <1>4, <1>5, <1>6, <3>1, <3>2, <3>3, <4>1
    <3>4. CASE k = Len(packets) + 1
      <4>1. Len(log) - Len(packets) + k = Len(log) + 1
        BY <1>6, <3>4
      <4> QED
        BY <1>4, <1>5, <3>1, <3>2, <3>4, <4>1
    <3> QED
      BY <3>3, <3>4, <3>5
  <2> QED
    BY <2>1, <2>2 DEF EndOf
<1>8. HeadDecodable'
  <2> SUFFICES ASSUME Len(log') > Len(packets')
               PROVE  packets' # <<>> /\ IsKeyframe(packets'[1])
    BY DEF HeadDecodable
  <2>1. packets' # <<>> /\ packets'[1] = ps[head]
    <3>1. Len(packets') >= 1 /\ 1 \in 1..Len(packets')
      BY <1>1, <1>2, <1>3, <1>6
    <3>2. packets'[1] = ps[head]
      BY <1>3, <1>len, <3>1
    <3>3. packets' # <<>>
      <4>1. Len(<<>>) = 0
        OBVIOUS
      <4> QED
        BY <3>1, <4>1
    <3> QED
      BY <3>2, <3>3
  <2>2. CASE head # 1
    BY <1>3, <2>1, <2>2
  <2>3. CASE head = 1
    <3>1. Len(log) > Len(packets)
      BY <1>1, <1>2, <1>6, <2>3
    <3>2. packets # <<>> /\ IsKeyframe(packets[1])
      BY <3>1 DEF IInv, HeadDecodable
    <3>3. 1 \in 1..Len(packets)
      BY <1>0, <3>2
    <3> QED
      BY <1>4, <2>1, <2>3, <3>2, <3>3
  <2> QED
    BY <2>2, <2>3
<1>9. LiveEdgeCovers'
  <2> SUFFICES ASSUME NEW i \in 1..Len(packets')
               PROVE  packets'[i].masterNs <= newest'
    BY <1>2 DEF LiveEdgeCovers
  <2>1. i + (head - 1) \in 1..(Len(packets) + 1) /\ packets'[i] = ps[i + (head - 1)]
    BY <1>3, <1>6, <1>len
  <2>2. \A k \in 1..Len(packets) : packets[k].masterNs \in Int /\ packets[k].masterNs <= newest
    <3>1. \A k \in 1..Len(packets) : packets[k] \in Packet
      BY <1>0
    <3>2. \A k \in 1..Len(packets) : packets[k].masterNs <= newest
      BY <1>0 DEF IInv, LiveEdgeCovers
    <3> QED
      BY <3>1, <3>2 DEF Packet
  <2>3. \A k \in 1..(Len(packets) + 1) : ps[k].masterNs <= newest'
    <3> TAKE k \in 1..(Len(packets) + 1)
    <3>1. CASE k \in 1..Len(packets)
      BY <1>1, <1>4, <2>2, <3>1
    <3>2. CASE k = Len(packets) + 1
      BY <1>1, <1>4, <3>2
    <3> QED
      BY <1>6, <3>1, <3>2
  <2> QED
    BY <2>1, <2>3
<1>10. WithinBudgetOrOneGop'
  <2> SUFFICES ASSUME packets' # <<>>, OverLimit(packets', 1, newest', limits')
               PROVE  Heads(packets') = {1}
    BY DEF WithinBudgetOrOneGop
  <2>1. packets'[1] = ps[head]
    BY <1>1, <1>2, <1>3, <1>6
  <2>2. OverLimit(ps, head, newest', limits)
    BY <1>1, <1>2, <1>3, <1>6, <2>1 DEF OverLimit
  <2>3. \A h \in Heads(ps) : h <= head
    BY <1>2, <2>2 DEF StopsAt
  <2>4. ASSUME NEW h \in 2..Len(packets'), IsKeyframe(packets'[h])
        PROVE  FALSE
    <3>1. h + (head - 1) \in 2..Len(ps) /\ IsKeyframe(ps[h + (head - 1)])
      BY <1>1, <1>2, <1>3, <1>6, <2>4
    <3>2. h + (head - 1) \in Heads(ps)
      BY <3>1 DEF Heads
    <3>3. h + (head - 1) > head
      BY <1>1, <1>3, <1>6
    <3> QED
      BY <1>3, <2>3, <3>2, <3>3
  <2> QED
    BY <2>4 DEF Heads
<1> QED
  BY <1>7, <1>8, <1>9, <1>10

LEMMA InvStep == IInv /\ [Next]_vars => IInv'
<1> SUFFICES ASSUME IInv, [Next]_vars PROVE IInv'
  OBVIOUS
<1>1. TypeOK /\ TypeOK'
  BY TypeStep DEF IInv
<1>2. ASSUME NEW track \in Track, Push(track) PROVE IInv'
  <2>1. pending[track][1] \in Packet /\ PushPacket(pending[track][1])
    BY <1>1, <1>2, PushedIsPacket DEF Push
  <2> QED
    BY <1>1, <2>1, InvPush DEF IInv
<1>3. ASSUME UNCHANGED ringVars PROVE IInv'
  BY <1>1, <1>3 DEF ringVars, IInv, HeadDecodable, EndOf, LiveEdgeCovers, WithinBudgetOrOneGop
<1>4. ASSUME NEW lim \in Budgets, Rearm(lim) PROVE IInv'
  <2>1. packets' = <<>> /\ log' = <<>> /\ Len(packets') = 0
    BY <1>4 DEF Rearm, Clear
  <2> QED
    BY <1>1, <2>1 DEF IInv, HeadDecodable, EndOf, LiveEdgeCovers, WithinBudgetOrOneGop
<1>5. ASSUME Capture PROVE IInv' 
  BY <1>2, <1>3, <1>5 DEF Capture, Normalize, Stamp, Restart
<1> QED
  BY <1>3, <1>4, <1>5 DEF Next, NewSession, vars

LEMMA Invariant == Spec => []IInv
BY InvInit, InvStep, PTL DEF Spec

\* The oldest packet held is one a decoder can start on, and some GOP always is held.
THEOREM HeadIsDecodable == Spec => []HeadDecodable
<1>1. IInv => HeadDecodable
  BY DEF IInv
<1> QED
  BY <1>1, Invariant, PTL

\* Eviction stops within the budget, or at a single GOP.
THEOREM BudgetIsKept == Spec => []WithinBudgetOrOneGop
<1>1. IInv => WithinBudgetOrOneGop
  BY DEF IInv
<1> QED
  BY <1>1, Invariant, PTL

\* The live edge a range is checked against covers every packet held.
THEOREM LiveEdgeIsCovered == Spec => []LiveEdgeCovers
<1>1. IInv => LiveEdgeCovers
  BY DEF IInv
<1> QED
  BY <1>1, Invariant, PTL

\* What is held is the end of what was captured, with no packet missing.
THEOREM RingIsWhole == Spec => []RingIsTail
<1>1. IInv => RingIsTail
  <2> SUFFICES ASSUME IInv PROVE RingIsTail
    OBVIOUS
  <2>1. packets \in Seq(Packet) /\ log \in Seq(Packet) /\ EndOf(packets, log)
    BY DEF IInv, TypeOK
  <2>2. packets = SubSeq(log, Len(log) - Len(packets) + 1, Len(log))
    BY <2>1, EndOfIsSubSeq
  <2> QED
    BY <2>1, <2>2 DEF RingIsTail, EndOf
<1> QED
  BY <1>1, Invariant, PTL

-----------------------------------------------------------------------------
(* The ring implements the footage it promises.                            *)

\* A push is the abstract Capture: one packet more at the end, and a cut that is none
\* or falls on a later keyframe.
LEMMA PushCaptures ==
    ASSUME IInv, NEW p \in Packet, PushPacket(p)
    PROVE  Footage!Capture
<1> DEFINE ps == Append(packets, p)
<1> DEFINE from == Len(log) - Len(packets) + 1
<1>0. TypeOK /\ packets \in Seq(Packet) /\ log \in Seq(Packet)
  BY DEF IInv, TypeOK
<1>1. /\ ps \in Seq(Packet) /\ Len(ps) = Len(packets) + 1 /\ ps # <<>>
      /\ log' \in Seq(Packet) /\ Len(log') = Len(log) + 1
  BY <1>0, PushFacts
<1>2. PICK head \in Heads(ps) :
        /\ packets' = SubSeq(ps, head, Len(ps))
        /\ packets' \in Seq(Packet)
        /\ Len(packets') = Len(packets) + 1 - (head - 1)
  BY <1>0, PushFacts
<1>3. /\ head \in 1..Len(ps)
      /\ \A i \in 1..Len(packets') : packets'[i] = ps[i + (head - 1)]
      /\ head # 1 => IsKeyframe(ps[head])
  <2> HIDE DEF ps
  <2> QED
    BY <1>1, <1>2, CutFacts
<1>4. /\ Len(packets) \in Nat /\ Len(log) \in Nat
      /\ head \in Nat /\ 1 <= head /\ head <= Len(packets) + 1
  <2> HIDE DEF ps
  <2> QED
    BY <1>0, <1>1, <1>3
<1>5. from' = from + (head - 1)
  <2>1. from' = Len(log') - Len(packets') + 1
    OBVIOUS
  <2> QED
    BY <1>1, <1>2, <1>4, <2>1
<1>6. SubSeq(log', 1, Len(log)) = log /\ log'[Len(log')] \in Packet
  <2>1. log' = Append(log, p)
    BY DEF PushPacket
  <2>2. SubSeq(log', 1, Len(log)) \in Seq(Packet) /\ Len(SubSeq(log', 1, Len(log))) = Len(log)
    BY <1>1, <1>4
  <2>3. \A i \in 1..Len(log) : SubSeq(log', 1, Len(log))[i] = log[i]
    BY <1>0, <1>1, <1>4, <2>1
  <2>4. log'[Len(log')] \in Packet
    BY <1>0, <1>1, <2>1
  <2> QED
    BY <1>0, <2>2, <2>3, <2>4
<1>7. CASE head = 1
  <2>1. from' = from
    BY <1>4, <1>5, <1>7
  <2> QED
    BY <1>1, <1>6, <2>1 DEF Footage!Capture
<1>8. CASE head # 1
  <2>1. EndOf(packets, log)'
    BY InvPush
  <2>2. Len(packets') >= 1 /\ Len(packets') <= Len(log')
    BY <1>1, <1>2, <1>4, <2>1 DEF EndOf
  <2>3. packets'[1] = log'[from'] /\ packets'[1] = ps[head]
    <3>1. packets'[1] = log'[Len(log') - Len(packets') + 1]
      BY <2>1, <2>2 DEF EndOf
    <3>2. packets'[1] = ps[head]
      <4> HIDE DEF ps
      <4> QED
        BY <1>2, <1>3, <1>4, <2>2
    <3> QED
      BY <3>1, <3>2
  <2>4. IsKeyframe(log'[from'])
    <3> HIDE DEF from, ps
    <3> QED
      BY <1>3, <1>8, <2>3
  <2>5. from' \in (from + 1)..Len(log')
    BY <1>1, <1>2, <1>4, <1>5, <1>8, <2>2
  <2> QED
    BY <1>1, <1>6, <2>4, <2>5 DEF Footage!Capture
<1> QED
  BY <1>7, <1>8

\* Whatever the budgets, every behaviour of the ring is one of CapturedFootage: the
\* replayable point only moves forward, onto keyframes, and no footage behind it is lost.
THEOREM RingImplementsFootage == Spec => FootageSpec
<1>1. Init => Footage!Init
  <2> SUFFICES ASSUME Init PROVE Footage!Init
    OBVIOUS
  <2>1. log = <<>> /\ packets = <<>> /\ Len(log) = 0 /\ Len(packets) = 0
    BY DEF Init
  <2> QED
    BY <2>1 DEF Footage!Init
<1>2. IInv /\ [Next]_vars => [Footage!Next]_(Footage!vars)
  <2> SUFFICES ASSUME IInv, [Next]_vars PROVE [Footage!Next]_(Footage!vars)
    OBVIOUS
  <2>1. ASSUME NEW track \in Track, Push(track) PROVE Footage!Next
    <3>1. pending[track][1] \in Packet /\ PushPacket(pending[track][1])
      BY <2>1, PushedIsPacket DEF Push, IInv
    <3> QED
      BY <3>1, PushCaptures DEF Footage!Next
  <2>2. ASSUME UNCHANGED ringVars PROVE UNCHANGED Footage!vars
    BY <2>2 DEF ringVars, Footage!vars
  <2>3. ASSUME NEW lim \in Budgets, Rearm(lim) PROVE Footage!Next
    <3>1. packets' = <<>> /\ log' = <<>> /\ Len(packets') = 0 /\ Len(log') = 0
      BY <2>3 DEF Rearm, Clear
    <3> QED
      BY <3>1 DEF Footage!Next, Footage!Forget
  <2>4. ASSUME Capture PROVE [Footage!Next]_(Footage!vars)
    BY <2>1, <2>2, <2>4 DEF Capture, Normalize, Stamp, Restart
  <2> QED
    BY <2>2, <2>3, <2>4 DEF Next, NewSession, vars
<1> QED
  BY <1>1, <1>2, Invariant, PTL DEF Spec, FootageSpec, Footage!Spec


-----------------------------------------------------------------------------
(* Encoder restarts: which pictures of one generation come before which.   *)

Pics(q) == {i \in DOMAIN q : q[i].kind = "video"}

\* The generation a carried packet has, or would be stamped with now.
Era(p) == IF p.generation = Unstamped THEN generation ELSE p.generation

\* A thread carries one packet of its track, and no generation is ahead of the channel's.
Carried ==
    /\ \A track \in Track :
        /\ Len(pending[track]) <= 1
        /\ \A i \in DOMAIN pending[track] :
            /\ pending[track][i].kind = track
            /\ pending[track][i].generation \in (0..generation) \cup {Unstamped}
    /\ \A i \in DOMAIN log : log[i].generation \in 0..generation

FirstPictures == seat["video"] = "unseated" => pending["video"] = <<>> /\ Pics(log) = {}

\* While the offset of the video track fits, no picture of this generation is ahead of the
\* encoder's clock.
NotAhead ==
    seat["video"] = "seated" =>
        /\ \A i \in Pics(log) : log[i].generation = generation => log[i].masterNs <= clock
        /\ \A i \in DOMAIN pending["video"] : pending["video"][i].masterNs <= clock

\* A keyframe on its way to the ring is later than what its generation already has there.
KeyNext ==
    \A i \in DOMAIN pending["video"] : pending["video"][i].keyframe =>
        \A j \in Pics(log) : log[j].generation = Era(pending["video"][i]) =>
            log[j].masterNs < pending["video"][i].masterNs

KeysInOrder ==
    \A j \in DOMAIN log : IsKeyframe(log[j]) =>
        \A i \in Pics(log) : i < j /\ log[i].generation = log[j].generation =>
            log[i].masterNs < log[j].masterNs

InEras == Carried /\ FirstPictures /\ NotAhead /\ KeyNext /\ KeysInOrder

LEMMA TracksAre == Track = {"video", "audio"} /\ "video" \in Track /\ "video" # "audio"
BY DEF Track

LEMMA InitInEras == Init => InEras
<1> SUFFICES ASSUME Init PROVE InEras
  OBVIOUS
<1>1. log = <<>> /\ pending = [track \in Track |-> <<>>] /\ seat["video"] = "unseated" /\ generation = 0
  BY TracksAre DEF Init
<1>2. DOMAIN log = {} /\ \A track \in Track : Len(pending[track]) = 0 /\ DOMAIN pending[track] = {}
  BY <1>1
<1> QED
  BY <1>1, <1>2, TracksAre DEF InEras, Carried, FirstPictures, NotAhead, KeyNext, KeysInOrder, Pics

\* A picture placed on the clock: a keyframe goes past all its generation has.
LEMMA NormalizeInEras ==
    ASSUME TypeOK, InEras, NEW track \in Track, NEW key \in BOOLEAN,
           NEW t \in 0..(clock + 1 + Reorder + AudioLead), Normalize(track, key, t)
    PROVE  InEras'
<1> DEFINE p == [kind |-> track, keyframe |-> key, masterNs |-> t, generation |-> Unstamped]
<1>1. /\ log' = log /\ pending[track] = <<>> /\ pending' = [pending EXCEPT ![track] = <<p>>]
      /\ seat' = [seat EXCEPT ![track] = "seated"]
      /\ generation' = IF seat[track] = "moved" THEN generation + 1 ELSE generation
      /\ clock' = IF track = "video" /\ t > clock THEN t ELSE clock
  BY DEF Normalize, ringVars
<1>2. p.kind = track /\ p.keyframe = key /\ p.masterNs = t /\ p.generation = Unstamped
  OBVIOUS
<1>3. track = "video" /\ key => t = clock + 1
  BY DEF Normalize, Instants, PictureInstants
<1> HIDE DEF p
<1>4. generation \in Nat /\ clock \in Int /\ t \in Int /\ log \in Seq(Packet)
  BY BoundsAssumption DEF TypeOK
<1>5. /\ DOMAIN pending = Track /\ DOMAIN seat = Track
      /\ seat["video"] \in {"unseated", "seated", "moved"}
  BY TracksAre DEF TypeOK
<1>6. /\ \A o \in Track : o # track => pending'[o] = pending[o] /\ seat'[o] = seat[o]
      /\ pending'[track] = <<p>> /\ seat'[track] = "seated"
  BY <1>1, <1>5
<1>7. Len(<<p>>) = 1 /\ DOMAIN <<p>> = {1} /\ <<p>>[1] = p
  OBVIOUS
<1>8. \A i \in Pics(log) : log[i].generation <= generation /\ log[i].masterNs \in Int /\ log[i].generation \in Int
  <2> SUFFICES ASSUME NEW i \in Pics(log)
               PROVE  log[i].generation <= generation /\ log[i].masterNs \in Int /\ log[i].generation \in Int
    OBVIOUS
  <2>1. log[i] \in Packet /\ log[i].generation \in 0..generation
    BY <1>4 DEF InEras, Carried, Pics
  <2>2. log[i].masterNs \in Int
    BY <2>1 DEF Packet
  <2> QED
    BY <1>4, <2>1, <2>2
<1>9. generation <= generation' /\ generation' \in Nat
  BY <1>1, <1>4
<1>10. Carried'
  <2>1. \A i \in DOMAIN log' : log'[i].generation \in 0..generation'
    BY <1>1, <1>4, <1>9 DEF InEras, Carried
  <2>2. ASSUME NEW o \in Track
        PROVE  /\ Len(pending'[o]) <= 1
               /\ \A i \in DOMAIN pending'[o] :
                    /\ pending'[o][i].kind = o
                    /\ pending'[o][i].generation \in (0..generation') \cup {Unstamped}
    <3>1. CASE o = track
      <4>1. \A i \in DOMAIN pending'[o] : pending'[o][i] = p
        BY <1>6, <1>7, <3>1
      <4>2. Len(pending'[o]) <= 1
        <5>1. pending'[o] = <<p>>
          BY <1>6, <3>1
        <5>2. Len(pending'[o]) = 1
          BY <1>7, <5>1
        <5> QED
          BY <5>2
      <4> QED
        BY <1>2, <3>1, <4>1, <4>2
    <3>2. CASE o # track
      <4>1. pending'[o] = pending[o]
        BY <1>6, <3>2
      <4>2. 0..generation \subseteq 0..generation'
        BY <1>4, <1>9
      <4> QED
        BY <4>1, <4>2 DEF InEras, Carried
    <3> QED
      BY <3>1, <3>2
  <2> QED
    BY <2>1, <2>2 DEF Carried
<1>11. FirstPictures'
  <2>1. CASE track = "video"
    BY <1>6, <2>1 DEF FirstPictures
  <2>2. CASE track # "video"
    BY <1>1, <1>6, <2>2, TracksAre DEF InEras, FirstPictures, Pics
  <2> QED
    BY <2>1, <2>2
\* Past the bump of a moved offset no picture has the generation yet.
<1>12. ASSUME seat'["video"] = "seated", NEW i \in Pics(log), log[i].generation = generation'
       PROVE  log[i].masterNs <= clock
  <2>1. generation' = generation /\ seat[track] # "moved"
    BY <1>1, <1>4, <1>8, <1>12
  <2>2. CASE track = "video"
    <3>1. seat["video"] # "unseated"
      BY <1>12 DEF InEras, FirstPictures
    <3>2. seat["video"] = "seated"
      BY <1>5, <2>1, <2>2, <3>1
    <3> QED
      BY <1>12, <2>1, <3>2 DEF InEras, NotAhead
  <2>3. CASE track # "video"
    BY <1>6, <1>12, <2>1, <2>3, TracksAre DEF InEras, NotAhead
  <2> QED
    BY <2>2, <2>3
<1>13. NotAhead'
  <2> SUFFICES ASSUME seat'["video"] = "seated"
               PROVE  /\ \A i \in Pics(log) : log[i].generation = generation' => log[i].masterNs <= clock'
                      /\ \A i \in DOMAIN pending'["video"] : pending'["video"][i].masterNs <= clock'
    BY <1>1 DEF NotAhead, Pics
  <2>1. clock <= clock' /\ clock' \in Int
    BY <1>1, <1>4
  <2>2. \A i \in Pics(log) : log[i].generation = generation' => log[i].masterNs <= clock'
    BY <1>4, <1>8, <1>12, <2>1
  <2>3. CASE track = "video"
    <3>1. t <= clock'
      BY <1>1, <1>4, <2>3
    <3>2. \A i \in DOMAIN pending'["video"] : pending'["video"][i].masterNs = t
      BY <1>2, <1>6, <1>7, <2>3
    <3> QED
      BY <2>2, <3>1, <3>2
  <2>4. CASE track # "video"
    <3>1. pending'["video"] = pending["video"] /\ seat["video"] = "seated" /\ clock' = clock
      BY <1>1, <1>6, <2>4, TracksAre
    <3> QED
      BY <2>2, <3>1 DEF InEras, NotAhead
  <2> QED
    BY <2>3, <2>4
<1>14. KeyNext'
  <2> SUFFICES ASSUME NEW i \in DOMAIN pending'["video"], pending'["video"][i].keyframe,
                      NEW j \in Pics(log), log[j].generation = Era(pending["video"][i])'
               PROVE  log[j].masterNs < pending'["video"][i].masterNs
    BY <1>1 DEF KeyNext, Pics
  <2>1. CASE track = "video"
    <3>1. pending'["video"][i] = p
      BY <1>6, <1>7, <2>1
    <3>2. log[j].generation = generation' /\ seat'["video"] = "seated" /\ t = clock + 1
          /\ pending'["video"][i].masterNs = t
      BY <1>2, <1>3, <1>6, <2>1, <3>1 DEF Era
    <3>3. log[j].masterNs <= clock
      BY <1>12, <3>2
    <3> QED
      BY <1>4, <1>8, <3>2, <3>3
  <2>2. CASE track # "video"
    <3>1. pending'["video"] = pending["video"]
      BY <1>6, <2>2, TracksAre
    <3>2. log[j].generation = Era(pending["video"][i])
      BY <1>1, <1>4, <1>8, <3>1 DEF Era
    <3> QED
      BY <3>1, <3>2 DEF InEras, KeyNext
  <2> QED
    BY <2>1, <2>2
<1>15. KeysInOrder'
  BY <1>1 DEF InEras, KeysInOrder, Pics
<1> QED
  BY <1>10, <1>11, <1>13, <1>14, <1>15 DEF InEras

LEMMA StampInEras == ASSUME TypeOK, InEras, NEW track \in Track, Stamp(track) PROVE InEras'
<1> DEFINE q == pending[track][1]
           p == [q EXCEPT !.generation = generation]
<1>1. /\ log' = log /\ generation' = generation /\ seat' = seat /\ clock' = clock
      /\ pending[track] # <<>> /\ q.generation = Unstamped
      /\ pending' = [pending EXCEPT ![track] = <<p>>]
  BY DEF Stamp, ringVars
<1>2. generation \in Nat /\ DOMAIN pending = Track /\ pending[track] \in Seq(Packet)
  BY DEF TypeOK
<1>3. q \in Packet /\ 1 \in DOMAIN pending[track] /\ q.kind = track
  <2>1. 1 \in DOMAIN pending[track]
    BY <1>1, <1>2
  <2> QED
    BY <1>2, <2>1 DEF InEras, Carried
<1> HIDE DEF q
<1>4. p.kind = track /\ p.keyframe = q.keyframe /\ p.masterNs = q.masterNs /\ p.generation = generation
  BY <1>3 DEF Packet
<1> HIDE DEF p
<1>5. \A o \in Track : o # track => pending'[o] = pending[o]
  BY <1>1, <1>2
<1>6. /\ pending'[track] = <<p>> /\ Len(pending'[track]) = 1 /\ DOMAIN pending'[track] = {1}
      /\ pending'[track][1] = p
  <2>1. pending'[track] = <<p>>
    BY <1>1, <1>2
  <2>2. Len(<<p>>) = 1 /\ DOMAIN <<p>> = {1} /\ <<p>>[1] = p
    OBVIOUS
  <2> QED
    BY <2>1, <2>2
<1>7. Carried'
  <2>1. \A i \in DOMAIN log' : log'[i].generation \in 0..generation'
    BY <1>1 DEF InEras, Carried
  <2>2. ASSUME NEW o \in Track
        PROVE  /\ Len(pending'[o]) <= 1
               /\ \A i \in DOMAIN pending'[o] :
                    /\ pending'[o][i].kind = o
                    /\ pending'[o][i].generation \in (0..generation') \cup {Unstamped}
    <3>1. CASE o = track
      BY <1>1, <1>2, <1>4, <1>6, <3>1
    <3>2. CASE o # track
      BY <1>1, <1>5, <3>2 DEF InEras, Carried
    <3> QED
      BY <3>1, <3>2
  <2> QED
    BY <2>1, <2>2 DEF Carried
<1>8. FirstPictures'
  <2>1. track = "video" => seat["video"] # "unseated"
    BY <1>1 DEF InEras, FirstPictures
  <2> QED
    BY <1>1, <1>5, <2>1, TracksAre DEF InEras, FirstPictures, Pics
<1>9. NotAhead' /\ KeyNext'
  <2>1. CASE track = "video"
    <3>1. /\ seat["video"] = "seated" => p.masterNs <= clock
          /\ p.keyframe => \A j \in Pics(log) : log[j].generation = generation => log[j].masterNs < p.masterNs
      <4>1. q = pending["video"][1] /\ Era(q) = generation
        BY <1>1, <2>1 DEF Era, q
      <4> QED
        BY <1>3, <1>4, <2>1, <4>1 DEF InEras, NotAhead, KeyNext
    <3>3. \A i \in DOMAIN pending'["video"] : pending'["video"][i] = p
      BY <1>6, <2>1
    <3>4. NotAhead'
      BY <1>1, <3>1, <3>3 DEF InEras, NotAhead, Pics
    <3>5. KeyNext'
      <4> SUFFICES ASSUME NEW i \in DOMAIN pending'["video"], pending'["video"][i].keyframe,
                          NEW j \in Pics(log), log[j].generation = Era(pending["video"][i])'
                   PROVE  log[j].masterNs < pending'["video"][i].masterNs
        BY <1>1 DEF KeyNext, Pics
      <4>1. pending'["video"][i] = p /\ log[j].generation = generation
        BY <1>1, <1>4, <3>3 DEF Era
      <4> QED
        BY <3>1, <4>1
    <3> QED
      BY <3>4, <3>5
  <2>2. CASE track # "video"
    <3>1. pending'["video"] = pending["video"]
      BY <1>5, <2>2, TracksAre
    <3> QED
      BY <1>1, <3>1 DEF InEras, NotAhead, KeyNext, Era, Pics
  <2> QED
    BY <2>1, <2>2
<1>10. KeysInOrder'
  BY <1>1 DEF InEras, KeysInOrder, Pics
<1> QED
  BY <1>7, <1>8, <1>9, <1>10 DEF InEras

LEMMA PushInEras == ASSUME TypeOK, InEras, NEW track \in Track, Push(track) PROVE InEras'
<1> DEFINE p == pending[track][1]
<1>1. /\ log' = Append(log, p) /\ generation' = generation /\ seat' = seat /\ clock' = clock
      /\ pending[track] # <<>> /\ p.generation # Unstamped
      /\ pending' = [pending EXCEPT ![track] = <<>>]
  BY DEF Push, PushPacket
<1>2. /\ generation \in Nat /\ DOMAIN pending = Track /\ pending[track] \in Seq(Packet)
      /\ log \in Seq(Packet)
  BY DEF TypeOK
<1>3. p \in Packet /\ 1 \in DOMAIN pending[track] /\ p.kind = track /\ p.generation \in 0..generation
  <2>1. 1 \in DOMAIN pending[track]
    BY <1>1, <1>2
  <2> QED
    BY <1>1, <1>2, <2>1 DEF InEras, Carried
<1>4. track = "video" =>
        /\ seat["video"] = "seated" => p.masterNs <= clock
        /\ p.keyframe => \A j \in Pics(log) : log[j].generation = p.generation => log[j].masterNs < p.masterNs
        /\ seat["video"] # "unseated"
  <2> SUFFICES ASSUME track = "video"
               PROVE  /\ seat["video"] = "seated" => p.masterNs <= clock
                      /\ p.keyframe => \A j \in Pics(log) : log[j].generation = p.generation =>
                                            log[j].masterNs < p.masterNs
                      /\ seat["video"] # "unseated"
    OBVIOUS
  <2>1. Era(p) = p.generation /\ p = pending["video"][1] /\ 1 \in DOMAIN pending["video"]
    BY <1>1, <1>3 DEF Era
  <2>2. seat["video"] = "seated" => p.masterNs <= clock
    BY <2>1 DEF InEras, NotAhead
  <2>3. p.keyframe => \A j \in Pics(log) : log[j].generation = p.generation => log[j].masterNs < p.masterNs
    BY <2>1 DEF InEras, KeyNext
  <2>4. seat["video"] # "unseated"
    BY <1>1 DEF InEras, FirstPictures
  <2> QED
    BY <2>2, <2>3, <2>4
<1> HIDE DEF p
<1>5. /\ DOMAIN log' = 1..(Len(log) + 1) /\ DOMAIN log = 1..Len(log) /\ Len(log) \in Nat
      /\ \A i \in DOMAIN log : log'[i] = log[i]
      /\ log'[Len(log) + 1] = p
  BY <1>1, <1>2, <1>3
<1>6. \A i \in DOMAIN log' : (i \in DOMAIN log /\ log'[i] = log[i]) \/ (i = Len(log) + 1 /\ log'[i] = p)
  BY <1>5
<1>7. Pics(log)' = Pics(log') /\ \A i \in Pics(log') :
        (i \in Pics(log) /\ log'[i] = log[i]) \/ (i = Len(log) + 1 /\ log'[i] = p /\ track = "video")
  BY <1>3, <1>6 DEF Pics
<1>8. /\ \A o \in Track : o # track => pending'[o] = pending[o]
      /\ Len(pending'[track]) = 0 /\ DOMAIN pending'[track] = {}
  <2>1. pending'[track] = <<>> /\ \A o \in Track : o # track => pending'[o] = pending[o]
    BY <1>1, <1>2
  <2>2. Len(<<>>) = 0 /\ DOMAIN <<>> = {}
    OBVIOUS
  <2> QED
    BY <2>1, <2>2
<1>9. Carried'
  <2>1. \A i \in DOMAIN log' : log'[i].generation \in 0..generation'
    BY <1>1, <1>3, <1>6 DEF InEras, Carried
  <2>2. ASSUME NEW o \in Track
        PROVE  /\ Len(pending'[o]) <= 1
               /\ \A i \in DOMAIN pending'[o] :
                    /\ pending'[o][i].kind = o
                    /\ pending'[o][i].generation \in (0..generation') \cup {Unstamped}
    <3>1. CASE o = track
      BY <1>8, <3>1
    <3>2. CASE o # track
      BY <1>1, <1>8, <3>2 DEF InEras, Carried
    <3> QED
      BY <3>1, <3>2
  <2> QED
    BY <2>1, <2>2 DEF Carried
<1>10. FirstPictures'
  <2> SUFFICES ASSUME seat["video"] = "unseated" PROVE pending'["video"] = <<>> /\ Pics(log') = {}
    BY <1>1, <1>7 DEF FirstPictures
  <2>1. track # "video"
    BY <1>4
  <2>2. pending'["video"] = pending["video"]
    BY <1>8, <2>1, TracksAre
  <2> QED
    BY <1>7, <2>1, <2>2 DEF InEras, FirstPictures
<1>11. NotAhead'
  <2> SUFFICES ASSUME seat["video"] = "seated"
               PROVE  /\ \A i \in Pics(log') : log'[i].generation = generation => log'[i].masterNs <= clock
                      /\ \A i \in DOMAIN pending'["video"] : pending'["video"][i].masterNs <= clock
    BY <1>1, <1>7 DEF NotAhead
  <2>1. \A i \in Pics(log') : log'[i].generation = generation => log'[i].masterNs <= clock
    BY <1>4, <1>7 DEF InEras, NotAhead
  <2>2. \A i \in DOMAIN pending'["video"] : pending'["video"][i].masterNs <= clock
    BY <1>8, TracksAre DEF InEras, NotAhead
  <2> QED
    BY <2>1, <2>2
<1>12. KeyNext'
  <2>1. CASE track = "video"
    BY <1>8, <2>1 DEF KeyNext
  <2>2. CASE track # "video"
    <3>1. pending'["video"] = pending["video"]
      BY <1>8, <2>2, TracksAre
    <3>2. \A i \in Pics(log') : i \in Pics(log) /\ log'[i] = log[i]
      BY <1>7, <2>2
    <3>3. \A i \in DOMAIN pending["video"] : Era(pending["video"][i])' = Era(pending["video"][i])
      BY <1>1, <3>1 DEF Era
    <3> SUFFICES ASSUME NEW i \in DOMAIN pending["video"], pending["video"][i].keyframe,
                        NEW j \in Pics(log'), log'[j].generation = Era(pending["video"][i])
                 PROVE  log'[j].masterNs < pending["video"][i].masterNs
      BY <1>7, <3>1, <3>3 DEF KeyNext
    <3> QED
      BY <3>2 DEF InEras, KeyNext
  <2> QED
    BY <2>1, <2>2
<1>13. KeysInOrder'
  <2> SUFFICES ASSUME NEW j \in DOMAIN log', IsKeyframe(log'[j]), NEW i \in Pics(log'), i < j,
                      log'[i].generation = log'[j].generation
               PROVE  log'[i].masterNs < log'[j].masterNs
    BY <1>7 DEF KeysInOrder
  <2>1. i \in Pics(log) /\ log'[i] = log[i]
    BY <1>5, <1>7
  <2>2. CASE j \in DOMAIN log /\ log'[j] = log[j]
    BY <2>1, <2>2 DEF InEras, KeysInOrder
  <2>3. CASE j = Len(log) + 1 /\ log'[j] = p
    <3>1. p.kind = "video" /\ p.keyframe
      BY <2>3 DEF IsKeyframe
    <3> QED
      BY <1>3, <1>4, <2>1, <2>3, <3>1
  <2> QED
    BY <1>6, <2>2, <2>3
<1> QED
  BY <1>9, <1>10, <1>11, <1>12, <1>13 DEF InEras

LEMMA StepInEras == TypeOK /\ InEras /\ [Next]_vars => InEras'
<1> SUFFICES ASSUME TypeOK, InEras, [Next]_vars PROVE InEras'
  OBVIOUS
<1>1. ASSUME NEW gap \in Gaps, Restart(gap) PROVE InEras'
  <2>1. log' = log /\ pending' = pending /\ generation' = generation
        /\ seat' = [track \in Track |-> IF seat[track] = "seated" THEN "moved" ELSE seat[track]]
    BY <1>1 DEF Restart, ringVars
  <2>2. seat'["video"] # "seated" /\ (seat'["video"] = "unseated" => seat["video"] = "unseated")
    BY <2>1, TracksAre
  <2> QED
    BY <2>1, <2>2 DEF InEras, Carried, FirstPictures, NotAhead, KeyNext, KeysInOrder, Era, Pics
<1>2. ASSUME NEW lim \in Budgets, Rearm(lim) PROVE InEras'
  <2>1. log' = <<>> /\ pending' = pending /\ (\A track \in Track : pending[track] = <<>>)
        /\ seat'["video"] = "unseated"
    BY <1>2, TracksAre DEF Rearm, Clear
  <2>2. DOMAIN log' = {} /\ \A track \in Track : Len(pending'[track]) = 0 /\ DOMAIN pending'[track] = {}
    BY <2>1
  <2> QED
    BY <2>1, <2>2, TracksAre DEF InEras, Carried, FirstPictures, NotAhead, KeyNext, KeysInOrder, Pics
<1>3. CASE UNCHANGED vars
  BY <1>3 DEF vars, ringVars, captureVars, InEras, Carried, FirstPictures, NotAhead, KeyNext,
              KeysInOrder, Era, Pics
<1> QED
  BY <1>1, <1>2, <1>3, NormalizeInEras, StampInEras, PushInEras DEF Next, NewSession, Capture

-----------------------------------------------------------------------------
(* What resolveRange answers.                                              *)

LEMMA LeastOf == ASSUME NEW S \in SUBSET Nat, S # {} PROVE \E x \in S : \A y \in S : x <= y
<1>1. PICK x \in S : \A y \in S : ~(<<y, x>> \in OpToRel(<, Nat))
  BY NatLessThanWellFounded, WFMin
<1>2. \A y \in S : ~(y < x)
  BY <1>1 DEF OpToRel
<1> QED
  BY <1>2

LEMMA EarliestIs ==
    ASSUME NEW lo \in Int, NEW hi \in Int, NEW S \in SUBSET (lo..hi), S # {}
    PROVE  EarliestOf(S) \in S /\ \A y \in S : EarliestOf(S) <= y
<1> DEFINE T == {x - lo : x \in S}
<1>1. T \in SUBSET Nat /\ T # {}
  <2>1. \A x \in S : x \in Int /\ lo <= x /\ x <= hi
    OBVIOUS
  <2>2. \A x \in S : x - lo \in Nat
    BY <2>1
  <2> QED
    BY <2>2
<1> HIDE DEF T
<1>2. PICK d \in T : \A e \in T : d <= e
  BY <1>1, LeastOf
<1>3. PICK x \in S : d = x - lo
  BY <1>2 DEF T
<1>4. \A y \in S : y \in Int /\ y - lo \in T
  BY DEF T
<1>5. \A y \in S : x <= y
  <2> SUFFICES ASSUME NEW y \in S PROVE x <= y
    OBVIOUS
  <2>1. x - lo <= y - lo /\ x \in Int /\ y \in Int
    BY <1>2, <1>3, <1>4
  <2> QED
    BY <2>1
<1> QED
  BY <1>5 DEF EarliestOf

LEMMA LatestIs ==
    ASSUME NEW lo \in Int, NEW hi \in Int, NEW S \in SUBSET (lo..hi), S # {}
    PROVE  LatestOf(S) \in S /\ \A y \in S : y <= LatestOf(S)
<1> DEFINE T == {hi - x : x \in S}
<1>1. T \in SUBSET Nat /\ T # {}
  <2>1. \A x \in S : x \in Int /\ lo <= x /\ x <= hi
    OBVIOUS
  <2>2. \A x \in S : hi - x \in Nat
    BY <2>1
  <2> QED
    BY <2>2
<1> HIDE DEF T
<1>2. PICK d \in T : \A e \in T : d <= e
  BY <1>1, LeastOf
<1>3. PICK x \in S : d = hi - x
  BY <1>2 DEF T
<1>4. \A y \in S : y \in Int /\ hi - y \in T
  BY DEF T
<1>5. \A y \in S : y <= x
  <2> SUFFICES ASSUME NEW y \in S PROVE y <= x
    OBVIOUS
  <2>1. hi - x <= hi - y /\ x \in Int /\ y \in Int
    BY <1>2, <1>3, <1>4
  <2> QED
    BY <2>1
<1> QED
  BY <1>5 DEF LatestOf

\* The decode start is a keyframe at or before IN with none between the two, the last packet
\* the last one that counts for OUT, and the instants the first and last picture's.
LEMMA Resolved ==
    ASSUME TypeOK, NEW in \in Int, NEW out \in Int, Resolves(in, out)
    PROVE  LET r == ResolvedRange(in, out)
               S == Counted(packets, r.decodeStart, out)
               P == Pictures(packets, S, in)
               Q == Pictures(packets, S, packets[r.decodeStart].masterNs)
           IN  /\ r.decodeStart \in DecodeStarts(packets, in) /\ r.decodeStart \in DOMAIN packets
               /\ r.decodeStart \in S /\ r.last \in S /\ \A i \in S : i <= r.last
               /\ OneGeneration(packets, S) /\ r.generation = packets[r.decodeStart].generation
               /\ r.presentInNs \in P /\ \A t \in P : r.presentInNs <= t
               /\ r.presentOutNs \in Q /\ \A t \in Q : t <= r.presentOutNs
<1> DEFINE D == DecodeStarts(packets, in)
           start == LatestOf(D)
           S == Counted(packets, start, out)
           P == Pictures(packets, S, in)
           Q == Pictures(packets, S, packets[start].masterNs)
<1>1. packets \in Seq(Packet) /\ Len(packets) \in Nat /\ DOMAIN packets = 1..Len(packets)
  BY DEF TypeOK
<1>2. in <= out /\ D # {} /\ OneGeneration(packets, S) /\ P # {}
  BY DEF Resolves
<1>3. \A i \in DOMAIN packets : packets[i].masterNs \in Int
  <2>1. \A i \in DOMAIN packets : packets[i] \in Packet
    BY <1>1
  <2> QED
    BY <2>1 DEF Packet
<1>4. start \in D /\ start \in DOMAIN packets /\ packets[start].masterNs <= in
  <2>1. D \in SUBSET (1..Len(packets))
    BY <1>1 DEF DecodeStarts
  <2>2. D # {} /\ 1 \in Int /\ Len(packets) \in Int
    BY <1>1, <1>2
  <2> HIDE DEF D
  <2>3. LatestOf(D) \in D
    BY <2>1, <2>2, LatestIs
  <2>4. start \in D
    BY <2>3
  <2> HIDE DEF start
  <2>5. start \in DOMAIN packets /\ start \in 1..start
    BY <1>1, <2>1, <2>4
  <2>6. IsKeyframe(packets[start]) /\ \A j \in 1..start : IsKeyframe(packets[j]) => packets[j].masterNs <= in
    BY <2>4 DEF D, DecodeStarts
  <2>7. packets[start].masterNs <= in
    BY <2>5, <2>6
  <2> QED
    BY <2>4, <2>5, <2>7
<1> HIDE DEF D, start
<1>5. S \in SUBSET (start..Len(packets)) /\ start \in S /\ S \subseteq DOMAIN packets
  <2>1. start \in start..Len(packets) /\ packets[start].masterNs <= out
    BY <1>1, <1>2, <1>3, <1>4
  <2>2. start..Len(packets) \subseteq DOMAIN packets
    BY <1>1, <1>4
  <2> QED
    BY <2>1, <2>2 DEF Counted
<1>6. LatestOf(S) \in S /\ \A i \in S : i <= LatestOf(S)
  <2> HIDE DEF S
  <2>1. S \in SUBSET (start..Len(packets)) /\ S # {} /\ start \in Int /\ Len(packets) \in Int
    BY <1>1, <1>4, <1>5
  <2> QED
    BY <2>1, LatestIs
<1>7. \A i \in S : packets[i].masterNs <= out
  BY DEF Counted
<1> HIDE DEF S
<1>8. P \in SUBSET (in..out)
  BY <1>3, <1>5, <1>7 DEF Pictures
<1>9. P \subseteq Q /\ Q \in SUBSET (packets[start].masterNs..out)
  <2>1. Q \in SUBSET (packets[start].masterNs..out)
    BY <1>3, <1>4, <1>5, <1>7 DEF Pictures
  <2>2. P \subseteq Q
    BY <1>3, <1>4, <1>5 DEF Pictures
  <2> QED
    BY <2>1, <2>2
<1> HIDE DEF P, Q
<1>10. EarliestOf(P) \in P /\ \A t \in P : EarliestOf(P) <= t
  BY <1>2, <1>8, EarliestIs
<1>11. LatestOf(Q) \in Q /\ \A t \in Q : t <= LatestOf(Q)
  <2>1. packets[start].masterNs \in Int /\ Q # {}
    BY <1>2, <1>3, <1>4, <1>9
  <2> QED
    BY <1>9, <2>1, LatestIs
<1>12. ResolvedRange(in, out) =
        [decodeStart |-> start, last |-> LatestOf(S), presentInNs |-> EarliestOf(P),
         presentOutNs |-> LatestOf(Q), generation |-> packets[start].generation]
  BY DEF ResolvedRange, start, D, S, P, Q
<1> DEFINE r == ResolvedRange(in, out)
<1>13. /\ r.decodeStart = start /\ r.last = LatestOf(S) /\ r.presentInNs = EarliestOf(P)
       /\ r.presentOutNs = LatestOf(Q) /\ r.generation = packets[start].generation
  BY <1>12
<1> HIDE DEF r
<1>14. /\ Counted(packets, r.decodeStart, out) = S
       /\ Pictures(packets, S, in) = P
       /\ Pictures(packets, S, packets[r.decodeStart].masterNs) = Q
       /\ DecodeStarts(packets, in) = D
  BY <1>13 DEF S, P, Q, D
<1> SUFFICES /\ r.decodeStart \in D /\ r.decodeStart \in DOMAIN packets
             /\ r.decodeStart \in S /\ r.last \in S /\ \A i \in S : i <= r.last
             /\ OneGeneration(packets, S) /\ r.generation = packets[r.decodeStart].generation
             /\ r.presentInNs \in P /\ \A t \in P : r.presentInNs <= t
             /\ r.presentOutNs \in Q /\ \A t \in Q : t <= r.presentOutNs
  BY <1>14 DEF r
<1> QED
  BY <1>2, <1>4, <1>5, <1>6, <1>10, <1>11, <1>13

\* A picture of the generation served that is not behind IN came after the decode start: a
\* keyframe is later than all its generation had before it.
LEMMA ServesExactly ==
    ASSUME IInv, InEras, NEW in \in Int, NEW out \in Int, Resolves(in, out)
    PROVE  LET r        == ResolvedRange(in, out)
               served   == Between(in, out, packets, r.decodeStart..r.last)
               captured == {p \in Between(in, out, log, DOMAIN log) : p.generation = r.generation}
           IN  /\ served = captured
               /\ IsKeyframe(packets[r.decodeStart])
               /\ packets[r.decodeStart].masterNs <= in
               /\ \E p \in served : p.masterNs = r.presentInNs
               /\ \E p \in served : p.masterNs = r.presentOutNs
               /\ \A p \in served : r.presentInNs <= p.masterNs /\ p.masterNs <= r.presentOutNs
<1> DEFINE r == ResolvedRange(in, out)
           start == r.decodeStart
           S == Counted(packets, start, out)
           P == Pictures(packets, S, in)
           Q == Pictures(packets, S, packets[start].masterNs)
           served == Between(in, out, packets, start..r.last)
           captured == {p \in Between(in, out, log, DOMAIN log) : p.generation = r.generation}
           n == Len(log) - Len(packets)
<1>1. /\ TypeOK /\ packets \in Seq(Packet) /\ log \in Seq(Packet) /\ EndOf(packets, log)
      /\ DOMAIN packets = 1..Len(packets) /\ DOMAIN log = 1..Len(log)
      /\ Len(packets) \in Nat /\ Len(log) \in Nat
  BY DEF IInv, TypeOK
<1>2. /\ start \in DecodeStarts(packets, in) /\ start \in DOMAIN packets
      /\ start \in S /\ r.last \in S /\ \A i \in S : i <= r.last
      /\ OneGeneration(packets, S) /\ r.generation = packets[start].generation
      /\ r.presentInNs \in P /\ \A t \in P : r.presentInNs <= t
      /\ r.presentOutNs \in Q /\ \A t \in Q : t <= r.presentOutNs
  BY <1>1, Resolved
<1> HIDE DEF r
<1>3. \A i \in S : i \in start..Len(packets) /\ packets[i].masterNs <= out
  BY DEF Counted
<1>4. \A i \in start..Len(packets) : packets[i].masterNs <= out => i \in S
  BY DEF Counted
<1>5. \A t \in P : \E i \in S : packets[i].kind = "video" /\ packets[i].masterNs >= in /\ t = packets[i].masterNs
  BY DEF Pictures
<1>6. \A i \in S : packets[i].kind = "video" /\ packets[i].masterNs >= in => packets[i].masterNs \in P
  BY DEF Pictures
<1>7. \A t \in Q : \E i \in S : packets[i].kind = "video" /\ t = packets[i].masterNs
  BY DEF Pictures
<1>8. \A i \in S : packets[i].kind = "video" /\ packets[i].masterNs >= packets[start].masterNs =>
          packets[i].masterNs \in Q
  BY DEF Pictures
<1> HIDE DEF S, P, Q
<1>9. IsKeyframe(packets[start]) /\ packets[start].masterNs <= in
  <2>1. start \in 1..start
    BY <1>1, <1>2
  <2> QED
    BY <1>2, <2>1 DEF DecodeStarts
<1>10. start \in Int /\ r.last \in Int /\ start <= r.last /\ r.last <= Len(packets) /\ 1 <= start
  BY <1>1, <1>2, <1>3
<1>11. \A i \in DOMAIN packets : packets[i] \in Packet /\ packets[i].masterNs \in Int
  <2>1. \A i \in DOMAIN packets : packets[i] \in Packet
    BY <1>1
  <2> QED
    BY <2>1 DEF Packet
<1>12. \A p : p \in served <=> \E i \in start..r.last :
          p = packets[i] /\ packets[i].kind = "video" /\ in <= packets[i].masterNs /\ packets[i].masterNs <= out
  BY DEF Between
<1>13. \A p : p \in captured <=>
          /\ p.generation = r.generation
          /\ \E i \in DOMAIN log : p = log[i] /\ log[i].kind = "video" /\ in <= log[i].masterNs
                                   /\ log[i].masterNs <= out
  BY DEF Between
<1> HIDE DEF served, captured
<1>14. \A i \in start..r.last : i \in DOMAIN packets /\ i \in start..Len(packets)
  BY <1>1, <1>10
<1>15. \A i \in DOMAIN packets : n + i \in DOMAIN log /\ packets[i] = log[n + i]
  BY <1>1 DEF EndOf
<1>16. ASSUME NEW p \in served PROVE p \in captured
  <2>1. PICK i \in start..r.last : p = packets[i] /\ packets[i].kind = "video"
                                   /\ in <= packets[i].masterNs /\ packets[i].masterNs <= out
    BY <1>12
  <2>2. i \in S /\ i \in DOMAIN packets
    BY <1>4, <1>14, <2>1
  <2>3. packets[i].generation = packets[start].generation
    BY <1>2, <2>2 DEF OneGeneration
  <2>4. n + i \in DOMAIN log /\ packets[i] = log[n + i]
    BY <1>15, <2>2
  <2> HIDE DEF n
  <2> QED
    BY <1>2, <1>13, <2>1, <2>3, <2>4
<1>17. ASSUME NEW p \in captured PROVE p \in served
  <2>1. PICK i \in DOMAIN log : p = log[i] /\ log[i].kind = "video" /\ in <= log[i].masterNs
                                /\ log[i].masterNs <= out
    BY <1>13
  <2>2. log[i].generation = packets[start].generation
    BY <1>2, <1>13, <2>1
  <2>3. n + start \in DOMAIN log /\ packets[start] = log[n + start]
    BY <1>2, <1>15
  <2>4. ~(i < n + start)
    <3> SUFFICES ASSUME i < n + start PROVE FALSE
      OBVIOUS
    <3>1. IsKeyframe(log[n + start]) /\ i \in Pics(log) /\ log[i].generation = log[n + start].generation
      BY <1>9, <2>1, <2>2, <2>3 DEF Pics
    <3>2. log[i].masterNs < log[n + start].masterNs
      BY <2>3, <3>1 DEF InEras, KeysInOrder
    <3>3. log[i].masterNs \in Int
      <4>1. log[i] \in Packet
        BY <1>1, <2>1
      <4> QED
        BY <4>1 DEF Packet
    <3> QED
      BY <1>2, <1>9, <1>11, <2>1, <2>3, <3>2, <3>3
  <2>5. i - n \in start..Len(packets) /\ i - n \in DOMAIN packets /\ n + (i - n) = i
    BY <1>1, <1>10, <2>1, <2>4
  <2> DEFINE k == i - n
  <2>6. packets[k] = log[i]
    BY <1>15, <2>5
  <2>7. k \in start..Len(packets) /\ k \in Int
    BY <2>5
  <2> HIDE DEF k
  <2>8. k \in S
    BY <1>4, <2>1, <2>6, <2>7
  <2>9. k \in start..r.last
    BY <1>2, <1>10, <2>7, <2>8
  <2> QED
    BY <1>12, <2>1, <2>6, <2>9
<1>18. \A i \in S : packets[i].kind = "video" /\ in <= packets[i].masterNs => packets[i] \in served
  <2> SUFFICES ASSUME NEW i \in S, packets[i].kind = "video", in <= packets[i].masterNs
               PROVE  packets[i] \in served
    OBVIOUS
  <2>1. i \in start..r.last /\ packets[i].masterNs <= out
    BY <1>2, <1>3, <1>10
  <2> QED
    BY <1>12, <2>1
<1>19. \A i \in S : i \in DOMAIN packets
  BY <1>1, <1>3, <1>10
<1>20. \E p \in served : p.masterNs = r.presentInNs
  <2>1. PICK i \in S : packets[i].kind = "video" /\ packets[i].masterNs >= in
                       /\ r.presentInNs = packets[i].masterNs
    BY <1>2, <1>5
  <2> QED
    BY <1>11, <1>18, <1>19, <2>1
<1>21. in <= r.presentInNs /\ r.presentInNs \in Int /\ r.presentInNs \in Q
  <2>1. PICK i \in S : packets[i].kind = "video" /\ packets[i].masterNs >= in
                       /\ r.presentInNs = packets[i].masterNs
    BY <1>2, <1>5
  <2>2. packets[i].masterNs >= packets[start].masterNs
    BY <1>2, <1>9, <1>11, <1>19, <2>1
  <2> QED
    BY <1>8, <1>11, <1>19, <2>1, <2>2
<1>22. \E p \in served : p.masterNs = r.presentOutNs
  <2>1. PICK i \in S : packets[i].kind = "video" /\ r.presentOutNs = packets[i].masterNs
    BY <1>2, <1>7
  <2>2. r.presentInNs <= r.presentOutNs
    BY <1>2, <1>21
  <2>3. in <= packets[i].masterNs
    BY <1>11, <1>19, <1>21, <2>1, <2>2
  <2> QED
    BY <1>18, <2>1, <2>3
<1>23. ASSUME NEW p \in served PROVE r.presentInNs <= p.masterNs /\ p.masterNs <= r.presentOutNs
  <2>1. PICK i \in start..r.last : p = packets[i] /\ packets[i].kind = "video"
                                   /\ in <= packets[i].masterNs /\ packets[i].masterNs <= out
    BY <1>12
  <2>2. i \in S /\ i \in DOMAIN packets
    BY <1>4, <1>14, <2>1
  <2>3. packets[i].masterNs \in P
    BY <1>6, <1>11, <2>1, <2>2
  <2>4. packets[i].masterNs \in Q
    BY <1>2, <1>8, <1>9, <1>11, <2>1, <2>2
  <2> QED
    BY <1>2, <2>1, <2>3, <2>4
<1>24. served = captured
  BY <1>16, <1>17
<1> QED
  BY <1>9, <1>20, <1>22, <1>23, <1>24 DEF r, served, captured

-----------------------------------------------------------------------------
(* The copy, a chunk at a time.                                            *)

\* The global index of the packet before the first of the session, and of the first wanted.
Before == evicted + Len(packets) - Len(log)
First == lastIdx - Len(wanted) + 1

\* Within a session what was wanted stays where it was captured, and the clip is what the
\* copy has passed of it.
Copied ==
    (copying = "running" /\ ~rearmed) =>
        /\ wanted \in Seq(Packet) /\ next \in Int /\ lastIdx \in Int
        /\ First <= next /\ next <= lastIdx
        /\ First > Before /\ lastIdx - Before <= Len(log)
        /\ \A i \in 1..Len(wanted) : wanted[i] = log[First - 1 - Before + i]
        /\ clip \in Seq(Packet) /\ Len(clip) = next - First
        /\ \A i \in 1..Len(clip) : clip[i] = wanted[i]

CopyInv == IInv /\ InEras /\ Copied /\ ClipWholeOrRefused

LEMMA LocateCopies == ASSUME IInv, NEW in \in Int, NEW out \in Int, Locate(in, out)
                      PROVE  Copied' /\ ClipWholeOrRefused'
<1> DEFINE r == ResolvedRange(in, out)
           start == r.decodeStart
           last == r.last
<1>1. /\ Resolves(in, out) /\ UNCHANGED vars
      /\ next' = evicted + start /\ lastIdx' = evicted + last
      /\ wanted' = SubSeq(packets, start, last) /\ clip' = <<>> /\ copying' = "running"
  BY DEF Locate
<1>2. /\ TypeOK /\ packets \in Seq(Packet) /\ log \in Seq(Packet) /\ EndOf(packets, log)
      /\ Len(packets) \in Nat /\ Len(log) \in Nat /\ evicted \in Nat /\ Len(packets) <= Len(log)
  BY DEF IInv, TypeOK, EndOf
<1>3. start \in 1..Len(packets) /\ last \in start..Len(packets)
  <2>1. start \in DOMAIN packets /\ last \in Counted(packets, start, out)
    BY <1>1, <1>2, Resolved
  <2> HIDE DEF r
  <2> QED
    BY <1>2, <2>1 DEF Counted
<1> HIDE DEF start, last
<1>4. /\ start \in Int /\ last \in Int /\ 1 <= start /\ start <= last /\ last <= Len(packets)
      /\ wanted' \in Seq(Packet) /\ Len(wanted') = last - start + 1
      /\ \A i \in 1..(last - start + 1) : wanted'[i] = packets[start + i - 1]
  <2>1. start \in Int /\ last \in Int /\ 1 <= start /\ start <= last /\ last <= Len(packets)
    BY <1>2, <1>3
  <2>2. /\ wanted' \in Seq(Packet) /\ Len(wanted') = last - start + 1
        /\ \A i \in 1..(last - start + 1) : wanted'[i] = packets[start + i - 1]
    <3>1. packets \in Seq(Packet) /\ wanted' = SubSeq(packets, start, last)
      BY <1>1, <1>2
    <3>2. wanted' \in Seq(Packet)
      BY <2>1, <3>1
    <3>3. Len(wanted') = last - start + 1
      BY <2>1, <3>1
    <3>4. \A i \in 1..(last - start + 1) : wanted'[i] = packets[start + i - 1]
      BY <2>1, <3>1
    <3> QED
      BY <3>2, <3>3, <3>4
  <2> QED
    BY <2>1, <2>2
<1>5. First' = next' /\ next' <= lastIdx' /\ next' \in Int /\ lastIdx' \in Int
  <2>1. next' = evicted + start /\ lastIdx' = evicted + last /\ evicted \in Int
        /\ Len(wanted') = last - start + 1 /\ start \in Int /\ last \in Int /\ start <= last
    BY <1>1, <1>2, <1>4
  <2>2. First' = lastIdx' - Len(wanted') + 1
    BY DEF First
  <2> QED
    BY <2>1, <2>2
<1>6. packets' = packets /\ evicted' = evicted /\ log' = log
  BY <1>1 DEF vars, ringVars
<1>7. Before' = evicted + Len(packets) - Len(log)
  BY <1>6 DEF Before
<1>8. First' > Before' /\ lastIdx' - Before' <= Len(log)
  BY SMTT(20), <1>1, <1>2, <1>4, <1>5, <1>7
<1>9. \A i \in 1..Len(wanted') : wanted'[i] = log[First' - 1 - Before' + i]
  <2> SUFFICES ASSUME NEW i \in 1..Len(wanted') PROVE wanted'[i] = log[First' - 1 - Before' + i]
    OBVIOUS
  <2>1. wanted'[i] = packets[start + i - 1] /\ start + i - 1 \in 1..Len(packets)
    BY <1>2, <1>4
  <2>2. packets[start + i - 1] = log[Len(log) - Len(packets) + (start + i - 1)]
    BY <1>2, <2>1 DEF EndOf
  <2>3. First' - 1 - Before' + i = Len(log) - Len(packets) + (start + i - 1)
    BY <1>1, <1>2, <1>4, <1>5, <1>7
  <2> QED
    BY <2>1, <2>2, <2>3
<1>10. clip' \in Seq(Packet) /\ Len(clip') = 0
  <2>1. clip' = <<>>
    BY <1>1
  <2> QED
    BY <2>1
<1>11. Len(clip') = next' - First' /\ \A i \in 1..Len(clip') : clip'[i] = wanted'[i]
  <2>1. Len(clip') = next' - First'
    <3>1. First' = next' /\ next' \in Int
      BY <1>5
    <3>2. Len(clip') = 0
      BY <1>10
    <3>3. \A x \in Int : x - x = 0
      OBVIOUS
    <3> QED
      BY <3>1, <3>2, <3>3
  <2>2. \A i \in 1..Len(clip') : FALSE
    BY <1>10
  <2> QED
    BY <2>1, <2>2
<1>12. Copied'
  <2>1. wanted' \in Seq(Packet) /\ next' \in Int /\ lastIdx' \in Int /\ First' <= next' /\ next' <= lastIdx'
    BY <1>4, <1>5
  <2>2. First' > Before' /\ lastIdx' - Before' <= Len(log')
    BY <1>6, <1>8
  <2>3. \A i \in 1..Len(wanted') : wanted'[i] = log'[First' - 1 - Before' + i]
    BY <1>6, <1>9
  <2>4. clip' \in Seq(Packet) /\ Len(clip') = next' - First' /\ \A i \in 1..Len(clip') : clip'[i] = wanted'[i]
    BY <1>10, <1>11
  <2> QED
    BY <2>1, <2>2, <2>3, <2>4 DEF Copied
<1> QED
  BY <1>1, <1>12 DEF ClipWholeOrRefused

LEMMA ChunkCopies == ASSUME IInv, Copied, CopyChunk PROVE Copied' /\ ClipWholeOrRefused'
<1>1. /\ copying = "running" /\ next > evicted /\ ChunkEnd - evicted <= Len(packets) /\ UNCHANGED vars
      /\ clip' = clip \o SubSeq(packets, next - evicted, ChunkEnd - evicted)
      /\ next' = ChunkEnd + 1 /\ UNCHANGED <<lastIdx, wanted, rearmed>>
      /\ copying' = IF ChunkEnd = lastIdx THEN "served" ELSE "running"
  BY DEF CopyChunk, ChunkHeld
<1>2. /\ packets \in Seq(Packet) /\ log \in Seq(Packet) /\ EndOf(packets, log)
      /\ Len(packets) \in Nat /\ Len(log) \in Nat /\ evicted \in Nat /\ Len(packets) <= Len(log)
  BY DEF IInv, TypeOK, EndOf
<1>3. packets' = packets /\ evicted' = evicted /\ log' = log
  BY <1>1 DEF vars, ringVars
<1>4. First' = First /\ Before' = Before
  BY <1>1, <1>3 DEF First, Before
<1>5. CASE rearmed
  BY <1>1, <1>5 DEF Copied, ClipWholeOrRefused
<1>6. CASE ~rearmed
  <2>1. /\ wanted \in Seq(Packet) /\ next \in Int /\ lastIdx \in Int /\ Len(wanted) \in Nat
        /\ First <= next /\ next <= lastIdx /\ First > Before /\ lastIdx - Before <= Len(log)
        /\ clip \in Seq(Packet) /\ Len(clip) = next - First
    BY <1>1, <1>6 DEF Copied
  <2>2. /\ \A i \in 1..Len(wanted) : wanted[i] = log[First - 1 - Before + i]
        /\ \A i \in 1..Len(clip) : clip[i] = wanted[i]
    BY <1>1, <1>6 DEF Copied
  <2>3. First \in Int /\ Before \in Int /\ Len(wanted) = lastIdx - First + 1
        /\ Before = evicted + Len(packets) - Len(log)
    BY <1>2, <2>1 DEF First, Before
  <2>4. ChunkEnd \in Int /\ next <= ChunkEnd /\ ChunkEnd <= lastIdx
    BY <2>1, ChunkAssumption DEF ChunkEnd
  <2> DEFINE a == next - evicted
             b == ChunkEnd - evicted
             piece == SubSeq(packets, a, b)
  <2>5. a \in Int /\ b \in Int /\ 1 <= a /\ a <= b /\ b <= Len(packets)
    BY <1>1, <1>2, <2>1, <2>4
  <2>6. /\ piece \in Seq(Packet) /\ Len(piece) = ChunkEnd - next + 1
        /\ \A i \in 1..(ChunkEnd - next + 1) : piece[i] = packets[a + i - 1]
    <3>1. b - a + 1 = ChunkEnd - next + 1
      BY <1>2, <2>1, <2>4
    <3> HIDE DEF a, b
    <3>2. /\ piece \in Seq(Packet) /\ Len(piece) = b - a + 1
          /\ \A i \in 1..(b - a + 1) : piece[i] = packets[a + i - 1]
      BY <1>2, <2>5
    <3> QED
      BY <3>1, <3>2
  <2>7. \A i \in 1..(ChunkEnd - next + 1) : packets[a + i - 1] = wanted[Len(clip) + i]
    <3> SUFFICES ASSUME NEW i \in 1..(ChunkEnd - next + 1) PROVE packets[a + i - 1] = wanted[Len(clip) + i]
      OBVIOUS
    <3>1. a + i - 1 \in 1..Len(packets)
      BY <1>2, <2>1, <2>4, <2>5
    <3>2. packets[a + i - 1] = log[Len(log) - Len(packets) + (a + i - 1)]
      <4> HIDE DEF a
      <4> QED
        BY <1>2, <3>1 DEF EndOf
    <3>3. Len(clip) + i \in 1..Len(wanted)
      BY <2>1, <2>3, <2>4
    <3>4. wanted[Len(clip) + i] = log[First - 1 - Before + (Len(clip) + i)]
      BY <2>2, <3>3
    <3>5. First - 1 - Before + (Len(clip) + i) = Len(log) - Len(packets) + (a + i - 1)
      BY <1>2, <2>1, <2>3
    <3> QED
      BY <3>2, <3>4, <3>5
  <2> HIDE DEF a, b, piece
  <2>8. clip' = clip \o piece
    BY <1>1 DEF piece, a, b
  <2>9. /\ clip' \in Seq(Packet) /\ Len(clip') = ChunkEnd + 1 - First
        /\ \A i \in 1..Len(clip') : clip'[i] = IF i <= Len(clip) THEN clip[i] ELSE piece[i - Len(clip)]
    <3>1. clip' \in Seq(Packet) /\ Len(clip') = Len(clip) + Len(piece)
          /\ \A i \in 1..Len(clip') : clip'[i] = IF i <= Len(clip) THEN clip[i] ELSE piece[i - Len(clip)]
      BY <2>1, <2>6, <2>8
    <3>2. Len(clip) + Len(piece) = ChunkEnd + 1 - First
      BY <2>1, <2>3, <2>4, <2>6
    <3> QED
      BY <3>1, <3>2
  <2>10. \A i \in 1..Len(clip') : clip'[i] = wanted[i]
    <3> SUFFICES ASSUME NEW i \in 1..Len(clip') PROVE clip'[i] = wanted[i]
      OBVIOUS
    <3>1. CASE i <= Len(clip)
      <4>1. i \in 1..Len(clip)
        BY <2>1, <3>1
      <4> QED
        BY <2>2, <2>9, <3>1, <4>1
    <3>2. CASE ~(i <= Len(clip))
      <4>1. i - Len(clip) \in 1..(ChunkEnd - next + 1) /\ Len(clip) + (i - Len(clip)) = i
        BY <2>1, <2>3, <2>4, <2>9, <3>2
      <4>2. piece[i - Len(clip)] = wanted[i]
        BY <2>6, <2>7, <4>1
      <4> QED
        BY <2>9, <3>2, <4>2
    <3> QED
      BY <3>1, <3>2
  <2>11. CASE ChunkEnd = lastIdx
    <3>1. Len(clip') = Len(wanted)
      <4>1. Len(clip') = ChunkEnd + 1 - First /\ Len(wanted) = lastIdx - First + 1
            /\ First \in Int /\ lastIdx \in Int
        BY <2>1, <2>3, <2>9
      <4> QED
        BY <2>11, <4>1
    <3>2. clip' = wanted
      BY <2>1, <2>9, <2>10, <3>1, SeqEqual
    <3> QED
      BY <1>1, <2>11, <3>2 DEF Copied, ClipWholeOrRefused
  <2>12. CASE ChunkEnd # lastIdx
    <3>1. next' \in Int /\ First <= next' /\ next' <= lastIdx /\ Len(clip') = next' - First
      BY <1>1, <2>1, <2>3, <2>4, <2>9, <2>12
    <3>2. Copied'
      BY <1>1, <1>3, <1>4, <2>1, <2>2, <2>9, <2>10, <3>1 DEF Copied
    <3> QED
      BY <1>1, <2>12, <3>2 DEF ClipWholeOrRefused
  <2> QED
    BY <2>11, <2>12
<1> QED
  BY <1>5, <1>6

\* The encoders push and evict under a copy: what it wants stays where it is.
LEMMA CaptureCopies ==
    ASSUME IInv, Copied, ClipWholeOrRefused, Capture, UNCHANGED copyVars
    PROVE  Copied' /\ ClipWholeOrRefused'
<1>1. /\ packets \in Seq(Packet) /\ log \in Seq(Packet) /\ TypeOK
      /\ Len(packets) \in Nat /\ Len(log) \in Nat /\ evicted \in Nat
  BY DEF IInv, TypeOK
<1>2. ClipWholeOrRefused' /\ First' = First
  BY DEF copyVars, ClipWholeOrRefused, First
<1>3. CASE UNCHANGED ringVars
  <2>1. Before' = Before /\ log' = log
    BY <1>3 DEF ringVars, Before
  <2> QED
    BY <1>2, <2>1 DEF Copied, copyVars
<1>4. ASSUME NEW track \in Track, Push(track) PROVE Copied'
  <2> DEFINE p == pending[track][1]
             ps == Append(packets, p)
  <2>1. p \in Packet /\ PushPacket(p)
    BY <1>1, <1>4, PushedIsPacket DEF Push
  <2>2. PICK head \in Heads(ps) :
          Len(packets') = Len(packets) + 1 - (head - 1) /\ evicted' = evicted + (head - 1)
    BY <1>1, <2>1, PushFacts
  <2>3. log' = Append(log, p)
    BY <2>1 DEF PushPacket
  <2> HIDE DEF p
  <2>4. /\ Len(log') = Len(log) + 1 /\ \A i \in 1..Len(log) : log'[i] = log[i]
    BY <1>1, <2>1, <2>3
  <2>5. head \in Int
    BY <1>1, <2>1, <2>2 DEF Heads
  <2>6. Before' = Before /\ Before \in Int
    <3>1. /\ Len(packets') = Len(packets) + 1 - (head - 1) /\ evicted' = evicted + (head - 1)
          /\ Len(log') = Len(log) + 1 /\ Len(packets) \in Int /\ Len(log) \in Int /\ evicted \in Int
      BY <1>1, <2>2, <2>4
    <3>2. Before' = evicted' + Len(packets') - Len(log') /\ Before = evicted + Len(packets) - Len(log)
      BY DEF Before
    <3> QED
      BY <2>5, <3>1, <3>2
  <2> SUFFICES ASSUME copying = "running", ~rearmed
               PROVE  /\ lastIdx - Before <= Len(log')
                      /\ \A i \in 1..Len(wanted) : wanted[i] = log'[First - 1 - Before + i]
    BY <1>2, <2>6 DEF Copied, copyVars
  <2>7. /\ wanted \in Seq(Packet) /\ lastIdx \in Int /\ First > Before /\ lastIdx - Before <= Len(log)
        /\ \A i \in 1..Len(wanted) : wanted[i] = log[First - 1 - Before + i]
    BY DEF Copied
  <2>8. First \in Int /\ Len(wanted) = lastIdx - First + 1 /\ Len(wanted) \in Nat
    BY <2>7 DEF First
  <2>9. \A i \in 1..Len(wanted) : First - 1 - Before + i \in 1..Len(log)
    BY <1>1, <2>6, <2>7, <2>8
  <2>10. lastIdx - Before <= Len(log')
    BY <1>1, <2>4, <2>6, <2>7
  <2> QED
    BY <2>4, <2>7, <2>9, <2>10
<1>5. UNCHANGED ringVars \/ \E track \in Track : Push(track)
  BY DEF Capture, Normalize, Stamp, Restart
<1> QED
  BY <1>2, <1>3, <1>4, <1>5

LEMMA InitCopied == CopyInit => CopyInv
<1> SUFFICES ASSUME CopyInit PROVE CopyInv
  OBVIOUS
<1> QED
  BY InvInit, InitInEras DEF CopyInit, CopyInv, Copied, ClipWholeOrRefused

LEMMA StepCopied == CopyInv /\ [CopyNext]_allVars => CopyInv'
<1> SUFFICES ASSUME CopyInv, [CopyNext]_allVars PROVE CopyInv'
  OBVIOUS
<1>1. IInv /\ InEras /\ TypeOK /\ Copied /\ ClipWholeOrRefused
  BY DEF CopyInv, IInv
<1>2. [Next]_vars
  BY DEF CopyNext, EncoderStep, Rearmed, Locate, CopyChunk, Refuse, TakeAnswer, Next, allVars
<1>3. IInv' /\ InEras'
  BY <1>1, <1>2, InvStep, StepInEras
<1>4. CASE EncoderStep
  <2>1. Copied' /\ ClipWholeOrRefused'
    BY <1>1, <1>4, CaptureCopies DEF EncoderStep
  <2> QED
    BY <1>3, <2>1 DEF CopyInv
<1>5. CASE Rearmed
  <2>1. Copied' /\ ClipWholeOrRefused'
    BY <1>5 DEF Rearmed, Copied, ClipWholeOrRefused
  <2> QED
    BY <1>3, <2>1 DEF CopyInv
<1>6. ASSUME NEW in \in 0..newest, NEW out \in in..newest, Locate(in, out) PROVE CopyInv'
  <2>1. in \in Int /\ out \in Int
    OBVIOUS
  <2>2. Copied' /\ ClipWholeOrRefused'
    BY <1>1, <1>6, <2>1, LocateCopies
  <2> QED
    BY <1>3, <2>2 DEF CopyInv
<1>7. CASE CopyChunk
  BY <1>1, <1>3, <1>7, ChunkCopies DEF CopyInv
<1>8. CASE Refuse \/ TakeAnswer
  <2>1. Copied' /\ ClipWholeOrRefused'
    BY <1>8 DEF Refuse, TakeAnswer, Copied, ClipWholeOrRefused
  <2> QED
    BY <1>3, <2>1 DEF CopyInv
<1>9. CASE UNCHANGED allVars
  <2>1. UNCHANGED <<packets, evicted, log, copying, next, lastIdx, clip, wanted, rearmed>>
    BY <1>9 DEF allVars, vars, ringVars, copyVars
  <2>2. Copied' /\ ClipWholeOrRefused'
    BY <1>1, <2>1 DEF Copied, ClipWholeOrRefused, First, Before
  <2> QED
    BY <1>3, <2>2 DEF CopyInv
<1> QED
  BY <1>4, <1>5, <1>6, <1>7, <1>8, <1>9 DEF CopyNext

LEMMA CopyInvariant == CopySpec => []CopyInv
BY InitCopied, StepCopied, PTL DEF CopySpec

\* A clip is the range that was located, packet for packet, or there is none: over any
\* pushes, evictions and restarts between two chunks.
THEOREM ClipsAreWhole == CopySpec => []ClipWholeOrRefused
<1>1. CopyInv => ClipWholeOrRefused
  BY DEF CopyInv
<1> QED
  BY <1>1, CopyInvariant, PTL

\* A range that resolves holds all that was captured in it in its generation, and nothing else.
THEOREM RangesAreExact == CopySpec => []ServedExactly
<1>1. CopyInv => ServedExactly
  <2> SUFFICES ASSUME CopyInv, NEW in \in 0..newest, NEW out \in in..newest, Resolves(in, out)
               PROVE  LET r        == ResolvedRange(in, out)
                          served   == Between(in, out, packets, r.decodeStart..r.last)
                          captured == {p \in Between(in, out, log, DOMAIN log) : p.generation = r.generation}
                      IN  /\ served = captured
                          /\ IsKeyframe(packets[r.decodeStart])
                          /\ packets[r.decodeStart].masterNs <= in
                          /\ \E p \in served : p.masterNs = r.presentInNs
                          /\ \E p \in served : p.masterNs = r.presentOutNs
                          /\ \A p \in served : r.presentInNs <= p.masterNs /\ p.masterNs <= r.presentOutNs
    BY DEF ServedExactly
  <2>1. in \in Int /\ out \in Int /\ IInv /\ InEras
    BY DEF CopyInv
  <2> QED
    BY <2>1, ServesExactly
<1> QED
  BY <1>1, CopyInvariant, PTL

\* The whole of PacketRing goes on under a copy as it does without one.
THEOREM CopyIsRing == CopySpec => Spec
<1>1. CopyInit => Init
  BY DEF CopyInit
<1>2. [CopyNext]_allVars => [Next]_vars
  BY DEF CopyNext, EncoderStep, Rearmed, Locate, CopyChunk, Refuse, TakeAnswer, Next, allVars
<1> QED
  BY <1>1, <1>2, PTL DEF CopySpec, Spec
=============================================================================
