----------------------------- MODULE PacketRing -----------------------------
(***************************************************************************)
(* One camera's live history: src/packet-ring.cpp, fed the way             *)
(* PacketTap::tapEncodedPacket feeds it.                                   *)
(*                                                                         *)
(* The video and the audio encoder thread each take a packet through three *)
(* steps: MasterTimeline::normalize places it on the shared clock and      *)
(* bumps the channel's generation when the track's offset moved; the       *)
(* generation is loaded again and stamped on it; the packet is pushed      *)
(* under ringMutex.  Only the last step holds a lock, so the two threads   *)
(* interleave between all three.                                           *)
(*                                                                         *)
(* Data kept: a packet is its track, whether it is a keyframe, its instant *)
(* on the master clock (in frame times) and its generation.  Every packet  *)
(* weighs one unit against RingLimits::maxBytes.                           *)
(***************************************************************************)
EXTENDS Integers, Sequences, FiniteSets

CONSTANTS
    Budgets,    \* the RingLimits a session may be armed with
    MaxPush,    \* bound: packets handed over in a behaviour
    Reorder,    \* bound: how far ahead of its turn a reordered (B-frame) picture is
    AudioLead,  \* bound: how far audio may run ahead of video
    Gaps        \* how far the master clock may move across an encoder restart

RingLimits == [maxBytes : Nat, maxDurationNs : Nat]   \* 0 = unbounded

ASSUME BudgetsAssumption == Budgets \subseteq RingLimits /\ Budgets # {}
ASSUME BoundsAssumption  == MaxPush \in Nat /\ Reorder \in Nat /\ AudioLead \in Nat
ASSUME GapsAssumption    == Gaps \subseteq Int

Track  == {"video", "audio"}
Packet == [kind : Track, keyframe : BOOLEAN, masterNs : Int, generation : Int]
Unstamped == -1   \* normalized, its generation not loaded yet

VARIABLES
    packets,     \* PacketRing::packets_
    bytes,       \* PacketRing::bytes_
    newest,      \* PacketRing::newestNs_
    limits,      \* PacketRing::limits_
    pushed,      \* PacketRing::pushed_
    evicted,     \* PacketRing::evicted_
    generation,  \* Channel::generation
    seat,        \* per track: is MasterTimeline's offset learned, and does it still fit?
    pending,     \* per track: the packet its encoder thread is carrying, if any
    clock,       \* the encoder: the latest video instant it has produced
    gop,         \* the encoder: the instant of its latest keyframe, 0 before the first
    log          \* history: everything pushed since the last clear()

ringVars    == <<packets, bytes, newest, limits, pushed, evicted, log>>
captureVars == <<generation, seat, pending, clock, gop>>
vars        == <<ringVars, captureVars>>

-----------------------------------------------------------------------------
(* The ring: push, evict, clear, resolveRange.                             *)

IsKeyframe(p) == p.kind = "video" /\ p.keyframe

\* Mutant: eviction that stops at any picture.
AnyPicture(ps) == {1} \cup {i \in 2..Len(ps) : ps[i].kind = "video"}

\* Where the eviction loop can leave the head of `ps`: where it is, or at any later
\* video keyframe.
Heads(ps) == {1} \cup {i \in 2..Len(ps) : IsKeyframe(ps[i])}

\* The loop's overLimit(), once the head of `ps` is at `head`.
OverLimit(ps, head, latest, lim) ==
    \/ lim.maxBytes > 0 /\ Len(ps) - head + 1 > lim.maxBytes
    \/ lim.maxDurationNs > 0 /\ latest - ps[head].masterNs > lim.maxDurationNs

\* Mutant: one GOP per push, whether that is enough or not.
OneGopPerPush(ps, head, latest, lim) ==
    IF head = 1 THEN ~OverLimit(ps, 1, latest, lim) \/ Heads(ps) = {1}
    ELSE OverLimit(ps, 1, latest, lim) /\ \A h \in Heads(ps) : h < head => h = 1

\* The loop goes from keyframe to keyframe and stops at the first head that fits, or at
\* the last one there is.
StopsAt(ps, head, latest, lim) ==
    /\ \A h \in Heads(ps) : h < head => OverLimit(ps, h, latest, lim)
    /\ OverLimit(ps, head, latest, lim) => \A h \in Heads(ps) : h <= head

\* One eviction pass over `ps`; the live edge is the one this push left.
EvictFrom(ps) ==
    \E head \in Heads(ps) :
        /\ StopsAt(ps, head, newest', limits)
        /\ packets' = SubSeq(ps, head, Len(ps))
        /\ bytes' = bytes + 1 - (head - 1)
        /\ evicted' = evicted + (head - 1)

PushPacket(p) ==
    /\ newest' = IF p.masterNs > newest THEN p.masterNs ELSE newest
    /\ pushed' = pushed + 1
    /\ log' = Append(log, p)
    /\ EvictFrom(Append(packets, p))
    /\ UNCHANGED limits

Clear ==
    /\ packets' = <<>>
    /\ bytes' = 0
    /\ newest' = 0
    /\ log' = <<>>
    /\ UNCHANGED <<pushed, evicted>>

\* The keyframes the scan of resolveRange passes: it breaks at the first one after IN.
DecodeStarts(ps, in) ==
    {i \in DOMAIN ps :
        /\ IsKeyframe(ps[i])
        /\ \A j \in 1..i : IsKeyframe(ps[j]) => ps[j].masterNs <= in}

LatestOf(S) == CHOOSE i \in S : \A j \in S : j <= i
EarliestOf(S) == CHOOSE i \in S : \A j \in S : i <= j

\* Mutant: the scan stops at the first packet past OUT, as if packets came in order.
CountedInOrder(ps, start, out) ==
    {i \in start..Len(ps) : \A j \in start..i : ps[j].masterNs <= out}

\* The packets that count for OUT: the whole tail is scanned, the two tracks interleave.
Counted(ps, start, out) == {i \in start..Len(ps) : ps[i].masterNs <= out}

Pictures(ps, S, in) == {ps[i].masterNs : i \in {k \in S : ps[k].kind = "video" /\ ps[k].masterNs >= in}}

OneGeneration(ps, S) == \A i, j \in S : ps[i].generation = ps[j].generation

Resolves(in, out) ==
    /\ packets # <<>>
    /\ in <= out
    /\ packets[1].masterNs <= in
    /\ out <= newest
    /\ DecodeStarts(packets, in) # {}
    /\ LET start == LatestOf(DecodeStarts(packets, in))
           S     == Counted(packets, start, out)
       IN  OneGeneration(packets, S) /\ Pictures(packets, S, in) # {}

ResolvedRange(in, out) ==
    LET start == LatestOf(DecodeStarts(packets, in))
        S     == Counted(packets, start, out)
    IN  [decodeStart  |-> start,
         last         |-> LatestOf(S),
         presentInNs  |-> EarliestOf(Pictures(packets, S, in)),
         presentOutNs |-> LatestOf(Pictures(packets, S, packets[start].masterNs)),
         generation   |-> packets[start].generation]

-----------------------------------------------------------------------------
(* The encoder threads.                                                    *)

\* Instants the encoder may give its next picture: keyframes come in order, the
\* pictures between two of them may be reordered among themselves.
PictureInstants(key) ==
    IF key THEN {clock + 1}
    ELSE {t \in (gop + 1)..(clock + 1 + Reorder) :
            \A i \in DOMAIN log : log[i].kind = "video" => log[i].masterNs # t}

Instants(track, key) ==
    IF track = "audio" THEN clock..(clock + AudioLead) ELSE PictureInstants(key)

\* An encoder starts with a keyframe; audio has none.
MayBe(track, key) ==
    IF track = "audio" THEN ~key /\ clock > 0 ELSE key \/ gop > 0

\* MasterTimeline::normalize, and the generation bump of a track whose offset moved.
Normalize(track, key, t) ==
    /\ pushed < MaxPush
    /\ pending[track] = <<>>
    /\ MayBe(track, key)
    /\ t \in Instants(track, key)
    /\ seat' = [seat EXCEPT ![track] = "seated"]
    /\ generation' = IF seat[track] = "moved" THEN generation + 1 ELSE generation
    /\ pending' = [pending EXCEPT ![track] =
            <<[kind |-> track, keyframe |-> key, masterNs |-> t, generation |-> Unstamped]>>]
    /\ clock' = IF track = "video" /\ t > clock THEN t ELSE clock
    /\ gop' = IF key THEN t ELSE gop
    /\ UNCHANGED ringVars

\* The generation is loaded after the bump, not with it: the other track's bump counts.
Stamp(track) ==
    /\ pending[track] # <<>>
    /\ pending[track][1].generation = Unstamped
    /\ pending' = [pending EXCEPT ![track] =
            <<[pending[track][1] EXCEPT !.generation = generation]>>]
    /\ UNCHANGED <<ringVars, generation, seat, clock, gop>>

Push(track) ==
    /\ pending[track] # <<>>
    /\ pending[track][1].generation # Unstamped
    /\ PushPacket(pending[track][1])
    /\ pending' = [pending EXCEPT ![track] = <<>>]
    /\ UNCHANGED <<generation, seat, clock, gop>>

-----------------------------------------------------------------------------
(* What the world and the operator do.                                     *)

\* Branch Output replaces the encoder, or the clock jumps: both tracks will find their
\* offset gone, each when its own next packet arrives.
Restart(gap) ==
    /\ \E track \in Track : seat[track] = "seated"
    /\ clock + gap >= 0
    /\ seat' = [track \in Track |-> IF seat[track] = "seated" THEN "moved" ELSE seat[track]]
    /\ clock' = clock + gap
    /\ gop' = 0
    /\ UNCHANGED <<ringVars, generation, pending>>

\* armAsync() opens a new session on a detached channel whose capture has ended.
Rearm(lim) ==
    /\ \A track \in Track : pending[track] = <<>>
    /\ Clear
    /\ limits' = lim
    /\ generation' = 0
    /\ seat' = [track \in Track |-> "unseated"]
    /\ clock' = 0 /\ gop' = 0   \* instants are counted from the start of the session
    /\ UNCHANGED pending

-----------------------------------------------------------------------------
Init ==
    /\ packets = <<>> /\ bytes = 0 /\ newest = 0
    /\ pushed = 0 /\ evicted = 0
    /\ limits \in Budgets
    /\ generation = 0
    /\ seat = [track \in Track |-> "unseated"]
    /\ pending = [track \in Track |-> <<>>]
    /\ clock = 0 /\ gop = 0
    /\ log = <<>>

Capture ==
    \/ \E track \in Track, key \in BOOLEAN, t \in 0..(clock + 1 + Reorder + AudioLead) :
            Normalize(track, key, t)
    \/ \E track \in Track : Stamp(track)
    \/ \E track \in Track : Push(track)
    \/ \E gap \in Gaps : Restart(gap)

NewSession == \E lim \in Budgets : Rearm(lim)

Next == Capture \/ NewSession

Spec == Init /\ [][Next]_vars

-----------------------------------------------------------------------------
(* Properties.                                                             *)

\* The state is well formed, and the counters agree with what the ring holds.
TypeOK ==
    /\ packets \in Seq(Packet) /\ log \in Seq(Packet)
    /\ bytes = Len(packets)
    /\ newest \in Int
    /\ limits \in RingLimits
    /\ pushed \in Nat /\ evicted \in Nat
    /\ generation \in Nat
    /\ seat \in [Track -> {"unseated", "seated", "moved"}]
    /\ pending \in [Track -> Seq(Packet)]
    /\ clock \in Int /\ gop \in Int

\* Once anything has been evicted, the ring is not empty and the oldest packet held is a
\* video keyframe (proved; TLC sees it through CapturedFootage's cuts): the oldest seconds in memory are seconds a decoder can start on (evict(), "the ring must
\* always begin at a video keyframe"), and eviction never takes the last GOP.
HeadDecodable ==
    Len(log) > Len(packets) => packets # <<>> /\ IsKeyframe(packets[1])

\* The ring is over its budget only when it is down to a single GOP, which it keeps to
\* stay decodable: one eviction pass is always enough, however many GOPs it must drop.
WithinBudgetOrOneGop ==
    (packets # <<>> /\ OverLimit(packets, 1, newest, limits)) => Heads(packets) = {1}

\* What the ring holds is the end of what was captured: eviction never leaves a hole
\* behind the live edge, in whatever order the two encoder threads pushed.
RingIsTail ==
    /\ Len(packets) <= Len(log)
    /\ packets = SubSeq(log, Len(log) - Len(packets) + 1, Len(log))

\* The live edge is never behind a packet the ring holds, though pictures arrive
\* reordered and the tracks interleave.
LiveEdgeCovers == \A i \in DOMAIN packets : packets[i].masterNs <= newest

\* The ring implements the footage it promises.
Footage == INSTANCE CapturedFootage
    WITH footage <- log, from <- Len(log) - Len(packets) + 1
FootageSpec == Footage!Spec

=============================================================================
