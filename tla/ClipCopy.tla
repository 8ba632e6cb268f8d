------------------------------ MODULE ClipCopy ------------------------------
(***************************************************************************)
(* PacketTap::resolveRange: a clip is located in the ring under ringMutex  *)
(* and then copied out a chunk at a time, the lock released in between so  *)
(* that the encoder threads of PacketRing, and armAsync(), run meanwhile.  *)
(* A packet is named by its global index: its position plus everything     *)
(* evictedPackets() counted before it.                                     *)
(***************************************************************************)
EXTENDS PacketRing

CONSTANT Chunk   \* kChunk: packets copied per critical section (32 in the code)

ASSUME ChunkAssumption == Chunk \in Nat \ {0}

VARIABLES
    copying,   \* "no", "running", "served" or "refused"
    next,      \* global index of the next packet to copy
    lastIdx,   \* global index of the last packet of the range
    clip,      \* packetsOut
    wanted,    \* history: the packets the range resolved to
    rearmed    \* history: a session began since the range was resolved

copyVars == <<copying, next, lastIdx, clip, wanted, rearmed>>
allVars  == <<vars, copyVars>>

\* The first critical section: where the range is.
Locate(in, out) ==
    /\ copying = "no"
    /\ Resolves(in, out)
    /\ LET r == ResolvedRange(in, out)
       IN  /\ next' = evicted + r.decodeStart
           /\ lastIdx' = evicted + r.last
           /\ wanted' = SubSeq(packets, r.decodeStart, r.last)
    /\ clip' = <<>>
    /\ copying' = "running"
    /\ rearmed' = FALSE
    /\ UNCHANGED vars

ChunkEnd == IF next + Chunk - 1 < lastIdx THEN next + Chunk - 1 ELSE lastIdx

\* Every index of the chunk is still in the ring.
ChunkHeld == next > evicted /\ ChunkEnd - evicted <= Len(packets)

CopyChunk ==
    /\ copying = "running" /\ ChunkHeld
    /\ clip' = clip \o SubSeq(packets, next - evicted, ChunkEnd - evicted)
    /\ next' = ChunkEnd + 1
    /\ copying' = IF ChunkEnd = lastIdx THEN "served" ELSE "running"
    /\ UNCHANGED <<vars, lastIdx, wanted, rearmed>>

\* Mutant: carry on with what is left.
CarryOn ==
    /\ copying = "running" /\ ~ChunkHeld
    /\ next' = evicted + 1
    /\ copying' = IF evicted + 1 > lastIdx THEN "served" ELSE "running"
    /\ UNCHANGED <<vars, lastIdx, clip, wanted, rearmed>>

Refuse ==
    /\ copying = "running" /\ ~ChunkHeld
    /\ clip' = <<>>
    /\ copying' = "refused"
    /\ UNCHANGED <<vars, next, lastIdx, wanted, rearmed>>

\* The caller takes the clip, or the refusal, and may come back for another one.
TakeAnswer ==
    /\ copying \in {"served", "refused"}
    /\ copying' = "no"
    /\ next' = 0 /\ lastIdx' = 0
    /\ clip' = <<>> /\ wanted' = <<>> /\ rearmed' = FALSE
    /\ UNCHANGED vars

\* An answered copy is the caller's own memory, and waits for nothing of the ring's.
EncoderStep == copying \in {"no", "running"} /\ Capture /\ UNCHANGED copyVars

Rearmed ==
    /\ copying \in {"no", "running"}
    /\ NewSession
    /\ rearmed' = (rearmed \/ copying = "running")
    /\ UNCHANGED <<copying, next, lastIdx, clip, wanted>>

CopyInit ==
    /\ Init
    /\ copying = "no" /\ next = 0 /\ lastIdx = 0
    /\ clip = <<>> /\ wanted = <<>> /\ rearmed = FALSE

CopyNext ==
    \/ EncoderStep
    \/ Rearmed
    \/ \E in \in 0..newest : \E out \in in..newest : Locate(in, out)
    \/ CopyChunk
    \/ Refuse
    \/ TakeAnswer

CopySpec == CopyInit /\ [][CopyNext]_allVars

-----------------------------------------------------------------------------
(* Properties.                                                             *)

\* Every range resolveRange accepts is served whole and unspliced: the pictures of the
\* clip between IN and OUT are exactly those this session captured there in the
\* generation it serves, none of another generation is among them, and the first and
\* last instants it reports are the first and last picture.  (What the ring answers does not
\* depend on a copy in progress.)
Between(in, out, ps, S) ==
    {ps[i] : i \in {k \in S : ps[k].kind = "video" /\ in <= ps[k].masterNs /\ ps[k].masterNs <= out}}

ServedExactly ==
    copying = "no" => \A in \in 0..newest : \A out \in in..newest :
        Resolves(in, out) =>
            LET r        == ResolvedRange(in, out)
                served   == Between(in, out, packets, r.decodeStart..r.last)
                captured == {p \in Between(in, out, log, DOMAIN log) : p.generation = r.generation}
            IN  /\ served = captured
                /\ IsKeyframe(packets[r.decodeStart])
                /\ packets[r.decodeStart].masterNs <= in
                /\ \E p \in served : p.masterNs = r.presentInNs
                /\ \E p \in served : p.masterNs = r.presentOutNs
                /\ \A p \in served : r.presentInNs <= p.masterNs /\ p.masterNs <= r.presentOutNs

\* Within one session the clip handed over is, packet for packet, the range that was
\* resolved, however much the encoder pushed and evicted between two chunks; when
\* eviction caught up with the copy it is refused (packet-tap.cpp:817-825).
ClipWholeOrRefused ==
    /\ (copying = "served" /\ ~rearmed) => clip = wanted
    /\ copying = "refused" => clip = <<>>

=============================================================================
