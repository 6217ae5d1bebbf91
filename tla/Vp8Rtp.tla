------------------------------- MODULE Vp8Rtp --------------------------------
(***************************************************************************)
(* VP8 frames over RTP (plugins/video/codec/xvpx): the encoder object of   *)
(* one side splits each frame into packets that fit the MTU, the decoder   *)
(* object of the other side puts the payloads together again and hands     *)
(* them to the codec.                                                      *)
(*                                                                         *)
(* A packet begins with a descriptor of one byte that says which part of   *)
(* the frame follows, and in the first packet of a frame a picture id.     *)
(* The packets go over UDP: they are lost, repeated and reordered.         *)
(*                                                                         *)
(* The i-th byte of frame f is <<f, i>>.  seen and whole are history: the  *)
(* part of a frame that has arrived in order and without a gap, and the    *)
(* frame that was complete with the packet handled last.                   *)
(***************************************************************************)
EXTENDS Naturals, Sequences

CONSTANTS MTU,         \* bytes of a packet
          PidRange,    \* picture ids are numbers below 2^7
          Sizes,       \* bytes of the frames the codec makes
          MaxFrames,   \* frames that are encoded
          MaxNet,      \* packets on their way at a time
          MaxBuffer,   \* packets are repeated while the buffer is shorter
          MaxFailures  \* DEFAULT_IOLIFECOUNT

\* A packet has room for the descriptor, a picture id and a byte of payload.
ASSUME MtuAssumption == MTU \in Nat /\ MTU > 2
ASSUME BoundAssumption ==
    /\ PidRange \in Nat \ {0} /\ Sizes \subseteq Nat \ {0} /\ MaxFrames \in Nat
    /\ MaxNet \in Nat /\ MaxBuffer \in Nat /\ MaxFailures \in Nat

VARIABLES seqno,     \* packets sent
          sizes,     \* sizes of the frames encoded so far
          pids,      \* their picture ids
          off,       \* bytes of the last frame that were sent
          elapsed,   \* bytes expected to be left after the next packet
          net,       \* packets on their way
          buffer,    \* what the decoder has put together
          curpos,    \* where the next fragment goes
          failures,  \* frames that could not be rendered: -io_life_count
          decoded,   \* what the codec was given with the packet handled last
          seen,
          whole

sender == <<seqno, sizes, pids, off, elapsed>>
decoder == <<buffer, curpos, failures>>
history == <<decoded, seen, whole>>
vars == <<sender, net, decoder, history>>

Garbage == <<0, 0>>
Bytes == (Nat \X Nat)
FragmentationInfo ==
    {"NOT_FRAGMENTED", "FIRST_FRAGMENT", "MIDDLE_FRAGMENT", "LAST_FRAGMENT"}
Packets == [frame : Nat, from : Nat, n : Nat, fi : FragmentationInfo,
            id : {"absent", "written", "missing"}]
Nothing == <<>>

\* Counters are numbers, packets have a descriptor, and the decoder gives up
\* after the first failure above the limit.
TypeOK ==
    /\ seqno \in Nat
    /\ sizes \in Seq(Nat) /\ pids \in Seq(Nat) /\ Len(pids) = Len(sizes)
    /\ off \in Nat /\ elapsed \in Nat
    /\ net \in Seq(Packets)
    /\ buffer \in Seq(Bytes)
    /\ curpos \in Nat
    /\ failures \in 0 .. MaxFailures + 1
    /\ decoded \in Seq(Bytes)
    /\ seen \in [frame : Nat, n : Nat]
    /\ whole \in Nat

Init ==
    /\ seqno = 0
    /\ sizes = <<>>
    /\ pids = <<>>
    /\ off = 0
    /\ elapsed = 0
    /\ net = <<>>
    /\ buffer = <<>>
    /\ curpos = 0
    /\ failures = 0
    /\ decoded = Nothing
    /\ seen = [frame |-> 0, n |-> 0]
    /\ whole = 0

-----------------------------------------------------------------------------
(* The encoder: __x_vp8_rtp_send. *)

Current == Len(sizes)
Left == IF Current = 0 THEN 0 ELSE sizes[Current] - off
Over(n, capacity) == IF n > capacity THEN n - capacity ELSE 0

\* pack_vp8_descriptor: the picture id is written in groups of seven bits while
\* it is not zero, so no byte is written for the picture id 0.
HeaderLen(pid) == IF pid = 0 THEN 1 ELSE 2

\* The codec has a frame of size bytes (x_vpx_write, x_vpx_writev); its picture
\* id is taken from the number of packets.
Encode(size) ==
    LET pid == seqno % PidRange IN
    /\ Left = 0
    /\ Len(sizes) < MaxFrames
    /\ sizes' = Append(sizes, size)
    /\ pids' = Append(pids, pid)
    /\ off' = 0
    /\ elapsed' = Over(size, MTU - HeaderLen(pid))
    /\ UNCHANGED <<seqno, net, decoder, history>>

FragmentOf(o, e) ==
    IF e > 0 THEN IF o = 0 THEN "FIRST_FRAGMENT" ELSE "MIDDLE_FRAGMENT"
    ELSE IF o > 0 THEN "LAST_FRAGMENT"
    ELSE "NOT_FRAGMENTED"

\* Mutation: the room in the packets behind the first is taken for all of them.
SendFragmentFullRoom ==
    LET pid == pids[Current]
        rest == Over(Left, MTU - 1)
    IN
    /\ Left > 0
    /\ Len(net) < MaxNet
    /\ net' = Append(net, [frame |-> Current, from |-> off, n |-> Left - rest,
                           fi |-> FragmentOf(off, elapsed),
                           id |-> IF off > 0 THEN "absent"
                                  ELSE IF pid = 0 THEN "missing" ELSE "written"])
    /\ off' = sizes[Current] - rest
    /\ elapsed' = Over(rest, MTU - 1)
    /\ seqno' = seqno + 1
    /\ UNCHANGED <<sizes, pids, decoder, history>>

\* One round of the loop: what is expected to be left decides about the
\* fragmentation info; the room in this packet decides about its payload and
\* about what is expected to be left after the next one.
SendFragment ==
    LET pid == pids[Current]
        first == off = 0
        capacity == MTU - (IF first THEN HeaderLen(pid) ELSE 1)
        rest == Over(Left, capacity)
    IN
    /\ Left > 0
    /\ Len(net) < MaxNet
    /\ net' = Append(net, [frame |-> Current, from |-> off, n |-> Left - rest,
                           fi |-> FragmentOf(off, elapsed),
                           id |-> IF ~first THEN "absent"
                                  ELSE IF pid = 0 THEN "missing" ELSE "written"])
    /\ off' = sizes[Current] - rest
    /\ elapsed' = Over(rest, capacity)
    /\ seqno' = seqno + 1
    /\ UNCHANGED <<sizes, pids, decoder, history>>

-----------------------------------------------------------------------------
(* The decoder: __on_vpx_packet_received. *)

FrameBytes(f) == [i \in 1 .. sizes[f] |-> <<f, i>>]

\* The payload of p behind the descriptor, without the first k bytes
Payload(p, k) == [i \in 1 .. p.n - k |-> <<p.frame, p.from + k + i>>]

\* parse_vp8_packet: with the I bit set bytes are read up to one whose top bit
\* is clear.  Where no picture id was written these are bytes of the frame, and
\* the packet is dropped when it ends before.
Eaten(p) == IF p.id = "missing" THEN 1 .. p.n + 1 ELSE {0}

\* memcpy to buffer + pos, after realloc by the length of d
CopyAt(pos, d) ==
    [i \in 1 .. Len(buffer) + Len(d) |->
        IF pos < i /\ i <= pos + Len(d) THEN d[i - pos]
        ELSE IF i <= Len(buffer) THEN buffer[i]
        ELSE Garbage]

\* Mutation: a frame in one packet leaves curpos alone.
AssembleKeepsPos(p, d) ==
    /\ buffer' = IF p.fi \in {"NOT_FRAGMENTED", "FIRST_FRAGMENT"} THEN d ELSE CopyAt(curpos, d)
    /\ curpos' = CASE p.fi = "NOT_FRAGMENTED" -> curpos
                   [] p.fi = "LAST_FRAGMENT" -> 0
                   [] OTHER -> Len(buffer')

\* Mutation: the first fragment is put behind what is in the buffer.
AssembleAppends(p, d) ==
    /\ buffer' = IF p.fi = "NOT_FRAGMENTED" THEN d ELSE CopyAt(curpos, d)
    /\ curpos' = IF p.fi \in {"NOT_FRAGMENTED", "LAST_FRAGMENT"} THEN 0 ELSE Len(buffer')

\* The switch on the fragmentation info
Assemble(p, d) ==
    /\ buffer' = IF p.fi \in {"NOT_FRAGMENTED", "FIRST_FRAGMENT"} THEN d ELSE CopyAt(curpos, d)
    /\ curpos' = IF p.fi \in {"NOT_FRAGMENTED", "LAST_FRAGMENT"} THEN 0 ELSE Len(buffer')

\* "ready": the frame is decoded and rendered, which may fail.  The decoder has
\* been initialised (regs.cr0 & xVPX_INITIALIZED); one that has not would put
\* frames together all the same and hand none to the codec.
Decode(p) ==
    IF p.fi \in {"NOT_FRAGMENTED", "LAST_FRAGMENT"}
    THEN decoded' = buffer' /\ failures' \in {failures, failures + 1}
    ELSE decoded' = Nothing /\ UNCHANGED failures

Ignore == decoded' = Nothing /\ UNCHANGED decoder

Observe(p) ==
    /\ seen' = IF p.from = 0 THEN [frame |-> p.frame, n |-> p.n]
               ELSE IF seen = [frame |-> p.frame, n |-> p.from]
               THEN [frame |-> p.frame, n |-> p.from + p.n]
               ELSE [frame |-> 0, n |-> 0]
    /\ whole' = IF seen'.frame # 0 /\ seen'.n = sizes[p.frame] THEN p.frame ELSE 0

Without(i) == [j \in 1 .. Len(net) - 1 |-> IF j < i THEN net[j] ELSE net[j + 1]]

\* The i-th packet arrives; another copy of it may be on its way.
Receive(i) ==
    LET p == net[i] IN
    /\ \/ net' = Without(i)
       \/ net' = net /\ Len(buffer) < MaxBuffer
    /\ Observe(p)
    /\ IF failures > MaxFailures THEN Ignore
       ELSE \E k \in Eaten(p) :
              IF k > p.n THEN Ignore
              ELSE Assemble(p, Payload(p, k)) /\ Decode(p)
    /\ UNCHANGED sender

Lose(i) ==
    /\ net' = Without(i)
    /\ UNCHANGED <<sender, decoder, history>>

-----------------------------------------------------------------------------

Next ==
    \/ \E size \in Sizes : Encode(size)
    \/ SendFragment
    \/ \E i \in DOMAIN net : Receive(i) \/ Lose(i)

Spec == Init /\ [][Next]_vars

-----------------------------------------------------------------------------
(* Properties. *)

\* The descriptor and the payload of a packet fit the MTU, the size of the array
\* they are put together in, although the header of the first packet is longer:
\* the room is what this packet's own header leaves, while elapsed, which tells
\* the kind of the next packet, was computed with the room of the one before.
PacketsFit ==
    \A i \in DOMAIN net : net[i].n + (IF net[i].id = "written" THEN 2 ELSE 1) <= MTU

\* The next fragment is copied to a place inside the buffer, whatever packets
\* were lost, repeated or reordered before it: curpos follows bufsiz over the
\* four kinds of packets, although the buffer only ever grows by the fragment.
CopyInBounds == curpos <= Len(buffer)

\* The second packet of a frame this long is full and marked as a middle one.
SplitsExactly(size) == size = (MTU - 2) + (MTU - 1)

\* A frame all of whose packets arrive in order and without another one in
\* between is handed to the codec byte by byte, whatever the decoder put
\* together before: neither an unfinished frame nor a stray fragment leaves
\* anything behind.  Frames with picture id 0 and frames that fill two packets
\* are not meant.
CompleteIsExact ==
    whole # 0 /\ failures <= MaxFailures /\ pids[whole] # 0 /\ ~SplitsExactly(sizes[whole])
        => decoded = FrameBytes(whole)

\* "When set to one, a PictureID is provided after the first byte of the
\* payload descriptor": every frame that arrives complete and in order reaches
\* the codec as it was encoded.
DescriptorIsRead ==
    whole # 0 /\ failures <= MaxFailures => decoded = FrameBytes(whole)

=============================================================================
