---------------------------- MODULE Vp8RtpProofs -----------------------------
(***************************************************************************)
(* Proofs about Vp8Rtp, for every MTU, every size of the frames and every  *)
(* number of packets that are lost, repeated and reordered.                *)
(***************************************************************************)
EXTENDS Vp8Rtp, ListFacts

\* Bytes of a frame in its first packet
Room(pid) == MTU - HeaderLen(pid)

\* Room in the next packet, when o bytes of the frame are sent
Capacity(o, pid) == MTU - (IF o = 0 THEN HeaderLen(pid) ELSE 1)

\* Where the loop of __x_vp8_rtp_send stands with a frame of z bytes, o of
\* which are sent, when it expects e bytes to be left after the next packet:
\* the room of the packet before decides, so the second packet is judged by the
\* room of the first.
Standing(z, o, e, room) ==
    \/ o = 0 /\ e = Over(z, room)
    \/ o = room /\ e = Over(z - o, room)
    \/ o > room /\ e = Over(z - o, MTU - 1)

SenderInv ==
    /\ \A f \in 1 .. Len(sizes) : sizes[f] > 0
    /\ Current > 0 =>
           /\ off <= sizes[Current]
           /\ off < sizes[Current] =>
                  Standing(sizes[Current], off, elapsed, Room(pids[Current]))

\* The fragmentation info of these frames says where they begin and end.
Marked(f) == pids[f] # 0 /\ ~SplitsExactly(sizes[f])

\* A packet is a part of its frame, has room in an MTU, and says what it is.
PacketInv(p) ==
    /\ p.frame \in 1 .. Len(sizes)
    /\ p.n >= 1 /\ p.from + p.n <= sizes[p.frame]
    /\ p.n + (IF p.id = "written" THEN 2 ELSE 1) <= MTU
    /\ pids[p.frame] # 0 => p.id # "missing"
    /\ Marked(p.frame) =>
           p.fi = FragmentOf(p.from, IF p.from + p.n = sizes[p.frame] THEN 0 ELSE 1)

GoodPackets == {p \in Packets : PacketInv(p)}

\* The first n bytes of frame f
Prefix(f, n) == [i \in 1 .. n |-> <<f, i>>]

\* The part of a frame that arrived in order is exactly what is in the buffer,
\* and the next fragment goes behind it.
DecoderInv ==
    /\ seen.frame \in 0 .. Len(sizes) /\ whole \in 0 .. Len(sizes)
    /\ seen.frame # 0 => seen.n <= sizes[seen.frame]
    /\ seen.frame # 0 /\ failures <= MaxFailures /\ Marked(seen.frame) =>
           /\ buffer = Prefix(seen.frame, seen.n)
           /\ seen.n < sizes[seen.frame] => curpos = seen.n

IInv ==
    /\ TypeOK
    /\ SenderInv
    /\ \A i \in 1 .. Len(net) : net[i] \in GoodPackets
    /\ CopyInBounds
    /\ DecoderInv
    /\ CompleteIsExact

-----------------------------------------------------------------------------
(* The encoder. *)

\* A header has one byte or two.
LEMMA HeaderLength ==
    ASSUME NEW pid
    PROVE  /\ HeaderLen(pid) \in 1 .. 2
           /\ pid = 0 <=> HeaderLen(pid) = 1
           /\ Room(pid) \in Nat /\ Room(pid) >= 1 /\ Room(pid) <= MTU - 1
  BY MtuAssumption DEF HeaderLen, Room

\* One round of the loop over a frame of z bytes: the packet is not empty and
\* fits, and what it is marked as is true of it, unless the frame splits
\* exactly; the loop stands well afterwards.
LEMMA Round ==
    ASSUME NEW z \in Nat, NEW o \in Nat, NEW e \in Nat, NEW pid, o < z,
           Standing(z, o, e, Room(pid))
    PROVE  LET capacity == Capacity(o, pid)
               rest == Over(z - o, capacity)
           IN  /\ rest \in Nat /\ capacity \in Nat /\ rest <= z
               /\ (z - o) - rest \in Nat /\ (z - o) - rest >= 1 /\ (z - o) - rest <= capacity
               /\ o + ((z - o) - rest) = z - rest
               /\ pid # 0 /\ ~SplitsExactly(z) => (e > 0 <=> z - rest # z)
               /\ z - rest < z => Standing(z, z - rest, Over(rest, capacity), Room(pid))
               /\ Over(rest, capacity) \in Nat
  <1> DEFINE capacity == Capacity(o, pid)
             rest == Over(z - o, capacity)
  <1> DEFINE h == HeaderLen(pid)
  <1>1. h \in 1 .. 2 /\ (pid = 0 <=> h = 1) /\ Room(pid) = MTU - h
    BY HeaderLength DEF Room
  <1> HIDE DEF h
  <1>2. capacity = MTU - (IF o = 0 THEN h ELSE 1) /\ MTU \in Nat /\ MTU > 2
    BY MtuAssumption DEF h, Capacity
  <1> HIDE DEF capacity
  <1>3. capacity \in Nat /\ capacity >= 1 /\ capacity <= MTU - 1
    BY <1>1, <1>2
  <1>4. /\ rest \in Nat /\ rest <= z /\ Over(rest, capacity) \in Nat
        /\ (z - o) - rest \in Nat /\ (z - o) - rest >= 1 /\ (z - o) - rest <= capacity
        /\ o + ((z - o) - rest) = z - rest
    BY <1>3 DEF Over
  <1>5. ASSUME pid # 0, ~SplitsExactly(z)
        PROVE  e > 0 <=> z - rest # z
    BY <1>1, <1>2, <1>3, <1>5 DEF Over, Standing, SplitsExactly
  <1>6. ASSUME z - rest < z
        PROVE  Standing(z, z - rest, Over(rest, capacity), Room(pid))
    BY <1>1, <1>2, <1>3, <1>4, <1>6 DEF Over, Standing
  <1> QED
    BY <1>3, <1>4, <1>5, <1>6 DEF capacity

\* The frames there were before are not changed by a step.
FramesKept ==
    /\ Len(sizes) \in Nat /\ Len(sizes') \in Nat /\ Len(sizes') >= Len(sizes)
    /\ \A f \in 1 .. Len(sizes) : sizes'[f] = sizes[f] /\ pids'[f] = pids[f]

\* A packet is a part of a frame that was encoded.
LEMMA PacketRange ==
    ASSUME TypeOK, NEW p \in Packets, PacketInv(p)
    PROVE  /\ p.frame \in 1 .. Len(sizes) /\ Len(sizes) \in Nat /\ p.frame # 0
           /\ p.frame \in Nat /\ p.from \in Nat /\ p.n \in Nat /\ p.n >= 1
           /\ sizes[p.frame] \in Nat /\ p.from + p.n <= sizes[p.frame]
  <1>1. p.frame \in Nat /\ p.from \in Nat /\ p.n \in Nat
    BY DEF Packets
  <1>2. p.frame \in 1 .. Len(sizes) /\ p.n >= 1 /\ p.from + p.n <= sizes[p.frame]
    BY DEF PacketInv
  <1>3. sizes \in Seq(Nat) /\ Len(sizes) \in Nat
    BY DEF TypeOK
  <1>4. sizes[p.frame] \in Nat /\ p.frame # 0
    BY <1>2, <1>3
  <1> QED
    BY <1>1, <1>2, <1>3, <1>4

\* What is known of a packet stays true.
LEMMA PacketsKept ==
    ASSUME FramesKept
    PROVE  GoodPackets \subseteq GoodPackets'
  <1> SUFFICES ASSUME NEW p \in Packets, PacketInv(p)
               PROVE  PacketInv(p)'
    BY DEF GoodPackets
  <1>1. p.frame \in 1 .. Len(sizes) /\ p.frame \in 1 .. Len(sizes')
    BY DEF PacketInv, FramesKept
  <1>2. sizes'[p.frame] = sizes[p.frame] /\ pids'[p.frame] = pids[p.frame]
    BY <1>1 DEF FramesKept
  <1> QED
    BY <1>1, <1>2 DEF PacketInv, Marked, SplitsExactly

\* What is known of the decoder stays true while it is not called.
LEMMA DecoderKept ==
    ASSUME TypeOK, FramesKept, DecoderInv, CompleteIsExact, UNCHANGED <<decoder, history>>
    PROVE  DecoderInv' /\ CompleteIsExact'
  <1> USE DEF decoder, history
  <1>1. seen \in [frame : Nat, n : Nat] /\ whole \in Nat /\ seen.frame \in Nat
    BY DEF TypeOK
  <1>2. seen.frame \in 0 .. Len(sizes') /\ whole \in 0 .. Len(sizes')
    BY <1>1 DEF DecoderInv, FramesKept
  <1>3. seen.frame # 0 => sizes'[seen.frame] = sizes[seen.frame] /\ pids'[seen.frame] = pids[seen.frame]
    BY <1>1 DEF DecoderInv, FramesKept
  <1>4. whole # 0 => sizes'[whole] = sizes[whole] /\ pids'[whole] = pids[whole]
    BY <1>1 DEF DecoderInv, FramesKept
  <1>5. DecoderInv'
    BY <1>2, <1>3 DEF DecoderInv, Marked, SplitsExactly
  <1>6. CompleteIsExact'
    BY <1>4 DEF CompleteIsExact, SplitsExactly, FrameBytes
  <1> QED
    BY <1>5, <1>6

\* The codec makes a frame.
LEMMA EncodeInv ==
    ASSUME IInv, NEW size \in Sizes, Encode(size)
    PROVE  IInv'
  <1> DEFINE pid == seqno % PidRange
  <1>1. /\ sizes' = Append(sizes, size) /\ pids' = Append(pids, pid) /\ off' = 0
        /\ elapsed' = Over(size, Room(pid))
        /\ UNCHANGED <<seqno, net, decoder, history>>
    BY DEF Encode, Room
  <1>2. /\ sizes \in Seq(Nat) /\ pids \in Seq(Nat) /\ Len(pids) = Len(sizes) /\ Len(sizes) \in Nat
        /\ size \in Nat /\ size > 0 /\ pid \in Nat
    BY BoundAssumption DEF IInv, TypeOK
  <1> HIDE DEF pid
  <1>3. /\ sizes' \in Seq(Nat) /\ pids' \in Seq(Nat)
        /\ Len(sizes') = Len(sizes) + 1 /\ Len(pids') = Len(pids) + 1
        /\ \A f \in 1 .. Len(sizes) : sizes'[f] = sizes[f] /\ pids'[f] = pids[f]
        /\ sizes'[Len(sizes')] = size /\ pids'[Len(sizes')] = pid
    BY <1>1, <1>2
  <1>4. FramesKept
    BY <1>2, <1>3 DEF FramesKept
  <1>5. elapsed' \in Nat
    BY <1>1, <1>2, HeaderLength DEF Over
  <1>6. TypeOK'
    BY <1>1, <1>2, <1>3, <1>5 DEF IInv, TypeOK, decoder, history
  <1>7. SenderInv'
    <2>1. \A f \in 1 .. Len(sizes') : sizes'[f] > 0
      <3> SUFFICES ASSUME NEW f \in 1 .. Len(sizes') PROVE sizes'[f] > 0
        OBVIOUS
      <3>1. CASE f = Len(sizes')
        BY <1>2, <1>3, <3>1
      <3>2. CASE f # Len(sizes')
        <4>1. f \in 1 .. Len(sizes)
          BY <1>2, <1>3, <3>2
        <4> QED
          BY <1>3, <4>1 DEF IInv, SenderInv
      <3> QED
        BY <3>1, <3>2
    <2>2. Current' = Len(sizes')
      BY DEF Current
    <2>3. Standing(size, 0, elapsed', Room(pid))
      BY <1>1 DEF Standing
    <2> QED
      <3>1. /\ off' <= sizes'[Current']
            /\ off' < sizes'[Current'] =>
                   Standing(sizes'[Current'], off', elapsed', Room(pids'[Current']))
        BY <1>1, <1>2, <1>3, <2>2, <2>3
      <3> QED
        BY <2>1, <3>1 DEF SenderInv, Standing, Room
  <1>8. \A i \in 1 .. Len(net') : net'[i] \in GoodPackets'
    BY <1>1, <1>4, PacketsKept DEF IInv
  <1>9. DecoderInv' /\ CompleteIsExact'
    BY <1>1, <1>4, DecoderKept DEF IInv
  <1>10. CopyInBounds'
    BY <1>1 DEF IInv, CopyInBounds, decoder
  <1> QED
    BY <1>6, <1>7, <1>8, <1>9, <1>10 DEF IInv

\* A packet is sent.
LEMMA SendInv ==
    ASSUME IInv, SendFragment
    PROVE  IInv'
  <1> DEFINE f == Current
             z == sizes[f]
             pid == pids[f]
             capacity == MTU - (IF off = 0 THEN HeaderLen(pid) ELSE 1)
             rest == Over(Left, capacity)
             p == [frame |-> f, from |-> off, n |-> Left - rest,
                   fi |-> FragmentOf(off, elapsed),
                   id |-> IF ~(off = 0) THEN "absent"
                          ELSE IF pid = 0 THEN "missing" ELSE "written"]
  <1>1. /\ Len(sizes) \in Nat /\ off \in Nat /\ elapsed \in Nat /\ seqno \in Nat
        /\ sizes \in Seq(Nat) /\ pids \in Seq(Nat) /\ Len(pids) = Len(sizes)
    BY DEF IInv, TypeOK
  <1>2. Left > 0
    BY DEF SendFragment
  <1>3. f \in 1 .. Len(sizes) /\ Left = z - off
    BY <1>1, <1>2 DEF Left, Current
  <1>4. z \in Nat /\ off < z /\ pid \in Nat
    BY <1>1, <1>2, <1>3
  <1>5. /\ net' = Append(net, p)
        /\ off' = z - rest
        /\ elapsed' = Over(rest, capacity)
        /\ seqno' = seqno + 1
        /\ UNCHANGED <<sizes, pids, decoder, history>>
    <2>1. LET room == MTU - (IF off = 0 THEN HeaderLen(pids[Current]) ELSE 1)
              left == Over(Left, room)
          IN  /\ net' = Append(net, [frame |-> Current, from |-> off, n |-> Left - left,
                                     fi |-> FragmentOf(off, elapsed),
                                     id |-> IF ~(off = 0) THEN "absent"
                                            ELSE IF pids[Current] = 0 THEN "missing"
                                            ELSE "written"])
              /\ off' = sizes[Current] - left
              /\ elapsed' = Over(left, room)
              /\ seqno' = seqno + 1
              /\ UNCHANGED <<sizes, pids, decoder, history>>
      BY DEF SendFragment
    <2> QED
      BY <2>1
  <1>6. Standing(z, off, elapsed, Room(pid))
    BY <1>1, <1>3, <1>4 DEF IInv, SenderInv, Current
  <1> HIDE DEF z, pid, capacity, rest, p, f
  <1>7. capacity = MTU - (IF off = 0 THEN HeaderLen(pid) ELSE 1) /\ rest = Over(z - off, capacity)
    BY <1>3 DEF capacity, rest
  <1>8. /\ rest \in Nat /\ capacity \in Nat /\ rest <= z
        /\ (z - off) - rest \in Nat /\ (z - off) - rest >= 1 /\ (z - off) - rest <= capacity
        /\ off + ((z - off) - rest) = z - rest
        /\ pid # 0 /\ ~SplitsExactly(z) => (elapsed > 0 <=> z - rest # z)
        /\ z - rest < z => Standing(z, z - rest, Over(rest, capacity), Room(pid))
        /\ Over(rest, capacity) \in Nat
    <2>1. capacity = Capacity(off, pid) /\ rest = Over(z - off, Capacity(off, pid))
      BY <1>7 DEF Capacity
    <2>2. z \in Nat /\ off \in Nat /\ elapsed \in Nat /\ off < z
      BY <1>1, <1>4
    <2>3. LET c == Capacity(off, pid)
              r == Over(z - off, c)
          IN  /\ r \in Nat /\ c \in Nat /\ r <= z
              /\ (z - off) - r \in Nat /\ (z - off) - r >= 1 /\ (z - off) - r <= c
              /\ off + ((z - off) - r) = z - r
              /\ pid # 0 /\ ~SplitsExactly(z) => (elapsed > 0 <=> z - r # z)
              /\ z - r < z => Standing(z, z - r, Over(r, c), Room(pid))
              /\ Over(r, c) \in Nat
      BY <1>6, <2>2, Round, Zenon
    <2> QED
      BY <2>1, <2>3
  <1>9. FragmentOf(off, elapsed) \in FragmentationInfo
    BY DEF FragmentOf, FragmentationInfo
  <1>10. p \in Packets
    BY <1>1, <1>3, <1>8, <1>9 DEF p, Packets
  <1>11. net \in Seq(Packets) /\ net' \in Seq(Packets) /\ Len(net') = Len(net) + 1
         /\ Len(net) \in Nat /\ \A i \in 1 .. Len(net') : net'[i] = IF i = Len(net) + 1 THEN p ELSE net[i]
    BY <1>5, <1>10 DEF IInv, TypeOK
  <1>12. off' \in Nat /\ elapsed' \in Nat
    BY <1>4, <1>5, <1>8
  <1>13. TypeOK'
    BY <1>1, <1>5, <1>11, <1>12 DEF IInv, TypeOK, decoder, history
  <1>14. SenderInv'
    <2>1. Current' = f /\ sizes'[f] = z /\ pids'[f] = pid
      BY <1>5 DEF f, z, pid, Current
    <2>2. off' <= z /\ (off' < z => Standing(z, off', elapsed', Room(pid)))
      BY <1>4, <1>5, <1>8
    <2>3. \A g \in 1 .. Len(sizes') : sizes'[g] > 0
      BY <1>5 DEF IInv, SenderInv
    <2> QED
      BY <2>1, <2>2, <2>3 DEF SenderInv, Standing, Room
  <1>15. FramesKept
    BY <1>1, <1>5 DEF FramesKept
  <1>16. PacketInv(p)
    <2>1. /\ p.frame = f /\ p.from = off /\ p.n = (z - off) - rest /\ p.fi = FragmentOf(off, elapsed)
          /\ p.id = IF ~(off = 0) THEN "absent" ELSE IF pid = 0 THEN "missing" ELSE "written"
          /\ sizes[p.frame] = z /\ pids[p.frame] = pid
      BY <1>3 DEF p, z, pid
    <2>2. p.n + (IF p.id = "written" THEN 2 ELSE 1) <= MTU
      <3>1. CASE off = 0 /\ pid # 0
        <4>1. capacity = MTU - 2
          BY <1>7, <3>1 DEF HeaderLen
        <4> QED
          BY <1>8, <2>1, <4>1, MtuAssumption
      <3>2. CASE ~(off = 0 /\ pid # 0)
        <4>1. capacity = MTU - 1 /\ p.id # "written"
          BY <1>7, <2>1, <3>2 DEF HeaderLen
        <4> QED
          BY <1>8, <2>1, <4>1, MtuAssumption
      <3> QED
        BY <3>1, <3>2
    <2>3. p.from + p.n = z - rest
      BY <1>8, <2>1
    <2>4. ASSUME Marked(f)
          PROVE  p.fi = FragmentOf(p.from, IF p.from + p.n = z THEN 0 ELSE 1)
      <3>1. elapsed > 0 <=> z - rest # z
        BY <1>8, <2>4 DEF Marked, z, pid
      <3> QED
        BY <1>1, <2>1, <2>3, <3>1 DEF FragmentOf
    <2>5. pid # 0 => p.id # "missing"
      BY <2>1
    <2>6. p.n >= 1 /\ p.from + p.n <= z
      BY <1>4, <1>8, <2>1, <2>3
    <2> QED
      BY <1>3, <2>1, <2>2, <2>4, <2>5, <2>6 DEF PacketInv
  <1>17. \A i \in 1 .. Len(net') : net'[i] \in GoodPackets'
    <2>1. p \in GoodPackets
      BY <1>10, <1>16 DEF GoodPackets
    <2>2. \A i \in 1 .. Len(net') : net'[i] \in GoodPackets
      BY <1>11, <2>1 DEF IInv
    <2> QED
      BY <1>15, <2>2, PacketsKept
  <1>18. DecoderInv' /\ CompleteIsExact'
    BY <1>5, <1>15, DecoderKept DEF IInv
  <1>19. CopyInBounds'
    BY <1>5 DEF IInv, CopyInBounds, decoder
  <1> QED
    BY <1>13, <1>14, <1>17, <1>18, <1>19 DEF IInv

-----------------------------------------------------------------------------
(* The decoder. *)

\* The network without one of its packets
LEMMA WithoutPacket ==
    ASSUME TypeOK, NEW i \in 1 .. Len(net)
    PROVE  /\ Without(i) \in Seq(Packets)
           /\ \A j \in 1 .. Len(Without(i)) : \E k \in 1 .. Len(net) : Without(i)[j] = net[k]
  <1>1. net \in Seq(Packets) /\ Len(net) \in Nat /\ Len(net) - 1 \in Nat
    BY DEF TypeOK
  <1>2. \A j \in 1 .. Len(net) - 1 : j \in 1 .. Len(net) /\ j + 1 \in 1 .. Len(net)
    BY <1>1
  <1>3. \A k \in 1 .. Len(net) : net[k] \in Packets
    BY <1>1
  <1>4. Without(i) \in [1 .. Len(net) - 1 -> Packets]
    BY <1>2, <1>3 DEF Without
  <1>5. Without(i) \in Seq(Packets) /\ Len(Without(i)) = Len(net) - 1
    BY <1>1, <1>4, FunctionIsSeq
  <1> QED
    BY <1>2, <1>5 DEF Without

\* The payload of a packet without its first bytes
LEMMA PayloadType ==
    ASSUME NEW p \in Packets, NEW k \in Nat, k <= p.n
    PROVE  Payload(p, k) \in Seq(Bytes) /\ Len(Payload(p, k)) = p.n - k
  <1>1. p.n \in Nat /\ p.from \in Nat /\ p.frame \in Nat /\ p.n - k \in Nat
    BY DEF Packets
  <1>2. Payload(p, k) \in [1 .. p.n - k -> Bytes]
    BY <1>1 DEF Payload, Bytes
  <1> QED
    BY <1>1, <1>2, FunctionIsSeq

\* memcpy and realloc leave a sequence of bytes.
LEMMA CopyType ==
    ASSUME TypeOK, NEW pos \in Nat, NEW d \in Seq(Bytes)
    PROVE  CopyAt(pos, d) \in Seq(Bytes) /\ Len(CopyAt(pos, d)) = Len(buffer) + Len(d)
  <1>1. buffer \in Seq(Bytes) /\ Len(buffer) \in Nat /\ Len(d) \in Nat /\ Len(buffer) + Len(d) \in Nat
    BY DEF TypeOK
  <1>2. Garbage \in Bytes
    BY DEF Garbage, Bytes
  <1>3. \A i \in 1 .. Len(buffer) + Len(d) :
            (IF pos < i /\ i <= pos + Len(d) THEN d[i - pos]
             ELSE IF i <= Len(buffer) THEN buffer[i] ELSE Garbage) \in Bytes
    <2> SUFFICES ASSUME NEW i \in 1 .. Len(buffer) + Len(d)
                 PROVE  (IF pos < i /\ i <= pos + Len(d) THEN d[i - pos]
                         ELSE IF i <= Len(buffer) THEN buffer[i] ELSE Garbage) \in Bytes
      OBVIOUS
    <2>1. CASE pos < i /\ i <= pos + Len(d)
      <3>1. i - pos \in 1 .. Len(d)
        BY <1>1, <2>1
      <3> QED
        BY <2>1, <3>1
    <2>2. CASE ~(pos < i /\ i <= pos + Len(d))
      BY <1>1, <1>2, <2>2
    <2> QED
      BY <2>1, <2>2
  <1>4. CopyAt(pos, d) \in [1 .. Len(buffer) + Len(d) -> Bytes]
    BY <1>3 DEF CopyAt
  <1> QED
    BY <1>1, <1>4, FunctionIsSeq

\* The fragment that is next is copied behind the part of the frame in the
\* buffer.
LEMMA CopyExtends ==
    ASSUME NEW p \in Packets, buffer = Prefix(p.frame, p.from), Len(buffer) = p.from
    PROVE  CopyAt(p.from, Payload(p, 0)) = Prefix(p.frame, p.from + p.n)
  <1> DEFINE d == Payload(p, 0)
  <1>1. p.n \in Nat /\ p.from \in Nat /\ Len(d) = p.n
    BY PayloadType DEF Packets
  <1>2. d = [i \in 1 .. p.n |-> <<p.frame, p.from + i>>]
    BY <1>1 DEF Payload
  <1> HIDE DEF d
  <1>3. CopyAt(p.from, d) = [i \in 1 .. p.from + p.n |->
            IF p.from < i /\ i <= p.from + p.n THEN d[i - p.from]
            ELSE IF i <= p.from THEN buffer[i] ELSE Garbage]
    BY <1>1 DEF CopyAt
  <1>4. \A i \in 1 .. p.from + p.n :
            (IF p.from < i /\ i <= p.from + p.n THEN d[i - p.from]
             ELSE IF i <= p.from THEN buffer[i] ELSE Garbage) = <<p.frame, i>>
    <2> SUFFICES ASSUME NEW i \in 1 .. p.from + p.n
                 PROVE  (IF p.from < i /\ i <= p.from + p.n THEN d[i - p.from]
                         ELSE IF i <= p.from THEN buffer[i] ELSE Garbage) = <<p.frame, i>>
      OBVIOUS
    <2>1. CASE p.from < i
      <3>1. i - p.from \in 1 .. p.n /\ p.from + (i - p.from) = i /\ i <= p.from + p.n
        BY <1>1, <2>1
      <3>2. d[i - p.from] = <<p.frame, i>>
        BY <1>2, <3>1
      <3> QED
        BY <2>1, <3>1, <3>2
    <2>2. CASE ~(p.from < i)
      <3>1. i <= p.from /\ i \in 1 .. p.from
        BY <1>1, <2>2
      <3> QED
        BY <2>2, <3>1 DEF Prefix
    <2> QED
      BY <2>1, <2>2
  <1> QED
    BY <1>3, <1>4 DEF Prefix, d

\* The decoder's state keeps its types and curpos stays inside the buffer,
\* whatever the packet.
LEMMA AssembleType ==
    ASSUME TypeOK, CopyInBounds, NEW p \in Packets, NEW k \in Nat, k <= p.n,
           failures <= MaxFailures, Assemble(p, Payload(p, k)), Decode(p)
    PROVE  /\ buffer' \in Seq(Bytes) /\ curpos' \in Nat /\ curpos' <= Len(buffer')
           /\ failures' \in 0 .. MaxFailures + 1 /\ failures' >= failures
           /\ decoded' \in Seq(Bytes)
  <1>1. curpos \in Nat /\ failures \in Nat /\ MaxFailures \in Nat
    BY BoundAssumption DEF TypeOK
  <1>2. Payload(p, k) \in Seq(Bytes)
    BY PayloadType
  <1>3. buffer' \in Seq(Bytes)
    BY <1>1, <1>2, CopyType DEF Assemble
  <1>4. Len(buffer') \in Nat
    BY <1>3
  <1>5. curpos' = 0 \/ curpos' = Len(buffer')
    BY DEF Assemble
  <1>6. /\ failures' = failures \/ failures' = failures + 1
        /\ decoded' = buffer' \/ decoded' = Nothing
    BY DEF Decode
  <1>7. Nothing \in Seq(Bytes)
    BY DEF Nothing
  <1>8. curpos' \in Nat /\ curpos' <= Len(buffer')
    BY <1>4, <1>5
  <1>9. failures' \in 0 .. MaxFailures + 1 /\ failures' >= failures
    BY <1>1, <1>6
  <1> QED
    BY <1>3, <1>6, <1>7, <1>8, <1>9

\* What the decoder does with a packet of a frame whose descriptors say where
\* it begins and ends: a packet that begins the frame starts the buffer afresh,
\* and the next one in order extends it.
LEMMA AssembleExact ==
    ASSUME TypeOK, SenderInv, DecoderInv, NEW p \in Packets, PacketInv(p),
           failures <= MaxFailures, Marked(p.frame),
           p.from = 0 \/ seen = [frame |-> p.frame, n |-> p.from],
           Assemble(p, Payload(p, 0)), Decode(p)
    PROVE  /\ buffer' = Prefix(p.frame, p.from + p.n)
           /\ p.from + p.n < sizes[p.frame] => curpos' = p.from + p.n
           /\ p.from + p.n = sizes[p.frame] => decoded' = buffer'
  <1> DEFINE d == Payload(p, 0)
             z == sizes[p.frame]
  <1>1. p.n \in Nat /\ p.from \in Nat /\ p.frame \in Nat /\ p.n >= 1
    BY DEF Packets, PacketInv
  <1>2. d \in Seq(Bytes) /\ Len(d) = p.n
    BY <1>1, PayloadType
  <1>3. z \in Nat /\ p.from + p.n <= z /\ p.frame # 0
    BY PacketRange
  <1>4. p.fi = FragmentOf(p.from, IF p.from + p.n = z THEN 0 ELSE 1)
    BY DEF PacketInv
  <1>5. CASE p.from = 0
    <2>1. p.fi = IF p.n = z THEN "NOT_FRAGMENTED" ELSE "FIRST_FRAGMENT"
      BY <1>1, <1>4, <1>5 DEF FragmentOf
    <2>2. buffer' = d /\ (p.n # z => curpos' = Len(buffer')) /\ (p.n = z => decoded' = buffer')
      BY <2>1 DEF Assemble, Decode
    <2>3. d = Prefix(p.frame, p.n)
      BY <1>1, <1>5 DEF Payload, Prefix
    <2> HIDE DEF d, z
    <2>4. p.from + p.n = p.n
      BY <1>1, <1>5
    <2>5. buffer' = Prefix(p.frame, p.from + p.n) /\ Len(buffer') = p.n
      BY <1>2, <2>2, <2>3, <2>4
    <2>6. p.n < z => p.n # z
      BY <1>1, <1>3
    <2> QED
      BY <2>2, <2>4, <2>5, <2>6 DEF z
  <1>6. CASE p.from # 0
    <2>1. seen.frame = p.frame /\ seen.n = p.from
      BY <1>6
    <2>2. buffer = Prefix(p.frame, p.from) /\ curpos = p.from
      <3>1. p.from < z
        BY <1>1, <1>3
      <3> QED
        BY <1>3, <2>1, <3>1 DEF DecoderInv
    <2>3. Len(buffer) = p.from
      BY <1>1, <2>2, FunctionIsSeq DEF Prefix
    <2>4. p.fi = IF p.from + p.n = z THEN "LAST_FRAGMENT" ELSE "MIDDLE_FRAGMENT"
      BY <1>1, <1>4, <1>6 DEF FragmentOf
    <2>5. /\ buffer' = CopyAt(curpos, d)
          /\ p.from + p.n # z => curpos' = Len(buffer')
          /\ p.from + p.n = z => decoded' = buffer'
      BY <2>4 DEF Assemble, Decode
    <2>6. buffer' = Prefix(p.frame, p.from + p.n)
      BY <2>2, <2>3, <2>5, CopyExtends
    <2>7. Len(buffer') = p.from + p.n
      BY <1>1, <1>2, <2>2, <2>3, <2>5, CopyType
    <2> HIDE DEF d, z
    <2>8. p.from + p.n < z => p.from + p.n # z
      BY <1>1, <1>3
    <2> QED
      BY <2>5, <2>6, <2>7, <2>8 DEF z
  <1> QED
    BY <1>5, <1>6

\* A packet arrives.
LEMMA ReceiveInv ==
    ASSUME IInv, NEW i \in 1 .. Len(net), Receive(i)
    PROVE  IInv'
  <1>1. PICK p \in GoodPackets : p = net[i]
    BY DEF IInv
  <1>2. p \in Packets /\ PacketInv(p)
    BY DEF GoodPackets
  <1>3. /\ net' = Without(i) \/ net' = net
        /\ Observe(p)
        /\ IF failures > MaxFailures THEN Ignore
           ELSE \E k \in Eaten(p) :
                  IF k > p.n THEN Ignore
                  ELSE Assemble(p, Payload(p, k)) /\ Decode(p)
        /\ UNCHANGED <<seqno, sizes, pids, off, elapsed>>
    BY <1>1 DEF Receive, sender
  <1>4. TypeOK /\ SenderInv /\ DecoderInv /\ CopyInBounds
    BY DEF IInv
  <1>5. /\ p.n \in Nat /\ p.from \in Nat /\ p.frame \in Nat /\ p.n >= 1
        /\ p.frame \in 1 .. Len(sizes) /\ Len(sizes) \in Nat
        /\ sizes[p.frame] \in Nat /\ p.from + p.n <= sizes[p.frame]
        /\ failures \in Nat /\ MaxFailures \in Nat
    <2>1. failures \in Nat /\ MaxFailures \in Nat
      BY <1>4, BoundAssumption DEF TypeOK
    <2> QED
      BY <1>2, <1>4, <2>1, PacketRange
  <1>6. FramesKept
    BY <1>3, <1>5 DEF FramesKept
  <1>7. net' \in Seq(Packets) /\ \A j \in 1 .. Len(net') : net'[j] \in GoodPackets'
    <2>1. CASE net' = net
      BY <1>4, <1>6, <2>1, PacketsKept DEF IInv, TypeOK
    <2>2. CASE net' = Without(i)
      BY <1>4, <1>6, <2>2, WithoutPacket, PacketsKept DEF IInv
    <2> QED
      BY <1>3, <2>1, <2>2
  <1>8. /\ \/ /\ seen' = [frame |-> p.frame, n |-> p.from + p.n]
              /\ p.from = 0 \/ seen = [frame |-> p.frame, n |-> p.from]
           \/ seen' = [frame |-> 0, n |-> 0]
        /\ whole' = IF seen'.frame # 0 /\ seen'.n = sizes[p.frame] THEN p.frame ELSE 0
    <2>1. p.from = 0 => p.n = p.from + p.n
      BY <1>5
    <2> QED
      BY <1>3, <2>1 DEF Observe
  <1>9. seen' \in [frame : Nat, n : Nat] /\ whole' \in Nat
    BY <1>5, <1>8
  <1>10. \A k \in Eaten(p) : k \in Nat
    BY <1>5 DEF Eaten
  <1>11. /\ buffer' \in Seq(Bytes) /\ curpos' \in Nat /\ curpos' <= Len(buffer')
         /\ failures' \in 0 .. MaxFailures + 1 /\ failures' >= failures
         /\ decoded' \in Seq(Bytes)
    <2>1. CASE Ignore
      <3>1. Nothing \in Seq(Bytes)
        BY DEF Nothing
      <3> QED
        BY <1>4, <1>5, <2>1, <3>1 DEF Ignore, decoder, TypeOK, CopyInBounds
    <2>2. CASE ~Ignore
      <3>1. /\ failures <= MaxFailures
            /\ \E k \in Nat : k <= p.n /\ Assemble(p, Payload(p, k)) /\ Decode(p)
        BY <1>3, <1>5, <1>10, <2>2
      <3> QED
        BY <1>2, <1>4, <3>1, AssembleType
    <2> QED
      BY <2>1, <2>2
  <1>12. TypeOK'
    BY <1>3, <1>4, <1>7, <1>9, <1>11 DEF TypeOK
  <1>13. SenderInv'
    <2>1. Current' = Current
      BY <1>3 DEF Current
    <2> QED
      BY <1>3, <1>4, <2>1 DEF SenderInv
  <1>14. ASSUME failures' <= MaxFailures, Marked(p.frame), seen'.frame # 0
         PROVE  /\ buffer' = Prefix(p.frame, p.from + p.n)
                /\ p.from + p.n < sizes[p.frame] => curpos' = p.from + p.n
                /\ p.from + p.n = sizes[p.frame] => decoded' = buffer'
    <2>1. failures <= MaxFailures
      BY <1>5, <1>11, <1>14
    <2>2. Eaten(p) = {0}
      BY <1>2, <1>14 DEF PacketInv, Marked, Eaten
    <2>3. Assemble(p, Payload(p, 0)) /\ Decode(p)
      BY <1>3, <1>5, <2>1, <2>2
    <2>4. p.from = 0 \/ seen = [frame |-> p.frame, n |-> p.from]
      BY <1>8, <1>14
    <2> QED
      BY <1>2, <1>4, <1>14, <2>1, <2>3, <2>4, AssembleExact
  <1>15. Marked(p.frame)' = Marked(p.frame) /\ FrameBytes(p.frame)' = FrameBytes(p.frame)
    BY <1>3 DEF Marked, SplitsExactly, FrameBytes
  <1>16. DecoderInv'
    <2>1. CASE seen'.frame = 0
      BY <1>5, <1>8, <2>1, <1>3 DEF DecoderInv
    <2>2. CASE seen'.frame # 0
      <3>1. seen'.frame = p.frame /\ seen'.n = p.from + p.n /\ sizes' = sizes
        BY <1>3, <1>8, <2>2
      <3>2. whole' \in 0 .. Len(sizes')
        BY <1>3, <1>5, <1>8
      <3> QED
        BY <1>5, <1>14, <1>15, <2>2, <3>1, <3>2 DEF DecoderInv, Marked, SplitsExactly
    <2> QED
      BY <2>1, <2>2
  <1>17. CompleteIsExact'
    <2> SUFFICES ASSUME whole' # 0, failures' <= MaxFailures,
                        (pids[whole] # 0)', ~SplitsExactly(sizes[whole])'
                 PROVE  decoded' = FrameBytes(whole)'
      BY DEF CompleteIsExact
    <2>1. whole' = p.frame /\ seen'.frame # 0 /\ seen'.n = sizes[p.frame]
      BY <1>8
    <2>2. seen'.n = p.from + p.n
      BY <1>8, <2>1
    <2>3. Marked(p.frame)
      BY <1>3, <2>1 DEF Marked, SplitsExactly
    <2>4. buffer' = Prefix(p.frame, sizes[p.frame]) /\ decoded' = buffer'
      BY <1>14, <2>1, <2>2, <2>3
    <2> QED
      BY <1>3, <2>1, <2>4 DEF Prefix, FrameBytes
  <1>18. CopyInBounds'
    BY <1>11 DEF CopyInBounds
  <1> QED
    BY <1>7, <1>12, <1>13, <1>16, <1>17, <1>18 DEF IInv

\* A packet is lost.
LEMMA LoseInv ==
    ASSUME IInv, NEW i \in 1 .. Len(net), Lose(i)
    PROVE  IInv'
  <1>1. /\ net' = Without(i)
        /\ UNCHANGED <<seqno, sizes, pids, off, elapsed>> /\ UNCHANGED <<decoder, history>>
    BY DEF Lose, sender
  <1>2. FramesKept
    BY <1>1 DEF IInv, TypeOK, FramesKept
  <1>3. net' \in Seq(Packets) /\ \A j \in 1 .. Len(net') : net'[j] \in GoodPackets'
    BY <1>1, <1>2, WithoutPacket, PacketsKept DEF IInv
  <1>4. TypeOK'
    BY <1>1, <1>3 DEF IInv, TypeOK, decoder, history
  <1>5. SenderInv'
    <2>1. Current' = Current
      BY <1>1 DEF Current
    <2> QED
      BY <1>1, <2>1 DEF IInv, SenderInv
  <1>6. DecoderInv' /\ CompleteIsExact'
    BY <1>1, <1>2, DecoderKept DEF IInv
  <1>7. CopyInBounds'
    BY <1>1 DEF IInv, CopyInBounds, decoder
  <1> QED
    BY <1>3, <1>4, <1>5, <1>6, <1>7 DEF IInv

-----------------------------------------------------------------------------
(* Theorems. *)

\* The initial state.
LEMMA InitInv ==
    Init => IInv
  <1> SUFFICES ASSUME Init PROVE IInv
    OBVIOUS
  <1>1. /\ Len(sizes) = 0 /\ Len(net) = 0 /\ Len(buffer) = 0 /\ MaxFailures \in Nat
        /\ Len(pids) = 0
    BY BoundAssumption DEF Init
  <1>2. TypeOK
    <2>1. /\ sizes \in Seq(Nat) /\ pids \in Seq(Nat) /\ net \in Seq(Packets)
          /\ buffer \in Seq(Bytes) /\ decoded \in Seq(Bytes)
      BY DEF Init, Nothing
    <2>2. failures \in 0 .. MaxFailures + 1
      BY <1>1 DEF Init
    <2> QED
      BY <1>1, <2>1, <2>2 DEF Init, TypeOK
  <1>3. SenderInv
    BY <1>1 DEF SenderInv, Current
  <1>4. CopyInBounds
    BY <1>1 DEF Init, CopyInBounds
  <1>5. DecoderInv
    BY <1>1 DEF Init, DecoderInv
  <1>6. CompleteIsExact
    BY DEF Init, CompleteIsExact
  <1>7. \A i \in 1 .. Len(net) : net[i] \in GoodPackets
    BY <1>1
  <1> QED
    BY <1>2, <1>3, <1>4, <1>5, <1>6, <1>7 DEF IInv

\* A step that changes nothing.
LEMMA StutterInv ==
    ASSUME IInv, UNCHANGED vars
    PROVE  IInv'
  <1> USE DEF vars, sender, decoder, history
  <1>1. FramesKept
    BY DEF IInv, TypeOK, FramesKept
  <1>2. TypeOK' /\ CopyInBounds'
    BY DEF IInv, TypeOK, CopyInBounds
  <1>3. SenderInv'
    <2>1. Current' = Current
      BY DEF Current
    <2> QED
      BY <2>1 DEF IInv, SenderInv
  <1>4. DecoderInv' /\ CompleteIsExact'
    BY <1>1, DecoderKept DEF IInv
  <1>5. \A i \in 1 .. Len(net') : net'[i] \in GoodPackets'
    BY <1>1, PacketsKept DEF IInv
  <1> QED
    BY <1>2, <1>3, <1>4, <1>5 DEF IInv

\* The invariant holds in every state of every behaviour.
THEOREM Invariance == Spec => []IInv
  <1>1. IInv /\ [Next]_vars => IInv'
    <2> SUFFICES ASSUME IInv, [Next]_vars PROVE IInv'
      OBVIOUS
    <2>1. DOMAIN net = 1 .. Len(net)
      BY DEF IInv, TypeOK
    <2> QED
      BY <2>1, EncodeInv, SendInv, ReceiveInv, LoseInv, StutterInv DEF Next
  <1> QED
    BY <1>1, InitInv, PTL DEF Spec

\* Counters and buffers keep their types.
THEOREM TypeCorrect == Spec => []TypeOK
  <1>1. IInv => TypeOK
    BY DEF IInv
  <1> QED
    BY <1>1, Invariance, PTL

\* No packet is larger than the array of MTU bytes it is put together in.
THEOREM PacketsAreSmall == Spec => []PacketsFit
  <1>1. IInv => PacketsFit
    <2> SUFFICES ASSUME IInv PROVE PacketsFit
      OBVIOUS
    <2>1. DOMAIN net = 1 .. Len(net)
      BY DEF IInv, TypeOK
    <2> QED
      BY <2>1 DEF IInv, GoodPackets, PacketInv, PacketsFit
  <1> QED
    BY <1>1, Invariance, PTL

\* No fragment is copied behind the end of the decoder's buffer.
THEOREM CopiesAreInside == Spec => []CopyInBounds
  <1>1. IInv => CopyInBounds
    BY DEF IInv
  <1> QED
    BY <1>1, Invariance, PTL

\* A frame whose packets all arrive in order is decoded as it was encoded, if
\* its picture id is not 0 and it does not fill exactly two packets.
THEOREM FramesAreExact == Spec => []CompleteIsExact
  <1>1. IInv => CompleteIsExact
    BY DEF IInv
  <1> QED
    BY <1>1, Invariance, PTL
=============================================================================
