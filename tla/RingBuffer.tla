----------------------------- MODULE RingBuffer -----------------------------
(***************************************************************************)
(* The ring of packets between the blocks a playback class asks for and    *)
(* what its Read hands out (cppmyth/src/private/ringbuffer.cpp).  A packet *)
(* is the sequence of its bytes; a chunk without a packet holds NoPacket.  *)
(* The mutexes make each operation one step.  The pool of free packets     *)
(* only saves allocations and is left out.                                 *)
(***************************************************************************)
EXTENDS Integers, Sequences, FiniteSetsExt

NoPacket == <<>>

NewRing(capacity) ==
  [chunk |-> [i \in 1..capacity |-> NoPacket], read |-> 1, write |-> 1, unread |-> 0]

Following(ring, i) == (i % Len(ring.chunk)) + 1

clear(ring) ==
  [ring EXCEPT !.chunk = [i \in DOMAIN @ |-> NoPacket], !.unread = 0, !.read = ring.write]

\* A packet that was not read yet is overwritten.
writePacket(ring, packet) ==
  [ring EXCEPT !.chunk[ring.write] = packet,
               !.unread = @ - Len(ring.chunk[ring.write]) + Len(packet),
               !.write = Following(ring, @)]

\* The first chunk with a packet, from the read pointer on.
Available(ring) ==
  LET n == Len(ring.chunk)
      At(d) == ((ring.read - 1 + d) % n) + 1
  IN At(Min({d \in 0..n - 1 : ring.chunk[At(d)] # NoPacket}))

\* What read returns and what it leaves.
Packet(ring) == IF ring.unread = 0 THEN NoPacket ELSE ring.chunk[Available(ring)]
read(ring) ==
  IF ring.unread = 0 THEN ring
  ELSE LET i == Available(ring)
       IN [ring EXCEPT !.chunk[i] = NoPacket, !.read = Following(ring, i),
                       !.unread = @ - Len(ring.chunk[i])]

\* m_buffer of the playback classes: the ring, and of the packet in use what is
\* not consumed yet.
NewBuffer(capacity) == [rbuf |-> NewRing(capacity), packet |-> NoPacket]
bytesUnread(buffer) == buffer.rbuf.unread + Len(buffer.packet)

\* Read: the next packet, if none is in use.
Staged(buffer) ==
  IF buffer.packet # NoPacket THEN buffer
  ELSE [rbuf |-> read(buffer.rbuf), packet |-> Packet(buffer.rbuf)]

\* Seek: all buffered data is dropped.
Cleared(buffer) == [rbuf |-> clear(buffer.rbuf), packet |-> NoPacket]

=============================================================================
