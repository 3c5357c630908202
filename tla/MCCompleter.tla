---------------------------- MODULE MCCompleter ----------------------------
(* The completers on all streams of up to two packets, and some of three.   *)
EXTENDS Completer

MCTypes == {"bin", "compound"}

Bin(n) == [kind |-> "bin", size |-> n, good |-> TRUE]
Text(n) == [kind |-> "text", size |-> n, good |-> TRUE]

\* Binary packets with no data, with data, of the largest size, too long, and
\* with a wrong checksum; text without and with more than its terminator;
\* one text is longer than the buffer.
MCPackets ==
  {Bin(n) : n \in 0 .. max_valid_size + 1} \cup {Text(n) : n \in 0 .. 2}
  \cup {[Bin(1) EXCEPT !.good = FALSE]}

MCPacketLists ==
  {<<p>> : p \in MCPackets \cup {Text(BufferSize)}}
  \cup {<<p, q>> : p \in MCPackets, q \in MCPackets}
  \cup {<<Text(0), p, q>> : p \in {Text(1), Bin(1)}, q \in MCPackets}

\* A zeroed buffer; one whose memory held terminators; and one whose memory
\* held packets, of which as much is zeroed as a reply of http_lng bytes had.
MCMemories ==
  {<<>>, Copies(BufferSize + http_lng, TermCell),
   Copies(http_lng, Zero) \o Stream(<<Bin(0), Bin(1), Text(0), Bin(1)>>)}
=============================================================================
