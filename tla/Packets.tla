------------------------------- MODULE Packets -------------------------------
(***************************************************************************)
(* The two kinds of packets that travel between client and server, as the  *)
(* bytes a reader finds in its buffer: a binary packet (packet.h,          *)
(* packet.cpp: signature, length, data, checksum) and a text packet that   *)
(* ends with a terminator (processor.h).                                   *)
(*                                                                         *)
(* A packet is a record: its kind, the size of its data, and whether it is *)
(* what its sender made (FALSE: the checksum of a binary packet is wrong). *)
(* The fields have the widths the constants give; length and checksum take *)
(* one cell each, since no part of them is used alone.                     *)
(***************************************************************************)
EXTENDS Integers, SequencesExt

CONSTANTS sig_size, http_lng, max_valid_size

\* The signature (PACK, packet.h) is no longer than the terminator (two line
\* ends, processor.h), so that no text is too short to be told from a binary.
ASSUME PacketsAssumption ==
  /\ sig_size \in Nat \ {0} /\ http_lng \in Nat /\ sig_size <= http_lng
  /\ max_valid_size \in Nat

Packet == [kind : {"bin", "text"}, size : Nat, good : BOOLEAN]

length_size == 1
crc_size == 1
header_size == sig_size + length_size

\* Values of cells; lengths are values too, all of them smaller.
Zero == 0
SigCell == 1001
DataCell == 1002
CrcCell == 1003
BadCell == 1004
TextCell == 1005
TermCell == 1006
OtherCell == 1007    \* in no packet

Copies(n, cell) == [i \in 1 .. n |-> cell]

\* make_packet: the checksum of no data, as of nothing but zeros, is zero.
crc_of(n, good) == IF ~good THEN BadCell ELSE IF n = 0 THEN Zero ELSE CrcCell

make_packet(p) ==
  Copies(sig_size, SigCell) \o <<p.size>> \o Copies(p.size, DataCell)
  \o <<crc_of(p.size, p.good)>>

text_packet(p) == Copies(p.size, TextCell) \o Copies(http_lng, TermCell)

Cells(p) == IF p.kind = "bin" THEN make_packet(p) ELSE text_packet(p)

\* What the sender of these packets writes, and where each packet ends.
Stream(packets) == FlattenSeq([i \in DOMAIN packets |-> Cells(packets[i])])
End(packets, k) == Len(Stream(SubSeq(packets, 1, k)))
Start(packets, k) == End(packets, k - 1)
=============================================================================
