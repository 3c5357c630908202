------------------------------ MODULE Completer ------------------------------
(***************************************************************************)
(* The completers of the binary and of the compound protocol (processor.h, *)
(* processor.cpp): after every piece that a read takes into the buffer of  *)
(* the connection, do_completer is called with the number of bytes that    *)
(* are there and says whether the read is to go on.  It parses on from     *)
(* where the last call stopped; one action is one turn of its switch.      *)
(***************************************************************************)
EXTENDS Packets

CONSTANTS max_transfers, Types, PacketLists, BufferSize,
          Memories   \* see memory

ASSUME CompleterAssumption ==
  /\ max_transfers \in Nat /\ BufferSize \in Nat \ {0}
  /\ Types \subseteq {"bin", "compound"} /\ PacketLists \subseteq Seq(Packet)
  /\ Memories \subseteq Seq(Nat)

VARIABLES
  packets,           \* what the other side sends
  type,              \* the class of the completer
  memory,            \* what the buffer, and what lies behind it, held before
  received,          \* bytes in the buffer; m_complcounter during a call
  transfer_counter,
  m_laststate,
  m_startcurrptr,    \* as an offset from m_startfirstptr
  m_lng_value,
  m_type,            \* the type of the packet at m_startcurrptr
  m_iserror,
  running,           \* do_completer has been called and has not returned
  loose,             \* history: see Framing
  peeked             \* history: looked at a byte that has not come

position == <<m_startcurrptr, m_lng_value, m_type>>
input == <<packets, type, memory, received, transfer_counter, loose>>
completerVars == <<input, m_laststate, position, m_iserror, running, peeked>>

\* eCmplState, with the order of its values.
noSign == 0
noLng == 1
noDataCrc == 2
finished == 3
unRec == 4

\* What the read does next: asio ends it when do_completer returned zero (with
\* an error or with the last packet finished), or when the buffer is full.
verdict ==
  IF running THEN "asked"
  ELSE IF m_iserror THEN "error"
  ELSE IF m_laststate = finished THEN "done"
  ELSE IF received = BufferSize THEN "full" ELSE "more"

FramingOf == INSTANCE Framing WITH transfers <- transfer_counter

\* The server zeroes its buffer when it makes it.  After a reply "BUSY" the
\* client makes another and zeroes as many bytes as that reply had: the rest is
\* read uninitialized.  Zeros follow what the model knows of the memory.
Zeroed == \A i \in DOMAIN memory : memory[i] = Zero
Byte(i) == IF i <= received THEN Stream(packets)[i]
           ELSE IF i \in DOMAIN memory THEN memory[i] ELSE Zero
Field(offset, size) ==
  [i \in 1 .. size |-> Byte(m_startcurrptr + offset + i)]
Peeks(offset, size) == peeked \/ m_startcurrptr + offset + size > received

\* Mutant: the checksum is forgotten.
complStatusNoCrc(transf, length) ==
  CASE transf < sig_size                               -> 0
    [] sig_size <= transf /\ transf < header_size        -> 1
    [] header_size <= transf /\ transf < header_size + length -> 2
    [] OTHER                                           -> 3

complStatus(transf, length) ==
  CASE transf < sig_size                        -> noSign
    [] sig_size <= transf /\ transf < header_size -> noLng
    [] header_size <= transf
       /\ transf < header_size + length + crc_size -> noDataCrc
    [] OTHER                                    -> finished

\* The checksum of what a packet carries; that of zeros is zero.
evaluate_crc(data) ==
  IF \A i \in DOMAIN data : data[i] = Zero THEN Zero
  ELSE IF \A i \in DOMAIN data : data[i] = DataCell THEN CrcCell
  ELSE OtherCell

CompleterInit ==
  /\ packets \in PacketLists /\ type \in Types /\ memory \in Memories
  /\ received = 0
  /\ transfer_counter = 1              \* the call before the first byte
  /\ m_laststate = noSign
  /\ m_startcurrptr = 0 /\ m_lng_value = 0 /\ m_type = "bin"
  /\ m_iserror = FALSE /\ running = FALSE
  /\ loose = FALSE /\ peeked = FALSE

-----------------------------------------------------------------------------
\* The read takes a piece of up to r bytes in all, and asks.
Transfer(r) ==
  /\ verdict = "more"
  /\ received < r /\ r <= Len(Stream(packets)) /\ r <= BufferSize
  /\ received' = r
  /\ transfer_counter' = transfer_counter + 1
  /\ loose' = (loose \/ FramingOf!GoesLoose(packets, r))
  /\ running' = TRUE
  /\ UNCHANGED <<packets, type, memory, m_laststate, position, m_iserror, peeked>>

\* It is called with the error of the read instead: the other side is gone.
TransferFails ==
  /\ verdict = "more"
  /\ m_iserror' = TRUE
  /\ UNCHANGED <<input, m_laststate, position, running, peeked>>

InTime == running /\ transfer_counter <= max_transfers + 1

TooManyTransfers ==
  /\ running /\ transfer_counter > max_transfers + 1
  /\ m_iserror' = TRUE /\ running' = FALSE
  /\ UNCHANGED <<input, m_laststate, position, peeked>>

ReturnMore ==
  /\ running' = FALSE
  /\ UNCHANGED <<input, m_laststate, m_startcurrptr, m_lng_value, m_iserror, peeked>>

\* Mutant: the type is not reset for the packet that follows a text.
SignKeepsType ==
  /\ InTime /\ m_laststate = noSign
  /\ UNCHANGED m_type
  /\ IF complStatus(received, m_lng_value) < noLng THEN ReturnMore
     ELSE LET known == \A i \in 1 .. sig_size : Field(0, sig_size)[i] = SigCell
              fails == ~known /\ type = "bin"
          IN  /\ m_laststate' = IF known THEN noLng
                                ELSE IF fails THEN finished ELSE unRec
              /\ m_iserror' = fails /\ running' = ~fails
              /\ peeked' = Peeks(0, sig_size)
              /\ UNCHANGED <<input, m_startcurrptr, m_lng_value>>

Sign ==
  /\ InTime /\ m_laststate = noSign
  /\ m_type' = "bin"
  /\ IF complStatus(received, m_lng_value) < noLng THEN ReturnMore
     ELSE LET known == \A i \in 1 .. sig_size : Field(0, sig_size)[i] = SigCell
              fails == ~known /\ type = "bin"
          IN  /\ m_laststate' = IF known THEN noLng
                                ELSE IF fails THEN finished ELSE unRec
              /\ m_iserror' = fails /\ running' = ~fails
              /\ peeked' = Peeks(0, sig_size)
              /\ UNCHANGED <<input, m_startcurrptr, m_lng_value>>

Length ==
  /\ InTime /\ m_laststate = noLng
  /\ UNCHANGED m_type
  /\ IF complStatus(received, m_lng_value) < noDataCrc THEN ReturnMore
     ELSE /\ m_lng_value' = Field(sig_size, length_size)[1]
          /\ LET fails == m_lng_value' > max_valid_size
             IN  /\ m_laststate' = IF fails THEN finished ELSE noDataCrc
                 /\ m_iserror' = fails /\ running' = ~fails
          /\ peeked' = Peeks(sig_size, length_size)
          /\ UNCHANGED <<input, m_startcurrptr>>

\* Bytes behind a packet that is right are left for the next call.
DataCrc ==
  /\ InTime /\ m_laststate = noDataCrc
  /\ UNCHANGED m_type
  /\ IF complStatus(received, m_lng_value) < finished THEN ReturnMore
     ELSE LET crc_ofs == header_size + m_lng_value
              next == m_startcurrptr + crc_ofs + crc_size
              fails == Field(crc_ofs, crc_size)[1] /=
                         evaluate_crc(Field(header_size, m_lng_value))
              behind == ~fails /\ next < received
          IN  /\ m_iserror' = fails /\ running' = FALSE
              /\ m_laststate' = IF fails THEN noDataCrc
                                ELSE IF behind THEN noSign ELSE finished
              /\ m_startcurrptr' = IF behind THEN next ELSE m_startcurrptr
              /\ peeked' = Peeks(crc_ofs, crc_size)
              /\ UNCHANGED <<input, m_lng_value>>

\* The ends of terminators std::search can find: it looks at as many bytes
\* from m_startcurrptr on as there are in the whole buffer.
Terminators ==
  {d \in http_lng .. received :
     \A i \in 1 .. http_lng : Byte(m_startcurrptr + d - http_lng + i) = TermCell}

\* Mutant: the offset of the packet is forgotten.
UnRecTotal ==
  /\ InTime /\ m_laststate = unRec
  /\ m_type' = "text"
  /\ IF received - m_startcurrptr \in 0 .. http_lng - 1 THEN ReturnMore
     ELSE IF Terminators = {}
     THEN /\ running' = FALSE /\ peeked' = Peeks(0, received)
          /\ UNCHANGED <<input, m_laststate, m_startcurrptr, m_lng_value, m_iserror>>
     ELSE LET next == m_startcurrptr + Min(Terminators)
              last == Min(Terminators) = received
          IN  /\ m_laststate' = IF last THEN finished ELSE noSign
              /\ m_startcurrptr' = IF last THEN m_startcurrptr ELSE next
              /\ running' = ~last /\ peeked' = Peeks(0, Min(Terminators))
              /\ UNCHANGED <<input, m_lng_value, m_iserror>>

\* The bytes behind m_startcurrptr are counted in an unsigned difference.
UnRec ==
  /\ InTime /\ m_laststate = unRec
  /\ m_type' = "text"
  /\ IF received - m_startcurrptr \in 0 .. http_lng - 1 THEN ReturnMore
     ELSE IF Terminators = {}
     THEN /\ running' = FALSE /\ peeked' = Peeks(0, received)
          /\ UNCHANGED <<input, m_laststate, m_startcurrptr, m_lng_value, m_iserror>>
     ELSE LET next == m_startcurrptr + Min(Terminators)
              last == next = received
          IN  /\ m_laststate' = IF last THEN finished ELSE noSign
              /\ m_startcurrptr' = IF last THEN m_startcurrptr ELSE next
              /\ running' = ~last /\ peeked' = Peeks(0, Min(Terminators))
              /\ UNCHANGED <<input, m_lng_value, m_iserror>>

do_completer == TooManyTransfers \/ Sign \/ Length \/ DataCrc \/ UnRec

CompleterNext ==
  \/ \E r \in 1 .. BufferSize : Transfer(r)
  \/ TransferFails
  \/ do_completer

\* A call that was made runs to its end.
CompleterSpec ==
  /\ CompleterInit /\ [][CompleterNext]_completerVars
  /\ WF_completerVars(do_completer)

-----------------------------------------------------------------------------
\* In a zeroed buffer the packet that comes next never starts behind the bytes
\* that have come.
CompleterTypeOK ==
  /\ packets \in PacketLists /\ type \in Types /\ memory \in Memories
  /\ received \in 0 .. BufferSize
  /\ transfer_counter \in 1 .. max_transfers + 2
  /\ m_laststate \in noSign .. unRec
  /\ m_startcurrptr \in Nat /\ m_lng_value \in Nat
  /\ Zeroed => m_startcurrptr <= received
  /\ m_type \in {"bin", "text"}
  /\ {m_iserror, running, loose, peeked} \subseteq BOOLEAN

\* However a read is cut into pieces, as long as no piece ends inside a packet
\* behind the first: the completer judges by all the bytes that have come,
\* refuses what is wrong as soon as it shows, ends the read exactly at the
\* end of a packet, and no call runs for ever.
FramingSpec == FramingOf!Spec

\* Fields are taken at m_startcurrptr although only the count of all bytes was
\* compared with the size of one packet: no byte that has not come is looked
\* at before that promise is void.
NoFieldBeyondReceived == CompleterTypeOK /\ (peeked => loose)

\* What image_cproc.cpp takes from a completer that ended a read: offset and
\* type of the last packet, all of it received, nothing behind it.
LastPacketIsKnown ==
  verdict = "done" /\ ~loose =>
    \E k \in DOMAIN packets :
      /\ received = End(packets, k) /\ m_startcurrptr = Start(packets, k)
      /\ m_type = packets[k].kind
      /\ packets[k].kind = "bin" => packets[k].good
=============================================================================
