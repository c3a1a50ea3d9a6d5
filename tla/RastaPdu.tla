------------------------------- MODULE RastaPdu --------------------------------
(***************************************************************************)
(* What two RaSTA processes make of each other's datagrams: the telegrams  *)
(* in their messages (SciTelegram), the PDUs (rasta/c/rastafactory.c),     *)
(* their bytes, the safety code and the checksum around them               *)
(* (rastamodule.c, rastahashing.c, rastacrc.c), each side under the        *)
(* configuration file it was started with (ConfigFile).                    *)
(*                                                                         *)
(* The hash functions are external: Hash tells apart any two inputs that   *)
(* one damage turns into each other. The network carries one datagram at a time and   *)
(* may damage it; loss and order are the matter of RedundancyChannel and   *)
(* RastaConnection.                                                        *)
(***************************************************************************)
EXTENDS SciTelegram, ConfigFile

CONSTANTS
    Ixl, Oc,    \* the two processes, the Cloud IXL and the Object Controller
    Files,      \* the configuration files a process may be started with
    Packets(_), \* what a process may send: records of fields and contents
    Damages,    \* what the network may do to a datagram: sets of <<byte, bit>>
    MaxSends,   \* bound on the datagrams, but for one more after an error
    Hash(_, _, _)   \* rasta_calculate_hash: bytes, key, length of the result

ASSUME NodesAssumption == Ixl # Oc

\* Damages are short: in one byte, or in two that follow each other.
ASSUME DamagesAssumption ==
    \A damage \in Damages :
        /\ damage # {} /\ damage \subseteq {hit[1] : hit \in damage} \X (0..7)
        /\ \A x, y \in damage : x[1] \in Nat \ {0} /\ y[1] <= x[1] + 1

Nodes == {Ixl, Oc}
Peer(n) == IF n = Ixl THEN Oc ELSE Ixl

VARIABLES
    file,       \* file[n]: the configuration file n was started with
    handle,     \* handle[n]: its configuration
    failed,     \* failed[n]: n's rastamodule_lasterror is set
    heap,       \* heap[n]: the bytes of the last PDU n has encoded
    wire,       \* the datagram on its way, with what was to be sent
    last,       \* what became of the last datagram
    sent        \* sent[n]: the packets n has sent, in order

vars == <<file, handle, failed, heap, wire, last, sent>>

None == [from |-> "none"]

-----------------------------------------------------------------------------
(* rastafactory.c. A packet has the fields of the header, and contents that  *)
(* depend on its type: version and send_max, details and reason, messages.   *)

TypeCode ==
    [CONNREQ |-> 6200, CONNRESP |-> 6201, RETRREQ |-> 6212, RETRRESP |-> 6213,
     DISCREQ |-> 6216, HB |-> 6220, DATA |-> 6240, RETRDATA |-> 6241]
TypeOf(code) ==
    LET types == {t \in DOMAIN TypeCode : TypeCode[t] = code}
    IN  IF types = {} THEN "unknown" ELSE CHOOSE t \in types : TRUE

Handshake == {"CONNREQ", "CONNRESP"}
Carrying  == {"DATA", "RETRDATA"}

(* Mutation of DataOf: the length of a message counts its own two bytes. *)
DataOf_Counted(type, c) ==
    FlattenSeq([i \in 1..(IF type \in Carrying THEN Len(c.messages) ELSE 0) |->
        ShortToBytes(Len(c.messages[i]) + 2) \o c.messages[i]])

\* The data of a packet with these contents, as the create functions fill it.
DataOf(type, c) ==
    CASE type \in Handshake -> c.version \o ShortToBytes(c.send_max) \o Zeros(8)
      [] type = "DISCREQ"   -> ShortToBytes(c.details) \o ShortToBytes(c.reason)
      [] type \in Carrying  ->
            FlattenSeq([i \in 1..Len(c.messages) |->
                ShortToBytes(Len(c.messages[i])) \o c.messages[i]])
      [] OTHER              -> <<>>

\* extractMessageData. The last length may point beyond the data.
MessagesIn(data) ==
    LET from[i \in 1..(Len(data) + 1)] ==
            LET length == BytesToShort(Slice(data, i, 2))
            IN  IF i > Len(data) THEN <<>>
                ELSE <<Slice(data, i + 2, length)>>
                        \o from[Min({i + 2 + length, Len(data) + 1})]
    IN  from[1]

\* The contents as the extract functions read them: zeros if the data does not
\* have the length that the type has.
ContentsOf(type, data) ==
    LET read == CASE type \in Handshake -> Slice(data, 1, IF Len(data) = 14 THEN 14 ELSE 0)
                  [] type = "DISCREQ"   -> Slice(data, 1, IF Len(data) = 4 THEN 4 ELSE 0)
                  [] OTHER              -> data
    IN  CASE type \in Handshake -> [version |-> Slice(read, 1, 4),
                                    send_max |-> BytesToShort(Slice(read, 5, 2))]
          [] type = "DISCREQ"   -> [details |-> BytesToShort(Slice(read, 1, 2)),
                                    reason |-> BytesToShort(Slice(read, 3, 2))]
          [] type \in Carrying  -> [messages |-> MessagesIn(data)]
          [] OTHER              -> [none |-> 0]

-----------------------------------------------------------------------------
(* rastamodule.c *)

HeaderLength == 28

\* What n adds to a PDU: the safety code, of 0, 8 or 16 bytes.
CodeLength(n) == 8 * handle[n].hash_length
SafetyCode(n, bytes) == Hash(bytes, handle[n].key, CodeLength(n))

\* rastaModuleToBytes
ModuleToBytes(n, p) ==
    LET data   == DataOf(p.type, p.contents)
        length == HeaderLength + CodeLength(n) + Len(data)
        bytes  == ShortToBytes(length) \o ShortToBytes(TypeCode[p.type])
                    \o LongToBytes(p.receiver) \o LongToBytes(p.sender)
                    \o LongToBytes(p.sn) \o LongToBytes(p.cs)
                    \o LongToBytes(p.ts) \o LongToBytes(p.cts) \o data
    IN  bytes \o SafetyCode(n, bytes)

CrcLength(n) == CrcOptions[handle[n].crc_type].width \div 8
Checksum(n, bytes) ==
    Slice(LongToBytes(Calculate(handle[n].crc_type, bytes)), 1, CrcLength(n))

\* rastaRedundancyPacketToBytes: length, reserve, number, the PDU, checksum.
RedundancyPacketToBytes(n, number, pdu) ==
    LET bytes == ShortToBytes(8 + Len(pdu) + CrcLength(n)) \o Zeros(2)
                    \o LongToBytes(Bits(number)) \o pdu
    IN  bytes \o Checksum(n, bytes)

\* bytesToRastaRedundancyPacket: the PDU in a datagram, and whether the checksum
\* is right. The lengths come from the datagram's length alone.
InnerBytes(n, bytes) == SubSeq(bytes, 9, Len(bytes) - CrcLength(n))
ChecksumCorrect(n, bytes) ==
    LET length == Len(bytes) - CrcLength(n)
    IN  Slice(bytes, length + 1, CrcLength(n)) = Checksum(n, SubSeq(bytes, 1, length))

\* bytesToRastaPacket. It counts on the length that the PDU states.
DataLength(n, bytes) == BytesToShort(bytes) - HeaderLength - CodeLength(n)

(* Mutation of TooShort: a PDU of the minimum length counts as too short. *)
TooShort_Equal(n, bytes) == Len(bytes) <= HeaderLength + CodeLength(n)

TooShort(n, bytes) == Len(bytes) < HeaderLength + CodeLength(n)

(* Mutation of CodeCorrect: the comparison looks at one byte. *)
CodeCorrect_First(n, bytes) ==
    LET length == HeaderLength + DataLength(n, bytes)
    IN  Slice(bytes, length + 1, 1) = Slice(SafetyCode(n, Slice(bytes, 1, length)), 1, 1)

CodeCorrect(n, bytes) ==
    LET length == HeaderLength + DataLength(n, bytes)
    IN  Slice(bytes, length + 1, CodeLength(n)) = SafetyCode(n, Slice(bytes, 1, length))

PacketOf(n, bytes) ==
    LET type == TypeOf(BytesToShort(Slice(bytes, 3, 2)))
        Long(i) == BytesToLong(Slice(bytes, i, 4))
    IN  [type |-> type, receiver |-> Long(5), sender |-> Long(9), sn |-> Long(13),
         cs |-> Long(17), ts |-> Long(21), cts |-> Long(25),
         contents |-> ContentsOf(type, Slice(bytes, HeaderLength + 1, DataLength(n, bytes)))]

-----------------------------------------------------------------------------
(* The telegrams of DATA and RETRDATA messages (scils_send_telegram,         *)
(* process_received_message).                                                *)

\* "IXL_CENTRAL" and "LS_OC", shortened.
SciName(n) ==
    IF n = Ixl THEN <<Byte(73), PaddingChar, Byte(67)>> ELSE <<Byte(76), PaddingChar, Byte(79)>>

\* What a process has a function for. The Object Controller is external.
Taken(n) ==
    IF n = Ixl
    THEN {"VERSION_RESPONSE", "STATUS_BEGIN", "STATUS_FINISH", "SIGNAL_ASPECT_STATUS",
          "LUMINOSITY_STATUS", "EXECUTION_ERROR"}
    ELSE {"VERSION_REQUEST", "STATUS_REQUEST", "SHOW_SIGNAL_ASPECT", "CHANGE_LUMINOSITY"}

EachMessage(p, Op(_)) ==
    IF p.type \in Carrying
    THEN [p EXCEPT !.contents.messages = [i \in DOMAIN @ |-> Op(@[i])]]
    ELSE p

WithBytes(n, p) ==
    EachMessage(p, LAMBDA t : EncodeTelegram(SciName(n), SciName(Peer(n)), t))
WithTelegrams(n, p) ==
    EachMessage(p, LAMBDA bytes : ReadTelegram(SciName(Peer(n)), SciName(n), Taken(n), bytes))

\* What a process sends: with contents of the packet's type, telegrams that the
\* other one has a function for, and no more of them than a PDU has room for.
Sendable(n, x) ==
    /\ x \in [type : DOMAIN TypeCode, sn : SUBSET (0..31), cs : SUBSET (0..31),
              ts : SUBSET (0..31), cts : SUBSET (0..31), contents : {x.contents}]
    /\ x.contents \in
          CASE x.type \in Handshake -> [version : [1..4 -> Bytes], send_max : Shorts]
            [] x.type = "DISCREQ"   -> [details : Shorts, reason : Shorts]
            [] x.type \in Carrying  -> [messages : Seq(Telegrams(Taken(Peer(n))))]
            [] OTHER                -> [none : {0}]
    /\ HeaderLength + 16 + Len(DataOf(x.type, WithBytes(n, x).contents)) \in Shorts

ASSUME PacketsAssumption == \A n \in Nodes : \A x \in Packets(n) : Sendable(n, x)

-----------------------------------------------------------------------------
(* The two processes. *)

Id(n) == Bits(handle[n].other.rasta_id)

\* Each process reads its file; one without a logger does not run. The multiplexer
\* and its channels take algorithm, key and length of the safety code from the
\* file (sr_init_handle sets the handle's own context to MD4, but no datagram is
\* made or read with that one).
Init ==
    /\ file \in [Nodes -> Files]
    /\ handle = [n \in Nodes |-> Configuration(Written(file[n]))]
    /\ failed = [n \in Nodes |-> FALSE]
    /\ heap = [n \in Nodes |-> <<>>]
    /\ wire = None
    /\ last = None
    /\ sent = [n \in Nodes |-> <<>>]

\* What rastaModuleToBytes leaves in its result. After an error, of this packet
\* or any earlier one, nothing is written: the memory is new, or that of the
\* last PDU.
Encoded(n, p) ==
    LET bytes == ModuleToBytes(n, p)
    IN  IF failed[n] THEN {Slice(old, 1, Len(bytes)) : old \in {<<>>, heap[n]}}
        ELSE {bytes}

Addressed(n, x) ==
    [type |-> x.type, sender |-> Id(n), receiver |-> Id(Peer(n)), sn |-> x.sn,
     cs |-> x.cs, ts |-> x.ts, cts |-> x.cts, contents |-> x.contents]

\* redundancy_mux_send, with the packet of a create function.
Send(n) ==
    /\ handle[n].running /\ wire = None
    /\ Len(sent[n]) + Len(sent[Peer(n)]) < MaxSends + (IF failed[n] THEN 1 ELSE 0)
    /\ \E x \in Packets(n) :
        LET p == Addressed(n, x)
        IN  \E pdu \in Encoded(n, WithBytes(n, p)) :
              /\ wire' = [from |-> n, packet |-> p, intact |-> TRUE,
                          bytes |-> RedundancyPacketToBytes(n, Len(sent[n]), pdu)]
              /\ heap' = [heap EXCEPT ![n] = pdu]
              /\ sent' = [sent EXCEPT ![n] = Append(@, p)]
    /\ UNCHANGED <<file, handle, failed, last>>

Damaged(bytes, damage) ==
    [k \in DOMAIN bytes |->
        SymDiff(bytes[k], {hit[2] : hit \in {h \in damage : h[1] = k}})]

\* The network flips bits.
Damage ==
    /\ wire # None /\ wire.intact
    /\ \E damage \in Damages :
        /\ \A hit \in damage : hit[1] <= Len(wire.bytes)
        /\ wire' = [wire EXCEPT !.intact = FALSE, !.bytes = Damaged(@, damage)]
    /\ UNCHANGED <<file, handle, failed, heap, last, sent>>

\* rasta_red_f_receive looks at the checksum of the redundancy layer,
\* receive_thread at the safety code and the identities, but not for the PDUs
\* of the handshake.
Accepts(n, bytes) ==
    LET pdu == InnerBytes(n, bytes)
        p   == PacketOf(n, pdu)
    IN  /\ ChecksumCorrect(n, bytes)
        /\ \/ p.type \in Handshake
           \/ CodeCorrect(n, pdu) /\ p.sender = Id(Peer(n)) /\ p.receiver = Id(n)

Outcome(n, got) ==
    last' = [from |-> wire.from, meant |-> wire.packet, intact |-> wire.intact, got |-> got]

\* A PDU that is too short sets the error, for good. It stays in memory that may
\* still hold the packet before, whose type may be one of the handshake.
ReceiveShort(n) ==
    /\ TooShort(n, InnerBytes(n, wire.bytes))
    /\ failed' = [failed EXCEPT ![n] = TRUE]
    /\ \/ Outcome(n, None)
       \/ /\ ChecksumCorrect(n, wire.bytes)
          /\ last # None /\ last.from = wire.from /\ last.got # None
          /\ last.got.type \in Handshake
          /\ Outcome(n, last.got)
    /\ UNCHANGED handle

\* The stated length is less than the minimum: as an unsigned number the length
\* of the data is enormous, and the process reads far beyond the datagram.
ReceiveOverrun(n) ==
    LET pdu == InnerBytes(n, wire.bytes)
    IN  /\ ~TooShort(n, pdu) /\ DataLength(n, pdu) < 0
        /\ handle' = [handle EXCEPT ![n].running = FALSE]
        /\ Outcome(n, None)
        /\ UNCHANGED failed

ReceivePacket(n) ==
    LET pdu == InnerBytes(n, wire.bytes)
    IN  /\ ~TooShort(n, pdu) /\ DataLength(n, pdu) >= 0
        /\ Outcome(n, IF Accepts(n, wire.bytes) THEN WithTelegrams(n, PacketOf(n, pdu))
                   ELSE None)
        /\ UNCHANGED <<handle, failed>>

Receive(n) ==
    /\ wire # None /\ wire.from = Peer(n) /\ handle[n].running
    /\ ReceiveShort(n) \/ ReceiveOverrun(n) \/ ReceivePacket(n)
    /\ wire' = None
    /\ UNCHANGED <<file, heap, sent>>

Next == (\E n \in Nodes : Send(n) \/ Receive(n)) \/ Damage

Spec == Init /\ [][Next]_vars

-----------------------------------------------------------------------------
(* Properties. *)

\* The dictionary has what the file was written to say: for each key the first
\* setting that can be read. (File lines are renderings of settings: see
\* Written.)
ReadAsWritten ==
    \A n \in Nodes : handle[n].dictionary = Intended(file[n])

\* A datagram ends with the remainder of its polynomial division, in the order
\* of its bytes: what any implementation of the same checksum expects.
ChecksumIsRemainder ==
    wire # None =>
        (wire.intact =>
            LET n == wire.from
                k == Len(wire.bytes) - CrcLength(n)
            IN  CrcLength(n) > 0 =>
                    Remainder(handle[n].crc_type, SubSeq(wire.bytes, 1, k))
                        = UNION {LeftShift(wire.bytes[k + i], 8 * (i - 1)) : i \in 1..CrcLength(n)})

\* Whatever the two files say and whatever happens to the datagrams: what a
\* process takes from a PDU other than a handshake's has been sent to it, unless
\* it checks no safety code.
NeverMisread ==
    last # None =>
        \/ last.got = None
        \/ last.got.type \in Handshake
        \/ handle[Peer(last.from)].hash_length = 0
        \/ \E i \in 1..Len(sent[last.from]) : sent[last.from][i] = last.got

Matching(m, n) ==
    /\ handle[m].hash_length = handle[n].hash_length
    /\ handle[m].key = handle[n].key /\ handle[m].algorithm = handle[n].algorithm
    /\ handle[m].crc_type = handle[n].crc_type

\* Two processes with the same settings take all that is sent undamaged as it was
\* meant, and with a checksum never anything else, also after damaged datagrams.
MatchingUnderstand ==
    last # None =>
        (Matching(last.from, Peer(last.from)) =>
            /\ last.intact => last.got = last.meant
            /\ CrcLength(last.from) > 0 => last.got \in {None, last.meant})

\* The error that spoils all later datagrams of a process is set only where the
\* two files differ in the length of what is added to a PDU.
SpoiltOnlyByMismatch ==
    \A n \in Nodes : failed[n] =>
        CodeLength(n) + CrcLength(n) > CodeLength(Peer(n)) + CrcLength(Peer(n))
================================================================================
