------------------------------ MODULE SciTelegram ------------------------------
(***************************************************************************)
(* The telegrams of the Cloud IXL and the Object Controller: how scils.c   *)
(* and the ICD functions make bytes of them, and what                      *)
(* process_received_message (cloud_ixl/c/main.c) reads in the bytes of a   *)
(* message. A telegram is a type and a payload; protocol, sender and       *)
(* receiver are the same for all telegrams of one direction.               *)
(*                                                                         *)
(* The repository has the Cloud IXL only. The Object Controller reads with *)
(* the same formats.                                                       *)
(***************************************************************************)
EXTENDS RastaBytes, TLC

CONSTANTS NameLength, MaxPayload    \* 20 and 85 bytes in the code

\* The length of a telegram is a short.
ASSUME SizesAssumption ==
    NameLength \in Nat /\ MaxPayload \in Nat /\ 3 + 2 * NameLength + MaxPayload \in Shorts

\* Message types in host order: 0x2400 goes out as the bytes 0x00, 0x24.
MessageType ==
    [VERSION_REQUEST |-> 9216, VERSION_RESPONSE |-> 9472, STATUS_REQUEST |-> 8448,
     STATUS_BEGIN |-> 8704, STATUS_FINISH |-> 8960,
     SHOW_SIGNAL_ASPECT |-> 256, CHANGE_LUMINOSITY |-> 512,
     SIGNAL_ASPECT_STATUS |-> 768, LUMINOSITY_STATUS |-> 1024, EXECUTION_ERROR |-> 1792]

SCI_PROTOCOL_LS == Byte(48)
SCI_PROTOCOL_P  == Byte(64)

\* A name in its field. Names do not differ in underscores at the end alone.
PaddingChar  == Byte(95)
Padded(name) == [k \in 1..NameLength |-> IF k <= Len(name) THEN name[k] ELSE PaddingChar]

\* cloud_ixl_build_signal_aspect_payload: basic aspect, lamps, national aspect.
AspectPayload(basic, lamps, national) ==
    <<Byte(basic)>> \o Zeros(5) \o <<Byte(254), Byte(254), Byte(lamps), Byte(national)>>
        \o [k \in 1..8 |-> Byte(254)]

SignalAspectPayload ==
    [VIA_LIBRE           |-> AspectPayload(1, 1, 254),
     PARADA              |-> AspectPayload(2, 1, 254),
     ANUNCIO_PARADA      |-> AspectPayload(3, 1, 254),
     ANUNCIO_PRECAUCION  |-> AspectPayload(5, 1, 254),
     REBASE              |-> AspectPayload(254, 1, 1),
     PARADA_SELECTIVA_N2 |-> AspectPayload(254, 1, 2),
     REBASE_AUTORIZADO   |-> AspectPayload(254, 1, 3),
     APAGADA             |-> AspectPayload(2, 15, 254)]

-----------------------------------------------------------------------------
(* sci.c *)

FieldsLength == 3 + 2 * NameLength

\* sci_create_base_telegram and sci_encode_telegram
EncodeTelegram(sender, receiver, t) ==
    <<SCI_PROTOCOL_LS>> \o ShortToBytes(MessageType[t.type])
        \o Padded(sender) \o Padded(receiver) \o t.payload

\* What sci_decode_telegram makes a telegram of.
Decodable(bytes) ==
    /\ Len(bytes) \in FieldsLength..(FieldsLength + MaxPayload)
    /\ bytes[1] \in {SCI_PROTOCOL_LS, SCI_PROTOCOL_P}

\* sci_get_message_type and the payload.
Decoded(bytes) ==
    LET code  == BytesToShort(Slice(bytes, 2, 2))
        types == {x \in DOMAIN MessageType : MessageType[x] = code}
    IN  [type    |-> IF types = {} THEN "UNKNOWN" ELSE CHOOSE x \in types : TRUE,
         payload |-> Slice(bytes, FieldsLength + 1, Len(bytes) - FieldsLength)]

\* is_expected_oc_to_ixl_header, with sci_name_matches
ExpectedHeader(sender, receiver, bytes) ==
    /\ bytes[1] = SCI_PROTOCOL_LS
    /\ Slice(bytes, 4, NameLength) = Padded(sender)
    /\ Slice(bytes, 4 + NameLength, NameLength) = Padded(receiver)

-----------------------------------------------------------------------------
(* sci_ls_icd.c: the payloads that a parse function accepts. *)

Lengths ==
    [VERSION_RESPONSE |-> {3}, STATUS_BEGIN |-> {0}, STATUS_FINISH |-> {0},
     SHOW_SIGNAL_ASPECT |-> {18}, SIGNAL_ASPECT_STATUS |-> {18},
     CHANGE_LUMINOSITY |-> {1}, LUMINOSITY_STATUS |-> {1}, EXECUTION_ERROR |-> {19}]
    @@ [t \in {"VERSION_REQUEST", "STATUS_REQUEST"} |-> 0..MaxPayload]

Parses(t) ==
    /\ Len(t.payload) \in Lengths[t.type]
    /\ t.type = "VERSION_RESPONSE" => Value(t.payload[3]) \in 1..2
    /\ t.type \in {"CHANGE_LUMINOSITY", "LUMINOSITY_STATUS"} => Value(t.payload[1]) \in 1..2
    /\ t.type = "EXECUTION_ERROR" => Value(t.payload[1]) \in 1..4

Ignored == [type |-> "ignored"]     \* no telegram, or of a type without a handler
Refused == [type |-> "refused"]     \* the session fails

\* process_received_message, by a party that takes these types.
ReadTelegram(sender, receiver, types, bytes) ==
    LET t == Decoded(bytes)
    IN  IF ~Decodable(bytes) THEN Ignored
        ELSE IF ~ExpectedHeader(sender, receiver, bytes) THEN Refused
        ELSE IF t.type \notin types THEN Ignored
        ELSE IF Parses(t) THEN t ELSE Refused

\* The telegrams of one of these types that are read as they were meant.
Telegrams(types) ==
    {t \in [type : types, payload : Seq(Bytes)] : Len(t.payload) <= MaxPayload /\ Parses(t)}
================================================================================
