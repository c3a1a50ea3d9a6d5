------------------------------ MODULE MCRastaPdu -------------------------------
EXTENDS RastaPdu

\* A stand-in for the hash functions: byte k of the code folds every length-th
\* byte of the input, with the key.
MCHash(bytes, key, length) ==
    LET salt == key[1] % 251
        Folded(k) == {i \in {j \in DOMAIN bytes : j % length = k % length} : TRUE}
    IN  [k \in 1..length |->
            SymDiff(Byte((salt + k + length) % 256),
                    {b \in 0..7 : Cardinality({i \in Folded(k) : b \in bytes[i]}) % 2 = 1})]

Name(w) == StringValue(<<Word(w)>>)
Number(key, n) == Setting(key, "plain", NumberValue(n))
Logged == <<Number("LOGGER_TYPE", 0), Number("LOGGER_MAX_LEVEL", 1)>>

Address(port) == <<Digits(127, 0), Character("."), Digits(0, 0), Character("."),
                   Digits(0, 0), Character("."), Digits(1, 0), Character(":"), Digits(port, 0)>>
AnyNic(port)  == <<Character("*"), Character(":"), Digits(port, 0)>>

\* config/rasta_client1_local.cfg: no safety code, no checksum.
Local ==
    Logged \o <<Setting("RASTA_SR_CHECKSUM_LEN", "bare", Name("NONE")),
                Setting("RASTA_CRC_TYPE", "bare", Name("TYPE_A")),
                Setting("RASTA_ID", "hex", NumberValue(97)),
                Setting("RASTA_REDUNDANCY_CONNECTIONS", "plain",
                        ArrayValue(<<Address(9998), AnyNic(9999)>>))>>

\* Standard values, settings in comments and settings that cannot be read.
Standard ==
    <<Setting("RASTA_CRC_TYPE", "comment", Name("TYPE_B")),
      Setting("RASTA_MD4_TYPE", "unclosed", Name("NONE")),
      Setting("RASTA_REDUNDANCY_CONNECTIONS", "unclosed", ArrayValue(<<Address(1)>>)),
      Number("RASTA_ID", -1)>> \o Logged

\* Some keys twice: the first setting counts.
Twice(length, crc) ==
    <<Setting("RASTA_MD4_TYPE", "noted", Name(length)),
      Setting("RASTA_CRC_TYPE", "plain", Name(crc)),
      Setting("RASTA_CRC_TYPE", "plain", Name("TYPE_A"))>>
    \o Logged \o <<Number("RASTA_SEND_MAX", 65556), Number("RASTA_ID", 98), Number("LOGGER_TYPE", 1)>>

\* Another algorithm with a key of its own.
Siphash ==
    Logged \o <<Setting("RASTA_SR_CHECKSUM_ALGO", "plain",
                   StringValue(<<Word("SIPHASH"), Character("-"), Digits(2, 2),
                                 Character("-"), Digits(4, 4)>>)),
                Setting("RASTA_SR_CHECKSUM_KEY", "hex", NumberValue(77)),
                Setting("RASTA_CRC_TYPE", "bare", Name("TYPE_D"))>>

NoLogger == <<Number("LOGGER_MAX_LEVEL", 1)>>

MCFiles ==
    {Local, Standard, Siphash, NoLogger, Twice("HALF", "TYPE_B"), Twice("FULL", "TYPE_C"),
     Twice("NONE", "TYPE_E")}

Packet(type, sn, contents) ==
    [type |-> type, sn |-> sn, cs |-> {0}, ts |-> {9, 31}, cts |-> {}, contents |-> contents]

Version == <<{4, 5}, {0, 1, 4, 5}, {4, 5}, {0, 1, 4, 5}>>      \* "0303"

MCPackets(n) ==
    IF n = Ixl
    THEN {Packet("CONNREQ", 0..31, [version |-> Version, send_max |-> 20]),
          Packet("HB", {8}, [none |-> 0]),
          Packet("DISCREQ", {16}, [details |-> 0, reason |-> 4]),
          Packet("DATA", {24}, [messages |->
              <<[type |-> "SHOW_SIGNAL_ASPECT",
                 payload |-> SignalAspectPayload["REBASE_AUTORIZADO"]]>>])}
    ELSE {Packet("CONNRESP", 0..31, [version |-> Version, send_max |-> 20]),
          Packet("HB", {8}, [none |-> 0]),
          Packet("RETRDATA", {16}, [messages |->
              <<[type |-> "STATUS_BEGIN", payload |-> <<>>],
                [type |-> "SIGNAL_ASPECT_STATUS", payload |-> SignalAspectPayload["APAGADA"]],
                [type |-> "LUMINOSITY_STATUS", payload |-> <<Byte(1)>>]>>]),
          Packet("DATA", {24}, [messages |->
              <<[type |-> "EXECUTION_ERROR",
                 payload |-> <<Byte(3)>> \o SignalAspectPayload["PARADA"]]>>])}

\* A bit of the stated length of the PDU, of its type, of its first byte after
\* the header, and a burst over two bytes of its number.
MCDamages ==
    {{<<9, 2>>}, {<<11, 2>>}, {<<37, 6>>}, {<<23, 7>>, <<24, 0>>, <<24, 1>>}}
================================================================================
