------------------------------ MODULE ConfigFile -------------------------------
(***************************************************************************)
(* The configuration of a RaSTA process: the line parser and the standard  *)
(* values (rasta/c/config.c), the dictionary between them (dictionary.c),  *)
(* and what rasta_handle_init takes from both.                             *)
(*                                                                         *)
(* A line is a sequence of tokens. A token stands for a maximal run of     *)
(* letters, digits and underscores, a run of blanks, or one other          *)
(* character; a token of digits carries the numbers it is in base 10 and   *)
(* in base 16. Lines, texts and numbers longer than the parser's buffers   *)
(* are left out.                                                           *)
(***************************************************************************)
EXTENDS Integers, Sequences, SequencesExt, FiniteSetsExt

Word(w)           == <<"word", w>>
LowerCase(w)      == <<"lower", w>>        \* the word w, not in upper case
Digits(dec, hex)  == <<"digits", dec, hex>>
HexDigits(hex)    == <<"hex", hex>>        \* with a letter among them
Character(c)      == <<c>>

Blank == Character(" ")
Quote == Character("q")                    \* the character "

Kind(t)    == t[1]
IsAlnum(t) == Kind(t) \in {"word", "lower", "digits", "hex"}

Uppercase(t) == IF Kind(t) = "lower" THEN Word(t[2]) ELSE t

-----------------------------------------------------------------------------
(* struct LineParser: a position in a line. At the end of the line          *)
(* parser_next leaves `current' as it is.                                   *)

At(line, i)   == line[Min({i, Len(line)})]
After(line, i) == Min({i + 1, Len(line) + 1})
SkipBlank(line, i) == IF At(line, i) = Blank THEN After(line, i) ELSE i

Error == [type |-> "error"]
NumberValue(n) == [type |-> "number", number |-> n]
StringValue(s) == [type |-> "string", string |-> s]
ArrayValue(a)  == [type |-> "array", array |-> a]

ParseNumber(line, i) ==
    LET negative == At(line, i) = Character("-")
        token    == At(line, IF negative THEN After(line, i) ELSE i)
    IN  IF Kind(token) # "digits" THEN Error
        ELSE NumberValue(IF negative THEN 0 - token[2] ELSE token[2])

\* The text from the quote at i to the next one, and the place of that one.
ParseString(line, i) ==
    LET first   == After(line, i)
        closing == {k \in first..(Len(line) + 1) : At(line, k) = Quote}
    IN  IF closing = {} THEN [ok |-> FALSE]
        ELSE [ok |-> TRUE, at |-> Min(closing),
              text |-> SubSeq(line, first, Min(closing) - 1)]

ParseHex(line, i) ==
    LET token == At(line, After(line, i))
    IN  NumberValue(CASE Kind(token) = "digits" -> token[3]
                      [] Kind(token) = "hex"    -> token[2]
                      [] OTHER                  -> 0)

\* From the brace at i. An array of numbers is taken as it is so far; an array
\* without elements has one, which nothing initialises.
ParseArray(line, i) ==
    LET elements[j \in 1..(Len(line) + 1)] ==
            LET k     == SkipBlank(line, j)
                text  == ParseString(line, k)
                comma == SkipBlank(line, After(line, text.at))
                rest  == elements[After(line, comma)]
            IN  CASE At(line, j) = Character("}") -> [ok |-> TRUE, texts |-> <<>>]
                  [] At(line, j) # Character("}") /\ Kind(At(line, k)) = "digits" ->
                        [ok |-> TRUE, texts |-> <<>>]
                  [] At(line, j) # Character("}") /\ At(line, k) = Quote ->
                        IF ~text.ok THEN text
                        ELSE IF At(line, comma) \in {Character(";"), Character(",")}
                        THEN IF rest.ok THEN [rest EXCEPT !.texts = <<text.text>> \o @]
                             ELSE rest
                        ELSE [ok |-> At(line, comma) = Character("}"),
                              texts |-> <<text.text>>]
                  [] OTHER -> [ok |-> FALSE]
        all == elements[After(line, i)]
    IN  IF ~all.ok THEN Error
        ELSE ArrayValue(IF all.texts = <<>> THEN <<"unset">> ELSE all.texts)

ParseIdentifier(line, i) ==
    StringValue(IF IsAlnum(At(line, i)) THEN <<Uppercase(At(line, i))>> ELSE <<>>)

ParseValue(line, i) ==
    LET token == At(line, i)
        text  == ParseString(line, i)
    IN  CASE token = Character("-") \/ Kind(token) = "digits" -> ParseNumber(line, i)
          [] token = Quote          -> IF text.ok THEN StringValue(text.text) ELSE Error
          [] token = Character("{") -> ParseArray(line, i)
          [] token = Character("#") -> ParseHex(line, i)
          [] OTHER                  -> ParseIdentifier(line, i)

-----------------------------------------------------------------------------
(* A dictionary is a function from keys to values. *)

(* Mutation of Add: the last setting of a key wins. *)
Add_Replaces(dictionary, key, value) ==
    [k \in DOMAIN dictionary \cup {key} |-> IF k = key THEN value ELSE dictionary[k]]

\* dictionary_add: a key that is already there keeps its value.
Add(dictionary, key, value) ==
    [k \in DOMAIN dictionary \cup {key} |->
        IF k \in DOMAIN dictionary THEN dictionary[k] ELSE value]

Get(dictionary, key) ==
    IF Word(key) \in DOMAIN dictionary THEN dictionary[Word(key)] ELSE Error

\* One turn of the loop of config_load: comments, empty lines, lines without
\* "=" and values that cannot be read leave the dictionary as it is.
ReadLine(dictionary, line) ==
    LET start == SkipBlank(line, 1)
        equals == SkipBlank(line, After(line, start))
        value  == ParseValue(line, SkipBlank(line, After(line, equals)))
    IN  IF /\ line # <<>> /\ IsAlnum(At(line, start))
           /\ At(line, equals) = Character("=")
           /\ value # Error
        THEN Add(dictionary, Uppercase(At(line, start)), value)
        ELSE dictionary

Dictionary(lines) == FoldLeft(ReadLine, [k \in {} |-> Error], lines)

-----------------------------------------------------------------------------
(* config_setstd *)

Short == 65536      \* what an unsigned short counts

\* For each number: its key, its standard value, and the width it is cut to.
SendingNumbers ==
    [t_max       |-> <<"RASTA_T_MAX", 1800, 0>>,
     t_h         |-> <<"RASTA_T_H", 300, 0>>,
     send_max    |-> <<"RASTA_SEND_MAX", 20, Short>>,
     mwa         |-> <<"RASTA_MWA", 10, Short>>,
     max_packet  |-> <<"RASTA_MAX_PACKET", 3, 0>>,
     diag_window |-> <<"RASTA_DIAG_WINDOW", 5000, 0>>]
OtherNumbers ==
    [t_seq             |-> <<"RASTA_T_SEQ", 100, Short>>,
     n_diagnose        |-> <<"RASTA_N_DIAGNOSE", 200, Short>>,
     n_deferqueue_size |-> <<"RASTA_N_DEFERQUEUE_SIZE", 4, Short>>,
     rasta_network     |-> <<"RASTA_NETWORK", 0, 0>>,
     rasta_id          |-> <<"RASTA_ID", 0, 0>>]

\* A negative number counts as none.
NumberOf(dictionary, setting) ==
    LET entry == Get(dictionary, setting[1])
    IN  IF entry.type # "number" THEN setting[2]
        ELSE IF entry.number < 0 THEN setting[2]
        ELSE IF setting[3] = 0 THEN entry.number ELSE entry.number % setting[3]

\* md4_type: the number of 8-byte blocks of the safety code.
ChecksumLength(dictionary) ==
    LET old   == Get(dictionary, "RASTA_MD4_TYPE")
        entry == IF old = Error THEN Get(dictionary, "RASTA_SR_CHECKSUM_LEN") ELSE old
    IN  CASE entry = StringValue(<<Word("NONE")>>) -> 0
          [] entry = StringValue(<<Word("FULL")>>) -> 2
          [] OTHER                                 -> 1

\* Another text than these leaves the algorithm uninitialised.
Algorithm(dictionary) ==
    LET entry == Get(dictionary, "RASTA_SR_CHECKSUM_ALGO")
    IN  CASE entry.type # "string"                     -> "MD4"
          [] entry = StringValue(<<Word("MD4")>>)      -> "MD4"
          [] entry = StringValue(<<Word("BLAKE2B")>>)  -> "BLAKE2B"
          [] entry = StringValue(<<Word("SIPHASH"), Character("-"), Digits(2, 2),
                                   Character("-"), Digits(4, 4)>>) -> "SIPHASH_2_4"
          [] OTHER                                     -> "unset"

CrcType(dictionary) ==
    LET entry == Get(dictionary, "RASTA_CRC_TYPE")
        named == {t \in {"TYPE_A", "TYPE_B", "TYPE_C", "TYPE_D", "TYPE_E"} :
                     entry = StringValue(<<Word(t)>>)}
    IN  IF named = {} THEN "TYPE_A" ELSE CHOOSE t \in named : TRUE

\* extractIPData: the port of "a.b.c.d:port" or "*:port", 0 for anything else.
PortOf(text) ==
    LET colon == CASE Len(text) = 3 /\ Kind(text[1]) = "*" -> 2
                   [] /\ Len(text) = 9
                      /\ \A k \in {1, 3, 5, 7} :
                            Kind(text[k]) = "digits" /\ text[k][2] < 1000
                      /\ \A k \in {2, 4, 6} : text[k] = Character(".") -> 8
                   [] OTHER -> 0
    IN  IF colon = 0 THEN 0
        ELSE IF text[colon] = Character(":") /\ Kind(text[colon + 1]) = "digits"
        THEN text[colon + 1][2] ELSE 0

\* The ports of the transport channels. From the first bad address on nothing
\* is stored, but all of them are counted.
Connections(dictionary) ==
    LET entry == Get(dictionary, "RASTA_REDUNDANCY_CONNECTIONS")
        Bad(k) == \E i \in 1..k : PortOf(entry.array[i]) = 0
    IN  IF entry.type # "array" THEN <<>>
        ELSE [k \in 1..Len(entry.array) |->
                 IF Bad(k) THEN "unset" ELSE PortOf(entry.array[k])]

\* The key of MD4 are its four initial values (as 32-bit int), that of the others
\* is one number, which nothing initialises when the key is missing.
NumberOr(dictionary, key, std) ==
    LET entry == Get(dictionary, key) IN IF entry.type = "number" THEN entry.number ELSE std

Md4Key(dictionary) ==
    <<NumberOr(dictionary, "RASTA_MD4_A", 1732584193), NumberOr(dictionary, "RASTA_MD4_B", -271733879),
      NumberOr(dictionary, "RASTA_MD4_C", -1732584194), NumberOr(dictionary, "RASTA_MD4_D", 271733878)>>

HashKey(dictionary) ==
    IF Algorithm(dictionary) = "MD4" THEN Md4Key(dictionary)
    ELSE <<NumberOr(dictionary, "RASTA_SR_CHECKSUM_KEY", "unset")>>

-----------------------------------------------------------------------------
(* rasta_handle_init: without a logger the process exits. *)

LoggerFile == 1     \* LOGGER_TYPE_FILE

HasLogger(dictionary) ==
    LET type == Get(dictionary, "LOGGER_TYPE")
    IN  /\ type.type = "number"
        /\ Get(dictionary, "LOGGER_MAX_LEVEL").type = "number"
        /\ type.number = LoggerFile => Get(dictionary, "LOGGER_FILE").type = "string"

\* The versions a ConnectionRequest may carry; without the key, uninitialised.
AcceptedVersions(dictionary) ==
    LET entry == Get(dictionary, "RASTA_ACCEPTED_VERSIONS")
    IN  IF entry.type = "array" THEN entry.array ELSE "unset"

Configuration(lines) ==
    LET d == Dictionary(lines)
    IN  [dictionary |-> d,
         sending |-> [s \in DOMAIN SendingNumbers |-> NumberOf(d, SendingNumbers[s])],
         other |-> [s \in DOMAIN OtherNumbers |-> NumberOf(d, OtherNumbers[s])],
         hash_length |-> ChecksumLength(d), algorithm |-> Algorithm(d),
         key |-> HashKey(d), crc_type |-> CrcType(d),
         connections |-> Connections(d), versions |-> AcceptedVersions(d),
         running |-> HasLogger(d)]

-----------------------------------------------------------------------------
(* What a file is meant to say. A setting is a key, a value and the style it *)
(* is written in; one in a comment, or without its closing sign, says        *)
(* nothing.                                                                  *)

Setting(key, style, value) == [key |-> key, style |-> style, value |-> value]

Quoted(text) == <<Quote>> \o text \o <<Quote>>

ValueTokens(s) ==
    CASE s.value.type = "string" ->
            IF s.style = "bare" THEN s.value.string ELSE Quoted(s.value.string)
      [] s.value.type = "array" ->
            <<Character("{")>>
            \o FlattenSeq([i \in 1..Len(s.value.array) |->
                   (IF i > 1 THEN <<Character(";"), Blank>> ELSE <<>>)
                   \o Quoted(s.value.array[i])])
            \o <<Character("}")>>
      [] s.style = "hex" -> <<Character("#"), Digits(0, s.value.number)>>
      [] s.value.type = "number" /\ s.value.number < 0 ->
            <<Character("-"), Digits(0 - s.value.number, 0)>>
      [] OTHER -> <<Digits(s.value.number, 0)>>

LineOf(s) ==
    CASE s.style = "comment"  -> <<Character(";"), Word(s.key)>> \o ValueTokens(s)
      [] s.style = "unclosed" -> <<Word(s.key), Character("=")>> \o Front(ValueTokens(s))
      [] s.style = "noted"    -> <<Blank, LowerCase(s.key), Character("=")>> \o ValueTokens(s)
                                    \o <<Blank, Character(";"), Word("note")>>
      [] OTHER                -> <<Word(s.key), Blank, Character("="), Blank>> \o ValueTokens(s)

Written(settings) == <<<<>>>> \o [i \in DOMAIN settings |-> LineOf(settings[i])]

Intended(settings) ==
    LET said   == SelectSeq(settings, LAMBDA s : s.style \notin {"comment", "unclosed"})
        Where(key) == {i \in DOMAIN said : Word(said[i].key) = key}
    IN  [key \in {Word(said[i].key) : i \in DOMAIN said} |-> said[Min(Where(key))].value]
================================================================================
