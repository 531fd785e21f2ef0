------------------------- MODULE SessionDescription -------------------------
(***************************************************************************)
(* Session descriptions: how rav::sdp parses a text and writes one, the    *)
(* fields and attributes first, then rav::sdp::MediaDescription and        *)
(* rav::sdp::SessionDescription: their lines, parsed one after the other   *)
(* and written in a fixed order.  The attributes that are not known are    *)
(* kept, but never written.                                                *)
(* At the end: what a receiver makes of a description, its streams and the *)
(* audio format they have.                                                 *)
(*                                                                         *)
(* A word of an attribute or address is a text; a rejected text is Failed. *)
(***************************************************************************)
EXTENDS Integers, Sequences, SequencesExt, FiniteSetsExt, TLC

-----------------------------------------------------------------------------
(***************************************************************************)
(* Texts and how rav::StringParser and the functions of string.hpp read    *)
(* them.  A text is a sequence of tokens: words, separators and numbers    *)
(* as they are written.                                                    *)
(***************************************************************************)
CONSTANTS
  Numbers,   \* the integers that occur in texts
  Lower,     \* the words that are not lower case, and what they are in lower case
  Failed,    \* the result of a parser that rejects its text
  None       \* an optional value that is not set

ASSUME NumbersAssumption == Numbers \subseteq Nat

\* A parser that rejects its text gives up.
Valid(condition, value) == IF condition THEN value ELSE Failed

NewLine == <<"\r", "\n">>

\* The number a word shows.
Shown == [word \in {ToString(n) : n \in Numbers} |-> CHOOSE n \in Numbers : ToString(n) = word]

Show(n) == <<ToString(n)>>

\* read_int and string_to_int: the number a text begins with, if the type holds it.
ReadInt(text, limit) ==
  IF text # <<>> /\ Head(text) \in DOMAIN Shown /\ Shown[Head(text)] <= limit
  THEN Shown[Head(text)] ELSE Failed

UInt8 == 255
UInt16 == 65535
Int32 == 2147483647

\* string_compare_case_insensitive
InLowerCase(text) == [i \in DOMAIN text |-> IF text[i] \in DOMAIN Lower THEN Lower[text[i]] ELSE text[i]]
SameWord(a, b) == InLowerCase(a) = InLowerCase(b)

StartsWith(text, word) == text # <<>> /\ Head(text) = word

\* skip
Skipped(text, word) == IF StartsWith(text, word) THEN Tail(text) ELSE text

Has(text, word) == \E i \in DOMAIN text : text[i] = word
FirstOf(text, word) == Min({i \in DOMAIN text : text[i] = word})

\* split: what comes before the first of the separators, or all, and what is left.
Part(text, word) == IF Has(text, word) THEN SubSeq(text, 1, FirstOf(text, word) - 1) ELSE text
Rest(text, word) == IF Has(text, word) THEN SubSeq(text, FirstOf(text, word) + 1, Len(text)) ELSE <<>>

\* A text that is split until nothing is left: an empty rest is no part of it.
Sorted(set) == [k \in 1..Cardinality(set) |-> CHOOSE i \in set : Cardinality({j \in set : j <= i}) = k]
UpToEach(text, ends) == [i \in DOMAIN ends |-> SubSeq(text, (IF i = 1 THEN 0 ELSE ends[i - 1]) + 1, ends[i] - 1)]
WithoutEmptyEnd(parts) == IF Last(parts) = <<>> THEN Front(parts) ELSE parts
Parts(text, word) ==
  WithoutEmptyEnd(UpToEach(text, Sorted({i \in DOMAIN text : text[i] = word} \cup {Len(text) + 1})))

\* read_until_newline: the line without its end.
TakenLine(text) ==
  LET line == Part(text, "\n")
  IN  IF line # <<>> /\ Last(line) = "\r" THEN Front(line) ELSE line

\* Every line of a text: the last needs no newline, but then keeps its carriage return.
LinesOf(text) ==
  LET all == Parts(text, "\n")
      ended == text # <<>> /\ Last(text) = "\n"
  IN  [i \in DOMAIN all |-> IF ended \/ i < Len(all) THEN TakenLine(all[i]) ELSE all[i]]

\* fmt::join
Joined(texts, word) == FoldLeft(LAMBDA sum, t : IF sum = <<>> THEN t ELSE sum \o <<word>> \o t, <<>>, texts)

-----------------------------------------------------------------------------
CONSTANT Decimals   \* the numbers that are read as a float: what is written |-> its value in units of 1/Precision

Precision == 10000

\* Sets a field, unless the parser of its value failed.
With(description, field, value) ==
  IF value = Failed THEN Failed ELSE [description EXCEPT ![field] = value]
Added(description, field, value) ==
  IF value = Failed THEN Failed ELSE [description EXCEPT ![field] = Append(@, value)]

Internet == <<"IN">>
AddressTypes == {<<"IP4">>, <<"IP6">>}
\* The constant for inactive is "recvonly", so that it is never read.
Directions == {<<"sendrecv">>, <<"sendonly">>, <<"recvonly">>}

(***************************************************************************)
(* Fields                                                                  *)
(***************************************************************************)

NoOrigin == [username |-> <<>>, id |-> <<>>, version |-> 0, net |-> <<"undefined">>,
             type |-> <<"undefined">>, address |-> <<>>]

ParseOrigin(line) ==
  LET f == Parts(Tail(line), " ")
  IN  Valid(Len(f) >= 6 /\ ReadInt(f[3], Int32) # Failed /\ f[4] = Internet /\ f[5] \in AddressTypes,
            [username |-> f[1], id |-> f[2], version |-> ReadInt(f[3], Int32),
             net |-> f[4], type |-> f[5], address |-> f[6]])

ShowOrigin(o) ==
  <<"o=">> \o Joined(<<IF o.username = <<>> THEN <<"-">> ELSE o.username, o.id, Show(o.version), o.net, o.type, o.address>>, " ")

ValidOrigin(o) == o.id # <<>> /\ o.address # <<>> /\ o.net = Internet /\ o.type \in AddressTypes

\* "/" ttl and number of addresses, as far as they are set.
ConnectionNumbers(type, numbers) ==
  LET n == Parts(numbers, "/")
      value(i) == ReadInt(n[i], Int32)
  IN  IF numbers = <<>> THEN [ttl |-> None, count |-> None]
      ELSE Valid(/\ Len(numbers) \in (IF type = <<"IP4">> THEN {1, 3} ELSE {1})
                 /\ \A i \in DOMAIN n : value(i) # Failed
                 /\ Len(numbers) = 2 * Len(n) - 1,
                 IF type = <<"IP6">> THEN [ttl |-> None, count |-> value(1)]
                 ELSE [ttl |-> value(1), count |-> IF Len(n) = 2 THEN value(2) ELSE None])

ParseConnection(line) ==
  LET f == Parts(Tail(line), " ")
      address == Rest(Rest(Tail(line), " "), " ")
      numbers == ConnectionNumbers(f[2], Rest(address, "/"))
  IN  Valid(Len(f) >= 2 /\ f[1] = Internet /\ f[2] \in AddressTypes /\ numbers # Failed,
            [net |-> f[1], type |-> f[2], address |-> Part(address, "/")] @@ numbers)

ShowConnection(c) ==
  <<"c=">> \o Joined(<<c.net, c.type, c.address>>, " ")
    \o (IF c.ttl = None THEN <<>> ELSE <<"/">> \o Show(c.ttl))
    \o (IF c.count = None THEN <<>> ELSE <<"/">> \o Show(c.count))

\* The bounds of a session in time
ParseTime(line) ==
  LET f == Parts(Tail(line), " ")
      value(i) == ReadInt(f[i], Int32)
  IN  Valid(Len(f) >= 2 /\ value(1) # Failed /\ value(2) # Failed, [start |-> value(1), stop |-> value(2)])
ShowTime(t) == <<"t=">> \o Show(t.start) \o <<" ">> \o Show(t.stop)

\* parse_format: the value of rtpmap
ParseFormat(value) ==
  LET encoding == Part(Rest(value, " "), "/")
      numbers == Parts(Rest(Rest(value, " "), "/"), "/")
      number(i) == ReadInt(numbers[i], Int32)
  IN  Valid(/\ ReadInt(value, UInt8) # Failed /\ Len(value) > 2 /\ value[2] = " "
            /\ numbers # <<>> /\ \A i \in DOMAIN numbers : number(i) # Failed,
            [payload |-> ReadInt(value, UInt8), encoding |-> encoding, rate |-> number(1),
             channels |-> IF Len(numbers) > 1 THEN number(2) ELSE 1])
ShowFormat(f) == Show(f.payload) \o <<" ">> \o Joined(<<f.encoding, Show(f.rate), Show(f.channels)>>, "/")

\* Only groups of duplicated streams are known.
ParseGroup(value) ==
  LET f == Parts(value, " ")
  IN  Valid(Has(value, " ") /\ f[1] = <<"DUP">>, [type |-> "dup", tags |-> Tail(f)])
ShowGroup(g) == <<"a=", "group", ":", "DUP", " ">> \o Joined(g.tags, " ")

PtpVersions == {<<"IEEE1588-2002">>, <<"IEEE1588-2008">>, <<"IEEE802.1AS-2011">>, <<"traceable">>}

\* Only a ptp clock is accepted; it may lack its grandmaster and its domain.
ParseReferenceClock(value) ==
  LET f == Parts(Rest(value, "="), ":")
      domain == IF Len(f) < 3 THEN None ELSE ReadInt(f[3], Int32)
  IN  Valid(/\ Part(value, "=") = <<"ptp">> /\ domain # Failed
            /\ f # <<>> => f[1] \in PtpVersions,
            [source |-> <<"ptp">>, version |-> IF f = <<>> THEN None ELSE f[1],
             gmid |-> IF Len(f) < 2 THEN None ELSE f[2], domain |-> domain])

\* What is not set cannot be written: value() throws.
Writable(clock) == clock.version # None /\ clock.gmid # None /\ clock.domain # None
ShowReferenceClock(clock) ==
  <<"a=", "ts-refclk", ":">> \o clock.source \o <<"=">> \o Joined(<<clock.version, clock.gmid, Show(clock.domain)>>, ":")

ParseMediaClock(value) ==
  LET mode == Part(value, " ")
      rate == Rest(value, " ")
      fraction == Parts(Rest(rate, "="), "/")
      number(text) == ReadInt(text, Int32)
  IN  Valid(/\ value # <<>> => Part(mode, "=") = <<"direct">>
            /\ Rest(mode, "=") # <<>> => number(Rest(mode, "=")) # Failed
            /\ rate # <<>> => /\ Part(rate, "=") = <<"rate">> /\ Len(fraction) >= 2
                              /\ number(fraction[1]) # Failed /\ number(fraction[2]) # Failed,
            [mode |-> <<"direct">>,
             offset |-> IF Rest(mode, "=") = <<>> THEN None ELSE number(Rest(mode, "=")),
             rate |-> IF rate = <<>> THEN None ELSE <<number(fraction[1]), number(fraction[2])>>])
ShowMediaClock(clock) ==
  <<"a=", "mediaclk", ":">> \o clock.mode
    \o (IF clock.offset = None THEN <<>> ELSE <<"=">> \o Show(clock.offset))
    \o (IF clock.rate = None THEN <<>>
        ELSE <<" ", "rate", "=">> \o Joined(<<Show(clock.rate[1]), Show(clock.rate[2])>>, "/"))

ParseClockDomain(value) ==
  LET domain == ReadInt(Rest(value, " "), Int32)
  IN  Valid(Part(value, " ") = <<"PTPv2">> /\ domain # Failed, [source |-> <<"PTPv2">>, domain |-> domain])
ShowClockDomain(d) == <<"a=", "clock-domain", ":">> \o d.source \o <<" ">> \o Show(d.domain)

\* parse_source_filter: the value has a leading space
ParseSourceFilter(value) ==
  LET f == Parts(Skipped(value, " "), " ")
  IN  Valid(/\ StartsWith(value, " ") /\ Len(f) >= 4 /\ f[1] \in {<<"incl">>, <<"excl">>} /\ f[2] = Internet
            /\ f[3] \in AddressTypes \cup {<<"*">>} /\ \A i \in 4..Len(f) : f[i] # <<>>,
            [mode |-> f[1], net |-> f[2], type |-> f[3], dst |-> f[4], sources |-> SubSeq(f, 5, Len(f))])
ShowSourceFilter(f) ==
  <<"a=", "source-filter", ":", " ">> \o Joined(<<f.mode, f.net, f.type, f.dst>> \o f.sources, " ")

\* string_to_float, which also reads integers
ReadFloat(text) ==
  IF text = <<>> \/ Head(text) \notin DOMAIN Decimals THEN Failed ELSE [num |-> Decimals[Head(text)], den |-> Precision]

\* {:.3g}: rounded to three digits.  The value is below 1000.
Rounded(value) ==
  LET unit == Min({u \in {1, 10, 100, 1000, 10000} : value.num * (Precision \div u) < 1000 * value.den})
  IN  unit * ((2 * value.num * Precision + unit * value.den) \div (2 * unit * value.den))
ShowFloat(value) == <<CHOOSE word \in DOMAIN Decimals : Decimals[word] = Rounded(value)>>

-----------------------------------------------------------------------------
(***************************************************************************)
(* Attributes.  A line is "a=", the key, and after a colon the value.      *)
(***************************************************************************)

Key(line) == Part(Tail(line), ":")
Value(line) == Rest(Tail(line), ":")

\* The first value of an attribute that is not known is kept.
WithUnknown(d, key, value) ==
  Valid(value # <<>>, IF \E a \in d.unknown : a[1] = key THEN d ELSE [d EXCEPT !.unknown = @ \cup {<<key, value>>}])

\* The attributes of both levels.  At the session level some may lack a value,
\* and are then ignored.
SharedKeys == Directions \cup {<<"ts-refclk">>, <<"mediaclk">>, <<"clock-domain">>, <<"source-filter">>, <<"sync-time">>}
Ignorable == {<<"ts-refclk">>, <<"mediaclk">>, <<"clock-domain">>, <<"group">>}

ParseShared(d, key, value) ==
  CASE key \in Directions          -> [d EXCEPT !.direction = key]
    [] key = <<"ts-refclk">>       -> With(d, "refclk", ParseReferenceClock(value))
    [] key = <<"mediaclk">>        -> With(d, "mediaClock", ParseMediaClock(value))
    [] key = <<"clock-domain">>    -> With(d, "clockDomain", ParseClockDomain(value))
    [] key = <<"source-filter">>   -> Added(d, "filters", ParseSourceFilter(value))
    [] key = <<"sync-time">>       -> With(d, "syncTime", ReadInt(value, Int32))

\* A format is described before the rtpmap of its payload type.
WithFormat(media, format) ==
  LET same == {i \in DOMAIN media.formats : media.formats[i].payload = format.payload}
  IN  IF format = Failed THEN Failed ELSE Valid(same # {}, [media EXCEPT !.formats[Min(same)] = format])

ParseDeviation(value) ==
  LET f == Parts(value, "/")
  IN  Valid(Len(f) >= 2 /\ ReadInt(f[1], Int32) # Failed /\ ReadInt(f[2], Int32) # Failed,
            <<ReadInt(f[1], Int32), ReadInt(f[2], Int32)>>)

ParseMediaAttribute(media, line) ==
  LET key == Key(line)
      value == Value(line)
  IN  IF key \in SharedKeys
      THEN IF value = <<>> /\ key \notin Directions THEN Failed ELSE ParseShared(media, key, value)
      ELSE CASE key = <<"rtpmap">>          -> WithFormat(media, ParseFormat(value))
             [] key = <<"ptime">>           -> With(media, "ptime", ReadFloat(value))
             [] key = <<"maxptime">>        -> With(media, "maxPtime", ReadFloat(value))
             [] key = <<"clock-deviation">> -> With(media, "deviation", ParseDeviation(value))
             [] key = <<"framecount">>      -> With(media, "framecount", ReadInt(value, UInt16))
             [] key = <<"mid">>             -> With(media, "mid", Valid(value # <<>>, value))
             [] OTHER                       -> WithUnknown(media, key, value)

ParseSessionAttribute(sd, line) ==
  LET key == Key(line)
      value == Value(line)
  IN  IF key \in Ignorable /\ value = <<>> THEN sd
      ELSE IF key \in SharedKeys THEN ParseShared(sd, key, value)
      ELSE IF key = <<"group">> THEN With(sd, "group", ParseGroup(value))
      ELSE WithUnknown(sd, key, value)

(***************************************************************************)
(* Media                                                                   *)
(***************************************************************************)

Attributes ==
  [direction |-> None, refclk |-> None, mediaClock |-> None, clockDomain |-> None,
   filters |-> <<>>, syncTime |-> None, unknown |-> {}, info |-> None]

NewMedia ==
  [type |-> <<>>, port |-> 0, ports |-> 1, protocol |-> <<>>, formats |-> <<>>, connections |-> <<>>,
   ptime |-> None, maxPtime |-> None, mid |-> None, deviation |-> None, framecount |-> None] @@ Attributes

NewFormat(payload) == [payload |-> payload, encoding |-> <<>>, rate |-> 0, channels |-> 0]

ParseMedia(line) ==
  LET f == Parts(Tail(line), " ")
      ports == Parts(f[2], "/")
  IN  Valid(/\ Len(f) >= 3
            /\ \A i \in DOMAIN ports : ReadInt(ports[i], UInt16) # Failed
            /\ \A i \in 4..Len(f) : ReadInt(f[i], UInt8) # Failed,
            [NewMedia EXCEPT !.type = f[1], !.port = ReadInt(ports[1], UInt16),
                             !.ports = IF Len(ports) > 1 THEN ReadInt(ports[2], UInt16) ELSE 1,
                             !.protocol = f[3],
                             !.formats = [i \in 1..(Len(f) - 3) |-> NewFormat(ReadInt(f[i + 3], UInt8))]])

Line(text) == text \o NewLine
Optional(value, Shows(_)) == IF value = None THEN <<>> ELSE Line(Shows(value))
EachOf(values, Shows(_)) == FlattenSeq([i \in DOMAIN values |-> Line(Shows(values[i]))])

ShowAttribute(key, value) == <<"a=", key, ":">> \o value
ShowDirection(direction) == <<"a=">> \o direction

ShowMedia(media) ==
  LET ports == IF media.ports > 1 THEN Show(media.port) \o <<"/">> \o Show(media.ports) ELSE Show(media.port)
  IN  FlattenSeq(<<
        Line(<<"m=">> \o Joined(<<media.type, ports, media.protocol>>
                                  \o [i \in DOMAIN media.formats |-> Show(media.formats[i].payload)], " ")),
        EachOf(media.connections, ShowConnection),
        Optional(media.info, LAMBDA i : <<"s=">> \o i),
        EachOf(media.formats, LAMBDA f : ShowAttribute("rtpmap", ShowFormat(f))),
        Optional(media.ptime, LAMBDA t : ShowAttribute("ptime", ShowFloat(t))),
        Optional(media.maxPtime, LAMBDA t : ShowAttribute("maxptime", ShowFloat(t))),
        Optional(media.mid, LAMBDA m : ShowAttribute("mid", m)),
        Optional(media.direction, ShowDirection),
        Optional(media.refclk, ShowReferenceClock),
        Optional(media.mediaClock, ShowMediaClock),
        Optional(media.clockDomain, ShowClockDomain),
        Optional(media.syncTime, LAMBDA t : ShowAttribute("sync-time", Show(t))),
        Optional(media.deviation, LAMBDA d : ShowAttribute("clock-deviation", Joined(<<Show(d[1]), Show(d[2])>>, "/"))),
        EachOf(media.filters, ShowSourceFilter),
        Optional(media.framecount, LAMBDA n : ShowAttribute("framecount", Show(n)))>>)

(***************************************************************************)
(* Sessions                                                                *)
(***************************************************************************)

NewSession ==
  [version |-> 0, origin |-> NoOrigin, name |-> <<>>, time |-> [start |-> 0, stop |-> 0],
   connection |-> None, group |-> None, media |-> <<>>] @@ Attributes

LastMedia(sd) == sd.media[Len(sd.media)]
WithLastMedia(sd, media) == IF media = Failed THEN Failed ELSE [sd EXCEPT !.media[Len(sd.media)] = media]
WithConnection(sd, connection) ==
  IF sd.media = <<>> THEN With(sd, "connection", connection)
  ELSE WithLastMedia(sd, Added(LastMedia(sd), "connections", connection))

\* The lines that belong to the last media, if there is one
ParseLine(sd, line) ==
  LET inMedia == sd.media # <<>>
  IN  CASE StartsWith(line, "v=") -> With(sd, "version", Valid(ReadInt(Tail(line), Int32) = 0, 0))
        [] StartsWith(line, "o=") -> With(sd, "origin", ParseOrigin(line))
        [] StartsWith(line, "s=") -> [sd EXCEPT !.name = Tail(line)]
        [] StartsWith(line, "t=") -> With(sd, "time", ParseTime(line))
        [] StartsWith(line, "m=") -> Added(sd, "media", ParseMedia(line))
        [] StartsWith(line, "c=") -> WithConnection(sd, ParseConnection(line))
        [] StartsWith(line, "a=") -> IF inMedia THEN WithLastMedia(sd, ParseMediaAttribute(LastMedia(sd), line))
                                     ELSE ParseSessionAttribute(sd, line)
        [] StartsWith(line, "i=") -> IF inMedia THEN WithLastMedia(sd, [LastMedia(sd) EXCEPT !.info = Tail(line)])
                                     ELSE [sd EXCEPT !.info = Tail(line)]
        [] line = <<>>            -> sd
        [] OTHER                  -> Failed

\* parse_session_description
ParseSession(text) ==
  FoldLeft(LAMBDA sd, line : IF sd = Failed THEN Failed ELSE ParseLine(sd, line), NewSession, LinesOf(text))

\* to_string: what is known of the session but its information and sync time.
ShowSession(sd) ==
  IF ~ValidOrigin(sd.origin) THEN None
  ELSE FlattenSeq(<<
    Line(<<"v=">> \o Show(sd.version)),
    Line(ShowOrigin(sd.origin)),
    Line(<<"s=">> \o IF sd.name = <<>> THEN <<"-">> ELSE sd.name),
    Line(ShowTime(sd.time)),
    Optional(sd.group, ShowGroup),
    Optional(sd.connection, ShowConnection),
    Optional(sd.clockDomain, ShowClockDomain),
    Optional(sd.refclk, ShowReferenceClock),
    Optional(sd.direction, ShowDirection),
    Optional(sd.mediaClock, ShowMediaClock),
    EachOf(sd.filters, ShowSourceFilter),
    FlattenSeq([i \in DOMAIN sd.media |-> ShowMedia(sd.media[i])])>>)

\* Whether it can be written: an incomplete reference clock throws.
CanShow(sd) ==
  \A d \in {sd} \cup ToSet(sd.media) : d.refclk # None => Writable(d.refclk)

-----------------------------------------------------------------------------
(***************************************************************************)
(* How a sender describes its streams, and what a receiver reads from a    *)
(* session description: sdp::Format, aes67::PacketTime, rtp::Filter and    *)
(* the functions of RavennaSender and RavennaReceiver that use them.       *)
(***************************************************************************)
CONSTANT Addresses   \* the words that are IP addresses

\* The name that the encodings have in descriptions; the others have none.
EncodingNames == [u8 |-> <<"L8">>, s16 |-> <<"L16">>, s24 |-> <<"L24">>]

\* make_audio_format, from what is described.
Encodings == {"s16", "s24", "s32"}
DescribedEncoding(e) == IF e = "s32" THEN <<"L32">> ELSE EncodingNames[e]
AudioFormat(format) ==
  LET known == {e \in Encodings : DescribedEncoding(e) = format.encoding}
  IN  IF known = {} THEN Failed
      ELSE [encoding |-> CHOOSE e \in known : TRUE, rate |-> format.rate, channels |-> format.channels]

(***************************************************************************)
(* Packet times, in milliseconds.  Sample rates are multiples of 100.      *)
(***************************************************************************)

\* signaled_ptime: a rate that is no multiple of 48000 keeps the frames of the multiple above.
SignaledPtime(packet, rate) ==
  IF rate % 48000 > 0
  THEN [num |-> packet.num * ((rate \div 48000) + 1) * 480, den |-> packet.den * (rate \div 100)]
  ELSE packet

\* Mutant of FrameCount: not rounded.
FrameCountTruncated(ptime, rate) == ((ptime.num * (rate \div 100)) \div (10 * ptime.den)) % 65536

\* framecount: rounded, in 16 bits.
FrameCount(ptime, rate) ==
  ((2 * ptime.num * (rate \div 100) + 10 * ptime.den) \div (20 * ptime.den)) % 65536

PacketFrames(s) == FrameCount(SignaledPtime(s.packet, s.format.rate), s.format.rate)

(***************************************************************************)
(* rtp::Filter: who may send to an address                                 *)
(***************************************************************************)

\* add_filters.  An address that is none throws.
SourcesFor(address, filters) ==
  FlattenSeq([i \in DOMAIN filters |->
    IF filters[i].dst # address THEN <<>>
    ELSE [k \in DOMAIN filters[i].sources |-> [mode |-> filters[i].mode, address |-> filters[i].sources[k]]]])

IsAddress(text) == Len(text) = 1 /\ text[1] \in Addresses
FiltersThrow(address, filters) ==
  \E i \in DOMAIN filters :
    \/ ~IsAddress(filters[i].dst)
    \/ filters[i].dst = address /\ \E k \in DOMAIN filters[i].sources : ~IsAddress(filters[i].sources[k])

\* is_valid_source: to be excluded weighs more than to be included.
IsValidSource(stream, dst, src) ==
  LET Listed(mode) == {stream.sources[i].address : i \in {k \in DOMAIN stream.sources : stream.sources[k].mode = mode}}
  IN  /\ stream.address = dst
      /\ src \notin Listed(<<"excl">>)
      /\ Listed(<<"incl">>) # {} => src \in Listed(<<"incl">>)

(***************************************************************************)
(* RavennaSender::generate_sdp.  A sender has a name, the id of its        *)
(* session, destinations, the address of the interface of each rank, an    *)
(* audio format, a packet time and a clock.                                *)
(***************************************************************************)

Ranks == <<"primary", "secondary">>
UnspecifiedAddress == <<"0.0.0.0">>
InterfaceAddress(s, rank) == IF rank \in DOMAIN s.interfaces THEN s.interfaces[rank] ELSE UnspecifiedAddress

SourceFilterFor(s, d) ==
  [mode |-> <<"incl">>, net |-> Internet, type |-> <<"IP4">>, dst |-> d.address, sources |-> <<InterfaceAddress(s, d.rank)>>]

ReferenceClock(s) == [source |-> <<"ptp">>, version |-> <<"IEEE1588-2008">>, gmid |-> s.gmid, domain |-> s.domain]
ClockDomain(s) == [source |-> <<"PTPv2">>, domain |-> s.domain]

\* The port and the payload type are fixed.
MediaFor(s, d, grouped) ==
  [NewMedia EXCEPT
    !.type = <<"audio">>, !.port = 5004, !.protocol = <<"RTP/AVP">>,
    !.formats = <<[payload |-> 98, encoding |-> EncodingNames[s.format.encoding],
                   rate |-> s.format.rate, channels |-> s.format.channels]>>,
    !.connections = <<[net |-> Internet, type |-> <<"IP4">>, address |-> d.address, ttl |-> 15, count |-> None]>>,
    !.filters = <<SourceFilterFor(s, d)>>,
    !.clockDomain = ClockDomain(s), !.syncTime = 0, !.refclk = ReferenceClock(s), !.direction = <<"recvonly">>,
    !.ptime = SignaledPtime(s.packet, s.format.rate), !.framecount = PacketFrames(s),
    !.mid = IF grouped THEN <<Ranks[d.rank]>> ELSE None]

GenerateSdp(s) ==
  LET enabled == SelectSeq(s.dsts, LAMBDA d : d.enabled)
      grouped == Len(enabled) > 1
  IN  Valid(s.name # <<>> /\ s.dsts # <<>> /\ s.format.encoding \in DOMAIN EncodingNames,
            [NewSession EXCEPT
              !.origin = [username |-> <<"-">>, id |-> Show(s.sid), version |-> 0, net |-> Internet, type |-> <<"IP4">>,
                          address |-> InterfaceAddress(s, 1)],
              !.name = s.name, !.clockDomain = ClockDomain(s), !.refclk = ReferenceClock(s),
              !.mediaClock = [mode |-> <<"direct">>, offset |-> 0, rate |-> None],
              !.media = [i \in DOMAIN enabled |-> MediaFor(s, enabled[i], grouped)],
              !.group = IF grouped THEN [type |-> "dup", tags |-> [i \in DOMAIN enabled |-> <<Ranks[enabled[i].rank]>>]]
                        ELSE None])

(***************************************************************************)
(* create_rtp_receiver_parameters                                          *)
(***************************************************************************)

MaxStreams == 2

\* is_connection_info_valid
IsConnectionValid(c) == c.net = Internet /\ c.type \in AddressTypes /\ (c.count # None => c.count <= 1)

\* The last valid connection of a media, or the one of the session.
ConnectionOf(media, sd) ==
  LET valid == SelectSeq(media.connections, IsConnectionValid)
  IN  IF valid # <<>> THEN Last(valid)
      ELSE IF sd.connection # None /\ IsConnectionValid(sd.connection) THEN sd.connection ELSE None

\* The packet time, or where it gives no frames the number of frames.
FramesOf(media, rate) ==
  LET frames == IF media.ptime = None THEN 0 ELSE FrameCount(media.ptime, rate)
  IN  IF frames # 0 THEN frames ELSE IF media.framecount = None THEN Failed ELSE media.framecount

\* create_stream_from_media_description
StreamAt(connection, media, sd, format) ==
  LET filters == IF media.filters # <<>> THEN media.filters ELSE sd.filters
  IN  Valid(/\ \E i \in DOMAIN media.formats : AudioFormat(media.formats[i]) = format
            /\ connection # None /\ FramesOf(media, format.rate) # Failed /\ IsAddress(connection.address)
            /\ ~FiltersThrow(connection.address, filters),
            [address |-> connection.address, port |-> media.port, frames |-> FramesOf(media, format.rate),
             sources |-> SourcesFor(connection.address, filters)])
StreamOf(media, sd, format) == StreamAt(ConnectionOf(media, sd), media, sd, format)

\* The streams of the other media of the group, as far as they can be received.
Duplicates(media, sd, format) ==
  LET others == IF media.mid = None \/ sd.group = None THEN <<>>
                ELSE IF media.mid \notin ToSet(sd.group.tags) THEN <<>>
                ELSE SelectSeq(sd.group.tags, LAMBDA tag : tag # media.mid)
      tagged(tag) == SelectSeq(sd.media, LAMBDA m : m.mid = tag)
      stream(tag) == IF tagged(tag) = <<>> THEN Failed ELSE StreamOf(Head(tagged(tag)), sd, format)
  IN  SelectSeq([i \in DOMAIN others |-> stream(others[i])], LAMBDA s : s # Failed)

\* The first format of a media that can be received.
FormatOf(media) ==
  LET known == SelectSeq(media.formats, LAMBDA f : AudioFormat(f) # Failed)
  IN  IF known = <<>> THEN Failed ELSE AudioFormat(Head(known))

UpTo(n, s) == SubSeq(s, 1, Min({Len(s), n}))

\* What a media asks for, with the streams that repeat it.
StreamParameters(media, sd, format) ==
  [format |-> format,
   streams |-> UpTo(MaxStreams, <<StreamOf(media, sd, format)>> \o Duplicates(media, sd, format))]

\* It is taken from the first media that can be received.
CreateRtpReceiverParameters(sd) ==
  LET usable(media) == /\ media.type = <<"audio">> /\ media.protocol = <<"RTP/AVP">>
                       /\ FormatOf(media) # Failed /\ StreamOf(media, sd, FormatOf(media)) # Failed
      First(media) == Valid(media # <<>>, StreamParameters(Head(media), sd, FormatOf(Head(media))))
  IN  First(SelectSeq(sd.media, usable))
=============================================================================
