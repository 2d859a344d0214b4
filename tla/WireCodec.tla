------------------------------ MODULE WireCodec ------------------------------
(***************************************************************************)
(* The version 3 wire format: maho-proto/src/*.rs.                         *)
(*                                                                         *)
(* In the source every message has an encode and a decode written by hand, *)
(* one pushing fields, the other taking and checking them.  The two tables *)
(* Encoder and DecodeFields below are read off those two bodies, independently, *)
(* as the sequence of fields they push or take; WriteMessage and           *)
(* ReadMessage interpret them the way push_*, checked_bytes and struct     *)
(* Decoder of codec.rs do.  A sender encodes a message; a peer of the same *)
(* or of another version decodes those bytes, the bytes cut short, the     *)
(* bytes with one more behind them, or the bytes with one of them changed. *)
(* Text goes through the same bytes, its UTF-8 check included.             *)
(*                                                                         *)
(* Bytes have ByteBase values and the widths of u16, u32 and u64 are       *)
(* parameters: the values of a u64 do not fit the model checker's          *)
(* integers at full width.  Length limits are scaled down with them.       *)
(***************************************************************************)
EXTENDS Integers, Sequences, FiniteSets, SequencesExt

CONSTANTS
    ByteBase,               \* 256: the values of a byte
    W16, W32, W64,          \* 2, 4, 8: the widths of integers
    TextMax,                \* the limit on short texts (4096, 1024, 256, 64 bytes)
    LongText,               \* u16::MAX, what a length prefix can say
    ListMax,                \* MAX_HOST_DISPLAYS, MAX_ACTIVE_GUESTS
    BlobMax,                \* MAX_VIDEO_CHUNK_BYTES, MAX_AUDIO_FRAGMENT_BYTES, MAX_CLIPBOARD_IMAGE_CHUNK_BYTES
    MaxChunksPerFrame,      \* MAX_CHUNKS_PER_FRAME
    MaxFrameBytes,          \* MAX_FRAME_BYTES
    MaxImageBytes,          \* MAX_CLIPBOARD_IMAGE_BYTES
    MaxTcpFrame,            \* MAX_TCP_FRAME_SIZE
    MaxTcpFrames            \* frames written to one stream

ASSUME CodecAssumption ==
    /\ {ByteBase, W16, W32, W64, TextMax, LongText, ListMax, BlobMax, MaxChunksPerFrame,
        MaxFrameBytes, MaxImageBytes, MaxTcpFrame, MaxTcpFrames} \subseteq Nat \ {0}
    /\ ByteBase > 29 /\ ByteBase % 4 = 0
    /\ 1 < W16 /\ W16 < W32 /\ W32 < W64

VARIABLES
    sent,    \* the message the sender encodes: its type and the values of its fields
    wire,    \* the bytes the receiver is given
    got,     \* what the receiver's decode returned
    tcpFrames  \* TcpFrameWriter and TcpFrameReader: payloads, unread bytes, buffer, events

codecVars == <<sent, wire, got, tcpFrames>>

(***************************************************************************)
(* Fields.                                                                 *)
(***************************************************************************)
U(w) == [t |-> "uint", w |-> w, n |-> 0]
Enum(n) == [t |-> "enum", w |-> 1, n |-> n]         \* `as u8' and TryFrom<u8>
Bool == [t |-> "bool", w |-> 1, n |-> 2]            \* decode_bool: 0 or 1
Flag == [t |-> "flag", w |-> 1, n |-> 2]            \* `!= 0'
Text(w, max) == [t |-> "text", w |-> w, n |-> max]  \* length and UTF-8 bytes
Fixed(n) == [t |-> "fixed", w |-> 0, n |-> n]       \* an array of n bytes
Tail8(max) == [t |-> "rest", w |-> 0, n |-> max]    \* take_remaining
Is(w, v) == [t |-> "is", w |-> w, n |-> v]          \* a constant, checked
Pad == [t |-> "pad", w |-> 1, n |-> 0]              \* a zero, not checked
Texts(w, wide) == [t |-> "texts", w |-> w, n |-> wide]
Displays == [t |-> "displays", w |-> 1, n |-> 0]

PNG == <<9, 8>>     \* PNG_SIGNATURE
Salt == Fixed(2)    \* SESSION_SALT_SIZE; PAIRING_KEY_SIZE below
PairingKey == 3
Magic == ByteBase + 2
Version == 3

StreamConfiguration == <<U(W32), U(W32), U(W32), U(W16)>>
HostDisplay == <<U(1), U(W32), U(W32), Bool, Text(1, TextMax)>>

\* ControlMessageType: the discriminants 0 to 28.
ControlMessageType ==
    <<"RequestKeyFrame", "StartStream", "StopStream", "Disconnect", "ControlPing", "Pong", "BitrateAdjust",
      "StreamConfigRequest", "StreamConfigResponse", "StreamConfigReject", "StreamConfigError",
      "ClipboardSyncRequest", "ClipboardSyncUpdate", "ClipboardSyncError", "InputAck",
      "StreamOptionsRequest", "StreamOptionsActive", "HostDisplayList", "HostPolicy",
      "SecureAttentionRequest", "SecureAttentionResponse", "HostStatus", "SessionEnded",
      "GuestPermissions", "PairingTrustRequest", "PairingTrustGrant", "ClipboardImageChunk",
      "RttPing", "RttPong">>
ControlMessages == {ControlMessageType[i] : i \in DOMAIN ControlMessageType}
Discriminant(m) == (CHOOSE i \in DOMAIN ControlMessageType : ControlMessageType[i] = m) - 1

Messages == ControlMessages \cup
    {"FrameHeader", "FrameChunk", "CursorUpdate", "AudioFragment", "ColorMetadata", "InputEvent",
     "Handshake", "PairingRequest", "PairingGrant", "PairingReject", "PacketHeader", "RelayFrame"}

(***************************************************************************)
(* What encode pushes.                                                     *)
(***************************************************************************)
Bodyless == {"RequestKeyFrame", "StartStream", "StopStream", "Disconnect", "ControlPing", "Pong"}

EncodeStreamConfig ==
   [BitrateAdjust |-> <<U(W32)>>,
    InputAck |-> <<U(W32), Bool, U(1)>>,
    StreamConfigRequest |-> <<U(W32)>> \o StreamConfiguration]
EncodeStreamAnswer ==
   [StreamConfigResponse |-> <<U(W32)>> \o StreamConfiguration,
    StreamConfigReject |-> <<U(W32), Enum(5), Text(W16, LongText)>>,
    StreamConfigError |-> <<U(W32), Enum(5), Text(W16, LongText)>>]
EncodeClipboardSync ==
   [ClipboardSyncRequest |-> <<U(W32), Enum(3), Enum(3)>>,
    ClipboardSyncUpdate |-> <<U(W32), Enum(3), Enum(3), Text(W16, TextMax)>>,
    ClipboardSyncError |-> <<U(W32), Enum(3), Enum(3), U(1), Text(W16, LongText)>>]
EncodeOptions ==
   [StreamOptionsRequest |-> <<U(W32), U(W16), U(W16), Enum(3), U(1), U(W32)>>,
    StreamOptionsActive |-> <<U(W32), U(W32), U(W32), U(W16), Enum(3), U(1), U(W32)>>]
EncodeHostInfo ==
   [HostDisplayList |-> <<Displays>>,
    HostPolicy |-> <<Bool, Bool>>]
EncodeAttention ==
   [SecureAttentionRequest |-> <<U(W32)>>,
    SecureAttentionResponse |-> <<U(W32), Enum(4)>>,
    HostStatus |-> <<Texts(W16, W16)>>]
EncodeGuest ==
   [SessionEnded |-> <<Enum(5)>>,
    GuestPermissions |-> <<Bool, Bool, Bool, Bool, Bool>>]
EncodeTrust ==
   [PairingTrustRequest |-> <<Enum(3), U(W64)>>,
    PairingTrustGrant |-> <<Enum(3), U(W64)>>]
EncodeImage ==
   [ClipboardImageChunk |-> <<U(W32), U(W32), U(W32), Tail8(BlobMax)>>,
    RttPing |-> <<U(W64)>>,
    RttPong |-> <<U(W64)>>]
EncodeVideo ==
   [FrameHeader |-> <<U(W32), U(W16), U(W16), Bool, U(W16), Pad, U(W32)>>,
    FrameChunk |-> <<U(W32), U(W16), Tail8(BlobMax)>>]
EncodeAudio ==
   [CursorUpdate |-> <<U(W32), U(W32), U(1)>>,
    AudioFragment |-> <<U(W32), U(W16), U(W16), Tail8(BlobMax)>>]
EncodeColor == [ColorMetadata |-> <<Enum(2), Enum(3), Enum(2)>>]
EncodeInput == [InputEvent |-> <<Enum(22), U(W32), U(W32), U(W16), U(W16), U(W32), U(W32)>>]
EncodeHello ==
   [Handshake |-> <<Text(W16, TextMax), U(W16), U(W16), U(W32), Is(1, Version), U(W64), Text(W16, TextMax), Salt>>]
EncodePairing ==
   [PairingRequest |-> <<Text(W16, TextMax)>>,
    PairingGrant |-> <<Text(1, TextMax), Text(W16, LongText), Is(1, PairingKey), Fixed(PairingKey)>>,
    PairingReject |-> <<Enum(3)>>]
EncodePacket == [PacketHeader |-> <<Is(2, Magic), Enum(12), U(W32), U(W32), U(1)>>]
EncodeRelay == [RelayFrame |-> <<Salt, Enum(3), Tail8(BlobMax)>>]

EncodersOfControl ==
    EncodeStreamConfig @@ EncodeStreamAnswer @@ EncodeClipboardSync @@ EncodeOptions @@
    EncodeHostInfo @@ EncodeAttention @@ EncodeGuest @@ EncodeTrust @@ EncodeImage @@
    [m \in Bodyless |-> <<>>]
EncodersOfPackets ==
    EncodeVideo @@ EncodeAudio @@ EncodeColor @@ EncodeInput @@ EncodeHello @@ EncodePairing @@
    EncodePacket @@ EncodeRelay

Encoder(m) ==
    IF m \in ControlMessages THEN <<Is(1, Discriminant(m))>> \o EncodersOfControl[m] ELSE EncodersOfPackets[m]

(***************************************************************************)
(* What decode takes and checks.                                           *)
(***************************************************************************)
DecodeStreamConfig ==
   [BitrateAdjust |-> <<U(W32)>>,
    InputAck |-> <<U(W32), Flag, U(1)>>,
    StreamConfigRequest |-> <<U(W32), U(W32), U(W32), U(W32), U(W16)>>]
DecodeStreamAnswer ==
   [StreamConfigResponse |-> <<U(W32), U(W32), U(W32), U(W32), U(W16)>>,
    StreamConfigReject |-> <<U(W32), Enum(5), Text(W16, LongText)>>,
    StreamConfigError |-> <<U(W32), Enum(5), Text(W16, LongText)>>]
DecodeClipboardSync ==
   [ClipboardSyncRequest |-> <<U(W32), Enum(3), Enum(3)>>,
    ClipboardSyncUpdate |-> <<U(W32), Enum(3), Enum(3), Text(W16, TextMax)>>,
    ClipboardSyncError |-> <<U(W32), Enum(3), Enum(3), U(1), Text(W16, LongText)>>]
DecodeOptions ==
   [StreamOptionsRequest |-> <<U(W32), U(W16), U(W16), Enum(3), U(1), U(W32)>>,
    StreamOptionsActive |-> <<U(W32), U(W32), U(W32), U(W16), Enum(3), U(1), U(W32)>>]
DecodeHostInfo ==
   [HostDisplayList |-> <<Displays>>,
    HostPolicy |-> <<Bool, Bool>>]
DecodeAttention ==
   [SecureAttentionRequest |-> <<U(W32)>>,
    SecureAttentionResponse |-> <<U(W32), Enum(4)>>,
    HostStatus |-> <<Texts(W16, W16)>>]
DecodeGuest ==
   [SessionEnded |-> <<Enum(5)>>,
    GuestPermissions |-> <<Bool, Bool, Bool, Bool, Bool>>]
DecodeTrust ==
   [PairingTrustRequest |-> <<Enum(3), U(W64)>>,
    PairingTrustGrant |-> <<Enum(3), U(W64)>>]
DecodeImage ==
   [ClipboardImageChunk |-> <<U(W32), U(W32), U(W32), Tail8(BlobMax)>>,
    RttPing |-> <<U(W64)>>,
    RttPong |-> <<U(W64)>>]
DecodeVideo ==
   [FrameHeader |-> <<U(W32), U(W16), U(W16), Flag, U(W16), Pad, U(W32)>>,
    FrameChunk |-> <<U(W32), U(W16), Tail8(BlobMax)>>]
DecodeAudio ==
   [CursorUpdate |-> <<U(W32), U(W32), U(1)>>,
    AudioFragment |-> <<U(W32), U(W16), U(W16), Tail8(BlobMax)>>]
DecodeColor == [ColorMetadata |-> <<Enum(2), Enum(3), Enum(2)>>]
DecodeInput == [InputEvent |-> <<Enum(22), U(W32), U(W32), U(W16), U(W16), U(W32), U(W32)>>]
DecodeHello ==
   [Handshake |-> <<Text(W16, TextMax), U(W16), U(W16), U(W32), Is(1, Version), U(W64), Text(W16, TextMax), Salt>>]
DecodePairing ==
   [PairingRequest |-> <<Text(W16, TextMax)>>,
    PairingGrant |-> <<Text(1, ByteBase - 1), Text(W16, LongText), Is(1, PairingKey), Fixed(PairingKey)>>,
    PairingReject |-> <<Enum(3)>>]
DecodePacket == [PacketHeader |-> <<Is(2, Magic), Enum(12), U(W32), U(W32), U(1)>>]
DecodeRelay == [RelayFrame |-> <<Salt, Enum(3), Tail8(BlobMax)>>]

DecodersOfControl ==
    DecodeStreamConfig @@ DecodeStreamAnswer @@ DecodeClipboardSync @@ DecodeOptions @@
    DecodeHostInfo @@ DecodeAttention @@ DecodeGuest @@ DecodeTrust @@ DecodeImage @@
    [m \in Bodyless |-> <<>>]
DecodersOfPackets ==
    DecodeVideo @@ DecodeAudio @@ DecodeColor @@ DecodeInput @@ DecodeHello @@ DecodePairing @@
    DecodePacket @@ DecodeRelay

DecodeFields(m) ==
    IF m \in ControlMessages THEN <<Is(1, Discriminant(m))>> \o DecodersOfControl[m] ELSE DecodersOfPackets[m]

\* validate() of FrameHeader, FrameChunk, AudioFragment and ClipboardImageChunk, the pairing
\* trust's expiry and the relay's channels: called by encode and by decode.
Valid(m, v) ==
    CASE m = "FrameHeader" ->
           v[5] <= MaxChunksPerFrame /\ v[7] <= MaxFrameBytes /\ v[7] <= v[5] * BlobMax
      [] m = "FrameChunk" -> v[2] < MaxChunksPerFrame
      [] m = "AudioFragment" -> v[3] > 0 /\ v[2] < v[3]
      [] m \in {"PairingTrustRequest", "PairingTrustGrant"} -> (v[2] = 2) <=> (v[3] > 0)
      [] m = "ClipboardImageChunk" ->
           /\ Len(PNG) <= v[3] /\ v[3] <= MaxImageBytes
           /\ v[5] # <<>> /\ v[4] + Len(v[5]) <= v[3]
           /\ v[4] = 0 => IsPrefix(PNG, v[5])
      [] m = "RelayFrame" -> v[2] \in {1, 2}
      [] OTHER -> TRUE

(***************************************************************************)
(* codec.rs: writing.                                                      *)
(***************************************************************************)
LittleEndian(v, w) == [i \in 1 .. w |-> (v \div ByteBase ^ (i - 1)) % ByteBase]

\* from_utf8: every lead byte has its continuation, and none stands alone.
Continues(b) == ByteBase \div 2 <= b /\ b < (3 * ByteBase) \div 4
Leads(b) == b >= (3 * ByteBase) \div 4
Utf8(bytes) ==
    \A i \in DOMAIN bytes :
        /\ Leads(bytes[i]) => i < Len(bytes) /\ Continues(bytes[i + 1])
        /\ Continues(bytes[i]) => i > 1 /\ Leads(bytes[i - 1])

TextBytes(w, text) == LittleEndian(Len(text), w) \o text

\* Mutant: the encoder does not check the lengths the decoder limits.
FitsUnchecked(f, v) == TRUE

\* A value fits its field: checked_bytes, usize_to_u8/u16 and the caps on lists.
Fits(f, v) ==
    CASE f.t = "text" -> Len(v) <= f.n /\ Len(v) < ByteBase ^ f.w
      [] f.t = "rest" -> Len(v) <= f.n
      [] f.t = "texts" -> Len(v) <= ListMax /\ \A i \in DOMAIN v : Len(v[i]) <= TextMax
      [] f.t = "displays" -> Len(v) <= ListMax /\ \A i \in DOMAIN v : Len(v[i][5]) <= TextMax
      [] f.t = "is" -> v = f.n
      [] OTHER -> TRUE

WriteFlat(f, v) ==
    CASE f.t \in {"uint", "enum", "bool", "flag", "is", "pad"} -> LittleEndian(v, f.w)
      [] f.t = "text" -> TextBytes(f.w, v)
      [] f.t \in {"fixed", "rest"} -> v

WriteField(f, v) ==
    CASE f.t = "texts" ->
           LittleEndian(Len(v), f.w) \o FlattenSeq([i \in DOMAIN v |-> TextBytes(f.n, v[i])])
      [] f.t = "displays" ->
           LittleEndian(Len(v), f.w) \o
           FlattenSeq([i \in DOMAIN v |-> FlattenSeq([k \in DOMAIN HostDisplay |-> WriteFlat(HostDisplay[k], v[i][k])])])
      [] OTHER -> WriteFlat(f, v)

\* encode: the bytes, or an error.
Refused == [ok |-> FALSE, bytes |-> <<>>]
WriteFields(fields, v) ==
    IF \A i \in DOMAIN fields : Fits(fields[i], v[i])
    THEN [ok |-> TRUE, bytes |-> FlattenSeq([i \in DOMAIN fields |-> WriteField(fields[i], v[i])])]
    ELSE Refused
WriteMessage(m, v) == IF Valid(m, v) THEN WriteFields(Encoder(m), v) ELSE Refused

(***************************************************************************)
(* codec.rs: reading.  A reader is [ok, at, vals] over the input.          *)
(***************************************************************************)
Number(bytes) == FoldLeft(LAMBDA n, i : n + bytes[i] * ByteBase ^ (i - 1), 0, [i \in DOMAIN bytes |-> i])
Error(r) == [r EXCEPT !.ok = FALSE]

\* Decoder::take: w bytes, or Truncated.
TakeBytes(input, r, w) == SubSeq(input, r.at + 1, r.at + w)
Enough(input, r, w) == Len(input) - r.at >= w
Advance(r, w, v) == [r EXCEPT !.at = @ + w, !.vals = Append(@, v)]

CheckNumber(r, f, n) ==
    CASE f.t \in {"enum", "bool"} /\ n >= f.n -> Error(r)
      [] f.t = "is" /\ n # f.n -> Error(r)
      [] OTHER -> Advance(r, f.w, CASE f.t = "flag" -> IF n = 0 THEN 0 ELSE 1
                                    [] f.t = "pad" -> 0
                                    [] OTHER -> n)
ReadNumber(input, r, f) ==
    IF Enough(input, r, f.w) THEN CheckNumber(r, f, Number(TakeBytes(input, r, f.w))) ELSE Error(r)

CheckText(r, w, text) == IF Utf8(text) THEN Advance(r, w, text) ELSE Error(r)
TakeText(input, r, f, length) ==
    IF length > f.n \/ ~Enough(input, r, f.w + length) THEN Error(r)
    ELSE CheckText(r, f.w + length, SubSeq(input, r.at + f.w + 1, r.at + f.w + length))
ReadText(input, r, f) ==
    IF Enough(input, r, f.w) THEN TakeText(input, r, f, Number(TakeBytes(input, r, f.w))) ELSE Error(r)

ReadFlat(input, r, f) ==
    CASE ~r.ok -> r
      [] r.ok /\ f.t = "text" -> ReadText(input, r, f)
      [] r.ok /\ f.t = "fixed" ->
           IF Enough(input, r, f.n) THEN Advance(r, f.n, TakeBytes(input, r, f.n)) ELSE Error(r)
      [] r.ok /\ f.t = "rest" ->
           IF Len(input) - r.at <= f.n THEN Advance(r, Len(input) - r.at, TakeBytes(input, r, Len(input) - r.at))
           ELSE Error(r)
      [] OTHER -> ReadNumber(input, r, f)

ReadFlats(input, at, fields) ==
    FoldLeft(LAMBDA r, f : ReadFlat(input, r, f), [ok |-> TRUE, at |-> at, vals |-> <<>>], fields)

\* A counted list: the count against its cap, then as many items.
AddItem(s, one, single) ==
    IF s.ok /\ one.ok
    THEN [ok |-> TRUE, at |-> one.at, vals |-> Append(s.vals, IF single THEN one.vals[1] ELSE one.vals)]
    ELSE Error(s)
AddList(r, all) ==
    IF all.ok THEN [ok |-> TRUE, at |-> all.at, vals |-> Append(r.vals, all.vals)] ELSE Error(r)
TakeItems(input, r, f, item, single, count) ==
    IF count > ListMax THEN Error(r)
    ELSE AddList(r, FoldLeft(LAMBDA s, i : AddItem(s, ReadFlats(input, s.at, item), single),
                             [ok |-> TRUE, at |-> r.at + f.w, vals |-> <<>>], [i \in 1 .. count |-> i]))
ReadItems(input, r, f, item, single) ==
    IF Enough(input, r, f.w)
    THEN TakeItems(input, r, f, item, single, Number(TakeBytes(input, r, f.w))) ELSE Error(r)

ReadField(input, r, f) ==
    CASE r.ok /\ f.t = "texts" -> ReadItems(input, r, f, <<Text(f.n, TextMax)>>, TRUE)
      [] r.ok /\ f.t = "displays" -> ReadItems(input, r, f, HostDisplay, FALSE)
      [] OTHER -> ReadFlat(input, r, f)

\* decode: every field in turn, finish (no bytes left), then validate.
Finish(m, input, r) ==
    IF r.ok /\ r.at = Len(input) /\ Valid(m, r.vals) THEN [ok |-> TRUE, type |-> m, vals |-> r.vals]
    ELSE [ok |-> FALSE, type |-> m, vals |-> <<>>]
ReadMessage(m, input) ==
    Finish(m, input, FoldLeft(LAMBDA s, f : ReadField(input, s, f),
                              [ok |-> TRUE, at |-> 0, vals |-> <<>>], DecodeFields(m)))

\* ControlMessage::decode dispatches on the first byte; the other messages are decoded by
\* the receiver of their packet type.
Decoded(m, input) ==
    IF m \notin ControlMessages THEN ReadMessage(m, input)
    ELSE IF input = <<>> \/ (input # <<>> /\ input[1] >= Len(ControlMessageType))
         THEN [ok |-> FALSE, type |-> m, vals |-> <<>>]
         ELSE ReadMessage(ControlMessageType[input[1] + 1], input)

(***************************************************************************)
(* framing.rs.                                                             *)
(***************************************************************************)
FrameBytes(payload) == LittleEndian(Len(payload), W32) \o payload
Writable(payload) == payload # <<>> /\ Len(payload) <= MaxTcpFrame

\* TcpFrameReader::push: one round of its loop.
TakeFrame(r, length) ==
    CASE length = 0 \/ length > MaxTcpFrame ->
           [buffer |-> <<>>, events |-> Append(r.events, "DroppedInvalidLength"), more |-> FALSE]
      [] length \in 1 .. MaxTcpFrame /\ Len(r.buffer) < W32 + length -> [r EXCEPT !.more = FALSE]
      [] OTHER ->
           [buffer |-> SubSeq(r.buffer, W32 + length + 1, Len(r.buffer)),
            events |-> Append(r.events, SubSeq(r.buffer, W32 + 1, W32 + length)),
            more |-> TRUE]
ReadFrame(r) ==
    IF Len(r.buffer) < W32 THEN [r EXCEPT !.more = FALSE]
    ELSE TakeFrame(r, Number(SubSeq(r.buffer, 1, W32)))

PushAll(buffer, events) ==
    FoldLeft(LAMBDA r, i : IF r.more THEN ReadFrame(r) ELSE r,
             [buffer |-> buffer, events |-> events, more |-> TRUE], [i \in 1 .. Len(buffer) + 1 |-> i])

(***************************************************************************)
(* The sender, the receiver, the stream.                                   *)
(***************************************************************************)
\* Sample values of a field: the ends of an integer's range, every kind of text.
Character == <<ByteBase - 1, ByteBase \div 2>>
SampleTexts(max) == {<<>>, <<1>>, Character} \cup (IF max = TextMax THEN {[i \in 1 .. max + 1 |-> 1]} ELSE {})
Samples(f) ==
    CASE f.t = "uint" -> {0, 2, ByteBase ^ f.w - 1}
      [] f.t = "enum" -> {0, 1, f.n - 1}
      [] f.t \in {"bool", "flag"} -> {0, 1}
      [] f.t = "text" -> SampleTexts(f.n)
      [] f.t = "fixed" -> {[i \in 1 .. f.n |-> i]}
      [] f.t = "rest" -> {<<>>, PNG, [i \in 1 .. f.n + 1 |-> 1]}
      [] f.t = "is" -> {f.n}
      [] f.t = "pad" -> {0}
      [] f.t = "texts" -> {<<>>, <<Character, <<>> >>, [i \in 1 .. ListMax + 1 |-> <<>>]}
      [] f.t = "displays" -> {<<>>, <<<<3, 1, 0, 1, Character>>, <<0, 0, 2, 0, <<>> >> >>,
                              [i \in 1 .. ListMax + 1 |-> <<1, 1, 1, 1, <<>> >>]}

\* The values of a message's fields, two samples each where a message has many fields.
FewSamples(f) == IF f.t = "uint" THEN {2, ByteBase ^ f.w - 1} ELSE Samples(f)
ValuesOf(m) ==
    LET values(f) == IF Len(Encoder(m)) > 5 THEN FewSamples(f) ELSE Samples(f) IN
    FoldLeft(LAMBDA S, f : {Append(s, v) : s \in S, v \in values(f)}, {<<>>}, Encoder(m))

NoMessage == [type |-> "", vals |-> <<>>]
NoAnswer == [ok |-> FALSE, type |-> "", vals |-> <<>>]
NoTcp == [written |-> <<>>, unread |-> <<>>, buffer |-> <<>>, events |-> <<>>]

CodecInit == sent = NoMessage /\ wire = Refused /\ got = NoAnswer /\ tcpFrames = NoTcp

\* A message is encoded and decoded.
Encode(m, v) ==
    /\ sent' = [type |-> m, vals |-> v]
    /\ wire' = WriteMessage(m, v)
    /\ got' = IF wire'.ok THEN Decoded(m, wire'.bytes) ELSE NoAnswer
    /\ UNCHANGED tcpFrames

\* The same bytes, cut short, followed by another, or with one changed.
Damaged(bytes) ==
    {Front(bytes), Append(bytes, 1)} \cup {[bytes EXCEPT ![i] = b] : i \in DOMAIN bytes, b \in {0, 2, ByteBase - 1}}
DecodeDamaged ==
    /\ wire.ok /\ wire = WriteMessage(sent.type, sent.vals)
    /\ \E bytes \in Damaged(wire.bytes) :
         /\ wire' = [ok |-> TRUE, bytes |-> bytes]
         /\ got' = Decoded(sent.type, bytes)
    /\ UNCHANGED <<sent, tcpFrames>>

\* TcpFrameWriter::encode.
WriteFrame(payload) ==
    /\ sent = NoMessage /\ Len(tcpFrames.written) < MaxTcpFrames
    /\ tcpFrames' = IF Writable(payload)
              THEN [tcpFrames EXCEPT !.written = Append(@, payload), !.unread = @ \o FrameBytes(payload)]
              ELSE [tcpFrames EXCEPT !.written = Append(@, <<>>)]
    /\ UNCHANGED <<sent, wire, got>>

\* The reader is given some of the bytes that are there.
PushBytes(n) ==
    /\ n \in 1 .. Len(tcpFrames.unread)
    /\ LET r == PushAll(tcpFrames.buffer \o SubSeq(tcpFrames.unread, 1, n), tcpFrames.events) IN
       tcpFrames' = [tcpFrames EXCEPT !.unread = SubSeq(@, n + 1, Len(@)), !.buffer = r.buffer, !.events = r.events]
    /\ UNCHANGED <<sent, wire, got>>

Payloads == {[i \in 1 .. n |-> n] : n \in 0 .. MaxTcpFrame + 1}
CodecNext ==
    \/ sent = NoMessage /\ tcpFrames = NoTcp /\ \E m \in Messages : \E v \in ValuesOf(m) : Encode(m, v)
    \/ DecodeDamaged
    \/ \E p \in Payloads : WriteFrame(p)
    \/ \E n \in 1 .. Len(tcpFrames.unread) : PushBytes(n)

CodecSpec == CodecInit /\ [][CodecNext]_codecVars

(***************************************************************************)
(* Properties.                                                             *)
(***************************************************************************)
Genuine == wire = WriteMessage(sent.type, sent.vals)
Lenient(m) == \E i \in DOMAIN DecodeFields(m) : DecodeFields(m)[i].t \in {"flag", "pad"}
OpenEnded(m) == \E i \in DOMAIN DecodeFields(m) : DecodeFields(m)[i].t = "rest"

\* What encode of a message writes, its decode reads back, value for value, for every message
\* and every limit: an encoder never writes what the decoder of the same version refuses.
RoundTrip == (sent # NoMessage /\ wire.ok /\ Genuine) => got = [ok |-> TRUE, type |-> sent.type, vals |-> sent.vals]

\* Bytes no encoder wrote are refused, or are what some message encodes to (the key flag, the
\* padding byte and the acknowledgement's flag are read leniently); a message cut short or
\* with a byte behind it is never taken for another, unless it ends in a blob.
Canonical ==
    (wire.ok /\ sent # NoMessage /\ got.ok) =>
        /\ WriteMessage(got.type, got.vals).ok
        /\ Lenient(got.type) \/ WriteMessage(got.type, got.vals).bytes = wire.bytes
        /\ got.type = sent.type => (Len(wire.bytes) = Len(WriteMessage(sent.type, sent.vals).bytes)
                                     \/ OpenEnded(sent.type))

\* However the stream is cut into reads, TcpFrameReader::push returns the payloads that were
\* written, in order, keeps what is not whole yet, and loses nothing.
Framed ==
    LET whole == SelectSeq(tcpFrames.written, Writable) IN
    /\ IsPrefix(tcpFrames.events, whole)
    /\ tcpFrames.buffer \o tcpFrames.unread =
         FlattenSeq([i \in 1 .. Len(whole) - Len(tcpFrames.events) |-> FrameBytes(whole[Len(tcpFrames.events) + i])])
    /\ tcpFrames.buffer # <<>> /\ Len(tcpFrames.buffer) >= W32 => Len(tcpFrames.buffer) < W32 + Number(SubSeq(tcpFrames.buffer, 1, W32))

\* The hand-written encoders and decoders of maho-proto agree on every message, accept nothing
\* else, and the framing of the stream is independent of how it is read.
CodecCorrect == RoundTrip /\ Canonical /\ Framed
===============================================================================
