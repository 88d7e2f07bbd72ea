------------------------------ MODULE StreamParser ------------------------------
(***************************************************************************)
(* How a media session reads the stream of a camera                        *)
(* (src/tapo/stream/mediaSession.js, onData and after): the camera sends   *)
(* the parts of a multipart body, the network cuts them anywhere, and the  *)
(* session puts them together again (handleStreamChunk), then puts the     *)
(* video packets together, which the parts cut anywhere too                *)
(* (forwardTsPackets).                                                     *)
(*                                                                         *)
(* A token stands for some bytes: a boundary and the separator after the   *)
(* headers are two tokens, which may arrive apart, the headers are one,    *)
(* and a packet is PacketSize tokens, the first of which is its sync byte. *)
(* What follows it may well look like a boundary, or like a sync byte.     *)
(* The video may start in the middle of a packet.  Besides the video, a    *)
(* part is a message of the camera, or cannot be deciphered, or gives no   *)
(* length and has no body.                                                 *)
(***************************************************************************)
EXTENDS FiniteSetsExt, Naturals, Sequences

CONSTANTS
  Packets,    \* bound on the packets of video the camera sends
  Lookalikes, \* those that hold another byte like their sync byte
  PartSizes,  \* the sizes a part of the video may have
  OtherSizes, \* those of a message, or of what cannot be deciphered
  MaxSends,   \* bound on the parts
  MaxBuffer,  \* STREAM_MAX_BUFFER_BYTES
  MaxChunk    \* the most the network hands over at once

ParserAssumption ==
  /\ {Packets, MaxSends, MaxBuffer, MaxChunk} \subseteq Nat
  /\ PartSizes \subseteq Nat
  /\ OtherSizes \subseteq Nat
  /\ Lookalikes \subseteq Nat

PacketSize == 3
Token(k) == [kind |-> k, n |-> 0]
Header(c, n) == [kind |-> c, n |-> n]
Sizes == [video |-> PartSizes, message |-> OtherSizes,
          undecipherable |-> OtherSizes, unreadable |-> {0}]
boundary == <<Token("boundary"), Token("boundary, continued")>>
HEADER_SEPARATOR == <<Token("separator"), Token("separator, continued")>>
Packet(i) ==
  <<[kind |-> "sync", n |-> i], boundary[1],
    IF i \in Lookalikes THEN Token("sync") ELSE boundary[2]>>

Video == [j \in 1..Packets * PacketSize |->
           Packet(((j - 1) \div PacketSize) + 1)[((j - 1) % PacketSize) + 1]]

Shown(c, n) == IF c = "video" THEN n ELSE 0
Body(c, n, shown) ==
  IF c = "video" THEN SubSeq(Video, shown + 1, shown + n)
  ELSE [j \in 1..n |-> boundary[2 - (j % 2)]]

Opening(first) ==
  <<boundary[1], boundary[2], first, HEADER_SEPARATOR[1], HEADER_SEPARATOR[2]>>

(* A stream with another boundary than the one the camera announced.       *)
Foreign == [i \in 1..(MaxBuffer + 1) |-> Token("other")]

VARIABLES
  foreign,   \* the stream is such a one
  skew,      \* how much of its first packet the video lacks
  wire,      \* what the camera sent
  parts,     \* the parts of it, and where each ends on the wire and in the video
  received,  \* how much of the wire the session received
  handled,   \* parts handled, or stepped past
  buffer,    \* received, and not handled yet
  progressed,\* onData runs
  tsBuffer,  \* the beginning of a packet
  emitted,   \* the packets given to ffmpeg
  alive      \* the session is open

camera == <<foreign, skew, wire, parts>>
reader == <<buffer, progressed, tsBuffer, emitted, alive>>
vars == <<camera, received, handled, reader>>

TypeOK ==
  /\ skew \in 0..PacketSize - 1
  /\ received \in 0..Len(wire)
  /\ handled \in 0..Len(parts)
  /\ Len(buffer) <= MaxBuffer
  /\ Len(tsBuffer) < PacketSize
  /\ {foreign, progressed, alive} \subseteq BOOLEAN

Init ==
  /\ foreign \in BOOLEAN /\ skew \in 0..PacketSize - 1
  /\ wire = IF foreign THEN Foreign ELSE << >>
  /\ parts = << >>
  /\ received = 0 /\ handled = 0
  /\ buffer = << >> /\ progressed = FALSE
  /\ tsBuffer = << >> /\ emitted = << >> /\ alive = TRUE

---------------------------------------------------------------------------
(* The camera sends a slice of the video, or something else.               *)

Ends(k) == IF k = 0 THEN 0 ELSE parts[k].wire
Shows(k) == IF k = 0 THEN skew ELSE parts[k].video

Sends(c, n) ==
  LET shown == Shows(Len(parts)) IN
  /\ ~foreign /\ Len(parts) < MaxSends
  /\ shown + Shown(c, n) <= Len(Video)
  /\ wire' = wire \o Opening(Header(c, n)) \o Body(c, n, shown)
  /\ parts' = Append(parts, [content |-> c, size |-> n,
                             wire |-> Len(wire) + 5 + n,
                             video |-> shown + Shown(c, n)])
  /\ UNCHANGED <<foreign, skew, received, handled, reader>>

---------------------------------------------------------------------------
Starts(s, pattern) ==
  {i \in 1..(Len(s) + 1 - Len(pattern)) :
     SubSeq(s, i, i + Len(pattern) - 1) = pattern}
After(s, pattern) ==
  SubSeq(s, Min(Starts(s, pattern)) + Len(pattern), Len(s))
Before(s, pattern) == SubSeq(s, 1, Min(Starts(s, pattern)) - 1)
Drop(s, n) == SubSeq(s, n + 1, Len(s))

(* onData: a chunk is added to what was kept, unless that is too much.     *)
onData(n) ==
  /\ alive /\ ~progressed
  /\ received + n <= Len(wire)
  /\ received' = received + n
  /\ IF Len(buffer) + n > MaxBuffer
       THEN buffer' = << >> /\ alive' = FALSE /\ UNCHANGED progressed
       ELSE /\ buffer' = buffer \o SubSeq(wire, received + 1, received + n)
            /\ progressed' = TRUE
            /\ UNCHANGED alive
  /\ UNCHANGED <<camera, handled, tsBuffer, emitted>>

afterBoundary == After(buffer, boundary)
headers == Before(afterBoundary, HEADER_SEPARATOR)[1]
afterHeaders == After(afterBoundary, HEADER_SEPARATOR)

HasHeaders ==
  /\ Starts(buffer, boundary) # {}
  /\ Starts(afterBoundary, HEADER_SEPARATOR) # {}
HasLength == HasHeaders /\ headers.kind # "unreadable"
HasBody == HasLength /\ Len(afterHeaders) >= headers.n

(* forwardTsPackets: the packets are whole, and start with their sync.     *)
Syncs(s) == {i \in DOMAIN s : s[i].kind = "sync"}
Synced(s) ==
  IF Len(s) < PacketSize \/ 1 \in Syncs(s) THEN s
  ELSE IF Syncs(s) = {} THEN << >>
  ELSE SubSeq(s, Min(Syncs(s)), Len(s))

Whole(s) == Len(s) \div PacketSize

ForwardForgets(data) ==
  LET s == Synced(tsBuffer \o data)
  IN  /\ emitted' = emitted \o [i \in 1..Whole(s) |->
                       SubSeq(s, (i - 1) * PacketSize + 1, i * PacketSize)]
      /\ tsBuffer' = << >>

forwardTsPackets(data) ==
  LET s == Synced(tsBuffer \o data)
  IN  /\ emitted' = emitted \o [i \in 1..Whole(s) |->
                       SubSeq(s, (i - 1) * PacketSize + 1, i * PacketSize)]
      /\ tsBuffer' = Drop(s, Whole(s) * PacketSize)

(* handleStreamChunk: one part, its body and all.  A message is read, and  *)
(* what cannot be deciphered ends the session.                             *)
Part ==
  /\ alive /\ progressed /\ HasBody
  /\ buffer' = Drop(afterHeaders, headers.n)
  /\ IF headers.kind = "video"
       THEN forwardTsPackets(SubSeq(afterHeaders, 1, headers.n))
       ELSE UNCHANGED <<tsBuffer, emitted>>
  /\ alive' = (headers.kind # "undecipherable")
  /\ handled' = handled + 1
  /\ UNCHANGED <<camera, received, progressed>>

(* A part without a length is stepped past.                                *)
SkipsPart ==
  /\ alive /\ progressed
  /\ HasHeaders /\ ~HasLength
  /\ buffer' = afterHeaders
  /\ handled' = handled + 1
  /\ UNCHANGED <<camera, received, progressed, tsBuffer, emitted, alive>>

(* The headers, or the body, are not all there: the session waits.         *)
Waits ==
  /\ alive /\ progressed
  /\ ~HasHeaders \/ (HasLength /\ ~HasBody)
  /\ progressed' = FALSE
  /\ UNCHANGED <<camera, received, handled, buffer, tsBuffer, emitted, alive>>

Next ==
  \/ \E c \in DOMAIN Sizes : \E n \in Sizes[c] : Sends(c, n)
  \/ \E n \in 1..MaxChunk : onData(n)
  \/ Part \/ SkipsPart \/ Waits

Spec == Init /\ [][Next]_vars

---------------------------------------------------------------------------
(* StreamReassembled: wherever the network cut the stream and the camera   *)
(* cut the packets, a part is handled as soon as it is all there, and      *)
(* ffmpeg is given every whole packet of the video so far, once and in     *)
(* order, and nothing else, unless the video starts within a packet whose  *)
(* rest looks like a sync byte; a boundary that never comes ends the       *)
(* session, and nothing else does but a part that cannot be deciphered.    *)
Recognizable == skew = 0 \/ 1 \notin Lookalikes
FirstWhole == IF skew = 0 THEN 1 ELSE 2
IsWhole(i, shown) ==
  skew <= (i - 1) * PacketSize /\ i * PacketSize <= shown

StreamReassembled ==
  /\ Recognizable =>
       /\ \A i \in DOMAIN emitted : emitted[i] = Packet(FirstWhole + i - 1)
       /\ \A i \in 1..Packets :
            IsWhole(i, Shows(handled)) <=>
              i \in FirstWhole..FirstWhole + Len(emitted) - 1
  /\ ~foreign /\ alive /\ ~progressed =>
       \A k \in DOMAIN parts : k <= handled <=> Ends(k) <= received
  /\ ~foreign /\ ~alive =>
       handled # 0 /\ parts[handled].content = "undecipherable"
  /\ foreign /\ alive => received <= MaxBuffer

(* PacketsWhole: what ffmpeg is given are packets of the video, whole.  It *)
(* is what the comment on forwardTsPackets says (mediaSession.js:538-539), *)
(* and fails once a byte that looks like a sync byte is taken for one.     *)
PacketsWhole ==
  \A i \in DOMAIN emitted : \E p \in 1..Packets : emitted[i] = Packet(p)
===============================================================================
