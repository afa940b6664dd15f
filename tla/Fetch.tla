-------------------------------- MODULE Fetch --------------------------------
(***************************************************************************)
(* One HTTP request of the sketch after the other: client.GET(),           *)
(* client.getString() and deserializeJson(doc, payload), with the server   *)
(* sending its answer piece by piece and the connection breaking anywhere. *)
(*                                                                         *)
(* What has arrived is read in order (TCP); a header and a chunk's size    *)
(* arrive whole.  The sketch ignores what getString's writeToStream and    *)
(* the parser return: whatever was read is parsed, and whatever was parsed *)
(* is used.  Redirections, cookies and reuse of a connection, which the    *)
(* sketch does not use, are left out.                                      *)
(***************************************************************************)
EXTENDS JsonDoc

CONSTANT Replies   \* what the server may answer, see RepliesAssumption

VARIABLES
  at,        \* "done" between requests
  reply,     \* the answer to the request in progress, or the last one
  arrived,   \* how much of its stream has arrived
  taken,     \* how much of that has been read
  open,      \* the server has not closed the connection
  cut,       \* history: the answer did not arrive completely, or in time
  code,      \* what GET returned, negative for an error
  left,      \* pieces of the block still to be read, or -1: until it closes
  payload,   \* what getString has read
  doc        \* the document

network == <<arrived, taken, open, cut>>
vars    == <<at, reply, network, code, left, payload, doc>>

Failed == -1

-----------------------------------------------------------------------------
(* The answer as the server sends it.                                      *)

\* A member is sent in three pieces: its key and the two digits of a number, or
\* the first letter of true or false and the rest of the word.
PieceOf(m, i) ==
  CASE i = 0                        -> Key(m.name)
    [] i = 1 /\ m.name # "isActive" -> Digit(m.value \div 10)
    [] i = 1 /\ m.name = "isActive" -> Flag(m.value)
    [] i = 2 /\ m.name # "isActive" -> Digit(m.value % 10)
    [] i = 2 /\ m.name = "isActive" -> Rest

\* An error page has no members.
Text(ms) ==
  IF ms = <<>> THEN <<Other>>
  ELSE [i \in 1 .. 3 * Len(ms) |-> PieceOf(ms[(i - 1) \div 3 + 1], (i - 1) % 3)]

\* What travels: the header, the i-th piece of the text, the size of a chunk in
\* front of it and CRLF behind.
Header   == <<"header", 0>>
Piece(i) == <<"text", i>>
Size(n)  == <<"size", n>>
Crlf     == <<"crlf", 0>>

\* After the header the text comes as it is.
FramedAsOne(r) ==
  /\ Len(r.stream) = Len(Text(r.members)) + 1
  /\ \A i \in 1 .. Len(Text(r.members)) : r.stream[i + 1] = Piece(i)

\* At position p, with m pieces of the text before it, stands the size of the
\* next chunk, or size 0 when all of the text has gone before.
SizeAt(r, p, m) ==
  /\ p \in DOMAIN r.stream /\ r.stream[p][1] = "size"
  /\ r.stream[p][2] \in 0 .. Len(Text(r.members)) - m
  /\ IF r.stream[p][2] = 0 THEN m = Len(Text(r.members))
     ELSE p + 1 \in DOMAIN r.stream /\ r.stream[p + 1] = Piece(m + 1)

\* The chunk whose size stands at p: its pieces, CRLF and the size of the next.
ChunkAt(r, p, m) ==
  LET n == r.stream[p][2]
  IN  /\ \A j \in 1 .. n : p + j \in DOMAIN r.stream /\ r.stream[p + j] = Piece(m + j)
      /\ r.stream[p + n + 1] = Crlf
      /\ SizeAt(r, p + n + 2, m + n)

FramedInChunks(r) ==
  /\ SizeAt(r, 2, 0)
  /\ \A p \in DOMAIN r.stream, m \in 0 .. Len(Text(r.members)) :
       SizeAt(r, p, m) /\ r.stream[p][2] > 0 => ChunkAt(r, p, m)

\* A reply has a status code (0: the page is not HTTP), a framing, the members
\* of its document, none of them twice, and the stream that carries its text.
ASSUME RepliesAssumption ==
  \A r \in Replies :
    /\ r.code \in Nat
    /\ r.framing \in {"length", "close", "chunked", "other"}
    /\ r.members \in Seq([name : DOMAIN KeyLength, value : 0 .. 99])
    /\ \A j, k \in DOMAIN r.members :
         r.members[j].name = r.members[k].name => j = k
    /\ \A k \in DOMAIN r.members :
         r.members[k].name = "isActive" => r.members[k].value \in {0, 1}
    /\ r.stream \in Seq({"header", "text", "size", "crlf"} \X Nat)
    /\ Len(r.stream) > 0
    /\ r.framing \in {"length", "close"} => FramedAsOne(r)
    /\ r.framing = "chunked" => FramedInChunks(r)

-----------------------------------------------------------------------------
(* The network.                                                            *)

Init ==
  /\ at = "done" /\ code = Failed
  /\ reply \in Replies
  /\ arrived = 0 /\ taken = 0 /\ open = FALSE /\ cut = FALSE
  /\ left = 0 /\ payload = <<>>
  /\ doc = <<>>

Send ==
  /\ open /\ arrived < Len(reply.stream)
  /\ arrived' = arrived + 1
  /\ UNCHANGED <<at, reply, taken, open, cut, code, left, payload, doc>>

\* The server closes, or the connection breaks; what has arrived and was not
\* read may be lost with it.
Close ==
  /\ open /\ open' = FALSE
  /\ arrived' \in {arrived, taken}
  /\ cut' = (arrived' # Len(reply.stream))
  /\ UNCHANGED <<at, reply, taken, code, left, payload, doc>>

-----------------------------------------------------------------------------
(* The device.                                                             *)

\* Something has arrived that was not read, and what stands there.
Available == taken < arrived
Upcoming == reply.stream[taken + 1]

\* Slip: bytes that arrived before the server closed are not looked at.
Connected_PeerOnly == open

\* HTTPClient::connected
Connected == Available \/ open

\* The client object is destroyed with its connection.
HangUp ==
  /\ at' = "done"
  /\ arrived' = 0 /\ taken' = 0 /\ open' = FALSE
  /\ left' = 0 /\ payload' = <<>>
  /\ UNCHANGED reply

\* GET returns an error; the document is left alone.
Fail ==
  /\ HangUp
  /\ code' = Failed
  /\ UNCHANGED doc

\* Slip: an empty payload is not parsed.
Finish_KeepsDoc(late) ==
  /\ HangUp
  /\ cut' = (cut \/ late)
  /\ doc' = IF payload = <<>> THEN doc ELSE Parse(payload)
  /\ UNCHANGED code

\* getString returns, for whatever reason, and the payload is parsed.
Finish(late) ==
  /\ HangUp
  /\ cut' = (cut \/ late)
  /\ doc' = Parse(payload)
  /\ UNCHANGED code

Begin ==
  /\ at = "done"
  /\ \E r \in Replies :
       /\ at' = "header" /\ reply' = r
       /\ arrived' = 0 /\ taken' = 0 /\ open' = TRUE /\ cut' = FALSE
  /\ code' = 0
  /\ UNCHANGED <<left, payload, doc>>

Refused ==
  /\ at = "done"
  /\ code' = Failed
  /\ UNCHANGED <<at, reply, network, left, payload, doc>>

\* A page that is not HTTP has no code, and one content coding is understood.
ReadHeader ==
  /\ at = "header" /\ Available
  /\ IF reply.code = 0 \/ reply.framing = "other"
     THEN Fail /\ UNCHANGED cut
     ELSE /\ code' = reply.code
          /\ at' = IF reply.framing = "chunked" THEN "chunk" ELSE "body"
          /\ left' = CASE reply.framing = "length"  -> Len(Text(reply.members))
                       [] reply.framing = "close"   -> -1
                       [] reply.framing = "chunked" -> 0
          /\ taken' = taken + 1
          /\ UNCHANGED <<reply, arrived, open, cut, payload, doc>>

\* Slip: the header is waited for without a timeout.
NoHeader_NoTimeout == at = "header" /\ ~Connected /\ Fail /\ UNCHANGED cut

\* Five seconds without data, or the connection is gone.
NoHeader == at = "header" /\ ~Available /\ Fail /\ UNCHANGED cut

ReadBody ==
  /\ at = "body" /\ left # 0 /\ Connected /\ Available
  /\ payload' = Append(payload, Text(reply.members)[Upcoming[2]])
  /\ taken' = taken + 1
  /\ left' = IF left > 0 THEN left - 1 ELSE left
  /\ UNCHANGED <<at, reply, arrived, open, cut, code, doc>>

\* A block has no timeout: it ends with its length or with the connection.
BlockRead ==
  /\ at = "body" /\ left = 0 /\ reply.framing = "chunked"
  /\ at' = "crlf"
  /\ UNCHANGED <<reply, network, code, left, payload, doc>>

BodyEnds ==
  /\ at = "body"
  /\ IF left = 0 THEN reply.framing # "chunked" ELSE ~Connected
  /\ Finish(FALSE)

ReadCrlf ==
  /\ at = "crlf" /\ Available
  /\ at' = "chunk" /\ taken' = taken + 1
  /\ UNCHANGED <<reply, arrived, open, cut, code, left, payload, doc>>

ReadChunk ==
  /\ at = "chunk" /\ Available
  /\ IF Upcoming[2] = 0
     THEN Finish(FALSE)
     ELSE /\ at' = "body" /\ left' = Upcoming[2] /\ taken' = taken + 1
          /\ UNCHANGED <<reply, arrived, open, cut, code, payload, doc>>

\* A stream read waits five seconds, or finds the connection gone.
NoChunk == at \in {"chunk", "crlf"} /\ ~Available /\ Finish(TRUE)

Device ==
  \/ ReadHeader \/ NoHeader
  \/ ReadBody \/ BlockRead \/ BodyEnds
  \/ ReadCrlf \/ ReadChunk \/ NoChunk

Next == Begin \/ Refused \/ Send \/ Close \/ Device

\* The task goes on whenever it can; the server and the network need not.
Spec == Init /\ [][Next]_vars /\ WF_vars(Device)

-----------------------------------------------------------------------------
(* Properties.                                                             *)

\* When the document says that the timer is active, the server has said so, and
\* every member that it sent before isActive has been read as it was sent; a
\* later one may be missing or have lost digits (parseNumericValue, GetCurrentTimer).
ArmedIsExactBefore ==
  at = "done" /\ code > 0 /\ Member(doc, "isActive") = 1
    => \E k \in DOMAIN reply.members :
         /\ reply.members[k] = [name |-> "isActive", value |-> 1]
         /\ \A j \in 1 .. k :
              Member(doc, reply.members[j].name) = reply.members[j].value

\* The bytes that the first members of a document need in the pool.
Bytes(ms) ==
  LET bytes[k \in 0 .. Len(ms)] ==
        IF k = 0 THEN 0 ELSE bytes[k - 1] + Need(ms[k].name)
  IN  bytes

Fits(ms) == Bytes(ms)[Len(ms)] <= Capacity

\* An answer that arrived completely and in time, however it was framed and
\* wherever the connection closed afterwards, is in the document, and nothing
\* else is (writeToStream, connected).
WholeWhenDelivered ==
  at = "done" /\ code > 0 /\ ~cut /\ Fits(reply.members)
    => /\ DOMAIN doc = {reply.members[k].name : k \in DOMAIN reply.members}
       /\ \A k \in DOMAIN reply.members :
            doc[reply.members[k].name] = reply.members[k].value

\* An answer that was cut errs on the small side: no member reads as more than
\* was sent, so a lost connection lengthens no run time and arms no timer that
\* the server left inactive (parseNumericValue, addSlot).
NeverMoreThanSent ==
  at = "done" /\ code > 0 =>
    \A k \in DOMAIN reply.members :
      Member(doc, reply.members[k].name) <= reply.members[k].value

\* Waiting for the body of an answer: the one wait that has no timeout.
Starved == at = "body" /\ open /\ ~Available /\ left # 0

\* A request ends, unless the server stops in the middle of a body and keeps
\* the connection open (sendRequest, writeToStreamDataBlock).
RequestsEnd == []<>(at = "done") \/ <>[]Starved
=============================================================================
