----------------------------- MODULE FetchProofs -----------------------------
(***************************************************************************)
(* Proofs about Fetch and JsonDoc: what the document may hold after a      *)
(* request, for every set of answers that are framed as HTTP frames them,  *)
(* every size of the pool, and a connection that breaks anywhere.          *)
(***************************************************************************)
EXTENDS Fetch, SequenceTheorems, WellFoundedInduction, TLAPS

-----------------------------------------------------------------------------
(* The invariant of a request: the payload is a beginning of the text, and *)
(* what is still to be read continues it.                                  *)

Whole(r) == Len(Text(r.members))

\* The first m pieces of the text of r.
Beginning(r, m) == [i \in 1 .. m |-> Text(r.members)[i]]

\* Where the device stands in the stream when it has read m pieces.
HeaderPlace(m) == at = "header" => taken = 0 /\ m = 0

BodyPlace(m) ==
  at = "body" /\ reply.framing # "chunked" =>
    /\ taken = m + 1
    /\ left = IF reply.framing = "length" THEN Whole(reply) - m ELSE -1

BlockPlace(m) ==
  at = "body" /\ reply.framing = "chunked" =>
    /\ left \in 0 .. Whole(reply) - m
    /\ \A j \in 1 .. left : reply.stream[taken + j] = Piece(m + j)
    /\ SizeAt(reply, taken + left + 2, m + left)

ChunkPlace(m) ==
  /\ at = "crlf"  => SizeAt(reply, taken + 2, m)
  /\ at = "chunk" => SizeAt(reply, taken + 1, m)

Placed ==
  \E m \in 0 .. Whole(reply) :
    /\ payload = Beginning(reply, m)
    /\ HeaderPlace(m) /\ BodyPlace(m) /\ BlockPlace(m) /\ ChunkPlace(m)

\* The document is what the parser makes of a beginning of the text, and of all
\* of it when the answer came completely and in time.
Parsed ==
  at = "done" /\ code > 0 =>
    \E m \in 0 .. Whole(reply) :
      doc = Parse(Beginning(reply, m)) /\ (~cut => m = Whole(reply))

FetchTypes ==
  /\ at \in {"done", "header", "body", "crlf", "chunk"}
  /\ reply \in Replies
  /\ taken \in Nat /\ arrived \in taken .. Len(reply.stream)
  /\ open \in BOOLEAN /\ cut \in BOOLEAN
  /\ code \in Int /\ left \in Int

\* The header is read of a page that is HTTP and in a known framing, and the
\* others of the places of a chunk are those of a chunked answer.
Framing ==
  /\ at \in {"body", "crlf", "chunk"} =>
       reply.framing \in {"length", "close", "chunked"}
  /\ at \in {"crlf", "chunk"} => reply.framing = "chunked"

\* Nothing is missing of an answer that is not cut.
Delivered == at # "done" /\ ~open /\ ~cut => arrived = Len(reply.stream)

FetchInv ==
  /\ FetchTypes /\ Framing /\ Delivered
  /\ at # "done" => Placed
  /\ at = "done" => ~open /\ payload = <<>> /\ left = 0
  /\ at = "header" => payload = <<>> /\ left = 0
  /\ Parsed

-----------------------------------------------------------------------------
(* Induction, stated with a set because the provers know no operators as   *)
(* parameters; and what the two recursive functions of the model compute.  *)

LessThan == {p \in Nat \X Nat : p[1] < p[2]}

LEMMA LessThanWellFounded == IsWellFoundedOn(LessThan, Nat)
  BY NatLessThanWellFounded DEF OpToRel, LessThan

\* A set of numbers that is not empty has a least one.
LEMMA Least ==
  ASSUME NEW T \in SUBSET Nat, T # {}
  PROVE  \E n \in T : \A m \in T : n <= m
<1>1. PICK n \in T : \A m \in T : ~(<<m, n>> \in LessThan)
  BY LessThanWellFounded, WFMin
<1>2. ASSUME NEW m \in T PROVE n <= m
  <2>1. m \in Nat /\ n \in Nat /\ <<m, n>> \notin LessThan
    BY <1>1
  <2> QED BY <2>1 DEF LessThan
<1> QED BY <1>2

\* What holds of 0, and of n + 1 when it holds of n, holds of all.
LEMMA Induction ==
  ASSUME NEW T \in SUBSET Nat, 0 \in T, \A n \in T : n + 1 \in T
  PROVE  T = Nat
<1> SUFFICES ASSUME Nat \ T # {} PROVE FALSE
  OBVIOUS
<1>1. PICK n \in Nat \ T : \A m \in Nat \ T : n <= m
  <2>1. Nat \ T \in SUBSET Nat
    OBVIOUS
  <2> QED BY <2>1, Least, Zenon
<1>2. n # 0 /\ n - 1 \in Nat /\ ~(n <= n - 1)
  BY <1>1
<1>3. n - 1 \in T
  BY <1>1, <1>2
<1>4. (n - 1) + 1 \in T /\ (n - 1) + 1 = n
  BY <1>2, <1>3
<1> QED BY <1>1, <1>4

\* Reads is the function that its definition describes.
LEMMA ReadsUnfolded ==
  ASSUME NEW text, Len(text) \in Nat
  PROVE  Reads(text) = [n \in 0 .. Len(text) |->
           IF n = 0 THEN Start ELSE ParsePiece(Reads(text)[n - 1], text[n])]
<1> DEFINE Is(f, N) == f = [n \in 0 .. N |->
                         IF n = 0 THEN Start ELSE ParsePiece(f[n - 1], text[n])]
           T == {N \in Nat : \E f : Is(f, N)}
<1>1. 0 \in T
  <2>1. Is([n \in 0 .. 0 |-> Start], 0)
    OBVIOUS
  <2> QED BY <2>1
<1>2. ASSUME NEW N \in T PROVE N + 1 \in T
  <2>1. PICK f : Is(f, N)
    OBVIOUS
  <2>2. N \in Nat /\ N + 1 \in Nat
    OBVIOUS
  <2> DEFINE g == [n \in 0 .. N + 1 |->
                     IF n = 0 THEN Start ELSE ParsePiece(f[n - 1], text[n])]
  <2>3. ASSUME NEW n \in 0 .. N + 1, n # 0
        PROVE  g[n - 1] = f[n - 1]
    <3>1. n - 1 \in 0 .. N /\ n - 1 \in 0 .. N + 1
      BY <2>2, <2>3
    <3>2. f[n - 1] = IF n - 1 = 0 THEN Start ELSE ParsePiece(f[(n - 1) - 1], text[n - 1])
      BY <2>1, <3>1
    <3> QED BY <3>1, <3>2
  <2>4. ASSUME NEW n \in 0 .. N + 1
        PROVE  g[n] = IF n = 0 THEN Start ELSE ParsePiece(g[n - 1], text[n])
    <3>1. g[n] = IF n = 0 THEN Start ELSE ParsePiece(f[n - 1], text[n])
      OBVIOUS
    <3>2. n # 0 => g[n - 1] = f[n - 1]
      BY <2>3
    <3> HIDE DEF g
    <3> QED BY <3>1, <3>2
  <2>5. Is(g, N + 1)
    <3>1. g = [n \in 0 .. N + 1 |-> g[n]]
      OBVIOUS
    <3> HIDE DEF g
    <3> QED BY <2>4, <3>1
  <2> HIDE DEF g, Is
  <2> QED BY <2>2, <2>5
<1>3. T = Nat
  <2> HIDE DEF T
  <2>1. T \in SUBSET Nat
    BY DEF T
  <2> QED BY <1>1, <1>2, <2>1, Induction, Zenon
<1>4. \E f : Is(f, Len(text))
  BY <1>3
<1> QED BY <1>4 DEF Reads

\* And so is Bytes.
LEMMA BytesUnfolded ==
  ASSUME NEW ms, Len(ms) \in Nat
  PROVE  Bytes(ms) = [k \in 0 .. Len(ms) |->
           IF k = 0 THEN 0 ELSE Bytes(ms)[k - 1] + Need(ms[k].name)]
<1> DEFINE Is(f, N) == f = [k \in 0 .. N |->
                         IF k = 0 THEN 0 ELSE f[k - 1] + Need(ms[k].name)]
           T == {N \in Nat : \E f : Is(f, N)}
<1>1. 0 \in T
  <2>1. Is([k \in 0 .. 0 |-> 0], 0)
    OBVIOUS
  <2> QED BY <2>1
<1>2. ASSUME NEW N \in T PROVE N + 1 \in T
  <2>1. PICK f : Is(f, N)
    OBVIOUS
  <2>2. N \in Nat /\ N + 1 \in Nat
    OBVIOUS
  <2> DEFINE g == [k \in 0 .. N + 1 |->
                     IF k = 0 THEN 0 ELSE f[k - 1] + Need(ms[k].name)]
  <2>3. ASSUME NEW k \in 0 .. N + 1, k # 0
        PROVE  g[k - 1] = f[k - 1]
    <3>1. k - 1 \in 0 .. N /\ k - 1 \in 0 .. N + 1
      BY <2>2, <2>3
    <3>2. f[k - 1] = IF k - 1 = 0 THEN 0 ELSE f[(k - 1) - 1] + Need(ms[k - 1].name)
      BY <2>1, <3>1
    <3> QED BY <3>1, <3>2
  <2>4. ASSUME NEW k \in 0 .. N + 1
        PROVE  g[k] = IF k = 0 THEN 0 ELSE g[k - 1] + Need(ms[k].name)
    <3>1. g[k] = IF k = 0 THEN 0 ELSE f[k - 1] + Need(ms[k].name)
      OBVIOUS
    <3>2. k # 0 => g[k - 1] = f[k - 1]
      BY <2>3
    <3> HIDE DEF g
    <3> QED BY <3>1, <3>2
  <2>5. Is(g, N + 1)
    <3>1. g = [k \in 0 .. N + 1 |-> g[k]]
      OBVIOUS
    <3> HIDE DEF g
    <3> QED BY <2>4, <3>1
  <2> HIDE DEF g, Is
  <2> QED BY <2>2, <2>5
<1>3. T = Nat
  <2> HIDE DEF T
  <2>1. T \in SUBSET Nat
    BY DEF T
  <2> QED BY <1>1, <1>2, <2>1, Induction, Zenon
<1>4. \E f : Is(f, Len(ms))
  BY <1>3
<1> QED BY <1>4 DEF Bytes

-----------------------------------------------------------------------------
(* The members of an answer and the pieces of its text.                    *)

MemberTypes(r) ==
  /\ Len(r.members) \in Nat /\ DOMAIN r.members = 1 .. Len(r.members)
  /\ r.members = <<>> <=> Len(r.members) = 0
  /\ \A k \in 1 .. Len(r.members) :
       /\ r.members[k].name \in DOMAIN KeyLength
       /\ r.members[k].value \in 0 .. 99
       /\ r.members[k].name = "isActive" => r.members[k].value \in {0, 1}
       /\ Need(r.members[k].name) \in Nat
       /\ r.members[k] = [name |-> r.members[k].name, value |-> r.members[k].value]
  /\ \A j, k \in 1 .. Len(r.members) :
       r.members[j].name = r.members[k].name => j = k

LEMMA MembersTyped ==
  ASSUME NEW r \in Replies
  PROVE  MemberTypes(r)
<1>1. /\ r.members \in Seq([name : DOMAIN KeyLength, value : 0 .. 99])
      /\ \A j, k \in DOMAIN r.members :
           r.members[j].name = r.members[k].name => j = k
      /\ \A k \in DOMAIN r.members :
           r.members[k].name = "isActive" => r.members[k].value \in {0, 1}
  BY RepliesAssumption
<1>2. /\ Len(r.members) \in Nat /\ DOMAIN r.members = 1 .. Len(r.members)
      /\ \A k \in 1 .. Len(r.members) :
           r.members[k] \in [name : DOMAIN KeyLength, value : 0 .. 99]
  <2> DEFINE S == [name : DOMAIN KeyLength, value : 0 .. 99]
  <2>1. r.members \in Seq(S)
    BY <1>1
  <2> HIDE DEF S
  <2>2. /\ Len(r.members) \in Nat /\ DOMAIN r.members = 1 .. Len(r.members)
        /\ \A k \in 1 .. Len(r.members) : r.members[k] \in S
    BY <2>1
  <2> QED BY <2>2 DEF S
<1>3. r.members = <<>> <=> Len(r.members) = 0
  BY <1>1, EmptySeq
<1>4. \A n \in DOMAIN KeyLength : Need(n) \in Nat
  BY SizesAssumption DEF Need
<1> QED BY <1>1, <1>2, <1>3, <1>4 DEF MemberTypes

\* What the parser has stored for a member after two of its three pieces.
FirstPart(m) == IF m.name = "isActive" THEN m.value ELSE m.value \div 10

\* The member after k begins at 3 k.
LEMMA TextPieces ==
  ASSUME NEW r, MemberTypes(r)
  PROVE  /\ Whole(r) = IF Len(r.members) = 0 THEN 1 ELSE 3 * Len(r.members)
         /\ Len(r.members) = 0 => Text(r.members)[1] = Other
         /\ \A k \in 0 .. Len(r.members) - 1 :
              LET m == r.members[k + 1]
              IN  /\ Text(r.members)[3 * k + 1] = Key(m.name)
                  /\ Text(r.members)[3 * k + 2] =
                       IF m.name = "isActive" THEN Flag(m.value)
                       ELSE Digit(m.value \div 10)
                  /\ Text(r.members)[3 * k + 3] =
                       IF m.name = "isActive" THEN Rest ELSE Digit(m.value % 10)
<1> DEFINE L == Len(r.members)
<1>1. L \in Nat /\ (r.members = <<>> <=> L = 0)
  BY DEF MemberTypes
<1>2. CASE L = 0
  BY <1>1, <1>2 DEF Text, Whole
<1>3. CASE L # 0
  <2>1. Text(r.members) =
          [i \in 1 .. 3 * L |-> PieceOf(r.members[((i - 1) \div 3) + 1], (i - 1) % 3)]
    BY <1>1, <1>3 DEF Text
  <2>2. Whole(r) = 3 * L
    BY <1>1, <2>1 DEF Whole
  <2>3. ASSUME NEW k \in 0 .. L - 1, NEW i \in 0 .. 2
        PROVE  Text(r.members)[3 * k + 1 + i] = PieceOf(r.members[k + 1], i)
    <3>1. /\ 3 * k + 1 + i \in 1 .. 3 * L
          /\ (3 * k + 1 + i - 1) \div 3 = k
          /\ (3 * k + 1 + i - 1) % 3 = i
      BY <1>1
    <3> QED BY <2>1, <3>1
  <2>4. ASSUME NEW k \in 0 .. L - 1
        PROVE  /\ Text(r.members)[3 * k + 1] = PieceOf(r.members[k + 1], 0)
               /\ Text(r.members)[3 * k + 2] = PieceOf(r.members[k + 1], 1)
               /\ Text(r.members)[3 * k + 3] = PieceOf(r.members[k + 1], 2)
    <3>1. 3 * k + 1 + 0 = 3 * k + 1 /\ 3 * k + 1 + 1 = 3 * k + 2 /\ 3 * k + 1 + 2 = 3 * k + 3
      BY <1>1
    <3> QED BY <2>3, <3>1
  <2> QED BY <1>3, <2>2, <2>4 DEF PieceOf
<1> QED BY <1>2, <1>3

\* What the members need grows with each of them.
LEMMA BytesGrow ==
  ASSUME NEW r, MemberTypes(r)
  PROVE  /\ Bytes(r.members)[0] = 0
         /\ \A k \in 0 .. Len(r.members) : Bytes(r.members)[k] \in Nat
         /\ \A k \in 1 .. Len(r.members) :
              Bytes(r.members)[k] =
                Bytes(r.members)[k - 1] + Need(r.members[k].name)
         /\ \A k \in 0 .. Len(r.members) :
              Bytes(r.members)[k] <= Bytes(r.members)[Len(r.members)]
<1> DEFINE L == Len(r.members)
           B == Bytes(r.members)
<1>1. L \in Nat /\ \A k \in 1 .. L : Need(r.members[k].name) \in Nat
  BY DEF MemberTypes
<1>2. /\ B[0] = 0
      /\ \A k \in 1 .. L : B[k] = B[k - 1] + Need(r.members[k].name)
  BY <1>1, BytesUnfolded
<1> HIDE DEF B
<1> DEFINE T == {n \in Nat : n <= L => \A k \in 0 .. n : B[k] \in Nat /\ B[k] <= B[n]}
<1>3. 0 \in T
  BY <1>2
<1>4. ASSUME NEW n \in T PROVE n + 1 \in T
  <2>1. SUFFICES ASSUME n + 1 <= L
                 PROVE  \A k \in 0 .. n + 1 : B[k] \in Nat /\ B[k] <= B[n + 1]
    OBVIOUS
  <2>2. \A k \in 0 .. n : B[k] \in Nat /\ B[k] <= B[n]
    BY <1>1, <2>1
  <2>3. B[n + 1] = B[n] + Need(r.members[n + 1].name)
        /\ Need(r.members[n + 1].name) \in Nat
    <3>1. n + 1 \in 1 .. L /\ (n + 1) - 1 = n
      BY <1>1, <2>1
    <3> QED BY <1>1, <1>2, <3>1
  <2>4. ASSUME NEW k \in 0 .. n + 1 PROVE B[k] \in Nat /\ B[k] <= B[n + 1]
    <3>1. B[n] \in Nat
      BY <2>2
    <3>2. k = n + 1 \/ (k \in 0 .. n /\ B[k] \in Nat /\ B[k] <= B[n])
      BY <2>2
    <3> QED BY <2>3, <3>1, <3>2
  <2> QED BY <2>4
<1> HIDE DEF T
<1>5. T = Nat
  BY <1>3, <1>4, Induction DEF T
<1>6. \A k \in 0 .. L : B[k] \in Nat /\ B[k] <= B[L]
  BY <1>1, <1>5 DEF T
<1> QED BY <1>2, <1>6 DEF B

-----------------------------------------------------------------------------
(* The parser, piece by piece.                                             *)

Going(d, key, used)   == [doc |-> d, key |-> key, used |-> used, ok |-> TRUE]
Stopped(d, key, used) == [doc |-> d, key |-> key, used |-> used, ok |-> FALSE]

LEMMA PieceParsed ==
  ASSUME NEW d, NEW q, NEW u
  PROVE  /\ \A p : ParsePiece(Stopped(d, q, u), p) = Stopped(d, q, u)
         /\ \A n : ParsePiece(Going(d, q, u), Key(n)) =
              IF u + Need(n) <= Capacity
              THEN Going(NewMember(d, n), n, u + Need(n))
              ELSE Stopped(d, q, u)
         /\ \A x : ParsePiece(Going(d, q, u), Digit(x)) =
              Going([d EXCEPT ![q] = 10 * d[q] + x], q, u)
         /\ \A b : ParsePiece(Going(d, q, u), Flag(b)) =
              Going([d EXCEPT ![q] = b], q, u)
         /\ ParsePiece(Going(d, q, u), Rest) = Going(d, q, u)
         /\ ParsePiece(Going(d, q, u), Other) = Stopped(d, q, u)
<1>1. \A p : ParsePiece(Stopped(d, q, u), p) = Stopped(d, q, u)
  BY DEF ParsePiece, Stopped
<1>2. ASSUME NEW n
      PROVE  ParsePiece(Going(d, q, u), Key(n)) =
               IF u + Need(n) <= Capacity
               THEN Going(NewMember(d, n), n, u + Need(n))
               ELSE Stopped(d, q, u)
  <2>1. ParsePiece(Going(d, q, u), Key(n)) = AddMember(Going(d, q, u), n)
    BY DEF ParsePiece, Going, Key
  <2> QED BY <2>1 DEF AddMember, CanAlloc, Going, Stopped
<1>3. ASSUME NEW x
      PROVE  ParsePiece(Going(d, q, u), Digit(x)) =
               Going([d EXCEPT ![q] = 10 * d[q] + x], q, u)
  <2>1. ParsePiece(Going(d, q, u), Digit(x)) = AddDigit(Going(d, q, u), x)
    BY DEF ParsePiece, Going, Digit
  <2> QED BY <2>1 DEF AddDigit, Going
<1>4. ASSUME NEW b
      PROVE  ParsePiece(Going(d, q, u), Flag(b)) = Going([d EXCEPT ![q] = b], q, u)
  <2>1. ParsePiece(Going(d, q, u), Flag(b)) = SetFlag(Going(d, q, u), b)
    BY DEF ParsePiece, Going, Flag
  <2> QED BY <2>1 DEF SetFlag, Going
<1>5. /\ ParsePiece(Going(d, q, u), Rest) = Going(d, q, u)
      /\ ParsePiece(Going(d, q, u), Other) = Stopped(d, q, u)
  BY DEF ParsePiece, Going, Stopped, Rest, Other
<1> QED BY <1>1, <1>2, <1>3, <1>4, <1>5

Names(r, k) == {r.members[j].name : j \in 1 .. k}

\* The document holds the first k members as they were sent, and nothing else.
Exact(r, d, k) ==
  /\ DOMAIN d = Names(r, k)
  /\ \A j \in 1 .. k : d[r.members[j].name] = r.members[j].value

\* It holds these and a part of the next, which reads as v.
Partly(r, d, k, v) ==
  /\ DOMAIN d = Names(r, k + 1)
  /\ \A j \in 1 .. k : d[r.members[j].name] = r.members[j].value
  /\ d[r.members[k + 1].name] = v

\* What the parser may have got to behind n pieces: between two members, behind
\* a key, inside a value, or it has stopped, for want of room unless the text
\* had no members.
Reading(r, n, k, d, q, u, s) ==
  \/ /\ n = 3 * k /\ s = Going(d, q, u) /\ u = Bytes(r.members)[k]
     /\ Exact(r, d, k)
  \/ /\ n = 3 * k + 1 /\ s = Going(d, q, u) /\ u = Bytes(r.members)[k + 1]
     /\ k < Len(r.members) /\ q = r.members[k + 1].name
     /\ Partly(r, d, k, 0)
  \/ /\ n = 3 * k + 2 /\ s = Going(d, q, u) /\ u = Bytes(r.members)[k + 1]
     /\ k < Len(r.members) /\ q = r.members[k + 1].name
     /\ Partly(r, d, k, FirstPart(r.members[k + 1]))
  \/ /\ n > 3 * k /\ s = Stopped(d, q, u)
     /\ Exact(r, d, k)
     /\ k < Len(r.members) => Bytes(r.members)[k + 1] > Capacity

Read(r, n, s) ==
  \E k \in 0 .. Len(r.members) : \E d, q, u : Reading(r, n, k, d, q, u, s)

\* A key begins the next member.
LEMMA KeyAdds ==
  ASSUME NEW r, MemberTypes(r), NEW k \in 0 .. Len(r.members) - 1, NEW d,
         Exact(r, d, k)
  PROVE  Partly(r, NewMember(d, r.members[k + 1].name), k, 0)
<1> DEFINE N(j) == r.members[j].name
           e == NewMember(d, N(k + 1))
<1>1. Len(r.members) \in Nat /\ k + 1 \in 1 .. Len(r.members)
  BY DEF MemberTypes
<1>2. e = [m \in DOMAIN d \cup {N(k + 1)} |-> IF m = N(k + 1) THEN 0 ELSE d[m]]
  BY DEF NewMember
<1> HIDE DEF e
<1>3. DOMAIN e = Names(r, k) \cup {N(k + 1)}
  BY <1>2 DEF Exact
<1>4. Names(r, k) \cup {N(k + 1)} = Names(r, k + 1)
  <2>1. 1 .. k + 1 = (1 .. k) \cup {k + 1}
    BY <1>1
  <2> QED BY <2>1 DEF Names
<1>5. e[N(k + 1)] = 0
  BY <1>2
<1>6. ASSUME NEW j \in 1 .. k PROVE e[N(j)] = r.members[j].value
  <2>1. N(j) \in DOMAIN d
    BY DEF Exact, Names
  <2>2. N(j) # N(k + 1)
    <3>1. j # k + 1 /\ j \in 1 .. Len(r.members)
      BY <1>1
    <3> QED BY <1>1, <3>1 DEF MemberTypes
  <2>3. e[N(j)] = d[N(j)]
    BY <1>2, <2>1, <2>2
  <2> QED BY <2>3 DEF Exact
<1> QED BY <1>3, <1>4, <1>5, <1>6 DEF Partly, e

\* A value fills in the member whose key came last.
LEMMA ValueSet ==
  ASSUME NEW r, MemberTypes(r), NEW k \in 0 .. Len(r.members) - 1, NEW d, NEW v,
         NEW w, Partly(r, d, k, v)
  PROVE  Partly(r, [d EXCEPT ![r.members[k + 1].name] = w], k, w)
<1> DEFINE N(j) == r.members[j].name
           e == [d EXCEPT ![N(k + 1)] = w]
<1>1. Len(r.members) \in Nat /\ k + 1 \in 1 .. Len(r.members) /\ k + 1 \in 1 .. k + 1
  BY DEF MemberTypes
<1>2. DOMAIN e = Names(r, k + 1)
  BY DEF Partly
<1>3. N(k + 1) \in DOMAIN d
  BY <1>1 DEF Partly, Names
<1>4. e[N(k + 1)] = w
  BY <1>3
<1>5. ASSUME NEW j \in 1 .. k PROVE e[N(j)] = r.members[j].value
  <2>1. j # k + 1 /\ j \in 1 .. Len(r.members) /\ j \in 1 .. k + 1
    BY <1>1
  <2>2. N(j) # N(k + 1)
    BY <1>1, <2>1 DEF MemberTypes
  <2>3. e[N(j)] = d[N(j)]
    BY <2>1, <2>2 DEF Partly, Names
  <2> QED BY <2>3 DEF Partly
<1> QED BY <1>2, <1>4, <1>5 DEF Partly

\* The last piece of a member completes it.
LEMMA MemberWhole ==
  ASSUME NEW r, MemberTypes(r), NEW k \in 0 .. Len(r.members) - 1, NEW d,
         Partly(r, d, k, r.members[k + 1].value)
  PROVE  Exact(r, d, k + 1)
<1>1. ASSUME NEW j \in 1 .. k + 1 PROVE d[r.members[j].name] = r.members[j].value
  <2>1. j \in 1 .. k \/ j = k + 1
    OBVIOUS
  <2> QED BY <2>1 DEF Partly
<1> QED BY <1>1 DEF Partly, Exact

\* One piece more of the text takes the parser from one of these to the next.
LEMMA ReadOn ==
  ASSUME NEW r, MemberTypes(r), NEW n \in 0 .. Whole(r) - 1, NEW s, Read(r, n, s)
  PROVE  Read(r, n + 1, ParsePiece(s, Text(r.members)[n + 1]))
<1> DEFINE L == Len(r.members)
           B == Bytes(r.members)
           t == Text(r.members)
<1>1. L \in Nat /\ Whole(r) = (IF L = 0 THEN 1 ELSE 3 * L) /\ n \in Nat
  <2>1. L \in Nat
    BY DEF MemberTypes
  <2>2. Whole(r) = IF L = 0 THEN 1 ELSE 3 * L
    BY TextPieces
  <2> HIDE DEF L
  <2> QED BY <2>1, <2>2
<1>21. PICK k \in 0 .. L : \E d, q, u : Reading(r, n, k, d, q, u, s)
  BY DEF Read
<1>2. PICK d, q, u : Reading(r, n, k, d, q, u, s)
  BY <1>21
<1> DEFINE s1 == ParsePiece(s, t[n + 1])
<1> SUFFICES \E j \in 0 .. L : \E e, x, v : Reading(r, n + 1, j, e, x, v, s1)
  BY DEF Read
<1>0. s1 = ParsePiece(s, t[n + 1])
  OBVIOUS
<1> HIDE DEF s1
<1>3. CASE n > 3 * k /\ s = Stopped(d, q, u) /\ Exact(r, d, k) /\ (k < L => B[k + 1] > Capacity)
  <2>1. s1 = s
    BY <1>0, <1>3, PieceParsed
  <2>2. n + 1 > 3 * k
    BY <1>1, <1>3
  <2>3. Reading(r, n + 1, k, d, q, u, s1)
    BY <1>3, <2>1, <2>2 DEF Reading
  <2> QED BY <2>3
<1>4. CASE n = 3 * k /\ s = Going(d, q, u) /\ u = B[k] /\ Exact(r, d, k)
  <2>1. CASE L = 0
    <3>1. n = 0 /\ k = 0 /\ t[n + 1] = Other
      BY <1>1, <2>1, TextPieces
    <3>2. s1 = Stopped(d, q, u)
      BY <1>0, <1>4, <3>1, PieceParsed
    <3>3. Reading(r, n + 1, k, d, q, u, s1)
      BY <1>4, <2>1, <3>1, <3>2 DEF Reading
    <3> QED BY <3>3
  <2>2. CASE L # 0
    <3>1. k \in 0 .. L - 1 /\ k < L /\ n + 1 = 3 * k + 1 /\ n + 1 > 3 * k
      BY <1>1, <1>4, <2>2
    <3> DEFINE m == r.members[k + 1].name
    <3>2. t[n + 1] = Key(m)
      BY <3>1, TextPieces
    <3>3. B[k + 1] = B[k] + Need(m)
      <4>1. k + 1 \in 1 .. L /\ (k + 1) - 1 = k
        BY <1>1, <3>1
      <4> QED BY <4>1, BytesGrow
    <3>4. s1 =
            IF u + Need(m) <= Capacity THEN Going(NewMember(d, m), m, u + Need(m))
            ELSE Stopped(d, q, u)
      BY <1>0, <1>4, <3>2, PieceParsed
    <3>5. CASE u + Need(m) <= Capacity
      <4>1. Partly(r, NewMember(d, m), k, 0)
        BY <1>4, <3>1, KeyAdds
      <4>2. Reading(r, n + 1, k, NewMember(d, m), m, u + Need(m), s1)
        BY <1>4, <3>1, <3>3, <3>4, <3>5, <4>1 DEF Reading
      <4> QED BY <4>2
    <3>6. CASE ~(u + Need(m) <= Capacity)
      <4>1. B[k + 1] > Capacity
        <5>1. B[k + 1] \in Nat
          BY <1>1, <3>1, BytesGrow
        <5> QED BY <1>4, <3>3, <3>6, <5>1, SizesAssumption
      <4>2. Reading(r, n + 1, k, d, q, u, s1)
        BY <1>4, <3>1, <3>4, <3>6, <4>1 DEF Reading
      <4> QED BY <4>2
    <3> QED BY <3>5, <3>6
  <2> QED BY <2>1, <2>2
<1>5. CASE /\ n = 3 * k + 1 /\ s = Going(d, q, u) /\ u = B[k + 1]
           /\ k < L /\ q = r.members[k + 1].name
           /\ Partly(r, d, k, 0)
  <2> DEFINE m == r.members[k + 1]
  <2>1. k \in 0 .. L - 1 /\ n + 1 = 3 * k + 2 /\ k + 1 \in 1 .. L
    BY <1>1, <1>5
  <2>2. t[n + 1] = IF q = "isActive" THEN Flag(m.value) ELSE Digit(m.value \div 10)
    BY <1>5, <2>1, TextPieces
  <2>3. m.value \in 0 .. 99 /\ d[q] = 0
    BY <1>5, <2>1 DEF MemberTypes, Partly
  <2>4. 10 * d[q] + (m.value \div 10) = m.value \div 10
    <3>1. \A v \in 0 .. 99 : 10 * 0 + (v \div 10) = v \div 10
      OBVIOUS
    <3> QED BY <2>3, <3>1
  <2>5. s1 = Going([d EXCEPT ![q] = FirstPart(m)], q, u)
    <3>1. CASE q = "isActive"
      BY <1>0, <1>5, <2>2, <3>1, PieceParsed DEF FirstPart
    <3>2. CASE q # "isActive"
      BY <1>0, <1>5, <2>2, <2>4, <3>2, PieceParsed DEF FirstPart
    <3> QED BY <3>1, <3>2
  <2>6. Partly(r, [d EXCEPT ![q] = FirstPart(m)], k, FirstPart(m))
    BY <1>5, <2>1, ValueSet
  <2>7. Reading(r, n + 1, k, [d EXCEPT ![q] = FirstPart(m)], q, u, s1)
    BY <1>5, <2>1, <2>5, <2>6 DEF Reading
  <2> QED BY <2>7
<1>6. CASE /\ n = 3 * k + 2 /\ s = Going(d, q, u) /\ u = B[k + 1]
           /\ k < L /\ q = r.members[k + 1].name
           /\ Partly(r, d, k, FirstPart(r.members[k + 1]))
  <2> DEFINE m == r.members[k + 1]
             e == IF q = "isActive" THEN d ELSE [d EXCEPT ![q] = m.value]
  <2>1. k \in 0 .. L - 1 /\ n + 1 = 3 * k + 3 /\ k + 1 \in 1 .. L /\ k + 1 \in 0 .. L
        /\ n + 1 = 3 * (k + 1)
    BY <1>1, <1>6
  <2>2. t[n + 1] = IF q = "isActive" THEN Rest ELSE Digit(m.value % 10)
    BY <1>6, <2>1, TextPieces
  <2>3. m.value \in 0 .. 99 /\ d[q] = FirstPart(m)
    BY <1>6, <2>1 DEF MemberTypes, Partly
  <2>4. q # "isActive" => 10 * d[q] + (m.value % 10) = m.value
    <3>1. \A v \in 0 .. 99 : 10 * (v \div 10) + (v % 10) = v
      OBVIOUS
    <3>2. q # "isActive" => d[q] = m.value \div 10
      BY <1>6, <2>3 DEF FirstPart
    <3> QED BY <2>3, <3>1, <3>2
  <2>5. s1 = Going(e, q, u)
    <3>1. CASE q = "isActive"
      BY <1>0, <1>6, <2>2, <3>1, PieceParsed
    <3>2. CASE q # "isActive"
      BY <1>0, <1>6, <2>2, <2>4, <3>2, PieceParsed
    <3> QED BY <3>1, <3>2
  <2>6. Partly(r, e, k, m.value)
    <3>1. CASE q = "isActive"
      BY <1>6, <3>1 DEF FirstPart
    <3>2. CASE q # "isActive"
      BY <1>6, <2>1, <3>2, ValueSet
    <3> QED BY <3>1, <3>2
  <2>7. Exact(r, e, k + 1)
    BY <2>1, <2>6, MemberWhole
  <2>8. Reading(r, n + 1, k + 1, e, q, u, s1)
    BY <1>6, <2>1, <2>5, <2>7 DEF Reading
  <2> QED BY <2>1, <2>8
<1> QED BY <1>0, <1>2, <1>3, <1>4, <1>5, <1>6 DEF Reading

\* So the parser is there after each piece of every beginning of the text.
LEMMA ReadsBeginning ==
  ASSUME NEW r, MemberTypes(r), NEW m \in 0 .. Whole(r)
  PROVE  \A n \in 0 .. m : Read(r, n, Reads(Beginning(r, m))[n])
<1> DEFINE b == Beginning(r, m)
<1>1. Whole(r) \in Nat /\ m \in Nat /\ Len(r.members) \in Nat
  BY TextPieces DEF MemberTypes
<1>2. /\ Len(b) = m
      /\ \A n \in 1 .. m : b[n] = Text(r.members)[n]
  BY <1>1 DEF Beginning
<1> HIDE DEF b
<1>3. \A n \in 0 .. m :
        Reads(b)[n] = IF n = 0 THEN Start ELSE ParsePiece(Reads(b)[n - 1], b[n])
  BY <1>1, <1>2, ReadsUnfolded
<1> DEFINE T == {n \in Nat : n <= m => Read(r, n, Reads(b)[n])}
<1>4. 0 \in T
  <2>1. PICK q : Reads(b)[0] = Going(<<>>, q, 0)
    <3>1. 0 \in 0 .. m
      BY <1>1
    <3>2. Reads(b)[0] = Start
      BY <1>3, <3>1
    <3>3. Start = Going(<<>>, "", 0)
      BY Zenon DEF Start, Going
    <3> QED BY <3>2, <3>3, Zenon
  <2>2. Exact(r, <<>>, 0)
    BY DEF Exact, Names
  <2>3. Bytes(r.members)[0] = 0 /\ 3 * 0 = 0
    BY BytesGrow
  <2>4. Reading(r, 0, 0, <<>>, q, 0, Reads(b)[0])
    BY <2>1, <2>2, <2>3 DEF Reading
  <2>5. Read(r, 0, Reads(b)[0])
    <3>1. 0 \in 0 .. Len(r.members)
      BY <1>1
    <3> QED BY <2>4, <3>1 DEF Read
  <2> QED BY <2>5
<1>5. ASSUME NEW n \in T PROVE n + 1 \in T
  <2>1. SUFFICES ASSUME n + 1 <= m PROVE Read(r, n + 1, Reads(b)[n + 1])
    OBVIOUS
  <2>2. n \in 0 .. Whole(r) - 1 /\ n <= m /\ n + 1 \in 0 .. m /\ n + 1 \in 1 .. m
        /\ n + 1 # 0 /\ (n + 1) - 1 = n
    BY <1>1, <2>1
  <2>3. Read(r, n, Reads(b)[n])
    BY <2>2
  <2>4. Reads(b)[n + 1] = ParsePiece(Reads(b)[n], Text(r.members)[n + 1])
    BY <1>2, <1>3, <2>2
  <2> QED BY <2>2, <2>3, <2>4, ReadOn
<1>6. T = Nat
  <2> HIDE DEF T
  <2>1. T \in SUBSET Nat
    BY DEF T
  <2> QED BY <1>4, <1>5, <2>1, Induction, Zenon
<1> QED BY <1>1, <1>6 DEF T, b

LEMMA ParseRead ==
  ASSUME NEW r, MemberTypes(r), NEW m \in 0 .. Whole(r)
  PROVE  \E k \in 0 .. Len(r.members) : \E q, u :
           \/ Reading(r, m, k, Parse(Beginning(r, m)), q, u,
                      Going(Parse(Beginning(r, m)), q, u))
           \/ Reading(r, m, k, Parse(Beginning(r, m)), q, u,
                      Stopped(Parse(Beginning(r, m)), q, u))
<1> DEFINE b == Beginning(r, m)
           s == Reads(b)[m]
<1>1. Whole(r) \in Nat /\ m \in Nat
  BY TextPieces DEF MemberTypes
<1>2. Len(b) = m
  BY <1>1 DEF Beginning
<1>3. Read(r, m, s)
  BY <1>1, ReadsBeginning
<1> HIDE DEF s
<1>41. PICK k \in 0 .. Len(r.members) : \E d, q, u : Reading(r, m, k, d, q, u, s)
  BY <1>3 DEF Read
<1>4. PICK d, q, u : Reading(r, m, k, d, q, u, s)
  BY <1>41
<1>5. s = Going(d, q, u) \/ s = Stopped(d, q, u)
  BY <1>4 DEF Reading
<1>6. s.doc = d
  BY <1>5 DEF Going, Stopped
<1>7. Parse(b) = d
  BY <1>2, <1>6 DEF Parse, s
<1> HIDE DEF b
<1>8. \/ Reading(r, m, k, Parse(b), q, u, Going(Parse(b), q, u))
      \/ Reading(r, m, k, Parse(b), q, u, Stopped(Parse(b), q, u))
  BY <1>4, <1>5, <1>7
<1> QED BY <1>8 DEF b

\* An active flag was sent as such, behind members that are all exact.
LEMMA ActiveWasSent ==
  ASSUME NEW r, MemberTypes(r), NEW m \in 0 .. Whole(r),
         NEW d, d = Parse(Beginning(r, m)), Member(d, "isActive") = 1
  PROVE  \E k \in DOMAIN r.members :
           /\ r.members[k] = [name |-> "isActive", value |-> 1]
           /\ \A j \in 1 .. k : Member(d, r.members[j].name) = r.members[j].value
<1> DEFINE L == Len(r.members)
<1>1. L \in Nat /\ DOMAIN r.members = 1 .. L
  BY DEF MemberTypes
<1>2. "isActive" \in DOMAIN d /\ d["isActive"] = 1
  BY DEF Member
<1>31. PICK k \in 0 .. L : \E q, u :
        \/ Reading(r, m, k, d, q, u, Going(d, q, u))
        \/ Reading(r, m, k, d, q, u, Stopped(d, q, u))
  BY ParseRead
<1>3. PICK q, u :
        \/ Reading(r, m, k, d, q, u, Going(d, q, u))
        \/ Reading(r, m, k, d, q, u, Stopped(d, q, u))
  BY <1>31
<1>4. ASSUME NEW i \in 1 .. L, r.members[i].name = "isActive", r.members[i].value = 1,
             \A j \in 1 .. i :
               /\ r.members[j].name \in DOMAIN d
               /\ d[r.members[j].name] = r.members[j].value
      PROVE  \E n \in DOMAIN r.members :
               /\ r.members[n] = [name |-> "isActive", value |-> 1]
               /\ \A j \in 1 .. n : Member(d, r.members[j].name) = r.members[j].value
  <2>1. r.members[i] = [name |-> "isActive", value |-> 1]
    BY <1>4 DEF MemberTypes
  <2> QED BY <1>1, <1>4, <2>1 DEF Member
<1>5. CASE Exact(r, d, k)
  <2>1. PICK i \in 1 .. k : r.members[i].name = "isActive"
    BY <1>2, <1>5 DEF Exact, Names
  <2>2. i \in 1 .. L /\ \A j \in 1 .. i : j \in 1 .. k
    BY <1>1
  <2>3. \A j \in 1 .. i : /\ r.members[j].name \in DOMAIN d
                          /\ d[r.members[j].name] = r.members[j].value
    BY <1>5, <2>2 DEF Exact, Names
  <2>4. r.members[i].value = 1
    BY <1>2, <1>5, <2>1 DEF Exact
  <2> QED BY <1>4, <2>1, <2>2, <2>3, <2>4
<1>6. ASSUME NEW v \in {0, FirstPart(r.members[k + 1])}, k < L, Partly(r, d, k, v)
      PROVE  \E n \in DOMAIN r.members :
               /\ r.members[n] = [name |-> "isActive", value |-> 1]
               /\ \A j \in 1 .. n : Member(d, r.members[j].name) = r.members[j].value
  <2>1. PICK i \in 1 .. k + 1 : r.members[i].name = "isActive"
    BY <1>2, <1>6 DEF Partly, Names
  <2>2. i \in 1 .. L /\ (i \in 1 .. k \/ i = k + 1) /\ \A j \in 1 .. i : j \in 1 .. k + 1
    BY <1>1, <1>6
  <2>3. r.members[i].value = 1
    <3>1. CASE i \in 1 .. k
      BY <1>2, <1>6, <2>1, <3>1 DEF Partly
    <3>2. CASE i = k + 1
      <4>1. v = 1 /\ FirstPart(r.members[i]) = r.members[i].value
        BY <1>2, <1>6, <2>1, <3>2 DEF Partly, FirstPart
      <4> QED BY <1>6, <3>2, <4>1
    <3> QED BY <2>2, <3>1, <3>2
  <2>4. ASSUME NEW j \in 1 .. i
        PROVE  /\ r.members[j].name \in DOMAIN d
               /\ d[r.members[j].name] = r.members[j].value
    <3>1. r.members[j].name \in DOMAIN d
      BY <1>6, <2>2 DEF Partly, Names
    <3>2. CASE j = i
      BY <1>2, <2>1, <2>3, <3>1, <3>2
    <3>3. CASE j # i
      <4>1. j \in 1 .. k
        BY <1>1, <2>2, <3>3
      <4> QED BY <1>6, <3>1, <4>1 DEF Partly
    <3> QED BY <3>2, <3>3
  <2> QED BY <1>4, <2>1, <2>2, <2>3, <2>4
<1> QED BY <1>3, <1>5, <1>6 DEF Reading

\* What has been read of a member is never more than its value.
LEMMA NothingGrows ==
  ASSUME NEW r, MemberTypes(r), NEW m \in 0 .. Whole(r),
         NEW d, d = Parse(Beginning(r, m)), NEW n \in 1 .. Len(r.members)
  PROVE  Member(d, r.members[n].name) <= r.members[n].value
<1> DEFINE L == Len(r.members)
           N(j) == r.members[j].name
           V(j) == r.members[j].value
<1>1. L \in Nat /\ V(n) \in 0 .. 99
      /\ \A j \in 1 .. L : N(j) = N(n) => j = n
  BY DEF MemberTypes
<1>21. PICK k \in 0 .. L : \E q, u :
        \/ Reading(r, m, k, d, q, u, Going(d, q, u))
        \/ Reading(r, m, k, d, q, u, Stopped(d, q, u))
  BY ParseRead
<1>2. PICK q, u :
        \/ Reading(r, m, k, d, q, u, Going(d, q, u))
        \/ Reading(r, m, k, d, q, u, Stopped(d, q, u))
  BY <1>21
<1>0. 0 <= V(n) /\ V(n) <= V(n)
  <2>1. \A x \in 0 .. 99 : 0 <= x /\ x <= x
    OBVIOUS
  <2> QED BY <1>1, <2>1
<1>3. CASE N(n) \notin DOMAIN d
  <2>1. Member(d, N(n)) = 0
    BY <1>3 DEF Member
  <2> QED BY <1>0, <2>1
<1>4. ASSUME N(n) \in DOMAIN d, d[N(n)] = V(n) PROVE Member(d, N(n)) <= V(n)
  <2>1. Member(d, N(n)) = V(n)
    BY <1>4 DEF Member
  <2> QED BY <1>0, <2>1
<1>5. CASE Exact(r, d, k) /\ N(n) \in DOMAIN d
  <2>1. PICK j \in 1 .. k : N(j) = N(n)
    BY <1>5 DEF Exact, Names
  <2>2. j = n
    BY <1>1, <2>1
  <2> QED BY <1>4, <1>5, <2>1, <2>2 DEF Exact
<1>6. ASSUME NEW v \in {0, FirstPart(r.members[k + 1])}, k < L, Partly(r, d, k, v),
             N(n) \in DOMAIN d
      PROVE  Member(d, N(n)) <= V(n)
  <2>1. PICK j \in 1 .. k + 1 : N(j) = N(n)
    BY <1>6 DEF Partly, Names
  <2>2. j = n
    BY <1>1, <1>6, <2>1
  <2>3. CASE j \in 1 .. k
    BY <1>4, <1>6, <2>2, <2>3 DEF Partly
  <2>4. CASE j = k + 1
    <3>1. Member(d, N(n)) = v
      BY <1>6, <2>2, <2>4 DEF Partly, Member
    <3>2. v = 0 \/ v = V(n) \/ v = V(n) \div 10
      BY <1>6, <2>2, <2>4 DEF FirstPart
    <3>3. \A x \in 0 .. 99 : 0 <= x /\ x <= x /\ x \div 10 <= x
      OBVIOUS
    <3> QED BY <1>1, <3>1, <3>2, <3>3
  <2> QED BY <2>3, <2>4
<1> QED BY <1>2, <1>3, <1>5, <1>6 DEF Reading

\* All of the text, when the pool has room for its members, is in the document.
LEMMA WholeIsExact ==
  ASSUME NEW r, MemberTypes(r), Fits(r.members)
  PROVE  Exact(r, Parse(Beginning(r, Whole(r))), Len(r.members))
<1> DEFINE L == Len(r.members)
           W == Whole(r)
           d == Parse(Beginning(r, W))
<1>1. L \in Nat /\ W = (IF L = 0 THEN 1 ELSE 3 * L) /\ W \in 0 .. W
  <2>1. L \in Nat /\ W = (IF L = 0 THEN 1 ELSE 3 * L)
    BY TextPieces DEF MemberTypes
  <2> HIDE DEF L, W
  <2> QED BY <2>1
<1>21. PICK k \in 0 .. L : \E q, u :
        \/ Reading(r, W, k, d, q, u, Going(d, q, u))
        \/ Reading(r, W, k, d, q, u, Stopped(d, q, u))
  BY <1>1, ParseRead
<1>2. PICK q, u :
        \/ Reading(r, W, k, d, q, u, Going(d, q, u))
        \/ Reading(r, W, k, d, q, u, Stopped(d, q, u))
  BY <1>21
<1> HIDE DEF d, W
<1>3. ASSUME k < L, Bytes(r.members)[k + 1] > Capacity PROVE FALSE
  <2>1. k + 1 \in 0 .. L /\ L \in 0 .. L
    BY <1>1, <1>3
  <2>2. /\ Bytes(r.members)[k + 1] <= Bytes(r.members)[L]
        /\ Bytes(r.members)[k + 1] \in Nat /\ Bytes(r.members)[L] \in Nat
    BY <2>1, BytesGrow
  <2>3. Bytes(r.members)[L] <= Capacity /\ Capacity \in Nat
    BY SizesAssumption DEF Fits
  <2> QED BY <1>3, <2>2, <2>3
<1>4. CASE W = 3 * k /\ Exact(r, d, k)
  <2>1. k = L
    BY <1>1, <1>4
  <2> QED BY <1>4, <2>1 DEF d, W
<1>5. CASE k < L /\ (W = 3 * k + 1 \/ W = 3 * k + 2)
  BY <1>1, <1>5
<1>6. CASE W > 3 * k /\ Exact(r, d, k) /\ (k < L => Bytes(r.members)[k + 1] > Capacity)
  <2>1. k = L
    BY <1>1, <1>3, <1>6
  <2> QED BY <1>6, <2>1 DEF d, W
<1> QED BY <1>2, <1>4, <1>5, <1>6 DEF Reading

-----------------------------------------------------------------------------
(* The streams of the answers, and what is read of them.                   *)

LEMMA WholeNat ==
  ASSUME NEW r \in Replies
  PROVE  Whole(r) \in Nat
<1>1. MemberTypes(r) /\ Len(r.members) \in Nat
  BY MembersTyped DEF MemberTypes
<1> QED BY <1>1, TextPieces

LEMMA NothingRead ==
  ASSUME NEW r \in Replies
  PROVE  Beginning(r, 0) = <<>>
  BY DEF Beginning

LEMMA ReadOneMore ==
  ASSUME NEW r \in Replies, NEW m \in Nat, m + 1 <= Whole(r)
  PROVE  Append(Beginning(r, m), Text(r.members)[m + 1]) = Beginning(r, m + 1)
<1> DEFINE t == Text(r.members)
           T == {t[i] : i \in 1 .. m + 1}
<1>1. Beginning(r, m) = [i \in 1 .. m |-> t[i]]
      /\ Beginning(r, m + 1) = [i \in 1 .. m + 1 |-> t[i]]
  BY DEF Beginning
<1> HIDE DEF t
<1> DEFINE b == [i \in 1 .. m |-> t[i]]
           c == [i \in 1 .. m + 1 |-> t[i]]
<1>2. b \in Seq(T) /\ Len(b) = m /\ t[m + 1] \in T
  <2>1. b \in [1 .. m -> T]
    OBVIOUS
  <2>2. b \in Seq(T)
    BY <2>1
  <2>3. Len(b) = m
    BY <2>1
  <2> QED BY <2>2, <2>3
<1>3. c \in Seq(T) /\ Len(c) = m + 1
  <2>1. c \in [1 .. m + 1 -> T]
    OBVIOUS
  <2> QED BY <2>1
<1>4. /\ Append(b, t[m + 1]) \in Seq(T)
      /\ Len(Append(b, t[m + 1])) = m + 1
      /\ \A i \in 1 .. m : Append(b, t[m + 1])[i] = b[i]
      /\ Append(b, t[m + 1])[m + 1] = t[m + 1]
  <2> HIDE DEF b, T
  <2> QED BY <1>2, AppendProperties
<1>5. \A i \in 1 .. m + 1 : Append(b, t[m + 1])[i] = c[i]
  <2>1. \A i \in 1 .. m + 1 : i \in 1 .. m \/ i = m + 1
    OBVIOUS
  <2> QED BY <1>4, <2>1
<1>6. Append(b, t[m + 1]) = c
  <2> HIDE DEF b, c, T
  <2> QED BY <1>3, <1>4, <1>5, SeqEqual
<1> QED BY <1>1, <1>6 DEF t

LEMMA Framings ==
  ASSUME NEW r \in Replies
  PROVE  /\ Len(r.stream) \in Nat /\ DOMAIN r.stream = 1 .. Len(r.stream)
         /\ r.code \in Nat
         /\ r.framing \in {"length", "close", "chunked", "other"}
         /\ r.framing \in {"length", "close"} => FramedAsOne(r)
         /\ r.framing = "chunked" => FramedInChunks(r)
  BY RepliesAssumption

-----------------------------------------------------------------------------
(* Every step of a request keeps the invariant.                            *)

\* Hanging up clears what the next request begins with.
LEMMA HungUp ==
  ASSUME FetchInv, HangUp, code' \in Int, cut' \in BOOLEAN, Parsed'
  PROVE  FetchInv'
<1>1. FetchTypes'
  <2>1. Len(reply.stream) \in Nat
    BY Framings DEF FetchInv, FetchTypes
  <2>2. reply \in Replies /\ reply' = reply
    BY DEF FetchInv, FetchTypes, HangUp
  <2>3. taken' \in Nat /\ left' \in Int
    BY DEF HangUp
  <2>4. arrived' \in taken' .. Len(reply'.stream)
    BY <2>1, <2>2 DEF HangUp
  <2>5. at' = "done" /\ open' \in BOOLEAN
    BY DEF HangUp
  <2> QED BY <2>2, <2>3, <2>4, <2>5 DEF FetchTypes
<1>2. Framing' /\ Delivered'
  BY DEF HangUp, Framing, Delivered
<1> QED BY <1>1, <1>2 DEF FetchInv, HangUp

LEMMA Failing ==
  ASSUME FetchInv, Fail, cut' = cut
  PROVE  FetchInv'
<1>1. HangUp /\ code' = -1
  BY DEF Fail, Failed
<1>2. code' \in Int /\ cut' \in BOOLEAN /\ ~(code' > 0)
  BY <1>1 DEF FetchInv, FetchTypes
<1>3. Parsed'
  BY <1>2 DEF Parsed
<1> QED BY <1>1, <1>2, <1>3, HungUp

\* The payload is parsed, and it is the whole text unless the answer is cut.
LEMMA Finishing ==
  ASSUME FetchInv, NEW late \in BOOLEAN, Finish(late),
         NEW m \in 0 .. Whole(reply), payload = Beginning(reply, m),
         ~cut /\ ~late => m = Whole(reply)
  PROVE  FetchInv'
<1>1. HangUp /\ cut' = (cut \/ late) /\ doc' = Parse(payload) /\ code' = code
      /\ reply' = reply
  BY DEF Finish, HangUp
<1>2. code' \in Int /\ cut' \in BOOLEAN
  BY <1>1 DEF FetchInv, FetchTypes
<1>3. doc' = Parse(Beginning(reply, m)) /\ (~cut' => m = Whole(reply))
  BY <1>1
<1>4. Parsed'
  BY <1>1, <1>3 DEF Parsed, Beginning, Whole
<1> QED BY <1>1, <1>2, <1>4, HungUp

LEMMA BeginKept ==
  ASSUME FetchInv, Begin
  PROVE  FetchInv'
<1>1. PICK r \in Replies :
        /\ at' = "header" /\ reply' = r
        /\ arrived' = 0 /\ taken' = 0 /\ open' = TRUE /\ cut' = FALSE
  BY DEF Begin
<1>2. /\ code' = 0 /\ left' = left /\ payload' = payload
      /\ payload = <<>> /\ left = 0
  BY DEF Begin, FetchInv
<1>3. FetchTypes'
  <2>1. Len(r.stream) \in Nat
    BY Framings
  <2>2. arrived' \in taken' .. Len(reply'.stream) /\ taken' \in Nat
    BY <1>1, <2>1
  <2>3. code' \in Int /\ left' \in Int
    BY <1>2
  <2>4. at' = "header" /\ reply' \in Replies /\ open' \in BOOLEAN /\ cut' \in BOOLEAN
    BY <1>1
  <2> QED BY <2>2, <2>3, <2>4 DEF FetchTypes
<1>4. Framing' /\ Delivered' /\ Parsed'
  BY <1>1 DEF Framing, Delivered, Parsed
<1>5. Placed'
  <2>1. 0 \in 0 .. Whole(r) /\ payload' = Beginning(r, 0)
    BY <1>2, WholeNat, NothingRead
  <2>2. HeaderPlace(0)' /\ BodyPlace(0)' /\ BlockPlace(0)' /\ ChunkPlace(0)'
    BY <1>1 DEF HeaderPlace, BodyPlace, BlockPlace, ChunkPlace
  <2>3. Whole(reply)' = Whole(r) /\ Beginning(reply, 0)' = Beginning(r, 0)
    BY <1>1 DEF Whole, Beginning
  <2> QED BY <2>1, <2>2, <2>3 DEF Placed
<1> QED BY <1>1, <1>2, <1>3, <1>4, <1>5 DEF FetchInv

LEMMA RefusedKept ==
  ASSUME FetchInv, Refused
  PROVE  FetchInv'
<1>1. /\ at = "done" /\ code' = -1
      /\ UNCHANGED <<at, reply, arrived, taken, open, cut, left, payload, doc>>
  BY DEF Refused, Failed, network
<1>2. FetchTypes'
  BY <1>1 DEF FetchInv, FetchTypes
<1>3. Framing' /\ Delivered' /\ Parsed'
  BY <1>1 DEF Framing, Delivered, Parsed
<1> QED BY <1>1, <1>2, <1>3 DEF FetchInv

\* What the network does moves nothing that the device has read.
LEMMA NetworkKept ==
  ASSUME FetchInv, Send \/ Close
  PROVE  FetchInv'
<1>1. UNCHANGED <<at, reply, taken, code, left, payload, doc>>
  BY DEF Send, Close
<1>2. reply \in Replies /\ Len(reply.stream) \in Nat
      /\ taken \in Nat /\ arrived \in taken .. Len(reply.stream)
  BY Framings DEF FetchInv, FetchTypes
<1>3. arrived' \in taken .. Len(reply.stream)
  <2>1. CASE Send
    BY <1>2, <2>1 DEF Send
  <2>2. CASE Close
    BY <1>2, <2>2 DEF Close
  <2> QED BY <2>1, <2>2
<1>4. open' \in BOOLEAN /\ cut' \in BOOLEAN
  <2>1. CASE Send
    BY <2>1, Zenon DEF Send, FetchInv, FetchTypes
  <2>2. CASE Close
    BY <2>2, Zenon DEF Close
  <2> QED BY <2>1, <2>2
<1>5. FetchTypes'
  BY <1>1, <1>3, <1>4 DEF FetchInv, FetchTypes
<1>6. Delivered'
  <2>1. CASE Send
    BY <2>1 DEF Send, Delivered, FetchInv, FetchTypes
  <2>2. CASE Close
    <3>1. ~cut' => arrived' = Len(reply.stream)
      BY <2>2, Zenon DEF Close
    <3> QED BY <1>1, <3>1 DEF Delivered
  <2> QED BY <2>1, <2>2
<1>7. Framing'
  BY <1>1 DEF FetchInv, Framing
<1>8. Parsed' /\ (at # "done" => Placed')
  <2>1. at # "done"
    BY DEF Send, Close, FetchInv
  <2> QED BY <1>1, <2>1 DEF FetchInv, Parsed, Placed, HeaderPlace, BodyPlace,
                            BlockPlace, ChunkPlace, Whole, Beginning
<1>9. at # "done" /\ at' # "done" /\ (at' = "header" => payload' = <<>> /\ left' = 0)
  BY <1>1 DEF Send, Close, FetchInv
<1> QED BY <1>5, <1>6, <1>7, <1>8, <1>9 DEF FetchInv

\* While a request goes on: where the device is in the stream.
LEMMA InProgress ==
  ASSUME FetchInv, at # "done"
  PROVE  /\ reply \in Replies /\ Whole(reply) \in Nat
         /\ Len(reply.stream) \in Nat /\ DOMAIN reply.stream = 1 .. Len(reply.stream)
         /\ taken \in Nat /\ arrived \in Nat /\ taken <= arrived
         /\ arrived <= Len(reply.stream)
         /\ code \in Int /\ left \in Int /\ open \in BOOLEAN /\ cut \in BOOLEAN
         /\ \E m \in 0 .. Whole(reply) :
              /\ payload = Beginning(reply, m)
              /\ HeaderPlace(m) /\ BodyPlace(m) /\ BlockPlace(m) /\ ChunkPlace(m)
<1>1. reply \in Replies /\ taken \in Nat /\ arrived \in taken .. Len(reply.stream)
      /\ code \in Int /\ left \in Int /\ open \in BOOLEAN /\ cut \in BOOLEAN
  BY DEF FetchInv, FetchTypes
<1>2. Len(reply.stream) \in Nat /\ DOMAIN reply.stream = 1 .. Len(reply.stream)
  BY <1>1, Framings
<1>3. arrived \in Nat /\ taken <= arrived /\ arrived <= Len(reply.stream)
  BY <1>1, <1>2
<1>4. Placed
  BY DEF FetchInv
<1> QED BY <1>1, <1>2, <1>3, <1>4, WholeNat DEF Placed

\* A step of the device that reads on keeps the invariant when it keeps the
\* places.
LEMMA ReadingOn ==
  ASSUME FetchInv, at # "done", at' \in {"body", "crlf", "chunk"},
         UNCHANGED <<reply, arrived, open, cut>>,
         taken' \in Nat, taken' <= arrived, code' \in Int, left' \in Int,
         Framing', Placed'
  PROVE  FetchInv'
<1>1. FetchTypes'
  <2>1. arrived' \in taken' .. Len(reply'.stream)
    BY InProgress
  <2> QED BY <2>1 DEF FetchInv, FetchTypes
<1>2. Delivered' /\ Parsed'
  BY DEF FetchInv, Delivered, Parsed
<1> QED BY <1>1, <1>2 DEF FetchInv

LEMMA ReadHeaderKept ==
  ASSUME FetchInv, ReadHeader
  PROVE  FetchInv'
<1>1. CASE Fail /\ UNCHANGED cut
  BY <1>1, Failing
<1>2. CASE ~(reply.code = 0 \/ reply.framing = "other")
  <2>1. /\ at = "header" /\ taken < arrived
        /\ code' = reply.code
        /\ at' = IF reply.framing = "chunked" THEN "chunk" ELSE "body"
        /\ taken' = taken + 1
        /\ UNCHANGED <<reply, arrived, open, cut, payload, doc>>
    BY <1>2 DEF ReadHeader, Available
  <2>2. /\ at # "done"
        /\ reply.framing = "length"  => left' = Whole(reply)
        /\ reply.framing = "close"   => left' = -1
        /\ reply.framing = "chunked" => left' = 0
    BY <1>2, <2>1 DEF ReadHeader, Whole
  <2>3. /\ reply \in Replies /\ taken \in Nat /\ arrived \in Nat
        /\ Whole(reply) \in Nat /\ payload = <<>>
    BY <2>1, <2>2, InProgress DEF FetchInv
  <2>4. taken = 0
    BY <2>1, InProgress DEF HeaderPlace
  <2>5. reply.framing \in {"length", "close", "chunked"}
    BY <1>2, <2>3, Framings
  <2>6. left' \in Int /\ code' \in Int /\ taken' \in Nat /\ taken' <= arrived
    BY <2>1, <2>2, <2>3, <2>5, Framings
  <2>7. Placed'
    <3>1. 0 \in 0 .. Whole(reply)' /\ payload' = Beginning(reply, 0)'
      BY <2>1, <2>3, NothingRead DEF Whole, Beginning
    <3>2. HeaderPlace(0)' /\ BlockPlace(0)'
      BY <2>1, <2>5 DEF HeaderPlace, BlockPlace
    <3>3. BodyPlace(0)'
      <4>1. at' = "body" /\ reply'.framing # "chunked" => taken' = 0 + 1
        BY <2>1, <2>4
      <4>2. Whole(reply)' - 0 = Whole(reply)
        BY <2>1, <2>3 DEF Whole
      <4>3. at' = "body" /\ reply'.framing # "chunked" =>
              left' = IF reply'.framing = "length" THEN Whole(reply)' - 0 ELSE -1
        BY <2>1, <2>2, <2>5, <4>2
      <4> QED BY <4>1, <4>3 DEF BodyPlace
    <3>4. ChunkPlace(0)'
      <4>1. reply.framing = "chunked" => SizeAt(reply, 2, 0)
        BY <2>3, Framings DEF FramedInChunks
      <4>2. taken' + 1 = 2
        BY <2>1, <2>4
      <4> QED BY <2>1, <4>1, <4>2 DEF ChunkPlace
    <3> QED BY <3>1, <3>2, <3>3, <3>4 DEF Placed
  <2>8. Framing'
    BY <2>1, <2>5 DEF Framing
  <2> QED BY <2>1, <2>2, <2>6, <2>7, <2>8, ReadingOn
<1> QED BY <1>1, <1>2 DEF ReadHeader

LEMMA ReadBodyKept ==
  ASSUME FetchInv, ReadBody
  PROVE  FetchInv'
<1>1. /\ at = "body" /\ at # "done" /\ left # 0 /\ taken < arrived
      /\ payload' = Append(payload, Text(reply.members)[Upcoming[2]])
      /\ taken' = taken + 1
      /\ left' = IF left > 0 THEN left - 1 ELSE left
      /\ UNCHANGED <<at, reply, arrived, open, cut, code, doc>>
  BY DEF ReadBody, Available
<1>2. /\ reply \in Replies /\ Whole(reply) \in Nat /\ Len(reply.stream) \in Nat
      /\ taken \in Nat /\ arrived \in Nat /\ left \in Int /\ code \in Int
      /\ arrived <= Len(reply.stream)
  BY <1>1, InProgress
<1>3. PICK m \in 0 .. Whole(reply) :
        payload = Beginning(reply, m) /\ BodyPlace(m) /\ BlockPlace(m)
  BY <1>1, InProgress
<1>4. m + 1 <= Whole(reply) /\ Upcoming[2] = m + 1
  <2>1. CASE reply.framing # "chunked"
    <3>1. taken = m + 1 /\ reply.framing \in {"length", "close"}
      BY <1>1, <1>3, <2>1 DEF BodyPlace, FetchInv, Framing
    <3>2. Len(reply.stream) = Whole(reply) + 1
          /\ \A i \in 1 .. Whole(reply) : reply.stream[i + 1] = Piece(i)
      BY <1>2, <3>1, Framings DEF FramedAsOne, Whole
    <3>3. m + 1 \in 1 .. Whole(reply)
      BY <1>1, <1>2, <3>1, <3>2
    <3>4. Upcoming = Piece(m + 1)
      BY <3>1, <3>2, <3>3 DEF Upcoming
    <3> QED BY <3>3, <3>4 DEF Piece
  <2>2. CASE reply.framing = "chunked"
    <3>1. left \in 0 .. Whole(reply) - m
          /\ \A j \in 1 .. left : reply.stream[taken + j] = Piece(m + j)
      BY <1>1, <1>3, <2>2 DEF BlockPlace
    <3>2. 1 \in 1 .. left /\ m + 1 <= Whole(reply)
      <4>1. left \in 0 .. Whole(reply) - m /\ left # 0 /\ m \in Nat
        BY <1>1, <3>1
      <4> QED BY <1>2, <4>1
    <3>3. Upcoming = Piece(m + 1)
      BY <3>1, <3>2 DEF Upcoming
    <3> QED BY <3>2, <3>3 DEF Piece
  <2> QED BY <2>1, <2>2
<1>5. payload' = Beginning(reply, m + 1)
  BY <1>1, <1>2, <1>3, <1>4, ReadOneMore
<1>6. Placed'
  <2>1. /\ m + 1 \in 0 .. Whole(reply)' /\ payload' = Beginning(reply, m + 1)'
    BY <1>1, <1>2, <1>4, <1>5 DEF Whole, Beginning
  <2>2. HeaderPlace(m + 1)' /\ ChunkPlace(m + 1)'
    BY <1>1 DEF HeaderPlace, ChunkPlace
  <2>3. BodyPlace(m + 1)'
    <3>1. SUFFICES ASSUME reply.framing # "chunked"
                   PROVE  /\ taken' = (m + 1) + 1
                          /\ left' = IF reply.framing = "length"
                                     THEN Whole(reply) - (m + 1) ELSE -1
      BY <1>1 DEF BodyPlace, Whole
    <3>2. taken = m + 1
          /\ left = IF reply.framing = "length" THEN Whole(reply) - m ELSE -1
      BY <1>1, <1>3, <3>1 DEF BodyPlace
    <3>3. taken' = (m + 1) + 1
      BY <1>1, <3>2
    <3>4. CASE reply.framing = "length"
      <4>1. left = Whole(reply) - m /\ m \in Nat /\ m + 1 <= Whole(reply)
        BY <1>4, <3>2, <3>4
      <4>2. left > 0 /\ left - 1 = Whole(reply) - (m + 1)
        BY <1>2, <4>1
      <4> QED BY <1>1, <3>3, <3>4, <4>2
    <3>5. CASE reply.framing # "length"
      BY <1>1, <3>2, <3>3, <3>5
    <3> QED BY <3>4, <3>5
  <2>4. BlockPlace(m + 1)'
    <3>1. SUFFICES ASSUME reply.framing = "chunked"
                   PROVE  /\ left' \in 0 .. Whole(reply) - (m + 1)
                          /\ \A j \in 1 .. left' :
                               reply.stream[taken' + j] = Piece((m + 1) + j)
                          /\ SizeAt(reply, taken' + left' + 2, (m + 1) + left')
      BY <1>1 DEF BlockPlace, SizeAt, Whole
    <3>2. /\ left \in 0 .. Whole(reply) - m
          /\ \A j \in 1 .. left : reply.stream[taken + j] = Piece(m + j)
          /\ SizeAt(reply, taken + left + 2, m + left)
      BY <1>1, <1>3, <3>1 DEF BlockPlace
    <3>3. left' = left - 1 /\ left' \in 0 .. Whole(reply) - (m + 1)
      <4>1. left \in 0 .. Whole(reply) - m /\ left # 0 /\ m \in Nat
        BY <1>1, <3>2
      <4>2. left > 0 /\ left - 1 \in 0 .. Whole(reply) - (m + 1)
        BY <1>2, <4>1
      <4> QED BY <1>1, <4>2
    <3>4. taken' + left' + 2 = taken + left + 2 /\ (m + 1) + left' = m + left
      BY <1>1, <1>2, <3>3
    <3>5. ASSUME NEW j \in 1 .. left'
          PROVE  reply.stream[taken' + j] = Piece((m + 1) + j)
      <4>1. j + 1 \in 1 .. left /\ taken + (j + 1) = taken' + j
            /\ m + (j + 1) = (m + 1) + j
        BY <1>1, <1>2, <3>3
      <4> QED BY <3>2, <4>1
    <3> QED BY <3>2, <3>3, <3>4, <3>5
  <2> QED BY <2>1, <2>2, <2>3, <2>4 DEF Placed
<1>7. left' \in Int /\ taken' \in Nat /\ taken' <= arrived
  BY <1>1, <1>2
<1>8. Framing'
  BY <1>1 DEF FetchInv, Framing
<1> QED BY <1>1, <1>2, <1>6, <1>7, <1>8, ReadingOn

LEMMA BlockReadKept ==
  ASSUME FetchInv, BlockRead
  PROVE  FetchInv'
<1>1. /\ at = "body" /\ at # "done" /\ left = 0 /\ reply.framing = "chunked"
      /\ at' = "crlf"
      /\ UNCHANGED <<reply, arrived, taken, open, cut, code, left, payload, doc>>
  BY DEF BlockRead, network
<1>2. /\ Whole(reply) \in Nat /\ taken \in Nat /\ taken <= arrived
      /\ left \in Int /\ code \in Int
  BY <1>1, InProgress
<1>3. PICK m \in 0 .. Whole(reply) : payload = Beginning(reply, m) /\ BlockPlace(m)
  BY <1>1, InProgress
<1>4. SizeAt(reply, taken + 2, m)
  <2>1. SizeAt(reply, taken + left + 2, m + left)
    BY <1>1, <1>3 DEF BlockPlace
  <2>2. taken + left + 2 = taken + 2 /\ m + left = m
    BY <1>1, <1>2
  <2> QED BY <2>1, <2>2
<1>5. Placed'
  <2>1. m \in 0 .. Whole(reply)' /\ payload' = Beginning(reply, m)'
    BY <1>1, <1>3 DEF Whole, Beginning
  <2>2. HeaderPlace(m)' /\ BodyPlace(m)' /\ BlockPlace(m)'
    BY <1>1 DEF HeaderPlace, BodyPlace, BlockPlace
  <2>3. ChunkPlace(m)'
    BY <1>1, <1>4 DEF ChunkPlace, SizeAt
  <2> QED BY <2>1, <2>2, <2>3 DEF Placed
<1>6. Framing'
  BY <1>1 DEF Framing
<1> QED BY <1>1, <1>2, <1>5, <1>6, ReadingOn

\* A body that ends without being cut ends behind the last piece.
LEMMA BodyEndsKept ==
  ASSUME FetchInv, BodyEnds
  PROVE  FetchInv'
<1>1. /\ at = "body" /\ at # "done" /\ Finish(FALSE)
      /\ left = 0 => reply.framing # "chunked"
      /\ left # 0 => ~(taken < arrived) /\ ~open
  BY DEF BodyEnds, Connected, Available
<1>2. /\ reply \in Replies /\ Whole(reply) \in Nat /\ Len(reply.stream) \in Nat
      /\ DOMAIN reply.stream = 1 .. Len(reply.stream)
      /\ taken \in Nat /\ arrived \in Nat /\ left \in Int /\ taken <= arrived
  BY <1>1, InProgress
<1>3. PICK m \in 0 .. Whole(reply) :
        payload = Beginning(reply, m) /\ BodyPlace(m) /\ BlockPlace(m)
  BY <1>1, InProgress
<1>4. ASSUME ~cut PROVE m = Whole(reply)
  <2>1. CASE left = 0
    <3>1. reply.framing # "chunked"
      BY <1>1, <2>1
    <3>2. left = IF reply.framing = "length" THEN Whole(reply) - m ELSE -1
      BY <1>1, <1>3, <3>1 DEF BodyPlace
    <3>3. Whole(reply) - m = 0
      BY <2>1, <3>2
    <3> QED BY <1>2, <3>3
  <2>2. CASE left # 0
    <3>1. taken = Len(reply.stream)
      <4>1. arrived = Len(reply.stream)
        BY <1>1, <1>4, <2>2 DEF FetchInv, Delivered
      <4>2. ~(taken < arrived)
        BY <1>1, <2>2
      <4> QED BY <1>2, <4>1, <4>2
    <3>2. CASE reply.framing = "chunked"
      <4>1. left \in 0 .. Whole(reply) - m
        BY <1>1, <1>3, <3>2 DEF BlockPlace
      <4>2. taken + left + 2 \in 1 .. Len(reply.stream)
        BY <1>1, <1>2, <1>3, <3>2 DEF BlockPlace, SizeAt
      <4> QED BY <1>2, <3>1, <4>1, <4>2
    <3>3. CASE reply.framing # "chunked"
      <4>1. taken = m + 1 /\ reply.framing \in {"length", "close"}
        BY <1>1, <1>3, <3>3 DEF BodyPlace, FetchInv, Framing
      <4>2. Len(reply.stream) = Whole(reply) + 1
        BY <1>2, <4>1, Framings DEF FramedAsOne, Whole
      <4> QED BY <1>2, <3>1, <4>1, <4>2
    <3> QED BY <3>2, <3>3
  <2> QED BY <2>1, <2>2
<1> QED BY <1>1, <1>3, <1>4, Finishing

LEMMA ReadCrlfKept ==
  ASSUME FetchInv, ReadCrlf
  PROVE  FetchInv'
<1>1. /\ at = "crlf" /\ at # "done" /\ taken < arrived
      /\ at' = "chunk" /\ taken' = taken + 1
      /\ UNCHANGED <<reply, arrived, open, cut, code, left, payload, doc>>
  BY DEF ReadCrlf, Available
<1>2. /\ Whole(reply) \in Nat /\ taken \in Nat /\ arrived \in Nat
      /\ left \in Int /\ code \in Int
  BY <1>1, InProgress
<1>3. PICK m \in 0 .. Whole(reply) : payload = Beginning(reply, m) /\ ChunkPlace(m)
  BY <1>1, InProgress
<1>4. Placed'
  <2>1. m \in 0 .. Whole(reply)' /\ payload' = Beginning(reply, m)'
    BY <1>1, <1>3 DEF Whole, Beginning
  <2>2. HeaderPlace(m)' /\ BodyPlace(m)' /\ BlockPlace(m)'
    BY <1>1 DEF HeaderPlace, BodyPlace, BlockPlace
  <2>3. ChunkPlace(m)'
    <3>1. SizeAt(reply, taken + 2, m) /\ taken' + 1 = taken + 2
      BY <1>1, <1>2, <1>3 DEF ChunkPlace
    <3>2. SizeAt(reply, taken' + 1, m)
      BY <3>1
    <3> QED BY <1>1, <3>2 DEF ChunkPlace, SizeAt
  <2> QED BY <2>1, <2>2, <2>3 DEF Placed
<1>5. Framing' /\ taken' \in Nat /\ taken' <= arrived
  BY <1>1, <1>2 DEF FetchInv, Framing
<1> QED BY <1>1, <1>2, <1>4, <1>5, ReadingOn

LEMMA ReadChunkKept ==
  ASSUME FetchInv, ReadChunk
  PROVE  FetchInv'
<1>1. at = "chunk" /\ at # "done" /\ taken < arrived
  BY DEF ReadChunk, Available
<1>2. /\ reply \in Replies /\ Whole(reply) \in Nat /\ Len(reply.stream) \in Nat
      /\ DOMAIN reply.stream = 1 .. Len(reply.stream)
      /\ taken \in Nat /\ arrived \in Nat /\ arrived <= Len(reply.stream)
      /\ left \in Int /\ code \in Int
  BY <1>1, InProgress
<1>3. PICK m \in 0 .. Whole(reply) : payload = Beginning(reply, m) /\ ChunkPlace(m)
  BY <1>1, InProgress
<1> DEFINE n == Upcoming[2]
<1>4. SizeAt(reply, taken + 1, m) /\ reply.stream[taken + 1] = Upcoming
  BY <1>1, <1>3 DEF ChunkPlace, Upcoming
<1>5. n \in 0 .. Whole(reply) - m /\ (n = 0 => m = Whole(reply))
  BY <1>4 DEF SizeAt, Whole
<1>6. CASE n = 0
  <2>1. Finish(FALSE)
    BY <1>6 DEF ReadChunk
  <2> QED BY <1>3, <1>5, <1>6, <2>1, Finishing
<1>7. CASE n # 0
  <2>1. /\ at' = "body" /\ left' = n /\ taken' = taken + 1
        /\ UNCHANGED <<reply, arrived, open, cut, code, payload, doc>>
    BY <1>7 DEF ReadChunk
  <2>2. reply.framing = "chunked"
    BY <1>1 DEF FetchInv, Framing
  <2> HIDE DEF n
  <2>3. n > 0 /\ n \in Nat /\ m \in Nat
    BY <1>2, <1>5, <1>7
  <2>4. ChunkAt(reply, taken + 1, m)
    <3>1. FramedInChunks(reply) /\ taken + 1 \in DOMAIN reply.stream
      BY <1>1, <1>2, <2>2, Framings
    <3>2. reply.stream[taken + 1][2] > 0
      BY <1>4, <2>3 DEF n
    <3> QED BY <1>3, <1>4, <3>1, <3>2 DEF FramedInChunks, Whole
  <2>5. /\ \A j \in 1 .. n : reply.stream[(taken + 1) + j] = Piece(m + j)
        /\ SizeAt(reply, (taken + 1) + n + 2, m + n)
    BY <1>4, <2>4 DEF ChunkAt, n
  <2>6. Placed'
    <3>1. m \in 0 .. Whole(reply)' /\ payload' = Beginning(reply, m)'
      BY <1>3, <2>1 DEF Whole, Beginning
    <3>2. HeaderPlace(m)' /\ BodyPlace(m)' /\ ChunkPlace(m)'
      BY <2>1, <2>2 DEF HeaderPlace, BodyPlace, ChunkPlace
    <3>3. BlockPlace(m)'
      <4>1. left' \in 0 .. Whole(reply) - m
        BY <1>5, <2>1 DEF n
      <4>2. \A j \in 1 .. left' : reply.stream[taken' + j] = Piece(m + j)
        BY <2>1, <2>5 DEF n
      <4>3. SizeAt(reply, taken' + left' + 2, m + left')
        BY <2>1, <2>5 DEF n
      <4> QED BY <2>1, <4>1, <4>2, <4>3 DEF BlockPlace, SizeAt, Whole
    <3> QED BY <3>1, <3>2, <3>3 DEF Placed
  <2>7. Framing' /\ taken' \in Nat /\ taken' <= arrived /\ left' \in Int /\ code' \in Int
    BY <1>1, <1>2, <2>1, <2>2, <2>3 DEF Framing, n
  <2> QED BY <1>1, <2>1, <2>6, <2>7, ReadingOn
<1> QED BY <1>6, <1>7

LEMMA NoChunkKept ==
  ASSUME FetchInv, NoChunk
  PROVE  FetchInv'
<1>1. at # "done" /\ Finish(TRUE)
  <2>1. Finish(TRUE) /\ at \in {"chunk", "crlf"}
    BY Zenon DEF NoChunk
  <2>2. at \in {"chunk", "crlf"}
    BY <2>1, Zenon
  <2>3. at # "done"
    BY <2>2
  <2> QED BY <2>1, <2>3, Zenon
<1>2. PICK m \in 0 .. Whole(reply) : payload = Beginning(reply, m)
  BY <1>1, InProgress
<1> QED BY <1>1, <1>2, Finishing

-----------------------------------------------------------------------------
(* The theorems.                                                           *)

\* A request has read a beginning of the text, whatever the network does, and
\* stands in the stream where the framing says (writeToStream, connected).
THEOREM FetchInvariant == Spec => []FetchInv
<1>1. Init => FetchInv
  <2> SUFFICES ASSUME Init PROVE FetchInv
    OBVIOUS
  <2>1. reply \in Replies /\ Len(reply.stream) \in Nat
    BY Framings DEF Init
  <2>2. at = "done" /\ code = -1 /\ ~open /\ payload = <<>> /\ left = 0
        /\ arrived = 0 /\ taken = 0 /\ open = FALSE /\ cut = FALSE
    BY DEF Init, Failed
  <2>3. FetchTypes
    <3>1. arrived \in taken .. Len(reply.stream)
      BY <2>1, <2>2
    <3>2. taken \in Nat /\ code \in Int /\ left \in Int
      BY <2>2
    <3>3. open \in BOOLEAN /\ cut \in BOOLEAN
      BY <2>2
    <3> QED BY <2>1, <2>2, <3>1, <3>2, <3>3 DEF FetchTypes
  <2>4. Framing /\ Delivered /\ Parsed
    BY <2>2 DEF Framing, Delivered, Parsed
  <2> QED BY <2>2, <2>3, <2>4 DEF FetchInv
<1>2. FetchInv /\ [Next]_vars => FetchInv'
  <2> SUFFICES ASSUME FetchInv, [Next]_vars PROVE FetchInv'
    OBVIOUS
  <2>1. CASE UNCHANGED vars
    BY <2>1 DEF vars, network, FetchInv, FetchTypes, Framing, Delivered, Parsed, Placed,
                HeaderPlace, BodyPlace, BlockPlace, ChunkPlace, SizeAt, Whole, Beginning
  <2>2. CASE NoHeader
    <3>1. Fail /\ cut' = cut
      BY <2>2 DEF NoHeader
    <3> QED BY <3>1, Failing
  <2>3. CASE Begin \/ Refused \/ Send \/ Close
    BY <2>3, BeginKept, RefusedKept, NetworkKept
  <2>4. CASE ReadHeader \/ ReadBody \/ BlockRead \/ BodyEnds
    BY <2>4, ReadHeaderKept, ReadBodyKept, BlockReadKept, BodyEndsKept
  <2>5. CASE ReadCrlf \/ ReadChunk \/ NoChunk
    BY <2>5, ReadCrlfKept, ReadChunkKept, NoChunkKept
  <2> QED BY <2>1, <2>2, <2>3, <2>4, <2>5 DEF Next, Device
<1> QED BY <1>1, <1>2, PTL DEF Spec

\* A timer that reads as active was sent as active, behind members that are in
\* the document as they were sent, for answers cut at any piece and documents
\* of any size (parseNumericValue, GetCurrentTimer).
THEOREM ArmedTimerIsExactBefore == Spec => []ArmedIsExactBefore
<1>1. FetchInv => ArmedIsExactBefore
  <2> SUFFICES ASSUME FetchInv, at = "done", code > 0, Member(doc, "isActive") = 1
               PROVE  \E k \in DOMAIN reply.members :
                        /\ reply.members[k] = [name |-> "isActive", value |-> 1]
                        /\ \A j \in 1 .. k :
                             Member(doc, reply.members[j].name) = reply.members[j].value
    BY DEF ArmedIsExactBefore
  <2>1. PICK m \in 0 .. Whole(reply) : doc = Parse(Beginning(reply, m))
    BY DEF FetchInv, Parsed
  <2>2. MemberTypes(reply)
    BY MembersTyped DEF FetchInv, FetchTypes
  <2> QED BY <2>1, <2>2, ActiveWasSent
<1> QED BY <1>1, FetchInvariant, PTL

\* An answer that came completely and in time, and for which the pool has room,
\* is in the document, member by member, and nothing else is; for bodies with a
\* length, up to the close, and in chunks of any sizes (writeToStream).
THEOREM DeliveredAnswerIsWhole == Spec => []WholeWhenDelivered
<1>1. FetchInv => WholeWhenDelivered
  <2> SUFFICES ASSUME FetchInv, at = "done", code > 0, ~cut, Fits(reply.members)
               PROVE  /\ DOMAIN doc = {reply.members[k].name : k \in DOMAIN reply.members}
                      /\ \A k \in DOMAIN reply.members :
                           doc[reply.members[k].name] = reply.members[k].value
    BY DEF WholeWhenDelivered
  <2>1. MemberTypes(reply) /\ DOMAIN reply.members = 1 .. Len(reply.members)
    BY MembersTyped DEF FetchInv, FetchTypes, MemberTypes
  <2>2. doc = Parse(Beginning(reply, Whole(reply)))
    BY DEF FetchInv, Parsed
  <2>3. Exact(reply, doc, Len(reply.members))
    BY <2>1, <2>2, WholeIsExact
  <2> QED BY <2>1, <2>3 DEF Exact, Names
<1> QED BY <1>1, FetchInvariant, PTL

\* No member reads as more than was sent, wherever the answer was cut
\* (parseNumericValue, addSlot).
THEOREM NothingReadsAsMore == Spec => []NeverMoreThanSent
<1>1. FetchInv => NeverMoreThanSent
  <2> SUFFICES ASSUME FetchInv, at = "done", code > 0, NEW k \in DOMAIN reply.members
               PROVE  Member(doc, reply.members[k].name) <= reply.members[k].value
    BY DEF NeverMoreThanSent
  <2>1. PICK m \in 0 .. Whole(reply) : doc = Parse(Beginning(reply, m))
    BY DEF FetchInv, Parsed
  <2>2. MemberTypes(reply) /\ k \in 1 .. Len(reply.members)
    BY MembersTyped DEF FetchInv, FetchTypes, MemberTypes
  <2> QED BY <2>1, <2>2, NothingGrows
<1> QED BY <1>1, FetchInvariant, PTL
=============================================================================
