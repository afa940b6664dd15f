--------------------------- MODULE WebServerProofs ---------------------------
(***************************************************************************)
(* Theorems about module WebServer, for any number of clients and any      *)
(* number of requests that a client sends ahead.                           *)
(***************************************************************************)
EXTENDS WebServer, SequenceTheorems, TLAPS

-----------------------------------------------------------------------------
(* Sequences.                                                              *)

\* The sequences of at most n elements.
LEMMA IsBoundedSeq ==
  ASSUME NEW S, NEW n \in Nat, NEW s \in Seq(S), Len(s) <= n
  PROVE  s \in BoundedSeq(S, n)
<1>1. Len(s) \in 0 .. n /\ s \in [1 .. Len(s) -> S]
  BY LenProperties
<1> QED BY <1>1 DEF BoundedSeq, SeqOf

\* And what they are.
LEMMA BoundedSeqIs ==
  ASSUME NEW S, NEW n \in Nat, NEW s \in BoundedSeq(S, n)
  PROVE  s \in Seq(S) /\ Len(s) \in Nat /\ Len(s) <= n
<1>1. PICK m \in 0 .. n : s \in [1 .. m -> S]
  BY DEF BoundedSeq, SeqOf
<1> QED BY <1>1

\* What Request does to a sequence.
LEMMA Appended ==
  ASSUME NEW S, NEW n \in Nat, NEW s \in BoundedSeq(S, n), Len(s) < n, NEW e \in S
  PROVE  /\ Append(s, e) \in BoundedSeq(S, n) /\ Len(Append(s, e)) = Len(s) + 1
         /\ \A i \in 1 .. Len(s) : Append(s, e)[i] = s[i]
         /\ Append(s, e)[Len(s) + 1] = e
<1>1. s \in Seq(S) /\ Len(s) \in Nat
  BY BoundedSeqIs
<1>2. /\ Append(s, e) \in Seq(S) /\ Len(Append(s, e)) = Len(s) + 1
      /\ \A i \in 1 .. Len(s) : Append(s, e)[i] = s[i]
      /\ Append(s, e)[Len(s) + 1] = e
  BY <1>1, AppendProperties
<1>3. Len(Append(s, e)) <= n
  BY <1>1, <1>2
<1>4. Append(s, e) \in BoundedSeq(S, n)
  BY <1>2, <1>3, IsBoundedSeq, Zenon
<1> QED BY <1>2, <1>4

\* What reading a request does to one.
LEMMA HeadTaken ==
  ASSUME NEW S, NEW n \in Nat, NEW s \in BoundedSeq(S, n), s # <<>>
  PROVE  /\ Head(s) \in S /\ Head(s) = s[1] /\ Len(s) \in Nat \ {0}
         /\ Tail(s) \in BoundedSeq(S, n) /\ Len(Tail(s)) = Len(s) - 1
         /\ \A i \in 1 .. Len(s) - 1 : Tail(s)[i] = s[i + 1]
<1>1. s \in Seq(S) /\ Len(s) <= n
  BY BoundedSeqIs
<1>2. Len(s) \in Nat \ {0}
  BY <1>1, EmptySeq
<1>3. /\ Head(s) \in S /\ Tail(s) \in Seq(S) /\ Len(Tail(s)) = Len(s) - 1
      /\ \A i \in 1 .. Len(Tail(s)) : Tail(s)[i] = s[i + 1]
  BY <1>1, HeadTailProperties
<1>4. Head(s) = s[1]
  BY <1>1, <1>2
<1>5. Len(Tail(s)) <= n
  BY <1>1, <1>2, <1>3
<1>6. Tail(s) \in BoundedSeq(S, n)
  BY <1>3, <1>5, IsBoundedSeq, Zenon
<1> QED BY <1>2, <1>3, <1>4, <1>6

\* What is left of a request that was cut goes back to the front.
LEMMA PutBack ==
  ASSUME NEW S, NEW n \in Nat, NEW s \in BoundedSeq(S, n), s # <<>>, NEW e \in S
  PROVE  <<e>> \o Tail(s) \in BoundedSeq(S, n)
<1>1. Tail(s) \in Seq(S) /\ Len(Tail(s)) = Len(s) - 1 /\ Len(s) \in Nat \ {0} /\ Len(s) <= n
  BY HeadTaken, BoundedSeqIs
<1>2. <<e>> \in Seq(S) /\ Len(<<e>>) = 1
  OBVIOUS
<1>3. <<e>> \o Tail(s) \in Seq(S) /\ Len(<<e>> \o Tail(s)) = 1 + Len(Tail(s))
  BY <1>1, <1>2, ConcatProperties
<1>4. Len(<<e>> \o Tail(s)) <= n
  BY <1>1, <1>3
<1> QED BY <1>3, <1>4, IsBoundedSeq, Zenon

-----------------------------------------------------------------------------
(* One connection.                                                         *)

\* While nothing has disturbed the order, the requests without an answer are
\* the ones that are not read, in the order in which they came.
Orderly(k) ==
  /\ ~k.wrong
  /\ ~k.disturbed => /\ Len(k.owed) = Len(k.inbox)
                     /\ \A i \in 1 .. Len(k.owed) : k.owed[i] = k.inbox[i].id

Sound(k) == k \in Connections /\ Orderly(k)

\* A connection starts in order.
LEMMA FreshIsSound == Sound(Fresh) /\ Sound(NoConnection)
<1>1. Ahead \in Nat /\ Len(<<>>) <= Ahead
  BY WebAssumption
<1>2. \A S : <<>> \in BoundedSeq(S, Ahead)
  BY <1>1, EmptySeq, IsBoundedSeq, Zenon
<1>3. <<>> \in BoundedSeq(Pieces, Ahead) /\ <<>> \in BoundedSeq(0 .. 1, Ahead)
  BY <1>2
<1>4. Fresh \in Connections
  BY <1>3 DEF Connections, Fresh
<1>5. NoConnection \in Connections
  BY <1>4 DEF Connections, NoConnection
<1>6. Orderly(Fresh)
  BY DEF Orderly, Fresh
<1>7. Orderly(NoConnection)
  BY DEF Orderly, Fresh, NoConnection
<1> QED BY <1>4, <1>5, <1>6, <1>7 DEF Sound

\* A request is added to both sequences, or the order is not followed.
LEMMA RequestIsSound ==
  ASSUME NEW k, Sound(k), NEW kind \in Kinds, NEW part \in Parts,
         Len(k.inbox) < Ahead, Len(k.owed) < Ahead
  PROVE  Sound([k EXCEPT
           !.inbox = Append(@, [id |-> NextId(k.owed), kind |-> kind, part |-> part]),
           !.owed  = IF k.disturbed THEN @ ELSE Append(@, NextId(k.owed))])
<1> DEFINE id == NextId(k.owed)
           p  == [id |-> id, kind |-> kind, part |-> part]
<1>0. Ahead \in Nat
  BY WebAssumption
<1>1. /\ k \in Connections /\ k.inbox \in BoundedSeq(Pieces, Ahead)
      /\ k.owed \in BoundedSeq(0 .. 1, Ahead)
  BY DEF Sound, Connections
<1>2. id \in 0 .. 1
  <2>1. CASE k.owed = <<>>
    BY <2>1 DEF NextId
  <2>2. CASE k.owed # <<>>
    <3>1. k.owed \in Seq(0 .. 1) /\ Len(k.owed) \in Nat \ {0}
      BY <1>0, <1>1, <2>2, BoundedSeqIs, EmptySeq
    <3>2. k.owed[Len(k.owed)] \in 0 .. 1
      BY <3>1, ElementOfSeq
    <3> QED BY <2>2, <3>2 DEF NextId, Last
  <2> QED BY <2>1, <2>2
<1>3. p \in Pieces
  BY <1>2 DEF Pieces
<1> HIDE DEF id
<1>4. /\ Append(k.inbox, p) \in BoundedSeq(Pieces, Ahead)
      /\ Len(Append(k.inbox, p)) = Len(k.inbox) + 1
      /\ \A i \in 1 .. Len(k.inbox) : Append(k.inbox, p)[i] = k.inbox[i]
      /\ Append(k.inbox, p)[Len(k.inbox) + 1] = p
  BY <1>0, <1>1, <1>3, Appended
<1>5. /\ Append(k.owed, id) \in BoundedSeq(0 .. 1, Ahead)
      /\ Len(Append(k.owed, id)) = Len(k.owed) + 1
      /\ \A i \in 1 .. Len(k.owed) : Append(k.owed, id)[i] = k.owed[i]
      /\ Append(k.owed, id)[Len(k.owed) + 1] = id
  BY <1>0, <1>1, <1>2, Appended
<1> DEFINE q == [k EXCEPT !.inbox = Append(k.inbox, p),
                          !.owed  = IF k.disturbed THEN k.owed ELSE Append(k.owed, id)]
<1>6. q \in Connections
  BY <1>1, <1>4, <1>5 DEF Connections
<1>7. /\ q.inbox = Append(k.inbox, p) /\ q.wrong = k.wrong /\ q.disturbed = k.disturbed
      /\ q.owed = IF k.disturbed THEN k.owed ELSE Append(k.owed, id)
  BY <1>1 DEF Connections
<1>8. ASSUME ~k.disturbed
      PROVE  Len(q.owed) = Len(q.inbox) /\ \A i \in 1 .. Len(q.owed) : q.owed[i] = q.inbox[i].id
  <2>1. Len(k.owed) = Len(k.inbox) /\ \A i \in 1 .. Len(k.owed) : k.owed[i] = k.inbox[i].id
    BY <1>8 DEF Sound, Orderly
  <2>2. Len(k.owed) \in Nat
    BY <1>0, <1>1, BoundedSeqIs
  <2>3. q.inbox = Append(k.inbox, p) /\ q.owed = Append(k.owed, id)
    BY <1>7, <1>8
  <2>4. ASSUME NEW i \in 1 .. Len(q.owed) PROVE q.owed[i] = q.inbox[i].id
    <3>1. CASE i = Len(k.owed) + 1
      BY <1>4, <1>5, <2>1, <2>3, <3>1
    <3>2. CASE i # Len(k.owed) + 1
      <4>1. i \in 1 .. Len(k.owed)
        BY <1>5, <2>2, <2>3, <3>2
      <4> QED BY <1>4, <1>5, <2>1, <2>3, <4>1
    <3> QED BY <3>1, <3>2
  <2> QED BY <1>4, <1>5, <2>1, <2>3, <2>4
<1>9. ~q.wrong
  BY <1>7 DEF Sound, Orderly
<1>10. Sound(q)
  BY <1>6, <1>7, <1>8, <1>9, Zenon DEF Sound, Orderly
<1> QED BY <1>10 DEF id

\* The rest of a request makes it whole, with the number that it has.
LEMMA CompleteIsSound ==
  ASSUME NEW k, Sound(k), k.inbox # <<>>
  PROVE  Sound([k EXCEPT !.inbox[Len(k.inbox)].part = "whole"])
<1> DEFINE n == Len(k.inbox)
           p == [k.inbox[n] EXCEPT !.part = "whole"]
           s == [k.inbox EXCEPT ![n] = p]
           q == [k EXCEPT !.inbox = s]
<1>1. /\ k \in Connections /\ k.inbox \in BoundedSeq(Pieces, Ahead)
      /\ k.owed \in BoundedSeq(0 .. 1, Ahead) /\ Ahead \in Nat
  BY WebAssumption DEF Sound, Connections
<1>2. k.inbox \in Seq(Pieces) /\ n <= Ahead /\ n \in 1 .. n
  BY <1>1, BoundedSeqIs, EmptySeq
<1>3. k.inbox[n] \in Pieces
  BY <1>2, ElementOfSeq
<1>4. p \in Pieces /\ p.id = k.inbox[n].id
  BY <1>3 DEF Pieces, Parts
<1>5. /\ s \in Seq(Pieces) /\ Len(s) = n
      /\ \A j \in 1 .. n : s[j] = IF j = n THEN p ELSE k.inbox[j]
  BY <1>2, <1>4, ExceptSeq
<1>6. s \in BoundedSeq(Pieces, Ahead)
  BY <1>1, <1>2, <1>5, IsBoundedSeq, Zenon
<1> HIDE DEF s, p
<1>7. q \in Connections
  BY <1>1, <1>6 DEF Connections
<1>8. q.inbox = s /\ q.owed = k.owed /\ q.disturbed = k.disturbed /\ q.wrong = k.wrong
  BY <1>1 DEF Connections
<1>9. ~k.disturbed => \A i \in 1 .. Len(k.owed) : k.owed[i] = s[i].id
  BY <1>4, <1>5 DEF Sound, Orderly
<1>10. ~k.disturbed => Len(k.owed) = Len(s)
  BY <1>5 DEF Sound, Orderly
<1>11. Orderly(q)
  BY <1>8, <1>9, <1>10, Zenon DEF Sound, Orderly
<1> QED BY <1>7, <1>11 DEF s, p, Sound

\* Whether the client is still there changes nothing.
LEMMA LeaveIsSound ==
  ASSUME NEW k, Sound(k)
  PROVE  Sound([k EXCEPT !.there = FALSE])
BY DEF Sound, Orderly, Connections

\* From a disturbance on the order is not followed.
LEMMA DisturbedIsSound ==
  ASSUME NEW k, Sound(k)
  PROVE  /\ Sound(Disturbed(k)) /\ Disturbed(k).disturbed
         /\ Disturbed(k).inbox = k.inbox /\ Disturbed(k).there = k.there
<1>1. Ahead \in Nat /\ Len(<<>>) <= Ahead
  BY WebAssumption
<1>2. <<>> \in BoundedSeq(0 .. 1, Ahead)
  BY <1>1, EmptySeq, IsBoundedSeq, Zenon
<1> QED BY <1>2 DEF Sound, Orderly, Connections, Disturbed

\* An answer to the request that has just been read is to the oldest one
\* without an answer.
LEMMA ServedIsSound ==
  ASSUME NEW k, Sound(k), k.inbox # <<>>, NEW keep \in BOOLEAN
  PROVE  /\ Sound(Served(k, Head(k.inbox).id, keep))
         /\ Served(k, Head(k.inbox).id, keep).inbox = Tail(k.inbox)
         /\ Served(k, Head(k.inbox).id, keep).there = k.there
         /\ Served(k, Head(k.inbox).id, keep).disturbed = k.disturbed
         /\ Served(k, Head(k.inbox).id, keep).toldClose = ~keep
<1> DEFINE id == Head(k.inbox).id
           inOrder == k.owed # <<>> /\ Head(k.owed) = id
           owed == IF inOrder THEN Tail(k.owed) ELSE k.owed
           q == Served(k, id, keep)
<1>1. /\ k \in Connections /\ k.inbox \in BoundedSeq(Pieces, Ahead)
      /\ k.owed \in BoundedSeq(0 .. 1, Ahead) /\ Ahead \in Nat
  BY WebAssumption DEF Sound, Connections
<1>2. /\ Tail(k.inbox) \in BoundedSeq(Pieces, Ahead) /\ Len(k.inbox) \in Nat \ {0}
      /\ Head(k.inbox) = k.inbox[1] /\ Len(Tail(k.inbox)) = Len(k.inbox) - 1
      /\ \A i \in 1 .. Len(k.inbox) - 1 : Tail(k.inbox)[i] = k.inbox[i + 1]
  BY <1>1, HeadTaken
<1>3. k.owed # <<>> =>
        /\ Tail(k.owed) \in BoundedSeq(0 .. 1, Ahead) /\ Head(k.owed) = k.owed[1]
        /\ Len(Tail(k.owed)) = Len(k.owed) - 1
        /\ \A i \in 1 .. Len(k.owed) - 1 : Tail(k.owed)[i] = k.owed[i + 1]
  BY <1>1, HeadTaken
<1>4. ASSUME ~k.disturbed
      PROVE  /\ inOrder /\ Len(owed) = Len(Tail(k.inbox))
             /\ \A i \in 1 .. Len(owed) : owed[i] = Tail(k.inbox)[i].id
  <2>1. Len(k.owed) = Len(k.inbox) /\ \A i \in 1 .. Len(k.owed) : k.owed[i] = k.inbox[i].id
    BY <1>4 DEF Sound, Orderly
  <2>2. k.owed # <<>> /\ 1 \in 1 .. Len(k.owed)
    BY <1>2, <2>1
  <2>3. inOrder
    BY <1>2, <1>3, <2>1, <2>2
  <2>4. \A i \in 1 .. Len(k.owed) - 1 : i + 1 \in 1 .. Len(k.owed)
    BY <1>2, <2>1
  <2> QED BY <1>2, <1>3, <2>1, <2>2, <2>3, <2>4
<1>5. owed \in BoundedSeq(0 .. 1, Ahead)
  BY <1>1, <1>3
<1>6. q = [k EXCEPT !.inbox = Tail(k.inbox), !.owed = owed, !.toldClose = ~keep,
                    !.wrong = k.wrong \/ (~k.disturbed /\ ~inOrder)]
  BY <1>1 DEF Served, Answered, Connections
<1> HIDE DEF owed, inOrder
<1>7. q \in Connections
  BY <1>1, <1>2, <1>5, <1>6 DEF Connections
<1>8. /\ q.inbox = Tail(k.inbox) /\ q.owed = owed /\ q.toldClose = ~keep
      /\ q.there = k.there /\ q.disturbed = k.disturbed
      /\ q.wrong = (k.wrong \/ (~k.disturbed /\ ~inOrder))
  BY <1>1, <1>6 DEF Connections
<1>9. Orderly(q)
  BY <1>4, <1>8, Zenon DEF Sound, Orderly
<1> QED BY <1>7, <1>8, <1>9 DEF Sound

-----------------------------------------------------------------------------
(* The queue of connections that nobody serves.                            *)

Queue(u) == u \in Seq(Clients) /\ IsInjective(u)

\* A client that is not in the queue can join it.
LEMMA ClientJoins ==
  ASSUME NEW u, Queue(u), NEW c \in Clients, ~Contains(u, c)
  PROVE  /\ Queue(Append(u, c))
         /\ \A d : Contains(Append(u, c), d) <=> Contains(u, d) \/ d = c
<1> DEFINE a == Append(u, c)
           n == Len(u)
<1>1. /\ u \in Seq(Clients) /\ n \in Nat /\ DOMAIN u = 1 .. n
      /\ \A i, j \in 1 .. n : u[i] = u[j] => i = j
      /\ \A i \in 1 .. n : u[i] # c
  BY LenProperties DEF Queue, IsInjective, Contains
<1>2. /\ a \in Seq(Clients) /\ Len(a) = n + 1 /\ a[n + 1] = c
      /\ \A i \in 1 .. n : a[i] = u[i]
  BY <1>1, AppendProperties
<1>3. DOMAIN a = 1 .. n + 1
  BY <1>2, LenProperties
<1>4. \A i \in 1 .. n + 1 : i \in 1 .. n \/ i = n + 1
  BY <1>1
<1> HIDE DEF a, n
<1>5. IsInjective(a)
  BY <1>1, <1>2, <1>3, <1>4 DEF IsInjective
<1>6. \A d : (\E i \in 1 .. n + 1 : a[i] = d) <=> (\E i \in 1 .. n : u[i] = d) \/ d = c
  <2>1. n + 1 \in 1 .. n + 1 /\ \A i \in 1 .. n : i \in 1 .. n + 1
    BY <1>1
  <2> QED BY <1>2, <1>4, <2>1
<1> QED BY <1>2, <1>5, <1>6 DEF Queue, Contains, a, n

\* The first of the queue leaves it.
LEMMA FirstLeaves ==
  ASSUME NEW u, Queue(u), u # <<>>
  PROVE  /\ Head(u) \in Clients /\ Queue(Tail(u)) /\ ~Contains(Tail(u), Head(u))
         /\ \A d : Contains(u, d) <=> Contains(Tail(u), d) \/ d = Head(u)
<1> DEFINE t == Tail(u)
           n == Len(u)
<1>1. /\ u \in Seq(Clients) /\ n \in Nat \ {0} /\ DOMAIN u = 1 .. n
      /\ \A i, j \in 1 .. n : u[i] = u[j] => i = j
  BY LenProperties, EmptySeq DEF Queue, IsInjective
<1>2. /\ Head(u) \in Clients /\ t \in Seq(Clients) /\ Len(t) = n - 1
      /\ \A i \in 1 .. n - 1 : t[i] = u[i + 1]
  BY <1>1, HeadTailProperties
<1>3. Head(u) = u[1]
  BY <1>1
<1>4. DOMAIN t = 1 .. n - 1
  BY <1>2, LenProperties
<1>5. /\ \A i \in 1 .. n - 1 : i + 1 \in 1 .. n /\ i + 1 # 1
      /\ \A i, j \in 1 .. n - 1 : i + 1 = j + 1 => i = j
      /\ 1 \in 1 .. n /\ \A i \in 1 .. n : i = 1 \/ (i - 1 \in 1 .. n - 1 /\ (i - 1) + 1 = i)
  BY <1>1
<1> HIDE DEF t, n
<1>6. IsInjective(t)
  BY <1>1, <1>2, <1>4, <1>5 DEF IsInjective
<1>7. \A i \in 1 .. n - 1 : t[i] # u[1]
  BY <1>1, <1>2, <1>5
<1>8. \A d : (\E i \in 1 .. n : u[i] = d) <=> (\E i \in 1 .. n - 1 : t[i] = d) \/ d = u[1]
  <2> SUFFICES ASSUME NEW d
               PROVE  (\E i \in 1 .. n : u[i] = d) <=> (\E i \in 1 .. n - 1 : t[i] = d) \/ d = u[1]
    OBVIOUS
  <2>1. ASSUME NEW i \in 1 .. n, u[i] = d PROVE (\E j \in 1 .. n - 1 : t[j] = d) \/ d = u[1]
    <3>1. CASE i = 1
      BY <2>1, <3>1
    <3>2. CASE i # 1
      <4>1. i - 1 \in 1 .. n - 1 /\ (i - 1) + 1 = i
        BY <1>5, <3>2
      <4>2. t[i - 1] = d
        BY <1>2, <2>1, <4>1
      <4> QED BY <4>1, <4>2
    <3> QED BY <3>1, <3>2
  <2>2. ASSUME NEW j \in 1 .. n - 1, t[j] = d PROVE \E i \in 1 .. n : u[i] = d
    BY <1>2, <1>5, <2>2
  <2> QED BY <1>5, <2>1, <2>2
<1> QED BY <1>2, <1>3, <1>6, <1>7, <1>8 DEF Queue, Contains, t, n

-----------------------------------------------------------------------------
(* The server.                                                             *)

ConnectionsInv == conn \in [Clients -> Connections] /\ \A c \in Clients : Orderly(conn[c])

\* While the connection waits for another request, its client has been told
\* whether there may be one.
PromiseInv ==
  current # None /\ status = "close" => (conn[current].toldClose <=> ~keepAlive)

WebInv == TypeOK /\ ConnectionsInv /\ PromiseInv

\* Every connection is sound.
LEMMA AllSound ==
  ASSUME WebInv, NEW c \in Clients
  PROVE  Sound(conn[c]) /\ conn[c] \in Connections
BY DEF WebInv, ConnectionsInv, Sound

\* A change of one connection keeps all of them sound.
LEMMA OneConnection ==
  ASSUME WebInv, NEW c \in Clients, NEW k, Sound(k), conn' = [conn EXCEPT ![c] = k]
  PROVE  /\ ConnectionsInv' /\ conn'[c] = k
         /\ \A d \in Clients : d # c => conn'[d] = conn[d]
BY DEF WebInv, ConnectionsInv, Sound

\* A change of a connection that somebody has, without the server.
LEMMA ClientActs ==
  ASSUME WebInv, NEW c \in Clients, ~Away(c), NEW k, Sound(k),
         conn' = [conn EXCEPT ![c] = k], UNCHANGED server, k.toldClose = conn[c].toldClose
  PROVE  WebInv'
<1>1. /\ ConnectionsInv' /\ conn'[c] = k
      /\ \A d \in Clients : d # c => conn'[d] = conn[d]
  BY OneConnection
<1>2. UNCHANGED <<unclaimed, current, status, age, keepAlive>>
  BY Zenon DEF server
<1>3. \A d \in Clients : Away(d)' => conn'[d] = NoConnection
  BY <1>1, <1>2 DEF Away, WebInv, TypeOK
<1>4. \A d \in Clients : conn'[d].toldClose = conn[d].toldClose
  BY <1>1
<1>5. PromiseInv'
  <2>1. current # None => current \in Clients
    BY DEF WebInv, TypeOK
  <2> QED BY <1>2, <1>4, <2>1, Zenon DEF WebInv, PromiseInv
<1>6. TypeOK'
  BY <1>1, <1>2, <1>3, Zenon DEF WebInv, TypeOK, ConnectionsInv
<1> QED BY <1>1, <1>5, <1>6 DEF WebInv

\* What one call of handleClient does with the client c that it takes up, s
\* being its status and a its age: the connection is held, or it is dropped,
\* over no request that was promised an answer.
Held(c, waiting) ==
  \E s \in {"read", "close"}, a \in 0 .. 2, k \in Connections :
    /\ Hold(c, s, a, waiting) /\ conn' = [conn EXCEPT ![c] = k] /\ Sound(k)
    /\ s = "close" => (k.toldClose <=> ~keepAlive')

Dropped(c, waiting) ==
  Drop(c, waiting) /\ (Answerable(conn[c]) => conn[c].toldClose)

\* A request is read to its end and answered.
LEMMA ServeOutcome ==
  ASSUME WebInv, NEW c \in Clients, NEW waiting, Serve(c, waiting)
  PROVE  keepAlive' \in BOOLEAN /\ (Held(c, waiting) \/ Dropped(c, waiting))
<1> DEFINE p == Head(conn[c].inbox)
           late == p.part = "line" /\ conn[c].there
           base == IF p.part = "whole" THEN conn[c] ELSE Disturbed(conn[c])
           k == Served(base, p.id, keepAlive')
<1>1. conn[c].inbox # <<>> /\ Sound(conn[c]) /\ conn[c] \in Connections /\ Ahead \in Nat
  BY AllSound, WebAssumption DEF Serve, Available
<1>2. conn[c].inbox \in BoundedSeq(Pieces, Ahead)
  BY <1>1 DEF Connections
<1>3. p \in Pieces
  BY <1>1, <1>2, HeadTaken
<1>4. PICK asked \in BOOLEAN :
        /\ keepAlive' = Keep(asked, waiting)
        /\ IF conn[c].there \/ k.inbox # <<>>
           THEN /\ Hold(c, "close", 0, waiting)
                /\ \E rest \in (IF late THEN {<<>>, <<[p EXCEPT !.part = "rest"]>>} ELSE {<<>>}) :
                     conn' = [conn EXCEPT ![c] = [k EXCEPT !.inbox = rest \o @]]
           ELSE Drop(c, waiting)
  BY <1>3 DEF Serve, Pieces
<1>5. keepAlive' \in BOOLEAN
  BY <1>4, Zenon DEF Keep
<1>6. Sound(base) /\ base.inbox = conn[c].inbox /\ (p.part # "whole" => base.disturbed)
  BY <1>1, DisturbedIsSound
<1>7. /\ Sound(k) /\ k.inbox = Tail(conn[c].inbox) /\ k.disturbed = base.disturbed
      /\ k.toldClose = ~keepAlive'
  BY <1>1, <1>5, <1>6, ServedIsSound
<1> HIDE DEF k, base
<1>8. k \in Connections /\ k.inbox \in Seq(Pieces)
  BY <1>1, <1>7, BoundedSeqIs DEF Sound, Connections
<1>9. CASE conn[c].there \/ k.inbox # <<>>
  <2>1. PICK rest \in (IF late THEN {<<>>, <<[p EXCEPT !.part = "rest"]>>} ELSE {<<>>}) :
          conn' = [conn EXCEPT ![c] = [k EXCEPT !.inbox = rest \o @]]
    BY <1>4, <1>9
  <2> DEFINE q == [k EXCEPT !.inbox = rest \o k.inbox]
  <2>2. Hold(c, "close", 0, waiting) /\ conn' = [conn EXCEPT ![c] = q]
    BY <1>4, <1>8, <1>9, <2>1 DEF Connections
  <2>3. Sound(q) /\ q.toldClose = k.toldClose
    <3>1. CASE rest = <<>>
      <4>1. rest \o k.inbox = k.inbox
        BY <1>8, <3>1, ConcatEmptySeq
      <4> QED BY <1>7, <1>8, <4>1 DEF Connections
    <3>2. CASE rest # <<>>
      <4>1. rest = <<[p EXCEPT !.part = "rest"]>> /\ p.part = "line"
        BY <2>1, <3>2
      <4>2. [p EXCEPT !.part = "rest"] \in Pieces
        BY <1>3 DEF Pieces, Parts
      <4>3. rest \o k.inbox \in BoundedSeq(Pieces, Ahead)
        BY <1>1, <1>2, <1>7, <4>1, <4>2, PutBack
      <4>4. k.disturbed
        BY <1>6, <1>7, <4>1
      <4> QED BY <1>7, <1>8, <4>3, <4>4 DEF Sound, Orderly, Connections
    <3> QED BY <3>1, <3>2
  <2>4. q \in Connections /\ (q.toldClose <=> ~keepAlive')
    BY <1>7, <2>3 DEF Sound
  <2> HIDE DEF q
  <2>5. "close" \in {"read", "close"} /\ 0 \in 0 .. 2
    OBVIOUS
  <2>6. Held(c, waiting)
    BY <2>2, <2>3, <2>4, <2>5, <1>7, Zenon DEF Held
  <2> QED BY <1>5, <2>6
<1>10. CASE ~(conn[c].there \/ k.inbox # <<>>)
  BY <1>4, <1>5, <1>10 DEF Dropped, Answerable
<1> QED BY <1>9, <1>10

\* The other cases of handleClient.
LEMMA HandleOutcome ==
  ASSUME WebInv, NEW c \in Clients, NEW waiting, NEW s \in {"read", "close"}, NEW a \in 0 .. 2,
         s = "close" => (conn[c].toldClose <=> ~keepAlive), Handle(c, s, a, waiting)
  PROVE  keepAlive' \in BOOLEAN /\ (Held(c, waiting) \/ Dropped(c, waiting))
<1>1. Sound(conn[c]) /\ conn[c] \in Connections /\ keepAlive \in BOOLEAN
  BY AllSound DEF WebInv, TypeOK
<1>2. conn \in [Clients -> Connections] /\ conn = [conn EXCEPT ![c] = conn[c]]
  BY DEF WebInv, TypeOK
<1>3. CASE ~Alive(c) /\ Drop(c, waiting) /\ UNCHANGED keepAlive
  BY <1>1, <1>3 DEF Dropped, Alive, Answerable
<1>4. CASE Serve(c, waiting)
  BY <1>4, ServeOutcome
<1>5. CASE MustStop(c, waiting)
  BY <1>1, <1>5 DEF MustStop, Dropped, Answerable
<1>6. CASE WaitRead(c, a, waiting)
  <2>1. CASE a < 2
    <3>1. Hold(c, "read", a, waiting) /\ UNCHANGED <<conn, keepAlive>>
      BY <1>6, <2>1 DEF WaitRead
    <3> QED BY <1>1, <1>2, <3>1 DEF Held
  <2>2. CASE ~(a < 2)
    BY <1>1, <1>6, <2>2 DEF WaitRead, Dropped, Answerable, Available
  <2> QED BY <2>1, <2>2
<1>7. CASE Alive(c) /\ StatusNow(c, s) = "close" /\ WaitClose(c, a, waiting)
  <2>1. s = "close" /\ ~(Available(c) /\ keepAlive) /\ UNCHANGED keepAlive
    BY <1>7 DEF StatusNow, WaitClose
  <2>2. CASE waiting = <<>> /\ a = 0
    <3>1. /\ Hold(c, IF Available(c) THEN "read" ELSE "close", a, waiting)
          /\ UNCHANGED conn
      BY <1>7, <2>2 DEF WaitClose
    <3> QED BY <1>1, <1>2, <2>1, <3>1 DEF Held
  <2>3. CASE ~(waiting = <<>> /\ a = 0)
    <3>1. Drop(c, waiting)
      BY <1>7, <2>3 DEF WaitClose
    <3>2. Answerable(conn[c]) => conn[c].toldClose
      BY <2>1 DEF Answerable, Available
    <3> QED BY <1>1, <2>1, <3>1, <3>2 DEF Dropped
  <2> QED BY <2>2, <2>3
<1> QED BY <1>3, <1>4, <1>5, <1>6, <1>7 DEF Handle

\* Who is taken up: the client that is served, or the first that waits.
TakenUp(c, s, a, waiting) ==
  \/ current = c /\ s = status /\ a = age /\ waiting = unclaimed
  \/ /\ current = None /\ unclaimed # <<>>
     /\ c = Head(unclaimed) /\ s = "read" /\ a = 0 /\ waiting = Tail(unclaimed)

\* What is known of the client that is taken up.
LEMMA TakenUpKnown ==
  ASSUME WebInv, NEW c, NEW s, NEW a, NEW waiting, c # None, TakenUp(c, s, a, waiting)
  PROVE  /\ c \in Clients /\ Queue(waiting) /\ ~Contains(waiting, c)
         /\ s \in {"read", "close"} /\ a \in 0 .. 2
         /\ s = "close" => (conn[c].toldClose <=> ~keepAlive)
         /\ \A d \in Clients : d # c => (Away(d) <=> ~Contains(waiting, d))
<1>1. /\ Queue(unclaimed) /\ current \in Clients \cup {None} /\ ~Contains(unclaimed, current)
      /\ status \in (IF current = None THEN {"none"} ELSE {"read", "close"}) /\ age \in 0 .. 2
  BY DEF WebInv, TypeOK, Queue
<1>2. CASE current = c /\ s = status /\ a = age /\ waiting = unclaimed
  BY <1>1, <1>2 DEF WebInv, PromiseInv, Away
<1>3. CASE /\ current = None /\ unclaimed # <<>>
           /\ c = Head(unclaimed) /\ s = "read" /\ a = 0 /\ waiting = Tail(unclaimed)
  <2>1. /\ c \in Clients /\ Queue(waiting) /\ ~Contains(waiting, c)
        /\ \A d : Contains(unclaimed, d) <=> Contains(waiting, d) \/ d = c
    BY <1>1, <1>3, FirstLeaves
  <2>2. \A d \in Clients : d # c => (Away(d) <=> ~Contains(waiting, d))
    BY <1>3, <2>1, WebAssumption DEF Away
  <2> QED BY <1>3, <2>1, <2>2
<1> QED BY <1>2, <1>3 DEF TakenUp

\* A call of handleClient, put as what it does with the client it takes up.
LEMMA HandleClientIs ==
  ASSUME WebInv, HandleClient
  PROVE  \E c \in Clients : \E s, a, waiting :
           /\ TakenUp(c, s, a, waiting) /\ keepAlive' \in BOOLEAN
           /\ Held(c, waiting) \/ Dropped(c, waiting)
<1>1. CASE current # None /\ Handle(current, status, age, unclaimed)
  <2>1. TakenUp(current, status, age, unclaimed)
    BY DEF TakenUp
  <2>2. /\ current \in Clients /\ status \in {"read", "close"} /\ age \in 0 .. 2
        /\ status = "close" => (conn[current].toldClose <=> ~keepAlive)
    BY <1>1, <2>1, TakenUpKnown, Zenon
  <2>3. keepAlive' \in BOOLEAN /\ (Held(current, unclaimed) \/ Dropped(current, unclaimed))
    BY <1>1, <2>2, HandleOutcome
  <2> QED BY <2>1, <2>2, <2>3
<1>2. CASE current = None /\ unclaimed # <<>> /\ Handle(Head(unclaimed), "read", 0, Tail(unclaimed))
  <2> DEFINE c == Head(unclaimed)
  <2>1. TakenUp(c, "read", 0, Tail(unclaimed))
    BY <1>2 DEF TakenUp
  <2>2. c \in Clients
    BY <1>2, FirstLeaves DEF WebInv, TypeOK, Queue
  <2>3. /\ "read" \in {"read", "close"} /\ 0 \in 0 .. 2
        /\ "read" = "close" => (conn[c].toldClose <=> ~keepAlive)
    OBVIOUS
  <2>4. keepAlive' \in BOOLEAN /\ (Held(c, Tail(unclaimed)) \/ Dropped(c, Tail(unclaimed)))
    BY <1>2, <2>2, <2>3, HandleOutcome
  <2> QED BY <2>1, <2>2, <2>4
<1> QED BY <1>1, <1>2 DEF HandleClient

\* Who is away after it: the client, if it was dropped; nothing changes for
\* the others.
LEMMA AwayAfter ==
  ASSUME WebInv, NEW c \in Clients, NEW s, NEW a, NEW waiting, TakenUp(c, s, a, waiting),
         Held(c, waiting) \/ Dropped(c, waiting)
  PROVE  /\ unclaimed' = waiting
         /\ \A d \in Clients : d # c => (Away(d)' <=> Away(d))
         /\ Held(c, waiting) => current' = c
         /\ Dropped(c, waiting) => current' = None
<1>1. c # None /\ None \notin Clients
  BY WebAssumption
<1>2. \A d \in Clients : d # c => (Away(d) <=> ~Contains(waiting, d))
  BY <1>1, TakenUpKnown
<1>3. /\ Held(c, waiting) => unclaimed' = waiting /\ current' = c
      /\ Dropped(c, waiting) => unclaimed' = waiting /\ current' = None
  BY Zenon DEF Held, Hold, Dropped, Drop
<1>4. \A d \in Clients : d # c => (Away(d)' <=> ~Contains(waiting, d))
  BY <1>1, <1>3 DEF Away
<1> QED BY <1>2, <1>3, <1>4

\* handleClient keeps the invariant.
LEMMA HandleClientKeeps ==
  ASSUME WebInv, HandleClient
  PROVE  WebInv'
<1>11. PICK c \in Clients : \E s, a, waiting :
        /\ TakenUp(c, s, a, waiting) /\ keepAlive' \in BOOLEAN
        /\ Held(c, waiting) \/ Dropped(c, waiting)
  BY HandleClientIs
<1>1. PICK s, a, waiting :
        /\ TakenUp(c, s, a, waiting) /\ keepAlive' \in BOOLEAN
        /\ Held(c, waiting) \/ Dropped(c, waiting)
  BY <1>11
<1>2. c # None
  BY WebAssumption
<1>3. Queue(waiting) /\ ~Contains(waiting, c)
  BY <1>1, <1>2, TakenUpKnown
<1>4. unclaimed' = waiting /\ \A d \in Clients : d # c => (Away(d)' <=> Away(d))
  BY <1>1, AwayAfter
<1>5. \A d \in Clients : Away(d) => conn[d] = NoConnection
  BY DEF WebInv, TypeOK
<1>6. CASE Held(c, waiting)
  <2>1. PICK t \in {"read", "close"}, b \in 0 .. 2, k \in Connections :
          /\ Hold(c, t, b, waiting) /\ conn' = [conn EXCEPT ![c] = k] /\ Sound(k)
          /\ t = "close" => (k.toldClose <=> ~keepAlive')
    BY <1>6 DEF Held
  <2>2. /\ current' = c /\ status' = t /\ age' = b
    BY <2>1 DEF Hold
  <2>3. /\ ConnectionsInv' /\ conn'[c] = k
        /\ \A d \in Clients : d # c => conn'[d] = conn[d]
    BY <2>1, OneConnection
  <2>4. \A d \in Clients : Away(d)' => conn'[d] = NoConnection
    BY <1>4, <1>5, <2>2, <2>3 DEF Away
  <2>5. PromiseInv'
    BY <2>1, <2>2, <2>3, Zenon DEF PromiseInv
  <2>6. /\ current' \in Clients \cup {None} /\ ~Contains(unclaimed', current')
        /\ status' \in (IF current' = None THEN {"none"} ELSE {"read", "close"})
    BY <1>2, <1>3, <1>4, <2>2
  <2>7. TypeOK'
    BY <1>1, <1>3, <1>4, <2>2, <2>3, <2>4, <2>6, Zenon DEF TypeOK, Queue, ConnectionsInv
  <2> QED BY <2>3, <2>5, <2>7 DEF WebInv
<1>7. CASE Dropped(c, waiting)
  <2>1. current' = None /\ status' = "none" /\ age' = 0 /\ conn' = [conn EXCEPT ![c] = NoConnection]
    BY <1>7 DEF Dropped, Drop
  <2>2. /\ ConnectionsInv' /\ conn'[c] = NoConnection
        /\ \A d \in Clients : d # c => conn'[d] = conn[d]
    BY <2>1, FreshIsSound, OneConnection
  <2>3. \A d \in Clients : Away(d)' => conn'[d] = NoConnection
    BY <1>4, <1>5, <2>2
  <2>4. ~Contains(waiting, None)
    <3>1. waiting \in Seq(Clients)
      BY <1>3 DEF Queue
    <3>2. \A i \in 1 .. Len(waiting) : waiting[i] \in Clients
      BY <3>1, ElementOfSeq
    <3> QED BY <3>2, WebAssumption DEF Contains
  <2>5. /\ current' \in Clients \cup {None} /\ ~Contains(unclaimed', current')
        /\ status' \in (IF current' = None THEN {"none"} ELSE {"read", "close"}) /\ age' \in 0 .. 2
    BY <1>4, <2>1, <2>4
  <2>6. PromiseInv'
    BY <2>1 DEF PromiseInv
  <2>7. TypeOK'
    BY <1>1, <1>3, <1>4, <2>2, <2>3, <2>5, Zenon DEF TypeOK, Queue, ConnectionsInv
  <2> QED BY <2>2, <2>6, <2>7 DEF WebInv
<1> QED BY <1>1, <1>6, <1>7

\* A connection is accepted.
LEMMA AcceptKeeps ==
  ASSUME WebInv, NEW c \in Clients, Accept(c)
  PROVE  WebInv'
<1>1. /\ Away(c) /\ unclaimed' = Append(unclaimed, c) /\ conn' = [conn EXCEPT ![c] = Fresh]
      /\ UNCHANGED <<current, status, age, keepAlive>>
  BY DEF Accept
<1>2. /\ ConnectionsInv' /\ conn'[c] = Fresh
      /\ \A d \in Clients : d # c => conn'[d] = conn[d]
  BY <1>1, FreshIsSound, OneConnection
<1>3. /\ Queue(unclaimed')
      /\ \A d : Contains(unclaimed', d) <=> Contains(unclaimed, d) \/ d = c
  BY <1>1, ClientJoins DEF WebInv, TypeOK, Queue, Away
<1>4. ~Contains(unclaimed', current')
  BY <1>1, <1>3 DEF WebInv, TypeOK, Away
<1>5. \A d \in Clients : Away(d)' => conn'[d] = NoConnection
  BY <1>1, <1>2, <1>3 DEF Away, WebInv, TypeOK
<1>6. PromiseInv'
  <2>1. current # None => current \in Clients /\ current # c
    BY <1>1 DEF WebInv, TypeOK, Away
  <2> QED BY <1>1, <1>2, <2>1, Zenon DEF WebInv, PromiseInv
<1>7. TypeOK'
  BY <1>1, <1>2, <1>3, <1>4, <1>5, Zenon DEF WebInv, TypeOK, Queue, ConnectionsInv
<1> QED BY <1>2, <1>6, <1>7 DEF WebInv

\* A request arrives.
LEMMA RequestKeeps ==
  ASSUME WebInv, NEW c \in Clients, NEW kind \in Kinds, NEW part \in Parts, Request(c, kind, part)
  PROVE  WebInv'
<1> DEFINE old == conn[c]
           k == [old EXCEPT
             !.inbox = Append(@, [id |-> NextId(old.owed), kind |-> kind, part |-> part]),
             !.owed  = IF old.disturbed THEN @ ELSE Append(@, NextId(old.owed))]
<1>1. Sound(old) /\ old \in Connections /\ conn \in [Clients -> Connections]
  BY AllSound DEF WebInv, TypeOK
<1>2. Len(old.inbox) < Ahead /\ Len(old.owed) < Ahead /\ ~Away(c) /\ UNCHANGED server
  BY DEF Request
<1>3. Sound(k)
  BY <1>1, <1>2, RequestIsSound
<1>4. conn' = [conn EXCEPT ![c] = k]
  BY <1>1 DEF Request
<1>5. k.toldClose = old.toldClose
  BY <1>1 DEF Connections
<1> HIDE DEF k
<1> QED BY <1>2, <1>3, <1>4, <1>5, ClientActs

\* The other steps of a client.
LEMMA ClientKeeps ==
  ASSUME WebInv, NEW c \in Clients, Completes(c) \/ Leave(c)
  PROVE  WebInv'
<1>1. Sound(conn[c]) /\ conn[c] \in Connections /\ conn \in [Clients -> Connections]
  BY AllSound DEF WebInv, TypeOK
<1>2. CASE Completes(c)
  <2> DEFINE k == [conn[c] EXCEPT !.inbox[Len(conn[c].inbox)].part = "whole"]
  <2>1. conn[c].inbox # <<>> /\ ~Away(c) /\ UNCHANGED server
    BY <1>2 DEF Completes
  <2>2. Sound(k)
    BY <1>1, <2>1, CompleteIsSound
  <2>3. conn' = [conn EXCEPT ![c] = k]
    BY <1>1, <1>2 DEF Completes
  <2>4. k.toldClose = conn[c].toldClose
    BY <1>1 DEF Connections
  <2> HIDE DEF k
  <2> QED BY <2>1, <2>2, <2>3, <2>4, ClientActs
<1>3. CASE Leave(c)
  <2> DEFINE k == [conn[c] EXCEPT !.there = FALSE]
  <2>1. ~Away(c) /\ UNCHANGED server
    BY <1>3 DEF Leave
  <2>2. Sound(k)
    BY <1>1, LeaveIsSound
  <2>3. conn' = [conn EXCEPT ![c] = k]
    BY <1>1, <1>3 DEF Leave
  <2>4. k.toldClose = conn[c].toldClose
    BY <1>1 DEF Connections
  <2> HIDE DEF k
  <2> QED BY <2>1, <2>2, <2>3, <2>4, ClientActs
<1> QED BY <1>2, <1>3

\* A timer's answer tells the client of the connection what keepAlive says.
LEMMA StrayKeeps ==
  ASSUME WebInv, Stray
  PROVE  WebInv'
<1> DEFINE c == current
           k == [Disturbed(conn[c]) EXCEPT !.toldClose = ~keepAlive']
<1>1. c \in Clients /\ keepAlive \in BOOLEAN
  BY DEF Stray, WebInv, TypeOK
<1>2. Sound(conn[c]) /\ Sound(Disturbed(conn[c])) /\ conn \in [Clients -> Connections]
  BY <1>1, AllSound, DisturbedIsSound DEF WebInv, TypeOK
<1>3. /\ keepAlive' \in BOOLEAN /\ conn' = [conn EXCEPT ![c] = k]
      /\ UNCHANGED <<unclaimed, current, status, age>>
  BY <1>1, <1>2, Zenon DEF Stray, Keep
<1>4. Sound(k) /\ (k.toldClose <=> ~keepAlive')
  BY <1>2, <1>3 DEF Sound, Orderly, Connections
<1> HIDE DEF k
<1>5. /\ ConnectionsInv' /\ conn'[c] = k
      /\ \A d \in Clients : d # c => conn'[d] = conn[d]
  BY <1>1, <1>3, <1>4, OneConnection
<1>6. \A d \in Clients : Away(d)' => conn'[d] = NoConnection
  BY <1>3, <1>5 DEF Away, WebInv, TypeOK
<1>7. PromiseInv'
  BY <1>3, <1>4, <1>5, Zenon DEF PromiseInv
<1>8. TypeOK'
  BY <1>3, <1>5, <1>6, Zenon DEF WebInv, TypeOK, ConnectionsInv
<1> QED BY <1>5, <1>7, <1>8 DEF WebInv

\* Time passes.
LEMMA ElapseKeeps ==
  ASSUME WebInv, Elapse
  PROVE  WebInv'
<1>1. age' \in 0 .. 2 /\ UNCHANGED <<unclaimed, current, status, keepAlive, conn>>
  BY DEF Elapse, WebInv, TypeOK
<1> QED BY <1>1, Zenon DEF WebInv, TypeOK, ConnectionsInv, PromiseInv, Away

-----------------------------------------------------------------------------
\* Types of the queue, of the session and of every connection, the order of the
\* answers and what a client has been told of the connection.
THEOREM ServerInvariant == Spec => []WebInv
<1>1. Init => WebInv
  <2> SUFFICES ASSUME Init PROVE WebInv
    OBVIOUS
  <2>1. unclaimed = <<>> /\ current = None /\ status = "none" /\ age = 0 /\ keepAlive = FALSE
    BY DEF Init
  <2>2. \A d : ~Contains(unclaimed, d)
    BY <2>1 DEF Contains
  <2>3. unclaimed \in Seq(Clients) /\ IsInjective(unclaimed)
    BY <2>1 DEF IsInjective
  <2>4. NoConnection \in Connections /\ Orderly(NoConnection)
    BY FreshIsSound DEF Sound
  <2>5. ConnectionsInv /\ \A c \in Clients : conn[c] = NoConnection
    BY <2>4 DEF Init, ConnectionsInv
  <2>6. current \in Clients \cup {None} /\ age \in 0 .. 2
    BY <2>1
  <2>7. status \in (IF current = None THEN {"none"} ELSE {"read", "close"}) /\ keepAlive \in BOOLEAN
    BY <2>1, Zenon
  <2>8. TypeOK
    BY <2>2, <2>3, <2>5, <2>6, <2>7, Zenon DEF TypeOK, ConnectionsInv
  <2>9. PromiseInv
    BY <2>1 DEF PromiseInv
  <2> QED BY <2>5, <2>8, <2>9 DEF WebInv
<1>2. WebInv /\ [Next]_vars => WebInv'
  <2> SUFFICES ASSUME WebInv, [Next]_vars PROVE WebInv'
    OBVIOUS
  <2>1. ASSUME NEW c \in Clients, NEW kind \in {"keep", "close"}, Request(c, kind, "line")
        PROVE  WebInv'
    BY <2>1, RequestKeeps DEF Kinds, Parts
  <2>2. ASSUME NEW c \in Clients, NEW kind \in Kinds, Request(c, kind, "whole")
        PROVE  WebInv'
    BY <2>2, RequestKeeps DEF Parts
  <2>3. CASE UNCHANGED vars
    BY <2>3, Zenon DEF vars, WebInv, TypeOK, ConnectionsInv, PromiseInv, Away
  <2> QED BY <2>1, <2>2, <2>3, AcceptKeeps, ClientKeeps, ElapseKeeps, HandleClientKeeps, StrayKeeps, Zenon
          DEF Next
<1> QED BY <1>1, <1>2, PTL DEF Spec

\* Types, as far as the run checks them.
THEOREM ServerTypes == Spec => []TypeOK
<1>1. WebInv => TypeOK
  BY DEF WebInv
<1> QED BY <1>1, ServerInvariant, PTL

\* Every answer is that to the request in its position, however many requests a
\* client sends ahead and whoever else connects (handleClient, send).
THEOREM AnswersAreInOrder == Spec => []AnswersInOrder
<1>1. WebInv => AnswersInOrder
  BY DEF WebInv, ConnectionsInv, Orderly, AnswersInOrder
<1> QED BY <1>1, ServerInvariant, PTL

\* A connection that was promised to be kept is not closed over a request
\* (handleClient).
THEOREM PromiseIsKept == Spec => NoRequestLost
<1> DEFINE Lost(c) == ~Away(c) /\ Away(c)' /\ Answerable(conn[c]) => conn[c].toldClose
<1>1. WebInv /\ [Next]_vars => [\A c \in Clients : Lost(c)]_vars
  <2> SUFFICES ASSUME WebInv, Next, NEW c \in Clients, ~Away(c), Away(c)', Answerable(conn[c])
               PROVE  conn[c].toldClose
    OBVIOUS
  <2>1. ASSUME UNCHANGED <<unclaimed, current>> PROVE FALSE
    BY <2>1, Zenon DEF Away
  <2>2. ASSUME NEW d \in Clients, Accept(d) PROVE FALSE
    <3>1. \A e : Contains(unclaimed', e) <=> Contains(unclaimed, e) \/ e = d
      BY <2>2, ClientJoins DEF Accept, WebInv, TypeOK, Queue, Away
    <3> QED BY <2>2, <3>1 DEF Away, Accept
  <2>3. CASE HandleClient
    <3>0. PICK d \in Clients : \E s, a, waiting :
            TakenUp(d, s, a, waiting) /\ (Held(d, waiting) \/ Dropped(d, waiting))
      BY <2>3, HandleClientIs
    <3>1. PICK s, a, waiting :
            TakenUp(d, s, a, waiting) /\ (Held(d, waiting) \/ Dropped(d, waiting))
      BY <3>0
    <3>2. c = d
      BY <3>1, AwayAfter
    <3>3. ~Held(d, waiting)
      BY <3>1, <3>2, AwayAfter DEF Away
    <3> QED BY <3>1, <3>2, <3>3 DEF Dropped
  <2>4. HandleClient \/ (\E d \in Clients : Accept(d)) \/ UNCHANGED <<unclaimed, current>>
    BY Zenon DEF Next, Completes, Leave, Request, Elapse, Stray, server
  <2> QED BY <2>1, <2>2, <2>3, <2>4
<1> QED BY <1>1, ServerInvariant, PTL DEF Spec, NoRequestLost
=============================================================================
