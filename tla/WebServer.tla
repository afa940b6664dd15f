----------------------------- MODULE WebServer ------------------------------
(***************************************************************************)
(* ESP8266WebServer over WiFiServer: handleClient serves one connection    *)
(* at a time, keeps it open between requests while nobody else waits, and  *)
(* gives up clients that stay silent.  Clients connect, send requests, one *)
(* behind the other or in two pieces, and leave.                           *)
(*                                                                         *)
(* The sketch answers each request once, but it also calls send outside of *)
(* a request, when a timer has run out: Stray.  Such an answer goes to the *)
(* connection that is being served, if there is one.  Routes, headers and  *)
(* bodies are left out, and so is /restart, which ends every connection;   *)
(* the requests of a connection are numbered 0 and 1 in turn.              *)
(***************************************************************************)
EXTENDS Naturals, Sequences, SequencesExt

CONSTANTS
  Clients,  \* the clients, with one connection each
  Ahead,    \* bound: requests, and pieces of them, on a connection
  None

ASSUME WebAssumption == Ahead \in Nat \ {0} /\ None \notin Clients

VARIABLES
  unclaimed,  \* _unclaimed: connections that nobody serves yet
  current,    \* _currentClient, or None
  status,     \* _currentStatus: "none", "read" or "close"
  age,        \* time since _statusChange: 0 up to 2 s, 1 up to 5 s, 2 more
  keepAlive,  \* _keepAlive
  conn        \* the connections

vars == <<unclaimed, current, status, age, keepAlive, conn>>

Kinds  == {"keep", "close", "bad"}
Parts  == {"whole", "line", "rest"}
Pieces == [id : 0..1, kind : Kinds, part : Parts]

\* A connection: what has arrived and is not read, and whether the client is
\* still there; as the client sees it the requests that have no answer, and
\* whether the last answer announced the end.  History: a stray answer or a
\* request cut in two has disturbed the order, which is not followed from then
\* on; before that an answer met the wrong request.
Connections ==
  [inbox : BoundedSeq(Pieces, Ahead), there : BOOLEAN,
   owed : BoundedSeq(0..1, Ahead), toldClose : BOOLEAN,
   disturbed : BOOLEAN, wrong : BOOLEAN]

Fresh == [inbox |-> <<>>, there |-> TRUE, owed |-> <<>>, toldClose |-> FALSE,
          disturbed |-> FALSE, wrong |-> FALSE]
NoConnection == [Fresh EXCEPT !.there = FALSE]

Away(c) == c # current /\ ~Contains(unclaimed, c)

TypeOK ==
  /\ unclaimed \in Seq(Clients) /\ IsInjective(unclaimed)
  /\ current \in Clients \cup {None} /\ ~Contains(unclaimed, current)
  /\ status \in (IF current = None THEN {"none"} ELSE {"read", "close"})
  /\ age \in 0..2 /\ keepAlive \in BOOLEAN
  /\ conn \in [Clients -> Connections]
  /\ \A c \in Clients : Away(c) => conn[c] = NoConnection

Init ==
  /\ unclaimed = <<>> /\ current = None /\ status = "none"
  /\ age = 0 /\ keepAlive = FALSE
  /\ conn = [c \in Clients |-> NoConnection]

-----------------------------------------------------------------------------
(* The clients.                                                            *)

server == <<unclaimed, current, status, age, keepAlive>>

Accept(c) ==
  /\ Away(c)
  /\ unclaimed' = Append(unclaimed, c)
  /\ conn' = [conn EXCEPT ![c] = Fresh]
  /\ UNCHANGED <<current, status, age, keepAlive>>

NextId(owed) == IF owed = <<>> THEN 0 ELSE 1 - Last(owed)

\* A request arrives, whole or only its first line.
Request(c, kind, part) ==
  LET id == NextId(conn[c].owed) IN
  /\ ~Away(c) /\ conn[c].there
  /\ Len(conn[c].inbox) < Ahead /\ Len(conn[c].owed) < Ahead
  /\ conn[c].inbox # <<>> => Last(conn[c].inbox).part # "line"
  /\ conn' = [conn EXCEPT
       ![c].inbox = Append(@, [id |-> id, kind |-> kind, part |-> part]),
       ![c].owed  = IF conn[c].disturbed THEN @ ELSE Append(@, id)]
  /\ UNCHANGED server

\* The rest of a request arrives before the server gives up waiting for it.
Completes(c) ==
  /\ ~Away(c) /\ conn[c].there
  /\ conn[c].inbox # <<>> /\ Last(conn[c].inbox).part = "line"
  /\ conn' = [conn EXCEPT ![c].inbox[Len(conn[c].inbox)].part = "whole"]
  /\ UNCHANGED server

Leave(c) ==
  /\ ~Away(c) /\ conn[c].there
  /\ conn' = [conn EXCEPT ![c].there = FALSE]
  /\ UNCHANGED server

Elapse ==
  /\ current # None /\ age < 2
  /\ age' = age + 1
  /\ UNCHANGED <<unclaimed, current, status, keepAlive, conn>>

-----------------------------------------------------------------------------
(* handleClient, for client c with status s, when the connections in       *)
(* waiting are unclaimed.                                                  *)

\* The client takes an answer for that to its oldest request.
Answered(k, id, keep) ==
  LET inOrder == k.owed # <<>> /\ Head(k.owed) = id IN
  [k EXCEPT !.owed      = IF inOrder THEN Tail(@) ELSE @,
            !.toldClose = ~keep,
            !.wrong     = @ \/ (~k.disturbed /\ ~inOrder)]

Disturbed(k) == [k EXCEPT !.disturbed = TRUE, !.owed = <<>>]

\* Slip: another client that waits does not end keep-alive.
Keep_Selfish(keep, waiting) == keep

\* _prepareHeader: keep-alive ends when another client waits.
Keep(keep, waiting) == keep /\ waiting = <<>>

\* Slip: the status of the client before is kept.
Drop_KeepsStatus(c, waiting) ==
  /\ unclaimed' = waiting
  /\ current' = None /\ status' = status /\ age' = 0
  /\ conn' = [conn EXCEPT ![c] = NoConnection]

Drop(c, waiting) ==
  /\ unclaimed' = waiting
  /\ current' = None /\ status' = "none" /\ age' = 0
  /\ conn' = [conn EXCEPT ![c] = NoConnection]

Hold(c, s, a, waiting) ==
  /\ unclaimed' = waiting
  /\ current' = c /\ status' = s /\ age' = a

Available(c) == conn[c].inbox # <<>>
Alive(c)     == conn[c].there \/ Available(c)

\* Slip: the handler answers, and so does the one for what is not found.
Served_Twice(k, id, keep) ==
  Answered(Answered([k EXCEPT !.inbox = Tail(@)], id, keep), id, keep)

Served(k, id, keep) == Answered([k EXCEPT !.inbox = Tail(@)], id, keep)

\* A request is read to its end and answered.  After 5 s at the latest one that
\* was cut is taken as it is, and what comes later for another request.
Serve(c, waiting) ==
  /\ Available(c)
  /\ LET p    == Head(conn[c].inbox)
         late == p.part = "line" /\ conn[c].there
     IN
     /\ p.kind # "bad"
     /\ \E asked \in (IF p.part = "whole" THEN {p.kind = "keep"} ELSE BOOLEAN) :
          /\ keepAlive' = Keep(asked, waiting)
          /\ LET k == Served(IF p.part = "whole" THEN conn[c] ELSE Disturbed(conn[c]),
                             p.id, keepAlive')
             IN
             IF conn[c].there \/ k.inbox # <<>>
             THEN /\ Hold(c, "close", 0, waiting)
                  /\ \E rest \in (IF late THEN {<<>>, <<[p EXCEPT !.part = "rest"]>>} ELSE {<<>>}) :
                       conn' = [conn EXCEPT ![c] = [k EXCEPT !.inbox = rest \o @]]
             ELSE Drop(c, waiting)

\* _parseRequest makes nothing of it: CLIENT_MUST_STOP.
MustStop(c, waiting) ==
  /\ Available(c)
  /\ Head(conn[c].inbox).kind = "bad" \/ Head(conn[c].inbox).part # "whole"
  /\ Drop(c, waiting)
  /\ keepAlive' \in {keepAlive, TRUE, FALSE}

\* Nothing to read yet.
WaitRead(c, a, waiting) ==
  /\ ~Available(c)
  /\ IF a < 2 THEN Hold(c, "read", a, waiting) /\ UNCHANGED conn ELSE Drop(c, waiting)
  /\ UNCHANGED keepAlive

\* Nobody else waits, and the client has 2 s to ask again or to leave.
WaitClose(c, a, waiting) ==
  /\ IF waiting = <<>> /\ a = 0
     THEN /\ Hold(c, IF Available(c) THEN "read" ELSE "close", a, waiting)
          /\ UNCHANGED conn
     ELSE Drop(c, waiting)
  /\ UNCHANGED keepAlive

\* Slip: the next request is read only if nobody else has come meanwhile.
StatusNow_NoShortcut(c, s) == s

\* On a connection that is kept alive the next request is read at once.
StatusNow(c, s) == IF Available(c) /\ keepAlive THEN "read" ELSE s

Handle(c, s, a, waiting) ==
  \/ ~Alive(c) /\ Drop(c, waiting) /\ UNCHANGED keepAlive
  \/ /\ Alive(c) /\ StatusNow(c, s) = "read"
     /\ Serve(c, waiting) \/ MustStop(c, waiting) \/ WaitRead(c, a, waiting)
  \/ Alive(c) /\ StatusNow(c, s) = "close" /\ WaitClose(c, a, waiting)

HandleClient ==
  \/ current # None /\ Handle(current, status, age, unclaimed)
  \/ current = None /\ unclaimed # <<>> /\ Handle(Head(unclaimed), "read", 0, Tail(unclaimed))

\* GetNextTimer calls send between two calls of handleClient.
Stray ==
  /\ current # None
  /\ keepAlive' = Keep(keepAlive, unclaimed)
  /\ conn' = [conn EXCEPT ![current] =
       [Disturbed(@) EXCEPT !.toldClose = ~keepAlive']]
  /\ UNCHANGED <<unclaimed, current, status, age>>

-----------------------------------------------------------------------------
Next ==
  \/ \E c \in Clients :
       \/ Accept(c) \/ Completes(c) \/ Leave(c)
       \/ \E kind \in Kinds : Request(c, kind, "whole")
       \/ \E kind \in {"keep", "close"} : Request(c, kind, "line")
  \/ Elapse
  \/ HandleClient
  \/ Stray

\* loop() comes round, and time passes.
Spec == Init /\ [][Next]_vars /\ WF_vars(HandleClient) /\ WF_vars(Elapse)

-----------------------------------------------------------------------------
(* Properties.                                                             *)

\* Each answer is that to the request in its position, on every connection on
\* which no timer's answer intruded and no request was cut (handleClient, send).
AnswersInOrder == \A c \in Clients : ~conn[c].wrong

\* A connection is not closed over a request that was sent while the last
\* answer promised to keep it, whoever else connects (handleClient).
Answerable(k) ==
  k.there /\ k.inbox # <<>> /\ Head(k.inbox).kind # "bad" /\ Head(k.inbox).part = "whole"

NoRequestLost ==
  [][ \A c \in Clients :
        ~Away(c) /\ Away(c)' /\ Answerable(conn[c]) => conn[c].toldClose ]_vars

\* A client that waits gets its turn, however long the client before it goes on
\* asking (handleClient, _prepareHeader).
NoStarvation ==
  \A c \in Clients : Contains(unclaimed, c) ~> ~Contains(unclaimed, c)
=============================================================================
