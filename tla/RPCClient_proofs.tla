-------------------------- MODULE RPCClient_proofs --------------------------
(* For any number of threads, calls and connections: an RPCCaller that is    *)
(* not closed while a call is under way gives each call the answer to its    *)
(* own request, and refuses one only for a reason.  For any configuration,   *)
(* its settings are those of one network, and its defaults those of the      *)
(* current chain parameters.                                                 *)
EXTENDS RPCClient, NaturalsInduction, WellFoundedInduction,
        SequenceTheorems, TLAPS

-----------------------------------------------------------------------------
(* The inductive invariant.                                                  *)

\* What a socket may hold: a request, an answer or nothing.
Quiet(s) == sockets[s].requests = <<>> /\ sockets[s].responses = <<>>
Waiting(s, id) == sockets[s].requests = <<id>> /\ sockets[s].responses = <<>>
Answered(s, id) == sockets[s].requests = <<>> /\ sockets[s].responses = <<id>>

\* Every request is on one socket until it is executed.
ServedInv ==
    /\ \A s \in DOMAIN sockets :
          Quiet(s) \/ \E id \in Ids : Waiting(s, id) \/ Answered(s, id)
    /\ \A s \in DOMAIN sockets, id \in Ids :
          /\ Waiting(s, id) =>
                /\ id <= id_count /\ executed[id] = 0
                /\ \A r \in DOMAIN sockets \ {s} : ~Waiting(r, id)
          /\ Answered(s, id) => id <= id_count /\ executed[id] = 1
    /\ \A id \in Ids :
          /\ executed[id] \in {0, 1}
          /\ id > id_count => executed[id] = 0

\* The connection is ready only when nothing is left on its socket, and
\* otherwise there is a call to blame.
ConnInv ==
    /\ conn.state = "idle" /\ conn.sock # 0 => Quiet(conn.sock)
    /\ conn.state = "sent" => failed \/ \E t \in Threads : pc[t] = "sent"
    /\ conn.unread # 0 =>
          failed \/ \E t \in Threads : pc[t] = "got" /\ call[t] = conn.unread

\* One call at a time waits, for what is on the socket.
SentOk(t) ==
    /\ conn.state = "sent" /\ conn.sock # 0 /\ call[t] # 0
    /\ \/ Quiet(conn.sock)
       \/ Waiting(conn.sock, call[t])
       \/ Answered(conn.sock, call[t])
    /\ \A u \in Threads \ {t} : pc[u] # "sent"

\* What it reads then is its own answer.
GotOk(t) ==
    call[t] # 0 /\ response[t].id = call[t] /\ executed[call[t]] = 1

EndedOk(t) ==
    /\ outcome[t] = "returned" => call[t] # 0 /\ executed[call[t]] = 1
    /\ outcome[t] \in {"CannotSendRequest", "TypeError"} =>
          /\ call[t] # 0 /\ executed[call[t]] = 0
          /\ \A s \in DOMAIN sockets : ~Waiting(s, call[t])

CallOk(t) ==
    /\ call[t] <= id_count
    /\ pc[t] = "sent" => SentOk(t)
    /\ pc[t] = "got" => GotOk(t)
    /\ pc[t] = "idle" => EndedOk(t)

CallsInv == \A t \in Threads : CallOk(t)

IInv == ~CloseInFlight /\ TypeOK /\ ServedInv /\ ConnInv /\ CallsInv

-----------------------------------------------------------------------------
(* Sockets.                                                                  *)

LEMMA OneElement ==
    ASSUME NEW x
    PROVE  /\ Head(<<x>>) = x /\ Tail(<<x>>) = <<>> /\ <<x>> # <<>>
           /\ Append(<<>>, x) = <<x>>
           /\ \A y : <<x>> = <<y>> => x = y
OBVIOUS

LEMMA Update ==
    ASSUME NEW S, NEW f \in Seq(S), NEW i \in DOMAIN f, NEW x \in S
    PROVE  /\ [f EXCEPT ![i] = x] \in Seq(S)
           /\ DOMAIN [f EXCEPT ![i] = x] = DOMAIN f
           /\ Len([f EXCEPT ![i] = x]) = Len(f)
           /\ [f EXCEPT ![i] = x][i] = x
           /\ \A j \in DOMAIN f \ {i} : [f EXCEPT ![i] = x][j] = f[j]
OBVIOUS

LEMMA Appended ==
    ASSUME NEW S, NEW f \in Seq(S), NEW x \in S
    PROVE  /\ Append(f, x) \in Seq(S)
           /\ DOMAIN Append(f, x) = DOMAIN f \cup {Len(f) + 1}
           /\ Len(Append(f, x)) = Len(f) + 1
           /\ Len(f) + 1 \in 1 .. Len(Append(f, x))
           /\ Append(f, x)[Len(f) + 1] = x
           /\ \A j \in DOMAIN f : Append(f, x)[j] = f[j]
           /\ Len(f) + 1 \notin DOMAIN f
OBVIOUS

LEMMA SocketFields ==
    ASSUME NEW open \in BOOLEAN, NEW requests \in Seq(Ids), NEW responses \in Seq(Ids)
    PROVE  /\ Socket(open, requests, responses) \in Sockets
           /\ Socket(open, requests, responses).requests = requests
           /\ Socket(open, requests, responses).responses = responses
BY DEF Socket, Sockets

LEMMA SocketTypes ==
    ASSUME NEW x \in Sockets
    PROVE  x.open \in BOOLEAN /\ x.requests \in Seq(Ids) /\ x.responses \in Seq(Ids)
BY DEF Sockets

LEMMA ShortSeqs == <<>> \in Seq(Ids) /\ \A id \in Ids : <<id>> \in Seq(Ids)
OBVIOUS

\* Connections and responses.
LEMMA ConnTypes ==
    ASSUME NEW c \in Connections
    PROVE  /\ c.state \in {"idle", "sent"} /\ c.unread \in {0} \cup Ids
           /\ c.sock \in 0 .. MaxSockets
BY DEF Connections

LEMMA FreshConn ==
    /\ MaxSockets \in Nat
    /\ Fresh \in Connections
    /\ Fresh.state = "idle" /\ Fresh.sock = 0 /\ Fresh.unread = 0
BY RPCAssumption DEF Connections, Fresh

LEMMA FreshFits ==
    ASSUME IInv, conn' = Fresh
    PROVE  conn' \in Connections /\ conn'.sock <= Len(sockets)
<1>1. Fresh \in Connections /\ Fresh.sock = 0 /\ conn.sock \in 0 .. MaxSockets
  BY FreshConn, ConnTypes DEF IInv, TypeOK
<1>2. QED
  BY <1>1 DEF IInv, TypeOK

LEMMA ConnRead ==
    ASSUME NEW c \in Connections, NEW u, NEW d,
           d = [c EXCEPT !.unread = IF @ = u THEN 0 ELSE @]
    PROVE  /\ d \in Connections
           /\ d.state = c.state /\ d.sock = c.sock
           /\ d.unread = IF c.unread = u THEN 0 ELSE c.unread
BY DEF Connections

LEMMA ResponseTypes ==
    ASSUME IInv
    PROVE  /\ \A t \in Threads : [response[t] EXCEPT !.closed = TRUE] \in Responses
           /\ \A t \in Threads : [response[t] EXCEPT !.closed = TRUE].id = response[t].id
           /\ Closed(response) \in [Threads -> Responses]
           /\ \A t \in Threads : Closed(response)[t].id = response[t].id
<1> USE DEF IInv, TypeOK
<1>1. \A x \in Responses : /\ [x EXCEPT !.closed = TRUE] \in Responses
                           /\ [x EXCEPT !.closed = TRUE].id = x.id
  BY DEF Responses
<1>2. QED
  BY <1>1 DEF Closed

\* What sending does to the sockets: only to that of the connection.
LEMMA Sent ==
    ASSUME IInv, conn.state = "idle", NEW id \in Ids,
           sockets' \in {Opened, Delivered(id)}
    PROVE  /\ sockets' \in Seq(Sockets)
           /\ Target \in 1 .. Len(Opened) /\ Len(sockets') = Len(Opened)
           /\ DOMAIN sockets' = DOMAIN sockets \cup {Target}
           /\ \A s \in DOMAIN sockets \ {Target} : sockets'[s] = sockets[s]
           /\ sockets'[Target].requests \in {<<>>, <<id>>}
           /\ sockets'[Target].responses = <<>>
           /\ Target \in DOMAIN sockets => Quiet(Target)
<1>0. sockets \in Seq(Sockets) /\ conn \in Connections /\ conn.sock <= Len(sockets)
  BY DEF IInv, TypeOK
<1>1. /\ Opened \in Seq(Sockets)
      /\ Target \in 1 .. Len(Opened)
      /\ DOMAIN Opened = DOMAIN sockets \cup {Target}
      /\ \A s \in DOMAIN sockets \ {Target} : Opened[s] = sockets[s]
      /\ Opened[Target].requests = <<>> /\ Opened[Target].responses = <<>>
      /\ Target \in DOMAIN sockets => Quiet(Target)
  <2>1. CASE HasSocket
    <3>1. conn.sock \in 1 .. Len(sockets)
      BY <1>0, <2>1, ConnTypes, FreshConn DEF HasSocket
    <3>2. Opened = sockets /\ Target = conn.sock
      BY <2>1 DEF Opened, Target
    <3>3. Quiet(conn.sock)
      BY <2>1, <3>1 DEF ConnInv, HasSocket, IInv
    <3>4. sockets[conn.sock].requests = <<>> /\ sockets[conn.sock].responses = <<>>
      BY <3>3 DEF Quiet
    <3>5. conn.sock \in DOMAIN sockets
      BY <1>0, <3>1
    <3>6. QED
      BY ONLY <1>0, <3>1, <3>2, <3>3, <3>4, <3>5
  <2>2. CASE ~HasSocket
    <3>1. PICK new \in Sockets : /\ new = Socket(TRUE, <<>>, <<>>)
                                 /\ new.requests = <<>> /\ new.responses = <<>>
      BY ShortSeqs, SocketFields
    <3>2. Opened = Append(sockets, new) /\ Target = Len(Opened)
      BY <2>2, <3>1 DEF Opened, Target
    <3>3. Target = Len(sockets) + 1
      BY <1>0, <3>2, Appended
    <3>4. /\ Opened \in Seq(Sockets) /\ Target \in 1 .. Len(Opened)
          /\ DOMAIN Opened = DOMAIN sockets \cup {Target} /\ Opened[Target] = new
          /\ \A s \in DOMAIN sockets : Opened[s] = sockets[s]
          /\ Target \notin DOMAIN sockets
      BY <1>0, <3>2, <3>3, Appended
    <3>5. QED
      BY ONLY <3>1, <3>4
  <2>3. QED
    BY <2>1, <2>2
<1>2. CASE sockets' = Opened
  BY ONLY <1>1, <1>2
<1>3. CASE sockets' # Opened
  <2>0. TRUE \in BOOLEAN /\ <<>> \in Seq(Ids) /\ <<id>> \in Seq(Ids)
    BY ShortSeqs
  <2> DEFINE new == Socket(TRUE, <<id>>, <<>>)
  <2>1. new \in Sockets /\ new.requests = <<id>> /\ new.responses = <<>>
    BY <2>0 DEF Socket, Sockets
  <2> HIDE DEF new
  <2>2. sockets' = [Opened EXCEPT ![Target] = new]
    BY <1>1, <1>3, OneElement DEF Delivered, new
  <2>3. /\ sockets' \in Seq(Sockets) /\ DOMAIN sockets' = DOMAIN Opened
        /\ Len(sockets') = Len(Opened) /\ sockets'[Target] = new
        /\ \A s \in DOMAIN Opened \ {Target} : sockets'[s] = Opened[s]
    BY <1>1, <2>1, <2>2, Update
  <2>4. QED
    BY ONLY <1>1, <2>1, <2>3
<1>4. QED
  BY <1>2, <1>3

\* What the first answer on a socket is, and the socket without it.
LEMMA Received ==
    ASSUME IInv, NEW t \in Threads, GetResponse(t)
    PROVE  /\ Head(Incoming) = call[t] /\ call[t] \in Ids /\ executed[call[t]] = 1
           /\ conn.sock \in DOMAIN sockets
           /\ sockets' \in Seq(Sockets) /\ DOMAIN sockets' = DOMAIN sockets
           /\ Len(sockets') = Len(sockets)
           /\ \A s \in DOMAIN sockets \ {conn.sock} : sockets'[s] = sockets[s]
           /\ sockets'[conn.sock].requests = <<>>
           /\ sockets'[conn.sock].responses = <<>>
<1> USE DEF IInv, TypeOK
<1>1. pc[t] = "sent" /\ conn.sock # 0 /\ call[t] # 0 /\ Incoming # <<>>
  BY DEF GetResponse, CallsInv, CallOk, SentOk, HasSocket
<1>2. conn.sock \in DOMAIN sockets /\ call[t] \in Ids /\ sockets[conn.sock] \in Sockets
  BY <1>1, ConnTypes, FreshConn
<1>3. Answered(conn.sock, call[t])
  BY <1>1, <1>2 DEF CallsInv, CallOk, SentOk, Incoming, Quiet, Waiting
<1>4. executed[call[t]] = 1
  BY <1>2, <1>3 DEF ServedInv
<1>5. Head(Incoming) = call[t] /\ Tail(Incoming) = <<>>
  BY <1>3, OneElement DEF Answered, Incoming
<1> DEFINE new == Socket(sockets[conn.sock].open, sockets[conn.sock].requests, <<>>)
<1>6. new \in Sockets /\ new.requests = <<>> /\ new.responses = <<>>
  <2>1. /\ sockets[conn.sock].open \in BOOLEAN /\ <<>> \in Seq(Ids)
        /\ sockets[conn.sock].requests = <<>>
    BY <1>2, <1>3, ShortSeqs, SocketTypes DEF Answered
  <2>2. QED
    BY <2>1 DEF Socket, Sockets
<1>7. sockets' = [sockets EXCEPT ![conn.sock] = new]
  BY <1>5 DEF GetResponse, Incoming
<1> HIDE DEF new
<1>8. QED
  BY <1>2, <1>4, <1>5, <1>6, <1>7, Update

\* What executing the request on a socket does.
LEMMA Executed ==
    ASSUME IInv, NEW s \in DOMAIN sockets, Execute(s)
    PROVE  \E id \in Ids :
              /\ Waiting(s, id)
              /\ executed[id] = 0
              /\ executed' \in [Ids -> Nat] /\ executed'[id] = 1
              /\ \A j \in Ids \ {id} : executed'[j] = executed[j]
              /\ sockets' \in Seq(Sockets) /\ DOMAIN sockets' = DOMAIN sockets
              /\ Len(sockets') = Len(sockets)
              /\ \A r \in DOMAIN sockets \ {s} : sockets'[r] = sockets[r]
              /\ sockets'[s].requests = <<>>
              /\ sockets'[s].responses = <<id>>
<1> USE DEF IInv, TypeOK
<1>1. PICK id \in Ids : Waiting(s, id)
  BY DEF Execute, ServedInv, Quiet, Answered
<1> DEFINE new == Socket(TRUE, <<>>, <<id>>)
<1>2. new \in Sockets /\ new.requests = <<>> /\ new.responses = <<id>>
  <2>1. TRUE \in BOOLEAN /\ <<>> \in Seq(Ids) /\ <<id>> \in Seq(Ids)
    BY ShortSeqs
  <2>2. QED
    BY <2>1 DEF Socket, Sockets
<1>3. /\ sockets' = [sockets EXCEPT ![s] = new]
      /\ executed' = [executed EXCEPT ![id] = @ + 1]
  BY <1>1, OneElement DEF Execute, Waiting
<1> HIDE DEF new
<1>4. /\ sockets' \in Seq(Sockets) /\ DOMAIN sockets' = DOMAIN sockets
      /\ Len(sockets') = Len(sockets) /\ sockets'[s] = new
      /\ \A r \in DOMAIN sockets \ {s} : sockets'[r] = sockets[r]
  BY <1>2, <1>3, Update
<1>5. executed[id] = 0 /\ executed \in [Ids -> Nat]
  BY <1>1 DEF ServedInv
<1>6. /\ executed' \in [Ids -> Nat] /\ executed'[id] = 1
      /\ \A j \in Ids \ {id} : executed'[j] = executed[j]
  BY ONLY <1>3, <1>5
<1>7. QED
  BY <1>1, <1>2, <1>4, <1>5, <1>6

LEMMA HungUp ==
    ASSUME IInv, NEW s \in DOMAIN sockets, Hangup(s)
    PROVE  /\ sockets' \in Seq(Sockets) /\ DOMAIN sockets' = DOMAIN sockets
           /\ Len(sockets') = Len(sockets)
           /\ \A r \in DOMAIN sockets \ {s} : sockets'[r] = sockets[r]
           /\ sockets'[s].requests = <<>>
           /\ sockets'[s].responses = sockets[s].responses
<1> USE DEF IInv, TypeOK
<1> DEFINE new == Socket(FALSE, <<>>, sockets[s].responses)
<1>1. /\ new \in Sockets
      /\ new.requests = <<>> /\ new.responses = sockets[s].responses
  <2>1. /\ FALSE \in BOOLEAN /\ <<>> \in Seq(Ids)
        /\ sockets[s].responses \in Seq(Ids)
    BY ShortSeqs, SocketTypes
  <2>2. QED
    BY <2>1 DEF Socket, Sockets
<1>2. sockets' = [sockets EXCEPT ![s] = new]
  BY DEF Hangup
<1> HIDE DEF new
<1>3. QED
  BY <1>1, <1>2, Update

-----------------------------------------------------------------------------
\* A step that leaves the sockets alone.
LEMMA ServedSame ==
    ASSUME IInv, UNCHANGED <<sockets, executed>>, id_count' \in {id_count, id_count + 1}
    PROVE  ServedInv'
BY RPCAssumption DEF IInv, TypeOK, ServedInv, Quiet, Waiting, Answered, Ids

\* Types.
LEMMA TypeStep ==
    ASSUME IInv, [Next]_vars
    PROVE  TypeOK'
<1> USE RPCAssumption DEF IInv, TypeOK
<1>1. CASE Construct
  <2>1. /\ UNCHANGED <<sockets, conn, response, executed>>
        /\ id_count' \in {0} \cup Ids /\ failed' \in BOOLEAN
    BY <1>1 DEF Construct, Ids
  <2>2. /\ pc' \in [Threads -> {"idle", "sent", "got"}]
        /\ call' \in [Threads -> {0} \cup Ids]
        /\ outcome' \in [Threads -> Outcomes]
    BY <1>1 DEF Construct, Outcomes, Ids
  <2>3. QED
    BY <2>1, <2>2
<1>2. CASE Connect
  <2>1. conn' \in Connections /\ conn'.sock <= Len(sockets)
    <3>1. conn' = Fresh
      BY <1>2 DEF Connect, Reset
    <3>2. QED
      BY <3>1, FreshFits
  <2>2. /\ UNCHANGED <<sockets, executed>> /\ response' \in [Threads -> Responses]
        /\ id_count' \in {0} \cup Ids /\ failed' \in BOOLEAN
    BY <1>2, ResponseTypes DEF Connect, Reset, Ids
  <2>3. /\ pc' \in [Threads -> {"idle", "sent", "got"}]
        /\ call' \in [Threads -> {0} \cup Ids]
        /\ outcome' \in [Threads -> Outcomes]
    BY <1>2 DEF Connect, Reset, Outcomes, Ids
  <2>4. QED
    BY <2>1, <2>2, <2>3
<1>3. CASE Close
  <2>1. conn' \in Connections /\ conn'.sock <= Len(sockets)
    <3>1. conn' = Fresh
      BY <1>3 DEF Close, Reset, Closed
    <3>2. QED
      BY <3>1, FreshFits
  <2>2. /\ UNCHANGED <<sockets, executed>> /\ response' \in [Threads -> Responses]
        /\ id_count' \in {0} \cup Ids /\ failed' \in BOOLEAN
    BY <1>3, ResponseTypes DEF Close, Reset, Closed, Ids
  <2>3. /\ pc' \in [Threads -> {"idle", "sent", "got"}]
        /\ call' \in [Threads -> {0} \cup Ids]
        /\ outcome' \in [Threads -> Outcomes]
    BY <1>3 DEF Close, Reset, Closed, Outcomes, Ids
  <2>4. QED
    BY <2>1, <2>2, <2>3
<1>4. ASSUME NEW t \in Threads, EncodeFails(t)
      PROVE  TypeOK'
  <2>1. /\ UNCHANGED <<sockets, conn, response, executed>>
        /\ id_count' \in {0} \cup Ids /\ failed' \in BOOLEAN
    BY <1>4 DEF EncodeFails, NewCall, End, Ids
  <2>2. /\ pc' \in [Threads -> {"idle", "sent", "got"}]
        /\ call' \in [Threads -> {0} \cup Ids]
        /\ outcome' \in [Threads -> Outcomes]
    BY <1>4 DEF EncodeFails, NewCall, End, Outcomes, Ids
  <2>3. QED
    BY <2>1, <2>2
<1>5. ASSUME NEW t \in Threads, RefuseRequest(t)
      PROVE  TypeOK'
  <2>1. /\ UNCHANGED <<sockets, conn, response, executed>>
        /\ id_count' \in {0} \cup Ids /\ failed' \in BOOLEAN
    BY <1>5 DEF RefuseRequest, NewCall, End, Ids
  <2>2. /\ pc' \in [Threads -> {"idle", "sent", "got"}]
        /\ call' \in [Threads -> {0} \cup Ids]
        /\ outcome' \in [Threads -> Outcomes]
    BY <1>5 DEF RefuseRequest, NewCall, End, Outcomes, Ids
  <2>3. QED
    BY <2>1, <2>2
<1>6. ASSUME NEW t \in Threads, CannotConnect(t)
      PROVE  TypeOK'
  <2>1. conn' \in Connections /\ conn'.sock <= Len(sockets)
    BY <1>6 DEF CannotConnect, NewCall, End, HasSocket, Connections
  <2>2. /\ UNCHANGED <<sockets, executed>> /\ response' \in [Threads -> Responses]
        /\ id_count' \in {0} \cup Ids /\ failed' \in BOOLEAN
    BY <1>6, ResponseTypes DEF CannotConnect, NewCall, End, HasSocket, Ids
  <2>3. /\ pc' \in [Threads -> {"idle", "sent", "got"}]
        /\ call' \in [Threads -> {0} \cup Ids]
        /\ outcome' \in [Threads -> Outcomes]
    BY <1>6 DEF CannotConnect, NewCall, End, HasSocket, Outcomes, Ids
  <2>4. QED
    BY <2>1, <2>2, <2>3
<1>7. ASSUME NEW t \in Threads, Request(t)
      PROVE  TypeOK'
  <2>1. id_count + 1 \in Ids /\ sockets' \in {Opened, Delivered(id_count + 1)}
        /\ conn.state = "idle" /\ Len(Opened) <= MaxSockets
        /\ conn' = [conn EXCEPT !.state = "sent", !.sock = Target]
    BY <1>7 DEF Request, NewCall, End, HasSocket, Ids
  <2>2. /\ sockets' \in Seq(Sockets) /\ Len(sockets') = Len(Opened)
        /\ Len(Opened) \in Nat /\ Target \in 1 .. Len(Opened)
    BY <2>1, Sent
  <2>3. conn' \in Connections /\ conn'.sock = Target
    <3>1. Target \in 0 .. MaxSockets
      BY <2>1, <2>2
    <3>2. QED
      BY <2>1, <3>1 DEF Connections
  <2>4. /\ UNCHANGED <<response, executed>>
        /\ id_count' \in {0} \cup Ids /\ failed' \in BOOLEAN
    BY <1>7, <2>1 DEF Request, NewCall, End, HasSocket
  <2>5. /\ pc' \in [Threads -> {"idle", "sent", "got"}]
        /\ call' \in [Threads -> {0} \cup Ids]
        /\ outcome' \in [Threads -> Outcomes]
    BY <1>7, <2>1 DEF Request, NewCall, End, HasSocket, Outcomes
  <2>6. QED
    BY <2>1, <2>2, <2>3, <2>4, <2>5
<1>8. ASSUME NEW t \in Threads, RefuseResponse(t)
      PROVE  TypeOK'
  <2>1. /\ UNCHANGED <<sockets, conn, response, executed>>
        /\ id_count' \in {0} \cup Ids /\ failed' \in BOOLEAN
    BY <1>8 DEF RefuseResponse, End, Keep, Ids
  <2>2. /\ pc' \in [Threads -> {"idle", "sent", "got"}]
        /\ call' \in [Threads -> {0} \cup Ids]
        /\ outcome' \in [Threads -> Outcomes]
    BY <1>8 DEF RefuseResponse, End, Keep, Outcomes, Ids
  <2>3. QED
    BY <2>1, <2>2
<1>9. ASSUME NEW t \in Threads, GetResponse(t)
      PROVE  TypeOK'
  <2>1. /\ Head(Incoming) = call[t] /\ call[t] \in Ids
        /\ sockets' \in Seq(Sockets) /\ Len(sockets') = Len(sockets)
    BY <1>9, Received
  <2>2. conn' \in Connections /\ conn'.sock <= Len(sockets)
    <3>1. CASE conn' = Fresh
      BY <2>1, <3>1, FreshFits
    <3>2. CASE conn' = [conn EXCEPT !.state = "idle", !.unread = call[t]]
      BY <2>1, <3>2 DEF Connections
    <3>3. QED
      BY <1>9, <3>1, <3>2 DEF GetResponse, Keep, NotReady, HasSocket
  <2>3. response' \in [Threads -> Responses]
    BY <1>9, <2>1 DEF GetResponse, Keep, NotReady, HasSocket, Responses
  <2>4. QED
    BY <1>9, <2>1, <2>2, <2>3 DEF GetResponse, Keep, NotReady, HasSocket
<1>10. ASSUME NEW t \in Threads, Disconnected(t)
      PROVE  TypeOK'
  <2>1. conn' \in Connections /\ conn'.sock <= Len(sockets)
    <3>1. conn' = Fresh
      BY <1>10 DEF Disconnected, End, Closed, Keep, NotReady
    <3>2. QED
      BY <3>1, FreshFits
  <2>2. /\ UNCHANGED <<sockets, executed>> /\ response' \in [Threads -> Responses]
        /\ id_count' \in {0} \cup Ids /\ failed' \in BOOLEAN
    BY <1>10, ResponseTypes DEF Disconnected, End, Closed, Keep, NotReady, Ids
  <2>3. /\ pc' \in [Threads -> {"idle", "sent", "got"}]
        /\ call' \in [Threads -> {0} \cup Ids]
        /\ outcome' \in [Threads -> Outcomes]
    BY <1>10 DEF Disconnected, End, Closed, Keep, NotReady, Outcomes, Ids
  <2>4. QED
    BY <2>1, <2>2, <2>3
<1>11. ASSUME NEW t \in Threads, Timeout(t)
      PROVE  TypeOK'
  <2>1. /\ UNCHANGED <<sockets, conn, response, executed>>
        /\ id_count' \in {0} \cup Ids /\ failed' \in BOOLEAN
    BY <1>11 DEF Timeout, End, Keep, NotReady, HasSocket, Ids
  <2>2. /\ pc' \in [Threads -> {"idle", "sent", "got"}]
        /\ call' \in [Threads -> {0} \cup Ids]
        /\ outcome' \in [Threads -> Outcomes]
    BY <1>11 DEF Timeout, End, Keep, NotReady, HasSocket, Outcomes, Ids
  <2>3. QED
    BY <2>1, <2>2
<1>12. ASSUME NEW t \in Threads, Read(t)
      PROVE  TypeOK'
  <2>1. conn' \in Connections /\ conn'.sock <= Len(sockets)
    <3>1. conn' = [conn EXCEPT !.unread =
                          IF conn.unread = call[t] THEN 0 ELSE conn.unread]
      BY <1>12 DEF Read, End, Keep, Result
    <3>2. QED
      BY <3>1 DEF Connections
  <2>2. /\ UNCHANGED <<sockets, executed>> /\ response' \in [Threads -> Responses]
        /\ id_count' \in {0} \cup Ids /\ failed' \in BOOLEAN
    BY <1>12, ResponseTypes DEF Read, End, Keep, Result, Ids
  <2>3. /\ pc' \in [Threads -> {"idle", "sent", "got"}]
        /\ call' \in [Threads -> {0} \cup Ids]
        /\ outcome' \in [Threads -> Outcomes]
    BY <1>12 DEF Read, End, Keep, Result, Outcomes, Ids
  <2>4. QED
    BY <2>1, <2>2, <2>3
<1>13. ASSUME NEW t \in Threads, ReadTimeout(t)
      PROVE  TypeOK'
  <2>1. /\ UNCHANGED <<sockets, conn, response, executed>>
        /\ id_count' \in {0} \cup Ids /\ failed' \in BOOLEAN
    BY <1>13 DEF ReadTimeout, End, Keep, Ids
  <2>2. /\ pc' \in [Threads -> {"idle", "sent", "got"}]
        /\ call' \in [Threads -> {0} \cup Ids]
        /\ outcome' \in [Threads -> Outcomes]
    BY <1>13 DEF ReadTimeout, End, Keep, Outcomes, Ids
  <2>3. QED
    BY <2>1, <2>2
<1>14. ASSUME NEW s \in DOMAIN sockets, Execute(s)
      PROVE  TypeOK'
  <2>1. PICK id \in Ids :
           /\ Waiting(s, id)
           /\ executed[id] = 0
           /\ executed' \in [Ids -> Nat] /\ executed'[id] = 1
           /\ \A j \in Ids \ {id} : executed'[j] = executed[j]
           /\ sockets' \in Seq(Sockets) /\ DOMAIN sockets' = DOMAIN sockets
           /\ Len(sockets') = Len(sockets)
           /\ \A r \in DOMAIN sockets \ {s} : sockets'[r] = sockets[r]
           /\ sockets'[s].requests = <<>>
           /\ sockets'[s].responses = <<id>>
    BY <1>14, Executed
  <2>2. QED
    BY <1>14, <2>1 DEF Execute
<1>15. ASSUME NEW s \in DOMAIN sockets, Hangup(s)
      PROVE  TypeOK'
  BY <1>15, HungUp DEF Hangup
<1>16. CASE UNCHANGED vars
  <2>1. /\ UNCHANGED <<sockets, conn, response, executed>>
        /\ id_count' \in {0} \cup Ids /\ failed' \in BOOLEAN
    BY <1>16 DEF vars, Ids
  <2>2. /\ pc' \in [Threads -> {"idle", "sent", "got"}]
        /\ call' \in [Threads -> {0} \cup Ids]
        /\ outcome' \in [Threads -> Outcomes]
    BY <1>16 DEF vars, Outcomes, Ids
  <2>3. QED
    BY <2>1, <2>2
<1>17. QED
  BY <1>1, <1>2, <1>3, <1>4, <1>5, <1>6, <1>7, <1>8, <1>9, <1>10,
     <1>11, <1>12, <1>13, <1>14, <1>15, <1>16
  DEF Next, Progress

\* A request is answered as it is taken from its socket.
LEMMA ServedStep ==
    ASSUME IInv, [Next]_vars
    PROVE  ServedInv'
<1> USE RPCAssumption
<1>1. CASE Construct
  <2>1. UNCHANGED <<sockets, executed>> /\ id_count' \in {id_count, id_count + 1}
    BY <1>1 DEF Construct
  <2>2. QED
    BY <2>1, ServedSame
<1>2. CASE Connect
  <2>1. UNCHANGED <<sockets, executed>> /\ id_count' \in {id_count, id_count + 1}
    BY <1>2 DEF Connect, Reset
  <2>2. QED
    BY <2>1, ServedSame
<1>3. CASE Close
  <2>1. UNCHANGED <<sockets, executed>> /\ id_count' \in {id_count, id_count + 1}
    BY <1>3 DEF Close, Reset, Closed
  <2>2. QED
    BY <2>1, ServedSame
<1>4. ASSUME NEW t \in Threads, EncodeFails(t)
      PROVE  ServedInv'
  <2>1. UNCHANGED <<sockets, executed>> /\ id_count' \in {id_count, id_count + 1}
    BY <1>4 DEF EncodeFails, NewCall, End
  <2>2. QED
    BY <2>1, ServedSame
<1>5. ASSUME NEW t \in Threads, RefuseRequest(t)
      PROVE  ServedInv'
  <2>1. UNCHANGED <<sockets, executed>> /\ id_count' \in {id_count, id_count + 1}
    BY <1>5 DEF RefuseRequest, NewCall, End
  <2>2. QED
    BY <2>1, ServedSame
<1>6. ASSUME NEW t \in Threads, CannotConnect(t)
      PROVE  ServedInv'
  <2>1. UNCHANGED <<sockets, executed>> /\ id_count' \in {id_count, id_count + 1}
    BY <1>6 DEF CannotConnect, NewCall, End, HasSocket
  <2>2. QED
    BY <2>1, ServedSame
<1>7. ASSUME NEW t \in Threads, Request(t)
      PROVE  ServedInv'
  <2>0. PICK id \in Ids : id = id_count + 1
    BY <1>7 DEF Request, NewCall, End, HasSocket, IInv, TypeOK, Ids
  <2>1. id \in Ids /\ sockets' \in {Opened, Delivered(id)} /\ conn.state = "idle"
    BY <1>7, <2>0 DEF Request, NewCall, End, HasSocket
  <2>2. PICK k \in 1 .. Len(Opened) :
           /\ DOMAIN sockets' = DOMAIN sockets \cup {k}
           /\ \A s \in DOMAIN sockets \ {k} : sockets'[s] = sockets[s]
           /\ sockets'[k].requests \in {<<>>, <<id>>}
           /\ sockets'[k].responses = <<>>
    BY <2>1, Sent
  <2>3. id_count' = id /\ executed' = executed /\ id_count \in Nat
    BY <1>7, <2>0 DEF Request, NewCall, End, HasSocket, IInv, TypeOK, Ids
  <2>4. \A s \in DOMAIN sockets \ {k}, j \in Ids :
           /\ (Quiet(s)' <=> Quiet(s)) /\ (Waiting(s, j)' <=> Waiting(s, j))
           /\ (Answered(s, j)' <=> Answered(s, j))
    BY <2>2 DEF Quiet, Waiting, Answered
  <2>5. /\ Quiet(k)' \/ Waiting(k, id)'
        /\ \A j \in Ids : ~Answered(k, j)' /\ (Waiting(k, j)' => j = id)
    <3>1. \A j \in Ids : (<<id>> = <<j>> => j = id) /\ <<j>> # <<>>
      BY OneElement
    <3>2. QED
      BY <2>2, <3>1 DEF Quiet, Waiting, Answered
  <2>6. /\ executed[id] = 0
        /\ \A s \in DOMAIN sockets : ~Waiting(s, id)
    BY <2>0, <2>1, <2>3 DEF IInv, ServedInv, Ids
  <2>7. \A j \in Ids : j <= id_count => j <= id_count'
    BY <2>0, <2>3 DEF Ids
  <2>8. \A s \in DOMAIN sockets' :
           Quiet(s)' \/ \E j \in Ids : Waiting(s, j)' \/ Answered(s, j)'
    <3> TAKE s \in DOMAIN sockets'
    <3>1. CASE s = k
      BY <2>1, <2>5, <3>1
    <3>2. CASE s # k
      BY <2>2, <2>4, <3>2 DEF IInv, ServedInv
    <3>3. QED
      BY <3>1, <3>2
  <2>9. \A s \in DOMAIN sockets', j \in Ids :
           /\ Waiting(s, j)' =>
                 /\ j <= id_count' /\ executed'[j] = 0
                 /\ \A r \in DOMAIN sockets' \ {s} : ~Waiting(r, j)'
           /\ Answered(s, j)' => j <= id_count' /\ executed'[j] = 1
    <3> TAKE s \in DOMAIN sockets', j \in Ids
    <3>0. id <= id_count' /\ executed' = executed
      BY <2>3 DEF Ids
    <3>1. CASE s = k
      BY <2>2, <2>4, <2>5, <2>6, <3>0, <3>1
    <3>2. CASE s # k
      <4>1. s \in DOMAIN sockets \ {k}
        BY <2>2, <3>2
      <4>2. /\ Waiting(s, j) => j <= id_count /\ executed[j] = 0 /\ j # id
            /\ Waiting(s, j) => \A r \in DOMAIN sockets \ {s} : ~Waiting(r, j)
            /\ Answered(s, j) => j <= id_count /\ executed[j] = 1
        BY <2>6, <4>1 DEF IInv, ServedInv
      <4>3. Waiting(s, j)' => \A r \in DOMAIN sockets' \ {s} : ~Waiting(r, j)'
        BY <2>2, <2>4, <2>5, <4>1, <4>2
      <4>4. j <= id_count => j <= id_count'
        BY <2>7
      <4>5. QED
        BY <2>4, <3>0, <4>1, <4>2, <4>3, <4>4
    <3>3. QED
      BY <3>1, <3>2
  <2>10. \A j \in Ids : executed'[j] \in {0, 1} /\ (j > id_count' => executed'[j] = 0)
    <3>1. \A j \in Ids : executed[j] \in {0, 1} /\ (j > id_count => executed[j] = 0)
      BY DEF IInv, ServedInv
    <3>2. QED
      BY <2>0, <2>3, <3>1 DEF Ids
  <2>11. QED
    BY <2>8, <2>9, <2>10 DEF ServedInv
<1>8. ASSUME NEW t \in Threads, RefuseResponse(t)
      PROVE  ServedInv'
  <2>1. UNCHANGED <<sockets, executed>> /\ id_count' \in {id_count, id_count + 1}
    BY <1>8 DEF RefuseResponse, End, Keep
  <2>2. QED
    BY <2>1, ServedSame
<1>9. ASSUME NEW t \in Threads, GetResponse(t)
      PROVE  ServedInv'
  <2>1. /\ DOMAIN sockets' = DOMAIN sockets
        /\ \A s \in DOMAIN sockets \ {conn.sock} : sockets'[s] = sockets[s]
        /\ sockets'[conn.sock].requests = <<>>
        /\ sockets'[conn.sock].responses = <<>>
        /\ UNCHANGED <<id_count, executed>>
    BY <1>9, Received DEF GetResponse, Keep, NotReady, HasSocket
  <2>2. QED
    BY <2>1, OneElement DEF IInv, ServedInv, Quiet, Waiting, Answered
<1>10. ASSUME NEW t \in Threads, Disconnected(t)
      PROVE  ServedInv'
  <2>1. UNCHANGED <<sockets, executed>> /\ id_count' \in {id_count, id_count + 1}
    BY <1>10 DEF Disconnected, End, Closed, Keep, NotReady
  <2>2. QED
    BY <2>1, ServedSame
<1>11. ASSUME NEW t \in Threads, Timeout(t)
      PROVE  ServedInv'
  <2>1. UNCHANGED <<sockets, executed>> /\ id_count' \in {id_count, id_count + 1}
    BY <1>11 DEF Timeout, End, Keep, NotReady, HasSocket
  <2>2. QED
    BY <2>1, ServedSame
<1>12. ASSUME NEW t \in Threads, Read(t)
      PROVE  ServedInv'
  <2>1. UNCHANGED <<sockets, executed>> /\ id_count' \in {id_count, id_count + 1}
    BY <1>12 DEF Read, End, Keep, Result
  <2>2. QED
    BY <2>1, ServedSame
<1>13. ASSUME NEW t \in Threads, ReadTimeout(t)
      PROVE  ServedInv'
  <2>1. UNCHANGED <<sockets, executed>> /\ id_count' \in {id_count, id_count + 1}
    BY <1>13 DEF ReadTimeout, End, Keep
  <2>2. QED
    BY <2>1, ServedSame
<1>14. ASSUME NEW s \in DOMAIN sockets, Execute(s)
      PROVE  ServedInv'
  <2>1. PICK id \in Ids :
           /\ Waiting(s, id)
           /\ executed[id] = 0
           /\ executed' \in [Ids -> Nat] /\ executed'[id] = 1
           /\ \A j \in Ids \ {id} : executed'[j] = executed[j]
           /\ sockets' \in Seq(Sockets) /\ DOMAIN sockets' = DOMAIN sockets
           /\ Len(sockets') = Len(sockets)
           /\ \A r \in DOMAIN sockets \ {s} : sockets'[r] = sockets[r]
           /\ sockets'[s].requests = <<>>
           /\ sockets'[s].responses = <<id>>
    BY <1>14, Executed
  <2>2. id <= id_count /\ id_count' = id_count
    BY <1>14, <2>1 DEF Execute, IInv, ServedInv
  <2>3. \A r \in DOMAIN sockets \ {s} : ~Waiting(r, id) /\ ~Answered(r, id)
    BY <2>1 DEF IInv, ServedInv
  <2>4. \A r \in DOMAIN sockets \ {s}, j \in Ids :
           /\ (Quiet(r)' <=> Quiet(r)) /\ (Waiting(r, j)' <=> Waiting(r, j))
           /\ (Answered(r, j)' <=> Answered(r, j))
    BY <2>1 DEF Quiet, Waiting, Answered
  <2>5. /\ Answered(s, id)' /\ ~Quiet(s)'
        /\ \A j \in Ids : ~Waiting(s, j)' /\ (Answered(s, j)' => j = id)
    BY <2>1, OneElement DEF Quiet, Waiting, Answered
  <2>6. \A r \in DOMAIN sockets' :
           Quiet(r)' \/ \E j \in Ids : Waiting(r, j)' \/ Answered(r, j)'
    BY <2>1, <2>4, <2>5 DEF IInv, ServedInv
  <2>7. \A r \in DOMAIN sockets', j \in Ids :
           /\ Waiting(r, j)' =>
                 /\ j <= id_count' /\ executed'[j] = 0
                 /\ \A q \in DOMAIN sockets' \ {r} : ~Waiting(q, j)'
           /\ Answered(r, j)' => j <= id_count' /\ executed'[j] = 1
    <3> TAKE r \in DOMAIN sockets', j \in Ids
    <3>1. CASE r = s
      BY <2>1, <2>2, <2>5, <3>1
    <3>2. CASE r # s
      BY <2>1, <2>2, <2>3, <2>4, <2>5, <3>2 DEF IInv, ServedInv
    <3>3. QED
      BY <3>1, <3>2
  <2>8. \A j \in Ids : executed'[j] \in {0, 1} /\ (j > id_count' => executed'[j] = 0)
    BY <2>1, <2>2 DEF IInv, TypeOK, ServedInv, Ids
  <2>9. QED
    BY <2>6, <2>7, <2>8 DEF ServedInv
<1>15. ASSUME NEW s \in DOMAIN sockets, Hangup(s)
      PROVE  ServedInv'
  <2>1. /\ DOMAIN sockets' = DOMAIN sockets
        /\ \A r \in DOMAIN sockets \ {s} : sockets'[r] = sockets[r]
        /\ sockets'[s].requests = <<>>
        /\ sockets'[s].responses = sockets[s].responses
        /\ UNCHANGED <<id_count, executed>>
    BY <1>15, HungUp DEF Hangup
  <2>2. QED
    BY <2>1, OneElement DEF IInv, ServedInv, Quiet, Waiting, Answered
<1>16. CASE UNCHANGED vars
  <2>1. UNCHANGED <<sockets, executed>> /\ id_count' \in {id_count, id_count + 1}
    BY <1>16 DEF vars
  <2>2. QED
    BY <2>1, ServedSame
<1>17. QED
  BY <1>1, <1>2, <1>3, <1>4, <1>5, <1>6, <1>7, <1>8, <1>9, <1>10,
     <1>11, <1>12, <1>13, <1>14, <1>15, <1>16
  DEF Next, Progress

\* Whoever leaves the connection in use is under way, or has failed.
LEMMA ConnStep ==
    ASSUME IInv, [Next]_vars
    PROVE  ConnInv'
<1> USE RPCAssumption
<1>1. CASE Construct
  <2>1. UNCHANGED <<sockets, conn, failed, pc, call>>
    BY <1>1 DEF Construct
  <2>2. QED
    BY <2>1 DEF IInv, ConnInv, Quiet
<1>2. CASE Connect
  <2>1. conn' = Fresh
    BY <1>2 DEF Connect, Reset
  <2>2. QED
    BY <2>1, FreshConn DEF ConnInv
<1>3. CASE Close
  <2>1. conn' = Fresh
    BY <1>3 DEF Close, Reset, Closed
  <2>2. QED
    BY <2>1, FreshConn DEF ConnInv
<1>4. ASSUME NEW t \in Threads, EncodeFails(t)
      PROVE  ConnInv'
  <2>1. /\ UNCHANGED <<sockets, conn, failed>>
        /\ \A u \in Threads \ {t} : pc'[u] = pc[u] /\ call'[u] = call[u]
        /\ pc[t] = "idle"
    BY <1>4 DEF EncodeFails, NewCall, End, IInv, TypeOK
  <2>2. QED
    BY <2>1 DEF IInv, ConnInv, Quiet
<1>5. ASSUME NEW t \in Threads, RefuseRequest(t)
      PROVE  ConnInv'
  <2>1. /\ UNCHANGED <<sockets, conn, failed>>
        /\ \A u \in Threads \ {t} : pc'[u] = pc[u] /\ call'[u] = call[u]
        /\ pc[t] = "idle"
    BY <1>5 DEF RefuseRequest, NewCall, End, IInv, TypeOK
  <2>2. QED
    BY <2>1 DEF IInv, ConnInv, Quiet
<1>6. ASSUME NEW t \in Threads, CannotConnect(t)
      PROVE  ConnInv'
  <2>1. failed' /\ sockets' = sockets /\ conn.sock = 0 /\ conn \in Connections
        /\ conn' = [conn EXCEPT !.state = "sent"]
    BY <1>6 DEF CannotConnect, NewCall, End, HasSocket, IInv, TypeOK
  <2>2. conn'.state = "sent" /\ conn'.sock = 0
    BY <2>1 DEF Connections
  <2>3. QED
    BY <2>1, <2>2 DEF ConnInv
<1>7. ASSUME NEW t \in Threads, Request(t)
      PROVE  ConnInv'
  <2>1. /\ conn \in Connections
        /\ conn' = [conn EXCEPT !.state = "sent", !.sock = Target]
        /\ failed' \/ (failed' = failed /\ pc'[t] = "sent")
        /\ \A u \in Threads \ {t} : pc'[u] = pc[u] /\ call'[u] = call[u]
        /\ pc[t] = "idle"
    BY <1>7 DEF Request, NewCall, End, HasSocket, IInv, TypeOK
  <2>2. conn'.state = "sent" /\ conn'.unread = conn.unread
    BY <2>1 DEF Connections
  <2>3. QED
    BY <2>1, <2>2 DEF IInv, ConnInv
<1>8. ASSUME NEW t \in Threads, RefuseResponse(t)
      PROVE  ConnInv'
  <2>1. failed' /\ UNCHANGED <<sockets, conn>>
    BY <1>8 DEF RefuseResponse, End, Keep
  <2>2. QED
    BY <2>1 DEF IInv, ConnInv, Quiet
<1>9. ASSUME NEW t \in Threads, GetResponse(t)
      PROVE  ConnInv'
  <2>1. CASE conn' = Fresh
    BY <2>1, FreshConn DEF ConnInv
  <2>2. CASE conn' = [conn EXCEPT !.state = "idle", !.unread = call[t]]
    <3>1. conn'.state = "idle" /\ conn'.sock = conn.sock /\ conn'.unread = call[t]
      BY <2>2 DEF IInv, TypeOK, Connections
    <3>2. Quiet(conn.sock)'
      BY <1>9, <3>1, Received DEF Quiet
    <3>3. pc'[t] = "got" /\ call'[t] = call[t]
      BY <1>9 DEF GetResponse, Keep, NotReady, HasSocket, IInv, TypeOK
    <3>4. QED
      BY <3>1, <3>2, <3>3 DEF ConnInv
  <2>3. QED
    BY <1>9, <2>1, <2>2 DEF GetResponse, Keep, NotReady, HasSocket
<1>10. ASSUME NEW t \in Threads, Disconnected(t)
      PROVE  ConnInv'
  <2>1. conn' = Fresh
    BY <1>10 DEF Disconnected, End, Closed, Keep, NotReady
  <2>2. QED
    BY <2>1, FreshConn DEF ConnInv
<1>11. ASSUME NEW t \in Threads, Timeout(t)
      PROVE  ConnInv'
  <2>1. failed' /\ UNCHANGED <<sockets, conn>>
    BY <1>11 DEF Timeout, End, Keep, NotReady, HasSocket
  <2>2. QED
    BY <2>1 DEF IInv, ConnInv, Quiet
<1>12. ASSUME NEW t \in Threads, Read(t)
      PROVE  ConnInv'
  <2>1. /\ conn \in Connections
        /\ conn' = [conn EXCEPT !.unread =
                        IF conn.unread = call[t] THEN 0 ELSE conn.unread]
        /\ UNCHANGED <<sockets, failed, call>>
        /\ pc[t] = "got" /\ \A u \in Threads \ {t} : pc'[u] = pc[u]
    BY <1>12 DEF Read, End, Keep, Result, IInv, TypeOK
  <2>2. /\ conn'.state = conn.state /\ conn'.sock = conn.sock
        /\ conn'.unread \in {0, conn.unread}
        /\ conn.unread = call[t] => conn'.unread = 0
    BY <2>1 DEF Connections
  <2>3. QED
    BY <2>1, <2>2 DEF IInv, ConnInv, Quiet
<1>13. ASSUME NEW t \in Threads, ReadTimeout(t)
      PROVE  ConnInv'
  <2>1. failed' /\ UNCHANGED <<sockets, conn>>
    BY <1>13 DEF ReadTimeout, End, Keep
  <2>2. QED
    BY <2>1 DEF IInv, ConnInv, Quiet
<1>14. ASSUME NEW s \in DOMAIN sockets, Execute(s)
      PROVE  ConnInv'
  <2>1. /\ UNCHANGED <<conn, failed, pc, call>>
        /\ \A r \in DOMAIN sockets \ {s} : sockets'[r] = sockets[r]
        /\ ~Quiet(s)
    BY <1>14, Executed, OneElement DEF Execute, Quiet, Waiting
  <2>2. conn.sock # 0 => conn.sock \in DOMAIN sockets
    BY ConnTypes DEF IInv, TypeOK
  <2>3. QED
    BY <2>1, <2>2 DEF IInv, ConnInv, Quiet
<1>15. ASSUME NEW s \in DOMAIN sockets, Hangup(s)
      PROVE  ConnInv'
  <2>1. /\ UNCHANGED <<conn, failed, pc, call>>
        /\ \A r \in DOMAIN sockets \ {s} : sockets'[r] = sockets[r]
        /\ sockets'[s].requests = <<>>
        /\ sockets'[s].responses = sockets[s].responses
    BY <1>15, HungUp DEF Hangup
  <2>2. conn.sock # 0 => conn.sock \in DOMAIN sockets
    BY ConnTypes DEF IInv, TypeOK
  <2>3. QED
    BY <2>1, <2>2 DEF IInv, ConnInv, Quiet
<1>16. CASE UNCHANGED vars
  <2>1. UNCHANGED <<sockets, conn, failed, pc, call>>
    BY <1>16 DEF vars
  <2>2. QED
    BY <2>1 DEF IInv, ConnInv, Quiet
<1>17. QED
  BY <1>1, <1>2, <1>3, <1>4, <1>5, <1>6, <1>7, <1>8, <1>9, <1>10,
     <1>11, <1>12, <1>13, <1>14, <1>15, <1>16
  DEF Next, Progress

\* A thread that a step leaves alone.
Untouched(u) ==
    /\ pc'[u] = pc[u] /\ call'[u] = call[u] /\ outcome'[u] = outcome[u]
    /\ response'[u].id = response[u].id

LEMMA CallSame ==
    ASSUME IInv, NEW u \in Threads, Untouched(u),
           UNCHANGED <<sockets, executed>>, id_count' \in {id_count, id_count + 1},
           pc[u] = "sent" => /\ conn'.state = conn.state /\ conn'.sock = conn.sock
                             /\ \A v \in Threads \ {u} : pc'[v] # "sent"
    PROVE  CallOk(u)'
<1>1. CallOk(u) /\ id_count \in Nat /\ call[u] \in Nat
  BY RPCAssumption DEF IInv, TypeOK, CallsInv, Ids
<1>2. QED
  BY <1>1 DEF Untouched, CallOk, SentOk, GotOk, EndedOk, Quiet, Waiting, Answered

\* One call waits at a time, and what it reads is its own.
LEMMA CallsStep ==
    ASSUME IInv, [Next]_vars
    PROVE  CallsInv'
<1> USE RPCAssumption
<1>1. CASE Construct
  <2>1. /\ UNCHANGED <<sockets, executed, id_count, conn, pc>>
        /\ \A u \in Threads : Untouched(u)
    BY <1>1 DEF Construct, Untouched
  <2>2. ASSUME NEW u \in Threads
        PROVE  CallOk(u)'
    BY <2>1, CallSame DEF IInv, CallsInv, CallOk, SentOk
  <2>3. QED
    BY <2>2 DEF CallsInv
<1>2. CASE Connect
  <2>1. /\ UNCHANGED <<sockets, executed, id_count, pc>>
        /\ \A u \in Threads : Untouched(u)
    BY <1>2, ResponseTypes DEF Connect, Reset, IInv, TypeOK, Untouched
  <2>2. \A u \in Threads : pc[u] # "sent"
    BY <1>2 DEF Connect, Reset, IInv, InFlight
  <2>3. ASSUME NEW u \in Threads
        PROVE  CallOk(u)'
    BY <2>1, <2>2, CallSame
  <2>4. QED
    BY <2>3 DEF CallsInv
<1>3. CASE Close
  <2>1. /\ UNCHANGED <<sockets, executed, id_count, pc>>
        /\ \A u \in Threads : Untouched(u)
    BY <1>3, ResponseTypes DEF Close, Reset, Closed, IInv, TypeOK, Untouched
  <2>2. \A u \in Threads : pc[u] # "sent"
    BY <1>3 DEF Close, Reset, Closed, IInv, InFlight
  <2>3. ASSUME NEW u \in Threads
        PROVE  CallOk(u)'
    BY <2>1, <2>2, CallSame
  <2>4. QED
    BY <2>3 DEF CallsInv
<1>4. ASSUME NEW t \in Threads, EncodeFails(t)
      PROVE  CallsInv'
  <2>1. /\ UNCHANGED <<sockets, executed>>
        /\ id_count' \in {id_count, id_count + 1}
        /\ \A u \in Threads \ {t} : Untouched(u)
    BY <1>4, ResponseTypes DEF EncodeFails, NewCall, End, IInv, TypeOK, Untouched
  <2>2. ASSUME NEW u \in Threads \ {t}, pc[u] = "sent"
        PROVE  /\ conn'.state = conn.state /\ conn'.sock = conn.sock
               /\ \A v \in Threads \ {u} : pc'[v] # "sent"
    BY <1>4, <2>2 DEF EncodeFails, NewCall, End, IInv, TypeOK, CallsInv, CallOk, SentOk
  <2>3. CallOk(t)'
    <3>1. PICK id \in Ids : id = id_count + 1 /\ call'[t] = id /\ id_count' = id
      BY <1>4 DEF EncodeFails, NewCall, End, IInv, TypeOK, Ids
    <3>2. executed[id] = 0 /\ \A s \in DOMAIN sockets : ~Waiting(s, id)
      BY <3>1 DEF IInv, TypeOK, ServedInv, Ids
    <3>3. pc'[t] = "idle" /\ outcome'[t] # "returned"
      BY <1>4 DEF EncodeFails, NewCall, End, IInv, TypeOK
    <3>4. \A s \in DOMAIN sockets : Waiting(s, id)' <=> Waiting(s, id)
      BY <2>1 DEF Waiting
    <3>5. EndedOk(t)'
      BY <2>1, <3>1, <3>2, <3>3, <3>4 DEF EndedOk, Waiting, Ids
    <3>6. QED
      BY <3>1, <3>3, <3>5 DEF CallOk, Ids
  <2>4. QED
    BY <2>1, <2>2, <2>3, CallSame DEF CallsInv
<1>5. ASSUME NEW t \in Threads, RefuseRequest(t)
      PROVE  CallsInv'
  <2>1. /\ UNCHANGED <<sockets, executed>>
        /\ id_count' \in {id_count, id_count + 1}
        /\ \A u \in Threads \ {t} : Untouched(u)
    BY <1>5, ResponseTypes DEF RefuseRequest, NewCall, End, IInv, TypeOK, Untouched
  <2>2. ASSUME NEW u \in Threads \ {t}, pc[u] = "sent"
        PROVE  /\ conn'.state = conn.state /\ conn'.sock = conn.sock
               /\ \A v \in Threads \ {u} : pc'[v] # "sent"
    BY <1>5, <2>2 DEF RefuseRequest, NewCall, End, IInv, TypeOK, CallsInv, CallOk,
       SentOk
  <2>3. CallOk(t)'
    <3>1. PICK id \in Ids : id = id_count + 1 /\ call'[t] = id /\ id_count' = id
      BY <1>5 DEF RefuseRequest, NewCall, End, IInv, TypeOK, Ids
    <3>2. executed[id] = 0 /\ \A s \in DOMAIN sockets : ~Waiting(s, id)
      BY <3>1 DEF IInv, TypeOK, ServedInv, Ids
    <3>3. pc'[t] = "idle" /\ outcome'[t] # "returned"
      BY <1>5 DEF RefuseRequest, NewCall, End, IInv, TypeOK
    <3>4. \A s \in DOMAIN sockets : Waiting(s, id)' <=> Waiting(s, id)
      BY <2>1 DEF Waiting
    <3>5. EndedOk(t)'
      BY <2>1, <3>1, <3>2, <3>3, <3>4 DEF EndedOk, Waiting, Ids
    <3>6. QED
      BY <3>1, <3>3, <3>5 DEF CallOk, Ids
  <2>4. QED
    BY <2>1, <2>2, <2>3, CallSame DEF CallsInv
<1>6. ASSUME NEW t \in Threads, CannotConnect(t)
      PROVE  CallsInv'
  <2>1. /\ UNCHANGED <<sockets, executed>>
        /\ id_count' \in {id_count, id_count + 1}
        /\ \A u \in Threads \ {t} : Untouched(u)
    BY <1>6, ResponseTypes DEF CannotConnect, NewCall, End, HasSocket, IInv, TypeOK,
       Untouched
  <2>2. ASSUME NEW u \in Threads \ {t}, pc[u] = "sent"
        PROVE  /\ conn'.state = conn.state /\ conn'.sock = conn.sock
               /\ \A v \in Threads \ {u} : pc'[v] # "sent"
    BY <1>6, <2>2 DEF CannotConnect, NewCall, End, HasSocket, IInv, TypeOK, CallsInv,
       CallOk, SentOk
  <2>3. CallOk(t)'
    <3>1. PICK id \in Ids : id = id_count + 1 /\ call'[t] = id /\ id_count' = id
      BY <1>6 DEF CannotConnect, NewCall, End, HasSocket, IInv, TypeOK, Ids
    <3>2. executed[id] = 0 /\ \A s \in DOMAIN sockets : ~Waiting(s, id)
      BY <3>1 DEF IInv, TypeOK, ServedInv, Ids
    <3>3. pc'[t] = "idle" /\ outcome'[t] # "returned"
      BY <1>6 DEF CannotConnect, NewCall, End, HasSocket, IInv, TypeOK
    <3>4. \A s \in DOMAIN sockets : Waiting(s, id)' <=> Waiting(s, id)
      BY <2>1 DEF Waiting
    <3>5. EndedOk(t)'
      BY <2>1, <3>1, <3>2, <3>3, <3>4 DEF EndedOk, Waiting, Ids
    <3>6. QED
      BY <3>1, <3>3, <3>5 DEF CallOk, Ids
  <2>4. QED
    BY <2>1, <2>2, <2>3, CallSame DEF CallsInv
<1>7. ASSUME NEW t \in Threads, Request(t)
      PROVE  CallsInv'
  <2>0. PICK id \in Ids : id = id_count + 1
    BY <1>7 DEF Request, NewCall, End, HasSocket, IInv, TypeOK, Ids
  <2>1. /\ sockets' \in {Opened, Delivered(id)} /\ conn.state = "idle"
        /\ conn' = [conn EXCEPT !.state = "sent", !.sock = Target]
        /\ \A u \in Threads \ {t} : Untouched(u)
        /\ executed' = executed /\ id_count' = id /\ call'[t] = id
        /\ pc'[t] = "sent" \/ (pc'[t] = "idle" /\ outcome'[t] = "SendError")
    BY <1>7, <2>0 DEF Request, NewCall, End, HasSocket, IInv, TypeOK, Untouched
  <2>2. PICK k \in 1 .. Len(Opened) :
           /\ k = Target
           /\ DOMAIN sockets' = DOMAIN sockets \cup {k}
           /\ \A s \in DOMAIN sockets \ {k} : sockets'[s] = sockets[s]
           /\ sockets'[k].requests \in {<<>>, <<id>>}
           /\ sockets'[k].responses = <<>>
    BY <2>1, Sent
  <2>3. \A u \in Threads : pc[u] # "sent"
    BY <2>1 DEF IInv, CallsInv, CallOk, SentOk
  <2>4. conn'.state = "sent" /\ conn'.sock = k
    BY <2>1, <2>2 DEF IInv, TypeOK, Connections
  <2>5. CallOk(t)'
    <3>1. Quiet(k)' \/ Waiting(k, id)'
      BY <2>2 DEF Quiet, Waiting
    <3>2. k # 0 /\ id # 0 /\ id <= id
      BY DEF Ids
    <3>3. pc'[t] = "sent" => SentOk(t)'
      BY <2>1, <2>3, <2>4, <3>1, <3>2 DEF SentOk, Untouched
    <3>4. QED
      BY <2>1, <3>2, <3>3 DEF CallOk, EndedOk
  <2>6. ASSUME NEW u \in Threads \ {t}
        PROVE  CallOk(u)'
    <3>1. CallOk(u) /\ Untouched(u) /\ pc[u] # "sent" /\ call[u] \in {0} \cup Ids
      BY <2>1, <2>3 DEF IInv, TypeOK, CallsInv
    <3>2. call[u] <= id /\ call[u] # id
      BY <2>0, <3>1 DEF IInv, TypeOK, CallOk, Ids
    <3>3. \A s \in DOMAIN sockets' : Waiting(s, call[u])' =>
             s \in DOMAIN sockets /\ Waiting(s, call[u])
      <4> TAKE s \in DOMAIN sockets'
      <4>1. <<id>> # <<call[u]>> /\ <<call[u]>> # <<>> /\ call'[u] = call[u]
        BY <3>1, <3>2, OneElement DEF Untouched
      <4>2. QED
        BY <2>2, <4>1 DEF Waiting
    <3>4. QED
      BY <2>1, <3>1, <3>2, <3>3 DEF CallOk, GotOk, EndedOk, Untouched
  <2>7. QED
    BY <2>5, <2>6 DEF CallsInv
<1>8. ASSUME NEW t \in Threads, RefuseResponse(t)
      PROVE  CallsInv'
  <2>1. /\ UNCHANGED <<sockets, executed>>
        /\ id_count' \in {id_count, id_count + 1}
        /\ \A u \in Threads \ {t} : Untouched(u)
    BY <1>8, ResponseTypes DEF RefuseResponse, End, Keep, IInv, TypeOK, Untouched
  <2>2. ASSUME NEW u \in Threads \ {t}, pc[u] = "sent"
        PROVE  /\ conn'.state = conn.state /\ conn'.sock = conn.sock
               /\ \A v \in Threads \ {u} : pc'[v] # "sent"
    BY <1>8, <2>2 DEF RefuseResponse, End, Keep, IInv, TypeOK, CallsInv, CallOk, SentOk
  <2>3. CallOk(t)'
    BY <1>8 DEF RefuseResponse, End, Keep, IInv, TypeOK, CallsInv, CallOk, EndedOk
  <2>4. QED
    BY <2>1, <2>2, <2>3, CallSame DEF CallsInv
<1>9. ASSUME NEW t \in Threads, GetResponse(t)
      PROVE  CallsInv'
  <2>1. /\ UNCHANGED <<executed, id_count, call, outcome>>
        /\ \A u \in Threads \ {t} : Untouched(u)
        /\ pc[t] = "sent" /\ pc'[t] = "got" /\ response'[t].id = Head(Incoming)
    BY <1>9 DEF GetResponse, Keep, NotReady, HasSocket, IInv, TypeOK, Untouched
  <2>2. /\ Head(Incoming) = call[t] /\ call[t] \in Ids /\ executed[call[t]] = 1
        /\ DOMAIN sockets' = DOMAIN sockets
        /\ \A s \in DOMAIN sockets \ {conn.sock} : sockets'[s] = sockets[s]
        /\ sockets'[conn.sock].requests = <<>>
    BY <1>9, Received
  <2>3. CallOk(t)'
    BY <2>1, <2>2 DEF IInv, CallsInv, CallOk, GotOk, Ids
  <2>4. ASSUME NEW u \in Threads \ {t}
        PROVE  CallOk(u)'
    <3>1. CallOk(u) /\ Untouched(u) /\ pc[u] # "sent"
      BY <2>1 DEF IInv, CallsInv, CallOk, SentOk
    <3>2. \A s \in DOMAIN sockets' : Waiting(s, call[u])' => Waiting(s, call[u])
      BY <2>1, <2>2, OneElement DEF Waiting
    <3>3. QED
      BY <2>1, <2>2, <3>1, <3>2 DEF CallOk, GotOk, EndedOk, Untouched
  <2>5. QED
    BY <2>3, <2>4 DEF CallsInv
<1>10. ASSUME NEW t \in Threads, Disconnected(t)
      PROVE  CallsInv'
  <2>1. /\ UNCHANGED <<sockets, executed>>
        /\ id_count' \in {id_count, id_count + 1}
        /\ \A u \in Threads \ {t} : Untouched(u)
    BY <1>10, ResponseTypes DEF Disconnected, End, Closed, Keep, NotReady, IInv,
       TypeOK, Untouched
  <2>2. ASSUME NEW u \in Threads \ {t}, pc[u] = "sent"
        PROVE  /\ conn'.state = conn.state /\ conn'.sock = conn.sock
               /\ \A v \in Threads \ {u} : pc'[v] # "sent"
    BY <1>10, <2>2 DEF Disconnected, End, Closed, Keep, NotReady, IInv, TypeOK,
       CallsInv, CallOk, SentOk
  <2>3. CallOk(t)'
    BY <1>10 DEF Disconnected, End, Closed, Keep, NotReady, IInv, TypeOK, CallsInv,
       CallOk, EndedOk
  <2>4. QED
    BY <2>1, <2>2, <2>3, CallSame DEF CallsInv
<1>11. ASSUME NEW t \in Threads, Timeout(t)
      PROVE  CallsInv'
  <2>1. /\ UNCHANGED <<sockets, executed>>
        /\ id_count' \in {id_count, id_count + 1}
        /\ \A u \in Threads \ {t} : Untouched(u)
    BY <1>11, ResponseTypes DEF Timeout, End, Keep, NotReady, HasSocket, IInv,
       TypeOK, Untouched
  <2>2. ASSUME NEW u \in Threads \ {t}, pc[u] = "sent"
        PROVE  /\ conn'.state = conn.state /\ conn'.sock = conn.sock
               /\ \A v \in Threads \ {u} : pc'[v] # "sent"
    BY <1>11, <2>2 DEF Timeout, End, Keep, NotReady, HasSocket, IInv, TypeOK,
       CallsInv, CallOk, SentOk
  <2>3. CallOk(t)'
    BY <1>11 DEF Timeout, End, Keep, NotReady, HasSocket, IInv, TypeOK, CallsInv,
       CallOk, EndedOk
  <2>4. QED
    BY <2>1, <2>2, <2>3, CallSame DEF CallsInv
<1>12. ASSUME NEW t \in Threads, Read(t)
      PROVE  CallsInv'
  <2>1. /\ UNCHANGED <<sockets, executed>>
        /\ id_count' \in {id_count, id_count + 1}
        /\ \A u \in Threads \ {t} : Untouched(u)
    BY <1>12, ResponseTypes DEF Read, End, Keep, Result, IInv, TypeOK, Untouched
  <2>2. ASSUME NEW u \in Threads \ {t}, pc[u] = "sent"
        PROVE  /\ conn'.state = conn.state /\ conn'.sock = conn.sock
               /\ \A v \in Threads \ {u} : pc'[v] # "sent"
    <3>1. conn' = [conn EXCEPT !.unread =
                     IF conn.unread = call[t] THEN 0 ELSE conn.unread]
      BY <1>12 DEF Read, End, Keep, Result
    <3>2. conn'.state = conn.state /\ conn'.sock = conn.sock
      BY <3>1 DEF IInv, TypeOK, Connections
    <3>3. QED
      BY <1>12, <2>2, <3>2 DEF Read, End, Keep, Result, IInv, TypeOK, CallsInv,
         CallOk, SentOk
  <2>3. CallOk(t)'
    <3>1. pc'[t] = "idle" /\ outcome'[t] = Result(response[t]) /\ call'[t] = call[t]
      BY <1>12 DEF Read, End, Keep, Result, IInv, TypeOK
    <3>2. GotOk(t) /\ call[t] <= id_count /\ id_count' = id_count
      BY <1>12 DEF Read, End, Keep, Result, IInv, CallsInv, CallOk
    <3>3. QED
      BY <2>1, <3>1, <3>2 DEF GotOk, CallOk, EndedOk, Result
  <2>4. QED
    BY <2>1, <2>2, <2>3, CallSame DEF CallsInv
<1>13. ASSUME NEW t \in Threads, ReadTimeout(t)
      PROVE  CallsInv'
  <2>1. /\ UNCHANGED <<sockets, executed>>
        /\ id_count' \in {id_count, id_count + 1}
        /\ \A u \in Threads \ {t} : Untouched(u)
    BY <1>13, ResponseTypes DEF ReadTimeout, End, Keep, IInv, TypeOK, Untouched
  <2>2. ASSUME NEW u \in Threads \ {t}, pc[u] = "sent"
        PROVE  /\ conn'.state = conn.state /\ conn'.sock = conn.sock
               /\ \A v \in Threads \ {u} : pc'[v] # "sent"
    BY <1>13, <2>2 DEF ReadTimeout, End, Keep, IInv, TypeOK, CallsInv, CallOk, SentOk
  <2>3. CallOk(t)'
    BY <1>13 DEF ReadTimeout, End, Keep, IInv, TypeOK, CallsInv, CallOk, EndedOk
  <2>4. QED
    BY <2>1, <2>2, <2>3, CallSame DEF CallsInv
<1>14. ASSUME NEW s \in DOMAIN sockets, Execute(s)
      PROVE  CallsInv'
  <2>1. PICK id \in Ids :
           /\ Waiting(s, id)
           /\ executed[id] = 0
           /\ executed' \in [Ids -> Nat] /\ executed'[id] = 1
           /\ \A j \in Ids \ {id} : executed'[j] = executed[j]
           /\ sockets' \in Seq(Sockets) /\ DOMAIN sockets' = DOMAIN sockets
           /\ Len(sockets') = Len(sockets)
           /\ \A r \in DOMAIN sockets \ {s} : sockets'[r] = sockets[r]
           /\ sockets'[s].requests = <<>>
           /\ sockets'[s].responses = <<id>>
    BY <1>14, Executed
  <2>2. UNCHANGED <<pc, call, outcome, response, conn, id_count>>
    BY <1>14 DEF Execute
  <2>3. ASSUME NEW u \in Threads
        PROVE  CallOk(u)'
    <3>1. CallOk(u) /\ call[u] \in {0} \cup Ids
      BY DEF IInv, TypeOK, CallsInv
    <3>2. pc[u] = "sent" => SentOk(u)'
      <4>1. \A r \in DOMAIN sockets \ {s} :
               /\ Quiet(r)' <=> Quiet(r)
               /\ Waiting(r, call[u])' <=> Waiting(r, call[u])
               /\ Answered(r, call[u])' <=> Answered(r, call[u])
        BY <2>1, <2>2 DEF Quiet, Waiting, Answered
      <4>2. Waiting(s, call[u]) => Answered(s, call[u])'
        BY <2>1, <2>2, OneElement DEF Waiting, Answered
      <4>3. ~Quiet(s) /\ ~Answered(s, call[u])
        BY <2>1, OneElement DEF Quiet, Waiting, Answered
      <4>4. conn.sock # 0 => conn.sock \in DOMAIN sockets
        BY ConnTypes DEF IInv, TypeOK
      <4>5. QED
        BY <2>2, <3>1, <4>1, <4>2, <4>3, <4>4 DEF CallOk, SentOk
    <3>3. \A r \in DOMAIN sockets : Waiting(r, call[u])' => Waiting(r, call[u])
      BY <2>1, <2>2, OneElement DEF Waiting
    <3>4. pc[u] = "idle" => EndedOk(u)'
      <4>1. ASSUME pc[u] = "idle", outcome[u] \in {"CannotSendRequest", "TypeError"}
            PROVE  /\ call[u] # 0 /\ executed'[call[u]] = 0
                   /\ \A r \in DOMAIN sockets : ~Waiting(r, call[u])'
        BY <2>1, <3>1, <3>3, <4>1 DEF CallOk, EndedOk
      <4>2. ASSUME pc[u] = "idle", outcome[u] = "returned"
            PROVE  call[u] # 0 /\ executed'[call[u]] = 1
        BY <2>1, <3>1, <4>2 DEF CallOk, EndedOk
      <4>3. QED
        BY <2>1, <2>2, <4>1, <4>2 DEF EndedOk
    <3>5. pc[u] = "got" => GotOk(u)'
      BY <2>1, <2>2, <3>1 DEF CallOk, GotOk
    <3>6. QED
      BY <2>2, <3>1, <3>2, <3>4, <3>5 DEF CallOk
  <2>4. QED
    BY <2>3 DEF CallsInv
<1>15. ASSUME NEW s \in DOMAIN sockets, Hangup(s)
      PROVE  CallsInv'
  <2>1. /\ DOMAIN sockets' = DOMAIN sockets
        /\ \A r \in DOMAIN sockets \ {s} : sockets'[r] = sockets[r]
        /\ sockets'[s].requests = <<>>
        /\ sockets'[s].responses = sockets[s].responses
        /\ UNCHANGED <<pc, call, outcome, response, conn, id_count, executed>>
    BY <1>15, HungUp DEF Hangup
  <2>2. ASSUME NEW u \in Threads
        PROVE  CallOk(u)'
    <3>1. CallOk(u)
      BY DEF IInv, CallsInv
    <3>2. pc[u] = "sent" => SentOk(u)'
      <4>1. conn.sock # 0 => conn.sock \in DOMAIN sockets
        BY ConnTypes DEF IInv, TypeOK
      <4>2. QED
        BY <2>1, <3>1, <4>1 DEF CallOk, SentOk, Quiet, Waiting, Answered
    <3>3. \A r \in DOMAIN sockets : Waiting(r, call[u])' => Waiting(r, call[u])
      BY <2>1, OneElement DEF Waiting
    <3>4. QED
      BY <2>1, <3>1, <3>2, <3>3 DEF CallOk, GotOk, EndedOk
  <2>3. QED
    BY <2>2 DEF CallsInv
<1>16. CASE UNCHANGED vars
  <2>1. /\ UNCHANGED <<sockets, executed, id_count, conn, pc>>
        /\ \A u \in Threads : Untouched(u)
    BY <1>16 DEF vars, Untouched
  <2>2. ASSUME NEW u \in Threads
        PROVE  CallOk(u)'
    BY <2>1, CallSame DEF IInv, CallsInv, CallOk, SentOk
  <2>3. QED
    BY <2>2 DEF CallsInv
<1>17. QED
  BY <1>1, <1>2, <1>3, <1>4, <1>5, <1>6, <1>7, <1>8, <1>9, <1>10,
     <1>11, <1>12, <1>13, <1>14, <1>15, <1>16
  DEF Next, Progress

LEMMA IInvInit == ~CloseInFlight /\ Init => IInv
<1> SUFFICES ASSUME ~CloseInFlight, Init
             PROVE  IInv
  OBVIOUS
<1> USE RPCAssumption DEF Init
<1>1. conn \in Connections /\ conn.state = "idle" /\ conn.sock = 0 /\ conn.unread = 0
  BY FreshConn
<1>2. NoResponse \in Responses
  BY DEF NoResponse, Responses
<1>3. TypeOK
  <2>1. sockets \in Seq(Sockets) /\ Len(sockets) = 0
    OBVIOUS
  <2>2. outcome \in [Threads -> Outcomes] /\ executed \in [Ids -> Nat]
    BY DEF Outcomes, Ids
  <2>3. response \in [Threads -> Responses] /\ call \in [Threads -> {0} \cup Ids]
    BY <1>2
  <2>4. /\ pc \in [Threads -> {"idle", "sent", "got"}] /\ failed = FALSE
        /\ id_count \in {0} \cup Ids
    OBVIOUS
  <2>5. conn.sock <= Len(sockets) /\ Len(sockets) <= MaxSockets
    BY ONLY <1>1, <2>1, RPCAssumption
  <2>6. QED
    BY ONLY <1>1, <2>1, <2>2, <2>3, <2>4, <2>5 DEF TypeOK
<1>4. ServedInv /\ ConnInv /\ CallsInv
  BY <1>1 DEF ServedInv, ConnInv, CallsInv, CallOk, EndedOk, Ids
<1>5. QED
  BY <1>3, <1>4 DEF IInv

\* The invariant holds in every reachable state.
THEOREM Invariance == ~CloseInFlight /\ Spec => []IInv
<1>1. IInv /\ [Next]_vars => IInv'
  BY TypeStep, ServedStep, ConnStep, CallsStep DEF IInv
<1>2. QED
  BY IInvInit, <1>1, PTL DEF Spec

\* Every call that returns gets the answer to its own request, and the node
\* executes no request twice.
THEOREM AnswersMatch == ~CloseInFlight /\ Spec => []OwnAnswer
<1>1. IInv => OwnAnswer
  <2> SUFFICES ASSUME IInv
               PROVE  OwnAnswer
    OBVIOUS
  <2>1. \A id \in 1 .. MaxCalls : executed[id] <= 1
    BY DEF IInv, ServedInv, Ids
  <2>2. ASSUME NEW t \in Threads
        PROVE  /\ pc[t] = "got" => response[t].id = call[t]
               /\ pc[t] = "idle" /\ outcome[t] = "returned" => executed[call[t]] = 1
               /\ pc[t] = "idle" /\ outcome[t] \in {"CannotSendRequest", "TypeError"}
                     => executed[call[t]] = 0
    BY DEF IInv, CallsInv, CallOk, GotOk, EndedOk
  <2>3. QED
    BY <2>1, <2>2 DEF OwnAnswer
<1>2. QED
  BY <1>1, Invariance, PTL

-----------------------------------------------------------------------------
(* Refusals.                                                                 *)

Excused == \A t \in Threads :
    /\ call'[t] # call[t] \/ pc'[t] # pc[t]
    /\ pc'[t] = "idle" /\ outcome'[t] \in Refused
    => failed \/ InFlight \ {t} # {}

\* A call is refused while another is under way, or after a failure.
LEMMA ExcusedStep ==
    ASSUME IInv, [Next]_vars
    PROVE  Excused
<1> USE RPCAssumption
    DEF IInv, TypeOK, Refused, Excused, InFlight, Result
<1>1. CASE Construct
  BY <1>1 DEF Construct
<1>2. CASE Connect
  BY <1>2 DEF Connect, Reset
<1>3. CASE Close
  BY <1>3 DEF Close, Reset, Closed
<1>4. ASSUME NEW t \in Threads, EncodeFails(t)
      PROVE  Excused
  BY <1>4 DEF EncodeFails, NewCall, End
<1>5. ASSUME NEW t \in Threads, RefuseRequest(t)
      PROVE  Excused
  <2>1. conn.state = "sent" /\ pc[t] = "idle"
    BY <1>5, ConnTypes DEF RefuseRequest, NewCall, End
  <2>2. failed \/ \E u \in Threads : pc[u] = "sent"
    BY <2>1 DEF ConnInv
  <2>3. failed \/ InFlight \ {t} # {}
    BY <2>1, <2>2
  <2>4. QED
    BY <1>5, <2>3 DEF RefuseRequest, NewCall, End
<1>6. ASSUME NEW t \in Threads, CannotConnect(t)
      PROVE  Excused
  BY <1>6 DEF CannotConnect, NewCall, End, HasSocket
<1>7. ASSUME NEW t \in Threads, Request(t)
      PROVE  Excused
  BY <1>7 DEF Request, NewCall, End, HasSocket
<1>8. ASSUME NEW t \in Threads, RefuseResponse(t)
      PROVE  Excused
  <2>1. pc[t] = "sent" /\ conn.state = "sent" /\ conn.unread # 0
    BY <1>8 DEF RefuseResponse, End, Keep, NotReady, CallsInv, CallOk, SentOk
  <2>2. failed \/ \E u \in Threads : pc[u] = "got"
    BY <2>1 DEF ConnInv
  <2>3. failed \/ InFlight \ {t} # {}
    BY <2>1, <2>2
  <2>4. QED
    BY <1>8, <2>3 DEF RefuseResponse, End, Keep
<1>9. ASSUME NEW t \in Threads, GetResponse(t)
      PROVE  Excused
  BY <1>9 DEF GetResponse, Keep, NotReady, HasSocket
<1>10. ASSUME NEW t \in Threads, Disconnected(t)
      PROVE  Excused
  BY <1>10 DEF Disconnected, End, Closed, Keep, NotReady
<1>11. ASSUME NEW t \in Threads, Timeout(t)
      PROVE  Excused
  BY <1>11 DEF Timeout, End, Keep, NotReady, HasSocket
<1>12. ASSUME NEW t \in Threads, Read(t)
      PROVE  Excused
  BY <1>12 DEF Read, End, Keep, Result
<1>13. ASSUME NEW t \in Threads, ReadTimeout(t)
      PROVE  Excused
  BY <1>13 DEF ReadTimeout, End, Keep
<1>14. ASSUME NEW s \in DOMAIN sockets, Execute(s)
      PROVE  Excused
  BY <1>14 DEF Execute
<1>15. ASSUME NEW s \in DOMAIN sockets, Hangup(s)
      PROVE  Excused
  BY <1>15 DEF Hangup
<1>16. CASE UNCHANGED vars
  BY <1>16 DEF vars
<1>17. QED
  BY <1>1, <1>2, <1>3, <1>4, <1>5, <1>6, <1>7, <1>8, <1>9, <1>10,
     <1>11, <1>12, <1>13, <1>14, <1>15, <1>16
  DEF Next, Progress

\* Nothing refuses a call but a call under way or a failed one.
THEOREM RefusalsExcused == ~CloseInFlight /\ Spec => RefusedOnlyAfterFailure
<1>1. IInv /\ [Next]_vars => Excused
  BY ExcusedStep
<1>2. QED
  BY <1>1, Invariance, PTL DEF Spec, RefusedOnlyAfterFailure, Excused

\* The types hold.
THEOREM TypeCorrect == ~CloseInFlight /\ Spec => []TypeOK
BY Invariance, PTL DEF IInv

-----------------------------------------------------------------------------
(* The service of one network.                                               *)

\* Induction up to n, over a set.
LEMMA Upto ==
    ASSUME NEW n \in Nat, NEW T, 0 \in T,
           \A i \in 1 .. n : i - 1 \in T => i \in T
    PROVE  n \in T
<1> SUFFICES ASSUME n \notin T PROVE FALSE
  OBVIOUS
<1> DEFINE D == {i \in 0 .. n : i \notin T}
           R == OpToRel(<, Nat)
<1>1. D \subseteq Nat /\ D # {}
  OBVIOUS
<1>2. PICK m \in D : \A d \in D : <<d, m>> \notin R
  <2>1. IsWellFoundedOn(R, Nat)
    BY NatLessThanWellFounded
  <2> HIDE DEF D, R
  <2>2. QED
    BY <1>1, <2>1, WFMin
<1>3. m \in 1 .. n /\ m - 1 \in 0 .. n /\ m - 1 < m
  OBVIOUS
<1>4. <<m - 1, m>> \in R
  BY <1>3 DEF OpToRel
<1>5. m - 1 \notin D
  <2> HIDE DEF R
  <2>1. QED
    BY <1>2, <1>4
<1>6. QED
  BY <1>3, <1>5

\* The recursive function is what its definition says.
LEMMA ReadFunction ==
    ASSUME NEW S, NEW lines \in Seq(S)
    PROVE  ReadAfter(lines) =
             [n \in 0 .. Len(lines) |->
                IF n = 0 THEN [section |-> "", conf |-> EmptyConf]
                ELSE ProcessLine(ReadAfter(lines)[n - 1], lines[n])]
<1> DEFINE base == [section |-> "", conf |-> EmptyConf]
           F(f, n) == f = [i \in 0 .. n |-> IF i = 0 THEN base
                                            ELSE ProcessLine(f[i - 1], lines[i])]
           T == {n \in 0 .. Len(lines) : \E f : F(f, n)}
<1>0. Len(lines) \in Nat
  OBVIOUS
<1>4. ReadAfter(lines) = CHOOSE f : F(f, Len(lines))
  BY DEF ReadAfter
<1> HIDE DEF base
<1>1. 0 \in T
  <2>1. F([i \in 0 .. 0 |-> base], 0)
    OBVIOUS
  <2> HIDE DEF F
  <2>2. QED
    BY <1>0, <2>1
<1>2. ASSUME NEW n \in 1 .. Len(lines), n - 1 \in T
      PROVE  n \in T
  <2>1. PICK f : F(f, n - 1)
    BY <1>2
  <2> DEFINE g == [i \in 0 .. n |-> IF i = n THEN ProcessLine(f[n - 1], lines[n])
                                    ELSE f[i]]
  <2>2. ASSUME NEW i \in 0 .. n
        PROVE  g[i] = IF i = 0 THEN base ELSE ProcessLine(g[i - 1], lines[i])
    <3>1. CASE i = n
      <4>1. n - 1 \in 0 .. n /\ n # 0 /\ n - 1 # n
        BY <1>0
      <4>2. QED
        BY <3>1, <4>1
    <3>2. CASE i # n
      <4>1. i \in 0 .. n - 1
        BY <1>0, <3>2
      <4>2. f[i] = IF i = 0 THEN base ELSE ProcessLine(f[i - 1], lines[i])
        BY <2>1, <4>1
      <4>3. i # 0 => i - 1 \in 0 .. n /\ i - 1 # n
        BY <1>0, <4>1
      <4>4. QED
        BY <3>2, <4>2, <4>3
    <3>3. QED
      BY <3>1, <3>2
  <2>3. F(g, n)
    <3> DEFINE h == [i \in 0 .. n |-> IF i = 0 THEN base
                                      ELSE ProcessLine(g[i - 1], lines[i])]
    <3>1. \A i \in 0 .. n : g[i] = h[i]
      BY <2>2
    <3>2. /\ DOMAIN g = 0 .. n /\ g = [i \in 0 .. n |-> g[i]]
          /\ DOMAIN h = 0 .. n /\ h = [i \in 0 .. n |-> h[i]]
      OBVIOUS
    <3> HIDE DEF h, g
    <3>3. g = h
      BY <3>1, <3>2
    <3>4. QED
      BY <3>3 DEF h
  <2> HIDE DEF g, F
  <2>4. QED
    BY <2>3, <1>0
<1>3. \E f : F(f, Len(lines))
  <2> HIDE DEF T
  <2>1. Len(lines) \in T
    BY <1>0, <1>1, <1>2, Upto
  <2>2. QED
    BY <2>1 DEF T
<1>5. F(ReadAfter(lines), Len(lines))
  <2> HIDE DEF F
  <2>1. QED
    BY <1>3, <1>4
<1>6. QED
  BY <1>5 DEF base

\* A value read tells which option it is of.
Told(conf) == \A k \in DOMAIN conf : conf[k][1] = k
ReadOk(read) ==
    read = [section |-> read.section, conf |-> read.conf] /\ Told(read.conf)

LEMMA LineTold ==
    ASSUME NEW read, ReadOk(read), NEW line
    PROVE  ReadOk(ProcessLine(read, line))
<1>0. ASSUME NEW a, NEW b, NEW x
      PROVE  /\ [[section |-> a, conf |-> b] EXCEPT !.section = x]
                = [section |-> x, conf |-> b]
             /\ [[section |-> a, conf |-> b] EXCEPT !.conf = x]
                = [section |-> a, conf |-> x]
  OBVIOUS
<1>1. CASE line[1] = "section"
  <2>1. ProcessLine(read, line) = [read EXCEPT !.section = line[2]]
    BY <1>1 DEF ProcessLine
  <2>2. ProcessLine(read, line) = [section |-> line[2], conf |-> read.conf]
    BY <1>0, <2>1 DEF ReadOk
  <2>3. QED
    BY <2>2 DEF ReadOk
<1>2. CASE line[1] = "option"
  <2> DEFINE key == IF read.section = "" THEN line[2]
                    ELSE IF line[2][1] = "" THEN <<read.section, line[2][2]>>
                         ELSE <<read.section, line[2]>>
             conf == [k \in DOMAIN read.conf \cup {key} |->
                         IF k = key THEN <<key, line[3][2]>> ELSE read.conf[k]]
  <2>1. ProcessLine(read, line) = [read EXCEPT !.conf = conf]
    BY <1>2 DEF ProcessLine
  <2>2. Told(conf)
    <3> HIDE DEF key
    <3>1. ASSUME NEW k \in DOMAIN conf
          PROVE  conf[k][1] = k
      BY DEF ReadOk, Told
    <3>2. QED
      BY <3>1 DEF Told
  <2> HIDE DEF conf
  <2>3. ProcessLine(read, line) = [section |-> read.section, conf |-> conf]
    BY <1>0, <2>1 DEF ReadOk
  <2>4. QED
    BY <2>2, <2>3 DEF ReadOk
<1>3. CASE line[1] \notin {"section", "option"}
  BY <1>3 DEF ProcessLine
<1>4. QED
  BY <1>1, <1>2, <1>3

LEMMA ConfTold ==
    ASSUME NEW arg \in Args
    PROVE  Told(Conf(arg.source))
<1> DEFINE source == arg.source
           lines == LinesRead(source)
           f == ReadAfter(lines)
           T == {n \in 0 .. Len(lines) : ReadOk(f[n])}
           S == {source.lines[n] : n \in DOMAIN source.lines}
<1>1. lines \in Seq(S) /\ Len(lines) \in Nat
  <2>1. source.lines \in Seq(S)
    BY RPCAssumption
  <2> HIDE DEF S
  <2>2. \/ lines = <<>> \/ lines = source.lines
        \/ lines = SubSeq(source.lines, 1, Len(source.lines) - 1)
    BY DEF LinesRead
  <2>3. SubSeq(source.lines, 1, Len(source.lines) - 1) \in Seq(S)
    <3>1. Len(source.lines) \in Nat
          /\ \A i \in 1 .. Len(source.lines) : source.lines[i] \in S
      BY <2>1
    <3>2. \A i \in 1 .. Len(source.lines) - 1 : source.lines[i] \in S
      BY <3>1
    <3>3. QED
      BY <3>1, <3>2, SubSeqProperties
  <2>4. lines \in Seq(S)
    BY <2>1, <2>2, <2>3, EmptySeq
  <2>5. QED
    BY <2>4
<1> HIDE DEF S, lines
<1>2. f = [n \in 0 .. Len(lines) |->
              IF n = 0 THEN [section |-> "", conf |-> EmptyConf]
              ELSE ProcessLine(f[n - 1], lines[n])]
  BY <1>1, ReadFunction
<1> HIDE DEF f
<1>3. 0 \in T
  <2> DEFINE base == [section |-> "", conf |-> EmptyConf]
  <2>0. base.section = "" /\ base.conf = EmptyConf
        /\ base = [section |-> base.section, conf |-> base.conf]
    OBVIOUS
  <2>1. f[0] = base
    <3>1. f = [n \in 0 .. Len(lines) |-> IF n = 0 THEN base
                                          ELSE ProcessLine(f[n - 1], lines[n])]
      BY <1>2
    <3> HIDE DEF base
    <3>2. QED
      BY <1>1, <3>1
  <2>2. Told(EmptyConf)
    BY DEF Told, EmptyConf
  <2>3. QED
    <3> HIDE DEF base
    <3>1. ReadOk(base)
      BY <2>0, <2>2 DEF ReadOk
    <3>2. QED
      BY <1>1, <2>1, <3>1
<1>4. ASSUME NEW n \in 1 .. Len(lines), n - 1 \in T
      PROVE  n \in T
  <2>1. n \in 0 .. Len(lines) /\ n # 0
    BY <1>1
  <2>2. f[n] = ProcessLine(f[n - 1], lines[n])
    BY <1>2, <2>1
  <2>3. QED
    BY <1>4, <2>1, <2>2, LineTold
<1>5. ReadOk(f[Len(lines)])
  <2> HIDE DEF T
  <2>1. Len(lines) \in T
    BY <1>1, <1>3, <1>4, Upto
  <2>2. QED
    BY <2>1 DEF T
<1>6. QED
  BY <1>5 DEF ReadOk, Conf, f, lines

LEMMA ToldOf ==
    ASSUME NEW conf, Told(conf), NEW section, NEW name,
           <<section, name>> \in DOMAIN conf
    PROVE  conf[<<section, name>>][1][1] = section
<1> DEFINE k == <<section, name>>
<1>1. k[1] = section
  OBVIOUS
<1> HIDE DEF k
<1>2. conf[k][1] = k
  BY DEF Told, k
<1>3. conf[k][1][1] = section
  BY <1>1, <1>2
<1>4. QED
  BY <1>3 DEF k

\* OwnTo(value, net): the value is of that network's section or a general one.
OwnTo(value, net) == value[1][1] \in {"", net}

LEMMA PairFacts ==
    ASSUME NEW x, NEW y
    PROVE  /\ <<x, y>>[1] = x /\ <<x, y>>[2] = y /\ Len(<<x, y>>) = 2
           /\ \A i \in DOMAIN <<x, y>> : i = 1 \/ i = 2
<1>1. <<x, y>>[1] = x /\ <<x, y>>[2] = y /\ Len(<<x, y>>) = 2
  OBVIOUS
<1>2. DOMAIN <<x, y>> = 1 .. 2
  OBVIOUS
<1>3. QED
  BY <1>1, <1>2

LEMMA GeneralOwn ==
    ASSUME NEW x, NEW y, NEW net
    PROVE  OwnTo(<<<<"", x>>, y>>, net)
<1> DEFINE k == <<"", x>>
<1>1. k[1] = ""
  OBVIOUS
<1> HIDE DEF k
<1>2. <<k, y>>[1] = k
  OBVIOUS
<1>3. <<k, y>>[1][1] = ""
  BY <1>1, <1>2
<1>4. QED
  BY <1>3 DEF OwnTo, k

LEMMA LookupOwn ==
    ASSUME NEW arg \in Args, NEW name
    PROVE  Lookup(arg, name) = None \/ OwnTo(Lookup(arg, name), NetworkId(arg))
<1> DEFINE conf == Conf(arg.source)
           net == NetworkId(arg)
<1>1. Told(conf)
  BY ConfTold
<1> HIDE DEF conf, net
<1>2. Lookup(arg, name) = IF <<net, name>> \in DOMAIN conf
                          THEN conf[<<net, name>>]
                          ELSE IF <<"", name>> \in DOMAIN conf
                               THEN conf[<<"", name>>] ELSE None
  BY DEF Lookup, conf, net
<1>3. CASE <<net, name>> \in DOMAIN conf
  <2>1. conf[<<net, name>>][1][1] = net
    BY <1>1, <1>3, ToldOf
  <2>2. Lookup(arg, name)[1][1] = net
    BY <1>2, <1>3, <2>1
  <2>3. QED
    BY <2>2 DEF OwnTo, net
<1>4. CASE <<net, name>> \notin DOMAIN conf /\ <<"", name>> \in DOMAIN conf
  <2>1. conf[<<"", name>>][1][1] = ""
    BY <1>1, <1>4, ToldOf
  <2>2. Lookup(arg, name)[1][1] = ""
    BY <1>2, <1>4, <2>1
  <2>3. QED
    BY <2>2 DEF OwnTo
<1>5. QED
  BY <1>2, <1>3, <1>4

LEMMA ServiceOwn ==
    ASSUME NEW arg \in Args, Constructible(arg)
    PROVE  LET made == Service(arg)
           IN /\ made.host = None \/ OwnTo(made.host, made.network)
              /\ \/ OwnTo(made.port, made.network)
                 \/ made.port[1] = <<made.params, "RPC_PORT">>
              /\ \A i \in DOMAIN made.auth : OwnTo(made.auth[i], made.network)
              /\ \/ Len(made.auth) = 1 /\ made.auth[1][3] = made.params
                 \/ /\ Len(made.auth) = 2
                    /\ made.auth[1][1][1] = made.auth[2][1][1]
<1> DEFINE net == NetworkId(arg)
<1>1. /\ Service(arg).network = net /\ Service(arg).params = arg.network
      /\ Service(arg).host = Lookup(arg, "rpcconnect")
      /\ Service(arg).port = Port(arg) /\ Service(arg).auth = Auth(arg)
  BY DEF Service
<1>2. OwnTo(Port(arg), net) \/ Port(arg)[1] = <<arg.network, "RPC_PORT">>
  <2> DEFINE given == Lookup(arg, "rpcport")
             connect == Lookup(arg, "rpcconnect")
             split == SplitHostport(connect).port
  <2>1. connect = None => split = None
    BY DEF SplitHostport
  <2>2. /\ given # None => OwnTo(given, net)
        /\ connect # None => OwnTo(connect, net)
    BY LookupOwn
  <2> HIDE DEF given, connect, split, net
  <2>3. Port(arg) = IF given # None THEN given
                    ELSE IF split # None THEN <<connect[1], split>>
                    ELSE IF arg.port # None
                         THEN <<<<"", "service_port">>, arg.port>>
                    ELSE <<<<arg.network, "RPC_PORT">>, RPCPort[arg.network]>>
    BY DEF Port, given, connect, split
  <2>4. CASE given # None
    BY <2>2, <2>3, <2>4
  <2>5. CASE given = None /\ split # None
    <3>1. Port(arg) = <<connect[1], split>> /\ OwnTo(connect, net)
      BY <2>1, <2>2, <2>3, <2>5
    <3>2. Port(arg)[1] = connect[1]
      BY <3>1
    <3>3. QED
      BY <3>1, <3>2 DEF OwnTo
  <2>6. CASE given = None /\ split = None /\ arg.port # None
    <3>1. Port(arg) = <<<<"", "service_port">>, arg.port>>
      BY <2>3, <2>6
    <3>2. QED
      BY <3>1, GeneralOwn
  <2>7. CASE given = None /\ split = None /\ arg.port = None
    <3> DEFINE k == <<arg.network, "RPC_PORT">>
    <3> HIDE DEF k
    <3>1. Port(arg) = <<k, RPCPort[arg.network]>>
      BY <2>3, <2>7 DEF k
    <3>2. Port(arg)[1] = k
      BY <3>1
    <3>3. QED
      BY <3>2 DEF k
  <2>8. QED
    BY <2>4, <2>5, <2>6, <2>7
<1>3. CASE Cookie(arg) # None
  <2>1. OwnTo(Cookie(arg), net) /\ Cookie(arg)[3] = arg.network
    <3> DEFINE dir == CookieDir(arg)
    <3>1. dir # None /\ Cookie(arg) = <<dir[1], dir[2], arg.network>>
      BY <1>3 DEF Cookie
    <3>2. CookieDir(arg) = Lookup(arg, "datadir") \/ CookieDir(arg) = None
          \/ CookieDir(arg) = <<<<"", "conf_file">>, "confdir">>
      BY DEF CookieDir
    <3>3. OwnTo(dir, net)
      BY <3>1, <3>2, LookupOwn, GeneralOwn, Zenon
    <3> HIDE DEF dir, net
    <3>4. Cookie(arg)[1] = dir[1] /\ Cookie(arg)[3] = arg.network
      BY <3>1
    <3>5. QED
      BY <3>3, <3>4 DEF OwnTo
  <2>2. Auth(arg) = <<Cookie(arg)>>
    BY <1>3 DEF Auth
  <2> HIDE DEF net
  <2>3. Len(Auth(arg)) = 1 /\ DOMAIN Auth(arg) = {1} /\ Auth(arg)[1] = Cookie(arg)
    BY <2>2
  <2>4. QED
    BY <1>1, <1>2, <2>1, <2>3, LookupOwn DEF net
<1>4. CASE Cookie(arg) = None
  <2> DEFINE conf == Conf(arg.source)
             user(section) == IF <<section, "rpcuser">> \in DOMAIN conf
                              THEN conf[<<section, "rpcuser">>]
                              ELSE <<<<section, "rpcuser">>, "">>
             pass(section) == conf[<<section, "rpcpassword">>]
  <2>1. Password(arg) # None
    BY <1>4 DEF Constructible, Auth
  <2>2. PICK section \in {"", net} :
           /\ <<section, "rpcpassword">> \in DOMAIN conf
           /\ Auth(arg) = <<user(section), pass(section)>>
    <3>1. \/ /\ <<net, "rpcpassword">> \in DOMAIN conf
             /\ Password(arg) = <<user(net), pass(net)>>
          \/ /\ <<"", "rpcpassword">> \in DOMAIN conf
             /\ Password(arg) = <<user(""), pass("")>>
      BY <2>1 DEF Password
    <3>2. Auth(arg) = Password(arg)
      BY <1>4 DEF Auth
    <3> HIDE DEF user, pass, conf, net
    <3>3. QED
      BY <3>1, <3>2
  <2>3. Told(conf)
    BY ConfTold
  <2> HIDE DEF conf, net
  <2>4. user(section)[1][1] = section /\ pass(section)[1][1] = section
    <3>1. pass(section)[1][1] = section
      BY <2>2, <2>3, ToldOf
    <3>2. CASE <<section, "rpcuser">> \in DOMAIN conf
      <4>1. conf[<<section, "rpcuser">>][1][1] = section
        BY <2>3, <3>2, ToldOf
      <4>2. QED
        BY <3>1, <3>2, <4>1
    <3>3. CASE <<section, "rpcuser">> \notin DOMAIN conf
      <4> DEFINE k == <<section, "rpcuser">>
      <4>1. user(section) = <<k, "">>
        BY <3>3
      <4>2. k[1] = section
        OBVIOUS
      <4> HIDE DEF k, user
      <4>3. user(section)[1] = k
        <5> DEFINE q == <<k, "">>
        <5>1. q[1] = k
          BY PairFacts, Zenon
        <5> HIDE DEF q
        <5>2. user(section) = q
          BY <4>1 DEF q
        <5>3. QED
          BY <5>1, <5>2
      <4>4. QED
        BY <3>1, <4>2, <4>3
    <3>4. QED
      BY <3>2, <3>3
  <2> DEFINE u == user(section)
             p == pass(section)
  <2> HIDE DEF u, p
  <2>5. /\ Auth(arg)[1] = u /\ Auth(arg)[2] = p /\ Len(Auth(arg)) = 2
        /\ \A i \in DOMAIN Auth(arg) : i = 1 \/ i = 2
    <3>1. Auth(arg) = <<u, p>>
      BY <2>2 DEF u, p
    <3> DEFINE q == <<u, p>>
    <3>2. q[1] = u /\ q[2] = p /\ Len(q) = 2 /\ \A i \in DOMAIN q : i = 1 \/ i = 2
      BY PairFacts, Zenon
    <3> HIDE DEF q
    <3>3. Auth(arg) = q
      BY <3>1 DEF q
    <3>4. QED
      BY <3>2, <3>3
  <2>6. OwnTo(u, net) /\ OwnTo(p, net)
    BY <2>2, <2>4 DEF OwnTo, u, p
  <2>7. \A i \in DOMAIN Auth(arg) : OwnTo(Auth(arg)[i], net)
    BY <2>5, <2>6
  <2>8. Auth(arg)[1][1][1] = Auth(arg)[2][1][1]
    BY <2>4, <2>5 DEF u, p
  <2>9. QED
    BY <1>1, <1>2, <2>5, <2>7, <2>8, LookupOwn DEF net
<1>5. QED
  BY <1>3, <1>4

ServiceInv ==
    service \in {NotConnected, InUse}
                \cup {Service(arg) : arg \in {a \in Args : Constructible(a)}}

LEMMA ServiceFound == ServiceInv => ServiceOfOneNetwork
<1> SUFFICES ASSUME ServiceInv, service \notin {NotConnected, InUse}
             PROVE  /\ service.host = None \/ OwnTo(service.host, service.network)
                    /\ \/ OwnTo(service.port, service.network)
                       \/ service.port[1] = <<service.params, "RPC_PORT">>
                    /\ \A i \in DOMAIN service.auth :
                          OwnTo(service.auth[i], service.network)
                    /\ \/ Len(service.auth) = 1 /\ service.auth[1][3] = service.params
                       \/ /\ Len(service.auth) = 2
                          /\ service.auth[1][1][1] = service.auth[2][1][1]
  BY DEF ServiceOfOneNetwork, OwnTo
<1>1. PICK arg \in Args : Constructible(arg) /\ service = Service(arg)
  BY DEF ServiceInv
<1>2. QED
  BY <1>1, ServiceOwn

\* Host, port and credentials come from the section of the network that chain=
\* or the current parameters name, or from the general one, user and password
\* from the same; the default port and the cookie's subdirectory are the current
\* parameters' (RPCCaller.__init__).
THEOREM OneNetwork == Spec => []ServiceOfOneNetwork
<1>1. Init => ServiceInv
  BY DEF Init, ServiceInv
<1>2. ServiceInv /\ [Next]_vars => ServiceInv'
  <2> SUFFICES ASSUME ServiceInv, [Next]_vars PROVE ServiceInv'
    OBVIOUS
  <2>1. CASE Construct
    BY <2>1 DEF Construct, ServiceInv
  <2>2. CASE Connect \/ Close
    BY <2>2 DEF Connect, Close, ServiceInv
  <2>3. ASSUME UNCHANGED service
        PROVE  ServiceInv'
    BY <2>3 DEF ServiceInv
  <2>4. CASE UNCHANGED vars
    BY <2>3, <2>4 DEF vars
  <2>5. ASSUME NEW t \in Threads,
               \/ EncodeFails(t) \/ RefuseRequest(t) \/ CannotConnect(t)
               \/ Request(t) \/ Progress(t)
        PROVE  UNCHANGED service
    BY <2>5 DEF EncodeFails, RefuseRequest, CannotConnect, Request, NewCall,
       Progress, RefuseResponse, GetResponse, Disconnected, Timeout, Read,
       ReadTimeout, Keep
  <2>6. ASSUME NEW s \in DOMAIN sockets, Execute(s) \/ Hangup(s)
        PROVE  UNCHANGED service
    BY <2>6 DEF Execute, Hangup
  <2>7. QED
    BY <2>1, <2>2, <2>3, <2>4, <2>5, <2>6 DEF Next
<1>3. QED
  BY <1>1, <1>2, ServiceFound, PTL DEF Spec
=============================================================================
