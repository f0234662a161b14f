----------------------------- MODULE RPCClient -----------------------------
(* RPCCaller (rpc.py): remote calls over one HTTP connection that is kept    *)
(* between calls.                                                            *)
(*                                                                           *)
(* Threads may share an RPCCaller; a step is one call of http.client, which  *)
(* is modelled as rpc.py uses it.  The connection is "idle" or "sent" (a     *)
(* request was begun and its response headers have not been read); `unread'  *)
(* is the call whose response has not been read to its end.  A socket holds  *)
(* the requests and the answers under way, in order.  The node may answer    *)
(* late or never, and close the connection at any time.                      *)
EXTENDS RPCConfig, FiniteSets

CONSTANTS
    Args,        \* what RPCCaller is constructed from
    Threads,     \* the threads that share it
    Contents,    \* what a response may hold: "result", "error" and "junk"
    MaxCalls,    \* bound on the calls made
    MaxSockets,  \* bound on the connections opened
    CloseInFlight  \* whether callers close while a call is under way

ASSUME RPCAssumption ==
    /\ MaxCalls \in Nat /\ MaxSockets \in Nat
    /\ CloseInFlight \in BOOLEAN
    /\ Contents \subseteq {"result", "error", "junk"}
    /\ \A arg \in Args : LET lines == arg.source.lines
                         IN lines \in Seq({lines[n] : n \in DOMAIN lines})

VARIABLES
    service,   \* host, port and credentials, until connect() has used them
    id_count,
    conn,      \* [state, sock, unread]; sock and unread are 0 if there is none
    sockets,   \* the sockets opened: [open, requests, responses]
    pc,        \* thread -> "idle", "sent" (request is made) or "got" (headers)
    call,      \* thread -> its latest call
    response,  \* thread -> [id, content, closed] of the response it reads
    outcome,   \* thread -> how its latest call ended
    executed,  \* call -> how often the node has executed it
    failed     \* whether a call failed since the connection was last reset

vars == <<service, id_count, conn, sockets, pc, call, response, outcome,
          executed, failed>>

NotConnected == [network |-> "not connected"]
InUse == [network |-> "in use"]

Socket(open, requests, responses) ==
    [open |-> open, requests |-> requests, responses |-> responses]
Fresh == [state |-> "idle", sock |-> 0, unread |-> 0]
NoResponse == [id |-> 0, content |-> "result", closed |-> TRUE]
Refused == {"CannotSendRequest", "ResponseNotReady"}

Init ==
    /\ service = NotConnected
    /\ id_count = 0
    /\ conn = Fresh
    /\ sockets = <<>>
    /\ pc = [t \in Threads |-> "idle"]
    /\ call = [t \in Threads |-> 0]
    /\ response = [t \in Threads |-> NoResponse]
    /\ outcome = [t \in Threads |-> "none"]
    /\ executed = [id \in 1 .. MaxCalls |-> 0]
    /\ failed = FALSE

(* __init__ finds out where the node is, and ends with connect().            *)
Construct ==
    /\ service = NotConnected
    /\ \E arg \in Args : Constructible(arg) /\ service' = Service(arg)
    /\ UNCHANGED <<id_count, conn, sockets, pc, call, response, outcome,
                   executed, failed>>

InFlight == {t \in Threads : pc[t] # "idle"}

(* connect() makes a new connection object; close() resets the one there is, *)
(* and drops the response that has not been read.                            *)
Closed(r) == [t \in Threads |->
    IF call[t] = conn.unread THEN [r[t] EXCEPT !.closed = TRUE] ELSE r[t]]

Reset ==
    /\ CloseInFlight \/ InFlight = {}
    /\ conn' = Fresh
    /\ failed' = FALSE
    /\ UNCHANGED <<id_count, sockets, pc, call, outcome, executed>>
Connect ==
    /\ service # NotConnected
    /\ Reset /\ service' = InUse /\ UNCHANGED response
Close ==
    /\ service = InUse
    /\ Reset /\ response' = Closed(response) /\ UNCHANGED service

(* A call of thread t ends: it returns a value or raises.                    *)
End(t, how) ==
    /\ pc' = [pc EXCEPT ![t] = "idle"]
    /\ outcome' = [outcome EXCEPT ![t] = how]

NewCall(t) ==
    /\ service = InUse /\ pc[t] = "idle" /\ id_count < MaxCalls
    /\ id_count' = id_count + 1
    /\ call' = [call EXCEPT ![t] = id_count + 1]
    /\ UNCHANGED <<service, response, executed>>

(* The arguments cannot be written as JSON without loss.                     *)
EncodeFails(t) ==
    /\ NewCall(t) /\ End(t, "TypeError")
    /\ UNCHANGED <<conn, sockets, failed>>

(* request(): the previous request must be over.                             *)
RefuseRequest(t) ==
    /\ NewCall(t) /\ conn.state # "idle" /\ End(t, "CannotSendRequest")
    /\ UNCHANGED <<conn, sockets, failed>>

(* A request opens a socket where there is none, and that may fail; sending  *)
(* may fail as well, before or after the node has got it all.                *)
HasSocket == conn.sock # 0
Opened == IF HasSocket THEN sockets
          ELSE Append(sockets, Socket(TRUE, <<>>, <<>>))
Target == IF HasSocket THEN conn.sock ELSE Len(Opened)
Delivered(id) ==
    IF Opened[Target].open
    THEN [Opened EXCEPT ![Target] =
             Socket(TRUE, Append(@.requests, id), @.responses)]
    ELSE Opened

CannotConnect(t) ==
    /\ NewCall(t) /\ conn.state = "idle" /\ ~HasSocket
    /\ conn' = [conn EXCEPT !.state = "sent"]
    /\ failed' = TRUE
    /\ End(t, "ConnectionError") /\ UNCHANGED sockets

Request(t) ==
    /\ NewCall(t) /\ conn.state = "idle"
    /\ Len(Opened) <= MaxSockets
    /\ conn' = [conn EXCEPT !.state = "sent", !.sock = Target]
    /\ \/ /\ sockets' = Delivered(id_count + 1)
          /\ pc' = [pc EXCEPT ![t] = "sent"]
          /\ UNCHANGED <<outcome, failed>>
       \/ /\ sockets' \in {Opened, Delivered(id_count + 1)}
          /\ failed' = TRUE /\ End(t, "SendError")

(* getresponse(): the response before it must have been read to its end.     *)
NotReady == conn.state # "sent" \/ conn.unread # 0
Incoming == sockets[conn.sock].responses

Keep == UNCHANGED <<service, id_count, call, executed>>

RefuseResponse(t) ==
    /\ pc[t] = "sent" /\ NotReady
    /\ failed' = TRUE /\ End(t, "ResponseNotReady")
    /\ UNCHANGED <<conn, sockets, response>> /\ Keep

(* The headers of the next answer on the socket; which request it answers is *)
(* not looked at.  The node may say that it closes the connection after it.  *)
GetResponse(t) ==
    /\ pc[t] = "sent" /\ ~NotReady /\ HasSocket /\ Incoming # <<>>
    /\ \E willClose \in BOOLEAN :
          conn' = IF willClose THEN Fresh
                  ELSE [conn EXCEPT !.state = "idle", !.unread = call[t]]
    /\ \E content \in Contents :
          response' = [response EXCEPT ![t] =
              [id |-> Head(Incoming), content |-> content, closed |-> FALSE]]
    /\ sockets' = [sockets EXCEPT ![conn.sock] =
           Socket(@.open, @.requests, Tail(@.responses))]
    /\ pc' = [pc EXCEPT ![t] = "got"]
    /\ UNCHANGED <<outcome, failed>> /\ Keep

(* The node has closed the connection: http.client closes its side.          *)
Disconnected(t) ==
    /\ pc[t] = "sent" /\ ~NotReady
    /\ ~HasSocket \/ (Incoming = <<>> /\ ~sockets[conn.sock].open)
    /\ conn' = Fresh
    /\ failed' = TRUE /\ End(t, "ConnectionError")
    /\ response' = Closed(response) /\ UNCHANGED sockets /\ Keep

(* Nothing comes for DEFAULT_HTTP_TIMEOUT seconds: the connection is left as *)
(* it is.                                                                    *)
\* Mutant of Timeout: the connection is ready for the next request.
TimeoutIdle(t) ==
    /\ pc[t] = "sent" /\ ~NotReady /\ HasSocket
    /\ conn' = [conn EXCEPT !.state = "idle"]
    /\ failed' = TRUE /\ End(t, "timeout")
    /\ UNCHANGED <<sockets, response>> /\ Keep
\* Mutant of Timeout: the connection has no timeout.
TimeoutNever(t) == pc[t] = "closed" /\ UNCHANGED vars
Timeout(t) ==
    /\ pc[t] = "sent" /\ ~NotReady /\ HasSocket
    /\ failed' = TRUE /\ End(t, "timeout")
    /\ UNCHANGED <<conn, sockets, response>> /\ Keep

(* read(), and what _call makes of the text.                                 *)
Result(r) ==
    IF r.closed \/ r.content = "junk" THEN "non-JSON"
    ELSE IF r.content = "error" THEN "JSONRPCError" ELSE "returned"
\* Mutant of Read: a response that is no JSON is not read to its end.
ReadHeadersOnly(t) ==
    /\ pc[t] = "got"
    /\ response[t].content = "junk" => UNCHANGED conn
    /\ response[t].content # "junk" =>
          conn' = [conn EXCEPT !.unread = IF @ = call[t] THEN 0 ELSE @]
    /\ response' = [response EXCEPT ![t].closed = TRUE]
    /\ End(t, Result(response[t]))
    /\ UNCHANGED <<sockets, failed>> /\ Keep
Read(t) ==
    /\ pc[t] = "got"
    /\ conn' = [conn EXCEPT !.unread = IF @ = call[t] THEN 0 ELSE @]
    /\ response' = [response EXCEPT ![t].closed = TRUE]
    /\ End(t, Result(response[t]))
    /\ UNCHANGED <<sockets, failed>> /\ Keep

ReadTimeout(t) ==
    /\ pc[t] = "got" /\ ~response[t].closed
    /\ failed' = TRUE /\ End(t, "timeout")
    /\ UNCHANGED <<conn, sockets, response>> /\ Keep

-----------------------------------------------------------------------------
(* The node executes requests in the order they come and answers each, or    *)
(* closes the connection with what it has not executed.                      *)
Execute(s) ==
    LET id == Head(sockets[s].requests)
    IN /\ sockets[s].open /\ sockets[s].requests # <<>>
       /\ sockets' = [sockets EXCEPT ![s] =
              Socket(TRUE, Tail(@.requests), Append(@.responses, id))]
       /\ executed' = [executed EXCEPT ![id] = @ + 1]
       /\ UNCHANGED <<service, id_count, conn, pc, call, response, outcome,
                      failed>>

Hangup(s) ==
    /\ sockets[s].open
    /\ sockets' = [sockets EXCEPT ![s] = Socket(FALSE, <<>>, @.responses)]
    /\ UNCHANGED <<service, id_count, conn, pc, call, response, outcome,
                   executed, failed>>

Progress(t) ==
    \/ RefuseResponse(t) \/ GetResponse(t) \/ Disconnected(t) \/ Timeout(t)
    \/ Read(t) \/ ReadTimeout(t)

Next ==
    \/ Construct \/ Connect \/ Close
    \/ \E t \in Threads :
          \/ EncodeFails(t) \/ RefuseRequest(t) \/ CannotConnect(t)
          \/ Request(t) \/ Progress(t)
    \/ \E s \in DOMAIN sockets : Execute(s) \/ Hangup(s)

(* The socket has a timeout, so a call that waits goes on.                   *)
Fairness == \A t \in Threads : WF_vars(Progress(t))
Spec == Init /\ [][Next]_vars /\ Fairness

-----------------------------------------------------------------------------
(* Properties.                                                               *)

Ids == 1 .. MaxCalls
Connections == [state : {"idle", "sent"}, sock : 0 .. MaxSockets,
                unread : {0} \cup Ids]
Sockets == [open : BOOLEAN, requests : Seq(Ids), responses : Seq(Ids)]
Responses == [id : {0} \cup Ids, closed : BOOLEAN,
              content : {"result", "error", "junk"}]
Outcomes == {"none", "TypeError", "CannotSendRequest", "ConnectionError",
             "SendError", "ResponseNotReady", "timeout", "non-JSON",
             "JSONRPCError", "returned"}

TypeOK ==
    /\ id_count \in {0} \cup Ids /\ failed \in BOOLEAN
    /\ sockets \in Seq(Sockets) /\ Len(sockets) <= MaxSockets
    /\ conn \in Connections /\ conn.sock <= Len(sockets)
    /\ pc \in [Threads -> {"idle", "sent", "got"}]
    /\ call \in [Threads -> {0} \cup Ids]
    /\ response \in [Threads -> Responses]
    /\ outcome \in [Threads -> Outcomes]
    /\ executed \in [Ids -> Nat]

(* Ids are never compared, and yet a call gets the answer to its own request,*)
(* whatever earlier calls left on the connection.  The node executes no      *)
(* request twice, none that was refused or could not be encoded, and that of *)
(* a call which returns a value once.                                        *)
OwnAnswer ==
    /\ \A id \in 1 .. MaxCalls : executed[id] <= 1
    /\ \A t \in Threads :
          /\ pc[t] = "got" => response[t].id = call[t]
          /\ pc[t] = "idle" /\ outcome[t] = "returned" => executed[call[t]] = 1
          /\ pc[t] = "idle" /\ outcome[t] \in {"CannotSendRequest", "TypeError"}
                => executed[call[t]] = 0

(* The connection refuses a call only while another is under way, or after a *)
(* call has failed and neither close() nor connect() followed.               *)
RefusedOnlyAfterFailure ==
    [][\A t \in Threads :
          /\ call'[t] # call[t] \/ pc'[t] # pc[t]
          /\ pc'[t] = "idle" /\ outcome'[t] \in Refused
          => failed \/ InFlight \ {t} # {}]_vars

(* Every call ends.                                                          *)
EveryCallEnds == \A t \in Threads : pc[t] # "idle" ~> pc[t] = "idle"

(* Every setting is general or of the section of the network that chain=     *)
(* names (that of the current parameters without it), and user and password  *)
(* are from one section.  Only the default port and the subdirectory of the  *)
(* cookie are those of the current parameters, also where chain= names       *)
(* another network: without such a chain=, all is of one network.            *)
ServiceOfOneNetwork ==
    service \notin {NotConnected, InUse} =>
       LET own(value) == value[1][1] \in {"", service.network}
       IN /\ service.host = None \/ own(service.host)
          /\ own(service.port) \/ service.port[1] = <<service.params, "RPC_PORT">>
          /\ \A i \in DOMAIN service.auth : own(service.auth[i])
          /\ \/ /\ Len(service.auth) = 1
                /\ service.auth[1][3] = service.params
             \/ /\ Len(service.auth) = 2
                /\ service.auth[1][1][1] = service.auth[2][1][1]

(* All of it is of the network that chain= names.  The code does not keep    *)
(* this: rpc.py takes port and subdirectory of the current parameters.       *)
AllOfNamedNetwork ==
    service \notin {NotConnected, InUse} =>
       LET own(value) == value[1][1] \in {"", service.network}
       IN /\ own(service.port)
          /\ Len(service.auth) = 1 => service.auth[1][3] = service.network
=============================================================================
