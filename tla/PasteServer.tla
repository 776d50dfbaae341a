------------------------------ MODULE PasteServer ------------------------------
(* The server experiment of read_path_lab.py: client processes on kept-alive            *)
(* connections, a handler thread for each, and the main thread that reads what the      *)
(* handlers measured.  A response leaves as two segments, and TCP (external) may hold   *)
(* the second: Nagle's algorithm waits for the acknowledgement the client delays.       *)
EXTENDS Integers, Sequences

CONSTANTS Clients, PerClient

PasteAssumption == PerClient \in Nat \ {0}

VARIABLES
    nodelay,       \* disable_nagle_algorithm
    main,          \* the main thread: "starmap", "shutdown" or "report"
    client,        \* client[c]: its next call
    out,           \* out[c]: the answers it has read, by number of the request
    request,       \* request[c]: number of the request the server has not read, or 0
    handler,       \* handler[c]: the next call of the thread of c's connection
    serving,       \* serving[c]: number of the request it serves
    handler_times, \* a list they all append to: whose request, and its number
    held,          \* held[c]: the segments TCP has not sent
    arrived,       \* arrived[c]: those the client has not read
    unacked        \* unacked[c]: one was sent and is not acknowledged

pasteVars == <<nodelay, main, client, out, request, handler, serving, handler_times,
               held, arrived, unacked>>

connection == <<held, arrived, unacked>>

PasteInit ==
    /\ nodelay \in BOOLEAN
    /\ main = "starmap"
    /\ client = [c \in Clients |-> "request"]
    /\ out = [c \in Clients |-> <<>>]
    /\ request = [c \in Clients |-> 0]
    /\ handler = [c \in Clients |-> "read"]
    /\ serving = [c \in Clients |-> 0]
    /\ handler_times = <<>>
    /\ held = [c \in Clients |-> <<>>]
    /\ arrived = [c \in Clients |-> <<>>]
    /\ unacked = [c \in Clients |-> FALSE]

\* conn.request: acknowledges what has arrived.
Request(c) ==
    /\ client[c] = "request" /\ Len(out[c]) < PerClient
    /\ request' = [request EXCEPT ![c] = Len(out[c]) + 1]
    /\ unacked' = [unacked EXCEPT ![c] = FALSE]
    /\ client' = [client EXCEPT ![c] = "getresponse"]
    /\ UNCHANGED <<nodelay, main, out, handler, serving, handler_times, held, arrived>>

\* getresponse waits for the headers, read for the body.
Receive(c) ==
    /\ client[c] \in {"getresponse", "read"} /\ arrived[c] # <<>>
    /\ arrived' = [arrived EXCEPT ![c] = Tail(@)]
    /\ IF client[c] = "getresponse"
       THEN client' = [client EXCEPT ![c] = "read"] /\ UNCHANGED out
       ELSE /\ client' = [client EXCEPT ![c] = "request"]
            /\ out' = [out EXCEPT ![c] = Append(@, Head(arrived[c]).number)]
    /\ UNCHANGED <<nodelay, main, request, handler, serving, handler_times, held, unacked>>

\* conn.close and return out.
Return(c) ==
    /\ client[c] = "request" /\ Len(out[c]) = PerClient
    /\ client' = [client EXCEPT ![c] = "returned"]
    /\ UNCHANGED <<nodelay, main, out, request, handler, serving, handler_times, connection>>

ReadRequest(c) ==
    /\ handler[c] = "read" /\ request[c] # 0
    /\ serving' = [serving EXCEPT ![c] = request[c]]
    /\ request' = [request EXCEPT ![c] = 0]
    /\ handler' = [handler EXCEPT ![c] = "execute"]
    /\ UNCHANGED <<nodelay, main, client, out, handler_times, connection>>

\* The lookup, and handler_times.append, which is atomic.
Lookup(c) ==
    /\ handler[c] = "execute"
    /\ handler_times' = Append(handler_times, <<c, serving[c]>>)
    /\ handler' = [handler EXCEPT ![c] = "end_headers"]
    /\ UNCHANGED <<nodelay, main, client, out, request, serving, connection>>

\* Nagle's algorithm: a small segment waits while another is not acknowledged.
Send(c, segment) ==
    IF nodelay \/ ~unacked[c]
    THEN /\ arrived' = [arrived EXCEPT ![c] = Append(@, segment)]
         /\ unacked' = [unacked EXCEPT ![c] = TRUE]
         /\ UNCHANGED held
    ELSE held' = [held EXCEPT ![c] = Append(@, segment)] /\ UNCHANGED <<arrived, unacked>>

EndHeaders(c) ==
    /\ handler[c] = "end_headers"
    /\ Send(c, [part |-> "headers", number |-> serving[c]])
    /\ handler' = [handler EXCEPT ![c] = "write"]
    /\ UNCHANGED <<nodelay, main, client, out, request, serving, handler_times>>

WriteBody(c) ==
    /\ handler[c] = "write"
    /\ Send(c, [part |-> "body", number |-> serving[c]])
    /\ handler' = [handler EXCEPT ![c] = "read"]
    /\ UNCHANGED <<nodelay, main, client, out, request, serving, handler_times>>

\* The client's TCP acknowledges with nothing to send along: its timer ran out.
DelayedAck(c) ==
    /\ unacked[c]
    /\ arrived' = [arrived EXCEPT ![c] = @ \o held[c]]
    /\ unacked' = [unacked EXCEPT ![c] = held[c] # <<>>]
    /\ held' = [held EXCEPT ![c] = <<>>]
    /\ UNCHANGED <<nodelay, main, client, out, request, handler, serving, handler_times>>

\* starmap returns; server.shutdown, which does not wait for the handlers.
Main ==
    /\ \/ main = "starmap" /\ (\A c \in Clients : client[c] = "returned") /\ main' = "shutdown"
       \/ main = "shutdown" /\ main' = "report"
    /\ UNCHANGED <<nodelay, client, out, request, handler, serving, handler_times, connection>>

ConnectionStep(c) ==
    \/ Request(c) \/ Receive(c) \/ Return(c)
    \/ ReadRequest(c) \/ Lookup(c) \/ EndHeaders(c) \/ WriteBody(c)

PasteNext == Main \/ \E c \in Clients : ConnectionStep(c) \/ DelayedAck(c)

-------------------------------------------------------------------------------

Times == {handler_times[k] : k \in DOMAIN handler_times}

\* A client reads the answers to its own requests in their order, headers before body, and
\* each was timed before it was sent: so when the main thread sorts what the handlers have
\* measured, without waiting for them, it has one time for every request.
EveryRequestIsTimed ==
    /\ \A c \in Clients :
          /\ \A k \in DOMAIN out[c] : out[c][k] = k /\ <<c, k>> \in Times
          /\ arrived[c] # <<>> =>
                (client[c] = "getresponse") = (Head(arrived[c]).part = "headers")
    /\ main = "report" =>
          /\ Times = Clients \X (1..PerClient)
          /\ \A j, k \in DOMAIN handler_times : handler_times[j] = handler_times[k] => j = k

\* The experiment ends; with TCP_NODELAY, without the help of any delayed acknowledgement.
ExperimentEnds == <>(main = "report")

===============================================================================
