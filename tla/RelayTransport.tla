--------------------------- MODULE RelayTransport ---------------------------
(***************************************************************************)
(* The Field app's relay client (mobile/src/transport.js, RelayTransport): *)
(* callers share one WebSocket to the Relay, opened on demand by a         *)
(* single-flight _connect, and each request is settled by its response, by *)
(* an error frame, by its own timer or by the close of a socket.  Every    *)
(* WebSocket callback and every timer is a step of its own; an object that *)
(* was closed or replaced still fires its callbacks later.  A change of    *)
(* pairing retires the transport: it gets no new request, but those it has *)
(* run on.                                                                 *)
(*                                                                         *)
(* A member of Sockets is a WebSocket object; a closed one whose callbacks *)
(* have all run is reused for the next one.  Frames, base64 and headers    *)
(* are left out.                                                           *)
(***************************************************************************)
CONSTANTS
    Callers,      \* concurrent callers of request(); each has one request at a time
    Sockets,      \* WebSocket objects that can exist at once
    NoSocket      \* null

ASSUME SocketsAssumption == NoSocket \notin Sockets

VARIABLES
    sock,        \* state of each WebSocket object
    adopted,     \* sockets whose handlers were replaced when "ready" arrived
    ws,          \* this.ws
    connecting,  \* the socket of the unsettled promise this._connecting
    req,         \* state of each caller's request
    on,          \* the socket a pending request was sent on
    retired      \* setActivePairing has closed and replaced this transport

transport == <<sock, adopted, ws, connecting, req, on, retired>>

SocketStates == {"closed", "connecting", "open", "closing"}
RequestStates == {"idle", "waiting", "pending", "resolved", "rejected"}

TransportInit ==
    /\ sock = [s \in Sockets |-> "closed"] /\ adopted = {}
    /\ ws = NoSocket /\ connecting = NoSocket
    /\ req = [c \in Callers |-> "idle"] /\ on = [c \in Callers |-> NoSocket]
    /\ retired = FALSE

-----------------------------------------------------------------------------
(* Callers awaiting the connection; requests in the pending map *)
Waiting == {c \in Callers : req[c] = "waiting"}
Pending == {c \in Callers : req[c] = "pending"}

Settle(cs, outcome) == req' = [c \in Callers |-> IF c \in cs THEN outcome ELSE req[c]]

(* A caller comes to this transport with its next request. *)
Arrives(c) == ~retired /\ req[c] \notin {"waiting", "pending"}

(* _teardown: close whatever socket is current, forget it. *)
Teardown ==
    /\ sock' = [s \in Sockets |-> IF s = ws THEN "closing" ELSE sock[s]]
    /\ ws' = NoSocket

(* _connect opens a socket only when there is neither an open nor a connecting one. *)
MayConnect == ws = NoSocket /\ connecting = NoSocket

(* request() on the open socket: into the pending map, timer armed, frame sent. *)
SendOnOpen(c) ==
    /\ Arrives(c)
    /\ ws # NoSocket
    /\ Settle({c}, "pending")
    /\ on' = [on EXCEPT ![c] = ws]
    /\ UNCHANGED <<sock, adopted, ws, connecting, retired>>

(* request() on the open socket, whose send throws. *)
RequestSendFails(c) ==
    /\ Arrives(c)
    /\ ws # NoSocket
    /\ Settle({c}, "rejected")
    /\ Teardown
    /\ UNCHANGED <<adopted, connecting, on, retired>>

(* request() joins the connection attempt under way. *)
JoinConnect(c) ==
    /\ Arrives(c)
    /\ ws = NoSocket /\ connecting # NoSocket
    /\ Settle({c}, "waiting")
    /\ UNCHANGED <<sock, adopted, ws, connecting, on, retired>>

(* request() starts a connection attempt: socket, 12 s timer, shared promise. *)
StartConnect(c) ==
    /\ Arrives(c)
    /\ MayConnect
    /\ \E s \in Sockets :
          /\ sock[s] = "closed"
          /\ sock' = [sock EXCEPT ![s] = "connecting"]
          /\ connecting' = s
    /\ Settle({c}, "waiting")
    /\ UNCHANGED <<adopted, ws, on, retired>>

Ready_One(s) ==
    /\ sock[s] = "connecting"
    /\ sock' = [sock EXCEPT ![s] = "open"]
    /\ adopted' = adopted \cup {s}
    /\ ws' = s
    /\ connecting' = NoSocket
    /\ \E c \in Waiting : Settle({c}, "pending") /\ on' = [on EXCEPT ![c] = s]
    /\ UNCHANGED retired

(* "ready": the socket becomes this.ws with its final handlers, the promise
   resolves and every waiting request is sent in the same turn of the event loop. *)
Ready(s) ==
    /\ sock[s] = "connecting"
    /\ sock' = [sock EXCEPT ![s] = "open"]
    /\ adopted' = adopted \cup {s}
    /\ ws' = s
    /\ connecting' = NoSocket
    /\ on' = [c \in Callers |-> IF c \in Waiting THEN s ELSE on[c]]
    /\ Settle(Waiting, "pending")
    /\ UNCHANGED retired

(* "ready", but the send of one waiting request throws: the socket is torn down, and
   the requests after it find this.ws null and fail as well. *)
ReadySendFails(s) ==
    /\ sock[s] = "connecting"
    /\ sock' = [sock EXCEPT ![s] = "closing"]
    /\ adopted' = adopted \cup {s}
    /\ ws' = NoSocket
    /\ connecting' = NoSocket
    /\ \E sent \in SUBSET Waiting :
          /\ sent # Waiting
          /\ on' = [c \in Callers |-> IF c \in sent THEN s ELSE on[c]]
          /\ req' = [c \in Callers |-> CASE c \in sent -> "pending"
                                         [] c \in Waiting \ sent -> "rejected"
                                         [] OTHER -> req[c]]
    /\ UNCHANGED retired

Abandon_Silently(s) ==
    /\ sock[s] = "connecting"
    /\ sock' = [sock EXCEPT ![s] = "closing"]
    /\ UNCHANGED <<adopted, ws, connecting, req, on, retired>>

(* The attempt is given up, on an error frame, onerror or the 12 s timer: close() and
   reject, so that all waiting requests fail. *)
Abandon(s) ==
    /\ sock[s] = "connecting"
    /\ sock' = [sock EXCEPT ![s] = "closing"]
    /\ connecting' = NoSocket
    /\ Settle(Waiting, "rejected")
    /\ UNCHANGED <<adopted, ws, on, retired>>

(* onclose before "ready", with no error reported: the Relay's handler returned after an
   exception.  The client's handler only clears the 12 s timer. *)
ConnectCloses(s) ==
    /\ sock[s] = "connecting"
    /\ sock' = [sock EXCEPT ![s] = "closed"]
    /\ UNCHANGED <<adopted, ws, connecting, req, on, retired>>

-----------------------------------------------------------------------------
(* _onMessage: a response or an error frame with the request's id *)
OnMessage(c) ==
    /\ req[c] = "pending" /\ sock[on[c]] = "open"
    /\ \E outcome \in {"resolved", "rejected"} : Settle({c}, outcome)
    /\ UNCHANGED <<sock, adopted, ws, connecting, on, retired>>

(* The request's 30 s timer *)
RequestTimeout(c) ==
    /\ req[c] = "pending"
    /\ Settle({c}, "rejected")
    /\ Teardown
    /\ UNCHANGED <<adopted, connecting, on, retired>>

(* forceReconnect *)
ForceReconnect ==
    /\ ~retired /\ ws # NoSocket
    /\ Teardown
    /\ UNCHANGED <<adopted, connecting, req, on, retired>>

(* setActivePairing: close() this transport and drop it.  Callers that still wait for
   the connection are not in the pending map and wait on. *)
Retire ==
    /\ ~retired
    /\ retired' = TRUE
    /\ Teardown
    /\ Settle(Pending, "rejected")
    /\ UNCHANGED <<adopted, connecting, on>>

OnClose_Keeps(s) ==
    /\ sock[s] \in {"open", "closing"}
    /\ sock' = [sock EXCEPT ![s] = "closed"]
    /\ adopted' = adopted \ {s}
    /\ IF s \in adopted THEN ws' = NoSocket ELSE UNCHANGED ws
    /\ UNCHANGED <<connecting, req, on, retired>>

(* The close event of a socket, after close() or from the network.  The handler of
   an adopted socket clears this.ws and rejects every pending request, whatever
   socket they are on. *)
OnClose(s) ==
    /\ sock[s] \in {"open", "closing"}
    /\ sock' = [sock EXCEPT ![s] = "closed"]
    /\ adopted' = adopted \ {s}
    /\ IF s \in adopted THEN ws' = NoSocket /\ Settle(Pending, "rejected")
       ELSE UNCHANGED <<ws, req>>
    /\ UNCHANGED <<connecting, on, retired>>

-----------------------------------------------------------------------------
TransportNext ==
    \/ \E c \in Callers :
          \/ SendOnOpen(c) \/ RequestSendFails(c) \/ JoinConnect(c) \/ StartConnect(c)
          \/ OnMessage(c) \/ RequestTimeout(c)
    \/ \E s \in Sockets :
          \/ Ready(s) \/ ReadySendFails(s) \/ Abandon(s) \/ ConnectCloses(s) \/ OnClose(s)
    \/ ForceReconnect \/ Retire

TransportSpec == TransportInit /\ [][TransportNext]_transport

(* Timers fire and a closed socket reports it; the Relay is assumed to do nothing. *)
Fairness ==
    /\ \A s \in Sockets : WF_transport(Abandon(s)) /\ WF_transport(sock[s] = "closing" /\ OnClose(s))
    /\ \A c \in Callers : WF_transport(RequestTimeout(c))

FairSpec == TransportSpec /\ Fairness

-----------------------------------------------------------------------------
(* Every variable has its type. *)
TransportTypeOK ==
    /\ sock \in [Sockets -> SocketStates] /\ adopted \subseteq Sockets
    /\ ws \in Sockets \cup {NoSocket} /\ connecting \in Sockets \cup {NoSocket}
    /\ req \in [Callers -> RequestStates] /\ on \in [Callers -> Sockets \cup {NoSocket}]
    /\ retired \in BOOLEAN

(* The pending map never outlives its sockets: a pending request was sent on a socket
   that is open or whose close event is still to come, so a drop rejects it at once
   instead of leaving it to the 30 s timer (RelayTransport._rejectAll). *)
PendingHasSocket == \A c \in Pending : sock[on[c]] \in {"open", "closing"}

(* The attempt ended in ConnectCloses: its timer is gone and nothing settles it. *)
SilentlyClosed == connecting # NoSocket /\ sock[connecting] = "closed"

(* A waiting request always has an unsettled attempt, and unless that attempt's socket
   was closed silently its 12 s timer is still armed: errors, timeouts, reconnects and
   re-pairing leave no caller behind (RelayTransport._connect). *)
WaitersHaveAttempt ==
    Waiting # {} => connecting # NoSocket /\ (sock[connecting] = "connecting" \/ SilentlyClosed)

(* _connect is single-flight: callers never open two sockets side by side. *)
OneAttempt ==
    \A s, t \in Sockets : sock[s] = "connecting" /\ sock[t] = "connecting" => s = t

Unsettled(c) == req[c] \in {"waiting", "pending"}

(* Every request settles although the Relay may do nothing at all, by its timer, the
   attempt's timer or a close event, except behind a silently closed attempt. *)
SettlesUnlessSilent == \A c \in Callers : Unsettled(c) ~> ~Unsettled(c) \/ SilentlyClosed
=============================================================================
