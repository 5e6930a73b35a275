------------------------------ MODULE RelayHub ------------------------------
(***************************************************************************)
(* The Secure Relay's routing of one installation (backend/relay/hub.py,   *)
(* registry.py, the tunnel handler of server.py): nodes hold the tunnels   *)
(* that Office opened to them, a shared Valkey key names the node to which *)
(* requests are forwarded, and the newest tunnel is meant to win.  A       *)
(* tunnel whose Office end is gone stays installed until its node notices. *)
(*                                                                         *)
(* Every await on the registry or the broker separates two steps.  Frames, *)
(* size limits, authentication and broadcasts are left out.                *)
(***************************************************************************)
CONSTANTS
    Nodes,       \* relay nodes
    Tunnels,     \* tunnel connections, each opened at most once
    Requests,    \* Mobile requests, each routed at most once
    None,
    Registries   \* the ways Valkey may behave: "reliable" executes register and unregister
                 \* before any other step, "slow" some time later, "lossy" may lose the key

ASSUME RelayAssumption ==
    None \notin Nodes \cup Tunnels /\ Registries \subseteq {"reliable", "slow", "lossy"}

VARIABLES
    mode,      \* how Valkey behaves in this behaviour; chosen at the start
    owner,     \* the key relay:route:<installation>
    installs,  \* each node's _installs entry
    phase,     \* progress of each tunnel's handler (installation_ws)
    at,        \* the node a tunnel was opened to
    client,    \* the tunnel that is up at both ends, None while Office reconnects
    beat,      \* the tunnel for which a node's heartbeat loop awaits the registry
    refused,   \* nodes whose heartbeat was answered "not owned"
    call,      \* outcome of each request at the node that received it
    origin,    \* that node
    envelope,  \* node to which the request envelope is under way
    held,      \* tunnel in whose pending map the request is
    reply      \* response envelope under way back to origin

registry == <<mode, owner>>
tunnels == <<installs, phase, at, client, beat, refused>>
requests == <<call, origin, envelope, held, reply>>
vars == <<registry, tunnels, requests>>

Phases == {"new", "registering", "serving", "releasing", "gone"}
Outcomes == {"ok", "unavailable", "timeout"}

Init ==
    /\ mode \in Registries /\ owner = None
    /\ installs = [n \in Nodes |-> None] /\ beat = [n \in Nodes |-> None]
    /\ phase = [t \in Tunnels |-> "new"] /\ at = [t \in Tunnels |-> None]
    /\ client = None /\ refused = {}
    /\ call = [r \in Requests |-> "idle"] /\ origin = [r \in Requests |-> None]
    /\ envelope = [r \in Requests |-> None] /\ held = [r \in Requests |-> None]
    /\ reply = [r \in Requests |-> None]

-----------------------------------------------------------------------------
(* The futures of a pending map get an outcome: a local caller has it at once, a
   remote one by a response envelope. *)
SettleHeld(rs, outcome) ==
    /\ held' = [r \in Requests |-> IF r \in rs THEN None ELSE held[r]]
    /\ call' = [r \in Requests |->
                  IF r \in rs /\ origin[r] = at[held[r]] THEN outcome ELSE call[r]]
    /\ reply' = [r \in Requests |->
                  IF r \in rs /\ origin[r] # at[held[r]] THEN outcome ELSE reply[r]]
    /\ UNCHANGED <<origin, envelope>>

FailPending_Forgets(t) == UNCHANGED requests

FailPending(t) == SettleHeld({r \in Requests : t # None /\ held[r] = t}, "unavailable")

(* RelayHub.register, up to the registry: a stale tunnel of this node is replaced. *)
Register(t, n) ==
    /\ client = None /\ phase[t] = "new"
    /\ client' = t
    /\ at' = [at EXCEPT ![t] = n]
    /\ installs' = [installs EXCEPT ![n] = t]
    /\ IF mode = "slow" THEN owner' = owner /\ phase' = [phase EXCEPT ![t] = "registering"]
       ELSE owner' = n /\ phase' = [phase EXCEPT ![t] = "serving"]
    /\ FailPending(installs[n])
    /\ UNCHANGED <<mode, beat, refused>>

(* registry.register: unconditional SET *)
RegisterSets(t) ==
    /\ phase[t] = "registering"
    /\ owner' = at[t]
    /\ phase' = [phase EXCEPT ![t] = "serving"]
    /\ UNCHANGED <<mode, installs, at, client, beat, refused, requests>>

(* The Office end goes away: network loss, restart, or the socket was closed. *)
ClientDrops ==
    /\ client # None
    /\ client' = None
    /\ UNCHANGED <<registry, installs, phase, at, beat, refused, requests>>

Unregister_Evicts(t) ==
    /\ phase[t] = "serving" /\ client # t
    /\ installs' = [installs EXCEPT ![at[t]] = None]
    /\ phase' = [phase EXCEPT ![t] = "releasing"]
    /\ FailPending(t)
    /\ UNCHANGED <<registry, at, client, beat, refused>>

(* The handler ends (disconnect or failed ping) and RelayHub.unregister runs: only the
   installed tunnel is dropped, with its requests, and goes on to the registry. *)
Unregister(t) ==
    /\ phase[t] = "serving" /\ client # t
    /\ IF installs[at[t]] = t
       THEN /\ installs' = [installs EXCEPT ![at[t]] = None]
            /\ FailPending(t)
            /\ IF mode = "slow"
               THEN /\ owner' = owner
                    /\ phase' = [phase EXCEPT ![t] = "releasing"]
               ELSE /\ owner' = IF owner = at[t] THEN None ELSE owner
                    /\ phase' = [phase EXCEPT ![t] = "gone"]
       ELSE /\ phase' = [phase EXCEPT ![t] = "gone"]
            /\ UNCHANGED <<owner, installs, requests>>
    /\ UNCHANGED <<mode, at, client, beat, refused>>

(* registry.unregister: atomic compare-and-delete, by node *)
UnregisterDeletes(t) ==
    /\ phase[t] = "releasing"
    /\ owner' = IF owner = at[t] THEN None ELSE owner
    /\ phase' = [phase EXCEPT ![t] = "gone"]
    /\ UNCHANGED <<mode, installs, at, client, beat, refused, requests>>

(* The heartbeat script renews the node's own key and claims an absent one. *)
MayClaim(n) == owner \in {None, n}

(* _heartbeat_loop takes its snapshot of the installed tunnel ... *)
HeartbeatStarts(n) ==
    /\ beat[n] = None /\ installs[n] # None
    /\ beat' = [beat EXCEPT ![n] = installs[n]]
    /\ UNCHANGED <<registry, installs, phase, at, client, refused, requests>>

(* ... the registry runs the script ... *)
Heartbeat(n) ==
    /\ beat[n] # None /\ n \notin refused
    /\ IF MayClaim(n) THEN owner' = n /\ beat' = [beat EXCEPT ![n] = None] /\ UNCHANGED refused
       ELSE refused' = refused \cup {n} /\ UNCHANGED <<owner, beat>>
    /\ UNCHANGED <<mode, installs, phase, at, client, requests>>

(* ... and after a refusal the tunnel is dropped if it is still installed.  Its socket
   stays open. *)
Superseded(n) ==
    /\ n \in refused
    /\ refused' = refused \ {n} /\ beat' = [beat EXCEPT ![n] = None]
    /\ IF installs[n] = beat[n]
       THEN installs' = [installs EXCEPT ![n] = None] /\ FailPending(beat[n])
       ELSE UNCHANGED <<installs, requests>>
    /\ UNCHANGED <<registry, phase, at, client>>

(* The key's TTL lapses: no node renews it. *)
Expire ==
    /\ owner # None /\ installs[owner] = None
    /\ owner' = None
    /\ UNCHANGED <<mode, tunnels, requests>>

(* Valkey restarts or fails over without the key. *)
LoseKey ==
    /\ mode = "lossy" /\ owner # None
    /\ owner' = None
    /\ UNCHANGED <<mode, tunnels, requests>>

(* A node stops: its tunnels, requests and envelopes are gone, its key is not. *)
NodeCrash(n) ==
    /\ installs' = [installs EXCEPT ![n] = None]
    /\ beat' = [beat EXCEPT ![n] = None] /\ refused' = refused \ {n}
    /\ phase' = [t \in Tunnels |-> IF at[t] = n THEN "gone" ELSE phase[t]]
    /\ client' = IF client # None /\ at[client] = n THEN None ELSE client
    /\ held' = [r \in Requests |-> IF held[r] # None /\ at[held[r]] = n THEN None ELSE held[r]]
    /\ envelope' = [r \in Requests |-> IF envelope[r] = n THEN None ELSE envelope[r]]
    /\ call' = [r \in Requests |->
                  IF origin[r] = n /\ call[r] = "waiting" THEN "unavailable" ELSE call[r]]
    /\ UNCHANGED <<registry, at, origin, reply>>

-----------------------------------------------------------------------------
(* RelayHub.route on a node that holds the tunnel *)
RouteLocal(r, n) ==
    /\ call[r] = "idle" /\ installs[n] # None
    /\ call' = [call EXCEPT ![r] = "waiting"]
    /\ origin' = [origin EXCEPT ![r] = n]
    /\ held' = [held EXCEPT ![r] = installs[n]]
    /\ UNCHANGED <<registry, tunnels, envelope, reply>>

(* RelayHub.route by lookup: no owner, or this node itself without a tunnel, is
   unavailable; otherwise the envelope is published to the owner. *)
RouteCross(r, n) ==
    /\ call[r] = "idle" /\ installs[n] = None
    /\ origin' = [origin EXCEPT ![r] = n]
    /\ IF owner \in {None, n}
       THEN call' = [call EXCEPT ![r] = "unavailable"] /\ UNCHANGED envelope
       ELSE /\ call' = [call EXCEPT ![r] = "waiting"]
            /\ envelope' = [envelope EXCEPT ![r] = owner]
    /\ UNCHANGED <<registry, tunnels, held, reply>>

(* _handle_remote_request at the owner *)
HandleRemote(r) ==
    /\ envelope[r] # None
    /\ envelope' = [envelope EXCEPT ![r] = None]
    /\ IF installs[envelope[r]] = None
       THEN reply' = [reply EXCEPT ![r] = "unavailable"] /\ UNCHANGED held
       ELSE held' = [held EXCEPT ![r] = installs[envelope[r]]] /\ UNCHANGED reply
    /\ UNCHANGED <<registry, tunnels, call, origin>>

(* resolve: Office's response arrives on the tunnel and finds the request there. *)
Resolve(r) ==
    /\ held[r] # None /\ client = held[r] /\ installs[at[held[r]]] = held[r]
    /\ SettleHeld({r}, "ok")
    /\ UNCHANGED <<registry, tunnels>>

(* _route_local_conn's wait_for expires. *)
HolderTimesOut(r) ==
    /\ held[r] # None
    /\ SettleHeld({r}, "timeout")
    /\ UNCHANGED <<registry, tunnels>>

(* send_text raises, the Office end being gone: a local caller's socket is closed, a
   remote one gets no response. *)
SendFails(r) ==
    /\ held[r] # None /\ client # held[r]
    /\ held' = [held EXCEPT ![r] = None]
    /\ call' = [call EXCEPT ![r] = IF origin[r] = at[held[r]] THEN "unavailable" ELSE @]
    /\ UNCHANGED <<registry, tunnels, origin, envelope, reply>>

(* _route_cross_node's wait_for expires; the owner may still hold the request. *)
OriginTimesOut(r) ==
    /\ call[r] = "waiting"
    /\ held[r] # None => at[held[r]] # origin[r]
    /\ call' = [call EXCEPT ![r] = "timeout"]
    /\ UNCHANGED <<registry, tunnels, origin, envelope, held, reply>>

(* _handle_remote_response: a late response is ignored. *)
HandleResponse(r) ==
    /\ reply[r] # None
    /\ reply' = [reply EXCEPT ![r] = None]
    /\ call' = [call EXCEPT ![r] = IF call[r] = "waiting" THEN reply[r] ELSE call[r]]
    /\ UNCHANGED <<registry, tunnels, origin, envelope, held>>

-----------------------------------------------------------------------------
Next ==
    \/ \E t \in Tunnels :
          \/ \E n \in Nodes : Register(t, n)
          \/ RegisterSets(t) \/ Unregister(t) \/ UnregisterDeletes(t)
    \/ \E n \in Nodes : HeartbeatStarts(n) \/ Heartbeat(n) \/ Superseded(n) \/ NodeCrash(n)
    \/ ClientDrops \/ Expire \/ LoseKey
    \/ \E r \in Requests :
          \/ \E n \in Nodes : RouteLocal(r, n) \/ RouteCross(r, n)
          \/ HandleRemote(r) \/ Resolve(r) \/ HandleResponse(r)
          \/ SendFails(r) \/ HolderTimesOut(r) \/ OriginTimesOut(r)

Spec == Init /\ [][Next]_vars

-----------------------------------------------------------------------------
(* Every variable has its type. *)
TypeOK ==
    /\ mode \in Registries /\ owner \in Nodes \cup {None}
    /\ installs \in [Nodes -> Tunnels \cup {None}] /\ beat \in [Nodes -> Tunnels \cup {None}]
    /\ phase \in [Tunnels -> Phases] /\ at \in [Tunnels -> Nodes \cup {None}]
    /\ client \in Tunnels \cup {None} /\ refused \subseteq Nodes
    /\ call \in [Requests -> Outcomes \cup {"idle", "waiting"}]
    /\ origin \in [Requests -> Nodes \cup {None}]
    /\ envelope \in [Requests -> Nodes \cup {None}]
    /\ held \in [Requests -> Tunnels \cup {None}]
    /\ reply \in [Requests -> Outcomes \cup {None}]

(* A request waits only in the pending map of the tunnel its node would use: replacing,
   losing or superseding a tunnel fails its requests at once, "so callers don't hang"
   (RelayHub.register, unregister, _heartbeat_loop). *)
HeldOnInstalled == \A r \in Requests : held[r] # None => installs[at[held[r]]] = held[r]

(* The tunnel Office holds is the one every node routes to. *)
Routable == installs[at[client]] = client /\ owner = at[client]

(* With a registry that executes registrations at once and keeps its key, the tunnel
   Office holds is always installed on the node the registry names, whatever older
   tunnels, heartbeats and crashes do ("newest authenticated tunnel wins", hub.py). *)
ConnectedIsRoutable == mode = "reliable" /\ client # None => Routable
=============================================================================
