---------------------------- MODULE Relay_proofs ----------------------------
(***************************************************************************)
(* Proofs about the Relay's routing, for any number of nodes, tunnels and  *)
(* requests.  The invariant places a tunnel: one that was never opened is  *)
(* nowhere, and one that a node refers to was opened to that node.         *)
(***************************************************************************)
EXTENDS RelayHub, RelayTransport, TLAPS

(* A node's references (installed tunnel, heartbeat snapshot) are to tunnels opened to
   it; a request is held on a tunnel that was opened to some node. *)
PlaceInv ==
    /\ \A n \in Nodes : installs[n] # None => at[installs[n]] = n
    /\ \A n \in Nodes : beat[n] # None => at[beat[n]] = n
    /\ \A t \in Tunnels : phase[t] = "new" <=> at[t] = None
    /\ \A r \in Requests : held[r] # None => at[held[r]] # None
    /\ client # None => at[client] # None

IInv == TypeOK /\ PlaceInv /\ HeldOnInstalled

USE RelayAssumption

(* Nothing is installed, held or under way at the start. *)
LEMMA InitIInv == Init => IInv
<1> SUFFICES ASSUME Init PROVE IInv
  OBVIOUS
<1>1. TypeOK
  BY DEF Init, TypeOK, Phases, Outcomes
<1>2. PlaceInv /\ HeldOnInstalled
  BY DEF Init, PlaceInv, HeldOnInstalled
<1> QED
  BY <1>1, <1>2 DEF IInv

(* Settling held requests keeps the types and holds nothing new. *)
LEMMA SettleFacts ==
    ASSUME TypeOK, NEW rs \in SUBSET Requests, NEW o \in Outcomes, SettleHeld(rs, o)
    PROVE  /\ call' \in [Requests -> Outcomes \cup {"idle", "waiting"}]
           /\ origin' \in [Requests -> Nodes \cup {None}]
           /\ envelope' \in [Requests -> Nodes \cup {None}]
           /\ held' \in [Requests -> Tunnels \cup {None}]
           /\ reply' \in [Requests -> Outcomes \cup {None}]
           /\ \A r \in Requests : held'[r] = IF r \in rs THEN None ELSE held[r]
<1>1. call' \in [Requests -> Outcomes \cup {"idle", "waiting"}]
  BY DEF TypeOK, SettleHeld
<1>2. reply' \in [Requests -> Outcomes \cup {None}]
  BY DEF TypeOK, SettleHeld
<1>3. held' \in [Requests -> Tunnels \cup {None}]
  BY DEF TypeOK, SettleHeld
<1> QED
  BY <1>1, <1>2, <1>3 DEF TypeOK, SettleHeld

(* Failing a tunnel's requests releases exactly those. *)
LEMMA FailFacts ==
    ASSUME TypeOK, NEW t \in Tunnels \cup {None}, FailPending(t)
    PROVE  /\ call' \in [Requests -> Outcomes \cup {"idle", "waiting"}]
           /\ origin' \in [Requests -> Nodes \cup {None}]
           /\ envelope' \in [Requests -> Nodes \cup {None}]
           /\ held' \in [Requests -> Tunnels \cup {None}]
           /\ reply' \in [Requests -> Outcomes \cup {None}]
           /\ \A r \in Requests : held'[r] # None => held'[r] = held[r] /\ held[r] # t
<1> DEFINE rs == {r \in Requests : t # None /\ held[r] = t}
<1>1. SettleHeld(rs, "unavailable")
  BY DEF FailPending
<1>2. "unavailable" \in Outcomes /\ rs \in SUBSET Requests
  BY DEF Outcomes
<1>3. \A r \in Requests : held'[r] = IF r \in rs THEN None ELSE held[r]
  BY <1>1, <1>2, SettleFacts
<1>4. \A r \in Requests : held'[r] # None => held'[r] = held[r] /\ held[r] # t
  BY <1>3
<1> HIDE DEF rs
<1> QED
  BY <1>1, <1>2, <1>4, SettleFacts

(* A new tunnel on a node: what it replaces has its requests failed. *)
LEMMA RegisterStep ==
    ASSUME IInv, NEW t \in Tunnels, NEW n \in Nodes, Register(t, n)
    PROVE  IInv'
<1> USE DEF IInv
<1>1. FailPending(installs[n]) /\ installs[n] \in Tunnels \cup {None}
  BY DEF Register, TypeOK
<1>2. \A r \in Requests : held'[r] # None => held'[r] = held[r] /\ held[r] # installs[n]
  BY <1>1, FailFacts
<1>3. /\ at' = [at EXCEPT ![t] = n] /\ installs' = [installs EXCEPT ![n] = t]
      /\ phase[t] = "new" /\ client' = t /\ at[t] = None
      /\ UNCHANGED <<mode, beat, refused>>
  BY DEF Register, PlaceInv
<1>4. phase' \in [Tunnels -> Phases] /\ phase'[t] # "new" /\ owner' \in Nodes \cup {None}
      /\ \A u \in Tunnels : u # t => phase'[u] = phase[u]
  BY DEF Register, TypeOK, Phases
<1>5. TypeOK'
  BY <1>1, <1>3, <1>4, FailFacts DEF TypeOK
<1>6. PlaceInv'
  <2>1. \A u \in Tunnels : u # t => at'[u] = at[u]
    BY <1>3 DEF TypeOK
  <2>2. \A m \in Nodes : (installs[m] # None => installs[m] # t) /\ (beat[m] # None => beat[m] # t)
    BY <1>3 DEF PlaceInv, TypeOK
  <2>3. \A m \in Nodes : installs'[m] # None => at'[installs'[m]] = m
    BY <1>3, <2>1, <2>2 DEF PlaceInv, TypeOK
  <2>4. \A m \in Nodes : beat'[m] # None => at'[beat'[m]] = m
    BY <1>3, <2>1, <2>2 DEF PlaceInv, TypeOK
  <2>5. \A u \in Tunnels : phase'[u] = "new" <=> at'[u] = None
    BY <1>3, <1>4, <2>1 DEF PlaceInv, TypeOK
  <2>6. \A r \in Requests : held'[r] # None => at'[held'[r]] # None
    BY <1>2, <1>3, <2>1 DEF PlaceInv, TypeOK
  <2>7. client' # None => at'[client'] # None
    BY <1>3 DEF TypeOK
  <2> QED
    BY <2>3, <2>4, <2>5, <2>6, <2>7 DEF PlaceInv
<1>7. HeldOnInstalled'
  <2> SUFFICES ASSUME NEW r \in Requests, held'[r] # None PROVE installs'[at'[held'[r]]] = held'[r]
    BY DEF HeldOnInstalled
  <2>1. held'[r] = held[r] /\ held[r] # installs[n] /\ installs[at[held[r]]] = held[r]
    BY <1>2 DEF HeldOnInstalled
  <2>2. held[r] # t /\ at[held[r]] # n /\ at'[held[r]] = at[held[r]] /\ held[r] \in Tunnels
    BY <1>3, <2>1 DEF PlaceInv, TypeOK
  <2> QED
    BY <1>3, <2>1, <2>2 DEF TypeOK
<1> QED
  BY <1>5, <1>6, <1>7

(* A node lets go of a tunnel, with the requests on it: after a disconnect or after its
   heartbeat was refused. *)
LEMMA DropFacts ==
    ASSUME IInv, NEW n \in Nodes, UNCHANGED at,
           installs' = [installs EXCEPT ![n] = None], FailPending(installs[n])
    PROVE  /\ \A m \in Nodes : installs'[m] # None => at'[installs'[m]] = m
           /\ \A r \in Requests : held'[r] # None => at'[held'[r]] # None
           /\ HeldOnInstalled'
<1> USE DEF IInv
<1>1. \A r \in Requests : held'[r] # None => held'[r] = held[r] /\ held[r] # installs[n]
  BY FailFacts DEF TypeOK
<1>2. \A m \in Nodes : installs'[m] # None => at'[installs'[m]] = m
  BY DEF PlaceInv, TypeOK
<1>3. HeldOnInstalled'
  <2> SUFFICES ASSUME NEW r \in Requests, held'[r] # None PROVE installs'[at'[held'[r]]] = held'[r]
    BY DEF HeldOnInstalled
  <2>1. held'[r] = held[r] /\ held[r] # installs[n] /\ installs[at[held[r]]] = held[r]
    BY <1>1 DEF HeldOnInstalled
  <2> QED
    BY <2>1 DEF TypeOK
<1> QED
  BY <1>1, <1>2, <1>3 DEF PlaceInv

(* The tunnels' other steps. *)
LEMMA TunnelStep ==
    ASSUME IInv, NEW t \in Tunnels, RegisterSets(t) \/ Unregister(t) \/ UnregisterDeletes(t)
    PROVE  IInv'
<1> USE DEF IInv
<1>0. at[t] \in Nodes \/ at[t] = None
  BY DEF TypeOK
<1>1. CASE RegisterSets(t) \/ UnregisterDeletes(t)
  <2>1. phase[t] # "new" /\ at[t] \in Nodes
    BY <1>0, <1>1 DEF RegisterSets, UnregisterDeletes, PlaceInv
  <2>2. owner' \in Nodes \cup {None} /\ phase' \in [Tunnels -> Phases] /\ phase'[t] # "new"
        /\ \A u \in Tunnels : u # t => phase'[u] = phase[u]
    BY <1>1, <2>1 DEF RegisterSets, UnregisterDeletes, TypeOK, Phases
  <2>3. UNCHANGED <<mode, installs, at, client, beat, refused, requests>>
    BY <1>1 DEF RegisterSets, UnregisterDeletes
  <2>4. TypeOK'
    BY <2>2, <2>3 DEF TypeOK, requests
  <2>5. PlaceInv' /\ HeldOnInstalled'
    BY <2>1, <2>2, <2>3 DEF PlaceInv, HeldOnInstalled, requests
  <2> QED
    BY <2>4, <2>5
<1>2. CASE Unregister(t)
  <2>1. at[t] \in Nodes
    BY <1>0, <1>2 DEF Unregister, PlaceInv
  <2>2. /\ phase' \in [Tunnels -> Phases] /\ phase'[t] # "new"
        /\ \A u \in Tunnels : u # t => phase'[u] = phase[u]
        /\ owner' \in Nodes \cup {None}
    BY <1>2 DEF Unregister, TypeOK, Phases
  <2>3. phase[t] # "new" /\ UNCHANGED <<mode, at, client, beat, refused>>
    BY <1>2 DEF Unregister
  <2>4. CASE installs[at[t]] = t
    <3>1. installs' = [installs EXCEPT ![at[t]] = None] /\ FailPending(installs[at[t]])
      BY <1>2, <2>4 DEF Unregister
    <3>2. TypeOK'
      BY <2>1, <2>2, <2>3, <3>1, FailFacts DEF TypeOK
    <3>3. PlaceInv' /\ HeldOnInstalled'
      BY <2>1, <2>2, <2>3, <3>1, DropFacts DEF PlaceInv
    <3> QED
      BY <3>2, <3>3
  <2>5. CASE installs[at[t]] # t
    <3>1. UNCHANGED <<installs, requests>>
      BY <1>2, <2>5 DEF Unregister
    <3>2. TypeOK'
      BY <2>2, <2>3, <3>1 DEF TypeOK, requests
    <3>3. PlaceInv' /\ HeldOnInstalled'
      BY <2>2, <2>3, <3>1 DEF PlaceInv, HeldOnInstalled, requests
    <3> QED
      BY <3>2, <3>3
  <2> QED
    BY <2>4, <2>5
<1> QED
  BY <1>1, <1>2

(* The heartbeat and the crash of a node. *)
LEMMA NodeStep ==
    ASSUME IInv, NEW n \in Nodes, HeartbeatStarts(n) \/ Heartbeat(n) \/ Superseded(n) \/ NodeCrash(n)
    PROVE  IInv'
<1> USE DEF IInv
<1>1. CASE HeartbeatStarts(n) \/ Heartbeat(n)
  <2>1. UNCHANGED <<mode, installs, phase, at, client, requests>>
    BY <1>1 DEF HeartbeatStarts, Heartbeat, registry
  <2>2. owner' \in Nodes \cup {None} /\ refused' \subseteq Nodes
    BY <1>1 DEF HeartbeatStarts, Heartbeat, TypeOK, registry
  <2>3. beat' \in [Nodes -> Tunnels \cup {None}]
        /\ \A m \in Nodes : beat'[m] # None => beat'[m] = beat[m] \/ beat'[m] = installs[m]
    BY <1>1 DEF HeartbeatStarts, Heartbeat, TypeOK
  <2>4. TypeOK'
    BY <2>1, <2>2, <2>3 DEF TypeOK, requests
  <2>5. PlaceInv' /\ HeldOnInstalled'
    BY <2>1, <2>3 DEF PlaceInv, HeldOnInstalled, requests
  <2> QED
    BY <2>4, <2>5
<1>2. CASE Superseded(n)
  <2>1. UNCHANGED <<owner, mode, phase, at, client>> /\ refused' \subseteq Nodes
        /\ beat' = [beat EXCEPT ![n] = None]
    BY <1>2 DEF Superseded, registry, TypeOK
  <2>2. beat' \in [Nodes -> Tunnels \cup {None}]
        /\ \A m \in Nodes : beat'[m] # None => beat'[m] = beat[m]
    BY <2>1 DEF TypeOK
  <2>3. CASE installs[n] = beat[n]
    <3>1. installs' = [installs EXCEPT ![n] = None] /\ FailPending(installs[n])
      BY <1>2, <2>3 DEF Superseded
    <3>2. TypeOK'
      BY <2>1, <2>2, <3>1, FailFacts DEF TypeOK
    <3>3. PlaceInv' /\ HeldOnInstalled'
      BY <2>1, <2>2, <3>1, DropFacts DEF PlaceInv
    <3> QED
      BY <3>2, <3>3
  <2>4. CASE installs[n] # beat[n]
    <3>1. UNCHANGED <<installs, requests>>
      BY <1>2, <2>4 DEF Superseded
    <3>2. TypeOK'
      BY <2>1, <2>2, <3>1 DEF TypeOK, requests
    <3>3. PlaceInv' /\ HeldOnInstalled'
      BY <2>1, <2>2, <3>1 DEF PlaceInv, HeldOnInstalled, requests
    <3> QED
      BY <3>2, <3>3
  <2> QED
    BY <2>3, <2>4
<1>3. CASE NodeCrash(n)
  <2>1. UNCHANGED <<owner, mode, at, origin, reply>> /\ refused' \subseteq Nodes
        /\ client' \in {client, None}
    BY <1>3 DEF NodeCrash, registry, TypeOK
  <2>2. /\ installs' \in [Nodes -> Tunnels \cup {None}] /\ beat' \in [Nodes -> Tunnels \cup {None}]
        /\ phase' \in [Tunnels -> Phases] /\ held' \in [Requests -> Tunnels \cup {None}]
    BY <1>3 DEF NodeCrash, TypeOK, Phases
  <2>3. envelope' \in [Requests -> Nodes \cup {None}]
    BY <1>3 DEF NodeCrash, TypeOK
  <2>4. call' \in [Requests -> Outcomes \cup {"idle", "waiting"}]
    BY <1>3 DEF NodeCrash, TypeOK, Outcomes
  <2>5. TypeOK'
    BY <2>1, <2>2, <2>3, <2>4 DEF TypeOK
  <2>6. /\ \A m \in Nodes : (installs'[m] # None => installs'[m] = installs[m] /\ m # n)
                          /\ (beat'[m] # None => beat'[m] = beat[m])
                          /\ (m # n => installs'[m] = installs[m])
        /\ \A r \in Requests : held'[r] # None => held'[r] = held[r] /\ at[held[r]] # n
        /\ \A t \in Tunnels : phase'[t] = IF at[t] = n THEN "gone" ELSE phase[t]
    BY <1>3 DEF NodeCrash, TypeOK
  <2>7. PlaceInv'
    BY <2>1, <2>6 DEF PlaceInv
  <2>8. HeldOnInstalled'
    BY <2>1, <2>6 DEF HeldOnInstalled, PlaceInv, TypeOK
  <2> QED
    BY <2>5, <2>7, <2>8
<1> QED
  BY <1>1, <1>2, <1>3

(* The client's drop, and what happens to the key. *)
LEMMA OutsideStep ==
    ASSUME IInv, ClientDrops \/ Expire \/ LoseKey \/ UNCHANGED vars
    PROVE  IInv'
<1> USE DEF IInv
<1>1. UNCHANGED <<installs, phase, at, beat, refused, requests>> /\ client' \in {client, None}
      /\ owner' \in Nodes \cup {None} /\ mode' = mode
  BY DEF ClientDrops, Expire, LoseKey, vars, registry, tunnels, TypeOK
<1>2. TypeOK'
  BY <1>1 DEF TypeOK, requests
<1>3. PlaceInv' /\ HeldOnInstalled'
  BY <1>1 DEF PlaceInv, HeldOnInstalled, requests
<1> QED
  BY <1>2, <1>3

(* The steps of a request: it is only ever put on the installed tunnel of a node. *)
LEMMA RequestStep ==
    ASSUME IInv, NEW r \in Requests,
           \/ \E n \in Nodes : RouteLocal(r, n) \/ RouteCross(r, n)
           \/ HandleRemote(r) \/ Resolve(r) \/ HandleResponse(r)
           \/ SendFails(r) \/ HolderTimesOut(r) \/ OriginTimesOut(r)
    PROVE  IInv'
<1> USE DEF IInv
<1>0. UNCHANGED <<registry, tunnels>>
  BY DEF RouteLocal, RouteCross, HandleRemote, Resolve, HandleResponse, SendFails, HolderTimesOut, OriginTimesOut
<1>1. ASSUME /\ call' \in [Requests -> Outcomes \cup {"idle", "waiting"}]
             /\ origin' \in [Requests -> Nodes \cup {None}]
             /\ envelope' \in [Requests -> Nodes \cup {None}]
             /\ held' \in [Requests -> Tunnels \cup {None}]
             /\ reply' \in [Requests -> Outcomes \cup {None}],
             \A q \in Requests : held'[q] # None =>
                held'[q] = held[q] \/ \E n \in Nodes : held'[q] = installs[n]
      PROVE  IInv'
  <2>1. TypeOK'
    BY <1>0, <1>1 DEF TypeOK, registry, tunnels
  <2>2. PlaceInv'
    BY <1>0, <1>1 DEF PlaceInv, tunnels, TypeOK
  <2>3. HeldOnInstalled'
    BY <1>0, <1>1 DEF HeldOnInstalled, PlaceInv, tunnels
  <2> QED
    BY <2>1, <2>2, <2>3
<1>2. ASSUME NEW n \in Nodes, RouteLocal(r, n) \/ RouteCross(r, n) PROVE IInv'
  BY <1>1, <1>2 DEF RouteLocal, RouteCross, TypeOK, Outcomes
<1>3. CASE HandleRemote(r)
  <2>1. envelope[r] \in Nodes
    BY <1>3 DEF HandleRemote, TypeOK
  <2> QED
    BY <1>1, <1>3, <2>1 DEF HandleRemote, TypeOK, Outcomes
<1>4. CASE Resolve(r) \/ HolderTimesOut(r)
  <2>1. PICK o \in Outcomes : SettleHeld({r}, o)
    BY <1>4 DEF Resolve, HolderTimesOut, Outcomes
  <2> QED
    BY <1>1, <2>1, SettleFacts
<1>5. CASE HandleResponse(r)
  BY <1>1, <1>5 DEF HandleResponse, TypeOK
<1>6. CASE SendFails(r)
  BY <1>1, <1>6 DEF SendFails, TypeOK, Outcomes
<1>7. CASE OriginTimesOut(r)
  BY <1>1, <1>7 DEF OriginTimesOut, TypeOK, Outcomes
<1> QED
  BY <1>2, <1>3, <1>4, <1>5, <1>6, <1>7

(* The invariant of every behaviour, with a slow or a lossy registry. *)
LEMMA Invariance == Spec => []IInv
<1>1. IInv /\ [Next]_vars => IInv'
  BY RegisterStep, TunnelStep, NodeStep, OutsideStep, RequestStep DEF Next
<1> QED
  BY <1>1, InitIInv, PTL DEF Spec

(* Every variable of the Relay keeps its type. *)
THEOREM RelayTypes == Spec => []TypeOK
<1>1. IInv => TypeOK
  BY DEF IInv
<1> QED
  BY <1>1, Invariance, PTL

(* No request waits on a tunnel its node no longer uses, however the registry behaves
   and whatever crashes. *)
THEOREM NoStrandedRequest == Spec => []HeldOnInstalled
<1>1. IInv => HeldOnInstalled
  BY DEF IInv
<1> QED
  BY <1>1, Invariance, PTL

(* What makes the newest tunnel win: the key names its node, so no other node's
   heartbeat can claim it, its own was not refused, and no registration or release is
   still on its way to the registry. *)
WinsInv ==
    /\ client # None => Routable
    /\ \A t \in Tunnels : phase[t] \notin {"registering", "releasing"}
    /\ \A n \in refused : beat[n] \notin {None, client}

NewestInv == mode = "reliable" => WinsInv

(* If the registry executes registrations at once and never loses the key, the tunnel
   that Office holds is always the one requests are routed to. *)
THEOREM NewestWins == Spec => []ConnectedIsRoutable
<1>1. Init => NewestInv
  BY DEF Init, NewestInv, WinsInv
<1>m. [Next]_vars => mode' = mode
  BY DEF Next, vars, registry, Register, RegisterSets, Unregister, UnregisterDeletes,
         HeartbeatStarts, Heartbeat, Superseded, NodeCrash, ClientDrops, Expire, LoseKey,
         RouteLocal, RouteCross, HandleRemote, Resolve, HandleResponse, SendFails,
         HolderTimesOut, OriginTimesOut
<1>2. IInv /\ NewestInv /\ [Next]_vars => NewestInv'
  <2> SUFFICES ASSUME IInv, WinsInv, [Next]_vars, mode = "reliable" PROVE WinsInv'
    BY <1>m DEF NewestInv
  <2> USE DEF IInv, WinsInv, Routable
  <2>0. client # None => client \in Tunnels /\ at[client] \in Nodes
    BY DEF TypeOK, PlaceInv
  <2>1. ASSUME NEW t \in Tunnels, NEW n \in Nodes, Register(t, n) PROVE WinsInv'
    <3>1. \A m \in Nodes : beat[m] # None => beat[m] # t
      BY <2>1 DEF Register, PlaceInv, TypeOK
    <3>2. client' = t /\ at'[t] = n /\ installs'[n] = t /\ owner' = n /\ UNCHANGED <<beat, refused>>
      BY <2>1 DEF Register, TypeOK
    <3>3. \A u \in Tunnels : phase'[u] \notin {"registering", "releasing"}
      BY <2>1 DEF Register, TypeOK
    <3> QED
      BY <3>1, <3>2, <3>3 DEF TypeOK
  <2>2. ASSUME NEW t \in Tunnels, RegisterSets(t) \/ UnregisterDeletes(t) PROVE WinsInv'
    BY <2>2 DEF RegisterSets, UnregisterDeletes
  <2>3. ASSUME NEW t \in Tunnels, Unregister(t) PROVE WinsInv'
    <3>1. client # t /\ UNCHANGED <<at, client, beat, refused>>
      BY <2>3 DEF Unregister
    <3>2. \A u \in Tunnels : phase'[u] \notin {"registering", "releasing"}
      BY <2>3 DEF Unregister, TypeOK
    <3>3. client # None => installs'[at[client]] = client /\ owner' = at[client]
      <4> SUFFICES ASSUME client # None PROVE installs'[at[client]] = client /\ owner' = at[client]
        OBVIOUS
      <4>1. CASE installs[at[t]] = t
        BY <2>0, <2>3, <3>1, <4>1 DEF Unregister, TypeOK
      <4>2. CASE installs[at[t]] # t
        BY <2>3, <4>2 DEF Unregister
      <4> QED
        BY <4>1, <4>2
    <3> QED
      BY <3>1, <3>2, <3>3
  <2>4. ASSUME NEW n \in Nodes, HeartbeatStarts(n) PROVE WinsInv'
    <3>1. UNCHANGED <<owner, installs, phase, at, client, refused>> /\ beat[n] = None
          /\ beat' = [beat EXCEPT ![n] = installs[n]]
      BY <2>4 DEF HeartbeatStarts, registry
    <3>2. n \notin refused
      BY <3>1
    <3>3. \A m \in refused : beat'[m] = beat[m]
      BY <3>1, <3>2 DEF TypeOK
    <3> QED
      BY <3>1, <3>3
  <2>5. ASSUME NEW n \in Nodes, Heartbeat(n) PROVE WinsInv'
    <3>1. UNCHANGED <<installs, phase, at, client>> /\ beat[n] # None /\ n \notin refused
      BY <2>5 DEF Heartbeat
    <3>2. CASE MayClaim(n)
      <4>1. owner' = n /\ beat' = [beat EXCEPT ![n] = None] /\ refused' = refused
        BY <2>5, <3>2 DEF Heartbeat
      <4>2. client # None => owner' = at[client]
        BY <2>0, <3>2, <4>1 DEF MayClaim
      <4>3. \A m \in refused : beat'[m] = beat[m]
        BY <3>1, <4>1 DEF TypeOK
      <4> QED
        BY <3>1, <4>1, <4>2, <4>3
    <3>3. CASE ~MayClaim(n)
      <4>1. owner' = owner /\ beat' = beat /\ refused' = refused \cup {n}
        BY <2>5, <3>3 DEF Heartbeat
      <4>2. beat[n] \notin {None, client}
        BY <3>1, <3>3 DEF MayClaim, PlaceInv
      <4> QED
        BY <3>1, <4>1, <4>2
    <3> QED
      BY <3>2, <3>3
  <2>6. ASSUME NEW n \in Nodes, Superseded(n) PROVE WinsInv'
    <3>1. /\ UNCHANGED <<owner, phase, at, client>> /\ refused' = refused \ {n}
          /\ beat[n] \notin {None, client}
          /\ \A m \in refused \ {n} : beat'[m] = beat[m]
      BY <2>6 DEF Superseded, registry, TypeOK
    <3>2. client # None => installs'[at[client]] = installs[at[client]]
      BY <2>0, <2>6, <3>1 DEF Superseded, TypeOK
    <3> QED
      BY <3>1, <3>2
  <2>7. ASSUME NEW n \in Nodes, NodeCrash(n) PROVE WinsInv'
    <3>1. /\ owner' = owner /\ at' = at /\ refused' = refused \ {n}
          /\ client' = IF client # None /\ at[client] = n THEN None ELSE client
          /\ \A m \in Nodes \ {n} : beat'[m] = beat[m] /\ installs'[m] = installs[m]
          /\ \A t \in Tunnels : phase'[t] \in {"gone", phase[t]}
      BY <2>7 DEF NodeCrash, registry, TypeOK
    <3>2. client' # None => client' = client /\ at[client] \in Nodes \ {n}
      BY <2>0, <3>1
    <3>3. \A m \in refused' : beat'[m] = beat[m] /\ beat'[m] \notin {None, client'}
      BY <3>1 DEF TypeOK
    <3> QED
      BY <3>1, <3>2, <3>3
  <2>8. CASE ClientDrops
    BY <2>8 DEF ClientDrops, registry
  <2>9. CASE Expire
    BY <2>0, <2>9 DEF Expire, tunnels
  <2>10. CASE LoseKey
    BY <2>10 DEF LoseKey
  <2>11. CASE UNCHANGED <<registry, tunnels>>
    BY <2>11 DEF registry, tunnels
  <2>12. ASSUME NEW r \in Requests,
                \/ \E n \in Nodes : RouteLocal(r, n) \/ RouteCross(r, n)
                \/ HandleRemote(r) \/ Resolve(r) \/ HandleResponse(r)
                \/ SendFails(r) \/ HolderTimesOut(r) \/ OriginTimesOut(r)
         PROVE  WinsInv'
    BY <2>11, <2>12 DEF RouteLocal, RouteCross, HandleRemote, Resolve, HandleResponse, SendFails,
                        HolderTimesOut, OriginTimesOut
  <2> QED
    BY <2>1, <2>2, <2>3, <2>4, <2>5, <2>6, <2>7, <2>8, <2>9, <2>10, <2>11, <2>12 DEF Next, vars
<1>3. NewestInv => ConnectedIsRoutable
  BY DEF NewestInv, WinsInv, ConnectedIsRoutable
<1> QED
  BY <1>1, <1>2, <1>3, Invariance, PTL DEF Spec

(***************************************************************************)
(* The Field app's relay client, for any number of callers and sockets.    *)
(* The invariant says which sockets the client still knows: this.ws is     *)
(* open, the attempt is the only connecting socket, and every pending      *)
(* request is on a socket whose close handler will reject it.              *)
(***************************************************************************)
(* this.ws is open; a socket has its final handlers exactly from "ready" to its
   close event. *)
SocketInv ==
    /\ ws # NoSocket => sock[ws] = "open"
    /\ \A s \in Sockets : sock[s] = "open" => s \in adopted
    /\ \A s \in adopted : sock[s] \in {"open", "closing"}

(* Only the socket of the unsettled promise is connecting. *)
AttemptInv ==
    /\ \A s \in Sockets : sock[s] = "connecting" => s = connecting
    /\ Waiting # {} => connecting # NoSocket

(* A pending request is on a socket with its final handlers. *)
PendingInv == \A c \in Pending : on[c] \in adopted

TransportInv == TransportTypeOK /\ SocketInv /\ AttemptInv /\ PendingInv

(* The new transport has no socket and no request. *)
LEMMA InitTransportInv == TransportInit => TransportInv
<1> SUFFICES ASSUME TransportInit PROVE TransportInv
  OBVIOUS
<1>1. TransportTypeOK
  BY DEF TransportInit, TransportTypeOK, SocketStates, RequestStates
<1>2. SocketInv /\ AttemptInv /\ PendingInv
  BY DEF TransportInit, SocketInv, AttemptInv, PendingInv, Waiting, Pending
<1> QED
  BY <1>1, <1>2 DEF TransportInv

USE SocketsAssumption

(* The types, one case per action. *)
LEMMA TypeStep == ASSUME TransportTypeOK, [TransportNext]_transport PROVE TransportTypeOK'
<1>1. ASSUME NEW c \in Callers, SendOnOpen(c) \/ JoinConnect(c) \/ StartConnect(c) PROVE TransportTypeOK'
  <2>1. req' \in [Callers -> RequestStates]
    BY <1>1 DEF TransportTypeOK, SendOnOpen, JoinConnect, StartConnect, Settle, RequestStates
  <2> QED
    BY <1>1, <2>1 DEF TransportTypeOK, SendOnOpen, JoinConnect, StartConnect, SocketStates
<1>2. ASSUME NEW c \in Callers, OnMessage(c) \/ RequestTimeout(c) \/ RequestSendFails(c)
      PROVE  TransportTypeOK'
  <2>1. req' \in [Callers -> RequestStates]
    BY <1>2 DEF TransportTypeOK, OnMessage, RequestTimeout, RequestSendFails, Settle, RequestStates
  <2> QED
    BY <1>2, <2>1 DEF TransportTypeOK, OnMessage, RequestTimeout, RequestSendFails, Teardown, SocketStates
<1>3. ASSUME NEW s \in Sockets, Ready(s) \/ ReadySendFails(s) PROVE TransportTypeOK'
  <2>1. req' \in [Callers -> RequestStates] /\ on' \in [Callers -> Sockets \cup {NoSocket}]
    BY <1>3 DEF TransportTypeOK, Ready, ReadySendFails, Settle, RequestStates
  <2> QED
    BY <1>3, <2>1 DEF TransportTypeOK, Ready, ReadySendFails, SocketStates
<1>4. ASSUME NEW s \in Sockets, Abandon(s) \/ ConnectCloses(s) PROVE TransportTypeOK'
  <2>1. req' \in [Callers -> RequestStates]
    BY <1>4 DEF TransportTypeOK, Abandon, ConnectCloses, Settle, RequestStates
  <2> QED
    BY <1>4, <2>1 DEF TransportTypeOK, Abandon, ConnectCloses, SocketStates
<1>5. ASSUME NEW s \in Sockets, OnClose(s) PROVE TransportTypeOK'
  <2>1. req' \in [Callers -> RequestStates]
    BY <1>5 DEF TransportTypeOK, OnClose, Settle, RequestStates
  <2> QED
    BY <1>5, <2>1 DEF TransportTypeOK, OnClose, SocketStates
<1>6. CASE ForceReconnect \/ Retire
  <2>1. req' \in [Callers -> RequestStates]
    BY <1>6 DEF TransportTypeOK, ForceReconnect, Retire, Settle, RequestStates
  <2> QED
    BY <1>6, <2>1 DEF TransportTypeOK, ForceReconnect, Retire, Teardown, SocketStates
<1>7. CASE UNCHANGED transport
  BY <1>7 DEF TransportTypeOK, transport
<1> QED
  BY <1>1, <1>2, <1>3, <1>4, <1>5, <1>6, <1>7 DEF TransportNext

(* The sockets and their handlers, one case per action. *)
LEMMA InvStep == ASSUME TransportInv, [TransportNext]_transport PROVE TransportInv'
<1> USE DEF TransportInv
<1>0. TransportTypeOK'
  BY TypeStep
<1>1. ASSUME NEW c \in Callers, SendOnOpen(c) \/ JoinConnect(c) PROVE TransportInv'
  <2>1. \A d \in Callers : d # c => req'[d] = req[d] /\ on'[d] = on[d]
    BY <1>1 DEF TransportTypeOK, SendOnOpen, JoinConnect, Settle
  <2>2. SocketInv'
    BY <1>1 DEF SocketInv, SendOnOpen, JoinConnect
  <2>3. AttemptInv'
    <3>1. CASE SendOnOpen(c)
      BY <3>1, <2>1 DEF AttemptInv, SendOnOpen, Settle, Waiting, TransportTypeOK
    <3>2. CASE JoinConnect(c)
      BY <3>2, <2>1 DEF AttemptInv, JoinConnect, Waiting
    <3> QED
      BY <1>1, <3>1, <3>2
  <2>4. PendingInv'
    <3>1. CASE SendOnOpen(c)
      <4>1. ws \in adopted /\ on'[c] = ws /\ adopted' = adopted
        BY <3>1 DEF SendOnOpen, SocketInv, TransportTypeOK
      <4> QED
        BY <2>1, <4>1 DEF PendingInv, Pending
    <3>2. CASE JoinConnect(c)
      BY <3>2, <2>1 DEF PendingInv, Pending, JoinConnect, Settle, TransportTypeOK
    <3> QED
      BY <1>1, <3>1, <3>2
  <2> QED
    BY <1>0, <2>2, <2>3, <2>4
<1>2. ASSUME NEW c \in Callers, StartConnect(c) PROVE TransportInv'
  <2>1. PICK s \in Sockets : /\ sock[s] = "closed"
                             /\ sock' = [sock EXCEPT ![s] = "connecting"]
                             /\ connecting' = s
    BY <1>2 DEF StartConnect
  <2>2. connecting = NoSocket /\ ws = NoSocket /\ ws' = ws /\ adopted' = adopted /\ on' = on
    BY <1>2 DEF StartConnect, MayConnect
  <2>3. req'[c] = "waiting" /\ \A d \in Callers : d # c => req'[d] = req[d]
    BY <1>2 DEF StartConnect, Settle, TransportTypeOK
  <2>4. SocketInv'
    BY <2>1, <2>2 DEF SocketInv, TransportTypeOK
  <2>5. AttemptInv'
    BY <2>1, <2>2 DEF AttemptInv, TransportTypeOK
  <2>6. PendingInv'
    BY <2>2, <2>3 DEF PendingInv, Pending
  <2> QED
    BY <1>0, <2>4, <2>5, <2>6
<1>3. ASSUME NEW s \in Sockets, Ready(s) PROVE TransportInv'
  <2>1. \A c \in Callers : /\ req'[c] = IF c \in Waiting THEN "pending" ELSE req[c]
                           /\ on'[c] = IF c \in Waiting THEN s ELSE on[c]
    BY <1>3 DEF Ready, Settle
  <2>2. SocketInv'
    BY <1>3 DEF SocketInv, Ready, TransportTypeOK
  <2>3. AttemptInv'
    BY <1>3, <2>1 DEF AttemptInv, Ready, Waiting, TransportTypeOK
  <2>4. PendingInv'
    BY <1>3, <2>1 DEF PendingInv, Pending, Ready
  <2> QED
    BY <1>0, <2>2, <2>3, <2>4
<1>3a. ASSUME NEW s \in Sockets, ReadySendFails(s) PROVE TransportInv'
  <2>1. PICK sent \in SUBSET Waiting :
           /\ on' = [c \in Callers |-> IF c \in sent THEN s ELSE on[c]]
           /\ req' = [c \in Callers |-> CASE c \in sent -> "pending"
                                          [] c \in Waiting \ sent -> "rejected"
                                          [] OTHER -> req[c]]
    BY <1>3a DEF ReadySendFails
  <2>2. SocketInv'
    BY <1>3a DEF SocketInv, ReadySendFails, TransportTypeOK
  <2>3. Waiting' = {}
    BY <2>1 DEF Waiting
  <2>4. AttemptInv'
    BY <1>3a, <2>3 DEF AttemptInv, ReadySendFails, TransportTypeOK
  <2>5. \A c \in Callers : req'[c] = "pending" => on'[c] = s \/ (req[c] = "pending" /\ on'[c] = on[c])
    BY <2>1
  <2>6. PendingInv'
    BY <1>3a, <2>5 DEF PendingInv, Pending, ReadySendFails
  <2> QED
    BY <1>0, <2>2, <2>4, <2>6
<1>4. ASSUME NEW s \in Sockets, Abandon(s) PROVE TransportInv'
  <2>1. sock[s] = "connecting" /\ Abandon(s)
    BY <1>4 DEF Abandon
  <2>2. \A c \in Callers : req'[c] = IF c \in Waiting THEN "rejected" ELSE req[c]
    BY <2>1 DEF Abandon, Settle
  <2>3. SocketInv'
    BY <2>1 DEF SocketInv, Abandon, TransportTypeOK
  <2>4. AttemptInv'
    BY <2>1, <2>2 DEF AttemptInv, Abandon, Waiting, TransportTypeOK
  <2>5. PendingInv'
    BY <2>1, <2>2 DEF PendingInv, Pending, Abandon
  <2> QED
    BY <1>0, <2>3, <2>4, <2>5
<1>5. ASSUME NEW s \in Sockets, ConnectCloses(s) PROVE TransportInv'
  <2>1. SocketInv'
    BY <1>5 DEF SocketInv, ConnectCloses, TransportTypeOK
  <2>2. AttemptInv'
    BY <1>5 DEF AttemptInv, ConnectCloses, Waiting, TransportTypeOK
  <2>3. PendingInv'
    BY <1>5 DEF PendingInv, Pending, ConnectCloses
  <2> QED
    BY <1>0, <2>1, <2>2, <2>3
<1>6. ASSUME NEW c \in Callers, OnMessage(c) PROVE TransportInv'
  <2>1. req'[c] \notin {"waiting", "pending"} /\ \A d \in Callers : d # c => req'[d] = req[d]
    BY <1>6 DEF OnMessage, Settle, TransportTypeOK
  <2>2. UNCHANGED <<sock, adopted, ws, connecting, on>>
    BY <1>6 DEF OnMessage
  <2>3. SocketInv'
    BY <2>2 DEF SocketInv
  <2>4. AttemptInv'
    BY <2>1, <2>2 DEF AttemptInv, Waiting
  <2>5. PendingInv'
    BY <2>1, <2>2 DEF PendingInv, Pending
  <2> QED
    BY <1>0, <2>3, <2>4, <2>5
<1>7. ASSUME Teardown, UNCHANGED <<adopted, connecting, on>>,
             \A d \in Callers : req'[d] = req[d] \/ req'[d] \notin {"waiting", "pending"}
      PROVE  TransportInv'
  <2>1. SocketInv'
    BY <1>7 DEF SocketInv, Teardown, TransportTypeOK
  <2>2. AttemptInv'
    BY <1>7 DEF AttemptInv, Waiting, Teardown, TransportTypeOK
  <2>3. PendingInv'
    BY <1>7 DEF PendingInv, Pending
  <2> QED
    BY <1>0, <2>1, <2>2, <2>3
<1>8. ASSUME NEW c \in Callers, RequestTimeout(c) \/ RequestSendFails(c) PROVE TransportInv'
  <2>1. \A d \in Callers : req'[d] = req[d] \/ req'[d] \notin {"waiting", "pending"}
    BY <1>8 DEF RequestTimeout, RequestSendFails, Settle, TransportTypeOK
  <2> QED
    BY <1>7, <1>8, <2>1 DEF RequestTimeout, RequestSendFails
<1>9. CASE ForceReconnect \/ Retire
  <2>1. \A d \in Callers : req'[d] = req[d] \/ req'[d] \notin {"waiting", "pending"}
    BY <1>9 DEF ForceReconnect, Retire, Settle, TransportTypeOK
  <2> QED
    BY <1>7, <1>9, <2>1 DEF ForceReconnect, Retire
<1>10. ASSUME NEW s \in Sockets, OnClose(s) PROVE TransportInv'
  <2>1. SocketInv'
    BY <1>10 DEF SocketInv, OnClose, TransportTypeOK
  <2>2. AttemptInv'
    BY <1>10 DEF AttemptInv, Waiting, Pending, OnClose, Settle, TransportTypeOK
  <2>3. PendingInv'
    <3>1. CASE s \in adopted
      BY <1>10, <3>1 DEF PendingInv, Pending, OnClose, Settle, TransportTypeOK
    <3>2. CASE s \notin adopted
      BY <1>10, <3>2 DEF PendingInv, Pending, OnClose
    <3> QED
      BY <3>1, <3>2
  <2> QED
    BY <1>0, <2>1, <2>2, <2>3
<1>11. CASE UNCHANGED transport
  BY <1>0, <1>11 DEF transport, SocketInv, AttemptInv, PendingInv, Waiting, Pending
<1> QED
  BY <1>1, <1>2, <1>3, <1>4, <1>5, <1>6, <1>8, <1>9, <1>10, <1>11, <1>3a DEF TransportNext

(* The invariant of every behaviour, silent closes included. *)
LEMMA TransportInvariance == TransportSpec => []TransportInv
BY InitTransportInv, InvStep, PTL DEF TransportSpec

(* Every variable of the relay client keeps its type. *)
THEOREM TransportTypes == TransportSpec => []TransportTypeOK
<1>1. TransportInv => TransportTypeOK
  BY DEF TransportInv
<1> QED
  BY <1>1, TransportInvariance, PTL

(* A pending request is always on a socket that can still answer it or whose close
   handler will reject it, with silent closes and forced reconnects at any moment. *)
THEOREM PendingNeverStranded == TransportSpec => []PendingHasSocket
<1>1. TransportInv => PendingHasSocket
  BY DEF TransportInv, SocketInv, PendingInv, PendingHasSocket, TransportTypeOK
<1> QED
  BY <1>1, TransportInvariance, PTL

(* _connect never runs two attempts side by side. *)
THEOREM SingleFlight == TransportSpec => []OneAttempt
<1>1. TransportInv => OneAttempt
  BY DEF TransportInv, AttemptInv, OneAttempt
<1> QED
  BY <1>1, TransportInvariance, PTL

(* The promise's socket is connecting, or was closed before "ready". *)
Attempted == connecting # NoSocket => sock[connecting] \in {"connecting", "closed"}

(* A caller that waits for the connection always has an unsettled attempt, whose timer
   is armed unless its socket was closed silently. *)
THEOREM WaitersNeverStranded == TransportSpec => []WaitersHaveAttempt
<1>1. TransportInit => Attempted
  BY DEF TransportInit, Attempted
<1>2. TransportInv /\ Attempted /\ [TransportNext]_transport => Attempted'
  <2> SUFFICES ASSUME TransportInv, Attempted, [TransportNext]_transport PROVE Attempted'
    OBVIOUS
  <2> USE DEF TransportInv, TransportTypeOK, Attempted
  <2>1. ASSUME NEW c \in Callers, SendOnOpen(c) \/ JoinConnect(c) \/ OnMessage(c)
        PROVE  Attempted'
    BY <2>1 DEF SendOnOpen, JoinConnect, OnMessage
  <2>2. ASSUME NEW c \in Callers, StartConnect(c) PROVE Attempted'
    BY <2>2 DEF StartConnect
  <2>3. ASSUME Teardown, connecting' = connecting PROVE Attempted'
    BY <2>3 DEF Teardown, SocketInv
  <2>4. ASSUME NEW c \in Callers, RequestTimeout(c) \/ RequestSendFails(c) PROVE Attempted'
    BY <2>3, <2>4 DEF RequestTimeout, RequestSendFails
  <2>5. CASE ForceReconnect \/ Retire
    BY <2>3, <2>5 DEF ForceReconnect, Retire
  <2>6. ASSUME NEW s \in Sockets,
               Ready(s) \/ ReadySendFails(s) \/ Abandon(s)
        PROVE  Attempted'
    BY <2>6 DEF Ready, ReadySendFails, Abandon
  <2>7. ASSUME NEW s \in Sockets, ConnectCloses(s) PROVE Attempted'
    BY <2>7 DEF ConnectCloses
  <2>8. ASSUME NEW s \in Sockets, OnClose(s) PROVE Attempted'
    BY <2>8 DEF OnClose
  <2>9. CASE UNCHANGED transport
    BY <2>9 DEF transport
  <2> QED
    BY <2>1, <2>2, <2>4, <2>5, <2>6, <2>7, <2>8, <2>9 DEF TransportNext
<1>3. TransportInv /\ Attempted => WaitersHaveAttempt
  BY DEF TransportInv, AttemptInv, Attempted, WaitersHaveAttempt, SilentlyClosed
<1> QED
  BY <1>1, <1>2, <1>3, TransportInvariance, PTL DEF TransportSpec
=============================================================================
