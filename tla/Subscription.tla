---------------------------- MODULE Subscription ----------------------------
(***************************************************************************)
(* Subscription synchronisation between daemons:                          *)
(* src/icinga/subscriptioncomponent.cpp over the endpoints of             *)
(* src/icinga/endpoint.h and src/icinga/virtualendpoint.cpp.              *)
(*                                                                         *)
(* Every node runs an EndpointManager holding local endpoints (the        *)
(* subscription component's VirtualEndpoint and one endpoint per other    *)
(* component) and one remote endpoint per connected peer.  When a remote  *)
(* endpoint is registered, the subscription component replays the method *)
(* sinks and sources of every local endpoint to the peer as               *)
(* message::Subscribe and message::Provide requests; the peer's handlers  *)
(* register the sender's endpoint as a sink or source of the method.      *)
(*                                                                         *)
(* Each node's event loop is single-threaded, so a handler is one step.   *)
(* Requests travel over the connection in FIFO order; a lost connection   *)
(* loses them, and destroys both remote endpoints.                         *)
(***************************************************************************)
EXTENDS Naturals, FiniteSets, Sequences

CONSTANTS
    Nodes,          \* the daemons
    Components,     \* the local endpoints of components other than the subscription component
    CompNode,       \* CompNode[c]: the node hosting component endpoint c
    CompSinks,      \* CompSinks[c]: the methods c registers handlers for
    CompSources,    \* CompSources[c]: the methods c registers as sources
    SubEp,          \* the subscription component's VirtualEndpoint
    Subscribe,      \* "message::Subscribe"
    Provide,        \* "message::Provide"
    AppMethods,     \* the methods of the other components
    Links,          \* the configured connections, as sets {n, p}
    InitStarted,    \* the nodes whose subscription component is running at start
    InitComps,      \* the component endpoints registered at start
    MaxConnects,    \* bound on connection establishments
    MaxStarts       \* bound on subscription component starts after the initial ones

ASSUME Components \cap Nodes = {} /\ SubEp \notin Nodes \cup Components
ASSUME \A c \in Components : CompNode[c] \in Nodes
ASSUME \A l \in Links : l \subseteq Nodes /\ Cardinality(l) = 2

\* The two methods of the subscription protocol, in the "message::" namespace.
ProtocolMethods == {Subscribe, Provide}
Methods == ProtocolMethods \cup AppMethods

\* Every endpoint name: local endpoints, and remote endpoints named by the peer.
Eps == {SubEp} \cup Components \cup Nodes

Msg == [type : ProtocolMethods, method : Methods]

VARIABLES
    started,     \* started[n]: the subscription component of n is running
    registered,  \* registered[n]: the endpoints in n's EndpointManager
    sinks,       \* sinks[n][e]: m_MethodSinks of endpoint e at n
    sources,     \* sources[n][e]: m_MethodSources of endpoint e at n
    allowed,     \* allowed[n]: peers whose endpoint at n allows the "message::" prefix
    conn,        \* the connections that are up
    chan,        \* chan[<<n, p>>]: requests sent by n to p, not yet handled
    connects,    \* number of connections established so far
    starts       \* number of subscription component starts so far

vars == <<started, registered, sinks, sources, allowed, conn, chan, connects, starts>>

(***************************************************************************)
(* Helpers                                                                 *)
(***************************************************************************)

\* Endpoint::IsLocal: VirtualEndpoints are local, remote peers are not.
IsLocal(e) == e \notin Nodes

\* Variant of NewEndpointPeers without the IsLocal early return.
NewEndpointPeersNoLocalCheck(eps) == eps

\* The endpoints NewEndpointHandler acts on: it returns at once for a local
\* endpoint, so only remote peers get the "message::" prefix and sinks.
NewEndpointPeers(eps) == {e \in eps : ~IsLocal(e)}

\* Variant of SyncSubscriptions without the IsLocal check.
SyncSubscriptionsAnyEndpoint(n, e) ==
    {[type |-> Subscribe, method |-> m] : m \in sinks[n][e]}
        \cup {[type |-> Provide, method |-> m] : m \in sources[n][e]}

\* SubscriptionComponent::SyncSubscriptions and SyncSubscription: the
\* requests announcing the sinks and sources of endpoint e to a peer; only
\* local endpoints are announced.
SyncSubscriptions(n, e) ==
    IF IsLocal(e)
    THEN {[type |-> Subscribe, method |-> m] : m \in sinks[n][e]}
            \cup {[type |-> Provide, method |-> m] : m \in sources[n][e]}
    ELSE {}

\* The requests of a replay in the (fixed) order they are sent.
RECURSIVE AsSeq(_)
AsSeq(S) ==
    IF S = {} THEN <<>>
    ELSE LET x == CHOOSE x \in S : TRUE IN <<x>> \o AsSeq(S \ {x})

\* The replay NewEndpointHandler sends over ForeachEndpoint.
Replay(n, eps) == AsSeq(UNION {SyncSubscriptions(n, e) : e \in eps})

\* Remote endpoint p at n after NewEndpointHandler: the "message::" prefix
\* allowed and registered as a sink of both protocol methods.
WithProtocolSinks(f, peers) ==
    [e \in DOMAIN f |-> IF e \in peers THEN f[e] \cup ProtocolMethods ELSE f[e]]

\* Requests queued from n to each of the given peers.
SendTo(n, peers, msgs) ==
    [k \in DOMAIN chan |-> IF k[1] = n /\ k[2] \in peers THEN chan[k] \o msgs
                                                         ELSE chan[k]]

(***************************************************************************)
(* Operations                                                              *)
(***************************************************************************)

Init ==
    /\ started = [n \in Nodes |-> n \in InitStarted]
    /\ registered = [n \in Nodes |->
            {c \in InitComps : CompNode[c] = n}
                \cup (IF n \in InitStarted THEN {SubEp} ELSE {})]
    /\ sinks = [n \in Nodes |-> [e \in Eps |->
            IF e = SubEp THEN ProtocolMethods
            ELSE IF e \in Components /\ CompNode[e] = n THEN CompSinks[e]
            ELSE {}]]
    /\ sources = [n \in Nodes |-> [e \in Eps |->
            IF e = SubEp THEN ProtocolMethods
            ELSE IF e \in Components /\ CompNode[e] = n THEN CompSources[e]
            ELSE {}]]
    /\ allowed = [n \in Nodes |-> {}]
    /\ conn = {}
    /\ chan = [k \in Nodes \X Nodes |-> <<>>]
    /\ connects = 0
    /\ starts = 0

\* SubscriptionComponent::Start: the VirtualEndpoint gets handlers (hence
\* sinks) and sources for both protocol methods; NewEndpointHandler runs
\* for every endpoint already registered; only then is the subscription
\* endpoint registered, so its own methods are not part of that replay.
SubscriptionComponentStart(n) ==
    LET peers == NewEndpointPeers(registered[n])
    IN
    /\ ~started[n]
    /\ starts < MaxStarts
    /\ starts' = starts + 1
    /\ started' = [started EXCEPT ![n] = TRUE]
    /\ registered' = [registered EXCEPT ![n] = @ \cup {SubEp}]
    /\ sinks' = [sinks EXCEPT ![n] =
            [WithProtocolSinks(@, peers) EXCEPT ![SubEp] = ProtocolMethods]]
    /\ sources' = [sources EXCEPT ![n][SubEp] = ProtocolMethods]
    /\ allowed' = [allowed EXCEPT ![n] = @ \cup peers]
    /\ chan' = SendTo(n, peers, Replay(n, registered[n]))
    /\ UNCHANGED <<conn, connects>>

\* SubscriptionComponent::Stop, as the component is unloaded: its endpoint
\* is unregistered and its NewEndpoint handler is gone.
SubscriptionComponentStop(n) ==
    /\ started[n]
    /\ started' = [started EXCEPT ![n] = FALSE]
    /\ registered' = [registered EXCEPT ![n] = @ \ {SubEp}]
    /\ UNCHANGED <<starts, sinks, sources, allowed, conn, chan, connects>>

\* Another component registers its VirtualEndpoint, with its handlers and
\* sources already in place.  NewEndpointHandler returns at once for a
\* local endpoint, so nothing is sent to the peers.
RegisterComponent(c) ==
    LET n == CompNode[c]
    IN
    /\ c \notin registered[n]
    /\ registered' = [registered EXCEPT ![n] = @ \cup {c}]
    /\ sinks' = [sinks EXCEPT ![n][c] = CompSinks[c]]
    /\ sources' = [sources EXCEPT ![n][c] = CompSources[c]]
    /\ UNCHANGED <<starts, started, allowed, conn, chan, connects>>

\* A configured connection is established.
Connect(l) ==
    /\ l \in Links \ conn
    /\ connects < MaxConnects
    /\ conn' = conn \cup {l}
    /\ connects' = connects + 1
    /\ UNCHANGED <<starts, started, registered, sinks, sources, allowed, chan>>

\* Node n registers a fresh remote endpoint for peer p; OnNewEndpoint runs
\* SubscriptionComponent::NewEndpointHandler if the component is running.
RegisterRemote(n, p) ==
    LET eps == registered[n] \cup {p}
    IN
    /\ {n, p} \in conn
    /\ p \notin registered[n]
    /\ registered' = [registered EXCEPT ![n] = eps]
    /\ sources' = [sources EXCEPT ![n][p] = {}]
    /\ \/ /\ started[n]
          /\ sinks' = [sinks EXCEPT ![n][p] = ProtocolMethods]
          /\ allowed' = [allowed EXCEPT ![n] = @ \cup {p}]
          /\ chan' = SendTo(n, {p}, Replay(n, eps))
       \/ /\ ~started[n]
          /\ sinks' = [sinks EXCEPT ![n][p] = {}]
          /\ allowed' = [allowed EXCEPT ![n] = @ \ {p}]
          /\ UNCHANGED chan
    /\ UNCHANGED <<starts, started, conn, connects>>

\* Variant of the request handlers that registers the method on the
\* receiving VirtualEndpoint (nrea.Source) instead of the sender.
HandleRequestOnSource(p, n, msg) ==
    IF msg.type = Subscribe
    THEN /\ sinks' = [sinks EXCEPT ![p][SubEp] = @ \cup {msg.method}]
         /\ UNCHANGED sources
    ELSE /\ sources' = [sources EXCEPT ![p][SubEp] = @ \cup {msg.method}]
         /\ UNCHANGED sinks

\* VirtualEndpoint::ProcessRequest on p's subscription endpoint, then
\* SubscribeMessageHandler or ProvideMessageHandler: the sender's endpoint
\* becomes a sink or a source of the carried method.
HandleRequest(p, n, msg) ==
    IF msg.type = Subscribe
    THEN /\ sinks' = [sinks EXCEPT ![p][n] = @ \cup {msg.method}]
         /\ UNCHANGED sources
    ELSE /\ sources' = [sources EXCEPT ![p][n] = @ \cup {msg.method}]
         /\ UNCHANGED sinks

\* A request from n reaches p's remote endpoint for n.  It is routed to
\* the subscription endpoint when that is registered and a sink of the
\* method and the "message::" prefix is allowed for n; otherwise no local
\* endpoint takes it and it is dropped.
Deliver(n, p) ==
    LET msg == Head(chan[<<n, p>>])
    IN
    /\ chan[<<n, p>>] # <<>>
    /\ n \in registered[p]
    /\ chan' = [chan EXCEPT ![<<n, p>>] = Tail(@)]
    /\ \/ /\ n \in allowed[p]
          /\ SubEp \in registered[p]
          /\ msg.type \in sinks[p][SubEp]
          /\ HandleRequest(p, n, msg)
       \/ /\ ~(n \in allowed[p] /\ SubEp \in registered[p]
                /\ msg.type \in sinks[p][SubEp])
          /\ UNCHANGED <<sinks, sources>>
    /\ UNCHANGED <<starts, started, registered, allowed, conn, connects>>

\* Endpoint e at node n is the remote endpoint lost with connection l.
Lost(l, n, e) == n \in l /\ e \in l \ {n}

\* A connection is lost: both remote endpoints are removed (their method
\* sets and permissions go with them) and the requests in flight are lost.
Disconnect(l) ==
    /\ l \in conn
    /\ conn' = conn \ {l}
    /\ registered' = [n \in Nodes |-> IF n \in l THEN registered[n] \ l ELSE registered[n]]
    /\ sinks' = [n \in Nodes |-> [e \in Eps |-> IF Lost(l, n, e) THEN {} ELSE sinks[n][e]]]
    /\ sources' = [n \in Nodes |-> [e \in Eps |-> IF Lost(l, n, e) THEN {} ELSE sources[n][e]]]
    /\ allowed' = [n \in Nodes |-> IF n \in l THEN allowed[n] \ l ELSE allowed[n]]
    /\ chan' = [k \in DOMAIN chan |-> IF {k[1], k[2]} = l THEN <<>> ELSE chan[k]]
    /\ UNCHANGED <<starts, started, connects>>

Next ==
    \/ \E n \in Nodes : SubscriptionComponentStart(n)
    \/ \E n \in Nodes : SubscriptionComponentStop(n)
    \/ \E c \in Components : RegisterComponent(c)
    \/ \E l \in Links : Connect(l)
    \/ \E n, p \in Nodes : RegisterRemote(n, p)
    \/ \E n, p \in Nodes : Deliver(n, p)
    \/ \E l \in Links : Disconnect(l)

\* Each node's event loop handles a new connection and the requests that
\* arrive on it; starting and stopping components, registering them and
\* connection loss are not forced to happen.
Fairness ==
    \A n, p \in Nodes :
        /\ WF_vars(RegisterRemote(n, p))
        /\ WF_vars(Deliver(n, p))

Spec == Init /\ [][Next]_vars /\ Fairness

(***************************************************************************)
(* Properties                                                              *)
(***************************************************************************)

TypeOK ==
    /\ started \in [Nodes -> BOOLEAN]
    /\ registered \in [Nodes -> SUBSET Eps]
    /\ sinks \in [Nodes -> [Eps -> SUBSET Methods]]
    /\ sources \in [Nodes -> [Eps -> SUBSET Methods]]
    /\ allowed \in [Nodes -> SUBSET Nodes]
    /\ conn \subseteq Links
    /\ chan \in [Nodes \X Nodes -> Seq(Msg)]
    /\ connects \in 0..MaxConnects
    /\ starts \in 0..MaxStarts

\* The methods the components configured on node n handle or originate.
ConfiguredSinks(n) == UNION {CompSinks[c] : c \in {d \in Components : CompNode[d] = n}}
ConfiguredSources(n) == UNION {CompSources[c] : c \in {d \in Components : CompNode[d] = n}}

\* A node registers a peer as a sink (or source) only of methods that a
\* local endpoint of that very peer handles (or originates): announcements
\* are not forwarded to third nodes, so no request is ever routed to a
\* node that cannot handle it.
NoForeignRoutes ==
    \A p \in Nodes : \A n \in registered[p] \cap Nodes :
        /\ sinks[p][n] \subseteq ProtocolMethods \cup ConfiguredSinks(n)
        /\ sources[p][n] \subseteq ProtocolMethods \cup ConfiguredSources(n)

\* Both ends of a connection have registered each other and both run the
\* subscription component.
Linked(n, p) ==
    /\ {n, p} \in conn
    /\ p \in registered[n] /\ n \in registered[p]
    /\ started[n] /\ started[p]

\* The sinks and sources of n's registered component endpoints.
ComponentSinks(n) == UNION {sinks[n][c] : c \in registered[n] \cap Components}
ComponentSources(n) == UNION {sources[n][c] : c \in registered[n] \cap Components}

=============================================================================
