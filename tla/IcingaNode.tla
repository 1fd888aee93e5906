----------------------------- MODULE IcingaNode -------------------------------
(***************************************************************************)
(* A daemon as IcingaApplication (src/icinga/icingaapplication.cpp) builds *)
(* it from its configuration, composed with the subscription               *)
(* synchronisation of Subscription.                                        *)
(*                                                                         *)
(* IcingaApplication::Main registers handlers on the "component",          *)
(* "rpclistener" and "rpcconnection" collections of the configuration      *)
(* hive, replays them over the objects already there, adds the             *)
(* configfilecomponent object (which loads the configuration file, so the  *)
(* file's objects arrive through the handlers) and runs the event loop.    *)
(* The handlers load components (the subscription component among them),  *)
(* create listeners and outgoing connections; removing a component unloads *)
(* it, removing a listener or a connection throws.                          *)
(*                                                                         *)
(*   Main            the argument check and the handler registration;      *)
(*   NewObject       an object of the configuration file is created and    *)
(*                   its collection's handler runs;                        *)
(*   RunEventLoop    AddObject(configfilecomponent) returned: the file is  *)
(*                   loaded and the event loop starts;                     *)
(*   Deleted*        an object is removed while the event loop runs.       *)
(*                                                                         *)
(* Connections, remote endpoints and requests are Subscription's actions,  *)
(* allowed only where the event loops run.  Objects are created only while *)
(* the file loads, in the order the file lists them; Removable bounds which *)
(* of them a configuration change may remove.  An application component is *)
(* never removed, since what unloading it does is the component's own Stop.*)
(***************************************************************************)
EXTENDS Subscription, SequencesExt

CONSTANTS
    SubComp,        \* the "subscriptioncomponent" component object
    RpcListener,    \* an "rpclistener" object
    ConfigFile,     \* ConfigFile[n]: the objects n's configuration file defines, in file order
    Removable       \* Removable[n]: the objects of n a configuration change may remove

\* An "rpcconnection" object naming peer p.
RpcConnection(p) == <<"rpcconnection", p>>

\* The configuration objects the handlers tell apart.
Objects == Components \cup {SubComp, RpcListener} \cup {RpcConnection(p) : p \in Nodes}

ASSUME \A n \in Nodes : ConfigFile[n] \in Seq(Objects)
ASSUME \A n \in Nodes : \A c \in ToSet(ConfigFile[n]) \cap Components : CompNode[c] = n

VARIABLES
    app,    \* app[n]: "init", "loading", "running", "aborted" or "exited"
    hive,   \* hive[n]: the objects in n's configuration hive
    read    \* read[n]: how many objects of n's file have been created

appvars == <<app, hive, read>>
nvars == <<vars, appvars>>

(***************************************************************************)
(* Operations                                                              *)
(***************************************************************************)

NodeInit ==
    /\ Init
    /\ app = [n \in Nodes |-> "init"]
    /\ hive = [n \in Nodes |-> {}]
    /\ read = [n \in Nodes |-> 0]

\* IcingaApplication::Main up to AddObject(configfilecomponent): without
\* a configuration file argument it prints the usage and returns
\* EXIT_FAILURE; otherwise it registers the three collections' handlers and
\* replays them over the (still empty) collections.
Main(n, hasArg) ==
    /\ app[n] = "init"
    /\ app' = [app EXCEPT ![n] = IF hasArg THEN "loading" ELSE "exited"]
    /\ UNCHANGED <<vars, hive, read>>

\* The OnObjectCreated handlers.  NewComponentHandler loads the component:
\* the subscription component runs SubscriptionComponent::Start, another
\* component registers its endpoint.  NewRpcListenerHandler and
\* NewRpcConnectionHandler hand the port, or host and port, to the
\* ConnectionManager, which Connect consults.  The handlers are in place
\* from Main on; the file is read once, in order.
NewObject(n) ==
    LET o == ConfigFile[n][read[n] + 1]
    IN
    /\ app[n] \in {"loading", "running"}
    /\ read[n] < Len(ConfigFile[n])
    /\ hive' = [hive EXCEPT ![n] = @ \cup {o}]
    /\ read' = [read EXCEPT ![n] = @ + 1]
    /\ \/ o = SubComp /\ SubscriptionComponentStart(n)
       \/ o \in Components /\ RegisterComponent(o)
       \/ o \notin Components \cup {SubComp} /\ UNCHANGED vars
    /\ UNCHANGED app

\* Variant of RunEventLoop entered before the file has been read.
RunEventLoopEarly(n) ==
    /\ app[n] = "loading"
    /\ app' = [app EXCEPT ![n] = "running"]
    /\ UNCHANGED <<vars, hive, read>>

\* AddObject(configfilecomponent) returns once the configfilecomponent has
\* read the file and created its objects; Main then calls RunEventLoop.
RunEventLoop(n) ==
    /\ app[n] = "loading"
    /\ read[n] = Len(ConfigFile[n])
    /\ app' = [app EXCEPT ![n] = "running"]
    /\ UNCHANGED <<vars, hive, read>>

\* The OnObjectRemoved handlers, run from the event loop.
\* DeletedComponentHandler unloads the component; for the subscription
\* component that is SubscriptionComponent::Stop.
DeletedComponent(n) ==
    /\ app[n] = "running"
    /\ SubComp \in hive[n] \cap Removable[n]
    /\ hive' = [hive EXCEPT ![n] = @ \ {SubComp}]
    /\ SubscriptionComponentStop(n)
    /\ UNCHANGED <<app, read>>

\* DeletedRpcListenerHandler throws "Unsupported operation."; the exception
\* leaves the event loop and the node stops handling anything.
DeletedRpcListener(n) ==
    /\ app[n] = "running"
    /\ RpcListener \in hive[n] \cap Removable[n]
    /\ hive' = [hive EXCEPT ![n] = @ \ {RpcListener}]
    /\ app' = [app EXCEPT ![n] = "aborted"]
    /\ UNCHANGED <<vars, read>>

\* DeletedRpcConnectionHandler throws the same way.
DeletedRpcConnection(n, p) ==
    /\ app[n] = "running"
    /\ RpcConnection(p) \in hive[n] \cap Removable[n]
    /\ hive' = [hive EXCEPT ![n] = @ \ {RpcConnection(p)}]
    /\ app' = [app EXCEPT ![n] = "aborted"]
    /\ UNCHANGED <<vars, read>>

\* NewRpcListenerHandler: the ConnectionManager of n listens on the port.
Listening(n) == RpcListener \in hive[n]

\* NewRpcConnectionHandler: the ConnectionManager of n connects to p.
Connecting(n, p) == RpcConnection(p) \in hive[n]

\* The ConnectionManager of one end connects to a listener of the other,
\* both running their event loops.
NodeConnect(l) ==
    /\ \A n \in l : app[n] = "running"
    /\ \E n, p \in l : Connecting(n, p) /\ Listening(p)
    /\ Connect(l)
    /\ UNCHANGED appvars

\* The event loop of n registers the remote endpoint of a new connection.
NodeRegisterRemote(n, p) ==
    /\ app[n] = "running"
    /\ RegisterRemote(n, p)
    /\ UNCHANGED appvars

\* The event loop of p handles a request from n.
NodeDeliver(n, p) ==
    /\ app[p] = "running"
    /\ Deliver(n, p)
    /\ UNCHANGED appvars

NodeNext ==
    \/ \E n \in Nodes, hasArg \in BOOLEAN : Main(n, hasArg)
    \/ \E n \in Nodes : NewObject(n)
    \/ \E n \in Nodes : RunEventLoop(n)
    \/ \E n \in Nodes : DeletedComponent(n) \/ DeletedRpcListener(n)
    \/ \E n, p \in Nodes : DeletedRpcConnection(n, p)
    \/ \E l \in Links : NodeConnect(l)
    \/ \E n, p \in Nodes : NodeRegisterRemote(n, p)
    \/ \E n, p \in Nodes : NodeDeliver(n, p)
    \/ \E l \in Links : Disconnect(l) /\ UNCHANGED appvars

\* As in Subscription: each running event loop handles new connections
\* and the requests that arrive on them.
NodeFairness ==
    \A n, p \in Nodes :
        /\ WF_nvars(NodeRegisterRemote(n, p))
        /\ WF_nvars(NodeDeliver(n, p))

NodeSpec == NodeInit /\ [][NodeNext]_nvars /\ NodeFairness

(***************************************************************************)
(* Properties                                                              *)
(***************************************************************************)

\* Both event loops run and the two nodes are linked.
RunningLinked(n, p) ==
    Linked(n, p) /\ app[n] = "running" /\ app[p] = "running"

\* Nodes started from their configuration files: once two of them stay
\* linked with their event loops running, each eventually knows, for
\* good, every method the other's components handle and originate.  It
\* holds because Main loads the whole file before RunEventLoop, so every
\* component endpoint is registered before any connection exists and is
\* part of the replay NewEndpointHandler sends.
ConfiguredNodesAdvertise ==
    \A n \in Nodes : \A p \in Nodes \ {n} :
        <>[]RunningLinked(n, p) =>
            <>[](/\ ComponentSinks(n) \subseteq sinks[p][n]
                 /\ ComponentSources(n) \subseteq sources[p][n])

=============================================================================
