--------------------------- MODULE MCIcingaNode ------------------------------
(***************************************************************************)
(* Three daemons built from their configuration files, on the chain of    *)
(* MCSubscription: n1 loads the subscription component, connects to n2    *)
(* and loads c1 (handles a, originates b); n2 loads c2 (handles b),       *)
(* listens, loads the subscription component and connects on to n3; n3    *)
(* listens and loads the subscription component.  A reload may remove     *)
(* n1's subscription component or connection, n2's subscription component *)
(* and n3's listener.                                                       *)
(***************************************************************************)
EXTENDS MCSubscription, IcingaNode

CONSTANTS subcomp, listener

\* The chain: n2 listens and also connects on to n3, which loads no other
\* component.
ChainConfigFile ==
    (n1 :> <<subcomp, RpcConnection(n2), c1>>)
        @@ (n2 :> <<c2, listener, subcomp, RpcConnection(n3)>>)
        @@ (n3 :> <<listener, subcomp>>)
ChainRemovable == (n1 :> {subcomp, RpcConnection(n2)}) @@ (n2 :> {subcomp}) @@ (n3 :> {listener})
=============================================================================
