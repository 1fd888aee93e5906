-------------------------- MODULE MCSubscription ---------------------------
(***************************************************************************)
(* The nodes, components and methods of the Subscription models: three    *)
(* nodes linked n1 - n2 - n3; a component on n1 handles method a and      *)
(* originates b, a component on n2 handles b.  A node that forwarded what *)
(* it learnt from n1 would announce a to n3.                               *)
(***************************************************************************)
EXTENDS Subscription, TLC

CONSTANTS n1, n2, n3, c1, c2, a, b

\* message::Subscribe and message::Provide
MCSubscribe == "message::Subscribe"
MCProvide == "message::Provide"
MCAppMethods == {a, b}
MCComponents == {c1, c2}
MCCompSinks == (c1 :> {a}) @@ (c2 :> {b})
MCCompSources == (c1 :> {b}) @@ (c2 :> {})

ChainNodes == {n1, n2, n3}
ChainCompNode == (c1 :> n1) @@ (c2 :> n2)
ChainLinks == {{n1, n2}, {n2, n3}}

=============================================================================
