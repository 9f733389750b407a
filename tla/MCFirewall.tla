---- MODULE MCFirewall ----
(* Three nodes on two hosts.  The first two, told apart by their port, are     *)
(* pinnable; the third has the name of the first and is not.                   *)
EXTENDS Firewall, TLC

CONSTANTS n1, n2, n3, h1, h2, a, b

MCPool == "read" :> {n1, n2, n3} @@ "push" :> {n2}
MCPinnable == {n1, n2}
MCNameOf == n1 :> a @@ n2 :> b @@ n3 :> a
MCHostOf == n1 :> h1 @@ n2 :> h1 @@ n3 :> h2
MCWeight == n1 :> 1 @@ n2 :> 2 @@ n3 :> 1
MCModes == <<"Before", "After", "After">>

Interchangeable == Permutations(Task)
====
