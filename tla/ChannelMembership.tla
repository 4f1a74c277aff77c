-------------------------- MODULE ChannelMembership --------------------------
(***************************************************************************)
(* What the chat server of hw1 promises about channel membership, without  *)
(* saying how it is kept: a set of connected clients and a relation between *)
(* clients and channels.  A client joins and leaves channels one at a time; *)
(* when it goes away every pair it is part of goes with it, in one step.    *)
(***************************************************************************)
CONSTANTS Clients, Channels

VARIABLES online,   \* the clients the server knows
          on        \* the pairs <<client, channel>> of the membership relation

vars == <<online, on>>

Init == online = {} /\ on = {}

Connect(u) == /\ u \notin online
              /\ online' = online \cup {u}
              /\ UNCHANGED on

Join(u, ch) == /\ u \in online
               /\ on' = on \cup {<<u, ch>>}
               /\ UNCHANGED online

Part(u, ch) == /\ <<u, ch>> \in on
               /\ on' = on \ {<<u, ch>>}
               /\ UNCHANGED online

Leave(u) == /\ u \in online
            /\ online' = online \ {u}
            /\ on' = {p \in on : p[1] # u}

Next == \E u \in Clients : \/ Connect(u) \/ Leave(u)
                           \/ \E ch \in Channels : Join(u, ch) \/ Part(u, ch)

Spec == Init /\ [][Next]_vars
=============================================================================
