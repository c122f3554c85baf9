----------------------------- MODULE KeyedQueue -----------------------------
(***************************************************************************)
(* What a singleflight lock promises its clients: at most one of them is   *)
(* inside the section of a key, and they enter in the order they asked.    *)
(***************************************************************************)
EXTENDS Sequences

CONSTANTS Clients, Keys

VARIABLES
  inside,  \* the clients inside the section of each key
  line     \* the clients waiting for each key, in the order they asked

vars == <<inside, line>>

Init ==
  /\ inside = [k \in Keys |-> {}]
  /\ line = [k \in Keys |-> <<>>]

\* A client finds the section empty and nobody before it ...
WalkIn(c, k) ==
  /\ inside[k] = {}
  /\ line[k] = <<>>
  /\ inside' = [inside EXCEPT ![k] = {c}]
  /\ UNCHANGED line

\* ... or waits its turn.
Queue(c, k) ==
  /\ inside[k] # {} \/ line[k] # <<>>
  /\ line' = [line EXCEPT ![k] = Append(@, c)]
  /\ UNCHANGED inside

Enter(k) ==
  /\ inside[k] = {}
  /\ line[k] # <<>>
  /\ inside' = [inside EXCEPT ![k] = {Head(line[k])}]
  /\ line' = [line EXCEPT ![k] = Tail(@)]

Leave(k) ==
  /\ inside[k] # {}
  /\ inside' = [inside EXCEPT ![k] = {}]
  /\ UNCHANGED line

Next == \E k \in Keys : Enter(k) \/ Leave(k) \/ \E c \in Clients : WalkIn(c, k) \/ Queue(c, k)

Spec == Init /\ [][Next]_vars

=============================================================================
