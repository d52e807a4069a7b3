--------------------------- MODULE MCPropagation ---------------------------
(* Small instances of Propagation for TLC. *)
EXTENDS Propagation, TLC

\* Endpoints are interchangeable in every instance.
EndpointSymmetry == Permutations(Endpoint)

\* Bound of the runs with two actions and deliveries: at most one of the actions
\* is a transition, the other's purge runs beside it.
OneTransition == Cardinality({a \in Action : IsTransition(action[a].event)}) <= 1

\* Bound of the fair run: an action with deliveries is the only one, of a release
\* or not; two actions, with the release beside the other, have purges alone.
DeliveriesAlone ==
  \A a, b \in Action :
    a # b /\ action[b].phase # "idle" =>
      action[a].todo = {} /\ \A e \in Endpoint : delivery[a][e] = NoDelivery
=============================================================================
