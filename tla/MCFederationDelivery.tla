------------------------ MODULE MCFederationDelivery ------------------------
(* Small instances of FederationDelivery for TLC.                          *)
EXTENDS FederationDelivery, TLC

CONSTANTS d1, d2, m1, m2

\* Two deliveries of one message: an operator has queued it again.
SamePayload == d1 :> m1 @@ d2 :> m1
OwnPayload  == d1 :> m1 @@ d2 :> m2
OnePayload  == d1 :> m1

HandlerSymmetry == Permutations(Handlers)
=============================================================================
