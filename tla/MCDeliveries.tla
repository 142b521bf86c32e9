---------------------------- MODULE MCDeliveries ----------------------------
(* Two devices on pages of one, an audited request and one notification.   *)
EXTENDS Deliveries

MCAttempts == [log |-> 2, push |-> 1]
=============================================================================
