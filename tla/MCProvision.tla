----------------------------- MODULE MCProvision -----------------------------
(* One host and one data root; every combination of where the images come  *)
(* from and of a proxy, and of a topology and a security mode.             *)
EXTENDS Provision

MCInvocations == LET all == Invocation IN all
=============================================================================
