-------------------------- MODULE MCIpEnforcement --------------------------
(***************************************************************************)
(* An instance of IpEnforcement for TLC: two addresses that share two      *)
(* filters, so that the firewall may also refuse one for want of handles.  *)
(***************************************************************************)
EXTENDS IpEnforcement

CONSTANTS a, b

Addresses == {a, b}
=============================================================================
