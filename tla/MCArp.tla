------------------------------- MODULE MCArp -------------------------------
(* Small instances of Arp.                                                 *)
EXTENDS Arp

CONSTANTS g1, g2, h, peer, other

\* The gateway, the gateway after its card was changed, two more addresses,
\* and a host that asks before it has one.
AllClaims == {<<g1, Gw>>, <<g2, Gw>>, <<h, peer>>, <<h, other>>, <<h, Zero>>}
=============================================================================
