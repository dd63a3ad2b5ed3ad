------------------------------ MODULE MCSetup ------------------------------
(* Setup with the constants of setup.cfg.  What Address promises has no    *)
(* state: it is evaluated once, in the initial state.                      *)
EXTENDS Setup, Address

(* fromString() accepts the two documented forms only: see ParseSound.     *)
FromStringSound == Init => ParseSound

(* fromString() reads a printed address back: see RoundTrip.               *)
FromStringRoundTrip == Init => RoundTrip

(* Peers do not share a connection key: see KeyInjective.                  *)
PeersApart == Init => KeyInjective
============================================================================
