-------------------------- MODULE MCServerEndpoint --------------------------
(* Instances of ServerEndpoint for TLC.                                    *)
EXTENDS ServerEndpoint
============================================================================
