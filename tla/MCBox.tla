------------------------------- MODULE MCBox -------------------------------
(* Model-checking instance of Box: two outbounds or none, an endpoint with  *)
(* a name of its own or that of the fallback outbound.                      *)
EXTENDS Box

MCOutboundLists == {<<>>, <<"a", "b">>}
MCEndpointLists == {<<"e">>, <<"direct">>}
=============================================================================
