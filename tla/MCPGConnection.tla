--------------------------- MODULE MCPGConnection ---------------------------
(***************************************************************************)
(* Handshakes for PGConnection, on the client programs of MCPGProxy.       *)
(***************************************************************************)
EXTENDS PGConnection, MCPGProxy

AllClients ==
  {<<"Startup">>, <<"SSLRequest", "Startup">>, <<"SSLRequest">>,
   <<"GSSENCRequest", "SSLRequest", "Startup">>, <<"CancelRequest">>, <<"Junk">>}

(* Trust, password, SCRAM, and a rejected password. *)
Logins == {<<"Rok", "K", "Z">>, <<"Rpassword", "Rok", "Z">>,
           <<"Rsasl", "Rcontinue", "Rfinal", "Rok", "Z">>, <<"Rpassword", "E">>}
AllServers == [ssl : {"N", "S"}, auth : Logins]
=============================================================================
