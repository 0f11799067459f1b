----------------------------- MODULE MCTlsLayer -----------------------------
(* Instances of TlsLayer for TLC. *)
EXTENDS TlsLayer

(* TLS 1.2 with two roundtrips, and TLS 1.3. *)
Both == {<<"client", "server", "client", "server">>, <<"client", "server", "client">>}
=============================================================================
