------------------------------ MODULE TcpServer ------------------------------
(***************************************************************************)
(* TcpServer (src/base/net/tools/TcpServer.cpp): the listening socket of  *)
(* the HTTP API.  The constructor parses the host as IPv6 or IPv4;        *)
(* bind() binds, ignoring what uv_tcp_bind returns, listens, and reports  *)
(* the port (asking the socket when the configured port is 0); every      *)
(* incoming connection with a non-negative status goes to the listener.   *)
(*                                                                         *)
(* libuv is the environment: uv_tcp_bind either binds, defers EADDRINUSE  *)
(* to uv_listen, or fails at once (EACCES, EADDRNOTAVAIL) leaving the     *)
(* socket unbound, and listen() on an unbound socket makes the kernel     *)
(* bind it to the wildcard address on an ephemeral port.  An endpoint is  *)
(* [host, port]: the configured host or "any", the configured port or     *)
(* "eph" (one the system chose).                                          *)
(***************************************************************************)
EXTENDS Integers

VARIABLES
  version,   \* m_version: 4, 6, or 0 when the host is not an address
  port,      \* m_port as configured: "cfg" (non-zero) or "zero"
  endpoint,  \* where the socket listens, or NoEndpoint
  ret,       \* what bind() returned: "none" (not called), "err" or a port
  accepted   \* a connection was handed to the listener

tcpVars == <<version, port, endpoint, ret, accepted>>

NoEndpoint == [host |-> "none", port |-> "none"]

\* The hosts a configuration may name: none (the constructor takes
\* kLocalHost, "127.0.0.1"), an IPv4 or IPv6 literal, a name, or a string
\* with a ':' that is no IPv6 address.
Hosts == {"null", "v4", "v6", "name", "colon"}

\* custom_uv_ip6_addr, custom_uv_ip4_addr: 0 when the string parses as an
\* address of that family.
Ip6Addr(h) == IF h = "v6" THEN 0 ELSE -1
Ip4Addr(h) == IF h \in {"null", "v4"} THEN 0 ELSE -1

\* TcpServer(host, port, listener): uv_ip6_addr if the host has a ':' and
\* parses, else uv_ip4_addr; neither parsing leaves m_version at 0.
ParseVersion(h) ==
  CASE h \in {"v6", "colon"} /\ Ip6Addr(h) = 0 -> 6
    [] Ip4Addr(h) = 0                         -> 4
    [] OTHER                                  -> 0

Init ==
  /\ \E h \in Hosts : version = ParseVersion(h)
  /\ port \in {"cfg", "zero"}
  /\ endpoint = NoEndpoint /\ ret = "none" /\ accepted = FALSE

\* custom_uv_tcp_bind and custom_uv_listen (uv_tcp_bind, uv_listen): where
\* the socket listens.  A bind that succeeded gives the configured address
\* (port 0 lets the system pick); a socket left unbound is bound by the
\* kernel at listen() to the wildcard address on an ephemeral port.
ListenAt(bindRc) ==
  IF bindRc = "ok"
  THEN [host |-> "cfg", port |-> IF port = "zero" THEN "eph" ELSE "cfg"]
  ELSE [host |-> "any", port |-> "eph"]

\* custom_uv_tcp_getsockname (uv_tcp_getsockname): the port the socket
\* listens on, which bind() reports when the configured port is 0.
TcpGetSockName(ep) == ep.port

\* TcpServer::bind() with uv_tcp_bind's outcome bindRc ("ok", "inuse",
\* "other") and uv_listen's own outcome listenOk.
Bind(bindRc, listenOk) ==
  /\ ret = "none"
  /\ IF version = 0
     THEN ret' = "err" /\ UNCHANGED endpoint
     ELSE LET ep == ListenAt(bindRc)
          IN IF bindRc = "inuse" \/ ~listenOk
             THEN ret' = "err" /\ UNCHANGED endpoint
             ELSE /\ endpoint' = ep
                  /\ ret' = IF port = "zero" THEN TcpGetSockName(ep) ELSE "cfg"
  /\ UNCHANGED <<version, port, accepted>>

\* TcpServer::onConnection / create(stream, status): a failed accept is
\* dropped; otherwise m_listener->onConnection(stream, m_port).
Create(ok) ==
  /\ endpoint # NoEndpoint /\ ~accepted
  /\ accepted' = ok
  /\ UNCHANGED <<version, port, endpoint, ret>>

Next ==
  \/ \E rc \in {"ok", "inuse", "other"}, ok \in BOOLEAN : Bind(rc, ok)
  \/ \E ok \in BOOLEAN : Create(ok)

-----------------------------------------------------------------------------
\* When bind() reports success, the server listens on the configured host
\* at the port bind() returned: the API is reachable where the
\* configuration says and nowhere else.
BindReportsEndpoint ==
  ret \notin {"none", "err"} => endpoint = [host |-> "cfg", port |-> ret]
=============================================================================
