------------------------------ MODULE TlsServer ------------------------------
(***************************************************************************)
(* A TLS-serving process: on each start TlsGen::generate provides the     *)
(* certificate and key files, the TLS context loads them (TlsContext,     *)
(* not in the repository: the load fails unless both files are complete  *)
(* and belong together).  The HTTP server (not in the repository) binds  *)
(* its TcpServer once the process runs, and connections the TcpServer    *)
(* accepts reach ServerTls when the context loaded.  The socket and the   *)
(* connection live as long as the process; the next process starts with  *)
(* neither.  One connection is modelled.                                   *)
(***************************************************************************)
EXTENDS Naturals, Sequences

CONSTANTS MaxStarts, MaxReads

VARIABLES disk, pc, target, starts,                    \* TlsGen
          ssl, phase, ready, wbio, sent, parsed, reads, \* ServerTls
          version, port, endpoint, ret, accepted,       \* TcpServer
          client,  \* the first bytes the connecting client sends
          mode     \* how the connection serves it: "auto" (undecided),
                   \* "tls", "http" or "closed"

genVars == <<disk, pc, target, starts>>
connVars == <<ssl, phase, ready, wbio, sent, parsed, reads>>
tcpVars == <<version, port, endpoint, ret, accepted>>
vars == <<genVars, connVars, tcpVars, client, mode>>

G == INSTANCE TlsGen
S == INSTANCE ServerTls
T == INSTANCE TcpServer

\* SSL_CTX_use_certificate_chain_file, SSL_CTX_use_PrivateKey_file and
\* the key check of the context succeed: both files complete, one pair.
ContextLoads ==
  /\ disk["key"].full /\ disk["cert"].full
  /\ disk["key"].gen = disk["cert"].gen

Init ==
  /\ G!Init /\ S!Init /\ T!Init
  /\ client \in S!FirstBytes /\ mode = "auto"

\* A step of generate() or of the process's life; when the process goes
\* down its socket and connection go with it (the configuration, and so
\* what the TcpServer constructor parsed, stays).
GenStep ==
  /\ G!Next
  /\ IF pc' = "down"
     THEN /\ ssl' = FALSE /\ phase' = "handshaking" /\ ready' = FALSE  \* S!Init
          /\ wbio' = << >> /\ sent' = << >> /\ parsed' = FALSE /\ reads' = 0
          /\ endpoint' = T!NoEndpoint /\ ret' = "none" /\ accepted' = FALSE
          /\ mode' = "auto"
          /\ UNCHANGED <<version, port>>
     ELSE UNCHANGED <<connVars, tcpVars, mode>>
  /\ UNCHANGED client

\* The TcpServer of a running process binds or accepts.
TcpStep ==
  /\ pc = "done"
  /\ T!Next
  /\ UNCHANGED <<genVars, connVars, client, mode>>

\* The connection's first read delivers k bytes of what the client sent;
\* the connection class (not in the repository) serves it with ServerTls
\* when isTLS says so, as plain HTTP when isHTTP does, and closes it
\* otherwise.
Classify(k) ==
  /\ pc = "done" /\ accepted /\ mode = "auto"
  /\ LET data == SubSeq(client, 1, k)
     IN mode' = CASE S!IsTLS(data)  -> "tls"
                  [] S!IsHTTP(data) -> "http"
                  [] OTHER          -> "closed"
  /\ UNCHANGED <<genVars, connVars, tcpVars, client>>

\* A read callback of the accepted connection, in a process that loaded
\* its context.
ConnStep ==
  /\ pc = "done" /\ ContextLoads /\ accepted /\ mode = "tls"
  /\ S!Next
  /\ UNCHANGED <<genVars, tcpVars, client, mode>>

Next ==
  \/ GenStep \/ TcpStep \/ ConnStep
  \/ \E k \in 1 .. Len(client) : Classify(k)

Spec == Init /\ [][Next]_vars

-----------------------------------------------------------------------------
\* On every connection, all handshake records go out before the first
\* reply to client data (ServerTls::read on completion).
HandshakeBeforeReplies == S!HandshakeBeforeReplies

\* Whatever prefix of its first bytes the first read delivers, a TLS client
\* is served by ServerTls, a client sending GET as plain HTTP, and one
\* sending another request is closed (ServerTls::isTLS, ServerTls::isHTTP).
ProtocolDetected ==
  mode # "auto" =>
    mode = CASE client = S!ClientHello -> "tls"
             [] client = S!GetRequest  -> "http"
             [] OTHER                  -> "closed"

\* bind() succeeds only where the configuration says (TcpServer::bind).
BindReportsEndpoint == T!BindReportsEndpoint
=============================================================================
