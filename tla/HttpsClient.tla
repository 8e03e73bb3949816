----------------------------- MODULE HttpsClient -----------------------------
(***************************************************************************)
(* The TLS layer of HttpsClient (src/base/net/https/HttpsClient.cpp) over  *)
(* one connection.  OpenSSL runs on memory BIOs: bytes from the socket are *)
(* fed to m_read, records OpenSSL produces collect in m_write and flush()  *)
(* hands them to the stream.  What SSL_connect and SSL_read return is a    *)
(* nondeterministic choice; a record is abstracted to its kind.           *)
(*                                                                         *)
(* HttpClient (connect, HTTP request and parsing) and HttpContext (the     *)
(* stream) are not in the repository: handshake() is called once the TCP   *)
(* connection is up, HttpClient::handshake() writes the request, and the   *)
(* stream may stop being writable or be closed by the peer at any time.   *)
(***************************************************************************)
EXTENDS Integers, Sequences

CONSTANTS
  MaxReads,  \* bound on the read callbacks of one connection
  Certs      \* certificates a server may present: "none", "pinned", "other"

ASSUME MaxReads \in Nat /\ Certs \subseteq {"none", "pinned", "other"}

VARIABLES
  ctx,       \* m_ctx was created
  pinned,    \* req().fingerprint is set (to the "pinned" certificate's digest)
  cert,      \* the certificate the server presents
  ssl,       \* "none" before handshake(), then "ok" or "null" (SSL_new failed)
  phase,     \* "connecting", "handshaking", "finished" or "closed"
  ready,     \* m_ready
  writable,  \* uv_is_writable(stream())
  wbio,      \* records in m_write not yet handed to the stream
  produced,  \* every record OpenSSL put into m_write, in order (history)
  sent,      \* the records handed to the stream, in order
  request,   \* the HTTP request has been written through SSL_write
  delivered, \* decrypted response data was passed to HttpClient::read
  reads,     \* read callbacks so far
  alive      \* the HttpsClient object exists (HttpContext has not deleted it)

vars == <<ctx, pinned, cert, ssl, phase, ready, writable, wbio, produced,
          sent, request, delivered, reads, alive>>

\* customSSL_CTX_new (SSL_CTX_new): a context, or NULL when OpenSSL cannot
\* create one.
SslCtxNew == BOOLEAN

\* HttpsClient(): SSL_CTX_new may fail (the constructor then returns early).
Init ==
  /\ ctx \in SslCtxNew /\ pinned \in BOOLEAN /\ cert \in Certs
  /\ ssl = "none" /\ phase = "connecting" /\ ready = FALSE
  /\ writable = TRUE
  /\ wbio = << >> /\ produced = << >> /\ sent = << >>
  /\ request = FALSE /\ delivered = FALSE /\ reads = 0 /\ alive = TRUE

\* Mutant: m_write is reset before the writability check.
FlushResetFirst(w) ==
  /\ sent' = IF writable THEN sent \o w ELSE sent
  /\ wbio' = << >>

\* flush(false): nothing if the stream is not writable; otherwise take all
\* of m_write (w: what it holds after this step's SSL calls), reset it and
\* write it to the stream.
Flush(w) ==
  /\ sent' = IF writable THEN sent \o w ELSE sent
  /\ wbio' = IF writable THEN << >> ELSE w

\* Mutant: the configured fingerprint is not compared.
VerifyIgnoresPin(c) == c # "none"

\* verify(cert) with verifyFingerprint(): a certificate is needed, and its
\* SHA-256 digest must equal the configured fingerprint when one is set.
Verify(c) == c # "none" /\ (~pinned \/ c = "pinned")

\* customSSL_new (SSL_new(m_ctx)): NULL when m_ctx is null, the
\* constructor's SSL_CTX_new having failed.
SslNew == IF ctx THEN "ok" ELSE "null"

\* customSSL_do_handshake (SSL_do_handshake) in connect state: the first
\* flight, the ClientHello, goes into m_write.
SslDoHandshake == <<"hello">>

\* handshake(): SSL_new; on failure return (the connection then waits).
\* Otherwise connect state, SSL_do_handshake (the ClientHello), flush.
Handshake ==
  /\ phase = "connecting" /\ ssl = "none"
  /\ ssl' = SslNew
  /\ IF ssl' = "ok"
     THEN /\ phase' = "handshaking"
          /\ produced' = produced \o SslDoHandshake
          /\ Flush(wbio \o SslDoHandshake)
     ELSE UNCHANGED <<phase, wbio, produced, sent>>
  /\ UNCHANGED <<ctx, pinned, cert, ready, writable, request, delivered, reads,
                 alive>>

\* customSSL_connect (SSL_connect) as read() classifies it with
\* customSSL_get_error: WANT_READ, 1 (finished), 0 (a fatal alert, the
\* handshake failed) or another error.
ConnectResults == {"want_read", "done", "zero", "error"}

\* customSSL_get_peer_certificate (SSL_get_peer_certificate): what the
\* server presented, NULL ("none") when it sent no certificate.
PeerCertificate == cert

\* customSSL_write (SSL_write): the request body, encrypted into m_write.
SslWrite == <<"request">>

\* read() before SSL_is_init_finished: the bytes go to m_read and
\* SSL_connect returns rc, having produced the records out.
\*   WANT_READ: flush;
\*   1: verify the peer certificate; failure closes with UV_EPROTO; success
\*      sets m_ready and HttpClient::handshake() writes the request, which
\*      write() encrypts with SSL_write and flushes;
\*   anything else: return, leaving what it produced (an alert) in m_write.
ReadHandshake(rc, out) ==
  /\ phase = "handshaking" /\ reads < MaxReads
  /\ reads' = reads + 1
  /\ CASE rc = "want_read" ->
            /\ produced' = produced \o out
            /\ Flush(wbio \o out)
            /\ UNCHANGED <<phase, ready, request>>
       [] rc = "done" /\ ~Verify(PeerCertificate) ->
            /\ phase' = "closed"
            /\ produced' = produced \o out /\ wbio' = wbio \o out
            /\ UNCHANGED <<ready, request, sent>>
       [] rc = "done" ->
            /\ phase' = "finished"
            /\ ready' = TRUE /\ request' = TRUE
            /\ produced' = produced \o out \o SslWrite
            /\ Flush(wbio \o out \o SslWrite)
       [] OTHER ->
            /\ produced' = produced \o out /\ wbio' = wbio \o out
            /\ UNCHANGED <<phase, ready, request, sent>>
  /\ UNCHANGED <<ctx, pinned, cert, ssl, writable, delivered, alive>>

\* customSSL_read (SSL_read): a positive count while decrypted data is
\* available, then 0 (close_notify, the peer closed) or a negative error
\* (WANT_READ: the record is incomplete).
ReadResults == {0, -1}

\* read() after the handshake: SSL_read while it returns data, each chunk to
\* HttpClient::read; a final 0 closes with UV_EOF, a negative rc returns.
ReadData(data, rc) ==
  /\ phase = "finished" /\ reads < MaxReads
  /\ reads' = reads + 1
  /\ delivered' = (delivered \/ data)
  /\ phase' = IF rc = 0 THEN "closed" ELSE phase
  /\ UNCHANGED <<ctx, pinned, cert, ssl, ready, writable, wbio, produced,
                 sent, request, alive>>

\* The stream stops being writable (it is shutting down) or the peer
\* closes the connection; HttpContext closes it.
StreamBlocked ==
  /\ writable /\ phase # "closed"
  /\ writable' = FALSE
  /\ UNCHANGED <<ctx, pinned, cert, ssl, phase, ready, wbio, produced, sent,
                 request, delivered, reads, alive>>

PeerClose ==
  /\ phase # "closed"
  /\ phase' = "closed"
  /\ UNCHANGED <<ctx, pinned, cert, ssl, ready, writable, wbio, produced,
                 sent, request, delivered, reads, alive>>

\* customSSL_free (SSL_free): frees m_ssl and the BIOs SSL_set_bio gave it.
SslFree == "freed"

\* ~HttpsClient, once HttpContext has closed the connection: free m_ctx
\* when it exists and m_ssl when handshake() created it (the BIOs were
\* handed to m_ssl by SSL_set_bio and go with it).
Destroy ==
  /\ alive /\ phase = "closed"
  /\ alive' = FALSE
  /\ ctx' = FALSE
  /\ ssl' = IF ssl = "ok" THEN SslFree ELSE ssl
  /\ UNCHANGED <<pinned, cert, phase, ready, writable, wbio, produced, sent,
                 request, delivered, reads>>

\* tlsFingerprint() and tlsVersion(): the digest verify() computed and
\* SSL_get_version(m_ssl), both only once m_ready is set ("null" before).
TlsFingerprint == IF ready THEN cert ELSE "null"
\* customSSL_get_version (SSL_get_version): the negotiated protocol name.
SslGetVersion == "TLSv1.3"

TlsVersion == IF ready THEN SslGetVersion ELSE "null"

Next ==
  \/ Handshake
  \/ \E rc \in ConnectResults,
        out \in {<< >>, <<"handshake">>} : ReadHandshake(rc, out)
  \/ \E data \in BOOLEAN, rc \in ReadResults : ReadData(data, rc)
  \/ StreamBlocked \/ PeerClose \/ Destroy

Spec == Init /\ [][Next]_vars

-----------------------------------------------------------------------------
\* No HTTP request leaves and no response data reaches HttpClient unless
\* the server presented a certificate and, when a fingerprint is
\* configured, that certificate's digest matched it; tlsFingerprint() and
\* tlsVersion() report nothing before that.
AuthenticatedPeer ==
  (request \/ delivered \/ TlsFingerprint # "null" \/ TlsVersion # "null") =>
     cert # "none" /\ (pinned => cert = "pinned")

\* flush() loses no record: what OpenSSL produced is what went to the
\* stream followed by what m_write still holds, in the same order, also
\* when a flush found the stream not writable.
RecordsKept == sent \o wbio = produced
=============================================================================
