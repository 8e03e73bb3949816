------------------------------ MODULE ServerTls ------------------------------
(***************************************************************************)
(* The server side of a TLS connection (src/base/net/tls/ServerTls.cpp):   *)
(* the SSL object is created on the first read, bytes from the client go   *)
(* to m_read, records OpenSSL produces collect in m_write and write(m_write)*)
(* sends them; after the handshake, decrypted data goes to parse(), whose  *)
(* replies come back through send().  What SSL_do_handshake returns is a   *)
(* nondeterministic choice; a record is abstracted to "handshake" or      *)
(* "reply".  write(), parse() and shutdown() belong to the connection     *)
(* classes, which are not in the repository: write sends the whole BIO,   *)
(* shutdown ends the connection, and parse may answer with send().        *)
(***************************************************************************)
EXTENDS Naturals, Sequences

CONSTANT MaxReads   \* bound on the read callbacks of one connection

ASSUME MaxReads \in Nat

VARIABLES
  ssl,       \* m_ssl was created
  phase,     \* "handshaking", "ready" (SSL_is_init_finished) or "shut"
  ready,     \* m_ready
  wbio,      \* records in m_write
  sent,      \* records sent on the connection, in order
  parsed,    \* decrypted client data was passed to parse()
  reads      \* read callbacks so far

vars == <<ssl, phase, ready, wbio, sent, parsed, reads>>

\* ServerTls(ctx): nothing but the context.
Init ==
  /\ ssl = FALSE /\ phase = "handshaking" /\ ready = FALSE
  /\ wbio = << >> /\ sent = << >> /\ parsed = FALSE /\ reads = 0

\* write(m_write): the whole BIO goes out.
WriteBio(w) == sent' = sent \o w /\ wbio' = << >>

\* read(): the loop of SSL_read; each chunk goes to parse(), which may
\* answer with send(): SSL_write then write(m_write).
ReadPlain(data, reply) ==
  /\ parsed' = (parsed \/ data)
  /\ IF data /\ reply THEN WriteBio(<<"reply">>) ELSE UNCHANGED <<wbio, sent>>

\* Mutant: on completion the plaintext is read (and answered) before the
\* last handshake records are written.
HandshakeDoneReplyFirst(out, data, reply) ==
  /\ phase' = "ready" /\ ready' = TRUE
  /\ parsed' = (parsed \/ data)
  /\ sent' = sent \o (IF data /\ reply THEN <<"reply">> ELSE << >>) \o wbio \o out
  /\ wbio' = << >>

\* SSL_do_handshake returned 1: write(m_write), m_ready = true, read().
HandshakeDone(out, data, reply) ==
  /\ phase' = "ready" /\ ready' = TRUE
  /\ parsed' = (parsed \/ data)
  /\ sent' = sent \o wbio \o out \o (IF data /\ reply THEN <<"reply">> ELSE << >>)
  /\ wbio' = << >>

\* read(data, size): create the SSL object on first use (accept state,
\* memory BIOs); then, before SSL_is_init_finished, SSL_do_handshake
\* returns rc having produced the records out:
\*   WANT_READ: write(m_write);  1: see HandshakeDone;  else: shutdown().
ReadHandshake(rc, out, data, reply) ==
  /\ phase = "handshaking" /\ reads < MaxReads
  /\ reads' = reads + 1
  /\ ssl' = TRUE
  /\ CASE rc = "want_read" ->
            WriteBio(wbio \o out) /\ UNCHANGED <<phase, ready, parsed>>
       [] rc = "done" ->
            HandshakeDone(out, data, reply)
       [] OTHER ->
            /\ phase' = "shut"
            /\ wbio' = wbio \o out
            /\ UNCHANGED <<ready, sent, parsed>>

\* read(data, size) once the handshake is finished: read().
ReadData(data, reply) ==
  /\ phase = "ready" /\ reads < MaxReads
  /\ reads' = reads + 1
  /\ ReadPlain(data, reply)
  /\ UNCHANGED <<ssl, phase, ready>>

Next ==
  \/ \E rc \in {"want_read", "done", "zero", "error"},
        out \in {<< >>, <<"handshake">>}, data, reply \in BOOLEAN :
          ReadHandshake(rc, out, data, reply)
  \/ \E data, reply \in BOOLEAN : ReadData(data, reply)

Spec == Init /\ [][Next]_vars

\* The first bytes of a connection, one string per byte: a TLS ClientHello
\* record (0x16, version 0x03 0x01), an HTTP GET and a request of another
\* method.  A read callback may deliver any non-empty prefix of them.
ClientHello == <<"16", "03", "01", "00">>
GetRequest == <<"G", "E", "T", " ", "/", "a">>
OtherRequest == <<"P", "U", "T", " ", "/">>
FirstBytes == {ClientHello, GetRequest, OtherRequest}

\* memcmp(data, test, std::min(size, n)) == 0 for a non-empty data.
PrefixMatches(data, test, n) ==
  LET k == IF Len(data) < n THEN Len(data) ELSE n
  IN Len(data) > 0 /\ SubSeq(data, 1, k) = SubSeq(test, 1, k)

\* Mutant: the comparison length is sizeof(test), the string's NUL included.
IsHTTPWithNul(data) ==
  PrefixMatches(data, <<"G", "E", "T", " ", "/", "NUL">>, 6)

\* isHTTP(data, size): test is "GET /" and sizeof(test) - 1 = 5 bytes are
\* compared, fewer when less arrived.
IsHTTP(data) == PrefixMatches(data, <<"G", "E", "T", " ", "/">>, 5)

\* isTLS(data, size): test is the three bytes 0x16 0x03 0x01, no NUL.
IsTLS(data) == PrefixMatches(data, <<"16", "03", "01">>, 3)

-----------------------------------------------------------------------------
\* The client receives every handshake record the server produced before
\* any reply to its data: at completion, the final handshake flight is
\* written before the buffered plaintext is read and answered.
HandshakeBeforeReplies ==
  \A i, j \in 1 .. Len(sent) :
    i < j /\ sent[i] = "reply" => sent[j] = "reply"

=============================================================================
