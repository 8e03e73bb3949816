------------------------------- MODULE TlsGen -------------------------------
(***************************************************************************)
(* TlsGen::generate (src/base/net/tls/TlsGen.cpp) across process starts.  *)
(* On every start it returns if both the certificate and the key file can *)
(* be opened; otherwise it generates a key and a self-signed certificate  *)
(* and write() stores them: fopen("wb") truncates a file, the PEM writer  *)
(* fills it, fclose.  Any failure throws, which ends the start; the       *)
(* process may also be killed between any two steps.                      *)
(*                                                                         *)
(* A file's content is abstracted to [gen, full]: the start whose key it  *)
(* holds (0: a pair the user supplied) and whether it was fully written. *)
(***************************************************************************)
EXTENDS Naturals, Sequences

CONSTANT MaxStarts   \* bound on the process starts

ASSUME MaxStarts \in Nat

VARIABLES
  disk,    \* disk["key"], disk["cert"]: a file, or NoFile
  pc,      \* where the current start is in generate(), "down" between starts
  target,  \* the file write() works on: an index into Targets
  starts   \* process starts so far; the key a start generates is its number

vars == <<disk, pc, target, starts>>

NoFile == [gen |-> 0, full |-> FALSE, exists |-> FALSE]
File(g, f) == [gen |-> g, full |-> f, exists |-> TRUE]

\* write(): the key file (m_certKey) first, then the certificate (m_cert).
Targets == <<"key", "cert">>

\* Before the first start the user supplied either file, or neither.
Init ==
  /\ disk \in [{"key", "cert"} -> {NoFile, File(0, TRUE)}]
  /\ pc = "down" /\ target = 1 /\ starts = 0

\* A start calls generate(): return if isFileExist(m_cert) and
\* isFileExist(m_certKey) (any file that can be opened, full or not).
Start ==
  /\ pc = "down" /\ starts < MaxStarts
  /\ starts' = starts + 1
  /\ pc' = IF disk["key"].exists /\ disk["cert"].exists THEN "done" ELSE "keygen"
  /\ target' = 1
  /\ UNCHANGED disk

\* custom_generate_pkey and generate_x509; either may fail and throw.
Generate(ok) ==
  /\ pc = "keygen"
  /\ pc' = IF ok THEN "open" ELSE "down"
  /\ UNCHANGED <<disk, target, starts>>

\* fopen(file, "wb"): fails (throw) or truncates the file.
OpenFile(ok) ==
  /\ pc = "open"
  /\ pc' = IF ok THEN "write" ELSE "down"
  /\ disk' = IF ok THEN [disk EXCEPT ![Targets[target]] = File(starts, FALSE)] ELSE disk
  /\ UNCHANGED <<target, starts>>

\* PEM_write_PrivateKey / PEM_write_X509 and fclose; a false result
\* throws, leaving what was written.  After the key comes the certificate.
WriteFile(ok) ==
  /\ pc = "write"
  /\ disk' = IF ok THEN [disk EXCEPT ![Targets[target]] = File(starts, TRUE)] ELSE disk
  /\ pc' = CASE ~ok -> "down"
             [] target < Len(Targets) -> "open"
             [] OTHER -> "done"
  /\ target' = IF ok /\ target < Len(Targets) THEN target + 1 ELSE target
  /\ UNCHANGED starts

\* The process ends after generate() (normally or by a crash), or is
\* killed inside it.
Stop ==
  /\ pc # "down"
  /\ pc' = "down"
  /\ UNCHANGED <<disk, target, starts>>

Next ==
  \/ Start \/ Stop
  \/ \E ok \in BOOLEAN : Generate(ok) \/ OpenFile(ok) \/ WriteFile(ok)

Spec == Init /\ [][Next]_vars

-----------------------------------------------------------------------------
\* Whenever generate() returns normally, the files on disk are a complete
\* key and the certificate made for it, so the TLS context can load them.
PairUsable ==
  pc = "done" =>
    /\ disk["key"].full /\ disk["cert"].full
    /\ disk["key"].gen = disk["cert"].gen
=============================================================================
