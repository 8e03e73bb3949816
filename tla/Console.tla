------------------------------- MODULE Console -------------------------------
(***************************************************************************)
(* Console (src/base/io/Console.cpp): a tty handle on stdin in raw mode,   *)
(* read one byte at a time; each byte is a command for the listener.  A   *)
(* read error or end of input closes the handle; the destructor resets    *)
(* the tty mode and closes the handle.  uv_close stops reading at once;   *)
(* the handle is released by the loop later.  Keys are model values.     *)
(***************************************************************************)
EXTENDS Naturals, Sequences

CONSTANTS
  Keys,     \* bytes the user may type
  MaxKeys   \* bound on the bytes typed

ASSUME MaxKeys \in Nat

VARIABLES
  tty,       \* m_tty: "null", "open" or "closing" (uv_close was called)
  reading,   \* uv_read_start is in effect: onRead may be called
  input,     \* bytes typed and not yet read
  typed,     \* how many bytes were typed
  commands,  \* the bytes passed to onConsoleCommand, in order
  alive,     \* the Console object has not been deleted
  badClose   \* uv_close was called on a null or already closing handle

vars == <<tty, reading, input, typed, commands, alive, badClose>>

\* custom_uv_guess_handle(0): what kind of handle stdin is.
GuessHandle == {"tty", "named_pipe", "file", "unknown"}

\* isSupported(): stdin is a tty or a named pipe.
IsSupported(type) == type \in {"tty", "named_pipe"}

\* custom_uv_tty_init(loop, m_tty, 0, 1), whose result is ignored: whether
\* the handle came out readable, which the constructor asks uv_is_readable.
TtyInit == BOOLEAN

\* custom_uv_tty_set_mode(RAW) and custom_uv_read_start(onAllocBuffer,
\* onRead): the handle reads from now on (their results are ignored).
ReadStart == TRUE

\* Console(listener): nothing when stdin is not supported; otherwise create
\* and init m_tty, and, if it is readable, raw mode and uv_read_start.
Init ==
  /\ \E type \in GuessHandle, readable \in TtyInit :
       /\ tty = IF IsSupported(type) THEN "open" ELSE "null"
       /\ reading = (IsSupported(type) /\ readable /\ ReadStart)
  /\ input = << >> /\ typed = 0 /\ commands = << >>
  /\ alive = TRUE /\ badClose = FALSE

\* uv_close(handle): stops reading; on a null or closing handle it is
\* undefined (libuv asserts in a debug build).
Close ==
  /\ badClose' = (badClose \/ tty # "open")
  /\ tty' = IF tty = "open" THEN "closing" ELSE tty
  /\ reading' = FALSE

\* The user types a byte.
Type(k) ==
  /\ typed < MaxKeys
  /\ typed' = typed + 1
  /\ input' = Append(input, k)
  /\ UNCHANGED <<tty, reading, commands, alive, badClose>>

\* onRead with nread = 1 (onAllocBuffer gives a 1-byte buffer): the
\* listener gets the byte.
OnReadByte ==
  /\ reading /\ input # << >>
  /\ commands' = Append(commands, Head(input))
  /\ input' = Tail(input)
  /\ UNCHANGED <<tty, reading, typed, alive, badClose>>

\* onRead with nread < 0 (end of input or an error): close the stream.
OnReadError ==
  /\ reading
  /\ Close
  /\ UNCHANGED <<input, typed, commands, alive>>

\* ~Console(): uv_tty_reset_mode, then uv_close(m_tty).
Destroy ==
  /\ alive
  /\ alive' = FALSE
  /\ Close
  /\ UNCHANGED <<input, typed, commands>>

Next ==
  \/ \E k \in Keys : Type(k)
  \/ OnReadByte \/ OnReadError \/ Destroy

Spec == Init /\ [][Next]_vars

-----------------------------------------------------------------------------
\* The handle is closed at most once, and never when it does not exist.
CloseOnce == ~badClose
=============================================================================
