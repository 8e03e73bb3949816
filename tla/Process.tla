------------------------------ MODULE Process ------------------------------
(***************************************************************************)
(* The process: main() (src/xmrig.cpp) starts a side thread, asks Entry   *)
(* (src/base/kernel/Entry.cpp) whether the arguments name a one-shot      *)
(* command and runs it, or else runs the App, whose event loop owns the   *)
(* Console until the App closes.  App is not in the repository: as in     *)
(* xmrig, it creates the Console when it starts and deletes it in close() *)
(* (on a signal or a quit command), after which exec() returns.  The      *)
(* build's optional features (hwloc, OpenCL) are chosen once per run; the *)
(* command line is a set of flags from Args.                              *)
(***************************************************************************)
EXTENDS Naturals, Sequences

CONSTANTS
  Args,      \* the command lines to consider, each a set of flags
  Keys, MaxKeys

VARIABLES
  hwloc, opencl,  \* XMRIG_FEATURE_HWLOC, XMRIG_FEATURE_OPENCL of the build
  args,      \* process.arguments()
  pc,        \* main(): "start", "app" (app.exec() running), "joining"
             \* (pca_thread.join()) or "exited"
  thread,    \* pca_thread is joinable
  status,    \* how the process ended: "none", an exit code, or "abort"
  tty, reading, input, typed, commands, alive, badClose  \* the Console

consoleVars == <<tty, reading, input, typed, commands, alive, badClose>>
vars == <<hwloc, opencl, args, pc, thread, status, consoleVars>>

C == INSTANCE Console

\* Entry::get(process): the first flag test that matches, in order.
Get(a) ==
  CASE "-h" \in a \/ "--help" \in a                           -> "Usage"
    [] "-V" \in a \/ "--version" \in a \/ "--versions" \in a  -> "Version"
    [] hwloc /\ "--export-topology" \in a                     -> "Topo"
    [] opencl /\ "--print-platforms" \in a                    -> "Platforms"
    [] OTHER                                                  -> "Default"

\* showVersion(): prints the version, compiler, features and library
\* versions (hwloc's through an HwlocWrapper that loads the topology), and
\* returns 0.
ShowVersion == 0

\* exportTopology(): an HwlocWrapper loads the topology and exports it to
\* topology.xml beside the executable; it prints whether that worked and
\* returns 0 either way.
ExportTopology == 0

\* Entry::exec(process, id): usage and the platform listing print and
\* return 0, showVersion() and exportTopology() return what they return;
\* an id the build does not handle returns 1.
Exec(id) ==
  CASE id \in {"Usage", "Platforms"} -> 0
    [] id = "Version"                -> ShowVersion
    [] id = "Topo"                   -> ExportTopology
    [] OTHER                         -> 1

\* The Console the App will create is chosen up front (Console::Console's
\* outcome); it is inert until the App runs.
Init ==
  /\ hwloc \in BOOLEAN /\ opencl \in BOOLEAN
  /\ args \in Args
  /\ pc = "start" /\ thread = FALSE /\ status = "none"
  /\ C!Init

\* main(): Process, prctl, std::thread pca_thread, Entry::get.  With an
\* entry, return Entry::exec(...): leaving main destroys pca_thread while
\* it is still joinable, and std::thread's destructor calls std::terminate.
\* Without one, construct the App and run app.exec().
Start ==
  /\ pc = "start"
  /\ thread' = TRUE
  /\ LET id == Get(args)
     IN IF id # "Default"
        THEN /\ pc' = "exited"
             /\ status' = IF thread' THEN "abort" ELSE Exec(id)
        ELSE /\ pc' = "app" /\ UNCHANGED status
  /\ UNCHANGED <<hwloc, opencl, args, consoleVars>>

\* The user types, or the App's loop ends the Console's reading.
ConsoleStep ==
  /\ pc = "app"
  /\ \/ \E k \in Keys : C!Type(k)
     \/ C!OnReadError
  /\ UNCHANGED <<hwloc, opencl, args, pc, thread, status>>

\* The App's loop runs onRead for a byte waiting on stdin.
ReadByte ==
  /\ pc = "app"
  /\ C!OnReadByte
  /\ UNCHANGED <<hwloc, opencl, args, pc, thread, status>>

\* App::close() deletes the Console; the loop ends and app.exec() returns.
\* main() then joins pca_thread, whose loop never ends.
AppClose ==
  /\ pc = "app"
  /\ C!Destroy
  /\ pc' = "joining"
  /\ UNCHANGED <<hwloc, opencl, args, thread, status>>

Next == Start \/ ConsoleStep \/ ReadByte \/ AppClose

Spec == Init /\ [][Next]_vars

-----------------------------------------------------------------------------
\* main() ends a one-shot command (usage, version, topology export,
\* platform listing) with the exit code Entry::exec returns, as its
\* `return Entry::exec(process, entry)` says, and never aborts.
EntryExitCode ==
  pc = "exited" => status \notin {"none", "abort"} /\ status = Exec(Get(args))
=============================================================================
