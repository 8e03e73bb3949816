\* Command lines with no flag, an unrelated flag, and each one-shot flag
\* form that differs between builds; two keys typed up to twice in the
\* App's Console.
CONSTANTS
  Args = {{}, {"-c"}, {"-h"}, {"--versions"}, {"--export-topology"},
          {"--print-platforms"}}
  Keys = {k1, k2}
  MaxKeys = 2
SPECIFICATION Spec
INVARIANTS
  EntryExitCode
\* An entry command ends the process, and after app.exec() returns main()
\* waits in pca_thread.join() for good: both are final states.
CHECK_DEADLOCK FALSE
