----------------------- MODULE MCSandboxCompliance -------------------------
(* Three vite.config.ts variants (compliant, bound to localhost, no server *)
(* host) and two package.json variants (dev script with and without       *)
(* --host).                                                                *)
EXTENDS SandboxCompliance

MCViteContents ==
    {[hostKey |-> TRUE, anyAddr |-> TRUE, envPort |-> TRUE],
     [hostKey |-> TRUE, anyAddr |-> FALSE, envPort |-> TRUE],
     [hostKey |-> FALSE, anyAddr |-> FALSE, envPort |-> FALSE]}

MCPkgContents ==
    {[dev |-> TRUE, hostFlag |-> TRUE], [dev |-> TRUE, hostFlag |-> FALSE]}

=============================================================================
