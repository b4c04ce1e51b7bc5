------------------------- MODULE SandboxCompliance -------------------------
(***************************************************************************)
(* SandboxComplianceService.ensureCompliance                               *)
(* (src/worker/services/sandbox/sandboxCompliance.ts): before a deploy,   *)
(* the two required files are looked up in the files to deploy, then in   *)
(* the agent's file manager, then in the sandbox; a deterministic check   *)
(* of the files to deploy either passes at once or an inference with      *)
(* file-writing tools is raced against a 30 s timer.                       *)
(*                                                                         *)
(* Two actors: the call of ensureCompliance, and the inference it starts, *)
(* which writes files through its tools until it settles. Nothing cancels *)
(* the inference when the timer wins the race.                             *)
(*                                                                         *)
(* A file's content is abstracted to the substrings the check looks for:  *)
(* for vite.config.ts 'host:', '"0.0.0.0"' and 'process.env.PORT'; for     *)
(* package.json '"dev"' and '--host'.                                      *)
(***************************************************************************)
EXTENDS Naturals, Sequences, FiniteSets

CONSTANTS
    ViteContents,  \* contents vite.config.ts may have
    PkgContents,   \* contents package.json may have
    MaxWrites,     \* bound: tool writes of one inference
    Absent         \* no such file

Vite == "vite.config.ts"
Pkg == "package.json"
\* requiredFiles, in the order of the read loop.
RequiredFiles == <<Vite, Pkg>>
Required == {Vite, Pkg}

Contents(f) == IF f = Vite THEN ViteContents ELSE PkgContents

ASSUME ContentsAssumption ==
    /\ ViteContents \subseteq [hostKey : BOOLEAN, anyAddr : BOOLEAN,
                               envPort : BOOLEAN]
    /\ PkgContents \subseteq [dev : BOOLEAN, hostFlag : BOOLEAN]
    /\ Absent \notin ViteContents \cup PkgContents
ASSUME MaxWritesAssumption == MaxWrites \in Nat

\* A file store: each required file's content, or Absent.
Stores == {s \in [Required -> ViteContents \cup PkgContents \cup {Absent}] :
             \A f \in Required : s[f] \in Contents(f) \cup {Absent}}

VARIABLES
    deploy,       \* filesToDeploy (by path)
    agentFiles,   \* the agent's file manager
    sandboxFiles, \* the sandbox instance's files
    hasInstance,  \* instanceId is not null
    pc,           \* "read", "race" or "done"
    next,         \* the read loop's position in RequiredFiles
    checked,      \* paths pushed to filesToCheck
    missing,      \* missingFiles
    inflight,     \* the inference started by the call has not settled
    started,      \* an inference was started (history)
    writes,       \* tool writes made by the inference
    result        \* the ComplianceCheckResult returned

vars == <<deploy, agentFiles, sandboxFiles, hasInstance, pc, next, checked,
          missing, inflight, started, writes, result>>

\* ComplianceIssue, by the file it names and what it says.
Issue(f, k) == [file |-> f, kind |-> k]
Issues == {Issue(Vite, "host"), Issue(Vite, "port"), Issue(Vite, "missing"),
           Issue(Pkg, "devHost"), Issue("unknown", "checkError")}

Pending == [compliant |-> FALSE, issues |-> {}, fixed |-> {}, returned |-> FALSE]
Result(c, is, fx) == [compliant |-> c, issues |-> is, fixed |-> fx,
                      returned |-> TRUE]

-----------------------------------------------------------------------------
(* Faulty variants of the definitions below.                               *)
QuickComplianceCheckDevOnVite(d) ==          \* dev issue filed on vite
    LET v == d[Vite]
        p == d[Pkg]
    IN {i \in {Issue(Vite, "host"), Issue(Vite, "port"), Issue(Vite, "missing"),
               Issue(Vite, "devHost")} :
          CASE i.kind = "host" -> v # Absent /\ ~(v.hostKey /\ v.anyAddr)
            [] i.kind = "port" -> v # Absent /\ ~v.envPort
            [] i.kind = "missing" -> v = Absent
            [] OTHER -> /\ p # Absent /\ p.dev /\ ~p.hostFlag
                        /\ ~(v # Absent /\ v.hostKey)}
QuickPassesIgnoringMissing(q, m) == q = {}   \* missingFiles not consulted
TimeoutNever == FALSE                        \* the timer is never armed

-----------------------------------------------------------------------------
(* quickComplianceCheck on the files to deploy (lines 313-356).            *)
QuickComplianceCheck(d) ==
    LET v == d[Vite]
        p == d[Pkg]
    IN {i \in Issues \ {Issue("unknown", "checkError")} :
          CASE i.kind = "host" -> v # Absent /\ ~(v.hostKey /\ v.anyAddr)
            [] i.kind = "port" -> v # Absent /\ ~v.envPort
            [] i.kind = "missing" -> v = Absent
            [] OTHER -> /\ p # Absent /\ p.dev /\ ~p.hostFlag
                        /\ ~(v # Absent /\ v.hostKey)}

\* The early return of line 200.
QuickPasses(q, m) == q = {} /\ m = {}

\* agent.listFiles() filtered to vite.config.ts and package.json.
FixedFiles(a) == {<<f, a[f]>> : f \in {g \in Required : a[g] # Absent}}

Return(r) ==
    /\ pc' = "done"
    /\ result' = r

-----------------------------------------------------------------------------
Init ==
    /\ deploy \in Stores
    /\ agentFiles \in Stores
    /\ sandboxFiles \in Stores
    /\ hasInstance \in BOOLEAN
    /\ pc = "read"
    /\ next = 1
    /\ checked = {}
    /\ missing = {}
    /\ inflight = FALSE
    /\ started = FALSE
    /\ writes = 0
    /\ result = Pending

(* One iteration of the loop over requiredFiles (lines 155-188): a file   *)
(* to deploy is taken as it is; otherwise agent.readFiles is awaited and, *)
(* if it finds nothing and there is an instance, sandbox getFiles. A      *)
(* thrown read, a failed response and an empty answer all make the file   *)
(* missing.                                                                *)
ReadRequired ==
    /\ pc = "read"
    /\ next <= Len(RequiredFiles)
    /\ LET f == RequiredFiles[next]
           Found == checked' = checked \cup {f} /\ UNCHANGED missing
           Missing == missing' = missing \cup {f} /\ UNCHANGED checked
       IN IF deploy[f] # Absent THEN Found
          ELSE \/ Missing                                  \* readFiles throws
               \/ agentFiles[f] # Absent /\ Found
               \/ /\ agentFiles[f] = Absent
                  /\ IF hasInstance
                     THEN \/ sandboxFiles[f] # Absent /\ Found
                          \/ Missing                  \* getFiles fails or throws
                     ELSE Missing
    /\ next' = next + 1
    /\ UNCHANGED <<deploy, agentFiles, sandboxFiles, hasInstance, pc, inflight,
                   started, writes, result>>

(* After the loops: the quick check, then either the early return or the  *)
(* inference with the read, regenerate and generate tools, raced against  *)
(* the timer (lines 190-261).                                              *)
Check ==
    /\ pc = "read"
    /\ next > Len(RequiredFiles)
    /\ IF QuickPasses(QuickComplianceCheck(deploy), missing)
       THEN /\ Return(Result(TRUE, {}, {}))
            /\ UNCHANGED <<inflight, started>>
       ELSE /\ pc' = "race"
            /\ inflight' = TRUE
            /\ started' = TRUE
            /\ UNCHANGED result
    /\ UNCHANGED <<deploy, agentFiles, sandboxFiles, hasInstance, next, checked,
                   missing, writes>>

(* The inference calls regenerate_file or generate_files: the agent's    *)
(* copy of a file is replaced by whatever the model wrote. It runs until  *)
(* the inference settles, whether or not the race is still pending.       *)
ToolWrite ==
    /\ inflight
    /\ writes < MaxWrites
    /\ \E f \in Required, c \in ViteContents \cup PkgContents :
          /\ c \in Contents(f)
          /\ agentFiles' = [agentFiles EXCEPT ![f] = c]
    /\ writes' = writes + 1
    /\ UNCHANGED <<deploy, sandboxFiles, hasInstance, pc, next, checked, missing,
                   inflight, started, result>>

(* The inference settles. If it wins the race, the timer is cleared; on   *)
(* success the fixed files are read from agent.listFiles and compliance    *)
(* is reported (lines 274-294); a rejection returns the quick issues      *)
(* (lines 262-273). A listFiles failure reaches the outer catch (lines     *)
(* 296-307). If the timer already won, the settlement is ignored.         *)
InferenceSettles ==
    LET q == QuickComplianceCheck(deploy) IN
    /\ inflight
    /\ inflight' = FALSE
    /\ IF pc = "race"
       THEN \/ Return(Result(TRUE, q, FixedFiles(agentFiles)))
            \/ Return(Result(FALSE, q, {}))
            \/ Return(Result(FALSE, IF q # {} THEN q
                                    ELSE {Issue("unknown", "checkError")}, {}))
       ELSE UNCHANGED <<pc, result>>
    /\ UNCHANGED <<deploy, agentFiles, sandboxFiles, hasInstance, next, checked,
                   missing, started, writes>>

(* The 30 s timer rejects the race first: the quick issues are returned  *)
(* and the inference is left running (lines 255-273).                      *)
Timeout ==
    /\ pc = "race"
    /\ Return(Result(FALSE, QuickComplianceCheck(deploy), {}))
    /\ UNCHANGED <<deploy, agentFiles, sandboxFiles, hasInstance, next, checked,
                   missing, inflight, started, writes>>

Next == ReadRequired \/ Check \/ ToolWrite \/ InferenceSettles \/ Timeout

\* The call's own steps and the timer are fair; the inference is not
\* assumed to settle (it may hang, which is what the timer is for).
Fairness == WF_vars(ReadRequired) /\ WF_vars(Check) /\ WF_vars(Timeout)

Spec == Init /\ [][Next]_vars /\ Fairness

-----------------------------------------------------------------------------
TypeOK ==
    /\ deploy \in Stores /\ agentFiles \in Stores /\ sandboxFiles \in Stores
    /\ hasInstance \in BOOLEAN
    /\ pc \in {"read", "race", "done"}
    /\ next \in 1..(Len(RequiredFiles) + 1)
    /\ checked \cup missing \subseteq Required
    /\ inflight \in BOOLEAN /\ started \in BOOLEAN
    /\ writes \in 0..MaxWrites
    /\ result.issues \subseteq Issues
    /\ result.fixed \subseteq Required \X (ViteContents \cup PkgContents)

\* vite.config.ts binds 0.0.0.0 on process.env.PORT.
ViteBinds(v) == v # Absent /\ v.hostKey /\ v.anyAddr /\ v.envPort

(* When ensureCompliance reports compliance without asking the model, the *)
(* deployed vite.config.ts binds 0.0.0.0 on process.env.PORT and both     *)
(* required files were found in the deploy, the agent or the sandbox,     *)
(* whichever reads failed along the way (the read loop and the early      *)
(* return).                                                                *)
QuickPathSound ==
    (pc = "done" /\ result.compliant /\ ~started)
        => /\ ViteBinds(deploy[Vite])
           /\ checked = Required

(* Once ensureCompliance has returned, the compliance check no longer     *)
(* changes the project's files: what the caller deploys is what the       *)
(* result described (the timeout race and the clearTimeout of lines        *)
(* 241-279).                                                               *)
NoLateWrites == [][pc = "done" => agentFiles' = agentFiles]_vars

(* Every call of ensureCompliance returns, also when the inference hangs *)
(* (the 30 s timer).                                                      *)
Terminates == <>(pc = "done")

=============================================================================
