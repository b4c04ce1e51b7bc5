--------------------- MODULE SandboxComplianceProofs ------------------------
(***************************************************************************)
(* Proofs about ensureCompliance, for every set of file contents and every *)
(* bound on the inference's writes.                                        *)
(*                                                                         *)
(* QuickPathSound is not inductive by itself: a step of Check that takes   *)
(* the early return must know that the read loop has looked at both       *)
(* required files and filed each as checked or missing. CInv records      *)
(* that, that a started inference is what makes a result non-quick, and  *)
(* that the quick issues were empty when the early return was taken.      *)
(***************************************************************************)
EXTENDS SandboxCompliance, TLAPS

\* The paths the read loop has filed so far.
ReadSoFar == {RequiredFiles[i] : i \in 1..(next - 1)}

CInv ==
    /\ TypeOK
    /\ checked \cup missing = ReadSoFar
    /\ pc # "read" => next = Len(RequiredFiles) + 1
    /\ pc = "read" => result = Pending
    /\ (pc = "race" \/ inflight) => started
    /\ (pc = "done" /\ result.compliant /\ ~started)
           => QuickPasses(QuickComplianceCheck(deploy), missing)

-----------------------------------------------------------------------------
(* An empty quick check means vite.config.ts is present and binds         *)
(* 0.0.0.0 on process.env.PORT (quickComplianceCheck, lines 313-356).     *)
LEMMA QuickEmptyBinds ==
    ASSUME NEW d \in Stores, QuickComplianceCheck(d) = {}
    PROVE  ViteBinds(d[Vite])
<1> DEFINE v == d[Vite]
<1>1. v \in ViteContents \cup {Absent}
  BY DEF Stores, Contents, Required, Vite
<1>2. v # Absent
  <2>1. Issue(Vite, "missing") \notin QuickComplianceCheck(d)
    OBVIOUS
  <2>. QED
    BY <2>1 DEF QuickComplianceCheck, Issue, Issues
<1>3. v \in [hostKey : BOOLEAN, anyAddr : BOOLEAN, envPort : BOOLEAN]
  BY <1>1, <1>2, ContentsAssumption
<1>4. v.hostKey /\ v.anyAddr
  <2>1. Issue(Vite, "host") \notin QuickComplianceCheck(d)
    OBVIOUS
  <2>. QED
    BY <1>2, <2>1 DEF QuickComplianceCheck, Issue, Issues
<1>5. v.envPort
  <2>1. Issue(Vite, "port") \notin QuickComplianceCheck(d)
    OBVIOUS
  <2>. QED
    BY <1>2, <2>1 DEF QuickComplianceCheck, Issue, Issues
<1>. QED
  BY <1>2, <1>4, <1>5 DEF ViteBinds

-----------------------------------------------------------------------------
LEMMA CInvInit == Init => CInv
<1> SUFFICES ASSUME Init PROVE CInv
  OBVIOUS
<1>1. TypeOK
  <2>1. next \in 1..(Len(RequiredFiles) + 1) /\ writes \in 0..MaxWrites
    BY MaxWritesAssumption DEF Init, RequiredFiles
  <2>2. result.issues = {} /\ result.fixed = {}
    BY DEF Init, Pending
  <2>. QED
    BY <2>1, <2>2, Zenon DEF Init, TypeOK
<1>2. checked \cup missing = ReadSoFar
  BY DEF Init, ReadSoFar
<1>. QED
  BY <1>1, <1>2 DEF Init, CInv

(* The read loop's prefix of requiredFiles, position by position. *)
LEMMA ReadSoFarValues ==
    /\ next = 1 => ReadSoFar = {}
    /\ next = 2 => ReadSoFar = {Vite}
    /\ next = 3 => ReadSoFar = Required
BY DEF ReadSoFar, RequiredFiles, Required

LEMMA ReadSoFarNext ==
    ASSUME next \in 1..Len(RequiredFiles), next' = next + 1
    PROVE  ReadSoFar' = ReadSoFar \cup {RequiredFiles[next]}
<1>1. next \in {1, 2}
  BY DEF RequiredFiles
<1>. QED
  BY <1>1 DEF ReadSoFar, RequiredFiles

(* The quick issues and the files reported fixed have the result's types. *)
LEMMA QuickTyped ==
    ASSUME NEW d \in Stores
    PROVE  QuickComplianceCheck(d) \subseteq Issues
BY DEF QuickComplianceCheck

LEMMA FixedTyped ==
    ASSUME NEW a \in Stores
    PROVE  FixedFiles(a) \subseteq Required \X (ViteContents \cup PkgContents)
<1> SUFFICES ASSUME NEW f \in Required, a[f] # Absent
             PROVE  <<f, a[f]>> \in Required \X (ViteContents \cup PkgContents)
  BY DEF FixedFiles
<1>1. a[f] \in Contents(f) \cup {Absent}
  BY DEF Stores
<1>. QED
  BY <1>1 DEF Contents

-----------------------------------------------------------------------------
LEMMA CInvStep == CInv /\ [Next]_vars => CInv'
<1> SUFFICES ASSUME CInv, [Next]_vars PROVE CInv'
  OBVIOUS
<1>. USE DEF CInv
<1>1. CASE ReadRequired
  <2> DEFINE f == RequiredFiles[next]
  <2>1. next \in 1..Len(RequiredFiles) /\ f \in Required
    BY <1>1 DEF ReadRequired, TypeOK, RequiredFiles, Required
  <2>2. \/ checked' = checked \cup {f} /\ missing' = missing
        \/ missing' = missing \cup {f} /\ checked' = checked
    BY <1>1, Zenon DEF ReadRequired
  <2>3. checked' \cup missing' = ReadSoFar'
    <3>1. ReadSoFar' = ReadSoFar \cup {f}
      BY <1>1, <2>1, ReadSoFarNext DEF ReadRequired
    <3>. QED
      BY <2>2, <3>1
  <2>4. TypeOK'
    BY <1>1, <2>1, <2>2 DEF ReadRequired, TypeOK, RequiredFiles
  <2>. QED
    BY <1>1, <2>3, <2>4 DEF ReadRequired
<1>2. CASE Check
  <2>1. CASE QuickPasses(QuickComplianceCheck(deploy), missing)
    <3>1. result' = Result(TRUE, {}, {}) /\ pc' = "done"
      BY <1>2, <2>1 DEF Check, Return
    <3>2. TypeOK'
      BY <1>2, <3>1 DEF Check, TypeOK, Result
    <3>3. UNCHANGED <<deploy, next, checked, missing, inflight, started>>
      BY <1>2, <2>1 DEF Check
    <3>4. next = Len(RequiredFiles) + 1
      BY <1>2 DEF Check, TypeOK
    <3>5. ReadSoFar' = ReadSoFar
      BY <3>3 DEF ReadSoFar
    <3>. QED
      BY <2>1, <3>1, <3>2, <3>3, <3>4, <3>5
  <2>4. CASE ~QuickPasses(QuickComplianceCheck(deploy), missing)
    BY <1>2, <2>4 DEF Check, TypeOK, ReadSoFar
  <2>. QED
    BY <2>1, <2>4
<1>3. CASE ToolWrite
  <2>1. agentFiles' \in Stores
    BY <1>3 DEF ToolWrite, TypeOK, Stores, Contents
  <2>2. writes' \in 0..MaxWrites
    BY <1>3, MaxWritesAssumption DEF ToolWrite, TypeOK
  <2>3. UNCHANGED <<deploy, sandboxFiles, hasInstance, pc, next, checked, missing,
                    inflight, started, result>>
    BY <1>3 DEF ToolWrite
  <2>4. TypeOK'
    BY <2>1, <2>2, <2>3 DEF TypeOK
  <2>. QED
    BY <2>3, <2>4 DEF ReadSoFar
<1>4. CASE InferenceSettles
  <2> DEFINE q == QuickComplianceCheck(deploy)
  <2>1. q \subseteq Issues /\ FixedFiles(agentFiles) \subseteq
            Required \X (ViteContents \cup PkgContents)
    BY QuickTyped, FixedTyped DEF TypeOK
  <2>2. CASE pc = "race"
    <3>3. /\ pc' = "done"
          /\ \/ result' = Result(TRUE, q, FixedFiles(agentFiles))
             \/ result' = Result(FALSE, q, {})
             \/ result' = Result(FALSE, IF q # {} THEN q
                                        ELSE {Issue("unknown", "checkError")},
                                 {})
      BY <1>4, <2>2 DEF InferenceSettles, Return
    <3>4. result'.issues \subseteq Issues
      BY <2>1, <3>3 DEF Result, Issues, Issue
    <3>5. result'.fixed \subseteq Required \X (ViteContents \cup PkgContents)
      BY <2>1, <3>3 DEF Result
    <3>6. TypeOK'
      <4>1. /\ UNCHANGED <<deploy, agentFiles, sandboxFiles, hasInstance, next,
                          checked, missing, started, writes>>
            /\ inflight' = FALSE
        BY <1>4 DEF InferenceSettles
      <4>. QED
        BY <3>3, <3>4, <3>5, <4>1 DEF TypeOK
    <3>. QED
      BY <1>4, <3>3, <3>6 DEF InferenceSettles, ReadSoFar
  <2>7. CASE pc # "race"
    BY <1>4, <2>7 DEF InferenceSettles, TypeOK, ReadSoFar
  <2>. QED
    BY <2>2, <2>7
<1>5. CASE Timeout
  <2>1. result' = Result(FALSE, QuickComplianceCheck(deploy), {})
    BY <1>5 DEF Timeout, Return
  <2>2. TypeOK'
    BY <1>5, <2>1, QuickTyped DEF Timeout, Return, TypeOK, Result
  <2>. QED
    BY <1>5, <2>1, <2>2 DEF Timeout, Return, Result, ReadSoFar
<1>6. CASE UNCHANGED vars
  BY <1>6 DEF vars, TypeOK, ReadSoFar
<1>. QED
  BY <1>1, <1>2, <1>3, <1>4, <1>5, <1>6 DEF Next

-----------------------------------------------------------------------------
(* Every reachable state of ensureCompliance is well typed: the files are *)
(* stores of the required files, and the result carries known issues and  *)
(* fixed files whose contents a tool could have written.                  *)
THEOREM ComplianceTypeCorrect == Spec => []TypeOK
<1>1. CInv => TypeOK
  BY DEF CInv
<1>. QED
  BY <1>1, CInvInit, CInvStep, PTL DEF Spec

(* When ensureCompliance reports compliance without asking the model, the *)
(* deployed vite.config.ts binds 0.0.0.0 on process.env.PORT and both      *)
(* required files were found, whatever reads failed on the way (the read  *)
(* loop of lines 155-188 and the early return of line 200).               *)
THEOREM QuickPathSoundThm == Spec => []QuickPathSound
<1>1. CInv => QuickPathSound
  <2> SUFFICES ASSUME CInv, pc = "done", result.compliant, ~started
               PROVE  ViteBinds(deploy[Vite]) /\ checked = Required
    BY DEF QuickPathSound
  <2>1. QuickComplianceCheck(deploy) = {} /\ missing = {}
    BY DEF CInv, QuickPasses
  <2>2. ViteBinds(deploy[Vite])
    BY <2>1, QuickEmptyBinds DEF CInv, TypeOK
  <2>3. checked \cup missing = Required
    BY ReadSoFarValues DEF CInv, RequiredFiles
  <2>. QED
    BY <2>1, <2>2, <2>3
<1>. QED
  BY <1>1, CInvInit, CInvStep, PTL DEF Spec

=============================================================================
