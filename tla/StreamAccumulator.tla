-------------------------- MODULE StreamAccumulator --------------------------
(***************************************************************************)
(* The streaming tool-call accumulator of src/worker/agents/inferutils/    *)
(* core.ts (accumulateToolCallDelta, assembleToolCalls and the loop of     *)
(* infer() that feeds them): the tool-call deltas of one streamed          *)
(* response are folded, one at a time, into entries looked up by id and by *)
(* index, and assembled into the response's tool calls when the stream     *)
(* ends.                                                                    *)
(*                                                                         *)
(* The provider is modelled by the logical calls it means to make: each    *)
(* call has an id (the call itself), a stream index and argument chunks;   *)
(* a fragment of a call may or may not show the id and the index. A        *)
(* fragment's argument chunk is a sequence of JSON tokens, and the only    *)
(* complete JSON texts are "{}" and "{x}".                                 *)
(***************************************************************************)
EXTENDS Naturals, Sequences, FiniteSets

CONSTANTS
    Calls,         \* the calls the provider streams (also their ids)
    Indices,       \* stream indices the provider may give a call
    Names,         \* non-empty function names
    Chunks,        \* argument chunks a fragment may carry
    MaxFragments,  \* bound: fragments in one stream
    Modes,         \* stream shapes the provider may use (see Conformant)
    Absent         \* a field the delta does not carry

ASSUME IndicesAssumption == Indices \subseteq Nat
ASSUME MaxFragmentsAssumption == MaxFragments \in Nat
ASSUME ModesAssumption == Modes \subseteq {"indexed", "idOnly", "stableId"}
ASSUME AbsentAssumption ==
    Absent \notin Calls /\ Absent \notin Indices /\ Absent \notin Names

VARIABLES
    callIndex,  \* the stream index the provider gives each call
    stream,     \* the fragments of the response, in stream order
    pos,        \* fragments consumed so far
    acc,        \* [entries, byIndex, byId]: the accumulator's two maps
    toolCalls   \* the assembled tool calls, once the stream has ended

vars == <<callIndex, stream, pos, acc, toolCalls>>

NoName == ""
Fragment == [call : Calls, showId : BOOLEAN, showIndex : BOOLEAN,
             name : Names \cup {NoName}, args : Chunks]

\* The ToolCallDelta a fragment is on the wire.
Delta(f) ==
    [id    |-> IF f.showId THEN f.call ELSE Absent,
     index |-> IF f.showIndex THEN callIndex[f.call] ELSE Absent,
     name  |-> f.name,
     args  |-> f.args]

\* A synthetic id (synthIdForIndex): unique within the process; here it is
\* named by the order number of the entry it is created for.
SynthId(n) == [synth |-> n]

\* JSON.parse on the token strings of the model.
ParsesAsJson(s) == s \in {<<"{", "}">>, <<"{", "x", "}">>}

-----------------------------------------------------------------------------
(* Faulty variants of the definitions below.                               *)
AssembleToolCallsFirstSeen(a) ==                    \* ignores the indices
    SelectSeq([k \in DOMAIN a.entries |->
                  [id |-> a.entries[k].id, name |-> a.entries[k].name,
                   args |-> a.entries[k].args]],
              LAMBDA c : c.name # NoName)

-----------------------------------------------------------------------------
(* The argument update of accumulateToolCallDelta: a chunk is appended    *)
(* unless the arguments so far are non-empty and already parse as JSON.   *)
AppendArgs(before, chunk) ==
    IF Len(before) > 0 /\ ParsesAsJson(before) THEN before ELSE before \o chunk

\* The entry found for a delta: by id first, then by index; 0 if none.
Lookup(a, d) ==
    IF d.id # Absent /\ d.id \in DOMAIN a.byId THEN a.byId[d.id]
    ELSE IF d.index # Absent /\ d.index \in DOMAIN a.byIndex
         THEN a.byIndex[d.index]
    ELSE 0

\* A new entry, with the delta's id or a synthetic one, registered in byId
\* and (when the delta has an index) in byIndex. Its position in entries
\* is its __order.
Create(a, d) ==
    LET n == Len(a.entries) + 1
        id == IF d.id # Absent THEN d.id ELSE SynthId(n)
    IN [entries |-> Append(a.entries, [id |-> id, index |-> d.index,
                                       name |-> NoName, args |-> <<>>]),
        byIndex |-> IF d.index # Absent
                    THEN [k \in DOMAIN a.byIndex \cup {d.index} |->
                            IF k = d.index THEN n ELSE a.byIndex[k]]
                    ELSE a.byIndex,
        byId    |-> [k \in DOMAIN a.byId \cup {id} |->
                       IF k = id THEN n ELSE a.byId[k]]]

\* Re-key the entry under the delta's id when it carries a different one.
Rekey(a, e, d) ==
    IF d.id # Absent /\ a.entries[e].id # d.id
    THEN [a EXCEPT
            !.entries[e].id = d.id,
            !.byId = [k \in (DOMAIN a.byId \ {a.entries[e].id}) \cup {d.id} |->
                        IF k = d.id THEN e ELSE a.byId[k]]]
    ELSE a

\* Register the delta's index when the entry has none yet; byIndex is set
\* whether or not another entry holds that index.
RegisterIndex(a, e, d) ==
    IF d.index # Absent /\ a.entries[e].index = Absent
    THEN [a EXCEPT
            !.entries[e].index = d.index,
            !.byIndex = [k \in DOMAIN a.byIndex \cup {d.index} |->
                           IF k = d.index THEN e ELSE a.byIndex[k]]]
    ELSE a

\* A name replaces the current one; arguments go through AppendArgs.
UpdateFunction(a, e, d) ==
    [a EXCEPT
        !.entries[e].name = IF d.name # NoName THEN d.name ELSE @,
        !.entries[e].args = AppendArgs(@, d.args)]

AccumulateToolCallDelta(a, d) ==
    LET found == Lookup(a, d)
        a1 == IF found = 0 THEN Create(a, d) ELSE a
        e == IF found = 0 THEN Len(a1.entries) ELSE found
    IN UpdateFunction(RegisterIndex(Rekey(a1, e, d), e, d), e, d)

\* The elements of a finite set of numbers in increasing order, and the
\* keys of a function in increasing order of their values.
KeysByValue(f) ==
    [k \in 1..Cardinality(DOMAIN f) |->
        CHOOSE x \in DOMAIN f :
            Cardinality({y \in DOMAIN f : f[y] < f[x]}) = k - 1]

Identity(S) == [x \in S |-> x]

\* assembleToolCalls followed by the filter of unnamed calls: the entries
\* of byIndex in index order if any delta had an index, otherwise the
\* entries of byId in creation order.
AssembleToolCalls(a) ==
    LET order == IF DOMAIN a.byIndex # {}
                 THEN [k \in 1..Cardinality(DOMAIN a.byIndex) |->
                         a.byIndex[KeysByValue(Identity(DOMAIN a.byIndex))[k]]]
                 ELSE [k \in 1..Cardinality(DOMAIN a.byId) |->
                         a.byId[KeysByValue(a.byId)[k]]]
        all == [k \in DOMAIN order |->
                  [id |-> a.entries[order[k]].id,
                   name |-> a.entries[order[k]].name,
                   args |-> a.entries[order[k]].args]]
    IN SelectSeq(all, LAMBDA c : c.name # NoName)

-----------------------------------------------------------------------------
(* The stream shapes. "indexed": every fragment shows its call's index,   *)
(* calls have distinct indices, and the id may appear on any fragment (the *)
(* OpenAI shape). "idOnly": every fragment shows its id and none an index. *)
(* "stableId": every fragment shows its id; indices are shown or not and   *)
(* need not be distinct.                                                    *)
Conformant(mode, ci, s) ==
    CASE mode = "indexed" ->
            /\ \A i \in DOMAIN s : s[i].showIndex
            /\ \A c1, c2 \in Calls : c1 # c2 => ci[c1] # ci[c2]
      [] mode = "idOnly" -> \A i \in DOMAIN s : s[i].showId /\ ~s[i].showIndex
      [] mode = "stableId" -> \A i \in DOMAIN s : s[i].showId

Init ==
    /\ callIndex \in [Calls -> Indices]
    /\ stream \in UNION {[1..n -> Fragment] : n \in 0..MaxFragments}
    /\ \E mode \in Modes : Conformant(mode, callIndex, stream)
    /\ pos = 0
    /\ acc = [entries |-> <<>>, byIndex |-> <<>>, byId |-> <<>>]
    /\ toolCalls = <<>>

(* One tool-call delta of a chunk is folded into the accumulator (the     *)
(* for-loop over delta.tool_calls, lines 998-1004).                         *)
Receive ==
    /\ pos < Len(stream)
    /\ acc' = AccumulateToolCallDelta(acc, Delta(stream[pos + 1]))
    /\ pos' = pos + 1
    /\ UNCHANGED <<callIndex, stream, toolCalls>>

(* The stream ends: the tool calls are assembled and unnamed ones dropped *)
(* (lines 1021-1027).                                                       *)
Assemble ==
    /\ pos = Len(stream)
    /\ pos' = pos + 1
    /\ toolCalls' = AssembleToolCalls(acc)
    /\ UNCHANGED <<callIndex, stream, acc>>

Next == Receive \/ Assemble

Spec == Init /\ [][Next]_vars

Done == pos = Len(stream) + 1

-----------------------------------------------------------------------------
(* What the stream means (spec, section 4.3): one tool call per logical   *)
(* call that was ever named, carrying the last name given, the ordered    *)
(* concatenation of its argument chunks up to the first complete JSON     *)
(* text, and the call's id unless the provider never showed it; ordered by *)
(* stream index when the provider gave indices, else by first appearance.  *)
FragmentsOf(c) == SelectSeq(stream, LAMBDA f : f.call = c)

IntendedName(c) ==
    LET named == {i \in DOMAIN stream : /\ stream[i].call = c
                                       /\ stream[i].name # NoName}
    IN IF named = {} THEN NoName
       ELSE stream[CHOOSE i \in named : \A j \in named : j <= i].name

IntendedArgs(c) ==
    LET fs == FragmentsOf(c)
        upTo[n \in 0..Len(fs)] ==
            IF n = 0 THEN <<>>
            ELSE IF Len(upTo[n - 1]) > 0 /\ ParsesAsJson(upTo[n - 1])
                 THEN upTo[n - 1]
                 ELSE upTo[n - 1] \o fs[n].args
    IN upTo[Len(fs)]

IdShown(c) == \E i \in DOMAIN stream : stream[i].call = c /\ stream[i].showId

IntendedCalls == {c \in Calls : IntendedName(c) # NoName}

\* Sort key: stream index (ties by first appearance) when any fragment had
\* an index, first appearance otherwise.
Position(c) ==
    LET first == CHOOSE i \in DOMAIN stream :
                    /\ stream[i].call = c
                    /\ \A j \in 1..(i - 1) : stream[j].call # c
    IN IF \E i \in DOMAIN stream : stream[i].showIndex
       THEN callIndex[c] * (MaxFragments + 1) + first
       ELSE first

IntendedOrder == KeysByValue([c \in IntendedCalls |-> Position(c)])

(* After the stream ends, the assembled tool calls are exactly the calls   *)
(* the provider streamed, in its order, each with its own name and its     *)
(* own arguments: no call is lost, merged into another or split, whatever  *)
(* the order of fragments and whichever fragments carry the id and index   *)
(* (accumulateToolCallDelta, assembleToolCalls).                           *)
AssemblesEachCall ==
    Done =>
        /\ Len(toolCalls) = Len(IntendedOrder)
        /\ \A k \in DOMAIN toolCalls :
              LET c == IntendedOrder[k] IN
              /\ toolCalls[k].name = IntendedName(c)
              /\ toolCalls[k].args = IntendedArgs(c)
              /\ \/ toolCalls[k].id = c
                 \/ ~IdShown(c) /\ toolCalls[k].id \notin Calls

=============================================================================
