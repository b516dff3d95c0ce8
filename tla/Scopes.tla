------------------------------- MODULE Scopes -------------------------------
(***************************************************************************)
(* What _blocks, _local_values and _functions of the interpreter promise   *)
(* together: a stack of calls, each with its own stack of nested scopes,   *)
(* each with its own names.  Interpreter keeps the blocks of all calls in  *)
(* one vector, identified by their parse tree nodes only, and the names in *)
(* one map per call, keyed by those nodes; it is shown to implement this   *)
(* module as long as the promise holds.                                    *)
(***************************************************************************)
EXTENDS Naturals, Sequences

CONSTANTS Block, Name

VARIABLES calls,     \* per call, its open scopes from the outermost inwards
          promised   \* no exception has left a call without ending it

Scope == [block: Block, names: SUBSET Name]

Level == Len(calls)
Scopes == calls[Level]

Init == calls = << >> /\ promised \in BOOLEAN

(* A call, or the chunk, starts in a scope with its parameters.            *)
Enter ==
  \E b \in Block, ns \in SUBSET Name : calls' = Append(calls, <<[block |-> b, names |-> ns]>>)

(* A nested scope opens in the innermost call.                             *)
Open ==
  /\ calls # << >>
  /\ \E b \in Block, ns \in SUBSET Name :
        calls' = [calls EXCEPT ![Level] = Append(@, [block |-> b, names |-> ns])]

(* The innermost scope gains or loses names; no other scope does.          *)
Rename ==
  /\ calls # << >> /\ Scopes # << >>
  /\ \E ns \in SUBSET Name : calls' = [calls EXCEPT ![Level][Len(Scopes)].names = ns]

(* Scopes close from the innermost outwards, in the innermost call only.   *)
(* The scope control returns to may lose its names, those around it may    *)
(* not.                                                                    *)
Close ==
  /\ calls # << >>
  /\ \E n \in 0 .. (Len(Scopes) - 1) :
        LET left == SubSeq(Scopes, 1, n)
        IN  \/ calls' = [calls EXCEPT ![Level] = left]
            \/ n > 0 /\ calls' = [calls EXCEPT ![Level] = [left EXCEPT ![n].names = {}]]

(* A call ends with every scope it opened; its caller's are untouched.     *)
Leave == Level > 1 /\ calls' = SubSeq(calls, 1, Level - 1)

(* An exception other than Return leaves a call: nothing is promised then. *)
Void == promised /\ ~ promised' /\ calls' = << >>

Next == (promised /\ UNCHANGED promised /\ (Enter \/ Open \/ Rename \/ Close \/ Leave)) \/ Void

Spec == Init /\ [][Next]_<<calls, promised>>
=============================================================================
