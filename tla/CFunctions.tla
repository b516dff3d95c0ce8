----------------------------- MODULE CFunctions -----------------------------
(***************************************************************************)
(* C++ functions called from Lua (function_abstraction.h, the Converter of *)
(* types.h, Interpreter::call_c_function): the arguments of a Lua call are *)
(* bound one by one to a chain of CurriedFunction objects, each of which   *)
(* converts one argument to the type of its parameter, and the function    *)
(* runs when all of them are bound.  A behaviour is a series of calls of   *)
(* one registered function, with arguments of any type and number.         *)
(***************************************************************************)
EXTENDS Naturals, SequencesExt

CONSTANTS Kind,        \* the types a Lua value can have
          Signatures,  \* parameter lists of the functions registered
          Accepts,     \* <<kind, type>>: the host's conversion to type takes it
          Registered,  \* the types that have a conversion
          MaxArgs, MaxCalls   \* bounds on arguments per call, and on calls

(* A parameter type: a plain type, a std::variant of plain types tried in  *)
(* order, or a std::optional.                                              *)
ParamType == [form: {"plain", "variant", "optional"}, alts: Seq(Kind)]

ASSUME SignatureAssumption ==
  /\ \A sig \in Signatures : sig \in Seq(ParamType)
  /\ \A sig \in Signatures : \A k \in DOMAIN sig : sig[k].alts # << >>
  /\ Accepts \subseteq Kind \X Kind
  /\ \A t \in Registered : <<t, t>> \in Accepts
  /\ MaxArgs \in Nat /\ MaxCalls \in Nat

VARIABLES sig,      \* the signature of the function
          given,    \* the arguments of the call in progress
          todo,     \* those call_c_function has still to bind
          chain,    \* per CurriedFunction: <<>>, or the converted argument
          status,   \* how the call stands
          ran,      \* history: the arguments of each run of the function
          calls     \* history: number of calls begun

vars == <<sig, given, todo, chain, status, ran, calls>>

Errors == {"BindOverflow", "UnboundedCall", "NoConversion", "BadConversion",
           "ExhaustedVariant", "BadAnyCast", "bad_function_call"}
Arg == [kind: Kind, src: Kind]

Init ==
  /\ sig \in Signatures
  /\ given = << >> /\ todo = << >> /\ chain = << >>
  /\ status = "idle" /\ ran = << >> /\ calls = 0

(* builder->build(): a new chain, nothing bound.                           *)
NewChain == [k \in DOMAIN sig |-> << >>]

(* Variant: the chain of the previous call is used again.                  *)
BuildOnce ==
  /\ status = "idle" /\ calls < MaxCalls
  /\ \E n \in 0..MaxArgs : \E as \in [1..n -> Kind] : given' = as /\ todo' = as
  /\ chain' = IF calls = 0 THEN NewChain ELSE chain
  /\ status' = "binding" /\ calls' = calls + 1
  /\ UNCHANGED <<sig, ran>>
Build ==
  /\ status = "idle" /\ calls < MaxCalls
  /\ \E n \in 0..MaxArgs : \E as \in [1..n -> Kind] : given' = as /\ todo' = as
  /\ chain' = NewChain
  /\ status' = "binding" /\ calls' = calls + 1
  /\ UNCHANGED <<sig, ran>>

(* A conversion to one type: looked up, then made by the host.             *)
Convert(kind, t) ==
  IF t \notin Registered THEN [error |-> "NoConversion"]
  ELSE IF <<kind, t>> \notin Accepts THEN [error |-> "BadConversion"]
  ELSE [error |-> "none", arg |-> [kind |-> t, src |-> kind]]

(* Variant: a variant takes its first alternative, whatever the value is.  *)
PerformFirstAlternative(kind, p) == Convert(kind, p.alts[1])
(* A variant takes the alternative the value has already; an optional      *)
(* leaves the result empty, which the any_cast that follows refuses.       *)
PerformConversion(kind, p) ==
  CASE p.form = "plain" -> Convert(kind, p.alts[1])
    [] p.form = "variant" ->
         IF \E k \in DOMAIN p.alts : p.alts[k] = kind
         THEN Convert(kind, kind)
         ELSE [error |-> "ExhaustedVariant"]
    [] p.form = "optional" -> [error |-> "BadAnyCast"]

(* bind_next walks to the first link that is not bound.                    *)
Unbound == {k \in DOMAIN chain : chain[k] = << >>}
FirstUnbound == CHOOSE k \in Unbound : \A j \in Unbound : k =< j
Binding == status = "binding" /\ todo # << >> /\ sig # << >>

BindNext ==
  /\ Binding /\ Unbound # {}
  /\ LET k == FirstUnbound
         c == PerformConversion(Head(todo), sig[k])
     IN  /\ c.error = "none"
         /\ chain' = [chain EXCEPT ![k] = <<c.arg>>]
  /\ todo' = Tail(todo)
  /\ UNCHANGED <<sig, given, status, ran, calls>>

ConversionFails ==
  /\ Binding /\ Unbound # {}
  /\ LET c == PerformConversion(Head(todo), sig[FirstUnbound])
     IN  c.error # "none" /\ status' = c.error
  /\ UNCHANGED <<sig, given, todo, chain, ran, calls>>

(* The link without a parameter refuses every argument.                    *)
BindOverflow ==
  /\ Binding /\ Unbound = {}
  /\ status' = "BindOverflow"
  /\ UNCHANGED <<sig, given, todo, chain, ran, calls>>

(* A function without parameters is built as the last link of a chain, in  *)
(* which neither _bind_next_fn nor _call_fn is set.                        *)
EmptyFunction ==
  /\ status = "binding" /\ sig = << >>
  /\ status' = "bad_function_call"
  /\ UNCHANGED <<sig, given, todo, chain, ran, calls>>

CallReady == status = "binding" /\ todo = << >> /\ sig # << >>

(* Variant: the check that every link is bound is gone.                    *)
CallUnchecked ==
  /\ CallReady
  /\ ran' = Append(ran, [k \in DOMAIN chain \ Unbound |-> chain[k][1]])
  /\ status' = "called"
  /\ UNCHANGED <<sig, given, todo, chain, calls>>
Call ==
  /\ CallReady /\ Unbound = {}
  /\ ran' = Append(ran, [k \in DOMAIN chain |-> chain[k][1]])
  /\ status' = "called"
  /\ UNCHANGED <<sig, given, todo, chain, calls>>

UnboundedCall ==
  /\ CallReady /\ Unbound # {}
  /\ status' = "UnboundedCall"
  /\ UNCHANGED <<sig, given, todo, chain, ran, calls>>

(* The Lua program goes on, or after an error the next one of the same     *)
(* environment: functions stay registered.                                 *)
Continue ==
  /\ status \in {"called"} \cup Errors
  /\ status' = IF calls < MaxCalls THEN "idle" ELSE "done"
  /\ given' = << >> /\ todo' = << >>
  /\ UNCHANGED <<sig, chain, ran, calls>>

Finished == status = "done" /\ UNCHANGED vars

Next ==
  \/ Build \/ BindNext \/ ConversionFails \/ BindOverflow \/ EmptyFunction
  \/ Call \/ UnboundedCall \/ Continue \/ Finished

Spec == Init /\ [][Next]_vars

-----------------------------------------------------------------------------
(* The type of every variable: a link holds a converted argument, never a  *)
(* Lua value.                                                              *)
TypeOK ==
  /\ sig \in Signatures
  /\ given \in Seq(Kind) /\ todo \in Seq(Kind)
  /\ \A k \in DOMAIN chain : Len(chain[k]) =< 1 /\ chain[k] \in Seq(Arg)
  /\ status \in {"idle", "binding", "called", "done"} \cup Errors
  /\ \A r \in DOMAIN ran : ran[r] \in Seq(Arg)
  /\ calls \in 0..MaxCalls

(* Whether a Lua value of a kind may be passed for a parameter: a plain    *)
(* parameter takes what the conversion to it accepts, a variant takes only *)
(* its own alternatives.                                                   *)
Fits(kind, p) ==
  CASE p.form = "plain" -> p.alts[1] \in Registered /\ <<kind, p.alts[1]>> \in Accepts
    [] p.form = "variant" -> kind \in Registered /\ kind \in Range(p.alts)
    [] OTHER -> FALSE
Corresponds == Len(given) = Len(sig) /\ \A k \in DOMAIN sig : Fits(given[k], sig[k])

(* Type safety (README): the C++ function only runs with one argument per  *)
(* parameter, each of the parameter's type and made from a Lua value that  *)
(* may be passed for it -- also after calls that failed half way.          *)
TypeSafeCalls ==
  \A r \in DOMAIN ran :
    /\ DOMAIN ran[r] = DOMAIN sig
    /\ \A k \in DOMAIN sig : ran[r][k].kind \in Range(sig[k].alts) /\ Fits(ran[r][k].src, sig[k])

(* The function runs on the arguments of the call it was called by, in     *)
(* their order: nothing bound by an earlier call is left over.             *)
RunsOwnArguments ==
  status = "called" => [k \in DOMAIN Last(ran) |-> Last(ran)[k].src] = given

(* A call fails exactly when its arguments do not correspond to the        *)
(* parameters, and the error tells in which way: too many or too few only  *)
(* when the arguments that can be bound all fit.                           *)
FailsForAReason ==
  sig # << >> =>
    /\ status = "called" => Corresponds
    /\ status \in Errors => ~ Corresponds
    /\ status = "BindOverflow" => /\ Len(given) > Len(sig)
                                  /\ \A k \in DOMAIN sig : Fits(given[k], sig[k])
    /\ status = "UnboundedCall" => /\ Len(given) < Len(sig)
                                   /\ \A k \in DOMAIN given : Fits(given[k], sig[k])
=============================================================================
