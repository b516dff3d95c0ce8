-------------------------- MODULE CFunctionsProofs --------------------------
(***************************************************************************)
(* Type safety of the calls of C++ functions, for every set of signatures, *)
(* conversions and arguments.  The invariant says what the chain of        *)
(* CurriedFunction objects holds while arguments are being bound: the      *)
(* first ones are bound to the first arguments of this very call, each     *)
(* converted for its parameter, and the others are not bound.              *)
(***************************************************************************)
EXTENDS CFunctions, TLAPS

(* The arguments of the call that have been bound so far.                  *)
Bound == Len(given) - Len(todo)

(* Link k holds argument k of the call, converted to a type its parameter  *)
(* allows.                                                                 *)
Holds(k) ==
  /\ chain[k] = <<chain[k][1]>>
  /\ chain[k][1] \in Arg
  /\ chain[k][1].src = given[k]
  /\ chain[k][1].kind \in Range(sig[k].alts)
  /\ Fits(given[k], sig[k])

ChainInv ==
  status = "binding" =>
    /\ chain = [k \in DOMAIN sig |-> chain[k]]
    /\ Bound \in 0 .. Len(sig)
    /\ todo = [k \in 1 .. Len(todo) |-> given[Bound + k]]
    /\ \A k \in DOMAIN sig : IF k =< Bound THEN Holds(k) ELSE chain[k] = << >>

Inv ==
  /\ TypeOK
  /\ ran \in Seq(Seq(Arg))
  /\ ChainInv
  /\ TypeSafeCalls
  /\ RunsOwnArguments
  /\ FailsForAReason

-----------------------------------------------------------------------------
(* The parameters of a registered function.                                *)
LEMMA SignatureFacts ==
  ASSUME sig \in Signatures
  PROVE  /\ sig \in Seq(ParamType) /\ Len(sig) \in Nat /\ DOMAIN sig = 1 .. Len(sig)
         /\ \A k \in DOMAIN sig : sig[k] \in ParamType /\ sig[k].alts # << >>
  BY SignatureAssumption

(* perform_conversion succeeds exactly for the values that fit, and yields *)
(* a value of a type the parameter allows.                                 *)
LEMMA ConversionFacts ==
  ASSUME NEW kind \in Kind, NEW p \in ParamType, p.alts # << >>
  PROVE  /\ PerformConversion(kind, p).error \in {"none"} \cup Errors
         /\ PerformConversion(kind, p).error = "none" <=> Fits(kind, p)
         /\ PerformConversion(kind, p).error = "none" =>
              /\ PerformConversion(kind, p).arg \in Arg
              /\ PerformConversion(kind, p).arg.src = kind
              /\ PerformConversion(kind, p).arg.kind \in Range(p.alts)
  <1>1. /\ p.form \in {"plain", "variant", "optional"} /\ p.alts \in Seq(Kind)
        /\ 1 \in DOMAIN p.alts /\ p.alts[1] \in Kind /\ p.alts[1] \in Range(p.alts)
    BY DEF ParamType, Range
  <1>2. \A t \in Kind :
          /\ Convert(kind, t).error \in {"none"} \cup Errors
          /\ Convert(kind, t).error = "none" <=> t \in Registered /\ <<kind, t>> \in Accepts
          /\ Convert(kind, t).error = "none" => /\ Convert(kind, t).arg \in Arg
                                                /\ Convert(kind, t).arg.src = kind
                                                /\ Convert(kind, t).arg.kind = t
    <2> SUFFICES ASSUME NEW t \in Kind
                 PROVE  /\ Convert(kind, t).error \in {"none"} \cup Errors
                        /\ Convert(kind, t).error = "none" <=> t \in Registered /\ <<kind, t>> \in Accepts
                        /\ Convert(kind, t).error = "none" => /\ Convert(kind, t).arg \in Arg
                                                              /\ Convert(kind, t).arg.src = kind
                                                              /\ Convert(kind, t).arg.kind = t
      OBVIOUS
    <2>1. CASE t \in Registered /\ <<kind, t>> \in Accepts
      BY <2>1 DEF Convert, Arg
    <2>2. CASE ~ (t \in Registered /\ <<kind, t>> \in Accepts)
      BY <2>2 DEF Convert, Errors
    <2> QED BY <2>1, <2>2
  <1>3. CASE p.form = "plain"
    <2>1. PerformConversion(kind, p) = Convert(kind, p.alts[1])
      BY <1>3 DEF PerformConversion
    <2>2. Fits(kind, p) <=> p.alts[1] \in Registered /\ <<kind, p.alts[1]>> \in Accepts
      BY <1>3 DEF Fits
    <2> QED BY <1>1, <1>2, <2>1, <2>2
  <1>4. CASE p.form = "variant"
    <2>1. (\E k \in DOMAIN p.alts : p.alts[k] = kind) <=> kind \in Range(p.alts)
      BY DEF Range
    <2>2. PerformConversion(kind, p) =
            IF kind \in Range(p.alts) THEN Convert(kind, kind) ELSE [error |-> "ExhaustedVariant"]
      BY <1>4, <2>1 DEF PerformConversion
    <2>3. Fits(kind, p) <=> kind \in Registered /\ kind \in Range(p.alts)
      BY <1>4 DEF Fits
    <2>4. kind \in Registered => <<kind, kind>> \in Accepts
      BY SignatureAssumption
    <2>5. CASE kind \in Range(p.alts)
      BY <1>2, <2>2, <2>3, <2>4, <2>5
    <2>6. CASE kind \notin Range(p.alts)
      BY <2>2, <2>3, <2>6 DEF Errors
    <2> QED BY <2>5, <2>6
  <1>5. CASE p.form = "optional"
    BY <1>5 DEF PerformConversion, Fits, Errors
  <1> QED BY <1>1, <1>3, <1>4, <1>5

(* While arguments are bound, bind_next reaches the link after the last    *)
(* one bound, and the next argument is the one of the same position.       *)
LEMMA BindingFacts ==
  ASSUME TypeOK, ChainInv, status = "binding"
  PROVE  /\ Len(sig) \in Nat /\ DOMAIN sig = 1 .. Len(sig)
         /\ Len(given) \in Nat /\ Len(todo) \in Nat /\ Bound \in 0 .. Len(sig)
         /\ DOMAIN chain = DOMAIN sig
         /\ Unbound = (Bound + 1) .. Len(sig)
         /\ Unbound # {} => Bound < Len(sig) /\ FirstUnbound = Bound + 1
         /\ Unbound = {} => Bound = Len(sig)
         /\ todo # << >> => /\ Len(todo) >= 1 /\ Bound < Len(given)
                            /\ Head(todo) = given[Bound + 1] /\ Head(todo) \in Kind
         /\ todo = << >> => Bound = Len(given)
  <1>1. /\ sig \in Signatures /\ given \in Seq(Kind) /\ todo \in Seq(Kind)
        /\ Len(given) \in Nat /\ Len(todo) \in Nat
    BY DEF TypeOK
  <1>2. Len(sig) \in Nat /\ DOMAIN sig = 1 .. Len(sig)
    BY <1>1, SignatureFacts
  <1>3. Bound \in 0 .. Len(sig) /\ DOMAIN chain = DOMAIN sig
    BY DEF ChainInv
  <1>4. \A k \in DOMAIN sig : chain[k] = << >> <=> k > Bound
    <2> TAKE k \in DOMAIN sig
    <2>1. CASE k =< Bound
      <3>1. chain[k] = <<chain[k][1]>>
        BY <2>1 DEF ChainInv, Holds
      <3>2. chain[k] # << >>
        BY <3>1
      <3> QED BY <1>2, <1>3, <2>1, <3>2
    <2>2. CASE k > Bound
      BY <1>2, <1>3, <2>2 DEF ChainInv
    <2> QED BY <1>2, <1>3, <2>1, <2>2
  <1>5. Unbound = (Bound + 1) .. Len(sig)
    BY <1>2, <1>3, <1>4 DEF Unbound
  <1>6. Unbound = {} => Bound = Len(sig)
    <2>1. Bound < Len(sig) => Bound + 1 \in Unbound
      BY <1>2, <1>3, <1>5
    <2>2. ~ (Bound < Len(sig)) => Bound = Len(sig)
      <3>1. \A m \in Nat : \A b \in 0 .. m : ~ (b < m) => b = m
        OBVIOUS
      <3> QED BY <1>2, <1>3, <3>1, Zenon
    <2> QED BY <2>1, <2>2
  <1>7. ASSUME Unbound # {} PROVE Bound < Len(sig) /\ FirstUnbound = Bound + 1
    <2>1. Bound < Len(sig)
      <3>1. PICK k \in Unbound : TRUE
        BY <1>7
      <3> QED BY <1>2, <1>3, <1>5, <3>1
    <2>2. Bound + 1 \in Unbound /\ \A j \in Unbound : Bound + 1 =< j
      BY <1>2, <1>3, <1>5, <2>1
    <2>3. \A k \in Unbound : (\A j \in Unbound : k =< j) => k = Bound + 1
      BY <1>2, <1>3, <1>5, <2>2
    <2> QED BY <2>1, <2>2, <2>3 DEF FirstUnbound
  <1>8. ASSUME todo # << >>
        PROVE  /\ Len(todo) >= 1 /\ Bound < Len(given)
               /\ Head(todo) = given[Bound + 1] /\ Head(todo) \in Kind
    <2>1. Len(todo) >= 1 /\ Head(todo) = todo[1] /\ Head(todo) \in Kind
      BY <1>1, <1>8
    <2>2. todo[1] = given[Bound + 1]
      BY <1>1, <2>1 DEF ChainInv
    <2> QED BY <1>1, <2>1, <2>2 DEF Bound
  <1>9. todo = << >> => Bound = Len(given)
    BY <1>1 DEF Bound
  <1> QED BY <1>1, <1>2, <1>3, <1>5, <1>6, <1>7, <1>8, <1>9

-----------------------------------------------------------------------------
(* The invariant holds at first, and every action keeps it.                *)
LEMMA InvInit == Init => Inv
  <1> SUFFICES ASSUME Init PROVE Inv
    OBVIOUS
  <1>1. << >> \in Seq(Kind) /\ << >> \in Seq(Seq(Arg)) /\ DOMAIN << >> = {}
    OBVIOUS
  <1>2. TypeOK
    BY <1>1, SignatureAssumption DEF Init, TypeOK
  <1> QED BY <1>1, <1>2 DEF Init, Inv, ChainInv, TypeSafeCalls, RunsOwnArguments, FailsForAReason, Errors

(* A new chain has nothing bound.                                          *)
LEMMA InvBuild == Inv /\ Build => Inv'
  <1> SUFFICES ASSUME Inv, Build PROVE Inv'
    OBVIOUS
  <1>1. PICK n \in 0 .. MaxArgs : \E as \in [1 .. n -> Kind] : given' = as /\ todo' = as
    BY DEF Build
  <1>2. n \in Nat /\ given' = todo' /\ given' \in [1 .. n -> Kind]
    <2>1. n \in Nat
      BY SignatureAssumption
    <2> QED BY <1>1, <2>1, Zenon
  <1>3. given' \in Seq(Kind) /\ todo' \in Seq(Kind) /\ Len(given') = n /\ Len(todo') = n
    BY <1>2
  <1>4. /\ chain' = [k \in DOMAIN sig |-> << >>] /\ status' = "binding"
        /\ calls' = calls + 1 /\ calls < MaxCalls /\ sig' = sig /\ ran' = ran
    BY DEF Build, NewChain
  <1>5. sig \in Signatures /\ calls \in 0 .. MaxCalls
    BY DEF Inv, TypeOK
  <1>6. Len(sig) \in Nat /\ DOMAIN sig = 1 .. Len(sig)
    BY <1>5, SignatureFacts
  <1>7. TypeOK'
    <2>1. << >> \in Seq(Arg) /\ Len(<< >>) = 0
      OBVIOUS
    <2>2. calls' \in 0 .. MaxCalls
      BY <1>4, <1>5, SignatureAssumption
    <2> QED BY <1>3, <1>4, <1>5, <2>1, <2>2 DEF Inv, TypeOK
  <1>8. ChainInv'
    <2>1. Bound' = 0
      BY <1>3 DEF Bound
    <2>2. todo' = [k \in 1 .. Len(todo') |-> given'[Bound' + k]]
      BY <1>2, <1>3, <2>1
    <2>3. \A k \in DOMAIN sig' : ~ (k =< Bound') /\ chain'[k] = << >>
      BY <1>4, <1>6, <2>1
    <2>4. chain' = [k \in DOMAIN sig' |-> chain'[k]]
      BY <1>4
    <2>5. Bound' \in 0 .. Len(sig')
      BY <1>4, <1>6, <2>1
    <2> QED BY <2>2, <2>3, <2>4, <2>5 DEF ChainInv
  <1>9. TypeSafeCalls'
    BY <1>4 DEF Inv, TypeSafeCalls, Fits
  <1>10. RunsOwnArguments' /\ FailsForAReason'
    BY <1>4 DEF RunsOwnArguments, FailsForAReason, Errors
  <1> QED BY <1>4, <1>7, <1>8, <1>9, <1>10 DEF Inv

(* bind_next binds the next argument to the next link, if it converts.     *)
LEMMA InvBindNext == Inv /\ BindNext => Inv'
  <1> SUFFICES ASSUME Inv, BindNext PROVE Inv'
    OBVIOUS
  <1> DEFINE c == PerformConversion(Head(todo), sig[FirstUnbound])
             b == Bound + 1
  <1>1. /\ status = "binding" /\ todo # << >> /\ Unbound # {}
        /\ c.error = "none" /\ chain' = [chain EXCEPT ![FirstUnbound] = <<c.arg>>]
        /\ todo' = Tail(todo)
        /\ sig' = sig /\ given' = given /\ status' = status /\ ran' = ran /\ calls' = calls
    BY DEF BindNext, Binding
  <1>2. TypeOK /\ ChainInv
    BY DEF Inv
  <1>3. /\ Len(sig) \in Nat /\ DOMAIN sig = 1 .. Len(sig)
        /\ Len(given) \in Nat /\ Len(todo) \in Nat /\ Bound \in 0 .. Len(sig)
        /\ DOMAIN chain = DOMAIN sig /\ Bound < Len(sig) /\ FirstUnbound = b
        /\ Len(todo) >= 1 /\ Head(todo) = given[b] /\ Head(todo) \in Kind
    BY <1>1, <1>2, BindingFacts
  <1>4. b \in DOMAIN sig /\ b \in DOMAIN chain /\ b \in Nat
    BY <1>3
  <1>5. /\ c.arg \in Arg /\ c.arg.src = given[b] /\ c.arg.kind \in Range(sig[b].alts)
        /\ Fits(given[b], sig[b])
    <2>1. sig[b] \in ParamType /\ sig[b].alts # << >>
      BY <1>2, <1>4, SignatureFacts DEF TypeOK
    <2> HIDE DEF c, b
    <2>2. c = PerformConversion(given[b], sig[b]) /\ given[b] \in Kind
      BY <1>3 DEF c
    <2> QED BY <1>1, <2>1, <2>2, ConversionFacts
  <1>6. /\ chain'[b] = <<c.arg>> /\ DOMAIN chain' = DOMAIN sig
        /\ \A k \in DOMAIN sig : k # b => chain'[k] = chain[k]
    BY <1>1, <1>3, <1>4
  <1>7. todo \in Seq(Kind) /\ Tail(todo) \in Seq(Kind) /\ Len(Tail(todo)) = Len(todo) - 1
        /\ \A k \in 1 .. (Len(todo) - 1) : Tail(todo)[k] = todo[k + 1]
    BY <1>1, <1>2 DEF TypeOK
  <1>8. Bound' = b
    BY <1>1, <1>3, <1>7 DEF Bound
  <1> HIDE DEF c, b
  <1>9. TypeOK'
    <2>1. \A k \in DOMAIN chain' : Len(chain'[k]) =< 1 /\ chain'[k] \in Seq(Arg)
      <3> TAKE k \in DOMAIN chain'
      <3>1. CASE k = b
        <4>1. Len(<<c.arg>>) = 1 /\ <<c.arg>> \in Seq(Arg)
          BY <1>5
        <4>2. chain'[k] = <<c.arg>>
          BY <1>6, <3>1
        <4> QED BY <4>1, <4>2
      <3>2. CASE k # b
        BY <1>2, <1>3, <1>6, <3>2 DEF TypeOK
      <3> QED BY <3>1, <3>2
    <2> QED BY <1>1, <1>2, <1>7, <2>1 DEF TypeOK
  <1>10. ChainInv'
    <2>1. chain' = [k \in DOMAIN sig' |-> chain'[k]]
      <3>1. chain = [k \in DOMAIN sig |-> chain[k]]
        BY <1>1, <1>2 DEF ChainInv
      <3> QED BY <1>1, <1>6, <3>1
    <2>2. Bound' \in 0 .. Len(sig')
      BY <1>1, <1>3, <1>4, <1>8
    <2>3. todo' = [k \in 1 .. Len(todo') |-> given'[Bound' + k]]
      <3>1. \A k \in 1 .. (Len(todo) - 1) : Tail(todo)[k] = given[b + k]
        <4> TAKE k \in 1 .. (Len(todo) - 1)
        <4>1. k + 1 \in 1 .. Len(todo)
          BY <1>3
        <4>2. todo[k + 1] = given[Bound + (k + 1)]
          BY <1>1, <1>2, <4>1 DEF ChainInv
        <4>3. Bound + (k + 1) = b + k
          BY <1>3 DEF b
        <4> QED BY <1>7, <4>2, <4>3
      <3>2. Tail(todo) = [k \in 1 .. Len(Tail(todo)) |-> Tail(todo)[k]]
        <4>1. \A s \in Seq(Kind) : s = [k \in 1 .. Len(s) |-> s[k]]
          OBVIOUS
        <4> QED BY <1>7, <4>1, Zenon
      <3> QED BY <1>1, <1>7, <1>8, <3>1, <3>2
    <2>4. \A k \in DOMAIN sig : IF k =< b THEN Holds(k)' ELSE chain'[k] = << >>
      <3> TAKE k \in DOMAIN sig
      <3>1. CASE k < b
        <4>1. k =< Bound /\ k # b /\ k =< b
          BY <1>3, <3>1 DEF b
        <4>2. Holds(k)
          BY <1>1, <1>2, <4>1 DEF ChainInv
        <4>3. chain'[k] = chain[k]
          BY <1>6, <4>1
        <4>4. Holds(k)'
          BY <1>1, <4>2, <4>3 DEF Holds, Fits
        <4> QED BY <4>1, <4>4
      <3>2. CASE k = b
        <4>1. chain'[k] = <<c.arg>>
          BY <1>6, <3>2
        <4>2. chain'[k][1] = c.arg /\ chain'[k] = <<chain'[k][1]>>
          BY <4>1
        <4>3. /\ c.arg \in Arg /\ c.arg.src = given[k] /\ c.arg.kind \in Range(sig[k].alts)
              /\ Fits(given[k], sig[k])
          BY <1>5, <3>2
        <4>4. Fits(given[k], sig[k])'
          BY <1>1, <4>3 DEF Fits
        <4>5. Holds(k)'
          BY <1>1, <4>2, <4>3, <4>4 DEF Holds
        <4>6. k =< b
          BY <1>4, <3>2
        <4> QED BY <4>5, <4>6
      <3>3. CASE k > b
        <4>1. ~ (k =< Bound) /\ k # b /\ ~ (k =< b)
          BY <1>3, <3>3 DEF b
        <4> QED BY <1>1, <1>2, <1>6, <4>1 DEF ChainInv
      <3> QED BY <1>3, <1>4, <3>1, <3>2, <3>3
    <2> QED BY <1>1, <1>8, <2>1, <2>2, <2>3, <2>4 DEF ChainInv
  <1>11. TypeSafeCalls' /\ RunsOwnArguments' /\ FailsForAReason'
    BY <1>1 DEF Inv, TypeSafeCalls, Fits, RunsOwnArguments, FailsForAReason, Errors
  <1> QED BY <1>1, <1>9, <1>10, <1>11 DEF Inv

(* A call that ends with an error: its arguments do not correspond to the  *)
(* parameters, for the reason the error gives.                             *)
LEMMA InvFails ==
  Inv /\ (ConversionFails \/ BindOverflow \/ EmptyFunction \/ UnboundedCall) => Inv'
  <1> SUFFICES ASSUME Inv, ConversionFails \/ BindOverflow \/ EmptyFunction \/ UnboundedCall
               PROVE  Inv'
    OBVIOUS
  <1>1. /\ status = "binding"
        /\ sig' = sig /\ given' = given /\ todo' = todo /\ chain' = chain /\ ran' = ran /\ calls' = calls
    BY DEF ConversionFails, BindOverflow, EmptyFunction, UnboundedCall, Binding, CallReady
  <1>2. TypeOK /\ ChainInv
    BY DEF Inv
  <1>3. /\ Len(sig) \in Nat /\ DOMAIN sig = 1 .. Len(sig)
        /\ Len(given) \in Nat /\ Bound \in 0 .. Len(sig)
        /\ \A k \in DOMAIN sig : k =< Bound => Fits(given[k], sig[k])
    BY <1>1, <1>2, BindingFacts DEF ChainInv, Holds
  <1>4. /\ Corresponds' <=> Corresponds
        /\ \A k : Fits(given[k], sig[k])' <=> Fits(given[k], sig[k])
    BY <1>1 DEF Fits, Corresponds
  <1>5. /\ status' \in Errors
        /\ sig # << >> => ~ Corresponds
        /\ sig # << >> /\ status' = "BindOverflow" =>
              Len(given) > Len(sig) /\ \A k \in DOMAIN sig : Fits(given[k], sig[k])
        /\ sig # << >> /\ status' = "UnboundedCall" =>
              Len(given) < Len(sig) /\ \A k \in DOMAIN given : Fits(given[k], sig[k])
    <2>1. CASE ConversionFails
      <3> DEFINE b == Bound + 1
                 c == PerformConversion(Head(todo), sig[FirstUnbound])
      <3>1. c.error # "none" /\ status' = c.error /\ todo # << >> /\ Unbound # {}
        BY <2>1 DEF ConversionFails, Binding
      <3>2. /\ FirstUnbound = b /\ Bound < Len(sig) /\ Head(todo) = given[b] /\ Head(todo) \in Kind
        BY <1>1, <1>2, <3>1, BindingFacts
      <3>3. b \in DOMAIN sig
        BY <1>3, <3>2
      <3>4. sig[b] \in ParamType /\ sig[b].alts # << >>
        BY <1>2, <3>3, SignatureFacts DEF TypeOK
      <3> HIDE DEF b, c
      <3>5. c = PerformConversion(given[b], sig[b]) /\ given[b] \in Kind
        BY <3>2 DEF c
      <3>6. c.error \in Errors /\ ~ Fits(given[b], sig[b])
        BY <3>1, <3>4, <3>5, ConversionFacts
      <3>7. ~ Corresponds
        BY <3>3, <3>6 DEF Corresponds
      <3>8. c.error # "BindOverflow" /\ c.error # "UnboundedCall"
        <4>1. \A t : Convert(given[b], t).error # "BindOverflow" /\ Convert(given[b], t).error # "UnboundedCall"
          BY DEF Convert
        <4>2. sig[b].form \in {"plain", "variant", "optional"}
          BY <3>4 DEF ParamType
        <4> QED BY <3>5, <4>1, <4>2 DEF PerformConversion
      <3> QED BY <3>1, <3>6, <3>7, <3>8
    <2>2. CASE BindOverflow
      <3>1. status' = "BindOverflow" /\ todo # << >> /\ Unbound = {}
        BY <2>2 DEF BindOverflow, Binding
      <3>2. Bound = Len(sig) /\ Bound < Len(given)
        BY <1>1, <1>2, <3>1, BindingFacts
      <3>3. Len(given) > Len(sig) /\ \A k \in DOMAIN sig : Fits(given[k], sig[k])
        BY <1>3, <3>2
      <3> QED BY <1>3, <3>1, <3>3 DEF Errors, Corresponds
    <2>3. CASE EmptyFunction
      BY <2>3 DEF EmptyFunction, Errors
    <2>4. CASE UnboundedCall
      <3>1. status' = "UnboundedCall" /\ todo = << >> /\ Unbound # {}
        BY <2>4 DEF UnboundedCall, CallReady
      <3>2. Bound < Len(sig) /\ Bound = Len(given)
        BY <1>1, <1>2, <3>1, BindingFacts
      <3>3. DOMAIN given = 1 .. Len(given)
        BY <1>2 DEF TypeOK
      <3>4. Len(given) < Len(sig) /\ \A k \in DOMAIN given : Fits(given[k], sig[k])
        BY <1>3, <3>2, <3>3
      <3> QED BY <1>3, <3>1, <3>4 DEF Errors, Corresponds
    <2> QED BY <2>1, <2>2, <2>3, <2>4
  <1>6. status' # "binding" /\ status' # "called"
    BY <1>5 DEF Errors
  <1>7. TypeOK'
    BY <1>1, <1>2, <1>5 DEF TypeOK
  <1>8. FailsForAReason'
    BY <1>1, <1>4, <1>5, <1>6 DEF FailsForAReason
  <1>9. TypeSafeCalls'
    BY <1>1 DEF Inv, TypeSafeCalls, Fits
  <1>10. ChainInv' /\ RunsOwnArguments'
    BY <1>6 DEF ChainInv, RunsOwnArguments
  <1> QED BY <1>1, <1>7, <1>8, <1>9, <1>10 DEF Inv

(* The function runs: all links hold the arguments of this call.           *)
LEMMA InvCall == Inv /\ Call => Inv'
  <1> SUFFICES ASSUME Inv, Call PROVE Inv'
    OBVIOUS
  <1> DEFINE run == [k \in DOMAIN sig |-> chain[k][1]]
  <1>1. /\ status = "binding" /\ todo = << >> /\ Unbound = {} /\ status' = "called"
        /\ ran' = Append(ran, [k \in DOMAIN chain |-> chain[k][1]])
        /\ sig' = sig /\ given' = given /\ todo' = todo /\ chain' = chain /\ calls' = calls
    BY DEF Call, CallReady
  <1>2. TypeOK /\ ChainInv /\ ran \in Seq(Seq(Arg)) /\ given \in Seq(Kind)
    BY DEF Inv, TypeOK
  <1>3. /\ Len(sig) \in Nat /\ DOMAIN sig = 1 .. Len(sig) /\ DOMAIN chain = DOMAIN sig
        /\ Bound = Len(sig) /\ Bound = Len(given)
    BY <1>1, <1>2, BindingFacts
  <1>4. \A k \in DOMAIN sig : Holds(k)
    BY <1>1, <1>2, <1>3 DEF ChainInv
  <1>5. run \in Seq(Arg)
    BY <1>3, <1>4 DEF Holds
  <1>6. /\ DOMAIN run = DOMAIN sig
        /\ \A k \in DOMAIN sig : /\ run[k].kind \in Range(sig[k].alts) /\ run[k].src = given[k]
                                 /\ Fits(run[k].src, sig[k]) /\ Fits(given[k], sig[k])
    BY <1>4 DEF Holds
  <1> HIDE DEF run
  <1>7. /\ ran' = Append(ran, run) /\ ran' \in Seq(Seq(Arg)) /\ Len(ran) \in Nat
        /\ Len(ran') = Len(ran) + 1 /\ DOMAIN ran' = 1 .. (Len(ran) + 1) /\ DOMAIN ran = 1 .. Len(ran)
        /\ ran'[Len(ran) + 1] = run /\ \A r \in 1 .. Len(ran) : ran'[r] = ran[r]
    <2>1. ran' = Append(ran, run)
      BY <1>1, <1>3 DEF run
    <2> QED BY <1>2, <1>5, <2>1
  <1>8. TypeSafeCalls'
    <2> SUFFICES ASSUME NEW r \in DOMAIN ran'
                 PROVE  /\ DOMAIN ran'[r] = DOMAIN sig
                        /\ \A k \in DOMAIN sig : /\ ran'[r][k].kind \in Range(sig[k].alts)
                                                 /\ Fits(ran'[r][k].src, sig[k])
      BY <1>1, Zenon DEF TypeSafeCalls
    <2>1. CASE r \in 1 .. Len(ran)
      <3>1. ran'[r] = ran[r] /\ r \in DOMAIN ran
        BY <1>7, <2>1
      <3>2. TypeSafeCalls
        BY DEF Inv
      <3> QED BY <3>1, <3>2 DEF TypeSafeCalls
    <2>2. CASE r = Len(ran) + 1
      BY <1>6, <1>7, <2>2
    <2> QED BY <1>7, <2>1, <2>2
  <1>9. RunsOwnArguments'
    <2>1. Last(ran)' = run
      BY <1>7 DEF Last
    <2>2. [k \in DOMAIN run |-> run[k].src] = [k \in 1 .. Len(given) |-> given[k]]
      <3>1. DOMAIN run = 1 .. Len(given) /\ \A k \in 1 .. Len(given) : run[k].src = given[k]
        BY <1>3, <1>6
      <3> QED BY <3>1
    <2>3. \A s \in Seq(Kind) : s = [k \in 1 .. Len(s) |-> s[k]]
      OBVIOUS
    <2>4. [k \in DOMAIN run |-> run[k].src] = given
      BY <1>2, <2>2, <2>3
    <2> QED BY <1>1, <2>1, <2>4 DEF RunsOwnArguments
  <1>10. Corresponds'
    BY <1>1, <1>3, <1>6 DEF Corresponds, Fits
  <1>11. FailsForAReason' /\ ChainInv'
    BY <1>1, <1>10 DEF FailsForAReason, ChainInv, Errors
  <1>12. TypeOK'
    <2>1. \A r \in DOMAIN ran' : ran'[r] \in Seq(Arg)
      BY <1>7
    <2>2. status' \in {"idle", "binding", "called", "done"} \cup Errors
      BY <1>1
    <2> QED BY <1>1, <1>2, <2>1, <2>2 DEF TypeOK
  <1> QED BY <1>7, <1>8, <1>9, <1>11, <1>12 DEF Inv

(* Between calls nothing of the chain matters.                             *)
LEMMA InvBetween == Inv /\ (Continue \/ Finished \/ UNCHANGED vars) => Inv'
  <1> SUFFICES ASSUME Inv, Continue \/ Finished \/ UNCHANGED vars PROVE Inv'
    OBVIOUS
  <1>1. CASE Continue
    <2>1. /\ status' \in {"idle", "done"} /\ given' = << >> /\ todo' = << >>
          /\ sig' = sig /\ chain' = chain /\ ran' = ran /\ calls' = calls
      BY <1>1 DEF Continue
    <2>2. << >> \in Seq(Kind)
      OBVIOUS
    <2>3. TypeOK'
      BY <2>1, <2>2 DEF Inv, TypeOK
    <2>4. TypeSafeCalls'
      BY <2>1 DEF Inv, TypeSafeCalls, Fits
    <2> QED BY <2>1, <2>3, <2>4 DEF Inv, ChainInv, RunsOwnArguments, FailsForAReason, Errors
  <1>2. CASE UNCHANGED vars
    <2>1. TypeOK' /\ ran' \in Seq(Seq(Arg)) /\ TypeSafeCalls'
      BY <1>2 DEF Inv, TypeOK, TypeSafeCalls, Fits, vars
    <2>2. RunsOwnArguments' /\ FailsForAReason'
      BY <1>2 DEF Inv, RunsOwnArguments, FailsForAReason, Corresponds, Fits, vars
    <2>3. ChainInv'
      BY <1>2 DEF Inv, ChainInv, Holds, Bound, Fits, vars
    <2> QED BY <2>1, <2>2, <2>3 DEF Inv
  <1> QED BY <1>1, <1>2 DEF Finished

LEMMA InvNext == Inv /\ [Next]_vars => Inv'
  BY InvBuild, InvBindNext, InvFails, InvCall, InvBetween DEF Next

(* A link of a chain only ever holds a converted argument: perform_        *)
(* conversion's result is cast before it is bound.                         *)
THEOREM CTypeCorrect == Spec => []TypeOK
  <1>1. Inv => TypeOK
    BY DEF Inv
  <1> QED BY <1>1, InvInit, InvNext, PTL DEF Spec

(* The promise of the README: whatever was passed, now or in calls that    *)
(* failed half way, a C++ function runs with one argument per parameter,   *)
(* each of a type the parameter allows.                                    *)
THEOREM CallsAreTypeSafe == Spec => []TypeSafeCalls
  <1>1. Inv => TypeSafeCalls
    BY DEF Inv
  <1> QED BY <1>1, InvInit, InvNext, PTL DEF Spec

(* The arguments a function runs with are those of the very call.          *)
THEOREM CallsRunOwnArguments == Spec => []RunsOwnArguments
  <1>1. Inv => RunsOwnArguments
    BY DEF Inv
  <1> QED BY <1>1, InvInit, InvNext, PTL DEF Spec

(* A call of a function that has parameters fails only if the arguments    *)
(* do not correspond to them, and succeeds only if they do; the exception  *)
(* says which way they did not.                                            *)
THEOREM FailuresHaveReasons == Spec => []FailsForAReason
  <1>1. Inv => FailsForAReason
    BY DEF Inv
  <1> QED BY <1>1, InvInit, InvNext, PTL DEF Spec
=============================================================================
