--------------------------- MODULE AdmissionProofs ---------------------------
(***************************************************************************)
(* Proofs about Admission for every typed input, every native              *)
(* configuration a resolver may return and every edit of the hook.         *)
(***************************************************************************)
EXTENDS Admission, TLAPS

-----------------------------------------------------------------------------
(***************************************************************************)
(* The inductive invariant: past the first validation the input is         *)
(* admitted, and a configuration is returned only after the second one.    *)
(***************************************************************************)
InputInv == pc \in {"resolve", "configure", "admit"} => InputAdmitted(input)

OutputInv ==
  Admitted =>
    /\ InputAdmitted(input)
    /\ admitNativeShape(config, admitted(input.limits))
    /\ admitNativePolicy(config, input.startup)
    /\ ctx = "live"

IInv == TypeOK /\ InputInv /\ OutputInv

-----------------------------------------------------------------------------
(***************************************************************************)
(* What it is to lie in an interval.  Cited where the bounds are large     *)
(* numerals, which the provers would otherwise enumerate.                  *)
(***************************************************************************)
LEMMA InInterval ==
  ASSUME NEW a \in Int, NEW b \in Int, NEW x \in a .. b
  PROVE  x \in Int /\ x >= a /\ x <= b
OBVIOUS

(***************************************************************************)
(* The limits that an admitted input stands for are within their ceilings. *)
(***************************************************************************)
LEMMA LimitsBelowCeiling ==
  ASSUME NEW i \in Input, InputAdmitted(i), NEW f \in LimitFields
  PROVE  /\ admitted(i.limits)[f] \in Nat
         /\ admitted(i.limits)[f] <= LimitCeiling[f]
<1>1. i.limits[f] \in 0 .. LimitCeiling[f]
  BY DEF InputAdmitted
<1>2. /\ DefaultLimit[f] \in Nat
      /\ LimitCeiling[f] \in Nat
      /\ DefaultLimit[f] <= LimitCeiling[f]
  BY DEF DefaultLimit, LimitCeiling, LimitFields, ShapeFields
<1>3. admitted(i.limits)[f] = IF i.limits[f] = 0 THEN DefaultLimit[f] ELSE i.limits[f]
  BY DEF admitted, valueOrDefault
<1> QED
  BY <1>1, <1>2, <1>3

(***************************************************************************)
(* Typed overrides turn a native configuration into a native one.          *)
(***************************************************************************)
LEMMA TypedType ==
  ASSUME NEW n \in Native, NEW i \in Input, InputAdmitted(i)
  PROVE  Typed(n, i) \in Native
<1> DEFINE v == [f \in NativeFields |-> valueOrDefault(i.value[f], Default[f])]
           b == valueOrDefault(n.shape["message_body"],
                               admitted(i.limits)["message_body"])
           t == applyTLSConfig(n.tls, i)
<1>1. v \in [NativeFields -> Int]
  <2> SUFFICES ASSUME NEW f \in NativeFields
               PROVE  valueOrDefault(i.value[f], Default[f]) \in Int
    OBVIOUS
  <2>1. f \in InputFields
    BY DEF InputFields
  <2>2. i.value[f] \in Int
    BY <2>1 DEF Input
  <2>3. Default[f] \in Int
    BY <2>1 DEF Default
  <2> QED
    BY <2>2, <2>3 DEF valueOrDefault
<1>2. b \in Int
  <2>1. n.shape["message_body"] \in Int
    BY DEF Native, ShapeFields
  <2>2. admitted(i.limits)["message_body"] \in Nat
    BY LimitsBelowCeiling DEF LimitFields, ShapeFields
  <2> QED
    BY <2>1, <2>2 DEF valueOrDefault
<1>3. t \in [Hosts -> {"off", "dsn", "app"} \cup Hosts]
  <2>1. n.tls \in [Hosts -> {"off", "dsn", "app"} \cup Hosts]
    BY DEF Native
  <2>2. i.tlsMode = "require" => i.tlsConfig \in {"", "app"}
    BY DEF InputAdmitted, Input
  <2> QED
    BY <2>1, <2>2 DEF applyTLSConfig, tlsConfigForHost
<1>4. Typed(n, i) = [n EXCEPT !.value = v, !.shape["message_body"] = b, !.tls = t]
  BY DEF Typed
<1> DEFINE s == [n.shape EXCEPT !["message_body"] = b]
<1>5. s \in [ShapeFields -> Int]
  <2>1. n.shape \in [ShapeFields -> Int]
    BY DEF Native
  <2> HIDE DEF b
  <2> QED
    BY <1>2, <2>1
<1> HIDE DEF v, t, s
<1>6. /\ n \in [value : [NativeFields -> Int], shape : [ShapeFields -> Int],
                tls : [Hosts -> {"off", "dsn", "app"} \cup Hosts],
                afterConnect : Seq({"native", "session"})]
      /\ Typed(n, i) = [n EXCEPT !.value = v, !.shape = s, !.tls = t]
  BY <1>4 DEF Native, s
<1>7. Typed(n, i) = [value |-> v, shape |-> s, tls |-> t,
                     afterConnect |-> n.afterConnect]
  BY <1>6
<1>8. n.afterConnect \in Seq({"native", "session"})
  BY <1>6
<1> QED
  BY <1>1, <1>3, <1>5, <1>7, <1>8 DEF Native

(***************************************************************************)
(* The session hook changes neither values nor shape nor TLS, and comes    *)
(* after the hook that is there.                                           *)
(***************************************************************************)
LEMMA ComposeKeeps ==
  ASSUME NEW c \in Native
  PROVE  /\ composeSessionInit(c) \in Native
         /\ composeSessionInit(c).value = c.value
         /\ composeSessionInit(c).shape = c.shape
         /\ composeSessionInit(c).tls = c.tls
         /\ composeSessionInit(c).afterConnect =
              IF input.sessionInit THEN Append(c.afterConnect, "session")
                                   ELSE c.afterConnect
<1> DEFINE hooks == Append(c.afterConnect, "session")
<1>1. c.afterConnect \in Seq({"native", "session"})
  BY DEF Native
<1>2. hooks \in Seq({"native", "session"})
  BY <1>1
<1>3. CASE input.sessionInit
  <2>1. composeSessionInit(c) = [c EXCEPT !.afterConnect = hooks]
    BY <1>3, Zenon DEF composeSessionInit
  <2>2. \A x : [c EXCEPT !.afterConnect = x].afterConnect = x
    BY DEF Native
  <2>3. composeSessionInit(c).afterConnect = hooks
    BY <2>1, <2>2, Zenon
  <2>4. hooks = Append(c.afterConnect, "session")
    OBVIOUS
  <2> HIDE DEF hooks
  <2>5. /\ composeSessionInit(c) \in Native
        /\ composeSessionInit(c).value = c.value
        /\ composeSessionInit(c).shape = c.shape
        /\ composeSessionInit(c).tls = c.tls
    BY <1>2, <2>1 DEF Native
  <2> QED
    BY <1>3, <2>3, <2>4, <2>5, Zenon
<1>4. CASE ~ input.sessionInit
  BY <1>4 DEF composeSessionInit
<1> QED
  BY <1>3, <1>4

-----------------------------------------------------------------------------
LEMMA InitInv == Init => IInv
<1> SUFFICES ASSUME Init PROVE IInv
  OBVIOUS
<1>1. NoConfig \in Native
  BY DEF NoConfig, Native
<1> QED
  BY <1>1, AdmissionAssumption DEF Init, IInv, TypeOK, InputInv, OutputInv, Admitted

(***************************************************************************)
(* Every step keeps the invariant.                                         *)
(***************************************************************************)
LEMMA StepInv ==
  ASSUME IInv, [Next]_vars
  PROVE  IInv'
<1> USE DEF IInv, TypeOK, InputInv, OutputInv, Admitted
<1>1. CASE PrepareConfig
  BY <1>1 DEF PrepareConfig, Return, Proceed, CtxCause, InputAdmitted
<1>2. CASE ResolveFails
  BY <1>2 DEF ResolveFails, Return, CtxCause
<1>3. CASE Resolve
  <2>1. UNCHANGED <<input, ctx, edited>> /\ InputAdmitted(input)
    BY <1>3 DEF Resolve
  <2>2. CASE ctx # "live"
    BY <1>3, <2>2 DEF Resolve, Return, CtxCause
  <2>3. CASE ctx = "live"
    <3>1. PICK n \in Natives :
            \/ Proceed("configure") /\ config' = Typed(n, input)
            \/ Return({"Config"}) /\ UNCHANGED config
      BY <1>3, <2>3, Zenon DEF Resolve
    <3>2. Typed(n, input) \in Native
      BY <2>1, TypedType, AdmissionAssumption
    <3> QED
      BY <2>1, <3>1, <3>2 DEF Return, Proceed
  <2> QED
    BY <2>2, <2>3
<1>4. CASE Edit
  <2>1. UNCHANGED <<pc, input, ctx, result>> /\ edited' \in Nat /\ pc = "configure"
    BY <1>4 DEF Edit
  <2>2. config' \in Native
    <3>1. ASSUME NEW f \in NativeFields, NEW v \in Edits,
                 config' = [config EXCEPT !.value[f] = v]
          PROVE  config' \in Native
      BY <3>1, AdmissionAssumption DEF Native
    <3>2. ASSUME NEW f \in ShapeFields, NEW v \in Edits,
                 config' = [config EXCEPT !.shape[f] = v]
          PROVE  config' \in Native
      BY <3>2, AdmissionAssumption DEF Native
    <3>3. ASSUME config' = [config EXCEPT !.afterConnect = <<"native">>]
          PROVE  config' \in Native
      <4> DEFINE hooks == <<"native">>
      <4>1. hooks \in Seq({"native", "session"})
        OBVIOUS
      <4>2. config' = [config EXCEPT !.afterConnect = hooks]
        BY <3>3
      <4> HIDE DEF hooks
      <4> QED
        BY <4>1, <4>2 DEF Native
    <3>4. ASSUME NEW h \in Hosts, config' = [config EXCEPT !.tls[h] = "off"]
          PROVE  config' \in Native
      BY <3>4 DEF Native
    <3> QED
      BY <1>4, <3>1, <3>2, <3>3, <3>4 DEF Edit
  <2> QED
    BY <2>1, <2>2
<1>5. CASE ConfigureReturns
  BY <1>5 DEF ConfigureReturns, Return, Proceed, CtxCause
<1>6. CASE Admit
  <2>1. UNCHANGED <<input, ctx, edited>> /\ InputAdmitted(input)
    BY <1>6 DEF Admit
  <2>2. CASE /\ admitNativeShape(config, admitted(input.limits))
             /\ admitNativePolicy(config, input.startup)
             /\ ctx = "live"
    <3>1. Return({}) /\ config' = composeSessionInit(config)
      BY <1>6, <2>2 DEF Admit
    <3>2. config' \in Native /\ config'.value = config.value /\ config'.shape = config.shape
      BY <3>1, ComposeKeeps
    <3>3. /\ admitNativeShape(config', admitted(input.limits))
          /\ admitNativePolicy(config', input.startup)
      BY <2>2, <3>2 DEF admitNativeShape, admitNativePolicy
    <3> QED
      BY <2>1, <2>2, <3>1, <3>2, <3>3 DEF Return
  <2>3. CASE ~ /\ admitNativeShape(config, admitted(input.limits))
               /\ admitNativePolicy(config, input.startup)
               /\ ctx = "live"
    <3>1. /\ UNCHANGED config
          /\ Return({"Config"}) \/ (ctx # "live" /\ Return(CtxCause))
      BY <1>6, <2>3 DEF Admit
    <3> QED
      BY <2>1, <3>1 DEF Return, CtxCause
  <2> QED
    BY <2>2, <2>3
<1>7. CASE EndCtx
  BY <1>7 DEF EndCtx
<1>8. CASE Terminated
  BY <1>8 DEF Terminated, vars
<1>9. CASE UNCHANGED vars
  BY <1>9 DEF vars
<1> QED
  BY <1>1, <1>2, <1>3, <1>4, <1>5, <1>6, <1>7, <1>8, <1>9 DEF Next

(***************************************************************************)
(* The invariant holds in every behaviour of PrepareConfig.                *)
(***************************************************************************)
THEOREM Invariance == Spec => []IInv
BY InitInv, StepInv, PTL DEF Spec

(***************************************************************************)
(* Whatever the resolver returns and the hook leaves behind, what          *)
(* PrepareConfig hands out is within the finite policy.                    *)
(***************************************************************************)
THEOREM AdmitsOnlyFinite == Spec => []AdmittedIsFinite
<1>1. ASSUME IInv PROVE AdmittedIsFinite
  <2> SUFFICES ASSUME Admitted PROVE AdmittedIsFinite
    BY DEF AdmittedIsFinite
  <2>1. /\ input \in Input /\ InputAdmitted(input)
        /\ config \in Native
        /\ admitNativeShape(config, admitted(input.limits))
        /\ admitNativePolicy(config, input.startup)
    BY <1>1 DEF IInv, TypeOK, OutputInv
  <2>2. ASSUME NEW f \in ShapeFields
        PROVE  config.shape[f] >= 0 /\ config.shape[f] <= LimitCeiling[f]
    <3>1. f \in LimitFields
      BY DEF LimitFields
    <3>2. /\ admitted(input.limits)[f] \in Nat
          /\ admitted(input.limits)[f] <= LimitCeiling[f]
      BY <2>1, <3>1, LimitsBelowCeiling
    <3>3. LimitCeiling[f] \in Nat
      BY <3>1 DEF LimitCeiling, DefaultLimit, LimitFields, ShapeFields
    <3> QED
      BY <2>1, <3>2, <3>3 DEF admitNativeShape
  <2>3. input.startup # "unknown" /\ input.startup \in {"lazy", "ping", "unknown"}
    BY <2>1 DEF InputAdmitted, Input
  <2>4. /\ config.shape["message_body"] \in Int
        /\ \A f \in NativeFields : config.value[f] \in Int
    BY <2>1 DEF Native, ShapeFields
  <2>5. config.shape["message_body"] >= 1
    <3>1. config.shape["message_body"] > 0
      BY <2>1, Zenon DEF admitNativePolicy
    <3> QED
      BY <2>4, <3>1
  <2>6. config.value["max_conns"] >= 1 /\ config.value["max_conns"] <= 1024
    <3>1. config.value["max_conns"] \in 1 .. MaximumPoolConnections
      BY <2>1, Zenon DEF admitNativePolicy
    <3>2. MaximumPoolConnections = 1024
      BY DEF MaximumPoolConnections
    <3>3. MaximumPoolConnections \in Int
      BY <3>2, SMT
    <3>4. config.value["max_conns"] >= 1 /\ config.value["max_conns"] <= MaximumPoolConnections
      BY <3>1, <3>3, InInterval, SMT
    <3> QED
      BY <3>2, <3>4, SMT
  <2>7. ASSUME NEW f \in {"min_conns", "min_idle_conns"}
        PROVE  /\ config.value[f] >= 0
               /\ config.value[f] <= config.value["max_conns"]
               /\ config.value[f] > 0 => input.startup = "ping"
    <3>1. /\ config.value[f] \in 0 .. config.value["max_conns"]
          /\ input.startup = "lazy" => config.value[f] = 0
      BY <2>1, Zenon DEF admitNativePolicy
    <3> QED
      BY <2>3, <3>1
  <2>8. ASSUME NEW f \in NativeTimeouts
        PROVE  config.value[f] >= 1 /\ config.value[f] <= 3600
    <3>1. config.value[f] \in 1 .. MaximumConfigTimeout
      BY <2>1, Zenon DEF admitNativePolicy
    <3>2. MaximumConfigTimeout = 3600
      BY DEF MaximumConfigTimeout
    <3>3. MaximumConfigTimeout \in Int
      BY <3>2, SMT
    <3>4. config.value[f] >= 1 /\ config.value[f] <= MaximumConfigTimeout
      BY <3>1, <3>3, InInterval, SMT
    <3> QED
      BY <3>2, <3>4, SMT
  <2>9. ASSUME NEW f \in Lifetimes
        PROVE  config.value[f] >= 1 /\ config.value[f] <= 2592000
    <3>1. config.value[f] \in 1 .. MaximumPoolLifetime
      BY <2>1, Zenon DEF admitNativePolicy
    <3>2. MaximumPoolLifetime = 2592000
      BY DEF MaximumPoolLifetime
    <3>3. MaximumPoolLifetime \in Int
      BY <3>2, SMT
    <3>4. config.value[f] >= 1 /\ config.value[f] <= MaximumPoolLifetime
      BY <3>1, <3>3, InInterval, SMT
    <3> QED
      BY <3>2, <3>4, SMT
  <2>10. /\ config.value["max_conn_lifetime_jitter"] >= 0
         /\ config.value["max_conn_lifetime_jitter"]
              <= config.value["max_conn_lifetime"]
    <3>1. config.value["max_conn_lifetime_jitter"]
            \in 0 .. config.value["max_conn_lifetime"]
      BY <2>1, Zenon DEF admitNativePolicy
    <3>2. config.value["max_conn_lifetime"] \in Int
      BY <2>4 DEF NativeFields, Lifetimes
    <3> QED
      BY <3>1, <3>2
  <2> QED
    BY <2>2, <2>5, <2>6, <2>7, <2>8, <2>9, <2>10, SMT DEF AdmittedIsFinite
<1> QED
  BY <1>1, Invariance, PTL

(***************************************************************************)
(* The pool built from an admitted input has a positive bound for every    *)
(* wait, so the derived contexts of pool.go always carry a timer.          *)
(***************************************************************************)
THEOREM TimersAlwaysArmed == Spec => []WaitsHaveTimers
<1>1. ASSUME IInv PROVE WaitsHaveTimers
  <2> SUFFICES ASSUME Admitted PROVE WaitsHaveTimers
    BY DEF WaitsHaveTimers
  <2>1. input \in Input /\ InputAdmitted(input)
    BY <1>1 DEF IInv, TypeOK, OutputInv
  <2>2. ASSUME NEW f \in InputFields
        PROVE  input.value[f] \in Int /\ input.value[f] >= 0
    <3>1. input.value[f] \in Int
      BY <2>1 DEF Input
    <3>2. ~ (input.value[f] < 0)
      BY <2>1, Zenon DEF InputAdmitted, invalidNegativeField
    <3> QED
      BY <3>1, <3>2
  <2>3. \A f \in WrapperTimeouts : input.value[f] <= 3600
    <3>1. \A f \in WrapperTimeouts : input.value[f] <= MaximumConfigTimeout
      BY <2>1, Zenon DEF InputAdmitted
    <3> QED
      BY <3>1, SMT DEF MaximumConfigTimeout
  <2>4. /\ Default["acquire_timeout"] = 5
        /\ Default["shutdown_timeout"] = 10
        /\ Default["ping_timeout"] = 2
    BY DEF Default, InputFields, NativeFields, WrapperTimeouts, NativeTimeouts
  <2> QED
    BY <2>2, <2>3, <2>4 DEF WaitsHaveTimers, WrapperTimeout, valueOrDefault,
       InputFields, NativeFields, WrapperTimeouts, NativeTimeouts
<1> QED
  BY <1>1, Invariance, PTL

(***************************************************************************)
(* No configuration is handed out once the context has ended.              *)
(***************************************************************************)
THEOREM AdmitsInTime == Spec => []AdmittedInTime
<1>1. IInv => AdmittedInTime
  BY DEF IInv, OutputInv, AdmittedInTime
<1> QED
  BY <1>1, Invariance, PTL

\* The variables of PrepareConfig keep their types.
THEOREM TypeCorrect == Spec => []TypeOK
<1>1. IInv => TypeOK
  BY DEF IInv
<1> QED
  BY <1>1, Invariance, PTL

-----------------------------------------------------------------------------
(***************************************************************************)
(* TLS as applyTLSConfig left it, and one native hook at most, until the   *)
(* session hook is composed.                                               *)
(***************************************************************************)
TLSInv ==
  (pc \in {"configure", "admit"} \/ Admitted) /\ input.tlsMode = "require" /\ edited = 0 =>
    \A h \in Hosts : config.tls[h] \in {"app", h}

HookInv == pc # "done" => config.afterConnect \in {<<>>, <<"native">>}

\* What the resolver's configuration keeps and gets from the typed input.
LEMMA TypedKeeps ==
  ASSUME NEW n \in Native, NEW i \in Input, InputAdmitted(i)
  PROVE  /\ Typed(n, i).afterConnect = n.afterConnect
         /\ i.tlsMode = "require" => \A h \in Hosts : Typed(n, i).tls[h] \in {"app", h}
<1> DEFINE v == [f \in NativeFields |-> valueOrDefault(i.value[f], Default[f])]
           b == valueOrDefault(n.shape["message_body"],
                               admitted(i.limits)["message_body"])
           t == applyTLSConfig(n.tls, i)
<1>1. i.tlsMode = "require" => \A h \in Hosts : t[h] \in {"app", h}
  BY DEF InputAdmitted, Input, applyTLSConfig, tlsConfigForHost
<1>2. Typed(n, i) = [n EXCEPT !.value = v, !.shape["message_body"] = b, !.tls = t]
  BY DEF Typed
<1> HIDE DEF v, b, t
<1>3. Typed(n, i).afterConnect = n.afterConnect /\ Typed(n, i).tls = t
  BY <1>2 DEF Native
<1> QED
  BY <1>1, <1>3, Zenon

LEMMA TLSHookStep ==
  ASSUME IInv, TLSInv, HookInv, [Next]_vars
  PROVE  TLSInv' /\ HookInv'
<1> USE DEF TLSInv, HookInv, Admitted
<1>1. CASE PrepareConfig
  <2>1. ctx \in {"nil", "live", "canceled", "deadline"}
    BY DEF IInv, TypeOK
  <2> QED
    BY <1>1, <2>1 DEF PrepareConfig, Return, Proceed, CtxCause
<1>2. CASE ResolveFails
  BY <1>2 DEF ResolveFails, Return, CtxCause
<1>3. CASE Resolve
  <2>1. CASE ctx # "live"
    BY <1>3, <2>1 DEF Resolve, Return, CtxCause
  <2>2. CASE ctx = "live"
    <3>1. PICK n \in Natives :
            \/ Proceed("configure") /\ config' = Typed(n, input)
            \/ Return({"Config"}) /\ UNCHANGED config
      BY <1>3, <2>2, Zenon DEF Resolve
    <3>2. n \in Native /\ n.afterConnect \in {<<>>, <<"native">>}
      BY AdmissionAssumption
    <3>3. input \in Input /\ InputAdmitted(input) /\ input' = input
      BY <1>3 DEF Resolve, IInv, TypeOK, InputInv
    <3>4. /\ Typed(n, input).afterConnect = n.afterConnect
          /\ input.tlsMode = "require" =>
               \A h \in Hosts : Typed(n, input).tls[h] \in {"app", h}
      BY <3>2, <3>3, TypedKeeps
    <3>5. CASE Proceed("configure") /\ config' = Typed(n, input)
      BY <3>2, <3>3, <3>4, <3>5 DEF Proceed
    <3>6. CASE Return({"Config"}) /\ UNCHANGED config
      BY <3>6 DEF Return
    <3> QED
      BY <3>1, <3>5, <3>6
  <2> QED
    BY <2>1, <2>2
<1>4. CASE Edit
  <2>1. edited' # 0 /\ pc' = pc /\ pc # "done"
    BY <1>4 DEF Edit, IInv, TypeOK
  <2>2. config'.afterConnect \in {<<>>, <<"native">>}
    <3>1. config \in Native /\ config.afterConnect \in {<<>>, <<"native">>}
      BY <2>1 DEF IInv, TypeOK
    <3>2. \/ config'.afterConnect = config.afterConnect
          \/ config' = [config EXCEPT !.afterConnect = <<"native">>]
      BY <1>4, <3>1 DEF Edit, Native
    <3>3. \A x : [config EXCEPT !.afterConnect = x].afterConnect = x
      BY <3>1 DEF Native
    <3> QED
      BY <3>1, <3>2, <3>3, Zenon
  <2> QED
    BY <2>1, <2>2
<1>5. CASE ConfigureReturns
  BY <1>5 DEF ConfigureReturns, Return, Proceed, CtxCause
<1>6. CASE Admit
  <2>1. pc = "admit" /\ pc' = "done" /\ UNCHANGED <<input, edited>> /\ config \in Native
    BY <1>6 DEF Admit, Return, IInv, TypeOK
  <2>2. config' = config \/ config' = composeSessionInit(config)
    BY <1>6 DEF Admit
  <2>3. config'.tls = config.tls
    BY <2>1, <2>2, ComposeKeeps
  <2> QED
    BY <2>1, <2>3
<1>7. CASE EndCtx
  BY <1>7 DEF EndCtx
<1>8. CASE UNCHANGED vars
  BY <1>8 DEF vars
<1> QED
  BY <1>1, <1>2, <1>3, <1>4, <1>5, <1>6, <1>7, <1>8 DEF Next, Terminated

LEMMA TLSHookInvariance == Spec => [](IInv /\ TLSInv /\ HookInv)
<1>1. Init => IInv /\ TLSInv /\ HookInv
  BY InitInv DEF Init, TLSInv, HookInv, Admitted, NoConfig
<1>2. IInv /\ TLSInv /\ HookInv /\ [Next]_vars => (IInv /\ TLSInv /\ HookInv)'
  BY StepInv, TLSHookStep
<1> QED
  BY <1>1, <1>2, PTL DEF Spec

(***************************************************************************)
(* Required TLS reaches every host under its own name or the application's *)
(* (config.go:273-297).                                                    *)
(***************************************************************************)
THEOREM NamesOwnHost == Spec => []TLSNamesOwnHost
<1>1. TLSInv => TLSNamesOwnHost
  BY DEF TLSInv, TLSNamesOwnHost
<1> QED
  BY <1>1, TLSHookInvariance, PTL

(***************************************************************************)
(* The session hook runs last and displaces no native hook                 *)
(* (config.go:268, 341-359).                                               *)
(***************************************************************************)
THEOREM RunsSessionInitLast == Spec => SessionInitLast
<1> DEFINE hooks == config'.afterConnect
           Composed == pc # "done" /\ Admitted' =>
                         /\ input.sessionInit =>
                              Len(hooks) > 0 /\ hooks[Len(hooks)] = "session"
                         /\ Len(config.afterConnect) > 0 =>
                              Len(hooks) > 0 /\ hooks[1] = "native"
<1>1. ASSUME IInv, HookInv, [Next]_vars PROVE [Composed]_vars
  <2> SUFFICES ASSUME Next, pc # "done", Admitted'
               PROVE  /\ input.sessionInit =>
                           Len(hooks) > 0 /\ hooks[Len(hooks)] = "session"
                      /\ Len(config.afterConnect) > 0 =>
                           Len(hooks) > 0 /\ hooks[1] = "native"
    BY <1>1
  <2>1. Admit
    <3>1. pc' = "done" /\ result' = {} /\ ctx \in {"nil", "live", "canceled", "deadline"}
      BY <1>1 DEF Admitted, IInv, TypeOK
    <3>2. ~PrepareConfig /\ ~ResolveFails /\ ~ConfigureReturns
      BY <3>1 DEF PrepareConfig, ResolveFails, ConfigureReturns, Return, Proceed, CtxCause
    <3>3. ~Resolve
      BY <3>1 DEF Resolve, Return, Proceed, CtxCause
    <3>4. ~Edit /\ ~EndCtx /\ ~Terminated
      BY <3>1 DEF Edit, EndCtx, Terminated
    <3> QED
      BY <3>2, <3>3, <3>4 DEF Next
  <2>2. config' = composeSessionInit(config) /\ config \in Native
    BY <1>1, <2>1 DEF Admit, Return, CtxCause, Admitted, IInv, TypeOK
  <2>3. hooks = IF input.sessionInit THEN Append(config.afterConnect, "session")
                                     ELSE config.afterConnect
    BY <2>2, ComposeKeeps
  <2>4. config.afterConnect \in {<<>>, <<"native">>}
    BY <1>1 DEF HookInv
  <2> HIDE DEF hooks
  <2>5. CASE config.afterConnect = <<>>
    BY <2>3, <2>5
  <2>6. CASE config.afterConnect = <<"native">>
    BY <2>3, <2>6
  <2> QED
    BY <2>4, <2>5, <2>6
<1>2. Spec => [][Composed]_vars
  <2> HIDE DEF Composed
  <2> QED
    BY <1>1, TLSHookInvariance, PTL DEF Spec
<1> QED
  BY <1>2 DEF SessionInitLast
=============================================================================
