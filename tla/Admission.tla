------------------------------ MODULE Admission ------------------------------
(***************************************************************************)
(* PrepareConfig of config.go with the admission policy of                 *)
(* config_limits.go: the typed input is validated, an application resolver *)
(* turns the DSN into a native configuration, typed values override it, an *)
(* application hook edits it, and the result is validated again.           *)
(*                                                                         *)
(* Durations are in seconds, sizes in bytes or entries, with the code's    *)
(* own constants.  Strings, the collections of the native configuration    *)
(* and the DSN are represented by their lengths.  Errors are sets of       *)
(* sentinels, {} is nil; the field a refusal names is left out.            *)
(***************************************************************************)
EXTENDS Integers, Sequences

CONSTANTS
  Inputs,    \* the typed configurations offered
  Natives,   \* the native configurations a resolver may return
  Edits,     \* the values an edit of the hook may leave in a field
  MaxEdits   \* bound: edits of one run of the hook

WrapperTimeouts == {"acquire_timeout", "shutdown_timeout"}
NativeTimeouts  == {"connect_timeout", "ping_timeout"}
Lifetimes       == {"max_conn_lifetime", "max_conn_idle_time",
                    "health_check_period"}
Sizes           == {"max_conns", "min_conns", "min_idle_conns"}
NativeFields    == NativeTimeouts \cup Lifetimes \cup Sizes
                     \cup {"max_conn_lifetime_jitter"}
InputFields     == NativeFields \cup WrapperTimeouts
                     \cup {"config_resolution_timeout"}

\* What a native configuration is charged for.
ShapeFields == {"fallbacks", "runtime_params", "string_bytes",
                "statement_cache", "description_cache", "message_body"}
LimitFields == ShapeFields \cup {"dsn_bytes"}

Hosts == {"primary", "fallback"}

MaximumConfigTimeout   == 3600
MaximumPoolLifetime    == 30 * 24 * 3600
MaximumPoolConnections == 1024

DefaultLimit ==
  [f \in LimitFields |->
     CASE f = "dsn_bytes"      -> 8192
       [] f = "fallbacks"      -> 16
       [] f = "runtime_params" -> 128
       [] f = "string_bytes"   -> 65536
       [] f = "message_body"   -> 8388608
       [] OTHER                -> 1024]

\* Only the message body may be raised above its default.
LimitCeiling == [DefaultLimit EXCEPT !["message_body"] = 1073741822]

Default ==
  [f \in InputFields |->
     CASE f = "ping_timeout"             -> 2
       [] f = "shutdown_timeout"         -> 10
       [] f = "max_conns"                -> 10
       [] f = "max_conn_lifetime"        -> 3600
       [] f = "max_conn_lifetime_jitter" -> 300
       [] f = "max_conn_idle_time"       -> 1800
       [] f = "health_check_period"      -> 60
       [] f \in {"min_conns", "min_idle_conns"} -> 0
       [] OTHER                          -> 5]

Native == [value : [NativeFields -> Int], shape : [ShapeFields -> Int],
           tls : [Hosts -> {"off", "dsn", "app"} \cup Hosts],
           afterConnect : Seq({"native", "session"})]

\* tlsConfig is the server name of TLS.Config, or "nil" without one.
Input == [value : [InputFields -> Int], limits : [LimitFields -> Int],
          dsn : Nat, resolver : BOOLEAN, configure : BOOLEAN,
          startup : {"lazy", "ping", "unknown"},
          tlsMode : {"dsn", "disable", "require", "unknown"},
          tlsConfig : {"nil", "", "app"}, sessionInit : BOOLEAN]

ASSUME AdmissionAssumption ==
  /\ Inputs \subseteq Input
  /\ Natives \subseteq Native
  /\ \A n \in Natives : n.afterConnect \in {<<>>, <<"native">>}
  /\ Edits \subseteq Int
  /\ MaxEdits \in Nat

VARIABLES
  pc,      \* "entry", "resolve", "configure", "admit" or "done"
  input,   \* the typed configuration
  ctx,     \* "nil", "live", "canceled" or "deadline"
  config,  \* the native configuration
  edited,  \* the number of edits the hook has made
  result   \* the error returned

vars == <<pc, input, ctx, config, edited, result>>

\* The configuration while there is none.
NoConfig == [value |-> [f \in NativeFields |-> 0],
             shape |-> [f \in ShapeFields |-> 0],
             tls |-> [h \in Hosts |-> "off"], afterConnect |-> <<>>]

Init ==
  /\ pc = "entry"
  /\ input \in Inputs
  /\ ctx \in {"nil", "live", "canceled", "deadline"}
  /\ config = NoConfig
  /\ edited = 0
  /\ result = {}

-----------------------------------------------------------------------------
\* Mutant: the text of the context instead of its sentinel.
CtxText == {ctx}

CtxCause == IF ctx = "canceled" THEN {"Canceled"} ELSE {"DeadlineExceeded"}

valueOrDefault(v, d) == IF v = 0 THEN d ELSE v

admitted(l) == [f \in LimitFields |-> valueOrDefault(l[f], DefaultLimit[f])]

\* Mutant: only what goes into the native configuration is looked at.
negativeNativeField(v) == \E f \in NativeFields : v[f] < 0

invalidNegativeField(v) == \E f \in InputFields : v[f] < 0

\* The checks of PrepareConfig before the resolver is called.
InputAdmitted(i) ==
  /\ i.resolver
  /\ \A f \in LimitFields : i.limits[f] \in 0 .. LimitCeiling[f]
  /\ i.dsn \in 1 .. admitted(i.limits)["dsn_bytes"]
  /\ ~invalidNegativeField(i.value)
  /\ \A f \in WrapperTimeouts : i.value[f] <= MaximumConfigTimeout
  /\ i.startup # "unknown"
  /\ i.tlsMode # "unknown"
  /\ i.tlsMode = "require" => i.tlsConfig # "nil"
  /\ valueOrDefault(i.value["config_resolution_timeout"],
                    Default["config_resolution_timeout"])
       \in 1 .. MaximumConfigTimeout

admitNativeShape(c, l) == \A f \in ShapeFields : c.shape[f] \in 0 .. l[f]

admitNativePolicy(c, startup) ==
  /\ c.shape["message_body"] > 0
  /\ c.value["max_conns"] \in 1 .. MaximumPoolConnections
  /\ \A f \in {"min_conns", "min_idle_conns"} :
       /\ c.value[f] \in 0 .. c.value["max_conns"]
       /\ startup = "lazy" => c.value[f] = 0
  /\ \A f \in NativeTimeouts : c.value[f] \in 1 .. MaximumConfigTimeout
  /\ \A f \in Lifetimes : c.value[f] \in 1 .. MaximumPoolLifetime
  /\ c.value["max_conn_lifetime_jitter"] \in 0 .. c.value["max_conn_lifetime"]

\* Mutant: one TLS configuration is shared by the hosts, the first names it.
tlsConfigShared(name, h) == IF name = "" THEN "primary" ELSE name

\* A clone per host, which verifies that host unless the application named one.
tlsConfigForHost(name, h) == IF name = "" THEN h ELSE name

applyTLSConfig(t, i) ==
  CASE i.tlsMode = "disable" -> [h \in Hosts |-> "off"]
    [] i.tlsMode = "require" -> [h \in Hosts |-> tlsConfigForHost(i.tlsConfig, h)]
    [] OTHER                 -> t

\* The typed values, the message allowance and TLS on a resolved configuration.
Typed(c, i) ==
  [c EXCEPT
     !.value = [f \in NativeFields |-> valueOrDefault(i.value[f], Default[f])],
     !.shape["message_body"] =
        valueOrDefault(@, admitted(i.limits)["message_body"]),
     !.tls = applyTLSConfig(@, i)]

\* Mutant: the session hook takes the place of a native one.
composeSessionInitAlone(c) ==
  IF input.sessionInit THEN [c EXCEPT !.afterConnect = <<"session">>] ELSE c

\* A native AfterConnect hook runs first, then the session hook.
composeSessionInit(c) ==
  IF input.sessionInit THEN [c EXCEPT !.afterConnect = Append(@, "session")]
                       ELSE c

-----------------------------------------------------------------------------
Return(e) == pc' = "done" /\ result' = e

Proceed(p) == pc' = p /\ UNCHANGED result

PrepareConfig ==
  /\ pc = "entry"
  /\ CASE ctx = "nil" -> Return({"ContextRequired"})
       [] ctx \in {"canceled", "deadline"} -> Return(CtxCause)
       [] ctx = "live" -> IF InputAdmitted(input) THEN Proceed("resolve")
                                                  ELSE Return({"Config"})
  /\ UNCHANGED <<input, ctx, config, edited>>

\* The resolver fails, or returns no configuration: its cause is withheld,
\* and the end of the context takes precedence.
ResolveFails ==
  /\ pc = "resolve"
  /\ Return(IF ctx = "live" THEN {"Config"} ELSE CtxCause)
  /\ UNCHANGED <<input, ctx, config, edited>>

Resolve ==
  /\ pc = "resolve"
  /\ CASE ctx # "live" -> Return(CtxCause) /\ UNCHANGED config
       [] ctx = "live" ->
            \E n \in Natives :
              LET c == Typed(n, input)
              IN  IF /\ admitNativeShape(n, admitted(input.limits))
                     /\ c.value["min_conns"] <= c.value["max_conns"]
                     /\ c.value["min_idle_conns"] <= c.value["max_conns"]
                    THEN Proceed("configure") /\ config' = c
                    ELSE Return({"Config"}) /\ UNCHANGED config
  /\ UNCHANGED <<input, ctx, edited>>

\* Configure runs: it may change any field, any number of times.
Edit ==
  /\ pc = "configure" /\ input.configure /\ edited < MaxEdits
  /\ edited' = edited + 1
  /\ \/ \E f \in NativeFields, v \in Edits : config' = [config EXCEPT !.value[f] = v]
     \/ \E f \in ShapeFields, v \in Edits : config' = [config EXCEPT !.shape[f] = v]
     \/ config' = [config EXCEPT !.afterConnect = <<"native">>]
     \/ \E h \in Hosts : config' = [config EXCEPT !.tls[h] = "off"]
  /\ UNCHANGED <<pc, input, ctx, result>>

ConfigureReturns ==
  /\ pc = "configure"
  /\ IF input.configure /\ ctx # "live"
       THEN Return(CtxCause)
       ELSE Proceed("admit") \/ (input.configure /\ Return({"Config", "Hook"}))
  /\ UNCHANGED <<input, ctx, config, edited>>

\* Mutant: the result of the hook is not validated again.
AdmitUnchecked ==
  /\ pc = "admit"
  /\ IF ctx # "live" THEN Return(CtxCause) /\ UNCHANGED config
                     ELSE Return({}) /\ config' = composeSessionInit(config)
  /\ UNCHANGED <<input, ctx, edited>>

\* Mutant: the context is not looked at after the last callback.
AdmitLate ==
  /\ pc = "admit"
  /\ IF /\ admitNativeShape(config, admitted(input.limits))
        /\ admitNativePolicy(config, input.startup)
       THEN Return({}) /\ config' = composeSessionInit(config)
       ELSE Return({"Config"}) /\ UNCHANGED config
  /\ UNCHANGED <<input, ctx, edited>>

Admit ==
  /\ pc = "admit"
  /\ CASE ~ /\ admitNativeShape(config, admitted(input.limits))
            /\ admitNativePolicy(config, input.startup)
            -> Return({"Config"}) /\ UNCHANGED config
       [] OTHER
            -> IF ctx # "live"
                 THEN Return(CtxCause) /\ UNCHANGED config
                 ELSE Return({}) /\ config' = composeSessionInit(config)
  /\ UNCHANGED <<input, ctx, edited>>

\* The caller's context, or the preparation timeout, ends.
EndCtx ==
  /\ pc \notin {"entry", "done"} /\ ctx = "live"
  /\ ctx' \in {"canceled", "deadline"}
  /\ UNCHANGED <<pc, input, config, edited, result>>

Terminated == pc = "done" /\ UNCHANGED vars

Next == \/ PrepareConfig \/ ResolveFails \/ Resolve \/ Edit \/ ConfigureReturns
        \/ Admit \/ EndCtx \/ Terminated

Spec == Init /\ [][Next]_vars

-----------------------------------------------------------------------------
\* The timeout that newPool is given for Acquire, Ping and Shutdown.
WrapperTimeout(f) == valueOrDefault(input.value[f], Default[f])

Admitted == pc = "done" /\ result = {}

\* Every variable has its type.
TypeOK ==
  /\ pc \in {"entry", "resolve", "configure", "admit", "done"}
  /\ input \in Input
  /\ ctx \in {"nil", "live", "canceled", "deadline"}
  /\ config \in Native
  /\ edited \in Nat
  /\ result \in SUBSET {"ContextRequired", "Canceled", "DeadlineExceeded",
                        "Config", "Hook"}

(***************************************************************************)
(* Whatever the resolver returned and the hook left behind, an admitted    *)
(* configuration is finite: every budget, size, timeout and lifetime is    *)
(* within its bound, no minimum exceeds the maximum, and lazy startup      *)
(* creates no connection by itself (config.go:258-263,                     *)
(* config_limits.go:129-160).                                              *)
(***************************************************************************)
AdmittedIsFinite ==
  Admitted =>
    /\ config.shape["message_body"] >= 1
    /\ \A f \in ShapeFields :
         config.shape[f] >= 0 /\ config.shape[f] <= LimitCeiling[f]
    /\ config.value["max_conns"] >= 1 /\ config.value["max_conns"] <= 1024
    /\ \A f \in {"min_conns", "min_idle_conns"} :
         /\ config.value[f] >= 0
         /\ config.value[f] <= config.value["max_conns"]
         /\ config.value[f] > 0 => input.startup = "ping"
    /\ \A f \in NativeTimeouts : config.value[f] >= 1 /\ config.value[f] <= 3600
    /\ \A f \in Lifetimes : config.value[f] >= 1 /\ config.value[f] <= 2592000
    /\ config.value["max_conn_lifetime_jitter"] >= 0
    /\ config.value["max_conn_lifetime_jitter"]
         <= config.value["max_conn_lifetime"]

(***************************************************************************)
(* Every wait of the pool that Connect builds from an admitted input is    *)
(* bounded: the timeouts it takes from the input, which the hook cannot    *)
(* reach, are positive, so that boundedContext always arms a timer         *)
(* (config.go:178-191, pool.go:152-154, 366, 386).                         *)
(***************************************************************************)
WaitsHaveTimers ==
  Admitted =>
    /\ \A f \in WrapperTimeouts \cup {"ping_timeout"} : WrapperTimeout(f) >= 1
    /\ \A f \in WrapperTimeouts : WrapperTimeout(f) <= 3600

(***************************************************************************)
(* A configuration is never handed out after the context ended, in the     *)
(* resolver, in the hook or between them (config.go:206-217, 247, 264).    *)
(***************************************************************************)
AdmittedInTime == Admitted => ctx = "live"

(***************************************************************************)
(* Required TLS holds for every host, fallbacks included, and each host is *)
(* verified under the application's name or its own, never under another   *)
(* host's, as long as no hook edits it (config.go:273-297).                *)
(***************************************************************************)
TLSNamesOwnHost ==
  Admitted /\ input.tlsMode = "require" /\ edited = 0 =>
    \A h \in Hosts : config.tls[h] \in {"app", h}

(***************************************************************************)
(* An admitted configuration runs the session hook last on every new       *)
(* connection, and keeps the native hook that Configure or the resolver    *)
(* installed in front of it (config.go:268, 341-359).                      *)
(***************************************************************************)
SessionInitLast ==
  [][pc # "done" /\ Admitted' =>
       /\ input.sessionInit =>
            LET hooks == config'.afterConnect
            IN  Len(hooks) > 0 /\ hooks[Len(hooks)] = "session"
       /\ Len(config.afterConnect) > 0 =>
            Len(config'.afterConnect) > 0 /\ config'.afterConnect[1] = "native"
    ]_vars

-----------------------------------------------------------------------------
(***************************************************************************)
(* docs/migration.md:78: connection, preparation, ping, acquisition and    *)
(* shutdown timeouts are positive and at most one hour.  The ping timeout  *)
(* is checked in the native configuration only, where the hook can lower   *)
(* it; the pool keeps the one of the input (pool.go:153).                  *)
(***************************************************************************)
PingTimeoutBounded == Admitted => WrapperTimeout("ping_timeout") <= 3600
=============================================================================
