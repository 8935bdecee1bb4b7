----------------------------- MODULE MCAdmission -----------------------------
(***************************************************************************)
(* Admission for TLC.  The typed inputs differ from the zero Config in up  *)
(* to two numeric fields, or in one of the other settings; the values are  *)
(* those around the bounds of the policy.                                  *)
(***************************************************************************)
EXTENDS Admission

Choices == {-1, 1, 11, 1025, 3601, 2592001}

Zero == [value |-> [f \in InputFields |-> 0],
         limits |-> [f \in LimitFields |-> 0],
         dsn |-> 100, resolver |-> TRUE, configure |-> TRUE,
         startup |-> "lazy", tlsMode |-> "dsn", tlsConfig |-> "nil",
         sessionInit |-> FALSE]

MCInputs ==
  {[Zero EXCEPT !.value[f] = v, !.value[g] = w, !.startup = s] :
     f \in InputFields, g \in InputFields, v \in Choices, w \in Choices \cup {0},
     s \in {"lazy", "ping"}}
  \cup {[Zero EXCEPT !.limits[f] = v] :
          f \in LimitFields, v \in {-1, 1, 8388609, 1073741823}}
  \cup {[Zero EXCEPT !.tlsMode = m, !.tlsConfig = c, !.sessionInit = s,
                     !.configure = h] :
          m \in {"dsn", "disable", "require", "unknown"},
          c \in {"nil", "", "app"}, s \in BOOLEAN, h \in BOOLEAN}
  \cup {[Zero EXCEPT !.startup = "unknown"], [Zero EXCEPT !.resolver = FALSE],
        [Zero EXCEPT !.dsn = 0], [Zero EXCEPT !.dsn = 8193]}

Parsed == [value |-> [f \in NativeFields |-> 4],
           shape |-> [f \in ShapeFields |-> IF f = "message_body" THEN 0 ELSE 1],
           tls |-> [h \in Hosts |-> IF h = "primary" THEN "dsn" ELSE "off"],
           afterConnect |-> <<>>]

MCNatives ==
  {Parsed, [Parsed EXCEPT !.afterConnect = <<"native">>],
   [Parsed EXCEPT !.shape["fallbacks"] = 17],
   [Parsed EXCEPT !.shape["message_body"] = 8388609]}

MCEdits == {-1, 0, 1, 1025, 3601, 2592001, 8388609}
=============================================================================
