-------------------------- MODULE MCSwitchSession --------------------------
(* Model-checking instances of SwitchSession. *)
EXTENDS SwitchSession

(* One switch, two connections with a watcher and a QP thread each. *)
Own == [c \in Conn |-> c]
OneSwitch == [c \in Conn |-> 1]
AnyVersion == [d \in Dpid |-> {"OF_10", "OF_13"}]
EachAlone == [d \in Dpid |-> d]

(* Two switches that insist on a version each, one connection per switch, one  *)
(* watcher and one QP thread for both.                                         *)
Shared == [c \in Conn |-> 1]
Strict == [d \in Dpid |-> IF d = 1 THEN {"OF_10"} ELSE {"OF_13"}]
=============================================================================
