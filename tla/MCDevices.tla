----------------------------- MODULE MCDevices -----------------------------
(* Model-checking instance of Devices: one host, one port on each of two      *)
(* switches, in one domain or in two; a link may be found on port p2.  The    *)
(* packets of either switch may be at either QP thread.                       *)
EXTENDS Devices

MCQueuesOf == [s \in {1, 2} |-> {"q1", "q2"}]
MCSwitchOf == [p \in {"p1", "p2"} |-> IF p = "p1" THEN 1 ELSE 2]

Apart == [s \in {1, 2} |-> s]
Joined == [s \in {1, 2} |-> 1]
MCTopologies == {[internal |-> {}, domain |-> Apart], [internal |-> {}, domain |-> Joined],
                 [internal |-> {"p2"}, domain |-> Joined]}
=============================================================================
