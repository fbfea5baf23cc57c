---------------------------- MODULE MCGraphCache ----------------------------
(* Two processes of one version, for TLC. *)
EXTENDS GraphCache

MCProcess   == {"p1", "p2"}
MCVersionOf == [p \in MCProcess |-> "new"]

\* Two threads in the first process; two roots asked for in each process.
MCThread    == {"t1", "t2", "t3"}
MCProcessOf == [t \in MCThread |-> IF t = "t3" THEN "p2" ELSE "p1"]
MCWanted    == [t \in MCThread |-> IF t = "t2" THEN {"r2"} ELSE {"r1", "r2"}]

\* One thread in each.
MCSolo       == {"t1", "t3"}
MCSoloOf     == [t \in MCSolo |-> IF t = "t3" THEN "p2" ELSE "p1"]
MCSoloWanted == [t \in MCSolo |-> {"r1"}]
MCSoloBoth   == [t \in MCSolo |-> {"r1", "r2"}]
=============================================================================
