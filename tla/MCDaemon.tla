----------------------------- MODULE MCDaemon -----------------------------
(***************************************************************************)
(* Instances of Daemon for TLC.  Knob values are scaled down to 0 .. 3; the   *)
(* safe range of every numeric knob but run is 1 .. 3.                       *)
(***************************************************************************)
EXTENDS Daemon

MCMinOf == [p \in Params |-> IF p \in {"run", "advisor"} THEN 0 ELSE 1]
MCMaxOf == [p \in Params |-> IF p = "run" THEN 2 ELSE IF p = "advisor" THEN 1 ELSE 3]

Knobs(run, scan, sleep, sharing, advisor) ==
  [p \in Params |-> CASE p = "run" -> run [] p = "scan" -> scan [] p = "sleep" -> sleep
                      [] p = "sharing" -> sharing [] p = "advisor" -> advisor
                      [] OTHER -> 2]

MCSafeConfigs == {Knobs(0, 1, 2, 2, 0), Knobs(1, 2, 1, 1, 1)}
MCAnyConfigs == MCSafeConfigs \cup {Knobs(1, 1, 0, 2, 0)}

MCProfiles == {[p \in {"scan", "sleep", "sharing"} |-> v] : v \in {2, 3}}
=============================================================================
