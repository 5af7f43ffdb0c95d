----------------------------- MODULE MCSampler -----------------------------
(* Instances of Sampler for TLC.                                            *)
EXTENDS Sampler

(* Every combination of the options, without a limit and with limit 2, and  *)
(* with signals, another tracer or neither.                                 *)
AllOptions ==
  {o \in [pause : BOOLEAN, cont : BOOLEAN, limit : {0, 2}, timed : BOOLEAN,
          child : BOOLEAN, signals : BOOLEAN, foreign : BOOLEAN] :
     /\ o.signals \/ o.foreign => o.pause
     /\ ~(o.signals /\ o.foreign)}

(* A command that is run and paused for every trace.                        *)
PausedCommand ==
  [pause : {TRUE}, cont : {FALSE}, limit : {0}, timed : {FALSE}, child : {TRUE},
   signals : {FALSE}, foreign : {FALSE}]
============================================================================
