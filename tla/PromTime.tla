------------------------------- MODULE PromTime -------------------------------
(***************************************************************************)
(* ToPrometheusTime of measurement/util/prometheus.go: the duration of a   *)
(* run as the range of a query, in whole seconds when it is shorter than a *)
(* minute and in whole minutes otherwise.                                  *)
(*                                                                         *)
(* Durations are counted in milliseconds.  The code counts nanoseconds,    *)
(* and its two integer divisions round in the same way.                    *)
(***************************************************************************)
EXTENDS Integers

Second == 1000
Minute == 60 * Second

(* (Faulty variant: rounded to the nearest unit.)                          *)
ToPrometheusTimeRounded(t) ==
  LET unit == IF t < Minute THEN Second ELSE Minute
  IN  [value |-> (t + unit \div 2) \div unit, unit |-> unit]

ToPrometheusTime(t) ==
  IF t < Minute THEN [value |-> t \div Second, unit |-> Second]
                ELSE [value |-> t \div Minute, unit |-> Minute]

(* How far a query with this range looks back.                             *)
Window(t) == ToPrometheusTime(t).value * ToPrometheusTime(t).unit
=============================================================================
