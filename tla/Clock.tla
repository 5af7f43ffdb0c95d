------------------------------- MODULE Clock -------------------------------
(***************************************************************************)
(* Arithmetic on struct timespec in the sampling loop (src/phpspy.c:       *)
(* clock_add, clock_diff, calc_sleep_time) for any number of nanoseconds   *)
(* in a second.  Times and periods stay far from the range of a C long.    *)
(***************************************************************************)
EXTENDS Integers

CONSTANT Second          \* 1000000000

ASSUME SecondAssumption == Second \in Nat \ {0}

Timespec == [tv_sec : Nat, tv_nsec : 0..(Second - 1)]

(* The length of a time in nanoseconds. *)
Ns(t) == t.tv_sec * Second + t.tv_nsec

(* Mutant: one second at most is carried, and not at its very end.          *)
clock_add_late_carry(a, b) ==
  LET nsec == a.tv_nsec + b.tv_nsec
  IN IF nsec > Second
     THEN [tv_sec |-> a.tv_sec + b.tv_sec + nsec \div Second, tv_nsec |-> nsec % Second]
     ELSE [tv_sec |-> a.tv_sec + b.tv_sec, tv_nsec |-> nsec]

clock_add(a, b) ==
  LET nsec == a.tv_nsec + b.tv_nsec
  IN IF nsec >= Second
     THEN [tv_sec |-> a.tv_sec + b.tv_sec + nsec \div Second, tv_nsec |-> nsec % Second]
     ELSE [tv_sec |-> a.tv_sec + b.tv_sec, tv_nsec |-> nsec]

clock_diff(a, b) ==
  IF a.tv_sec = b.tv_sec
  THEN IF a.tv_nsec = b.tv_nsec THEN 0 ELSE IF a.tv_nsec > b.tv_nsec THEN 1 ELSE -1
  ELSE IF a.tv_sec > b.tv_sec THEN 1 ELSE -1

(* calc_sleep_time: what is left of the period opt_sleep_ns, split into     *)
(* seconds and nanoseconds.                                                 *)
sleep_ns(end, start, opt_sleep_ns) ==
  LET left == IF end.tv_sec = start.tv_sec
              THEN opt_sleep_ns - (end.tv_nsec - start.tv_nsec)
              ELSE opt_sleep_ns - (Ns(end) - Ns(start))
  IN IF left < 0 THEN 0 ELSE left

calc_sleep_time(end, start, opt_sleep_ns) ==
  LET ns == sleep_ns(end, start, opt_sleep_ns)
  IN IF ns < Second
     THEN [tv_sec |-> 0, tv_nsec |-> ns]
     ELSE [tv_sec |-> ns \div Second, tv_nsec |-> ns - (ns \div Second) * Second]
============================================================================
