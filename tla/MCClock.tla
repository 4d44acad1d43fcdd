------------------------------- MODULE MCClock ------------------------------
(* Two CPUs and one timer, which both arm, delete and fire; CPU 0 also     *)
(* prints and CPU 1 also sets the time.                                    *)
EXTENDS Clock
MCPrograms == [c \in Cpus |-> IF c = 0 THEN {"timeradd", "print", "todget"}
                              ELSE {"timeradd", "timerdel", "todset", "slew"}]
(* One slew that slows the clock down and one that is larger than the time *)
(* since the machine was started.                                          *)
MCSlews == {<<-2, 1>>, <<-20, 1>>}
=============================================================================
