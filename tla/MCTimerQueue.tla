---------------------------- MODULE MCTimerQueue -----------------------------
(* Model values for TimerQueue: the code as written, and with its three    *)
(* gaps closed one after the other.                                        *)
EXTENDS TimerQueue

CONSTANTS c1, c2, t1, t2, t3

MCConns == {c1, c2}
MCTimers == {t1, t2, t3}
MCTimeouts == {1, 2}
MCRepairSets == {{}, {"queue"}, {"queue", "link"}, AllRepairs}
==============================================================================
