------------------------------ MODULE MCDistro -------------------------------
(* Schedules over a calendar of months with three and two days in turn.      *)
EXTENDS Distro

CONSTANTS minter, receiver, gov, collector

MCMonthStart(m) == 2 * m + (m + 1) \div 2

MCAccount == {minter, receiver, gov, collector}

Schedule(m, d, k, s) ==
    [minter |-> minter, receiver |-> receiver, month |-> m, dayOfMonth |-> d,
     months |-> k, maxSupply |-> s]

\* Periods of one and of two months; the third day is one that every other
\* month lacks; one proposal that is invalid and one to a blocked receiver.
MCParamsSet ==
    {Schedule(0, 0, 1, 7), Schedule(1, 2, 1, 9), Schedule(0, 2, 2, 9),
     Schedule(0, 0, 0, 9), [Schedule(0, 1, 3, 8) EXCEPT !.receiver = gov]}
==============================================================================
