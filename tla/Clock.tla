-------------------------------- MODULE Clock --------------------------------
(***************************************************************************)
(* The playback clock: CBaseClock (mfw/Common/CBaseClock.cpp), at normal   *)
(* speed and without an offset, as the renderers use it.                   *)
(*                                                                         *)
(* A clock is a record and a method a function of it: every method holds   *)
(* m_mtTime to its return.  m_llStart stands for m_llStart and the system  *)
(* time that has passed since m_llSystem, so that Tick lets it advance.    *)
(***************************************************************************)
EXTENDS Integers

CONSTANTS ErrAdj,   \* m_nErrAdj: a smaller correction is ignored
          MaxTime   \* bound: the clock stands at the end of the longest stream

ASSUME ClockAssumption == ErrAdj \in Nat /\ MaxTime \in Nat \ {0}

ClockState == [m_bRun : BOOLEAN, m_llStart : 0..MaxTime, m_llLast : 0..MaxTime]

NewClock == [m_bRun |-> FALSE, m_llStart |-> 0, m_llLast |-> 0]  \* 19-32

AtLeast1(t) == IF t < 1 THEN 1 ELSE t
Distance(a, b) == IF a < b THEN b - a ELSE a - b

(* A running clock is 0 until it is set. *)
GetTime(c) == IF c.m_bRun THEN c.m_llStart ELSE c.m_llLast      \* 40-58

SetTime_Ahead(c, t) ==
  [c EXCEPT !.m_llStart = AtLeast1(t + ErrAdj), !.m_llLast = AtLeast1(t + ErrAdj)]
SetTime(c, t) ==                                                \* 60-75
  IF c.m_llStart > 0 /\ Distance(GetTime(c), t) < ErrAdj THEN c
  ELSE [c EXCEPT !.m_llStart = AtLeast1(t), !.m_llLast = AtLeast1(t)]

ClockStart(c) ==                                                \* 141-153
  IF c.m_bRun THEN c ELSE [c EXCEPT !.m_bRun = TRUE, !.m_llStart = c.m_llLast]

ClockPause(c) ==                                                \* 155-165
  [c EXCEPT !.m_bRun = FALSE, !.m_llLast = AtLeast1(GetTime(c))]

(* System time passes: it counts once the clock runs and has been set. *)
Ticks(c) == c.m_bRun /\ c.m_llStart \in 1..(MaxTime - 1)
Tick(c) == [c EXCEPT !.m_llStart = @ + 1]
==============================================================================
