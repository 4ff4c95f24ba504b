------------------------------ MODULE MediaClock ------------------------------
(***************************************************************************)
(* MediaClock (mediaclock.cpp) as the player's tick uses it                *)
(* (tmedia_main_loop in tmedia.cpp, pause, resume and jump_to_time of      *)
(* MediaFetcher): a tick reads the system clock once, the keys of its      *)
(* batch act on that reading, and the jump they ask for is made later, at  *)
(* a reading of its own.  Times are whole units.                           *)
(***************************************************************************)
EXTENDS Integers

CONSTANTS
  Duration,    \* get_duration()
  Seek,        \* what the arrow keys jump by
  EndTime      \* bound on the system time

ASSUME ClockAssumption == Duration \in Nat /\ Seek \in Nat /\ EndTime \in Nat

VARIABLES
  now,                            \* sys_clk_sec()
  m_playing, m_start_time, m_paused_time, m_skipped_time, m_last_pause_system_time,
  tick,                           \* before begin(), before a tick, in its keys
  curr_systime, curr_medtime,     \* the readings at the beginning of the tick
  req_jump, req_jumptime

clock == <<m_playing, m_start_time, m_paused_time, m_skipped_time, m_last_pause_system_time>>
request == <<req_jump, req_jumptime>>
clockVars == <<now, clock, tick, curr_systime, curr_medtime, request>>

get_time(currsystime) ==
  IF m_playing THEN currsystime - m_start_time - m_paused_time + m_skipped_time
  ELSE m_last_pause_system_time - m_start_time - m_paused_time + m_skipped_time

(* m_last_pause_system_time is not initialized.                            *)
ClockInit ==
  /\ now = 0
  /\ m_playing = FALSE
  /\ m_start_time = 0 /\ m_paused_time = 0 /\ m_skipped_time = 0
  /\ m_last_pause_system_time \in 0 .. EndTime
  /\ tick = "new"
  /\ curr_systime = 0 /\ curr_medtime = 0
  /\ req_jump = FALSE /\ req_jumptime = 0

Elapse ==
  /\ now < EndTime
  /\ now' = now + 1
  /\ UNCHANGED <<clock, tick, curr_systime, curr_medtime, request>>

begin ==
  /\ tick = "new"
  /\ m_playing' = TRUE
  /\ m_start_time' = now /\ m_paused_time' = 0 /\ m_skipped_time' = 0
  /\ tick' = "top"
  /\ UNCHANGED <<now, m_last_pause_system_time, curr_systime, curr_medtime, request>>

(* Audio that is too far off makes the tick ask for a jump.                *)
Tick ==
  /\ tick = "top"
  /\ tick' = "keys"
  /\ curr_systime' = now
  /\ curr_medtime' = get_time(now)
  /\ req_jump' \in BOOLEAN
  /\ req_jumptime' = get_time(now)
  /\ UNCHANGED <<now, clock>>

stop(currsystime) ==
  /\ m_playing' = FALSE
  /\ m_last_pause_system_time' = currsystime
  /\ UNCHANGED <<m_start_time, m_paused_time, m_skipped_time>>

(* Mutant: the pause is counted from the first one on.                     *)
Mut_resume(currsystime) ==
  /\ m_playing' = TRUE
  /\ m_paused_time' = currsystime - m_last_pause_system_time
  /\ UNCHANGED <<m_start_time, m_skipped_time, m_last_pause_system_time>>

resume(currsystime) ==
  /\ m_playing' = TRUE
  /\ m_paused_time' = m_paused_time + currsystime - m_last_pause_system_time
  /\ UNCHANGED <<m_start_time, m_skipped_time, m_last_pause_system_time>>

KeySpace ==
  /\ tick = "keys"
  /\ IF m_playing THEN stop(curr_systime) ELSE resume(curr_systime)
  /\ UNCHANGED <<now, tick, curr_systime, curr_medtime, request>>

(* Left and right add up, a digit starts over.                             *)
KeySeek ==
  /\ tick = "keys"
  /\ req_jump' = TRUE
  /\ \/ req_jumptime' \in {req_jumptime - Seek, req_jumptime + Seek}
     \/ \E tenth \in 0 .. 9 : req_jumptime' = (Duration * tenth) \div 10
  /\ req_jumptime' \in -EndTime .. 2 * EndTime      \* bounds the batch
  /\ UNCHANGED <<now, clock, tick, curr_systime, curr_medtime>>

clamp(x, lo, hi) == IF x < lo THEN lo ELSE IF x > hi THEN hi ELSE x

skip(seconds) ==
  /\ m_skipped_time' = m_skipped_time + seconds
  /\ UNCHANGED <<m_playing, m_start_time, m_paused_time, m_last_pause_system_time>>

jump_to_time(target_time, currsystime) == skip(target_time - get_time(currsystime))

KeysEnd ==
  /\ tick = "keys"
  /\ IF req_jump THEN jump_to_time(clamp(req_jumptime, 0, Duration), now) ELSE UNCHANGED clock
  /\ tick' = "top"
  /\ UNCHANGED <<now, curr_systime, curr_medtime, request>>

ClockNext == Elapse \/ begin \/ Tick \/ KeySpace \/ KeySeek \/ KeysEnd

ClockSpec == ClockInit /\ [][ClockNext]_clockVars
-----------------------------------------------------------------------------
(* The media time is never negative, although the keys pause and resume at *)
(* a time that is already past: the threads seek and time their frames by  *)
(* it (mediaclock.cpp 59-65, mediadecoder.cpp 108).                        *)
NeverNegative == tick # "new" => get_time(now) >= 0

(* Whatever the keys of a batch did to the clock, it goes on from the time *)
(* the tick showed: pausing sets it back to that, and pausing and resuming *)
(* in one batch leaves no trace (tmedia.cpp 134-136, 249-260).             *)
GoesOnFromTick ==
  tick = "keys" =>
    get_time(now) = curr_medtime + (IF m_playing THEN now - curr_systime ELSE 0)
=============================================================================
