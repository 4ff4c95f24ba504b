-------------------------- MODULE ClockAndBufferProofs --------------------------
(***************************************************************************)
(* Two small parts of the program that MediaFetcher builds on.             *)
(*                                                                         *)
(* The media clock, for every duration and every jump of the arrow keys:   *)
(* the time of a tick is never older than the last jump, and the clock is  *)
(* paused at such a time only.                                             *)
(*                                                                         *)
(* The lock around the audio buffer, for every number of threads, every    *)
(* capacity and every batch: no notification is lost by the calls that     *)
(* time out.  Each step either notifies, and then somebody is awake if     *)
(* anybody waits, or leaves the frames and the woken threads as they are   *)
(* and adds a waiter that cannot be served.                                *)
(***************************************************************************)
EXTENDS MediaClock, BlockingAudioRingBuffer, TLAPS

ClockType ==
  /\ now \in Int /\ m_playing \in BOOLEAN
  /\ m_start_time \in Int /\ m_paused_time \in Int /\ m_skipped_time \in Int
  /\ m_last_pause_system_time \in Int
  /\ tick \in {"new", "top", "keys"}
  /\ curr_systime \in Int /\ curr_medtime \in Int
  /\ req_jump \in BOOLEAN /\ req_jumptime \in Int

(* Before begin() the clock does not play; later a tick shows a media time *)
(* of zero or more, read no later than now.                                *)
ClockInv ==
  /\ ClockType
  /\ tick # "new" => get_time(now) >= 0
  /\ tick = "keys" => curr_medtime >= 0 /\ curr_systime <= now /\ GoesOnFromTick

LEMMA ClockTypeStep ==
  ASSUME ClockType, [ClockNext]_clockVars
  PROVE  ClockType'
<1> USE ClockAssumption
<1>1. CASE Elapse
  BY <1>1 DEF ClockType, Elapse, clock, request
<1>2. CASE begin
  BY <1>2 DEF ClockType, begin, request
<1>3. CASE Tick
  BY <1>3 DEF ClockType, Tick, clock, get_time
<1>4. CASE KeySpace
  <2>1. CASE m_playing
    BY <1>4, <2>1 DEF ClockType, KeySpace, stop, request
  <2>2. CASE ~m_playing
    BY <1>4, <2>2 DEF ClockType, KeySpace, resume, request
  <2>3. QED
    BY <2>1, <2>2
<1>5. CASE KeySeek
  <2>1. req_jumptime' \in -EndTime .. 2 * EndTime
    BY <1>5 DEF KeySeek
  <2>2. req_jumptime' \in Int /\ req_jump' = TRUE
    BY <1>5, <2>1 DEF KeySeek
  <2>3. QED
    BY <1>5, <2>2 DEF ClockType, KeySeek, clock
<1>6. CASE KeysEnd
  <2>1. CASE req_jump
    BY <1>6, <2>1 DEF ClockType, KeysEnd, jump_to_time, skip, clamp, get_time, request
  <2>2. CASE ~req_jump
    BY <1>6, <2>2 DEF ClockType, KeysEnd, clock, request
  <2>3. QED
    BY <2>1, <2>2
<1>7. CASE UNCHANGED clockVars
  BY <1>7 DEF ClockType, clockVars, clock, request
<1>8. QED
  BY <1>1, <1>2, <1>3, <1>4, <1>5, <1>6, <1>7 DEF ClockNext

LEMMA ClockStep ==
  ASSUME ClockInv, [ClockNext]_clockVars
  PROVE  ClockInv'
<1>1. ClockType /\ ClockType'
  BY ClockTypeStep DEF ClockInv
<1> USE <1>1 DEF ClockType
<1>2. CASE Elapse
  BY <1>2 DEF ClockInv, Elapse, clock, request, get_time, GoesOnFromTick
<1>3. CASE begin
  BY <1>3 DEF ClockInv, begin, get_time
<1>4. CASE Tick
  BY <1>4 DEF ClockInv, Tick, clock, get_time, GoesOnFromTick
<1>5. CASE KeySpace
  <2>1. CASE m_playing
    BY <1>5, <2>1 DEF ClockInv, KeySpace, stop, get_time, GoesOnFromTick, request
  <2>2. CASE ~m_playing
    BY <1>5, <2>2 DEF ClockInv, KeySpace, resume, get_time, GoesOnFromTick, request
  <2>3. QED
    BY <2>1, <2>2
<1>6. CASE KeySeek
  BY <1>6 DEF ClockInv, KeySeek, clock, get_time, GoesOnFromTick
<1>7. CASE KeysEnd
  <2>1. CASE req_jump
    <3>1. clamp(req_jumptime, 0, Duration) >= 0 /\ clamp(req_jumptime, 0, Duration) \in Int
      BY ClockAssumption DEF clamp
    <3>2. get_time(now)' = clamp(req_jumptime, 0, Duration)
      BY <1>7, <2>1, <3>1 DEF KeysEnd, jump_to_time, skip, get_time
    <3>3. QED
      BY <1>7, <3>1, <3>2 DEF ClockInv, KeysEnd
  <2>2. CASE ~req_jump
    BY <1>7, <2>2 DEF ClockInv, KeysEnd, clock, get_time
  <2>3. QED
    BY <2>1, <2>2
<1>8. CASE UNCHANGED clockVars
  BY <1>8 DEF ClockInv, clockVars, clock, request, get_time, GoesOnFromTick
<1>9. QED
  BY <1>2, <1>3, <1>4, <1>5, <1>6, <1>7, <1>8 DEF ClockNext

LEMMA ClockStart == ClockInit => ClockInv
<1>1. SUFFICES ASSUME ClockInit PROVE ClockInv
  OBVIOUS
<1>2. m_last_pause_system_time \in Int
  BY <1>1, ClockAssumption DEF ClockInit
<1>3. m_playing \in BOOLEAN /\ req_jump \in BOOLEAN
  BY <1>1 DEF ClockInit
<1>4. QED
  BY <1>1, <1>2, <1>3 DEF ClockInit, ClockInv, ClockType

(* For every duration, every step of the arrow keys and any batches of     *)
(* keys, the media time is never negative.                                 *)
THEOREM MediaTimeNeverNegative == ClockSpec => []NeverNegative
<1>1. ClockInv => NeverNegative
  BY DEF ClockInv, NeverNegative
<1>2. QED
  BY <1>1, ClockStart, ClockStep, PTL DEF ClockSpec

(* Likewise, the clock goes on from the time that the tick showed, however *)
(* often it was paused and resumed in the batch.                           *)
THEOREM BatchGoesOn == ClockSpec => []GoesOnFromTick
<1>1. ClockInv => GoesOnFromTick
  BY DEF ClockInv, GoesOnFromTick
<1>2. QED
  BY <1>1, ClockStart, ClockStep, PTL DEF ClockSpec
-----------------------------------------------------------------------------
Awake == \E u \in Threads : st[u] = "woken"
Inv ==
  /\ st \in [Threads -> {"out", "waiting", "woken"}]
  /\ nb_frames \in [Threads -> 0 .. MaxBatch]
  /\ BatonHeld

(* After notify_one somebody is awake, or nobody waits.                    *)
LEMMA NotifyWakes ==
  ASSUME st \in [Threads -> {"out", "waiting", "woken"}],
         NEW t \in Threads, LeaveAndNotify(t)
  PROVE  /\ st' \in [Threads -> {"out", "waiting", "woken"}]
         /\ Awake' \/ \A u \in Threads : st'[u] # "waiting"
<1> DEFINE left == [st EXCEPT ![t] = "out"]
           waiting == { u \in Threads : left[u] = "waiting" }
<1>1. left \in [Threads -> {"out", "waiting", "woken"}]
  OBVIOUS
<1>2. CASE waiting = {}
  <2>1. st' = left
    BY <1>2 DEF LeaveAndNotify
  <2>2. \A u \in Threads : left[u] # "waiting"
    BY <1>2
  <2>. QED  BY <1>1, <2>1, <2>2
<1>3. CASE waiting # {}
  <2>1. PICK u \in waiting : st' = [left EXCEPT ![u] = "woken"]
    BY <1>3 DEF LeaveAndNotify
  <2>2. u \in Threads /\ st'[u] = "woken"
    BY <1>1, <2>1
  <2>. QED  BY <1>1, <2>1, <2>2 DEF Awake
<1>. QED  BY <1>2, <1>3

(* A thread that is woken, whatever the others do, holds the baton.        *)
LEMMA AwakeIsEnough ==
  ASSUME st' \in [Threads -> {"out", "waiting", "woken"}],
         nb_frames' \in [Threads -> 0 .. MaxBatch],
         Awake' \/ \A u \in Threads : st'[u] # "waiting"
  PROVE  Inv'
BY DEF Inv, BatonHeld, Awake

LEMMA BatonStep ==
  ASSUME Inv, [Next]_vars
  PROVE  Inv'
<1>0. /\ st \in [Threads -> {"out", "waiting", "woken"}]
      /\ nb_frames \in [Threads -> 0 .. MaxBatch]
  BY DEF Inv
<1>1. ASSUME NEW t \in Threads, CallServed(t)
      PROVE  Inv'
  <2>1. nb_frames' \in [Threads -> 0 .. MaxBatch] /\ LeaveAndNotify(t)
    BY <1>0, <1>1 DEF CallServed, Serve
  <2>. QED  BY <1>0, <2>1, NotifyWakes, AwakeIsEnough
<1>2. ASSUME NEW t \in Threads, CallWaits(t)
      PROVE  Inv'
  <2>1. PICK n \in 0 .. MaxBatch :
          /\ ~Served(t, n)
          /\ nb_frames' = [nb_frames EXCEPT ![t] = n]
    BY <1>2 DEF CallWaits
  <2>2. st[t] = "out" /\ st' = [st EXCEPT ![t] = "waiting"] /\ frames' = frames
    BY <1>2 DEF CallWaits
  <2>3. /\ st' \in [Threads -> {"out", "waiting", "woken"}]
        /\ nb_frames' \in [Threads -> 0 .. MaxBatch]
    BY <1>0, <2>1, <2>2
  <2>4. ASSUME NEW u \in Threads, st'[u] = "waiting", Ready(u)'
        PROVE  Awake'
    <3>1. CASE u = t
      <4>1. Served(t, nb_frames'[t])
        BY <2>2, <2>4, <3>1 DEF Ready, Served
      <4>2. nb_frames'[t] = n
        BY <1>0, <2>1
      <4>. QED  BY <2>1, <4>1, <4>2
    <3>2. CASE u # t
      <4>1. st[u] = "waiting" /\ nb_frames'[u] = nb_frames[u]
        BY <1>0, <2>1, <2>2, <2>4, <3>2
      <4>2. Ready(u)
        BY <2>2, <2>4, <4>1 DEF Ready, Served
      <4>3. PICK v \in Threads : st[v] = "woken"
        BY <4>1, <4>2 DEF Inv, BatonHeld
      <4>4. st'[v] = "woken"
        BY <1>0, <2>2, <4>3
      <4>. QED  BY <4>4 DEF Awake
    <3>. QED  BY <3>1, <3>2
  <2>. QED  BY <2>3, <2>4 DEF Inv, BatonHeld, Awake
<1>3. ASSUME NEW t \in Threads, WokenServed(t) \/ WokenFails(t) \/ clear(t)
      PROVE  Inv'
  <2>1. nb_frames' = nb_frames /\ LeaveAndNotify(t)
    BY <1>3 DEF WokenServed, WokenFails, clear, Serve
  <2>. QED  BY <1>0, <2>1, NotifyWakes, AwakeIsEnough
<1>4. ASSUME NEW t \in Threads, WaitEnds(t)
      PROVE  Inv'
  <2>1. st' = [st EXCEPT ![t] = "woken"] /\ nb_frames' = nb_frames
    BY <1>4 DEF WaitEnds
  <2>2. st' \in [Threads -> {"out", "waiting", "woken"}] /\ st'[t] = "woken"
    BY <1>0, <2>1
  <2>. QED  BY <1>0, <2>1, <2>2, AwakeIsEnough DEF Awake
<1>5. CASE UNCHANGED vars
  BY <1>5 DEF vars, Inv, BatonHeld, Ready, Served
<1>. QED  BY <1>1, <1>2, <1>3, <1>4, <1>5 DEF Next

(* No wake-up is lost between a producer and any number of consumers that  *)
(* share the condition variable (blocking_audioringbuffer.cpp 57-122).     *)
THEOREM NoNotificationLost == Spec => []BatonHeld
<1>1. Init => Inv
  BY BatchAssumption DEF Init, Inv, BatonHeld
<1>2. Inv /\ [Next]_vars => Inv'
  BY BatonStep
<1>3. Inv => BatonHeld
  BY DEF Inv
<1>. QED  BY <1>1, <1>2, <1>3, PTL DEF Spec
=============================================================================
