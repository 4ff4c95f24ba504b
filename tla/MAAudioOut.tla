------------------------------- MODULE MAAudioOut -------------------------------
(***************************************************************************)
(* MAAudioOut (maaudioout.cpp) over ma_device_w (wminiaudio.cpp): the main *)
(* thread starts and stops the audio, a fill thread moves samples from     *)
(* on_data into a bounded queue, the callback of the device takes them     *)
(* out.  The fill thread ramps up from silence, plays, ramps down to       *)
(* silence when it is told to stop, and lets the queue run empty.          *)
(*                                                                         *)
(* A sample is counted, not represented, and the gain of a ramp is left    *)
(* out.  on_data returns after at most a few milliseconds and is part of   *)
(* the request.                                                            *)
(***************************************************************************)
EXTENDS Integers

CONSTANTS
  Channels,      \* m_nb_channels
  CapFrames,     \* m_audio_queue_cap_frames
  BufferFrames,  \* stkbuf_frames_size
  RampFrames,    \* rampup_frames_end and rampdown_frame_start
  Timed,         \* may the waits of stop() time out?
  MayFail        \* may the device fail to start?

ASSUME SizesAssumption ==
  /\ Channels \in Nat \ {0} /\ CapFrames \in Nat \ {0}
  /\ BufferFrames \in Nat \ {0} /\ RampFrames \in Nat
ASSUME ChoicesAssumption ==
  /\ Timed \in BOOLEAN /\ MayFail \in BOOLEAN

VARIABLES
  owner,    \* where the main thread is in start() or stop(), or idle
  state,    \* PLAYING, STOPPING or STOPPED
  playing,  \* m_audio_device->playing(): the callback runs
  fill,     \* where the fill thread is; none before it is created and once joined
  left,     \* samples of the current request that are not in the queue yet
  ramp,     \* frames left to ramp up or down
  queue     \* samples in m_audio_queue

vars == <<owner, state, playing, fill, left, ramp, queue>>

CapSamples == CapFrames * Channels

TypeOK ==
  /\ owner \in {"idle", "starting", "thrown", "waiting", "woken", "joining"}
  /\ state \in {"PLAYING", "STOPPING", "STOPPED"}
  /\ playing \in BOOLEAN
  /\ fill \in {"none", "up", "play", "down", "drain", "ended"}
  /\ left \in 0 .. BufferFrames * Channels
  /\ ramp \in 0 .. RampFrames
  /\ queue \in 0 .. CapSamples

Init ==
  /\ owner = "idle"
  /\ state = "STOPPED"
  /\ playing = FALSE
  /\ fill = "none"
  /\ left = 0
  /\ ramp = 0
  /\ queue = 0
-----------------------------------------------------------------------------
(* start() *)
Start ==
  /\ owner = "idle" /\ ~playing
  /\ state' = "PLAYING"
  /\ fill' = "up"
  /\ left' = 0
  /\ ramp' = RampFrames
  /\ owner' = "starting"
  /\ UNCHANGED <<playing, queue>>

(* The queue is full: the device is started ...                            *)
Started ==
  /\ owner = "starting"
  /\ queue = CapSamples
  /\ playing' = TRUE
  /\ owner' = "idle"
  /\ UNCHANGED <<state, fill, left, ramp, queue>>

(* ... or cannot be, and the exception leaves the fill thread running.     *)
StartFails ==
  /\ MayFail
  /\ owner = "starting"
  /\ queue = CapSamples
  /\ owner' = "thrown"
  /\ UNCHANGED <<state, playing, fill, left, ramp, queue>>

(* stop(), from taking stop_mutex to waiting                               *)
Stop ==
  /\ owner = "idle" /\ playing
  /\ state' = "STOPPING"
  /\ owner' = "waiting"
  /\ UNCHANGED <<playing, fill, left, ramp, queue>>

WaitTimeout ==
  /\ Timed
  /\ owner = "waiting"
  /\ owner' = "woken"
  /\ UNCHANGED <<state, playing, fill, left, ramp, queue>>

(* Wait again, or stop the device.                                         *)
Woken ==
  /\ owner = "woken"
  /\ IF state = "STOPPED" THEN playing' = FALSE /\ owner' = "joining"
     ELSE owner' = "waiting" /\ UNCHANGED playing
  /\ UNCHANGED <<state, fill, left, ramp, queue>>

Join ==
  /\ owner = "joining"
  /\ fill = "ended"
  /\ fill' = "none"
  /\ state' = "STOPPED"
  /\ owner' = "idle"
  /\ UNCHANGED <<playing, left, ramp, queue>>
-----------------------------------------------------------------------------
Least(a, b) == IF a < b THEN a ELSE b

(* Mutant: the last frame of the queue is kept free.                       *)
Mut_get_data_req_size ==
  Least((CapFrames - 1 - Least(queue \div Channels, CapFrames - 1)) * 2, BufferFrames)

(* Mutant: the size of stkbuf is not taken into account.                   *)
Mut_get_data_req_size_unbounded == (CapFrames - (queue \div Channels)) * 2

(* Frames to ask on_data for: twice what there is room for.                *)
get_data_req_size == Least((CapFrames - (queue \div Channels)) * 2, BufferFrames)

(* A request while ramping: its first frame only serves to find a crossing *)
RampRequest ==
  LET frames == get_data_req_size IN
  /\ left' = IF frames = 0 THEN 0 ELSE (frames - 1) * Channels
  /\ ramp' = IF frames < ramp THEN ramp - frames ELSE 0

(* Mutant: the loop that plays is missing.                                 *)
Mut_RampUp ==
  /\ fill = "up" /\ left = 0
  /\ IF ramp > 0 /\ state = "PLAYING" THEN RampRequest /\ UNCHANGED fill
     ELSE fill' = "down" /\ UNCHANGED <<left, ramp>>
  /\ UNCHANGED <<owner, state, playing, queue>>

RampUp ==
  /\ fill = "up" /\ left = 0
  /\ IF ramp > 0 /\ state = "PLAYING" THEN RampRequest /\ UNCHANGED fill
     ELSE fill' = "play" /\ UNCHANGED <<left, ramp>>
  /\ UNCHANGED <<owner, state, playing, queue>>

(* Mutant: the loop does not look at the state.                            *)
Mut_Play ==
  /\ fill = "play" /\ left = 0
  /\ left' = get_data_req_size * Channels
  /\ UNCHANGED <<owner, state, playing, fill, ramp, queue>>

Play ==
  /\ fill = "play" /\ left = 0
  /\ IF state = "PLAYING"
     THEN left' = get_data_req_size * Channels /\ UNCHANGED <<fill, ramp>>
     ELSE /\ fill' = "down"
          /\ ramp' = RampFrames
          /\ UNCHANGED left
  /\ UNCHANGED <<owner, state, playing, queue>>

RampDown ==
  /\ fill = "down" /\ left = 0
  /\ IF ramp > 0 THEN RampRequest /\ UNCHANGED fill
     ELSE fill' = "drain" /\ UNCHANGED <<left, ramp>>
  /\ UNCHANGED <<owner, state, playing, queue>>

(* The next sample of the request goes into the queue once there is room.  *)
Enqueue ==
  /\ left > 0
  /\ queue < CapSamples
  /\ left' = left - 1
  /\ queue' = queue + 1
  /\ UNCHANGED <<owner, state, playing, fill, ramp>>

(* Mutant: what is in the queue stays there.                               *)
Mut_Drained_early ==
  /\ fill = "drain"
  /\ state' = "STOPPED"
  /\ owner' = IF owner = "waiting" THEN "woken" ELSE owner
  /\ fill' = "ended"
  /\ UNCHANGED <<playing, left, ramp, queue>>

(* The queue has run empty: STOPPED under stop_mutex, and notify_all().    *)
Drained ==
  /\ fill = "drain"
  /\ queue = 0
  /\ state' = "STOPPED"
  /\ owner' = IF owner = "waiting" THEN "woken" ELSE owner
  /\ fill' = "ended"
  /\ UNCHANGED <<playing, left, ramp, queue>>

(* The callback takes a sample out, or finds none and plays silence.       *)
audioOutDataCallback ==
  /\ playing
  /\ queue > 0
  /\ queue' = queue - 1
  /\ UNCHANGED <<owner, state, playing, fill, left, ramp>>

Owner == Started \/ StartFails \/ Woken \/ Join
Fill  == RampUp \/ Play \/ RampDown \/ Enqueue \/ Drained
Next  == Start \/ Stop \/ WaitTimeout \/ Owner \/ Fill \/ audioOutDataCallback

Spec == Init /\ [][Next]_vars

(* Threads are scheduled, and a device that plays calls back.              *)
FairSpec == Spec /\ WF_vars(Owner) /\ WF_vars(Fill) /\ WF_vars(audioOutDataCallback)
-----------------------------------------------------------------------------
(* Once stop() has returned nothing of the old playback is left: no thread *)
(* that would call on_data, no sample that would be heard after the next   *)
(* start() (maaudioout.cpp 121-126, 184-203; the main thread jumps and     *)
(* pauses between stop() and start(), tmedia.cpp 250-298, and destroys     *)
(* what on_data uses after stop(), tmedia.cpp 325-337).                    *)
Quiet == owner = "idle" /\ ~playing => fill = "none" /\ queue = 0 /\ left = 0

(* While the audio plays there is a thread that fills the queue, and it    *)
(* has not been told to stop (maaudioout.cpp 64, 81, 175-182).             *)
Filled == owner = "idle" /\ playing => fill \in {"up", "play"} /\ state = "PLAYING"

(* start() returns: the queue becomes full although each request is made   *)
(* from its size some time ago (maaudioout.cpp 25-33, 64-87, 180).         *)
StartReturns == owner = "starting" ~> owner = "idle" \/ owner = "thrown"

(* stop() returns, and without its time-outs: the fill thread, full queue  *)
(* or not, gets to its end and its notification is not lost                *)
(* (maaudioout.cpp 103-126, 190-203).                                      *)
StopReturns == owner = "waiting" ~> owner = "idle"
=============================================================================
