------------------------ MODULE BlockingAudioRingBuffer ------------------------
(***************************************************************************)
(* BlockingAudioRingBuffer (blocking_audioringbuffer.cpp): one mutex and   *)
(* one condition variable around an AudioRingBuffer, shared by the audio   *)
(* thread (writes and clears), the fill thread of the audio output (reads) *)
(* and the video thread of an audio file (peeks).  The calls are those the *)
(* program makes: try_write_into, try_read_into, try_peek_into and clear.  *)
(*                                                                         *)
(* Everything between taking the mutex and releasing it, or waiting, is    *)
(* one step.  The ring buffer is the number of frames that can be read:    *)
(* AudioRingBuffer shows that those that can be written are the others,    *)
(* up to one frame less than its size.                                     *)
(***************************************************************************)
EXTENDS Naturals

CONSTANTS
  Writers, Readers, Peekers,  \* the threads, by what they call
  Capacity,                   \* frames that can be readable at once
  MaxBatch                    \* the largest nb_frames of a call

Threads == Writers \union Readers \union Peekers

ASSUME ThreadsAssumption ==
  /\ Writers \intersect (Readers \union Peekers) = {}
  /\ Readers \intersect Peekers = {}
ASSUME BatchAssumption == Capacity \in Nat /\ MaxBatch \in Nat

VARIABLES
  frames,     \* get_frames_can_read()
  st,         \* what each thread does: not in a call, waiting on cond, or woken
  nb_frames   \* the argument of each thread's call

vars == <<frames, st, nb_frames>>

TypeOK ==
  /\ frames \in 0 .. Capacity
  /\ st \in [Threads -> {"out", "waiting", "woken"}]
  /\ nb_frames \in [Threads -> 0 .. MaxBatch]

Init ==
  /\ frames = 0
  /\ st = [t \in Threads |-> "out"]
  /\ nb_frames = [t \in Threads |-> 0]

(* Can a call with n frames be served?                                     *)
Served(t, n) == IF t \in Writers THEN frames + n <= Capacity ELSE n <= frames

Ready(t) == Served(t, nb_frames[t])

(* frames after serving the call.                                          *)
After(t, n) ==
  IF t \in Writers THEN frames + n ELSE IF t \in Readers THEN frames - n ELSE frames

(* t leaves its call, and cond.notify_one() wakes any one waiter.          *)
LeaveAndNotify(t) ==
  LET left == [st EXCEPT ![t] = "out"]
      waiting == { u \in Threads : left[u] = "waiting" }
  IN  IF waiting = {} THEN st' = left
      ELSE \E u \in waiting : st' = [left EXCEPT ![u] = "woken"]

Serve(t, n) ==
  /\ Served(t, n)
  /\ frames' = After(t, n)
  /\ LeaveAndNotify(t)

(* A call that need not wait ...                                           *)
CallServed(t) ==
  /\ st[t] = "out"
  /\ \E n \in 0 .. MaxBatch : Serve(t, n) /\ nb_frames' = [nb_frames EXCEPT ![t] = n]

(* ... or that must.                                                       *)
CallWaits(t) ==
  /\ st[t] = "out"
  /\ \E n \in 0 .. MaxBatch :
       /\ ~Served(t, n)
       /\ nb_frames' = [nb_frames EXCEPT ![t] = n]
  /\ st' = [st EXCEPT ![t] = "waiting"]
  /\ UNCHANGED frames

WokenServed(t) ==
  /\ st[t] = "woken"
  /\ Serve(t, nb_frames[t])
  /\ UNCHANGED nb_frames

(* Mutant: false is returned without the second notify_one.                *)
Mut_WokenFails(t) ==
  /\ st[t] = "woken"
  /\ ~Ready(t)
  /\ st' = [st EXCEPT ![t] = "out"]
  /\ UNCHANGED <<frames, nb_frames>>

(* try_...: a thread that waited in vain passes the notification on and    *)
(* returns false.                                                          *)
WokenFails(t) ==
  /\ st[t] = "woken"
  /\ ~Ready(t)
  /\ LeaveAndNotify(t)
  /\ UNCHANGED <<frames, nb_frames>>

(* The wait runs out, or ends for no reason at all.                        *)
WaitEnds(t) ==
  /\ st[t] = "waiting"
  /\ st' = [st EXCEPT ![t] = "woken"]
  /\ UNCHANGED <<frames, nb_frames>>

(* The audio thread drops what is buffered.                                *)
clear(t) ==
  /\ t \in Writers
  /\ st[t] = "out"
  /\ frames' = 0
  /\ LeaveAndNotify(t)
  /\ UNCHANGED nb_frames

Next ==
  \E t \in Threads :
    \/ CallServed(t) \/ CallWaits(t)
    \/ WokenServed(t) \/ WokenFails(t) \/ WaitEnds(t)
    \/ clear(t)

Spec == Init /\ [][Next]_vars
-----------------------------------------------------------------------------
(* One condition variable serves waiters for room and waiters for frames,  *)
(* and notify_one may wake the wrong one.  No notification is lost for     *)
(* that: whenever a waiting thread could go on, some thread is awake that  *)
(* will pass the notification on                                           *)
(* (blocking_audioringbuffer.cpp 63-70, 90-96, 115-122).                   *)
BatonHeld ==
  \A t \in Threads : st[t] = "waiting" /\ Ready(t) => \E u \in Threads : st[u] = "woken"
=============================================================================
