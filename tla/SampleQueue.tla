------------------------------ MODULE SampleQueue ------------------------------
(***************************************************************************)
(* What an audio ring buffer promises to its one producer and its          *)
(* consumers: samples come out whole, in order and once, they are never    *)
(* overwritten while unread, and the number of frames taken since the last *)
(* clear tells the time of the next one.                                   *)
(*                                                                         *)
(* A fresh or cleared queue is not empty: it holds one sample that nobody  *)
(* wrote, and everything written comes out one sample late.                *)
(***************************************************************************)
EXTENDS Naturals, Sequences

CONSTANTS
  Capacity,  \* the most samples the queue holds
  Channels,  \* samples in a frame
  Samples,   \* the values of a sample
  Times      \* the times a queue can start at

VARIABLES
  queue,     \* the samples not taken yet
  got,       \* what the last reader got
  taken,     \* frames taken since the start
  start      \* the time of the first frame

vars == <<queue, got, taken, start>>

Fresh(t) ==
  /\ \E s \in Samples : queue' = <<s>>
  /\ taken' = 0
  /\ start' = t
  /\ got' = <<>>

Init ==
  /\ \E s \in Samples : queue = <<s>>
  /\ taken = 0
  /\ start \in Times
  /\ got = <<>>

Put(samples) ==
  /\ Len(queue) + Len(samples) <= Capacity
  /\ queue' = queue \o samples
  /\ got' = <<>>
  /\ UNCHANGED <<taken, start>>

Front(n) == SubSeq(queue, 1, n * Channels)

Take(n) ==
  /\ n * Channels <= Len(queue)
  /\ got' = Front(n)
  /\ queue' = SubSeq(queue, n * Channels + 1, Len(queue))
  /\ taken' = taken + n
  /\ UNCHANGED start

Peek(n) ==
  /\ n * Channels <= Len(queue)
  /\ got' = Front(n)
  /\ UNCHANGED <<queue, taken, start>>

Next ==
  \/ \E t \in Times : Fresh(t)
  \/ \E n \in 0 .. (Capacity \div Channels) :
       \/ \E samples \in [1 .. n * Channels -> Samples] : Put(samples)
       \/ Take(n)
       \/ Peek(n)

Spec == Init /\ [][Next]_vars
=============================================================================
