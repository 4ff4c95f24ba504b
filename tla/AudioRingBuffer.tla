---------------------------- MODULE AudioRingBuffer ----------------------------
(***************************************************************************)
(* AudioRingBuffer (audioringbuffer.cpp): the array of samples shared by   *)
(* the audio thread, the visualizer and the audio output, without its lock *)
(* (BlockingAudioRingBuffer models that).  One action is one call.         *)
(*                                                                         *)
(* A sample is a value of the set Samples; a time is a value of Times,     *)
(* because the buffer only stores the start time and adds frames_read to   *)
(* it.  The array is reserved and never filled: its first content is       *)
(* anything.  set_time_in_bounds, which nothing calls, is left out.        *)
(***************************************************************************)
EXTENDS Naturals, Sequences

CONSTANTS
  Frames,    \* m_size_frames
  Channels,  \* m_nb_channels
  Samples,   \* the values of a sample
  Times,     \* the start times clear() is called with
  MaxRead    \* bound on m_frames_read

ASSUME SizeAssumption == Frames \in Nat /\ Frames >= 2 /\ Channels \in Nat \ {0}
ASSUME ValuesAssumption == Samples # {} /\ Times # {} /\ MaxRead \in Nat

VARIABLES
  rb,           \* the samples
  m_head,       \* index of the next sample to read
  m_tail,       \* index of the next sample to write
  m_frames_read,
  m_start_time,
  got           \* what the last read_into or peek_into copied out

vars == <<rb, m_head, m_tail, m_frames_read, m_start_time, got>>

Size == Frames * Channels       \* m_size_samples

TypeOK ==
  /\ rb \in [0 .. Size - 1 -> Samples]
  /\ m_head \in 0 .. Size - 1
  /\ m_tail \in 0 .. Size - 1
  /\ m_frames_read \in Nat
  /\ m_start_time \in Times
  /\ got \in Seq(Samples)

Init ==
  /\ rb \in [0 .. Size - 1 -> Samples]
  /\ m_head = 0
  /\ m_tail = 1
  /\ m_frames_read = 0
  /\ m_start_time \in Times
  /\ got = <<>>

(* if (index >= m_size_samples) index = 0, after every sample              *)
Wrap(i) == IF i >= Size THEN i - Size ELSE i

(* The samples between head and tail, and those between tail and head.     *)
Used == IF m_head < m_tail THEN m_tail - m_head
        ELSE IF m_tail < m_head THEN Size - m_head + m_tail ELSE 0

Free == IF m_head < m_tail THEN Size - m_tail + m_head
        ELSE IF m_tail < m_head THEN m_head - m_tail ELSE 0

get_frames_can_read  == Used \div Channels

(* Mutant: rounded up to whole frames.                                     *)
Mut_get_frames_can_write == (Free + Channels - 1) \div Channels

get_frames_can_write == Free \div Channels

(* The n frames that a read from head copies.                              *)
Copy(n) == [i \in 1 .. n * Channels |-> rb[Wrap(m_head + i - 1)]]

(* Mutant: the samples of the old position stay readable.                  *)
Mut_clear(t) ==
  /\ m_frames_read' = 0
  /\ m_start_time' = t
  /\ got' = <<>>
  /\ UNCHANGED <<rb, m_head, m_tail>>

clear(t) ==
  /\ m_head' = 0
  /\ m_tail' = 1
  /\ m_frames_read' = 0
  /\ m_start_time' = t
  /\ got' = <<>>
  /\ UNCHANGED rb

read_into(n) ==
  /\ get_frames_can_read >= n
  /\ m_frames_read + n <= MaxRead
  /\ got' = Copy(n)
  /\ m_head' = Wrap(m_head + n * Channels)
  /\ m_frames_read' = m_frames_read + n
  /\ UNCHANGED <<rb, m_tail, m_start_time>>

(* Mutant: the frames read are not given back.                             *)
Mut_peek_into(n) ==
  /\ get_frames_can_read >= n
  /\ m_frames_read + n <= MaxRead
  /\ got' = Copy(n)
  /\ m_frames_read' = m_frames_read + n
  /\ UNCHANGED <<rb, m_head, m_tail, m_start_time>>

(* read_into, after which head and frames_read are put back.               *)
peek_into(n) ==
  /\ get_frames_can_read >= n
  /\ got' = Copy(n)
  /\ UNCHANGED <<rb, m_head, m_tail, m_frames_read, m_start_time>>

write_into(n) ==
  /\ get_frames_can_write >= n
  /\ \E in \in [1 .. n * Channels -> Samples] :
       rb' = [i \in 0 .. Size - 1 |->
                LET k == IF i >= m_tail THEN i - m_tail + 1 ELSE i + Size - m_tail + 1
                IN  IF k <= n * Channels THEN in[k] ELSE rb[i]]
  /\ m_tail' = Wrap(m_tail + n * Channels)
  /\ got' = <<>>
  /\ UNCHANGED <<m_head, m_frames_read, m_start_time>>

Next ==
  \/ \E t \in Times : clear(t)
  \/ \E n \in 0 .. Frames : read_into(n) \/ peek_into(n) \/ write_into(n)

Spec == Init /\ [][Next]_vars
-----------------------------------------------------------------------------
(* The indices stay apart by whole frames and one sample: with two or more *)
(* channels the buffer is never brim-full and never drained to the last    *)
(* sample, the two cases in which head and tail meet and both counts are 0 *)
(* (audioringbuffer.cpp 67-87).                                            *)
Apart == \E k \in 0 .. Frames - 1 : Used = k * Channels + 1

(* Reading and writing share Frames - 1 frames: a writer that waits for    *)
(* room and a reader that waits for frames are never both stuck for good   *)
(* while their batches fit together (audioringbuffer.cpp 67-87).           *)
CountsAddUp == get_frames_can_read + get_frames_can_write = Frames - 1

(* "Constant-Sized Non-Self Overwriting Ring Buffer" (audioringbuffer.h    *)
(* 9): a write adds its frames to those that can be read, and takes none   *)
(* of them away.                                                           *)
KeepsUnread ==
  [][\A n \in 0 .. Frames :
       write_into(n) => get_frames_can_read' = get_frames_can_read + n]_vars

Content  == [i \in 1 .. Used |-> rb[Wrap(m_head + i - 1)]]
Capacity == (Frames - 1) * Channels + 1

Queue == INSTANCE SampleQueue WITH
  queue <- Content, taken <- m_frames_read, start <- m_start_time

(* The ring buffer implements the queue of samples: the content of the     *)
(* array from head to tail is the queue (audioringbuffer.cpp 89-132).      *)
Fifo == Queue!Spec
=============================================================================
