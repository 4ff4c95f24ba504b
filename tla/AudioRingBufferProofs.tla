-------------------------- MODULE AudioRingBufferProofs --------------------------
(***************************************************************************)
(* The counts of the ring buffer, for every capacity and every number of   *)
(* channels above one.  The argument: the samples between head and tail    *)
(* are always whole frames and one sample (Apart), because clear() leaves  *)
(* one and every call moves an index by whole frames; head and tail        *)
(* therefore never meet, and what is not readable is writable but for one  *)
(* frame.  With one channel the last step fails: see KeepsUnread.          *)
(***************************************************************************)
EXTENDS AudioRingBuffer, Integers, SequenceTheorems, TLAPS

(* Arithmetic.                                                             *)
LEMMA MulMono ==
  ASSUME NEW a \in Int, NEW b \in Int, NEW c \in Nat, a <= b
  PROVE  a * c <= b * c
<1>1. \A d \in Nat : (a + d) * c = a * c + d * c
  BY SMT
<1>2. \A d \in Nat : d * c >= 0
  BY SMT
<1>3. b - a \in Nat /\ b = a + (b - a)
  BY SMT
<1>. QED  BY <1>1, <1>2, <1>3, SMT

LEMMA DivBounds ==
  ASSUME NEW a \in Nat, NEW c \in Nat \ {0}
  PROVE  /\ a \div c \in Nat
         /\ (a \div c) * c <= a
         /\ a < (a \div c) * c + c
BY SMT

LEMMA DivOf ==
  ASSUME NEW k \in Nat, NEW r \in Nat, NEW c \in Nat \ {0}, r < c
  PROVE  (k * c + r) \div c = k
<1>1. k * c \in Nat /\ k * c + r \in Nat
  BY SMT
<1> DEFINE q == (k * c + r) \div c
<1>2. q \in Nat /\ q * c <= k * c + r /\ k * c + r < q * c + c
  BY <1>1, DivBounds
<1>3. (k + 1) * c = k * c + c /\ (q + 1) * c = q * c + c
  BY <1>2, SMT
<1>4. CASE q >= k + 1
  <2>1. (k + 1) * c <= q * c
    BY <1>2, <1>4, MulMono
  <2>. QED  BY <1>1, <1>2, <1>3, <2>1, SMT
<1>5. CASE k >= q + 1
  <2>1. (q + 1) * c <= k * c
    BY <1>2, <1>5, MulMono
  <2>. QED  BY <1>1, <1>2, <1>3, <2>1, SMT
<1>. QED  BY <1>2, <1>4, <1>5, SMT

-----------------------------------------------------------------------------
LEMMA SizeFacts == Size \in Nat /\ (Channels >= 2 => Size >= 4)
<1>1. Frames \in Nat /\ Channels \in Nat /\ Frames >= 2
  BY SizeAssumption, SMT
<1>2. Channels >= 2 => 2 * Channels <= Frames * Channels
  BY <1>1, MulMono, SMT
<1>. QED  BY <1>1, <1>2, SMT DEF Size

(* Head and tail k frames and one sample apart: k frames can be read and   *)
(* all the others but one be written.                                      *)
CountsFact ==
  \A k \in 0 .. Frames - 1 :
    TypeOK /\ Used = k * Channels + 1 =>
      get_frames_can_read = k /\ get_frames_can_write = Frames - 1 - k

LEMMA CountsOf ==
  ASSUME Channels >= 2
  PROVE  CountsFact
<1>. SUFFICES ASSUME NEW k \in 0 .. Frames - 1, TypeOK, Used = k * Channels + 1
              PROVE  get_frames_can_read = k /\ get_frames_can_write = Frames - 1 - k
  BY DEF CountsFact
<1>1. Frames \in Nat /\ Channels \in Nat \ {0} /\ k \in Nat /\ Frames - 1 - k \in Nat
  BY SizeAssumption, SMT
<1>2. get_frames_can_read = k
  BY <1>1, DivOf DEF get_frames_can_read
<1>3. Free = Size - Used
  <2>1. m_head \in Nat /\ m_tail \in Nat /\ Size \in Nat /\ k * Channels \in Nat
    BY <1>1, SizeFacts, SMT DEF TypeOK
  <2>2. m_head # m_tail
    BY <2>1, SMT DEF Used
  <2>. QED  BY <2>1, <2>2, SMT DEF Used, Free
<1>4. Frames * Channels = (Frames - 1 - k) * Channels + k * Channels + Channels
  BY <1>1, SMT
<1>5. Free = (Frames - 1 - k) * Channels + (Channels - 1)
  BY <1>1, <1>3, <1>4, SMT DEF Size
<1>6. get_frames_can_write = Frames - 1 - k
  <2>1. Channels - 1 \in Nat /\ Channels - 1 < Channels
    BY <1>1, SMT
  <2>. QED  BY <1>1, <1>5, <2>1, DivOf DEF get_frames_can_write
<1>. QED  BY <1>2, <1>6

(* Taking n whole frames from k, or adding them, leaves whole frames.      *)
LEMMA FramesMove ==
  ASSUME NEW k \in Nat, NEW n \in Nat, NEW c \in Nat
  PROVE  /\ n <= k => k - n \in Nat /\ (k - n) * c = k * c - n * c
         /\ (k + n) * c = k * c + n * c
         /\ n * c \in Nat /\ k * c \in Nat
         /\ n <= k => n * c <= k * c
BY MulMono, SMT

(* A write of n frames that fits moves tail by n frames.                   *)
LEMMA WriteMoves ==
  ASSUME TypeOK, Channels >= 2, NEW n \in 0 .. Frames, write_into(n),
         NEW k \in 0 .. Frames - 1, Used = k * Channels + 1
  PROVE  /\ k + n \in 0 .. Frames - 1
         /\ m_tail' \in 0 .. Size - 1
         /\ Used' = (k + n) * Channels + 1
<1>0. /\ Frames \in Nat /\ Channels \in Nat \ {0} /\ Frames >= 2
      /\ Size \in Nat /\ Size >= 4
  BY SizeAssumption, SizeFacts
<1>2. k \in Nat /\ n \in Nat /\ k + n \in Nat /\ k + n <= Frames - 1
  <2>1. get_frames_can_write = Frames - 1 - k
    BY CountsOf DEF CountsFact
  <2>. QED  BY <1>0, <2>1, SMT DEF write_into
<1>3. /\ (k + n) * Channels = k * Channels + n * Channels
      /\ n * Channels \in Nat /\ k * Channels \in Nat
  BY <1>0, <1>2, FramesMove
<1>4. (k + n) * Channels + Channels <= Size
  <2>1. k + n + 1 \in Nat /\ (k + n + 1) * Channels = (k + n) * Channels + Channels
    BY <1>0, <1>2, SMT
  <2>2. (k + n + 1) * Channels <= Frames * Channels
    BY <1>0, <1>2, <2>1, MulMono, SMT
  <2>. QED  BY <2>1, <2>2 DEF Size
<1>5. m_tail' = Wrap(m_tail + n * Channels) /\ m_head' = m_head
  BY DEF write_into
<1>6. m_tail' \in 0 .. Size - 1 /\ Used' = (k + n) * Channels + 1
  BY <1>0, <1>3, <1>4, <1>5, SMT DEF TypeOK, Used, Wrap
<1>. QED  BY <1>0, <1>2, <1>6, SMT

(* A call never breaks the types or the distance of the indices.           *)
LEMMA RingStep ==
  ASSUME TypeOK, Apart, Channels >= 2, [Next]_vars
  PROVE  TypeOK' /\ Apart'
<1>0. /\ Frames \in Nat /\ Channels \in Nat \ {0} /\ Frames >= 2
      /\ Size \in Nat /\ Size >= 4
  BY SizeAssumption, SizeFacts
<1>1. ASSUME NEW t \in Times, clear(t)
      PROVE  TypeOK' /\ Apart'
  <2>1. TypeOK'
    BY <1>0, <1>1, SMT DEF TypeOK, clear
  <2>2. Used' = 0 * Channels + 1
    BY <1>0, <1>1, SMT DEF Used, clear
  <2>. QED  BY <1>0, <2>1, <2>2, SMT DEF Apart
<1>2. ASSUME NEW n \in 0 .. Frames, read_into(n)
      PROVE  TypeOK' /\ Apart'
  <2>1. PICK k \in 0 .. Frames - 1 : Used = k * Channels + 1
    BY DEF Apart
  <2>2. k \in Nat /\ n \in Nat /\ n <= k
    BY <1>0, <1>2, <2>1, CountsOf, SMT DEF CountsFact, read_into
  <2>3. /\ (k - n) * Channels = k * Channels - n * Channels
        /\ n * Channels \in Nat /\ k * Channels \in Nat /\ n * Channels <= k * Channels
    BY <1>0, <2>2, FramesMove
  <2>4. m_head' = Wrap(m_head + n * Channels) /\ m_tail' = m_tail
    BY <1>2 DEF read_into
  <2>5. m_head' \in 0 .. Size - 1 /\ Used' = (k - n) * Channels + 1
    BY <1>0, <2>1, <2>3, <2>4, SMT DEF TypeOK, Used, Wrap
  <2>6. got' \in Seq(Samples)
    <3>1. \A i \in 1 .. n * Channels : Wrap(m_head + i - 1) \in 0 .. Size - 1
      BY <1>0, <2>1, <2>3, SMT DEF TypeOK, Used, Wrap
    <3>2. \A i \in 1 .. n * Channels : rb[Wrap(m_head + i - 1)] \in Samples
      BY <3>1 DEF TypeOK
    <3>. QED  BY <1>2, <2>3, <3>2, SMT DEF read_into, Copy
  <2>7. m_frames_read' \in Nat
    BY <1>2, <2>2, SMT DEF TypeOK, read_into
  <2>8. TypeOK'
    BY <1>2, <2>5, <2>6, <2>7 DEF TypeOK, read_into
  <2>9. k - n \in 0 .. Frames - 1
    BY <1>0, <2>2, SMT
  <2>. QED  BY <2>5, <2>8, <2>9 DEF Apart
<1>3. ASSUME NEW n \in 0 .. Frames, peek_into(n)
      PROVE  TypeOK' /\ Apart'
  <2>1. PICK k \in 0 .. Frames - 1 : Used = k * Channels + 1
    BY DEF Apart
  <2>2. k \in Nat /\ n \in Nat /\ n <= k
    BY <1>0, <1>3, <2>1, CountsOf, SMT DEF CountsFact, peek_into
  <2>3. n * Channels \in Nat /\ k * Channels \in Nat /\ n * Channels <= k * Channels
    BY <1>0, <2>2, FramesMove
  <2>4. got' \in Seq(Samples)
    <3>1. \A i \in 1 .. n * Channels : Wrap(m_head + i - 1) \in 0 .. Size - 1
      BY <1>0, <2>1, <2>3, SMT DEF TypeOK, Used, Wrap
    <3>2. \A i \in 1 .. n * Channels : rb[Wrap(m_head + i - 1)] \in Samples
      BY <3>1 DEF TypeOK
    <3>. QED  BY <1>3, <2>3, <3>2, SMT DEF peek_into, Copy
  <2>5. TypeOK'
    BY <1>3, <2>4 DEF TypeOK, peek_into
  <2>6. Used' = Used
    BY <1>3 DEF peek_into, Used
  <2>. QED  BY <2>5, <2>6 DEF Apart
<1>4. ASSUME NEW n \in 0 .. Frames, write_into(n)
      PROVE  TypeOK' /\ Apart'
  <2>1. PICK k \in 0 .. Frames - 1 : Used = k * Channels + 1
    BY DEF Apart
  <2>6. /\ k + n \in 0 .. Frames - 1
        /\ m_tail' \in 0 .. Size - 1
        /\ Used' = (k + n) * Channels + 1
    BY <1>4, <2>1, WriteMoves
  <2>7. rb' \in [0 .. Size - 1 -> Samples]
    <3>1. PICK in \in [1 .. n * Channels -> Samples] :
            rb' = [i \in 0 .. Size - 1 |->
                     LET j == IF i >= m_tail THEN i - m_tail + 1 ELSE i + Size - m_tail + 1
                     IN  IF j <= n * Channels THEN in[j] ELSE rb[i]]
      BY <1>4 DEF write_into
    <3>0. n * Channels \in Nat
      BY <1>0, SMT
    <3>2. \A i \in 0 .. Size - 1 :
            (IF i >= m_tail THEN i - m_tail + 1 ELSE i + Size - m_tail + 1) \in Nat \ {0}
      BY <1>0, SMT DEF TypeOK
    <3>3. \A j \in Nat \ {0} : j <= n * Channels => in[j] \in Samples
      BY <3>0, SMT
    <3>4. \A i \in 0 .. Size - 1 : rb[i] \in Samples
      BY DEF TypeOK
    <3>. QED  BY <3>1, <3>2, <3>3, <3>4, Zenon
  <2>8. TypeOK'
    <3>1. got' \in Seq(Samples)
      BY <1>4, SMT DEF write_into
    <3>. QED  BY <1>4, <2>6, <2>7, <3>1 DEF TypeOK, write_into
  <2>. QED  BY <2>6, <2>8 DEF Apart
<1>5. CASE UNCHANGED vars
  BY <1>5 DEF TypeOK, Apart, Used, vars
<1>. QED  BY <1>1, <1>2, <1>3, <1>4, <1>5 DEF Next

LEMMA RingInit ==
  ASSUME Init, Channels >= 2
  PROVE  TypeOK /\ Apart
<1>1. Size \in Nat /\ Size >= 4 /\ Frames \in Nat /\ Frames >= 2 /\ Channels \in Nat
  BY SizeFacts, SizeAssumption
<1>2. Used = 0 * Channels + 1
  BY <1>1, SMT DEF Init, Used
<1>3. TypeOK
  <2>1. <<>> \in Seq(Samples)
    BY SMT
  <2>2. 0 \in 0 .. Size - 1 /\ 1 \in 0 .. Size - 1
    BY <1>1, SMT
  <2>. QED  BY <2>1, <2>2 DEF Init, TypeOK
<1>. QED  BY <1>1, <1>2, <1>3, SMT DEF Apart

-----------------------------------------------------------------------------
(* With two or more channels head and tail never meet.                     *)
THEOREM RingInvariant ==
  ASSUME Channels >= 2
  PROVE  Spec => [](TypeOK /\ Apart)
<1>1. Init => TypeOK /\ Apart
  BY RingInit
<1>2. TypeOK /\ Apart /\ [Next]_vars => (TypeOK /\ Apart)'
  BY RingStep
<1>. QED  BY <1>1, <1>2, PTL DEF Spec

(* The frames that can be read and those that can be written always add up *)
(* to the capacity less one, so that neither side is stuck for good        *)
(* (audioringbuffer.cpp 67-87).                                            *)
THEOREM CountsCorrect ==
  ASSUME Channels >= 2
  PROVE  Spec => []CountsAddUp
<1>1. TypeOK /\ Apart => CountsAddUp
  <2>. SUFFICES ASSUME TypeOK, Apart PROVE CountsAddUp
    OBVIOUS
  <2>1. PICK k \in 0 .. Frames - 1 : Used = k * Channels + 1
    BY DEF Apart
  <2>2. get_frames_can_read = k /\ get_frames_can_write = Frames - 1 - k
    BY <2>1, CountsOf DEF CountsFact
  <2>. QED  BY <2>2, SizeAssumption, SMT DEF CountsAddUp
<1>. QED  BY <1>1, RingInvariant, PTL

(* A write never overwrites or hides what has not been read, and adds      *)
(* exactly its own frames (audioringbuffer.h 9).                           *)
THEOREM UnreadKept ==
  ASSUME Channels >= 2
  PROVE  Spec => KeepsUnread
<1>1. CountsFact'
  BY CountsOf, PTL
<1>2. ASSUME TypeOK, Apart, TypeOK', NEW n \in 0 .. Frames, write_into(n)
      PROVE  get_frames_can_read' = get_frames_can_read + n
  <2>1. PICK k \in 0 .. Frames - 1 : Used = k * Channels + 1
    BY <1>2 DEF Apart
  <2>2. get_frames_can_read = k
    BY <1>2, <2>1, CountsOf DEF CountsFact
  <2>3. k + n \in 0 .. Frames - 1 /\ Used' = (k + n) * Channels + 1
    BY <1>2, <2>1, WriteMoves
  <2>4. get_frames_can_read' = k + n
    BY <1>1, <1>2, <2>3 DEF CountsFact
  <2>. QED  BY <2>2, <2>4
<1>3. TypeOK /\ Apart /\ TypeOK' =>
        [\A n \in 0 .. Frames :
           write_into(n) => get_frames_can_read' = get_frames_can_read + n]_vars
  BY <1>2
<1>. QED  BY <1>3, RingInvariant, PTL DEF KeepsUnread

-----------------------------------------------------------------------------
(* The refinement of SampleQueue.                                          *)

LEMMA ConcatIs ==
  ASSUME NEW S, NEW s \in Seq(S), NEW t \in Seq(S)
  PROVE  s \o t = [i \in 1 .. Len(s) + Len(t) |-> IF i <= Len(s) THEN s[i] ELSE t[i - Len(s)]]
<1>1. s \o t \in Seq(S) /\ Len(s \o t) = Len(s) + Len(t)
  BY ConcatProperties
<1>2. s \o t \in [1 .. Len(s) + Len(t) -> S]
  BY <1>1, LenProperties, Zenon
<1>. QED  BY <1>2, ConcatProperties, Zenon

LEMMA ContentFacts ==
  ASSUME TypeOK
  PROVE  /\ Used \in Nat
         /\ Content \in Seq(Samples)
         /\ Len(Content) = Used
         /\ \A i \in 1 .. Used : Wrap(m_head + i - 1) \in 0 .. Size - 1
         /\ \A i \in 1 .. Used : Content[i] = rb[Wrap(m_head + i - 1)]
<1>1. Used \in Nat
  BY SizeFacts, SMT DEF TypeOK, Used
<1>2. \A i \in 1 .. Used : Wrap(m_head + i - 1) \in 0 .. Size - 1
  BY SizeFacts, <1>1, SMT DEF TypeOK, Used, Wrap
<1>3. \A i \in 1 .. Used : rb[Wrap(m_head + i - 1)] \in Samples
  BY <1>2 DEF TypeOK
<1>4. Content \in [1 .. Used -> Samples]
  BY <1>3 DEF Content
<1>5. Content \in Seq(Samples) /\ Len(Content) = Used
  BY <1>1, <1>4, SMT
<1>. QED  BY <1>1, <1>2, <1>5 DEF Content

LEMMA CopyIsFront ==
  ASSUME TypeOK, NEW n \in Nat, n * Channels <= Used
  PROVE  Copy(n) = Queue!Front(n)
<1>1. n * Channels \in Nat
  BY SizeAssumption, SMT
<1>2. SubSeq(Content, 1, n * Channels) = [i \in 1 .. n * Channels |-> Content[i]]
  BY <1>1, ContentFacts, SMT
<1>3. \A i \in 1 .. n * Channels : Content[i] = rb[Wrap(m_head + i - 1)]
  BY <1>1, ContentFacts, SMT
<1>. QED  BY <1>2, <1>3 DEF Copy, Queue!Front

LEMMA CapacityFacts ==
  ASSUME Channels >= 2
  PROVE  Capacity \div Channels = Frames - 1 /\ Capacity \in Nat
<1>1. Frames - 1 \in Nat /\ Channels \in Nat \ {0} /\ 1 < Channels
  BY SizeAssumption, SMT
<1>2. (Frames - 1) * Channels \in Nat
  BY <1>1, SMT
<1>3. ((Frames - 1) * Channels + 1) \div Channels = Frames - 1
  BY <1>1, DivOf
<1>. QED  BY <1>2, <1>3, SMT DEF Capacity

LEMMA ClearIsFresh ==
  ASSUME TypeOK, Channels >= 2, NEW t \in Times, clear(t)
  PROVE  Queue!Fresh(t)
<1>1. Size \in Nat /\ Size >= 4
  BY SizeFacts
<1>2. Used' = 1 /\ m_head' = 0 /\ rb' = rb
  BY <1>1, SMT DEF clear, Used
<1>3. Content' = [i \in 1 .. 1 |-> rb[Wrap(0 + i - 1)]]
  BY <1>2 DEF Content, Wrap
<1>4. \A i \in 1 .. 1 : Wrap(0 + i - 1) = 0
  BY <1>1, SMT DEF Wrap
<1>5. Content' = <<rb[0]>>
  BY <1>3, <1>4, SMT
<1>6. rb[0] \in Samples
  BY <1>1, SMT DEF TypeOK
<1>. QED  BY <1>5, <1>6 DEF clear, Queue!Fresh

LEMMA ReadIsTake ==
  ASSUME TypeOK, Apart, Channels >= 2, NEW n \in 0 .. Frames, read_into(n)
  PROVE  Queue!Take(n) /\ n <= Frames - 1
<1>0. Frames \in Nat /\ Channels \in Nat \ {0} /\ Size \in Nat /\ n \in Nat
  BY SizeAssumption, SizeFacts, SMT
<1>1. PICK k \in 0 .. Frames - 1 : Used = k * Channels + 1
  BY DEF Apart
<1>2. k \in Nat /\ n <= k
  <2>1. get_frames_can_read = k
    BY <1>1, CountsOf DEF CountsFact
  <2>. QED  BY <1>0, <2>1, SMT DEF read_into
<1>3. n * Channels \in Nat /\ n * Channels < Used
  <2>1. n * Channels \in Nat /\ k * Channels \in Nat /\ n * Channels <= k * Channels
    BY <1>0, <1>2, FramesMove
  <2>. QED  BY <1>1, <2>1, SMT
<1>4. Used' = Used - n * Channels
  BY <1>0, <1>3, SMT DEF read_into, TypeOK, Used, Wrap
<1>5. SubSeq(Content, n * Channels + 1, Len(Content)) =
        [i \in 1 .. Used - n * Channels |-> Content[i + n * Channels]]
  BY <1>3, ContentFacts, SMT
<1>6. \A i \in 1 .. Used - n * Channels :
        rb'[Wrap(m_head' + i - 1)] = Content[i + n * Channels]
  <2>1. SUFFICES ASSUME NEW i \in 1 .. Used - n * Channels
                 PROVE  rb'[Wrap(m_head' + i - 1)] = Content[i + n * Channels]
    OBVIOUS
  <2>2. i + n * Channels \in 1 .. Used
    BY <1>3, ContentFacts, SMT
  <2>3. Wrap(m_head' + i - 1) = Wrap(m_head + (i + n * Channels) - 1)
    BY <1>0, <1>3, <2>2, ContentFacts, SMT DEF read_into, TypeOK, Used, Wrap
  <2>. QED  BY <2>2, <2>3, ContentFacts DEF read_into
<1>7. Content' = SubSeq(Content, n * Channels + 1, Len(Content))
  <2>1. Content' = [i \in 1 .. Used' |-> rb'[Wrap(m_head' + i - 1)]]
    BY DEF Content, Wrap
  <2>. QED  BY <1>4, <1>5, <1>6, <2>1
<1>8. got' = Queue!Front(n)
  BY <1>0, <1>3, CopyIsFront, ContentFacts, SMT DEF read_into
<1>9. n * Channels <= Len(Content)
  BY <1>3, ContentFacts, SMT
<1>. QED  BY <1>0, <1>2, <1>7, <1>8, <1>9, SMT DEF read_into, Queue!Take

LEMMA PeekIsPeek ==
  ASSUME TypeOK, Apart, Channels >= 2, NEW n \in 0 .. Frames, peek_into(n)
  PROVE  Queue!Peek(n) /\ n <= Frames - 1
<1>0. Frames \in Nat /\ Channels \in Nat \ {0} /\ n \in Nat
  BY SizeAssumption, SMT
<1>1. PICK k \in 0 .. Frames - 1 : Used = k * Channels + 1
  BY DEF Apart
<1>2. k \in Nat /\ n <= k
  <2>1. get_frames_can_read = k
    BY <1>1, CountsOf DEF CountsFact
  <2>. QED  BY <1>0, <2>1, SMT DEF peek_into
<1>3. n * Channels \in Nat /\ n * Channels <= Used
  <2>1. n * Channels \in Nat /\ k * Channels \in Nat /\ n * Channels <= k * Channels
    BY <1>0, <1>2, FramesMove
  <2>. QED  BY <1>1, <2>1, SMT
<1>4. Content' = Content
  BY DEF peek_into, Content, Used, Wrap
<1>5. got' = Queue!Front(n)
  BY <1>0, <1>3, CopyIsFront DEF peek_into
<1>. QED  BY <1>0, <1>2, <1>3, <1>4, <1>5, ContentFacts, SMT DEF peek_into, Queue!Peek

LEMMA WriteIsPut ==
  ASSUME TypeOK, Apart, Channels >= 2, NEW n \in 0 .. Frames, write_into(n)
  PROVE  /\ n <= Frames - 1
         /\ \E in \in [1 .. n * Channels -> Samples] : Queue!Put(in)
<1>0. Frames \in Nat /\ Channels \in Nat \ {0} /\ Size \in Nat /\ n \in Nat
  BY SizeAssumption, SizeFacts, SMT
<1>1. PICK k \in 0 .. Frames - 1 : Used = k * Channels + 1
  BY DEF Apart
<1>2. k + n \in 0 .. Frames - 1 /\ Used' = (k + n) * Channels + 1
  BY <1>1, WriteMoves
<1>3. /\ (k + n) * Channels = k * Channels + n * Channels
      /\ n * Channels \in Nat /\ k * Channels \in Nat
  BY <1>0, <1>1, FramesMove
<1>4. (k + n) * Channels <= (Frames - 1) * Channels
  BY <1>0, <1>2, MulMono, SMT
<1>5. (Frames - 1) * Channels + Channels = Size
  BY <1>0, SMT DEF Size
<1>6. /\ Used' = Used + n * Channels
      /\ Used + n * Channels <= Capacity
      /\ Used + n * Channels < Size
  BY <1>0, <1>1, <1>2, <1>3, <1>4, <1>5, SMT DEF Capacity
<1>7. PICK in \in [1 .. n * Channels -> Samples] :
        rb' = [i \in 0 .. Size - 1 |->
                 LET j == IF i >= m_tail THEN i - m_tail + 1 ELSE i + Size - m_tail + 1
                 IN  IF j <= n * Channels THEN in[j] ELSE rb[i]]
  BY DEF write_into
<1>8. in \in Seq(Samples) /\ Len(in) = n * Channels
  BY <1>3, <1>7, SMT
<1>9. Content \o in =
        [i \in 1 .. Used + n * Channels |->
           IF i <= Used THEN Content[i] ELSE in[i - Used]]
  <2>1. Content \o in =
          [i \in 1 .. Len(Content) + Len(in) |->
             IF i <= Len(Content) THEN Content[i] ELSE in[i - Len(Content)]]
    BY <1>8, ContentFacts, ConcatIs
  <2>. QED  BY <1>8, <2>1, ContentFacts, Zenon
<1>10. \A i \in 1 .. Used + n * Channels :
         rb'[Wrap(m_head + i - 1)] = IF i <= Used THEN Content[i] ELSE in[i - Used]
  <2>1. SUFFICES ASSUME NEW i \in 1 .. Used + n * Channels
                 PROVE  rb'[Wrap(m_head + i - 1)] = IF i <= Used THEN Content[i] ELSE in[i - Used]
    OBVIOUS
  <2> DEFINE w == Wrap(m_head + i - 1)
             j == IF w >= m_tail THEN w - m_tail + 1 ELSE w + Size - m_tail + 1
  <2>2. w \in 0 .. Size - 1 /\ i \in Nat /\ Used \in Nat
    BY <1>0, <1>3, <1>6, ContentFacts, SMT DEF Wrap, TypeOK
  <2>3. rb'[w] = IF j <= n * Channels THEN in[j] ELSE rb[w]
    BY <1>7, <2>2
  <2>4. CASE i <= Used
    <3>1. ~(j <= n * Channels)
      BY <1>0, <1>3, <1>6, <2>2, <2>4, SMT DEF Wrap, TypeOK, Used
    <3>2. Content[i] = rb[w]
      BY <2>2, <2>4, ContentFacts, SMT
    <3>. QED  BY <2>3, <2>4, <3>1, <3>2
  <2>5. CASE i > Used
    <3>1. j = i - Used /\ j <= n * Channels
      BY <1>0, <1>3, <1>6, <2>2, <2>5, SMT DEF Wrap, TypeOK, Used
    <3>2. ~(i <= Used)
      BY <2>2, <2>5, SMT
    <3>. QED  BY <2>3, <3>1, <3>2
  <2>. QED  BY <2>2, <2>4, <2>5, SMT
<1>11. Content' = Content \o in
  <2>1. Content' = [i \in 1 .. Used' |-> rb'[Wrap(m_head' + i - 1)]]
    BY DEF Content, Wrap
  <2>2. m_head' = m_head
    BY DEF write_into
  <2>. QED  BY <1>6, <1>9, <1>10, <2>1, <2>2
<1>12. Len(Content) + Len(in) <= Capacity
  BY <1>6, <1>8, ContentFacts
<1>13. Queue!Put(in)
  BY <1>11, <1>12 DEF write_into, Queue!Put
<1>. QED  BY <1>0, <1>1, <1>2, <1>7, <1>13, SMT

(* The ring buffer implements the queue of samples, for every capacity and *)
(* every number of channels above one.                                     *)
THEOREM RingImplementsQueue ==
  ASSUME Channels >= 2
  PROVE  Spec => Fifo
<1>1. Init => Queue!Init
  <2>. SUFFICES ASSUME Init PROVE Queue!Init
    OBVIOUS
  <2>1. Size \in Nat /\ Size >= 4
    BY SizeFacts
  <2>2. Used = 1 /\ m_head = 0
    BY <2>1, SMT DEF Init, Used
  <2>3. \A i \in 1 .. 1 : Wrap(m_head + i - 1) = 0
    BY <2>1, <2>2, SMT DEF Wrap
  <2>4. Content = <<rb[0]>>
    BY <2>2, <2>3, SMT DEF Content
  <2>5. rb[0] \in Samples
    BY <2>1, SMT DEF Init
  <2>. QED  BY <2>4, <2>5 DEF Init, Queue!Init
<1>2. TypeOK /\ Apart /\ [Next]_vars => [Queue!Next]_(Queue!vars)
  <2>. SUFFICES ASSUME TypeOK, Apart, [Next]_vars PROVE [Queue!Next]_(Queue!vars)
    OBVIOUS
  <2>0. \A n \in 0 .. Frames : n <= Frames - 1 => n \in 0 .. Capacity \div Channels
    BY CapacityFacts, SizeAssumption, SMT
  <2>1. ASSUME NEW t \in Times, clear(t) PROVE Queue!Next
    BY <2>1, ClearIsFresh DEF Queue!Next
  <2>2. ASSUME NEW n \in 0 .. Frames, read_into(n) PROVE Queue!Next
    BY <2>0, <2>2, ReadIsTake DEF Queue!Next
  <2>3. ASSUME NEW n \in 0 .. Frames, peek_into(n) PROVE Queue!Next
    BY <2>0, <2>3, PeekIsPeek DEF Queue!Next
  <2>4. ASSUME NEW n \in 0 .. Frames, write_into(n) PROVE Queue!Next
    BY <2>0, <2>4, WriteIsPut DEF Queue!Next
  <2>5. CASE UNCHANGED vars
    BY <2>5 DEF vars, Queue!vars, Content, Used, Wrap
  <2>. QED  BY <2>1, <2>2, <2>3, <2>4, <2>5 DEF Next
<1>. QED  BY <1>1, <1>2, RingInvariant, PTL DEF Spec, Fifo, Queue!Spec
=============================================================================
