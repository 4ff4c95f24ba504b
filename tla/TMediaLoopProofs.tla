---------------------------- MODULE TMediaLoopProofs ----------------------------
(***************************************************************************)
(* Proofs about TMediaLoop: what the loop does to its playlist are calls   *)
(* of Playlist, so that the queue stays valid; the file that plays is the  *)
(* current one of the playlist; only files that failed are dropped; and    *)
(* the others are played in turn.                                          *)
(***************************************************************************)
EXTENDS TMediaLoop, PlaylistProofs

(* The file that failed is one of the playlist until it is dropped, and    *)
(* there is a file when one plays.                                         *)
LoopFacts ==
  /\ move_cmd \in PlaylistMvCmd /\ m_loop_type \in LoopType
  /\ pc = "remove" => failed \in 0 .. size - 1
  /\ pc = "playing" => size > 0

(* Every step of the loop is a call of Playlist or leaves the playlist.    *)
LEMMA LoopStepIsCall ==
  ASSUME IInv, LoopFacts, [LoopNext]_allVars
  PROVE  [Next]_vars
<1>1. CASE LoopEnds \/ Open \/ KeyMove \/ KeyQuit \/ FileEnds \/ FileFails \/ PlayingStops
             \/ Interrupt \/ UNCHANGED allVars
  BY <1>1 DEF LoopEnds, Open, KeyMove, KeyQuit, FileEnds, FileFails, PlayingStops, Interrupt, allVars
<1>2. CASE ~aborted /\ OpenFails
  <2>1. "SKIP" \in PlaylistMvCmd
    BY DEF PlaylistMvCmd
  <2>2. QED
    BY <1>2, <2>1 DEF OpenFails, Next
<1>3. CASE ~aborted /\ DropFailed
  <2>1. failed \in 0 .. size - 1 /\ size \in Nat
    BY <1>3, IInvFacts DEF LoopFacts, DropFailed
  <2>2. failed \in 0 .. size
    BY <2>1, SMT
  <2>3. QED
    BY <1>3, <2>2 DEF Next, DropFailed
<1>4. CASE ~aborted /\ MoveOn
  <2>1. UNCHANGED vars \/ move(move_cmd)
    BY <1>4 DEF MoveOn
  <2>2. QED
    BY <1>4, <2>1 DEF Next, LoopFacts
<1>5. CASE ~aborted /\ KeyLoop
  <2>1. NextLoopType[m_loop_type] \in LoopType
    BY DEF LoopFacts, LoopType, NextLoopType
  <2>2. QED
    BY <1>5, <2>1 DEF KeyLoop, Next
<1>6. CASE ~aborted /\ KeyShuffle
  <2>1. unshuffle \/ shuffle(TRUE)
    BY <1>6 DEF KeyShuffle
  <2>2. QED
    BY <1>6, <2>1 DEF Next
<1>7. QED
  BY <1>1, <1>2, <1>3, <1>4, <1>5, <1>6 DEF LoopNext, Program, Environment

LEMMA CurrentInRange ==
  ASSUME IInv, ~aborted, size > 0
  PROVE  index \in 0 .. size - 1 /\ current \in ToSet(m_entries)
<1>1. index \in 0 .. size - 1 /\ index + 1 \in 1 .. size /\ m_entries \in Seq(Paths)
  BY PlaceInRange DEF IInv
<1>2. DOMAIN m_entries = 1 .. size
  BY <1>1, LenProperties DEF size
<1>3. QED
  BY <1>1, <1>2 DEF current, ToSet

(* Only opening a file and dropping one change what LoopFacts is about.    *)
LEMMA LoopFactsStep ==
  ASSUME IInv, LoopFacts, [LoopNext]_allVars
  PROVE  LoopFacts'
<1>1. CASE LoopEnds \/ KeyMove \/ KeyQuit \/ FileEnds \/ FileFails \/ PlayingStops
             \/ Interrupt \/ UNCHANGED allVars
  <2>1. UNCHANGED vars /\ pc' \in {pc, "done", "next"} /\ failed' = failed
        /\ move_cmd' \in {move_cmd, "SKIP", "REWIND"}
    BY <1>1 DEF LoopEnds, KeyMove, KeyQuit, FileEnds, FileFails, PlayingStops, Interrupt, allVars, loopVars
  <2>2. QED
    BY <2>1 DEF LoopFacts, vars, size, PlaylistMvCmd
<1>2. CASE Open
  <2>1. UNCHANGED vars /\ move_cmd' = "NEXT" /\ pc' = "playing" /\ size > 0
    BY <1>2 DEF Open, Continues
  <2>2. QED
    BY <2>1 DEF LoopFacts, vars, size, PlaylistMvCmd
<1>3. CASE ~aborted /\ OpenFails
  <2>1. move_cmd' = "SKIP" /\ failed' = index /\ size > 0 /\ pc' \in {"remove", "done"}
    BY <1>3 DEF OpenFails, Continues
  <2>2. m_entries' = m_entries /\ m_loop_type' \in {m_loop_type, "REPEAT"}
    BY <1>3 DEF OpenFails, move, vars
  <2>3. index \in 0 .. size - 1
    BY <1>3, <2>1, CurrentInRange
  <2>4. QED
    BY <2>1, <2>2, <2>3 DEF LoopFacts, size, PlaylistMvCmd, LoopType
<1>4. CASE DropFailed
  <2>1. pc' = "top" /\ move_cmd' = move_cmd
    BY <1>4 DEF DropFailed
  <2>2. m_loop_type' = m_loop_type
    BY <1>4 DEF DropFailed, remove, clear, Fail, remove_at_entry_idx
  <2>3. QED
    BY <2>1, <2>2 DEF LoopFacts
<1>5. CASE MoveOn
  <2>1. pc' \in {"top", "done"} /\ move_cmd' = move_cmd
    BY <1>5 DEF MoveOn
  <2>2. m_loop_type' \in {m_loop_type, "REPEAT"}
    BY <1>5 DEF MoveOn, move, vars
  <2>3. QED
    BY <2>1, <2>2 DEF LoopFacts, LoopType
<1>6. CASE KeyLoop
  <2>1. UNCHANGED <<pc, move_cmd, failed, m_entries>> /\ m_loop_type' = NextLoopType[m_loop_type]
    BY <1>6 DEF KeyLoop, set_loop_type, loopVars
  <2>2. QED
    BY <2>1 DEF LoopFacts, LoopType, NextLoopType, size
<1>7. CASE KeyShuffle
  <2>1. UNCHANGED <<pc, move_cmd, failed, m_entries, m_loop_type>>
    BY <1>7 DEF KeyShuffle, shuffle, unshuffle, loopVars
  <2>2. QED
    BY <2>1 DEF LoopFacts, size
<1>8. QED
  BY <1>1, <1>2, <1>3, <1>4, <1>5, <1>6, <1>7 DEF LoopNext, Program, Environment

LEMMA LoopInitFacts ==
  ASSUME LoopInit
  PROVE  IInv /\ LoopFacts /\ PlayingIsCurrent
<1>1. PICK start \in Starts :
        /\ m_entries = start.entries /\ m_loop_type = start.loop_type
        /\ m_shuffled = start.shuffled
  BY DEF LoopInit
<1>2. start.entries \in Seq(Paths) /\ start.loop_type \in LoopType
  BY StartsAssumption DEF Start
<1>3. m_entries \in Seq(Paths) /\ m_loop_type \in LoopType /\ size \in Nat
  BY <1>1, <1>2, LenProperties DEF size
<1>4. IF m_shuffled THEN m_q \in Orders(size) ELSE m_q = [k \in 1 .. size |-> k - 1]
  BY DEF LoopInit
<1>5. m_q \in Orders(size)
  BY <1>3, <1>4, IdentityIsOrder
<1>6. IF size = 0 THEN m_qi = npos ELSE m_qi \in 0 .. size - 1
  <2>1. m_qi = IF size = 0 THEN npos ELSE 0
    BY DEF LoopInit
  <2>2. size # 0 => 0 \in 0 .. size - 1
    BY <1>3, SMT
  <2>3. QED
    BY <2>1, <2>2
<1>7. InOrder
  BY <1>3, <1>4, SMT DEF InOrder
<1>8. IInv
  BY <1>3, <1>5, <1>6, <1>7 DEF IInv, QueueValid
<1>9. LoopFacts /\ PlayingIsCurrent
  BY <1>3 DEF LoopInit, LoopFacts, PlayingIsCurrent, PlaylistMvCmd
<1>10. QED
  BY <1>8, <1>9

LEMMA PlayingStep ==
  ASSUME IInv, LoopFacts, PlayingIsCurrent, [LoopNext]_allVars
  PROVE  PlayingIsCurrent'
<1>1. CASE pc' # "playing"
  BY <1>1 DEF PlayingIsCurrent
<1>2. CASE Open
  <2>1. currently_playing' = current /\ UNCHANGED vars
    BY <1>2 DEF Open
  <2>2. QED
    BY <2>1 DEF PlayingIsCurrent, current, index, vars
<1>3. CASE pc = "playing" /\ UNCHANGED vars /\ UNCHANGED currently_playing
  BY <1>3 DEF PlayingIsCurrent, current, index, vars
<1>4. CASE ~aborted /\ KeyLoop
  BY <1>4 DEF KeyLoop, set_loop_type, loopVars, PlayingIsCurrent, current, index
<1>5. CASE ~aborted /\ KeyShuffle
  <2>1. pc = "playing" /\ size > 0 /\ UNCHANGED loopVars /\ (unshuffle \/ shuffle(TRUE))
    BY <1>5 DEF KeyShuffle, Press, LoopFacts
  <2>2. current' = current
    BY <1>5, <2>1, ReorderKeepsCurrent
  <2>3. QED
    BY <2>1, <2>2 DEF PlayingIsCurrent, loopVars
<1>6. LoopEnds \/ OpenFails \/ DropFailed \/ MoveOn \/ PlayingStops => pc' # "playing"
  BY DEF LoopEnds, OpenFails, DropFailed, MoveOn, PlayingStops
<1>7. KeyMove \/ KeyQuit \/ FileEnds \/ FileFails \/ Interrupt \/ UNCHANGED allVars
        => UNCHANGED <<vars, currently_playing, pc>>
  BY DEF KeyMove, KeyQuit, FileEnds, FileFails, Interrupt, allVars, loopVars
<1>8. QED
  BY <1>1, <1>2, <1>3, <1>4, <1>5, <1>6, <1>7 DEF LoopNext, Program, Environment

(* For any files, started in any way and used in any way: the file that    *)
(* plays is the one that the playlist says is current.                     *)
THEOREM PlayingStaysCurrent == LoopSpec => []PlayingIsCurrent
<1>1. IInv /\ LoopFacts /\ [LoopNext]_allVars => IInv'
  BY LoopStepIsCall, NextIInv
<1>2. IInv /\ LoopFacts /\ PlayingIsCurrent /\ [LoopNext]_allVars
        => (IInv /\ LoopFacts /\ PlayingIsCurrent)'
  BY <1>1, LoopFactsStep, PlayingStep
<1>3. QED
  BY LoopInitFacts, <1>2, PTL DEF LoopSpec
-----------------------------------------------------------------------------
(* No file is given twice: the first of two would be dropped alone.        *)
GivenOnce == \A start \in Starts : IsInjective(start.entries)

Pending == IF pc = "remove" THEN {m_entries[failed + 1]} ELSE {}

(* The playlist holds what was given and has not failed, each once, and    *)
(* between OpenFails and DropFailed the file that failed last.             *)
FilesCounted ==
  ~aborted /\ pc # "done" =>
    /\ IsInjective(m_entries)
    /\ Pending \subseteq failures
    /\ ToSet(m_entries) = (ToSet(given) \ failures) \union Pending

(* Removing the file at an index removes it from the files, and no other.  *)
LEMMA RemovedFromSet ==
  ASSUME NEW s \in Seq(Paths), IsInjective(s), NEW i \in 1 .. Len(s)
  PROVE  /\ IsInjective(RemoveAt(s, i))
         /\ ToSet(RemoveAt(s, i)) = ToSet(s) \ {s[i]}
<1> DEFINE r == RemoveAt(s, i)
           n == Len(s)
           Old(k) == IF k < i THEN k ELSE k + 1
<1>1. /\ r \in Seq(Paths) /\ Len(r) = n - 1 /\ n \in Nat
      /\ \A k \in 1 .. n - 1 : r[k] = IF k < i THEN s[k] ELSE s[k + 1]
  BY RemoveAtIs, LenProperties
<1>2. DOMAIN s = 1 .. n /\ DOMAIN r = 1 .. n - 1
  BY <1>1, LenProperties
<1>3. \A k \in 1 .. n - 1 : r[k] = s[Old(k)]
  BY <1>1
<1>4. \A k \in 1 .. n - 1 : Old(k) \in 1 .. n /\ Old(k) # i
  BY <1>1, SMT
<1>5. \A j, k \in 1 .. n - 1 : Old(j) = Old(k) => j = k
  BY <1>1, SMT
<1>6. \A k \in 1 .. n : k # i => \E j \in 1 .. n - 1 : Old(j) = k
  <2>1. SUFFICES ASSUME NEW k \in 1 .. n, k # i
                 PROVE  \E j \in 1 .. n - 1 : Old(j) = k
    OBVIOUS
  <2>2. CASE k < i
    <3>1. k \in 1 .. n - 1 /\ Old(k) = k
      BY <1>1, <2>2, SMT
    <3>2. QED
      BY <3>1
  <2>3. CASE ~(k < i)
    <3>1. k - 1 \in 1 .. n - 1 /\ Old(k - 1) = k
      BY <1>1, <2>1, <2>3, SMT
    <3>2. QED
      BY <3>1
  <2>4. QED
    BY <2>2, <2>3
<1>7. \A j, k \in 1 .. n : s[j] = s[k] => j = k
  BY <1>2 DEF IsInjective
<1> HIDE DEF r, n, Old
<1>8. \A j, k \in 1 .. n - 1 : r[j] = r[k] => j = k
  BY <1>3, <1>4, <1>5, <1>7
<1>9. \A x : x \in ToSet(r) <=> x \in ToSet(s) /\ x # s[i]
  <2>1. i \in 1 .. n
    BY DEF n
  <2>2. ASSUME NEW x, x \in ToSet(r)
        PROVE  x \in ToSet(s) /\ x # s[i]
    <3>1. PICK k \in 1 .. n - 1 : x = r[k]
      BY <1>2, <2>2 DEF ToSet
    <3>2. QED
      BY <1>2, <1>3, <1>4, <1>7, <2>1, <3>1 DEF ToSet
  <2>3. ASSUME NEW x, x \in ToSet(s), x # s[i]
        PROVE  x \in ToSet(r)
    <3>1. PICK k \in 1 .. n : x = s[k]
      BY <1>2, <2>3 DEF ToSet
    <3>2. PICK j \in 1 .. n - 1 : Old(j) = k
      BY <1>6, <2>3, <3>1
    <3>3. QED
      BY <1>2, <1>3, <3>1, <3>2 DEF ToSet
  <2>4. QED
    BY <2>2, <2>3
<1>10. IsInjective(r)
  BY <1>2, <1>8 DEF IsInjective
<1>11. QED
  BY <1>9, <1>10 DEF r

LEMMA DropStep ==
  ASSUME IInv, LoopFacts, FilesCounted, ~aborted, DropFailed
  PROVE  FilesCounted'
<1>1. /\ failed \in 0 .. size - 1 /\ size \in Nat /\ m_entries \in Seq(Paths)
      /\ DOMAIN m_entries = 1 .. size
  BY IInvFacts, LenProperties DEF LoopFacts, DropFailed, IInv, size
<1>2. failed + 1 \in 1 .. size
  BY <1>1, SMT
<1>3. /\ IsInjective(m_entries) /\ m_entries[failed + 1] \in failures
      /\ ToSet(m_entries) = (ToSet(given) \ failures) \union {m_entries[failed + 1]}
  BY DEF DropFailed, FilesCounted, Pending
<1>4. UNCHANGED <<given, failures>> /\ pc' = "top"
  BY DEF DropFailed
<1>5. SUFFICES ASSUME ~aborted'
               PROVE  IsInjective(m_entries') /\ ToSet(m_entries') = ToSet(m_entries) \ {m_entries[failed + 1]}
  BY <1>3, <1>4 DEF FilesCounted, Pending
<1>6. CASE size <= 1
  <2>1. m_entries' = <<>>
    BY <1>6 DEF DropFailed, remove, clear
  <2>2. size = 1 /\ failed = 0
    BY <1>1, <1>6, SMT
  <2>3. DOMAIN <<>> = {}
    BY EmptySeq, SMT
  <2>4. IsInjective(<<>>) /\ ToSet(<<>>) = {}
    BY <2>3 DEF IsInjective, ToSet
  <2>5. \A x \in ToSet(m_entries) : x = m_entries[failed + 1]
    <3>1. \A k \in 1 .. size : k = failed + 1
      BY <2>2, SMT
    <3>2. QED
      BY <1>1, <3>1 DEF ToSet
  <2>6. QED
    BY <2>1, <2>4, <2>5
<1>7. CASE ~(size <= 1)
  <2>1. failed # size /\ size # 1
    BY <1>1, <1>7, SMT
  <2>2. m_entries' = RemoveAt(m_entries, failed + 1)
    BY <1>7, <2>1 DEF DropFailed, remove, remove_at_entry_idx
  <2>3. QED
    BY <1>1, <1>2, <1>3, <2>2, RemovedFromSet DEF size
<1>8. QED
  BY <1>6, <1>7

LEMMA FilesStep ==
  ASSUME IInv, LoopFacts, FilesCounted, [LoopNext]_allVars
  PROVE  FilesCounted'
<1>1. CASE ~aborted /\ DropFailed
  BY <1>1, DropStep
<1>2. CASE ~aborted /\ OpenFails
  <2>1. /\ size > 0 /\ pc = "top" /\ failed' = index /\ failures' = failures \union {current}
        /\ pc' \in {"remove", "done"} /\ m_entries' = m_entries /\ given' = given
    BY <1>2 DEF OpenFails, Continues, move, vars
  <2>2. /\ IsInjective(m_entries) /\ ToSet(m_entries) = ToSet(given) \ failures
    BY <1>2, <2>1 DEF FilesCounted, Pending
  <2>3. current \in ToSet(m_entries)
    BY <1>2, <2>1, CurrentInRange
  <2>4. pc' = "remove" => Pending' = {current}
    BY <2>1 DEF Pending, current
  <2>5. QED
    BY <2>1, <2>2, <2>3, <2>4 DEF FilesCounted
<1>3. CASE pc # "remove" /\ pc # "done" /\ pc' # "remove" /\ UNCHANGED <<m_entries, given, failures, aborted>>
  BY <1>3 DEF FilesCounted, Pending
<1>4. CASE pc = "done"
  <2>1. pc' = "done"
    BY <1>4 DEF LoopNext, Program, Environment, LoopEnds, Open, OpenFails, DropFailed, KeyMove, KeyQuit,
      KeyLoop, KeyShuffle, Press, FileEnds, FileFails, PlayingStops, MoveOn, Interrupt, allVars, loopVars
  <2>2. QED
    BY <2>1 DEF FilesCounted
<1>5. CASE Interrupt \/ UNCHANGED allVars
  <2>1. UNCHANGED <<m_entries, given, failures, aborted, pc, failed>>
    BY <1>5 DEF Interrupt, allVars, loopVars, vars
  <2>2. QED
    BY <2>1 DEF FilesCounted, Pending
<1>6. LoopEnds \/ Open \/ FileEnds \/ PlayingStops \/ KeyMove \/ KeyQuit \/ FileFails
        => /\ pc # "remove" /\ pc # "done" /\ pc' # "remove"
           /\ UNCHANGED <<m_entries, given, failures, aborted>>
  BY DEF LoopEnds, Open, FileEnds, PlayingStops, KeyMove, KeyQuit, FileFails, Press, vars
<1>7. MoveOn \/ KeyLoop \/ KeyShuffle
        => /\ pc # "remove" /\ pc # "done" /\ pc' # "remove"
           /\ UNCHANGED <<m_entries, given, failures, aborted>>
  BY DEF MoveOn, move, KeyLoop, set_loop_type, KeyShuffle, shuffle, unshuffle, Press, vars, loopVars
<1>8. QED
  BY <1>1, <1>2, <1>3, <1>4, <1>5, <1>6, <1>7 DEF LoopNext, Program, Environment

(* For any files, none given twice, started and used in any way: a file    *)
(* that can be opened stays in the playlist, and one that failed has left  *)
(* it when the next one is tried.                                          *)
THEOREM OnlyFailuresLeave ==
  ASSUME GivenOnce
  PROVE  LoopSpec => []OnlyFailuresDropped
<1>1. LoopInit => IInv /\ LoopFacts /\ FilesCounted
  <2>1. LoopInit => FilesCounted
    BY DEF LoopInit, FilesCounted, Pending, GivenOnce
  <2>2. QED
    BY <2>1, LoopInitFacts
<1>2. IInv /\ LoopFacts /\ FilesCounted /\ [LoopNext]_allVars
        => (IInv /\ LoopFacts /\ FilesCounted)'
  BY LoopStepIsCall, NextIInv, LoopFactsStep, FilesStep
<1>3. FilesCounted => OnlyFailuresDropped
  BY DEF FilesCounted, OnlyFailuresDropped, Pending
<1>4. QED
  BY <1>1, <1>2, <1>3, PTL DEF LoopSpec
-----------------------------------------------------------------------------
(* Whose turn it is.                                                       *)

(* InTurn as a function of what it depends on.                             *)
TurnIn(g, F, file) ==
  LET n == Len(g)
      p == CHOOSE k \in 1 .. n : g[k] = file
      after(d) == g[((p - 1 + d) % n) + 1]
      first == CHOOSE d \in 1 .. n :
                 after(d) \notin F /\ \A e \in 1 .. d - 1 : after(e) \in F
  IN  after(first)

(* The files of s come in the order they have in g.                        *)
OrderedIn(s, g) ==
  \A i, j \in 1 .. Len(s), a, b \in 1 .. Len(g) :
    s[i] = g[a] /\ s[j] = g[b] /\ i < j => a < b

LEMMA ModIs ==
  ASSUME NEW n \in Nat \ {0}, NEW a \in Nat
  PROVE  /\ a < n => a % n = a
         /\ n <= a /\ a < 2 * n => a % n = a - n
BY SMT

(* Going d places on in a circle of n, from place p.                       *)
LEMMA CirclePlace ==
  ASSUME NEW n \in Nat \ {0}, NEW p \in 1 .. n, NEW d \in 1 .. n
  PROVE  ((p - 1 + d) % n) + 1 = IF p + d <= n THEN p + d ELSE p + d - n
<1>1. p - 1 + d \in Nat /\ p - 1 + d < 2 * n
  BY SMT
<1>2. CASE p + d <= n
  <2>1. p - 1 + d < n
    BY <1>2, SMT
  <2>2. (p - 1 + d) % n = p - 1 + d
    BY <1>1, <2>1, ModIs
  <2>3. QED
    BY <1>2, <2>2, SMT
<1>3. CASE ~(p + d <= n)
  <2>1. n <= p - 1 + d
    BY <1>3, SMT
  <2>2. (p - 1 + d) % n = p - 1 + d - n
    BY <1>1, <2>1, ModIs
  <2>3. QED
    BY <1>3, <2>2, SMT
<1>4. QED
  BY <1>2, <1>3

(* s is what is left of g, of which no file is missing that is not in F.   *)
LeftOf(s, g, F) ==
  /\ g \in Seq(Paths) /\ IsInjective(g)
  /\ s \in Seq(Paths) /\ OrderedIn(s, g)
  /\ ToSet(g) \ F \subseteq ToSet(s)
  /\ ToSet(s) \subseteq ToSet(g)

(* The files between two neighbours of s (in the circle) are not left: the *)
(* second is the turn that comes after the first.                          *)
LEMMA NeighbourIsNext ==
  ASSUME NEW g, NEW F, NEW s, LeftOf(s, g, F),
         NEW i \in 1 .. Len(s), NEW j \in 1 .. Len(s),
         j = (IF i < Len(s) THEN i + 1 ELSE 1),
         s[j] \notin F
  PROVE  TurnIn(g, F, s[i]) = s[j]
<1> DEFINE n == Len(g)
           m == Len(s)
<1> USE DEF LeftOf
<1>1. n \in Nat /\ m \in Nat /\ DOMAIN g = 1 .. n /\ DOMAIN s = 1 .. m
  BY LenProperties
<1>2. \A a, b \in 1 .. n : g[a] = g[b] => a = b
  BY <1>1 DEF IsInjective
<1>3. \A k \in 1 .. m : \E a \in 1 .. n : s[k] = g[a]
  BY <1>1 DEF ToSet
<1>4. \A a \in 1 .. n : g[a] \notin F => \E k \in 1 .. m : s[k] = g[a]
  BY <1>1 DEF ToSet
<1>5. \A k, l \in 1 .. m, a, b \in 1 .. n : s[k] = g[a] /\ s[l] = g[b] /\ k < l => a < b
  BY DEF OrderedIn
<1>6. i \in 1 .. m /\ j \in 1 .. m /\ j = (IF i < m THEN i + 1 ELSE 1)
  OBVIOUS
<1>7. PICK p \in 1 .. n : s[i] = g[p]
  BY <1>3, <1>6
<1>8. PICK q \in 1 .. n : s[j] = g[q]
  BY <1>3, <1>6
<1> DEFINE after(d) == g[((p - 1 + d) % n) + 1]
           Right(d) == after(d) \notin F /\ \A e \in 1 .. d - 1 : after(e) \in F
           steps == IF p < q THEN q - p ELSE q - p + n
<1>9. (CHOOSE k \in 1 .. n : g[k] = s[i]) = p
  BY <1>2, <1>7
<1>10. TurnIn(g, F, s[i]) = after(CHOOSE d \in 1 .. n : Right(d))
  BY <1>9 DEF TurnIn
<1> HIDE DEF n, m
<1>11. n \in Nat \ {0} /\ steps \in 1 .. n
  BY <1>1, <1>7, <1>8, SMT
<1>12. after(steps) = s[j]
  <2>1. ((p - 1 + steps) % n) + 1 = q
    <3>1. ((p - 1 + steps) % n) + 1 = IF p + steps <= n THEN p + steps ELSE p + steps - n
      BY <1>11, CirclePlace
    <3>2. QED
      BY <1>11, <3>1, SMT
  <2>2. QED
    BY <1>8, <2>1
<1>13. IF i < m THEN p < q ELSE q <= p
  <2>1. CASE i < m
    <3>1. i < j
      BY <1>1, <1>6, <2>1, SMT
    <3>2. QED
      BY <1>5, <1>6, <1>7, <1>8, <2>1, <3>1
  <2>2. CASE ~(i < m) /\ i = j
    <3>1. p = q
      BY <1>2, <1>7, <1>8, <2>2
    <3>2. QED
      BY <2>2, <3>1, SMT
  <2>3. CASE ~(i < m) /\ i # j
    <3>1. j < i
      BY <1>1, <1>6, <2>3, SMT
    <3>2. q < p
      BY <1>5, <1>6, <1>7, <1>8, <3>1
    <3>3. QED
      BY <2>3, <3>2, SMT
  <2>4. QED
    BY <2>1, <2>2, <2>3
<1>14. ASSUME NEW d \in 1 .. steps - 1
       PROVE  after(d) \in F
  <2> DEFINE r == IF p + d <= n THEN p + d ELSE p + d - n
  <2>1. d \in 1 .. n
    BY <1>11, SMT
  <2>2. after(d) = g[r]
    BY <1>11, <2>1, CirclePlace
  <2>3. /\ r \in 1 .. n
        /\ IF p < q THEN p < r /\ r < q ELSE p < r \/ r < q
    BY <1>11, SMT
  <2> HIDE DEF r
  <2>4. SUFFICES ASSUME NEW k \in 1 .. m, s[k] = g[r]
                 PROVE  FALSE
    BY <1>4, <2>2, <2>3
  <2>5. /\ k < i => r < p
        /\ k = i => r = p
        /\ i < k => p < r
    BY <1>2, <1>5, <1>6, <1>7, <2>3, <2>4
  <2>6. /\ k < j => r < q
        /\ k = j => r = q
        /\ j < k => q < r
    BY <1>2, <1>5, <1>6, <1>8, <2>3, <2>4
  <2>7. QED
    BY <1>1, <1>6, <1>13, <2>3, <2>5, <2>6, SMT
<1>15. Right(steps)
  BY <1>12, <1>14
<1>16. \A d \in 1 .. n : Right(d) => d = steps
  <2>1. SUFFICES ASSUME NEW d \in 1 .. n, Right(d), d # steps
                 PROVE  FALSE
    OBVIOUS
  <2> HIDE DEF after, steps
  <2>2. CASE d < steps
    <3>1. d \in 1 .. steps - 1
      BY <1>11, <2>2, SMT
    <3>2. QED
      BY <1>14, <2>1, <3>1
  <2>3. CASE steps < d
    <3>1. steps \in 1 .. d - 1
      BY <1>11, <2>3, SMT
    <3>2. QED
      BY <1>15, <2>1, <3>1
  <2>4. QED
    BY <1>11, <2>1, <2>2, <2>3, SMT
<1> HIDE DEF Right, after, steps
<1>17. (CHOOSE d \in 1 .. n : Right(d)) = steps
  BY <1>11, <1>15, <1>16
<1>18. QED
  BY <1>10, <1>12, <1>17

(* What is left when one file is taken out is in the same order.           *)
LEMMA RemovedInOrder ==
  ASSUME NEW g, NEW s \in Seq(Paths), OrderedIn(s, g), NEW i \in 1 .. Len(s)
  PROVE  OrderedIn(RemoveAt(s, i), g)
<1> DEFINE r == RemoveAt(s, i)
           n == Len(s)
           Old(k) == IF k < i THEN k ELSE k + 1
<1>1. /\ Len(r) = n - 1 /\ n \in Nat
      /\ \A k \in 1 .. n - 1 : r[k] = s[Old(k)]
  BY RemoveAtIs, LenProperties
<1>2. \A k \in 1 .. n - 1 : Old(k) \in 1 .. n
  BY <1>1, SMT
<1>3. \A j, k \in 1 .. n - 1 : j < k => Old(j) < Old(k)
  BY <1>1, SMT
<1> HIDE DEF r, Old
<1>4. OrderedIn(r, g)
  BY <1>1, <1>2, <1>3 DEF OrderedIn, n
<1>5. QED
  BY <1>4 DEF r

LEMMA InTurnIs == InTurn(currently_playing) = TurnIn(given, failures, currently_playing)
BY DEF InTurn, TurnIn, Position

LEMMA InTurnIsNext ==
  InTurn(currently_playing)' = TurnIn(given', failures', currently_playing')
BY DEF InTurn, TurnIn, Position

(* What makes the next file the one whose turn it is: the playlist stays   *)
(* in the order it was given in, the file that was played is current until *)
(* the loop moves on, and after a failure the loop has moved on before it  *)
(* drops the file.                                                         *)
TurnInv ==
  /\ given \in Seq(Paths) /\ IsInjective(given)
  /\ OrderedIn(m_entries, given)
  /\ pc = "next" => size > 0
  /\ pc = "next" /\ ~aborted => current = currently_playing
  /\ pc = "remove" /\ ~aborted /\ ~m_shuffled /\ size > 1 =>
       index # failed /\ current = InTurn(currently_playing)

(* A move forward in a playlist that is not shuffled ends at the           *)
(* neighbour of the current file.                                          *)
LEMMA MoveToNeighbour ==
  ASSUME IInv, ~aborted, size > 0, NEW cmd, move(cmd), ~m_shuffled',
         cmd = "SKIP" \/ (cmd = "NEXT" /\ m_loop_type # "REPEAT_ONE")
  PROVE  /\ ~m_shuffled /\ m_entries' = m_entries /\ aborted' = aborted
         /\ index \in 0 .. size - 1
         /\ index' = IF index + 1 < size THEN index + 1 ELSE 0
         /\ current' = m_entries[(IF index + 1 < size THEN index + 1 ELSE 0) + 1]
<1> DEFINE next == playlist_get_move(cmd)
<1>1. /\ size \in Nat /\ m_qi \in 0 .. size - 1 /\ m_qi + 1 \in 1 .. size /\ Len(m_q) = size
  BY PlaceInRange, IInvFacts
<1>2. m_qi' = next /\ UNCHANGED <<m_q, m_shuffled, m_entries, aborted>> /\ next # npos
  BY DEF move, can_move, Reshuffle
<1>3. \A k \in 1 .. size : m_q[k] = k - 1
  BY <1>2 DEF IInv, InOrder
<1>4. index = m_qi
  BY <1>1, <1>3, SMT DEF index
<1>5. next = playlist_get_skip(m_qi, size, m_loop_type)
  BY <1>1 DEF playlist_get_move, playlist_get_next
<1>6. next = IF m_qi + 1 < size THEN m_qi + 1 ELSE 0
  <2>1. CASE m_qi + 1 < size
    <3>1. m_qi + 1 # size
      BY <1>1, <2>1, SMT
    <3>2. QED
      BY <1>5, <2>1, <3>1 DEF playlist_get_skip
  <2>2. CASE ~(m_qi + 1 < size)
    <3>1. m_qi + 1 = size
      BY <1>1, <2>2, SMT
    <3>2. QED
      BY <1>2, <1>5, <2>2, <3>1 DEF playlist_get_skip
  <2>3. QED
    BY <2>1, <2>2
<1>7. next \in 0 .. size - 1 /\ next + 1 \in 1 .. size /\ (next + 1) - 1 = next
  BY <1>1, <1>6, SMT
<1>8. index' = next
  BY <1>2, <1>3, <1>7 DEF index
<1>9. QED
  BY <1>1, <1>2, <1>4, <1>6, <1>8 DEF current

(* So does the loop at the end of a file ...                               *)
LEMMA MoveOnTurn ==
  ASSUME IInv, FilesCounted, TurnInv, ~aborted, MoveOn, pc' = "top", ~m_shuffled',
         move_cmd = "SKIP" \/ (move_cmd = "NEXT" /\ m_loop_type' # "REPEAT_ONE")
  PROVE  current' = InTurn(currently_playing)'
<1>1. /\ pc = "next" /\ size > 0 /\ move(move_cmd)
      /\ UNCHANGED <<given, failures, currently_playing>>
      /\ current = currently_playing
  BY DEF MoveOn, TurnInv
<1>2. move_cmd = "NEXT" => m_loop_type # "REPEAT_ONE"
  BY <1>1 DEF move
<1> DEFINE i == index + 1
           j == (IF index + 1 < size THEN index + 1 ELSE 0) + 1
<1>3. /\ m_entries' = m_entries /\ index \in 0 .. size - 1
      /\ current' = m_entries[j]
  BY <1>1, <1>2, MoveToNeighbour
<1>4. /\ size \in Nat /\ m_entries \in Seq(Paths) /\ size = Len(m_entries) /\ DOMAIN m_entries = 1 .. size
  BY IInvFacts, LenProperties DEF IInv, size
<1>5. i \in 1 .. size /\ j \in 1 .. size /\ j = (IF i < size THEN i + 1 ELSE 1)
  BY <1>1, <1>3, <1>4, SMT
<1>6. ToSet(m_entries) = ToSet(given) \ failures
  BY <1>1 DEF FilesCounted, Pending
<1>7. m_entries[j] \in ToSet(m_entries)
  BY <1>4, <1>5 DEF ToSet
<1>8. m_entries[i] = currently_playing
  BY <1>1 DEF current
<1> HIDE DEF i, j
<1>9. /\ LeftOf(m_entries, given, failures)
      /\ m_entries[j] \notin failures
      /\ i \in 1 .. Len(m_entries) /\ j \in 1 .. Len(m_entries)
      /\ j = (IF i < Len(m_entries) THEN i + 1 ELSE 1)
  BY <1>4, <1>5, <1>6, <1>7 DEF TurnInv, LeftOf
<1>10. TurnIn(given, failures, m_entries[i]) = m_entries[j]
  BY <1>9, NeighbourIsNext
<1>11. given' = given /\ failures' = failures /\ currently_playing' = currently_playing
  BY <1>1
<1>12. TurnIn(given', failures', currently_playing') = m_entries[j]
  BY <1>8, <1>10, <1>11
<1>13. QED
  BY <1>3, <1>12, InTurnIsNext

(* ... and when the file could not be opened, which then is another one    *)
(* than the file to go on with.                                            *)
LEMMA OpenFailsTurn ==
  ASSUME IInv, FilesCounted, TurnInv, ~aborted, OpenFails, pc' = "remove", ~m_shuffled', size' > 1
  PROVE  index' # failed' /\ current' = InTurn(currently_playing)'
<1>1. /\ pc = "top" /\ size > 0 /\ move("SKIP")
      /\ given' = given /\ failures' = failures \union {current} /\ failed' = index
      /\ currently_playing' = current
  BY DEF OpenFails, Continues
<1> DEFINE i == index + 1
           j == (IF index + 1 < size THEN index + 1 ELSE 0) + 1
<1>3. /\ m_entries' = m_entries /\ index \in 0 .. size - 1
      /\ index' = (IF index + 1 < size THEN index + 1 ELSE 0)
      /\ current' = m_entries[j]
  BY <1>1, MoveToNeighbour
<1>4. /\ size \in Nat /\ m_entries \in Seq(Paths) /\ size = Len(m_entries) /\ DOMAIN m_entries = 1 .. size
      /\ size' = size
  BY <1>3, IInvFacts, LenProperties DEF IInv, size
<1>5. i \in 1 .. size /\ j \in 1 .. size /\ j = (IF i < size THEN i + 1 ELSE 1) /\ i # j /\ index' # index
  BY <1>1, <1>3, <1>4, SMT
<1>6. ToSet(m_entries) = ToSet(given) \ failures /\ IsInjective(m_entries)
  BY <1>1 DEF FilesCounted, Pending
<1>7. m_entries[j] \in ToSet(m_entries) /\ m_entries[i] # m_entries[j]
  BY <1>4, <1>5, <1>6 DEF ToSet, IsInjective
<1>8. m_entries[i] = current
  BY DEF current
<1> HIDE DEF i, j
<1>9. /\ LeftOf(m_entries, given, failures')
      /\ m_entries[j] \notin failures'
      /\ i \in 1 .. Len(m_entries) /\ j \in 1 .. Len(m_entries)
      /\ j = (IF i < Len(m_entries) THEN i + 1 ELSE 1)
  BY <1>1, <1>4, <1>5, <1>6, <1>7, <1>8 DEF TurnInv, LeftOf
<1>10. TurnIn(given, failures', m_entries[i]) = m_entries[j]
  BY <1>9, NeighbourIsNext
<1>11. QED
  BY <1>1, <1>3, <1>5, <1>8, <1>10, InTurnIsNext

(* Dropping the file that failed leaves the current one current.           *)
LEMMA DropFailedTurn ==
  ASSUME IInv, LoopFacts, TurnInv, ~aborted, DropFailed, ~m_shuffled', size' > 0
  PROVE  current' = InTurn(currently_playing)'
<1>1. /\ pc = "remove" /\ remove(failed) /\ failed \in 0 .. size - 1
      /\ UNCHANGED <<given, failures, currently_playing>>
  BY DEF DropFailed, LoopFacts
<1>2. size > 1
  <2>1. CASE size <= 1
    <3>1. m_entries' = <<>>
      BY <1>1, <2>1 DEF remove, clear
    <3>2. size' = 0
      BY <3>1, EmptySeq DEF size
    <3>3. QED
      BY <3>2, SMT
  <2>2. QED
    BY <2>1, IInvFacts, SMT
<1>3. ~m_shuffled
  <2>1. ~(size <= 1) /\ size # 1 /\ failed # size
    BY <1>1, <1>2, IInvFacts, SMT
  <2>2. QED
    BY <1>1, <2>1 DEF remove, remove_at_entry_idx
<1>4. index # failed /\ current = InTurn(currently_playing)
  BY <1>1, <1>2, <1>3 DEF TurnInv
<1>5. current' = current
  BY <1>1, <1>2, <1>3, <1>4, RemoveOther
<1>6. QED
  BY <1>1, <1>4, <1>5, InTurnIs, InTurnIsNext

(* DropFailed keeps the order; no other step touches the files.            *)
LEMMA OrderStep ==
  ASSUME IInv, LoopFacts, TurnInv, DropFailed
  PROVE  OrderedIn(m_entries', given')
<1>1. /\ m_entries \in Seq(Paths) /\ size \in Nat /\ size = Len(m_entries)
      /\ failed \in 0 .. size - 1 /\ given' = given /\ OrderedIn(m_entries, given)
  BY IInvFacts DEF IInv, LoopFacts, DropFailed, TurnInv, size
<1>2. failed + 1 \in 1 .. Len(m_entries)
  BY <1>1, SMT
<1>3. \/ m_entries' = m_entries
      \/ m_entries' = <<>>
      \/ m_entries' = RemoveAt(m_entries, failed + 1)
  BY DEF DropFailed, remove, clear, Fail, remove_at_entry_idx
<1>4. CASE m_entries' = <<>>
  <2>1. Len(m_entries') = 0
    BY <1>4, EmptySeq
  <2>2. QED
    BY <2>1, SMT DEF OrderedIn
<1>5. CASE m_entries' = RemoveAt(m_entries, failed + 1)
  BY <1>1, <1>2, <1>5, RemovedInOrder
<1>6. QED
  BY <1>1, <1>3, <1>4, <1>5

LEMMA TurnStep ==
  ASSUME IInv, LoopFacts, FilesCounted, PlayingIsCurrent, TurnInv, NextInTurn, [LoopNext]_allVars
  PROVE  TurnInv' /\ NextInTurn'
<1>1. given' = given
  BY DEF LoopNext, Program, Environment, LoopEnds, Open, OpenFails, DropFailed, KeyMove, KeyQuit,
    KeyLoop, KeyShuffle, Press, FileEnds, FileFails, PlayingStops, MoveOn, Interrupt, allVars, loopVars
<1>2. CASE ~aborted /\ DropFailed
  <2>1. pc' = "top" /\ OrderedIn(m_entries', given')
    BY <1>2, OrderStep DEF DropFailed
  <2>2. TurnInv'
    BY <1>1, <2>1 DEF TurnInv
  <2>3. NextInTurn'
    BY <1>2, DropFailedTurn DEF NextInTurn, MovedForward
  <2>4. QED
    BY <2>2, <2>3
<1>3. CASE ~aborted /\ OpenFails
  <2>1. pc' \in {"remove", "done"} /\ m_entries' = m_entries
    BY <1>3 DEF OpenFails, move, vars
  <2>2. pc' = "remove" /\ ~m_shuffled' /\ size' > 1 =>
          index' # failed' /\ current' = InTurn(currently_playing)'
    BY <1>3, OpenFailsTurn
  <2>3. QED
    BY <1>1, <2>1, <2>2 DEF TurnInv, NextInTurn, MovedForward
<1>4. CASE ~aborted /\ MoveOn
  <2>1. pc' \in {"top", "done"} /\ m_entries' = m_entries /\ move_cmd' = move_cmd
    BY <1>4 DEF MoveOn, move, vars
  <2>2. TurnInv'
    BY <1>1, <2>1 DEF TurnInv
  <2>3. NextInTurn'
    BY <1>4, <2>1, MoveOnTurn DEF NextInTurn, MovedForward
  <2>4. QED
    BY <2>2, <2>3
<1>5. CASE ~aborted /\ PlayingStops
  <2>1. /\ pc = "playing" /\ pc' \in {"next", "done"}
        /\ UNCHANGED <<vars, currently_playing>>
    BY <1>5 DEF PlayingStops
  <2>2. size > 0 /\ current = currently_playing
    BY <2>1 DEF LoopFacts, PlayingIsCurrent
  <2>3. size' > 0 /\ current' = currently_playing' /\ m_entries' = m_entries
    BY <2>1, <2>2 DEF vars, size, current, index
  <2>4. QED
    BY <1>1, <2>1, <2>3 DEF TurnInv, NextInTurn, MovedForward
<1>6. LoopEnds \/ Open \/ KeyMove \/ KeyQuit \/ FileEnds \/ FileFails
        => m_entries' = m_entries /\ pc' \in {"playing", "done"}
  BY DEF LoopEnds, Open, KeyMove, KeyQuit, FileEnds, FileFails, Press, vars
<1>7. KeyLoop \/ KeyShuffle => m_entries' = m_entries /\ pc' = "playing"
  BY DEF KeyLoop, set_loop_type, KeyShuffle, shuffle, unshuffle, Press, loopVars
<1>8. CASE m_entries' = m_entries /\ pc' \in {"playing", "done"}
  BY <1>1, <1>8 DEF TurnInv, NextInTurn, MovedForward
<1>9. CASE Interrupt \/ UNCHANGED allVars
  <2>1. UNCHANGED <<vars, pc, move_cmd, currently_playing, failed, given, failures>>
    BY <1>9 DEF Interrupt, allVars, loopVars
  <2>2. UNCHANGED <<size, index, current, InTurn(currently_playing)>>
    BY <2>1, InTurnIs, InTurnIsNext DEF vars, size, index, current
  <2>3. QED
    BY <2>1, <2>2 DEF vars, TurnInv, NextInTurn, MovedForward
<1>10. QED
  BY <1>2, <1>3, <1>4, <1>5, <1>6, <1>7, <1>8, <1>9 DEF LoopNext, Program, Environment

(* For any files, none given twice, started and used in any way: whenever  *)
(* the loop has moved forward in a playlist that is not shuffled, it is at *)
(* the file that comes next in the playlist as it was given, without the   *)
(* files that failed, even if it was shuffled in between.                  *)
THEOREM PlaysInTurn ==
  ASSUME GivenOnce
  PROVE  LoopSpec => []NextInTurn
<1> DEFINE Inv == IInv /\ LoopFacts /\ FilesCounted /\ PlayingIsCurrent /\ TurnInv /\ NextInTurn
<1>1. LoopInit => Inv
  <2> SUFFICES ASSUME LoopInit PROVE Inv
    OBVIOUS
  <2>1. /\ given = m_entries /\ pc = "top" /\ currently_playing = None
        /\ \E start \in Starts : m_entries = start.entries
    BY DEF LoopInit
  <2>2. IsInjective(given) /\ given \in Seq(Paths)
    BY <2>1, StartsAssumption DEF GivenOnce, Start
  <2>3. OrderedIn(m_entries, given)
    <3>1. DOMAIN given = 1 .. Len(given)
      BY <2>2, LenProperties
    <3>2. QED
      BY <2>1, <2>2, <3>1 DEF OrderedIn, IsInjective
  <2>4. FilesCounted
    BY <2>2 DEF LoopInit, FilesCounted, Pending
  <2>5. TurnInv /\ NextInTurn
    BY <2>1, <2>2, <2>3 DEF TurnInv, NextInTurn, MovedForward
  <2>6. QED
    BY <2>4, <2>5, LoopInitFacts
<1>2. Inv /\ [LoopNext]_allVars => Inv'
  BY LoopStepIsCall, NextIInv, LoopFactsStep, FilesStep, PlayingStep, TurnStep
<1>3. Inv => NextInTurn
  OBVIOUS
<1>4. QED
  BY <1>1, <1>2, <1>3, PTL DEF LoopSpec
=============================================================================
