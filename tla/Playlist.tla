-------------------------------- MODULE Playlist --------------------------------
(***************************************************************************)
(* Playlist (playlist.cpp): the files to play, a queue that holds the      *)
(* order to play them in as indices into the files, and the place in the   *)
(* queue.  One action is one call.  A file is a value of Paths; indices    *)
(* count from 0 as in the code, sequences from 1.                          *)
(*                                                                         *)
(* A call that fails an assertion is the last one (Fail).                  *)
(* A call that throws changes nothing and is left out.                     *)
(***************************************************************************)
EXTENDS Integers, SequencesExt

CONSTANTS
  Paths,       \* the files there are
  MaxEntries   \* bound on the size of a playlist

ASSUME MaxEntriesAssumption == MaxEntries \in Nat

VARIABLES
  m_entries,    \* the files, in the order they were given
  m_q,          \* the order to play them in: indices of m_entries
  m_qi,         \* index of the current file in m_q
  m_loop_type,
  m_shuffled,
  aborted       \* has an assertion failed?

vars == <<m_entries, m_q, m_qi, m_loop_type, m_shuffled, aborted>>

LoopType == {"NO_LOOP", "REPEAT", "REPEAT_ONE"}
PlaylistMvCmd == {"NEXT", "SKIP", "REWIND"}
npos == -1      \* the largest size_t: never compared by order in what follows

size == Len(m_entries)

TypeOK ==
  /\ m_entries \in Seq(Paths)
  /\ m_q \in Seq(Nat)
  /\ m_qi \in Nat \union {npos}
  /\ m_loop_type \in LoopType
  /\ m_shuffled \in BOOLEAN
  /\ aborted \in BOOLEAN

(* Playlist(entries, loop_type), and Playlist() for no entries.            *)
Construct(entries, loop_type) ==
  /\ m_entries = entries
  /\ m_q = [k \in 1 .. Len(entries) |-> k - 1]
  /\ m_qi = IF entries = <<>> THEN npos ELSE 0
  /\ m_loop_type = loop_type
  /\ m_shuffled = FALSE
  /\ aborted = FALSE

Init ==
  \E n \in 0 .. MaxEntries, loop_type \in LoopType :
    \E entries \in [1 .. n -> Paths] : Construct(entries, loop_type)
-----------------------------------------------------------------------------
index   == m_q[m_qi + 1]            \* throws for an empty playlist
current == m_entries[index + 1]

(* Mutant: from the last file to the first in every mode.                  *)
Mut_playlist_get_skip(at, n, loop_type) == IF at + 1 # n THEN at + 1 ELSE 0

playlist_get_skip(at, n, loop_type) ==
  IF at + 1 # n THEN at + 1 ELSE IF loop_type = "NO_LOOP" THEN npos ELSE 0

playlist_get_next(at, n, loop_type) ==
  IF loop_type = "REPEAT_ONE" THEN at ELSE playlist_get_skip(at, n, loop_type)

playlist_get_rewind(at, n, loop_type) ==
  IF at # 0 THEN at - 1 ELSE IF loop_type = "NO_LOOP" THEN 0 ELSE n - 1

playlist_get_move(move_cmd) ==
  CASE move_cmd = "NEXT"   -> playlist_get_next(m_qi, Len(m_q), m_loop_type)
    [] move_cmd = "SKIP"   -> playlist_get_skip(m_qi, Len(m_q), m_loop_type)
    [] move_cmd = "REWIND" -> playlist_get_rewind(m_qi, Len(m_q), m_loop_type)

can_move(move_cmd)  == size > 0 /\ playlist_get_move(move_cmd) # npos
peek_move(move_cmd) == m_entries[m_q[playlist_get_move(move_cmd) + 1] + 1]
-----------------------------------------------------------------------------
(* Every order the indices of n files can be shuffled into.                *)
Orders(n) == Injection(1 .. n, 0 .. n - 1)

(* The queue in any order, its place qi first if that file is kept.        *)
Reshuffle(qi, keep_current_file_first) ==
  /\ m_q' \in Orders(size)
  /\ keep_current_file_first => m_q'[1] = m_q[qi + 1]
  /\ m_qi' = 0
  /\ m_shuffled' = TRUE

(* Mutant: the current file is not taken to the front first.               *)
Mut_shuffle(keep_current_file_first) ==
  /\ IF size = 0 THEN m_shuffled' = TRUE /\ UNCHANGED <<m_q, m_qi>>
     ELSE Reshuffle(m_qi, FALSE)
  /\ UNCHANGED <<m_entries, m_loop_type, aborted>>

shuffle(keep_current_file_first) ==
  /\ IF size = 0 THEN m_shuffled' = TRUE /\ UNCHANGED <<m_q, m_qi>>
     ELSE Reshuffle(m_qi, keep_current_file_first)
  /\ UNCHANGED <<m_entries, m_loop_type, aborted>>

(* Mutant: the queue is left in its shuffled order.                        *)
Mut_unshuffle ==
  /\ m_qi' = IF size = 0 THEN m_qi ELSE index
  /\ m_shuffled' = FALSE
  /\ UNCHANGED <<m_entries, m_q, m_loop_type, aborted>>

(* m_q is sorted, and m_qi becomes the index of the current file.          *)
unshuffle ==
  /\ m_qi' = IF size = 0 THEN m_qi ELSE index
  /\ m_q' = [k \in 1 .. size |-> k - 1]
  /\ m_shuffled' = FALSE
  /\ UNCHANGED <<m_entries, m_loop_type, aborted>>

(* Mutant: a fresh order forgets the file that was moved to.               *)
Mut_move(move_cmd) ==
  /\ can_move(move_cmd)
  /\ LET next == playlist_get_move(move_cmd) IN
     IF move_cmd # "REWIND" /\ m_shuffled /\ next = Len(m_q) - 2
     THEN Reshuffle(m_qi, TRUE)
     ELSE m_qi' = next /\ UNCHANGED <<m_q, m_shuffled>>
  /\ m_loop_type' = m_loop_type
  /\ UNCHANGED <<m_entries, aborted>>

(* Going forward to the last file but one of a shuffled queue shuffles the *)
(* queue again, with that file in front.                                   *)
move(move_cmd) ==
  /\ can_move(move_cmd)
  /\ LET next == playlist_get_move(move_cmd) IN
     IF move_cmd # "REWIND" /\ m_shuffled /\ next = Len(m_q) - 2
     THEN Reshuffle(next, TRUE)
     ELSE m_qi' = next /\ UNCHANGED <<m_q, m_shuffled>>
  /\ m_loop_type' =
       IF move_cmd # "NEXT" /\ m_loop_type = "REPEAT_ONE" THEN "REPEAT" ELSE m_loop_type
  /\ UNCHANGED <<m_entries, aborted>>

set_loop_type(loop_type) ==
  /\ m_loop_type' = loop_type
  /\ UNCHANGED <<m_entries, m_q, m_qi, m_shuffled, aborted>>
-----------------------------------------------------------------------------
push_back(entry) ==
  /\ m_entries' = Append(m_entries, entry)
  /\ m_q' = Append(m_q, size)
  /\ m_qi' = IF m_qi = npos THEN 0 ELSE m_qi
  /\ UNCHANGED <<m_loop_type, m_shuffled, aborted>>

(* Mutant: m_qi stays where it is.                                         *)
Mut_insert(entry, i) ==
  IF i >= size THEN push_back(entry)
  ELSE
    /\ m_entries' = InsertAt(m_entries, i + 1, entry)
    /\ m_q' = InsertAt([k \in 1 .. size |-> IF m_q[k] >= i THEN m_q[k] + 1 ELSE m_q[k]], i + 1, i)
    /\ UNCHANGED <<m_qi, m_loop_type, m_shuffled, aborted>>

(* The new file takes place i of the files and place i of the queue.       *)
insert(entry, i) ==
  IF i >= size THEN push_back(entry)
  ELSE
    /\ m_entries' = InsertAt(m_entries, i + 1, entry)
    /\ m_q' = InsertAt([k \in 1 .. size |-> IF m_q[k] >= i THEN m_q[k] + 1 ELSE m_q[k]], i + 1, i)
    /\ m_qi' = IF m_qi >= i THEN m_qi + 1 ELSE m_qi
    /\ UNCHANGED <<m_loop_type, m_shuffled, aborted>>

clear ==
  /\ m_entries' = <<>>
  /\ m_q' = <<>>
  /\ m_qi' = npos
  /\ m_shuffled' = FALSE
  /\ UNCHANGED <<m_loop_type, aborted>>

(* A failed assertion ends the program where it is compiled in.  By        *)
(* default it is not (a Release build, CMakeLists.txt 56-58): then the     *)
(* next look at the current file reads past the end of the queue (playlist *)
(* .cpp 55-65), which may do anything, so nothing more is said of it.      *)
Fail == aborted' = TRUE /\ UNCHANGED <<m_entries, m_q, m_qi, m_loop_type, m_shuffled>>

(* Mutant: the higher indices stay as they are.                            *)
Mut_QueueWithout(i) == RemoveAt(m_q, CHOOSE k \in 1 .. size : m_q[k] = i)

(* The queue without index i, the higher indices one less.                 *)
QueueWithout(i) ==
  LET left == RemoveAt(m_q, CHOOSE k \in 1 .. size : m_q[k] = i)
  IN  [k \in 1 .. size - 1 |-> IF left[k] > i THEN left[k] - 1 ELSE left[k]]

(* Mutant: m_qi stays where it is.                                         *)
Mut_remove_at_entry_idx(i) ==
  IF size = 1 THEN clear
  ELSE
    /\ m_entries' = RemoveAt(m_entries, i + 1)
    /\ m_q' = QueueWithout(i)
    /\ aborted' = (m_qi >= size - 1)
    /\ UNCHANGED <<m_qi, m_loop_type, m_shuffled>>

(* m_qi, an index of the queue, is compared with i, an index of the files; *)
(* an assertion checks that it still is an index of the queue.             *)
remove_at_entry_idx(i) ==
  IF size = 1 THEN clear
  ELSE
    /\ m_entries' = RemoveAt(m_entries, i + 1)
    /\ m_q' = QueueWithout(i)
    /\ m_qi' = IF m_qi > i THEN m_qi - 1 ELSE m_qi
    /\ aborted' = (m_qi' >= size - 1)
    /\ UNCHANGED <<m_loop_type, m_shuffled>>

(* By index, size itself not refused; one of one or none clears.           *)
remove(i) ==
  IF size <= 1 THEN clear
  ELSE IF i = size THEN Fail
  ELSE remove_at_entry_idx(i)

(* By file: its first occurrence.                                          *)
remove_entry(entry) ==
  \E i \in 0 .. size - 1 :
    /\ m_entries[i + 1] = entry
    /\ \A j \in 0 .. i - 1 : m_entries[j + 1] # entry
    /\ remove_at_entry_idx(i)

Next ==
  /\ ~aborted
  /\ \/ \E keep_current_file_first \in BOOLEAN : shuffle(keep_current_file_first)
     \/ unshuffle
     \/ \E move_cmd \in PlaylistMvCmd : move(move_cmd)
     \/ \E loop_type \in LoopType : set_loop_type(loop_type)
     \/ size < MaxEntries /\ \E entry \in Paths :
          push_back(entry) \/ \E i \in 0 .. size : insert(entry, i)
     \/ clear
     \/ \E i \in 0 .. size : remove(i)
     \/ \E entry \in Paths : remove_entry(entry)

Spec == Init /\ [][Next]_vars
-----------------------------------------------------------------------------
(* The queue holds every file once, and its place is one of them: whatever *)
(* the calls, every file has its turn and current() has an answer          *)
(* (playlist.cpp 67-147; the assertions of lines 61, 62, 122, 123, 128).   *)
QueueValid ==
  /\ m_q \in Orders(size)
  /\ ~aborted => IF size = 0 THEN m_qi = npos ELSE m_qi \in 0 .. size - 1

(* A playlist that is not shuffled is played in the order of its files:    *)
(* unshuffle() undoes every insertion, removal and shuffling of the queue  *)
(* (playlist.cpp 67-125, 219-244).                                         *)
InOrder == ~m_shuffled => \A k \in 1 .. size : m_q[k] = k - 1

(* Reordering the queue or adding to it does not change the file that is   *)
(* played (playlist.cpp 67-91, 219-244; the file keeps playing while 's'   *)
(* is pressed, tmedia.cpp 241-248).                                        *)
CurrentKept ==
  [][ size > 0 /\ \/ shuffle(TRUE) \/ unshuffle
                  \/ \E entry \in Paths : push_back(entry) \/ \E i \in 0 .. size : insert(entry, i)
      => current' = current ]_vars

(* The file that the user interface names as the next one is the next one, *)
(* whether the move shuffles the queue or leaves REPEAT_ONE or neither     *)
(* (playlist.cpp 171-212, tmedia_tui.cpp 111-125).                         *)
PeekAgrees ==
  [][\A move_cmd \in PlaylistMvCmd : move(move_cmd) => current' = peek_move(move_cmd)]_vars

(* Removing another file than the current one from a playlist that is not  *)
(* shuffled leaves the current one current (playlist.cpp 100-125).         *)
RemoveKeepsCurrent ==
  [][\A i \in 0 .. size - 1 :
       ~m_shuffled /\ size > 1 /\ remove(i) /\ i # index => ~aborted' /\ current' = current]_vars
=============================================================================
