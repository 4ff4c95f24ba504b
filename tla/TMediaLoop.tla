------------------------------- MODULE TMediaLoop -------------------------------
(***************************************************************************)
(* The loop of the program over its playlist (tmedia_main_loop in          *)
(* tmedia.cpp): open the current file, play it, move on; drop a file that  *)
(* cannot be opened.  What happens while a file plays is the keys that     *)
(* change the playlist or the move to come; MediaFetcher models the rest.  *)
(***************************************************************************)
EXTENDS Playlist

CONSTANTS
  Starts,      \* how the program may be started
  Bad,         \* the files that cannot be opened
  Images       \* the files that play until the user moves on

(* The command line gives the files, the loop type and whether they are    *)
(* shuffled.  A program left alone gets no keys, no signals and no errors  *)
(* from the files that it could open.                                      *)
Start ==
  [entries : Seq(Paths), loop_type : LoopType, shuffled : BOOLEAN, alone : BOOLEAN]

ASSUME StartsAssumption == \A start \in Starts : start \in Start
ASSUME FilesAssumption == Bad \subseteq Paths /\ Images \subseteq Paths

VARIABLES
  alone,               \* never changes
  pc,
  move_cmd,
  quit,                \* tmps.quit
  INTERRUPT_RECEIVED,
  currently_playing,   \* the file being played, or tried last; none at first
  exiting,             \* should_exit(), and whether because of an error
  failed,              \* failed_plist_index
  given, failures      \* history: the playlist at the start, the files that failed

loopVars ==
  <<alone, pc, move_cmd, quit, INTERRUPT_RECEIVED, currently_playing, exiting, failed,
    given, failures>>
allVars == <<vars, loopVars>>

None == "none"

LoopInit ==
  /\ \E start \in Starts :
       /\ m_entries = start.entries
       /\ m_loop_type = start.loop_type
       /\ m_shuffled = start.shuffled
       /\ alone = start.alone
  /\ IF m_shuffled THEN m_q \in Orders(size)
     ELSE m_q = [k \in 1 .. size |-> k - 1]
  /\ m_qi = IF size = 0 THEN npos ELSE 0
  /\ aborted = FALSE
  /\ pc = "top"
  /\ move_cmd = "NEXT"
  /\ quit = FALSE
  /\ INTERRUPT_RECEIVED = FALSE
  /\ currently_playing = None
  /\ exiting = "no"
  /\ failed = npos
  /\ given = m_entries
  /\ failures = {}
-----------------------------------------------------------------------------
(* Mutant: quitting is forgotten.                                          *)
Mut_Continues == ~INTERRUPT_RECEIVED /\ size > 0

(* The condition of the outer loop.                                        *)
Continues == ~INTERRUPT_RECEIVED /\ ~quit /\ size > 0

LoopEnds ==
  /\ pc = "top" /\ ~Continues
  /\ pc' = "done"
  /\ UNCHANGED <<vars, alone, move_cmd, quit, INTERRUPT_RECEIVED, currently_playing, exiting, failed, given, failures>>

Open ==
  /\ pc = "top" /\ Continues
  /\ current \notin Bad
  /\ pc' = "playing"
  /\ move_cmd' = "NEXT"
  /\ currently_playing' = current
  /\ exiting' = "no"
  /\ UNCHANGED <<vars, alone, quit, INTERRUPT_RECEIVED, failed, given, failures>>

(* The constructor of MediaFetcher throws: leave the file ...              *)
OpenFails ==
  /\ pc = "top" /\ Continues
  /\ current \in Bad
  /\ move_cmd' = "SKIP"
  /\ currently_playing' = current
  /\ failed' = index
  /\ failures' = failures \union {current}
  /\ IF can_move("SKIP") THEN pc' = "remove" /\ move("SKIP") ELSE pc' = "done" /\ UNCHANGED vars
  /\ UNCHANGED <<alone, quit, INTERRUPT_RECEIVED, exiting, given>>

(* Mutant: the file moved to is dropped.                                   *)
Mut_DropFailed ==
  /\ pc = "remove"
  /\ remove(index)
  /\ pc' = "top"
  /\ UNCHANGED <<alone, move_cmd, quit, INTERRUPT_RECEIVED, currently_playing, exiting, failed, given, failures>>

(* Mutant: it stays in the playlist.                                       *)
Mut_DropFailed_kept ==
  /\ pc = "remove"
  /\ pc' = "top"
  /\ UNCHANGED <<vars, alone, move_cmd, quit, INTERRUPT_RECEIVED, currently_playing, exiting, failed, given, failures>>

(* ... and drop it.                                                        *)
DropFailed ==
  /\ pc = "remove"
  /\ remove(failed)
  /\ pc' = "top"
  /\ UNCHANGED <<alone, move_cmd, quit, INTERRUPT_RECEIVED, currently_playing, exiting, failed, given, failures>>
-----------------------------------------------------------------------------
Press == pc = "playing"

(* dispatch_exit() does not clear an error.                                *)
dispatch_exit == exiting' = IF exiting = "error" THEN "error" ELSE "yes"

KeyMove ==
  /\ \/ Press /\ move_cmd' = "SKIP"
     \/ Press /\ move_cmd' = "REWIND"
  /\ dispatch_exit
  /\ UNCHANGED <<vars, alone, pc, quit, INTERRUPT_RECEIVED, currently_playing, failed, given, failures>>

KeyQuit ==
  /\ Press
  /\ dispatch_exit
  /\ quit' = TRUE
  /\ UNCHANGED <<vars, alone, pc, move_cmd, INTERRUPT_RECEIVED, currently_playing, failed, given, failures>>

NextLoopType ==
  [NO_LOOP |-> "REPEAT", REPEAT |-> "REPEAT_ONE", REPEAT_ONE |-> "NO_LOOP"]

KeyLoop ==
  /\ Press
  /\ currently_playing \notin Images
  /\ set_loop_type(NextLoopType[m_loop_type])
  /\ UNCHANGED loopVars

(* Mutant: the current file takes any place of the shuffled queue.         *)
Mut_KeyShuffle ==
  /\ Press
  /\ IF m_shuffled THEN unshuffle ELSE shuffle(FALSE)
  /\ UNCHANGED loopVars

KeyShuffle ==
  /\ Press
  /\ IF m_shuffled THEN unshuffle ELSE shuffle(TRUE)
  /\ UNCHANGED loopVars

(* The fetcher exits by itself when the file is over ...                   *)
FileEnds ==
  /\ pc = "playing"
  /\ currently_playing \notin Images
  /\ dispatch_exit
  /\ UNCHANGED <<vars, alone, pc, move_cmd, quit, INTERRUPT_RECEIVED, currently_playing, failed, given, failures>>

(* ... and when a thread of it throws.                                     *)
FileFails ==
  /\ pc = "playing"
  /\ exiting' = "error"
  /\ UNCHANGED <<vars, alone, pc, move_cmd, quit, INTERRUPT_RECEIVED, currently_playing, failed, given, failures>>

(* The threads are joined; an error of theirs ends the program.            *)
PlayingStops ==
  /\ pc = "playing"
  /\ exiting # "no" \/ INTERRUPT_RECEIVED
  /\ pc' = IF exiting = "error" THEN "done" ELSE "next"
  /\ UNCHANGED <<vars, alone, move_cmd, quit, INTERRUPT_RECEIVED, currently_playing, exiting, failed, given, failures>>

(* Mutant: always the next file.                                           *)
Mut_MoveOn ==
  /\ pc = "next"
  /\ IF can_move("NEXT") THEN pc' = "top" /\ move("NEXT") ELSE pc' = "done" /\ UNCHANGED vars
  /\ UNCHANGED <<alone, move_cmd, quit, INTERRUPT_RECEIVED, currently_playing, exiting, failed, given, failures>>

MoveOn ==
  /\ pc = "next"
  /\ IF can_move(move_cmd) THEN pc' = "top" /\ move(move_cmd) ELSE pc' = "done" /\ UNCHANGED vars
  /\ UNCHANGED <<alone, move_cmd, quit, INTERRUPT_RECEIVED, currently_playing, exiting, failed, given, failures>>

Interrupt ==
  /\ pc # "done"
  /\ INTERRUPT_RECEIVED' = TRUE
  /\ UNCHANGED <<vars, alone, pc, move_cmd, quit, currently_playing, exiting, failed, given, failures>>

Program     == LoopEnds \/ Open \/ OpenFails \/ DropFailed \/ FileEnds \/ PlayingStops \/ MoveOn
Environment == KeyMove \/ KeyQuit \/ KeyLoop \/ KeyShuffle \/ FileFails \/ Interrupt

LoopNext == ~aborted /\ (Program \/ (~alone /\ Environment))

LoopSpec == LoopInit /\ [][LoopNext]_allVars

(* The program goes on, and a file that is no image ends at last.          *)
FairLoopSpec == LoopSpec /\ WF_allVars(~aborted /\ Program)
-----------------------------------------------------------------------------
(* While a file plays the playlist says that it is current, whatever is    *)
(* pressed: the user interface shows plist.current() (tmedia.cpp 86,       *)
(* 231-248, tmedia_tui.cpp 57, 101).                                       *)
PlayingIsCurrent == pc = "playing" => current = currently_playing

(* A file that can be opened stays in the playlist, and one that failed    *)
(* has left it when the next one is tried: dropping by index hits the file *)
(* that failed, although the playlist was moved in between                 *)
(* (tmedia.cpp 92-103).                                                    *)
OnlyFailuresDropped ==
  pc \in {"top", "playing", "next"} /\ ~aborted =>
    ToSet(m_entries) = ToSet(given) \ failures

Position(file) == CHOOSE k \in 1 .. Len(given) : given[k] = file

(* The file that comes after another in the playlist as it was given,      *)
(* leaving out those that failed.                                          *)
InTurn(file) ==
  LET n == Len(given)
      after(d) == given[((Position(file) - 1 + d) % n) + 1]
      first == CHOOSE d \in 1 .. n :
                 after(d) \notin failures /\ \A e \in 1 .. d - 1 : after(e) \in failures
  IN  after(first)

MovedForward ==
  /\ pc = "top" /\ size > 0 /\ currently_playing # None
  /\ move_cmd = "SKIP" \/ (move_cmd = "NEXT" /\ m_loop_type # "REPEAT_ONE")

(* A playlist that is not shuffled is played in the order it was given,    *)
(* even if it was shuffled for a while or files had to be dropped: none is *)
(* skipped and none played twice (tmedia.cpp 83-103, 335-336,              *)
(* playlist.cpp 100-125, 171-197, 235-244).                                *)
NextInTurn == MovedForward /\ ~m_shuffled /\ ~aborted => current = InTurn(currently_playing)

(* Once the user quits or a signal arrives the program ends                *)
(* (tmedia.cpp 83, 126, 150-153).                                          *)
QuitEnds == (quit \/ INTERRUPT_RECEIVED) ~> (pc = "done" \/ aborted)

(* A playlist of files that cannot be opened ends the program, even when   *)
(* it repeats (tmedia.cpp 92-103).                                         *)
BadEnds == ToSet(m_entries) \subseteq Bad => <>(pc = "done" \/ aborted)

NoImages == ToSet(m_entries) \intersect Images = {}

(* "--no-repeat  Do not repeat the playlist upon end" (tmedia_cli.cpp      *)
(* 101): a program that is left alone ends.                                *)
NoRepeatEnds == alone /\ NoImages /\ m_loop_type = "NO_LOOP" => <>(pc = "done")

(* It does when the playlist is not shuffled (playlist.cpp 259-275).       *)
UnshuffledEnds ==
  alone /\ NoImages /\ m_loop_type = "NO_LOOP" /\ ~m_shuffled => <>(pc = "done")

(* "--repeat  Repeat the playlist upon playlist end" (tmedia_cli.cpp 102): *)
(* every file that can be opened is played again and again, by a program   *)
(* left alone with a playlist that is not shuffled.                        *)
RepeatPlaysAll ==
  \A file \in Paths \ Bad :
    alone /\ NoImages /\ m_loop_type = "REPEAT" /\ ~m_shuffled /\ file \in ToSet(m_entries)
      => []<>(pc = "playing" /\ currently_playing = file)

(* The assertions of Playlist::remove_at_entry_idx hold                    *)
(* (playlist.cpp 122-123).                                                 *)
AssertionsHold == ~aborted
=============================================================================
