----------------------------- MODULE MCTMediaLoop -----------------------------
(***************************************************************************)
(* The files TLC checks TMediaLoop with: x and y cannot be opened, i is an *)
(* image.  No file is given twice.                                         *)
(***************************************************************************)
EXTENDS TMediaLoop

MCPaths == {"a", "b", "c", "i", "x", "y"}

Distinct(files, n) == UNION { Injection(1 .. k, files) : k \in 0 .. n }

Started(playlists, loop_types, shuffles, left) ==
  [entries : playlists, loop_type : loop_types, shuffled : shuffles, alone : left]

(* Three files of five, in any order, started in any way and used in any   *)
(* way; and four files that end by themselves or cannot be opened, left    *)
(* alone.                                                                  *)
EveryWay ==
  Started(Distinct({"a", "b", "i", "x", "y"}, 3), LoopType, BOOLEAN, {FALSE})
  \union Started(Distinct({"a", "b", "x", "y"}, 4), LoopType, {FALSE}, {TRUE})

(* A song and a file that cannot be opened, shuffled.                      *)
OneBad == Started({ <<"a", "x">> }, {"REPEAT"}, {TRUE}, {TRUE})

(* Three shuffled songs that are not to be repeated.                       *)
Songs == Started({ <<"a", "b", "c">> }, {"NO_LOOP"}, {TRUE}, {TRUE})

(* The playlist by itself: three files, in a playlist that is called in    *)
(* any way, with no program around it.                                     *)
CallFiles == {"a", "b", "c"}

CallsInit ==
  /\ \E n \in 1 .. MaxEntries, loop_type \in LoopType :
       \E entries \in [1 .. n -> CallFiles] : Construct(entries, loop_type)
  /\ alone = FALSE
  /\ pc = "calls"
  /\ move_cmd = "NEXT"
  /\ quit = FALSE
  /\ INTERRUPT_RECEIVED = FALSE
  /\ currently_playing = None
  /\ exiting = "no"
  /\ failed = npos
  /\ given = <<>>
  /\ failures = {}

Calls ==
  /\ pc = "calls"
  /\ Next
  /\ ToSet(m_entries') \subseteq CallFiles
  /\ UNCHANGED loopVars

MCInit == LoopInit \/ CallsInit
MCNext == Calls \/ (pc # "calls" /\ LoopNext)
MCSpec == MCInit /\ [][MCNext]_allVars /\ WF_allVars(~aborted /\ Program)
=============================================================================
