-------------------------------- MODULE MCParts --------------------------------
(***************************************************************************)
(* Three parts of the program, each by itself: the command line, the media *)
(* clock, and the lock around the audio buffer.                            *)
(***************************************************************************)
EXTENDS MediaClock, BlockingAudioRingBuffer, CommandLine

VARIABLE part

(* 1 holds the film 2, the song 3, the directory 4 with the film 5 (whose  *)
(* name is that of an image), and the empty directory 6; 0 is not there.   *)
MCPlaces == [n \in 0 .. 6 |-> CASE n \in {1, 4, 6} -> "directory" [] n \in {2, 3, 5} -> "file" [] n = 0 -> "none"]
MCChildren == [n \in 0 .. 6 |-> CASE n = 1 -> {2, 3, 4, 6} [] n = 4 -> {5} [] OTHER -> {}]
MCMediaType ==
  [n \in {2, 3, 5} |-> CASE n = 2 -> [probe |-> "VIDEO", path |-> "VIDEO"]
                         [] n = 3 -> [probe |-> "AUDIO", path |-> "AUDIO"]
                         [] n = 5 -> [probe |-> "VIDEO", path |-> "IMAGE"]]

Long(name)  == [shape |-> "--", name |-> name, eq |-> "none"]
Local(name) == [shape |-> ":", name |-> name, eq |-> "none"]

MCLex ==
  ("-mr" :> [shape |-> "-", names |-> <<"muted", "recurse">>]) @@
  ("-?" :> [shape |-> "-", names |-> <<"none">>]) @@
  ("--repeat-paths" :> Long("num_reads")) @@
  ("--repeat-paths=1" :> [shape |-> "--", name |-> "num_reads", eq |-> "1"]) @@
  ("--repeat-paths=" :> [shape |-> "--", name |-> "num_reads", eq |-> ""]) @@
  ("--help" :> Long("help")) @@
  ("--loop" :> Long("REPEAT")) @@
  ("--volume" :> Long("volume")) @@
  ("--refresh-rate" :> Long("refresh_rate")) @@
  ("--chars" :> Long("chars")) @@
  (":loop" :> Local("REPEAT")) @@
  ("--ignore-video" :> Long("ignore_video")) @@
  ("--probe" :> Long("probe")) @@
  (":no-probe" :> Local("no_probe")) @@
  (":recurse" :> Local("recurse")) @@
  (":repeat-path" :> Local("num_reads")) @@
  ("--" :> [shape |-> "stop"]) @@
  ("1" :> [shape |-> "word"]) @@
  ("dir" :> [shape |-> "word"]) @@
  ("empty" :> [shape |-> "word"]) @@
  ("song" :> [shape |-> "word"])

MCNumber == [w \in DOMAIN MCLex \union {"none", ""} |-> IF w = "1" THEN 1 ELSE -1]
MCPathOf == [w \in DOMAIN MCLex |-> CASE w = "dir" -> 1 [] w = "song" -> 3 [] w = "empty" -> 6 [] OTHER -> 0]

(* Four words of these in any order, the other options one at a time, and  *)
(* the directory with nothing in it.                                       *)
Settings == {"--loop", "--volume", "--refresh-rate", "--chars", ":loop", "--repeat-paths="}
MCArguments ==
  {<<"empty">>} \union UNION { [1 .. n -> DOMAIN MCLex \ (Settings \union {"empty"})] : n \in 0 .. 4 }
  \union { <<o, "dir">> : o \in Settings } \union { <<o, w, "dir">> : o \in Settings, w \in {"1", "song"} }

Only(p, argvs) ==
  /\ part = p
  /\ argv \in argvs /\ CLIInit
  /\ ClockInit /\ (p # "clock" => m_last_pause_system_time = 0)
  /\ Init

MCInit == Only("clock", {<<>>}) \/ Only("buffer", {<<>>}) \/ Only("cli", Arguments)

CLIEnded == cli \in {"exited", "error", "playing"} /\ UNCHANGED cliVars

ClockPart == part = "clock" /\ ClockNext /\ UNCHANGED <<part, vars, cliVars>>
BufferPart == part = "buffer" /\ Next /\ UNCHANGED <<part, clockVars, cliVars>>
CLIPart == part = "cli" /\ (CLINext \/ CLIEnded) /\ UNCHANGED <<part, clockVars, vars>>

MCNext == ClockPart \/ BufferPart \/ CLIPart

MCSpec == MCInit /\ [][MCNext]_<<part, clockVars, vars, cliVars>>
=============================================================================
