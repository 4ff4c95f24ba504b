------------------------------ MODULE CommandLine ------------------------------
(***************************************************************************)
(* From the command line to the player: the parser (cli_iter.cpp), the     *)
(* options and the search for files (tmedia_cli.cpp), and the settings the *)
(* player starts with (tmss_to_tmps in tmedia.cpp).                        *)
(*                                                                         *)
(* An argument is a word; Lex says what its characters make of it.  The    *)
(* names of an option that call one handler are one name.  A word that is  *)
(* no number counts as -1: both are errors wherever a number is asked for. *)
(* No short option takes a parameter in this program.                      *)
(***************************************************************************)
EXTENDS Integers, SequencesExt, FiniteSetsExt

CONSTANTS
  Arguments,          \* the command lines: sequences of words
  Lex,                \* of each word
  Int32, Percent,     \* strtoi32 and parse_percentage of each word
  PathOf,             \* the place in the file system that a word names
  Places, Children,   \* what is there, and what is in each directory
  media_type          \* of a file: [probe : what is in it, path : by its name]

Nothing == "none"

(* Every word has one of the shapes that the parser tells apart, and may   *)
(* be asked for a number.                                                  *)
ASSUME WordsAssumption ==
  /\ \A words \in Arguments : words \in Seq(DOMAIN Lex)
  /\ \A w \in DOMAIN Lex :
       /\ Lex[w].shape \in {"-", "--", ":", "stop", "word"}
       /\ Lex[w].shape = "-" => Lex[w].names \in Seq(STRING)
       /\ Lex[w].shape \in {"--", ":"} => Lex[w].name \in STRING /\ Lex[w].eq \in DOMAIN Int32
  /\ DOMAIN Lex \union {Nothing} \subseteq DOMAIN Int32
  /\ Int32 \in [DOMAIN Int32 -> Int]

(* A place with all that is below it: the least set with all that is in    *)
(* its directories.                                                        *)
Below ==
  [root \in DOMAIN Places |->
     { x \in DOMAIN Places :
         \A S \in SUBSET DOMAIN Places :
           (root \in S /\ \A d \in S : Children[d] \subseteq S) => x \in S }]

(* Directories are a tree: no directory is below itself, and nothing is in *)
(* two of them.  Files are sorted by their number.                         *)
ASSUME PlacesAssumption ==
  /\ IsFiniteSet(DOMAIN Places) /\ DOMAIN Places \subseteq Int
  /\ Children \in [DOMAIN Places -> SUBSET DOMAIN Places]
  /\ \A d \in DOMAIN Places :
       /\ Places[d] # "directory" => Children[d] = {}
       /\ \A c \in Children[d] : d \notin Below[c]
       /\ \A e \in DOMAIN Places : e # d => Children[d] \intersect Children[e] = {}
  /\ \A w \in DOMAIN Lex : PathOf[w] \in DOMAIN Places

VARIABLES
  argv, argi, stopped,                 \* since_opt_stopper >= 0
  pargs,
  cli,                                 \* what is being done
  next,                                \* the argument or path that is
  settings,                            \* tmss
  srch_opts, paths, argerrs,
  reads, to_search, media_files,
  player                               \* tmps

parsing == <<argv, argi, stopped, pargs>>
options == <<settings, srch_opts, paths, argerrs>>
search  == <<reads, to_search, media_files>>
cliVars == <<parsing, cli, next, options, search, player>>

FlagNames   == {"colored", "background", "grayscale", "muted", "fullscreen", "shuffled"}
LoopNames   == {"NO_LOOP", "REPEAT", "REPEAT_ONE"}
SearchNames == {"ignore_audio", "ignore_video", "ignore_images", "recurse", "probe", "no_probe", "num_reads"}
OptionNames ==
  ("-"  :> FlagNames \union {"recurse"}) @@
  ("--" :> FlagNames \union LoopNames \union SearchNames \union {"volume", "refresh_rate", "chars"}) @@
  (":"  :> SearchNames)
ExitNames   == {"help", "version"}
lopts_w_args == {"volume", "chars", "refresh_rate", "num_reads"}

CLIInit ==
  /\ argv \in Arguments
  /\ argi = 1 /\ stopped = FALSE /\ pargs = <<>>
  /\ cli = IF argv = <<>> THEN "exited" ELSE "parse"
  /\ next = 1
  /\ settings = [f \in FlagNames |-> FALSE] @@
                [loop_type |-> "NO_LOOP", volume |-> 100, refresh_rate |-> 24, chars |-> Nothing]
  /\ srch_opts = [o \in SearchNames |-> IF o = "num_reads" THEN 1 ELSE FALSE]
  /\ paths = <<>> /\ argerrs = FALSE
  /\ reads = 0 /\ to_search = <<>> /\ media_files = <<>>
  /\ player = Nothing
-----------------------------------------------------------------------------
Word  == Lex[argv[argi]]
Parse(shape) == cli = "parse" /\ argi <= Len(argv) /\ ~stopped /\ Word.shape = shape
Parsed(prefix, name, param) ==
  [arg_type |-> "OPTION", prefix |-> prefix, value |-> name, param |-> param, argi |-> argi]

(* A chain of letters.                                                     *)
cli_shortopt_parse ==
  /\ Parse("-")
  /\ IF Nothing \in ToSet(Word.names) THEN cli' = "error" /\ UNCHANGED <<argi, pargs>>
     ELSE /\ pargs' = pargs \o [k \in DOMAIN Word.names |-> Parsed("-", Word.names[k], Nothing)]
          /\ argi' = argi + 1
          /\ UNCHANGED cli
  /\ UNCHANGED <<argv, stopped, next, options, search, player>>

(* Mutant: a parameter that is the next word is left there.                *)
Mut_cli_longopt_parse(prefix) ==
  LET takes == Word.name \in lopts_w_args
      defer_param == takes /\ Word.eq = Nothing
  IN  /\ Parse(prefix)
      /\ IF (defer_param /\ argi < Len(argv)) \/ (~defer_param /\ takes = (Word.eq # Nothing) /\ Word.eq # "")
         THEN /\ pargs' = Append(pargs, Parsed(prefix, Word.name, IF defer_param THEN argv[argi + 1] ELSE Word.eq))
              /\ argi' = argi + 1
              /\ UNCHANGED cli
         ELSE cli' = "error" /\ UNCHANGED <<argi, pargs>>
      /\ UNCHANGED <<argv, stopped, next, options, search, player>>

(* A parameter follows '=' and is not empty, or is the next word, whatever *)
(* that looks like.                                                        *)
cli_longopt_parse(prefix) ==
  LET takes == Word.name \in lopts_w_args
      defer_param == takes /\ Word.eq = Nothing
  IN  /\ Parse(prefix)
      /\ IF defer_param /\ argi < Len(argv)
         THEN /\ pargs' = Append(pargs, Parsed(prefix, Word.name, argv[argi + 1]))
              /\ argi' = argi + 2
              /\ UNCHANGED cli
         ELSE IF ~defer_param /\ takes = (Word.eq # Nothing) /\ Word.eq # ""
         THEN /\ pargs' = Append(pargs, Parsed(prefix, Word.name, Word.eq))
              /\ argi' = argi + 1
              /\ UNCHANGED cli
         ELSE cli' = "error" /\ UNCHANGED <<argi, pargs>>
      /\ UNCHANGED <<argv, stopped, next, options, search, player>>

OptStopper ==
  /\ Parse("stop")
  /\ stopped' = TRUE /\ argi' = argi + 1
  /\ UNCHANGED <<argv, pargs, cli, next, options, search, player>>

Positional ==
  /\ cli = "parse" /\ argi <= Len(argv)
  /\ stopped \/ Word.shape = "word"
  /\ pargs' = Append(pargs, [arg_type |-> "POSITIONAL", prefix |-> Nothing, value |-> argv[argi],
                             param |-> Nothing, argi |-> argi])
  /\ argi' = argi + 1
  /\ UNCHANGED <<argv, stopped, cli, next, options, search, player>>

ParseEnds ==
  /\ cli = "parse" /\ argi > Len(argv)
  /\ cli' = "options"
  /\ UNCHANGED <<parsing, next, options, search, player>>
-----------------------------------------------------------------------------
arg == pargs[next]
Interpret == cli = "options" /\ next <= Len(pargs)
ParamOk(a) ==
  /\ a.value = "volume" => Percent[a.param] \in 0 .. 100
  /\ a.value = "refresh_rate" => Int32[a.param] > 0
  /\ a.value = "num_reads" => Int32[a.param] >= 0

(* What a search option sets, and to what.                                 *)
Sets(a)  == IF a.value = "no_probe" THEN "probe" ELSE a.value
Value(a) == IF a.value = "num_reads" THEN Int32[a.param] + 1 ELSE a.value # "no_probe"

(* Paths inherit every search option: nothing is set for them alone.       *)
MediaPath ==
  /\ Interpret /\ arg.arg_type = "POSITIONAL"
  /\ paths' = Append(paths, [path |-> PathOf[arg.value], srch_opts |-> [o \in SearchNames |-> {}]])
  /\ next' = next + 1
  /\ UNCHANGED <<parsing, cli, settings, srch_opts, argerrs, search, player>>

(* An option that prints something and exits, or that there is not.        *)
ArgExits ==
  /\ Interpret /\ arg.arg_type = "OPTION"
  /\ arg.value \notin OptionNames[arg.prefix]
  /\ cli' = IF arg.prefix # ":" /\ arg.value \in ExitNames THEN "exited" ELSE "error"
  /\ UNCHANGED <<parsing, next, options, search, player>>

cli_arg_global ==
  /\ Interpret /\ arg.arg_type = "OPTION"
  /\ arg.prefix # ":" /\ arg.value \in OptionNames[arg.prefix]
  /\ IF ~ParamOk(arg) THEN argerrs' = TRUE /\ UNCHANGED <<settings, srch_opts>>
     ELSE /\ srch_opts' = IF arg.value \in SearchNames THEN [srch_opts EXCEPT ![Sets(arg)] = Value(arg)]
                          ELSE srch_opts
          /\ settings' = IF arg.value \in FlagNames THEN [settings EXCEPT ![arg.value] = TRUE]
                         ELSE IF arg.value \in LoopNames THEN [settings EXCEPT !.loop_type = arg.value]
                         ELSE IF arg.value = "volume" THEN [settings EXCEPT !.volume = Percent[arg.param]]
                         ELSE IF arg.value = "refresh_rate" THEN [settings EXCEPT !.refresh_rate = Int32[arg.param]]
                         ELSE IF arg.value = "chars" THEN [settings EXCEPT !.chars = arg.param]
                         ELSE settings
          /\ UNCHANGED argerrs
  /\ next' = next + 1
  /\ UNCHANGED <<parsing, cli, paths, search, player>>

(* Mutant: the option is set for the first path.                           *)
Mut_cli_arg_local ==
  /\ Interpret /\ arg.arg_type = "OPTION"
  /\ arg.prefix = ":" /\ arg.value \in OptionNames[":"]
  /\ IF paths # <<>> /\ ParamOk(arg)
     THEN paths' = [paths EXCEPT ![1].srch_opts[Sets(arg)] = {Value(arg)}] /\ UNCHANGED argerrs
     ELSE argerrs' = (argerrs \/ paths # <<>>) /\ UNCHANGED paths
  /\ next' = next + 1
  /\ UNCHANGED <<parsing, cli, settings, srch_opts, search, player>>

(* A local option is for the last path; before any it is not even read.    *)
cli_arg_local ==
  /\ Interpret /\ arg.arg_type = "OPTION"
  /\ arg.prefix = ":" /\ arg.value \in OptionNames[":"]
  /\ IF paths # <<>> /\ ParamOk(arg)
     THEN paths' = [paths EXCEPT ![Len(paths)].srch_opts[Sets(arg)] = {Value(arg)}] /\ UNCHANGED argerrs
     ELSE argerrs' = (argerrs \/ paths # <<>>) /\ UNCHANGED paths
  /\ next' = next + 1
  /\ UNCHANGED <<parsing, cli, settings, srch_opts, search, player>>

OptionsEnd ==
  /\ cli = "options" /\ next > Len(pargs)
  /\ IF paths = <<>> \/ argerrs THEN cli' = "error" /\ UNCHANGED next ELSE cli' = "search" /\ next' = 1
  /\ UNCHANGED <<parsing, options, search, player>>
-----------------------------------------------------------------------------
resolve_path_search_options(local) ==
  [o \in SearchNames |-> IF local[o] = {} THEN srch_opts[o] ELSE CHOOSE v \in local[o] : TRUE]

resolved == resolve_path_search_options(paths[next].srch_opts)

test_media_file(f) ==
  LET type == IF resolved["probe"] THEN media_type[f].probe ELSE media_type[f].path
  IN  \/ type = "VIDEO" /\ ~resolved["ignore_video"]
      \/ type = "AUDIO" /\ ~resolved["ignore_audio"]
      \/ type = "IMAGE" /\ ~resolved["ignore_images"]

Searching == cli = "search" /\ next <= Len(paths)

(* The next of the reads of a path, or the next path.                      *)
ReadPath ==
  /\ Searching /\ to_search = <<>>
  /\ IF reads < resolved["num_reads"]
     THEN reads' = reads + 1 /\ to_search' = <<paths[next].path>> /\ UNCHANGED next
     ELSE reads' = 0 /\ next' = next + 1 /\ UNCHANGED to_search
  /\ UNCHANGED <<parsing, cli, options, media_files, player>>

(* One round of resolve_cli_path: the directories in a directory come in   *)
(* any order, the files are sorted.                                        *)
resolve_cli_path ==
  /\ Searching /\ to_search # <<>>
  /\ LET curr == Last(to_search)
         kids == IF Places[curr] = "directory" THEN Children[curr] ELSE {}
         dirs == IF resolved["recurse"] THEN { c \in kids : Places[c] = "directory" } ELSE {}
         files == { c \in IF Places[curr] = "file" THEN {curr} ELSE kids : Places[c] = "file" /\ test_media_file(c) }
     IN  IF Places[curr] = Nothing THEN cli' = "error" /\ UNCHANGED <<to_search, media_files>>
         ELSE /\ \E order \in SetToSeqs(dirs) : to_search' = Front(to_search) \o order
              /\ \E sorted \in SetToSeqs(files) :
                   /\ \A i, j \in DOMAIN sorted : i < j => sorted[i] < sorted[j]
                   /\ media_files' = media_files \o sorted
              /\ UNCHANGED cli
  /\ UNCHANGED <<parsing, next, options, reads, player>>

(* What the player is given: it is never muted.                            *)
tmss_to_tmps ==
  [fullscreen |-> settings.fullscreen, shuffled |-> settings.shuffled, muted |-> FALSE,
   loop_type |-> settings.loop_type, volume |-> settings.volume, refresh_rate |-> settings.refresh_rate,
   chars |-> settings.chars,
   vom |-> IF settings.colored THEN IF settings.background THEN "COLOR_BG" ELSE "COLOR"
           ELSE IF settings.grayscale THEN IF settings.background THEN "GRAY_BG" ELSE "GRAY"
           ELSE "PLAIN"]

SearchEnds ==
  /\ cli = "search" /\ next > Len(paths)
  /\ IF media_files = <<>> THEN cli' = "error" /\ UNCHANGED player
     ELSE cli' = "playing" /\ player' = tmss_to_tmps
  /\ UNCHANGED <<parsing, next, options, search>>

CLINext ==
  \/ cli_shortopt_parse \/ cli_longopt_parse("--") \/ cli_longopt_parse(":")
  \/ OptStopper \/ Positional \/ ParseEnds
  \/ MediaPath \/ ArgExits \/ cli_arg_global \/ cli_arg_local \/ OptionsEnd
  \/ ReadPath \/ resolve_cli_path \/ SearchEnds

CLISpec == CLIInit /\ [][CLINext]_cliVars
-----------------------------------------------------------------------------
(* What each word is for, from left to right.                              *)
Wants(word) == word.shape \in {"--", ":"} /\ word.name \in lopts_w_args /\ word.eq = Nothing
RoleAfter(words, k, before) ==
  IF before \in {"stop", "rest"} THEN "rest"
  ELSE IF before \in {"--", ":"} /\ Wants(Lex[words[k - 1]]) THEN "param"
  ELSE Lex[words[k]].shape
RolesOf(words) ==
  LET r[k \in 0 .. Len(words)] == IF k = 0 THEN "word" ELSE RoleAfter(words, k, r[k - 1]) IN r
Roles == RolesOf(argv)

(* Every word of the command line is used once and in order: as an option, *)
(* as the parameter of the option before it or as a path, and whatever     *)
(* follows "--" as a path, unless a "--" is a parameter itself             *)
(* (cli_iter.cpp 32-140).                                                  *)
WordsUsedOnce ==
  cli \in {"options", "search", "playing"} =>
    /\ \A i, j \in DOMAIN pargs : i < j => pargs[i].argi <= pargs[j].argi
    /\ \A k \in 1 .. Len(argv) :
         LET mine == { i \in DOMAIN pargs : pargs[i].argi = k }
             role == Roles[k]
         IN  /\ (role \in {"word", "rest"}) <=> \E i \in mine : pargs[i].arg_type = "POSITIONAL"
             /\ Cardinality(mine) = IF role \in {"stop", "param"} THEN 0
                                    ELSE IF role = "-" THEN Len(Lex[argv[k]].names) ELSE 1
             /\ (k < Len(argv) /\ Roles[k + 1] = "param") => \A i \in mine : pargs[i].param = argv[k + 1]

(* The last of the parsed arguments k in S that sets option o.             *)
Given(S, o) == { k \in S : pargs[k].arg_type = "OPTION" /\ Sets(pargs[k]) = o }
Asked(S, T, o, default) ==
  IF Given(S, o) # {} THEN Value(pargs[Max(Given(S, o))])
  ELSE IF Given(T, o) # {} THEN Value(pargs[Max(Given(T, o))])
  ELSE default

(* The search as the help text describes it: "all local (:) options        *)
(* override global options", wherever those are given, and are for "the    *)
(* last listed path".  A file is played once for each read of each path    *)
(* that leads to it (tmedia_cli.cpp 107-120, 548-725).                     *)
Paths == { k \in DOMAIN pargs : pargs[k].arg_type = "POSITIONAL" }
Globals == { k \in DOMAIN pargs : pargs[k].prefix \in {"-", "--"} }
Locals(p) == { k \in DOMAIN pargs : pargs[k].prefix = ":" /\ k > p /\ \A q \in Paths : q > p => k < q }
Is(p, o) == Asked(Locals(p), Globals, o, FALSE)
Reads(p) == Asked(Locals(p), Globals, "num_reads", 1)
Leads(p, f) ==
  LET root == PathOf[pargs[p].value]
      type == IF Is(p, "probe") THEN media_type[f].probe ELSE media_type[f].path
  IN  /\ f \in IF Is(p, "recurse") THEN Below[root] ELSE {root} \union Children[root]
      /\ \/ type = "VIDEO" /\ ~Is(p, "ignore_video")
         \/ type = "AUDIO" /\ ~Is(p, "ignore_audio")
         \/ type = "IMAGE" /\ ~Is(p, "ignore_images")
FilesAsAsked ==
  cli = "playing" =>
    \A f \in { g \in DOMAIN Places : Places[g] = "file" } :
      Cardinality({ i \in DOMAIN media_files : media_files[i] = f }) =
        Cardinality(UNION { {p} \X (1 .. Reads(p)) : p \in { q \in Paths : Leads(q, f) } })
=============================================================================
