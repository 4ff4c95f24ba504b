--------------------------- MODULE MCMediaFetcher ---------------------------
EXTENDS MediaFetcher

(* The files of the runs.                                                  *)
File(type, audio, video, n, refuses, throws, keys) ==
  [type |-> type, audio |-> audio, video |-> video, jumps |-> n,
   refuses |-> refuses, throws |-> throws, timed |-> FALSE, keys |-> keys]

Timed(file) == [file EXCEPT !.timed = TRUE]

Movie(n, refuses, throws, keys) == File("VIDEO", TRUE, TRUE, n, refuses, throws, keys)
Clip(n, refuses, throws, keys)  == File("VIDEO", FALSE, TRUE, n, refuses, throws, keys)
Song(n, refuses, throws, keys)  == File("AUDIO", TRUE, FALSE, n, refuses, throws, keys)
Album(n, refuses, throws, keys) == File("AUDIO", TRUE, TRUE, n, refuses, throws, keys)
Photo(n, refuses, throws, keys) == File("IMAGE", FALSE, TRUE, n, refuses, throws, keys)

NoJump  == {"leave", "toggle", "interrupt"}
AnyKey  == NoJump \union {"jump"}

(* Two jumps in a movie; anything but a jump in a file of every kind; and  *)
(* anything at all in the smallest file.                                   *)
MCSafety ==
  { Movie(2, FALSE, FALSE, {"jump"}), Clip(2, TRUE, TRUE, AnyKey) }
  \union { Movie(0, FALSE, TRUE, NoJump), Clip(0, FALSE, TRUE, NoJump),
           Song(0, FALSE, TRUE, NoJump), Album(0, FALSE, TRUE, NoJump),
           Photo(0, FALSE, TRUE, NoJump) }

(* Pauses and exits without a time-out, pauses and jumps with them; the    *)
(* album jumps only when its buffer and its clock have drifted apart.      *)
MCLive   == { Clip(0, FALSE, FALSE, {"leave", "toggle"}),
              Song(0, FALSE, FALSE, {"leave"}),
              Timed(Clip(0, FALSE, FALSE, {"toggle"})),
              Timed(Clip(1, FALSE, FALSE, {"jump"})),
              Timed(Album(1, FALSE, FALSE, {})) }
MCBounds == { Clip(1, FALSE, FALSE, {"jump"}) }

(* A movie whose audio output may fail to start.                           *)
MCStartup == { Movie(0, FALSE, TRUE, {}) }
=============================================================================
