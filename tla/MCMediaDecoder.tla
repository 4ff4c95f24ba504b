---------------------------- MODULE MCMediaDecoder ----------------------------
(***************************************************************************)
(* The files TLC checks MediaDecoder with: a video stream, whose codec     *)
(* may keep a packet and whose frames may have no pts, and an audio        *)
(* stream, interleaved and damaged in any way.                             *)
(***************************************************************************)
EXTENDS MediaDecoder

MCStreams == {0, 1}
MCDelay   == [s \in MCStreams |-> IF s = 0 THEN 1 ELSE 0]
MCPackets == { p \in Packet : p.timed \/ (p.stream = 0 /\ p.good) }
MCFiles   == UNION { [1 .. n -> MCPackets] : n \in 1 .. 4 }
=============================================================================
