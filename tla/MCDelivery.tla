----------------------------- MODULE MCDelivery -----------------------------
(***************************************************************************)
(* Instances of Delivery for TLC: sources at the edges of the ladder.      *)
(***************************************************************************)
EXTENDS Delivery

Video(w, h, audio, seconds) ==
  [width |-> w, height |-> h, audio |-> audio, duration |-> seconds]

\* Every number of rungs, both orientations, a fraction that the two
\* roundings take apart (1919x1080 at 480), sources between and below the
\* rungs, even and odd, and one that lasts no time.
EdgeSources ==
  { Video(1919, 1080, TRUE, 8),  Video(720, 1280, FALSE, 8),
    Video(1279, 719, FALSE, 8),  Video(405, 720, TRUE, 8),
    Video(480, 480, FALSE, 0),   Video(640, 358, TRUE, 8),
    Video(358, 637, FALSE, 8),   Video(640, 359, FALSE, 8) }

=============================================================================
