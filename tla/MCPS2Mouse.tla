----------------------------- MODULE MCPS2Mouse -----------------------------
(* A few packets for model checking PS2Mouse. *)
EXTENDS PS2Mouse

\* Press, one to the left and nine up; release, nine to the right and one down.
\* Every byte but the 8 passes for the first of a packet when the parser is out of
\* step, and the 255 then has both overflow bits.
MCPackets == {<<9, 255, 9>>, <<8, 9, 255>>}
=============================================================================
