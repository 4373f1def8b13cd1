------------------------------- MODULE MCBoot -------------------------------
(* A firmware, a key and a packet for model checking Boot. *)
EXTENDS Boot

\* 0x45 and 0x67: without and with the mouse, both with the keyboard's interrupt.
MCCommands == {{0, 2, 6}, {0, 1, 2, 5, 6}}

\* Enter pressed and released.
MCKeyBytes == {{2, 3, 4}, {2, 3, 4, 7}}

\* The codes of Enter, of 7 and of 8; the mouse sends those of the digits.
MCKeyCodes == {{2, 3, 4}, {3}, {0, 3}}

\* A motion whose data bytes have the sync bit too.
MCPacket == <<{3}, {0, 3}, {3, 4}>>
=============================================================================
