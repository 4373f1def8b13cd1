------------------------------ MODULE MCScreen ------------------------------
(* A desktop a few pixels wide for model checking Windows and Framebuffer. *)
EXTENDS Windows

\* A mode with a back buffer and bytes behind each row, one whose pixels are too
\* many for the back buffer, and one narrower and lower than a window may be.
MCModes ==
  {[w |-> 13, h |-> 10, bpp |-> 16, pitch |-> 28],
   [w |-> 13, h |-> 10, bpp |-> 32, pitch |-> 52],
   [w |-> 6, h |-> 7, bpp |-> 24, pitch |-> 20]}

\* Two windows that overlap, one of them beyond the small screen, and a closed one.
MCFirstWindows ==
  <<[open |-> TRUE, x |-> 2, y |-> 1, w |-> 5, h |-> 4],
    [open |-> TRUE, x |-> 5, y |-> 3, w |-> 6, h |-> 4],
    [open |-> FALSE, x |-> 3, y |-> 2, w |-> 9, h |-> 8]>>

MCStartButton == <<0, 1, 2, 1>>
\* Cut off at the top of the small screen.
MCMenu == <<0, 6, 3, 5, 1>>
MCItems == <<1, 1, 2, 1, 1>>
MCIcons == [a \in {APP_CODE} |-> <<0, 0, 2, 2>>]

\* A corner of the screen, title bars, a close button, the Start button, the menu.
MCSpots == {<<0, 0>>, <<2, 2>>, <<5, 3>>, <<10, 3>>, <<12, 9>>, <<1, 9>>, <<1, 4>>, <<5, 6>>, <<6, 1>>}
=============================================================================
