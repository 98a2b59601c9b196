---------------------------- MODULE MCSlidePlaylist ---------------------------
(***************************************************************************)
(* SlidePlaylist for TLC: three subjects, one of them with two images.       *)
(***************************************************************************)
EXTENDS SlidePlaylist

ImagesOfMC == {<<1, 1>>, <<1, 2>>, <<2, 1>>, <<3, 1>>}
=============================================================================
