--------------------------- MODULE PlayersOnline ----------------------------
(***************************************************************************)
(* Who is in the game (Game::players), for the modules of what players do  *)
(* with each other: Trade and Party, each with its own requests.           *)
(***************************************************************************)

CONSTANTS
  Players,
  None

VARIABLE online     \* players in the game
=============================================================================
