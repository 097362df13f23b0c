-------------------------- MODULE SpotifyClientMC --------------------------
(* Two concurrent calls of one client: a station on a named device, and a  *)
(* command that has to ask for the device first, or a read.                *)
EXTENDS SpotifyClient

TwoCalls == {1, 2}
OneOfEach == [c \in TwoCalls |->
  IF c = 1 THEN {<<"start_station", TRUE>>}
  ELSE {<<"next_track", FALSE>>, <<"list_playlists", TRUE>>}]
=============================================================================
