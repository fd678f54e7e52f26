---------------------------- MODULE MusikPlayerMC ----------------------------
(* Sets of commands for the instances of MusikPlayer that TLC checks.        *)
EXTENDS PlayerProperties

AllCommands  == RemoteCommands \union WindowCommands
PlayAndClose == {"playItem", "stopSong", "close"}
PlayToClose  == {"playItem", "stopSong", "setVolume", "close"}
=============================================================================
