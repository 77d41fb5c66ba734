------------------------------ MODULE MCDrain ------------------------------
(* Instances of Drain for TLC: the file shapes a run mixes. *)
EXTENDS Drain

MediaOffline   == <<"MEDIA", "OFFLINE">>
SidecarOffline == <<"SIDECAR", "OFFLINE">>
MediaOnline    == <<"MEDIA", "ONLINE">>

AllShapes   == {MediaOffline, SidecarOffline, MediaOnline}
OfflineShapes == {MediaOffline, SidecarOffline}
OnlyOffline == {MediaOffline}
=============================================================================
