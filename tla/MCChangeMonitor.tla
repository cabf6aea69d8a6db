--------------------------- MODULE MCChangeMonitor ---------------------------
(***************************************************************************)
(* Two files, one of which exists at first, and two changes by users.  A   *)
(* mapping that uploads is polled, the others have inotify.                *)
(***************************************************************************)
EXTENDS ChangeMonitor

MCSettings ==
  {<<"two_way", FALSE>>, <<"upload_only", TRUE>>, <<"download_only", FALSE>>}
TwoWaySettings == {<<"two_way", FALSE>>, <<"two_way", TRUE>>}
=============================================================================
