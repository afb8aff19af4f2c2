-------------------------- MODULE MCSnapshotDelta --------------------------
(* A small instance of SnapshotDelta: rings that are reused, two views of   *)
(* three entities each, one more than the cgame takes; two of them are in   *)
(* both, one of which never changes; a map change, and entities sent to     *)
(* other clients in between.                                                *)
EXTENDS SnapshotDelta

TwoViews == {{1, 2, 3}, {2, 3, 4}}
=============================================================================
