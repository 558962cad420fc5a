------------------------ MODULE MCCollectionPlugins ------------------------
(* The instance of CollectionPlugins that TLC checks. *)
EXTENDS CollectionPlugins
BothPlugins == {"error", "record"}
=============================================================================
