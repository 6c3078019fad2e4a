------------------------ MODULE MCSceneReprocessing ------------------------
(***************************************************************************)
(* Two scenes of which one gets three candidate frames, or one scene; looks  *)
(* that are all alike, all different, or alike only next to each other.      *)
(***************************************************************************)
EXTENDS SceneReprocessing

MCStories == {<< 4, 10 >>, << 12 >>}
MCLooks == {<< 0, 1, 2 >>, << 0, 3, 1 >>}
=============================================================================
