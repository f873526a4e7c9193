-------------------------- MODULE MCContainerStore --------------------------
(* Instance of ContainerStore for TLC: containers of four cells, so that a *)
(* container holds one to four chunks and may be filled exactly, and more  *)
(* containers than cache slots.                                            *)
EXTENDS ContainerStore

MCSizes == {<<3, 3>>, <<3, 1>>}
=============================================================================
