---- MODULE MCMesh ----
(* Three daemons: two listen to each other, the third listens to one of them  *)
(* and is heard by the other, so that there are two ways round. The forum is  *)
(* carried one way, and the copies made of it both ways.                      *)
EXTENDS Mesh

LinksMC == {<<"a", "b">>, <<"b", "a">>, <<"c", "a">>, <<"b", "c">>}
CarriesMC ==
  [l \in LinksMC |-> CASE l = <<"b", "a">> -> Kinds
                      [] l = <<"a", "b">> -> {"registry", "copy"}
                      [] OTHER -> {"registry"}]
TrimMC == [x \in Names |-> "x"]

\* What MappingsSync supposes of a mesh, of this one.
ASSUME MeshIsConnected == Connected
====
