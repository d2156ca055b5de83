---------------------------- MODULE MCPodAdoption ----------------------------
(* Instances of PodAdoption for TLC. *)
EXTENDS PodAdoption

C(image) == Container("c", image, "s")
D(image) == Container("d", image, "s")
I(image) == Container("i", image, "s")

\* One container or two, in either order; one that is configured differently.
ContainerLists ==
  {<<C("v1")>>, <<C("v2")>>, <<C("v1"), D("v1")>>, <<D("v1"), C("v2")>>,
   <<Container("c", "v1", "s2")>>}

\* Tolerations may be given twice.
TolerationLists == {<<>>, <<"t">>, <<"t", "u">>, <<"u", "u">>}

AllPods ==
  {Pod(l, i, d, t, "") : l \in ContainerLists, i \in {<<>>, <<I("v1")>>, <<I("v2")>>},
                         d \in 0..2, t \in TolerationLists}
SmallPods ==
  {Pod(l, <<>>, d, <<>>, "") : l \in ContainerLists, d \in 0..2}
=============================================================================
