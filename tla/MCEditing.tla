----------------------------- MODULE MCEditing -----------------------------
(* The instance of Editing that TLC checks. *)
EXTENDS Editing

MCDims == {<<44, 16>>, <<7, 3>>, <<2, 4>>, <<0, 2>>}
MCFirstDim == <<44, 16>>
MCShapes == {<< <<7, 3>> >>, << <<1>>, <<1, 1>> >>, << <<7, 3>>, <<1, 1>> >>}

MCTerms == {<<16, 7>>, <<12, 5>>}
MCLooks == {[style |-> l[1], status |-> l[2], tabbar |-> TRUE] :
              l \in {<<"box", TRUE>>, <<"none", TRUE>>, <<"box", FALSE>>}}
MCSpecs == {<< <<1, 1>> >>}
MCRatios == {5000}
=============================================================================
