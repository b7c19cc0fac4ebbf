------------------------------ MODULE MCLines -------------------------------
(***************************************************************************)
(* A chart with two nodes, two edges, a line feature and two areas.  Edge  *)
(* 1 is a ring or joins the nodes, edge 2 joins them.                      *)
(***************************************************************************)
EXTENDS LineDisplay

CONSTANTS coast, depth, zone

MCFeatures == {coast, depth, zone}
MCFileOrder == <<zone, depth, coast>>
MCLup ==
  (coast :> [type |-> "line", disc |-> "base", mutable |-> FALSE,
             dpri |-> [s \in Styles |-> 2]])
  @@ (depth :> [type |-> "area", disc |-> "standard", mutable |-> FALSE,
                dpri |-> [s \in Styles |-> 1]])
  @@ (zone :> [type |-> "area", disc |-> "other", mutable |-> FALSE,
               dpri |-> [plain |-> 0, symbolized |-> 3]])
MCEdgeSize == <<2, 1>>
MCTopologies == { << <<1, 1>>, <<1, 2>> >>, << <<1, 2>>, <<2, 1>> >> }
MCPaths == (coast :> {<< <<1, FALSE>> >>})
        @@ (depth :> {<<s, t>> : s \in {1} \X BOOLEAN, t \in {<<1, TRUE>>, <<2, TRUE>>, <<2, FALSE>>}})
        @@ (zone :> {<< <<1, TRUE>> >>})
MCNoshowSets == {{}, {depth}}
MCHiddenSets == {{}, {depth}}
=============================================================================
