----------------------------- MODULE MCGeomCache -----------------------------
(***************************************************************************)
(* Small scenarios for model checking GeomCache: each is a query with some *)
(* sites, functions and rows.                                              *)
(***************************************************************************)
EXTENDS GeomCache, TLC

CONSTANTS square, ring, dot, far, void,    \* geometries
          square_row, square_copy          \* ids of out of line values

VARIABLE scenario

MCValues == {square, ring, dot, far, void}
MCKind == square :> "polygon" @@ ring :> "polygon" @@ dot :> "point" @@
          far :> "apart" @@ void :> "empty"
MCToasted == {square_row, square_copy}
MCValueOf == square_row :> square @@ square_copy :> square

\* join: two polygons, one of them read from a table in two rows that are equal.
\* points: polygons and a point, in either order.
\* rest: geometries for which some function or every function asks for no index.
\* nested: two sites that prepare geometries at the same time, and end in any order.
Play ==
  [join |-> [sites |-> {1}, functions |-> {"intersects", "distance"},
             rows |-> {square_row, square_copy, ring}],
   points |-> [sites |-> {1}, functions |-> {"contains", "intersects"},
               rows |-> {square_row, ring, dot}],
   rest |-> [sites |-> {1}, functions |-> {"intersects", "distance"},
             rows |-> {square, far, void}],
   nested |-> [sites |-> {1, 2}, functions |-> {"contains"},
               rows |-> {square, ring, far}]]

MCInit == Init /\ scenario \in DOMAIN Play

MCBegin ==
  /\ \E s \in Play[scenario].sites, fn \in Play[scenario].functions : Begin(s, fn)
  /\ UNCHANGED scenario

MCCall ==
  /\ \E s \in Play[scenario].sites, d, e \in Play[scenario].rows : Call(s, d, e)
  /\ UNCHANGED scenario

MCEnd == UNCHANGED scenario /\ \E s \in Play[scenario].sites : End(s)

MCNext == MCBegin \/ MCCall \/ MCEnd

MCSpec == MCInit /\ [][MCNext]_<<vars, scenario>>
=============================================================================
