-------------------------- MODULE MCNametableCache --------------------------
(***************************************************************************)
(* Two pages, two rows that share an attribute group, two tiles and two    *)
(* colors.  To keep that instance small, at most MaxWritten of the values  *)
(* the NES program has stored differ from cleared memory at a time; which  *)
(* ones they are changes freely, as do routes and what is cached.          *)
(***************************************************************************)
EXTENDS NametableCache, FiniteSets

CONSTANT MaxWritten     \* bound of this instance

Written ==
    Cardinality({<<p, r>> \in Pages \X Rows : tile[p][r] # ZeroTile})
    + Cardinality({<<p, g>> \in Pages \X Groups : attr[p][g] # ZeroColor})
    + (IF filltile # ZeroTile THEN 1 ELSE 0)
    + (IF fillcolor # ZeroColor THEN 1 ELSE 0)

FewWritten == Written <= MaxWritten
=============================================================================
