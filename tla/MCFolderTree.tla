---------------------------- MODULE MCFolderTree ----------------------------
EXTENDS FolderTree

\* A folder with a scheme in it, where another folder can be made, and three
\* things are done; or two folders with a scheme in the first, and two.
StartsDef ==
  {[home |-> [n \in {1, 3} |-> IF n = 3 THEN 1 ELSE Root], acts |-> <<2, 1>>],
   [home |-> <<Root, Root, 1>>, acts |-> <<1, 1>>]}
StoreClientDef == <<2, 3>>
RunClientDef == <<1, 4>>
=============================================================================
