----------------------------- MODULE MCGrocery -------------------------------
(***************************************************************************)
(* Instances of GrocerySync: an item, a recipe and its ingredient.         *)
(***************************************************************************)
EXTENDS GrocerySync

CONSTANTS bread, soup, leek

OneRecipe == [x \in {leek} |-> soup]
=============================================================================
