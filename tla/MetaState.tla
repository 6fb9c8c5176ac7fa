----------------------------- MODULE MetaState ------------------------------
(***************************************************************************)
(* The collections of a node and the aliases of their names, and what the  *)
(* operations on them compute.  Aliases are a function on all names, with  *)
(* None for a name that is no alias.                                       *)
(***************************************************************************)
EXTENDS Sequences

CONSTANTS Names,   \* names of collections and aliases
          None

NoAliases == [n \in Names |-> None]

\* resolve_name, before it looks for the collection.
Resolve(aliases, name) == IF aliases[name] = None THEN name ELSE aliases[name]

\* One action of update_aliases; r says whether all went well so far.
ChangeAlias(r, action, colls) ==
    IF ~ r.ok THEN r
    ELSE CASE action.kind = "create" ->
                 IF action.collection \in colls /\ action.alias \notin colls
                 THEN [r EXCEPT !.aliases[action.alias] = action.collection]
                 ELSE [r EXCEPT !.ok = FALSE]
           [] action.kind = "delete" -> [r EXCEPT !.aliases[action.alias] = None]
           [] action.kind = "rename" ->
                 IF r.aliases[action.alias] # None
                 THEN [r EXCEPT !.aliases[action.alias] = None,
                                !.aliases[action.new] = r.aliases[action.alias]]
                 ELSE [r EXCEPT !.ok = FALSE]

\* A slip: the aliases of a deleted collection stay.
RemoveCollectionKeeps(aliases, name) == aliases

\* AliasPersistence::remove_collection
RemoveCollection(aliases, name) ==
    [n \in Names |-> IF aliases[n] = name THEN None ELSE aliases[n]]
=============================================================================
