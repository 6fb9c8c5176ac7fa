-------------------------- MODULE MCTableOfContent --------------------------
(***************************************************************************)
(* Small instances of TableOfContent.                                      *)
(***************************************************************************)
EXTENDS TableOfContent

CONSTANTS x, y, z,       \* names
          reader,        \* a client that searches
          thread, other  \* who changes collections and aliases

Get(n) == [kind |-> "get", name |-> n]
CreateFrom(n, m) == [kind |-> "create", name |-> n, from |-> m]
Create(n) == CreateFrom(n, None)
Delete(n) == [kind |-> "delete", name |-> n]
Aliases(actions) == [kind |-> "aliases", actions |-> actions]
Snapshot(S, a) == [kind |-> "snapshot", collections |-> S, aliases |-> a]

ToCreate(a, n) == [kind |-> "create", alias |-> a, collection |-> n]
ToDelete(a) == [kind |-> "delete", alias |-> a]
ToRename(a, b) == [kind |-> "rename", alias |-> a, new |-> b]

Gets == {Get(n) : n \in Names}
CreatesAndDeletes == {Create(n) : n \in Names} \cup {Delete(n) : n \in Names}
NewAliases == {Aliases(<<ToCreate(a, n)>>) : a, n \in Names}
Switches == {Aliases(<<ToDelete(z), ToCreate(z, y)>>), Aliases(<<ToCreate(z, x)>>)}
Failing == {Aliases(<<ToCreate(z, y), ToRename(x, y)>>)}
Snapshots == {Snapshot({x}, [NoAliases EXCEPT ![z] = x]), Snapshot({x, y}, NoAliases)}

OnlyX == {x}

\* In a cluster: clients that search, and the consensus thread.
Cluster == [c \in Callers |->
    CASE c = reader -> Gets
      [] c = thread -> CreatesAndDeletes \cup {CreateFrom(y, z)} \cup NewAliases \cup Switches \cup Snapshots
      [] OTHER -> {}]

\* On a single node: every client makes changes.
SingleNode == [c \in Callers |->
    CASE c = reader -> {Get(x), Get(z)}
      [] c = thread -> {Create(y), Delete(x)} \cup Switches
      [] c = other  -> {Delete(x), Create(z), CreateFrom(y, x), Aliases(<<ToRename(z, y)>>)}]

Changes == [c \in Callers |->
    IF c = reader THEN {} ELSE CreatesAndDeletes \cup Switches \cup Failing]
SearchAndCreate == [c \in Callers |->
    CASE c = reader -> {Get(x)}
      [] c = thread -> {Create(y)}
      [] OTHER -> {}]

All == {[may |-> Cluster, calls |-> 4], [may |-> SingleNode, calls |-> 2],
        [may |-> Changes, calls |-> 2]}
Lookup == {[may |-> SearchAndCreate, calls |-> 2]}
=============================================================================
