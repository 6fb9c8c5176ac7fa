-------------------------- MODULE MCConsensusPeer ---------------------------
(* Instances of ConsensusPeer for TLC. *)
EXTENDS ConsensusPeer

CONSTANTS p1, p2, x, y, z

Create(n) == [kind |-> "create", name |-> n]
Delete(n) == [kind |-> "delete", name |-> n]
Aliases(s) == [kind |-> "aliases", actions |-> s]
CreateAlias(n, to) == [kind |-> "create", alias |-> n, collection |-> to]
RenameAlias(n, to) == [kind |-> "rename", alias |-> n, new |-> to]
Conf(kind, p) == [kind |-> kind, peer |-> p]

Two == {p1, p2}
\* Each may be applied twice, but not every sequence of them.
Meta == {Create(x), Delete(x), Aliases(<<CreateAlias(y, x)>>)}
\* The third may not be interrupted; a new leader sends an empty entry.
Renames == {Create(x), Aliases(<<CreateAlias(y, x)>>), Aliases(<<RenameAlias(y, z), CreateAlias(y, x)>>),
            [kind |-> "empty"]}
Conf2 == {Conf("learner", p2), Conf("voter", p2), Conf("remove", p2)}
MetaAndConf == Meta \cup Conf2
Removal == Conf2 \cup {Create(x), Conf("learner", p1), Conf("remove", p1)}
Working == {"idle", "append", "hard", "committed", "apply", "advance", "light", "apply_light",
            "recover", "stopped"}

\* A log that grows, is replaced and applied, with a crash
Logging == [ops |-> MetaAndConf, rewrites |-> "several", snapshots |-> FALSE, terms |-> 2,
            crashAt |-> Working, crashes |-> 1]
\* Snapshots between the entries, with a crash outside of their application
Catching == [ops |-> Meta, rewrites |-> "several", snapshots |-> TRUE, terms |-> 2,
             crashAt |-> Working, crashes |-> 1]
\* Peers are removed, this one included, with two crashes
Removing == [ops |-> Removal, rewrites |-> "no", snapshots |-> FALSE, terms |-> 1,
             crashAt |-> Working, crashes |-> 2]
\* Alias operations of several parts, with two crashes
Renaming == [ops |-> Renames, rewrites |-> "no", snapshots |-> FALSE, terms |-> 1,
             crashAt |-> Working, crashes |-> 2]
All == {Logging, Catching, Removing, Renaming}

\* Raft may replace the last entry alone
Replacing == {[ops |-> Meta, rewrites |-> "any", snapshots |-> FALSE, terms |-> 2,
               crashAt |-> {}, crashes |-> 0]}
=============================================================================
