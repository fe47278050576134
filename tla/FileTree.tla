------------------------------ MODULE FileTree ------------------------------
(***************************************************************************)
(* What GemFS promises: a tree of names that only grows, one name at a      *)
(* time and under a directory that is already there, and files that each    *)
(* keep their own blocks.  open finds only what is in the tree, read        *)
(* returns what the file holds, write changes that file and no other.       *)
(***************************************************************************)
EXTENDS Integers, Sequences

CONSTANT Root        \* the root directory

VARIABLES tree,      \* links: a name in a directory and the node it leads to
          contents,  \* per file, the blocks it holds
          io         \* the last call of a program and its result

ftvars == <<tree, contents, io>>

FTInit == tree = {} /\ contents = <<>> /\ io = [op |-> "none"]

Known == {Root} \cup {link.node : link \in tree}

\* The nodes a path leads to.
Resolved(path) ==
  LET upto[k \in 0 .. Len(path)] ==
        IF k = 0 THEN {Root}
        ELSE UNION {{link.node : link \in {l \in tree : /\ l.dir = d
                                                       /\ l.name = path[k]}} :
                      d \in upto[k - 1]}
  IN  upto[Len(path)]

Least2(a, b) == IF a < b THEN a ELSE b

\* A new name; if it is a file, an empty one.
Create ==
  /\ UNCHANGED io
  /\ \E new \in tree' \ tree :
       /\ tree' = tree \cup {new}
       /\ new.dir \in Known \ DOMAIN contents
       /\ new.node \notin Known
       /\ \A link \in tree : link.dir = new.dir => link.name # new.name
       /\ \/ contents' = contents
          \/ contents' = [f \in DOMAIN contents \cup {new.node} |->
                            IF f = new.node THEN <<>> ELSE contents[f]]

\* The system gives a file its blocks, before any program runs.
Install ==
  /\ io.op = "none"
  /\ UNCHANGED <<io, tree>>
  /\ DOMAIN contents' = DOMAIN contents
  /\ \E f \in DOMAIN contents :
       \A g \in DOMAIN contents \ {f} : contents'[g] = contents[g]

\* open finds the node its path leads to, or fails (a negative result).
Open ==
  /\ io'.op = "open"
  /\ UNCHANGED <<tree, contents>>
  /\ io'.node >= 0 => Resolved(io'.path) = {io'.node}

\* What lies beyond the end of the file is not specified.
Read ==
  /\ io'.op = "read"
  /\ io'.file \in DOMAIN contents
  /\ UNCHANGED <<tree, contents>>
  /\ \A k \in 1 .. Least2(Len(io'.blocks), Len(contents[io'.file])) :
       io'.blocks[k] = contents[io'.file][k]

Write ==
  /\ io'.op = "write"
  /\ io'.file \in DOMAIN contents
  /\ UNCHANGED tree
  /\ contents' = [contents EXCEPT ![io'.file] =
       [k \in DOMAIN @ |->
          IF k <= Len(io'.blocks) THEN io'.blocks[k] ELSE @[k]]]

\* A read or write of something that is not a file changes nothing.
Misuse == io'.op = "refused" /\ UNCHANGED <<tree, contents>>

FTNext == Create \/ Install \/ Open \/ Read \/ Write \/ Misuse

FTSpec == FTInit /\ [][FTNext]_ftvars
=============================================================================
