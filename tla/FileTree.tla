------------------------------ MODULE FileTree -------------------------------
(***************************************************************************)
(* convertPathsToItems (utils/fileTree.ts): the names of files become the  *)
(* items of the tree the browser shows, one part of one name at a time.    *)
(*                                                                         *)
(* An index is the sequence of the parts it joins with slashes.  The items *)
(* are the properties of a JavaScript object, which has some already: a    *)
(* name that begins with one of those (Inherited) finds it, and it has no  *)
(* children.  The key of the root item, too, may be the name of a file.    *)
(***************************************************************************)
EXTENDS Sequences, Naturals

CONSTANTS
    Parts,          \* names of files and folders
    RootName,       \* "root", the key of the root item
    Inherited,      \* properties an empty object has: "constructor", ...
    Paths,          \* the names a listing can hold, split at the slashes
    MaxPaths        \* bound: length of a listing

TreeAssumption ==
    /\ RootName \in Parts \ Inherited /\ Inherited \subseteq Parts
    /\ Paths \subseteq Seq(Parts) \ {<<>>}
    /\ MaxPaths \in Nat

VARIABLES
    listing,    \* paths
    path, part, \* where the loops are: the last one counts by part alone
    items,      \* index -> children, in the order they were pushed
    met,        \* parentMap: indexes in the order they were first set
    folders,    \* the items that isFolder is set of
    phase       \* "building", "rooting", "done", or "thrown"

vars == <<listing, path, part, items, met, folders, phase>>

Root == <<RootName>>
Has(s, x) == \E k \in DOMAIN s : s[k] = x
AddTo(s, x) == IF Has(s, x) THEN s ELSE Append(s, x)

\* parts.slice(0, i + 1).join("/")
Upto(p, n) == SubSeq(p, 1, n)
Parent(index) == IF Len(index) = 1 THEN Root ELSE Upto(index, Len(index) - 1)

Listings == {l \in UNION {[1 .. n -> Paths] : n \in 0 .. MaxPaths} :
                \A j, k \in DOMAIN l : l[j] = l[k] => j = k}

Init ==
    /\ listing \in Listings
    /\ path = 1
    /\ part = 1
    /\ items = [index \in {} |-> <<>>]
    /\ met = <<>>
    /\ folders = {}
    /\ phase = "building"

Index == Upto(listing[path], part)

\* currentItem is an inherited property, which has no children.
Throws == part = 2 /\ listing[path][1] \in Inherited

\* Both loops move on.
Advance ==
    IF part < Len(listing[path])
    THEN part' = part + 1 /\ UNCHANGED path
    ELSE part' = 1 /\ path' = path + 1

\* items[index] is there, or is made.
Created ==
    IF Index \in DOMAIN items \/ (part = 1 /\ Index[1] \in Inherited) THEN items
    ELSE [index \in DOMAIN items \cup {Index} |->
            IF index = Index THEN <<>> ELSE items[index]]

\* One round of the inner loop.
AddPart ==
    /\ phase = "building" /\ path <= Len(listing)
    /\ ~ Throws
    /\ items' = IF part = 1 THEN Created
                ELSE [Created EXCEPT ![Parent(Index)] = AddTo(@, Index)]
    /\ met' = AddTo(met, Index)
    /\ Advance
    /\ UNCHANGED <<listing, folders, phase>>

\* A TypeError, out of handleGetBlockFiles: the tree stays as it was.
Throw ==
    /\ phase = "building" /\ path <= Len(listing)
    /\ Throws
    /\ phase' = "thrown"
    /\ UNCHANGED <<listing, path, part, items, met, folders>>

\* isFolder, then the root item, which replaces a file's or a folder's of its key.
SetRoot ==
    /\ phase = "building" /\ path > Len(listing)
    /\ folders' = {index \in DOMAIN items : items[index] # <<>>} \cup {Root}
    /\ items' = [index \in DOMAIN items \cup {Root} |->
                    IF index = Root THEN <<>> ELSE items[index]]
    /\ part' = 1
    /\ phase' = "rooting"
    /\ UNCHANGED <<listing, path, met>>

\* The children of the root item, out of the parentMap.  Wrong variant: the
\* children of an item that the root item replaces are lost.
AddRootChildWhere(isChild) ==
    /\ phase = "rooting" /\ part <= Len(met)
    /\ items' = IF isChild THEN [items EXCEPT ![Root] = Append(@, met[part])] ELSE items
    /\ part' = part + 1
    /\ UNCHANGED <<listing, path, met, folders, phase>>
AddRootChildTop == AddRootChildWhere(Len(met[part]) = 1)
AddRootChild == AddRootChildWhere(Parent(met[part]) = Root)

Finish ==
    /\ phase = "rooting" /\ part > Len(met)
    /\ phase' = "done"
    /\ UNCHANGED <<listing, path, part, items, met, folders>>

Next == AddPart \/ Throw \/ SetRoot \/ AddRootChild \/ Finish

Spec == Init /\ [][Next]_vars

-----------------------------------------------------------------------------
(* Properties *)

\* Type invariant of the items and of the loops.
TypeOK ==
    /\ listing \in Listings
    /\ path \in 1 .. Len(listing) + 1
    /\ path <= Len(listing) => part \in 1 .. Len(listing[path])
    /\ \A index \in DOMAIN items :
        index \in Seq(Parts) /\ index # <<>> /\ items[index] \in Seq(DOMAIN items \cup {<<c>> : c \in Inherited})
    /\ \A k \in DOMAIN met : met[k] \in Seq(Parts) \ {<<>>}
    /\ folders \subseteq DOMAIN items
    /\ phase \in {"building", "rooting", "done", "thrown"}

\* Every index of a name in the listing.
Indexes == UNION {{Upto(listing[k], n) : n \in 1 .. Len(listing[k])} : k \in DOMAIN listing}

\* What the tree should be: below an item, exactly the indexes one part longer,
\* each once.  It holds whatever the order of the listing, of names that are
\* folders of other names, and of names that begin with the root's.
TreeMatches ==
    phase = "done" =>
        \A index \in DOMAIN items :
            /\ {x \in Indexes : Parent(x) = index} = {items[index][k] : k \in DOMAIN items[index]}
            /\ \A j, k \in DOMAIN items[index] : items[index][j] = items[index][k] => j = k

\* Every file is found by going down from the root item, and what it lies in
\* is a folder.
FilesReachable ==
    phase = "done" =>
        \A k \in DOMAIN listing : \A n \in 1 .. Len(listing[k]) :
            LET index == Upto(listing[k], n)
            IN Has(items[Parent(index)], index) /\ Parent(index) \in folders

\* The tree is missing only when a folder has the name of an inherited
\* property.
OnlyInheritedThrows ==
    phase = "thrown" =>
        \E k \in DOMAIN listing : Len(listing[k]) > 1 /\ listing[k][1] \in Inherited

\* The tree of a listing is complete, has nothing twice, and is there.
TreeCorrect == TreeMatches /\ FilesReachable /\ OnlyInheritedThrows
=============================================================================
