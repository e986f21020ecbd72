---------------------------- MODULE MCPlacement -----------------------------
(* Values for TLC: small trees in a directory `d`, one name that differs   *)
(* from another only by its case, a file's or a directory's, one that has  *)
(* the form of a numbered sibling, one hidden directory, one name a        *)
(* receiver may not have.                                                  *)
EXTENDS Placement

N(base) == <<base>>
LowerCase == [base \in {"d", "e", "a", "b", ".h", "con", "o", "l"} |-> base]
               @@ [base \in {"A"} |-> "a"]

D == <<N("d")>>
PathA == <<N("d"), N("a")>>
PathCapA == <<N("d"), N("A")>>
PathA1 == <<N("d"), <<"a", 1>>>>
PathAB == <<N("d"), N("a"), N("b")>>
PathHidden == <<N("d"), N(".h"), N("b")>>
PathCon == <<N("d"), N("con")>>
PathE == <<N("e"), N("b")>>
PathL == <<N("d"), N("l")>>

Node(kind, target) == [kind |-> kind, target |-> target]

\* The directories, a link in `d`, and some files.
Tree(files, target) ==
  [path \in files |-> Node("file", <<>>)]
    @@ [path \in {D, PathA, <<N("e")>>, <<N("d"), N(".h")>>} |-> Node("dir", <<>>)]
    @@ [path \in {PathL} |-> Node("link", target)]

Named(at) == [at |-> at, named |-> TRUE]
Unnamed(at) == [at |-> at, named |-> FALSE]
Pattern(paths, names, below) == [paths |-> paths, names |-> names, below |-> below]

Commands ==
  {<<Named(D)>>, <<Unnamed(D)>>, <<Named(PathA)>>, <<Named(PathA), Named(<<N("e")>>)>>,
   <<Named(D), Named(PathA)>>, <<Named(PathA), Named(PathL)>>, <<Named(PathL)>>}

Filters(hidden, exclude, include) ==
  [hidden |-> hidden, exclude |-> exclude, include |-> include]

FileSets ==
  {{PathCapA, PathAB, PathE}} \cup
  {{PathA, PathE} \cup {p, q} : p, q \in {PathA, PathCapA, PathA1, PathHidden, PathCon}}

\* The link leads to `e`, or nowhere.
Trees ==
  {Tree(files, <<N("e")>>) : files \in FileSets}
    \cup {Tree({PathA, PathE}, <<N("o")>>)}

AnySend ==
  [tree : Trees, inputs : Commands,
   filters : {Filters(FALSE, {}, {}),
              Filters(TRUE, {Pattern({}, {<<"a", 1>>}, <<>>),
                             Pattern({}, {}, <<N(".h"), N("b")>>)}, {}),
              Filters(FALSE, {Pattern({}, {}, <<N("e")>>)},
                      {Pattern({}, {N("b")}, <<>>), Pattern({}, {}, <<N("d"), N("a")>>)})}]

O == <<N("o")>>
AnyOut == {[path |-> O, slash |-> FALSE], [path |-> O, slash |-> TRUE]}
AnyFound ==
  {{}, {O}, {O \o PathA}, {O \o <<N("a")>>}, {O \o D},
   {O \o PathA, O \o PathA1}, {O \o PathA \o <<N("b")>>}}

=============================================================================
