-------------------------------- MODULE Router --------------------------------
(***************************************************************************)
(* Gee's router (WebFramework/day4-group/gee/router.go) over the prefix    *)
(* trie of WebFramework/day2-Context/gee/trie.go.  addRoute inserts a      *)
(* pattern into the trie of its method and records its handler; getRoute   *)
(* searches the trie for a request path.                                   *)
(*                                                                         *)
(* A pattern or a path is the list strings.Split(s, "/") returns; a part   *)
(* is a string of a small alphabet, and whether it starts with ':' or '*'  *)
(* is its membership of ParamParts or WildParts.  A *node is named by the  *)
(* parts on the way to it from the root (siblings never share a part, as   *)
(* insert only adds a child no existing child matches), and a trie is a    *)
(* function from those names to [pattern, children], children in the      *)
(* order they were appended.  getRoute's params are left out: no property *)
(* reads them.                                                             *)
(***************************************************************************)
EXTENDS Naturals, Sequences, SequencesExt, FiniteSets, Functions, TLC

CONSTANTS
    Methods,        \* request methods
    Statics,        \* parts that match themselves only
    ParamParts,     \* parts starting with ':'
    WildParts,      \* parts starting with '*'
    Patterns,       \* strings.Split of the patterns routes are added with
    Paths,          \* strings.Split of request paths
    None            \* nil, and the empty pattern of an inner node

VARIABLES
    roots,          \* r.roots: method -> trie
    handlers,       \* the keys of r.handlers, as <<method, pattern>>
    absorbed        \* history: some insert went through a wild child for a
                    \* different part

vars == <<roots, handlers, absorbed>>

IsWild(p) == p \in ParamParts \cup WildParts
IsCatchAll(p) == p \in WildParts

\* n.part: the last part of a node's name; the root's part is "".
Part(n) == IF n = <<>> THEN "" ELSE n[Len(n)]

EmptyNode == [pattern |-> None, children |-> <<>>]

\* parsePattern, router.go lines 13-27: the non-empty elements up to and
\* including the first one that starts with '*'.
ParsePattern(elems) ==
    LET parts == SelectSeq(elems, LAMBDA e : e # "")
        k == SelectInSeq(parts, IsCatchAll)
    IN  IF k = 0 THEN parts ELSE SubSeq(parts, 1, k)

\* Matches is child.part == part || child.isWild (trie.go lines 15, 26).
Matches(c, part) == c = part \/ IsWild(c)

\* mathChild, trie.go lines 13-20: the first child matching part.
MathChild(t, n, part) ==
    LET i == SelectInSeq(t[n].children, LAMBDA c : Matches(c, part))
    IN  IF i = 0 THEN None ELSE Append(n, t[n].children[i])

\* Mutant: mathChildren returns every child, the part test dropped.
MathChildrenAll(t, n, part) == t[n].children

\* mathChildren, trie.go lines 23-31: every child matching part, in order.
MathChildren(t, n, part) == SelectSeq(t[n].children, LAMBDA c : Matches(c, part))

\* Mutant: the new child is not appended to n.children.
NewChildOrphan(t, n, part) == (Append(n, part) :> EmptyNode) @@ t

\* Trie.go lines 43-46: a new child for part, appended to n.children.
NewChild(t, n, part) ==
    (Append(n, part) :> EmptyNode) @@ [t EXCEPT ![n].children = Append(@, part)]

\* insert, trie.go lines 33-48.
RECURSIVE Insert(_, _, _, _, _)
Insert(t, n, pattern, parts, h) ==
    IF Len(parts) = h THEN [t EXCEPT ![n].pattern = pattern]
    ELSE LET part == parts[h + 1]
             c == MathChild(t, n, part)
         IN  IF c # None THEN Insert(t, c, pattern, parts, h + 1)
             ELSE Insert(NewChild(t, n, part), Append(n, part), pattern, parts, h + 1)

\* Mutant: search also stops at a ':' node, as if it began with '*'.
AtEndParam(n, parts, h) == Len(parts) = h \/ IsWild(Part(n))

\* Trie.go line 51: the parts are used up, or n matches all that is left.
AtEnd(n, parts, h) == Len(parts) = h \/ IsCatchAll(Part(n))

RECURSIVE Search(_, _, _, _)

\* Mutant: search tries only the first matching child, without backtracking.
SearchInFirst(t, n, cs, parts, h) ==
    IF cs = <<>> THEN None ELSE Search(t, Append(n, Head(cs)), parts, h + 1)

\* The loop of trie.go lines 63-68 over the matching children cs.
RECURSIVE SearchIn(_, _, _, _, _)
SearchIn(t, n, cs, parts, h) ==
    IF cs = <<>> THEN None
    ELSE LET r == Search(t, Append(n, Head(cs)), parts, h + 1)
         IN  IF r # None THEN r ELSE SearchIn(t, n, Tail(cs), parts, h)

\* search, trie.go lines 50-70.
Search(t, n, parts, h) ==
    IF AtEnd(n, parts, h)
    THEN IF t[n].pattern = None THEN None ELSE n
    ELSE SearchIn(t, n, MathChildren(t, n, parts[h + 1]), parts, h)

\* getRoute, router.go lines 49-83: the pattern of the node search finds
\* for the path in the method's trie, or nil.
GetRoute(m, path) ==
    IF m \notin DOMAIN roots THEN None
    ELSE LET n == Search(roots[m], <<>>, ParsePattern(path), 0)
         IN  IF n = None THEN None ELSE roots[m][n].pattern

\* handle, router.go lines 85-96: the key of the handler getRoute's node
\* leads to, or None for the 404 answer.
Handle(m, path) == IF GetRoute(m, path) = None THEN None ELSE <<m, GetRoute(m, path)>>

\* The insert of parts would descend into a wild child for another part.
RECURSIVE Absorbs(_, _, _, _)
Absorbs(t, n, parts, h) ==
    IF Len(parts) = h THEN FALSE
    ELSE LET c == MathChild(t, n, parts[h + 1])
         IN  c # None /\ (Part(c) # parts[h + 1] \/ Absorbs(t, c, parts, h + 1))

Init ==
    /\ roots = [m \in {} |-> None]
    /\ handlers = {}
    /\ absorbed = FALSE

\* addRoute, router.go lines 36-46: the method's root is created on
\* first use, the pattern inserted, the handler stored under its key.
AddRoute(m, pattern) ==
    LET t == IF m \in DOMAIN roots THEN roots[m] ELSE (<<>> :> EmptyNode)
        parts == ParsePattern(pattern)
    IN  /\ roots' = (m :> Insert(t, <<>>, pattern, parts, 0)) @@ roots
        /\ handlers' = handlers \cup {<<m, pattern>>}
        /\ absorbed' = (absorbed \/ Absorbs(t, <<>>, parts, 0))

Next == \E m \in Methods, p \in Patterns : AddRoute(m, p)

Spec == Init /\ [][Next]_vars

-----------------------------------------------------------------------------

\* What routing should do: a pattern matches the parts of a path part by
\* part, a ':' part matching any one part and a '*' part one or more.
RECURSIVE Fits(_, _)
Fits(pp, sp) ==
    IF pp = <<>> THEN sp = <<>>
    ELSE /\ sp # <<>>
         /\ \/ IsCatchAll(Head(pp))
            \/ /\ Head(pp) \in ParamParts \cup {Head(sp)}
               /\ Fits(Tail(pp), Tail(sp))

\* A route's pattern fits a path.
Serves(pattern, path) == Fits(ParsePattern(pattern), ParsePattern(path))

\* Every node is reached from the root through its parent's children, and
\* every child listed has a node.
TypeOK ==
    /\ DOMAIN roots \subseteq Methods
    /\ handlers \subseteq Methods \X Patterns
    /\ absorbed \in BOOLEAN
    /\ \A m \in DOMAIN roots :
         LET t == roots[m] IN
         /\ <<>> \in DOMAIN t
         /\ \A n \in DOMAIN t :
              /\ t[n].pattern \in Patterns \cup {None}
              /\ \A i \in 1 .. Len(t[n].children) : Append(n, t[n].children[i]) \in DOMAIN t
              /\ n # <<>> => Part(n) \in ToSet(t[SubSeq(n, 1, Len(n) - 1)].children)

\* Unless some route was inserted through a wild node of another part,
\* getRoute only returns a pattern that fits the path: the first-match
\* descent of insert and the backtracking search agree on every path.
RoutedPathFitsUnlessAbsorbed ==
    ~absorbed =>
        \A m \in Methods, path \in Paths :
            GetRoute(m, path) # None => Serves(GetRoute(m, path), path)

\* Unless some route was inserted through a wild node of another part, a
\* path that fits some route of its method is routed (not a 404): search
\* backtracks out of a child that leads nowhere.
FittingPathRoutedUnlessAbsorbed ==
    ~absorbed =>
        \A m \in Methods, path \in Paths :
            (\E h \in handlers : h[1] = m /\ Serves(h[2], path)) => GetRoute(m, path) # None

\* Every request handle routes runs the handler of a route whose pattern
\* fits the path (the comments of getRoute, lines 65-76, bind each ':'
\* part to the path's part at its index), whatever order the routes were
\* added in.
RoutedPathFits ==
    \A m \in Methods, path \in Paths :
        Handle(m, path) # None => Handle(m, path) \in handlers /\ Serves(Handle(m, path)[2], path)

=============================================================================
