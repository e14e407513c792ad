-------------------------------- MODULE UiTree --------------------------------
(***************************************************************************)
(* ui_parser.py and session.py: what becomes of a dump.  Two traversals      *)
(* number the nodes that say something, each with a counter of its own;      *)
(* parse_elements lists them, parse_relations relates them, a selector is     *)
(* matched against the list and the relations of the session's snapshot, and   *)
(* a form's fields get their labels from them.  Only some callers of observe   *)
(* ask for relations.                                                        *)
(*                                                                         *)
(* A dump is the sequence of its nodes in document order; up is the position *)
(* of the node around it, 0 for the hierarchy itself.                        *)
(***************************************************************************)
EXTENDS Integers, FiniteSets, SequencesExt

CONSTANTS
    Texts,      \* what a node may say; "" says nothing
    Selectors,  \* text, clickable, sibling_text, ancestor_text, nth_match
    None,       \* no value
    MaxNodes,   \* bound: nodes of a dump
    MaxFields   \* bound: those of them that are fields

Keys == {"text", "clickable", "sibling_text", "ancestor_text", "nth_match"}
ASSUME TreeConstants ==
    /\ "" \in Texts /\ {MaxNodes, MaxFields} \subseteq Nat
    /\ \A s \in Selectors : /\ DOMAIN s \subseteq Keys
                            /\ "nth_match" \in DOMAIN s => s.nth_match \in Int
    \* An index is never what stands for none.
    /\ None \notin Nat /\ None \notin Selectors

VARIABLES
    dump,       \* what the phone shows
    snap,       \* session.last: [els, rel], each None at first
    answer      \* of the last find or form: [selector, ids, form]

treeVars == <<dump, snap, answer>>

Meaningful(n) == n.text # "" \/ n.clickable
\* Document order: a node is inside the one before it or inside what is around that.
Around(d) ==
    LET up[k \in 0..Len(d)] == IF k = 0 THEN {} ELSE {d[k].up} \cup up[d[k].up] IN up
WellFormed(d) ==
    \A k \in DOMAIN d : /\ d[k].up \in 0..(k - 1)
                        /\ d[k].up \in {k - 1} \cup Around(d)[k - 1]
\* A field, where its owner types, can be clicked.
Nodes == {n \in [up : 0..(MaxNodes - 1), text : Texts, clickable : BOOLEAN, editable : BOOLEAN] :
             n.editable => n.clickable}
Dumps == UNION {{d \in [1..n -> Nodes] :
                    WellFormed(d) /\ Cardinality({k \in 1..n : d[k].editable}) <= MaxFields}
                : n \in 0..MaxNodes}

-----------------------------------------------------------------------------
(* ui_parser                                                               *)

\* parse_elements: one element for each node that says something; i counts them.
ParseElements(d) ==
    LET els[k \in 0..Len(d)] ==
            IF k = 0 THEN <<>>
            ELSE LET before == els[k - 1]
                     e == [i |-> Len(before), text |-> d[k].text, clickable |-> d[k].clickable,
                           editable |-> d[k].editable]
                 IN IF Meaningful(d[k]) THEN Append(before, e) ELSE before
    IN els[Len(d)]

\* Mutant: a node inside one that says nothing has no parent.
HandedDownNothing(i, parent) == i
\* What visit hands to a node's children: its index, or its own parent's.
HandedDown(i, parent) == IF i # None THEN i ELSE parent

\* _iter_tree: visit's index, from a counter that goes up at every node that says
\* something, and the parent it is handed; 0 is the hierarchy itself.
IterTree(d) ==
    LET counter[k \in 0..Len(d)] ==
            IF k = 0 THEN 0
            ELSE IF Meaningful(d[k]) THEN counter[k - 1] + 1 ELSE counter[k - 1]
        index(k) == IF k # 0 /\ Meaningful(d[k]) THEN counter[k - 1] ELSE None
        handed[k \in 0..Len(d)] ==
            IF k = 0 THEN None ELSE HandedDown(index(d[k].up), handed[d[k].up])
    IN [k \in 0..Len(d) |-> [i |-> index(k), parent |-> handed[k]]]

\* parse_relations: the walk from an index outwards,
Ancestors(parent) ==
    LET chain[i \in DOMAIN parent] ==
            IF parent[i] = None THEN <<>> ELSE <<parent[i]>> \o chain[parent[i]]
    IN chain
\* collect's parents,
Parents(tree) ==
    [i \in {tree[k].i : k \in DOMAIN tree} \ {None} |->
        tree[CHOOSE k \in DOMAIN tree : tree[k].i = i].parent]
\* and its children: the nodes right inside, then what has i for its parent.
Children(d, tree, parent) ==
    [i \in DOMAIN parent |->
        {tree[k].i : k \in {n \in DOMAIN d : tree[n].i # None /\ tree[d[n].up].i = i}}
            \cup {j \in DOMAIN parent : parent[j] = i}]
ParseRelations(d) ==
    LET parent == Parents(IterTree(d))
    IN [parent |-> parent,
        children |-> Children(d, IterTree(d), parent),
        siblings |-> [i \in DOMAIN parent |-> {j \in DOMAIN parent \ {i} : parent[j] = parent[i]}],
        ancestors |-> Ancestors(parent)]

\* match_selector: the elements a selector admits.
Admits(els, rel, s, e) ==
    LET says(ids, text) == \E n \in DOMAIN els : els[n].i \in ids /\ els[n].text = text
        asks(key) == key \in DOMAIN s
    IN /\ asks("text") => e.text = s.text
       /\ asks("clickable") => e.clickable = s.clickable
       /\ asks("sibling_text") => rel # None /\ says(rel.siblings[e.i], s.sibling_text)
       /\ asks("ancestor_text") => rel # None /\ says(ToSet(rel.ancestors[e.i]), s.ancestor_text)

Score(s, e) ==
    (IF "text" \in DOMAIN s /\ e.text = s.text THEN 100 ELSE 0) + (IF e.clickable THEN 5 ELSE 0)
\* The key of the sort: the best score first, then the index.
Precedes(s, e, f) ==
    Score(s, e) > Score(s, f) \/ (Score(s, e) = Score(s, f) /\ e.i < f.i)

Nth(ids, n) == IF n >= 0 /\ n < Len(ids) THEN <<ids[n + 1]>> ELSE <<>>

\* Sorted: the r-th element is the one that r - 1 precede.
MatchSelector(els, rel, s) ==
    LET ranked == {n \in DOMAIN els : Admits(els, rel, s, els[n])}
        ahead(n) == {m \in ranked : Precedes(s, els[m], els[n])}
        ids == [r \in 1..Cardinality(ranked) |->
                    els[CHOOSE n \in ranked : Cardinality(ahead(n)) = r - 1].i]
    IN IF "nth_match" \in DOMAIN s THEN Nth(ids, s.nth_match) ELSE ids

\* extract_form, whose callers all ask for relations: a field's label is the text of
\* its first sibling that has one and is no field, else of its innermost such ancestor.
Least(S) == CHOOSE k \in S : \A n \in S : k <= n
Label(els, rel, i) ==
    LET has(j) == \E n \in DOMAIN els : els[n].i = j /\ els[n].text # "" /\ ~els[n].editable
        text(j) == els[CHOOSE n \in DOMAIN els : els[n].i = j].text
        beside == {j \in rel.siblings[i] : has(j)}
        chain == rel.ancestors[i]
        around == {n \in DOMAIN chain : has(chain[n])}
    IN IF beside # {} THEN text(Least(beside))
       ELSE IF around # {} THEN text(chain[Least(around)]) ELSE None
ExtractForm(els, rel) ==
    {[i |-> els[n].i, label |-> Label(els, rel, els[n].i)] : n \in {m \in DOMAIN els : els[m].editable}}

-----------------------------------------------------------------------------
(* observer.observe and Session.find, by their callers.                    *)

NoAnswer == [selector |-> None, ids |-> <<>>, form |-> None]
TreeInit ==
    /\ dump \in Dumps
    /\ snap = [els |-> None, rel |-> None]
    /\ answer = NoAnswer

Observed(relations) ==
    [els |-> ParseElements(dump), rel |-> IF relations THEN ParseRelations(dump) ELSE None]
Find(s, from) ==
    answer' = [NoAnswer EXCEPT !.selector = s, !.ids = MatchSelector(from.els, from.rel, s)]

\* droidjig observe, the tools of the MCP server; relations is their argument.
Observe(relations) ==
    /\ snap.els = None /\ answer = NoAnswer
    /\ snap' = Observed(relations) /\ UNCHANGED <<dump, answer>>

\* A target with a selector: resolved on the session's snapshot, whoever took it.
FindInSession(s) ==
    /\ snap.els # None /\ answer = NoAnswer
    /\ Find(s, snap) /\ UNCHANGED <<dump, snap>>

\* The daemon's find observes first, without relations.
DaemonFind(s) ==
    /\ answer = NoAnswer
    /\ snap' = Observed(FALSE) /\ Find(s, Observed(FALSE)) /\ UNCHANGED dump

\* The MCP tool's find observes first, with them.  (It then looks an element's parent
\* and siblings up under the text of its index, which the relations do not use, and
\* shows none: the candidates' context is left out here.)
ToolFind(s) ==
    /\ answer = NoAnswer
    /\ snap' = Observed(TRUE) /\ Find(s, Observed(TRUE)) /\ UNCHANGED dump

\* droidjig extract form.
Form ==
    /\ answer = NoAnswer /\ snap' = Observed(TRUE)
    /\ answer' = [NoAnswer EXCEPT !.form = ExtractForm(snap'.els, snap'.rel)]
    /\ UNCHANGED dump

TreeNext ==
    \/ \E relations \in BOOLEAN : Observe(relations)
    \/ \E s \in Selectors : FindInSession(s) \/ DaemonFind(s) \/ ToolFind(s)
    \/ Form
TreeSpec == TreeInit /\ [][TreeNext]_treeVars

-----------------------------------------------------------------------------
(* The reference: positions in the dump and nothing but containment.       *)

Said == {k \in DOMAIN dump : Meaningful(dump[k])}
Place(i) == CHOOSE k \in Said : Cardinality({n \in Said : n < k}) = i
Outside(k) == Around(dump)[k] \cap Said
Innermost(ks) == IF ks = {} THEN 0 ELSE CHOOSE k \in ks : \A n \in ks : n <= k
Alike(k, s) ==
    /\ "text" \in DOMAIN s => dump[k].text = s.text
    /\ "clickable" \in DOMAIN s => dump[k].clickable = s.clickable
    /\ "ancestor_text" \in DOMAIN s => \E n \in Outside(k) : dump[n].text = s.ancestor_text
    /\ "sibling_text" \in DOMAIN s =>
        \E n \in Said \ {k} : /\ dump[n].text = s.sibling_text
                              /\ Innermost(Outside(n)) = Innermost(Outside(k))
Relational(s) == DOMAIN s \cap {"sibling_text", "ancestor_text"} # {}

\* The indices of parse_elements and of parse_relations name the same nodes: an
\* element's parent is the innermost one around it that says something, its
\* children are those it is the parent of, and its ancestors come from the inside
\* out (build_tree: "keyed to parse_elements indices").
RelationsAgree ==
    snap.rel # None =>
        /\ DOMAIN snap.rel.parent = {snap.els[n].i : n \in DOMAIN snap.els}
        /\ \A i \in DOMAIN snap.rel.parent :
            LET outer == Outside(Place(i))
                chain == snap.rel.ancestors[i]
            IN /\ snap.rel.parent[i] = None => outer = {}
               /\ snap.rel.parent[i] # None => Place(snap.rel.parent[i]) = Innermost(outer)
               /\ {Place(j) : j \in ToSet(chain)} = outer
               /\ \A n \in 1..(Len(chain) - 1) : Place(chain[n]) > Place(chain[n + 1])
               /\ snap.rel.children[i]
                    = {j \in DOMAIN snap.rel.parent : snap.rel.parent[j] = i}

\* A find names the nodes that are what the selector says, all of them, those that
\* can be clicked first and then from the top, whatever the scores are; only a
\* selector about siblings or ancestors, on a snapshot without relations, finds
\* nothing at all (the daemon's find, every observation after an action).
Better(k, n) == IF dump[k].clickable = dump[n].clickable THEN k < n ELSE dump[k].clickable
FindsWhatIsThere ==
    answer.selector # None =>
        LET s == answer.selector
            there == {k \in Said : Alike(k, s)}
            places == [n \in DOMAIN answer.ids |-> Place(answer.ids[n])]
        IN IF Relational(s) /\ snap.rel = None THEN answer.ids = <<>>
           ELSE IF "nth_match" \in DOMAIN s
           THEN /\ ToSet(places)
                       = {k \in there : Cardinality({n \in there : Better(n, k)}) = s.nth_match}
                /\ Len(answer.ids) <= 1
           ELSE /\ ToSet(places) = there
                /\ \A m, n \in DOMAIN places : m < n => Better(places[m], places[n])

\* A form has every field of the screen, and a field's label is what is written beside
\* it, first of all, or else around it, closest: never another field's content, and
\* none only where nothing is written.
LabelsAreNear ==
    answer.form # None =>
        /\ {Place(f.i) : f \in answer.form} = {k \in DOMAIN dump : dump[k].editable}
        /\ \A f \in answer.form :
            LET field == Place(f.i)
                written == {k \in Said \ {field} : dump[k].text # "" /\ ~dump[k].editable}
                beside == {k \in written : Innermost(Outside(k)) = Innermost(Outside(field))}
                around == written \cap Outside(field)
            IN f.label =
                 IF beside # {} THEN dump[Least(beside)].text
                 ELSE IF around # {} THEN dump[Innermost(around)].text ELSE None

\* An index means one node, in the list, in the relations, in an answer and in a form.
IndicesMeanNodes == RelationsAgree /\ FindsWhatIsThere /\ LabelsAreNear
=============================================================================
