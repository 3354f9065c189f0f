----------------------------- MODULE Components -----------------------------
(***************************************************************************)
(* src/app/parsing/components.py: a profile card is a tree of components,  *)
(* of which the reader keeps the entities: each with the texts beneath it  *)
(* and, as children, the entities beneath it, such as the roles at one     *)
(* employer.                                                               *)
(*                                                                         *)
(* A tree is a function from paths to nodes: <<>> leads to its root, and   *)
(* Append(p, i) to the i-th of the nodes below p, of which there are       *)
(* tree[p].sub.  A node is an "entity" with its slots (title, subtitle,    *)
(* caption and metadata, each the sequence of its words, none when it is   *)
(* missing), a "text", a "container", or of a kind the reader does not     *)
(* know: "unknown" when its parts stand where it looks for them all the    *)
(* same, "opaque" when they stand under a key that it does not know.  The  *)
(* walk's own depth limit of 18 nodes and the search for links and images  *)
(* are left out.                                                           *)
(***************************************************************************)
EXTENDS EntityGraph, Integers, FiniteSets, Sequences, SequencesExt

CONSTANT MaxEntityDepth  \* entities are nested no deeper than this

ASSUME DepthAssumption == MaxEntityDepth \in Nat \ {0}

NoText == [label |-> "none", text |-> ""]

\* Every node but the root stands below another; a text stands over nothing.
IsTree(tree) ==
    /\ IsFiniteSet(DOMAIN tree) /\ DOMAIN tree \subseteq Seq(Nat)
    /\ \A p \in DOMAIN tree : tree[p].sub \in Nat /\ (tree[p].kind = "text" => tree[p].sub = 0)
    /\ DOMAIN tree = {<<>>} \cup UNION {{Append(p, i) : i \in 1..tree[p].sub} : p \in DOMAIN tree}

\* What a walk finds below a node, given what it finds at each path.
Below(tree, p, found) == FlattenSeq([i \in 1..tree[p].sub |-> found[Append(p, i)]])

TopEntitiesKnown(tree) ==
    LET found[p \in DOMAIN tree] ==
          IF tree[p].kind = "entity" THEN <<p>>
          ELSE IF tree[p].kind # "container" THEN <<>>
          ELSE Below(tree, p, found)
    IN found[<<>>]

\* iter_components: text outside an entity is skipped, unknown kinds are not, but
\* what they hold under an unknown key is not looked for.
TopEntities(tree) ==
    LET found[p \in DOMAIN tree] ==
          IF tree[p].kind = "entity" THEN <<p>>
          ELSE IF tree[p].kind \in {"text", "opaque"} THEN <<>>
          ELSE Below(tree, p, found)
    IN found[<<>>]

\* is_empty looks at the entity's own slots and texts, not at its children.
IsEmpty(flat) ==
    flat.texts = <<>> /\ \A slot \in DOMAIN flat.slots : flat.slots[slot] = <<>>

\* _read_sub_components, to which no key is unknown: the texts below a node that
\* are no other entity's ...
Texts(tree) ==
    LET found[p \in DOMAIN tree] ==
          IF tree[p].kind = "entity" THEN <<>>
          ELSE IF tree[p].kind = "text" THEN Filter(<<tree[p].text>>, LAMBDA t : t # NoText)
          ELSE Below(tree, p, found)
    IN found

EntitiesOver(tree, p) == {q \in DOMAIN tree : IsStrictPrefix(q, p) /\ tree[q].kind = "entity"}

\* ... and the nearest entities below it.  flatten_entity is an entity at a path.
FlattenEntities(tree) ==
    LET texts == Texts(tree)
        found[p \in DOMAIN tree] ==
          IF tree[p].kind = "text" THEN <<>>
          ELSE IF tree[p].kind # "entity" THEN Below(tree, p, found)
          ELSE LET flat == [slots |-> tree[p].slots, urn |-> tree[p].urn,
                            texts |-> Distinct(Below(tree, p, texts)),
                            children |-> Below(tree, p, found)]
               IN IF Cardinality(EntitiesOver(tree, p)) > MaxEntityDepth \/ IsEmpty(flat)
                  THEN <<>> ELSE <<flat>>
    IN found

FlattenSection(tree) ==
    LET entities == TopEntities(tree)
    IN FlattenSeq([i \in DOMAIN entities |-> FlattenEntities(tree)[entities[i]]])

IsCard(e) == "topComponents" \in DOMAIN e

\* All the cards of a response, one after the other.
FlattenCards(included) ==
    LET cards == Filter(Entities(included), IsCard)
    IN FlattenSeq([i \in DOMAIN cards |-> FlattenSection(cards[i].topComponents)])

\* flatten_card_payload: a payload without cards is read as a component itself.
\* The other readers hand over responses, whose entities are under no known key.
FlattenCardPayload(payload) ==
    IF \E i \in DOMAIN Entities(payload.included) : IsCard(Entities(payload.included)[i])
    THEN FlattenCards(payload.included) ELSE FlattenSection(payload.tree)

-----------------------------------------------------------------------------
(* What a reader of the page sees: which entity a node stands under.       *)

EntityPaths(tree) == {p \in DOMAIN tree : tree[p].kind = "entity"}

\* q stands under the entity p with no entity in between.
Under(tree, p, q) ==
    /\ IsStrictPrefix(p, q)
    /\ \A r \in EntityPaths(tree) : IsStrictPrefix(p, r) => ~IsStrictPrefix(r, q)

\* Document order.
Before(p, q) ==
    \/ IsStrictPrefix(p, q)
    \/ \E i \in DOMAIN p \cap DOMAIN q :
         p[i] < q[i] /\ SubSeq(p, 1, i - 1) = SubSeq(q, 1, i - 1)

InOrder(paths) ==
    [i \in 1..Cardinality(paths) |->
       CHOOSE p \in paths : Cardinality({q \in paths : Before(q, p)}) = i - 1]

TextPaths(tree) == {p \in DOMAIN tree : tree[p].kind = "text" /\ tree[p].text # NoText}

TextsUnder(tree, p) ==
    LET inOrder == InOrder({q \in TextPaths(tree) : Under(tree, p, q)})
    IN Distinct([i \in DOMAIN inOrder |-> tree[inOrder[i]].text])

Shows(tree, p) ==
    \/ TextsUnder(tree, p) # <<>>
    \/ \E slot \in DOMAIN tree[p].slots : tree[p].slots[slot] # <<>>

\* The entities with something to see: a slot, or a text of their own.
Showing(tree) == {p \in EntityPaths(tree) : Shows(tree, p)}

\* q is shown within p, and within nothing that p holds.
ShownUnder(tree, p, q) ==
    /\ IsStrictPrefix(p, q)
    /\ \A r \in Showing(tree) : IsStrictPrefix(p, r) => ~IsStrictPrefix(r, q)

\* The page: all that shows something in document order, each with the texts under
\* it and, as its children, what is shown within it.
Rendered(tree) ==
    LET Listed(paths, as) == [i \in 1..Cardinality(paths) |-> as[InOrder(paths)[i]]]
        as[p \in Showing(tree)] ==
          [slots |-> tree[p].slots, urn |-> tree[p].urn, texts |-> TextsUnder(tree, p),
           children |-> Listed({q \in Showing(tree) : ShownUnder(tree, p, q)}, as)]
    IN Listed({q \in Showing(tree) :
                 \A p \in Showing(tree) : ~IsStrictPrefix(p, q)}, as)

\* Where the reader can follow: what shows something stands in entities that do, not
\* in too many, and outside of entities under no key that is unknown.
Legible(tree) ==
    \A q \in Showing(tree) :
        /\ EntitiesOver(tree, q) \subseteq Showing(tree)
        /\ Cardinality(EntitiesOver(tree, q)) <= MaxEntityDepth
        /\ \A p \in DOMAIN tree :
              tree[p].kind = "opaque" /\ IsStrictPrefix(p, q) => EntitiesOver(tree, p) # {}
=============================================================================
