---------------------------- MODULE ParsingTerms ----------------------------
(***************************************************************************)
(* The terms in which ParsingProofs argues about the parsers: what holds   *)
(* of intermediate results of the walks, lists and sections of Parsing.    *)
(* Nothing here is part of the model.                                      *)
(***************************************************************************)
EXTENDS Parsing

\* f is what a recursion over 0..n computes.
Recursive(f, n, A, base, step) ==
    /\ f \in [0..n -> A]
    /\ f[0] = base
    /\ \A i \in 1..n : f[i] = step[<<i, f[i - 1]>>]

-----------------------------------------------------------------------------
(* Keep.                                                                   *)

\* kept holds what is kept of each initial part of seq.
KeepSteps(kept, S, seq, places) ==
    /\ kept \in [0..Len(seq) -> Seq(S)]
    /\ kept[0] = <<>>
    /\ \A n \in 1..Len(seq) :
          kept[n] = IF n \in places THEN Append(kept[n - 1], seq[n]) ELSE kept[n - 1]
    /\ Keep(seq, places) = kept[Len(seq)]

\* at lists the n numbers of a set of places in increasing order.
Enumerates(at, n, places) ==
    /\ at \in [1..n -> places]
    /\ \A i, k \in 1..n : i < k => at[i] < at[k]
    /\ \A place \in places : \E i \in 1..n : at[i] = place

\* kept holds the elements of seq at the places.
KeepsAt(at, kept, seq, places) ==
    /\ Enumerates(at, Len(kept), places)
    /\ \A i \in 1..Len(kept) : kept[i] = seq[at[i]]

-----------------------------------------------------------------------------
(* FlattenSeq.                                                             *)

\* flat holds the concatenation of each initial part of seqs.
FlattenSteps(flat, S, seqs) ==
    /\ flat \in [0..Len(seqs) -> Seq(S)]
    /\ flat[0] = <<>>
    /\ \A n \in 1..Len(seqs), m \in Nat : n = m + 1 => flat[n] = flat[m] \o seqs[n]
    /\ FlattenSeq(seqs) = flat[Len(seqs)]

\* flat is the concatenation of seqs, the i-th of which follows after off[i].
FlattensAt(off, flat, seqs) ==
    /\ off \in [1..Len(seqs) -> Nat]
    /\ \A i \in 1..Len(seqs) : \A k \in 1..Len(seqs[i]) :
          off[i] + k \in 1..Len(flat) /\ flat[off[i] + k] = seqs[i][k]
    /\ \A j \in 1..Len(flat) :
          \E i \in 1..Len(seqs) : \E k \in 1..Len(seqs[i]) : j = off[i] + k
    /\ \A i, k \in 1..Len(seqs) : i < k => off[i] + Len(seqs[i]) <= off[k]

-----------------------------------------------------------------------------
(* The index of entities.                                                  *)

\* found is, in some order, the elements of included at the places.
Finds(at, found, included, places) ==
    /\ at \in [1..Len(found) -> places]
    /\ \A j \in 1..Len(found) : found[j] = included[at[j]]
    /\ \A j, k \in 1..Len(found) : at[j] = at[k] => j = k
    /\ \A p \in places : \E j \in 1..Len(found) : at[j] = p

\* The places of the entities of a type that ends in one of the suffixes.
PlacesOfType(included, suffixes) ==
    {i \in 1..Len(included) : \E s \in suffixes : IsSuffix(s, included[i].type)}

\* The words the types of the sections are made of.
TypeWords ==
    {"Skill", "Certification", "Language", "Project", "Publication", "Honor", "Volunteer",
     "Experience", "Course", "Patent", "Organization", "Test", "Score"}

\* The entities of one type.
HavingType(included, type) == {p \in DOMAIN included : included[p].type = type}

\* ByType asks for the entities of these types, one type after the other.
Asks(types, included, suffixes) ==
    /\ ByType(included, suffixes)
         = FlattenSeq([i \in DOMAIN types |-> Keep(included, HavingType(included, types[i]))])
    /\ \A i, k \in 1..Len(types) : types[i] = types[k] => i = k
    /\ \A i \in 1..Len(types) : \E p \in PlacesOfType(included, suffixes) : types[i] = included[p].type
    /\ \A p \in PlacesOfType(included, suffixes) : \E i \in 1..Len(types) : types[i] = included[p].type
    /\ 1 \in PlacesOfType(included, suffixes) => types # <<>> /\ types[1] = included[1].type

\* What a search for the URN at a place finds first.
FoundFirst(all, p) ==
    LET I == {i \in 1..Len(all) : all[i].urn = all[p].urn} IN I # {} /\ Min(I) = p

-----------------------------------------------------------------------------
(* Links.                                                                  *)

\* The part of seq before the first of its places in I, as UpTo cuts it.
CutBefore(seq, I) ==
    LET cut == IF I # {} THEN Min(I) ELSE 0
    IN IF cut = 0 THEN seq ELSE SubSeq(seq, 1, cut - 1)

\* part is the elements of seq up to the first of the places in I.
IsPartBefore(part, seq, I, m) ==
    /\ m \in 1..Len(seq) /\ Len(part) = m
    /\ \A i \in 1..m : part[i] = seq[i] /\ i \notin I

\* pieces begin with a name, behind which stand stray punctuation and then,
\* behind a separator, anything.
NameFirst(pieces) ==
    /\ pieces # <<>> /\ pieces[1].text \notin Separators \cup Strays
    /\ \A i \in 2..Len(pieces) :
         pieces[i].text \in Strays \/ \E k \in 2..i : pieces[k].text \in Separators

-----------------------------------------------------------------------------
(* The top card of a page.                                                 *)

\* lines are a name, in the end, the card under it, the contact line and more.
Layout(lines, before, name, card, contact, after) ==
    lines = ((before \o <<name>>) \o card) \o (<<contact>> \o after)

\* Which line of such a page is what.
PlacedAs(lines, b, name, card, contact, after) ==
    LET m == Len(card)
        a == Len(after)
    IN /\ b \in Nat /\ m \in Nat /\ a \in Nat
       /\ Len(lines) = b + 1 + m + 1 + a
       /\ lines[b + 1] = name /\ lines[b + 1 + m + 1] = contact
       /\ \A i \in 1..m : lines[b + 1 + i] = card[i]
       /\ \A i \in 1..a : lines[b + 1 + m + 1 + i] = after[i]

\* The name that counts is the last one, and the block under it is the card,
\* which has at most seven lines.
CardPage(lines, before, line, card, contact, after, S) ==
    /\ before \in Seq(S) /\ line \in S /\ card \in Seq(S) /\ contact \in S /\ after \in Seq(S)
    /\ Layout(lines, before, line, card, contact, after)
    /\ contact.kind = "contact" /\ contact.text # line.text /\ Len(card) <= 7
    /\ \A i \in 1..Len(card) : card[i].kind # "contact" /\ card[i].text # line.text
    /\ \A i \in 1..Len(after) : after[i].text # line.text

-----------------------------------------------------------------------------
(* The first of what is found.                                             *)

\* The last entity with a URN stands at p.
LastWithUrn(included, urn, p) ==
    /\ p \in 1..Len(included) /\ included[p].urn = urn
    /\ \A i \in 1..Len(included) : included[i].urn = urn => i <= p

-----------------------------------------------------------------------------
(* The subject of a response.                                              *)

\* The subject, as the tiers should tell of them.
IsSubject(basics) ==
    /\ basics.full = SubjectName /\ basics.headline = SubjectHeadline
    /\ basics.id = SubjectName

-----------------------------------------------------------------------------
(* Cards.                                                                  *)

\* What comes of a leaf with a title.
Flat(slots) == [slots |-> slots, urn |-> NoUrn, texts |-> <<>>, children |-> <<>>]

\* entities are those that a response holds for its URNs, each the last with its own.
IndexedBy(entities, included) ==
    /\ \A i \in 1..Len(entities) :
          /\ entities[i].urn # NoUrn
          /\ \E p : LastWithUrn(included, entities[i].urn, p) /\ entities[i] = included[p]
    /\ \A i, k \in 1..Len(entities) : entities[i].urn = entities[k].urn => i = k
    /\ \A p \in 1..Len(included) : included[p].urn # NoUrn =>
          \E i \in 1..Len(entities) : entities[i].urn = included[p].urn

-----------------------------------------------------------------------------
(* The dates of an item, in every tier.                                    *)

\* A date that is given, with a year.
IsDay(date) == date \in Dates /\ date.given /\ Known(date.year)

\* From a day to another one or to the present.
IsPeriod(item) ==
    /\ IsDay(item.start)
    /\ \/ item.end = NoDate /\ Span(item.start, Today) > 0
       \/ IsDay(item.end) /\ Span(item.start, item.end) > 0

-----------------------------------------------------------------------------
(* The items of a section on a card.                                       *)

\* What is known of an item that LinkedIn may have.
IsItem(section, item) ==
    /\ item.by \in {<<>>, <<Word("by")>>}
    /\ section \in Unattributed => item.by = <<>>
    /\ item.start = NoDate \/ IsDay(item.start)
    /\ item.end = NoDate \/ IsDay(item.end)
    /\ section \in Dateless => item.start = NoDate
    /\ section \notin Ranged \cup {"certifications"} => item.end = NoDate
    /\ item.start = NoDate => item.end = NoDate
    /\ section \in Ranged /\ item.start # NoDate => IsPeriod(item)
    /\ section \in Paired /\ item.start # NoDate => item.by # <<>>

\* The slots of an item on a card.
ItemSlots(section, item) ==
    IF section = "languages" THEN Slots(<<item.name>>, <<>>, item.by, <<>>)
    ELSE Slots(<<item.name>>, AsSubtitle(section, item),
               IF section = "certifications" THEN AsLabels(item)
               ELSE IF section \in Ranged THEN AsCaption(item) ELSE <<>>, <<>>)

\* What each section reads off the slots of a card.
CardReading(section, slots) ==
    CASE section = "skills" -> Item(slots.title, <<>>, <<>>)
      [] section = "certifications" -> Item(slots.title, slots.subtitle, Certified(slots))
      [] section = "languages" ->
            Item(slots.title, IF slots.caption # <<>> THEN slots.caption ELSE slots.subtitle, <<>>)
      [] section = "projects" -> Item(slots.title, <<>>, CaptionRange(slots.caption))
      [] section \in Paired -> Item(slots.title, First(slots.subtitle), PairedDate(slots))
      [] section \in {"volunteering", "organizations"} ->
            Item(slots.title, slots.subtitle, CaptionRange(slots.caption))
      [] section = "courses" -> Item(slots.title, slots.subtitle, <<>>)

\* Skills are read without those whose name was there before.
OnceIfSkills(section, items) == IF section = "skills" THEN DistinctNames(items) ELSE items

-----------------------------------------------------------------------------
(* The items of a section among typed entities.                            *)

\* The types of the items' entities in the responses.
TypeOf(section) == <<"identity.profile", ".">> \o TypedAs(section).type

\* The responses of the typed tiers, and what is found in them.
DashItems(section, items) == <<SubjectEntity>> \o (Noise \o AsEntities(section, items))

\* The entities of the REST tier for a section with these items.
RestItems(section, items) ==
    Index([included |-> <<>>, elements |-> Noise \o AsEntities(section, items)])

\* An entity with a name and a source, and the texts that tell them.
HasFields(e, name, by, word, source) ==
    e.fields = [f \in {name, by} |-> IF f = name THEN <<word>> ELSE source]

\* What is read from an entity with these fields.
Tells(e, name, by, word, source) ==
    /\ Text(e, <<name>>) = <<word>> /\ <<word>> # <<>>
    /\ \A other : Text(e, <<name, other>>) = <<word>>
    /\ Text(e, <<by>>) = source
    /\ \A other : other \notin {name, by} => Text(e, <<by, other>>) = source
    /\ Text(e, <<>>) = <<>>

\* An entity says what is known of an item.
Says(e, section, item) ==
    /\ e.fields = [f \in {TypedAs(section).name, TypedAs(section).by} |->
                     IF f = TypedAs(section).name THEN <<item.name>> ELSE item.by]
    /\ e.date = item.start
    /\ e.range = [given |-> item.start.given, start |-> item.start, end |-> item.end]

\* The truth about a section's items.
TrueItems(section, items, form) == [i \in 1..Len(items) |-> TrueItem(section, items[i], form)]

\* When an entity says its item was, as a tier reads it.
RangeIn(tier, e) == IF tier = "dash" THEN DashRange(e) ELSE RestRange(e)
WhenIn(tier, section, e) ==
    IF section \in Ranged THEN RangeIn(tier, e)
    ELSE IF section = "certifications" THEN Certificate(RangeIn(tier, e))
    ELSE IF section \in Paired THEN IsoOf(e) ELSE Undated(e)

\* The fields a tier needs and reads, of the fields of a section's type.
ReadsFields(section, needs, name, by) ==
    LET n == TypedAs(section).name
        b == TypedAs(section).by
    IN /\ n # b
       /\ name = <<n>> \/ \E other : name = <<n, other>>
       /\ needs = <<>> \/ needs = <<n>> \/ \E other : needs = <<n, other>>
       /\ \/ by = <<b>>
          \/ \E other : other \notin {n, b} /\ by = <<b, other>>
          \/ by = <<>> /\ section \in Unattributed

\* The places of the entities with what a tier needs.
With(entities, needs) == {i \in DOMAIN entities : needs = <<>> \/ Text(entities[i], needs) # <<>>}

\* Entities that say what is known of these items.
ItemsSaid(section, items, entities) ==
    \A i \in 1..Len(items) : IsItem(section, items[i]) /\ Says(entities[i], section, items[i])

\* What is read off the fields of some entities.
FieldsOf(tier, section, entities, name, by) ==
    [i \in DOMAIN entities |->
       Item(Text(entities[i], name), Text(entities[i], by),
            WhenIn(tier, section, entities[i]))]

\* What some entities say of their items.
Saying(tier, section, items, entities) ==
    [i \in 1..Len(items) |->
       Item(<<items[i].name>>, items[i].by, WhenIn(tier, section, entities[i]))]

\* What the REST tier tells of some items: an item that lacks its dates is a current one.
ToldByRest(told, section, items) ==
    /\ told \in Seq({told[i] : i \in DOMAIN told}) /\ Len(told) = Len(items)
    /\ \A i \in 1..Len(items) :
          \/ told[i] = TrueItem(section, items[i], "iso")
          \/ Lacks(section, items[i]) /\ told[i].when.current

\* SectionsAgree, of whatever was read.
ReadAlike(section, items, card, dash, rest, written, typed) ==
    /\ card = written /\ dash = typed /\ Len(rest) = Len(typed)
    /\ \A i \in DOMAIN typed :
          \/ rest[i] = typed[i]
          \/ Lacks(section, items[i]) /\ rest[i].when.current

\* SectionsAgree as a predicate of what was read.
AgreesIn(r) ==
    r.kind = "items" =>
        ReadAlike(r.section, r.items, r.card, r.dash, r.rest,
                  Expected(r.section, r.items, "date"), Expected(r.section, r.items, "iso"))

-----------------------------------------------------------------------------
(* Paths in document order.                                                *)

\* s has each path of S, in document order.
ListsInOrder(s, S) ==
    /\ s \in Seq(S)
    /\ \A i, k \in 1..Len(s) : i < k => Before(s[i], s[k])
    /\ \A p \in S : \E i \in 1..Len(s) : s[i] = p

\* N lists of paths in document order, each before the next.
InTurn(N, lists, sets) ==
    /\ DOMAIN lists = 1..N /\ lists = [i \in 1..N |-> lists[i]]
    /\ \A i \in 1..N : sets[i] \subseteq Seq(Nat) /\ ListsInOrder(lists[i], sets[i])
    /\ \A i, k \in 1..N : i < k => \A p \in sets[i], q \in sets[k] : Before(p, q)

-----------------------------------------------------------------------------
(* Walks over a tree.                                                      *)

\* InOrder lists the paths of S in document order.
Ordered(S) == ListsInOrder(InOrder(S), S)

\* What a walk that ends at stops finds of goals from a node on, and below it.
Reached(stops, goals, p) ==
    {q \in goals : IsPrefix(p, q) /\ \A r \in stops : IsPrefix(p, r) => ~IsStrictPrefix(r, q)}

ReachedBelow(stops, goals, p) ==
    {q \in goals : /\ IsStrictPrefix(p, q)
                   /\ \A r \in stops : IsStrictPrefix(p, r) => ~IsStrictPrefix(r, q)}

\* A tree, the nodes at which a walk ends, and those of them that it returns.
Walked(tree, stops, goals) == IsTree(tree) /\ stops \subseteq DOMAIN tree /\ goals \subseteq stops

\* The values of some paths, in document order.
Mapped(val, S) == [i \in 1..Cardinality(S) |-> val[InOrder(S)[i]]]

\* found is what a walk finds: the value of a goal, nothing at another stop.
IsWalk(found, tree, stops, goals, val) ==
    found = [p \in DOMAIN tree |->
               IF p \in goals THEN <<val[p]>> ELSE IF p \in stops THEN <<>>
               ELSE Below(tree, p, found)]

\* Nested records: the paths that have one, and which of them each contains.
Nested(tree, D, below) ==
    /\ IsTree(tree) /\ D \subseteq DOMAIN tree
    /\ \A p \in D : /\ below[p] \subseteq D /\ Ordered(below[p])
                    /\ \A q \in below[p] : IsStrictPrefix(p, q)

\* What is told of an entity: its slots and texts, and what it contains.
Telling(v, tree, texts, below, p) ==
    [slots |-> tree[p].slots, urn |-> tree[p].urn, texts |-> texts[p],
     children |-> Mapped(v, below[p])]

IsTelling(v, tree, D, texts, below) == v = [p \in D |-> Telling(v, tree, texts, below, p)]

-----------------------------------------------------------------------------
(* The walks over a card.                                                  *)

\* Where the walks over a card end.
Stops(tree) == {p \in DOMAIN tree : tree[p].kind \in {"entity", "text"}}

\* The entities that show something and are not nested too deep, and for each of some
\* entities those of them that are under it.
Visible(tree) ==
    {p \in EntityPaths(tree) :
        Cardinality(EntitiesOver(tree, p)) <= MaxEntityDepth /\ Shows(tree, p)}

\* Where the search for the top entities ends, and what it comes to.
TopStops(tree) == {p \in DOMAIN tree : tree[p].kind \in {"entity", "text", "opaque"}}
Tops(tree) == Reached(TopStops(tree), EntityPaths(tree), <<>>)

\* Nothing visible is under an unknown key, unless that is in an entity.
Open(tree) ==
    \A q \in Visible(tree), p \in DOMAIN tree :
        tree[p].kind = "opaque" /\ IsStrictPrefix(p, q) => EntitiesOver(tree, p) # {}

\* The visible entities that are in no other.
Outermost(tree) == {p \in Visible(tree) : EntitiesOver(tree, p) = {}}

UnderEach(tree, D) == [p \in D |-> {q \in D : Under(tree, p, q)}]

TextsOf(tree) == [p \in DOMAIN tree |-> TextsUnder(tree, p)]

-----------------------------------------------------------------------------
(* The roles at one employer in a row.                                     *)

\* Roles at one employer, at least one.
IsRun(run, R) ==
    /\ run \in Seq(R) /\ run # <<>>
    /\ \A k \in 1..Len(run) : run[k].company = run[1].company

AreRuns(runs, R) == runs \in Seq(Seq(R)) /\ \A i \in 1..Len(runs) : IsRun(runs[i], R)

\* One role more.
WithRole(runs, role) ==
    IF runs # <<>> /\ Head(Last(runs)).company = role.company
    THEN Append(Front(runs), Append(Last(runs), role))
    ELSE Append(runs, <<role>>)

-----------------------------------------------------------------------------
(* Trees of trees.                                                         *)

\* The nodes of a tree over others: its own, and theirs behind the step to them.
Over(node, trees) ==
    /\ node[<<>>].sub = Len(trees)
    /\ \A i \in 1..Len(trees) : /\ <<i>> \in DOMAIN node /\ node[<<i>>] = trees[i][<<>>]
                                /\ \A q \in DOMAIN trees[i] : /\ <<i>> \o q \in DOMAIN node
                                                              /\ node[<<i>> \o q] = trees[i][q]
    /\ \A p \in DOMAIN node :
          p = <<>> \/ \E i \in 1..Len(trees) : \E q \in DOMAIN trees[i] : p = <<i>> \o q

\* A component over nothing: a text, or an entity with a title.
IsLeaf(leaf) ==
    /\ DOMAIN leaf = {<<>>} /\ leaf[<<>>].sub = 0 /\ leaf[<<>>].kind \in {"entity", "text"}
    /\ leaf[<<>>].kind = "text" => leaf[<<>>].text # NoText
    /\ leaf[<<>>].kind = "entity" =>
          /\ "title" \in DOMAIN leaf[<<>>].slots /\ leaf[<<>>].slots.title # <<>>
          /\ leaf[<<>>].urn = NoUrn

\* Children that are such leaves.
LeafKids(T, kids) ==
    \A i \in 1..Len(kids) :
       /\ kids[i] \in Seq(T) /\ Len(kids[i]) \in Nat
       /\ \A k \in 1..Len(kids[i]) : kids[i][k] \in T /\ IsLeaf(kids[i][k])

\* A card of entities over such leaves.
Families(tree, slots, kids) ==
    /\ IsTree(tree)
    /\ tree[<<>>].kind = "container" /\ tree[<<>>].sub = Len(slots)
    /\ \A i \in 1..Len(slots) :
          /\ <<i>> \in DOMAIN tree /\ tree[<<i>>].kind = "entity"
          /\ tree[<<i>>].slots = slots[i] /\ tree[<<i>>].urn = NoUrn
          /\ tree[<<i>>].sub = Len(kids[i])
          /\ \A k \in 1..Len(kids[i]) : /\ <<i, k>> \in DOMAIN tree
                                        /\ tree[<<i, k>>] = kids[i][k][<<>>]
    /\ \A p \in DOMAIN tree : \/ p = <<>>
                              \/ \E i \in 1..Len(slots) : p = <<i>>
                              \/ \E i \in 1..Len(slots) : \E k \in 1..Len(kids[i]) : p = <<i, k>>

\* What is told of a leaf: its text, if it is one, or its slots.
LeafTexts(leaf) == IF leaf[<<>>].kind = "text" THEN <<leaf[<<>>].text>> ELSE <<>>
LeafFlats(leaf) == IF leaf[<<>>].kind = "text" THEN <<>> ELSE <<Flat(leaf[<<>>].slots)>>

\* What is told of an entity over leaves.
Family(slots, kids) ==
    [slots |-> slots, urn |-> NoUrn,
     texts |-> Distinct(FlattenSeq([k \in 1..Len(kids) |-> LeafTexts(kids[k])])),
     children |-> FlattenSeq([k \in 1..Len(kids) |-> LeafFlats(kids[k])])]

\* What is told of several such entities.
FamilyList(slots, kids) == [i \in 1..Len(slots) |-> Family(slots[i], kids[i])]

\* What is found of the children of the i-th entity, one list for each.
OfChildren(found, i, n) == [k \in 1..n |-> found[<<i, k>>]]

\* A card of families in a response, read.
FamiliesRead(slots, kids) ==
    FlattenCards(<<CardOf([i \in 1..Len(slots) |-> EntityNode(slots[i], kids[i])])>>)
      = FamilyList(slots, kids)

-----------------------------------------------------------------------------
(* The employers of a career on a card.                                    *)

\* A role as every tier should tell of it.
TrueRole(role) ==
    [title |-> <<role.title>>, company |-> <<role.company>>, dates |-> TrueRange(role)]

\* The slots of a role and of an employer, and the components below an employer's.
RoleSlots(role, subtitle) == Slots(<<role.title>>, subtitle, AsCaption(role), <<>>)

EmployerSlots(run) ==
    IF Len(run) = 1 THEN RoleSlots(run[1], <<run[1].company, Word("full-time")>>)
    ELSE Slots(<<run[1].company>>, <<>>, <<Word("4 yrs")>>, <<>>)

EmployerKids(run) ==
    IF Len(run) = 1 THEN <<>>
    ELSE [k \in 1..Len(run) |-> EntityNode(RoleSlots(run[k], <<Word("full-time")>>), <<>>)]

\* The same, flattened.
Employer(run) ==
    [slots |-> EmployerSlots(run), urn |-> NoUrn, texts |-> <<>>,
     children |-> IF Len(run) = 1 THEN <<>>
                  ELSE [k \in 1..Len(run) |-> Flat(RoleSlots(run[k], <<Word("full-time")>>))]]

\* The positions of one of the entities of a card.
ParsedEntity(entity) ==
    IF IsGroupedEmployer(entity) THEN ExpandGrouped(entity)
    ELSE LET shown == Shown(<<entity>>) IN [k \in DOMAIN shown |-> Single(shown[k])]

\* They are the roles of a run, as they should be told.
TellsRun(parsed, run) ==
    /\ parsed = [k \in 1..Len(run) |-> parsed[k]]
    /\ \A k \in 1..Len(run) : Told(parsed[k]) = TrueRole(run[k])

-----------------------------------------------------------------------------
(* The entities of a career in the typed tiers, in order.                  *)

\* The types of positions and of schools.
HistoryTypes == {<<"Position">>, <<"Education">>}
NamedType(type) == <<"identity.profile", ".">> \o type

\* The types of what else is in a response.
OtherEntities == {SubjectEntity.type, Noise[1].type, <<"Profile", "Card">>}

\* The truth about a career.
TrueCareer(roles) == [i \in 1..Len(roles) |-> TrueRole(roles[i])]

\* n things in an order of their own.
IsOrder(order, n) ==
    order \in [1..n -> 1..n] /\ \A i, k \in 1..n : order[i] = order[k] => i = k

\* What is known of the roles of a career, newest first.
IsCareer(roles, R) ==
    /\ roles \in Seq(R) /\ \A role \in R : IsPeriod(role)
    /\ \A i, k \in 1..Len(roles) : i < k => Earlier(roles[k].start, roles[i].start)

\* The newest role that is still held, or the newest.
NewestHeld(roles) ==
    LET held == {i \in 1..Len(roles) : ~roles[i].end.given}
    IN IF held = {} THEN 1 ELSE CHOOSE i \in held : \A k \in held : i <= k

-----------------------------------------------------------------------------
(* A career in every tier, and in the row for spreadsheets.                *)

\* The truth about a career, and the newest role, as CareersAgree says them.
TruthOf(roles) ==
    [i \in DOMAIN roles |->
       [title |-> <<roles[i].title>>, company |-> <<roles[i].company>>,
        dates |-> TrueRange(roles[i])]]
NewestIn(roles) ==
    LET held == {i \in DOMAIN TruthOf(roles) : ~roles[i].end.given}
    IN IF held = {} THEN 1 ELSE CHOOSE i \in held : \A k \in held : i <= k

\* CareersAgree as a predicate of what was read.
CareerReadIn(r, truth, newest) ==
    /\ r.card = truth /\ r.rest = truth /\ r.dash = truth
    /\ r.html = truth /\ r.htmlCard = truth
    /\ ToFlat(r.dash).job = <<truth[newest]>>
    /\ ToFlat(r.card).count = Len(r.roles)
CareersAgreeIn(r) == r.kind = "career" => CareerReadIn(r, TruthOf(r.roles), NewestIn(r.roles))

-----------------------------------------------------------------------------
(* A school in every tier.                                                 *)

\* What a school of a run is: the degree and the field of study are words, and its dates
\* are given or not.
IsSchool(e, W) ==
    /\ e.degree \in Seq(W) /\ e.field \in AtMostOne(W) /\ e.grade \in AtMostOne(W)
    /\ e.field = <<>> => Len(e.degree) <= 1
    /\ e.field # <<>> => e.degree # <<>>
    /\ (e.start = NoDate /\ e.end = NoDate) \/ IsPeriod(e)

\* The truth about it.
SchoolDates(e) == IF e.start.given THEN TrueRange(e) ELSE NoRange
TrueSchool(e) ==
    [school |-> <<e.school>>, degree |-> e.degree, field |-> e.field, grade |-> e.grade,
     dates |-> SchoolDates(e)]

\* The grade of a school as a card has it, and the school's slots.
GradeOn(e) == [i \in DOMAIN e.grade |-> [label |-> "grade", text |-> e.grade[i]]]
SchoolSlots(e) == Slots(<<e.school>>, e.degree \o e.field, AsCaption(e), <<>>)
SchoolKids(e) ==
    [i \in DOMAIN e.grade |-> TextNode([label |-> "grade", text |-> e.grade[i]])]

\* What a card says of the school.
SchoolFlat(e) ==
    [slots |-> SchoolSlots(e), urn |-> NoUrn, texts |-> GradeOn(e), children |-> <<>>]
=============================================================================
