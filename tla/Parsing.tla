------------------------------ MODULE Parsing ------------------------------
(***************************************************************************)
(* The parsers at work: each step reads one thing LinkedIn or a caller may *)
(* send and keeps, beside what was read, what was there to be read.  What  *)
(* a profile looks like in a response of each tier is LinkedIn's: the      *)
(* operators named As... build it after the fixtures in src/tests.         *)
(***************************************************************************)
EXTENDS Identity, ProfileUrl, FlatRow

CONSTANTS
    Roots,       \* component trees
    Days,        \* dates, the earlier first
    Companies,   \* employers, as words
    MaxRoles,    \* bound: the roles of a career
    MaxItems,    \* bound: the length of every other list
    Responses,   \* lists of entities, each URN once
    People,      \* entities that may accompany the subject's
    Links        \* references to profiles

Earlier(a, b) ==
    \/ a.year < b.year
    \/ a.year = b.year /\ Or(a.month, 0) < Or(b.month, 0)

\* No day is in the future, and each is before the next.
ASSUME DaysAssumption ==
    /\ Today \in Dates /\ Known(Today.year)
    /\ Days \in Seq(Dates) /\ Len(Days) >= 2
    /\ \A i \in DOMAIN Days :
          Days[i].given /\ Known(Days[i].year) /\ Span(Days[i], Today) > 0
    /\ \A i, k \in DOMAIN Days : i < k => Earlier(Days[i], Days[k])

ASSUME RootsAssumption == \A root \in Roots : IsTree(root)

\* An entity has a type, whose name has parts.
ASSUME ResponsesAssumption ==
    \A response \in Responses :
        /\ response \in Seq(ToSet(response))
        /\ \A i \in DOMAIN response : response[i].type \in Seq(STRING)

\* Who accompanies the subject is no card.
ASSUME PeopleAssumption == \A person \in People : "topComponents" \notin DOMAIN person

\* A name, and behind it stray punctuation and what follows a separator.
ASSUME LinksAssumption ==
    \A link \in Links :
        /\ link.slug \in Seq(ToSet(link.slug)) /\ link.slug # <<>>
        /\ ~link.slug[1].encoded /\ link.slug[1].text \notin Separators \cup Strays
        /\ \A i \in 2..Len(link.slug) :
             \/ link.slug[i].text \in Strays
             \/ \E k \in 2..i : link.slug[k].text \in Separators

VARIABLE read

Idle == [kind |-> "nothing"]
Word(text) == [kind |-> "text", text |-> text]
Slots(title, subtitle, caption, metadata) ==
    [title |-> title, subtitle |-> subtitle, caption |-> caption, metadata |-> metadata]

\* Component trees, a node over others, and the entity that holds one in a response.
Node(kind, slots, text, trees) ==
    [p \in {<<>>} \cup UNION {{<<i>> \o q : q \in DOMAIN trees[i]} : i \in DOMAIN trees} |->
        IF p # <<>> THEN trees[Head(p)][Tail(p)]
        ELSE [kind |-> kind, slots |-> slots, urn |-> NoUrn, text |-> text, sub |-> Len(trees)]]
EntityNode(slots, sub) == Node("entity", slots, NoText, sub)
TextNode(text) == Node("text", Slots(<<>>, <<>>, <<>>, <<>>), text, <<>>)
Card(tree) ==
    [urn |-> Urn("fsd_profileCard", "ada"), type |-> <<"Profile", "Card">>, fields |-> <<>>,
     topComponents |-> tree]
CardOf(nodes) == Card(Node("container", Slots(<<>>, <<>>, <<>>, <<>>), NoText, nodes))

Person(urn, type, name, headline) ==
    [urn |-> urn, type |-> type, geo |-> NoUrn,
     fields |-> [f \in {"firstName", "headline", "publicIdentifier"} |->
                   CASE f = "firstName" -> name [] f = "headline" -> headline
                     [] f = "publicIdentifier" -> name]]

SubjectName == <<Word("ada")>>
SubjectHeadline == <<Word("analyst")>>
SubjectEntity ==
    Person(Urn("fsd_profile", "ada"), <<"identity.profile", ".", "Profile">>,
           SubjectName, SubjectHeadline)

-----------------------------------------------------------------------------
(* How LinkedIn writes the items of a section.                             *)

Ranged == {"projects", "volunteering", "organizations"}
Paired == {"publications", "honors", "patents", "test_scores"}
Dateless == {"skills", "languages", "courses"}
Unattributed == {"skills", "projects"}
AllSections == Ranged \cup Paired \cup Dateless \cup {"certifications"}

\* A range as a caption; no end means "Present".
AsCaption(item) ==
    IF ~item.start.given THEN <<>>
    ELSE <<Day(item.start), IF item.end.given THEN Day(item.end) ELSE [kind |-> "present"]>>

AsLabels(item) ==
    (IF item.start.given THEN <<[kind |-> "issued", date |-> item.start]>> ELSE <<>>)
    \o (IF item.end.given THEN <<[kind |-> "expires", date |-> item.end]>> ELSE <<>>)

AsSubtitle(section, item) ==
    item.by \o IF section \in Paired /\ item.start.given THEN <<Day(item.start)>> ELSE <<>>

AsNode(section, item) ==
    EntityNode(IF section = "languages" THEN Slots(<<item.name>>, <<>>, item.by, <<>>)
               ELSE Slots(<<item.name>>, AsSubtitle(section, item),
                          IF section = "certifications" THEN AsLabels(item)
                          ELSE IF section \in Ranged THEN AsCaption(item) ELSE <<>>, <<>>),
               <<>>)

AsCard(section, items) == CardOf([i \in DOMAIN items |-> AsNode(section, items[i])])

\* The type of an item's entity, and the fields of its name and of its source.
TypedAs(section) ==
    CASE section = "skills" -> [type |-> <<"Skill">>, name |-> "name", by |-> "-"]
      [] section = "certifications" ->
            [type |-> <<"Certification">>, name |-> "name", by |-> "authority"]
      [] section = "languages" -> [type |-> <<"Language">>, name |-> "name", by |-> "proficiency"]
      [] section = "projects" -> [type |-> <<"Project">>, name |-> "title", by |-> "-"]
      [] section = "publications" ->
            [type |-> <<"Publication">>, name |-> "name", by |-> "publisher"]
      [] section = "honors" -> [type |-> <<"Honor">>, name |-> "title", by |-> "issuer"]
      [] section = "volunteering" ->
            [type |-> <<"Volunteer", "Experience">>, name |-> "role", by |-> "companyName"]
      [] section = "courses" -> [type |-> <<"Course">>, name |-> "name", by |-> "number"]
      [] section = "patents" -> [type |-> <<"Patent">>, name |-> "title", by |-> "number"]
      [] section = "organizations" ->
            [type |-> <<"Organization">>, name |-> "name", by |-> "position"]
      [] section = "test_scores" -> [type |-> <<"Test", "Score">>, name |-> "name", by |-> "score"]

Typed(type, id, fields, start, end) ==
    [urn |-> Urn("fsd_profilePosition", id), type |-> <<"identity.profile", ".">> \o type,
     fields |-> fields, date |-> start,
     range |-> [given |-> start.given, start |-> start, end |-> end]]

AsEntities(section, items) ==
    LET as == TypedAs(section)
    IN [i \in DOMAIN items |->
          Typed(as.type, i,
                [f \in {as.name, as.by} |-> IF f = as.name THEN <<items[i].name>> ELSE items[i].by],
                items[i].start, items[i].end)]

\* What LinkedIn adds to the positions: their groups, which are no positions.
Noise ==
    <<Typed(<<"Position", "Group">>, 0, [f \in {"name"} |-> <<Word("group")>>], NoDate, NoDate)>>

ItemsOf(section) ==
    [name : {Word("go"), Word("Go"), Word("art")},
     by : IF section \in Unattributed THEN {<<>>} ELSE {<<>>, <<Word("by")>>},
     start : {NoDate} \cup IF section \in Dateless THEN {} ELSE {Days[1]},
     end : {NoDate} \cup IF section \in Ranged \cup {"certifications"} THEN {Days[2]} ELSE {}]

\* A date stands behind a source, and an end behind a start.
Wellformed(section, item) ==
    /\ item.end.given => item.start.given
    /\ section \in Paired /\ item.start.given => item.by # <<>>

\* An older REST response inlines its entities as elements.
ReadItems(section, items) ==
    LET entities == Noise \o AsEntities(section, items)
        inlined == Index([included |-> <<>>, elements |-> entities])
    IN read' = [kind |-> "items", section |-> section, items |-> items,
                dash |-> DashProfile(<<SubjectEntity>> \o entities,
                                     LAMBDA included : DashSection(section, included)),
                rest |-> RestSection(section, inlined),
                card |-> ParseSection(section, FlattenCards(<<AsCard(section, items)>>))]

-----------------------------------------------------------------------------
(* How LinkedIn writes a career: newest role first, and on cards the roles *)
(* at one employer in a row as the children of one entity.                 *)

Role(title, company, start, end) ==
    [title |-> title, company |-> company, start |-> start, end |-> end]

AsRole(role, subtitle) == EntityNode(Slots(<<role.title>>, subtitle, AsCaption(role), <<>>), <<>>)

AsEmployer(roles) ==
    IF Len(roles) = 1 THEN AsRole(roles[1], <<roles[1].company, Word("full-time")>>)
    ELSE EntityNode(Slots(<<roles[1].company>>, <<>>, <<Word("4 yrs")>>, <<>>),
                    [i \in DOMAIN roles |-> AsRole(roles[i], <<Word("full-time")>>)])

Runs(roles) ==
    LET runs[n \in 0..Len(roles)] ==
          IF n = 0 THEN <<>>
          ELSE IF /\ runs[n - 1] # <<>>
                  /\ Head(Last(runs[n - 1])).company = roles[n].company
          THEN Append(Front(runs[n - 1]), Append(Last(runs[n - 1]), roles[n]))
          ELSE Append(runs[n - 1], <<roles[n]>>)
    IN runs[Len(roles)]

AsCareerCard(roles) ==
    LET runs == Runs(roles) IN CardOf([i \in DOMAIN runs |-> AsEmployer(runs[i])])

AsPositions(roles) ==
    [i \in DOMAIN roles |->
       Typed(<<"Position">>, i,
             [f \in {"title", "companyName"} |->
                IF f = "title" THEN <<roles[i].title>> ELSE <<roles[i].company>>],
             roles[i].start, roles[i].end)]

Told(position) == [f \in {"title", "company", "dates"} |-> position[f]]
ToldAll(positions) == [i \in DOMAIN positions |-> Told(positions[i])]

\* Positions come in any order in a dash response; an older page inlines them,
\* or the card alone.
ReadCareer(roles, order) ==
    LET positions == AsPositions(roles)
        shuffled == Noise \o [i \in DOMAIN roles |-> positions[order[i]]]
        card == <<AsCareerCard(roles)>>
    IN read' = [kind |-> "career", roles |-> roles,
                dash |-> DashProfile(<<SubjectEntity>> \o shuffled, DashExperience),
                rest |-> RestExperience(Noise \o positions),
                card |-> ToldAll(ParseExperience(FlattenCards(card))),
                html |-> ToldAll(HtmlSection(card \o Noise \o positions,
                                             RestExperience, ParseExperience)),
                htmlCard |-> ToldAll(HtmlSection(card, RestExperience, ParseExperience))]

AsSchoolCard(e) ==
    CardOf(<<EntityNode(Slots(<<e.school>>, e.degree \o e.field, AsCaption(e), <<>>),
                        [i \in DOMAIN e.grade |->
                           TextNode([label |-> "grade", text |-> e.grade[i]])])>>)

AsSchool(e, id) ==
    Typed(<<"Education">>, id,
          [f \in {"schoolName", "degreeName", "fieldOfStudy", "grade"} |->
             CASE f = "schoolName" -> <<e.school>> [] f = "degreeName" -> e.degree
               [] f = "fieldOfStudy" -> e.field [] f = "grade" -> e.grade],
          e.start, e.end)

ToldSchools(schools) ==
    [i \in DOMAIN schools |->
       [f \in {"school", "degree", "field", "grade", "dates"} |-> schools[i][f]]]

\* A degree may have commas of its own if a field of study follows it.
ReadEducation(e) ==
    /\ e.field = <<>> => Len(e.degree) <= 1
    /\ e.field # <<>> => e.degree # <<>>
    /\ e.end.given => e.start.given
    /\ read' = [kind |-> "education", education |-> e,
                dash |-> DashProfile(<<SubjectEntity, AsSchool(e, 1)>>, DashEducation),
                rest |-> RestEducation(<<AsSchool(e, 1)>>),
                card |-> ToldSchools(ParseEducation(FlattenCards(<<AsSchoolCard(e)>>)))]

-----------------------------------------------------------------------------
(* Cards, responses, people, pages and links.                              *)

\* The components of a card, in a response and as a bare subtree.
ReadCard(root) ==
    LET response == Node("opaque", Slots(<<>>, <<>>, <<>>, <<>>), NoText, <<>>)
    IN read' = [kind |-> "card", root |-> root,
                flats |-> FlattenCardPayload([included |-> <<Card(root)>>, tree |-> response]),
                bare |-> FlattenCardPayload([included |-> <<>>, tree |-> root])]

ReadResponses(first, second) ==
    read' = [kind |-> "responses", first |-> first, second |-> second,
                merged |-> Merge(<<first, second>>)]

SubjectCard == CardOf(<<EntityNode(Slots(SubjectName, SubjectHeadline, <<>>, <<>>), <<>>)>>)

\* The subject's entity comes before those of others; the top card may have
\* failed to load; on an older page all is inlined in two payloads.
ReadPerson(others, card) ==
    LET vanity == <<SubjectEntity>> \o others
        page == [authwall |-> FALSE, payloads |-> <<vanity, card>>, lines |-> <<>>,
                 first |-> <<>>, last |-> <<>>, title |-> <<>>, urn |-> NoUrn]
    IN read' = [kind |-> "person", others |-> others, topCard |-> card,
                graphql |-> GraphqlBasics(vanity, card, SubjectName),
                dash |-> DashBasics(vanity, SubjectName),
                rest |-> ParseBasics(vanity, SubjectName, <<>>),
                html |-> HtmlTier(page, SubjectName),
                urns |-> {ResolveUrn(vanity), DashUrn(vanity), RestUrn(vanity)}]

\* A page of today: its navigation may name the subject, and what follows
\* "Contact info" is about something else.
PageLines(before, company, place, after) ==
    LET Line(kind, text) == [kind |-> kind, text |-> text]
    IN before \o <<Line("text", SubjectName), Line("text", SubjectHeadline)>>
       \o [i \in DOMAIN company |-> Line("text", company[i])]
       \o [i \in DOMAIN place |-> Line("place", place[i])]
       \o <<Line("contact", <<Word("contact")>>)>> \o after

ReadPage(before, company, place, after) ==
    LET lines == PageLines(before, company, place, after)
        page == [authwall |-> FALSE, payloads |-> <<>>, lines |-> lines,
                 first |-> SubjectName, last |-> <<>>, title |-> <<>>,
                 urn |-> Urn("fsd_profile", "ada")]
    IN read' = [kind |-> "page", company |-> company, place |-> place,
                html |-> HtmlTier(page, SubjectName),
                found |-> HeadlineAndLocation(lines, SubjectName)]

ReadLink(link) ==
    read' = [kind |-> "link", link |-> link, slug |-> ExtractPublicIdentifier(link)]

-----------------------------------------------------------------------------

Forget == read # Idle /\ read' = Idle

Lists(S) == UNION {[1..n -> S] : n \in 0..MaxItems}
AtMostOne(S) == {<<>>} \cup {<<x>> : x \in S}

\* A role ends no earlier than it begins, and begins before the one ahead of it.
Careers ==
    {roles \in UNION {[1..n -> [title : {Word("title")}, company : Companies, start : ToSet(Days),
                               end : ToSet(Days) \cup {NoDate}]] : n \in 1..MaxRoles} :
        /\ \A i \in DOMAIN roles : roles[i].end.given => Span(roles[i].start, roles[i].end) > 0
        /\ \A i, k \in DOMAIN roles : i < k => Earlier(roles[k].start, roles[i].start)}

Orders(n) == {order \in [1..n -> 1..n] : IsInjective(order)}

Educations ==
    [school : {Word("school")}, degree : Lists({Word("bsc"), Word("hons")}),
     field : AtMostOne({Word("physics")}), grade : AtMostOne({"a"}),
     start : {NoDate, Days[1]}, end : {NoDate, Days[2]}]

Receive ==
    \/ \E section \in AllSections :
         \E items \in Lists({item \in ItemsOf(section) : Wellformed(section, item)}) :
            ReadItems(section, items)
    \/ \E roles \in Careers : \E order \in Orders(Len(roles)) : ReadCareer(roles, order)
    \/ \E e \in Educations : ReadEducation(e)
    \/ \E root \in Roots : ReadCard(root)
    \/ \E first, second \in Responses : ReadResponses(first, second)
    \/ \E others, withCard \in Lists(People) :
         \E card \in {<<>>, withCard \o <<SubjectCard>>} : ReadPerson(others, card)
    \/ \E before, after \in Lists({[kind |-> k, text |-> <<Word(k)>>] : k \in {"text", "place"}}
                                     \cup {[kind |-> "text", text |-> SubjectName]}) :
         \E company, place \in AtMostOne({<<Word("here")>>}) :
            /\ \A i \in DOMAIN after : after[i].text # SubjectName
            /\ ReadPage(before, company, place, after)
    \/ \E link \in Links : ReadLink(link)

Next ==
    \/ read = Idle /\ Receive
    \/ Forget

Spec == read = Idle /\ [][Next]_read

-----------------------------------------------------------------------------

\* The range of a dated item or role, its months counted one by one.
TrueRange(item) ==
    LET range == MakeRange(item.start, item.end, ~item.end.given)
    IN [range EXCEPT !.months = Cardinality(CalendarMonths(item.start, Ending(range)))]

\* A date in one of its forms: a "date" as a card writes it, or "iso".
Given(date, form) == IF date.given THEN <<[kind |-> form, date |-> date]>> ELSE <<>>

\* An item whose single dates have that form.
TrueItem(section, item, form) ==
    Item(<<item.name>>, item.by,
         IF section \in Ranged THEN IF item.start.given THEN TrueRange(item) ELSE NoRange
         ELSE IF section = "certifications"
              THEN [issued |-> Given(item.start, form), expires |-> Given(item.end, form)]
         ELSE IF section \in Paired THEN Given(item.start, form) ELSE <<>>)

Lacks(section, item) == section \in Ranged /\ ~item.start.given

\* What a section should come to: its items, or each skill under its first spelling.
Expected(section, items, form) ==
    LET truth == [i \in DOMAIN items |-> TrueItem(section, items[i], form)]
    IN IF section # "skills" THEN truth
       ELSE Keep(truth, {i \in DOMAIN truth :
                    \A k \in 1..(i - 1) : Lower(truth[k].name) # Lower(truth[i].name)})

\* Whatever the tier, a section has the same items, complete and in order, with
\* the same source, ranges and days; of a skill's spellings the first is kept.
\* A date of issue, of a publication and the like is told in the words of the
\* card by the cards and in ISO form by the others.  REST alone takes an item
\* without dates for a current one.
SectionsAgree ==
    read.kind = "items" =>
        LET typed == Expected(read.section, read.items, "iso")
        IN /\ read.card = Expected(read.section, read.items, "date")
           /\ read.dash = typed
           /\ Len(read.rest) = Len(typed)
           /\ \A i \in DOMAIN typed :
                \/ read.rest[i] = typed[i]
                \/ Lacks(read.section, read.items[i]) /\ read.rest[i].when.current

\* Whatever the tier, a career has every role, newest first, at its employer
\* and with its months, and the row for spreadsheets promotes the newest role
\* that is still held; no employer is taken for a role.
CareersAgree ==
    read.kind = "career" =>
        LET truth == [i \in DOMAIN read.roles |->
                        [title |-> <<read.roles[i].title>>, company |-> <<read.roles[i].company>>,
                         dates |-> TrueRange(read.roles[i])]]
            held == {i \in DOMAIN truth : ~read.roles[i].end.given}
            newest == IF held = {} THEN 1 ELSE CHOOSE i \in held : \A k \in held : i <= k
        IN /\ read.card = truth /\ read.rest = truth /\ read.dash = truth
           /\ read.html = truth /\ read.htmlCard = truth
           /\ ToFlat(read.dash).job = <<truth[newest]>>
           /\ ToFlat(read.card).count = Len(read.roles)

\* Degree, field of study and grade are told apart on a card as in the typed
\* tiers; a school without dates is an exception like in SectionsAgree.
EducationsAgree ==
    read.kind = "education" =>
        LET e == read.education
        IN /\ read.card = read.dash
           /\ e.start.given => read.rest = read.dash
           /\ read.card[1].degree = e.degree /\ read.card[1].field = e.field

\* Every entity of a card that shows something, and every text in one, is found once,
\* within what it stands in on the page and in the page's order, whether it comes as a
\* card or bare and whatever else is between.  What a legible card does not have, the
\* code drops: what stands in an entity with nothing to see, too deep, or outside of
\* entities under a key that is unknown.
NothingLost ==
    read.kind = "card" /\ Legible(read.root) =>
        /\ read.flats = Rendered(read.root)
        /\ read.bare = Rendered(read.root)

\* What is left of all entities after merging is each URN's first, found alike by
\* URN and by type.
OncePerUrn(all, merged) ==
    LET found == ByType(merged, {<<>>})
    IN /\ Len(found) = Len(merged) /\ ToSet(found) = ToSet(merged)
       /\ \A i \in DOMAIN found : found[i].urn # NoUrn =>
            /\ Get(merged, found[i].urn) = found[i]
            /\ \A k \in DOMAIN found : found[k].urn = found[i].urn => k = i
            /\ found[i] = all[SelectInSeq(all, LAMBDA e : e.urn = found[i].urn)]
       /\ \A i \in DOMAIN all : all[i].urn # NoUrn =>
            \E k \in DOMAIN found : found[k].urn = all[i].urn
       /\ Cardinality({i \in DOMAIN all : all[i].urn = NoUrn})
            = Cardinality({i \in DOMAIN found : found[i].urn = NoUrn})

\* In a merged response each URN names one entity, the first that was received,
\* and that is also the one found by its type; nothing else is lost.
OneEntityPerUrn ==
    read.kind = "responses" => OncePerUrn(read.first \o read.second, read.merged)

\* What a person did at work and at school comes out of every tier the same.
HistoryAgrees == CareersAgree /\ EducationsAgree

\* Everything that identifies a person comes from the subject, in every tier,
\* whoever else a response mentions after them.
OnePerson ==
    read.kind = "person" =>
        /\ \A basics \in {read.graphql, read.dash, read.rest, read.html.basics} :
             /\ basics.full = SubjectName /\ basics.headline = SubjectHeadline
             /\ basics.id = SubjectName
        /\ read.urns \cup {read.html.urn} = {Urn("fsd_profile", "ada")}

\* The top card of a rendered page is the block under the subject's name, not
\* the navigation above it nor what comes after the contact line.
TopCardFound ==
    read.kind = "page" =>
        /\ read.found = [headline |-> SubjectHeadline, company |-> FlattenSeq(read.company),
                         place |-> FlattenSeq(read.place)]
        /\ read.html.outcome = "read" /\ read.html.basics.headline = SubjectHeadline

\* All links to a profile lead to one cache key, and nothing else does.
OneKeyPerProfile ==
    read.kind = "link" =>
        LET link == read.link
            name == LowerPiece(link.slug[1].text)
            isProfile == /\ name \notin Reserved
                         /\ IF link.form = "bare" THEN ~Plain(link.slug, Separators \cup Strays)
                            ELSE link.host.domain = "linkedin.com" /\ link.section = "in"
        IN CacheKey(read.slug) = IF isProfile THEN <<name>> ELSE Refused
=============================================================================
