------------------------------ MODULE Identity ------------------------------
(***************************************************************************)
(* Who a profile is about: parse_basics (src/app/parsing/sections/         *)
(* basics.py), its counterpart in dash_profile.py, the top card of a       *)
(* server-rendered page (rsc_profile.py), and the tiers' choice of the     *)
(* profile's URN (src/app/linkedin/fetcher.py).  A response holds the      *)
(* profiles of other people too.  Images, counts, contact details and the  *)
(* industry are left out.                                                  *)
(***************************************************************************)
EXTENDS TypedProfile

Nobody == [first |-> <<>>, last |-> <<>>, full |-> <<>>, headline |-> <<>>,
           about |-> <<>>, place |-> <<>>, id |-> <<>>]
Orelse(words, other) == IF words # <<>> THEN words ELSE other

ProfileTypes == {<<"identity.profile", ".", "Profile">>,
                 <<"identity.shared", ".", "Mini", "Profile">>, <<".", "Profile">>}

FirstWith(candidates, Test(_)) ==
    LET found == Filter(candidates, Test)
    IN IF found # <<>> THEN <<Head(found)>> ELSE First(candidates)

\* _find_profile_entity: one with a headline or a summary before the first.
FindProfileEntity(included) ==
    FirstWith(ByType(included, ProfileTypes),
              LAMBDA e : Text(e, <<"headline", "occupation", "summary", "about">>) # <<>>)

FromEntity(e) ==
    [first |-> Text(e, <<"firstName">>), last |-> Text(e, <<"lastName">>), full |-> <<>>,
     headline |-> Text(e, <<"headline", "occupation">>), about |-> Text(e, <<"summary", "about">>),
     place |-> Text(e, <<"locationName", "geoLocationName">>),
     id |-> Text(e, <<"publicIdentifier">>)]

\* _merge_top_card: the card fills gaps only, but the full name is always one.
FillGaps(basics, card) ==
    [basics EXCEPT !.full = Orelse(@, card.slots.title),
                   !.headline = Orelse(@, card.slots.subtitle),
                   !.place = Orelse(@, card.slots.caption),
                   !.about = Orelse(@, card.texts)]

Own(entity) == IF entity = <<>> THEN Nobody ELSE FromEntity(Head(entity))

Named(basics, publicId) ==
    [basics EXCEPT !.full = Orelse(@, basics.first \o basics.last), !.id = Orelse(@, publicId)]

ParseBasics(included, publicId, topCard) ==
    LET filled[n \in 0..Len(topCard)] ==
          IF n = 0 THEN Own(FindProfileEntity(included)) ELSE FillGaps(filled[n - 1], topCard[n])
    IN Named(filled[Len(topCard)], publicId)

\* dash_profile.py: _subject and _basics, with the place of a Geo entity.
Subject(included) ==
    FirstWith(ByType(included, {<<"identity.profile", ".", "Profile">>}),
              LAMBDA e : Text(e, <<"firstName", "headline", "publicIdentifier">>) # <<>>)

GeoName(included, e) ==
    LET named == Filter(ByType(included, {<<"Geo">>}), LAMBDA g : Field(g, "name") # <<>>)
        own == Filter(named, LAMBDA g : g.urn = e.geo)
        any == Orelse(First(own), First(named))
    IN IF any = <<>> THEN <<>> ELSE Field(any[1], "name")

DashBasics(included, publicId) ==
    LET subject == Subject(included)
        e == Head(subject)
    IN IF subject = <<>> THEN [Nobody EXCEPT !.id = publicId]
       ELSE [FromEntity(e) EXCEPT
               !.full = Text(e, <<"firstName">>) \o Text(e, <<"lastName">>),
               !.headline = Text(e, <<"headline">>), !.about = Text(e, <<"summary">>),
               !.place = Orelse(Text(e, <<"locationName">>), GeoName(included, e)),
               !.id = Orelse(@, publicId)]

\* parse_dash_profile: without a subject no section is read.
DashProfile(included, Section(_)) ==
    IF Subject(included) = <<>> THEN <<>> ELSE Section(included)

-----------------------------------------------------------------------------
(* The tiers of fetcher.py: whose URN goes with the profile.               *)

UrnAmong(included, kinds) ==
    LET found == Filter(Entities(included), LAMBDA e : e.urn.kind \in kinds)
    IN IF found = <<>> THEN NoUrn ELSE NormalizeProfileUrn(Head(found).urn)

\* "fsd_profile:" is looked for by the dash tier, "fsd_profile" by two others and
\* "profile" by REST: positions, educations and cards have URNs that begin so.
FsdKinds == {"fsd_profile", "fsd_profilePosition", "fsd_profileEducation", "fsd_profileCard"}
DashUrn(included) == UrnAmong(included, {"fsd_profile"})
ResolveUrn(included) == UrnAmong(included, FsdKinds)
RestUrn(included) == UrnAmong(included, FsdKinds \cup {"fs_profile", "fs_miniProfile"})

GraphqlBasicsCardFirst(vanity, topCard, publicId) ==
    ParseBasics(Merge(<<topCard, vanity>>), publicId, FlattenCards(topCard))

\* _fetch_graphql: the vanity query's payload, then the card of that URN.
GraphqlBasics(vanity, topCard, publicId) ==
    ParseBasics(Merge(<<vanity, topCard>>), publicId, FlattenCards(topCard))

-----------------------------------------------------------------------------
(* rsc_profile.py: the top card of a rendered page, found by the name.  A  *)
(* line is a name, a place (it has a comma), the words "Contact info", or  *)
(* any other text.                                                         *)

LineText(lines) == IF lines = <<>> THEN <<>> ELSE Head(lines).text

SubSeqUpTo(lines, first, last) ==
    SubSeq(lines, first, IF Len(lines) < last THEN Len(lines) ELSE last)

NameAtFirst(lines, name) == SelectInSeq(lines, LAMBDA line : line.text = name)

\* The last line with the bare name: those before are navigation and title.
NameAt(lines, name) == SelectLastInSeq(lines, LAMBDA line : line.text = name)

\* The lines under the name, up to the contact line, without the name.
Block(tail, name) ==
    Filter(SubSeq(tail, 1, SelectInSeq(tail \o <<[kind |-> "contact"]>>,
                                          LAMBDA line : line.kind = "contact") - 1),
              LAMBDA line : line.text # name)

\* The headline comes first, then the company, then the place.
Company(rest, at) ==
    IF at = 0 THEN LineText(First(rest))
    ELSE IF at = 1 THEN <<>> ELSE rest[at - 1].text

TopCardAs(headline, rest, at) ==
    [headline |-> headline, company |-> Company(rest, at),
     place |-> IF at = 0 THEN <<>> ELSE rest[at].text]

TopCardIn(block) ==
    LET rest == IF block = <<>> THEN <<>> ELSE Tail(block)
    IN TopCardAs(LineText(First(block)), rest, SelectInSeq(rest, LAMBDA line : line.kind = "place"))

HeadlineAndLocation(lines, name) ==
    LET start == NameAt(lines, name)
    IN IF start = 0 THEN [headline |-> <<>>, company |-> <<>>, place |-> <<>>]
       ELSE TopCardIn(Block(SubSeqUpTo(lines, start + 1, start + 8), name))

FullName(page) == Orelse(page.first \o page.last, page.title)

RenderedBasics(page, publicId) ==
    LET found == HeadlineAndLocation(page.lines, FullName(page))
    IN [Nobody EXCEPT !.first = page.first, !.last = page.last, !.full = FullName(page),
                      !.headline = found.headline, !.place = found.place, !.id = publicId]

\* _fetch_html: the payloads inlined in an older page, without and with its cards.
WithName(plain, other) == IF plain.full # <<>> THEN plain ELSE other

InlinedBasics(included, publicId) ==
    IF ~HasProfileContent(included) THEN Nobody
    ELSE WithName(ParseBasics(included, publicId, <<>>),
                  ParseBasics(included, publicId, FlattenCards(included)))

InlinedUrn(included) == IF HasProfileContent(included) THEN ResolveUrn(included) ELSE NoUrn

\* The rendered page counts when nothing inlined gave a name.
Choice(inlined, urn, rendered, page) ==
    IF inlined.full = <<>> /\ (rendered.full # <<>> \/ rendered.headline # <<>>)
    THEN [basics |-> rendered, urn |-> IF urn = NoUrn THEN page.urn ELSE urn]
    ELSE [basics |-> inlined, urn |-> urn]

Outcome(page, basics) ==
    IF page.authwall THEN "authentication"
    ELSE IF basics.full = <<>> /\ basics.headline = <<>> THEN "notFound" ELSE "read"

HtmlTier(page, publicId) ==
    LET included == Merge(page.payloads)
        choice == Choice(InlinedBasics(included, publicId), InlinedUrn(included),
                         RenderedBasics(page, publicId), page)
    IN [outcome |-> Outcome(page, choice.basics), basics |-> choice.basics, urn |-> choice.urn]

\* Of experience, education and skills: the cards of a page fill in for entities.
HtmlSection(included, RestReader(_), CardReader(_)) ==
    Orelse(RestReader(included), CardReader(FlattenCards(included)))
=============================================================================
