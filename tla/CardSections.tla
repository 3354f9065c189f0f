---------------------------- MODULE CardSections ----------------------------
(***************************************************************************)
(* The mappers of src/app/parsing/sections: what the slots of a flattened  *)
(* card mean in each section of a profile.  A slot is the sequence of its  *)
(* words: the facets between middle dots, the parts of a degree between    *)
(* commas, the dates of a caption.  A word is a text, a date as it is      *)
(* written there ("Jan 2023"), "present", or such a date with the label    *)
(* "issued" or "expires"; a text of an entity may be labelled too.  Links, *)
(* images and endorsement counts are left out.                             *)
(***************************************************************************)
EXTENDS Components, Dates

CONSTANTS
    Lower(_),         \* str.lower, on the name of a skill
    EmploymentTypes,  \* _EMPLOYMENT_TYPES
    LocationTypes     \* _LOCATION_TYPES

\* A date in the words of a card: a text of which can be read what day it is.
Day(date) == [kind |-> "date", date |-> date]

First(words) == IF words = <<>> THEN <<>> ELSE <<Head(words)>>
Second(words) == IF Len(words) < 2 THEN <<>> ELSE <<words[2]>>
FirstIn(words, Test(_)) == First(Filter(words, Test))

Titled(entities) == Filter(entities, LAMBDA e : e.slots.title # <<>>)
Shown(entities) ==
    Filter(entities, LAMBDA e : e.slots.title # <<>> \/ e.slots.subtitle # <<>>)

\* What the sections with a straight rename come to.
Item(name, by, when) == [name |-> name, by |-> by, when |-> when]

-----------------------------------------------------------------------------
(* experience.py.                                                          *)

IsGroupedByTenure(entity) == CaptionRange(entity.slots.caption).given /\ entity.children # <<>>

\* A group of roles is told by a child with a title and a date.
IsGroupedEmployer(entity) ==
    \E i \in DOMAIN entity.children :
        /\ entity.children[i].slots.title # <<>>
        /\ CaptionRange(entity.children[i].slots.caption).given

Position(title, company, type, metadata, caption, description) ==
    [title |-> title, company |-> company, type |-> type,
     location |-> FirstIn(metadata, LAMBDA w : w \notin LocationTypes),
     locationType |-> FirstIn(metadata, LAMBDA w : w \in LocationTypes),
     dates |-> CaptionRange(caption), description |-> description]

IsEmployment(word) == word \in EmploymentTypes

\* A child's subtitle says how it was employed; the company is its parent's.
ExpandGrouped(parent) ==
    LET roles == Titled(parent.children)
        Type(e) == IF \E i \in DOMAIN e.slots.subtitle : IsEmployment(e.slots.subtitle[i])
                   THEN FirstIn(e.slots.subtitle, IsEmployment) ELSE e.slots.subtitle
    IN [i \in DOMAIN roles |->
          Position(roles[i].slots.title, parent.slots.title, Type(roles[i]),
                   roles[i].slots.metadata, roles[i].slots.caption, roles[i].texts)]

\* _single, with _split_company: the second facet when none is known.
Single(e) ==
    LET facets == IF e.slots.subtitle = <<>> THEN <<>> ELSE Tail(e.slots.subtitle)
        known == FirstIn(facets, IsEmployment)
    IN Position(e.slots.title, First(e.slots.subtitle),
                IF known # <<>> THEN known ELSE First(facets),
                e.slots.metadata, e.slots.caption, e.texts)

ParseExperience(entities) ==
    FlattenSeq([i \in DOMAIN entities |->
        IF IsGroupedEmployer(entities[i]) THEN ExpandGrouped(entities[i])
        ELSE LET shown == Shown(<<entities[i]>>) IN [k \in DOMAIN shown |-> Single(shown[k])]])

-----------------------------------------------------------------------------
(* education.py.                                                           *)

SplitDegreeAtFirst(words) ==
    IF Len(words) < 2 THEN [degree |-> words, field |-> <<>>]
    ELSE [degree |-> <<Head(words)>>, field |-> Tail(words)]

\* The last comma separates the degree from the field of study.
SplitDegree(words) ==
    IF Len(words) < 2 THEN [degree |-> words, field |-> <<>>]
    ELSE [degree |-> Front(words), field |-> <<Last(words)>>]

\* The last line with a label wins; the unlabelled ones are the description.
Labelled(texts, label) ==
    LET lines == Filter(texts, LAMBDA t : t.label = label)
    IN IF lines = <<>> THEN <<>> ELSE <<Last(lines).text>>

ParseEducation(entities) ==
    LET shown == Shown(entities)
    IN [i \in DOMAIN shown |->
         LET split == SplitDegree(shown[i].slots.subtitle)
             texts == shown[i].texts
         IN [school |-> shown[i].slots.title,
             degree |-> split.degree, field |-> split.field,
             grade |-> Labelled(texts, "grade"), activities |-> Labelled(texts, "activities"),
             description |-> Filter(texts, LAMBDA t : t.label = "none"),
             dates |-> CaptionRange(shown[i].slots.caption)]]

-----------------------------------------------------------------------------
(* simple.py.                                                              *)

DistinctSpellings(items) ==
    Keep(items, {i \in DOMAIN items : \A k \in 1..(i - 1) : items[k].name # items[i].name})

\* The first spelling of a skill is kept.
DistinctNames(items) ==
    Keep(items, {i \in DOMAIN items :
                    \A k \in 1..(i - 1) : Lower(items[k].name) # Lower(items[i].name)})

Renamed(entities, ByOf(_), WhenOf(_)) ==
    [i \in DOMAIN entities |->
        Item(entities[i].slots.title, ByOf(entities[i].slots), WhenOf(entities[i].slots))]

Nothing(slots) == <<>>
Subtitle(slots) == slots.subtitle
RangeOf(slots) == CaptionRange(slots.caption)

ParseSkills(entities) == DistinctNames(Renamed(Titled(entities), Nothing, Nothing))

ParseLanguages(entities) ==
    Renamed(Titled(entities),
            LAMBDA slots : IF slots.caption # <<>> THEN slots.caption ELSE slots.subtitle, Nothing)

\* The text behind a label, as it is written; without its label the whole
\* caption is the date of issue.
Certified(slots) ==
    LET issued == FirstIn(slots.caption, LAMBDA w : w.kind = "issued")
        expires == FirstIn(slots.caption, LAMBDA w : w.kind = "expires")
    IN [issued |-> IF issued = <<>> THEN slots.caption ELSE <<Day(issued[1].date)>>,
        expires |-> IF expires = <<>> THEN <<>> ELSE <<Day(expires[1].date)>>]

ParseCertifications(entities) == Renamed(Titled(entities), Subtitle, Certified)

\* _split_pair: "IEEE . Mar 2020"; the caption is a date's second place.  Either
\* is handed on as it is written.
PairedDate(slots) ==
    IF Len(slots.subtitle) > 1 THEN Second(slots.subtitle) ELSE slots.caption

ParsePaired(entities) == Renamed(Titled(entities), LAMBDA slots : First(slots.subtitle), PairedDate)

ParseProjects(entities) == Renamed(Titled(entities), Nothing, RangeOf)
ParseVolunteering(entities) == Renamed(Shown(entities), Subtitle, RangeOf)
ParseCourses(entities) == Renamed(Titled(entities), Subtitle, Nothing)
ParseOrganizations(entities) == Renamed(Titled(entities), Subtitle, RangeOf)

\* _SECTION_PARSERS, without experience and education.
ParseSection(section, entities) ==
    CASE section = "skills" -> ParseSkills(entities)
      [] section = "certifications" -> ParseCertifications(entities)
      [] section = "languages" -> ParseLanguages(entities)
      [] section = "projects" -> ParseProjects(entities)
      [] section \in {"publications", "honors", "patents", "test_scores"} -> ParsePaired(entities)
      [] section = "volunteering" -> ParseVolunteering(entities)
      [] section = "courses" -> ParseCourses(entities)
      [] section = "organizations" -> ParseOrganizations(entities)
=============================================================================
