---------------------------- MODULE TypedProfile ----------------------------
(***************************************************************************)
(* src/app/parsing/dash_profile.py and rest_profile.py: the two tiers that *)
(* answer with typed entities, one for each item of a profile.  An entity  *)
(* has its fields (each a sequence of words), and may have a range (under  *)
(* dateRange for dash, timePeriod for REST) and a date.                    *)
(***************************************************************************)
EXTENDS CardSections

Field(e, name) == IF name \in DOMAIN e.fields THEN e.fields[name] ELSE <<>>
FirstField(e, names) ==
    FirstIn([i \in DOMAIN names |-> Field(e, names[i])], LAMBDA words : words # <<>>)
Text(e, names) == FlattenSeq(FirstField(e, names))

\* to_iso, of no date too: "2023-01", whatever it looks like on a card, but nothing
\* without a year.
InIso(date) == IF date.year = Absent THEN <<>> ELSE <<[kind |-> "iso", date |-> date]>>

\* _iso and _iso_of.
Iso(raw) == InIso(ParsePartialDate(raw))

DashRange(e) == StructuredRange(e.range)

\* `timePeriod or entity`: the entity itself stands in for a missing range.
RestRange(e) == StructuredRange([e.range EXCEPT !.given = TRUE])

Undated(e) == <<>>
IsoOf(e) == Iso(e.date)

\* _certifications: the range is read as issue and expiry.
Certificate(range) == [issued |-> InIso(range.start), expires |-> InIso(range.end)]

\* The entities of a type that have a text in one of the fields they need.
Items(included, type, needs, name, by, WhenOf(_)) ==
    LET found == Filter(ByType(included, {type}),
                           LAMBDA e : needs = <<>> \/ Text(e, needs) # <<>>)
    IN [i \in DOMAIN found |->
          Item(Text(found[i], name), Text(found[i], by), WhenOf(found[i]))]

Required(included, type, name, by, WhenOf(_)) ==
    Items(included, type, name, name, by, WhenOf)

Anything(included, type, name, by, WhenOf(_)) ==
    Items(included, type, <<>>, name, by, WhenOf)

-----------------------------------------------------------------------------
(* dash_profile.py.                                                        *)

DashSkills(included) ==
    DistinctNames(Required(included, <<"Skill">>, <<"name">>, <<>>, Undated))
DashCertifications(included) ==
    Anything(included, <<"Certification">>, <<"name">>, <<"authority">>,
             LAMBDA e : Certificate(DashRange(e)))
DashLanguages(included) ==
    Required(included, <<"Language">>, <<"name">>, <<"proficiency">>, Undated)
DashProjects(included) ==
    Required(included, <<"Project">>, <<"title", "name">>, <<>>, DashRange)
DashPublications(included) ==
    Required(included, <<"Publication">>, <<"name">>, <<"publisher">>, IsoOf)
DashHonors(included) ==
    Required(included, <<"Honor">>, <<"title">>, <<"issuer">>, IsoOf)
DashVolunteering(included) ==
    Items(included, <<"Volunteer", "Experience">>, <<"role", "companyName">>,
          <<"role">>, <<"companyName">>, DashRange)
DashCourses(included) ==
    Required(included, <<"Course">>, <<"name">>, <<"number">>, Undated)
DashPatents(included) ==
    Required(included, <<"Patent">>, <<"title">>, <<"number", "applicationNumber">>, IsoOf)
DashOrganizations(included) ==
    Required(included, <<"Organization">>, <<"name">>, <<"position">>, DashRange)
DashTestScores(included) ==
    Required(included, <<"Test", "Score">>, <<"name">>, <<"score">>, IsoOf)

\* _recency, the pair of year and month: an entry without a start is the oldest.
Recency(item) ==
    13 * Or(item.dates.start.year, 0) + Or(item.dates.start.month, 0)

\* sort(reverse=True) is stable: the n-th item has n - 1 ahead of it.
NewestFirst(items) ==
    LET Ahead(i, k) == \/ Recency(items[i]) > Recency(items[k])
                       \/ Recency(items[i]) = Recency(items[k]) /\ i < k
    IN [n \in DOMAIN items |->
          items[CHOOSE k \in DOMAIN items :
                  Cardinality({i \in DOMAIN items : Ahead(i, k)}) = n - 1]]

TypedPosition(e, dates) ==
    [title |-> Text(e, <<"title">>), company |-> Text(e, <<"companyName">>), dates |-> dates]

TypedEducation(e, dates) ==
    [school |-> Text(e, <<"schoolName">>), degree |-> Text(e, <<"degreeName">>),
     field |-> Text(e, <<"fieldOfStudy">>), grade |-> Text(e, <<"grade">>), dates |-> dates]

DashExperience(included) ==
    LET found == ByType(included, {<<"Position">>})
    IN NewestFirst([i \in DOMAIN found |-> TypedPosition(found[i], DashRange(found[i]))])

DashEducation(included) ==
    LET found == ByType(included, {<<"Education">>})
    IN NewestFirst([i \in DOMAIN found |-> TypedEducation(found[i], DashRange(found[i]))])

DashSection(section, included) ==
    CASE section = "skills" -> DashSkills(included)
      [] section = "certifications" -> DashCertifications(included)
      [] section = "languages" -> DashLanguages(included)
      [] section = "projects" -> DashProjects(included)
      [] section = "publications" -> DashPublications(included)
      [] section = "honors" -> DashHonors(included)
      [] section = "volunteering" -> DashVolunteering(included)
      [] section = "courses" -> DashCourses(included)
      [] section = "patents" -> DashPatents(included)
      [] section = "organizations" -> DashOrganizations(included)
      [] section = "test_scores" -> DashTestScores(included)

-----------------------------------------------------------------------------
(* rest_profile.py: the same sections, in LinkedIn's order.                *)

RestExperience(included) ==
    LET found == ByType(included, {<<"Position">>})
    IN [i \in DOMAIN found |-> TypedPosition(found[i], RestRange(found[i]))]

RestEducation(included) ==
    LET found == ByType(included, {<<"Education">>})
    IN [i \in DOMAIN found |-> TypedEducation(found[i], RestRange(found[i]))]

RestSkills(included) ==
    DistinctNames(Required(included, <<"Skill">>, <<"name">>, <<>>, Undated))
RestCertifications(included) ==
    Anything(included, <<"Certification">>, <<"name">>, <<"authority">>,
             LAMBDA e : Certificate(RestRange(e)))
RestLanguages(included) ==
    Required(included, <<"Language">>, <<"name">>, <<"proficiency">>, Undated)
RestProjects(included) ==
    Required(included, <<"Project">>, <<"title">>, <<>>, RestRange)
RestPublications(included) ==
    Required(included, <<"Publication">>, <<"name">>, <<"publisher">>, IsoOf)
RestHonors(included) ==
    Required(included, <<"Honor">>, <<"title">>, <<"issuer">>, IsoOf)
RestVolunteering(included) ==
    Items(included, <<"Volunteer", "Experience">>, <<"role", "companyName">>,
          <<"role">>, <<"companyName">>, RestRange)
RestCourses(included) ==
    Required(included, <<"Course">>, <<"name">>, <<"number">>, Undated)
RestPatents(included) ==
    Required(included, <<"Patent">>, <<"title">>, <<"number">>, IsoOf)
RestOrganizations(included) ==
    Required(included, <<"Organization">>, <<"name">>, <<"position">>, RestRange)
RestTestScores(included) ==
    Required(included, <<"Test", "Score">>, <<"name">>, <<"score">>, IsoOf)

RestSection(section, included) ==
    CASE section = "skills" -> RestSkills(included)
      [] section = "certifications" -> RestCertifications(included)
      [] section = "languages" -> RestLanguages(included)
      [] section = "projects" -> RestProjects(included)
      [] section = "publications" -> RestPublications(included)
      [] section = "honors" -> RestHonors(included)
      [] section = "volunteering" -> RestVolunteering(included)
      [] section = "courses" -> RestCourses(included)
      [] section = "patents" -> RestPatents(included)
      [] section = "organizations" -> RestOrganizations(included)
      [] section = "test_scores" -> RestTestScores(included)
=============================================================================
