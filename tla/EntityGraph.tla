---------------------------- MODULE EntityGraph ----------------------------
(***************************************************************************)
(* A normalised response is a list of entities, "included", that refer to  *)
(* one another by URN: EntityIndex (src/app/parsing/collection.py) finds   *)
(* them by URN and by type, merge_payloads (linkedin/html_fallback.py)     *)
(* makes one response of several, and urn.py reads the URNs.  An entity is *)
(* a record with a urn and a type; a URN is a kind and an id; a type is    *)
(* the sequence of the parts of its dotted name, so that endswith is       *)
(* IsSuffix.  resolve and deref have no caller and are left out.           *)
(***************************************************************************)
EXTENDS Integers, Sequences, SequencesExt

NoUrn == [kind |-> "none", id |-> "none"]
Urn(kind, id) == [kind |-> kind, id |-> id]

\* The elements of seq at some of its places, in their order.
Keep(seq, places) ==
    LET kept[n \in 0..Len(seq)] ==
          IF n = 0 THEN <<>>
          ELSE IF n \in places THEN Append(kept[n - 1], seq[n]) ELSE kept[n - 1]
    IN kept[Len(seq)]

\* SelectSeq, which is out of the provers' reach.
Filter(seq, Test(_)) == Keep(seq, {i \in DOMAIN seq : Test(seq[i])})

Distinct(seq) ==
    Keep(seq, {i \in DOMAIN seq : \A k \in 1..(i - 1) : seq[k] # seq[i]})

\* EntityIndex.__init__: inlined elements are read when nothing was included.
Index(payload) ==
    IF \E i \in DOMAIN payload.included : payload.included[i].urn # NoUrn THEN payload.included
    ELSE payload.included \o payload.elements

WithUrn(included, urn) == Filter(included, LAMBDA e : e.urn = urn)

UrnsIn(included) ==
    Distinct([i \in DOMAIN included |-> included[i].urn])

\* _by_urn: in the order of the first entity with a URN, the last one wins.
Get(included, urn) == Last(WithUrn(included, urn))

Entities(included) ==
    LET urns == Filter(UrnsIn(included), LAMBDA urn : urn # NoUrn)
    IN [i \in DOMAIN urns |-> Get(included, urns[i])]

OfType(included, type) == Filter(included, LAMBDA e : e.type = type)

\* by_type: one type after the other in the order in which the types turn up,
\* whatever the order of the suffixes asked for.
ByType(included, suffixes) ==
    LET types == Distinct([i \in DOMAIN included |-> included[i].type])
        wanted == Filter(types, LAMBDA type : \E s \in suffixes : IsSuffix(s, type))
    IN FlattenSeq([i \in DOMAIN wanted |-> OfType(included, wanted[i])])

\* The places of the entities that are news: without a URN, or the first with it.
AnyPlaces(included) == DOMAIN included

FirstPlaces(included) ==
    {i \in DOMAIN included :
        included[i].urn = NoUrn \/ \A k \in 1..(i - 1) : included[k].urn # included[i].urn}

\* merge_payloads: the first entity with a URN wins.
Merge(payloads) ==
    LET all == FlattenSeq(payloads) IN Keep(all, FirstPlaces(all))

\* has_profile_content.
HasProfileContent(included) ==
    \E i \in DOMAIN included :
        \/ \E k \in DOMAIN included[i].type :
              included[i].type[k] \in {"identity.profile", "Profile"}
        \/ "topComponents" \in DOMAIN included[i]

\* normalize_profile_urn: whatever kind of URN it is given.
NormalizeProfileUrn(urn) == Urn("fsd_profile", urn.id)
=============================================================================
