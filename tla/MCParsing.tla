----------------------------- MODULE MCParsing -----------------------------
(* Small trees, careers, responses, companies of people and links.         *)
EXTENDS Parsing

MCLower(words) ==
    [i \in DOMAIN words |-> IF words[i].text = "Go" THEN Word("go") ELSE words[i]]
MCLowerPiece(piece) == IF piece = "Ada" THEN "ada" ELSE piece

MCToday == Date(2022, 6)
MCDays == <<Date(2019, Absent), Date(2019, 3), Date(2019, 12), Date(2020, Absent)>>
MCEmploymentTypes == {Word("full-time")}
MCCompanies == {Word("acme"), Word("globex")}

\* Trees of components.
NodeOf(kind, title, sub) == Node(kind, Slots(title, <<>>, <<>>, <<>>), NoText, sub)
TextNodes == {TextNode([label |-> "none", text |-> t]) : t \in {"a", "b"}}
Over(S, seqs) ==
    {NodeOf("entity", title, sub) : title \in {<<>>, <<Word("t")>>}, sub \in seqs}
    \cup {NodeOf(kind, <<>>, sub) : kind \in {"container", "unknown", "opaque"}, sub \in seqs}
Level1 == TextNodes \cup {TextNode(NoText)} \cup Over(TextNodes, AtMostOne(TextNodes))
Level2 == Level1 \cup Over(Level1, Lists(Level1))
MCRoots == {NodeOf("container", <<>>, <<top>>) : top \in Level2}
           \cup Over(Level2, {<<deep, NodeOf("entity", <<Word("u")>>, <<>>)>> : deep \in Level2})

\* Responses: each URN once in each of them.
Copy(urn, type, copy) == [urn |-> urn, type |-> type, copy |-> copy]
MCResponses ==
    {r \in Lists({Copy(urn, type, copy) :
            urn \in {NoUrn, Urn("fsd_profile", "u"), Urn("fsd_company", "v")},
            type \in {<<"Profile">>, <<"Company">>}, copy \in 1..2}) :
        \A i, k \in DOMAIN r : r[i].urn = r[k].urn /\ r[i].urn # NoUrn => i = k}

MCPeople ==
    {Person(Urn("fsd_profile", "bob"), <<"identity.profile", ".", "Profile">>, <<Word("bob")>>, headline) :
        headline \in {<<>>, <<Word("boss")>>}}
    \cup {Person(Urn("fs_miniProfile", "eve"), <<"identity.shared", ".", "Mini", "Profile">>,
                 <<Word("eve")>>, <<Word("editor")>>),
          Person(Urn("fsd_profilePosition", "p"), <<"identity.profile", ".", "Position">>,
                 <<Word("acme")>>, <<Word("chief")>>)}

Piece(text, encoded) == [text |-> text, encoded |-> encoded]
Junk ==
    {Piece(c, encoded) : c \in {"/", "?", ".", ","}, encoded \in BOOLEAN} \cup {Piece("utm", FALSE)}
MCLinks ==
    {link \in
       [form : {"bare", "url"},
        host : {[domain |-> d, locale |-> l] : d \in {"linkedin.com", "notlinkedin.com"}, l \in {"www", "uk"}},
        section : {"in", "company"},
        slug : {<<Piece(name, FALSE)>> \o junk : name \in {"ada", "Ada", "feed"}, junk \in Lists(Junk)}] :
      \A i \in 2..Len(link.slug) :
         link.slug[i].text = "utm" => i = 3 /\ link.slug[2].text \in Separators}
=============================================================================
