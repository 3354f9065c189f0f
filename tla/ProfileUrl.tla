----------------------------- MODULE ProfileUrl -----------------------------
(***************************************************************************)
(* extract_public_identifier (src/app/linkedin/profile_url.py): what a     *)
(* caller pastes becomes the public identifier of a profile, or is         *)
(* refused.  A slug is a sequence of pieces, a name in some case or a      *)
(* character that means something to a URL, each of them percent-encoded   *)
(* or not.  A reference is a bare slug or a URL with a host, perhaps a     *)
(* locale, the section of the site and the slug with all that follows it.  *)
(***************************************************************************)
EXTENDS Integers, Sequences, SequencesExt

CONSTANTS
    LowerPiece(_),  \* str.lower
    Reserved        \* _RESERVED

Refused == <<>>
Separators == {"/", "?", "#"}
Strays == {".", ","}
Plain(pieces, chars) == \E i \in DOMAIN pieces : ~pieces[i].encoded /\ pieces[i].text \in chars

\* What stands before the first piece that Ends it.
UpTo(pieces, Ends(_)) ==
    LET cut == SelectInSeq(pieces, Ends)
    IN IF cut = 0 THEN pieces ELSE SubSeq(pieces, 1, cut - 1)

Lowered(slug) == [i \in DOMAIN slug |-> LowerPiece(slug[i])]

\* unquote.
Decoded(pieces) == [i \in DOMAIN pieces |-> pieces[i].text]

\* rstrip.
Stripped(slug) ==
    SubSeq(slug, 1, SelectLastInSeq(slug, LAMBDA c : c \notin Strays))

\* The separators are looked for before they are decoded.
CleanUndecoded(pieces) ==
    LET slug == Stripped(Decoded(UpTo(pieces, LAMBDA p : ~p.encoded /\ p.text \in Separators)))
    IN IF Lowered(slug) \in {<<r>> : r \in Reserved} THEN Refused ELSE slug

\* _clean_slug: decoded first, then cut.
CleanSlug(pieces) ==
    LET slug == Stripped(UpTo(Decoded(pieces), LAMBDA c : c \in Separators))
    IN IF Lowered(slug) \in {<<r>> : r \in Reserved} THEN Refused ELSE slug

\* A dot or a slash makes a URL of it, whose host is not LinkedIn's.
FromBareSlug(pieces) ==
    IF Plain(pieces, Separators \cup Strays) THEN Refused ELSE CleanSlug(pieces)

\* _is_linkedin_host: on a label boundary.
IsLinkedInHost(host) == host.domain = "linkedin.com"

\* _PROFILE_PATH_RE, with or without a locale, up to the next plain separator.
FromUrl(url) ==
    LET slug == UpTo(url.slug, LAMBDA p : ~p.encoded /\ p.text \in Separators)
    IN IF IsLinkedInHost(url.host) /\ url.section = "in" /\ slug # <<>>
       THEN CleanSlug(slug) ELSE Refused

ExtractPublicIdentifier(reference) ==
    IF reference.form = "bare" THEN FromBareSlug(reference.slug) ELSE FromUrl(reference)

\* ProfileService.get_profile: one cache entry and one shared fetch per key.
CacheKey(publicId) == Lowered(publicId)
=============================================================================
