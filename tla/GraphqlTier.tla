---------------------------- MODULE GraphqlTier ----------------------------
(***************************************************************************)
(* ProfileFetcher._fetch_graphql (src/app/linkedin/fetcher.py): a fetch    *)
(* resolves the profile's URN, loads its top card, then all list sections  *)
(* concurrently, then the about card if nothing has told about yet.  The   *)
(* cards of every fetch share the fetcher's one section semaphore.  What   *)
(* happens to the query ids is in QueryIds, what happens to a request in   *)
(* VoyagerClient: here a request is answered with one of its outcomes.     *)
(***************************************************************************)
EXTENDS Integers, FiniteSets

CONSTANTS
    Fetches,   \* fetches of profiles under way at the same time
    Sections,  \* the keys of _SECTION_PARSERS
    TopCard,   \* "top_card"
    About,     \* "about"
    Permits    \* section_concurrency

ASSUME TierConstants ==
    /\ IsFiniteSet(Fetches) /\ IsFiniteSet(Sections) /\ Sections # {}
    /\ TopCard \notin Sections /\ About \notin Sections /\ TopCard # About
    /\ Permits \in Nat \ {0}

VARIABLES
    phase,     \* where the tier is
    card,      \* what has become of each card of each fetch
    free,      \* free permits of _section_semaphore
    about,     \* whether basics.about has a text
    profile,   \* the sections set on the profile
    warnings   \* the cards warned about

vars == <<phase, card, free, about, profile, warnings>>

Cards == Sections \cup {TopCard, About}

\* What a card's request and parser may leave; a missing one has a warning.
Settled == {"full", "empty", "missing"}

\* What a card may leave that no tier survives: its id rejected, an error of its
\* request that is not LinkedIn's, or an error of its parsing outside any guard.
Fatal == {"rejected", "raised", "unparsed"}

Ended == {"returned", "notFound", "failed", "crashed", "cancelled"}

TypeOK ==
    /\ phase \in [Fetches -> Ended \cup {"idle", "topCard", "sections", "about"}]
    /\ card \in [Fetches -> [Cards -> Settled \cup Fatal \cup
                    {"unasked", "waiting", "sending", "cancelled"}]]
    /\ free \in 0..Permits
    /\ about \in [Fetches -> BOOLEAN]
    /\ profile \in [Fetches -> SUBSET Sections]
    /\ warnings \in [Fetches -> SUBSET Cards]

Init ==
    /\ phase = [f \in Fetches |-> "idle"]
    /\ card = [f \in Fetches |-> [c \in Cards |-> "unasked"]]
    /\ free = Permits
    /\ about = [f \in Fetches |-> FALSE]
    /\ profile = [f \in Fetches |-> {}]
    /\ warnings = [f \in Fetches |-> {}]

Asked(cards, wanted) == [c \in Cards |-> IF c \in wanted THEN "waiting" ELSE cards[c]]

\* The vanity query names the profile.
Resolved(f) ==
    /\ phase[f] = "idle"
    /\ phase' = [phase EXCEPT ![f] = "topCard"]
    /\ card' = [card EXCEPT ![f] = Asked(@, {TopCard})]
    /\ UNCHANGED <<free, about, profile, warnings>>

\* No usable query id, an error of LinkedIn's ("failed"), any other error, in the
\* reading of the answer too ("crashed"), or no URN in the answer ("notFound").
Unresolved(f) ==
    /\ phase[f] = "idle"
    /\ \E how \in {"failed", "crashed", "notFound"} : phase' = [phase EXCEPT ![f] = how]
    /\ UNCHANGED <<card, free, about, profile, warnings>>

\* _fetch_card behind the semaphore.
TakePermit(f, c) ==
    /\ card[f][c] = "waiting"
    /\ free > 0
    /\ free' = free - 1
    /\ card' = [card EXCEPT ![f][c] = "sending"]
    /\ UNCHANGED <<phase, about, profile, warnings>>

Answered(f, c) == card[f][c] = "sending" /\ free' = free + 1

\* The sections that parsed to something are set, and about asked for if untold.
SetSections(f, cards) ==
    /\ profile' = [profile EXCEPT ![f] = {s \in Sections : cards[s] = "full"}]
    /\ phase' = [phase EXCEPT ![f] = IF about[f] THEN "returned" ELSE "about"]
    /\ card' = [card EXCEPT ![f] = IF about[f] THEN cards ELSE Asked(cards, {About})]
    /\ UNCHANGED about

SectionsDoneEarly(f, cards) ==
    /\ \E s \in Sections : cards[s] \in Settled
    /\ SetSections(f, cards)

\* gather waits for the last section.
SectionsDone(f, cards) ==
    /\ \A s \in Sections : cards[s] \in Settled
    /\ SetSections(f, cards)

\* What a settled card sets going.  The about text may come with the vanity
\* query's payload or the top card's.  An orphan, whose tier has ended without
\* it, sets nothing going.
GoOn(f, cards) ==
    \/ /\ phase[f] = "topCard"
       /\ phase' = [phase EXCEPT ![f] = "sections"]
       /\ card' = [card EXCEPT ![f] = Asked(cards, Sections)]
       /\ \E told \in BOOLEAN : about' = [about EXCEPT ![f] = told]
       /\ UNCHANGED profile
    \/ phase[f] = "sections" /\ SectionsDone(f, cards)
    \/ /\ phase[f] = "about"
       /\ phase' = [phase EXCEPT ![f] = "returned"]
       /\ card' = [card EXCEPT ![f] = cards]
       /\ about' = [about EXCEPT ![f] = cards[About] = "full"]
       /\ UNCHANGED profile
    \/ /\ \/ phase[f] \in {"failed", "crashed"}
          \/ phase[f] = "sections" /\ \E s \in Sections : cards[s] \notin Settled
       /\ card' = [card EXCEPT ![f] = cards]
       /\ UNCHANGED <<phase, about, profile>>

CardLoads(f, c) ==
    /\ Answered(f, c)
    /\ \E how \in IF c = TopCard THEN {"full"} ELSE {"full", "empty"} : GoOn(f, [card[f] EXCEPT ![c] = how])
    /\ UNCHANGED warnings

\* A card's failure sinks the tier.
CardSinks(f, c) ==
    /\ Answered(f, c)
    /\ card' = [card EXCEPT ![f][c] = "missing"]
    /\ phase' = [phase EXCEPT ![f] = "failed"]
    /\ warnings' = [warnings EXCEPT ![f] = @ \cup {c}]
    /\ UNCHANGED <<about, profile>>

\* Any error of LinkedIn's but a rejected query id: a warning, no payload.
CardFails(f, c) ==
    /\ Answered(f, c)
    /\ GoOn(f, [card[f] EXCEPT ![c] = "missing"])
    /\ warnings' = [warnings EXCEPT ![f] = @ \cup {c}]

ParserFailsSilently(f, c) ==
    /\ c \in Sections
    /\ Answered(f, c)
    /\ GoOn(f, [card[f] EXCEPT ![c] = "missing"])
    /\ UNCHANGED warnings

\* Only the list sections' parsers are guarded.
ParserFails(f, c) ==
    /\ c \in Sections
    /\ CardFails(f, c)

UnderWay(f) == phase[f] \notin Ended

\* A card that no tier survives ends it at once, while the other sections, which
\* gather does not cancel, run on; an orphan's has no tier left to end.
EndsTier(f, c, how, end) ==
    /\ Answered(f, c)
    /\ card' = [card EXCEPT ![f][c] = how]
    /\ phase' = IF UnderWay(f) THEN [phase EXCEPT ![f] = end] ELSE phase
    /\ UNCHANGED <<about, profile>>

\* The id was rejected: it is invalidated, and the next tier has its turn.
CardRejected(f, c) == EndsTier(f, c, "rejected", "failed") /\ UNCHANGED warnings

\* The request raised something that is not a LinkedInError: nothing in the tier,
\* and nothing in the loop over the tiers, handles it.
CardRaises(f, c) == EndsTier(f, c, "raised", "crashed") /\ UNCHANGED warnings

\* The same for what the parsing of about raises, or of the top card, or of the
\* vanity query's payload alone when the top card is missing and warned about.
ParsingRaises(f, c) ==
    /\ c \in {TopCard, About}
    /\ EndsTier(f, c, "unparsed", "crashed")
    /\ \/ UNCHANGED warnings
       \/ c = TopCard /\ warnings' = [warnings EXCEPT ![f] = {c}]

\* The caller's task is cancelled: gather passes it on to every section.
Cancelled(f, returned) ==
    /\ UnderWay(f)
    /\ phase' = [phase EXCEPT ![f] = "cancelled"]
    /\ card' = [card EXCEPT ![f] = [c \in Cards |->
                  IF card[f][c] \in {"waiting", "sending"} THEN "cancelled" ELSE card[f][c]]]
    /\ free' = free + Cardinality(returned)
    /\ UNCHANGED <<about, profile, warnings>>

CancelLeaks(f) == Cancelled(f, {})
CancelReturnsAll(f) == Cancelled(f, {c \in Cards : card[f][c] \in {"waiting", "sending"}})
Cancel(f) == Cancelled(f, {c \in Cards : card[f][c] = "sending"})

Answer(f, c) ==
    \/ CardLoads(f, c)
    \/ CardFails(f, c)
    \/ ParserFails(f, c)
    \/ CardRejected(f, c)
    \/ CardRaises(f, c)
    \/ ParsingRaises(f, c)

Done == \A f \in Fetches : ~UnderWay(f) /\ \A c \in Cards : card[f][c] \notin {"waiting", "sending"}

Progress ==
    \/ \E f \in Fetches : Resolved(f) \/ Unresolved(f)
    \/ \E f \in Fetches, c \in Cards : TakePermit(f, c) \/ Answer(f, c)

Next ==
    \/ Progress
    \/ \E f \in Fetches : Cancel(f)
    \/ Done /\ UNCHANGED vars

Spec == Init /\ [][Next]_vars

\* Requests are answered or time out and a free permit wakes a waiter.  A fetch
\* asks for each card once, so no more than that is needed.
Fairness == WF_vars(Progress)

FairSpec == Spec /\ Fairness

-----------------------------------------------------------------------------

\* A permit is out exactly while a card's request is: also for the sections a
\* failed tier leaves behind, and after a cancellation in the middle of gather.
PermitsAccounted ==
    free + Cardinality({fc \in Fetches \X Cards : card[fc[1]][fc[2]] = "sending"}) = Permits

\* A returned profile has every section that has content; a section it lacks
\* was read and is empty, or has its warning.  No card is still outstanding.
NothingSilentlyMissing ==
    \A f \in Fetches : phase[f] = "returned" =>
        /\ \A s \in Sections : s \in profile[f] <=> card[f][s] = "full"
        /\ \A c \in Cards : card[f][c] \in Settled \cup {"unasked"}
        /\ warnings[f] = {c \in Cards : card[f][c] = "missing"}

\* Each section degrades independently, as far as it does: once the profile is
\* resolved no error of LinkedIn's about a card but a rejected id, and nothing a
\* list section's parser raises, ends the tier.  It fails only with a rejected id
\* and crashes only with a request that raised an error of another kind or with
\* the parsing of the top card or of about, which nothing guards.
SectionsDegrade ==
    \A f \in Fetches : card[f][TopCard] # "unasked" =>
        /\ phase[f] = "failed" => \E c \in Cards : card[f][c] = "rejected"
        /\ phase[f] = "crashed" =>
             \/ \E c \in Cards : card[f][c] = "raised"
             \/ \E c \in {TopCard, About} : card[f][c] = "unparsed"

\* Every fetch ends and every card asked for is settled, those of failed and
\* of cancelled tiers too: no fetch waits for ever behind another's leftovers.
EverythingSettles == <>Done
=============================================================================
