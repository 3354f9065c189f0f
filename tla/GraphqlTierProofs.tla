------------------------- MODULE GraphqlTierProofs -------------------------
(* The GraphQL tier, for any fetches, sections and permits.                *)
EXTENDS GraphqlTier, FiniteSetTheorems, TLAPS

CardStates == Settled \cup Fatal \cup {"unasked", "waiting", "sending", "cancelled"}
Phases == Ended \cup {"idle", "topCard", "sections", "about"}
Outstanding == {"waiting", "sending"}
Full(f) == {s \in Sections : card[f][s] = "full"}
Out(cards) == {fc \in Fetches \X Cards : cards[fc[1]][fc[2]] = "sending"}

\* Which cards have been asked for in which phase: what is asked for next was
\* never asked for, so asking cannot overwrite a request on its way.
Shape ==
    \A f \in Fetches :
        /\ phase[f] \in {"idle", "notFound"} => \A c \in Cards : card[f][c] = "unasked"
        /\ phase[f] = "topCard" =>
             \A c \in Cards : IF c = TopCard THEN card[f][c] \in Outstanding
                              ELSE card[f][c] = "unasked"
        /\ phase[f] = "sections" =>
             /\ card[f][TopCard] \in Settled /\ card[f][About] = "unasked"
             /\ \A s \in Sections : card[f][s] \in Settled \cup Outstanding
        /\ phase[f] = "about" =>
             /\ \A c \in Cards : c # About => card[f][c] \in Settled
             /\ card[f][About] \in Outstanding /\ profile[f] = Full(f)
        /\ phase[f] = "returned" =>
             (\A c \in Cards : card[f][c] \in Settled \cup {"unasked"}) /\ profile[f] = Full(f)

\* Until a tier ends without a profile, a card is missing exactly when there is
\* a warning about it.
Live(f) == phase[f] \notin {"notFound", "failed", "crashed", "cancelled"}
Warned == \A f \in Fetches : Live(f) => warnings[f] = {c \in Cards : card[f][c] = "missing"}

Inv == TypeOK /\ Shape /\ Warned /\ PermitsAccounted /\ SectionsDegrade

-----------------------------------------------------------------------------

LEMMA PairsFinite == IsFiniteSet(Fetches \X Cards) /\ IsFiniteSet(Cards)
<1>1. IsFiniteSet(Sections \cup {TopCard})
  BY TierConstants, FS_AddElement
<1>2. IsFiniteSet((Sections \cup {TopCard}) \cup {About})
  BY <1>1, FS_AddElement
<1>3. Cards = (Sections \cup {TopCard}) \cup {About}
  BY DEF Cards
<1> QED
  BY <1>2, <1>3, TierConstants, FS_Product

LEMMA OutFinite ==
  ASSUME NEW cards
  PROVE  IsFiniteSet(Out(cards)) /\ Cardinality(Out(cards)) \in Nat
<1>1. Out(cards) \in SUBSET (Fetches \X Cards)
  BY DEF Out
<1>2. IsFiniteSet(Out(cards))
  BY <1>1, PairsFinite, FS_Subset
<1> QED
  BY <1>2, FS_CardinalityType

\* One request more, one less, or as many, is one permit less, one more, or none.
LEMMA OneMoreOut ==
  ASSUME TypeOK, PermitsAccounted, NEW f \in Fetches, NEW c \in Cards,
         card[f][c] # "sending", free > 0, free' = free - 1,
         \A g \in Fetches, d \in Cards :
            card'[g][d] = "sending" <=> (card[g][d] = "sending" \/ (g = f /\ d = c))
  PROVE  PermitsAccounted' /\ free' \in 0..Permits
<1>1. Out(card') = Out(card) \cup {<<f, c>>} /\ <<f, c>> \notin Out(card)
  BY DEF Out
<1>2. Cardinality(Out(card')) = Cardinality(Out(card)) + 1
  BY <1>1, OutFinite, FS_AddElement
<1>3. free \in Nat /\ Permits \in Nat /\ free <= Permits
  BY TierConstants DEF TypeOK
<1>4. Cardinality(Out(card)) \in Nat
  BY OutFinite
<1>5. free + Cardinality(Out(card)) = Permits
  BY DEF PermitsAccounted, Out
<1>6. free' + Cardinality(Out(card')) = Permits
  BY <1>2, <1>3, <1>4, <1>5
<1>7. PermitsAccounted'
  BY <1>6 DEF PermitsAccounted, Out
<1> QED
  BY <1>3, <1>7

LEMMA OneLessOut ==
  ASSUME TypeOK, PermitsAccounted, NEW f \in Fetches, NEW c \in Cards,
         card[f][c] = "sending", free' = free + 1,
         \A g \in Fetches, d \in Cards :
            card'[g][d] = "sending" <=> (card[g][d] = "sending" /\ ~(g = f /\ d = c))
  PROVE  PermitsAccounted' /\ free' \in 0..Permits
<1>1. Out(card') = Out(card) \ {<<f, c>>} /\ <<f, c>> \in Out(card)
  BY DEF Out
<1>2. Cardinality(Out(card')) = Cardinality(Out(card)) - 1
  BY <1>1, OutFinite, FS_RemoveElement
<1>3. free \in Nat /\ Permits \in Nat
  BY TierConstants DEF TypeOK
<1>4. Cardinality(Out(card)) \in Nat /\ Cardinality(Out(card')) \in Nat
  BY OutFinite
<1>5. free + Cardinality(Out(card)) = Permits
  BY DEF PermitsAccounted, Out
<1>6. free' + Cardinality(Out(card')) = Permits
  BY <1>2, <1>3, <1>4, <1>5
<1>7. PermitsAccounted'
  BY <1>6 DEF PermitsAccounted, Out
<1> QED
  BY <1>3, <1>4, <1>6, <1>7

LEMMA SameOut ==
  ASSUME TypeOK, PermitsAccounted, free' = free,
         \A g \in Fetches, d \in Cards : card'[g][d] = "sending" <=> card[g][d] = "sending"
  PROVE  PermitsAccounted' /\ free' \in 0..Permits
<1>1. Out(card') = Out(card)
  BY DEF Out
<1> QED
  BY <1>1 DEF PermitsAccounted, Out, TypeOK

\* A cancelled fetch gives back the permits of its own requests.
LEMMA SomeLessOut ==
  ASSUME TypeOK, PermitsAccounted, NEW f \in Fetches,
         free' = free + Cardinality({c \in Cards : card[f][c] = "sending"}),
         \A g \in Fetches, d \in Cards :
            card'[g][d] = "sending" <=> (card[g][d] = "sending" /\ g # f)
  PROVE  PermitsAccounted' /\ free' \in 0..Permits
<1> DEFINE own == {c \in Cards : card[f][c] = "sending"}
<1>1. IsFiniteSet(own) /\ Cardinality(own) \in Nat
  BY PairsFinite, FS_Subset, FS_CardinalityType
<1>2. IsFiniteSet({f} \X own) /\ Cardinality({f} \X own) = Cardinality(own)
  <2>1. IsFiniteSet({f}) /\ Cardinality({f}) = 1
    BY FS_Singleton
  <2>2. IsFiniteSet({f} \X own) /\ Cardinality({f} \X own) = Cardinality({f}) * Cardinality(own)
    BY <1>1, <2>1, FS_Product
  <2> QED
    BY <1>1, <2>1, <2>2
<1>3. Out(card) = Out(card') \cup ({f} \X own) /\ Out(card') \cap ({f} \X own) = {}
  BY DEF Out
<1>4. Cardinality(Out(card)) = Cardinality(Out(card')) + Cardinality(own)
  <2>1. Cardinality({}) = 0
    BY FS_EmptySet
  <2>2. Cardinality(Out(card) ) = Cardinality(Out(card')) + Cardinality({f} \X own) - Cardinality({})
    BY <1>2, <1>3, OutFinite, FS_Union
  <2>3. Cardinality(Out(card')) \in Nat
    BY OutFinite
  <2> QED
    BY <1>1, <1>2, <2>1, <2>2, <2>3
<1>5. free \in Nat /\ Permits \in Nat
  BY TierConstants DEF TypeOK
<1>6. Cardinality(Out(card)) \in Nat /\ Cardinality(Out(card')) \in Nat
  BY OutFinite
<1>7. free + Cardinality(Out(card)) = Permits
  BY DEF PermitsAccounted, Out
<1>8. free' = free + Cardinality(own)
  OBVIOUS
<1> HIDE DEF own
<1>9. free' + Cardinality(Out(card')) = Permits
  BY <1>1, <1>4, <1>5, <1>6, <1>7, <1>8
<1>10. PermitsAccounted'
  BY <1>9 DEF PermitsAccounted, Out
<1> QED
  BY <1>1, <1>5, <1>6, <1>8, <1>9, <1>10

-----------------------------------------------------------------------------

\* What a settled card sets going asks only for cards that were never asked for.
LEMMA GoOnAsksAnew ==
  ASSUME TypeOK, Shape, NEW f \in Fetches, NEW c \in Cards, card[f][c] = "sending",
         NEW how \in Settled, GoOn(f, [card[f] EXCEPT ![c] = how])
  PROVE  \E wanted \in SUBSET Cards :
            /\ \A d \in wanted : card[f][d] = "unasked"
            /\ card' = [card EXCEPT ![f] = [d \in Cards |->
                          IF d = c THEN how ELSE IF d \in wanted THEN "waiting" ELSE card[f][d]]]
<1> DEFINE cards == [card[f] EXCEPT ![c] = how]
           Asks(wanted) == [d \in Cards |->
                          IF d = c THEN how ELSE IF d \in wanted THEN "waiting" ELSE card[f][d]]
<1>1. card[f] \in [Cards -> CardStates] /\ About \in Cards /\ Sections \subseteq Cards
      /\ TopCard \notin Sections /\ About \notin Sections /\ TopCard # About
  BY TierConstants DEF TypeOK, Cards, CardStates
<1>2. cards = Asks({})
  BY <1>1
<1>3. CASE phase[f] = "topCard" /\ card' = [card EXCEPT ![f] = Asked(cards, Sections)]
  <2>1. \A d \in Sections : card[f][d] = "unasked"
    BY <1>1, <1>3 DEF Shape
  <2>2. Asked(cards, Sections) = Asks(Sections)
    BY <1>1, <2>1 DEF Asked
  <2> QED
    BY <1>1, <1>3, <2>1, <2>2
<1>4. CASE phase[f] = "sections" /\ card' = [card EXCEPT ![f] = Asked(cards, {About})]
  <2>1. card[f][About] = "unasked"
    BY <1>4 DEF Shape
  <2>2. Asked(cards, {About}) = Asks({About})
    BY <1>1, <2>1 DEF Asked
  <2> QED
    BY <1>1, <1>4, <2>1, <2>2
<1>5. CASE card' = [card EXCEPT ![f] = cards]
  <2>1. card' = [card EXCEPT ![f] = Asks({})]
    BY <1>2, <1>5
  <2>2. {} \in SUBSET Cards /\ \A d \in {} : card[f][d] = "unasked"
    OBVIOUS
  <2> HIDE DEF cards
  <2>3. QED
    BY <2>1, <2>2, Zenon
<1>6. GoOn(f, cards)
  OBVIOUS
<1> HIDE DEF cards
<1>7. \/ phase[f] = "topCard" /\ card' = [card EXCEPT ![f] = Asked(cards, Sections)]
      \/ phase[f] = "sections" /\ card' = [card EXCEPT ![f] = Asked(cards, {About})]
      \/ card' = [card EXCEPT ![f] = cards]
  BY <1>6, Zenon DEF GoOn, SectionsDone, SetSections
<1> QED
  BY <1>3, <1>4, <1>5, <1>7

-----------------------------------------------------------------------------

LEMMA InvInit == Init => Inv
<1> SUFFICES ASSUME Init PROVE Inv
  OBVIOUS
<1>1. TypeOK
  BY TierConstants DEF Init, TypeOK
<1>2. Shape /\ Warned /\ SectionsDegrade
  BY TierConstants DEF Init, Shape, Warned, SectionsDegrade, Cards
<1>3. PermitsAccounted
  <2>1. Out(card) = {}
    BY DEF Init, Out
  <2>2. Cardinality(Out(card)) = 0
    BY <2>1, FS_EmptySet
  <2> QED
    BY <2>2, TierConstants DEF Init, PermitsAccounted, Out
<1> QED
  BY <1>1, <1>2, <1>3 DEF Inv

\* A card is settled, with a warning if it is missing.
LEMMA GoOnKeepsInv ==
  ASSUME Inv, NEW f \in Fetches, NEW c \in Cards, Answered(f, c), NEW how \in Settled,
         GoOn(f, [card[f] EXCEPT ![c] = how]),
         warnings' = [warnings EXCEPT ![f] = IF how = "missing" THEN @ \cup {c} ELSE @]
  PROVE  Inv'
<1>1. TypeOK /\ Shape /\ Warned /\ PermitsAccounted /\ SectionsDegrade
  BY DEF Inv
<1>2. card[f][c] = "sending" /\ free' = free + 1
  BY DEF Answered
<1>3. PICK wanted \in SUBSET Cards :
        /\ \A d \in wanted : card[f][d] = "unasked"
        /\ card' = [card EXCEPT ![f] = [d \in Cards |->
                      IF d = c THEN how ELSE IF d \in wanted THEN "waiting" ELSE card[f][d]]]
  BY <1>1, <1>2, GoOnAsksAnew
<1>4. \A g \in Fetches, d \in Cards :
         card'[g][d] = IF g # f THEN card[g][d] ELSE IF d = c THEN how
                       ELSE IF d \in wanted THEN "waiting" ELSE card[g][d]
  BY <1>1, <1>3 DEF TypeOK
<1>5. PermitsAccounted' /\ free' \in 0..Permits
  <2>1. \A g \in Fetches, d \in Cards :
           card'[g][d] = "sending" <=> (card[g][d] = "sending" /\ ~(g = f /\ d = c))
    BY <1>2, <1>3, <1>4 DEF Settled
  <2> QED
    BY <1>1, <1>2, <2>1, OneLessOut
<1> DEFINE cards == [card[f] EXCEPT ![c] = how]
<1>7. \A d \in Cards : cards[d] = IF d = c THEN how ELSE card[f][d]
  BY <1>1 DEF TypeOK
<1>8. GoOn(f, cards)
  OBVIOUS
<1> HIDE DEF cards
<1>9. TypeOK'
  <2>1. card' \in [Fetches -> [Cards -> CardStates]]
    BY <1>1, <1>3 DEF TypeOK, CardStates
  <2>2. phase' \in [Fetches -> Phases]
    BY <1>1, <1>8 DEF TypeOK, GoOn, SectionsDone, SetSections, Phases, Ended
  <2>3. about' \in [Fetches -> BOOLEAN]
    BY <1>1, <1>8 DEF TypeOK, GoOn, SectionsDone, SetSections
  <2>4. profile' \in [Fetches -> SUBSET Sections]
    BY <1>1, <1>8 DEF TypeOK, GoOn, SectionsDone, SetSections
  <2>5. warnings' \in [Fetches -> SUBSET Cards]
    BY <1>1 DEF TypeOK
  <2> QED
    BY <1>5, <2>1, <2>2, <2>3, <2>4, <2>5 DEF TypeOK, CardStates, Phases
<1>10. \A g \in Fetches \ {f} :
          phase'[g] = phase[g] /\ card'[g] = card[g] /\ profile'[g] = profile[g]
  BY <1>1, <1>3, <1>8 DEF TypeOK, GoOn, SectionsDone, SetSections
<1>11. \/ /\ phase[f] = "topCard" /\ phase'[f] = "sections"
          /\ card'[f] = Asked(cards, Sections)
       \/ /\ phase[f] = "sections" /\ phase'[f] = "returned" /\ card'[f] = cards
          /\ \A s \in Sections : cards[s] \in Settled
          /\ profile'[f] = {s \in Sections : cards[s] = "full"}
       \/ /\ phase[f] = "sections" /\ phase'[f] = "about"
          /\ card'[f] = Asked(cards, {About})
          /\ \A s \in Sections : cards[s] \in Settled
          /\ profile'[f] = {s \in Sections : cards[s] = "full"}
       \/ /\ phase[f] = "about" /\ phase'[f] = "returned" /\ card'[f] = cards
          /\ profile'[f] = profile[f]
       \/ /\ phase[f] \in {"failed", "crashed", "sections"} /\ phase'[f] = phase[f]
          /\ card'[f] = cards /\ profile'[f] = profile[f]
  BY <1>1, <1>8 DEF TypeOK, GoOn, SectionsDone, SetSections
<1>12. TopCard \in Cards /\ About \in Cards /\ Cards = Sections \cup {TopCard, About}
       /\ TopCard \notin Sections /\ About \notin Sections /\ TopCard # About
  BY TierConstants DEF Cards
<1>13. Shape'
  <2> DEFINE ShapeAt(g) ==
        /\ phase'[g] \in {"idle", "notFound"} => \A d \in Cards : card'[g][d] = "unasked"
        /\ phase'[g] = "topCard" =>
             \A d \in Cards : IF d = TopCard THEN card'[g][d] \in Outstanding
                              ELSE card'[g][d] = "unasked"
        /\ phase'[g] = "sections" =>
             /\ card'[g][TopCard] \in Settled /\ card'[g][About] = "unasked"
             /\ \A s \in Sections : card'[g][s] \in Settled \cup Outstanding
        /\ phase'[g] = "about" =>
             /\ \A d \in Cards : d # About => card'[g][d] \in Settled
             /\ card'[g][About] \in Outstanding
             /\ profile'[g] = {s \in Sections : card'[g][s] = "full"}
        /\ phase'[g] = "returned" =>
             /\ \A d \in Cards : card'[g][d] \in Settled \cup {"unasked"}
             /\ profile'[g] = {s \in Sections : card'[g][s] = "full"}
  <2>1. \A g \in Fetches \ {f} : ShapeAt(g)
    BY <1>1, <1>10 DEF Shape, Full
  <2>2. ASSUME phase[f] = "topCard", phase'[f] = "sections", card'[f] = Asked(cards, Sections)
        PROVE  ShapeAt(f)
    BY <1>1, <1>2, <1>7, <1>12, <2>2 DEF Shape, Asked, Outstanding
  <2>3. ASSUME phase[f] = "sections", phase'[f] = "returned", card'[f] = cards,
               \A s \in Sections : cards[s] \in Settled,
               profile'[f] = {s \in Sections : cards[s] = "full"}
        PROVE  ShapeAt(f)
    BY <1>1, <1>2, <1>7, <1>12, <2>3 DEF Shape, Outstanding
  <2>4. ASSUME phase[f] = "sections", phase'[f] = "about", card'[f] = Asked(cards, {About}),
               \A s \in Sections : cards[s] \in Settled,
               profile'[f] = {s \in Sections : cards[s] = "full"}
        PROVE  ShapeAt(f)
    <3>1. \A s \in Sections : card'[f][s] = cards[s]
      BY <1>12, <2>4 DEF Asked
    <3>2. card'[f][About] = "waiting" /\ card'[f][TopCard] = cards[TopCard]
      BY <1>12, <2>4 DEF Asked
    <3>3. cards[TopCard] \in Settled
      BY <1>1, <1>7, <1>12, <2>4 DEF Shape
    <3>4. profile'[f] = {s \in Sections : card'[f][s] = "full"}
      BY <2>4, <3>1
    <3> QED
      BY <1>12, <2>4, <3>1, <3>2, <3>3, <3>4 DEF Outstanding
  <2>5. ASSUME phase[f] = "about", phase'[f] = "returned", card'[f] = cards,
               profile'[f] = profile[f]
        PROVE  ShapeAt(f)
    <3>1. c = About
      BY <1>1, <1>2, <2>5 DEF Shape, Settled
    <3>2. \A s \in Sections : card'[f][s] = card[f][s]
      BY <1>7, <1>12, <2>5, <3>1
    <3>3. profile'[f] = {s \in Sections : card'[f][s] = "full"}
      BY <1>1, <2>5, <3>2 DEF Shape, Full
    <3> QED
      BY <1>1, <1>7, <2>5, <3>1, <3>3 DEF Shape
  <2>6. ASSUME phase[f] \in {"failed", "crashed", "sections"}, phase'[f] = phase[f],
               card'[f] = cards, profile'[f] = profile[f]
        PROVE  ShapeAt(f)
    BY <1>1, <1>2, <1>7, <1>12, <2>6 DEF Shape
  <2>7. ShapeAt(f)
    BY <1>11, <2>2, <2>3, <2>4, <2>5, <2>6
  <2>8. \A g \in Fetches : ShapeAt(g)
    BY <2>1, <2>7
  <2> QED
    BY <2>8 DEF Shape, Full
<1>14. SectionsDegrade'
  <2>1. SUFFICES ASSUME NEW g \in Fetches, phase'[g] \in {"failed", "crashed"},
                        card'[g][TopCard] # "unasked"
                 PROVE  /\ phase'[g] = phase[g] /\ card[g][TopCard] # "unasked"
                        /\ \A d \in Cards : card[g][d] \in Fatal => card'[g][d] = card[g][d]
    BY <1>1, <1>12 DEF SectionsDegrade, Fatal
  <2>2. phase'[g] = phase[g]
    BY <1>10, <1>11, <2>1
  <2>3. card[g][TopCard] # "unasked"
    <3>1. CASE g = f
      <4>1. card'[f] = cards
        BY <1>11, <2>1, <3>1
      <4> QED
        BY <1>2, <1>7, <1>12, <2>1, <3>1, <4>1
    <3> QED
      BY <1>10, <2>1, <3>1
  <2>4. \A d \in Cards : card[g][d] \in Fatal => card'[g][d] = card[g][d]
    BY <1>2, <1>3, <1>4 DEF Fatal
  <2> QED
    BY <2>2, <2>3, <2>4
<1>15. Warned'
  <2>1. \A d \in Cards : card'[f][d] = "missing" <=>
                             (card[f][d] = "missing" \/ (d = c /\ how = "missing"))
    BY <1>2, <1>3, <1>4 DEF Settled
  <2>2. Live(f)' => Live(f)
    BY <1>11 DEF Live
  <2>3. Live(f)' => warnings'[f] = {d \in Cards : card'[f][d] = "missing"}
    BY <1>1, <2>1, <2>2 DEF Warned, TypeOK
  <2>4. \A g \in Fetches \ {f} : Live(g)' => warnings'[g] = {d \in Cards : card'[g][d] = "missing"}
    BY <1>1, <1>4, <1>10 DEF Warned, TypeOK, Live
  <2> QED
    BY <2>3, <2>4 DEF Warned
<1> QED
  BY <1>5, <1>9, <1>13, <1>14, <1>15 DEF Inv

\* A card ends its tier, or is an orphan's.
LEMMA EndsTierKeepsInv ==
  ASSUME Inv, NEW f \in Fetches, NEW c \in Cards, NEW how \in Fatal,
         NEW end \in {"failed", "crashed"}, EndsTier(f, c, how, end),
         end = "failed" => how = "rejected",
         end = "crashed" => how = "raised" \/ (how = "unparsed" /\ c \in {TopCard, About}),
         warnings' \in [Fetches -> SUBSET Cards],
         \A g \in Fetches : g # f => warnings'[g] = warnings[g]
  PROVE  Inv'
<1>1. TypeOK /\ Shape /\ Warned /\ PermitsAccounted /\ SectionsDegrade
  BY DEF Inv
<1>2. /\ card[f][c] = "sending" /\ free' = free + 1
      /\ card' = [card EXCEPT ![f][c] = how] /\ UNCHANGED <<about, profile>>
  BY DEF EndsTier, Answered
<1>3. \A g \in Fetches, d \in Cards :
        card'[g][d] = IF g = f /\ d = c THEN how ELSE card[g][d]
  BY <1>1, <1>2 DEF TypeOK
<1>4. PermitsAccounted' /\ free' \in 0..Permits
  <2>1. \A g \in Fetches, d \in Cards :
           card'[g][d] = "sending" <=> (card[g][d] = "sending" /\ ~(g = f /\ d = c))
    BY <1>3 DEF Fatal
  <2> QED
    BY <1>1, <1>2, <2>1, OneLessOut
<1>5. \A g \in Fetches : phase'[g] = IF g = f /\ UnderWay(f) THEN end ELSE phase[g]
  BY <1>1 DEF TypeOK, EndsTier
<1>6. phase[f] \notin {"idle", "notFound", "returned"}
  BY <1>1, <1>2 DEF Shape, Settled
<1>7. phase'[f] \in {"failed", "crashed", "cancelled"}
  BY <1>1, <1>5, <1>6 DEF TypeOK, UnderWay, Ended
<1>8. TypeOK'
  <2>1. card' \in [Fetches -> [Cards -> CardStates]]
    BY <1>1, <1>2 DEF TypeOK, CardStates
  <2>2. phase' \in [Fetches -> Phases]
    BY <1>1 DEF TypeOK, EndsTier, Phases, Ended
  <2> QED
    BY <1>1, <1>2, <1>4, <2>1, <2>2 DEF TypeOK, CardStates, Phases
<1>9. Warned'
  BY <1>1, <1>3, <1>5, <1>7 DEF Warned, Live
<1>10. Shape'
  BY <1>1, <1>2, <1>3, <1>5, <1>7 DEF Shape, Full
<1>11. SectionsDegrade'
  <2>1. TopCard \in Cards /\ About \in Cards
    BY DEF Cards
  <2>2. ASSUME NEW g \in Fetches, g # f \/ ~UnderWay(f), card'[g][TopCard] # "unasked"
        PROVE  /\ phase'[g] = phase[g] /\ card[g][TopCard] # "unasked"
               /\ \A d \in Cards : card[g][d] \in Fatal => card'[g][d] = card[g][d]
    BY <1>2, <1>3, <1>5, <2>1, <2>2 DEF Fatal
  <2>3. ASSUME UnderWay(f)
        PROVE  phase'[f] = end /\ card'[f][c] = how
    BY <1>3, <1>5, <2>3
  <2>4. ASSUME NEW g \in Fetches, card'[g][TopCard] # "unasked"
        PROVE  /\ phase'[g] = "failed" => \E d \in Cards : card'[g][d] = "rejected"
               /\ phase'[g] = "crashed" =>
                    \/ \E d \in Cards : card'[g][d] = "raised"
                    \/ \E d \in {TopCard, About} : card'[g][d] = "unparsed"
    <3>1. CASE g = f /\ UnderWay(f)
      BY <2>3, <3>1
    <3>2. CASE g # f \/ ~UnderWay(f)
      BY <1>1, <2>1, <2>2, <2>4, <3>2 DEF SectionsDegrade, Fatal
    <3> QED
      BY <3>1, <3>2
  <2> QED
    BY <2>4 DEF SectionsDegrade
<1> QED
  BY <1>4, <1>8, <1>9, <1>10, <1>11 DEF Inv

LEMMA InvStep == Inv /\ [Next]_vars => Inv'
<1> SUFFICES ASSUME Inv, [Next]_vars PROVE Inv'
  OBVIOUS
<1>1. TypeOK /\ Shape /\ Warned /\ PermitsAccounted /\ SectionsDegrade
  BY DEF Inv
<1>2. TopCard \in Cards /\ About \in Cards /\ Cards = Sections \cup {TopCard, About}
      /\ TopCard \notin Sections /\ About \notin Sections /\ TopCard # About
  BY TierConstants DEF Cards
<1>3. ASSUME NEW f \in Fetches, Resolved(f) PROVE Inv'
  <2>1. \A g \in Fetches, d \in Cards :
          card'[g][d] = IF g = f /\ d = TopCard THEN "waiting" ELSE card[g][d]
    BY <1>1, <1>3 DEF TypeOK, Resolved, Asked
  <2>2. \A d \in Cards : card[f][d] = "unasked"
    BY <1>1, <1>3 DEF Shape, Resolved
  <2>3. PermitsAccounted'
    <3>1. free' = free
      BY <1>3 DEF Resolved
    <3>2. \A g \in Fetches, d \in Cards : card'[g][d] = "sending" <=> card[g][d] = "sending"
      BY <1>2, <2>1, <2>2
    <3> QED
      BY <1>1, <3>1, <3>2, SameOut
  <2>4. TypeOK'
    <3>1. card' \in [Fetches -> [Cards -> CardStates]]
      BY <1>1, <1>3 DEF TypeOK, Resolved, Asked, CardStates
    <3>2. phase' \in [Fetches -> Phases]
      BY <1>1, <1>3 DEF TypeOK, Resolved, Phases
    <3> QED
      BY <1>1, <1>3, <3>1, <3>2 DEF TypeOK, Resolved, CardStates, Phases
  <2>5. Warned'
    <3>1. \A g \in Fetches, d \in Cards : card'[g][d] = "missing" <=> card[g][d] = "missing"
      BY <1>2, <2>1, <2>2
    <3>2. \A g \in Fetches : Live(g)' => Live(g)
      BY <1>1, <1>3 DEF Resolved, Live, TypeOK
    <3> QED
      BY <1>1, <1>3, <3>1, <3>2 DEF Warned, Resolved
  <2>6. \A g \in Fetches : phase'[g] = IF g = f THEN "topCard" ELSE phase[g]
    BY <1>1, <1>3 DEF TypeOK, Resolved
  <2>7. Shape'
    <3>1. /\ phase'[f] = "topCard" /\ card'[f][TopCard] \in Outstanding
          /\ \A d \in Cards : d # TopCard => card'[f][d] = "unasked"
      BY <1>2, <2>1, <2>2, <2>6 DEF Outstanding
    <3>2. \A g \in Fetches \ {f} :
            /\ phase'[g] = phase[g] /\ profile'[g] = profile[g]
            /\ \A d \in Cards : card'[g][d] = card[g][d]
      BY <1>3, <2>1, <2>6 DEF Resolved
    <3>3. \A g \in Fetches \ {f} : Full(g)' = Full(g)
      BY <1>2, <3>2 DEF Full
    <3> QED
      BY <1>1, <1>2, <3>1, <3>2, <3>3 DEF Shape
  <2>8. SectionsDegrade'
    BY <1>1, <1>2, <2>1, <2>2, <2>6 DEF SectionsDegrade
  <2> QED
    BY <2>3, <2>4, <2>5, <2>7, <2>8 DEF Inv
<1>4. ASSUME NEW f \in Fetches, Unresolved(f) PROVE Inv'
  <2>1. phase[f] = "idle" /\ \A d \in Cards : card[f][d] = "unasked"
    BY <1>1, <1>4 DEF Shape, Unresolved
  <2>2. \A g \in Fetches : IF g = f THEN phase'[g] \in {"failed", "crashed", "notFound"}
                           ELSE phase'[g] = phase[g]
    BY <1>1, <1>4 DEF TypeOK, Unresolved
  <2>3. TypeOK'
    BY <1>1, <1>4 DEF TypeOK, Unresolved, Ended
  <2>4. Shape'
    BY <1>1, <1>4, <2>1, <2>2 DEF Shape, Full, Unresolved
  <2>5. Warned' /\ PermitsAccounted'
    BY <1>1, <1>4, <2>2 DEF Warned, Live, PermitsAccounted, Unresolved
  <2>6. SectionsDegrade'
    BY <1>1, <1>2, <1>4, <2>1, <2>2 DEF SectionsDegrade, Unresolved
  <2> QED
    BY <2>3, <2>4, <2>5, <2>6 DEF Inv
<1>5. ASSUME NEW f \in Fetches, NEW c \in Cards, TakePermit(f, c) PROVE Inv'
  <2>1. card[f][c] = "waiting" /\ free > 0 /\ free' = free - 1
    BY <1>5 DEF TakePermit
  <2>2. \A g \in Fetches, d \in Cards :
          card'[g][d] = IF g = f /\ d = c THEN "sending" ELSE card[g][d]
    BY <1>1, <1>5 DEF TypeOK, TakePermit
  <2>3. PermitsAccounted' /\ free' \in 0..Permits
    <3>1. \A g \in Fetches, d \in Cards :
             card'[g][d] = "sending" <=> (card[g][d] = "sending" \/ (g = f /\ d = c))
      BY <2>2
    <3> QED
      BY <1>1, <2>1, <3>1, OneMoreOut
  <2>4. TypeOK'
    <3>1. card' \in [Fetches -> [Cards -> CardStates]]
      BY <1>1, <1>5 DEF TypeOK, TakePermit, CardStates
    <3> QED
      BY <1>1, <1>5, <2>3, <3>1 DEF TypeOK, TakePermit, CardStates
  <2>5. \A g \in Fetches, d \in Cards :
          \/ card'[g][d] = card[g][d]
          \/ card[g][d] = "waiting" /\ card'[g][d] = "sending"
    BY <2>1, <2>2
  <2>6. Warned'
    <3>1. \A g \in Fetches, d \in Cards : card'[g][d] = "missing" <=> card[g][d] = "missing"
      BY <2>5
    <3> QED
      BY <1>1, <1>5, <3>1 DEF Warned, Live, TakePermit
  <2>7. Shape'
    <3>1. \A g \in Fetches : Full(g)' = Full(g)
      BY <1>2, <2>5 DEF Full
    <3> QED
      BY <1>1, <1>2, <1>5, <2>5, <3>1 DEF Shape, Outstanding, Settled, TakePermit
  <2>8. SectionsDegrade'
    BY <1>1, <1>2, <1>5, <2>5 DEF SectionsDegrade, TakePermit
  <2> QED
    BY <2>3, <2>4, <2>6, <2>7, <2>8 DEF Inv
<1>6. ASSUME NEW f \in Fetches, NEW c \in Cards, CardLoads(f, c) PROVE Inv'
  <2>1. PICK how \in {"full", "empty"} : GoOn(f, [card[f] EXCEPT ![c] = how])
    BY <1>6 DEF CardLoads
  <2>2. warnings' = [warnings EXCEPT ![f] = IF how = "missing" THEN @ \cup {c} ELSE @]
    BY <1>1, <1>6 DEF TypeOK, CardLoads
  <2> QED
    BY <1>6, <2>1, <2>2, GoOnKeepsInv DEF CardLoads, Settled
<1>7. ASSUME NEW f \in Fetches, NEW c \in Cards, CardFails(f, c) PROVE Inv'
  <2>1. warnings' = [warnings EXCEPT ![f] = IF "missing" = "missing" THEN @ \cup {c} ELSE @]
    BY <1>7 DEF CardFails
  <2>2. "missing" \in Settled /\ Answered(f, c) /\ GoOn(f, [card[f] EXCEPT ![c] = "missing"])
    BY <1>7 DEF CardFails, Settled
  <2> QED
    BY <2>1, <2>2, GoOnKeepsInv
<1>8. ASSUME NEW f \in Fetches, NEW c \in Cards,
             CardRejected(f, c) \/ CardRaises(f, c) \/ ParsingRaises(f, c)
      PROVE  Inv'
  <2>1. CASE CardRejected(f, c)
    BY <1>1, <2>1, EndsTierKeepsInv DEF CardRejected, Fatal, TypeOK
  <2>2. CASE CardRaises(f, c)
    BY <1>1, <2>2, EndsTierKeepsInv DEF CardRaises, Fatal, TypeOK
  <2>3. CASE ParsingRaises(f, c)
    <3>1. /\ warnings' \in [Fetches -> SUBSET Cards]
          /\ \A g \in Fetches : g # f => warnings'[g] = warnings[g]
      BY <1>1, <2>3 DEF ParsingRaises, TypeOK
    <3> QED
      BY <2>3, <3>1, EndsTierKeepsInv DEF ParsingRaises, Fatal
  <2> QED
    BY <1>8, <2>1, <2>2, <2>3
<1>9. ASSUME NEW f \in Fetches, Cancel(f) PROVE Inv'
  <2>1. /\ phase' = [phase EXCEPT ![f] = "cancelled"]
        /\ free' = free + Cardinality({c \in Cards : card[f][c] = "sending"})
        /\ UNCHANGED <<about, profile, warnings>>
        /\ card' = [card EXCEPT ![f] = [c \in Cards |->
              IF card[f][c] \in {"waiting", "sending"} THEN "cancelled" ELSE card[f][c]]]
    BY <1>9 DEF Cancel, Cancelled
  <2>2. \A g \in Fetches, d \in Cards :
          card'[g][d] = IF g = f /\ card[g][d] \in Outstanding THEN "cancelled" ELSE card[g][d]
    BY <1>1, <2>1 DEF TypeOK, Outstanding
  <2>3. PermitsAccounted' /\ free' \in 0..Permits
    <3>1. \A g \in Fetches, d \in Cards :
             card'[g][d] = "sending" <=> (card[g][d] = "sending" /\ g # f)
      BY <2>2 DEF Outstanding
    <3> QED
      BY <1>1, <2>1, <3>1, SomeLessOut
  <2>4. TypeOK'
    <3>1. card' \in [Fetches -> [Cards -> CardStates]]
      BY <1>1, <2>1 DEF TypeOK, CardStates
    <3> QED
      BY <1>1, <2>1, <2>3, <3>1 DEF TypeOK, CardStates, Ended
  <2>5. Warned'
    <3>1. \A g \in Fetches, d \in Cards : card'[g][d] = "missing" <=> card[g][d] = "missing"
      BY <2>2 DEF Outstanding
    <3>2. \A g \in Fetches : Live(g)' => Live(g)
      BY <1>1, <2>1 DEF Live, TypeOK
    <3> QED
      BY <1>1, <2>1, <3>1, <3>2 DEF Warned
  <2>6. \A g \in Fetches : IF g = f THEN phase'[g] = "cancelled" ELSE phase'[g] = phase[g]
    BY <1>1, <2>1 DEF TypeOK
  <2>7. Shape'
    BY <1>1, <2>1, <2>2, <2>6 DEF Shape, Full
  <2>8. SectionsDegrade'
    BY <1>1, <1>2, <2>2, <2>6 DEF SectionsDegrade
  <2> QED
    BY <2>3, <2>4, <2>5, <2>7, <2>8 DEF Inv
<1>10. CASE UNCHANGED vars
  BY <1>1, <1>10 DEF Inv, TypeOK, Shape, Full, Warned, Live, PermitsAccounted,
                     SectionsDegrade, vars
<1> QED
  BY <1>3, <1>4, <1>5, <1>6, <1>7, <1>8, <1>9, <1>10
  DEF Next, Progress, Answer, ParserFails

LEMMA SpecInv == Spec => []Inv
BY InvInit, InvStep, PTL DEF Spec

-----------------------------------------------------------------------------

\* The variables keep their types, the semaphore its bounds (_fetch_card).
THEOREM TypeCorrect == Spec => []TypeOK
<1>1. Inv => TypeOK
  BY DEF Inv
<1> QED
  BY <1>1, SpecInv, PTL

\* No failure, rejection or cancellation leaks a permit of _section_semaphore or
\* returns one twice, for any number of fetches, sections and permits.
THEOREM PermitsAreReturned == Spec => []PermitsAccounted
<1>1. Inv => PermitsAccounted
  BY DEF Inv
<1> QED
  BY <1>1, SpecInv, PTL

\* What a returned profile lacks was empty or is warned about (_fetch_graphql).
THEOREM NothingIsSilentlyMissing == Spec => []NothingSilentlyMissing
<1>1. Inv => NothingSilentlyMissing
  <2> SUFFICES ASSUME Inv, NEW f \in Fetches, phase[f] = "returned"
               PROVE  /\ \A s \in Sections : s \in profile[f] <=> card[f][s] = "full"
                      /\ \A c \in Cards : card[f][c] \in Settled \cup {"unasked"}
                      /\ warnings[f] = {c \in Cards : card[f][c] = "missing"}
    BY DEF NothingSilentlyMissing
  <2> QED
    BY DEF Inv, Shape, Full, Warned, Live
<1> QED
  BY <1>1, SpecInv, PTL

\* Once resolved, no failed card and no section's parser ends a tier: it fails
\* only with a rejected query id and crashes only with a request's error that is
\* not LinkedIn's or the parsing of the top card or of about (_fetch_card,
\* _fetch_and_parse_section, _fetch_graphql, _fetch_about).
THEOREM SectionsDegradeAlone == Spec => []SectionsDegrade
<1>1. Inv => SectionsDegrade
  BY DEF Inv
<1> QED
  BY <1>1, SpecInv, PTL
-----------------------------------------------------------------------------
(* Every fetch ends: it never goes back, and it never gets stuck.          *)

\* How far a card and a tier have come.
CardRank(now) ==
    IF now = "unasked" THEN 0 ELSE IF now = "waiting" THEN 1 ELSE IF now = "sending" THEN 2 ELSE 3
PhaseRank(now) ==
    IF now = "idle" THEN 0 ELSE IF now = "topCard" THEN 1 ELSE IF now = "sections" THEN 2
    ELSE IF now = "about" THEN 3 ELSE 4

\* A card is asked for once and settled once, orphans' cards too, and a tier
\* never returns to an earlier phase; whatever is not a cancellation takes some
\* card or tier forward, so that there are only so many steps to take.
OnlyForward ==
    [][/\ \A f \in Fetches :
             /\ PhaseRank(phase[f]) <= PhaseRank(phase'[f])
             /\ \A c \in Cards : CardRank(card[f][c]) <= CardRank(card'[f][c])
       /\ Progress =>
            \E f \in Fetches : \/ PhaseRank(phase[f]) < PhaseRank(phase'[f])
                               \/ \E c \in Cards : CardRank(card[f][c]) < CardRank(card'[f][c])]_vars

\* Until everything is done there is a fetch to begin, an answer to come, or a
\* free permit for a card that waits for one.
NeverStuck ==
    \/ Done
    \/ \E f \in Fetches : phase[f] = "idle"
    \/ \E f \in Fetches, c \in Cards : card[f][c] = "sending" \/ (card[f][c] = "waiting" /\ free > 0)

\* What gather still waits for.
Gathering ==
    \A f \in Fetches : phase[f] = "sections" => \E s \in Sections : card[f][s] \in Outstanding

LEMMA CardForward ==
  ASSUME TypeOK, NEW f \in Fetches, NEW c \in Cards, NEW how, CardRank(card[f][c]) < CardRank(how),
         NEW g \in [Cards -> CardStates], g[c] = how,
         \A d \in Cards : d # c => CardRank(card[f][d]) <= CardRank(g[d]),
         card' = [card EXCEPT ![f] = g],
         PhaseRank(phase[f]) <= PhaseRank(phase'[f]),
         \A h \in Fetches : h # f => phase'[h] = phase[h]
  PROVE  /\ \A h \in Fetches :
               /\ PhaseRank(phase[h]) <= PhaseRank(phase'[h])
               /\ \A d \in Cards : CardRank(card[h][d]) <= CardRank(card'[h][d])
         /\ \E h \in Fetches : \E d \in Cards : CardRank(card[h][d]) < CardRank(card'[h][d])
<1>1. \A h \in Fetches : card'[h] = IF h = f THEN g ELSE card[h]
  BY DEF TypeOK
<1>2. CardRank(card[f][c]) <= CardRank(how)
  BY DEF CardRank
<1>3. \A h \in Fetches, d \in Cards : CardRank(card[h][d]) <= CardRank(card'[h][d])
  BY <1>1, <1>2 DEF CardRank
<1>4. \A h \in Fetches : PhaseRank(phase[h]) <= PhaseRank(phase'[h])
  BY DEF PhaseRank
<1> QED
  BY <1>1, <1>3, <1>4

LEMMA GoOnForward ==
  ASSUME TypeOK, Shape, NEW f \in Fetches, NEW c \in Cards, Answered(f, c), NEW how \in Settled,
         GoOn(f, [card[f] EXCEPT ![c] = how])
  PROVE  /\ \A h \in Fetches :
               /\ PhaseRank(phase[h]) <= PhaseRank(phase'[h])
               /\ \A d \in Cards : CardRank(card[h][d]) <= CardRank(card'[h][d])
         /\ \E h \in Fetches : \E d \in Cards : CardRank(card[h][d]) < CardRank(card'[h][d])
<1>1. card[f][c] = "sending"
  BY DEF Answered
<1>2. PICK wanted \in SUBSET Cards :
        /\ \A d \in wanted : card[f][d] = "unasked"
        /\ card' = [card EXCEPT ![f] = [d \in Cards |->
                      IF d = c THEN how ELSE IF d \in wanted THEN "waiting" ELSE card[f][d]]]
  BY <1>1, GoOnAsksAnew
<1> DEFINE g == [d \in Cards |->
                   IF d = c THEN how ELSE IF d \in wanted THEN "waiting" ELSE card[f][d]]
<1>3. g \in [Cards -> CardStates] /\ g[c] = how
  BY DEF TypeOK, CardStates
<1>4. \A d \in Cards : d # c => CardRank(card[f][d]) <= CardRank(g[d])
  BY <1>2 DEF CardRank
<1>5. CardRank(card[f][c]) < CardRank(how)
  BY <1>1 DEF CardRank, Settled
<1>6. card' = [card EXCEPT ![f] = g]
  BY <1>2
<1> HIDE DEF g
<1>7. /\ PhaseRank(phase[f]) <= PhaseRank(phase'[f])
      /\ \A h \in Fetches : h # f => phase'[h] = phase[h]
  BY Zenon, SMT DEF GoOn, SectionsDone, SetSections, TypeOK, PhaseRank
<1> QED
  BY <1>3, <1>4, <1>5, <1>6, <1>7, CardForward

LEMMA ForwardStep ==
  ASSUME Inv, [Next]_vars
  PROVE  /\ \A f \in Fetches :
               /\ PhaseRank(phase[f]) <= PhaseRank(phase'[f])
               /\ \A c \in Cards : CardRank(card[f][c]) <= CardRank(card'[f][c])
         /\ Progress =>
              \E f \in Fetches : \/ PhaseRank(phase[f]) < PhaseRank(phase'[f])
                                 \/ \E c \in Cards : CardRank(card[f][c]) < CardRank(card'[f][c])
<1> DEFINE Weakly == \A f \in Fetches :
               /\ PhaseRank(phase[f]) <= PhaseRank(phase'[f])
               /\ \A c \in Cards : CardRank(card[f][c]) <= CardRank(card'[f][c])
           Strictly == \E f \in Fetches :
               \/ PhaseRank(phase[f]) < PhaseRank(phase'[f])
               \/ \E c \in Cards : CardRank(card[f][c]) < CardRank(card'[f][c])
<1>1. TypeOK /\ Shape /\ TopCard \in Cards
  BY DEF Inv, Cards
<1>2. ASSUME NEW f \in Fetches, Resolved(f) \/ Unresolved(f) PROVE Weakly /\ Strictly
  <2>1. phase[f] = "idle" /\ \A d \in Cards : card[f][d] = "unasked"
    BY <1>1, <1>2 DEF Shape, Resolved, Unresolved
  <2>2. /\ phase'[f] \in {"topCard", "failed", "crashed", "notFound"}
        /\ \A h \in Fetches : h # f => phase'[h] = phase[h] /\ card'[h] = card[h]
    BY <1>1, <1>2 DEF TypeOK, Resolved, Unresolved
  <2>3. PhaseRank(phase[f]) < PhaseRank(phase'[f])
    BY <2>1, <2>2 DEF PhaseRank
  <2>4. \A d \in Cards : CardRank(card[f][d]) <= CardRank(card'[f][d])
    BY <2>1 DEF CardRank
  <2>5. \A h \in Fetches : h # f =>
          /\ PhaseRank(phase[h]) <= PhaseRank(phase'[h])
          /\ \A d \in Cards : CardRank(card[h][d]) <= CardRank(card'[h][d])
    BY <2>2 DEF PhaseRank, CardRank
  <2>6. PhaseRank(phase[f]) <= PhaseRank(phase'[f])
    BY <2>1 DEF PhaseRank
  <2> QED
    BY <2>3, <2>4, <2>5, <2>6
<1>3. ASSUME NEW f \in Fetches, NEW c \in Cards, TakePermit(f, c) PROVE Weakly /\ Strictly
  <2> DEFINE g == [card[f] EXCEPT ![c] = "sending"]
  <2>1. /\ card[f][c] = "waiting" /\ phase' = phase /\ card' = [card EXCEPT ![f] = g]
        /\ g \in [Cards -> CardStates] /\ g[c] = "sending"
        /\ \A d \in Cards : d # c => g[d] = card[f][d]
    BY <1>1, <1>3 DEF TypeOK, TakePermit, CardStates
  <2> HIDE DEF g
  <2>2. /\ CardRank(card[f][c]) < CardRank("sending")
        /\ \A d \in Cards : d # c => CardRank(card[f][d]) <= CardRank(g[d])
        /\ PhaseRank(phase[f]) <= PhaseRank(phase'[f])
    BY <2>1 DEF CardRank, PhaseRank
  <2> QED
    BY <1>1, <2>1, <2>2, CardForward
<1>4. ASSUME NEW f \in Fetches, NEW c \in Cards, Answer(f, c) PROVE Weakly /\ Strictly
  <2>1. CASE CardLoads(f, c)
    <3>1. Answered(f, c) /\ \E how \in Settled : GoOn(f, [card[f] EXCEPT ![c] = how])
      BY <2>1 DEF CardLoads, Settled
    <3> QED
      BY <1>1, <3>1, GoOnForward
  <2>2. CASE CardFails(f, c) \/ ParserFails(f, c)
    <3>1. Answered(f, c) /\ GoOn(f, [card[f] EXCEPT ![c] = "missing"]) /\ "missing" \in Settled
      BY <2>2 DEF CardFails, ParserFails, Settled
    <3> QED
      BY <1>1, <3>1, GoOnForward
  <2>3. ASSUME NEW how \in Fatal, NEW end \in {"failed", "crashed"}, EndsTier(f, c, how, end)
        PROVE  Weakly /\ Strictly
    <3> DEFINE g == [card[f] EXCEPT ![c] = how]
    <3>1. /\ card[f][c] = "sending" /\ card' = [card EXCEPT ![f] = g]
          /\ g \in [Cards -> CardStates] /\ g[c] = how
          /\ \A d \in Cards : d # c => g[d] = card[f][d]
      BY <1>1, <2>3 DEF TypeOK, EndsTier, Answered, CardStates
    <3>2. /\ \A h \in Fetches : h # f => phase'[h] = phase[h]
          /\ phase'[f] = IF UnderWay(f) THEN end ELSE phase[f]
      BY <1>1, <2>3 DEF TypeOK, EndsTier
    <3> HIDE DEF g
    <3>3. /\ CardRank(card[f][c]) < CardRank(how)
          /\ \A d \in Cards : d # c => CardRank(card[f][d]) <= CardRank(g[d])
      BY <3>1 DEF CardRank, Fatal
    <3>4. PhaseRank(phase[f]) <= PhaseRank(phase'[f])
      BY <3>2 DEF PhaseRank
    <3>5. Strictly
      <4>1. card'[f][c] = how
        BY <1>1, <3>1 DEF TypeOK
      <4> QED
        BY <3>3, <4>1
    <3>6. Weakly
      <4>1. \A h \in Fetches, d \in Cards : card'[h][d] = card[h][d] \/ (h = f /\ card'[h][d] = g[d])
        BY <1>1, <3>1 DEF TypeOK
      <4>2. \A d \in Cards : CardRank(card[f][d]) <= CardRank(g[d])
        BY <3>1, <3>3 DEF CardRank
      <4>3. \A h \in Fetches, d \in Cards : CardRank(card[h][d]) <= CardRank(card[h][d])
        BY DEF CardRank
      <4>4. \A h \in Fetches : PhaseRank(phase[h]) <= PhaseRank(phase'[h])
        BY <3>2, <3>4 DEF PhaseRank
      <4> QED
        BY <4>1, <4>2, <4>3, <4>4
    <3> QED
      BY <3>5, <3>6
  <2>4. CASE CardRejected(f, c) \/ CardRaises(f, c) \/ ParsingRaises(f, c)
    BY <2>3, <2>4 DEF CardRejected, CardRaises, ParsingRaises, Fatal
  <2> QED
    BY <1>4, <2>1, <2>2, <2>4 DEF Answer
<1>5. ASSUME NEW f \in Fetches, Cancel(f) PROVE Weakly
  <2>1. \A h \in Fetches, d \in Cards : \/ card'[h][d] = card[h][d]
                                        \/ card'[h][d] = "cancelled"
    BY <1>1, <1>5 DEF TypeOK, Cancel, Cancelled
  <2>2. \A h \in Fetches : phase'[h] = phase[h] \/ phase'[h] = "cancelled"
    BY <1>1, <1>5 DEF TypeOK, Cancel, Cancelled
  <2> QED
    BY <2>1, <2>2 DEF CardRank, PhaseRank
<1>6. ASSUME UNCHANGED vars PROVE Weakly
  BY <1>6 DEF vars, CardRank, PhaseRank
<1>7. Progress => Weakly /\ Strictly
  BY <1>2, <1>3, <1>4 DEF Progress
<1> HIDE DEF Weakly, Strictly
<1>8. Weakly /\ (Progress => Strictly)
  BY <1>5, <1>6, <1>7 DEF Next
<1> QED
  BY <1>8 DEF Weakly, Strictly

\* For any fetches, sections and permits, no card is asked for or settled twice
\* and no tier goes back (_fetch_graphql, _fetch_card).
THEOREM FetchesGoForward == Spec => OnlyForward
<1>1. Inv /\ [Next]_vars =>
        [/\ \A f \in Fetches :
             /\ PhaseRank(phase[f]) <= PhaseRank(phase'[f])
             /\ \A c \in Cards : CardRank(card[f][c]) <= CardRank(card'[f][c])
         /\ Progress =>
            \E f \in Fetches : \/ PhaseRank(phase[f]) < PhaseRank(phase'[f])
                               \/ \E c \in Cards : CardRank(card[f][c]) < CardRank(card'[f][c])]_vars
  BY ForwardStep
<1> QED
  BY <1>1, InvInit, InvStep, PTL DEF Spec, OnlyForward

LEMMA GatheringStep == Inv /\ Gathering /\ [Next]_vars => Gathering'
<1> SUFFICES ASSUME Inv, Gathering, [Next]_vars, NEW f \in Fetches, phase'[f] = "sections"
             PROVE  \E s \in Sections : card'[f][s] \in Outstanding
  BY DEF Gathering
<1>1. /\ TypeOK /\ Shape /\ Sections \subseteq Cards /\ Sections # {}
      /\ TopCard \in Cards /\ TopCard \notin Sections
  BY TierConstants DEF Inv, Cards
<1>2. ASSUME phase[f] = "sections", \A s \in Sections : card[f][s] \in Outstanding =>
                                                        card'[f][s] \in Outstanding
      PROVE  \E s \in Sections : card'[f][s] \in Outstanding
  BY <1>2 DEF Gathering
<1>3. ASSUME NEW g \in Fetches, NEW c \in Cards, NEW how \in Settled, card[g][c] = "sending",
             GoOn(g, [card[g] EXCEPT ![c] = how])
      PROVE  \E s \in Sections : card'[f][s] \in Outstanding
  <2>1. CASE g # f
    <3>1. phase'[f] = phase[f] /\ card'[f] = card[f]
      BY <1>1, <1>3, <2>1 DEF GoOn, SectionsDone, SetSections, TypeOK
    <3> QED
      BY <1>2, <3>1
  <2>2. CASE g = f
    <3> DEFINE cards == [card[f] EXCEPT ![c] = how]
    <3>1. \A d \in Cards : cards[d] = IF d = c THEN how ELSE card[f][d]
      BY <1>1 DEF TypeOK
    <3>2. GoOn(f, cards)
      BY <1>3, <2>2
    <3> HIDE DEF cards
    <3>3. CASE phase[f] = "topCard" /\ card' = [card EXCEPT ![f] = Asked(cards, Sections)]
      BY <1>1, <3>3 DEF TypeOK, Asked, Outstanding
    <3>4. CASE /\ phase[f] = "sections" /\ card' = [card EXCEPT ![f] = cards]
               /\ \E s \in Sections : cards[s] \notin Settled
      <4>1. PICK s \in Sections : cards[s] \notin Settled
        BY <3>4
      <4>2. cards[s] = card[f][s]
        BY <1>1, <3>1, <4>1
      <4>3. card[f][s] \in Outstanding
        BY <3>4, <1>1, <4>1, <4>2 DEF Shape
      <4>4. card'[f] = cards
        BY <1>1, <3>4 DEF TypeOK
      <4> QED
        BY <4>2, <4>3, <4>4
    <3>5. phase'[f] # "sections" \/ phase[f] \in {"topCard", "sections"}
      BY <1>1, <3>2 DEF GoOn, SectionsDone, SetSections, TypeOK
    <3>6. phase[f] = "sections" => phase'[f] # "sections" \/
            (card' = [card EXCEPT ![f] = cards] /\ \E s \in Sections : cards[s] \notin Settled)
      BY <1>1, <3>2 DEF GoOn, SectionsDone, SetSections, TypeOK
    <3>7. phase[f] = "topCard" => card' = [card EXCEPT ![f] = Asked(cards, Sections)]
      BY <3>2 DEF GoOn
    <3> QED
      BY <3>3, <3>4, <3>5, <3>6, <3>7
  <2> QED
    BY <2>1, <2>2
<1>4. ASSUME NEW g \in Fetches, Resolved(g) \/ Unresolved(g) \/ Cancel(g)
      PROVE  \E s \in Sections : card'[f][s] \in Outstanding
  <2>1. g # f /\ phase'[f] = phase[f] /\ card'[f] = card[f]
    BY <1>1, <1>4 DEF Resolved, Unresolved, Cancel, Cancelled, TypeOK
  <2> QED
    BY <1>2, <2>1
<1>5. ASSUME NEW g \in Fetches, NEW c \in Cards, TakePermit(g, c)
      PROVE  \E s \in Sections : card'[f][s] \in Outstanding
  <2>1. phase'[f] = phase[f] /\ \A s \in Sections : card'[f][s] \in {card[f][s], "sending"}
    BY <1>1, <1>5 DEF TakePermit, TypeOK
  <2> QED
    BY <1>2, <2>1 DEF Outstanding
<1>6. ASSUME NEW g \in Fetches, NEW c \in Cards, Answer(g, c)
      PROVE  \E s \in Sections : card'[f][s] \in Outstanding
  <2>1. CASE \E how \in Fatal, end \in {"failed", "crashed"} : EndsTier(g, c, how, end)
    <3>1. g # f /\ phase'[f] = phase[f] /\ card'[f] = card[f]
      BY <1>1, <2>1 DEF EndsTier, UnderWay, Ended, TypeOK
    <3> QED
      BY <1>2, <3>1
  <2>2. CASE ~(CardRejected(g, c) \/ CardRaises(g, c) \/ ParsingRaises(g, c))
    <3>1. card[g][c] = "sending" /\ \E how \in Settled : GoOn(g, [card[g] EXCEPT ![c] = how])
      BY <1>6, <2>2 DEF Answer, CardLoads, CardFails, ParserFails, Answered, Settled
    <3> QED
      BY <1>3, <3>1
  <2> QED
    BY <2>1, <2>2 DEF CardRejected, CardRaises, ParsingRaises, Fatal
<1>7. CASE UNCHANGED vars
  BY <1>2, <1>7 DEF vars
<1> QED
  BY <1>4, <1>5, <1>6, <1>7 DEF Next, Progress

\* No fetch ever waits for a permit or an answer that cannot come, whatever was
\* rejected or cancelled before it, as long as there are sections to ask for.
THEOREM FetchesAreNeverStuck == Spec => []NeverStuck
<1>1. Init => Gathering
  BY DEF Init, Gathering
<1>2. Inv /\ Gathering => NeverStuck
  <2> SUFFICES ASSUME Inv, Gathering, ~Done PROVE NeverStuck
    BY DEF NeverStuck
  <2>1. TypeOK /\ Shape /\ PermitsAccounted /\ TopCard \in Cards /\ About \in Cards
        /\ Sections \subseteq Cards
    BY DEF Inv, Cards
  <2>2. CASE \E f \in Fetches, c \in Cards : card[f][c] = "sending"
    BY <2>2 DEF NeverStuck
  <2>3. CASE ~\E f \in Fetches, c \in Cards : card[f][c] = "sending"
    <3>1. Out(card) = {}
      BY <2>3 DEF Out
    <3>2. free = Permits
      <4>1. Cardinality(Out(card)) = 0
        BY <3>1, FS_EmptySet
      <4>2. free + Cardinality(Out(card)) = Permits
        BY <2>1 DEF PermitsAccounted, Out
      <4> QED
        BY <2>1, <4>1, <4>2 DEF TypeOK
    <3>3. free > 0
      BY <3>2, TierConstants
    <3>4. CASE \E f \in Fetches, c \in Cards : card[f][c] = "waiting"
      BY <3>3, <3>4 DEF NeverStuck
    <3>5. CASE ~\E f \in Fetches, c \in Cards : card[f][c] = "waiting"
      <4>1. PICK f \in Fetches : UnderWay(f)
        BY <2>3, <3>5 DEF Done
      <4>2. \A c \in Cards : card[f][c] \notin Outstanding
        BY <2>3, <3>5 DEF Outstanding
      <4>3. phase[f] = "idle"
        BY <2>1, <4>1, <4>2 DEF UnderWay, Ended, TypeOK, Shape, Gathering
      <4> QED
        BY <4>3 DEF NeverStuck
    <3> QED
      BY <3>4, <3>5
  <2> QED
    BY <2>2, <2>3
<1> QED
  BY <1>1, <1>2, InvInit, InvStep, GatheringStep, PTL DEF Spec
=============================================================================
