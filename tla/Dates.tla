------------------------------- MODULE Dates -------------------------------
(***************************************************************************)
(* src/app/parsing/dates.py: a date range as LinkedIn gives it, either as  *)
(* numbers or as a caption such as "Mar 2021 - Present", becomes one       *)
(* DateRange.  A caption is the sequence of the tokens between its dashes; *)
(* which text is which token, and the day of a date, are left out.         *)
(***************************************************************************)
EXTENDS Integers, Sequences, FiniteSets

CONSTANT Today  \* date.today(), as a date

Absent == -1
Known(n) == n \notin {Absent, 0}
Or(n, default) == IF Known(n) THEN n ELSE default

NoDate == [given |-> FALSE, year |-> Absent, month |-> Absent]
Date(year, month) == [given |-> TRUE, year |-> year, month |-> month]

\* What ParsePartialDate returns.
Dates == [given : BOOLEAN, year : Int, month : {Absent} \cup 1..12]

NoRange == [given |-> FALSE, start |-> NoDate, end |-> NoDate,
            current |-> FALSE, months |-> Absent]
MakeRange(start, end, current) ==
    [NoRange EXCEPT !.given = TRUE, !.start = start, !.end = end, !.current = current]

ParsePartialDate(raw) ==
    IF raw.year = Absent /\ raw.month = Absent THEN NoDate
    ELSE Date(raw.year, IF raw.month \in 1..12 THEN raw.month ELSE Absent)

Ending(range) == IF range.current /\ ~range.end.given THEN Today ELSE range.end

Span(first, last) ==
    (last.year - first.year) * 12 + Or(last.month, 12) - Or(first.month, 1) + 1

\* _finish: a span that is not positive is not reported.
Finish(range) ==
    IF /\ Known(range.start.year) /\ Known(Ending(range).year)
       /\ Span(range.start, Ending(range)) > 0
    THEN [range EXCEPT !.months = Span(range.start, Ending(range))]
    ELSE range

\* No end means that it goes on; currentlyWorksHere cannot change that.
StructuredRange(raw) ==
    LET end == ParsePartialDate(raw.end)
    IN IF ~raw.given THEN NoRange
       ELSE Finish(MakeRange(ParsePartialDate(raw.start), end, ~end.given))

ParseToken(token) == IF token.kind = "date" THEN token.date ELSE NoDate

CaptionRange(tokens) ==
    LET second == IF Len(tokens) > 1 THEN tokens[2] ELSE [kind |-> "none"]
        current == second.kind = "present"
        start == ParseToken(Head(tokens))
        end == ParseToken(second)
    IN IF tokens = <<>> \/ (~start.given /\ ~end.given /\ ~current) THEN NoRange
       ELSE Finish(MakeRange(start, end, current))

-----------------------------------------------------------------------------
(* What a span is: the calendar months from the first to the last.         *)

Month(year, month) == [year |-> year, month |-> month]
NotAfter(a, b) == a.year < b.year \/ (a.year = b.year /\ a.month <= b.month)

CalendarMonths(first, last) ==
    {m \in [year : first.year..last.year, month : 1..12] :
        /\ NotAfter(Month(first.year, Or(first.month, 1)), m)
        /\ NotAfter(m, Month(last.year, Or(last.month, 12)))}
=============================================================================
