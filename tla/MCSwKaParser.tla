--------------------------- MODULE MCSwKaParser ----------------------------
(* A website of two canteens and two weeks of two days.                    *)
EXTENDS SwKaParser

CONSTANTS moltke, erzberger, soup, stew, gluten, colorant, beef, other, grill

MCCanteens == <<moltke, erzberger>>

Node(name, type, title, codes, id) ==
    [name |-> name, type |-> type, title |-> title, prices |-> <<4, 6, 5, 3>>, info |-> codes,
     id |-> id]

\* The CO2 rating stands in one place, a value in the other or in both.
FactsRow(id, nutrients, tierwohl, co2) ==
    [id |-> id, nutrients |-> nutrients, max_rating |-> 3,
     rating |-> [a \in Area |-> IF a = "co2" THEN None
                               ELSE IF a = "tierwohl" THEN tierwohl ELSE 2],
     value |-> [a \in Area |-> IF a = "co2" THEN co2 ELSE 500]]

\* Soup lacks a nutrient, stew a rating or, where it has no nutrient either, a CO2
\* value that can be read; closed lines have no row.
Facts == <<FactsRow(11, <<9, 1>>, None, None), FactsRow(12, <<7, None>>, 1, None)>>
FactsUnread == <<FactsRow(11, <<9, None>>, 1, Unreadable), FactsRow(12, <<7, 2>>, 1, 800)>>

Row(name, dishes, facts) == [name |-> name, dishes |-> dishes, facts |-> facts]

Open == <<Row(grill, <<Node(stew, 6, beef, <<gluten, other>>, 11),
                       Node(soup, 2, other, <<colorant, gluten>>, 12)>>, Facts)>>
Evening == <<Row(None, <<Node(soup, 0, beef, <<>>, 12)>>, Facts),
             Row(grill, <<Node(soup, 0, None, None, 12),
                           Node(stew, 0, beef, <<gluten>>, 11),
                           Node(stew, 1, beef, <<gluten>>, None)>>, FactsUnread)>>
Shut == <<Row(grill, <<[Node(Closed, 7, None, None, None) EXCEPT
                             !.prices = <<None, None, None, None>>]>>, <<>>)>>

Page(name, nav, days) == [root |-> TRUE, name |-> name, nav |-> nav, days |-> days]
NotFound == [root |-> FALSE, name |-> None, nav |-> <<>>, days |-> <<>>]

\* In the first week a page may lose the text of a date, with or without the
\* day that belongs to another.
MCSite ==
    [url \in {moltke, erzberger} \X {0, 1} |->
        IF url[1] = moltke
        THEN IF url[2] = 0
             THEN {Page(moltke, <<0, 1>>, <<Open, Shut>>),
                   Page(moltke, <<Unreadable, 1>>, <<Open, Evening>>)}
             ELSE {Page(moltke, <<2>>, <<Evening>>)}
        ELSE IF url[2] = 0
             THEN {Page(erzberger, <<0, 1>>, <<Shut, Open>>), NotFound}
             ELSE {Page(erzberger, <<2>>, <<Open>>)}]

ASSUME MCPages == PagesWellMade /\ PagesNamed
=============================================================================
