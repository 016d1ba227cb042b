------------------------- MODULE MealplanMenuProofs -------------------------
(* That the plan of a day is the page of the website, for every website    *)
(* and however many runs of the jobs overlap, and that no food is inserted *)
(* twice while runs do not overlap and none fails.                         *)
EXTENDS MealplanUpdateProofs, WellFoundedInduction

\* Every canteen has one place on a page.  With two, the second would dissolve what
\* the first has put on the plan.
CanteensListedOnce ==
    \A page \in Pages : \A j, k \in DOMAIN page : page[j].name = page[k].name => j = k

-----------------------------------------------------------------------------
(* Alike                                                                   *)

LEMMA AlikeSelf == \A n \in Name : Alike(n, n)
BY DEF Alike

LEMMA AlikeSwapped ==
    ASSUME NEW m \in Name, NEW n \in Name, Alike(m, n)
    PROVE  Alike(n, m)
<1> SUFFICES ASSUME NEW S \in SUBSET Name, n \in S,
                    \A p \in S, q \in Name : Similarity[p, q] >= Threshold => q \in S,
                    m \notin S
             PROVE  FALSE
  BY DEF Alike
<1> DEFINE R == Name \ S
<1>1. ASSUME NEW p \in R, NEW q \in Name, Similarity[p, q] >= Threshold
      PROVE  q \in R
  <2>1. Similarity[q, p] >= Threshold
    BY <1>1, SimilarityAssumption
  <2> QED
    BY <1>1, <2>1
<1>2. m \in R /\ R \in SUBSET Name
  OBVIOUS
<1>3. n \in R
  BY <1>1, <1>2 DEF Alike
<1> QED
  BY <1>3

LEMMA AlikeLinked ==
    ASSUME NEW m \in Name, NEW n \in Name, NEW p \in Name, Alike(m, n), Alike(n, p)
    PROVE  Alike(m, p)
BY DEF Alike

LEMMA SimilarAlike ==
    ASSUME NEW m \in Name, NEW n \in Name, Similarity[m, n] >= Threshold
    PROVE  Alike(m, n)
BY DEF Alike

-----------------------------------------------------------------------------
(* What a run has still to do                                              *)

Dishes(cn, ln, ds) == {[canteen |-> cn, line |-> ln, dish |-> ds[k]] : k \in DOMAIN ds}

LinesMenu(cn, ls) == UNION {Dishes(cn, ls[k].name, ls[k].dishes) : k \in DOMAIN ls}

PageNames(page) == {page[k].name : k \in DOMAIN page}

\* The dishes that the loops of t have still to reach, on the day t is at.
Left(t) ==
    Dishes(t.canteenName, t.lineName, t.dishesLeft)
      \cup LinesMenu(t.canteenName, t.linesLeft)
      \cup Menu(t.canteensLeft)

InHand(t) ==
    IF t.pc \in DishPC
    THEN {[canteen |-> t.canteenName, line |-> t.lineName, dish |-> t.dish]} ELSE {}

\* The dishes of day d that t has still to reach.
ToReach(t, d) ==
    (IF d \in t.days THEN Menu(t.web[d]) ELSE {}) \cup (IF t.day = d THEN Left(t) ELSE {})

\* All that t has still to put on the plan of day d.
Todo(t, d) == ToReach(t, d) \cup (IF t.day = d THEN InHand(t) ELSE {})

\* The canteens of day d that t has still to enter.
ToEnter(t, d) ==
    (IF d \in t.days THEN PageNames(t.web[d]) ELSE {})
      \cup (IF t.day = d THEN PageNames(t.canteensLeft) ELSE {})

\* The canteens whose plan of day d is still to be dissolved by t.
Uncleared(t, d) ==
    ToEnter(t, d) \cup (IF t.day = d /\ t.pc \in CanteenPC THEN {t.canteenName} ELSE {})

LEMMA SequenceSplit ==
    ASSUME NEW S, NEW s \in Seq(S), s # <<>>
    PROVE  /\ \A k \in DOMAIN s : s[k] = Head(s) \/ \E j \in DOMAIN Tail(s) : s[k] = Tail(s)[j]
           /\ \A j \in DOMAIN Tail(s) : \E k \in DOMAIN s : Tail(s)[j] = s[k]
           /\ \E k \in DOMAIN s : s[k] = Head(s)
<1>1. s \in [1..Len(s) -> S] /\ Len(s) \in Nat /\ Len(s) > 0
  OBVIOUS
<1>2. /\ DOMAIN Tail(s) = 1..(Len(s) - 1)
      /\ \A i \in 1..(Len(s) - 1) : Tail(s)[i] = s[i + 1]
  BY <1>1
<1>3. ASSUME NEW k \in DOMAIN s
      PROVE  s[k] = Head(s) \/ \E j \in DOMAIN Tail(s) : s[k] = Tail(s)[j]
  <2>1. k \in 1..Len(s)
    BY <1>1
  <2>2. CASE k = 1
    BY <1>1, <2>2
  <2>3. CASE k # 1
    <3>1. k - 1 \in 1..(Len(s) - 1) /\ (k - 1) + 1 = k
      BY <1>1, <2>1, <2>3
    <3>2. k - 1 \in DOMAIN Tail(s) /\ Tail(s)[k - 1] = s[(k - 1) + 1]
      BY <1>2, <3>1
    <3> QED
      BY <3>1, <3>2
  <2> QED
    BY <2>2, <2>3
<1>4. ASSUME NEW j \in DOMAIN Tail(s)
      PROVE  \E k \in DOMAIN s : Tail(s)[j] = s[k]
  <2>1. j \in 1..(Len(s) - 1)
    BY <1>2
  <2>2. j + 1 \in DOMAIN s /\ Tail(s)[j] = s[j + 1]
    BY <1>1, <1>2, <2>1
  <2> QED
    BY <2>2
<1>5. 1 \in DOMAIN s /\ s[1] = Head(s)
  BY <1>1
<1> QED
  BY <1>3, <1>4, <1>5

LEMMA DishesSplit ==
    ASSUME NEW cn, NEW ln, NEW ds \in Seq(Dish), ds # <<>>
    PROVE  Dishes(cn, ln, ds) =
             {[canteen |-> cn, line |-> ln, dish |-> Head(ds)]} \cup Dishes(cn, ln, Tail(ds))
<1>1. /\ \A k \in DOMAIN ds : ds[k] = Head(ds) \/ \E j \in DOMAIN Tail(ds) : ds[k] = Tail(ds)[j]
      /\ \A j \in DOMAIN Tail(ds) : \E k \in DOMAIN ds : Tail(ds)[j] = ds[k]
      /\ \E k \in DOMAIN ds : ds[k] = Head(ds)
  BY SequenceSplit
<1> DEFINE h == Head(ds)
           t == Tail(ds)
<1> HIDE DEF h, t
<1>2. /\ \A k \in DOMAIN ds : ds[k] = h \/ \E j \in DOMAIN t : ds[k] = t[j]
      /\ \A j \in DOMAIN t : \E k \in DOMAIN ds : t[j] = ds[k]
      /\ \E k \in DOMAIN ds : ds[k] = h
  BY <1>1 DEF h, t
<1>3. Dishes(cn, ln, ds) = {[canteen |-> cn, line |-> ln, dish |-> h]} \cup Dishes(cn, ln, t)
  BY <1>2, SMT DEF Dishes
<1> QED
  BY <1>3 DEF h, t

LEMMA LinesSplit ==
    ASSUME NEW cn, NEW ls \in Seq(ParsedLine), ls # <<>>
    PROVE  LinesMenu(cn, ls) =
             Dishes(cn, Head(ls).name, Head(ls).dishes) \cup LinesMenu(cn, Tail(ls))
<1>1. /\ \A k \in DOMAIN ls : ls[k] = Head(ls) \/ \E j \in DOMAIN Tail(ls) : ls[k] = Tail(ls)[j]
      /\ \A j \in DOMAIN Tail(ls) : \E k \in DOMAIN ls : Tail(ls)[j] = ls[k]
      /\ \E k \in DOMAIN ls : ls[k] = Head(ls)
  BY SequenceSplit
<1> DEFINE h == Head(ls)
           t == Tail(ls)
<1> HIDE DEF h, t
<1>2. /\ \A k \in DOMAIN ls : ls[k] = h \/ \E j \in DOMAIN t : ls[k] = t[j]
      /\ \A j \in DOMAIN t : \E k \in DOMAIN ls : t[j] = ls[k]
      /\ \E k \in DOMAIN ls : ls[k] = h
  BY <1>1 DEF h, t
<1>3. LinesMenu(cn, ls) = Dishes(cn, h.name, h.dishes) \cup LinesMenu(cn, t)
  BY <1>2, SMT DEF LinesMenu
<1> QED
  BY <1>3 DEF h, t

LEMMA MenuByCanteen ==
    ASSUME NEW page
    PROVE  Menu(page) = UNION {LinesMenu(page[c].name, page[c].lines) : c \in DOMAIN page}
BY Zenon DEF Menu, LinesMenu, Dishes

LEMMA PageSplit ==
    ASSUME NEW page \in Seq(ParsedCanteen), page # <<>>
    PROVE  /\ Menu(page) = LinesMenu(Head(page).name, Head(page).lines) \cup Menu(Tail(page))
           /\ PageNames(page) = {Head(page).name} \cup PageNames(Tail(page))
<1>1. /\ \A k \in DOMAIN page : page[k] = Head(page) \/ \E j \in DOMAIN Tail(page) : page[k] = Tail(page)[j]
      /\ \A j \in DOMAIN Tail(page) : \E k \in DOMAIN page : Tail(page)[j] = page[k]
      /\ \E k \in DOMAIN page : page[k] = Head(page)
  BY SequenceSplit
<1> DEFINE h == Head(page)
           t == Tail(page)
<1> HIDE DEF h, t
<1>2. /\ \A k \in DOMAIN page : page[k] = h \/ \E j \in DOMAIN t : page[k] = t[j]
      /\ \A j \in DOMAIN t : \E k \in DOMAIN page : t[j] = page[k]
      /\ \E k \in DOMAIN page : page[k] = h
  BY <1>1 DEF h, t
<1>3. Menu(page) = LinesMenu(h.name, h.lines) \cup Menu(t)
  BY <1>2, MenuByCanteen, SMT
<1>4. PageNames(page) = {h.name} \cup PageNames(t)
  BY <1>2, SMT DEF PageNames
<1> QED
  BY <1>3, <1>4 DEF h, t

LEMMA NothingLeft ==
    /\ \A cn, ln : Dishes(cn, ln, <<>>) = {}
    /\ \A cn : LinesMenu(cn, <<>>) = {}
    /\ Menu(<<>>) = {} /\ PageNames(<<>>) = {}
BY DEF Dishes, LinesMenu, Menu, PageNames

\* An item of a canteen carries its name.
LEMMA MenuNames ==
    ASSUME NEW page, NEW m \in Menu(page)
    PROVE  \E c \in DOMAIN page :
             m.canteen = page[c].name /\ m \in LinesMenu(page[c].name, page[c].lines)
BY MenuByCanteen DEF LinesMenu, Dishes
-----------------------------------------------------------------------------
(* Where the loops go next                                                 *)

\* The loops of t have not yet ended the page they are on.
More(t) == t.canteensLeft # <<>> \/ t.linesLeft # <<>> \/ t.dishesLeft # <<>>

\* What is left of a page is part of it.
Within(t, page) ==
    /\ Left(t) \subseteq Menu(page)
    /\ \A k \in DOMAIN t.canteensLeft : \E n \in DOMAIN page : t.canteensLeft[k] = page[n]

\* The loops of t are somewhere on the page of its day.
OnPage(t) ==
    /\ t.day \notin t.days
    /\ Within(t, t.web[t.day])
    /\ InHand(t) \subseteq Menu(t.web[t.day])
    /\ t.pc \in CanteenPC =>
         \E n \in DOMAIN t.web[t.day] :
             /\ t.canteenName = t.web[t.day][n].name
             /\ t.linesLeft = t.web[t.day][n].lines

\* The rows t has found or inserted are those of its canteen and of its line, when
\* cs and ls are the tables.
KnowsRows(t, cs, ls) ==
    /\ t.pc \in {"dissolve_relations"} \cup LinePC \cup DishPC => cs[t.canteen] = t.canteenName
    /\ t.pc \in DishPC => ls[t.line] = [canteen |-> t.canteen, name |-> t.lineName]

\* The loops can go on from t on the page of its day, with the rows they need.
MayGoOn(t, cs, ls) ==
    /\ WorkLeft(t)
    /\ More(t) => t.day \in Day /\ t.day \notin t.days /\ Within(t, t.web[t.day])
    /\ t.linesLeft # <<>> \/ t.dishesLeft # <<>> => cs[t.canteen] = t.canteenName
    /\ t.dishesLeft # <<>> => ls[t.line] = [canteen |-> t.canteen, name |-> t.lineName]

\* Nothing is skipped between t and next.
GoesOn(next, t, cs, ls) ==
    /\ \A d \in Day : Todo(next, d) = ToReach(t, d) /\ Uncleared(next, d) = ToEnter(t, d)
    /\ next # Idle => OnPage(next) /\ KnowsRows(next, cs, ls) /\ next.web = t.web
    /\ next # Idle => \A d \in Day : next.day = d \/ d \in next.days =>
                                        d \in t.days \/ (t.day = d /\ More(t))

LEMMA AtDishFields ==
    ASSUME NEW t, Shape(t)
    PROVE  /\ AtDish(t).pc = "get_similar_meal"
           /\ AtDish(t).dish = Head(t.dishesLeft) /\ AtDish(t).dishesLeft = Tail(t.dishesLeft)
           /\ AtDish(t).web = t.web /\ AtDish(t).days = t.days /\ AtDish(t).day = t.day
           /\ AtDish(t).canteensLeft = t.canteensLeft /\ AtDish(t).linesLeft = t.linesLeft
           /\ AtDish(t).canteen = t.canteen /\ AtDish(t).line = t.line
           /\ AtDish(t).canteenName = t.canteenName /\ AtDish(t).lineName = t.lineName
BY FieldNames DEF AtDish, Shape

LEMMA AtLineFields ==
    ASSUME NEW t, NEW l, Shape(t)
    PROVE  /\ AtLine(t, l).pc = "get_similar_line" /\ AtLine(t, l).lineName = l.name
           /\ AtLine(t, l).dishesLeft = l.dishes /\ AtLine(t, l).linesLeft = Tail(t.linesLeft)
           /\ AtLine(t, l).web = t.web /\ AtLine(t, l).days = t.days /\ AtLine(t, l).day = t.day
           /\ AtLine(t, l).canteensLeft = t.canteensLeft /\ AtLine(t, l).canteen = t.canteen
           /\ AtLine(t, l).canteenName = t.canteenName
BY FieldNames DEF AtLine, Shape

LEMMA AtCanteenFields ==
    ASSUME NEW t, NEW d, NEW page
    PROVE  /\ AtCanteen(t, d, page).pc = "get_similar_canteen"
           /\ AtCanteen(t, d, page).canteenName = Head(page).name
           /\ AtCanteen(t, d, page).web = t.web /\ AtCanteen(t, d, page).days = t.days \ {d}
           /\ AtCanteen(t, d, page).day = d
           /\ AtCanteen(t, d, page).linesLeft = Head(page).lines
           /\ AtCanteen(t, d, page).canteensLeft = Tail(page)
           /\ AtCanteen(t, d, page).dishesLeft = <<>>
BY DEF AtCanteen, Idle

LEMMA IdleDoesNothing ==
    ASSUME NEW d
    PROVE  Todo(Idle, d) = {} /\ Uncleared(Idle, d) = {}
<1>1. /\ Idle.pc = "idle" /\ Idle.days = {} /\ Idle.dishesLeft = <<>>
      /\ Idle.linesLeft = <<>> /\ Idle.canteensLeft = <<>>
  BY DEF Idle
<1>2. Left(Idle) = {}
  BY <1>1, NothingLeft, Zenon DEF Left
<1>3. ToReach(Idle, d) = {} /\ ToEnter(Idle, d) = {}
  BY <1>1, <1>2, NothingLeft DEF ToReach, ToEnter
<1>4. InHand(Idle) = {} /\ Idle.pc \notin CanteenPC
  BY <1>1 DEF InHand, DishPC, CanteenPC
<1> QED
  BY <1>3, <1>4 DEF Todo, Uncleared

LEMMA NextDish ==
    ASSUME NEW cs, NEW ls, NEW t, MayGoOn(t, cs, ls), t.dishesLeft # <<>>
    PROVE  GoesOn(AtDish(t), t, cs, ls)
<1>0. Shape(t) /\ t.dishesLeft \in Seq(Dish) /\ More(t)
  BY DEF MayGoOn, WorkLeft, More
<1> DEFINE new == AtDish(t)
           item == [canteen |-> t.canteenName, line |-> t.lineName, dish |-> Head(t.dishesLeft)]
<1>1. /\ new.pc = "get_similar_meal"
      /\ new.dish = Head(t.dishesLeft) /\ new.dishesLeft = Tail(t.dishesLeft)
      /\ new.web = t.web /\ new.days = t.days /\ new.day = t.day
      /\ new.canteensLeft = t.canteensLeft /\ new.linesLeft = t.linesLeft
      /\ new.canteen = t.canteen /\ new.line = t.line
      /\ new.canteenName = t.canteenName /\ new.lineName = t.lineName
  BY <1>0, AtDishFields
<1> HIDE DEF new
<1>2. InHand(new) = {item}
  BY <1>1 DEF InHand, DishPC
<1>3. Left(t) = {item} \cup Left(new)
  <2>1. Dishes(t.canteenName, t.lineName, t.dishesLeft)
          = {item} \cup Dishes(t.canteenName, t.lineName, Tail(t.dishesLeft))
    BY <1>0, DishesSplit
  <2> HIDE DEF item
  <2> QED
    BY <1>1, <2>1, Zenon DEF Left
<1> HIDE DEF item
<1>4. ASSUME NEW d \in Day
      PROVE  Todo(new, d) = ToReach(t, d) /\ Uncleared(new, d) = ToEnter(t, d)
  <2>1. Todo(new, d) = ToReach(t, d)
    BY <1>1, <1>2, <1>3 DEF Todo, ToReach
  <2>2. new.pc \notin CanteenPC
    BY <1>1 DEF CanteenPC
  <2> QED
    BY <1>1, <2>1, <2>2 DEF Uncleared, ToEnter
<1>5. t.day \notin t.days /\ Within(t, t.web[t.day])
  BY <1>0 DEF MayGoOn
<1>6. OnPage(new)
  <2>1. Left(new) \subseteq Menu(t.web[t.day]) /\ InHand(new) \subseteq Menu(t.web[t.day])
    BY <1>2, <1>3, <1>5 DEF Within
  <2>2. new.pc \notin CanteenPC
    BY <1>1 DEF CanteenPC
  <2> QED
    BY <1>1, <1>5, <2>1, <2>2 DEF OnPage, Within
<1>7. KnowsRows(new, cs, ls)
  BY <1>1 DEF KnowsRows, MayGoOn
<1> QED
  BY <1>0, <1>1, <1>4, <1>6, <1>7 DEF GoesOn, new

LEMMA NextLine ==
    ASSUME NEW cs, NEW ls, NEW t, MayGoOn(t, cs, ls), t.dishesLeft = <<>>, t.linesLeft # <<>>
    PROVE  GoesOn(AtLine(t, Head(t.linesLeft)), t, cs, ls)
<1>0. Shape(t) /\ t.linesLeft \in Seq(ParsedLine) /\ More(t)
  BY DEF MayGoOn, WorkLeft, More
<1> DEFINE l == Head(t.linesLeft)
           new == AtLine(t, l)
<1>1. /\ new.pc = "get_similar_line" /\ new.lineName = l.name
      /\ new.dishesLeft = l.dishes /\ new.linesLeft = Tail(t.linesLeft)
      /\ new.web = t.web /\ new.days = t.days /\ new.day = t.day
      /\ new.canteensLeft = t.canteensLeft /\ new.canteen = t.canteen
      /\ new.canteenName = t.canteenName
  BY <1>0, AtLineFields
<1>2. LinesMenu(t.canteenName, t.linesLeft)
        = Dishes(t.canteenName, l.name, l.dishes) \cup LinesMenu(t.canteenName, Tail(t.linesLeft))
  BY <1>0, LinesSplit
<1> HIDE DEF new, l
<1>3. InHand(new) = {} /\ new.pc \notin CanteenPC /\ new.pc \notin DishPC
  BY <1>1 DEF InHand, DishPC, CanteenPC
<1>4. Left(t) = Left(new)
  BY <1>1, <1>2, NothingLeft, Zenon DEF Left
<1>5. ASSUME NEW d \in Day
      PROVE  Todo(new, d) = ToReach(t, d) /\ Uncleared(new, d) = ToEnter(t, d)
  BY <1>1, <1>3, <1>4 DEF Todo, ToReach, Uncleared, ToEnter
<1>6. t.day \notin t.days /\ Within(t, t.web[t.day])
  BY <1>0 DEF MayGoOn
<1>7. OnPage(new)
  BY <1>1, <1>3, <1>4, <1>6 DEF OnPage, Within
<1>8. KnowsRows(new, cs, ls)
  BY <1>1, <1>3 DEF KnowsRows, MayGoOn
<1> QED
  BY <1>0, <1>1, <1>5, <1>7, <1>8 DEF GoesOn, new, l

\* new is at the first canteen of page, which is what is left of the page of day d0.
Enters(new, t, d0, page, cs, ls) ==
    /\ OnPage(new) /\ KnowsRows(new, cs, ls)
    /\ new.web = t.web /\ new.days = t.days \ {d0} /\ new.day = d0
    /\ \A d \in Day :
         /\ Todo(new, d) = (IF d \in t.days \ {d0} THEN Menu(t.web[d]) ELSE {})
                             \cup (IF d0 = d THEN Menu(page) ELSE {})
         /\ Uncleared(new, d) = (IF d \in t.days \ {d0} THEN PageNames(t.web[d]) ELSE {})
                                  \cup (IF d0 = d THEN PageNames(page) ELSE {})

LEMMA NextCanteen ==
    ASSUME NEW cs, NEW ls, NEW t, WorkLeft(t), NEW d0 \in Day, NEW page \in Seq(ParsedCanteen),
           page # <<>>,
           \A k \in DOMAIN page : \E n \in DOMAIN t.web[d0] : page[k] = t.web[d0][n],
           Menu(page) \subseteq Menu(t.web[d0])
    PROVE  Enters(AtCanteen(t, d0, page), t, d0, page, cs, ls)
<1> DEFINE h == Head(page)
           new == AtCanteen(t, d0, page)
<1>1. /\ new.pc = "get_similar_canteen" /\ new.canteenName = h.name
      /\ new.web = t.web /\ new.days = t.days \ {d0} /\ new.day = d0
      /\ new.linesLeft = h.lines /\ new.canteensLeft = Tail(page) /\ new.dishesLeft = <<>>
  BY AtCanteenFields
<1>2. /\ Menu(page) = LinesMenu(h.name, h.lines) \cup Menu(Tail(page))
      /\ PageNames(page) = {h.name} \cup PageNames(Tail(page))
  BY PageSplit
<1>3. /\ \A k \in DOMAIN Tail(page) : \E n \in DOMAIN t.web[d0] : Tail(page)[k] = t.web[d0][n]
      /\ \E n \in DOMAIN t.web[d0] : h = t.web[d0][n]
  <2>1. /\ \A j \in DOMAIN Tail(page) : \E k \in DOMAIN page : Tail(page)[j] = page[k]
        /\ \E k \in DOMAIN page : page[k] = h
    BY SequenceSplit
  <2> HIDE DEF h
  <2> DEFINE rest == Tail(page)
  <2> HIDE DEF rest
  <2>2. \A j \in DOMAIN rest : \E k \in DOMAIN page : rest[j] = page[k]
    BY <2>1 DEF rest
  <2>3. \A k \in DOMAIN rest : \E n \in DOMAIN t.web[d0] : rest[k] = t.web[d0][n]
    BY <2>2
  <2> QED
    BY <2>1, <2>3 DEF rest
<1> HIDE DEF new, h
<1>4. InHand(new) = {} /\ new.pc \in CanteenPC /\ new.pc \notin DishPC
  BY <1>1 DEF InHand, DishPC, CanteenPC
<1>5. Left(new) = Menu(page)
  BY <1>1, <1>2, NothingLeft, Zenon DEF Left
<1>6. ASSUME NEW d \in Day
      PROVE  /\ Todo(new, d) = (IF d \in t.days \ {d0} THEN Menu(t.web[d]) ELSE {})
                                 \cup (IF d0 = d THEN Menu(page) ELSE {})
             /\ Uncleared(new, d) = (IF d \in t.days \ {d0} THEN PageNames(t.web[d]) ELSE {})
                                      \cup (IF d0 = d THEN PageNames(page) ELSE {})
  <2>1. Todo(new, d) = (IF d \in t.days \ {d0} THEN Menu(t.web[d]) ELSE {})
                         \cup (IF d0 = d THEN Menu(page) ELSE {})
    BY <1>1, <1>4, <1>5 DEF Todo, ToReach
  <2>2. Uncleared(new, d) = (IF d \in t.days \ {d0} THEN PageNames(t.web[d]) ELSE {})
                              \cup (IF d0 = d THEN PageNames(page) ELSE {})
    BY <1>1, <1>2, <1>4 DEF Uncleared, ToEnter
  <2> QED
    BY <2>1, <2>2
<1>7. OnPage(new)
  <2>1. Within(new, t.web[d0])
    BY <1>1, <1>3, <1>5 DEF Within
  <2>2. \E n \in DOMAIN t.web[d0] :
          new.canteenName = t.web[d0][n].name /\ new.linesLeft = t.web[d0][n].lines
    BY <1>1, <1>3
  <2>3. new.day \notin new.days
    BY <1>1
  <2> QED
    BY <1>1, <1>4, <2>1, <2>2, <2>3 DEF OnPage
<1>8. KnowsRows(new, cs, ls)
  BY <1>1, <1>4 DEF KnowsRows, LinePC
<1> QED
  BY <1>1, <1>6, <1>7, <1>8 DEF new, Enters

LEMMA NextCanteenOfDay ==
    ASSUME NEW cs, NEW ls, NEW t, MayGoOn(t, cs, ls), t.dishesLeft = <<>>, t.linesLeft = <<>>,
           t.canteensLeft # <<>>
    PROVE  GoesOn(AtCanteen(t, t.day, t.canteensLeft), t, cs, ls)
<1> DEFINE new == AtCanteen(t, t.day, t.canteensLeft)
<1>0. /\ WorkLeft(t) /\ More(t) /\ t.canteensLeft \in Seq(ParsedCanteen)
      /\ t.day \in Day /\ t.day \notin t.days /\ Within(t, t.web[t.day])
  BY DEF MayGoOn, WorkLeft, More
<1>1. Left(t) = Menu(t.canteensLeft)
  BY NothingLeft, Zenon DEF Left
<1>2. Enters(new, t, t.day, t.canteensLeft, cs, ls)
  <2>1. /\ \A k \in DOMAIN t.canteensLeft :
              \E n \in DOMAIN t.web[t.day] : t.canteensLeft[k] = t.web[t.day][n]
        /\ Menu(t.canteensLeft) \subseteq Menu(t.web[t.day])
    BY <1>0, <1>1 DEF Within
  <2> QED
    BY <1>0, <2>1, NextCanteen
<1> HIDE DEF new
<1>3. t.days \ {t.day} = t.days
  BY <1>0
<1>4. \A d \in Day : Todo(new, d) = ToReach(t, d) /\ Uncleared(new, d) = ToEnter(t, d)
  BY <1>1, <1>2, <1>3, Zenon DEF ToReach, ToEnter, Enters
<1> QED
  BY <1>0, <1>2, <1>4 DEF GoesOn, Enters, new

LEMMA NextDay ==
    ASSUME NEW cs, NEW ls, NEW t, MayGoOn(t, cs, ls), t.dishesLeft = <<>>, t.linesLeft = <<>>,
           t.canteensLeft = <<>>, NEW d0 \in t.days
    PROVE  GoesOn(AtCanteen(t, d0, t.web[d0]), t, cs, ls)
<1> DEFINE new == AtCanteen(t, d0, t.web[d0])
<1>0. WorkLeft(t) /\ d0 \in Day /\ t.web[d0] \in Seq(ParsedCanteen) /\ t.web[d0] # <<>>
  BY PagesAssumption DEF MayGoOn, WorkLeft
<1>1. Left(t) = {}
  BY NothingLeft, Zenon DEF Left
<1>2. Enters(new, t, d0, t.web[d0], cs, ls)
  BY <1>0, NextCanteen
<1> HIDE DEF new
<1>3. ASSUME NEW d \in Day
      PROVE  Todo(new, d) = ToReach(t, d) /\ Uncleared(new, d) = ToEnter(t, d)
  <2>1. ToReach(t, d) = IF d \in t.days THEN Menu(t.web[d]) ELSE {}
    BY <1>1 DEF ToReach
  <2>2. ToEnter(t, d) = IF d \in t.days THEN PageNames(t.web[d]) ELSE {}
    BY NothingLeft DEF ToEnter
  <2>3. CASE d = d0
    BY <1>2, <2>1, <2>2, <2>3 DEF Enters
  <2>4. CASE d # d0
    BY <1>2, <2>1, <2>2, <2>4 DEF Enters
  <2> QED
    BY <2>3, <2>4
<1> QED
  BY <1>2, <1>3 DEF GoesOn, Enters, new

LEMMA NextPlace ==
    ASSUME NEW cs, NEW ls, NEW t, MayGoOn(t, cs, ls), NEW next \in Proceed(t)
    PROVE  GoesOn(next, t, cs, ls)
<1>1. CASE t.dishesLeft # <<>>
  BY <1>1, NextDish DEF Proceed
<1>2. CASE t.dishesLeft = <<>> /\ t.linesLeft # <<>>
  BY <1>2, NextLine DEF Proceed
<1>3. CASE t.dishesLeft = <<>> /\ t.linesLeft = <<>> /\ t.canteensLeft # <<>>
  BY <1>3, NextCanteenOfDay DEF Proceed
<1>4. CASE t.dishesLeft = <<>> /\ t.linesLeft = <<>> /\ t.canteensLeft = <<>> /\ t.days # {}
  BY <1>4, NextDay DEF Proceed
<1>5. CASE t.dishesLeft = <<>> /\ t.linesLeft = <<>> /\ t.canteensLeft = <<>> /\ t.days = {}
  <2>1. next = Idle
    BY <1>5 DEF Proceed
  <2>2. Left(t) = {}
    BY <1>5, NothingLeft, Zenon DEF Left
  <2>3. \A d \in Day : ToReach(t, d) = {} /\ ToEnter(t, d) = {}
    BY <1>5, <2>2, NothingLeft DEF ToReach, ToEnter
  <2> QED
    BY <2>1, <2>3, IdleDoesNothing DEF GoesOn
<1> QED
  BY <1>1, <1>2, <1>3, <1>4, <1>5
-----------------------------------------------------------------------------
(* The inductive invariant                                                 *)

RunsOnPage ==
    \A r \in Run : run[r] # Idle => OnPage(run[r]) /\ KnowsRows(run[r], canteens, lines)

RunsNameFood ==
    \A r \in Run : run[r].pc \in HasFoodPC => Alike(run[r].dish.name, foods[run[r].food])

PlanNamesFood == \A e \in plan : Alike(e.dish.name, foods[e.food])

\* What was agreed is what everybody who works on it has read.
RunsAgree ==
    \A d \in Day : agreed[d] # None =>
        \A r \in Run : WorksOn(r, d) => run[r].web[d] = agreed[d]

CanteenOf(e) == canteens[lines[e.line].canteen]

Item(e) == [canteen |-> CanteenOf(e), line |-> lines[e.line].name, dish |-> e.dish]

\* Entry e of the plan stands for item m of a menu, perhaps with an alike dish.
PlacedBy(m, e) ==
    /\ CanteenOf(e) = m.canteen /\ lines[e.line].name = m.line
    /\ Alike(m.dish.name, e.dish.name)
    /\ m.dish.allergens \subseteq allergens[e.food]
    /\ m.dish.facts # None => facts[e.food] # None

Placed(m, d) == \E e \in plan : e.day = d /\ PlacedBy(m, e)

\* What is left of an older page is still to be dissolved.
OldPageGoes(d) ==
    \A e \in plan : e.day = d /\ CanteenOf(e) \in PageNames(agreed[d]) =>
        \/ Item(e) \in Menu(agreed[d])
        \/ \E r \in Run : CanteenOf(e) \in Uncleared(run[r], d)

\* What is not on the plan is still to be put there.
NothingForgotten(d) ==
    \A m \in Menu(agreed[d]) : Placed(m, d) \/ \E r \in Run : m \in Todo(run[r], d)

NamesInv == RunsOnPage /\ RunsNameFood /\ PlanNamesFood /\ RunsAgree

PlanInv ==
    CanteensListedOnce /\ UniqueCanteens =>
        \A d \in Day : agreed[d] # None => OldPageGoes(d) /\ NothingForgotten(d)

-----------------------------------------------------------------------------
(* What statements leave alone                                             *)

\* Rows of canteens and of lines keep what they say.
RowsSame ==
    /\ \A c \in CanteenId : canteens[c] # None => canteens'[c] = canteens[c]
    /\ \A l \in LineId : lines[l] # None => lines'[l] = lines[l]

\* A food is only ever renamed to a similar name.
FoodsMove ==
    \A f \in FoodId : foods[f] # None => foods'[f] \in Name /\ Alike(foods[f], foods'[f])

\* Neither allergens nor facts of a food are taken away.
DataGrows ==
    \A f \in FoodId : /\ allergens[f] \subseteq allergens'[f]
                      /\ facts[f] # None => facts'[f] # None

\* The record of r after a step of r, which does not take up new days.
OwnStep(r) ==
    /\ OnlyRun(r)
    /\ run'[r] # Idle => OnPage(run'[r]) /\ KnowsRows(run'[r], canteens', lines')
    /\ \A d \in Day : run'[r] # Idle /\ (run'[r].day = d \/ d \in run'[r].days) =>
                          WorksOn(r, d) /\ run'[r].web[d] = run[r].web[d]

LEMMA FoodsStay == ASSUME TypeInv, UNCHANGED foods PROVE FoodsMove
<1>1. \A f \in FoodId : foods[f] # None => foods[f] \in Name
  BY DEF TypeInv, TablesTyped
<1> QED
  BY <1>1, AlikeSelf DEF FoodsMove

LEMMA RowsStay == ASSUME UNCHANGED <<canteens, lines>> PROVE RowsSame
BY DEF RowsSame

LEMMA DataStays == ASSUME UNCHANGED <<allergens, facts>> PROVE DataGrows
BY DEF DataGrows

LEMMA UniqueBefore ==
    ASSUME RowsSame, UniqueCanteens'
    PROVE  UniqueCanteens
BY DEF RowsSame, UniqueCanteens

LEMMA NotIdle ==
    ASSUME TypeInv, NEW r \in Run
    PROVE  run[r] # Idle <=> run[r].pc \in PC
BY IdleShape, PlacesApart DEF TypeInv, RunsTyped, RunTyped, Busy

LEMMA Works ==
    ASSUME TypeInv, NEW r \in Run, NEW d
    PROVE  WorksOn(r, d) <=> run[r] # Idle /\ (run[r].day = d \/ d \in run[r].days)
BY NotIdle, IdleShape, PlacesApart DEF WorksOn

\* The plan and its rows
LEMMA EntryTyped ==
    ASSUME TypeInv, NEW e \in plan
    PROVE  /\ e.line \in LineId /\ lines[e.line] # None
           /\ lines[e.line].canteen \in CanteenId /\ canteens[lines[e.line].canteen] # None
           /\ e.food \in FoodId /\ foods[e.food] \in Name
           /\ e.dish \in Dish /\ e.dish.name \in Name /\ e.day \in Day
<1>1. e \in [line : LineId, food : FoodId, day : Day, dish : Dish]
  BY DEF TypeInv, TablesTyped
<1>2. lines[e.line] # None /\ foods[e.food] # None
  BY DEF TypeInv, TablesTyped
<1>3. lines[e.line] \in [canteen : CanteenId, name : LineNames]
  BY <1>1, <1>2 DEF TypeInv, TablesTyped
<1>4. canteens[lines[e.line].canteen] # None
  BY <1>1, <1>2 DEF TypeInv, TablesTyped
<1>5. foods[e.food] \in Name
  BY <1>1, <1>2 DEF TypeInv, TablesTyped
<1> QED
  BY <1>1, <1>2, <1>3, <1>4, <1>5 DEF Dish

LEMMA EntrySame ==
    ASSUME TypeInv, RowsSame, NEW e \in plan
    PROVE  /\ lines'[e.line] = lines[e.line]
           /\ canteens'[lines'[e.line].canteen] = CanteenOf(e)
           /\ CanteenOf(e)' = CanteenOf(e) /\ Item(e)' = Item(e)
<1>1. /\ lines'[e.line] = lines[e.line]
      /\ canteens'[lines[e.line].canteen] = canteens[lines[e.line].canteen]
  BY EntryTyped DEF RowsSame
<1> QED
  BY <1>1 DEF CanteenOf, Item

LEMMA NamesKept ==
    ASSUME TypeInv, NamesInv, NEW r \in Run, OwnStep(r), RowsSame, FoodsMove,
           run'[r].pc \in HasFoodPC => Alike(run'[r].dish.name, foods'[run'[r].food]),
           \A e \in plan' : e \in plan \/ Alike(e.dish.name, foods'[e.food]),
           \A d \in Day : agreed'[d] # None => agreed'[d] = agreed[d]
    PROVE  NamesInv'
<1>0. OnlyRun(r) /\ \A q \in Run \ {r} : run'[q] = run[q]
  BY DEF OwnStep, OnlyRun
<1>1. RunsOnPage'
  <2> SUFFICES ASSUME NEW q \in Run, q # r, run[q] # Idle
               PROVE  OnPage(run[q]) /\ KnowsRows(run[q], canteens', lines')
    BY <1>0 DEF RunsOnPage, OwnStep
  <2>1. OnPage(run[q]) /\ KnowsRows(run[q], canteens, lines)
    BY DEF NamesInv, RunsOnPage
  <2>2. Rows(run[q], CanteenRows, LineRows, FoodRows)
    BY BusyAt, NotIdle
  <2>3. KnowsRows(run[q], canteens', lines')
    BY <2>1, <2>2 DEF KnowsRows, Rows, CanteenRows, LineRows, RowsSame
  <2> QED
    BY <2>1, <2>3
<1>2. RunsNameFood'
  <2> SUFFICES ASSUME NEW q \in Run, q # r, run[q].pc \in HasFoodPC
               PROVE  Alike(run[q].dish.name, foods'[run[q].food])
    BY <1>0 DEF RunsNameFood
  <2>1. Alike(run[q].dish.name, foods[run[q].food])
    BY DEF NamesInv, RunsNameFood
  <2>2. /\ run[q].dish.name \in Name /\ run[q].food \in FoodId
        /\ foods[run[q].food] # None /\ foods[run[q].food] \in Name
    BY DishInHand, DishTyped, PlacesApart DEF TypeInv, TablesTyped
  <2> QED
    BY <2>1, <2>2, AlikeLinked DEF FoodsMove
<1>3. PlanNamesFood'
  <2> SUFFICES ASSUME NEW e \in plan PROVE Alike(e.dish.name, foods'[e.food])
    BY DEF PlanNamesFood
  <2>1. Alike(e.dish.name, foods[e.food])
    BY DEF NamesInv, PlanNamesFood
  <2>2. foods[e.food] # None
    BY DEF TypeInv, TablesTyped
  <2> QED
    BY <2>1, <2>2, EntryTyped, AlikeLinked DEF FoodsMove
<1>4. RunsAgree'
  <2> SUFFICES ASSUME NEW d \in Day, agreed'[d] # None, NEW q \in Run, WorksOn(q, d)'
               PROVE  run'[q].web[d] = agreed[d]
    BY DEF RunsAgree
  <2>1. agreed[d] # None
    OBVIOUS
  <2>2. \A p \in Run : WorksOn(p, d) => run[p].web[d] = agreed[d]
    BY <2>1 DEF NamesInv, RunsAgree
  <2>3. CASE q = r
    <3>1. run'[r] # Idle /\ (run'[r].day = d \/ d \in run'[r].days)
      BY <2>3, IdleShape DEF WorksOn
    <3>2. WorksOn(r, d) /\ run'[r].web[d] = run[r].web[d]
      BY <3>1 DEF OwnStep
    <3> QED
      BY <2>2, <2>3, <3>2
  <2>4. CASE q # r
    <3>1. run'[q] = run[q]
      BY <1>0, <2>4
    <3>2. WorksOn(q, d)
      BY <3>1 DEF WorksOn
    <3> QED
      BY <2>2, <3>1, <3>2
  <2> QED
    BY <2>3, <2>4
<1> QED
  BY <1>1, <1>2, <1>3, <1>4 DEF NamesInv

LEMMA PlacedStays ==
    ASSUME TypeInv, RowsSame, DataGrows, NEW m, NEW e \in plan, PlacedBy(m, e)
    PROVE  PlacedBy(m, e)'
<1>1. CanteenOf(e)' = CanteenOf(e) /\ lines'[e.line] = lines[e.line]
  BY EntrySame
<1>2. /\ allergens[e.food] \subseteq allergens'[e.food]
      /\ facts[e.food] # None => facts'[e.food] # None
  BY EntryTyped DEF DataGrows
<1> QED
  BY <1>1, <1>2 DEF PlacedBy

\* A day on whose plan nothing changes, and of which no run skips anything.
LEMMA DayKept ==
    ASSUME TypeInv, NEW r \in Run, OnlyRun(r), RowsSame, DataGrows, plan' = plan,
           NEW d \in Day, agreed'[d] = agreed[d],
           Todo(run[r], d) \subseteq Todo(run'[r], d),
           Uncleared(run[r], d) \subseteq Uncleared(run'[r], d),
           OldPageGoes(d), NothingForgotten(d)
    PROVE  OldPageGoes(d)' /\ NothingForgotten(d)'
<1>0. \A q \in Run \ {r} : run'[q] = run[q]
  BY DEF OnlyRun
<1>1. OldPageGoes(d)'
  <2> SUFFICES ASSUME NEW e \in plan, e.day = d, CanteenOf(e)' \in PageNames(agreed[d])
               PROVE  \/ Item(e)' \in Menu(agreed[d])
                      \/ \E q \in Run : CanteenOf(e)' \in Uncleared(run'[q], d)
    BY DEF OldPageGoes
  <2>1. CanteenOf(e)' = CanteenOf(e) /\ Item(e)' = Item(e)
    BY EntrySame
  <2>2. \/ Item(e) \in Menu(agreed[d])
        \/ \E q \in Run : CanteenOf(e) \in Uncleared(run[q], d)
    BY <2>1 DEF OldPageGoes
  <2>3. ASSUME NEW q \in Run, CanteenOf(e) \in Uncleared(run[q], d)
        PROVE  CanteenOf(e) \in Uncleared(run'[q], d)
    BY <1>0, <2>3
  <2> QED
    BY <2>1, <2>2, <2>3
<1>2. NothingForgotten(d)'
  <2> SUFFICES ASSUME NEW m \in Menu(agreed[d])
               PROVE  Placed(m, d)' \/ \E q \in Run : m \in Todo(run'[q], d)
    BY DEF NothingForgotten
  <2>1. ASSUME Placed(m, d) PROVE Placed(m, d)'
    BY <2>1, PlacedStays DEF Placed
  <2>2. ASSUME NEW q \in Run, m \in Todo(run[q], d)
        PROVE  m \in Todo(run'[q], d)
    BY <1>0, <2>2
  <2> QED
    BY <2>1, <2>2 DEF NothingForgotten
<1> QED
  BY <1>1, <1>2

\* r skips nothing on the days that still count.
SkipsNothing(r) ==
    \A d \in Day : agreed'[d] # None =>
        /\ agreed'[d] = agreed[d]
        /\ Todo(run[r], d) \subseteq Todo(run'[r], d)
        /\ Uncleared(run[r], d) \subseteq Uncleared(run'[r], d)

LEMMA PlanKept ==
    ASSUME TypeInv, PlanInv, NEW r \in Run, OnlyRun(r), RowsSame, DataGrows, plan' = plan,
           SkipsNothing(r)
    PROVE  PlanInv'
<1> SUFFICES ASSUME CanteensListedOnce, UniqueCanteens', NEW d \in Day, agreed'[d] # None
             PROVE  OldPageGoes(d)' /\ NothingForgotten(d)'
  BY DEF PlanInv
<1>1. UniqueCanteens
  BY UniqueBefore
<1>2. agreed'[d] = agreed[d] /\ agreed[d] # None
  BY DEF SkipsNothing
<1>3. OldPageGoes(d) /\ NothingForgotten(d)
  BY <1>1, <1>2 DEF PlanInv
<1>4. /\ Todo(run[r], d) \subseteq Todo(run'[r], d)
      /\ Uncleared(run[r], d) \subseteq Uncleared(run'[r], d)
  BY DEF SkipsNothing
<1> QED
  BY <1>2, <1>3, <1>4, DayKept

MenuInv == NamesInv /\ PlanInv

\* Every statement but three leaves the plan alone and skips nothing.
LEMMA StatementKept ==
    ASSUME TypeInv, MenuInv, NEW r \in Run, OwnStep(r), RowsSame, FoodsMove, DataGrows,
           plan' = plan, SkipsNothing(r),
           run'[r].pc \in HasFoodPC => Alike(run'[r].dish.name, foods'[run'[r].food])
    PROVE  MenuInv'
<1>1. \A d \in Day : agreed'[d] # None => agreed'[d] = agreed[d]
  BY DEF SkipsNothing
<1>2. NamesInv'
  BY <1>1, NamesKept DEF MenuInv
<1>3. PlanInv'
  BY PlanKept DEF MenuInv, OwnStep
<1> QED
  BY <1>2, <1>3 DEF MenuInv

\* From one place of a loop body to the next.
LEMMA BodyOwn ==
    ASSUME TypeInv, NamesInv, NEW r \in Run, run[r].pc \in PC, OnlyRun(r),
           SameWork(run'[r], run[r]),
           \/ run'[r].pc \in CanteenPC /\ run[r].pc \in CanteenPC
           \/ run'[r].pc \in LinePC /\ run[r].pc \in LinePC
           \/ run'[r].pc \in DishPC /\ run[r].pc \in DishPC,
           KnowsRows(run'[r], canteens', lines')
    PROVE  /\ OwnStep(r)
           /\ \A d : Todo(run'[r], d) = Todo(run[r], d) /\ Uncleared(run'[r], d) = Uncleared(run[r], d)
<1> DEFINE t == run[r]
           u == run'[r]
<1>1. /\ SameWork(u, t)
      /\ \/ u.pc \in CanteenPC /\ t.pc \in CanteenPC
         \/ u.pc \in LinePC /\ t.pc \in LinePC
         \/ u.pc \in DishPC /\ t.pc \in DishPC
      /\ OnPage(t)
  BY NotIdle DEF NamesInv, RunsOnPage
<1> HIDE DEF t, u
<1>2. (u.pc \in DishPC <=> t.pc \in DishPC) /\ (u.pc \in CanteenPC <=> t.pc \in CanteenPC)
  BY <1>1, PlacesApart
<1>3. InHand(u) = InHand(t) /\ Left(u) = Left(t)
  BY <1>1, <1>2 DEF InHand, Left, SameWork
<1>4. \A d : Todo(u, d) = Todo(t, d) /\ Uncleared(u, d) = Uncleared(t, d)
  BY <1>1, <1>2, <1>3 DEF SameWork, Todo, ToReach, Uncleared, ToEnter
<1>5. OnPage(u)
  BY <1>1, <1>2, <1>3 DEF OnPage, Within, SameWork
<1>6. \A d \in Day : (u.day = d \/ d \in u.days) => WorksOn(r, d) /\ u.web[d] = t.web[d]
  BY <1>1, Works, NotIdle DEF SameWork, t
<1> QED
  BY <1>4, <1>5, <1>6 DEF OwnStep, t, u

\* The loops of r go on, perhaps with less than r had left.
LEMMA ContinueOwn ==
    ASSUME TypeInv, NEW r \in Run, run[r].pc \in PC, NEW t, MayGoOn(t, canteens', lines'),
           Continue(r, t), t.web = run[r].web, t.days = run[r].days, t.day = run[r].day
    PROVE  /\ OwnStep(r) /\ run'[r].pc \notin HasFoodPC
           /\ \A d \in Day : /\ Todo(run'[r], d) = ToReach(t, d)
                             /\ Uncleared(run'[r], d) = ToEnter(t, d)
<1> DEFINE cs == canteens'
           ls == lines'
<1>0. MayGoOn(t, cs, ls) /\ Shape(t)
  BY DEF MayGoOn, WorkLeft
<1> HIDE DEF cs, ls
<1>1. PICK next \in Proceed(t) : run' = [run EXCEPT ![r] = next]
  BY DEF Continue
<1>2. Shape(next) /\ next.pc \notin HasFoodPC
  BY <1>0, ProceedLooksUp
<1>3. OnlyRun(r) /\ run'[r] = next
  BY <1>1, <1>2, RunsShaped, OwnRecord
<1>4. GoesOn(next, t, cs, ls)
  BY <1>0, NextPlace
<1>5. \A d \in Day : Todo(next, d) = ToReach(t, d) /\ Uncleared(next, d) = ToEnter(t, d)
  BY <1>4 DEF GoesOn
<1>6. next # Idle => OnPage(next) /\ KnowsRows(next, cs, ls) /\ next.web = t.web
  BY <1>4 DEF GoesOn
<1>7. ASSUME next # Idle, NEW d \in Day, next.day = d \/ d \in next.days
      PROVE  WorksOn(r, d) /\ next.web[d] = run[r].web[d]
  <2>1. t.day = d \/ d \in t.days
    BY <1>4, <1>7 DEF GoesOn
  <2>2. WorksOn(r, d)
    BY <2>1, Works, NotIdle
  <2> QED
    BY <1>6, <1>7, <2>2
<1>8. OwnStep(r)
  BY <1>3, <1>6, <1>7 DEF OwnStep, cs, ls
<1> QED
  BY <1>2, <1>3, <1>5, <1>8

\* Between two places of a body nothing is skipped, whatever becomes of the history.
LEMMA BodySkipsNothing ==
    ASSUME NEW r \in Run,
           \A d : Todo(run'[r], d) = Todo(run[r], d) /\ Uncleared(run'[r], d) = Uncleared(run[r], d),
           agreed' = agreed
    PROVE  SkipsNothing(r)
BY DEF SkipsNothing

-----------------------------------------------------------------------------
(* The statements about a canteen and about a line                         *)

\* What the statement after the lookup of a canteen needs.
LEMMA CanteenStatement ==
    ASSUME TypeInv, MenuInv, NEW r \in Run, run[r].pc \in CanteenPC, OnlyRun(r),
           SameWork(run'[r], run[r]), run'[r].pc \in CanteenPC,
           run'[r].pc = "dissolve_relations" => canteens'[run'[r].canteen] = run[r].canteenName,
           RowsSame, UNCHANGED <<foods, allergens, facts, plan, agreed>>
    PROVE  MenuInv'
<1>1. run[r].pc \in PC
  BY DEF PC
<1>2. KnowsRows(run'[r], canteens', lines')
  BY DEF KnowsRows, SameWork, CanteenPC, LinePC, DishPC
<1>3. /\ OwnStep(r)
      /\ \A d : Todo(run'[r], d) = Todo(run[r], d) /\ Uncleared(run'[r], d) = Uncleared(run[r], d)
  BY <1>1, <1>2, BodyOwn DEF MenuInv
<1>4. SkipsNothing(r) /\ FoodsMove /\ DataGrows
  BY <1>3, BodySkipsNothing, FoodsStay, DataStays
<1>5. run'[r].pc \notin HasFoodPC
  BY DEF CanteenPC, HasFoodPC
<1> QED
  BY <1>3, <1>4, <1>5, StatementKept

LEMMA GetSimilarCanteenMenu ==
    ASSUME TypeInv, MenuInv, NEW r \in Run, GetSimilarCanteen(r)
    PROVE  MenuInv'
<1>1. run[r].pc \in CanteenPC /\ UNCHANGED tables /\ UNCHANGED history
  BY DEF GetSimilarCanteen, Running, CanteenPC
<1>2. RowsSame /\ UNCHANGED <<foods, allergens, facts, plan, agreed>>
  BY <1>1, RowsStay DEF tables, history
<1>3. CASE Goto(r, "insert_canteen")
  <2>1. OnlyRun(r) /\ SameWork(run'[r], run[r]) /\ run'[r].pc = "insert_canteen"
    BY <1>3, RunsShaped, GotoSameWork
  <2>2. run'[r].pc \in CanteenPC /\ run'[r].pc # "dissolve_relations"
    BY <2>1 DEF CanteenPC
  <2>3. run[r].pc \in CanteenPC /\ OnlyRun(r) /\ SameWork(run'[r], run[r])
    BY <1>1, <2>1
  <2>4. run'[r].pc = "dissolve_relations" => canteens'[run'[r].canteen] = run[r].canteenName
    BY <2>2
  <2> QED
    BY <1>2, <2>2, <2>3, <2>4, CanteenStatement
<1>4. ASSUME NEW c \in CanteenId, canteens[c] = run[r].canteenName,
             run' = [run EXCEPT ![r].pc = "dissolve_relations", ![r].canteen = c]
      PROVE  MenuInv'
  <2>1. /\ OnlyRun(r) /\ SameWork(run'[r], run[r])
        /\ run'[r].pc = "dissolve_relations" /\ run'[r].canteen = c
    BY <1>4, RunsShaped, CanteenChosen
  <2>2. canteens'[run'[r].canteen] = run[r].canteenName
    BY <1>1, <1>4, <2>1 DEF tables
  <2>3. run'[r].pc \in CanteenPC
    BY <2>1 DEF CanteenPC
  <2> QED
    BY <1>1, <1>2, <2>1, <2>2, <2>3, CanteenStatement
<1> QED
  BY <1>3, <1>4 DEF GetSimilarCanteen

LEMMA InsertCanteenMenu ==
    ASSUME TypeInv, MenuInv, NEW r \in Run, InsertCanteen(r)
    PROVE  MenuInv'
<1>1. /\ run[r].pc \in CanteenPC
      /\ UNCHANGED <<lines, foods, meals, allergens, facts, plan>> /\ UNCHANGED history
  BY DEF InsertCanteen, Running, CanteenPC
<1>2. PICK c \in CanteenId :
        /\ canteens[c] = None
        /\ canteens' = [canteens EXCEPT ![c] = run[r].canteenName]
        /\ run' = [run EXCEPT ![r].pc = "dissolve_relations", ![r].canteen = c]
  BY DEF InsertCanteen
<1>3. /\ OnlyRun(r) /\ SameWork(run'[r], run[r])
      /\ run'[r].pc = "dissolve_relations" /\ run'[r].canteen = c
  BY <1>2, RunsShaped, CanteenChosen
<1>4. canteens'[c] = run[r].canteenName /\ RowsSame
  BY <1>1, <1>2 DEF TypeInv, TablesTyped, RowsSame
<1> QED
  BY <1>1, <1>3, <1>4, CanteenStatement DEF CanteenPC, history

\* What a run that stands before a line may go on with.
LEMMA LineChosen ==
    ASSUME TypeInv, MenuInv, NEW r \in Run, run[r].pc \in LinePC, NEW l \in LineId,
           lines'[l] = [canteen |-> run[r].canteen, name |-> run[r].lineName],
           Continue(r, [run[r] EXCEPT !.line = l]),
           UNCHANGED <<canteens, foods, allergens, facts, plan, agreed>>, RowsSame
    PROVE  MenuInv'
<1> DEFINE t == [run[r] EXCEPT !.line = l]
<1>1. run[r].pc \in PC /\ run[r].pc \notin DishPC /\ run[r].pc \notin CanteenPC
  BY PlacesApart DEF PC
<1>2. /\ Busy(run[r]) /\ Shape(run[r])
      /\ OnPage(run[r]) /\ KnowsRows(run[r], canteens, lines)
  BY <1>1, BusyAt, NotIdle DEF MenuInv, NamesInv, RunsOnPage, Busy, WorkLeft
<1>3. /\ Shape(t) /\ t.line = l /\ t.canteen = run[r].canteen
      /\ t.web = run[r].web /\ t.days = run[r].days /\ t.day = run[r].day
      /\ t.canteensLeft = run[r].canteensLeft /\ t.linesLeft = run[r].linesLeft
      /\ t.dishesLeft = run[r].dishesLeft
      /\ t.canteenName = run[r].canteenName /\ t.lineName = run[r].lineName
  BY <1>2, FieldNames DEF Shape
<1> HIDE DEF t
<1>4. Left(t) = Left(run[r])
  BY <1>3 DEF Left
<1>5. MayGoOn(t, canteens', lines')
  <2>1. WorkLeft(t)
    BY <1>2, <1>3 DEF Busy, WorkLeft
  <2>2. t.day \in Day /\ t.day \notin t.days /\ Within(t, t.web[t.day])
    BY <1>2, <1>3, <1>4 DEF Busy, OnPage, Within
  <2>3. canteens'[t.canteen] = t.canteenName
    BY <1>2, <1>3 DEF KnowsRows
  <2> QED
    BY <1>3, <2>1, <2>2, <2>3 DEF MayGoOn
<1>6. /\ OwnStep(r) /\ run'[r].pc \notin HasFoodPC
      /\ \A d \in Day : /\ Todo(run'[r], d) = ToReach(t, d)
                        /\ Uncleared(run'[r], d) = ToEnter(t, d)
  BY <1>1, <1>3, <1>5, ContinueOwn DEF t
<1>7. \A d : Todo(run[r], d) = ToReach(t, d) /\ Uncleared(run[r], d) = ToEnter(t, d)
  BY <1>1, <1>3, <1>4 DEF Todo, ToReach, InHand, Uncleared, ToEnter
<1>8. SkipsNothing(r)
  BY <1>6, <1>7 DEF SkipsNothing
<1> QED
  BY <1>6, <1>8, FoodsStay, DataStays, StatementKept

LEMMA GetSimilarLineMenu ==
    ASSUME TypeInv, MenuInv, NEW r \in Run, GetSimilarLine(r)
    PROVE  MenuInv'
<1>1. run[r].pc = "get_similar_line" /\ UNCHANGED tables /\ UNCHANGED history
  BY DEF GetSimilarLine, Running
<1>2. RowsSame /\ UNCHANGED <<canteens, lines, foods, allergens, facts, plan, agreed>>
  BY <1>1, RowsStay DEF tables, history
<1>3. CASE Goto(r, "insert_line")
  <2>1. /\ OnlyRun(r) /\ SameWork(run'[r], run[r]) /\ run'[r].pc = "insert_line"
        /\ run'[r].canteen = run[r].canteen
    BY <1>3, RunsShaped, GotoSameWork
  <2>2. run[r].pc \in PC /\ run[r].pc \in LinePC /\ run'[r].pc \in LinePC
    BY <1>1, <2>1 DEF PC, LinePC
  <2>3. KnowsRows(run[r], canteens, lines)
    BY <2>2, NotIdle DEF MenuInv, NamesInv, RunsOnPage
  <2>4. KnowsRows(run'[r], canteens', lines')
    BY <1>2, <2>1, <2>2, <2>3, PlacesApart DEF KnowsRows, SameWork
  <2>5. /\ OwnStep(r)
        /\ \A d : /\ Todo(run'[r], d) = Todo(run[r], d)
                  /\ Uncleared(run'[r], d) = Uncleared(run[r], d)
    BY <2>1, <2>2, <2>4, BodyOwn DEF MenuInv
  <2>6. SkipsNothing(r) /\ FoodsMove /\ DataGrows
    BY <1>2, <2>5, BodySkipsNothing, FoodsStay, DataStays
  <2>7. run'[r].pc \notin HasFoodPC
    BY <2>1 DEF HasFoodPC
  <2> QED
    BY <1>2, <2>5, <2>6, <2>7, StatementKept
<1>4. ASSUME NEW l \in LineId,
             lines[l] = [canteen |-> run[r].canteen, name |-> run[r].lineName],
             UpdateLine(r, l)
      PROVE  MenuInv'
  BY <1>1, <1>2, <1>4, LineChosen DEF UpdateLine, LinePC
<1> QED
  BY <1>3, <1>4 DEF GetSimilarLine

LEMMA InsertLineMenu ==
    ASSUME TypeInv, MenuInv, NEW r \in Run, InsertLine(r)
    PROVE  MenuInv'
<1>1. /\ run[r].pc \in LinePC
      /\ UNCHANGED <<canteens, foods, meals, allergens, facts, plan>> /\ UNCHANGED history
  BY DEF InsertLine, Running, LinePC
<1> DEFINE row == [canteen |-> run[r].canteen, name |-> run[r].lineName]
<1>2. PICK l \in LineId : /\ lines[l] = None
                         /\ lines' = [lines EXCEPT ![l] = row]
                         /\ Continue(r, [run[r] EXCEPT !.line = l])
  BY DEF InsertLine
<1> HIDE DEF row
<1>3. lines'[l] = row /\ RowsSame
  BY <1>1, <1>2 DEF TypeInv, TablesTyped, RowsSame
<1> QED
  BY <1>1, <1>2, <1>3, LineChosen DEF row, history

-----------------------------------------------------------------------------
(* The statements about a dish                                             *)

LEMMA DishStatement ==
    ASSUME TypeInv, MenuInv, NEW r \in Run, run[r].pc \in DishPC, OnlyRun(r),
           SameWork(run'[r], run[r]), run'[r].pc \in DishPC,
           run'[r].canteen = run[r].canteen, run'[r].line = run[r].line,
           run'[r].pc \in HasFoodPC => Alike(run[r].dish.name, foods'[run'[r].food]),
           FoodsMove, DataGrows, UNCHANGED <<canteens, lines, plan, agreed>>
    PROVE  MenuInv'
<1>1. run[r].pc \in PC
  BY DEF PC
<1>2. KnowsRows(run[r], canteens, lines)
  BY <1>1, NotIdle DEF MenuInv, NamesInv, RunsOnPage
<1>3. KnowsRows(run'[r], canteens', lines')
  BY <1>2 DEF KnowsRows, SameWork
<1>4. /\ OwnStep(r)
      /\ \A d : Todo(run'[r], d) = Todo(run[r], d) /\ Uncleared(run'[r], d) = Uncleared(run[r], d)
  BY <1>1, <1>3, BodyOwn DEF MenuInv
<1>5. SkipsNothing(r) /\ RowsSame
  BY <1>4, BodySkipsNothing, RowsStay
<1>6. run'[r].pc \in HasFoodPC => Alike(run'[r].dish.name, foods'[run'[r].food])
  BY DEF SameWork
<1> QED
  BY <1>4, <1>5, <1>6, StatementKept

\* Only a food with a similar name is found.
LEMMA FoundAlike ==
    ASSUME TypeInv, NEW S \in SUBSET FoodId, NEW dish \in Dish, NEW f \in BestMatches(S, dish)
    PROVE  f \in FoodId /\ foods[f] \in Name /\ Alike(dish.name, foods[f])
<1>1. f \in FoodId /\ foods[f] # None /\ Similarity[foods[f], dish.name] >= Threshold
  BY DEF BestMatches, Matches
<1>2. foods[f] \in Name /\ dish.name \in Name
  BY <1>1, DishTyped DEF TypeInv, TablesTyped
<1> QED
  BY <1>1, <1>2, SimilarAlike, AlikeSwapped

LEMMA LookupMenu ==
    ASSUME TypeInv, MenuInv, NEW r \in Run, GetSimilarMeal(r) \/ GetSimilarSide(r)
    PROVE  MenuInv'
<1>1. /\ run[r].pc \in DishPC /\ UNCHANGED tables /\ UNCHANGED history
      /\ \/ \E S, f : f \in BestMatches(S, run[r].dish) /\ S \subseteq FoodId /\ UpdateDish(r, f)
         \/ Goto(r, "get_similar_side")
         \/ InsertDish(r)
  BY DEF GetSimilarMeal, GetSimilarSide, Running, DishPC, TypeInv, TablesTyped
<1>2. FoodsMove /\ DataGrows /\ UNCHANGED <<canteens, lines, foods, plan, agreed>>
  BY <1>1, FoodsStay, DataStays DEF tables, history
<1>3. ASSUME NEW S \in SUBSET FoodId, NEW f \in BestMatches(S, run[r].dish), UpdateDish(r, f)
      PROVE  MenuInv'
  <2>1. Alike(run[r].dish.name, foods[f])
    BY <1>1, DishInHand, FoundAlike
  <2>2. /\ OnlyRun(r) /\ SameWork(run'[r], run[r])
        /\ run'[r].pc = "update_food" /\ run'[r].food = f
        /\ run'[r].canteen = run[r].canteen /\ run'[r].line = run[r].line
    BY <1>3, RunsShaped, FoodChosen DEF UpdateDish
  <2> QED
    BY <1>1, <1>2, <2>1, <2>2, DishStatement DEF DishPC
<1>4. CASE Goto(r, "get_similar_side")
  <2>1. /\ OnlyRun(r) /\ SameWork(run'[r], run[r]) /\ run'[r].pc = "get_similar_side"
        /\ run'[r].canteen = run[r].canteen /\ run'[r].line = run[r].line
    BY <1>4, RunsShaped, GotoSameWork
  <2> QED
    BY <1>1, <1>2, <2>1, DishStatement DEF DishPC, HasFoodPC
<1>5. CASE InsertDish(r)
  <2>1. /\ OnlyRun(r) /\ SameWork(run'[r], run[r]) /\ run'[r].pc = "insert_food"
        /\ run'[r].canteen = run[r].canteen /\ run'[r].line = run[r].line
    BY <1>5, RunsShaped, DishToInsert
  <2> QED
    BY <1>1, <1>2, <2>1, DishStatement DEF DishPC, HasFoodPC
<1> QED
  BY <1>1, <1>3, <1>4, <1>5

\* A statement about the food in hand that is followed by another.
LEMMA FoodStatement ==
    ASSUME TypeInv, MenuInv, NEW r \in Run, run[r].pc \in HasFoodPC, NEW pc \in HasFoodPC,
           Goto(r, pc), Alike(run[r].dish.name, foods'[run[r].food]),
           FoodsMove, DataGrows, UNCHANGED <<canteens, lines, plan, agreed>>
    PROVE  MenuInv'
<1>1. /\ OnlyRun(r) /\ SameWork(run'[r], run[r]) /\ run'[r].pc = pc
      /\ run'[r].canteen = run[r].canteen /\ run'[r].line = run[r].line
      /\ run'[r].food = run[r].food
  BY RunsShaped, GotoSameWork
<1> QED
  BY <1>1, PlacesApart, DishStatement

LEMMA UpdateFoodMenu ==
    ASSUME TypeInv, MenuInv, NEW r \in Run, UpdateFood(r)
    PROVE  MenuInv'
<1>1. /\ run[r].pc \in HasFoodPC /\ Goto(r, FactsOr("update_facts", r))
      /\ foods' = [foods EXCEPT ![run[r].food] = run[r].dish.name]
      /\ UNCHANGED <<canteens, lines, allergens, facts, plan, agreed>>
  BY DEF UpdateFood, Running, HasFoodPC, history
<1>2. /\ run[r].food \in FoodId /\ foods[run[r].food] # None
      /\ run[r].dish.name \in Name
  BY <1>1, PlacesApart, DishInHand, DishTyped
<1>3. foods[run[r].food] \in Name
  BY <1>2 DEF TypeInv, TablesTyped
<1>4. Alike(foods[run[r].food], run[r].dish.name)
  BY <1>1, <1>2, <1>3, AlikeSwapped DEF MenuInv, NamesInv, RunsNameFood
<1>5. \A f \in FoodId : foods'[f] = IF f = run[r].food THEN run[r].dish.name ELSE foods[f]
  BY <1>1, <1>2 DEF TypeInv, TablesTyped
<1>6. \A f \in FoodId : foods[f] # None => foods[f] \in Name
  BY DEF TypeInv, TablesTyped
<1>7. FoodsMove
  BY <1>2, <1>4, <1>5, <1>6, AlikeSelf DEF FoodsMove
<1>8. Alike(run[r].dish.name, foods'[run[r].food])
  BY <1>2, <1>5, AlikeSelf
<1>9. FactsOr("update_facts", r) \in HasFoodPC
  BY DEF FactsOr, HasFoodPC
<1> QED
  BY <1>1, <1>7, <1>8, <1>9, DataStays, FoodStatement

\* These two are only made when the website gives facts.
LEMMA FactsGrow ==
    ASSUME TypeInv, DataInv, NEW r \in Run, run[r].pc \in {"update_facts", "insert_facts"},
           facts' = [facts EXCEPT ![run[r].food] = run[r].dish.facts], UNCHANGED allergens
    PROVE  DataGrows
BY DEF DataInv, RunsMindFacts, MindsFacts, DataGrows, TypeInv, TablesTyped

LEMMA UpdateFactsMenu ==
    ASSUME TypeInv, DataInv, MenuInv, NEW r \in Run, UpdateFacts(r)
    PROVE  MenuInv'
<1>1. /\ run[r].pc \in HasFoodPC /\ Goto(r, "add_to_plan")
      /\ UNCHANGED <<canteens, lines, foods, plan, agreed>>
  BY DEF UpdateFacts, Running, HasFoodPC, history
<1>2. Alike(run[r].dish.name, foods'[run[r].food])
  BY <1>1 DEF MenuInv, NamesInv, RunsNameFood
<1>3. "add_to_plan" \in HasFoodPC
  BY DEF HasFoodPC
<1>4. DataGrows
  BY FactsGrow DEF UpdateFacts, Running
<1> QED
  BY <1>1, <1>2, <1>3, <1>4, FoodsStay, FoodStatement

LEMMA InsertFoodMenu ==
    ASSUME TypeInv, MenuInv, NEW r \in Run, InsertFood(r)
    PROVE  MenuInv'
<1> DEFINE pc == IF run[r].meal THEN "insert_meal" ELSE "insert_allergens"
<1>1. /\ run[r].pc \in DishPC
      /\ UNCHANGED <<canteens, lines, allergens, facts, plan, agreed>>
  BY DEF InsertFood, Running, DishPC, history
<1>2. PICK f \in FoodId : /\ foods[f] = None
                         /\ foods' = [foods EXCEPT ![f] = run[r].dish.name]
                         /\ run' = [run EXCEPT ![r].pc = pc, ![r].food = f]
  BY DEF InsertFood
<1>3. pc \in DishPC
  BY DEF DishPC
<1> HIDE DEF pc
<1>4. run[r].dish.name \in Name
  BY <1>1, DishInHand, DishTyped
<1>5. foods'[f] = run[r].dish.name /\ \A g \in FoodId : foods[g] # None => foods'[g] = foods[g]
  BY <1>2 DEF TypeInv, TablesTyped
<1>6. \A g \in FoodId : foods[g] # None => foods[g] \in Name
  BY DEF TypeInv, TablesTyped
<1>7. FoodsMove
  BY <1>5, <1>6, AlikeSelf DEF FoodsMove
<1>8. /\ OnlyRun(r) /\ SameWork(run'[r], run[r])
      /\ run'[r].pc = pc /\ run'[r].food = f
      /\ run'[r].canteen = run[r].canteen /\ run'[r].line = run[r].line
  BY <1>2, RunsShaped, FoodChosen
<1>9. Alike(run[r].dish.name, foods'[run'[r].food])
  BY <1>4, <1>5, <1>8, AlikeSelf
<1> QED
  BY <1>1, <1>3, <1>7, <1>8, <1>9, DataStays, DishStatement

LEMMA InsertMealMenu ==
    ASSUME TypeInv, MenuInv, NEW r \in Run, InsertMeal(r)
    PROVE  MenuInv'
<1>1. /\ run[r].pc \in HasFoodPC /\ Goto(r, "insert_allergens")
      /\ UNCHANGED <<canteens, lines, foods, allergens, facts, plan, agreed>>
  BY DEF InsertMeal, Running, HasFoodPC, history
<1>2. Alike(run[r].dish.name, foods'[run[r].food])
  BY <1>1 DEF MenuInv, NamesInv, RunsNameFood
<1>3. "insert_allergens" \in HasFoodPC
  BY DEF HasFoodPC
<1> QED
  BY <1>1, <1>2, <1>3, FoodsStay, DataStays, FoodStatement

LEMMA InsertAllergensMenu ==
    ASSUME TypeInv, MenuInv, NEW r \in Run, InsertAllergens(r)
    PROVE  MenuInv'
<1>1. /\ run[r].pc \in HasFoodPC /\ Goto(r, FactsOr("insert_facts", r))
      /\ allergens' = [allergens EXCEPT ![run[r].food] = @ \cup run[r].dish.allergens]
      /\ UNCHANGED <<canteens, lines, foods, facts, plan, agreed>>
  BY DEF InsertAllergens, Running, HasFoodPC, history
<1>2. Alike(run[r].dish.name, foods'[run[r].food])
  BY <1>1 DEF MenuInv, NamesInv, RunsNameFood
<1>3. DataGrows
  BY <1>1 DEF DataGrows, TypeInv, TablesTyped
<1>4. FactsOr("insert_facts", r) \in HasFoodPC
  BY DEF FactsOr, HasFoodPC
<1> QED
  BY <1>1, <1>2, <1>3, <1>4, FoodsStay, FoodStatement

\* What the loops may go on with after a dish, and after a canteen is dissolved.
LEMMA MayGoOnFrom ==
    ASSUME TypeInv, MenuInv, NEW r \in Run, UNCHANGED <<canteens, lines>>,
           run[r].pc = "dissolve_relations" \/ run[r].pc \in DishPC
    PROVE  MayGoOn(run[r], canteens', lines')
<1>1. run[r].pc \in PC
  BY DEF PC, CanteenPC
<1>2. /\ Busy(run[r]) /\ OnPage(run[r]) /\ KnowsRows(run[r], canteens, lines)
  BY <1>1, BusyAt, NotIdle DEF MenuInv, NamesInv, RunsOnPage
<1>3. WorkLeft(run[r]) /\ run[r].day \in Day
  BY <1>2 DEF Busy
<1>4. canteens'[run[r].canteen] = run[r].canteenName
  BY <1>2 DEF KnowsRows
<1>5. run[r].dishesLeft # <<>> =>
        lines'[run[r].line] = [canteen |-> run[r].canteen, name |-> run[r].lineName]
  BY <1>2 DEF KnowsRows, Busy, CanteenPC
<1> QED
  BY <1>2, <1>3, <1>4, <1>5 DEF MayGoOn, OnPage

\* When a run gives up a dish, a line or a canteen, its day no longer counts.
LEMMA GivenUp ==
    ASSUME TypeInv, MenuInv, NEW r \in Run, run[r].pc \in PC, NEW t,
           MayGoOn(t, canteens', lines'), Continue(r, t),
           t.web = run[r].web, t.days = run[r].days, t.day = run[r].day,
           agreed' = [agreed EXCEPT ![run[r].day] = None],
           UNCHANGED <<canteens, lines, foods, allergens, facts, plan>>
    PROVE  MenuInv'
<1>1. /\ OwnStep(r) /\ run'[r].pc \notin HasFoodPC
      /\ \A d \in Day : /\ Todo(run'[r], d) = ToReach(t, d)
                        /\ Uncleared(run'[r], d) = ToEnter(t, d)
  BY ContinueOwn
<1>2. ASSUME NEW d \in Day, agreed'[d] # None
      PROVE  /\ agreed'[d] = agreed[d]
             /\ Todo(run[r], d) = ToReach(t, d) /\ Uncleared(run[r], d) = ToEnter(t, d)
  <2>1. d # run[r].day /\ agreed'[d] = agreed[d]
    BY <1>2 DEF TypeInv
  <2>2. Todo(run[r], d) = ToReach(t, d)
    BY <2>1 DEF Todo, ToReach
  <2>3. Uncleared(run[r], d) = ToEnter(t, d)
    BY <2>1 DEF Uncleared, ToEnter
  <2> QED
    BY <2>1, <2>2, <2>3
<1>3. SkipsNothing(r)
  BY <1>1, <1>2 DEF SkipsNothing
<1> QED
  BY <1>1, <1>3, RowsStay, FoodsStay, DataStays, StatementKept

LEMMA InsertFactsMenu ==
    ASSUME TypeInv, DataInv, MenuInv, NEW r \in Run, InsertFacts(r)
    PROVE  MenuInv'
<1>1. /\ run[r].pc \in HasFoodPC /\ run[r].pc = "insert_facts"
      /\ UNCHANGED <<canteens, lines, foods, allergens, plan>>
  BY DEF InsertFacts, Running, HasFoodPC
<1>2. CASE /\ Goto(r, "add_to_plan") /\ UNCHANGED agreed
           /\ facts' = [facts EXCEPT ![run[r].food] = run[r].dish.facts]
  <2>1. Alike(run[r].dish.name, foods'[run[r].food])
    BY <1>1 DEF MenuInv, NamesInv, RunsNameFood
  <2>2. "add_to_plan" \in HasFoodPC
    BY DEF HasFoodPC
  <2> QED
    BY <1>1, <1>2, <2>1, <2>2, FoodsStay, FactsGrow, FoodStatement
<1>3. CASE /\ Continue(r, run[r]) /\ agreed' = [agreed EXCEPT ![run[r].day] = None]
           /\ UNCHANGED facts
  <2>1. MayGoOn(run[r], canteens', lines') /\ run[r].pc \in PC
    BY <1>1, PlacesApart, MayGoOnFrom DEF PC
  <2> QED
    BY <1>1, <1>3, <2>1, GivenUp
<1> QED
  BY <1>2, <1>3 DEF InsertFacts

LEMMA FailMenu ==
    ASSUME TypeInv, MenuInv, NEW r \in Run, Fail(r)
    PROVE  MenuInv'
<1>1. /\ run[r].pc \in PC /\ agreed' = [agreed EXCEPT ![run[r].day] = None]
      /\ UNCHANGED <<canteens, lines, foods, allergens, facts, plan>>
  BY NotIdle DEF Fail, tables
<1>2. /\ Busy(run[r]) /\ OnPage(run[r]) /\ KnowsRows(run[r], canteens, lines)
  BY <1>1, BusyAt, NotIdle DEF MenuInv, NamesInv, RunsOnPage
<1>3. Shape(run[r]) /\ WorkLeft(run[r]) /\ run[r].day \in Day
  BY <1>2 DEF Busy, WorkLeft
<1>4. CASE run[r].pc \in CanteenPC
  <2> DEFINE t == [run[r] EXCEPT !.linesLeft = <<>>, !.dishesLeft = <<>>]
  <2>1. Continue(r, t)
    BY <1>4, PlacesApart DEF Fail
  <2>2. /\ Shape(t)
        /\ t.web = run[r].web /\ t.days = run[r].days /\ t.day = run[r].day
        /\ t.canteensLeft = run[r].canteensLeft /\ t.linesLeft = <<>> /\ t.dishesLeft = <<>>
    BY <1>3, FieldNames DEF Shape
  <2> HIDE DEF t
  <2>3. WorkLeft(t)
    BY <1>3, <2>2 DEF WorkLeft
  <2>4. Left(t) = Menu(run[r].canteensLeft) /\ Menu(run[r].canteensLeft) \subseteq Left(run[r])
    BY <2>2, NothingLeft, Zenon DEF Left
  <2>5. Within(t, t.web[t.day]) /\ t.day \notin t.days
    BY <1>2, <2>2, <2>4 DEF OnPage, Within
  <2>6. MayGoOn(t, canteens', lines')
    BY <1>3, <2>2, <2>3, <2>5 DEF MayGoOn
  <2> QED
    BY <1>1, <2>1, <2>2, <2>6, GivenUp
<1>5. CASE run[r].pc \in LinePC
  <2> DEFINE t == [run[r] EXCEPT !.dishesLeft = <<>>]
  <2>1. Continue(r, t)
    BY <1>5, PlacesApart DEF Fail
  <2>2. /\ Shape(t)
        /\ t.web = run[r].web /\ t.days = run[r].days /\ t.day = run[r].day
        /\ t.canteensLeft = run[r].canteensLeft /\ t.linesLeft = run[r].linesLeft
        /\ t.dishesLeft = <<>>
        /\ t.canteen = run[r].canteen /\ t.canteenName = run[r].canteenName
    BY <1>3, FieldNames DEF Shape
  <2> HIDE DEF t
  <2>3. WorkLeft(t)
    BY <1>3, <2>2 DEF WorkLeft
  <2>4. Left(t) \subseteq Left(run[r])
    BY <2>2, NothingLeft, Zenon DEF Left
  <2>5. Within(t, t.web[t.day]) /\ t.day \notin t.days
    BY <1>2, <2>2, <2>4 DEF OnPage, Within
  <2>6. canteens'[t.canteen] = t.canteenName
    BY <1>1, <1>2, <1>5, <2>2 DEF KnowsRows
  <2>7. MayGoOn(t, canteens', lines')
    BY <1>3, <2>2, <2>3, <2>5, <2>6 DEF MayGoOn
  <2> QED
    BY <1>1, <2>1, <2>2, <2>7, GivenUp
<1>6. CASE run[r].pc \in DishPC
  <2>1. Continue(r, run[r])
    BY <1>6, PlacesApart DEF Fail
  <2>2. MayGoOn(run[r], canteens', lines')
    BY <1>1, <1>6, MayGoOnFrom
  <2> QED
    BY <1>1, <2>1, <2>2, GivenUp
<1> QED
  BY <1>1, <1>4, <1>5, <1>6 DEF PC

-----------------------------------------------------------------------------
(* The statements about the plan                                           *)

\* On which days the plan of r changes, and what r has read of them.
LEMMA DayOfRun ==
    ASSUME TypeInv, MenuInv, NEW r \in Run, run[r].pc \in PC, agreed[run[r].day] # None
    PROVE  run[r].day \in Day /\ run[r].web[run[r].day] = agreed[run[r].day]
<1>1. run[r].day \in Day
  BY BusyAt DEF Busy
<1>2. WorksOn(r, run[r].day)
  BY PlacesApart DEF WorksOn
<1> QED
  BY <1>1, <1>2 DEF MenuInv, NamesInv, RunsAgree

\* Of the days it does not change, a statement about the plan of one day skips nothing.
LEMMA OtherDayKept ==
    ASSUME TypeInv, NEW r \in Run, OnlyRun(r), UNCHANGED <<canteens, lines, allergens, facts, agreed>>,
           NEW d \in Day, \A e : e.day = d => (e \in plan <=> e \in plan'),
           Todo(run[r], d) \subseteq Todo(run'[r], d),
           Uncleared(run[r], d) \subseteq Uncleared(run'[r], d),
           OldPageGoes(d), NothingForgotten(d)
    PROVE  OldPageGoes(d)' /\ NothingForgotten(d)'
<1>0. \A q \in Run \ {r} : run'[q] = run[q]
  BY DEF OnlyRun
<1>1. OldPageGoes(d)'
  <2> SUFFICES ASSUME NEW e \in plan', e.day = d, CanteenOf(e) \in PageNames(agreed[d])
               PROVE  \/ Item(e) \in Menu(agreed[d])
                      \/ \E q \in Run : CanteenOf(e) \in Uncleared(run'[q], d)
    BY DEF OldPageGoes, CanteenOf, Item
  <2>1. e \in plan
    OBVIOUS
  <2>2. \/ Item(e) \in Menu(agreed[d])
        \/ \E q \in Run : CanteenOf(e) \in Uncleared(run[q], d)
    BY <2>1 DEF OldPageGoes
  <2> QED
    BY <1>0, <2>2
<1>2. NothingForgotten(d)'
  <2> SUFFICES ASSUME NEW m \in Menu(agreed[d])
               PROVE  Placed(m, d)' \/ \E q \in Run : m \in Todo(run'[q], d)
    BY DEF NothingForgotten
  <2>1. ASSUME Placed(m, d) PROVE Placed(m, d)'
    <3>1. PICK e \in plan : e.day = d /\ PlacedBy(m, e)
      BY <2>1 DEF Placed
    <3>2. e \in plan' /\ PlacedBy(m, e)'
      BY <3>1 DEF PlacedBy, CanteenOf
    <3> QED
      BY <3>1, <3>2 DEF Placed
  <2>2. Placed(m, d) \/ \E q \in Run : m \in Todo(run[q], d)
    BY DEF NothingForgotten
  <2> QED
    BY <1>0, <2>1, <2>2
<1> QED
  BY <1>1, <1>2

\* r dissolves what an older page left to its canteen, and what it removes of its own page
\* is among the lines it has still to go through.
LEMMA DissolveRelationsMenu ==
    ASSUME TypeInv, MenuInv, NEW r \in Run, DissolveRelations(r)
    PROVE  MenuInv'
<1> DEFINE t == run[r]
           day == t.day
<1>1. /\ t.pc = "dissolve_relations" /\ Continue(r, t)
      /\ plan' = {e \in plan : e.day # day \/ lines[e.line].canteen # t.canteen}
      /\ UNCHANGED <<canteens, lines, foods, allergens, facts, agreed>>
  BY DEF DissolveRelations, Running, history
<1>2. t.pc \in PC /\ t.pc \in CanteenPC /\ t.pc \notin DishPC
  BY <1>1 DEF PC, CanteenPC, DishPC
<1>3. Busy(t) /\ Rows(t, CanteenRows, LineRows, FoodRows)
  BY <1>2, BusyAt
<1>4. OnPage(t) /\ KnowsRows(t, canteens, lines)
  BY <1>2, NotIdle DEF MenuInv, NamesInv, RunsOnPage
<1>5. MayGoOn(t, canteens', lines')
  BY <1>1, MayGoOnFrom
<1>6. /\ OwnStep(r) /\ run'[r].pc \notin HasFoodPC
      /\ \A d \in Day : /\ Todo(run'[r], d) = ToReach(t, d)
                        /\ Uncleared(run'[r], d) = ToEnter(t, d)
  BY <1>1, <1>2, <1>5, ContinueOwn
<1>7. NamesInv'
  BY <1>1, <1>6, RowsStay, FoodsStay, NamesKept DEF MenuInv
<1>8. ASSUME CanteensListedOnce, UniqueCanteens', NEW d \in Day, agreed'[d] # None
      PROVE  OldPageGoes(d)' /\ NothingForgotten(d)'
  <2>1. UniqueCanteens /\ agreed[d] # None
    BY <1>1, <1>8 DEF UniqueCanteens
  <2>2. OldPageGoes(d) /\ NothingForgotten(d)
    BY <1>8, <2>1 DEF MenuInv, PlanInv
  <2>3. OnlyRun(r) /\ \A q \in Run \ {r} : run'[q] = run[q]
    BY <1>6 DEF OwnStep, OnlyRun
  <2>4. Todo(t, d) = ToReach(t, d)
    BY <1>2 DEF Todo, InHand
  <2>5. CASE d # day
    <3>1. Uncleared(t, d) = ToEnter(t, d)
      BY <2>5 DEF Uncleared
    <3>2. \A e : e.day = d => (e \in plan <=> e \in plan')
      BY <1>1, <2>5
    <3> QED
      BY <1>1, <1>6, <2>2, <2>3, <2>4, <3>1, <3>2, OtherDayKept
  <2>6. CASE d = day
    <3>1. OldPageGoes(d)'
      <4> SUFFICES ASSUME NEW e \in plan', e.day = d, CanteenOf(e) \in PageNames(agreed[d])
                   PROVE  \/ Item(e) \in Menu(agreed[d])
                          \/ \E q \in Run : CanteenOf(e) \in Uncleared(run'[q], d)
        BY <1>1 DEF OldPageGoes, CanteenOf, Item
      <4>1. e \in plan /\ lines[e.line].canteen # t.canteen
        BY <1>1, <2>6
      <4>2. CanteenOf(e) # t.canteenName
        <5>1. canteens[t.canteen] = t.canteenName /\ t.canteen \in CanteenId
              /\ canteens[t.canteen] # None
          BY <1>1, <1>3, <1>4 DEF KnowsRows, Rows, CanteenRows
        <5> QED
          BY <2>1, <4>1, <5>1, EntryTyped DEF UniqueCanteens, CanteenOf
      <4>3. \/ Item(e) \in Menu(agreed[d])
            \/ \E q \in Run : CanteenOf(e) \in Uncleared(run[q], d)
        BY <2>2, <4>1 DEF OldPageGoes
      <4>4. ASSUME NEW q \in Run, CanteenOf(e) \in Uncleared(run[q], d)
            PROVE  CanteenOf(e) \in Uncleared(run'[q], d)
        <5>1. CASE q = r
          <6>1. CanteenOf(e) \in ToEnter(t, d)
            BY <4>2, <4>4, <5>1 DEF Uncleared
          <6> QED
            BY <1>6, <5>1, <6>1
        <5>2. CASE q # r
          BY <2>3, <4>4, <5>2
        <5> QED
          BY <5>1, <5>2
      <4> QED
        BY <4>3, <4>4
    <3>2. NothingForgotten(d)'
      <4> SUFFICES ASSUME NEW m \in Menu(agreed[d])
                   PROVE  Placed(m, d)' \/ \E q \in Run : m \in Todo(run'[q], d)
        BY <1>1 DEF NothingForgotten
      <4>1. CASE \E q \in Run : m \in Todo(run[q], d)
        BY <1>6, <2>3, <2>4, <4>1
      <4>2. CASE Placed(m, d)
        <5>1. PICK e \in plan : e.day = d /\ PlacedBy(m, e)
          BY <4>2 DEF Placed
        <5>2. CASE lines[e.line].canteen # t.canteen
          <6>1. e \in plan'
            BY <1>1, <5>2
          <6>2. PlacedBy(m, e)'
            BY <1>1, <5>1 DEF PlacedBy, CanteenOf
          <6> QED
            BY <5>1, <6>1, <6>2 DEF Placed
        <5>3. CASE lines[e.line].canteen = t.canteen
          <6> DEFINE page == t.web[day]
          <6>1. page = agreed[d] /\ page \in Pages
            BY <1>2, <1>3, <2>1, <2>6, DayOfRun DEF Busy, WorkLeft
          <6>2. m.canteen = t.canteenName
            BY <1>1, <1>4, <5>1, <5>3 DEF KnowsRows, CanteenOf, PlacedBy
          <6>3. PICK n \in DOMAIN page : t.canteenName = page[n].name
                                         /\ t.linesLeft = page[n].lines
            BY <1>2, <1>4 DEF OnPage
          <6> HIDE DEF page
          <6>4. PICK c \in DOMAIN page : /\ m.canteen = page[c].name
                                         /\ m \in LinesMenu(page[c].name, page[c].lines)
            BY <6>1, MenuNames
          <6>5. c = n
            BY <1>8, <6>1, <6>2, <6>3, <6>4 DEF CanteensListedOnce
          <6>6. m \in Left(t)
            BY <6>3, <6>4, <6>5 DEF Left
          <6>7. m \in ToReach(t, d)
            BY <2>6, <6>6 DEF ToReach
          <6> QED
            BY <1>6, <6>7
        <5> QED
          BY <5>2, <5>3
      <4> QED
        BY <2>2, <4>1, <4>2 DEF NothingForgotten
    <3> QED
      BY <3>1, <3>2
  <2> QED
    BY <2>5, <2>6
<1> QED
  BY <1>7, <1>8 DEF MenuInv, PlanInv

\* The dish in hand is on the plan then: as itself, or by the alike dish whose food it is.
LEMMA AddToPlanMenu ==
    ASSUME TypeInv, DataInv, MenuInv, NEW r \in Run, AddToPlan(r)
    PROVE  MenuInv'
<1> DEFINE t == run[r]
           day == t.day
           served == {e \in plan : e.line = t.line /\ e.food = t.food /\ e.day = day}
<1>1. /\ t.pc = "add_to_plan" /\ Continue(r, t)
      /\ plan' = IF served # {} THEN plan ELSE plan \cup {Entry(r)}
      /\ UNCHANGED <<canteens, lines, foods, allergens, facts, agreed>>
  BY DEF AddToPlan, Running, history
<1> HIDE DEF served
<1>0. PICK item : item = [canteen |-> t.canteenName, line |-> t.lineName, dish |-> t.dish]
  OBVIOUS
<1>2. t.pc \in PC /\ t.pc \in DishPC /\ t.pc \notin CanteenPC /\ t.pc \in HasFoodPC
  BY <1>1 DEF PC, CanteenPC, DishPC, HasFoodPC
<1>3. OnPage(t) /\ KnowsRows(t, canteens, lines)
  BY <1>2, NotIdle DEF MenuInv, NamesInv, RunsOnPage
<1>4. MayGoOn(t, canteens', lines')
  BY <1>1, <1>2, MayGoOnFrom
<1>5. /\ OwnStep(r) /\ run'[r].pc \notin HasFoodPC
      /\ \A d \in Day : /\ Todo(run'[r], d) = ToReach(t, d)
                        /\ Uncleared(run'[r], d) = ToEnter(t, d)
  BY <1>1, <1>2, <1>4, ContinueOwn
<1>6. /\ t.food \in FoodId /\ foods[t.food] \in Name /\ t.dish.name \in Name
      /\ Alike(t.dish.name, foods[t.food])
      /\ t.dish.allergens \subseteq allergens[t.food]
      /\ t.dish.facts # None => facts[t.food] # None
  <2>1. t.food \in FoodId /\ foods[t.food] # None /\ t.dish.name \in Name
    BY <1>2, DishInHand, DishTyped
  <2>2. foods[t.food] \in Name
    BY <2>1 DEF TypeInv, TablesTyped
  <2>3. Alike(t.dish.name, foods[t.food])
    BY <1>2 DEF MenuInv, NamesInv, RunsNameFood
  <2>4. t.dish.allergens \subseteq allergens[t.food]
    BY <1>1 DEF DataInv, RunsMindAllergens, Complete
  <2>5. t.dish.facts # None => facts[t.food] # None
    BY <1>1 DEF DataInv, RunsMindFacts, MindsFacts
  <2> QED
    BY <2>1, <2>2, <2>3, <2>4, <2>5
<1>7. NamesInv'
  <2>1. Entry(r).dish = t.dish /\ Entry(r).food = t.food
    BY DEF Entry
  <2>2. \A e \in plan' : e \in plan \/ Alike(e.dish.name, foods'[e.food])
    BY <1>1, <1>6, <2>1
  <2> QED
    BY <1>1, <1>5, <2>2, RowsStay, FoodsStay, NamesKept DEF MenuInv
<1>8. ASSUME CanteensListedOnce, UniqueCanteens', NEW d \in Day, agreed'[d] # None
      PROVE  OldPageGoes(d)' /\ NothingForgotten(d)'
  <2>1. UniqueCanteens /\ agreed[d] # None
    BY <1>1, <1>8 DEF UniqueCanteens
  <2>2. OldPageGoes(d) /\ NothingForgotten(d)
    BY <1>8, <2>1 DEF MenuInv, PlanInv
  <2>3. OnlyRun(r) /\ \A q \in Run \ {r} : run'[q] = run[q]
    BY <1>5 DEF OwnStep, OnlyRun
  <2>4. Uncleared(t, d) = ToEnter(t, d)
    BY <1>2 DEF Uncleared
  <2>5. CASE d # day
    <3>1. Todo(t, d) = ToReach(t, d)
      BY <2>5 DEF Todo
    <3>2. \A e : e.day = d => (e \in plan <=> e \in plan')
      BY <1>1, <2>5 DEF Entry
    <3> QED
      BY <1>1, <1>5, <2>2, <2>3, <2>4, <3>1, <3>2, OtherDayKept
  <2>6. CASE d = day
    <3>0. /\ Entry(r).line = t.line /\ Entry(r).food = t.food
          /\ Entry(r).day = d /\ Entry(r).dish = t.dish
      BY <2>6 DEF Entry
    <3>1. lines[t.line] = [canteen |-> t.canteen, name |-> t.lineName]
          /\ canteens[t.canteen] = t.canteenName
      BY <1>2, <1>3 DEF KnowsRows
    <3>2. item \in Menu(agreed[d])
      BY <1>0, <1>2, <1>3, <2>1, <2>6, DayOfRun DEF OnPage, InHand
    <3>3. OldPageGoes(d)'
      <4> SUFFICES ASSUME NEW e \in plan', e.day = d, CanteenOf(e) \in PageNames(agreed[d])
                   PROVE  \/ Item(e) \in Menu(agreed[d])
                          \/ \E q \in Run : CanteenOf(e) \in Uncleared(run'[q], d)
        BY <1>1 DEF OldPageGoes, CanteenOf, Item
      <4>1. CASE e = Entry(r)
        <5>1. Item(e) = item
          BY <1>0, <3>0, <3>1, <4>1 DEF Item, CanteenOf
        <5> QED
          BY <3>2, <5>1
      <4>2. CASE e \in plan
        <5>1. \/ Item(e) \in Menu(agreed[d])
              \/ \E q \in Run : CanteenOf(e) \in Uncleared(run[q], d)
          BY <2>2, <4>2 DEF OldPageGoes
        <5> QED
          BY <1>5, <2>3, <2>4, <5>1
      <4> QED
        BY <1>1, <4>1, <4>2
    <3>4. Placed(item, d)'
      <4> SUFFICES \E e \in plan' : /\ e.day = d
                                   /\ e.line = t.line /\ e.food = t.food
                                   /\ Alike(t.dish.name, e.dish.name)
        BY <1>0, <1>1, <1>6, <3>1 DEF Placed, PlacedBy, CanteenOf
      <4>1. CASE served = {}
        BY <1>1, <1>6, <3>0, <4>1, AlikeSelf
      <4>2. CASE served # {}
        <5>1. PICK e \in plan : e.line = t.line /\ e.food = t.food /\ e.day = day
          BY <4>2 DEF served
        <5>2. Alike(foods[t.food], e.dish.name)
          BY <5>1, EntryTyped, AlikeSwapped DEF MenuInv, NamesInv, PlanNamesFood
        <5>3. Alike(t.dish.name, e.dish.name)
          BY <1>6, <5>2, EntryTyped, AlikeLinked
        <5> QED
          BY <1>1, <2>6, <4>2, <5>1, <5>3
      <4> QED
        BY <4>1, <4>2
    <3>5. NothingForgotten(d)'
      <4> SUFFICES ASSUME NEW m \in Menu(agreed[d])
                   PROVE  Placed(m, d)' \/ \E q \in Run : m \in Todo(run'[q], d)
        BY <1>1 DEF NothingForgotten
      <4>1. ASSUME Placed(m, d) PROVE Placed(m, d)'
        BY <1>1, <4>1 DEF Placed, PlacedBy, CanteenOf
      <4>2. ASSUME NEW q \in Run, m \in Todo(run[q], d)
            PROVE  Placed(m, d)' \/ m \in Todo(run'[q], d)
        <5>1. CASE q # r
          BY <2>3, <4>2, <5>1
        <5>2. CASE q = r
          <6>1. m \in ToReach(t, d) \/ m = item
            BY <1>0, <1>2, <4>2, <5>2 DEF Todo, InHand
          <6> QED
            BY <1>5, <3>4, <5>2, <6>1
        <5> QED
          BY <5>1, <5>2
      <4>3. Placed(m, d) \/ \E q \in Run : m \in Todo(run[q], d)
        BY <2>2 DEF NothingForgotten
      <4> QED
        BY <4>1, <4>2, <4>3
    <3> QED
      BY <3>3, <3>5
  <2> QED
    BY <2>5, <2>6
<1> QED
  BY <1>7, <1>8 DEF MenuInv, PlanInv

-----------------------------------------------------------------------------
(* The beginning of a run, and the end of all                              *)

LEMMA StartMenu ==
    ASSUME TypeInv, MenuInv, NEW r \in Run, NEW days \in SUBSET Day, NEW web \in [Day -> Pages],
           Start(r, days, web)
    PROVE  MenuInv'
<1>0. PICK begun : begun = {d \in days : web[d] # <<>>}
  OBVIOUS
<1>1. PICK t : t = [Idle EXCEPT !.web = web, !.days = begun]
  OBVIOUS
<1>2. /\ run[r] = Idle /\ Continue(r, t)
      /\ UNCHANGED <<canteens, lines, foods, allergens, facts, plan>>
      /\ agreed' = [d \in Day |->
            IF d \notin begun THEN agreed[d]
            ELSE IF \A q \in Run : ~WorksOn(q, d) THEN web[d]
            ELSE IF \A q \in Run : WorksOn(q, d) => run[q].web[d] = web[d] THEN agreed[d]
            ELSE None]
  BY <1>0, <1>1 DEF Start, tables
<1>3. /\ Shape(t) /\ t.web = web /\ t.days = begun
      /\ t.canteensLeft = <<>> /\ t.linesLeft = <<>> /\ t.dishesLeft = <<>>
  BY <1>1, IdleShape, FieldNames DEF Shape, Idle
<1>4. MayGoOn(t, canteens, lines)
  BY <1>0, <1>3 DEF MayGoOn, WorkLeft, More
<1>5. PICK next \in Proceed(t) : run' = [run EXCEPT ![r] = next]
  BY <1>2 DEF Continue
<1>6. Shape(next) /\ next.pc \notin HasFoodPC
  BY <1>3, ProceedLooksUp
<1>7. OnlyRun(r) /\ run'[r] = next /\ \A q \in Run \ {r} : run'[q] = run[q]
  BY <1>5, <1>6, RunsShaped, OwnRecord DEF OnlyRun
<1>8. GoesOn(next, t, canteens, lines)
  BY <1>4, NextPlace
<1>9. Left(t) = {}
  BY <1>3, NothingLeft, Zenon DEF Left
<1>10. ASSUME NEW d \in begun, d \in Day
       PROVE  Todo(next, d) = Menu(web[d]) /\ Uncleared(next, d) = PageNames(web[d])
  <2>1. ToReach(t, d) = Menu(web[d]) /\ ToEnter(t, d) = PageNames(web[d])
    BY <1>3, <1>9, <1>10, NothingLeft DEF ToReach, ToEnter
  <2> QED
    BY <1>8, <1>10, <2>1 DEF GoesOn
<1>11. ASSUME NEW d \in Day, WorksOn(r, d)'
       PROVE  d \in begun /\ run'[r].web[d] = web[d]
  <2>1. next # Idle /\ (next.day = d \/ d \in next.days)
    BY <1>7, <1>11, IdleShape DEF WorksOn
  <2>2. ~More(t)
    BY <1>3 DEF More
  <2> QED
    BY <1>3, <1>7, <1>8, <2>1, <2>2 DEF GoesOn
<1>12. ASSUME NEW d \in Day, NEW q \in Run, q # r
       PROVE  WorksOn(q, d)' <=> WorksOn(q, d)
  BY <1>7, <1>12 DEF WorksOn
<1>13. \A d \in Day : ~WorksOn(r, d)
  BY <1>2, IdleShape DEF WorksOn
<1>14. NamesInv'
  <2>1. RunsOnPage'
    BY <1>2, <1>7, <1>8 DEF MenuInv, NamesInv, RunsOnPage, GoesOn
  <2>2. RunsNameFood'
    BY <1>2, <1>6, <1>7 DEF MenuInv, NamesInv, RunsNameFood
  <2>3. PlanNamesFood'
    BY <1>2 DEF MenuInv, NamesInv, PlanNamesFood
  <2>4. RunsAgree'
    <3> SUFFICES ASSUME NEW d \in Day, agreed'[d] # None, NEW q \in Run, WorksOn(q, d)'
                 PROVE  run'[q].web[d] = agreed'[d]
      BY DEF RunsAgree
    <3>1. agreed[d] # None => \A p \in Run : WorksOn(p, d) => run[p].web[d] = agreed[d]
      BY DEF MenuInv, NamesInv, RunsAgree
    <3>2. q # r => WorksOn(q, d) /\ run'[q] = run[q]
      BY <1>7, <1>12
    <3>3. q = r => d \in begun /\ run'[q].web[d] = web[d]
      BY <1>11
    <3>4. CASE d \notin begun
      BY <1>2, <3>1, <3>2, <3>3, <3>4
    <3>5. CASE d \in begun /\ \A p \in Run : ~WorksOn(p, d)
      BY <1>2, <3>2, <3>3, <3>5
    <3>6. CASE d \in begun /\ ~(\A p \in Run : ~WorksOn(p, d))
      <4>1. /\ agreed'[d] = agreed[d]
            /\ \A p \in Run : WorksOn(p, d) => run[p].web[d] = web[d]
        BY <1>2, <3>6
      <4>2. PICK p \in Run : WorksOn(p, d)
        BY <3>6
      <4>3. web[d] = agreed[d]
        BY <3>1, <4>1, <4>2
      <4> QED
        BY <3>1, <3>2, <3>3, <4>1, <4>3
    <3> QED
      BY <3>4, <3>5, <3>6
  <2> QED
    BY <2>1, <2>2, <2>3, <2>4 DEF NamesInv
<1>15. ASSUME CanteensListedOnce, UniqueCanteens', NEW d \in Day, agreed'[d] # None
       PROVE  OldPageGoes(d)' /\ NothingForgotten(d)'
  <2>1. UniqueCanteens
    BY <1>2, <1>15 DEF UniqueCanteens
  <2>2. CASE agreed'[d] = agreed[d]
    <3>1. OldPageGoes(d) /\ NothingForgotten(d)
      BY <1>15, <2>1, <2>2 DEF MenuInv, PlanInv
    <3>2. Todo(run[r], d) = {} /\ Uncleared(run[r], d) = {}
      BY <1>2, IdleDoesNothing
    <3>3. RowsSame /\ DataGrows /\ plan' = plan
      BY <1>2, RowsStay, DataStays
    <3> QED
      BY <1>7, <2>2, <3>1, <3>2, <3>3, DayKept
  <2>3. CASE agreed'[d] = web[d] /\ d \in begun
    <3>1. Todo(run'[r], d) = Menu(agreed'[d]) /\ Uncleared(run'[r], d) = PageNames(agreed'[d])
      BY <1>7, <1>10, <2>3
    <3> QED
      BY <3>1 DEF OldPageGoes, NothingForgotten
  <2> QED
    BY <1>2, <1>15, <2>2, <2>3
<1> QED
  BY <1>14, <1>15 DEF MenuInv, PlanInv

\* A run that does not work on a day has nothing to do there.
LEMMA NothingToDo ==
    ASSUME TypeInv, NEW r \in Run, NEW d, ~WorksOn(r, d)
    PROVE  Todo(run[r], d) = {} /\ Uncleared(run[r], d) = {}
<1>1. CASE run[r] = Idle
  BY <1>1, IdleDoesNothing
<1>2. CASE run[r] # Idle
  <2>1. run[r].day # d /\ d \notin run[r].days
    BY <1>2, Works
  <2> QED
    BY <2>1 DEF Todo, ToReach, Uncleared, ToEnter
<1> QED
  BY <1>1, <1>2

LEMMA StopMenu ==
    ASSUME TypeInv, MenuInv, Stop
    PROVE  MenuInv'
<1>1. /\ run' = [r \in Run |-> Idle] /\ UNCHANGED <<canteens, lines, foods, allergens, facts, plan>>
      /\ agreed' = [d \in Day |-> IF \E r \in Run : WorksOn(r, d) THEN None ELSE agreed[d]]
  BY DEF Stop, tables
<1>2. \A r \in Run : run'[r] = Idle /\ run'[r].pc = "idle"
  BY <1>1, IdleShape
<1>3. NamesInv'
  <2>1. RunsOnPage' /\ RunsNameFood' /\ RunsAgree'
    BY <1>2 DEF RunsOnPage, RunsNameFood, RunsAgree, HasFoodPC, WorksOn
  <2>2. PlanNamesFood'
    BY <1>1 DEF MenuInv, NamesInv, PlanNamesFood
  <2> QED
    BY <2>1, <2>2 DEF NamesInv
<1>4. ASSUME CanteensListedOnce, UniqueCanteens', NEW d \in Day, agreed'[d] # None
      PROVE  OldPageGoes(d)' /\ NothingForgotten(d)'
  <2>1. /\ agreed'[d] = agreed[d] /\ \A r \in Run : ~WorksOn(r, d)
        /\ UniqueCanteens
    BY <1>1, <1>4 DEF UniqueCanteens
  <2>2. OldPageGoes(d) /\ NothingForgotten(d)
    BY <1>4, <2>1 DEF MenuInv, PlanInv
  <2>3. \A r \in Run : Todo(run[r], d) = {} /\ Uncleared(run[r], d) = {}
    BY <2>1, NothingToDo
  <2>4. OldPageGoes(d)'
    BY <1>1, <2>1, <2>2, <2>3 DEF OldPageGoes, CanteenOf, Item
  <2>5. NothingForgotten(d)'
    BY <1>1, <2>1, <2>2, <2>3 DEF NothingForgotten, Placed, PlacedBy, CanteenOf
  <2> QED
    BY <2>4, <2>5
<1> QED
  BY <1>3, <1>4 DEF MenuInv, PlanInv

LEMMA InitMenu == Init => MenuInv
<1> SUFFICES ASSUME Init PROVE MenuInv
  OBVIOUS
<1>1. \A r \in Run : run[r] = Idle /\ run[r].pc = "idle"
  BY IdleShape DEF Init
<1>2. NamesInv
  BY <1>1 DEF Init, NamesInv, RunsOnPage, RunsNameFood, PlanNamesFood, RunsAgree, HasFoodPC
<1> QED
  BY <1>2 DEF Init, MenuInv, PlanInv

LEMMA NextMenu ==
    ASSUME TypeInv, DataInv, MenuInv, [Next]_vars
    PROVE  MenuInv'
<1>1. ASSUME NEW r \in Run, StartUpdateParsing(r) \/ StartFullParsing(r)
      PROVE  MenuInv'
  BY <1>1, StartMenu DEF StartUpdateParsing, StartFullParsing
<1>2. ASSUME NEW r \in Run, Step(r)
      PROVE  MenuInv'
  BY <1>2, GetSimilarCanteenMenu, InsertCanteenMenu, DissolveRelationsMenu,
     GetSimilarLineMenu, InsertLineMenu, LookupMenu, UpdateFoodMenu, UpdateFactsMenu,
     InsertFoodMenu, InsertMealMenu, InsertAllergensMenu, InsertFactsMenu, AddToPlanMenu
     DEF Step
<1>3. ASSUME NEW r \in Run, Fail(r)
      PROVE  MenuInv'
  BY <1>3, FailMenu
<1>4. CASE Stop
  BY <1>4, StopMenu
<1>5. CASE UNCHANGED vars
  <2>1. UNCHANGED <<canteens, lines, foods, allergens, facts, plan, run, agreed>>
    BY <1>5 DEF vars, tables, history
  <2>2. NamesInv'
    BY <2>1 DEF MenuInv, NamesInv, RunsOnPage, RunsNameFood, PlanNamesFood, RunsAgree, WorksOn
  <2>3. \A d \in Day : /\ OldPageGoes(d)' <=> OldPageGoes(d)
                       /\ NothingForgotten(d)' <=> NothingForgotten(d)
    BY <2>1 DEF OldPageGoes, NothingForgotten, Placed, PlacedBy, CanteenOf, Item
  <2>4. PlanInv'
    BY <2>1, <2>3 DEF MenuInv, PlanInv, UniqueCanteens
  <2> QED
    BY <2>2, <2>4 DEF MenuInv
<1> QED
  BY <1>1, <1>2, <1>3, <1>4, <1>5 DEF Next

LEMMA MenuInvImplies == CanteensListedOnce /\ TypeInv /\ MenuInv => PlanMatchesMenu
<1> SUFFICES ASSUME CanteensListedOnce, TypeInv, MenuInv, NEW d \in Day, agreed[d] # None,
                    \A r \in Run : ~WorksOn(r, d), UniqueCanteens
             PROVE  /\ \A s \in Served(d) :
                          s.canteen \in {m.canteen : m \in Menu(agreed[d])}
                          => \E m \in Menu(agreed[d]) :
                                m.canteen = s.canteen /\ m.line = s.line /\ m.dish = s.dish
                    /\ \A m \in Menu(agreed[d]) :
                          \E s \in Served(d) :
                             /\ m.canteen = s.canteen /\ m.line = s.line
                             /\ Alike(m.dish.name, s.dish.name)
                             /\ m.dish.allergens \subseteq allergens[s.food]
  BY DEF PlanMatchesMenu
<1>1. OldPageGoes(d) /\ NothingForgotten(d)
  BY DEF MenuInv, PlanInv
<1>2. \A r \in Run : Todo(run[r], d) = {} /\ Uncleared(run[r], d) = {}
  BY NothingToDo
<1>3. ASSUME NEW s \in Served(d), s.canteen \in {m.canteen : m \in Menu(agreed[d])}
      PROVE  \E m \in Menu(agreed[d]) :
                m.canteen = s.canteen /\ m.line = s.line /\ m.dish = s.dish
  <2>1. PICK e \in plan :
          /\ e.day = d
          /\ s = [canteen |-> CanteenOf(e), line |-> lines[e.line].name,
                  dish |-> e.dish, food |-> e.food]
    BY DEF Served, CanteenOf
  <2>2. PICK m \in Menu(agreed[d]) : m.canteen = s.canteen
    BY <1>3
  <2>3. CanteenOf(e) \in PageNames(agreed[d])
    BY <2>1, <2>2, MenuNames DEF PageNames
  <2>4. Item(e) \in Menu(agreed[d])
    BY <1>1, <1>2, <2>1, <2>3 DEF OldPageGoes
  <2> QED
    BY <2>1, <2>4 DEF Item
<1>4. ASSUME NEW m \in Menu(agreed[d])
      PROVE  \E s \in Served(d) :
                /\ m.canteen = s.canteen /\ m.line = s.line
                /\ Alike(m.dish.name, s.dish.name)
                /\ m.dish.allergens \subseteq allergens[s.food]
  <2>1. PICK e \in plan : /\ e.day = d
                         /\ CanteenOf(e) = m.canteen /\ lines[e.line].name = m.line
                         /\ Alike(m.dish.name, e.dish.name)
                         /\ m.dish.allergens \subseteq allergens[e.food]
    BY <1>1, <1>2 DEF NothingForgotten, Placed, PlacedBy
  <2> DEFINE s == [canteen |-> CanteenOf(e), line |-> lines[e.line].name,
                   dish |-> e.dish, food |-> e.food]
  <2>2. s \in Served(d)
    BY <2>1 DEF Served, CanteenOf
  <2> QED
    BY <2>1, <2>2
<1> QED
  BY <1>3, <1>4

\* However many runs of the jobs overlap and whatever the pages say, a day of which none has
\* failed is served as its page says, from the moment the last run has left it: nothing of
\* an older page stays, and each dish is there, or an alike one that shows its allergens.
\* A page may not list a canteen twice: the website has one page for each canteen.
THEOREM PlanIsTheMenu == CanteensListedOnce => (Spec => []PlanMatchesMenu)
<1> SUFFICES ASSUME CanteensListedOnce PROVE Spec => []PlanMatchesMenu
  OBVIOUS
<1> DEFINE Inv == TypeInv /\ DataInv /\ MealsAreFoods /\ MenuInv
<1>1. Init => Inv
  BY InitType, InitDataInv, InitMenu
<1>2. Inv /\ [Next]_vars => Inv'
  BY NextType, NextDataInv, NextMealsAreFoods, NextMenu
<1>3. Inv => PlanMatchesMenu
  BY MenuInvImplies
<1> QED
  BY <1>1, <1>2, <1>3, PTL DEF Spec

-----------------------------------------------------------------------------
(* No food is inserted twice                                               *)

LEMMA LeastNumber ==
  ASSUME NEW T \in SUBSET Nat, T # {}
  PROVE  \E m \in T : \A k \in T : m <= k
<1>1. PICK m \in T : \A k \in T : <<k, m>> \notin OpToRel(<, Nat)
  <2>1. IsWellFoundedOn(OpToRel(<, Nat), Nat)
    BY NatLessThanWellFounded
  <2> QED
    BY <2>1, WFMin
<1>2. \A k \in T : ~(k < m)
  BY <1>1 DEF OpToRel
<1> QED
  BY <1>2

Sim(m, n) == Similarity[m, n]

LEMMA SimilarityAtMost ==
    ASSUME NEW m \in Name, NEW n \in Name
    PROVE  /\ Sim(m, n) \in Nat /\ Sim(n, n) \in Nat
           /\ Sim(m, n) <= Sim(n, n)
           /\ Sim(n, n) <= Sim(m, n) => m = n
<1>1. Similarity[m, n] \in Nat /\ Similarity[n, n] \in Nat
  BY SimilarityAssumption
<1>2. Similarity[m, n] = Similarity[n, m] /\ (m # n => Similarity[n, m] < Similarity[n, n])
  BY SimilarityAssumption
<1>3. /\ Sim(m, n) \in Nat /\ Sim(n, n) \in Nat /\ Sim(m, n) = Sim(n, m)
      /\ m # n => Sim(n, m) < Sim(n, n)
  BY <1>1, <1>2, Zenon DEF Sim
<1> QED
  BY <1>3

\* Where no food is the best match, none matches.
LEMMA NoMatch ==
    ASSUME TypeInv, NEW S \in SUBSET FoodId, NEW dish \in Dish, BestMatches(S, dish) = {}
    PROVE  \A f \in S : ~Matches(f, dish)
<1> SUFFICES ASSUME NEW f0 \in S, Matches(f0, dish) PROVE FALSE
  OBVIOUS
<1> DEFINE n == dish.name
           gap(f) == Sim(n, n) - Sim(foods[f], n)
           T == {gap(f) : f \in {g \in S : Matches(g, dish)}}
<1>1. n \in Name
  BY DishTyped
<1>2. ASSUME NEW f \in S, Matches(f, dish)
      PROVE  foods[f] \in Name
  BY <1>2 DEF Matches, TypeInv, TablesTyped
<1>3. ASSUME NEW f \in S, Matches(f, dish)
      PROVE  gap(f) \in Nat
  <2>1. foods[f] \in Name
    BY <1>2, <1>3
  <2> QED
    BY <1>1, <2>1, SimilarityAtMost
<1>4. T \in SUBSET Nat /\ T # {}
  BY <1>3
<1>5. PICK m \in T : \A k \in T : m <= k
  BY <1>4, LeastNumber
<1>6. PICK f \in S : Matches(f, dish) /\ m = gap(f)
  BY <1>5
<1>7. ASSUME NEW g \in S, Matches(g, dish)
      PROVE  Sim(foods[g], n) <= Sim(foods[f], n)
  <2>1. gap(f) <= gap(g)
    BY <1>5, <1>6, <1>7
  <2>2. foods[f] \in Name /\ foods[g] \in Name
    BY <1>2, <1>6, <1>7
  <2>3. /\ Sim(foods[f], n) \in Nat /\ Sim(foods[g], n) \in Nat
        /\ Sim(n, n) \in Nat
    BY <1>1, <2>2, SimilarityAtMost
  <2> QED
    BY <2>1, <2>3
<1>8. f \in BestMatches(S, dish)
  BY <1>6, <1>7, Zenon DEF BestMatches, Sim
<1> QED
  BY <1>8

\* The food that r inserts or has inserted, and for which it has still to insert the allergens.
Inserting(f) == \E r \in Run : InsertsFood(r) /\ run[r].food = f

FoodsApart ==
    \A f, g \in FoodId :
        /\ f # g /\ foods[f] # None
        /\ ~Inserting(f) /\ ~Inserting(g)
        /\ f \in meals <=> g \in meals
        /\ foods[f] = foods[g]
        => allergens[f] # allergens[g]

\* What run r knows of the foods that match its dish.
KnowsFoods(r) ==
    /\ run[r].pc = "get_similar_side" => \A f \in meals : ~Matches(f, run[r].dish)
    /\ run[r].pc = "insert_food" => \A f \in FoodId : ~Matches(f, run[r].dish)
    /\ run[r].pc = "update_food" =>
         \E S \in {meals, FoodId \ meals} : run[r].food \in BestMatches(S, run[r].dish)
    /\ InsertsFood(r) =>
         /\ foods[run[r].food] = run[r].dish.name
         /\ allergens[run[r].food] = {}
         /\ \A g \in FoodId \ {run[r].food} : ~Matches(g, run[r].dish)

OneRun == \A q, r \in Run : run[q] # Idle /\ run[r] # Idle => q = r

\* Allergens are inserted after their food.
BlankFoods == \A f \in FoodId : foods[f] = None => allergens[f] = {}

FoodInv ==
    /\ BlankFoods
    /\ calm => OneRun /\ FoodsApart /\ \A r \in Run : KnowsFoods(r)

LEMMA IdleKnows ==
    ASSUME NEW r \in Run, run[r] = Idle
    PROVE  ~InsertsFood(r) /\ KnowsFoods(r)
BY IdleShape DEF InsertsFood, Running, KnowsFoods

\* As long as r is alone, only its own knowledge counts.
LEMMA OwnKnowledge ==
    ASSUME TypeInv, FoodInv, NEW r \in Run, run[r].pc \in PC, OnlyRun(r), calm' = calm,
           BlankFoods', calm => FoodsApart' /\ KnowsFoods(r)'
    PROVE  FoodInv'
<1> SUFFICES ASSUME calm, calm'
             PROVE  OneRun' /\ FoodsApart' /\ \A q \in Run : KnowsFoods(q)'
  BY DEF FoodInv
<1>1. \A q \in Run \ {r} : run[q] = Idle /\ run'[q] = Idle
  BY NotIdle DEF FoodInv, OneRun, OnlyRun
<1>2. OneRun'
  BY <1>1 DEF OneRun
<1>3. ASSUME NEW q \in Run, q # r
      PROVE  KnowsFoods(q)'
  BY <1>1, <1>3, IdleShape DEF KnowsFoods, InsertsFood, Running
<1> QED
  BY <1>2, <1>3

LEMMA AloneInserts ==
    ASSUME TypeInv, FoodInv, calm, NEW r \in Run, run[r].pc \in PC, OnlyRun(r)
    PROVE  \A f : /\ Inserting(f) <=> InsertsFood(r) /\ run[r].food = f
                  /\ Inserting(f)' <=> InsertsFood(r)' /\ run'[r].food = f
<1>1. \A q \in Run \ {r} : run[q] = Idle /\ run'[q] = Idle
  BY NotIdle DEF FoodInv, OneRun, OnlyRun
<1>2. \A q \in Run \ {r} : ~InsertsFood(q) /\ ~InsertsFood(q)'
  BY <1>1, IdleShape DEF InsertsFood, Running
<1> QED
  BY <1>2 DEF Inserting

\* A statement that changes no food, at a place where none is being inserted.
LEMMA FoodsLeftAlone ==
    ASSUME TypeInv, FoodInv, NEW r \in Run, run[r].pc \in PC, OnlyRun(r), calm' = calm,
           UNCHANGED <<foods, meals, allergens>>, ~InsertsFood(r), ~InsertsFood(r)',
           calm => KnowsFoods(r)'
    PROVE  FoodInv'
<1>1. BlankFoods'
  BY DEF FoodInv, BlankFoods
<1>2. ASSUME calm PROVE FoodsApart'
  <2>1. FoodsApart
    BY <1>2 DEF FoodInv
  <2>2. \A f : ~Inserting(f) /\ ~Inserting(f)'
    BY <1>2, AloneInserts
  <2> QED
    BY <2>1, <2>2 DEF FoodsApart
<1> QED
  BY <1>1, <1>2, OwnKnowledge

\* At these places a run has no food in mind.
HeadPC == CanteenPC \cup LinePC \cup {"idle", "get_similar_meal", "insert_facts",
                                      "update_facts", "add_to_plan"}

LEMMA ProceedsToHead ==
    ASSUME RunsHaveShape, NEW r \in Run, NEW t, Shape(t), Continue(r, t)
    PROVE  OnlyRun(r) /\ run'[r].pc \in HeadPC
<1>1. PICK next \in Proceed(t) : run' = [run EXCEPT ![r] = next]
  BY DEF Continue
<1>2. \/ next = AtDish(t)
      \/ next = AtLine(t, Head(t.linesLeft))
      \/ \E d, page : next = AtCanteen(t, d, page)
      \/ next = Idle
  BY DEF Proceed
<1>3. /\ Shape(next)
      /\ next.pc \in {"get_similar_meal", "get_similar_line", "get_similar_canteen", "idle"}
  BY <1>2, AtDishLooksUp, AtLineLooksUp, AtCanteenLooksUp, IdleShape
<1> QED
  BY <1>1, <1>3, OwnRecord DEF HeadPC, CanteenPC, LinePC

LEMMA HeadKnows ==
    ASSUME NEW r \in Run, run[r].pc \in HeadPC
    PROVE  KnowsFoods(r) /\ ~InsertsFood(r)
BY DEF HeadPC, CanteenPC, LinePC, KnowsFoods, InsertsFood, Running

LEMMA HeadKnowsThen ==
    ASSUME NEW r \in Run, run'[r].pc \in HeadPC
    PROVE  KnowsFoods(r)' /\ ~InsertsFood(r)'
BY DEF HeadPC, CanteenPC, LinePC, KnowsFoods, InsertsFood, Running

\* A statement that changes no food and after which r has none in mind.
LEMMA NoFoodInMind ==
    ASSUME TypeInv, FoodInv, NEW r \in Run, run[r].pc \in PC, OnlyRun(r), run'[r].pc \in HeadPC,
           ~InsertsFood(r), UNCHANGED <<foods, meals, allergens, calm>>
    PROVE  FoodInv'
BY HeadKnowsThen, FoodsLeftAlone

LEMMA HeadStatements ==
    ASSUME TypeInv, FoodInv, NEW r \in Run,
           \/ GetSimilarCanteen(r) \/ InsertCanteen(r) \/ DissolveRelations(r)
           \/ GetSimilarLine(r) \/ InsertLine(r)
           \/ UpdateFacts(r) \/ InsertFacts(r) \/ AddToPlan(r)
    PROVE  FoodInv'
<1>1. run[r].pc \in HeadPC /\ run[r].pc \in PC
  BY DEF GetSimilarCanteen, InsertCanteen, DissolveRelations, GetSimilarLine, InsertLine,
         UpdateFacts, InsertFacts, AddToPlan, Running, HeadPC, PC, CanteenPC, LinePC, DishPC
<1>2. UNCHANGED <<foods, meals, allergens, calm>>
  BY DEF GetSimilarCanteen, InsertCanteen, DissolveRelations, GetSimilarLine, InsertLine,
         UpdateFacts, InsertFacts, AddToPlan, tables, history
<1>3. \/ \E c : run' = [run EXCEPT ![r].pc = "dissolve_relations", ![r].canteen = c]
      \/ \E pc \in HeadPC : Goto(r, pc)
      \/ \E l : Continue(r, [run[r] EXCEPT !.line = l])
      \/ Continue(r, run[r])
  BY DEF GetSimilarCanteen, InsertCanteen, DissolveRelations, GetSimilarLine, InsertLine,
         UpdateLine, UpdateFacts, InsertFacts, AddToPlan, HeadPC, CanteenPC, LinePC
<1>4. OnlyRun(r) /\ run'[r].pc \in HeadPC
  <2>1. "dissolve_relations" \in HeadPC
    BY DEF HeadPC, CanteenPC
  <2>2. \A l : Shape([run[r] EXCEPT !.line = l])
    BY RunsShaped, LineShape
  <2>3. Shape(run[r])
    BY RunsShaped, OwnShape
  <2>4. CASE \E c : run' = [run EXCEPT ![r].pc = "dissolve_relations", ![r].canteen = c]
    BY <2>1, <2>4, RunsShaped, CanteenFound
  <2>5. CASE \E pc \in HeadPC : Goto(r, pc)
    BY <2>5, RunsShaped, GotoKeepsFood
  <2>6. CASE \E l : Continue(r, [run[r] EXCEPT !.line = l])
    BY <2>2, <2>6, RunsShaped, ProceedsToHead
  <2>7. CASE Continue(r, run[r])
    BY <2>3, <2>7, RunsShaped, ProceedsToHead
  <2> QED
    BY <1>3, <2>4, <2>5, <2>6, <2>7
<1> QED
  BY <1>1, <1>2, <1>4, HeadKnows, NoFoodInMind

LEMMA MatchesSame ==
    ASSUME UNCHANGED <<foods, meals, allergens>>, NEW dish
    PROVE  /\ \A f : Matches(f, dish)' <=> Matches(f, dish)
           /\ \A S : BestMatches(S, dish)' = BestMatches(S, dish)
BY DEF Matches, BestMatches

LEMMA LookupKnows ==
    ASSUME TypeInv, FoodInv, NEW r \in Run, GetSimilarMeal(r) \/ GetSimilarSide(r)
    PROVE  FoodInv'
<1>0. PICK dish : dish = run[r].dish
  OBVIOUS
<1>1. /\ run[r].pc \in DishPC /\ run[r].pc \in PC
      /\ ~InsertsFood(r) /\ UNCHANGED <<foods, meals, allergens, calm>>
  BY DEF GetSimilarMeal, GetSimilarSide, Running, InsertsFood, DishPC, PC, tables, history
<1>2. dish \in Dish /\ meals \subseteq FoodId
  BY <1>0, <1>1, DishInHand DEF TypeInv, TablesTyped
<1>3. /\ \A f : Matches(f, dish)' <=> Matches(f, dish)
      /\ \A S : BestMatches(S, dish)' = BestMatches(S, dish)
  BY <1>1, MatchesSame
<1>4. ASSUME NEW S \in {meals, FoodId \ meals}, NEW f \in BestMatches(S, dish), UpdateDish(r, f)
      PROVE  FoodInv'
  <2>1. /\ OnlyRun(r) /\ run'[r].pc = "update_food" /\ run'[r].food = f /\ run'[r].dish = dish
    <3>1. RunsHaveShape
      BY RunsShaped
    <3>2. /\ OnlyRun(r) /\ run'[r].pc = "update_food" /\ run'[r].food = f
          /\ run'[r].dish = run[r].dish
      <4>1. TakesFood(r, "update_food", f)
        BY <1>4 DEF UpdateDish, TakesFood
      <4> QED
        BY <3>1, <4>1, FoundFood
    <3> QED
      BY <1>0, <3>2
  <2>2. ~InsertsFood(r)'
    BY <2>1 DEF InsertsFood, Running
  <2>3. f \in BestMatches(S, dish)' /\ S \in {meals', FoodId \ meals'}
    BY <1>1, <1>3, <1>4
  <2>4. \E T \in {meals', FoodId \ meals'} : f \in BestMatches(T, dish)'
    BY <2>3
  <2>5. KnowsFoods(r)'
    BY <2>1, <2>2, <2>4 DEF KnowsFoods
  <2> QED
    BY <1>1, <2>1, <2>2, <2>5, FoodsLeftAlone
<1>5. ASSUME BestMatches(meals, dish) = {}, Goto(r, "get_similar_side")
      PROVE  FoodInv'
  <2>1. /\ OnlyRun(r) /\ run'[r].pc = "get_similar_side" /\ run'[r].dish = dish
    BY <1>0, <1>5, RunsShaped, GotoKeepsFood
  <2>2. \A f \in meals : ~Matches(f, dish)
    BY <1>2, <1>5, NoMatch
  <2>3. ~InsertsFood(r)'
    BY <2>1 DEF InsertsFood, Running
  <2>4. KnowsFoods(r)'
    BY <1>1, <1>3, <2>1, <2>2, <2>3 DEF KnowsFoods
  <2> QED
    BY <1>1, <2>1, <2>3, <2>4, FoodsLeftAlone
<1>6. ASSUME run[r].pc = "get_similar_side", BestMatches(FoodId \ meals, dish) = {}, InsertDish(r)
      PROVE  FoodInv'
  <2>1. /\ OnlyRun(r) /\ run'[r].pc = "insert_food" /\ run'[r].dish = dish
    BY <1>0, <1>6, RunsShaped, DishToInsert DEF SameWork
  <2>2. \A f \in FoodId \ meals : ~Matches(f, dish)
    BY <1>2, <1>6, NoMatch
  <2>3. calm => \A f \in meals : ~Matches(f, dish)
    BY <1>0, <1>6 DEF FoodInv, KnowsFoods
  <2>4. ~InsertsFood(r)'
    BY <2>1 DEF InsertsFood, Running
  <2>5. calm => \A f \in FoodId : ~Matches(f, dish)'
    BY <1>3, <2>2, <2>3
  <2>6. calm => KnowsFoods(r)'
    BY <2>1, <2>4, <2>5 DEF KnowsFoods
  <2> QED
    BY <1>1, <2>1, <2>4, <2>6, FoodsLeftAlone
<1>7. CASE GetSimilarMeal(r)
  BY <1>0, <1>4, <1>5, <1>7 DEF GetSimilarMeal
<1>8. CASE GetSimilarSide(r)
  BY <1>0, <1>4, <1>6, <1>8 DEF GetSimilarSide, Running
<1> QED
  BY <1>7, <1>8

\* The food that is renamed was the best match: were there another of the new name and the
\* same allergens, that one would have been found, or the two would have been alike before.
LEMMA UpdateFoodKnows ==
    ASSUME TypeInv, FoodInv, NEW r \in Run, UpdateFood(r)
    PROVE  FoodInv'
<1>0. PICK dish, f0 : dish = run[r].dish /\ f0 = run[r].food
  OBVIOUS
<1>1. /\ run[r].pc = "update_food" /\ Goto(r, FactsOr("update_facts", r))
      /\ foods' = [foods EXCEPT ![f0] = dish.name]
      /\ UNCHANGED <<meals, allergens, calm>>
  BY <1>0 DEF UpdateFood, Running, history
<1>2. /\ run[r].pc \in PC /\ f0 \in FoodId /\ foods[f0] \in Name
      /\ dish.name \in Name /\ dish.name # None
  <2>1. run[r].pc \in DishPC /\ run[r].pc \in HasFoodPC
    BY <1>1 DEF DishPC, HasFoodPC
  <2>2. f0 \in FoodId /\ foods[f0] # None /\ dish.name \in Name /\ dish.name # None
    BY <1>0, <2>1, DishInHand, DishTyped
  <2> QED
    BY <2>1, <2>2 DEF PC, TypeInv, TablesTyped
<1>3. \A f \in FoodId : foods'[f] = IF f = f0 THEN dish.name ELSE foods[f]
  BY <1>1, <1>2 DEF TypeInv, TablesTyped
<1>4. OnlyRun(r) /\ run'[r].pc \in HeadPC
  <2>1. FactsOr("update_facts", r) \in HeadPC
    BY DEF FactsOr, HeadPC
  <2> QED
    BY <1>1, <2>1, RunsShaped, GotoKeepsFood
<1>5. KnowsFoods(r)' /\ ~InsertsFood(r)'
  BY <1>4, HeadKnowsThen
<1>6. ~InsertsFood(r)
  BY <1>1 DEF InsertsFood, Running
<1>7. BlankFoods'
  BY <1>1, <1>2, <1>3, PagesAssumption DEF FoodInv, BlankFoods
<1>8. ASSUME calm PROVE FoodsApart'
  <2>1. FoodsApart /\ KnowsFoods(r)
    BY <1>8 DEF FoodInv
  <2>2. \A f : ~Inserting(f)
    BY <1>2, <1>4, <1>6, <1>8, AloneInserts
  <2>3. \A f, g \in FoodId :
          f # g /\ foods[f] # None /\ (f \in meals <=> g \in meals) /\ foods[f] = foods[g]
          => allergens[f] # allergens[g]
    BY <2>1, <2>2 DEF FoodsApart
  <2>4. PICK S \in {meals, FoodId \ meals} : f0 \in BestMatches(S, dish)
    BY <1>0, <1>1, <2>1 DEF KnowsFoods
  <2>5. f0 \in S /\ allergens[f0] = dish.allergens
    BY <2>4 DEF BestMatches, Matches
  <2>6. ASSUME NEW g \in FoodId, g # f0, f0 \in meals <=> g \in meals, foods[g] = dish.name
        PROVE  allergens[g] # allergens[f0]
    <3> SUFFICES ASSUME allergens[g] = allergens[f0] PROVE FALSE
      OBVIOUS
    <3>1. g \in S
      BY <2>4, <2>5, <2>6
    <3>2. Similarity[dish.name, dish.name] >= Threshold
      BY <1>2, SimilarityAssumption
    <3>3. Matches(g, dish)
      BY <1>2, <2>5, <2>6, <3>2 DEF Matches
    <3>4. Similarity[foods[g], dish.name] <= Similarity[foods[f0], dish.name]
      BY <2>4, <3>1, <3>3 DEF BestMatches
    <3>5. Sim(dish.name, dish.name) <= Sim(foods[f0], dish.name)
      BY <2>6, <3>4, Zenon DEF Sim
    <3>6. foods[f0] = dish.name
      BY <1>2, <3>5, SimilarityAtMost
    <3> QED
      BY <1>2, <2>3, <2>6, <3>6
  <2>7. ASSUME NEW f \in FoodId, NEW g \in FoodId, f # g, foods'[f] # None,
               f \in meals <=> g \in meals, foods'[f] = foods'[g]
        PROVE  allergens[f] # allergens[g]
    <3>1. CASE f = f0
      BY <1>3, <2>6, <2>7, <3>1
    <3>2. CASE g = f0
      BY <1>3, <2>6, <2>7, <3>2
    <3>3. CASE f # f0 /\ g # f0
      BY <1>3, <2>3, <2>7, <3>3
    <3> QED
      BY <3>1, <3>2, <3>3
  <2> QED
    BY <1>1, <2>7 DEF FoodsApart
<1> QED
  BY <1>1, <1>2, <1>4, <1>5, <1>7, <1>8, OwnKnowledge

LEMMA InsertFoodKnows ==
    ASSUME TypeInv, FoodInv, NEW r \in Run, InsertFood(r)
    PROVE  FoodInv'
<1> DEFINE pc == IF run[r].meal THEN "insert_meal" ELSE "insert_allergens"
<1>0. PICK dish : dish = run[r].dish
  OBVIOUS
<1>1. /\ run[r].pc = "insert_food" /\ UNCHANGED <<meals, allergens, calm>>
  BY DEF InsertFood, Running, history
<1>2. PICK f0 \in FoodId : /\ foods[f0] = None
                          /\ foods' = [foods EXCEPT ![f0] = dish.name]
                          /\ run' = [run EXCEPT ![r].pc = pc, ![r].food = f0]
  BY <1>0 DEF InsertFood
<1>3. pc \in {"insert_meal", "insert_allergens"}
  OBVIOUS
<1> HIDE DEF pc
<1>4. /\ OnlyRun(r) /\ run'[r].pc = pc /\ run'[r].food = f0 /\ run'[r].dish = dish
  <2>1. RunsHaveShape
    BY RunsShaped
  <2>2. OnlyRun(r) /\ run'[r].pc = pc /\ run'[r].food = f0 /\ run'[r].dish = run[r].dish
    <3>1. TakesFood(r, pc, f0)
      BY <1>2 DEF TakesFood
    <3> QED
      BY <2>1, <3>1, FoundFood
  <2> QED
    BY <1>0, <2>2
<1>5. run[r].pc \in PC /\ dish \in Dish /\ dish.name # None
  BY <1>0, <1>1, DishInHand, DishTyped DEF DishPC, PC
<1>6. \A f \in FoodId : foods'[f] = IF f = f0 THEN dish.name ELSE foods[f]
  BY <1>2 DEF TypeInv, TablesTyped
<1>7. BlankFoods'
  BY <1>1, <1>2, <1>5, <1>6 DEF FoodInv, BlankFoods
<1>8. InsertsFood(r)' /\ ~InsertsFood(r)
  BY <1>1, <1>3, <1>4 DEF InsertsFood, Running
<1>9. ASSUME calm PROVE FoodsApart' /\ KnowsFoods(r)'
  <2>1. FoodsApart /\ KnowsFoods(r) /\ BlankFoods
    BY <1>9 DEF FoodInv
  <2>2. \A f : ~Inserting(f) /\ (Inserting(f)' <=> f0 = f)
    BY <1>4, <1>5, <1>8, <1>9, AloneInserts
  <2>3. FoodsApart'
    BY <1>1, <1>6, <2>1, <2>2 DEF FoodsApart
  <2>4. \A g \in FoodId \ {f0} : ~Matches(g, dish)'
    BY <1>0, <1>1, <1>6, <2>1 DEF KnowsFoods, Matches
  <2>5. foods'[f0] = dish.name /\ allergens'[f0] = {}
    BY <1>1, <1>2, <1>6, <2>1 DEF BlankFoods
  <2>6. KnowsFoods(r)'
    BY <1>3, <1>4, <2>4, <2>5 DEF KnowsFoods
  <2> QED
    BY <2>3, <2>6
<1> QED
  BY <1>1, <1>4, <1>5, <1>7, <1>9, OwnKnowledge

LEMMA InsertMealKnows ==
    ASSUME TypeInv, FoodInv, NEW r \in Run, InsertMeal(r)
    PROVE  FoodInv'
<1>0. PICK dish, f0 : dish = run[r].dish /\ f0 = run[r].food
  OBVIOUS
<1>1. /\ run[r].pc = "insert_meal" /\ Goto(r, "insert_allergens")
      /\ meals' = meals \cup {f0} /\ UNCHANGED <<foods, allergens, calm>>
  BY <1>0 DEF InsertMeal, Running, history
<1>2. run[r].pc \in PC
  BY <1>1 DEF DishPC, PC
<1>3. /\ OnlyRun(r) /\ run'[r].pc = "insert_allergens" /\ run'[r].food = f0 /\ run'[r].dish = dish
  BY <1>0, <1>1, RunsShaped, GotoKeepsFood
<1>4. InsertsFood(r)' /\ InsertsFood(r)
  BY <1>1, <1>3 DEF InsertsFood, Running
<1>5. BlankFoods'
  BY <1>1 DEF FoodInv, BlankFoods
<1>6. ASSUME calm PROVE FoodsApart' /\ KnowsFoods(r)'
  <2>1. FoodsApart /\ KnowsFoods(r)
    BY <1>6 DEF FoodInv
  <2>2. \A f : (Inserting(f) <=> f0 = f) /\ (Inserting(f)' <=> f0 = f)
    BY <1>0, <1>2, <1>3, <1>4, <1>6, AloneInserts
  <2>3. FoodsApart'
    BY <1>1, <2>1, <2>2 DEF FoodsApart
  <2>4. KnowsFoods(r)'
    BY <1>0, <1>1, <1>3, <1>4, <2>1 DEF KnowsFoods, Matches
  <2> QED
    BY <2>3, <2>4
<1> QED
  BY <1>1, <1>2, <1>3, <1>5, <1>6, OwnKnowledge

LEMMA InsertAllergensKnows ==
    ASSUME TypeInv, FoodInv, NEW r \in Run, InsertAllergens(r)
    PROVE  FoodInv'
<1>0. PICK dish, f0 : dish = run[r].dish /\ f0 = run[r].food
  OBVIOUS
<1>1. /\ run[r].pc = "insert_allergens" /\ Goto(r, FactsOr("insert_facts", r))
      /\ allergens' = [allergens EXCEPT ![f0] = @ \cup dish.allergens]
      /\ UNCHANGED <<foods, meals, calm>>
  BY <1>0 DEF InsertAllergens, Running, history
<1>2. run[r].pc \in PC /\ f0 \in FoodId /\ foods[f0] # None /\ dish.name \in Name
  BY <1>0, <1>1, DishInHand, DishTyped DEF DishPC, HasFoodPC, PC
<1>3. OnlyRun(r) /\ run'[r].pc \in HeadPC
  <2>1. FactsOr("insert_facts", r) \in HeadPC
    BY DEF FactsOr, HeadPC
  <2> QED
    BY <1>1, <2>1, RunsShaped, GotoKeepsFood
<1>4. KnowsFoods(r)' /\ ~InsertsFood(r)'
  BY <1>3, HeadKnowsThen
<1>5. InsertsFood(r)
  BY <1>1 DEF InsertsFood, Running
<1>6. \A f \in FoodId : allergens'[f] = IF f = f0 THEN allergens[f] \cup dish.allergens
                                        ELSE allergens[f]
  BY <1>1, <1>2 DEF TypeInv, TablesTyped
<1>7. BlankFoods'
  BY <1>1, <1>2, <1>6 DEF FoodInv, BlankFoods
<1>8. ASSUME calm PROVE FoodsApart'
  <2>1. FoodsApart /\ KnowsFoods(r)
    BY <1>8 DEF FoodInv
  <2>2. \A f : (Inserting(f) <=> f0 = f) /\ ~Inserting(f)'
    BY <1>0, <1>2, <1>3, <1>4, <1>5, <1>8, AloneInserts
  <2>3. /\ foods[f0] = dish.name /\ allergens[f0] = {}
        /\ \A g \in FoodId \ {f0} : ~Matches(g, dish)
    BY <1>0, <1>5, <2>1 DEF KnowsFoods
  <2>4. Similarity[dish.name, dish.name] >= Threshold
    BY <1>2, SimilarityAssumption
  <2>5. ASSUME NEW g \in FoodId, g # f0, foods[g] = dish.name
        PROVE  allergens[g] # dish.allergens
    BY <1>2, <2>3, <2>4, <2>5 DEF Matches
  <2>6. allergens'[f0] = dish.allergens
    BY <1>2, <1>6, <2>3
  <2>7. ASSUME NEW f \in FoodId, NEW g \in FoodId, f # g, foods[f] # None,
               f \in meals <=> g \in meals, foods[f] = foods[g]
        PROVE  allergens'[f] # allergens'[g]
    <3>1. CASE f = f0
      BY <1>6, <2>3, <2>5, <2>6, <2>7, <3>1
    <3>2. CASE g = f0
      BY <1>6, <2>3, <2>5, <2>6, <2>7, <3>2
    <3>3. CASE f # f0 /\ g # f0
      BY <1>6, <2>1, <2>2, <2>7, <3>3 DEF FoodsApart
    <3> QED
      BY <3>1, <3>2, <3>3
  <2> QED
    BY <1>1, <2>7 DEF FoodsApart
<1> QED
  BY <1>1, <1>2, <1>3, <1>4, <1>7, <1>8, OwnKnowledge

LEMMA FoodsUntouched ==
    ASSUME FoodInv, UNCHANGED <<foods, meals, allergens>>, calm' => calm /\ run' = run
    PROVE  FoodInv'
<1>1. BlankFoods'
  BY DEF FoodInv, BlankFoods
<1>2. SUFFICES ASSUME calm'
               PROVE  OneRun' /\ FoodsApart' /\ \A r \in Run : KnowsFoods(r)'
  BY <1>1 DEF FoodInv
<1>3. run' = run /\ OneRun /\ FoodsApart /\ \A r \in Run : KnowsFoods(r)
  BY <1>2 DEF FoodInv
<1>4. OneRun'
  BY <1>3 DEF OneRun
<1>5. \A r : InsertsFood(r)' <=> InsertsFood(r)
  BY <1>3 DEF InsertsFood, Running
<1>6. FoodsApart'
  <2>1. \A f : Inserting(f)' <=> Inserting(f)
    BY <1>3, <1>5 DEF Inserting
  <2> QED
    BY <1>3, <2>1 DEF FoodsApart
<1>7. ASSUME NEW r \in Run
      PROVE  KnowsFoods(r)'
  <2>1. PICK dish : dish = run[r].dish /\ dish = run'[r].dish
    BY <1>3
  <2>2. /\ \A f : Matches(f, dish)' <=> Matches(f, dish)
        /\ \A S : BestMatches(S, dish)' = BestMatches(S, dish)
    BY MatchesSame
  <2>3. KnowsFoods(r)
    BY <1>3
  <2>4. run'[r].pc = "get_similar_side" => \A f \in meals' : ~Matches(f, dish)'
    BY <1>3, <2>1, <2>2, <2>3 DEF KnowsFoods
  <2>5. run'[r].pc = "insert_food" => \A f \in FoodId : ~Matches(f, dish)'
    BY <1>3, <2>1, <2>2, <2>3 DEF KnowsFoods
  <2>6. run'[r].pc = "update_food" =>
          \E S \in {meals', FoodId \ meals'} : run'[r].food \in BestMatches(S, dish)'
    BY <1>3, <2>1, <2>2, <2>3 DEF KnowsFoods
  <2>7. InsertsFood(r)' =>
          /\ foods'[run'[r].food] = dish.name
          /\ allergens'[run'[r].food] = {}
          /\ \A g \in FoodId \ {run'[r].food} : ~Matches(g, dish)'
    BY <1>3, <1>5, <2>1, <2>2, <2>3 DEF KnowsFoods
  <2> QED
    BY <2>1, <2>4, <2>5, <2>6, <2>7 DEF KnowsFoods
<1> QED
  BY <1>4, <1>6, <1>7

LEMMA NextFoodInv ==
    ASSUME TypeInv, FoodInv, [Next]_vars
    PROVE  FoodInv'
<1>1. ASSUME NEW r \in Run, NEW days, NEW web, Start(r, days, web)
      PROVE  FoodInv'
  <2>1. /\ UNCHANGED <<foods, meals, allergens>>
        /\ calm' = (calm /\ \A q \in Run : run[q] = Idle)
        /\ Continue(r, [Idle EXCEPT !.web = web, !.days = {d \in days : web[d] # <<>>}])
    BY <1>1 DEF Start, tables
  <2>2. BlankFoods'
    BY <2>1 DEF FoodInv, BlankFoods
  <2>3. Shape([Idle EXCEPT !.web = web, !.days = {d \in days : web[d] # <<>>}])
    BY IdleShape, FieldNames DEF Shape
  <2>4. OnlyRun(r) /\ run'[r].pc \in HeadPC
    BY <2>1, <2>3, RunsShaped, ProceedsToHead
  <2>5. ASSUME calm'
        PROVE  OneRun' /\ FoodsApart' /\ \A q \in Run : KnowsFoods(q)'
    <3>1. calm /\ \A q \in Run : run[q] = Idle
      BY <2>1, <2>5
    <3>2. \A q \in Run \ {r} : run'[q] = Idle /\ run'[q].pc = "idle"
      BY <2>4, <3>1, IdleShape DEF OnlyRun
    <3>3. "idle" \in HeadPC
      BY DEF HeadPC
    <3>4. \A q \in Run : run'[q].pc \in HeadPC
      BY <2>4, <3>2, <3>3
    <3>5. \A q \in Run : KnowsFoods(q)' /\ ~InsertsFood(q)'
      BY <3>4, HeadKnowsThen
    <3>6. \A q \in Run : ~InsertsFood(q)
      BY <3>1, IdleKnows
    <3>7. FoodsApart'
      BY <2>1, <3>1, <3>5, <3>6 DEF FoodInv, FoodsApart, Inserting
    <3>8. OneRun'
      BY <3>2 DEF OneRun
    <3> QED
      BY <3>5, <3>7, <3>8
  <2> QED
    BY <2>2, <2>5 DEF FoodInv
<1>2. ASSUME NEW r \in Run, Step(r)
      PROVE  FoodInv'
  BY <1>2, HeadStatements, LookupKnows, UpdateFoodKnows, InsertFoodKnows, InsertMealKnows,
     InsertAllergensKnows
     DEF Step
<1>3. ASSUME NEW r \in Run, Fail(r)
      PROVE  FoodInv'
  BY <1>3 DEF Fail, tables, FoodInv, BlankFoods
<1>4. CASE Stop
  <2>1. UNCHANGED <<foods, meals, allergens>> /\ (calm' => calm /\ run' = run)
    BY <1>4 DEF Stop, tables
  <2> QED
    BY <2>1, FoodsUntouched
<1>5. CASE UNCHANGED vars
  BY <1>5, FoodsUntouched DEF vars, tables, history
<1> QED
  BY <1>1, <1>2, <1>3, <1>4, <1>5 DEF Next, StartUpdateParsing, StartFullParsing

LEMMA InitFoodInv == Init => FoodInv
<1> SUFFICES ASSUME Init PROVE FoodInv
  OBVIOUS
<1>1. \A r \in Run : KnowsFoods(r) /\ run[r] = Idle
  BY IdleKnows DEF Init
<1> QED
  BY <1>1 DEF Init, FoodInv, BlankFoods, OneRun, FoodsApart

\* As long as runs do not overlap and none fails, no dish is given a second food: there
\* are no two meals, and no two sides, of one name and the same allergens, whatever names
\* the website gives its dishes and however many are similar.
THEOREM DishesAreNotDoubled == Spec => []DishesKeepTheirFood
<1>1. FoodInv => DishesKeepTheirFood
  BY DEF FoodInv, FoodsApart, Inserting, DishesKeepTheirFood
<1> QED
  BY <1>1, InitType, InitFoodInv, NextType, NextFoodInv, PTL DEF Spec
=============================================================================
