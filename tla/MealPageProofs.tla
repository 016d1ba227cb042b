---------------------------- MODULE MealPageProofs ----------------------------
(* What a page shows of the user's own opinions, for any pictures, users,  *)
(* ratings and calls: the theorems about OwnOpinionsShown and              *)
(* CountsIncludeOwn, with the sum over a finite set that the counts need.  *)
EXTENDS MealPage, FiniteSetTheorems, WellFoundedInduction, TLAPS

-----------------------------------------------------------------------------
(* The sum over a finite set is at least each of its terms                 *)

LEMMA LeastNumber ==
  ASSUME NEW T \in SUBSET Nat, T # {}
  PROVE  \E m \in T : \A k \in T : m <= k
<1>1. PICK m \in T : \A k \in T : <<k, m>> \notin OpToRel(<, Nat)
  <2>1. IsWellFoundedOn(OpToRel(<, Nat), Nat)
    BY NatLessThanWellFounded
  <2> QED
    BY <2>1, WFMin
<1>2. \A k \in T : ~(k < m)
  BY <1>1 DEF OpToRel
<1> QED
  BY <1>2

\* f summed up over the subsets of S
IsSum(S, f, g) ==
  g = [s \in SUBSET S |->
         IF s = {} THEN 0
         ELSE f[CHOOSE x \in s : TRUE] + g[s \ {CHOOSE x \in s : TRUE}]]

LEMMA SumDef ==
  ASSUME NEW S, NEW f, \E g : IsSum(S, f, g)
  PROVE  \E g : IsSum(S, f, g) /\ SumFunctionOnSet(f, S) = g[S]
 <1> DEFINE h == CHOOSE g : IsSum(S, f, g)
 <1>1. IsSum(S, f, h)
   BY Zenon
 <1>2. SumFunctionOnSet(f, S) = h[S]
   BY Zenon DEF SumFunctionOnSet, FoldFunctionOnSet, MapThenFoldSet, IsSum
 <1> QED BY <1>1, <1>2

Upto(S, n) == {s \in SUBSET S : Cardinality(s) <= n}

IsSumUpto(S, f, n, g) ==
  g = [s \in Upto(S, n) |->
         IF s = {} THEN 0
         ELSE f[CHOOSE x \in s : TRUE] + g[s \ {CHOOSE x \in s : TRUE}]]

LEMMA SumExists ==
  ASSUME NEW S, NEW f, IsFiniteSet(S)
  PROVE  \E g : IsSum(S, f, g)
<1> DEFINE Bad == {n \in Nat : \A g : ~IsSumUpto(S, f, n, g)}
<1>0. \A s \in SUBSET S : IsFiniteSet(s) /\ Cardinality(s) \in Nat /\ Cardinality(s) <= Cardinality(S)
  BY FS_Subset, FS_CardinalityType
<1>1. ASSUME NEW n \in Nat, NEW g, IsSumUpto(S, f, n, g)
      PROVE  \E h : IsSumUpto(S, f, n + 1, h)
  <2> DEFINE h == [s \in Upto(S, n + 1) |->
                    IF s = {} THEN 0
                    ELSE f[CHOOSE x \in s : TRUE] + g[s \ {CHOOSE x \in s : TRUE}]]
  <2>1. ASSUME NEW s \in Upto(S, n + 1), s # {}
        PROVE  s \ {CHOOSE x \in s : TRUE} \in Upto(S, n)
    <3>1. PICK x \in s : x = (CHOOSE y \in s : TRUE)
      BY <2>1
    <3>2. IsFiniteSet(s) /\ Cardinality(s) <= n + 1 /\ Cardinality(s) \in Nat
      BY <1>0 DEF Upto
    <3>3. Cardinality(s \ {x}) = Cardinality(s) - 1
      BY <3>2, FS_RemoveElement
    <3>4. s \ {x} \in Upto(S, n)
      BY <3>2, <3>3 DEF Upto
    <3> QED
      BY <3>1, <3>4
  <2>2. \A s \in Upto(S, n) : s \in Upto(S, n + 1)
    BY <1>0 DEF Upto
  <2>3. ASSUME NEW s \in Upto(S, n) PROVE h[s] = g[s]
    <3>1. h[s] = IF s = {} THEN 0
                 ELSE f[CHOOSE x \in s : TRUE] + g[s \ {CHOOSE x \in s : TRUE}]
      BY <2>2, <2>3
    <3>2. g[s] = IF s = {} THEN 0
                 ELSE f[CHOOSE x \in s : TRUE] + g[s \ {CHOOSE x \in s : TRUE}]
      BY <1>1, <2>3 DEF IsSumUpto
    <3> QED
      BY <3>1, <3>2
  <2> HIDE DEF h
  <2>4. ASSUME NEW s \in Upto(S, n + 1), s # {}
        PROVE  g[s \ {CHOOSE x \in s : TRUE}] = h[s \ {CHOOSE x \in s : TRUE}]
    BY <2>1, <2>3, <2>4
  <2>5. h = [s \in Upto(S, n + 1) |->
               IF s = {} THEN 0
               ELSE f[CHOOSE x \in s : TRUE] + h[s \ {CHOOSE x \in s : TRUE}]]
    <3>1. h = [s \in Upto(S, n + 1) |-> h[s]]
      BY DEF h
    <3>2. ASSUME NEW s \in Upto(S, n + 1)
          PROVE  h[s] = IF s = {} THEN 0
                        ELSE f[CHOOSE x \in s : TRUE] + h[s \ {CHOOSE x \in s : TRUE}]
      <4>1. h[s] = IF s = {} THEN 0
                   ELSE f[CHOOSE x \in s : TRUE] + g[s \ {CHOOSE x \in s : TRUE}]
        BY DEF h
      <4> QED
        BY <2>4, <4>1
    <3> QED
      BY <3>1, <3>2, Zenon
  <2> QED
    BY <2>5, Zenon DEF IsSumUpto
<1>2. \E g : IsSumUpto(S, f, 0, g)
  <2> DEFINE g == [s \in Upto(S, 0) |-> 0]
  <2>1. \A s \in Upto(S, 0) : s = {}
    BY <1>0, FS_EmptySet DEF Upto
  <2>2. g = [s \in Upto(S, 0) |->
         IF s = {} THEN 0
         ELSE f[CHOOSE x \in s : TRUE] + g[s \ {CHOOSE x \in s : TRUE}]]
    BY <2>1, Zenon
  <2> QED
    BY <2>2, Zenon DEF IsSumUpto
<1>3. Bad = {}
  <2> SUFFICES ASSUME Bad # {} PROVE FALSE
    OBVIOUS
  <2>1. PICK m \in Bad : \A k \in Bad : m <= k
    BY LeastNumber
  <2>2. m \in Nat /\ \A g : ~IsSumUpto(S, f, m, g)
    OBVIOUS
  <2>3. m # 0
    BY <1>2, <2>2
  <2>4. m - 1 \in Nat /\ m - 1 \notin Bad /\ (m - 1) + 1 = m
    BY <2>1, <2>2, <2>3
  <2>5. PICK g : IsSumUpto(S, f, m - 1, g)
    BY <2>4
  <2> QED
    BY <1>1, <2>2, <2>4, <2>5
<1>4. PICK g : IsSumUpto(S, f, Cardinality(S), g)
  BY <1>0, <1>3
<1>5. Upto(S, Cardinality(S)) = SUBSET S
  BY <1>0 DEF Upto
<1> QED
  BY <1>4, <1>5 DEF IsSum, IsSumUpto

LEMMA SumCoversEach ==
  ASSUME NEW S, IsFiniteSet(S), NEW f \in [S -> Nat], NEW a \in S
  PROVE  SumFunctionOnSet(f, S) \in Nat /\ SumFunctionOnSet(f, S) >= f[a]
<1>1. PICK g : IsSum(S, f, g) /\ SumFunctionOnSet(f, S) = g[S]
  BY SumExists, SumDef
<1> DEFINE Good(s) == g[s] \in Nat /\ \A x \in s : g[s] >= f[x]
           Bad == {n \in Nat : \E s \in SUBSET S : Cardinality(s) = n /\ ~Good(s)}
<1>0. \A s \in SUBSET S : IsFiniteSet(s) /\ Cardinality(s) \in Nat
  BY FS_Subset, FS_CardinalityType
<1>2. ASSUME Bad # {} PROVE FALSE
  <2>1. PICK m \in Bad : \A k \in Bad : m <= k
    BY <1>2, LeastNumber
  <2>2. PICK s \in SUBSET S : Cardinality(s) = m /\ ~Good(s)
    BY <2>1
  <2>3. s # {}
    BY <1>1, <2>2 DEF IsSum
  <2>4. PICK x \in s : x = (CHOOSE y \in s : TRUE)
    BY <2>3
  <2>5. g[s] = f[x] + g[s \ {x}]
    BY <1>1, <2>3, <2>4 DEF IsSum
  <2>6. Cardinality(s \ {x}) = m - 1 /\ m \in Nat
    BY <1>0, <2>2, <2>4, FS_RemoveElement
  <2>7. Good(s \ {x})
    <3>1. s \ {x} \in SUBSET S
      OBVIOUS
    <3>2. m - 1 \in Nat /\ m - 1 \notin Bad
      <4>1. Cardinality(s \ {x}) \in Nat
        BY <1>0, <3>1
      <4>2. m - 1 \in Nat /\ ~(m <= m - 1)
        BY <2>6, <4>1
      <4> HIDE DEF Bad
      <4> QED
        BY <2>1, <4>2
    <3>3. \A t \in SUBSET S : Cardinality(t) = m - 1 => Good(t)
      BY <3>2
    <3> HIDE DEF Good
    <3> QED
      BY <2>6, <3>1, <3>3
  <2>8. f[x] \in Nat /\ \A y \in s : f[y] \in Nat
    OBVIOUS
  <2>9. g[s \ {x}] \in Nat /\ \A y \in s \ {x} : g[s \ {x}] >= f[y]
    BY <2>7
  <2>10. g[s] \in Nat /\ g[s] >= f[x] /\ g[s] >= g[s \ {x}]
    BY <2>4, <2>5, <2>8, <2>9
  <2>11. ASSUME NEW y \in s \ {x} PROVE g[s] >= f[y]
    <3>1. f[y] \in Nat /\ g[s \ {x}] >= f[y]
      BY <2>8, <2>9
    <3> QED
      BY <2>9, <2>10, <3>1
  <2> QED
    BY <2>2, <2>10, <2>11
<1>3. Good(S)
  BY <1>0, <1>2
<1> QED
  BY <1>1, <1>3
-----------------------------------------------------------------------------
(* Type correctness                                                        *)

Opinion == {-1, 0, 1}

Picture == [own : Opinion, up : Int, down : Int]

Pictures == UNION {[S -> Picture] : S \in SUBSET Image}

Page == [loaded : BOOLEAN, own : Nat, count : Int, total : Int, images : Pictures]

VoteOp == {"addUpvote", "addDownvote", "removeUpvote", "removeDownvote"}

Op == VoteOp \cup {"none", "reportImage", "setRating", "refreshMealplan"}

PC == {"idle", "sent", "add_report", "reading", "ok", "refused", "updateMeal"}

Statement == {"rating", "images", "upvote", "downvote"}

CallRecord ==
    [op : Op, pc : PC, img : Image \cup {None}, num : Nat, got : Page,
     reads : SUBSET Statement, heard : BOOLEAN, onPage : BOOLEAN, onPlan : BOOLEAN,
     alone : BOOLEAN]

\* A slot is free or holds one call of the app.
CallOK(k) ==
    /\ k \in CallRecord
    /\ k.op = "none" <=> k = Idle
    /\ k.op \in VoteOp \cup {"reportImage"} => k.img \in Image
    /\ k.op = "refreshMealplan" => k.pc \in {"sent", "reading", "ok"}

TablesOK ==
    /\ phase \in [Image -> Phase]
    /\ reporters \in [Image -> SUBSET User]
    /\ imageRating \in [Image -> [User -> Opinion]]
    /\ mealRating \in [User -> Nat]

AppOK ==
    /\ plan \in Page /\ page \in Page
    /\ link \in {"same", "copy", "older"}
    /\ changedRating \in Nat
    /\ call \in [Call -> CallRecord]
    /\ \A c \in Call : CallOK(call[c])
    /\ calls \in Nat
    /\ fresh \in BOOLEAN /\ trusted \in BOOLEAN

\* Every variable keeps to the values the program can give it.
TypeOK == TablesOK /\ AppOK

LEMMA IsPictures ==
  ASSUME NEW S \in SUBSET Image, NEW f \in [S -> Picture]
  PROVE  f \in Pictures
  BY DEF Pictures

LEMMA PicturesFields ==
  ASSUME NEW f \in Pictures
  PROVE  /\ DOMAIN f \in SUBSET Image
         /\ f \in [DOMAIN f -> Picture]
         /\ \A i \in DOMAIN f : f[i] \in Picture
<1>1. PICK S \in SUBSET Image : f \in [S -> Picture]
  BY DEF Pictures
<1> QED
  BY <1>1

LEMMA NoPicturesOK == <<>> \in Pictures /\ DOMAIN <<>> = {}
<1>1. <<>> \in [{} -> Picture]
  OBVIOUS
<1> QED
  BY <1>1, IsPictures

LEMMA IdleOK == CallOK(Idle) /\ NoPage \in Page
<1>1. NoPage \in Page
  BY NoPicturesOK DEF NoPage, Page
<1> QED
  BY <1>1 DEF CallOK, Idle, CallRecord, Op, PC, VoteOp, Statement

LEMMA InitTypeOK == Init => TypeOK
<1> SUFFICES ASSUME Init PROVE TypeOK
  OBVIOUS
<1>1. Idle \in CallRecord
  BY IdleOK DEF CallOK
<1>2. call \in [Call -> CallRecord] /\ \A c \in Call : CallOK(call[c])
  BY <1>1, IdleOK DEF Init
<1>3. phase \in [Image -> Phase] /\ reporters \in [Image -> SUBSET User]
  BY DEF Init, GalleryInit, Phase
<1>4. [u \in User |-> 0] \in [User -> Opinion]
  BY DEF Opinion
<1>5. imageRating \in [Image -> [User -> Opinion]] /\ mealRating \in [User -> Nat]
  BY <1>4 DEF Init
<1> QED
  BY <1>2, <1>3, <1>5, IdleOK DEF Init, TypeOK, TablesOK, AppOK

\* What becomes of one call.
SetCall(c, k) == call' = [call EXCEPT ![c] = k]

LEMMA SetCallKeeps ==
  ASSUME TypeOK, NEW c \in Call, NEW k, SetCall(c, k), CallOK(k)
  PROVE  /\ call' \in [Call -> CallRecord]
         /\ \A d \in Call : CallOK(call'[d])
         /\ call'[c] = k
         /\ \A d \in Call \ {c} : call'[d] = call[d]
  BY DEF TypeOK, AppOK, SetCall, CallOK

\* The record of a call that goes on: who made it and for what stays.
SameCall(k, l) ==
    /\ l.op = k.op /\ l.img = k.img /\ l.num = k.num
    /\ l.heard = k.heard /\ l.alone = k.alone
    /\ l.onPage = k.onPage /\ l.onPlan = k.onPlan

LEMMA ReplyOutcome ==
  ASSUME TypeOK, NEW c \in Call, NEW result \in {"ok", "refused"}, Reply(c, result),
         call[c].op \in VoteOp \cup {"reportImage", "setRating"}
  PROVE  /\ call' \in [Call -> CallRecord]
         /\ \A d \in Call : CallOK(call'[d])
         /\ \A d \in Call \ {c} : call'[d] = call[d]
         /\ \/ ~call[c].heard /\ call'[c] = Idle
            \/ SameCall(call[c], call'[c]) /\ call'[c].pc = result
<1>1. CallOK(call[c])
  BY DEF TypeOK, AppOK
<1>2. CASE call[c].heard
  <2> DEFINE k == [call[c] EXCEPT !.pc = result]
  <2>1. SameCall(call[c], k) /\ k.pc = result
    BY <1>1 DEF CallOK, CallRecord, SameCall
  <2>2. CallOK(k)
    BY <1>1, <2>1 DEF CallOK, CallRecord, SameCall, Idle, PC, VoteOp
  <2>3. SetCall(c, k)
    BY <1>2 DEF Reply, SetCall
  <2> HIDE DEF k
  <2> QED
    BY <2>1, <2>2, <2>3, SetCallKeeps
<1>3. CASE ~call[c].heard
  <2>1. SetCall(c, Idle)
    BY <1>3 DEF Reply, SetCall
  <2> QED
    BY <1>3, <2>1, IdleOK, SetCallKeeps
<1> QED
  BY <1>2, <1>3

LEMMA ReadOutcome ==
  ASSUME TypeOK, NEW c \in Call, NEW reads \in SUBSET Statement, NEW got \in Page,
         Read(c, reads, got), call[c].op = "refreshMealplan"
  PROVE  /\ call' \in [Call -> CallRecord]
         /\ \A d \in Call : CallOK(call'[d])
         /\ \A d \in Call \ {c} : call'[d] = call[d]
         /\ SameCall(call[c], call'[c])
         /\ call'[c].reads = reads /\ call'[c].got = got
         /\ call'[c].pc = IF reads = {} THEN "ok" ELSE "reading"
<1>1. CallOK(call[c])
  BY DEF TypeOK, AppOK
<1> DEFINE k == [call[c] EXCEPT !.pc = IF reads = {} THEN "ok" ELSE "reading",
                                !.reads = reads, !.got = got]
<1>2. /\ SameCall(call[c], k) /\ k.reads = reads /\ k.got = got
      /\ k.pc = IF reads = {} THEN "ok" ELSE "reading"
  BY <1>1 DEF CallOK, CallRecord, SameCall
<1>3. k \in CallRecord
  BY <1>1 DEF CallOK, CallRecord, PC
<1>4. CallOK(k)
  BY <1>2, <1>3 DEF CallOK, SameCall, Idle, VoteOp
<1>5. SetCall(c, k)
  BY DEF Read, SetCall
<1> HIDE DEF k
<1> QED
  BY <1>2, <1>4, <1>5, SetCallKeeps

LEMMA SendOutcome ==
  ASSUME TypeOK, NEW c \in Call, NEW op \in Op \ {"none"}, NEW i \in Image \cup {None},
         op \in VoteOp \cup {"reportImage"} => i \in Image, NEW n \in Nat, Send(c, op, i, n)
  PROVE  /\ call' \in [Call -> CallRecord]
         /\ \A d \in Call : CallOK(call'[d])
         /\ call[c] = Idle
         /\ call'[c].op = op /\ call'[c].img = i /\ call'[c].num = n
         /\ call'[c].pc = "sent" /\ call'[c].heard = TRUE
         /\ call'[c].onPage = TRUE /\ call'[c].onPlan = OnPlan(op)
         /\ call'[c].alone = (UnderWay = {})
         /\ \A d \in Call \ {c} :
               /\ call[d] = Idle => call'[d] = Idle
               /\ call[d] # Idle => /\ call'[d].op = call[d].op /\ call'[d] # Idle
                                    /\ call'[d].pc = call[d].pc
                                    /\ call'[d].onPage = call[d].onPage
                                    /\ call'[d].onPlan = call[d].onPlan
                                    /\ call'[d].alone = FALSE
<1> DEFINE k == [Idle EXCEPT !.op = op, !.pc = "sent", !.img = i, !.num = n,
                             !.onPlan = OnPlan(op), !.alone = UnderWay = {}]
           l(d) == [call[d] EXCEPT !.alone = FALSE]
<1>1. /\ k.op = op /\ k.img = i /\ k.num = n /\ k.pc = "sent" /\ k.heard = TRUE
      /\ k.onPage = TRUE /\ k.onPlan = OnPlan(op) /\ k.alone = (UnderWay = {})
  BY DEF Idle
<1>2. k \in CallRecord
  BY IdleOK DEF CallOK, CallRecord, Idle, PC, Statement, OnPlan
<1>3. CallOK(k)
  BY <1>1, <1>2 DEF CallOK, Idle
<1>4. ASSUME NEW d \in Call, call[d] # Idle
      PROVE  /\ l(d).op = call[d].op /\ l(d).pc = call[d].pc /\ l(d).alone = FALSE
             /\ l(d).onPage = call[d].onPage /\ l(d).onPlan = call[d].onPlan
             /\ CallOK(l(d)) /\ l(d) # Idle
  <2>1. CallOK(call[d])
    BY DEF TypeOK, AppOK
  <2>2. /\ l(d).op = call[d].op /\ l(d).pc = call[d].pc /\ l(d).alone = FALSE
        /\ l(d).onPage = call[d].onPage /\ l(d).onPlan = call[d].onPlan
        /\ l(d).img = call[d].img /\ l(d) \in CallRecord
    BY <2>1 DEF CallOK, CallRecord
  <2>3. l(d) # Idle
    BY <1>4, <2>1, <2>2 DEF CallOK, Idle
  <2> QED
    BY <1>4, <2>1, <2>2, <2>3 DEF CallOK
<1>5. call' = [d \in Call |-> IF d = c THEN k ELSE IF call[d] = Idle THEN Idle ELSE l(d)]
  BY DEF Send
<1>6. call[c] = Idle
  BY DEF Send
<1> HIDE DEF k, l
<1>7. \A d \in Call : CallOK(call'[d])
  BY <1>3, <1>4, <1>5, IdleOK
<1>8. call' \in [Call -> CallRecord]
  BY <1>5, <1>7 DEF CallOK
<1> QED
  BY <1>1, <1>4, <1>5, <1>6, <1>7, <1>8

LEMMA UsersCounted ==
  ASSUME NEW S \in SUBSET User
  PROVE  Cardinality(S) \in Nat /\ (S # {} => Cardinality(S) >= 1)
<1>1. IsFiniteSet(S) /\ Cardinality(S) \in Nat
  BY PageAssumption, FS_Subset, FS_CardinalityType
<1>2. S # {} => Cardinality(S) # 0
  BY <1>1, FS_EmptySet
<1> QED
  BY <1>1, <1>2

LEMMA MealCounted ==
  ASSUME TablesOK
  PROVE  /\ SumFunctionOnSet(mealRating, User) \in Nat
         /\ SumFunctionOnSet(mealRating, User) >= mealRating[Me]
         /\ Cardinality({u \in User : mealRating[u] # 0}) \in Nat
         /\ mealRating[Me] # 0 => Cardinality({u \in User : mealRating[u] # 0}) >= 1
         /\ mealRating[Me] \in Nat
<1>1. {u \in User : mealRating[u] # 0} \in SUBSET User
  OBVIOUS
<1>2. mealRating[Me] # 0 => {u \in User : mealRating[u] # 0} # {}
  BY PageAssumption
<1> QED
  BY <1>1, <1>2, UsersCounted, SumCoversEach, PageAssumption DEF TablesOK

LEMMA RatingRead ==
  ASSUME TablesOK
  PROVE  GetPersonalRating = mealRating[Me]
<1>1. CASE mealRating[Me] = 0
  <2>1. RatingLoader({Me}) = [u \in {} |-> mealRating[u]]
    BY <1>1 DEF RatingLoader
  <2> QED
    BY <1>1, <2>1 DEF GetPersonalRating
<1>2. CASE mealRating[Me] # 0
  <2>1. RatingLoader({Me}) = [u \in {Me} |-> mealRating[u]]
    <3>1. {x \in {Me} : mealRating[x] # 0} = {Me}
      BY <1>2
    <3> QED
      BY <3>1 DEF RatingLoader
  <2> QED
    BY <2>1 DEF GetPersonalRating
<1> QED
  BY <1>1, <1>2

\* What the statements of the query find of a picture.
LEMMA VisibleFacts ==
  ASSUME TablesOK
  PROVE  /\ GetVisibleImages \in SUBSET Image
         /\ \A i \in GetVisibleImages :
               /\ Present(i) /\ phase[i] # "unused" /\ Me \notin reporters[i]
               /\ ImageLoader[i].up \in Nat /\ ImageLoader[i].down \in Nat
               /\ imageRating[i][Me] = 1 => ImageLoader[i].up >= 1
               /\ imageRating[i][Me] = -1 => ImageLoader[i].down >= 1
<1>1. DOMAIN ImageLoader = {x \in Image : phase[x] = "shown"}
  BY DEF ImageLoader
<1>2. ASSUME NEW i \in Image, phase[i] = "shown"
      PROVE  /\ ImageLoader[i].up = Cardinality({u \in User : imageRating[i][u] = 1})
             /\ ImageLoader[i].down = Cardinality({u \in User : imageRating[i][u] = -1})
             /\ ImageLoader[i].reporting_users = reporters[i]
  BY <1>2 DEF ImageLoader
<1>3. ASSUME NEW i \in Image, NEW v \in {1, -1}
      PROVE  /\ Cardinality({u \in User : imageRating[i][u] = v}) \in Nat
             /\ imageRating[i][Me] = v => Cardinality({u \in User : imageRating[i][u] = v}) >= 1
  <2>1. {u \in User : imageRating[i][u] = v} \in SUBSET User
    OBVIOUS
  <2>2. imageRating[i][Me] = v => {u \in User : imageRating[i][u] = v} # {}
    BY PageAssumption
  <2> QED
    BY <2>1, <2>2, UsersCounted
<1>4. \A i \in GetVisibleImages : i \in Image /\ phase[i] = "shown" /\ Me \notin reporters[i]
  BY <1>1, <1>2 DEF GetVisibleImages
<1>5. \A i \in GetVisibleImages : Present(i) /\ phase[i] # "unused"
  BY <1>4 DEF Present
<1> HIDE DEF GetVisibleImages, ImageLoader
<1>6. ASSUME NEW i \in GetVisibleImages
      PROVE  /\ ImageLoader[i].up \in Nat /\ ImageLoader[i].down \in Nat
             /\ imageRating[i][Me] = 1 => ImageLoader[i].up >= 1
             /\ imageRating[i][Me] = -1 => ImageLoader[i].down >= 1
  <2>1. i \in Image /\ phase[i] = "shown"
    BY <1>4
  <2> QED
    BY <1>2, <1>3, <2>1
<1> QED
  BY <1>4, <1>5, <1>6

\* The answer as far as it has been read after each of its statements.
FirstRead ==
    [loaded |-> TRUE, own |-> 0, images |-> <<>>,
     count |-> Cardinality({u \in User : mealRating[u] # 0}),
     total |-> SumFunctionOnSet(mealRating, User)]

VisibleRead ==
    [i \in GetVisibleImages |->
       [own |-> 0, up |-> ImageLoader[i].up, down |-> ImageLoader[i].down]]

OwnRead(images, upvote, downvote) ==
    [i \in DOMAIN images |->
       [images[i] EXCEPT !.own = IndividualRating(@, i \in upvote, i \in downvote)]]

WithOwn(p, n) == [p EXCEPT !.own = n]

WithImages(p, f) == [p EXCEPT !.images = f]

LEMMA WithFields ==
  ASSUME NEW p \in Page, NEW n \in Nat, NEW f \in Pictures
  PROVE  /\ WithOwn(p, n) \in Page /\ WithOwn(p, n).own = n
         /\ WithOwn(p, n).count = p.count /\ WithOwn(p, n).total = p.total
         /\ WithOwn(p, n).images = p.images
         /\ WithImages(p, f) \in Page /\ WithImages(p, f).own = p.own
         /\ WithImages(p, f).count = p.count /\ WithImages(p, f).total = p.total
         /\ WithImages(p, f).images = f
  BY DEF WithOwn, WithImages, Page

LEMMA FirstReadFields ==
  ASSUME TablesOK
  PROVE  /\ FirstRead \in Page
         /\ FirstRead.own = 0 /\ DOMAIN FirstRead.images = {}
         /\ FirstRead.count \in Nat /\ FirstRead.total \in Nat
         /\ FirstRead.count >= (IF mealRating[Me] = 0 THEN 0 ELSE 1)
         /\ FirstRead.total >= mealRating[Me]
<1>1. /\ FirstRead.own = 0 /\ FirstRead.images = <<>> /\ FirstRead.loaded = TRUE
      /\ FirstRead.count = Cardinality({u \in User : mealRating[u] # 0})
      /\ FirstRead.total = SumFunctionOnSet(mealRating, User)
  BY DEF FirstRead
<1>2. FirstRead \in Page
  BY MealCounted, NoPicturesOK DEF FirstRead, Page
<1> QED
  BY <1>1, <1>2, MealCounted, NoPicturesOK

LEMMA VisibleReadFields ==
  ASSUME TablesOK
  PROVE  /\ VisibleRead \in Pictures
         /\ DOMAIN VisibleRead = GetVisibleImages
         /\ \A i \in GetVisibleImages : /\ VisibleRead[i].own = 0
                                        /\ VisibleRead[i].up = ImageLoader[i].up
                                        /\ VisibleRead[i].down = ImageLoader[i].down
<1>1. VisibleRead \in [GetVisibleImages -> Picture]
  BY VisibleFacts DEF VisibleRead, Picture, Opinion
<1> QED
  BY <1>1, VisibleFacts, IsPictures DEF VisibleRead

LEMMA OwnReadFields ==
  ASSUME NEW images \in Pictures, NEW upvote, NEW downvote
  PROVE  /\ OwnRead(images, upvote, downvote) \in Pictures
         /\ DOMAIN OwnRead(images, upvote, downvote) = DOMAIN images
         /\ \A i \in DOMAIN images :
               LET read == OwnRead(images, upvote, downvote)[i] IN
               /\ read.own = IF i \in upvote THEN 1
                             ELSE IF i \in downvote /\ images[i].own # 1 THEN -1
                             ELSE images[i].own
               /\ read.up = images[i].up /\ read.down = images[i].down
<1> DEFINE one(i) == [images[i] EXCEPT !.own = IndividualRating(@, i \in upvote, i \in downvote)]
<1>1. ASSUME NEW i \in DOMAIN images
      PROVE  /\ one(i) \in Picture
             /\ one(i).own = IF i \in upvote THEN 1
                             ELSE IF i \in downvote /\ images[i].own # 1 THEN -1
                             ELSE images[i].own
             /\ one(i).up = images[i].up /\ one(i).down = images[i].down
  <2>1. images[i] \in Picture
    BY PicturesFields
  <2> QED
    BY <2>1 DEF Picture, Opinion, IndividualRating
<1>2. OwnRead(images, upvote, downvote) = [i \in DOMAIN images |-> one(i)]
  BY DEF OwnRead
<1> HIDE DEF one
<1>3. OwnRead(images, upvote, downvote) \in [DOMAIN images -> Picture]
  BY <1>1, <1>2
<1> QED
  BY <1>1, <1>2, <1>3, PicturesFields, IsPictures

\* The votes of this user that the loaders answer with.
MyVotes(v) == {i \in Image : imageRating[i][Me] = v}

LEMMA QuerySteps ==
  ASSUME TypeOK, NEW c \in Call
  PROVE  /\ MealRead(c) => Read(c, {"rating", "images"}, FirstRead)
         /\ PersonalRating(c) =>
              Read(c, call[c].reads \ {"rating"}, WithOwn(call[c].got, GetPersonalRating))
         /\ Images(c) =>
              Read(c, (call[c].reads \ {"images"})
                        \cup (IF GetVisibleImages = {} THEN {} ELSE {"upvote", "downvote"}),
                   WithImages(call[c].got, VisibleRead))
         /\ PersonalUpvote(c) =>
              Read(c, call[c].reads \ {"upvote"},
                   WithImages(call[c].got, OwnRead(call[c].got.images, MyVotes(1), {})))
         /\ PersonalDownvote(c) =>
              Read(c, call[c].reads \ {"downvote"},
                   WithImages(call[c].got, OwnRead(call[c].got.images, {}, MyVotes(-1))))
<1>1. MealRead(c) => Read(c, {"rating", "images"}, FirstRead)
  BY DEF MealRead, FirstRead
<1>2. PersonalRating(c) =>
        Read(c, call[c].reads \ {"rating"}, WithOwn(call[c].got, GetPersonalRating))
  BY DEF PersonalRating, WithOwn
<1>3. Images(c) =>
        Read(c, (call[c].reads \ {"images"})
                  \cup (IF GetVisibleImages = {} THEN {} ELSE {"upvote", "downvote"}),
             WithImages(call[c].got, VisibleRead))
  BY DEF Images, WithImages, VisibleRead
<1> DEFINE images == call[c].got.images
<1>4. DOMAIN images \in SUBSET Image
  BY PicturesFields DEF TypeOK, AppOK, CallRecord, Page
<1>5. \A i \in DOMAIN images : /\ GetPersonalUpvote(i) <=> i \in MyVotes(1)
                               /\ GetPersonalDownvote(i) <=> i \in MyVotes(-1)
  BY <1>4 DEF GetPersonalUpvote, GetPersonalDownvote, ImageVoteLoader, MyVotes
<1>6. PersonalUpvote(c) =>
        Read(c, call[c].reads \ {"upvote"},
             WithImages(call[c].got, OwnRead(images, MyVotes(1), {})))
  <2>1. OwnRead(images, MyVotes(1), {}) =
          [i \in DOMAIN images |->
             [images[i] EXCEPT !.own = IndividualRating(@, GetPersonalUpvote(i), FALSE)]]
    <3>1. \A i \in DOMAIN images :
            IndividualRating(images[i].own, GetPersonalUpvote(i), FALSE)
              = IndividualRating(images[i].own, i \in MyVotes(1), i \in {})
      BY <1>5 DEF IndividualRating
    <3> QED
      BY <3>1, Zenon DEF OwnRead
  <2> QED
    BY <2>1 DEF PersonalUpvote, WithImages
<1>7. PersonalDownvote(c) =>
        Read(c, call[c].reads \ {"downvote"},
             WithImages(call[c].got, OwnRead(images, {}, MyVotes(-1))))
  <2>1. OwnRead(images, {}, MyVotes(-1)) =
          [i \in DOMAIN images |->
             [images[i] EXCEPT !.own = IndividualRating(@, FALSE, GetPersonalDownvote(i))]]
    <3>1. \A i \in DOMAIN images :
            IndividualRating(images[i].own, FALSE, GetPersonalDownvote(i))
              = IndividualRating(images[i].own, i \in {}, i \in MyVotes(-1))
      BY <1>5 DEF IndividualRating
    <3> QED
      BY <3>1, Zenon DEF OwnRead
  <2> QED
    BY <2>1 DEF PersonalDownvote, WithImages
<1> QED
  BY <1>1, <1>2, <1>3, <1>6, <1>7

LEMMA QueryRecord ==
  ASSUME TypeOK, NEW c \in Call
  PROVE  /\ call[c].got \in Page /\ call[c].got.images \in Pictures
         /\ call[c].reads \in SUBSET Statement
         /\ call[c].num \in Nat
  BY DEF TypeOK, AppOK, CallRecord, Page

\* A statement of a query brings a well-formed page.
LEMMA QueryOutcome ==
  ASSUME TypeOK, NEW c \in Call,
         \/ MealRead(c) \/ PersonalRating(c) \/ Images(c)
         \/ PersonalUpvote(c) \/ PersonalDownvote(c)
  PROVE  /\ call[c].op = "refreshMealplan"
         /\ \E reads \in SUBSET Statement, got \in Page : Read(c, reads, got)
<1>1. call[c].op = "refreshMealplan"
  BY DEF MealRead, PersonalRating, Images, PersonalUpvote, PersonalDownvote, At, Reading
<1>2. TablesOK
  BY DEF TypeOK
<1>3. CASE MealRead(c)
  <2>1. {"rating", "images"} \in SUBSET Statement
    BY DEF Statement
  <2> QED
    BY <1>1, <1>2, <1>3, <2>1, QuerySteps, FirstReadFields
<1>4. CASE PersonalRating(c)
  <2>1. WithOwn(call[c].got, GetPersonalRating) \in Page
    BY <1>2, QueryRecord, MealCounted, RatingRead, WithFields, NoPicturesOK
  <2>2. call[c].reads \ {"rating"} \in SUBSET Statement
    BY QueryRecord
  <2> QED
    BY <1>1, <1>4, <2>1, <2>2, QuerySteps
<1>5. ASSUME NEW f \in Pictures PROVE WithImages(call[c].got, f) \in Page
  BY QueryRecord, WithFields
<1>6. CASE Images(c)
  <2>1. (call[c].reads \ {"images"})
          \cup (IF GetVisibleImages = {} THEN {} ELSE {"upvote", "downvote"}) \in SUBSET Statement
    BY QueryRecord DEF Statement
  <2>2. VisibleRead \in Pictures
    BY <1>2, VisibleReadFields
  <2> QED
    BY <1>1, <1>5, <1>6, <2>1, <2>2, QuerySteps
<1>7. CASE PersonalUpvote(c)
  <2>1. call[c].reads \ {"upvote"} \in SUBSET Statement
    BY QueryRecord
  <2>2. OwnRead(call[c].got.images, MyVotes(1), {}) \in Pictures
    BY QueryRecord, OwnReadFields
  <2> QED
    BY <1>1, <1>5, <1>7, <2>1, <2>2, QuerySteps
<1>8. CASE PersonalDownvote(c)
  <2>1. call[c].reads \ {"downvote"} \in SUBSET Statement
    BY QueryRecord
  <2>2. OwnRead(call[c].got.images, {}, MyVotes(-1)) \in Pictures
    BY QueryRecord, OwnReadFields
  <2> QED
    BY <1>1, <1>5, <1>8, <2>1, <2>2, QuerySteps
<1> QED
  BY <1>1, <1>3, <1>4, <1>6, <1>7, <1>8

-----------------------------------------------------------------------------
(* Every step keeps the types                                              *)

\* The statements of other users and the moderation do nothing to this app.
LEMMA OtherTypeOK ==
  ASSUME TypeOK, OtherStep
  PROVE  TablesOK' /\ UNCHANGED app
<1> USE DEF TypeOK, TablesOK, Phase, Opinion
<1>1. ASSUME NEW u \in User, NEW i \in Image, NEW v \in {-1, 0, 1}, OtherVote(u, i, v)
      PROVE  TablesOK' /\ UNCHANGED app
  <2>1. imageRating' \in [Image -> [User -> Opinion]]
    BY <1>1 DEF OtherVote
  <2> QED
    BY <1>1, <2>1 DEF OtherVote
<1>2. ASSUME NEW u \in User, NEW n \in Stars, OtherRating(u, n)
      PROVE  TablesOK' /\ UNCHANGED app
  BY <1>2, PageAssumption DEF OtherRating
<1>3. ASSUME NEW i \in Image, UNCHANGED <<imageRating, mealRating, app>>,
             Publish(i) \/ (\E u \in User \ {Me} : Report(i, u)) \/ Hide(i) \/ Verify(i)
      PROVE  TablesOK' /\ UNCHANGED app
  <2>1. phase' \in [Image -> Phase]
    BY <1>3 DEF Publish, Report, Hide, Verify
  <2>2. reporters' \in [Image -> SUBSET User]
    <3>1. CASE \E u \in User \ {Me} : Report(i, u)
      BY <3>1 DEF Report
    <3>2. CASE Publish(i) \/ Hide(i) \/ Verify(i)
      BY <3>2 DEF Publish, Hide, Verify
    <3> QED
      BY <1>3, <3>1, <3>2
  <2> QED
    BY <1>3, <2>1, <2>2
<1>4. ASSUME NEW i \in Image, RemoveImage(i), UNCHANGED <<mealRating, app>>
      PROVE  TablesOK' /\ UNCHANGED app
  <2>1. phase' \in [Image -> Phase] /\ reporters' \in [Image -> SUBSET User]
    BY <1>4 DEF RemoveImage, Remove
  <2>2. imageRating' \in [Image -> [User -> Opinion]]
    BY <1>4 DEF RemoveImage
  <2> QED
    BY <1>4, <2>1, <2>2
<1> QED
  BY <1>1, <1>2, <1>3, <1>4 DEF OtherStep

LEMMA VoteTypeOK ==
  ASSUME TypeOK, NEW c \in Call, call[c].op \in VoteOp, NEW v \in {1, -1},
         Vote(c, v) \/ Unvote(c, v)
  PROVE  TypeOK'
<1> DEFINE i == call[c].img
<1>1. i \in Image
  BY DEF TypeOK, AppOK, CallOK
<1>2. imageRating' \in [Image -> [User -> Opinion]]
  <2>1. imageRating[i] \in [User -> Opinion]
    BY <1>1 DEF TypeOK, TablesOK
  <2>2. \A w \in Opinion : [imageRating[i] EXCEPT ![Me] = w] \in [User -> Opinion]
    BY <2>1
  <2>3. \E w \in Opinion : imageRating' = [imageRating EXCEPT ![i] = [imageRating[i] EXCEPT ![Me] = w]]
                           \/ imageRating' = imageRating
    BY <2>1, PageAssumption DEF Vote, Unvote, Opinion
  <2> QED
    BY <1>1, <2>2, <2>3 DEF TypeOK, TablesOK
<1>3. Reply(c, "ok") \/ Reply(c, "refused")
  BY DEF Vote, Unvote
<1>4. call' \in [Call -> CallRecord] /\ \A d \in Call : CallOK(call'[d])
  BY <1>3, ReplyOutcome
<1>5. UNCHANGED <<phase, reporters, mealRating, shown, calls, fresh, trusted>>
  BY DEF Vote, Unvote
<1> QED
  BY <1>2, <1>4, <1>5 DEF shown, TypeOK, TablesOK, AppOK, CallOK

LEMMA BackendTypeOK ==
  ASSUME TypeOK, NEW c \in Call, BackendStep(c)
  PROVE  TypeOK'
<1>1. CASE AddUpvote(c) \/ AddDownvote(c) \/ RemoveUpvote(c) \/ RemoveDownvote(c)
  BY <1>1, VoteTypeOK DEF AddUpvote, AddDownvote, RemoveUpvote, RemoveDownvote, At, VoteOp
<1>2. CASE SetRating(c)
  <2>1. Reply(c, "ok") \/ Reply(c, "refused")
    BY <1>2 DEF SetRating, AddRating
  <2>2. call' \in [Call -> CallRecord] /\ \A d \in Call : CallOK(call'[d])
    BY <1>2, <2>1, ReplyOutcome DEF SetRating, At
  <2>3. mealRating' \in [User -> Nat]
    BY <1>2, QueryRecord DEF SetRating, AddRating, TypeOK, TablesOK
  <2> QED
    BY <1>2, <2>2, <2>3 DEF SetRating, AddRating, shown, TypeOK, TablesOK, AppOK, CallOK
<1>3. CASE CheckReport(c)
  <2>1. UNCHANGED <<phase, reporters, imageRating, mealRating, shown, calls, fresh, trusted>>
    BY <1>3 DEF CheckReport, tables
  <2>2. call' \in [Call -> CallRecord] /\ \A d \in Call : CallOK(call'[d])
    <3>1. CASE Reply(c, "ok") \/ Reply(c, "refused")
      BY <1>3, <3>1, ReplyOutcome DEF CheckReport, At
    <3>2. CASE call' = [call EXCEPT ![c].pc = "add_report"]
      <4> DEFINE k == [call[c] EXCEPT !.pc = "add_report"]
      <4>1. CallOK(call[c]) /\ call[c].op = "reportImage"
        BY <1>3 DEF TypeOK, AppOK, CheckReport, At
      <4>2. k \in CallRecord /\ k.op = call[c].op /\ k.img = call[c].img
        BY <4>1 DEF CallOK, CallRecord, PC
      <4>3. CallOK(k)
        BY <4>1, <4>2 DEF CallOK, Idle, VoteOp
      <4>4. SetCall(c, k)
        BY <3>2 DEF SetCall
      <4> QED
        BY <4>3, <4>4, SetCallKeeps
    <3> QED
      BY <1>3, <3>1, <3>2 DEF CheckReport
  <2> QED
    BY <2>1, <2>2 DEF shown, TypeOK, TablesOK, AppOK, CallOK
<1>4. CASE AddReport(c)
  <2>1. Reply(c, "ok") \/ Reply(c, "refused")
    BY <1>4 DEF AddReport
  <2>2. call' \in [Call -> CallRecord] /\ \A d \in Call : CallOK(call'[d])
    BY <1>4, <2>1, ReplyOutcome DEF AddReport, At
  <2>3. reporters' \in [Image -> SUBSET User] /\ phase' = phase
    BY <1>4, PageAssumption DEF AddReport, Report, TypeOK, TablesOK
  <2> QED
    BY <1>4, <2>2, <2>3 DEF AddReport, shown, TypeOK, TablesOK, AppOK, CallOK
<1>5. CASE \/ MealRead(c) \/ PersonalRating(c) \/ Images(c)
           \/ PersonalUpvote(c) \/ PersonalDownvote(c)
  <2>1. PICK reads \in SUBSET Statement, got \in Page : Read(c, reads, got)
    BY <1>5, QueryOutcome
  <2>2. call' \in [Call -> CallRecord] /\ \A d \in Call : CallOK(call'[d])
    BY <1>5, <2>1, QueryOutcome, ReadOutcome
  <2> QED
    BY <2>1, <2>2 DEF Read, tables, shown, TypeOK, TablesOK, AppOK, CallOK
<1> QED
  BY <1>1, <1>2, <1>3, <1>4, <1>5 DEF BackendStep

LEMMA PageFields ==
  ASSUME NEW p \in Page
  PROVE  /\ p.own \in Nat /\ p.count \in Int /\ p.total \in Int
         /\ p.images \in Pictures /\ DOMAIN p.images \in SUBSET Image
         /\ \A i \in DOMAIN p.images : p.images[i] \in Picture
<1>1. p.images \in Pictures
  BY DEF Page
<1> QED
  BY <1>1, PicturesFields DEF Page

\* A slot is freed.
LEMMA FreeOutcome ==
  ASSUME TypeOK, NEW c \in Call, call' = [call EXCEPT ![c] = Idle]
  PROVE  /\ call' \in [Call -> CallRecord]
         /\ \A d \in Call : CallOK(call'[d])
         /\ \A d \in Call \ {c} : call'[d] = call[d]
         /\ call'[c] = Idle
<1>1. SetCall(c, Idle)
  BY DEF SetCall
<1> QED
  BY <1>1, IdleOK, SetCallKeeps

\* The meal with another record for picture i.
WithPicture(p, i, image) == [p EXCEPT !.images = [@ EXCEPT ![i] = image]]

LEMMA WithPictureFields ==
  ASSUME NEW p \in Page, NEW i \in DOMAIN p.images, NEW image \in Picture
  PROVE  /\ WithPicture(p, i, image) \in Page
         /\ WithPicture(p, i, image).own = p.own
         /\ WithPicture(p, i, image).count = p.count
         /\ WithPicture(p, i, image).total = p.total
         /\ DOMAIN WithPicture(p, i, image).images = DOMAIN p.images
         /\ WithPicture(p, i, image).images[i] = image
         /\ \A j \in DOMAIN p.images \ {i} : WithPicture(p, i, image).images[j] = p.images[j]
<1> DEFINE f == [p.images EXCEPT ![i] = image]
<1>1. p.images \in Pictures
  BY DEF Page
<1>2. p.images \in [DOMAIN p.images -> Picture] /\ DOMAIN p.images \in SUBSET Image
  BY <1>1, PicturesFields
<1>3. /\ f \in [DOMAIN p.images -> Picture] /\ DOMAIN f = DOMAIN p.images
      /\ f[i] = image /\ \A j \in DOMAIN p.images \ {i} : f[j] = p.images[j]
  BY <1>2
<1>4. f \in Pictures
  BY <1>2, <1>3, IsPictures
<1>5. WithPicture(p, i, image) = WithImages(p, f)
  BY DEF WithPicture, WithImages
<1> HIDE DEF f
<1> QED
  BY <1>3, <1>4, <1>5, WithFields

LEMMA VotedFields ==
  ASSUME NEW image \in Picture, NEW v \in Opinion
  PROVE  /\ Voted(image, v) \in Picture
         /\ Voted(image, v).own = v
         /\ Voted(image, v).up =
              image.up + (IF v = 1 THEN 1 ELSE 0) - (IF image.own = 1 THEN 1 ELSE 0)
         /\ Voted(image, v).down =
              image.down + (IF v = -1 THEN 1 ELSE 0) - (IF image.own = -1 THEN 1 ELSE 0)
  BY DEF Voted, Picture, Opinion

\* What the answer to a vote does to a meal.
LEMMA WithVoteFields ==
  ASSUME NEW p \in Page, NEW i, NEW v \in Opinion
  PROVE  /\ WithVote(p, i, v) \in Page
         /\ i \notin DOMAIN p.images => WithVote(p, i, v) = p
         /\ i \in DOMAIN p.images =>
              WithVote(p, i, v) = WithPicture(p, i, Voted(p.images[i], v))
<1>1. i \notin DOMAIN p.images => WithVote(p, i, v) = p
  BY DEF WithVote
<1>2. i \in DOMAIN p.images =>
        WithVote(p, i, v) = WithPicture(p, i, Voted(p.images[i], v))
  BY Zenon DEF WithVote, WithPicture
<1>3. i \in DOMAIN p.images => WithPicture(p, i, Voted(p.images[i], v)) \in Page
  BY PageFields, VotedFields, WithPictureFields
<1> QED
  BY <1>1, <1>2, <1>3

LEMMA WithoutPictureFields ==
  ASSUME NEW p \in Page, NEW i
  PROVE  /\ WithoutPicture(p, i) \in Page
         /\ WithoutPicture(p, i).own = p.own
         /\ WithoutPicture(p, i).count = p.count
         /\ WithoutPicture(p, i).total = p.total
         /\ DOMAIN WithoutPicture(p, i).images = DOMAIN p.images \ {i}
         /\ \A j \in DOMAIN p.images \ {i} : WithoutPicture(p, i).images[j] = p.images[j]
<1> DEFINE f == Restrict(p.images, DOMAIN p.images \ {i})
<1>1. p.images \in Pictures
  BY DEF Page
<1>2. p.images \in [DOMAIN p.images -> Picture] /\ DOMAIN p.images \in SUBSET Image
  BY <1>1, PicturesFields
<1>3. /\ f \in [DOMAIN p.images \ {i} -> Picture] /\ DOMAIN f = DOMAIN p.images \ {i}
      /\ \A j \in DOMAIN p.images \ {i} : f[j] = p.images[j]
  BY <1>2 DEF Restrict
<1>4. f \in Pictures
  BY <1>2, <1>3, IsPictures
<1>5. WithoutPicture(p, i) = WithImages(p, f)
  BY DEF WithoutPicture, WithImages
<1> HIDE DEF f
<1> QED
  BY <1>3, <1>4, <1>5, WithFields

LEMMA RatedFields ==
  ASSUME NEW p \in Page, NEW n \in Nat
  PROVE  /\ Rated(p, n) \in Page
         /\ Rated(p, n).own = n
         /\ Rated(p, n).count = IF p.own = 0 THEN p.count + 1 ELSE p.count
         /\ Rated(p, n).total = p.total - p.own + n
<1> DEFINE a == IF p.own = 0 THEN p.count + 1 ELSE p.count
           b == p.total - p.own + n
<1>1. a \in Int /\ b \in Int
  BY PageFields
<1>2. Rated(p, n) = [NoPage EXCEPT !.own = n, !.count = a, !.total = b]
  BY DEF Rated
<1>3. a = (IF p.own = 0 THEN p.count + 1 ELSE p.count) /\ b = p.total - p.own + n
  OBVIOUS
<1> HIDE DEF a, b
<1>4. /\ Rated(p, n) \in Page /\ Rated(p, n).own = n
      /\ Rated(p, n).count = a /\ Rated(p, n).total = b
  BY <1>1, <1>2, NoPicturesOK DEF Page, NoPage
<1> QED
  BY <1>3, <1>4

LEMMA WithNumbersFields ==
  ASSUME NEW p \in Page, NEW r \in Page
  PROVE  /\ WithNumbers(p, r) \in Page
         /\ WithNumbers(p, r).own = r.own
         /\ WithNumbers(p, r).count = r.count
         /\ WithNumbers(p, r).total = r.total
         /\ WithNumbers(p, r).images = p.images
  BY DEF WithNumbers, Page

\* A call that goes on with its flags, or what it has got, changed.
LEMMA CallGoesOn ==
  ASSUME NEW k, CallOK(k), k # Idle, NEW l \in CallRecord,
         l.op = k.op, l.img = k.img, l.pc = k.pc \/ k.op = "setRating"
  PROVE  CallOK(l) /\ l # Idle
  BY DEF CallOK, Idle

LEMMA AppTypeOK ==
  ASSUME TypeOK, NEW c \in Call, AppStep(c)
  PROVE  TypeOK'
<1>0. /\ page \in Page /\ plan \in Page /\ call[c].got \in Page /\ call[c].num \in Nat
      /\ \A p \in Page : p.own \in Nat
  BY QueryRecord, PageFields DEF TypeOK, AppOK
<1>1. CASE VoteAnswered(c)
  <2>1. call' = [call EXCEPT ![c] = Idle] /\ \E v \in Opinion : ShowVote(c, v)
    BY <1>1 DEF VoteAnswered, Answered, Opinion
  <2>2. page' \in Page /\ plan' \in Page
    BY <1>0, <2>1, WithVoteFields DEF ShowVote
  <2>3. changedRating' \in Nat
    BY <1>0, <1>1, <2>2 DEF VoteAnswered, Notified
  <2> QED
    BY <1>1, <2>1, <2>2, <2>3, FreeOutcome
    DEF VoteAnswered, tables, TypeOK, TablesOK, AppOK, CallOK
<1>2. CASE ReportAnswered(c)
  <2>1. call' = [call EXCEPT ![c] = Idle]
    BY <1>2 DEF ReportAnswered, Answered
  <2>2. page' \in Page /\ plan' \in Page
    BY <1>0, <1>2, WithoutPictureFields DEF ReportAnswered, ShowReport
  <2>3. changedRating' \in Nat
    BY <1>0, <1>2, <2>2 DEF ReportAnswered, Notified
  <2> QED
    BY <1>2, <2>1, <2>2, <2>3, FreeOutcome
    DEF ReportAnswered, tables, TypeOK, TablesOK, AppOK, CallOK
<1>3. CASE RatingAnswered(c)
  <2>1. PICK meal \in Page :
          call' = [call EXCEPT ![c] = [@ EXCEPT !.pc = "updateMeal",
                                               !.got = Rated(meal, call[c].num)]]
    <3>1. (IF call[c].onPage THEN page ELSE plan) \in Page
      BY <1>0
    <3> QED
      BY <1>3, <3>1 DEF RatingAnswered
  <2>2. PICK got \in Page : got = Rated(meal, call[c].num)
    BY <1>0, RatedFields
  <2> DEFINE k == [call[c] EXCEPT !.pc = "updateMeal", !.got = got]
  <2>3. CallOK(call[c]) /\ call[c].op = "setRating" /\ call[c] # Idle
    BY <1>3 DEF TypeOK, AppOK, RatingAnswered, At, Idle
  <2>4. k \in CallRecord /\ k.op = call[c].op /\ k.img = call[c].img
    BY <2>3 DEF CallOK, CallRecord, PC
  <2>5. SetCall(c, k)
    BY <2>1, <2>2 DEF SetCall
  <2> HIDE DEF k
  <2>6. CallOK(k)
    BY <2>3, <2>4, CallGoesOn
  <2>7. call' \in [Call -> CallRecord] /\ \A d \in Call : CallOK(call'[d])
    BY <2>5, <2>6, SetCallKeeps
  <2>8. changedRating' \in Nat
    BY <1>0, <1>3 DEF RatingAnswered, Notified
  <2> QED
    BY <1>3, <2>7, <2>8 DEF RatingAnswered, tables, TypeOK, TablesOK, AppOK, CallOK
<1>4. CASE ShowRating(c)
  <2>1. call' = [call EXCEPT ![c] = Idle]
    BY <1>4 DEF ShowRating
  <2>2. page' \in Page /\ plan' \in Page
    BY <1>0, <1>4, WithNumbersFields DEF ShowRating
  <2>3. changedRating' \in Nat
    BY <1>0, <1>4, <2>2 DEF ShowRating, Notified
  <2> QED
    BY <1>4, <2>1, <2>2, <2>3, FreeOutcome
    DEF ShowRating, tables, TypeOK, TablesOK, AppOK, CallOK
<1>5. CASE PageAnswered(c)
  <2>1. \A d \in Call : call'[d] = IF d = c \/ call[d] = Idle THEN Idle
                                   ELSE [call[d] EXCEPT !.onPlan = FALSE]
    BY <1>5 DEF PageAnswered
  <2>2. \A d \in Call : CallOK(call'[d])
    <3> SUFFICES ASSUME NEW d \in Call PROVE CallOK(call'[d])
      OBVIOUS
    <3>1. CASE d = c \/ call[d] = Idle
      BY <2>1, <3>1, IdleOK
    <3>2. CASE ~(d = c \/ call[d] = Idle)
      <4> DEFINE k == [call[d] EXCEPT !.onPlan = FALSE]
      <4>1. CallOK(call[d])
        BY DEF TypeOK, AppOK
      <4>2. /\ k \in CallRecord /\ k.op = call[d].op /\ k.img = call[d].img
            /\ k.pc = call[d].pc
        BY <4>1 DEF CallOK, CallRecord
      <4> HIDE DEF k
      <4>3. CallOK(k)
        BY <3>2, <4>1, <4>2, CallGoesOn
      <4> QED
        BY <2>1, <3>2, <4>3 DEF k
    <3> QED
      BY <3>1, <3>2
  <2>3. call' \in [Call -> CallRecord]
    <3>1. call' = [d \in Call |-> call'[d]]
      BY <1>5 DEF PageAnswered
    <3> QED
      BY <2>2, <3>1 DEF CallOK
  <2>4. changedRating' \in Nat /\ plan' \in Page /\ fresh' \in BOOLEAN
    BY <1>0, <1>5 DEF PageAnswered, Notified, TypeOK, AppOK, CallRecord
  <2> QED
    BY <1>5, <2>2, <2>3, <2>4 DEF PageAnswered, tables, TypeOK, TablesOK, AppOK, CallOK
<1>6. CASE Refused(c)
  BY <1>6, FreeOutcome DEF Refused, shown, tables, TypeOK, TablesOK, AppOK, CallOK
<1>7. CASE Lose(c)
  <2>1. call' \in [Call -> CallRecord] /\ \A d \in Call : CallOK(call'[d])
    <3>1. CASE call' = [call EXCEPT ![c] = Idle]
      BY <3>1, FreeOutcome
    <3>2. CASE call' = [call EXCEPT ![c].heard = FALSE]
      <4> DEFINE k == [call[c] EXCEPT !.heard = FALSE]
      <4>1. CallOK(call[c]) /\ call[c] # Idle
        BY <1>7 DEF TypeOK, AppOK, Lose
      <4>2. /\ k \in CallRecord /\ k.op = call[c].op /\ k.img = call[c].img
            /\ k.pc = call[c].pc
        BY <4>1 DEF CallOK, CallRecord
      <4>3. SetCall(c, k)
        BY <3>2 DEF SetCall
      <4> HIDE DEF k
      <4>4. CallOK(k)
        BY <4>1, <4>2, CallGoesOn
      <4> QED
        BY <4>3, <4>4, SetCallKeeps
    <3> QED
      BY <1>7, <3>1, <3>2 DEF Lose
  <2>2. UNCHANGED <<tables, shown, calls>> /\ trusted' \in BOOLEAN /\ fresh' \in BOOLEAN
    BY <1>7 DEF Lose
  <2> QED
    BY <2>1, <2>2 DEF tables, shown, TypeOK, TablesOK, AppOK, CallOK
<1> QED
  BY <1>1, <1>2, <1>3, <1>4, <1>5, <1>6, <1>7 DEF AppStep

\* What a tap may send, and the stars it fills.
LEMMA TapSends ==
  ASSUME TypeOK, NEW c \in Call, Tap(c)
  PROVE  \E op \in Op \ {"none"}, i \in Image \cup {None}, n \in Nat :
            /\ op \in VoteOp \cup {"reportImage"} => i \in Image
            /\ Send(c, op, i, n)
            /\ op = "removeUpvote" => OnPage(i) /\ page.images[i].own = 1
            /\ op = "removeDownvote" => OnPage(i) /\ page.images[i].own = -1
            /\ \/ changedRating' = changedRating
               \/ op = "setRating" /\ n \in 1..Highest /\ changedRating' = n
<1>1. ASSUME NEW i \in Image, TapUp(c, i)
      PROVE  /\ changedRating' = changedRating
             /\ \/ Send(c, "addUpvote", i, 0)
                \/ Send(c, "removeUpvote", i, 0) /\ OnPage(i) /\ page.images[i].own = 1
  BY <1>1 DEF TapUp
<1>2. ASSUME NEW i \in Image, TapDown(c, i)
      PROVE  /\ changedRating' = changedRating
             /\ \/ Send(c, "addDownvote", i, 0)
                \/ Send(c, "removeDownvote", i, 0) /\ OnPage(i) /\ page.images[i].own = -1
  BY <1>2 DEF TapDown
<1>3. \A i \in Image : TapReport(c, i) =>
        Send(c, "reportImage", i, 0) /\ changedRating' = changedRating
  BY DEF TapReport
<1>4. \A n \in Stars :
        /\ TapStars(c, n) => Send(c, "setRating", None, n) /\ n \in 1..Highest
                             /\ changedRating' = n
        /\ SubmitRating(c, n) => Send(c, "setRating", None, n) /\ changedRating' = changedRating
        /\ n \in Nat
  BY PageAssumption DEF TapStars, SubmitRating
<1>5. TapRefresh(c) => Send(c, "refreshMealplan", None, 0) /\ changedRating' = changedRating
  BY DEF TapRefresh
<1>6. {"addUpvote", "addDownvote", "removeUpvote", "removeDownvote",
       "reportImage", "setRating", "refreshMealplan"} \subseteq Op \ {"none"}
  BY DEF Op, VoteOp
<1>7. {"setRating", "refreshMealplan"} \cap (VoteOp \cup {"reportImage"}) = {}
  BY DEF VoteOp
<1> HIDE DEF Op, VoteOp
<1>8. CASE \E i \in Image : TapUp(c, i) \/ TapDown(c, i) \/ TapReport(c, i)
  BY <1>1, <1>2, <1>3, <1>6, <1>8
<1>9. CASE (\E n \in Stars : TapStars(c, n) \/ SubmitRating(c, n)) \/ TapRefresh(c)
  BY <1>4, <1>5, <1>6, <1>7, <1>9
<1> QED
  BY <1>8, <1>9 DEF Tap

\* What opening the page does to a call.
LEMMA OpenOutcome ==
  ASSUME TypeOK, NEW object, Open(object)
  PROVE  /\ call' \in [Call -> CallRecord]
         /\ \A d \in Call :
              /\ CallOK(call'[d])
              /\ call[d] = Idle => call'[d] = Idle
              /\ call[d] # Idle => call'[d] # Idle /\ call'[d].onPage = Follows(call[d], object)
              /\ call'[d].op = call[d].op /\ call'[d].img = call[d].img
              /\ call'[d].num = call[d].num /\ call'[d].pc = call[d].pc
              /\ call'[d].got = call[d].got /\ call'[d].reads = call[d].reads
              /\ call'[d].heard = call[d].heard /\ call'[d].alone = call[d].alone
              /\ call'[d].onPlan = call[d].onPlan
<1> DEFINE k(d) == [call[d] EXCEPT !.onPage = Follows(call[d], object)]
<1>1. call' = [d \in Call |-> IF call[d] = Idle THEN Idle ELSE k(d)]
  BY DEF Open
<1>2. ASSUME NEW d \in Call
      PROVE  /\ k(d) \in CallRecord /\ k(d).onPage = Follows(call[d], object)
             /\ k(d).op = call[d].op /\ k(d).img = call[d].img
             /\ k(d).num = call[d].num /\ k(d).pc = call[d].pc
             /\ k(d).got = call[d].got /\ k(d).reads = call[d].reads
             /\ k(d).heard = call[d].heard /\ k(d).alone = call[d].alone
             /\ k(d).onPlan = call[d].onPlan
  BY DEF TypeOK, AppOK, CallRecord, Follows
<1>3. \A d \in Call : CallOK(call[d])
  BY DEF TypeOK, AppOK
<1> HIDE DEF k
<1>4. \A d \in Call : call[d] # Idle => CallOK(k(d)) /\ k(d) # Idle
  BY <1>2, <1>3, CallGoesOn
<1>5. \A d \in Call : CallOK(call'[d])
  BY <1>1, <1>4, IdleOK
<1>6. call' \in [Call -> CallRecord]
  BY <1>1, <1>5 DEF CallOK
<1> QED
  BY <1>1, <1>2, <1>4, <1>5, <1>6

LEMMA NextTypeOK == TypeOK /\ [Next]_vars => TypeOK'
<1> SUFFICES ASSUME TypeOK, [Next]_vars PROVE TypeOK'
  OBVIOUS
<1>1. CASE OtherStep
  BY <1>1, OtherTypeOK DEF app, shown, TypeOK, AppOK, CallOK
<1>2. ASSUME NEW object \in {"same", "copy"}, Open(object) PROVE TypeOK'
  <2>1. page' \in Page /\ changedRating' \in Nat
    BY <1>2, PageFields DEF Open, Notified, TypeOK, AppOK
  <2>2. trusted' \in BOOLEAN /\ link' \in {"same", "copy", "older"}
    BY <1>2 DEF Open
  <2> QED
    BY <1>2, <2>1, <2>2, OpenOutcome DEF Open, tables, TypeOK, TablesOK, AppOK, CallOK
<1>3. CASE OpenAgain
  <2>1. changedRating' \in Nat
    BY <1>3, PageFields DEF OpenAgain, Notified, TypeOK, AppOK
  <2> QED
    BY <1>3, <2>1 DEF OpenAgain, tables, TypeOK, TablesOK, AppOK, CallOK
<1>4. ASSUME NEW c \in Call, Tap(c) PROVE TypeOK'
  <2>1. PICK op \in Op \ {"none"}, i \in Image \cup {None}, n \in Nat :
               /\ op \in VoteOp \cup {"reportImage"} => i \in Image
               /\ Send(c, op, i, n)
               /\ changedRating' \in {changedRating, n}
    BY <1>4, TapSends
  <2>2. call' \in [Call -> CallRecord] /\ \A d \in Call : CallOK(call'[d])
    BY <2>1, SendOutcome
  <2>3. calls' \in Nat
    <3>1. calls' = calls + 1
      BY <2>1, Zenon DEF Send
    <3> QED
      BY <3>1 DEF TypeOK, AppOK
  <2>4. trusted' \in BOOLEAN /\ fresh' \in BOOLEAN
    <3>1. /\ trusted' = (trusted /\ UnderWay = {})
          /\ fresh' = (fresh /\ UnderWay = {} /\ (op = "refreshMealplan" \/ OnPlan(op)))
      BY <2>1 DEF Send
    <3> QED
      BY <3>1
  <2>5. UNCHANGED <<tables, plan, page, link>>
    BY <2>1 DEF Send
  <2>6. changedRating' \in Nat
    BY <2>1 DEF TypeOK, AppOK
  <2> QED
    BY <2>2, <2>3, <2>4, <2>5, <2>6 DEF tables, TypeOK, TablesOK, AppOK, CallOK
<1>5. ASSUME NEW c \in Call, BackendStep(c) PROVE TypeOK'
  BY <1>5, BackendTypeOK
<1>6. ASSUME NEW c \in Call, AppStep(c) PROVE TypeOK'
  BY <1>6, AppTypeOK
<1>7. CASE UNCHANGED vars
  BY <1>7 DEF vars, tables, app, shown, TypeOK, TablesOK, AppOK, CallOK
<1> QED
  BY <1>1, <1>2, <1>3, <1>4, <1>5, <1>6, <1>7 DEF Next

-----------------------------------------------------------------------------
(* What the app shows of the user's own opinions                           *)

\* A picture the app may know of: it was published, and this user has not
\* reported it.
Known(i) == phase[i] # "unused" /\ Me \notin reporters[i]

\* The pictures of a meal, but for those in without, show the stored votes.
VotesRight(p, without) ==
    \A i \in DOMAIN p.images \ without :
        /\ Known(i)
        /\ Present(i) => p.images[i].own = imageRating[i][Me]

OwnRight(p) == VotesRight(p, {}) /\ p.own = mealRating[Me]

\* The numbers contain the user's own rating.
NumbersRight(p) == p.count >= (IF p.own = 0 THEN 0 ELSE 1) /\ p.total >= p.own

CountsRight(p) ==
    /\ \A i \in DOMAIN p.images :
          /\ p.images[i].up >= (IF p.images[i].own = 1 THEN 1 ELSE 0)
          /\ p.images[i].down >= (IF p.images[i].own = -1 THEN 1 ELSE 0)
    /\ NumbersRight(p)

\* What the answer to a vote puts on a meal.
VoteOf(op) == CASE op = "addUpvote" -> 1
                [] op = "addDownvote" -> -1
                [] OTHER -> 0

\* The backend has done what the call asked for, and the app may know.
Served(k) == k.pc \in {"ok", "updateMeal"}

\* Meal p shows the stored opinions once the answer to call k is on it.
RightOnceAnswered(p, k) ==
    \/ /\ k.op \in VoteOp
       /\ VotesRight(p, {k.img})
       /\ k.img \in DOMAIN p.images =>
            /\ Known(k.img)
            /\ Present(k.img) => imageRating[k.img][Me] = VoteOf(k.op)
       /\ p.own = mealRating[Me]
    \/ /\ k.op = "reportImage"
       /\ VotesRight(p, {k.img})
       /\ p.own = mealRating[Me]
    \/ /\ k.op = "setRating"
       /\ VotesRight(p, {})
       /\ k.num = mealRating[Me]
       /\ k.pc = "updateMeal" => k.got.own = k.num /\ NumbersRight(k.got)

\* The thumb that a call takes back is the one that meal p shows.
TakesBackShown(p, k) ==
    /\ k.op = "removeUpvote" => k.img \in DOMAIN p.images /\ p.images[k.img].own = 1
    /\ k.op = "removeDownvote" => k.img \in DOMAIN p.images /\ p.images[k.img].own = -1

\* Of a vote v the query knows what the statements that have ended told it.
VoteSoFar(reads, v) ==
    IF (v = 1 /\ "upvote" \in reads) \/ (v = -1 /\ "downvote" \in reads) THEN 0 ELSE v

\* What a query k has read is what the backend has stored, or not asked yet,
\* and the counts it came with contain the user's own.
ReadsRight(k) ==
    /\ k.got.own = (IF "rating" \in k.reads THEN 0 ELSE mealRating[Me])
    /\ k.got.count >= (IF mealRating[Me] = 0 THEN 0 ELSE 1)
    /\ k.got.total >= mealRating[Me]
    /\ "images" \in k.reads => DOMAIN k.got.images = {}
    /\ \A i \in DOMAIN k.got.images :
          LET image == k.got.images[i] IN
          /\ Known(i)
          /\ Present(i) => image.own = VoteSoFar(k.reads, imageRating[i][Me])
          /\ image.up >= (IF image.own = 1 \/ imageRating[i][Me] = 1 THEN 1 ELSE 0)
          /\ image.down >= (IF image.own = -1 \/ imageRating[i][Me] = -1 THEN 1 ELSE 0)

Changes(c) == call[c].op \notin {"none", "refreshMealplan"}

\* A call that met no other is the only one.
AloneInv ==
    \A c \in Call : call[c] # Idle /\ call[c].alone => \A d \in Call \ {c} : call[d] = Idle

\* A query that met no other call has read what is stored.
QueryInv ==
    \A c \in Call :
        call[c].op = "refreshMealplan" /\ call[c].alone /\ call[c].pc # "sent" =>
            /\ ReadsRight(call[c])
            /\ call[c].pc = "ok" <=> call[c].reads = {}

\* The meal of the open page and that of the plan are one object, or have their
\* pictures in common, or nothing; what a call changes of one it changes of the
\* other as well.
LinkInv ==
    /\ link # "older" =>
         /\ plan.images = page.images
         /\ \A c \in Call : call[c].op # "setRating" => (call[c].onPage <=> call[c].onPlan)
    /\ link = "same" =>
         /\ plan = page
         /\ \A c \in Call : call[c].onPage <=> call[c].onPlan
    /\ \A c \in Call :
         call[c].op = "setRating" /\ call[c].onPage /\ call[c].onPlan => link = "same"

\* Meal p shows what is stored, or will once the one call that matters is answered.
Shows(p) ==
    /\ CountsRight(p)
    /\ \A c \in Call : Changes(c) =>
          /\ call[c].alone /\ call[c].heard
          /\ ~Served(call[c]) => TakesBackShown(p, call[c])
          /\ Served(call[c]) => RightOnceAnswered(p, call[c])
    /\ OwnRight(p) \/ \E c \in Call : Changes(c) /\ Served(call[c])

\* So does the meal of the plan, and a call that changes anything changes it.
PlanInv == fresh => Shows(plan) /\ \A c \in Call : Changes(c) => call[c].onPlan

\* So does that of the page.
PageInv == trusted => Shows(page) /\ \A c \in Call : Changes(c) => call[c].onPage

\* The stars filled are those of the meal, or of a rating the backend will not refuse.
StarsInv ==
    trusted =>
        \/ changedRating = page.own
        \/ \E c \in Call : /\ call[c].op = "setRating" /\ call[c].pc # "refused"
                           /\ call[c].num \in 1..Highest

OpinionInv == AloneInv /\ QueryInv /\ LinkInv /\ PlanInv /\ PageInv /\ StarsInv

-----------------------------------------------------------------------------
(* Steps that leave this user's opinions alone                             *)

TablesQuiet ==
    /\ \A i \in Image : Known(i) =>
          /\ Known(i)'
          /\ Present(i)' => Present(i) /\ imageRating'[i][Me] = imageRating[i][Me]
    /\ \A i \in Image : imageRating'[i][Me] \in {0, imageRating[i][Me]}
    /\ mealRating'[Me] = mealRating[Me]

LEMMA SameTablesQuiet ==
  ASSUME UNCHANGED <<phase, reporters, imageRating, mealRating>>
  PROVE  TablesQuiet
  BY DEF TablesQuiet, Known, Present

LEMMA OtherQuiet ==
  ASSUME TypeOK, OtherStep
  PROVE  TablesQuiet
<1> USE PageAssumption DEF TypeOK, TablesOK, Phase, Opinion
<1>1. ASSUME NEW u \in User, NEW i \in Image, NEW v \in {-1, 0, 1}, OtherVote(u, i, v)
      PROVE  TablesQuiet
  <2>1. \A j \in Image : imageRating'[j][Me] = imageRating[j][Me]
    BY <1>1 DEF OtherVote
  <2> QED
    BY <1>1, <2>1 DEF OtherVote, TablesQuiet, Known, Present
<1>2. ASSUME NEW u \in User, NEW n \in Stars, OtherRating(u, n) PROVE TablesQuiet
  <2>1. mealRating'[Me] = mealRating[Me]
    BY <1>2 DEF OtherRating
  <2> QED
    BY <1>2, <2>1 DEF OtherRating, TablesQuiet, Known, Present
<1>3. ASSUME NEW i \in Image, UNCHANGED <<imageRating, mealRating, app>>,
             Publish(i) \/ (\E u \in User \ {Me} : Report(i, u)) \/ Hide(i) \/ Verify(i)
      PROVE  TablesQuiet
  <2>1. CASE Publish(i)
    BY <1>3, <2>1 DEF Publish, TablesQuiet, Known, Present
  <2>2. CASE \E u \in User \ {Me} : Report(i, u)
    BY <1>3, <2>2 DEF Report, TablesQuiet, Known, Present
  <2>3. CASE Hide(i)
    BY <1>3, <2>3 DEF Hide, TablesQuiet, Known, Present
  <2>4. CASE Verify(i)
    BY <1>3, <2>4 DEF Verify, TablesQuiet, Known, Present
  <2> QED
    BY <1>3, <2>1, <2>2, <2>3, <2>4
<1>4. ASSUME NEW i \in Image, RemoveImage(i), UNCHANGED <<mealRating, app>>
      PROVE  TablesQuiet
  <2>1. /\ imageRating'[i][Me] = 0
        /\ \A j \in Image \ {i} : imageRating'[j][Me] = imageRating[j][Me]
    BY <1>4 DEF RemoveImage
  <2>2. /\ phase'[i] = "gone" /\ reporters'[i] = {}
        /\ \A j \in Image \ {i} : phase'[j] = phase[j] /\ reporters'[j] = reporters[j]
    BY <1>4 DEF RemoveImage, Remove
  <2> QED
    BY <1>4, <2>1, <2>2 DEF TablesQuiet, Known, Present
<1> QED
  BY <1>1, <1>2, <1>3, <1>4 DEF OtherStep

LEMMA VotesKept ==
  ASSUME TablesQuiet, NEW p \in Page, NEW S, VotesRight(p, S)
  PROVE  VotesRight(p, S)'
<1>1. DOMAIN p.images \in SUBSET Image
  BY PicturesFields DEF Page
<1> QED
  BY <1>1 DEF VotesRight, TablesQuiet

LEMMA OwnKept ==
  ASSUME TablesQuiet, NEW p \in Page, OwnRight(p)
  PROVE  OwnRight(p)'
<1>1. VotesRight(p, {})'
  BY VotesKept DEF OwnRight
<1> QED
  BY <1>1 DEF OwnRight, TablesQuiet

LEMMA ReadsKept ==
  ASSUME TypeOK, TypeOK', TablesQuiet, NEW k \in CallRecord, ReadsRight(k)
  PROVE  ReadsRight(k)'
<1>1. k.got.images \in Pictures
  BY DEF CallRecord, Page
<1>2. ASSUME NEW i \in DOMAIN k.got.images
      PROVE  LET image == k.got.images[i] IN
             /\ Known(i)'
             /\ Present(i)' => image.own = VoteSoFar(k.reads, imageRating'[i][Me])
             /\ image.up >= (IF image.own = 1 \/ imageRating'[i][Me] = 1 THEN 1 ELSE 0)
             /\ image.down >= (IF image.own = -1 \/ imageRating'[i][Me] = -1 THEN 1 ELSE 0)
  <2> DEFINE image == k.got.images[i]
  <2>1. i \in Image /\ image \in Picture
    BY <1>1, PicturesFields
  <2>2. /\ Known(i)
        /\ Present(i) => image.own = VoteSoFar(k.reads, imageRating[i][Me])
        /\ image.up >= (IF image.own = 1 \/ imageRating[i][Me] = 1 THEN 1 ELSE 0)
        /\ image.down >= (IF image.own = -1 \/ imageRating[i][Me] = -1 THEN 1 ELSE 0)
    BY DEF ReadsRight
  <2>3. image.up \in Int /\ image.down \in Int
    BY <2>1 DEF Picture
  <2>4. imageRating'[i][Me] \in {0, imageRating[i][Me]}
    BY <2>1 DEF TablesQuiet
  <2>5. image.up >= (IF image.own = 1 \/ imageRating'[i][Me] = 1 THEN 1 ELSE 0)
    BY <2>2, <2>3, <2>4
  <2>6. image.down >= (IF image.own = -1 \/ imageRating'[i][Me] = -1 THEN 1 ELSE 0)
    BY <2>2, <2>3, <2>4
  <2>7. Known(i)' /\ (Present(i)' => Present(i) /\ imageRating'[i][Me] = imageRating[i][Me])
    BY <2>1, <2>2 DEF TablesQuiet
  <2> QED
    BY <2>2, <2>5, <2>6, <2>7
<1>3. mealRating'[Me] = mealRating[Me]
  BY DEF TablesQuiet
<1>4. /\ k.got.own = (IF "rating" \in k.reads THEN 0 ELSE mealRating'[Me])
      /\ k.got.count >= (IF mealRating'[Me] = 0 THEN 0 ELSE 1)
      /\ k.got.total >= mealRating'[Me]
      /\ "images" \in k.reads => DOMAIN k.got.images = {}
  BY <1>3 DEF ReadsRight
<1> QED
  BY <1>2, <1>4 DEF ReadsRight

\* Two states of a call in which it asked and learnt the same.
LikeCall(k, l) ==
    /\ l.op = k.op /\ l.img = k.img /\ l.num = k.num /\ l.pc = k.pc
    /\ l.got = k.got /\ l.reads = k.reads
    /\ l.heard = k.heard /\ l.alone = k.alone

LEMMA AnsweredKept ==
  ASSUME TablesQuiet, NEW p \in Page, NEW k, NEW l, LikeCall(k, l), RightOnceAnswered(p, k)
  PROVE  RightOnceAnswered(p, l)'
<1>1. \A S : VotesRight(p, S) => VotesRight(p, S)'
  BY VotesKept
<1>2. DOMAIN p.images \in SUBSET Image /\ mealRating'[Me] = mealRating[Me]
  BY PageFields DEF TablesQuiet
<1>3. \A i \in Image : Known(i) =>
          /\ Known(i)'
          /\ Present(i)' => Present(i) /\ imageRating'[i][Me] = imageRating[i][Me]
  BY DEF TablesQuiet
<1>4. l.op = k.op /\ l.img = k.img /\ l.num = k.num /\ l.pc = k.pc /\ l.got = k.got
  BY DEF LikeCall
<1>5. CASE /\ k.op \in VoteOp
           /\ VotesRight(p, {k.img})
           /\ k.img \in DOMAIN p.images =>
                /\ Known(k.img)
                /\ Present(k.img) => imageRating[k.img][Me] = VoteOf(k.op)
           /\ p.own = mealRating[Me]
  <2>1. k.img \in DOMAIN p.images =>
          /\ Known(k.img)'
          /\ Present(k.img)' => imageRating'[k.img][Me] = VoteOf(k.op)
    BY <1>2, <1>3, <1>5
  <2> QED
    BY <1>1, <1>2, <1>4, <1>5, <2>1 DEF RightOnceAnswered
<1>6. CASE k.op = "reportImage" /\ VotesRight(p, {k.img}) /\ p.own = mealRating[Me]
  BY <1>1, <1>2, <1>4, <1>6 DEF RightOnceAnswered
<1>7. CASE /\ k.op = "setRating"
           /\ VotesRight(p, {})
           /\ k.num = mealRating[Me]
           /\ k.pc = "updateMeal" => k.got.own = k.num /\ NumbersRight(k.got)
  BY <1>1, <1>2, <1>4, <1>7 DEF RightOnceAnswered
<1> QED
  BY <1>5, <1>6, <1>7 DEF RightOnceAnswered

LEMMA CountsKept ==
  ASSUME NEW p, CountsRight(p)
  PROVE  CountsRight(p)'
  BY DEF CountsRight, NumbersRight

LEMMA TakenBackKept ==
  ASSUME NEW p, NEW k, NEW l, LikeCall(k, l), TakesBackShown(p, k)
  PROVE  TakesBackShown(p, l)
  BY DEF TakesBackShown, LikeCall

LEMMA ShowsKept ==
  ASSUME TablesQuiet, NEW p \in Page, Shows(p), \A d \in Call : LikeCall(call[d], call'[d])
  PROVE  Shows(p)'
<1>1. CountsRight(p)' /\ (OwnRight(p) => OwnRight(p)')
  BY CountsKept, OwnKept DEF Shows
<1>2. ASSUME NEW d \in Call
      PROVE  /\ Changes(d)' = Changes(d)
             /\ Served(call[d])' = Served(call[d])
             /\ call'[d].alone = call[d].alone /\ call'[d].heard = call[d].heard
             /\ TakesBackShown(p, call[d]) => TakesBackShown(p, call[d])'
             /\ RightOnceAnswered(p, call[d]) => RightOnceAnswered(p, call[d])'
  <2>1. PICK k, l : k = call[d] /\ l = call'[d]
    OBVIOUS
  <2>2. LikeCall(k, l)
    BY <2>1
  <2>3. RightOnceAnswered(p, k) => RightOnceAnswered(p, l)'
    BY <2>2, AnsweredKept
  <2>4. TakesBackShown(p, k) => TakesBackShown(p, l)
    BY <2>2, TakenBackKept
  <2>5. TakesBackShown(p, call[d]) => TakesBackShown(p, call[d])'
    BY <2>1, <2>4 DEF TakesBackShown
  <2>6. RightOnceAnswered(p, call[d]) => RightOnceAnswered(p, call[d])'
    BY <2>1, <2>3
  <2> QED
    BY <2>1, <2>2, <2>5, <2>6 DEF LikeCall, Changes, Served
<1> QED
  BY <1>1, <1>2 DEF Shows

\* While a call is under way nothing else has been alone.
LEMMA NotAlone ==
  ASSUME AloneInv, NEW c \in Call, NEW d \in Call, c # d, call[c] # Idle, call[d] # Idle
  PROVE  ~call[d].alone
  BY DEF AloneInv

LEMMA ChangesUnderWay ==
  ASSUME TypeOK, NEW c \in Call
  PROVE  /\ Changes(c) => call[c] # Idle
         /\ call[c] # Idle => Changes(c) \/ call[c].op = "refreshMealplan"
         /\ call[c] = Idle => call[c].op = "none" /\ ~Changes(c)
         /\ call[c].op = "refreshMealplan" => call[c] # Idle /\ ~Changes(c)
<1>1. CallOK(call[c])
  BY DEF TypeOK, AppOK
<1> QED
  BY <1>1 DEF CallOK, Changes, Idle

LEMMA ServedChanges ==
  ASSUME TypeOK, NEW c \in Call, call[c].pc = "refused"
  PROVE  Changes(c) /\ ~Served(call[c])
<1>1. CallOK(call[c])
  BY DEF TypeOK, AppOK
<1> QED
  BY <1>1 DEF CallOK, Changes, Served, Idle

\* What a call under way promises for meal p, when it is the one that matters.
Promise(p, k) ==
    /\ CountsRight(p)
    /\ IF Served(k) THEN RightOnceAnswered(p, k) ELSE OwnRight(p) /\ TakesBackShown(p, k)

\* Only one call that changes anything is under way for a meal that shows what
\* is stored.
LEMMA ShowsOne ==
  ASSUME TypeOK, AloneInv, NEW p, Shows(p), NEW c \in Call, Changes(c)
  PROVE  /\ call[c].alone /\ call[c].heard
         /\ \A d \in Call \ {c} : call[d] = Idle /\ ~Changes(d)
         /\ Promise(p, call[c])
<1>1. call[c].alone /\ call[c].heard /\ call[c] # Idle
  BY ChangesUnderWay DEF Shows
<1>2. \A d \in Call \ {c} : call[d] = Idle /\ ~Changes(d)
  BY <1>1, NotAlone, ChangesUnderWay
<1>3. CASE Served(call[c])
  BY <1>1, <1>2, <1>3 DEF Shows, Promise
<1>4. CASE ~Served(call[c])
  <2>1. OwnRight(p)
    BY <1>2, <1>4 DEF Shows
  <2> QED
    BY <1>1, <1>2, <1>4, <2>1 DEF Shows, Promise
<1> QED
  BY <1>3, <1>4

LEMMA ShowsNone ==
  ASSUME NEW p, Shows(p), \A d \in Call : ~Changes(d)
  PROVE  OwnRight(p) /\ CountsRight(p)
  BY DEF Shows

\* With a query under way no call changes anything.
LEMMA NoneBesideQuery ==
  ASSUME TypeOK, AloneInv, NEW c \in Call, call[c].op = "refreshMealplan", NEW p, Shows(p)
  PROVE  /\ \A d \in Call : ~Changes(d)
         /\ OwnRight(p) /\ CountsRight(p)
<1>1. call[c] # Idle /\ ~Changes(c)
  BY ChangesUnderWay
<1>2. \A d \in Call : ~Changes(d)
  BY <1>1, ShowsOne
<1> QED
  BY <1>2, ShowsNone

\* Steps after which meal p shows what is stored.
LEMMA NoneShows ==
  ASSUME NEW p, OwnRight(p)', CountsRight(p)', \A d \in Call : ~Changes(d)'
  PROVE  Shows(p)'
  BY DEF Shows

LEMMA OneShows ==
  ASSUME NEW p, NEW c \in Call, Promise(p, call[c])', call'[c].alone, call'[c].heard,
         \A d \in Call \ {c} : ~Changes(d)', Changes(c)'
  PROVE  Shows(p)'
  BY DEF Shows, Promise

-----------------------------------------------------------------------------
(* Steps of one call                                                       *)

OthersSame(c) == \A d \in Call \ {c} : call'[d] = call[d]

LEMMA AloneKept ==
  ASSUME AloneInv,
         \A d \in Call : call'[d] # Idle =>
            call[d] # Idle /\ (call'[d].alone => call[d].alone)
  PROVE  AloneInv'
  BY DEF AloneInv

\* Queries other than c have met c.
LEMMA OtherQueriesMet ==
  ASSUME TypeOK, AloneInv, NEW c \in Call, call[c] # Idle, OthersSame(c)
  PROVE  \A d \in Call \ {c} : ~(call'[d].op = "refreshMealplan" /\ call'[d].alone)
  BY NotAlone, ChangesUnderWay DEF OthersSame

\* A step of call c that leaves its object alone, or ends it.
LEMMA LinkKept ==
  ASSUME LinkInv, NEW c \in Call, OthersSame(c), UNCHANGED <<plan, page, link>>,
         call'[c] = Idle \/ SameCall(call[c], call'[c])
  PROVE  LinkInv'
<1>1. ASSUME NEW d \in Call
      PROVE  \/ call'[d].op = "none" /\ call'[d].onPage = TRUE /\ call'[d].onPlan = TRUE
             \/ /\ call'[d].op = call[d].op
                /\ call'[d].onPage = call[d].onPage /\ call'[d].onPlan = call[d].onPlan
  <2>1. CASE d # c
    BY <2>1 DEF OthersSame
  <2>2. CASE call'[c] = Idle /\ d = c
    BY <2>2 DEF Idle
  <2>3. CASE SameCall(call[c], call'[c]) /\ d = c
    BY <2>3 DEF SameCall
  <2> QED
    BY <2>1, <2>2, <2>3
<1> QED
  BY <1>1 DEF LinkInv

\* Whatever a call that changes something goes through, it leaves a meal right,
\* or right once the answer is shown.
LEMMA ChangeKeeps ==
  ASSUME TypeOK, OpinionInv, NEW c \in Call, Changes(c), OthersSame(c),
         UNCHANGED <<plan, page, link, fresh, trusted>>,
         \/ ~call[c].heard /\ call'[c] = Idle
         \/ SameCall(call[c], call'[c]),
         call[c].heard /\ call[c].onPage /\ Promise(page, call[c]) => Promise(page, call[c])',
         call[c].heard /\ call[c].onPlan /\ Promise(plan, call[c]) => Promise(plan, call[c])',
         \/ changedRating' = page.own
         \/ /\ changedRating' = changedRating
            /\ call'[c].pc = "refused" =>
                 call[c].op # "setRating" \/ call[c].num \notin 1..Highest
  PROVE  OpinionInv'
<1>1. AloneInv /\ QueryInv /\ LinkInv /\ PlanInv /\ PageInv /\ StarsInv
  BY DEF OpinionInv
<1>2. call[c] # Idle
  BY ChangesUnderWay
<1>3. AloneInv'
  BY <1>1, <1>2, AloneKept DEF SameCall, OthersSame
<1>4. QueryInv'
  <2>1. ~(call'[c].op = "refreshMealplan")
    BY DEF SameCall, Changes, Idle
  <2> QED
    BY <1>1, <1>2, <2>1, OtherQueriesMet DEF QueryInv
<1>5. LinkInv'
  BY <1>1, LinkKept
<1>6. ASSUME NEW p, Shows(p)
      PROVE  /\ call[c].heard /\ SameCall(call[c], call'[c])
             /\ call'[c].alone /\ call'[c].heard
             /\ call'[c].onPage = call[c].onPage /\ call'[c].onPlan = call[c].onPlan
             /\ \A d \in Call \ {c} : ~Changes(d)'
             /\ Changes(c)' /\ Promise(p, call[c])
  <2>1. /\ call[c].alone /\ call[c].heard /\ Promise(p, call[c])
        /\ \A d \in Call \ {c} : ~Changes(d)
    BY <1>1, <1>6, ShowsOne
  <2>2. SameCall(call[c], call'[c])
    BY <2>1
  <2>3. \A d \in Call \ {c} : ~Changes(d)'
    BY <2>1 DEF OthersSame, Changes
  <2> QED
    BY <2>1, <2>2, <2>3 DEF SameCall, Changes
<1>7. PlanInv'
  <2> SUFFICES ASSUME fresh PROVE PlanInv'
    BY DEF PlanInv
  <2>1. PICK p : p = plan
    OBVIOUS
  <2>2. Shows(p) /\ call[c].onPlan
    BY <1>1, <2>1 DEF PlanInv
  <2>3. Promise(p, call[c])'
    BY <1>6, <2>1, <2>2
  <2>4. Shows(p)'
    BY <1>6, <2>2, <2>3, OneShows
  <2>5. Shows(plan)'
    BY <2>1, <2>4
  <2> QED
    BY <1>6, <2>2, <2>5 DEF PlanInv
<1>8. PageInv'
  <2> SUFFICES ASSUME trusted PROVE PageInv'
    BY DEF PageInv
  <2>1. PICK p : p = page
    OBVIOUS
  <2>2. Shows(p) /\ call[c].onPage
    BY <1>1, <2>1 DEF PageInv
  <2>3. Promise(p, call[c])'
    BY <1>6, <2>1, <2>2
  <2>4. Shows(p)'
    BY <1>6, <2>2, <2>3, OneShows
  <2>5. Shows(page)'
    BY <2>1, <2>4
  <2> QED
    BY <1>6, <2>2, <2>5 DEF PageInv
<1>9. StarsInv'
  <2> SUFFICES ASSUME trusted, changedRating' # page.own PROVE StarsInv'
    BY DEF StarsInv
  <2>1. Shows(page)
    BY <1>1 DEF PageInv
  <2>2. changedRating # page.own
    OBVIOUS
  <2>3. PICK d \in Call : /\ call[d].op = "setRating" /\ call[d].pc # "refused"
                          /\ call[d].num \in 1..Highest
    BY <1>1, <2>2 DEF StarsInv
  <2>4. d = c
    BY <1>1, <2>1, <2>3, ShowsOne DEF Changes
  <2>5. SameCall(call[c], call'[c])
    BY <1>6, <2>1
  <2>6. /\ call'[c].op = "setRating" /\ call'[c].num \in 1..Highest
        /\ call'[c].pc # "refused"
    BY <2>3, <2>4, <2>5 DEF SameCall
  <2> QED
    BY <2>6 DEF StarsInv
<1> QED
  BY <1>3, <1>4, <1>5, <1>7, <1>8, <1>9 DEF OpinionInv

\* Once the answer to a call that changes something is on its object, or it was
\* refused, the object is right and nothing is under way.
LEMMA AnswerKeeps ==
  ASSUME TypeOK, OpinionInv, NEW c \in Call, Changes(c), call' = [call EXCEPT ![c] = Idle],
         UNCHANGED <<phase, reporters, imageRating, mealRating, link, fresh, trusted>>,
         NEW q \in Page, NEW r \in Page,
         page' = IF call[c].onPage THEN q ELSE page,
         plan' = IF call[c].onPlan THEN r ELSE plan,
         Promise(page, call[c]) => OwnRight(q) /\ CountsRight(q),
         Promise(plan, call[c]) => OwnRight(r) /\ CountsRight(r),
         plan = page => q = r,
         plan.images = page.images => q.images = r.images,
         call[c].op = "setRating" => q.images = page.images /\ r.images = plan.images,
         \/ changedRating' = page'.own
         \/ call[c].pc = "refused" /\ changedRating' = changedRating /\ page' = page
  PROVE  OpinionInv'
<1>1. AloneInv /\ QueryInv /\ LinkInv /\ PlanInv /\ PageInv /\ StarsInv
  BY DEF OpinionInv
<1>2. call[c] # Idle
  BY ChangesUnderWay
<1>3. OthersSame(c) /\ call'[c] = Idle
  BY FreeOutcome DEF OthersSame
<1>4. AloneInv'
  BY <1>1, <1>2, <1>3, AloneKept DEF OthersSame
<1>5. QueryInv'
  <2>1. ~(call'[c].op = "refreshMealplan")
    BY <1>3 DEF Idle
  <2> QED
    BY <1>1, <1>2, <1>3, <2>1, OtherQueriesMet DEF QueryInv
<1>6. LinkInv'
  <2>1. ASSUME NEW d \in Call
        PROVE  \/ call'[d].op = "none" /\ call'[d].onPage = TRUE /\ call'[d].onPlan = TRUE
               \/ /\ call'[d].op = call[d].op
                  /\ call'[d].onPage = call[d].onPage /\ call'[d].onPlan = call[d].onPlan
    <3>1. CASE d = c
      <4>1. Idle.op = "none" /\ Idle.onPage = TRUE /\ Idle.onPlan = TRUE
        BY DEF Idle
      <4> QED
        BY <1>3, <3>1, <4>1
    <3>2. CASE d # c
      BY <1>3, <3>2 DEF OthersSame
    <3> QED
      BY <3>1, <3>2
  <2>2. call[c].onPage \in BOOLEAN /\ call[c].onPlan \in BOOLEAN
    BY DEF TypeOK, AppOK, CallRecord
  <2>3. link # "older" => plan'.images = page'.images
    <3> SUFFICES ASSUME link # "older" PROVE plan'.images = page'.images
      OBVIOUS
    <3>1. plan.images = page.images /\ q.images = r.images
      BY <1>1 DEF LinkInv
    <3>2. CASE call[c].op = "setRating"
      BY <2>2, <3>1, <3>2
    <3>3. CASE call[c].op # "setRating"
      <4>1. call[c].onPage <=> call[c].onPlan
        BY <1>1, <3>3 DEF LinkInv
      <4> QED
        BY <3>1, <4>1
    <3> QED
      BY <3>2, <3>3
  <2>4. link = "same" => plan' = page'
    BY <1>1, <2>2 DEF LinkInv
  <2>5. \A d \in Call :
          call'[d].op = "setRating" /\ call'[d].onPage /\ call'[d].onPlan => link = "same"
    BY <1>1, <2>1 DEF LinkInv
  <2>6. link # "older" =>
          \A d \in Call : call'[d].op # "setRating" => (call'[d].onPage <=> call'[d].onPlan)
    BY <1>1, <2>1 DEF LinkInv
  <2>7. link = "same" => \A d \in Call : call'[d].onPage <=> call'[d].onPlan
    BY <1>1, <2>1 DEF LinkInv
  <2> QED
    BY <2>3, <2>4, <2>5, <2>6, <2>7 DEF LinkInv
<1>7. TablesQuiet
  BY SameTablesQuiet
<1>8. ASSUME NEW p, Shows(p)
      PROVE  Promise(p, call[c]) /\ \A d \in Call : ~Changes(d)'
  <2>1. Promise(p, call[c]) /\ \A d \in Call \ {c} : ~Changes(d)
    BY <1>1, <1>8, ShowsOne
  <2>2. \A d \in Call \ {c} : ~Changes(d)'
    BY <1>3, <2>1 DEF OthersSame, Changes
  <2>3. ~Changes(c)'
    BY <1>3 DEF Changes, Idle
  <2> QED
    BY <2>1, <2>2, <2>3
<1>9. PlanInv'
  <2> SUFFICES ASSUME fresh PROVE PlanInv'
    BY DEF PlanInv
  <2>1. Shows(plan) /\ call[c].onPlan
    BY <1>1 DEF PlanInv
  <2>2. OwnRight(r) /\ CountsRight(r) /\ plan' = r
    BY <1>8, <2>1
  <2>3. OwnRight(r)' /\ CountsRight(r)'
    BY <1>7, <2>2, OwnKept, CountsKept
  <2>4. Shows(r)'
    BY <1>8, <2>1, <2>3, NoneShows
  <2>5. Shows(plan)'
    BY <2>2, <2>4
  <2> QED
    BY <1>8, <2>1, <2>5 DEF PlanInv
<1>10. PageInv'
  <2> SUFFICES ASSUME trusted PROVE PageInv'
    BY DEF PageInv
  <2>1. Shows(page) /\ call[c].onPage
    BY <1>1 DEF PageInv
  <2>2. OwnRight(q) /\ CountsRight(q) /\ page' = q
    BY <1>8, <2>1
  <2>3. OwnRight(q)' /\ CountsRight(q)'
    BY <1>7, <2>2, OwnKept, CountsKept
  <2>4. Shows(q)'
    BY <1>8, <2>1, <2>3, NoneShows
  <2>5. Shows(page)'
    BY <2>2, <2>4
  <2> QED
    BY <1>8, <2>1, <2>5 DEF PageInv
<1>11. StarsInv'
  <2> SUFFICES ASSUME trusted, changedRating' # page'.own PROVE FALSE
    BY DEF StarsInv
  <2>1. Shows(page) /\ call[c].pc = "refused" /\ changedRating # page.own
    BY <1>1 DEF PageInv
  <2>2. PICK d \in Call : call[d].op = "setRating" /\ call[d].pc # "refused"
    BY <1>1, <2>1 DEF StarsInv
  <2> QED
    BY <1>1, <2>1, <2>2, ShowsOne DEF Changes
<1> QED
  BY <1>4, <1>5, <1>6, <1>9, <1>10, <1>11 DEF OpinionInv

\* A query neither changes what is stored nor what is shown.
LEMMA QueryKeeps ==
  ASSUME TypeOK, OpinionInv, NEW c \in Call, call[c].op = "refreshMealplan",
         OthersSame(c),
         UNCHANGED <<phase, reporters, imageRating, mealRating, shown, fresh, trusted>>,
         \/ call'[c] = Idle
         \/ /\ SameCall(call[c], call'[c])
            /\ call[c].alone => /\ ReadsRight(call[c])'
                                /\ call'[c].pc = "ok" <=> call'[c].reads = {}
  PROVE  OpinionInv'
<1>1. AloneInv /\ QueryInv /\ LinkInv /\ PlanInv /\ PageInv /\ StarsInv
  BY DEF OpinionInv
<1>2. call[c] # Idle /\ ~Changes(c)
  BY ChangesUnderWay
<1>3. UNCHANGED <<plan, page, link, changedRating>>
  BY DEF shown
<1>4. AloneInv'
  BY <1>1, <1>2, AloneKept DEF SameCall, OthersSame
<1>5. QueryInv'
  BY <1>1, <1>2, OtherQueriesMet DEF QueryInv, SameCall, Idle
<1>6. LinkInv'
  BY <1>1, <1>3, LinkKept
<1>7. TablesQuiet
  BY SameTablesQuiet
<1>8. ASSUME NEW p \in Page, Shows(p)
      PROVE  Shows(p)' /\ (\A d \in Call : ~Changes(d)) /\ (\A d \in Call : ~Changes(d)')
  <2>1. (\A d \in Call : ~Changes(d)) /\ OwnRight(p) /\ CountsRight(p)
    BY <1>1, <1>8, NoneBesideQuery
  <2>2. OwnRight(p)' /\ CountsRight(p)'
    BY <1>7, <2>1, OwnKept, CountsKept
  <2>3. \A d \in Call : ~Changes(d)'
    BY <2>1 DEF OthersSame, Changes, SameCall, Idle
  <2> QED
    BY <2>1, <2>2, <2>3, NoneShows
<1>9. PlanInv'
  <2> SUFFICES ASSUME fresh PROVE PlanInv'
    BY DEF PlanInv
  <2>1. PICK p \in Page : p = plan
    BY DEF TypeOK, AppOK
  <2>2. Shows(p)
    BY <1>1, <2>1 DEF PlanInv
  <2>3. Shows(p)' /\ \A d \in Call : ~Changes(d)'
    BY <1>8, <2>2
  <2>4. Shows(plan)'
    BY <1>3, <2>1, <2>3
  <2> QED
    BY <2>3, <2>4 DEF PlanInv
<1>10. PageInv'
  <2> SUFFICES ASSUME trusted PROVE PageInv'
    BY DEF PageInv
  <2>1. PICK p \in Page : p = page
    BY DEF TypeOK, AppOK
  <2>2. Shows(p)
    BY <1>1, <2>1 DEF PageInv
  <2>3. Shows(p)' /\ \A d \in Call : ~Changes(d)'
    BY <1>8, <2>2
  <2>4. Shows(page)'
    BY <1>3, <2>1, <2>3
  <2> QED
    BY <2>3, <2>4 DEF PageInv
<1>11. StarsInv'
  <2> SUFFICES ASSUME trusted, changedRating # page.own PROVE FALSE
    BY <1>3 DEF StarsInv
  <2>1. PICK p \in Page : p = page
    BY DEF TypeOK, AppOK
  <2>2. \A d \in Call : ~Changes(d)
    BY <1>1, <1>8, <2>1 DEF PageInv
  <2> QED
    BY <1>1, <2>2 DEF StarsInv, Changes
<1> QED
  BY <1>4, <1>5, <1>6, <1>9, <1>10, <1>11 DEF OpinionInv

-----------------------------------------------------------------------------
(* Every step keeps the opinions shown                                     *)

LEMMA InitOpinionInv == Init => OpinionInv
<1> SUFFICES ASSUME Init PROVE OpinionInv
  OBVIOUS
<1>1. \A c \in Call : call[c] = Idle
  BY DEF Init
<1>2. fresh = FALSE /\ trusted = FALSE /\ link = "older"
  BY DEF Init
<1>3. \A c \in Call : call[c].op = "none"
  BY <1>1 DEF Idle
<1> QED
  BY <1>1, <1>2, <1>3
  DEF OpinionInv, AloneInv, QueryInv, LinkInv, PlanInv, PageInv, StarsInv

LEMMA SameReadsRight ==
  ASSUME NEW k, NEW l, l.got = k.got, l.reads = k.reads, ReadsRight(k)
  PROVE  ReadsRight(l)
  BY Zenon DEF ReadsRight

\* A query goes on as it was, or comes to know nothing new.
LEMMA QueriesKept ==
  ASSUME TypeOK, TypeOK', TablesQuiet, QueryInv,
         \A d \in Call : call'[d].op = "refreshMealplan" /\ call'[d].alone =>
            LikeCall(call[d], call'[d])
  PROVE  QueryInv'
<1> SUFFICES ASSUME NEW d \in Call, call'[d].op = "refreshMealplan", call'[d].alone,
                    call'[d].pc # "sent"
             PROVE  ReadsRight(call[d])' /\ (call'[d].pc = "ok" <=> call'[d].reads = {})
  BY DEF QueryInv
<1>1. LikeCall(call[d], call'[d])
  OBVIOUS
<1>2. ReadsRight(call[d]) /\ (call[d].pc = "ok" <=> call[d].reads = {})
  BY <1>1 DEF QueryInv, LikeCall
<1>3. PICK k \in CallRecord : k = call'[d]
  BY DEF TypeOK, AppOK
<1>4. ReadsRight(k)
  BY <1>1, <1>2, <1>3, SameReadsRight DEF LikeCall
<1>5. ReadsRight(k)'
  BY <1>4, ReadsKept
<1> QED
  BY <1>1, <1>2, <1>3, <1>5 DEF LikeCall

\* Steps that leave the calls and what is shown alone, but may forget the stars.
LEMMA QuietKeeps ==
  ASSUME TypeOK, TypeOK', OpinionInv, TablesQuiet,
         UNCHANGED <<plan, page, link, call, fresh, trusted>>,
         changedRating' \in {changedRating, page.own}
  PROVE  OpinionInv'
<1>1. AloneInv /\ QueryInv /\ LinkInv /\ PlanInv /\ PageInv /\ StarsInv
  BY DEF OpinionInv
<1>2. \A d \in Call : LikeCall(call[d], call'[d])
  BY DEF LikeCall
<1>3. AloneInv' /\ LinkInv' /\ StarsInv'
  BY <1>1 DEF AloneInv, LinkInv, StarsInv
<1>4. QueryInv'
  BY <1>1, <1>2, QueriesKept
<1>5. ASSUME NEW p \in Page, Shows(p) PROVE Shows(p)'
  BY <1>2, <1>5, ShowsKept
<1>6. PICK p, q \in Page : p = plan /\ q = page
  BY DEF TypeOK, AppOK
<1>7. fresh => Shows(plan)'
  BY <1>1, <1>5, <1>6 DEF PlanInv
<1>8. trusted => Shows(page)'
  BY <1>1, <1>5, <1>6 DEF PageInv
<1>9. PlanInv' /\ PageInv'
  BY <1>1, <1>7, <1>8 DEF PlanInv, PageInv, Changes
<1> QED
  BY <1>3, <1>4, <1>9 DEF OpinionInv

LEMMA OtherKeeps ==
  ASSUME TypeOK, TypeOK', OpinionInv, OtherStep
  PROVE  OpinionInv'
<1>1. TablesQuiet
  BY OtherQuiet
<1>2. UNCHANGED <<plan, page, link, changedRating, call, fresh, trusted>>
  BY OtherTypeOK DEF app, shown
<1> QED
  BY <1>1, <1>2, QuietKeeps

LEMMA TapKeeps ==
  ASSUME TypeOK, OpinionInv, NEW c \in Call, Tap(c)
  PROVE  OpinionInv'
<1>0. AloneInv /\ QueryInv /\ LinkInv /\ PlanInv /\ PageInv /\ StarsInv
  BY DEF OpinionInv
<1>1. PICK op \in Op \ {"none"}, i \in Image \cup {None}, n \in Nat :
            /\ op \in VoteOp \cup {"reportImage"} => i \in Image
            /\ Send(c, op, i, n)
            /\ op = "removeUpvote" => OnPage(i) /\ page.images[i].own = 1
            /\ op = "removeDownvote" => OnPage(i) /\ page.images[i].own = -1
            /\ \/ changedRating' = changedRating
               \/ op = "setRating" /\ n \in 1..Highest /\ changedRating' = n
  BY TapSends
<1>2. /\ call[c] = Idle
      /\ call'[c].op = op /\ call'[c].img = i /\ call'[c].num = n
      /\ call'[c].pc = "sent" /\ call'[c].heard = TRUE
      /\ call'[c].onPage = TRUE /\ call'[c].onPlan = OnPlan(op)
      /\ call'[c].alone = (UnderWay = {})
  <2>1. Send(c, op, i, n) /\ (op \in VoteOp \cup {"reportImage"} => i \in Image)
    BY <1>1
  <2>2. call[c] = Idle /\ call'[c].op = op
    BY <2>1, SendOutcome
  <2>3. call'[c].img = i /\ call'[c].num = n
    BY <2>1 DEF Send, Idle
  <2>4. call'[c].pc = "sent" /\ call'[c].heard = TRUE /\ call'[c].onPage = TRUE
    BY <2>1, SendOutcome
  <2>5. call'[c].onPlan = OnPlan(op)
    BY <2>1, SendOutcome
  <2>6. call'[c].alone = (UnderWay = {})
    BY <2>1, SendOutcome
  <2> QED
    BY <2>2, <2>3, <2>4, <2>5, <2>6
<1>3. ASSUME NEW d \in Call \ {c}
      PROVE  /\ call[d] = Idle => call'[d] = Idle
             /\ call[d] # Idle => /\ call'[d].op = call[d].op /\ call'[d] # Idle
                                  /\ call'[d].onPage = call[d].onPage
                                  /\ call'[d].onPlan = call[d].onPlan
                                  /\ call'[d].alone = FALSE
  <2>1. call'[d] = IF call[d] = Idle THEN Idle ELSE [call[d] EXCEPT !.alone = FALSE]
    BY <1>1 DEF Send
  <2>2. CallOK(call[d]) /\ call[d] \in CallRecord
    BY DEF TypeOK, AppOK
  <2>3. call[d] # Idle => /\ call'[d].op = call[d].op /\ call'[d].alone = FALSE
                          /\ call'[d].onPage = call[d].onPage
                          /\ call'[d].onPlan = call[d].onPlan
    BY <2>1, <2>2 DEF CallRecord
  <2>4. Idle.op = "none"
    BY DEF Idle
  <2>5. call[d] # Idle => call'[d] # Idle
    BY <2>2, <2>3, <2>4 DEF CallOK
  <2> QED
    BY <2>1, <2>3, <2>5
<1>4. /\ UNCHANGED <<phase, reporters, imageRating, mealRating, plan, page, link>>
      /\ trusted' = (trusted /\ UnderWay = {})
      /\ fresh' = (fresh /\ UnderWay = {} /\ (op = "refreshMealplan" \/ OnPlan(op)))
  BY <1>1 DEF Send, tables
<1>5. UnderWay = {} => \A d \in Call : call[d] = Idle /\ call[d].op = "none" /\ ~Changes(d)
  BY ChangesUnderWay DEF UnderWay
<1>6. AloneInv'
  BY <1>2, <1>3, <1>5 DEF AloneInv
<1>7. QueryInv'
  <2> SUFFICES ASSUME NEW d \in Call, call'[d].op = "refreshMealplan", call'[d].alone,
                      call'[d].pc # "sent"
               PROVE  FALSE
    BY DEF QueryInv
  <2>1. d # c /\ Idle.op = "none"
    BY <1>2 DEF Idle
  <2>2. call'[d] # Idle /\ call[d] # Idle
    BY <1>3, <2>1
  <2> QED
    BY <1>3, <2>1, <2>2
<1>8. LinkInv'
  <2>1. \A d \in Call \ {c} :
          /\ call'[d].op = call[d].op
          /\ call'[d].onPage = call[d].onPage /\ call'[d].onPlan = call[d].onPlan
    BY <1>3
  <2> QED
    BY <1>0, <1>2, <1>4, <2>1 DEF LinkInv, OnPlan
<1>9. TablesQuiet
  BY <1>4, SameTablesQuiet
<1>10. ASSUME NEW p \in Page, Shows(p), UnderWay = {},
              op = "removeUpvote" => i \in DOMAIN p.images /\ p.images[i].own = 1,
              op = "removeDownvote" => i \in DOMAIN p.images /\ p.images[i].own = -1
       PROVE  Shows(p)' /\ \A d \in Call \ {c} : ~Changes(d)'
  <2>1. OwnRight(p) /\ CountsRight(p)
    BY <1>5, <1>10, ShowsNone
  <2>2. OwnRight(p)' /\ CountsRight(p)'
    BY <1>9, <2>1, OwnKept, CountsKept
  <2>3. \A d \in Call \ {c} : ~Changes(d)'
    BY <1>3, <1>5, <1>10 DEF Changes
  <2>4. CASE op = "refreshMealplan"
    <3>1. ~Changes(c)'
      BY <1>2, <2>4 DEF Changes
    <3> QED
      BY <2>2, <2>3, <3>1, NoneShows
  <2>5. CASE op # "refreshMealplan"
    <3>1. TakesBackShown(p, call[c])' /\ ~Served(call[c])' /\ Changes(c)'
      BY <1>2, <1>10, <2>5 DEF TakesBackShown, Served, Changes, Op
    <3>2. Promise(p, call[c])'
      BY <2>2, <3>1 DEF Promise
    <3> QED
      BY <1>2, <1>10, <2>3, <3>1, <3>2, OneShows
  <2> QED
    BY <2>4, <2>5
<1>11. PlanInv'
  <2> SUFFICES ASSUME fresh, UnderWay = {}, op = "refreshMealplan" \/ OnPlan(op)
               PROVE  PlanInv'
    BY <1>4 DEF PlanInv
  <2>1. PICK p \in Page : p = plan
    BY DEF TypeOK, AppOK
  <2>2. Shows(p)
    BY <1>0, <2>1 DEF PlanInv
  <2>3. op \in {"removeUpvote", "removeDownvote"} => p.images = page.images
    BY <1>0, <2>1 DEF LinkInv, OnPlan
  <2>4. /\ op = "removeUpvote" => i \in DOMAIN p.images /\ p.images[i].own = 1
        /\ op = "removeDownvote" => i \in DOMAIN p.images /\ p.images[i].own = -1
    BY <1>1, <2>3 DEF OnPage
  <2>5. Shows(p)' /\ \A d \in Call \ {c} : ~Changes(d)'
    BY <1>10, <2>2, <2>4
  <2>6. Shows(plan)'
    BY <1>4, <2>1, <2>5
  <2>7. Changes(c)' => call'[c].onPlan
    BY <1>2 DEF Changes
  <2> QED
    BY <2>5, <2>6, <2>7 DEF PlanInv
<1>12. PageInv'
  <2> SUFFICES ASSUME trusted, UnderWay = {} PROVE PageInv'
    BY <1>4 DEF PageInv
  <2>1. PICK p \in Page : p = page
    BY DEF TypeOK, AppOK
  <2>2. Shows(p)
    BY <1>0, <2>1 DEF PageInv
  <2>3. Shows(p)' /\ \A d \in Call \ {c} : ~Changes(d)'
    BY <1>1, <1>10, <2>1, <2>2 DEF OnPage
  <2>4. Shows(page)'
    BY <1>4, <2>1, <2>3
  <2> QED
    BY <1>2, <2>3, <2>4 DEF PageInv
<1>13. StarsInv'
  <2> SUFFICES ASSUME trusted, UnderWay = {} PROVE StarsInv'
    BY <1>4 DEF StarsInv
  <2>1. changedRating = page.own
    BY <1>0, <1>5 DEF StarsInv
  <2>2. CASE changedRating' = changedRating
    BY <1>4, <2>1, <2>2 DEF StarsInv
  <2>3. CASE op = "setRating" /\ n \in 1..Highest
    BY <1>2, <2>3 DEF StarsInv
  <2> QED
    BY <1>1, <2>2, <2>3
<1> QED
  BY <1>6, <1>7, <1>8, <1>11, <1>12, <1>13 DEF OpinionInv

LEMMA OpenKeeps ==
  ASSUME TypeOK, TypeOK', OpinionInv, NEW object \in {"same", "copy"}, Open(object)
  PROVE  OpinionInv'
<1>0. AloneInv /\ QueryInv /\ LinkInv /\ PlanInv /\ PageInv /\ StarsInv
  BY DEF OpinionInv
<1>1. /\ UNCHANGED <<phase, reporters, imageRating, mealRating, plan, fresh>>
      /\ page' = plan /\ link' = object /\ changedRating' = page'.own
      /\ trusted' = (fresh /\ \A d \in UnderWay :
                        call[d].op = "refreshMealplan" \/ Follows(call[d], object))
  BY DEF Open, tables, Notified
<1>2. ASSUME NEW d \in Call
      PROVE  /\ LikeCall(call[d], call'[d])
             /\ call[d] = Idle => call'[d] = Idle
             /\ call[d] # Idle => call'[d] # Idle /\ call'[d].onPage = Follows(call[d], object)
             /\ call'[d].op = call[d].op /\ call'[d].alone = call[d].alone
             /\ call'[d].onPlan = call[d].onPlan
  BY OpenOutcome DEF LikeCall
<1>3. AloneInv'
  BY <1>0, <1>2, AloneKept
<1>4. TablesQuiet
  BY <1>1, SameTablesQuiet
<1>5. QueryInv'
  BY <1>0, <1>2, <1>4, QueriesKept
<1>6. LinkInv'
  <2>1. ASSUME NEW d \in Call
        PROVE  \/ call'[d].op = "none" /\ call'[d].onPage = TRUE /\ call'[d].onPlan = TRUE
               \/ call'[d].onPage = (call'[d].onPlan
                                      /\ (call'[d].op = "setRating" => object = "same"))
    <3>1. Idle.op = "none" /\ Idle.onPage = TRUE /\ Idle.onPlan = TRUE
      BY DEF Idle
    <3> QED
      BY <1>2, <3>1 DEF Follows
  <2>2. \A d \in Call : call'[d].onPlan \in BOOLEAN
    BY DEF TypeOK, AppOK, CallRecord
  <2> QED
    BY <1>1, <2>1, <2>2 DEF LinkInv
<1>7. ASSUME fresh
      PROVE  Shows(plan)' /\ Shows(page)' /\ \A d \in Call : Changes(d)' => call'[d].onPlan
  <2>1. PICK p \in Page : p = plan
    BY DEF TypeOK, AppOK
  <2>2. Shows(p) /\ \A d \in Call : Changes(d) => call[d].onPlan
    BY <1>0, <1>7, <2>1 DEF PlanInv
  <2>3. Shows(p)'
    BY <1>2, <1>4, <2>2, ShowsKept
  <2>4. p = plan' /\ p = page'
    BY <1>1, <2>1
  <2>5. Shows(plan)' /\ Shows(page)'
    BY <2>3, <2>4
  <2> QED
    BY <1>2, <2>2, <2>5 DEF Changes
<1>8. PlanInv'
  BY <1>1, <1>7 DEF PlanInv
<1>9. PageInv'
  <2> SUFFICES ASSUME trusted', NEW d \in Call, Changes(d)'
               PROVE  call'[d].onPage
    BY <1>1, <1>7 DEF PageInv
  <2>1. Changes(d)
    BY <1>2 DEF Changes
  <2>2. call[d] # Idle /\ call[d].op # "refreshMealplan"
    BY <2>1, ChangesUnderWay DEF Changes
  <2>3. Follows(call[d], object)
    BY <1>1, <2>2 DEF UnderWay
  <2> QED
    BY <1>2, <2>2, <2>3
<1>10. StarsInv'
  BY <1>1 DEF StarsInv
<1> QED
  BY <1>3, <1>5, <1>6, <1>8, <1>9, <1>10 DEF OpinionInv

LEMMA OpenAgainKeeps ==
  ASSUME TypeOK, TypeOK', OpinionInv, OpenAgain
  PROVE  OpinionInv'
<1>1. UNCHANGED <<phase, reporters, imageRating, mealRating>>
  BY DEF OpenAgain, tables
<1>2. /\ UNCHANGED <<plan, page, link, call, fresh, trusted>>
      /\ changedRating' = page.own
  BY DEF OpenAgain, Notified
<1> QED
  BY <1>1, <1>2, SameTablesQuiet, QuietKeeps

-----------------------------------------------------------------------------
(* The backend keeps the opinions shown                                    *)

\* Whatever the backend does for a call that changes something, what it has to
\* keep of each meal.
LEMMA ServeKeeps ==
  ASSUME TypeOK, OpinionInv, NEW c \in Call, Changes(c), OthersSame(c), ~Served(call[c]),
         UNCHANGED <<plan, page, link, changedRating, fresh, trusted>>,
         \/ ~call[c].heard /\ call'[c] = Idle
         \/ SameCall(call[c], call'[c]),
         call'[c].pc = "refused" =>
           call[c].op # "setRating" \/ call[c].num \notin 1..Highest,
         \A p \in Page : call[c].heard /\ OwnRight(p) /\ TakesBackShown(p, call[c]) =>
           IF Served(call'[c]) THEN RightOnceAnswered(p, call[c])' ELSE OwnRight(p)'
  PROVE  OpinionInv'
<1>1. ASSUME NEW p \in Page, call[c].heard, Promise(p, call[c])
      PROVE  Promise(p, call[c])'
  <2>1. CountsRight(p) /\ OwnRight(p) /\ TakesBackShown(p, call[c])
    BY <1>1 DEF Promise
  <2>2. IF Served(call'[c]) THEN RightOnceAnswered(p, call[c])' ELSE OwnRight(p)'
    BY <1>1, <2>1
  <2>3. TakesBackShown(p, call[c])'
    BY <1>1, <2>1 DEF TakesBackShown, SameCall
  <2>4. CountsRight(p)'
    BY <2>1, CountsKept
  <2> QED
    BY <2>2, <2>3, <2>4 DEF Promise, Served
<1>2. PICK p, q \in Page : p = page /\ q = plan
  BY DEF TypeOK, AppOK
<1>3. ASSUME call[c].heard, Promise(page, call[c]) PROVE Promise(page, call[c])'
  <2>1. Promise(p, call[c])'
    BY <1>1, <1>2, <1>3
  <2>2. p = page'
    BY <1>2
  <2> QED
    BY <2>1, <2>2
<1>4. ASSUME call[c].heard, Promise(plan, call[c]) PROVE Promise(plan, call[c])'
  <2>1. Promise(q, call[c])'
    BY <1>1, <1>2, <1>4
  <2>2. q = plan'
    BY <1>2
  <2> QED
    BY <2>1, <2>2
<1> QED
  BY <1>3, <1>4, ChangeKeeps

LEMMA AnswerRecorded ==
  ASSUME TypeOK, NEW c \in Call, NEW result \in {"ok", "refused"}, Reply(c, result),
         call[c].op \in VoteOp \cup {"reportImage", "setRating"}
  PROVE  /\ Changes(c) /\ OthersSame(c)
         /\ \/ ~call[c].heard /\ call'[c] = Idle
            \/ SameCall(call[c], call'[c])
         /\ call'[c].pc = "refused" => result = "refused"
         /\ call[c].heard => call'[c].pc = result /\ SameCall(call[c], call'[c])
<1>1. Changes(c)
  BY DEF Changes, VoteOp
<1>2. ~call[c].heard => call'[c] = Idle /\ call'[c].pc = "idle"
  BY DEF Reply, Idle, TypeOK, AppOK
<1>3. call[c].heard => call'[c].pc = result /\ SameCall(call[c], call'[c])
  BY ReplyOutcome
<1> QED
  BY <1>1, <1>2, <1>3, ReplyOutcome DEF OthersSame

\* A vote for another picture than i changes nothing about it.
LEMMA OtherVotesRight ==
  ASSUME NEW p \in Page, NEW i, OwnRight(p), UNCHANGED phase,
         \A j \in Image \ {i} : /\ imageRating'[j][Me] = imageRating[j][Me]
                                /\ reporters'[j] = reporters[j]
  PROVE  VotesRight(p, {i})'
<1>1. DOMAIN p.images \in SUBSET Image
  BY PageFields
<1> QED
  BY <1>1 DEF OwnRight, VotesRight, Known, Present

LEMMA VoteKeeps ==
  ASSUME TypeOK, OpinionInv, NEW c \in Call, NEW v \in {1, -1}, call[c].pc = "sent",
         \/ /\ Vote(c, v)
            /\ call[c].op = (IF v = 1 THEN "addUpvote" ELSE "addDownvote")
         \/ /\ Unvote(c, v)
            /\ call[c].op = (IF v = 1 THEN "removeUpvote" ELSE "removeDownvote")
  PROVE  OpinionInv'
<1>0. PICK i : i = call[c].img
  OBVIOUS
<1>1. call[c].op \in VoteOp /\ ~Served(call[c])
  BY DEF VoteOp, Served
<1>2. i \in Image
  BY <1>0, <1>1 DEF TypeOK, AppOK, CallOK
<1>3. /\ UNCHANGED <<phase, reporters, mealRating>>
      /\ UNCHANGED <<plan, page, link, changedRating, fresh, trusted>>
  BY DEF Vote, Unvote, shown
<1>4. PICK result \in {"ok", "refused"} : Reply(c, result)
  BY DEF Vote, Unvote
<1>5. /\ Changes(c) /\ OthersSame(c)
      /\ \/ ~call[c].heard /\ call'[c] = Idle
         \/ SameCall(call[c], call'[c])
  BY <1>1, <1>4, AnswerRecorded
<1>6. imageRating \in [Image -> [User -> Opinion]] /\ Me \in User
  BY PageAssumption DEF TypeOK, TablesOK
<1>7. \A j \in Image \ {i} : imageRating'[j][Me] = imageRating[j][Me]
  BY <1>0, <1>2, <1>6 DEF Vote, Unvote
<1>8. ASSUME NEW p \in Page, call[c].heard, OwnRight(p), TakesBackShown(p, call[c])
      PROVE  IF Served(call'[c]) THEN RightOnceAnswered(p, call[c])' ELSE OwnRight(p)'
  <2>1. call'[c].op = call[c].op /\ call'[c].img = i
    BY <1>0, <1>1, <1>4, <1>8, AnswerRecorded DEF SameCall
  <2>2. VotesRight(p, {i})'
    BY <1>3, <1>7, <1>8, OtherVotesRight
  <2>3. p.own = mealRating'[Me]
    BY <1>3, <1>8 DEF OwnRight
  <2>4. i \in DOMAIN p.images => Known(i)'
    BY <1>3, <1>8 DEF OwnRight, VotesRight, Known
  <2>5. CASE Vote(c, v) /\ call[c].op = (IF v = 1 THEN "addUpvote" ELSE "addDownvote")
    <3>1. CASE Present(i) /\ imageRating' = [imageRating EXCEPT ![i][Me] = v] /\ Reply(c, "ok")
      <4>1. call'[c].pc = "ok"
        BY <1>1, <1>8, <3>1, AnswerRecorded
      <4>2. imageRating'[i][Me] = VoteOf(call[c].op)
        <5>1. imageRating'[i][Me] = v
          BY <1>2, <1>6, <3>1
        <5> QED
          BY <2>5, <5>1 DEF VoteOf
      <4>3. RightOnceAnswered(p, call[c])'
        BY <1>1, <2>1, <2>2, <2>3, <2>4, <4>2 DEF RightOnceAnswered
      <4> QED
        BY <4>1, <4>3 DEF Served
    <3>2. CASE ~Present(i) /\ Reply(c, "refused") /\ UNCHANGED imageRating
      <4>1. call'[c].pc = "refused"
        BY <1>1, <1>8, <3>2, AnswerRecorded
      <4>2. OwnRight(p)'
        BY <1>3, <1>8, <3>2 DEF OwnRight, VotesRight, Known, Present
      <4> QED
        BY <4>1, <4>2 DEF Served
    <3> QED
      BY <1>0, <2>5, <3>1, <3>2 DEF Vote
  <2>6. CASE Unvote(c, v) /\ call[c].op = (IF v = 1 THEN "removeUpvote" ELSE "removeDownvote")
    <3>1. call'[c].pc = "ok"
      BY <1>1, <1>8, <2>6, AnswerRecorded DEF Unvote
    <3>2. imageRating'[i][Me] = IF imageRating[i][Me] = v THEN 0 ELSE imageRating[i][Me]
      BY <1>0, <1>2, <1>6, <2>6 DEF Unvote
    <3>3. i \in DOMAIN p.images /\ p.images[i].own = v
      BY <1>0, <1>8, <2>6 DEF TakesBackShown
    <3>4. Present(i) => imageRating[i][Me] = v
      BY <1>8, <3>3 DEF OwnRight, VotesRight
    <3>5. VoteOf(call[c].op) = 0
      BY <2>6 DEF VoteOf
    <3>6. Known(i)' /\ (Present(i)' => imageRating'[i][Me] = VoteOf(call[c].op))
      BY <1>3, <2>4, <3>2, <3>3, <3>4, <3>5 DEF Present
    <3>7. RightOnceAnswered(p, call[c])'
      BY <1>1, <2>1, <2>2, <2>3, <3>6 DEF RightOnceAnswered
    <3> QED
      BY <3>1, <3>7 DEF Served
  <2> QED
    BY <2>5, <2>6
<1>9. call[c].op # "setRating"
  BY <1>1 DEF VoteOp
<1> QED
  BY <1>1, <1>3, <1>5, <1>8, <1>9, ServeKeeps

LEMMA SetRatingKeeps ==
  ASSUME TypeOK, OpinionInv, NEW c \in Call, SetRating(c)
  PROVE  OpinionInv'
<1>1. call[c].op = "setRating" /\ call[c].pc = "sent" /\ ~Served(call[c])
  BY DEF SetRating, At, Served
<1>2. /\ UNCHANGED <<phase, reporters, imageRating>>
      /\ UNCHANGED <<plan, page, link, changedRating, fresh, trusted>>
  BY DEF SetRating, AddRating, shown
<1>3. PICK result \in {"ok", "refused"} :
        /\ Reply(c, result)
        /\ result = "refused" => call[c].num \notin 1..Highest
  BY DEF SetRating, AddRating, IsRating
<1>4. /\ Changes(c) /\ OthersSame(c)
      /\ \/ ~call[c].heard /\ call'[c] = Idle
         \/ SameCall(call[c], call'[c])
  BY <1>1, <1>3, AnswerRecorded
<1>5. ASSUME NEW p \in Page, call[c].heard, OwnRight(p)
      PROVE  IF Served(call'[c]) THEN RightOnceAnswered(p, call[c])' ELSE OwnRight(p)'
  <2>1. call'[c].op = "setRating" /\ call'[c].num = call[c].num
    BY <1>1, <1>3, <1>5, AnswerRecorded DEF SameCall
  <2>2. VotesRight(p, {})'
    BY <1>2, <1>5 DEF OwnRight, VotesRight, Known, Present
  <2>3. CASE mealRating' = [mealRating EXCEPT ![Me] = call[c].num] /\ Reply(c, "ok")
    <3>1. call'[c].pc = "ok"
      BY <1>1, <1>5, <2>3, AnswerRecorded
    <3>2. mealRating'[Me] = call[c].num
      BY <2>3, PageAssumption DEF TypeOK, TablesOK
    <3>3. RightOnceAnswered(p, call[c])'
      BY <2>1, <2>2, <3>1, <3>2 DEF RightOnceAnswered
    <3> QED
      BY <3>1, <3>3 DEF Served
  <2>4. CASE Reply(c, "refused") /\ UNCHANGED mealRating
    <3>1. call'[c].pc = "refused"
      BY <1>1, <1>5, <2>4, AnswerRecorded
    <3>2. OwnRight(p)'
      BY <1>5, <2>2, <2>4 DEF OwnRight
    <3> QED
      BY <3>1, <3>2 DEF Served
  <2> QED
    BY <2>3, <2>4 DEF SetRating, AddRating
<1>6. call'[c].pc = "refused" => call[c].num \notin 1..Highest
  BY <1>1, <1>3, AnswerRecorded
<1> QED
  BY <1>1, <1>2, <1>4, <1>5, <1>6, ServeKeeps

LEMMA ReportKeeps ==
  ASSUME TypeOK, OpinionInv, NEW c \in Call, CheckReport(c) \/ AddReport(c)
  PROVE  OpinionInv'
<1>0. PICK i : i = call[c].img
  OBVIOUS
<1>1. /\ call[c].op = "reportImage" /\ ~Served(call[c]) /\ call[c] \in CallRecord
      /\ i \in Image
  BY <1>0 DEF CheckReport, AddReport, At, Served, TypeOK, AppOK, CallOK
<1>2. /\ UNCHANGED <<phase, imageRating, mealRating>>
      /\ UNCHANGED <<plan, page, link, changedRating, fresh, trusted>>
  BY DEF CheckReport, AddReport, Report, tables, shown
<1>3. CASE CheckReport(c) /\ call' = [call EXCEPT ![c].pc = "add_report"]
  <2>1. Changes(c) /\ OthersSame(c)
    BY <1>1, <1>3 DEF Changes, OthersSame, TypeOK, AppOK
  <2>2. SameCall(call[c], call'[c]) /\ call'[c].pc = "add_report"
    BY <1>1, <1>3 DEF SameCall, CallRecord, TypeOK, AppOK
  <2>3. \A p \in Page : OwnRight(p) => OwnRight(p)'
    BY <1>2, <1>3 DEF CheckReport, tables, OwnRight, VotesRight, Known, Present
  <2>4. ~Served(call'[c])
    BY <2>2 DEF Served
  <2> QED
    BY <1>1, <1>2, <2>1, <2>2, <2>3, <2>4, ServeKeeps
<1>4. ASSUME NEW result \in {"ok", "refused"}, Reply(c, result),
             \/ reporters' = reporters
             \/ result = "ok" /\ Report(i, Me)
      PROVE  OpinionInv'
  <2>1. /\ Changes(c) /\ OthersSame(c)
        /\ \/ ~call[c].heard /\ call'[c] = Idle
           \/ SameCall(call[c], call'[c])
    BY <1>1, <1>4, AnswerRecorded
  <2>2. \A j \in Image \ {i} : reporters'[j] = reporters[j]
    BY <1>4, PageAssumption DEF Report, TypeOK, TablesOK
  <2>3. ASSUME NEW p \in Page, call[c].heard, OwnRight(p)
        PROVE  IF Served(call'[c]) THEN RightOnceAnswered(p, call[c])' ELSE OwnRight(p)'
    <3>1. call'[c].op = "reportImage" /\ call'[c].img = i /\ call'[c].pc = result
      BY <1>0, <1>1, <1>4, <2>3, AnswerRecorded DEF SameCall
    <3>2. VotesRight(p, {i})' /\ p.own = mealRating'[Me]
      BY <1>2, <2>2, <2>3, OtherVotesRight DEF OwnRight
    <3>3. RightOnceAnswered(p, call[c])'
      BY <3>1, <3>2 DEF RightOnceAnswered
    <3>4. result = "refused" => OwnRight(p)'
      BY <1>2, <1>4, <2>3 DEF OwnRight, VotesRight, Known, Present
    <3> QED
      BY <3>1, <3>3, <3>4 DEF Served
  <2> QED
    BY <1>1, <1>2, <2>1, <2>3, ServeKeeps
<1>5. CASE CheckReport(c) /\ (Reply(c, "ok") \/ Reply(c, "refused"))
  BY <1>4, <1>5 DEF CheckReport, tables
<1>6. CASE AddReport(c)
  BY <1>0, <1>4, <1>6 DEF AddReport
<1> QED
  BY <1>3, <1>5, <1>6 DEF CheckReport

-----------------------------------------------------------------------------
(* Queries keep the opinions shown                                         *)

\* A statement of a query goes on with what it was to read.
LEMMA ReadKeeps ==
  ASSUME TypeOK, TypeOK', OpinionInv, NEW c \in Call, call[c].op = "refreshMealplan",
         NEW reads \in SUBSET Statement, NEW got \in Page, Read(c, reads, got),
         call[c].alone => \A k \in CallRecord : k.got = got /\ k.reads = reads => ReadsRight(k)
  PROVE  OpinionInv'
<1>1. UNCHANGED <<phase, reporters, imageRating, mealRating, shown, fresh, trusted>>
  BY DEF Read, tables
<1>2. /\ OthersSame(c) /\ SameCall(call[c], call'[c])
      /\ call'[c].reads = reads /\ call'[c].got = got
      /\ call'[c].pc = IF reads = {} THEN "ok" ELSE "reading"
  <2>1. OthersSame(c)
    BY ReadOutcome DEF OthersSame
  <2>2. SameCall(call[c], call'[c])
    BY ReadOutcome
  <2>3. call'[c].reads = reads /\ call'[c].got = got
    BY ReadOutcome
  <2>4. call'[c].pc = IF reads = {} THEN "ok" ELSE "reading"
    BY ReadOutcome
  <2> QED
    BY <2>1, <2>2, <2>3, <2>4
<1>3. call[c].alone => ReadsRight(call[c])' /\ (call'[c].pc = "ok" <=> call'[c].reads = {})
  <2> SUFFICES ASSUME call[c].alone
               PROVE  ReadsRight(call[c])' /\ (call'[c].pc = "ok" <=> call'[c].reads = {})
    OBVIOUS
  <2>1. PICK k \in CallRecord : k = call'[c]
    BY DEF TypeOK, AppOK
  <2>2. ReadsRight(k)
    BY <1>2, <2>1
  <2>3. ReadsRight(k)'
    BY <1>1, <2>2, SameTablesQuiet, ReadsKept
  <2> QED
    BY <1>2, <2>1, <2>3
<1> QED
  BY <1>1, <1>2, <1>3, QueryKeeps

\* What a query that met no other has read so far.
LEMMA ReadSoFar ==
  ASSUME TypeOK, OpinionInv, NEW c \in Call, NEW what, Reading(c, what), call[c].alone
  PROVE  ReadsRight(call[c])
  BY DEF OpinionInv, QueryInv, Reading, At

LEMMA QueryReads ==
  ASSUME TypeOK, TypeOK', OpinionInv, NEW c \in Call,
         \/ MealRead(c) \/ PersonalRating(c) \/ Images(c)
         \/ PersonalUpvote(c) \/ PersonalDownvote(c)
  PROVE  OpinionInv'
<1>1. call[c].op = "refreshMealplan" /\ TablesOK
  BY QueryOutcome DEF TypeOK
<1>2. PICK read \in Page, left \in SUBSET Statement :
        read = call[c].got /\ left = call[c].reads /\ read.images \in Pictures
  BY QueryRecord
<1>3. CASE MealRead(c)
  <2>1. {"rating", "images"} \in SUBSET Statement
    BY DEF Statement
  <2>2. ASSUME NEW k \in CallRecord, k.got = FirstRead, k.reads = {"rating", "images"}
        PROVE  ReadsRight(k)
    BY <1>1, <2>2, FirstReadFields DEF ReadsRight
  <2>3. Read(c, {"rating", "images"}, FirstRead) /\ FirstRead \in Page
    BY <1>1, <1>3, QuerySteps, FirstReadFields
  <2> QED
    BY <1>1, <2>1, <2>2, <2>3, ReadKeeps
<1>4. CASE PersonalRating(c)
  <2>1. PICK got \in Page : got = WithOwn(read, mealRating[Me])
    BY <1>1, MealCounted, WithFields, NoPicturesOK
  <2>2. /\ got.own = mealRating[Me] /\ got.count = read.count /\ got.total = read.total
        /\ got.images = read.images
    BY <1>1, <2>1, MealCounted, WithFields, NoPicturesOK
  <2>3. Read(c, left \ {"rating"}, got)
    BY <1>1, <1>2, <1>4, <2>1, QuerySteps, RatingRead
  <2>4. ASSUME call[c].alone, NEW k \in CallRecord, k.got = got, k.reads = left \ {"rating"}
        PROVE  ReadsRight(k)
    <3>1. ReadsRight(call[c])
      BY <1>4, <2>4, ReadSoFar DEF PersonalRating
    <3>2. \A v : VoteSoFar(left \ {"rating"}, v) = VoteSoFar(left, v)
      BY DEF VoteSoFar
    <3> QED
      BY <1>2, <2>2, <2>4, <3>1, <3>2 DEF ReadsRight
  <2> QED
    BY <1>1, <2>3, <2>4, ReadKeeps
<1>5. CASE Images(c)
  <2>1. PICK got \in Page : got = WithImages(read, VisibleRead)
    BY <1>1, VisibleReadFields, WithFields
  <2>2. /\ got.own = read.own /\ got.count = read.count /\ got.total = read.total
        /\ got.images = VisibleRead
    BY <1>1, <2>1, VisibleReadFields, WithFields
  <2>3. PICK reads \in SUBSET Statement :
          /\ reads = (left \ {"images"})
                       \cup (IF GetVisibleImages = {} THEN {} ELSE {"upvote", "downvote"})
    BY DEF Statement
  <2>4. Read(c, reads, got)
    BY <1>2, <1>5, <2>1, <2>3, QuerySteps
  <2>5. ASSUME call[c].alone, NEW k \in CallRecord, k.got = got, k.reads = reads
        PROVE  ReadsRight(k)
    <3>1. ReadsRight(call[c])
      BY <1>5, <2>5, ReadSoFar DEF Images
    <3>2. /\ k.got.own = (IF "rating" \in k.reads THEN 0 ELSE mealRating[Me])
          /\ k.got.count >= (IF mealRating[Me] = 0 THEN 0 ELSE 1)
          /\ k.got.total >= mealRating[Me]
          /\ "images" \notin k.reads
      BY <1>2, <2>2, <2>3, <2>5, <3>1 DEF ReadsRight
    <3>3. ASSUME NEW i \in GetVisibleImages
          PROVE  LET image == VisibleRead[i] IN
                 /\ Known(i)
                 /\ image.own = VoteSoFar(reads, imageRating[i][Me])
                 /\ image.up >= (IF image.own = 1 \/ imageRating[i][Me] = 1 THEN 1 ELSE 0)
                 /\ image.down >= (IF image.own = -1 \/ imageRating[i][Me] = -1 THEN 1 ELSE 0)
      <4>1. i \in Image /\ imageRating[i][Me] \in Opinion
        BY <1>1, VisibleFacts, PageAssumption DEF TablesOK
      <4>2. "upvote" \in reads /\ "downvote" \in reads
        BY <2>3
      <4>3. VisibleRead[i].own = 0 /\ VoteSoFar(reads, imageRating[i][Me]) = 0
        BY <1>1, <4>1, <4>2, VisibleReadFields DEF VoteSoFar, Opinion
      <4> QED
        BY <1>1, <4>3, VisibleFacts, VisibleReadFields DEF Known
    <3> QED
      BY <1>1, <2>2, <2>5, <3>2, <3>3, VisibleReadFields DEF ReadsRight
  <2> QED
    BY <1>1, <2>4, <2>5, ReadKeeps
<1>6. ASSUME NEW v \in {1, -1},
             LET own == OwnRead(read.images, IF v = 1 THEN MyVotes(1) ELSE {},
                                IF v = 1 THEN {} ELSE MyVotes(-1))
                 s == IF v = 1 THEN "upvote" ELSE "downvote"
             IN  Read(c, left \ {s}, WithImages(read, own)) /\ Reading(c, s)
      PROVE  OpinionInv'
  <2>1. PICK s : s = IF v = 1 THEN "upvote" ELSE "downvote"
    OBVIOUS
  <2>2. PICK f : f = OwnRead(read.images, IF v = 1 THEN MyVotes(1) ELSE {},
                             IF v = 1 THEN {} ELSE MyVotes(-1))
    OBVIOUS
  <2>3. f \in Pictures /\ DOMAIN f = DOMAIN read.images
    BY <1>2, <2>2, OwnReadFields
  <2>4. ASSUME NEW i \in DOMAIN f
        PROVE  /\ i \in Image /\ imageRating[i][Me] \in Opinion
               /\ f[i].up = read.images[i].up /\ f[i].down = read.images[i].down
               /\ read.images[i] \in Picture
               /\ f[i].own = IF imageRating[i][Me] = v /\ (v = 1 \/ read.images[i].own # 1)
                             THEN v ELSE read.images[i].own
    <3>1. i \in Image /\ i \in DOMAIN read.images /\ read.images[i] \in Picture
      BY <1>2, <2>3, PicturesFields
    <3>2. /\ f[i].own = IF i \in (IF v = 1 THEN MyVotes(1) ELSE {}) THEN 1
                        ELSE IF i \in (IF v = 1 THEN {} ELSE MyVotes(-1)) /\ read.images[i].own # 1
                        THEN -1 ELSE read.images[i].own
          /\ f[i].up = read.images[i].up /\ f[i].down = read.images[i].down
      BY <1>2, <2>2, <3>1, OwnReadFields
    <3>3. imageRating[i][Me] \in Opinion
      BY <1>1, <3>1, PageAssumption DEF TablesOK
    <3> QED
      BY <3>1, <3>2, <3>3 DEF MyVotes
  <2>5. PICK got \in Page : got = WithImages(read, f)
    BY <2>3, WithFields, NoPicturesOK
  <2>6. /\ got.own = read.own /\ got.count = read.count /\ got.total = read.total
        /\ got.images = f
    BY <2>3, <2>5, WithFields
  <2>7. Read(c, left \ {s}, got) /\ Reading(c, s)
    BY <1>6, <2>1, <2>2, <2>5
  <2>8. ASSUME call[c].alone, NEW k \in CallRecord, k.got = got, k.reads = left \ {s}
        PROVE  ReadsRight(k)
    <3>1. ReadsRight(call[c]) /\ s \in left
      BY <1>2, <2>7, <2>8, ReadSoFar DEF Reading
    <3>2. /\ k.got.own = (IF "rating" \in k.reads THEN 0 ELSE mealRating[Me])
          /\ k.got.count >= (IF mealRating[Me] = 0 THEN 0 ELSE 1)
          /\ k.got.total >= mealRating[Me]
          /\ "images" \in k.reads => DOMAIN k.got.images = {}
      BY <1>2, <2>1, <2>3, <2>6, <2>8, <3>1 DEF ReadsRight
    <3>3. ASSUME NEW i \in DOMAIN f
          PROVE  LET image == f[i] IN
                 /\ Known(i)
                 /\ Present(i) => image.own = VoteSoFar(left \ {s}, imageRating[i][Me])
                 /\ image.up >= (IF image.own = 1 \/ imageRating[i][Me] = 1 THEN 1 ELSE 0)
                 /\ image.down >= (IF image.own = -1 \/ imageRating[i][Me] = -1 THEN 1 ELSE 0)
      <4>1. PICK old \in Picture, w \in Opinion :
              old = read.images[i] /\ w = imageRating[i][Me]
        BY <2>4
      <4>2. /\ Known(i)
            /\ Present(i) => old.own = VoteSoFar(left, w)
            /\ old.up >= (IF old.own = 1 \/ w = 1 THEN 1 ELSE 0)
            /\ old.down >= (IF old.own = -1 \/ w = -1 THEN 1 ELSE 0)
        BY <1>2, <2>3, <3>1, <4>1 DEF ReadsRight
      <4>3. /\ f[i].up = old.up /\ f[i].down = old.down
            /\ f[i].own = IF w = v /\ (v = 1 \/ old.own # 1) THEN v ELSE old.own
        BY <2>4, <4>1
      <4>4. Present(i) => f[i].own = VoteSoFar(left \ {s}, w)
        BY <2>1, <3>1, <4>2, <4>3 DEF VoteSoFar, Opinion
      <4>5. /\ f[i].up >= (IF f[i].own = 1 \/ w = 1 THEN 1 ELSE 0)
            /\ f[i].down >= (IF f[i].own = -1 \/ w = -1 THEN 1 ELSE 0)
        BY <4>2, <4>3 DEF Picture, Opinion
      <4> QED
        BY <4>1, <4>2, <4>4, <4>5
    <3> QED
      BY <2>6, <2>8, <3>2, <3>3 DEF ReadsRight
  <2> QED
    BY <1>1, <2>7, <2>8, ReadKeeps
<1>7. CASE PersonalUpvote(c)
  <2>1. Read(c, left \ {"upvote"}, WithImages(read, OwnRead(read.images, MyVotes(1), {})))
    BY <1>2, <1>7, QuerySteps
  <2> QED
    BY <1>6, <1>7, <2>1 DEF PersonalUpvote
<1>8. CASE PersonalDownvote(c)
  <2>1. Read(c, left \ {"downvote"}, WithImages(read, OwnRead(read.images, {}, MyVotes(-1))))
    BY <1>2, <1>8, QuerySteps
  <2> QED
    BY <1>6, <1>8, <2>1 DEF PersonalDownvote
<1> QED
  BY <1>3, <1>4, <1>5, <1>7, <1>8

-----------------------------------------------------------------------------
(* The app's own steps keep the opinions shown                             *)

\* A vote on a meal that waits for it makes the meal right.
LEMMA VotedRight ==
  ASSUME NEW p \in Page, NEW i, NEW v \in Opinion, CountsRight(p),
         VotesRight(p, {i}), p.own = mealRating[Me],
         i \in DOMAIN p.images => Known(i) /\ (Present(i) => imageRating[i][Me] = v)
  PROVE  OwnRight(WithVote(p, i, v)) /\ CountsRight(WithVote(p, i, v))
<1>1. CASE i \notin DOMAIN p.images
  BY <1>1, WithVoteFields DEF OwnRight, VotesRight
<1>2. CASE i \in DOMAIN p.images
  <2>1. PICK image \in Picture : image = p.images[i]
    BY <1>2, PageFields
  <2>2. PICK new \in Picture : new = Voted(image, v)
    BY VotedFields
  <2>3. /\ new.own = v
        /\ new.up = image.up + (IF v = 1 THEN 1 ELSE 0) - (IF image.own = 1 THEN 1 ELSE 0)
        /\ new.down = image.down + (IF v = -1 THEN 1 ELSE 0) - (IF image.own = -1 THEN 1 ELSE 0)
    BY <2>2, VotedFields
  <2>4. PICK q \in Page : q = WithPicture(p, i, new)
    BY <1>2, WithPictureFields
  <2>5. /\ q.own = p.own /\ q.count = p.count /\ q.total = p.total
        /\ DOMAIN q.images = DOMAIN p.images /\ q.images[i] = new
        /\ \A j \in DOMAIN p.images \ {i} : q.images[j] = p.images[j]
    BY <1>2, <2>4, WithPictureFields
  <2>6. CountsRight(q)
    <3>1. /\ image.up >= (IF image.own = 1 THEN 1 ELSE 0)
          /\ image.down >= (IF image.own = -1 THEN 1 ELSE 0)
      BY <1>2, <2>1 DEF CountsRight
    <3>2. /\ new.up >= (IF new.own = 1 THEN 1 ELSE 0)
          /\ new.down >= (IF new.own = -1 THEN 1 ELSE 0)
      BY <2>3, <3>1 DEF Picture, Opinion
    <3> QED
      BY <2>5, <3>2 DEF CountsRight, NumbersRight
  <2>7. OwnRight(q)
    BY <1>2, <2>3, <2>5 DEF OwnRight, VotesRight
  <2>8. WithVote(p, i, v) = q
    BY <1>2, <2>1, <2>2, <2>4, WithVoteFields
  <2> QED
    BY <2>6, <2>7, <2>8
<1> QED
  BY <1>1, <1>2

LEMMA WithVotePictures ==
  ASSUME NEW p, NEW q, NEW i, NEW v, p.images = q.images, p \in Page, q \in Page
  PROVE  WithVote(p, i, v).images = WithVote(q, i, v).images
<1>1. CASE i \notin DOMAIN p.images
  BY <1>1 DEF WithVote
<1>2. CASE i \in DOMAIN p.images
  BY <1>2 DEF WithVote, Page
<1> QED
  BY <1>1, <1>2

LEMMA VoteShown ==
  ASSUME TypeOK, OpinionInv, NEW c \in Call, VoteAnswered(c)
  PROVE  OpinionInv'
<1>1. /\ call' = [call EXCEPT ![c] = Idle] /\ call[c].op \in VoteOp /\ call[c].pc = "ok"
      /\ UNCHANGED <<phase, reporters, imageRating, mealRating, link, fresh, trusted>>
      /\ changedRating' = page'.own
  BY DEF VoteAnswered, Answered, At, VoteOp, tables, Notified
<1>2. Changes(c) /\ call[c].op # "setRating"
  BY <1>1 DEF Changes, VoteOp
<1>3. PICK v \in Opinion : ShowVote(c, v) /\ v = VoteOf(call[c].op)
  BY DEF VoteAnswered, Answered, At, Opinion, VoteOf
<1>4. PICK i : i = call[c].img
  OBVIOUS
<1>5. page \in Page /\ plan \in Page
  BY DEF TypeOK, AppOK
<1>6. ASSUME NEW p \in Page, Promise(p, call[c])
      PROVE  OwnRight(WithVote(p, i, v)) /\ CountsRight(WithVote(p, i, v))
  <2>1. CountsRight(p) /\ RightOnceAnswered(p, call[c])
    BY <1>1, <1>6 DEF Promise, Served
  <2>2. /\ VotesRight(p, {i}) /\ p.own = mealRating[Me]
        /\ i \in DOMAIN p.images => Known(i) /\ (Present(i) => imageRating[i][Me] = v)
    BY <1>1, <1>3, <1>4, <2>1 DEF RightOnceAnswered, VoteOp
  <2> QED
    BY <2>1, <2>2, VotedRight
<1>7. PICK q, r \in Page : q = WithVote(page, i, v) /\ r = WithVote(plan, i, v)
  BY <1>5, WithVoteFields
<1>8. /\ page' = IF call[c].onPage THEN q ELSE page
      /\ plan' = IF call[c].onPlan THEN r ELSE plan
  BY <1>3, <1>4, <1>7 DEF ShowVote
<1>9. Promise(page, call[c]) => OwnRight(q) /\ CountsRight(q)
  BY <1>5, <1>6, <1>7
<1>10. Promise(plan, call[c]) => OwnRight(r) /\ CountsRight(r)
  BY <1>5, <1>6, <1>7
<1>11. /\ plan = page => q = r
       /\ plan.images = page.images => q.images = r.images
  BY <1>5, <1>7, WithVotePictures
<1> QED
  BY <1>1, <1>2, <1>7, <1>8, <1>9, <1>10, <1>11, AnswerKeeps

LEMMA ReportShown ==
  ASSUME TypeOK, OpinionInv, NEW c \in Call, ReportAnswered(c)
  PROVE  OpinionInv'
<1>1. /\ call' = [call EXCEPT ![c] = Idle] /\ call[c].op = "reportImage" /\ call[c].pc = "ok"
      /\ UNCHANGED <<phase, reporters, imageRating, mealRating, link, fresh, trusted>>
      /\ changedRating' = page'.own
  BY DEF ReportAnswered, Answered, At, tables, Notified
<1>2. Changes(c)
  BY <1>1 DEF Changes
<1>3. PICK i : i = call[c].img
  OBVIOUS
<1>4. page \in Page /\ plan \in Page
  BY DEF TypeOK, AppOK
<1>5. ASSUME NEW p \in Page, Promise(p, call[c])
      PROVE  OwnRight(WithoutPicture(p, i)) /\ CountsRight(WithoutPicture(p, i))
  <2>1. CountsRight(p) /\ RightOnceAnswered(p, call[c])
    BY <1>1, <1>5 DEF Promise, Served
  <2>2. VotesRight(p, {i}) /\ p.own = mealRating[Me]
    BY <1>1, <1>3, <2>1 DEF RightOnceAnswered, VoteOp
  <2>3. PICK q \in Page : q = WithoutPicture(p, i)
    BY WithoutPictureFields
  <2>4. /\ q.own = p.own /\ q.count = p.count /\ q.total = p.total
        /\ DOMAIN q.images = DOMAIN p.images \ {i}
        /\ \A j \in DOMAIN p.images \ {i} : q.images[j] = p.images[j]
    BY <2>3, WithoutPictureFields
  <2>5. OwnRight(q) /\ CountsRight(q)
    BY <2>1, <2>2, <2>4 DEF OwnRight, VotesRight, CountsRight, NumbersRight
  <2> QED
    BY <2>3, <2>5
<1>6. PICK q, r \in Page : q = WithoutPicture(page, i) /\ r = WithoutPicture(plan, i)
  BY <1>4, WithoutPictureFields
<1>7. /\ page' = IF call[c].onPage THEN q ELSE page
      /\ plan' = IF call[c].onPlan THEN r ELSE plan
  BY <1>3, <1>6 DEF ReportAnswered, ShowReport
<1>8. Promise(page, call[c]) => OwnRight(q) /\ CountsRight(q)
  BY <1>4, <1>5, <1>6
<1>9. Promise(plan, call[c]) => OwnRight(r) /\ CountsRight(r)
  BY <1>4, <1>5, <1>6
<1>10. /\ plan = page => q = r
       /\ plan.images = page.images => q.images = r.images
  BY <1>4, <1>6 DEF WithoutPicture, Page
<1> QED
  BY <1>1, <1>2, <1>6, <1>7, <1>8, <1>9, <1>10, AnswerKeeps

\* The new numbers are those of any meal that waits for them.
LEMMA RatingHeard ==
  ASSUME TypeOK, OpinionInv, NEW c \in Call, RatingAnswered(c)
  PROVE  OpinionInv'
<1>1. /\ call[c].op = "setRating" /\ call[c].pc = "ok"
      /\ UNCHANGED <<phase, reporters, imageRating, mealRating>>
      /\ UNCHANGED <<plan, page, link, fresh, trusted>>
      /\ changedRating' = page.own
  BY DEF RatingAnswered, At, tables, Notified
<1>2. PICK meal \in Page, n \in Nat :
        meal = (IF call[c].onPage THEN page ELSE plan) /\ n = call[c].num
  BY QueryRecord DEF TypeOK, AppOK
<1>3. PICK new \in Page : new = Rated(meal, n)
  BY RatedFields
<1>4. /\ OthersSame(c) /\ SameCall(call[c], call'[c])
      /\ call'[c].pc = "updateMeal" /\ call'[c].got = new
  <2>1. call' = [call EXCEPT ![c] = [@ EXCEPT !.pc = "updateMeal", !.got = new]]
    BY <1>2, <1>3 DEF RatingAnswered
  <2>2. call \in [Call -> CallRecord] /\ call[c] \in CallRecord
    BY DEF TypeOK, AppOK
  <2>3. OthersSame(c)
    BY <2>1, <2>2 DEF OthersSame
  <2>4. call'[c] = [call[c] EXCEPT !.pc = "updateMeal", !.got = new]
    BY <2>1, <2>2
  <2>5. SameCall(call[c], call'[c]) /\ call'[c].pc = "updateMeal" /\ call'[c].got = new
    BY <2>2, <2>4 DEF SameCall, CallRecord
  <2> QED
    BY <2>3, <2>5
<1>5. ASSUME Promise(meal, call[c])
      PROVE  Promise(meal, call[c])'
  <2>1. CountsRight(meal) /\ RightOnceAnswered(meal, call[c])
    BY <1>1, <1>5 DEF Promise, Served
  <2>2. VotesRight(meal, {}) /\ n = mealRating[Me]
    BY <1>1, <1>2, <2>1 DEF RightOnceAnswered, VoteOp
  <2>3. /\ new.own = n /\ new.total = meal.total - meal.own + n
        /\ new.count = (IF meal.own = 0 THEN meal.count + 1 ELSE meal.count)
    BY <1>3, RatedFields
  <2>4. NumbersRight(new)
    BY <2>1, <2>3, PageFields DEF CountsRight, NumbersRight
  <2>5. VotesRight(meal, {})' /\ CountsRight(meal)'
    BY <1>1, <2>1, <2>2, SameTablesQuiet, VotesKept, CountsKept
  <2>6. call'[c].op = "setRating" /\ call'[c].num = n
    BY <1>1, <1>2, <1>4 DEF SameCall
  <2>7. call'[c].got.own = n /\ NumbersRight(call'[c].got)
    BY <1>4, <2>3, <2>4
  <2>8. RightOnceAnswered(meal, call[c])'
    BY <1>1, <2>2, <2>5, <2>6, <2>7 DEF RightOnceAnswered, NumbersRight
  <2> QED
    BY <1>4, <2>5, <2>8 DEF Promise, Served
<1>6. ASSUME call[c].onPage, Promise(page, call[c]) PROVE Promise(page, call[c])'
  <2>1. meal = page /\ meal = page'
    BY <1>1, <1>2, <1>6
  <2>2. Promise(meal, call[c])'
    BY <1>5, <1>6, <2>1
  <2> QED
    BY <2>1, <2>2
<1>7. ASSUME call[c].onPlan, Promise(plan, call[c]) PROVE Promise(plan, call[c])'
  <2>1. call[c].onPage => plan = page
    BY <1>1, <1>7 DEF OpinionInv, LinkInv
  <2>2. meal = plan /\ meal = plan'
    BY <1>1, <1>2, <2>1
  <2>3. Promise(meal, call[c])'
    BY <1>5, <1>7, <2>2
  <2> QED
    BY <2>2, <2>3
<1>8. Changes(c)
  BY <1>1 DEF Changes
<1> QED
  BY <1>1, <1>4, <1>6, <1>7, <1>8, ChangeKeeps

LEMMA RatingShown ==
  ASSUME TypeOK, OpinionInv, NEW c \in Call, ShowRating(c)
  PROVE  OpinionInv'
<1>1. /\ call' = [call EXCEPT ![c] = Idle]
      /\ call[c].op = "setRating" /\ call[c].pc = "updateMeal"
      /\ UNCHANGED <<phase, reporters, imageRating, mealRating, link, fresh, trusted>>
      /\ changedRating' = page'.own
  BY DEF ShowRating, At, tables, Notified
<1>2. Changes(c)
  BY <1>1 DEF Changes
<1>3. PICK got \in Page : got = call[c].got
  BY QueryRecord
<1>4. page \in Page /\ plan \in Page
  BY DEF TypeOK, AppOK
<1>5. ASSUME NEW p \in Page, Promise(p, call[c])
      PROVE  OwnRight(WithNumbers(p, got)) /\ CountsRight(WithNumbers(p, got))
  <2>1. CountsRight(p) /\ RightOnceAnswered(p, call[c])
    BY <1>1, <1>5 DEF Promise, Served
  <2>2. VotesRight(p, {}) /\ got.own = mealRating[Me] /\ NumbersRight(got)
    BY <1>1, <1>3, <2>1 DEF RightOnceAnswered, VoteOp
  <2>3. PICK q \in Page : q = WithNumbers(p, got)
    BY WithNumbersFields
  <2>4. /\ q.own = got.own /\ q.count = got.count /\ q.total = got.total
        /\ q.images = p.images
    BY <2>3, WithNumbersFields
  <2>5. OwnRight(q) /\ CountsRight(q)
    BY <2>1, <2>2, <2>4 DEF OwnRight, VotesRight, CountsRight, NumbersRight
  <2> QED
    BY <2>3, <2>5
<1>6. PICK q, r \in Page : q = WithNumbers(page, got) /\ r = WithNumbers(plan, got)
  BY <1>4, WithNumbersFields
<1>7. /\ page' = IF call[c].onPage THEN q ELSE page
      /\ plan' = IF call[c].onPlan THEN r ELSE plan
  BY <1>3, <1>6 DEF ShowRating
<1>8. Promise(page, call[c]) => OwnRight(q) /\ CountsRight(q)
  BY <1>4, <1>5, <1>6
<1>9. Promise(plan, call[c]) => OwnRight(r) /\ CountsRight(r)
  BY <1>4, <1>5, <1>6
<1>10. q.images = page.images /\ r.images = plan.images /\ (plan = page => q = r)
  BY <1>4, <1>6, WithNumbersFields
<1> QED
  BY <1>1, <1>2, <1>6, <1>7, <1>8, <1>9, <1>10, AnswerKeeps

\* What a query that met no other has read is what is stored.
LEMMA AllRead ==
  ASSUME NEW k, NEW p \in Page, p = k.got, k.reads = {}, ReadsRight(k)
  PROVE  OwnRight(p) /\ CountsRight(p)
<1>1. \A v : VoteSoFar({}, v) = v
  BY DEF VoteSoFar
<1>2. OwnRight(p)
  BY <1>1 DEF ReadsRight, OwnRight, VotesRight
<1>3. ASSUME NEW i \in DOMAIN p.images
      PROVE  /\ p.images[i].up >= (IF p.images[i].own = 1 THEN 1 ELSE 0)
             /\ p.images[i].down >= (IF p.images[i].own = -1 THEN 1 ELSE 0)
  <2>1. PICK w : w = imageRating[i][Me]
    OBVIOUS
  <2>2. PICK image \in Picture : image = p.images[i]
    BY PageFields
  <2>3. /\ image.up >= (IF image.own = 1 \/ w = 1 THEN 1 ELSE 0)
        /\ image.down >= (IF image.own = -1 \/ w = -1 THEN 1 ELSE 0)
    BY <2>1, <2>2 DEF ReadsRight
  <2>4. /\ image.up >= (IF image.own = 1 THEN 1 ELSE 0)
        /\ image.down >= (IF image.own = -1 THEN 1 ELSE 0)
    BY <2>3 DEF Picture
  <2> QED
    BY <2>2, <2>4
<1>4. p.own = mealRating[Me] /\ p.count >= (IF p.own = 0 THEN 0 ELSE 1) /\ p.total >= p.own
  BY DEF ReadsRight
<1> QED
  BY <1>2, <1>3, <1>4 DEF CountsRight, NumbersRight

LEMMA PageRead ==
  ASSUME TypeOK, TypeOK', OpinionInv, NEW c \in Call, PageAnswered(c)
  PROVE  OpinionInv'
<1>0. AloneInv /\ QueryInv /\ LinkInv /\ PlanInv /\ PageInv /\ StarsInv
  BY DEF OpinionInv
<1>1. /\ call[c].op = "refreshMealplan" /\ call[c].pc = "ok"
      /\ UNCHANGED <<phase, reporters, imageRating, mealRating>>
      /\ UNCHANGED <<page, trusted>>
      /\ plan' = call[c].got /\ fresh' = call[c].alone /\ link' = "older"
      /\ changedRating' = page.own
  BY DEF PageAnswered, At, tables, Notified
<1>2. call[c] # Idle /\ ~Changes(c)
  BY <1>1, ChangesUnderWay
<1>3. ASSUME NEW d \in Call
      PROVE  \/ call'[d] = Idle
             \/ /\ d # c /\ call[d] # Idle
                /\ call'[d].op = call[d].op /\ call'[d].alone = call[d].alone
                /\ call'[d].onPlan = FALSE
  <2>1. call'[d] = IF d = c \/ call[d] = Idle THEN Idle
                   ELSE [call[d] EXCEPT !.onPlan = FALSE]
    BY DEF PageAnswered
  <2>2. call[d] \in CallRecord
    BY DEF TypeOK, AppOK
  <2> QED
    BY <2>1, <2>2 DEF CallRecord
<1>4. Idle.op = "none"
  BY DEF Idle
<1>5. AloneInv'
  BY <1>0, <1>3, AloneKept
<1>6. QueryInv'
  <2>1. ASSUME NEW d \in Call, call'[d].op = "refreshMealplan", call'[d].alone PROVE FALSE
    BY <1>0, <1>2, <1>3, <1>4, <2>1, NotAlone
  <2> QED
    BY <2>1 DEF QueryInv
<1>7. LinkInv'
  BY <1>1, <1>3, <1>4 DEF LinkInv
<1>8. PICK p, q \in Page : p = page /\ q = call[c].got
  BY QueryRecord DEF TypeOK, AppOK
<1>9. PlanInv'
  <2> SUFFICES ASSUME call[c].alone PROVE PlanInv'
    BY <1>1 DEF PlanInv
  <2>1. ReadsRight(call[c]) /\ call[c].reads = {}
    BY <1>0, <1>1 DEF QueryInv
  <2>2. OwnRight(q) /\ CountsRight(q)
    BY <1>8, <2>1, AllRead
  <2>3. OwnRight(q)' /\ CountsRight(q)'
    BY <1>1, <2>2, SameTablesQuiet, OwnKept, CountsKept
  <2>4. \A d \in Call : ~Changes(d)'
    BY <1>0, <1>2, <1>3, <1>4, NotAlone DEF Changes
  <2>5. Shows(q)'
    BY <2>3, <2>4, NoneShows
  <2>6. Shows(plan)'
    BY <1>1, <1>8, <2>5
  <2> QED
    BY <2>4, <2>6 DEF PlanInv
<1>10. PageInv'
  <2> SUFFICES ASSUME trusted PROVE PageInv'
    BY <1>1 DEF PageInv
  <2>1. Shows(p)
    BY <1>0, <1>8 DEF PageInv
  <2>2. (\A d \in Call : ~Changes(d)) /\ OwnRight(p) /\ CountsRight(p)
    BY <1>0, <1>1, <2>1, NoneBesideQuery
  <2>3. OwnRight(p)' /\ CountsRight(p)'
    BY <1>1, <2>2, SameTablesQuiet, OwnKept, CountsKept
  <2>4. \A d \in Call : ~Changes(d)'
    BY <1>3, <1>4, <2>2 DEF Changes
  <2>5. Shows(p)'
    BY <2>3, <2>4, NoneShows
  <2>6. Shows(page)'
    BY <1>1, <1>8, <2>5
  <2> QED
    BY <2>4, <2>6 DEF PageInv
<1>11. StarsInv'
  BY <1>1 DEF StarsInv
<1> QED
  BY <1>5, <1>6, <1>7, <1>9, <1>10, <1>11 DEF OpinionInv

LEMMA RefusedKeeps ==
  ASSUME TypeOK, OpinionInv, NEW c \in Call, Refused(c)
  PROVE  OpinionInv'
<1>1. /\ call' = [call EXCEPT ![c] = Idle] /\ call[c].pc = "refused"
      /\ UNCHANGED <<phase, reporters, imageRating, mealRating, link, fresh, trusted>>
      /\ UNCHANGED <<plan, page, changedRating>>
  BY DEF Refused, tables, shown
<1>2. Changes(c) /\ ~Served(call[c])
  BY <1>1, ServedChanges
<1>3. page \in Page /\ plan \in Page
  BY DEF TypeOK, AppOK
<1>4. \A p \in Page : Promise(p, call[c]) => OwnRight(p) /\ CountsRight(p)
  BY <1>2 DEF Promise
<1>5. PICK q, r \in Page : q = page /\ r = plan
  BY <1>3
<1>6. /\ page' = IF call[c].onPage THEN q ELSE page
      /\ plan' = IF call[c].onPlan THEN r ELSE plan
  BY <1>1, <1>5
<1>7. /\ Promise(page, call[c]) => OwnRight(q) /\ CountsRight(q)
      /\ Promise(plan, call[c]) => OwnRight(r) /\ CountsRight(r)
  BY <1>4, <1>5
<1> QED
  BY <1>1, <1>2, <1>5, <1>6, <1>7, AnswerKeeps

LEMMA LoseKeeps ==
  ASSUME TypeOK, TypeOK', OpinionInv, NEW c \in Call, Lose(c)
  PROVE  OpinionInv'
<1>0. AloneInv /\ QueryInv /\ LinkInv /\ PlanInv /\ PageInv /\ StarsInv
  BY DEF OpinionInv
<1>1. /\ call[c] # Idle
      /\ UNCHANGED <<phase, reporters, imageRating, mealRating, shown>>
  BY DEF Lose, tables
<1>2. CASE call[c].op = "refreshMealplan"
  <2>1. call' = [call EXCEPT ![c] = Idle] /\ UNCHANGED <<fresh, trusted>>
    BY <1>2 DEF Lose, TypeOK, AppOK
  <2>2. OthersSame(c) /\ call'[c] = Idle
    BY <2>1, FreeOutcome DEF OthersSame
  <2> QED
    BY <1>1, <1>2, <2>1, <2>2, QueryKeeps
<1>3. CASE call[c].op # "refreshMealplan"
  <2>1. ~trusted' /\ ~fresh'
    BY <1>3 DEF Lose
  <2>2. PICK k \in CallRecord : k = call[c]
    BY DEF TypeOK, AppOK
  <2>3. call'[c] = Idle \/ call'[c] = [k EXCEPT !.heard = FALSE]
    BY <2>2 DEF Lose, TypeOK, AppOK
  <2>4. OthersSame(c)
    BY DEF Lose, OthersSame, TypeOK, AppOK
  <2>5. \/ call'[c] = Idle
        \/ /\ call'[c].op = k.op /\ call'[c].alone = k.alone
           /\ call'[c].onPage = k.onPage /\ call'[c].onPlan = k.onPlan
    BY <2>3 DEF CallRecord
  <2>6. Idle.op = "none" /\ Idle.onPage = TRUE /\ Idle.onPlan = TRUE
    BY DEF Idle
  <2>7. AloneInv'
    BY <1>0, <1>1, <2>2, <2>4, <2>5, AloneKept DEF OthersSame
  <2>8. QueryInv'
    <3>1. call'[c].op # "refreshMealplan"
      BY <1>3, <2>2, <2>5, <2>6
    <3> QED
      BY <1>0, <1>1, <2>4, <3>1, OtherQueriesMet DEF QueryInv
  <2>9. LinkInv'
    <3>1. ASSUME NEW d \in Call
          PROVE  \/ call'[d].op = "none" /\ call'[d].onPage = TRUE /\ call'[d].onPlan = TRUE
                 \/ /\ call'[d].op = call[d].op
                    /\ call'[d].onPage = call[d].onPage /\ call'[d].onPlan = call[d].onPlan
      <4>1. CASE d = c
        BY <2>2, <2>5, <2>6, <4>1
      <4>2. CASE d # c
        BY <2>4, <4>2 DEF OthersSame
      <4> QED
        BY <4>1, <4>2
    <3>2. UNCHANGED <<plan, page, link>>
      BY <1>1 DEF shown
    <3> QED
      BY <1>0, <3>1, <3>2 DEF LinkInv
  <2>10. PlanInv' /\ PageInv' /\ StarsInv'
    BY <2>1 DEF PlanInv, PageInv, StarsInv
  <2> QED
    BY <2>7, <2>8, <2>9, <2>10 DEF OpinionInv
<1> QED
  BY <1>2, <1>3

-----------------------------------------------------------------------------
(* The theorems                                                            *)

LEMMA NextOpinionInv == TypeOK /\ TypeOK' /\ OpinionInv /\ [Next]_vars => OpinionInv'
<1> SUFFICES ASSUME TypeOK, TypeOK', OpinionInv, [Next]_vars PROVE OpinionInv'
  OBVIOUS
<1>1. CASE OtherStep
  BY <1>1, OtherKeeps
<1>2. ASSUME NEW object \in {"same", "copy"}, Open(object) PROVE OpinionInv'
  BY <1>2, OpenKeeps
<1>3. CASE OpenAgain
  BY <1>3, OpenAgainKeeps
<1>4. ASSUME NEW c \in Call, Tap(c) PROVE OpinionInv'
  BY <1>4, TapKeeps
<1>5. ASSUME NEW c \in Call, BackendStep(c) PROVE OpinionInv'
  <2>1. CASE AddUpvote(c)
    <3>1. Vote(c, 1) /\ call[c].op = "addUpvote" /\ call[c].pc = "sent"
      BY <2>1 DEF AddUpvote, At
    <3> QED
      BY <3>1, VoteKeeps
  <2>2. CASE AddDownvote(c)
    <3>1. Vote(c, -1) /\ call[c].op = "addDownvote" /\ call[c].pc = "sent"
      BY <2>2 DEF AddDownvote, At
    <3> QED
      BY <3>1, VoteKeeps
  <2>3. CASE RemoveUpvote(c)
    <3>1. Unvote(c, 1) /\ call[c].op = "removeUpvote" /\ call[c].pc = "sent"
      BY <2>3 DEF RemoveUpvote, At
    <3> QED
      BY <3>1, VoteKeeps
  <2>4. CASE RemoveDownvote(c)
    <3>1. Unvote(c, -1) /\ call[c].op = "removeDownvote" /\ call[c].pc = "sent"
      BY <2>4 DEF RemoveDownvote, At
    <3> QED
      BY <3>1, VoteKeeps
  <2> QED
    BY <1>5, <2>1, <2>2, <2>3, <2>4, SetRatingKeeps, ReportKeeps, QueryReads DEF BackendStep
<1>6. ASSUME NEW c \in Call, AppStep(c) PROVE OpinionInv'
  BY <1>6, VoteShown, ReportShown, RatingHeard, RatingShown, PageRead, RefusedKeeps, LoseKeeps
  DEF AppStep
<1>7. CASE UNCHANGED vars
  <2>1. UNCHANGED <<phase, reporters, imageRating, mealRating>>
    BY <1>7 DEF vars, tables
  <2>2. UNCHANGED <<plan, page, link, changedRating, call, fresh, trusted>>
    BY <1>7 DEF vars, app, shown
  <2> QED
    BY <2>1, <2>2, SameTablesQuiet, QuietKeeps
<1> QED
  BY <1>1, <1>2, <1>3, <1>4, <1>5, <1>6, <1>7 DEF Next

LEMMA AlwaysOpinionInv == Spec => [](TypeOK /\ OpinionInv)
<1>1. Init => TypeOK /\ OpinionInv
  BY InitTypeOK, InitOpinionInv
<1>2. TypeOK /\ OpinionInv /\ [Next]_vars => (TypeOK /\ OpinionInv)'
  BY NextTypeOK, NextOpinionInv
<1> QED
  BY <1>1, <1>2, PTL DEF Spec

\* Whatever the taps, the answers that are lost and the other users, a page
\* opened with a plan that was loaded with no other call under way shows, while
\* nothing is under way, what is stored of this user's own opinions, in the meal and
\* in the stars that were tapped: unless two calls met, an answer was lost, or a
\* call changed another object than the page.
THEOREM ShownOpinionsAreStored == Spec => []OwnOpinionsShown
<1>1. TypeOK /\ OpinionInv => OwnOpinionsShown
  <2> SUFFICES ASSUME TypeOK, OpinionInv, trusted, UnderWay = {}
               PROVE  OwnRight(page) /\ changedRating = page.own
    BY DEF OwnOpinionsShown, OwnRight, VotesRight, Known
  <2>1. \A c \in Call : ~Changes(c)
    BY ChangesUnderWay DEF UnderWay
  <2>2. Shows(page) /\ StarsInv
    BY DEF OpinionInv, PageInv
  <2>3. changedRating = page.own
    BY <2>1, <2>2 DEF StarsInv, Changes
  <2> QED
    BY <2>1, <2>2, <2>3, ShowsNone
<1> QED
  BY <1>1, AlwaysOpinionInv, PTL

\* The counts of a page one trusts contain the user's own vote and rating, also
\* while a call is under way, so that taking one back never shows less than none.
THEOREM CountsContainOwn == Spec => []CountsIncludeOwn
<1>1. OpinionInv => CountsIncludeOwn
  BY DEF OpinionInv, PageInv, Shows, CountsRight, NumbersRight, CountsIncludeOwn
<1> QED
  BY <1>1, AlwaysOpinionInv, PTL

=============================================================================
