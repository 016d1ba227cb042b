-------------------------- MODULE SwKaParserProofs --------------------------
(* For every configuration, every website and every order of the answers:  *)
(* a job changes nothing unless it got and read every page it asked for,   *)
(* what it serves is what its pages say, and the app lists the canteens in *)
(* the order in which they are configured.  The last two are of pages that *)
(* are made as the parser takes them to be.                                *)
EXTENDS SwKaParser, TLAPS, FiniteSetTheorems, WellFoundedInduction

-----------------------------------------------------------------------------
(* Flattening sequences                                                    *)

\* A set of numbers has a least one.
LEMMA LeastNumber ==
  ASSUME NEW T \in SUBSET Nat, T # {}
  PROVE  \E m \in T : \A k \in T : m <= k
<1>1. PICK m \in T : \A k \in T : <<k, m>> \notin OpToRel(<, Nat)
  <2>1. IsWellFoundedOn(OpToRel(<, Nat), Nat)
    BY NatLessThanWellFounded
  <2> QED
    BY <2>1, WFMin
<1>2. \A k \in T : ~(k < m)
  BY <1>1 DEF OpToRel
<1> QED
  BY <1>2

\* f is the concatenations of the first m sequences of s, one by one.
Joined(f, s, m) == f = [i \in 1..m |-> IF i = 1 THEN s[i] ELSE f[i - 1] \o s[i]]

LEMMA JoinedExists ==
    ASSUME NEW s, NEW n \in Nat
    PROVE  \E f : Joined(f, s, n)
<1> DEFINE T == {m \in Nat : ~ \E f : Joined(f, s, m)}
<1> SUFFICES ASSUME T # {} PROVE FALSE
  OBVIOUS
<1>1. PICK m \in T : \A k \in T : m <= k
  BY LeastNumber
<1>2. m # 0
  <2>1. Joined([i \in 1..0 |-> 0], s, 0)
    BY DEF Joined
  <2> QED
    BY <2>1
<1>3. m - 1 \in Nat /\ m - 1 \notin T
  BY <1>1, <1>2
<1>4. PICK g : Joined(g, s, m - 1)
  BY <1>3
<1> DEFINE last == IF m = 1 THEN s[m] ELSE g[m - 1] \o s[m]
           f == [i \in 1..m |-> IF i = m THEN last ELSE g[i]]
<1>5. Joined(f, s, m)
  <2>1. ASSUME NEW i \in 1..m
        PROVE  f[i] = IF i = 1 THEN s[i] ELSE f[i - 1] \o s[i]
    <3>1. CASE i = m
      <4>1. i # 1 => i - 1 \in 1..m /\ i - 1 # m
        BY <1>1, <3>1
      <4> QED
        BY <3>1, <4>1
    <3>2. CASE i # m
      <4>1. i \in 1..(m - 1) /\ i \in 1..m
        BY <1>1, <3>2
      <4>2. i # 1 => i - 1 \in 1..m /\ i - 1 # m
        BY <1>1, <3>2
      <4>3. g[i] = IF i = 1 THEN s[i] ELSE g[i - 1] \o s[i]
        BY <1>4, <4>1 DEF Joined
      <4> QED
        BY <3>2, <4>1, <4>2, <4>3
    <3> QED
      BY <3>1, <3>2
  <2> QED
    BY <2>1 DEF Joined
<1> QED
  BY <1>1, <1>5

\* Sequences put together are a sequence.
LEMMA FlattenedIsSeq ==
    ASSUME NEW E, NEW n \in Nat, NEW s \in [1..n -> Seq(E)]
    PROVE  FlattenSeq(s) \in Seq(E)
<1>1. s \in Seq(Seq(E)) /\ Len(s) = n
  OBVIOUS
<1>2. CASE n = 0
  BY <1>1, <1>2 DEF FlattenSeq
<1>3. CASE n # 0
  <2> DEFINE f == CHOOSE g : Joined(g, s, n)
             T == {m \in 1..n : f[m] \notin Seq(E)}
  <2>1. FlattenSeq(s) = f[n]
    BY <1>1, <1>3, Zenon DEF FlattenSeq, Joined
  <2>2. Joined(f, s, n)
    BY JoinedExists
  <2> HIDE DEF f
  <2>3. T = {}
    <3> SUFFICES ASSUME T # {} PROVE FALSE
      OBVIOUS
    <3>1. PICK m \in T : \A k \in T : m <= k
      <4>1. T \in SUBSET Nat
        OBVIOUS
      <4> QED
        BY <4>1, LeastNumber
    <3>2. f[m] = IF m = 1 THEN s[m] ELSE f[m - 1] \o s[m]
      BY <2>2, <3>1 DEF Joined
    <3>3. m # 1 => m - 1 \in 1..n /\ m - 1 \notin T
      BY <3>1
    <3>4. m # 1 => f[m - 1] \in Seq(E)
      BY <3>3
    <3>5. s[m] \in Seq(E)
      BY <3>1
    <3>6. \A u, v \in Seq(E) : u \o v \in Seq(E)
      OBVIOUS
    <3>7. f[m] \in Seq(E)
      BY <3>2, <3>4, <3>5, <3>6
    <3> QED
      BY <3>1, <3>7
  <2> QED
    BY <1>3, <2>1, <2>3
<1> QED
  BY <1>2, <1>3

-----------------------------------------------------------------------------
(* The inductive invariant: the answers belong to different urls, and the  *)
(* documents are those of all urls, read up to the position.               *)

IsSeq(s) == s \in Seq({s[i] : i \in DOMAIN s})

JobFields == DOMAIN Idle

JobHasShape == job = [x \in JobFields |-> job[x]]

AnswersApart ==
    job.pc = "get_html_strings" =>
        /\ IsSeq(job.urls) /\ IsSeq(job.answers) /\ job.position = 0
        /\ \A k \in DOMAIN job.answers : job.answers[k].url \in DOMAIN job.urls
        /\ \A j, k \in DOMAIN job.answers :
              job.answers[j].url = job.answers[k].url => j = k

DocumentsRead ==
    job.pc \in {"transform", "start_resolving"} =>
        /\ IsSeq(job.docs) /\ Len(job.docs) = Len(job.urls)
        /\ job.position \in 0..Len(job.docs)
        /\ \A i \in 1..job.position : job.docs[i].root
        /\ job.pc = "start_resolving" => job.position = Len(job.docs)

JobInv == JobHasShape /\ AnswersApart /\ DocumentsRead

LEMMA JobFieldNames ==
    JobFields = {"pc", "kind", "today", "urls", "answers", "docs", "position", "map", "date",
                 "todo"}
BY DEF JobFields, Idle

\* The steps of the invariant, one per action.
LEMMA IdleInv == ASSUME job' = Idle PROVE JobInv'
BY JobFieldNames DEF Idle, JobInv, JobHasShape, AnswersApart, DocumentsRead

LEMMA Sequential == ASSUME NEW E, NEW s \in Seq(E) PROVE IsSeq(s)
<1>1. s = [i \in 1..Len(s) |-> s[i]] /\ Len(s) \in Nat /\ DOMAIN s = 1..Len(s)
  OBVIOUS
<1> QED
  BY <1>1 DEF IsSeq

\* Both jobs ask for a list of urls.
LEMMA UrlsAreSeq == \A today : IsSeq(GetUrls(today)) /\ IsSeq(GetAllUrls(today))
<1> TAKE today
<1> DEFINE E == {<<Canteens[i], CalendarWeek(d)>> : i \in DOMAIN Canteens,
                    d \in {today} \cup {today + DaysPerWeek * (w - 1) : w \in 1..WeeksToPoll}}
<1>1. Canteens \in Seq({Canteens[i] : i \in DOMAIN Canteens}) /\ WeeksToPoll \in Nat
  BY LinksAssumption DEF Range
<1>2. ASSUME NEW d \in {today} \cup {today + DaysPerWeek * (w - 1) : w \in 1..WeeksToPoll}
      PROVE  GetUrls(d) \in Seq(E)
  <2>1. DOMAIN Canteens = 1..Len(Canteens) /\ Len(Canteens) \in Nat
    BY <1>1
  <2>2. \A i \in DOMAIN Canteens : <<Canteens[i], CalendarWeek(d)>> \in E
    OBVIOUS
  <2> HIDE DEF E
  <2> QED
    BY <2>1, <2>2 DEF GetUrls
<1>3. [w \in 1..WeeksToPoll |-> GetUrls(today + DaysPerWeek * (w - 1))]
        \in [1..WeeksToPoll -> Seq(E)]
  BY <1>2
<1>4. GetAllUrls(today) \in Seq(E)
  <2> HIDE DEF E
  <2> QED
    BY <1>1, <1>3, FlattenedIsSeq DEF GetAllUrls
<1> QED
  BY <1>2, <1>4, Sequential

LEMMA RequestKeeps == ASSUME NEW kind, NEW today, NEW urls, IsSeq(urls),
                             Request(kind, today, urls)
                      PROVE  JobInv'
<1>1. job' = [Idle EXCEPT !.pc = "get_html_strings", !.kind = kind, !.today = today,
                          !.urls = urls]
  BY DEF Request
<1>2. JobHasShape'
  BY <1>1, JobFieldNames DEF Idle, JobHasShape
<1>3. job'.pc = "get_html_strings" /\ job'.urls = urls /\ job'.answers = <<>>
      /\ job'.position = 0
  BY <1>1 DEF Idle
<1>4. IsSeq(<<>>)
  BY DEF IsSeq
<1> QED
  BY <1>2, <1>3, <1>4 DEF JobInv, AnswersApart, DocumentsRead

LEMMA AnswerKeeps ==
    ASSUME JobInv, NEW i \in Unanswered, NEW doc, job.pc = "get_html_strings",
           job' = [job EXCEPT !.answers = Append(@, [url |-> i, doc |-> doc])]
    PROVE  JobInv'
<1> DEFINE new == [url |-> i, doc |-> doc]
           old == job.answers
<1>1. JobHasShape' /\ job'.pc = "get_html_strings" /\ job'.urls = job.urls
      /\ job'.answers = Append(old, new) /\ job'.position = job.position
  BY JobFieldNames DEF JobInv, JobHasShape
<1>2. /\ IsSeq(job.urls) /\ IsSeq(old) /\ job.position = 0
      /\ \A k \in DOMAIN old : old[k].url \in DOMAIN job.urls
      /\ \A j, k \in DOMAIN old : old[j].url = old[k].url => j = k
  BY DEF JobInv, AnswersApart
<1>3. i \in DOMAIN job.urls /\ \A k \in DOMAIN old : old[k].url # i
  BY DEF Unanswered
<1>4. new.url = i
  OBVIOUS
<1> HIDE DEF new, old
<1>5. PICK E : old \in Seq(E)
  BY <1>2 DEF IsSeq
<1>6. /\ Append(old, new) \in Seq(E \cup {new})
      /\ DOMAIN Append(old, new) = 1..(Len(old) + 1) /\ DOMAIN old = 1..Len(old)
      /\ Len(old) \in Nat
      /\ \A k \in 1..Len(old) : Append(old, new)[k] = old[k]
      /\ Append(old, new)[Len(old) + 1] = new
  BY <1>5
<1>7. IsSeq(Append(old, new))
  BY <1>6, Sequential
<1>8. \A k \in DOMAIN Append(old, new) : Append(old, new)[k].url \in DOMAIN job.urls
  BY <1>2, <1>3, <1>4, <1>6
<1>9. \A j, k \in DOMAIN Append(old, new) :
        Append(old, new)[j].url = Append(old, new)[k].url => j = k
  BY <1>2, <1>3, <1>4, <1>6
<1>10. AnswersApart'
  <2>1. IsSeq(job'.urls) /\ IsSeq(job'.answers)
    BY <1>1, <1>2, <1>7
  <2>2. /\ \A k \in DOMAIN job'.answers : job'.answers[k].url \in DOMAIN job'.urls
        /\ \A j, k \in DOMAIN job'.answers :
              job'.answers[j].url = job'.answers[k].url => j = k
    BY <1>1, <1>8, <1>9
  <2> QED
    BY <1>1, <1>2, <2>1, <2>2 DEF AnswersApart
<1> QED
  BY <1>1, <1>10 DEF JobInv, DocumentsRead

\* As many answers as urls, when every url has its answer and no two answers are to one.
LEMMA AsManyAnswers ==
    ASSUME JobInv, job.pc = "get_html_strings", Unanswered = {}
    PROVE  Len(job.answers) = Len(job.urls) /\ Len(job.urls) \in Nat
<1> DEFINE m == Len(job.answers)
           n == Len(job.urls)
           f == [k \in 1..m |-> job.answers[k].url]
<1>1. /\ m \in Nat /\ n \in Nat
      /\ DOMAIN job.answers = 1..m /\ DOMAIN job.urls = 1..n
  BY DEF JobInv, AnswersApart, IsSeq
<1>2. f \in Bijection(1..m, 1..n)
  <2>1. f \in [1..m -> 1..n]
    BY <1>1 DEF JobInv, AnswersApart
  <2>2. \A j, k \in 1..m : f[j] = f[k] => j = k
    BY <1>1 DEF JobInv, AnswersApart
  <2>3. \A i \in 1..n : \E k \in 1..m : f[k] = i
    BY <1>1 DEF Unanswered
  <2> HIDE DEF f, m, n
  <2> QED
    BY <2>1, <2>2, <2>3 DEF Bijection, Injection, Surjection, IsInjective
<1> HIDE DEF m, n, f
<1>3. Cardinality(1..m) = m /\ Cardinality(1..n) = n /\ IsFiniteSet(1..m)
  BY <1>1, FS_Interval
<1>4. Cardinality(1..m) = Cardinality(1..n)
  BY <1>2, <1>3, FS_Bijection DEF ExistsBijection
<1> QED
  BY <1>1, <1>3, <1>4 DEF m, n

LEMMA GetHtmlStringsKeeps == ASSUME JobInv, GetHtmlStrings PROVE JobInv'
<1> DEFINE docs == Documents(job.answers)
<1>1. CASE job' = Idle
  BY <1>1, IdleInv
<1>2. CASE job' = [job EXCEPT !.pc = "transform", !.answers = <<>>, !.docs = docs]
  <2>1. job.pc = "get_html_strings" /\ Unanswered = {}
    BY DEF GetHtmlStrings
  <2>2. Len(job.answers) = Len(job.urls) /\ Len(job.urls) \in Nat
    BY <2>1, AsManyAnswers
  <2>3. DOMAIN job.answers = 1..Len(job.urls)
    BY <2>1, <2>2 DEF JobInv, AnswersApart, IsSeq
  <2>4. IsSeq(docs) /\ Len(docs) = Len(job.urls)
    <3>1. docs = [i \in 1..Len(job.urls) |-> docs[i]]
      BY <2>3 DEF Documents
    <3> HIDE DEF docs
    <3> QED
      BY <2>2, <3>1 DEF IsSeq
  <2> HIDE DEF docs
  <2>5. JobHasShape' /\ job'.pc = "transform" /\ job'.urls = job.urls /\ job'.docs = docs
        /\ job'.position = job.position
    BY <1>2, JobFieldNames DEF JobInv, JobHasShape
  <2>6. job'.position = 0
    BY <2>1, <2>5 DEF JobInv, AnswersApart
  <2> QED
    BY <2>2, <2>4, <2>5, <2>6 DEF JobInv, AnswersApart, DocumentsRead
<1> QED
  BY <1>1, <1>2 DEF GetHtmlStrings

LEMMA ParseAndSortKeeps == ASSUME JobInv, ParseAndSort PROVE JobInv'
<1> DEFINE pos == job.position
           parsed == Transform(job.docs[pos + 1], pos)
<1>1. CASE parsed = None
  BY <1>1, IdleInv DEF ParseAndSort
<1>2. CASE parsed # None
  <2>1. job.docs[pos + 1].root
    BY <1>2 DEF Transform
  <2>2. job.pc = "transform" /\ pos < Len(job.docs)
        /\ job' = [job EXCEPT !.position = pos + 1, !.map = @ \o parsed]
    BY <1>2 DEF ParseAndSort
  <2> HIDE DEF parsed
  <2>3. JobHasShape' /\ job'.pc = "transform" /\ job'.urls = job.urls /\ job'.docs = job.docs
        /\ job'.position = pos + 1
    BY <2>2, JobFieldNames DEF JobInv, JobHasShape
  <2>4. /\ IsSeq(job.docs) /\ Len(job.docs) = Len(job.urls)
        /\ pos \in 0..Len(job.docs) /\ Len(job.docs) \in Nat
        /\ \A i \in 1..pos : job.docs[i].root
    BY <2>2 DEF JobInv, DocumentsRead, IsSeq
  <2>5. pos + 1 \in 0..Len(job.docs) /\ \A i \in 1..(pos + 1) : job.docs[i].root
    BY <2>1, <2>2, <2>4
  <2> QED
    BY <2>3, <2>4, <2>5 DEF JobInv, AnswersApart, DocumentsRead
<1> QED
  BY <1>1, <1>2

\* A step that touches neither the urls nor the documents.
LEMMA DocumentsStay ==
    ASSUME JobInv, job.pc \in {"transform", "start_resolving"}, JobHasShape',
           job'.pc = "start_resolving", job'.urls = job.urls, job'.docs = job.docs,
           job'.position = job.position, job.position = Len(job.docs)
    PROVE  JobInv'
BY DEF JobInv, AnswersApart, DocumentsRead

LEMMA StartResolvingKeeps == ASSUME JobInv, StartResolving PROVE JobInv'
<1>1. PICK m : job' = [job EXCEPT !.pc = "start_resolving", !.map = m]
  BY Zenon DEF StartResolving
<1>2. job.pc = "transform" /\ job.position = Len(job.docs)
  BY Zenon DEF StartResolving
<1>3. /\ JobHasShape' /\ job'.pc = "start_resolving" /\ job'.urls = job.urls
      /\ job'.docs = job.docs /\ job'.position = job.position
  BY <1>1, JobFieldNames DEF JobInv, JobHasShape
<1> QED
  BY <1>2, <1>3, DocumentsStay

\* While the plans are resolved.
GoesOn(date, todo, map) == job' = [job EXCEPT !.date = date, !.todo = todo, !.map = map]

LEMMA ResolvingKeeps ==
    ASSUME JobInv, NEW date, NEW todo, NEW map, job.pc = "start_resolving",
           GoesOn(date, todo, map)
    PROVE  JobInv'
<1>1. /\ JobHasShape' /\ job'.pc = "start_resolving" /\ job'.urls = job.urls
      /\ job'.docs = job.docs /\ job'.position = job.position
  BY JobFieldNames DEF JobInv, JobHasShape, GoesOn
<1> QED
  BY <1>1, DocumentsStay DEF JobInv, DocumentsRead

LEMMA OnlyTodo ==
    ASSUME JobHasShape, NEW todo, job' = [job EXCEPT !.todo = todo]
    PROVE  GoesOn(job.date, todo, job.map)
BY JobFieldNames DEF JobHasShape, GoesOn

LEMMA NextDateKeeps == ASSUME JobInv, NEW d, NextDate(d) PROVE JobInv'
<1>1. PICK todo, map : GoesOn(d, todo, map)
  BY Zenon DEF NextDate, GoesOn
<1>2. job.pc = "start_resolving"
  BY Zenon DEF NextDate
<1> QED
  BY <1>1, <1>2, ResolvingKeeps

LEMMA ResolveKeeps == ASSUME JobInv, Resolve \/ ResolveWithErrors PROVE JobInv'
<1>1. job.pc = "start_resolving" /\ job' = [job EXCEPT !.todo = Tail(job.todo)]
  BY DEF Resolve, ResolveWithErrors
<1>2. GoesOn(job.date, Tail(job.todo), job.map)
  BY <1>1, OnlyTodo DEF JobInv
<1> QED
  BY <1>1, <1>2, ResolvingKeeps

LEMMA NextJobInv == JobInv /\ [Next]_vars => JobInv'
<1> SUFFICES ASSUME JobInv, [Next]_vars PROVE JobInv'
  OBVIOUS
<1>1. CASE StartUpdateParsing \/ StartFullParsing
  BY <1>1, UrlsAreSeq, RequestKeeps DEF StartUpdateParsing, StartFullParsing
<1>2. CASE \E i \in Unanswered : GetHtml(i) \/ Timeout(i)
  BY <1>2, AnswerKeeps DEF GetHtml, Timeout
<1>3. CASE GetHtmlStrings
  BY <1>3, GetHtmlStringsKeeps
<1>4. CASE ParseAndSort
  BY <1>4, ParseAndSortKeeps
<1>5. CASE StartResolving
  BY <1>5, StartResolvingKeeps
<1>6. CASE \E d : NextDate(d)
  BY <1>6, NextDateKeeps
<1>7. CASE Resolve \/ ResolveWithErrors
  BY <1>7, ResolveKeeps
<1>8. CASE Finish
  BY <1>8, IdleInv DEF Finish
<1>9. CASE UNCHANGED vars
  BY <1>9 DEF vars, JobInv, JobHasShape, AnswersApart, DocumentsRead
<1> QED
  BY <1>1, <1>2, <1>3, <1>4, <1>5, <1>6, <1>7, <1>8, <1>9 DEF Next, Work

\* The tables change only while plans are resolved.
LEMMA OnlyResolvingChanges ==
    JobInv /\ [Next]_vars =>
        (tables' # tables => /\ Len(job.docs) = Len(job.urls)
                             /\ \A i \in DOMAIN job.docs : job.docs[i].root)
<1> SUFFICES ASSUME JobInv, [Next]_vars, tables' # tables
             PROVE  /\ Len(job.docs) = Len(job.urls)
                    /\ \A i \in DOMAIN job.docs : job.docs[i].root
  OBVIOUS
<1>1. ~(StartUpdateParsing \/ StartFullParsing)
  BY DEF StartUpdateParsing, StartFullParsing, Request
<1>2. ~(GetHtmlStrings \/ ParseAndSort \/ Finish)
  BY Zenon DEF GetHtmlStrings, ParseAndSort, Finish
<1>3. ~(\E i \in Unanswered : GetHtml(i) \/ Timeout(i))
  BY DEF GetHtml, Timeout
<1>4. ~StartResolving /\ \A d : ~NextDate(d)
  BY Zenon DEF StartResolving, NextDate
<1>5. tables' # tables => ~UNCHANGED vars
  BY DEF vars, tables
<1>6. Resolve \/ ResolveWithErrors
  BY <1>1, <1>2, <1>3, <1>4, <1>5 DEF Next, Work
<1>7. job.pc = "start_resolving"
  BY <1>6 DEF Resolve, ResolveWithErrors
<1> QED
  BY <1>7 DEF JobInv, DocumentsRead, IsSeq

\* For every configuration, every website and every order of the answers: a job changes
\* nothing unless it got every page it asked for and every page could be read.
THEOREM NothingFromHalf == Spec => NothingFromHalfAWebsite
<1>1. Init => JobInv
  BY JobFieldNames DEF Init, Idle, JobInv, JobHasShape, AnswersApart, DocumentsRead
<1> QED
  BY <1>1, NextJobInv, OnlyResolvingChanges, PTL DEF Spec, NothingFromHalfAWebsite

-----------------------------------------------------------------------------
(* Filtering sequences: what Only keeps, and in which order                *)

\* kept holds what Only keeps of the first k elements, for every k.
Kept(f, s, S, n) ==
    f = [k \in 0..n |-> IF k = 0 THEN <<>>
                        ELSE IF s[k] \in S THEN Append(f[k - 1], s[k]) ELSE f[k - 1]]

\* There is such a function for every sequence.
LEMMA KeptExists ==
    ASSUME NEW s, NEW S, NEW n \in Nat
    PROVE  \E f : Kept(f, s, S, n)
<1> DEFINE T == {m \in Nat : ~ \E f : Kept(f, s, S, m)}
<1> SUFFICES ASSUME T # {} PROVE FALSE
  OBVIOUS
<1>1. PICK m \in T : \A k \in T : m <= k
  BY LeastNumber
<1>2. m # 0
  <2>1. Kept([k \in 0..0 |-> <<>>], s, S, 0)
    BY DEF Kept
  <2> QED
    BY <2>1
<1>3. m - 1 \in Nat /\ m - 1 \notin T
  BY <1>1, <1>2
<1>4. PICK g : Kept(g, s, S, m - 1)
  BY <1>3
<1> DEFINE last == IF s[m] \in S THEN Append(g[m - 1], s[m]) ELSE g[m - 1]
           f == [k \in 0..m |-> IF k = m THEN last ELSE g[k]]
<1>5. Kept(f, s, S, m)
  <2>1. ASSUME NEW k \in 0..m
        PROVE  f[k] = IF k = 0 THEN <<>>
                      ELSE IF s[k] \in S THEN Append(f[k - 1], s[k]) ELSE f[k - 1]
    <3>1. CASE k = m
      <4>1. k # 0 /\ k - 1 \in 0..m /\ k - 1 # m
        BY <1>1, <1>2, <3>1
      <4> QED
        BY <3>1, <4>1
    <3>2. CASE k # m
      <4>1. k \in 0..(m - 1) /\ (k # 0 => k - 1 \in 0..m /\ k - 1 # m)
        BY <1>1, <3>2
      <4>2. g[k] = IF k = 0 THEN <<>>
                   ELSE IF s[k] \in S THEN Append(g[k - 1], s[k]) ELSE g[k - 1]
        BY <1>4, <4>1 DEF Kept
      <4>3. f[k] = g[k] /\ (k # 0 => f[k - 1] = g[k - 1])
        BY <3>2, <4>1
      <4> HIDE DEF f
      <4> QED
        BY <4>2, <4>3
    <3> QED
      BY <3>1, <3>2
  <2> QED
    BY <2>1 DEF Kept
<1> QED
  BY <1>1, <1>5

\* t consists of the elements of S among the first n elements of s, which stand
\* at the places h, in their order.
Picks(h, s, S, n, t) ==
    /\ \A i \in 1..Len(t) : h[i] \in 1..n /\ t[i] = s[h[i]] /\ s[h[i]] \in S
    /\ \A i, j \in 1..Len(t) : i < j => h[i] < h[j]
    /\ \A k \in 1..n : s[k] \in S => \E i \in 1..Len(t) : h[i] = k

\* One more element is kept.
LEMMA PickOne ==
    ASSUME NEW E, NEW s, NEW S, NEW n \in Nat \ {0}, NEW t \in Seq(E), NEW h, NEW x, x \in S,
           x = s[n], Picks(h, s, S, n - 1, t)
    PROVE  \E g : Picks(g, s, S, n, Append(t, x))
<1> DEFINE g == [i \in 1..(Len(t) + 1) |-> IF i = Len(t) + 1 THEN n ELSE h[i]]
           u == Append(t, x)
<1>1. Len(t) \in Nat /\ Len(u) = Len(t) + 1 /\ u[Len(t) + 1] = x
      /\ \A i \in 1..Len(t) : u[i] = t[i]
  OBVIOUS
<1>2. g[Len(t) + 1] = n /\ \A i \in 1..Len(t) : g[i] = h[i]
  BY <1>1
<1> HIDE DEF g, u
<1>3. /\ \A i \in 1..Len(t) : h[i] \in 1..(n - 1) /\ t[i] = s[h[i]] /\ s[h[i]] \in S
      /\ \A i, j \in 1..Len(t) : i < j => h[i] < h[j]
      /\ \A k \in 1..(n - 1) : s[k] \in S => \E i \in 1..Len(t) : h[i] = k
  BY DEF Picks
<1>4. \A i \in 1..Len(u) : g[i] \in 1..n /\ u[i] = s[g[i]] /\ s[g[i]] \in S
  BY <1>1, <1>2, <1>3
<1>5. \A i, j \in 1..Len(u) : i < j => g[i] < g[j]
  <2> SUFFICES ASSUME NEW i \in 1..Len(u), NEW j \in 1..Len(u), i < j PROVE g[i] < g[j]
    OBVIOUS
  <2>1. i \in 1..Len(t)
    BY <1>1
  <2>4. g[i] = h[i] /\ h[i] \in 1..(n - 1)
    BY <1>2, <1>3, <2>1
  <2>2. CASE j = Len(t) + 1
    BY <1>2, <2>4, <2>2
  <2>3. CASE j # Len(t) + 1
    <3>1. j \in 1..Len(t)
      BY <1>1, <2>3
    <3>2. g[j] = h[j]
      BY <1>2, <3>1
    <3>3. h[i] < h[j]
      BY <1>3, <2>1, <3>1
    <3> QED
      BY <2>4, <3>2, <3>3
  <2> QED
    BY <2>2, <2>3
<1>6. \A k \in 1..n : s[k] \in S => \E i \in 1..Len(u) : g[i] = k
  <2> SUFFICES ASSUME NEW k \in 1..n, s[k] \in S PROVE \E i \in 1..Len(u) : g[i] = k
    OBVIOUS
  <2>1. CASE k = n
    BY <1>1, <1>2, <2>1
  <2>2. CASE k # n
    <3>1. PICK i \in 1..Len(t) : h[i] = k
      BY <1>3, <2>2
    <3> QED
      BY <1>1, <1>2, <3>1
  <2> QED
    BY <2>1, <2>2
<1> QED
  BY <1>4, <1>5, <1>6 DEF Picks, u

\* One more element is left out.
LEMMA PickNone ==
    ASSUME NEW E, NEW s, NEW S, NEW n \in Nat \ {0}, NEW t \in Seq(E), NEW h, s[n] \notin S,
           Picks(h, s, S, n - 1, t)
    PROVE  Picks(h, s, S, n, t)
<1>1. \A i \in 1..Len(t) : h[i] \in 1..n
  BY DEF Picks
<1>2. \A k \in 1..n : s[k] \in S => \E i \in 1..Len(t) : h[i] = k
  <2> SUFFICES ASSUME NEW k \in 1..n, s[k] \in S PROVE \E i \in 1..Len(t) : h[i] = k
    OBVIOUS
  <2>1. k \in 1..(n - 1)
    OBVIOUS
  <2> QED
    BY <2>1 DEF Picks
<1> QED
  BY <1>1, <1>2 DEF Picks

\* Only keeps the elements of s at some places of s, in their order.
LEMMA OnlyPicks ==
    ASSUME NEW E, NEW s \in Seq(E), NEW S
    PROVE  Only(s, S) \in Seq(E) /\ \E h : Picks(h, s, S, Len(s), Only(s, S))
<1> DEFINE n == Len(s)
           f == CHOOSE g : Kept(g, s, S, n)
           Good(k) == f[k] \in Seq(E) /\ \E h : Picks(h, s, S, k, f[k])
           T == {k \in 0..n : ~Good(k)}
<1>1. n \in Nat /\ \A k \in 1..n : s[k] \in E
  OBVIOUS
<1>2. Only(s, S) = f[n]
  BY Zenon DEF Only, Kept
<1>3. Kept(f, s, S, n)
  BY <1>1, KeptExists
<1> HIDE DEF f, n
<1>4. T = {}
  <2> SUFFICES ASSUME T # {} PROVE FALSE
    OBVIOUS
  <2>1. PICK k \in T : \A j \in T : k <= j
    <3>1. T \in SUBSET Nat
      OBVIOUS
    <3> HIDE DEF T
    <3> QED
      BY <3>1, LeastNumber
  <2>2. f[k] = IF k = 0 THEN <<>>
               ELSE IF s[k] \in S THEN Append(f[k - 1], s[k]) ELSE f[k - 1]
    BY <1>3 DEF Kept
  <2>3. CASE k = 0
    <3>1. f[k] = <<>>
      BY <2>2, <2>3
    <3>2. Picks(<<>>, s, S, 0, <<>>) /\ <<>> \in Seq(E)
      BY DEF Picks
    <3>3. Good(k)
      BY <2>3, <3>1, <3>2
    <3> QED
      BY <2>1, <3>3
  <2>4. CASE k # 0
    <3>1. k - 1 \in 0..n /\ k \in Nat \ {0} /\ k \in 1..n
      BY <1>1, <2>4
    <3>2. Good(k - 1)
      BY <2>1, <3>1
    <3>3. PICK h : Picks(h, s, S, k - 1, f[k - 1])
      BY <3>2
    <3>4. CASE s[k] \in S
      <4>1. f[k] = Append(f[k - 1], s[k])
        BY <2>2, <2>4, <3>4
      <4>2. \E g : Picks(g, s, S, k, Append(f[k - 1], s[k]))
        BY <3>1, <3>2, <3>3, <3>4, PickOne
      <4>3. Append(f[k - 1], s[k]) \in Seq(E)
        BY <1>1, <3>1, <3>2
      <4> QED
        BY <2>1, <4>1, <4>2, <4>3
    <3>5. CASE s[k] \notin S
      <4>1. f[k] = f[k - 1]
        BY <2>2, <2>4, <3>5
      <4>2. Picks(h, s, S, k, f[k - 1])
        BY <3>1, <3>2, <3>3, <3>5, PickNone
      <4> QED
        BY <2>1, <3>2, <4>1, <4>2
    <3> QED
      BY <3>4, <3>5
  <2> QED
    BY <2>3, <2>4
<1>5. Good(n)
  BY <1>1, <1>4
<1> QED
  BY <1>2, <1>5 DEF n

\* The elements that are kept.
LEMMA OnlyRange ==
    ASSUME NEW E, NEW s \in Seq(E), NEW S
    PROVE  Range(Only(s, S)) = Range(s) \cap S
<1> DEFINE t == Only(s, S)
<1>1. t \in Seq(E) /\ \E h : Picks(h, s, S, Len(s), t)
  BY OnlyPicks
<1> HIDE DEF t
<1>2. PICK h : Picks(h, s, S, Len(s), t)
  BY <1>1
<1>3. DOMAIN t = 1..Len(t) /\ DOMAIN s = 1..Len(s)
  BY <1>1
<1>4. \A i \in DOMAIN t : h[i] \in DOMAIN s /\ t[i] = s[h[i]] /\ s[h[i]] \in S
  BY <1>2, <1>3 DEF Picks
<1>5. \A k \in DOMAIN s : s[k] \in S => \E i \in DOMAIN t : h[i] = k
  BY <1>2, <1>3 DEF Picks
<1>6. Range(t) = Range(s) \cap S
  BY <1>4, <1>5 DEF Range
<1> QED
  BY <1>6 DEF t

\* What stands after an element that is kept stood after it before.
LEMMA OnlyLast ==
    ASSUME NEW E, NEW s \in Seq(E), NEW S, NEW m \in DOMAIN s, s[m] \in S
    PROVE  \E i \in DOMAIN Only(s, S) :
              /\ Only(s, S)[i] = s[m]
              /\ \A j \in DOMAIN Only(s, S) :
                    j > i => \E k \in DOMAIN s : k > m /\ Only(s, S)[j] = s[k]
<1> DEFINE t == Only(s, S)
<1>1. t \in Seq(E) /\ \E h : Picks(h, s, S, Len(s), t)
  BY OnlyPicks
<1> HIDE DEF t
<1>2. PICK h : Picks(h, s, S, Len(s), t)
  BY <1>1
<1>3. DOMAIN t = 1..Len(t) /\ DOMAIN s = 1..Len(s) /\ Len(t) \in Nat /\ Len(s) \in Nat
  BY <1>1
<1>4. PICK i \in 1..Len(t) : h[i] = m
  BY <1>2, <1>3 DEF Picks
<1>5. t[i] = s[m]
  BY <1>2, <1>4 DEF Picks
<1>6. ASSUME NEW j \in DOMAIN t, j > i
      PROVE  h[j] \in DOMAIN s /\ h[j] > m /\ t[j] = s[h[j]]
  <2>1. j \in 1..Len(t) /\ i < j
    BY <1>3, <1>4, <1>6
  <2>2. h[i] < h[j] /\ h[j] \in 1..Len(s) /\ t[j] = s[h[j]]
    BY <1>2, <1>4, <2>1 DEF Picks
  <2> QED
    BY <1>3, <1>4, <2>2
<1>7. \E x \in DOMAIN t :
         t[x] = s[m] /\ \A j \in DOMAIN t : j > x => \E k \in DOMAIN s : k > m /\ t[j] = s[k]
  BY <1>3, <1>4, <1>5, <1>6
<1> QED
  BY <1>7 DEF t

\* An element that is kept comes no later than it stood.
LEMMA PicksGrow ==
    ASSUME NEW E, NEW s, NEW S, NEW n \in Nat, NEW t \in Seq(E), NEW h, Picks(h, s, S, n, t)
    PROVE  \A i \in 1..Len(t) : h[i] \in Nat /\ i <= h[i]
<1>1. \A i \in 1..Len(t) : h[i] \in 1..n
  BY DEF Picks
<1>2. \A i, j \in 1..Len(t) : i < j => h[i] < h[j]
  BY DEF Picks
<1> DEFINE T == {i \in 1..Len(t) : h[i] < i}
<1> SUFFICES ASSUME T # {} PROVE FALSE
  BY <1>1
<1>3. PICK i \in T : \A j \in T : i <= j
  <2>1. T \in SUBSET Nat
    OBVIOUS
  <2> HIDE DEF T
  <2> QED
    BY <2>1, LeastNumber
<1>4. i \in 1..Len(t) /\ h[i] \in 1..n /\ h[i] < i
  BY <1>1, <1>3
<1>5. i - 1 \in 1..Len(t) /\ i - 1 < i
  BY <1>4
<1>6. h[i - 1] < h[i] /\ h[i - 1] \in 1..n
  BY <1>1, <1>2, <1>4, <1>5
<1>7. h[i - 1] < i - 1
  BY <1>4, <1>6
<1>8. i - 1 \in T
  BY <1>5, <1>7
<1> QED
  BY <1>3, <1>4, <1>8

\* Where the elements of S come first they are what is kept.
LEMMA OnlyInitial ==
    ASSUME NEW E, NEW s \in Seq(E), NEW S, NEW r \in 0..Len(s),
           \A k \in 1..Len(s) : s[k] \in S <=> k <= r
    PROVE  DOMAIN Only(s, S) = 1..r /\ \A k \in 1..r : Only(s, S)[k] = s[k]
<1> DEFINE t == Only(s, S)
<1>1. t \in Seq(E) /\ \E h : Picks(h, s, S, Len(s), t)
  BY OnlyPicks
<1> HIDE DEF t
<1>2. PICK h : Picks(h, s, S, Len(s), t)
  BY <1>1
<1>3. DOMAIN t = 1..Len(t) /\ Len(t) \in Nat /\ Len(s) \in Nat
  BY <1>1
<1>4. /\ \A i \in 1..Len(t) : h[i] \in 1..Len(s) /\ t[i] = s[h[i]] /\ s[h[i]] \in S
      /\ \A i, j \in 1..Len(t) : i < j => h[i] < h[j]
      /\ \A k \in 1..Len(s) : s[k] \in S => \E i \in 1..Len(t) : h[i] = k
  BY <1>2 DEF Picks
<1>5. \A i \in 1..Len(t) : i <= h[i] /\ h[i] <= r
  BY <1>1, <1>2, <1>3, <1>4, PicksGrow
<1>6. \A i \in 1..Len(t) : h[i] = i
  <2> DEFINE T == {i \in 1..Len(t) : h[i] # i}
  <2> SUFFICES ASSUME T # {} PROVE FALSE
    OBVIOUS
  <2>1. PICK i \in T : \A j \in T : i <= j
    <3>1. T \in SUBSET Nat
      OBVIOUS
    <3> HIDE DEF T
    <3> QED
      BY <3>1, LeastNumber
  <2>2. i \in 1..Len(t) /\ h[i] \in 1..Len(s) /\ i < h[i] /\ h[i] <= r
    BY <1>4, <1>5, <2>1
  <2>3. i \in 1..Len(s) /\ i <= r
    BY <1>3, <2>2
  <2>4. PICK j \in 1..Len(t) : h[j] = i
    BY <1>4, <2>3
  <2>5. CASE j < i
    <3>1. j \notin T
      BY <2>1, <2>2, <2>5
    <3> QED
      BY <2>4, <2>5, <3>1
  <2>6. CASE j = i
    BY <2>2, <2>4, <2>6
  <2>7. CASE i < j
    <3>1. h[i] < h[j]
      BY <1>4, <2>2, <2>7
    <3> QED
      BY <2>2, <2>4, <3>1
  <2> QED
    BY <2>2, <2>5, <2>6, <2>7
<1>7. Len(t) <= r
  <2>1. CASE Len(t) = 0
    BY <2>1
  <2>2. CASE Len(t) # 0
    <3>1. Len(t) \in 1..Len(t)
      BY <1>3, <2>2
    <3> QED
      BY <1>5, <1>6, <3>1
  <2> QED
    BY <2>1, <2>2
<1>8. r <= Len(t)
  <2>1. CASE r = 0
    BY <1>3, <2>1
  <2>2. CASE r # 0
    <3>1. r \in 1..Len(s) /\ s[r] \in S
      BY <1>3, <2>2
    <3>2. PICK i \in 1..Len(t) : h[i] = r
      BY <1>4, <3>1
    <3> QED
      BY <1>3, <1>6, <3>2
  <2> QED
    BY <2>1, <2>2
<1>9. Len(t) = r
  <2>1. r \in Int /\ Len(t) \in Int
    BY <1>3
  <2> QED
    BY <1>7, <1>8, <2>1
<1>10. DOMAIN t = 1..r /\ \A k \in 1..r : t[k] = s[k]
  BY <1>3, <1>4, <1>6, <1>9
<1> QED
  BY <1>10 DEF t

\* Where nothing was left out all are kept.
LEMMA OnlyAll ==
    ASSUME NEW E, NEW s \in Seq(E), NEW S, Len(Only(s, S)) = Len(s)
    PROVE  \A k \in DOMAIN s : Only(s, S)[k] = s[k] /\ s[k] \in S
<1> DEFINE t == Only(s, S)
           n == Len(s)
<1>0. t \in Seq(E) /\ (\E h : Picks(h, s, S, n, t))
  BY OnlyPicks
<1>1. Len(t) = n
  BY Zenon
<1>2. n \in Nat /\ DOMAIN s = 1..n
  OBVIOUS
<1> HIDE DEF t, n
<1>3. PICK h : Picks(h, s, S, n, t)
  BY <1>0
<1>4. /\ \A i \in 1..n : h[i] \in 1..n /\ t[i] = s[h[i]] /\ s[h[i]] \in S
      /\ \A i, j \in 1..n : i < j => h[i] < h[j]
  BY <1>1, <1>3 DEF Picks
<1>5. \A i \in 1..n : i <= h[i]
  BY <1>0, <1>1, <1>2, <1>3, PicksGrow
<1>6. \A i \in 1..n : h[i] = i
  <2> DEFINE T == {n - i : i \in {x \in 1..n : h[x] # x}}
  <2> SUFFICES ASSUME T # {} PROVE FALSE
    OBVIOUS
  <2>1. PICK m \in T : \A j \in T : m <= j
    <3>1. T \in SUBSET Nat
      BY <1>2
    <3> HIDE DEF T
    <3> QED
      BY <3>1, LeastNumber
  <2>2. PICK i \in 1..n : h[i] # i /\ m = n - i
    BY <2>1
  <2>3. h[i] \in 1..n /\ i < h[i]
    BY <1>4, <1>5, <2>2
  <2>4. i + 1 \in 1..n /\ i < i + 1
    BY <1>2, <2>3
  <2>5. h[i + 1] = i + 1
    <3>1. n - (i + 1) \in T => m <= n - (i + 1)
      BY <2>1
    <3>2. n - (i + 1) \notin T
      BY <1>2, <2>2, <2>4, <3>1
    <3> QED
      BY <2>4, <3>2
  <2>6. h[i] < h[i + 1]
    BY <1>4, <2>4
  <2> QED
    BY <1>2, <2>3, <2>4, <2>5, <2>6
<1> QED
  BY <1>2, <1>4, <1>6 DEF t

\* The elements of sequences put together are those of each.
LEMMA FlattenedRange ==
    ASSUME NEW E, NEW n \in Nat, NEW s \in [1..n -> Seq(E)]
    PROVE  Range(FlattenSeq(s)) = UNION {Range(s[i]) : i \in 1..n}
<1>1. s \in Seq(Seq(E)) /\ Len(s) = n
  OBVIOUS
<1>2. CASE n = 0
  <2>1. FlattenSeq(s) = s /\ DOMAIN s = {}
    BY <1>1, <1>2 DEF FlattenSeq
  <2> QED
    BY <1>2, <2>1 DEF Range
<1>3. CASE n # 0
  <2> DEFINE f == CHOOSE g : Joined(g, s, n)
             Joint(m) == UNION {Range(s[i]) : i \in 1..m}
             Good(m) == f[m] \in Seq(E) /\ Range(f[m]) = Joint(m)
             T == {m \in 1..n : ~Good(m)}
  <2>1. FlattenSeq(s) = f[n]
    BY <1>1, <1>3, Zenon DEF FlattenSeq, Joined
  <2>2. Joined(f, s, n)
    BY JoinedExists
  <2> HIDE DEF f
  <2>3. T = {}
    <3> SUFFICES ASSUME T # {} PROVE FALSE
      OBVIOUS
    <3>1. PICK m \in T : \A k \in T : m <= k
      <4>1. T \in SUBSET Nat
        OBVIOUS
      <4> HIDE DEF T
      <4> QED
        BY <4>1, LeastNumber
    <3>2. f[m] = IF m = 1 THEN s[m] ELSE f[m - 1] \o s[m]
      BY <2>2, <3>1 DEF Joined
    <3>3. s[m] \in Seq(E) /\ m \in 1..n
      BY <3>1
    <3>4. CASE m = 1
      <4>1. 1..m = {m}
        BY <3>4
      <4>2. f[m] = s[m] /\ Joint(m) = Range(s[m])
        BY <3>2, <3>4, <4>1
      <4> HIDE DEF Joint
      <4>3. Good(m)
        BY <3>3, <4>2
      <4> QED
        BY <3>1, <4>3
    <3>5. CASE m # 1
      <4>1. m - 1 \in 1..n /\ m - 1 < m
        BY <3>3, <3>5
      <4>2. Good(m - 1)
        <5> HIDE DEF Good
        <5> QED
          BY <3>1, <3>3, <4>1
      <4>3. 1..m = 1..(m - 1) \cup {m}
        BY <3>3, <3>5
      <4>4. f[m] = f[m - 1] \o s[m]
        BY <3>2, <3>5
      <4>5. ASSUME NEW u \in Seq(E), NEW v \in Seq(E)
            PROVE  u \o v \in Seq(E) /\ Range(u \o v) = Range(u) \cup Range(v)
        <5>1. /\ DOMAIN (u \o v) = 1..(Len(u) + Len(v))
              /\ \A k \in 1..(Len(u) + Len(v)) :
                    (u \o v)[k] = IF k <= Len(u) THEN u[k] ELSE v[k - Len(u)]
              /\ DOMAIN u = 1..Len(u) /\ DOMAIN v = 1..Len(v)
              /\ Len(u) \in Nat /\ Len(v) \in Nat
          OBVIOUS
        <5>2. ASSUME NEW x \in Range(u \o v) PROVE x \in Range(u) \cup Range(v)
          <6>1. PICK k \in 1..(Len(u) + Len(v)) : x = (u \o v)[k]
            BY <5>1 DEF Range
          <6>2. CASE k <= Len(u)
            BY <5>1, <6>1, <6>2 DEF Range
          <6>3. CASE k > Len(u)
            <7>1. k - Len(u) \in DOMAIN v /\ x = v[k - Len(u)]
              BY <5>1, <6>1, <6>3
            <7> QED
              BY <7>1 DEF Range
          <6> QED
            BY <5>1, <6>2, <6>3
        <5>3. ASSUME NEW x \in Range(u) PROVE x \in Range(u \o v)
          BY <5>1 DEF Range
        <5>4. ASSUME NEW x \in Range(v) PROVE x \in Range(u \o v)
          <6>1. PICK k \in 1..Len(v) : x = v[k]
            BY <5>1 DEF Range
          <6>2. k + Len(u) \in DOMAIN (u \o v) /\ (u \o v)[k + Len(u)] = v[k]
            BY <5>1
          <6> QED
            BY <6>1, <6>2 DEF Range
        <5> QED
          BY <5>2, <5>3, <5>4
      <4>6. f[m] \in Seq(E) /\ Range(f[m]) = Range(f[m - 1]) \cup Range(s[m])
        BY <3>3, <4>2, <4>4, <4>5
      <4>7. Joint(m) = Joint(m - 1) \cup Range(s[m])
        BY <4>3
      <4> HIDE DEF Joint
      <4>8. Good(m)
        BY <4>2, <4>6, <4>7
      <4> QED
        BY <3>1, <4>8
    <3> QED
      BY <3>4, <3>5
  <2>4. Good(n)
    <3>1. n \in 1..n
      BY <1>3
    <3> HIDE DEF Good
    <3> QED
      BY <2>3, <3>1
  <2> QED
    BY <2>1, <2>4
<1> QED
  BY <1>2, <1>3

-----------------------------------------------------------------------------
(* Reading a page: the parts of a dish, a line and a day                   *)

\* A function on the numbers up to n is a sequence.
LEMMA FunctionIsSeq ==
    ASSUME NEW E, NEW n \in Nat, NEW s \in [1..n -> E]
    PROVE  s \in Seq(E) /\ Len(s) = n /\ DOMAIN s = 1..n
OBVIOUS

\* A sequence is one of its elements.
LEMMA SeqRange == \A E : \A s \in Seq(E) : Range(s) \subseteq E /\ s \in Seq(Range(s))
BY DEF Range

\* Sorted by food type, the dishes are still those of the line.
LEMMA NodesOfLine ==
    ASSUME NEW l \in LineNode
    PROVE  /\ GetDishNodes(l) \in Seq(DishNode)
           /\ Range(GetDishNodes(l)) = Range(l.dishes)
<1> DEFINE ofType(i) == {n \in Range(l.dishes) : n.type = i - 1}
           s == [i \in 1..8 |-> Only(l.dishes, ofType(i))]
<1>1. l.dishes \in Seq(DishNode)
  BY DEF LineNode
<1>2. \A i \in 1..8 : /\ Only(l.dishes, ofType(i)) \in Seq(DishNode)
                      /\ Range(Only(l.dishes, ofType(i))) = Range(l.dishes) \cap ofType(i)
  BY <1>1, OnlyPicks, OnlyRange
<1>3. Range(l.dishes) \subseteq DishNode
  BY <1>1, SeqRange
<1>4. UNION {Range(l.dishes) \cap ofType(i) : i \in 1..8} = Range(l.dishes)
  <2>1. ASSUME NEW n \in Range(l.dishes) PROVE \E i \in 1..8 : n \in ofType(i)
    <3>1. n.type \in 0..7
      BY <1>3 DEF DishNode
    <3>2. n.type + 1 \in 1..8 /\ n \in ofType(n.type + 1)
      BY <3>1
    <3> QED
      BY <3>2
  <2> HIDE DEF ofType
  <2> QED
    BY <2>1
<1> HIDE DEF ofType
<1>5. s \in [1..8 -> Seq(DishNode)] /\ 8 \in Nat
  BY <1>2
<1>6. FlattenSeq(s) \in Seq(DishNode) /\ Range(FlattenSeq(s)) = UNION {Range(s[i]) : i \in 1..8}
  <2> HIDE DEF s
  <2> QED
    BY <1>5, FlattenedIsSeq, FlattenedRange
<1>7. UNION {Range(s[i]) : i \in 1..8} = Range(l.dishes)
  BY <1>2, <1>4
<1>8. GetDishNodes(l) = FlattenSeq(s)
  BY DEF GetDishNodes, ofType
<1> QED
  BY <1>6, <1>7, <1>8

\* No price before which one is missing: every group has its own.
LEMMA PriceAsWritten ==
    ASSUME NEW n \in DishNode,
           \A g, h \in PriceGroup : g < h /\ n.prices[g] = None => n.prices[h] = None
    PROVE  GetDishPrice(n) = [g \in PriceGroup |-> IF n.prices[g] = None THEN 0 ELSE n.prices[g]]
<1> DEFINE p == n.prices
           S == Range(p) \ {None}
<1>1. p \in [1..4 -> Optional(Nat)]
  BY DEF DishNode
<1>2. p \in Seq(Optional(Nat)) /\ Len(p) = 4 /\ DOMAIN p = 1..4
  <2> HIDE DEF p
  <2> QED
    BY <1>1, FunctionIsSeq
<1>3. \A k \in 1..4 : p[k] \in S <=> p[k] # None
  BY <1>2 DEF Range
<1>4. \A g, h \in 1..4 : g < h /\ p[g] = None => p[h] = None
  BY DEF PriceGroup
<1> DEFINE q == GetDishPrice(n)
           o == Only(p, S)
<1>0. q = [g \in PriceGroup |-> IF g \in DOMAIN o THEN o[g] ELSE 0]
  BY DEF GetDishPrice
<1> HIDE DEF p, S, q, o
<1>5. \E r \in 0..4 : \A k \in 1..4 : p[k] \in S <=> k <= r
  <2>1. CASE p[1] = None
    <3>1. \A k \in 1..4 : p[k] \in S <=> k <= 0
      BY <1>3, <1>4, <2>1
    <3> QED
      BY <3>1
  <2>2. CASE p[1] # None /\ p[2] = None
    <3>1. \A k \in 1..4 : p[k] \in S <=> k <= 1
      BY <1>3, <1>4, <2>2
    <3> QED
      BY <3>1
  <2>3. CASE p[2] # None /\ p[3] = None
    <3>1. \A k \in 1..4 : p[k] \in S <=> k <= 2
      BY <1>3, <1>4, <2>3
    <3> QED
      BY <3>1
  <2>4. CASE p[3] # None /\ p[4] = None
    <3>1. \A k \in 1..4 : p[k] \in S <=> k <= 3
      BY <1>3, <1>4, <2>4
    <3> QED
      BY <3>1
  <2>5. CASE p[4] # None
    <3>1. \A k \in 1..4 : p[k] \in S <=> k <= 4
      BY <1>3, <1>4, <2>5
    <3> QED
      BY <3>1
  <2> QED
    BY <2>1, <2>2, <2>3, <2>4, <2>5
<1>6. PICK r \in 0..4 : \A k \in 1..4 : p[k] \in S <=> k <= r
  BY <1>5
<1>7. DOMAIN o = 1..r /\ \A k \in 1..r : o[k] = p[k]
  <2>1. r \in 0..Len(p) /\ \A k \in 1..Len(p) : p[k] \in S <=> k <= r
    BY <1>2, <1>6
  <2> QED
    BY <1>2, <2>1, OnlyInitial DEF o
<1>8. \A g \in PriceGroup : (IF g \in DOMAIN o THEN o[g] ELSE 0)
                             = IF p[g] = None THEN 0 ELSE p[g]
  BY <1>3, <1>6, <1>7 DEF PriceGroup
<1>9. q = [g \in PriceGroup |-> IF p[g] = None THEN 0 ELSE p[g]]
  BY <1>0, <1>8
<1> QED
  BY <1>9 DEF p, q

\* The codes that are known.
LEMMA CodesAsWritten ==
    ASSUME NEW n \in DishNode
    PROVE  /\ Range(GetDishAllergens(n)) = Codes(n) \cap Allergen
           /\ Range(GetDishAdditives(n)) = Codes(n) \cap Additive
<1>1. n.info = None \/ n.info \in Seq(Text)
  BY DEF DishNode, Optional
<1>2. Range(<<>>) = {}
  BY DEF Range
<1>3. CASE n.info = None
  BY <1>2, <1>3 DEF GetDishAllergens, GetDishAdditives, Codes
<1>4. CASE n.info # None
  <2>1. /\ GetDishAllergens(n) = Only(n.info, Allergen)
        /\ GetDishAdditives(n) = Only(n.info, Additive)
        /\ Codes(n) = Range(n.info)
    BY <1>4 DEF GetDishAllergens, GetDishAdditives, Codes, ParseCodes
  <2> QED
    BY <1>1, <1>4, <2>1, OnlyRange
<1> QED
  BY <1>3, <1>4

\* The row of facts of a dish, or None.
LEMMA RowOfDish ==
    ASSUME NEW l \in LineNode, NEW n \in DishNode,
           \A x, y \in Range(l.facts) : x.id = y.id => x = y
    PROVE  \/ GetNutritionNode(l, n) = None /\ RowOf(l, n) = {}
           \/ /\ GetNutritionNode(l, n) \in FactsNode
              /\ RowOf(l, n) = {GetNutritionNode(l, n)}
<1> DEFINE R == RowOf(l, n)
           rows == Only(l.facts, R)
<1>1. l.facts \in Seq(FactsNode)
  BY DEF LineNode
<1>2. R \subseteq Range(l.facts) /\ Range(l.facts) \subseteq FactsNode
  BY <1>1, SeqRange DEF RowOf
<1>3. GetNutritionNode(l, n) = IF n.id = None \/ rows = <<>> THEN None ELSE Head(rows)
  BY DEF GetNutritionNode, RowOf
<1>4. rows \in Seq(FactsNode) /\ Range(rows) = R
  <2> HIDE DEF R
  <2>1. rows \in Seq(FactsNode)
    BY <1>1, OnlyPicks
  <2>2. Range(rows) = Range(l.facts) \cap R
    BY <1>1, OnlyRange
  <2> QED
    BY <1>2, <2>1, <2>2
<1>5. \A x, y \in R : x = y
  BY <1>2 DEF RowOf
<1>6. n.id = None => R = {}
  <2>1. \A x \in R : x.id = n.id /\ x.id \in Nat
    BY <1>2 DEF RowOf, FactsNode
  <2> QED
    BY <2>1, NoneAssumption
<1> HIDE DEF R, rows
<1>7. rows = <<>> <=> R = {}
  <2>1. rows = <<>> => R = {}
    BY <1>4 DEF Range
  <2>2. rows # <<>> => 1 \in DOMAIN rows
    BY <1>4
  <2>3. 1 \in DOMAIN rows => rows[1] \in R
    BY <1>4 DEF Range
  <2> QED
    BY <2>1, <2>2, <2>3
<1>8. rows # <<>> => Head(rows) \in R /\ Head(rows) \in FactsNode
  <2> SUFFICES ASSUME rows # <<>> PROVE Head(rows) \in R /\ Head(rows) \in FactsNode
    OBVIOUS
  <2>1. Head(rows) = rows[1] /\ 1 \in DOMAIN rows
    BY <1>4
  <2> QED
    BY <1>4, <2>1 DEF Range
<1>9. CASE R = {}
  BY <1>3, <1>7, <1>9 DEF R
<1>10. CASE R # {}
  <2>1. GetNutritionNode(l, n) = Head(rows) /\ Head(rows) \in R /\ Head(rows) \in FactsNode
    BY <1>3, <1>6, <1>7, <1>8, <1>10
  <2>2. R = {Head(rows)}
    BY <1>5, <2>1
  <2> QED
    BY <2>1, <2>2 DEF R
<1> QED
  BY <1>9, <1>10

\* One value that is missing loses them all.
LEMMA AllOrNone ==
    ASSUME NEW v \in Seq(Optional(Nat))
    PROVE  /\ None \in Range(v) => AllOrNothing(v) = None
           /\ None \notin Range(v) => AllOrNothing(v) = v /\ v # None
BY NoneAssumption DEF AllOrNothing, Range

\* Nutrition data are shown when the row of the dish lacks none.
LEMMA NutritionAsWritten ==
    ASSUME NEW l \in LineNode, NEW n \in DishNode,
           \A x, y \in Range(l.facts) : x.id = y.id => x = y
    PROVE  {GetDishNutritionData(l, n)} \ {None}
           = {row.nutrients : row \in {x \in RowOf(l, n) : None \notin Range(x.nutrients)}}
<1> DEFINE row == GetNutritionNode(l, n)
<1>1. GetDishNutritionData(l, n) = IF row = None THEN None ELSE AllOrNothing(row.nutrients)
  BY DEF GetDishNutritionData
<1>2. \/ row = None /\ RowOf(l, n) = {}
      \/ row \in FactsNode /\ RowOf(l, n) = {row}
  BY RowOfDish
<1> HIDE DEF row
<1>3. CASE row = None /\ RowOf(l, n) = {}
  BY <1>1, <1>3
<1>4. CASE row \in FactsNode /\ RowOf(l, n) = {row}
  <2>1. row # None /\ row.nutrients \in Seq(Optional(Nat))
    BY <1>4, NoneAssumption DEF FactsNode
  <2>2. CASE None \in Range(row.nutrients)
    BY <1>1, <1>4, <2>1, <2>2, AllOrNone
  <2>3. CASE None \notin Range(row.nutrients)
    BY <1>1, <1>4, <2>1, <2>3, AllOrNone
  <2> QED
    BY <2>2, <2>3
<1> QED
  BY <1>2, <1>3, <1>4

\* So are the data of the environment, when each of the seven is found.
LEMMA EnvScoreAsWritten ==
    ASSUME NEW l \in LineNode, NEW n \in DishNode,
           \A x, y \in Range(l.facts) : x.id = y.id => x = y
    PROVE  (GetDishEnvScore(l, n) # None) = \E row \in RowOf(l, n) : FullyRated(row)
<1> DEFINE row == GetNutritionNode(l, n)
           v == <<GetCO2Rating(row), GetCO2Value(row), row.rating.water, GetWaterValue(row),
                  row.rating.tierwohl, row.rating.regenwald, row.max_rating>>
<1>1. GetDishEnvScore(l, n) = IF row = None THEN None ELSE AllOrNothing(v)
  BY DEF GetDishEnvScore
<1>2. \/ row = None /\ RowOf(l, n) = {}
      \/ row \in FactsNode /\ RowOf(l, n) = {row}
  BY RowOfDish
<1>3. CASE row = None /\ RowOf(l, n) = {}
  BY <1>1, <1>3
<1>4. CASE row \in FactsNode /\ RowOf(l, n) = {row}
  <2> HIDE DEF row
  <2>1. /\ row # None
        /\ row.max_rating \in Optional(Nat)
        /\ \A a \in Area : row.rating[a] \in Optional(Nat)
        /\ \A a \in Area : row.value[a] \in Optional({Unreadable} \cup Nat)
    BY <1>4, NoneAssumption DEF FactsNode
  <2>2. /\ GetCO2Rating(row) \in Optional(Nat)
        /\ GetCO2Rating(row) = None
           <=> {row.rating.co2, row.rating.co2_alternative} = {None}
    BY <2>1 DEF GetCO2Rating, OrElse, Area
  <2>3. /\ GetCO2Value(row) \in Optional(Nat)
        /\ GetCO2Value(row) # None
           <=> \/ row.value.co2 \notin {None, Unreadable}
               \/ row.value.co2 = None /\ row.value.co2_alternative \notin {None, Unreadable}
    BY <2>1 DEF GetCO2Value, OrElse, ThroughRegex, Area, Optional
  <2>4. /\ GetWaterValue(row) \in Optional(Nat)
        /\ GetWaterValue(row) # None <=> row.value.water \notin {None, Unreadable}
    BY <2>1 DEF GetWaterValue, ThroughRegex, Area, Optional
  <2>5. /\ row.rating.water \in Optional(Nat) /\ row.rating.tierwohl \in Optional(Nat)
        /\ row.rating.regenwald \in Optional(Nat)
    BY <2>1 DEF Area
  <2>6. /\ v \in Seq(Optional(Nat))
        /\ None \in Range(v)
           <=> \/ GetCO2Rating(row) = None \/ GetCO2Value(row) = None
               \/ GetWaterValue(row) = None
               \/ None \in {row.rating.water, row.rating.tierwohl, row.rating.regenwald,
                            row.max_rating}
    <3>1. v \in Seq(Optional(Nat))
      BY <2>1, <2>2, <2>3, <2>4, <2>5
    <3>2. Range(v) = {GetCO2Rating(row), GetCO2Value(row), row.rating.water,
                      GetWaterValue(row), row.rating.tierwohl, row.rating.regenwald,
                      row.max_rating}
      BY <2>1, <2>2, <2>3, <2>4, <2>5 DEF Range
    <3> HIDE DEF v
    <3> QED
      BY <3>1, <3>2
  <2>7. AllOrNothing(v) # None <=> None \notin Range(v)
    <3> HIDE DEF v
    <3> QED
      BY <2>6, AllOrNone
  <2>8. None \notin Range(v) <=> FullyRated(row)
    <3> HIDE DEF v
    <3> QED
      BY <2>2, <2>3, <2>4, <2>6 DEF FullyRated
  <2>9. GetDishEnvScore(l, n) # None <=> FullyRated(row)
    BY <1>1, <2>1, <2>7, <2>8
  <2> QED
    BY <1>4, <2>9
<1> QED
  BY <1>2, <1>3, <1>4

\* A dish as it is stored says what its node says.
LEMMA DishAsWritten ==
    ASSUME NEW l \in LineNode, NEW n \in DishNode, NEW m, m.name = l.name,
           \A g, h \in PriceGroup : g < h /\ n.prices[g] = None => n.prices[h] = None,
           \A x, y \in Range(l.facts) : x.id = y.id => x = y
    PROVE  Stored(m, GetDish(l, n)) = Written(l, n)
<1> DEFINE d == GetDish(l, n)
<1>1. /\ d.name = n.name /\ d.price = GetDishPrice(n) /\ d.food_type = GetFoodType(n)
      /\ d.allergens = GetDishAllergens(n) /\ d.additives = GetDishAdditives(n)
      /\ d.env_score = GetDishEnvScore(l, n)
      /\ d.nutrition_data = GetDishNutritionData(l, n)
  BY DEF GetDish
<1> HIDE DEF d
<1>2. GetFoodType(n) = IF n.title \in FoodType THEN n.title ELSE Unknown
  BY NoneAssumption DEF GetFoodType, ParseFoodType
<1>3. d.price = [g \in PriceGroup |-> IF n.prices[g] = None THEN 0 ELSE n.prices[g]]
  BY <1>1, PriceAsWritten
<1>4. /\ Range(d.allergens) = Codes(n) \cap Allergen
      /\ Range(d.additives) = Codes(n) \cap Additive
  BY <1>1, CodesAsWritten
<1>5. {d.nutrition_data} \ {None}
      = {row.nutrients : row \in {x \in RowOf(l, n) : None \notin Range(x.nutrients)}}
  BY <1>1, NutritionAsWritten
<1>6. (d.env_score # None) = \E row \in RowOf(l, n) : FullyRated(row)
  BY <1>1, EnvScoreAsWritten
<1>7. Stored(m, d) = Written(l, n)
  BY <1>1, <1>2, <1>3, <1>4, <1>5, <1>6, Zenon DEF Stored, Written
<1> QED
  BY <1>7 DEF d

\* The dishes of a line are its nodes that have a name and are not the closed line.
LEMMA DishesOfLine ==
    ASSUME NEW l \in LineNode
    PROVE  Range(GetDishes(l))
           = {GetDish(l, n) : n \in {x \in Range(l.dishes) : x.name \notin {None, Closed}}}
<1> DEFINE N == {n \in Range(l.dishes) : n.name \notin {None, Closed}}
           open == Only(GetDishNodes(l), N)
           dish == [n \in Range(l.dishes) |-> GetDish(l, n)]
<1>1. GetDishes(l) = [k \in DOMAIN open |-> dish[open[k]]]
  BY DEF GetDishes
<1>2. Range(open) = N
  <2> HIDE DEF N
  <2>1. Range(open) = Range(GetDishNodes(l)) \cap N
    BY NodesOfLine, OnlyRange
  <2>2. N \subseteq Range(l.dishes)
    BY DEF N
  <2> QED
    BY <2>1, <2>2, NodesOfLine
<1>3. \A n \in N : dish[n] = GetDish(l, n)
  OBVIOUS
<1> HIDE DEF N, open, dish
<1>4. Range(GetDishes(l)) = {dish[n] : n \in Range(open)}
  BY <1>1 DEF Range
<1>5. Range(GetDishes(l)) = {GetDish(l, n) : n \in N}
  BY <1>2, <1>3, <1>4
<1> QED
  BY <1>5 DEF N

\* The lines of a day are those with a name, each with its dishes.
LEMMA LinesOfDay ==
    ASSUME NEW day \in Seq(LineNode)
    PROVE  /\ \A m \in Range(GetLines(day)) : \E l \in Range(day) :
                 l.name # None /\ m.name = l.name /\ m.dishes = GetDishes(l)
           /\ \A l \in Range(day) : l.name # None =>
                 \E m \in Range(GetLines(day)) : m.name = l.name /\ m.dishes = GetDishes(l)
<1> DEFINE K == {k \in DOMAIN day : day[k].name # None}
           named == Only([k \in DOMAIN day |-> k], K)
           dishes == [l \in Range(day) |-> GetDishes(l)]
           line(k) == [name |-> day[k].name, dishes |-> dishes[day[k]], pos |-> k - 1]
<1>1. GetLines(day) = [j \in DOMAIN named |-> line(named[j])]
  BY DEF GetLines
<1>2. Range(named) = K
  <2> DEFINE places == [k \in DOMAIN day |-> k]
  <2>1. DOMAIN day = 1..Len(day) /\ Len(day) \in Nat
    OBVIOUS
  <2>2. places \in [1..Len(day) -> 1..Len(day)] /\ Range(places) = DOMAIN day
    BY <2>1 DEF Range
  <2>3. places \in Seq(1..Len(day))
    <3> HIDE DEF places
    <3> QED
      BY <2>1, <2>2, FunctionIsSeq
  <2>4. Range(Only(places, K)) = Range(places) \cap K
    <3> HIDE DEF places, K
    <3> QED
      BY <2>3, OnlyRange
  <2> QED
    BY <2>2, <2>4
<1>3. \A k \in K : /\ line(k).name = day[k].name /\ line(k).dishes = GetDishes(day[k])
                   /\ day[k] \in Range(day) /\ day[k].name # None
  BY DEF Range
<1>4. \A l \in Range(day) : l.name # None => \E k \in K : l = day[k]
  BY DEF Range
<1> HIDE DEF K, named, line
<1>5. Range(GetLines(day)) = {line(k) : k \in Range(named)}
  BY <1>1 DEF Range
<1> QED
  BY <1>2, <1>3, <1>4, <1>5

\* What the parser makes of a day is what stands on its tab.
LEMMA ParsedAsWritten ==
    ASSUME NEW doc \in Document, WellMade(doc), NEW k \in DOMAIN doc.days
    PROVE  Planned(GetLines(doc.days[k])) = OnTab(doc, k)
<1> DEFINE day == doc.days[k]
           Dishes(l) == {x \in Range(l.dishes) : x.name \notin {None, Closed}}
<1>1. day \in Seq(LineNode) /\ day \in Range(doc.days)
  BY DEF Document, Range
<1>2. \A l \in Range(day) : l \in LineNode
  BY <1>1, SeqRange
<1>3. \A l \in Range(day) : \A n \in Dishes(l) : n \in DishNode /\ n \in Range(l.dishes)
  <2> TAKE l \in Range(day)
  <2>1. l.dishes \in Seq(DishNode)
    BY <1>2 DEF LineNode
  <2> QED
    BY <2>1, SeqRange
<1>4. \A l \in Range(day) :
         /\ \A n \in Range(l.dishes) : \A g, h \in PriceGroup :
               g < h /\ n.prices[g] = None => n.prices[h] = None
         /\ \A x, y \in Range(l.facts) : x.id = y.id => x = y
  BY <1>1 DEF WellMade
<1> HIDE DEF day
<1>5. ASSUME NEW l \in Range(day), NEW m, m.name = l.name, NEW n \in Dishes(l)
      PROVE  Stored(m, GetDish(l, n)) = Written(l, n)
  <2>1. l \in LineNode /\ n \in DishNode /\ n \in Range(l.dishes)
    BY <1>2, <1>3
  <2> HIDE DEF Dishes
  <2>2. /\ \A g, h \in PriceGroup : g < h /\ n.prices[g] = None => n.prices[h] = None
        /\ \A x, y \in Range(l.facts) : x.id = y.id => x = y
    BY <1>4, <2>1
  <2> QED
    BY <1>5, <2>1, <2>2, DishAsWritten
<1>6. ASSUME NEW l \in Range(day), NEW m, m.name = l.name, m.dishes = GetDishes(l)
      PROVE  {Stored(m, d) : d \in Range(m.dishes)} = {Written(l, n) : n \in Dishes(l)}
  <2>1. Range(m.dishes) = {GetDish(l, n) : n \in Dishes(l)}
    BY <1>2, <1>6, DishesOfLine
  <2> HIDE DEF Dishes
  <2> QED
    BY <1>5, <1>6, <2>1
<1>7. /\ \A m \in Range(GetLines(day)) : \E l \in Range(day) :
            l.name # None /\ m.name = l.name /\ m.dishes = GetDishes(l)
      /\ \A l \in Range(day) : l.name # None =>
            \E m \in Range(GetLines(day)) : m.name = l.name /\ m.dishes = GetDishes(l)
  BY <1>1, LinesOfDay
<1>8. Planned(GetLines(day))
      = UNION {{Written(l, n) : n \in Dishes(l)} : l \in {x \in Range(day) : x.name # None}}
  <2> DEFINE P(m) == {Stored(m, d) : d \in Range(m.dishes)}
             W(l) == {Written(l, n) : n \in Dishes(l)}
  <2>1. \A l \in Range(day) : \A m :
           m.name = l.name /\ m.dishes = GetDishes(l) => P(m) = W(l)
    BY <1>6
  <2>2. Planned(GetLines(day)) = UNION {P(m) : m \in Range(GetLines(day))}
    BY DEF Planned
  <2> HIDE DEF P, W
  <2>3. UNION {P(m) : m \in Range(GetLines(day))}
        = UNION {W(l) : l \in {x \in Range(day) : x.name # None}}
    <3>1. ASSUME NEW m \in Range(GetLines(day))
          PROVE  \E l \in {x \in Range(day) : x.name # None} : P(m) = W(l)
      BY <1>7, <2>1
    <3>2. ASSUME NEW l \in {x \in Range(day) : x.name # None}
          PROVE  \E m \in Range(GetLines(day)) : P(m) = W(l)
      BY <1>7, <2>1
    <3> QED
      BY <3>1, <3>2
  <2> QED
    BY <2>2, <2>3 DEF W
<1> QED
  BY <1>8 DEF OnTab, day

-----------------------------------------------------------------------------
(* The inductive invariant of what is served: the pages are those of the   *)
(* website, and what the last of them says of a canteen and a date is the  *)
(* last entry of the map for them, then the last canteen of that name to   *)
(* be resolved, then what is served.                                       *)

ReadDates(doc) == Range(doc.nav) \ {Unreadable}

Parsed(D, i) == Transform(D[i], i - 1)

AskedList(urls) == \E today \in Start : urls = GetUrls(today) \/ urls = GetAllUrls(today)

\* D are the pages of such a list of urls.
FromSite(D) ==
    \E today \in Start : \E urls \in {GetUrls(today), GetAllUrls(today)} :
        Len(D) = Len(urls) /\ \A i \in DOMAIN D : D[i] \in Site[urls[i]]

\* Of the first p pages, the i-th is the last one of its canteen with date d.
Latest(D, p, i, d) ==
    /\ d \in ReadDates(D[i])
    /\ \A j \in 1..p : j > i /\ D[j].name = D[i].name => d \notin ReadDates(D[j])

LastEntry(map, D, i, d) ==
    \E m \in DOMAIN map :
        /\ map[m] \in Range(Parsed(D, i)) /\ map[m].date = d
        /\ \A k \in DOMAIN map :
              k > m => ~(map[k].date = d /\ map[k].canteen.name = D[i].name)

LastTodo(todo, D, i, d) ==
    \E m \in DOMAIN todo :
        /\ \E e \in Range(Parsed(D, i)) : e.date = d /\ todo[m] = e.canteen
        /\ \A k \in DOMAIN todo : k > m => todo[k].name # D[i].name

ServedFrom(table, D, i, d) ==
    /\ <<D[i].name, d>> \in DOMAIN table
    /\ \E e \in Range(Parsed(D, i)) : e.date = d /\ table[D[i].name, d] = e.canteen.lines

PlacedBy(places, D, i) == D[i].name \in DOMAIN places /\ places[D[i].name] = i - 1

\* No entry of the map is for d.
NoEntry(map, d) == \A k \in DOMAIN map : map[k].date # d

Pending(map, date, todo, table, places, D, i, d) ==
    \/ LastEntry(map, D, i, d)
    \/ NoEntry(map, d) /\ d = date /\ LastTodo(todo, D, i, d)
    \/ /\ NoEntry(map, d) /\ ServedFrom(table, D, i, d)
       /\ d = date => /\ PlacedBy(places, D, i)
                      /\ \A k \in DOMAIN todo : todo[k].name # D[i].name

AnswersFromSite ==
    job.pc = "get_html_strings" =>
        /\ AskedList(job.urls) /\ job.map = <<>> /\ job.todo = <<>>
        /\ \A k \in DOMAIN job.answers :
              job.answers[k].doc \in Site[job.urls[job.answers[k].url]] \cup {None}

\* The map while the pages are read: of the first p pages.
Sorted(map, D, p) ==
    /\ IsSeq(map)
    /\ \A i \in 1..p : Parsed(D, i) # None
    /\ \A i \in 1..p : \A d \in ReadDates(D[i]) :
          /\ ~NoEntry(map, d)
          /\ Latest(D, p, i, d) => LastEntry(map, D, i, d)
    /\ \A k \in DOMAIN map : \E i \in 1..p : map[k].date \in ReadDates(D[i])

TransformSorts ==
    job.pc = "transform" =>
        /\ FromSite(job.docs) /\ Sorted(job.map, job.docs, job.position)
        /\ job.todo = <<>>

\* What the job has seen, which is nothing until all pages were read.
SeenFromSite ==
    /\ job.pc \in {"get_html_strings", "transform"} => seen = None
    /\ seen # None => /\ FromSite(seen.docs) /\ IsSeq(seen.docs)
                      /\ \A i \in DOMAIN seen.docs : Parsed(seen.docs, i) # None

\* The dates a job was to resolve, of one page and of all.
WantedBy(s, doc) == {d \in ReadDates(doc) : s.kind = "full" \/ d = s.today}

ListedBy(s) == UNION {WantedBy(s, s.docs[i]) : i \in DOMAIN s.docs}

Serving(s, map, date, todo, table, places) ==
    /\ \A i \in DOMAIN s.docs : \A d \in WantedBy(s, s.docs[i]) :
          Latest(s.docs, Len(s.docs), i, d) =>
              Pending(map, date, todo, table, places, s.docs, i, d)
    /\ \A k \in DOMAIN map : map[k].date \in ListedBy(s)
    /\ date \in ListedBy(s) \/ \A d \in ListedBy(s) : ~NoEntry(map, d)

ServedAll(s, table, places) ==
    /\ \A i \in DOMAIN s.docs : \A d \in WantedBy(s, s.docs[i]) :
          Latest(s.docs, Len(s.docs), i, d) => ServedFrom(table, s.docs, i, d)
    /\ ListedBy(s) = {} \/ \E date \in ListedBy(s) : \A i \in DOMAIN s.docs :
          date \in WantedBy(s, s.docs[i]) /\ Latest(s.docs, Len(s.docs), i, date)
          => PlacedBy(places, s.docs, i)

ResolvingServes ==
    job.pc = "start_resolving" =>
        /\ IsSeq(job.map) /\ IsSeq(job.todo)
        /\ seen # None => Serving(seen, job.map, job.date, job.todo, served, position)

IdleServed == job = Idle /\ seen # None => ServedAll(seen, served, position)

ServeInv ==
    /\ JobInv
    /\ AnswersFromSite /\ TransformSorts /\ SeenFromSite /\ ResolvingServes /\ IdleServed

-----------------------------------------------------------------------------
\* What the parser makes of a page.
LEMMA ParsedEntries ==
    ASSUME NEW D, NEW i, D[i] \in Document, Parsed(D, i) # None
    PROVE  /\ D[i].root
           /\ \E E : Parsed(D, i) \in Seq(E)
           /\ \A e \in Range(Parsed(D, i)) :
                 /\ e.date \in ReadDates(D[i])
                 /\ e.canteen.name = D[i].name /\ e.canteen.pos = i - 1
           /\ \A d \in ReadDates(D[i]) : \E e \in Range(Parsed(D, i)) : e.date = d
<1> DEFINE doc == D[i]
           dates == GetDates(doc)
           canteens == GetCanteenForAllDays(doc, i - 1)
           P == [k \in DOMAIN dates |-> [date |-> dates[k], canteen |-> canteens[k]]]
<1>1. doc.root /\ Len(dates) = Len(canteens) /\ Parsed(D, i) = P
  BY DEF Parsed, Transform
<1>2. doc.nav \in Seq({Unreadable} \cup Nat) /\ doc.days \in Seq(Seq(LineNode))
  BY DEF Document
<1>3. dates \in Seq({Unreadable} \cup Nat) /\ Range(dates) = ReadDates(doc)
  <2>1. dates = Only(doc.nav, ReadDates(doc))
    BY DEF GetDates, ReadDates
  <2>2. Range(dates) = Range(doc.nav) \cap ReadDates(doc)
    BY <1>2, <2>1, OnlyRange
  <2> QED
    BY <1>2, <2>1, <2>2, OnlyPicks DEF ReadDates
<1>4. \A k \in DOMAIN dates : canteens[k].name = doc.name /\ canteens[k].pos = i - 1
  <2> SUFFICES ASSUME NEW k \in DOMAIN dates
               PROVE  canteens[k].name = doc.name /\ canteens[k].pos = i - 1
    OBVIOUS
  <2>1. k \in 1..Len(dates) /\ Len(dates) \in Nat
    BY <1>3
  <2>2. CASE doc.name = None
    <3>1. Len(canteens) = 0
      BY <2>2 DEF GetCanteenForAllDays
    <3> QED
      BY <1>1, <2>1, <3>1
  <2>3. CASE doc.name # None
    <3>1. canteens = [x \in DOMAIN doc.days |->
                         [name |-> doc.name, lines |-> GetLines(doc.days[x]), pos |-> i - 1]]
      BY <2>3 DEF GetCanteenForAllDays
    <3>2. Len(canteens) = Len(doc.days) /\ DOMAIN doc.days = 1..Len(doc.days)
      <4>1. DOMAIN doc.days = 1..Len(doc.days) /\ Len(doc.days) \in Nat
        BY <1>2
      <4> QED
        BY <3>1, <4>1
    <3>3. k \in DOMAIN doc.days
      BY <1>1, <2>1, <3>2
    <3> QED
      BY <3>1, <3>3
  <2> QED
    BY <2>2, <2>3
<1>5. DOMAIN dates = 1..Len(dates) /\ Len(dates) \in Nat
  BY <1>3
<1> HIDE DEF dates, canteens
<1>6. \E E : P \in Seq(E)
  <2> DEFINE E == {P[k] : k \in DOMAIN dates}
  <2>1. P \in [1..Len(dates) -> E]
    BY <1>5
  <2>2. P \in Seq(E)
    <3> HIDE DEF P, E
    <3> QED
      BY <1>5, <2>1, FunctionIsSeq
  <2> HIDE DEF P, E
  <2> QED
    BY <2>2
<1>7. /\ \A e \in Range(P) : /\ e.date \in ReadDates(doc)
                             /\ e.canteen.name = doc.name /\ e.canteen.pos = i - 1
      /\ \A d \in ReadDates(doc) : \E e \in Range(P) : e.date = d
  <2>1. Range(P) = {[date |-> dates[k], canteen |-> canteens[k]] : k \in DOMAIN dates}
    BY DEF Range
  <2>2. \A k \in DOMAIN dates : dates[k] \in ReadDates(doc)
    BY <1>3 DEF Range
  <2>3. \A d \in ReadDates(doc) : \E k \in DOMAIN dates : d = dates[k]
    BY <1>3 DEF Range
  <2> DEFINE entry(k) == [date |-> dates[k], canteen |-> canteens[k]]
  <2>4. \A k \in DOMAIN dates : entry(k).date = dates[k] /\ entry(k).canteen = canteens[k]
    OBVIOUS
  <2>5. Range(P) = {entry(k) : k \in DOMAIN dates}
    BY <2>1
  <2> HIDE DEF P, entry
  <2>6. \A e \in Range(P) : /\ e.date \in ReadDates(doc)
                             /\ e.canteen.name = doc.name /\ e.canteen.pos = i - 1
    BY <1>4, <2>2, <2>4, <2>5
  <2>7. \A d \in ReadDates(doc) : \E e \in Range(P) : e.date = d
    BY <2>3, <2>4, <2>5
  <2> QED
    BY <2>6, <2>7
<1> HIDE DEF P
<1> QED
  BY <1>1, <1>6, <1>7 DEF doc

\* The last entry stays the last one of those that are kept.
LEMMA LastEntryKept ==
    ASSUME NEW E, NEW map \in Seq(E), NEW S, NEW D, NEW i, NEW d, LastEntry(map, D, i, d),
           \A e \in Range(map) : e.date = d => e \in S
    PROVE  LastEntry(Only(map, S), D, i, d)
<1>1. PICK m \in DOMAIN map :
          /\ map[m] \in Range(Parsed(D, i)) /\ map[m].date = d
          /\ \A k \in DOMAIN map :
                k > m => ~(map[k].date = d /\ map[k].canteen.name = D[i].name)
  BY DEF LastEntry
<1>2. map[m] \in S
  BY <1>1 DEF Range
<1> DEFINE t == Only(map, S)
<1>3. PICK n \in DOMAIN t :
          /\ t[n] = map[m]
          /\ \A j \in DOMAIN t : j > n => \E k \in DOMAIN map : k > m /\ t[j] = map[k]
  BY <1>2, OnlyLast
<1> HIDE DEF t
<1>4. LastEntry(t, D, i, d)
  BY <1>1, <1>3 DEF LastEntry
<1> QED
  BY <1>4 DEF t

\* The canteens of a date, from the entries of that date.
LEMMA LastOfDate ==
    ASSUME NEW E, NEW map \in Seq(E), NEW D, NEW i, NEW d, LastEntry(map, D, i, d),
           NEW entries, entries = Only(map, {e \in Range(map) : e.date = d})
    PROVE  LastTodo([k \in DOMAIN entries |-> entries[k].canteen], D, i, d)
<1> DEFINE S == {e \in Range(map) : e.date = d}
           todo == [k \in DOMAIN entries |-> entries[k].canteen]
<1>1. LastEntry(entries, D, i, d)
  <2>1. \A e \in Range(map) : e.date = d => e \in S
    OBVIOUS
  <2> HIDE DEF S
  <2>2. LastEntry(Only(map, S), D, i, d)
    BY <2>1, LastEntryKept
  <2> QED
    BY <2>2 DEF S
<1>2. \A k \in DOMAIN entries : entries[k].date = d
  <2>1. Range(entries) = Range(map) \cap S
    <3> HIDE DEF S
    <3>1. Range(Only(map, S)) = Range(map) \cap S
      BY OnlyRange
    <3> QED
      BY <3>1 DEF S
  <2> QED
    BY <2>1 DEF Range
<1>3. PICK m \in DOMAIN entries :
          /\ entries[m] \in Range(Parsed(D, i)) /\ entries[m].date = d
          /\ \A k \in DOMAIN entries :
                k > m => ~(entries[k].date = d /\ entries[k].canteen.name = D[i].name)
  BY <1>1 DEF LastEntry
<1>4. DOMAIN todo = DOMAIN entries /\ \A k \in DOMAIN entries : todo[k] = entries[k].canteen
  OBVIOUS
<1> HIDE DEF todo
<1>5. LastTodo(todo, D, i, d)
  <2>1. m \in DOMAIN todo /\ entries[m] \in Range(Parsed(D, i)) /\ entries[m].date = d
        /\ todo[m] = entries[m].canteen
    BY <1>3, <1>4
  <2>2. \A k \in DOMAIN todo : k > m => todo[k].name # D[i].name
    BY <1>2, <1>3, <1>4
  <2> QED
    BY <2>1, <2>2 DEF LastTodo
<1> QED
  BY <1>5 DEF todo

\* A date is taken out of the map when all canteens of the last one were resolved.
LEMMA NextDatePending ==
    ASSUME NEW E, NEW map \in Seq(E), NEW D, NEW i, NEW d, NEW date, NEW table, NEW places,
           Pending(map, date, <<>>, table, places, D, i, d),
           NEW c, ~NoEntry(map, c),
           NEW entries, entries = Only(map, {e \in Range(map) : e.date = c})
    PROVE  Pending(Only(map, {e \in Range(map) : e.date # c}), c,
                   [k \in DOMAIN entries |-> entries[k].canteen], table, places, D, i, d)
<1> DEFINE S == {e \in Range(map) : e.date # c}
           rest == Only(map, S)
           todo == [k \in DOMAIN entries |-> entries[k].canteen]
<1>1. Range(rest) = S
  <2>1. S \subseteq Range(map)
    OBVIOUS
  <2> HIDE DEF S
  <2>2. Range(Only(map, S)) = Range(map) \cap S
    BY OnlyRange
  <2> QED
    BY <2>1, <2>2
<1>2. \A e \in Range(rest) : e.date # c /\ e \in Range(map)
  BY <1>1
<1>3. NoEntry(rest, c)
  <2> HIDE DEF rest
  <2> QED
    BY <1>2 DEF NoEntry, Range
<1>4. NoEntry(map, d) => NoEntry(rest, d)
  <2> HIDE DEF rest
  <2> QED
    BY <1>2 DEF NoEntry, Range
<1>5. ~LastTodo(<<>>, D, i, d)
  BY DEF LastTodo
<1>6. CASE d = c
  <2>1. LastEntry(map, D, i, d)
    BY <1>5, <1>6 DEF Pending
  <2>2. LastTodo(todo, D, i, d)
    BY <1>6, <2>1, LastOfDate
  <2> HIDE DEF rest, todo
  <2>3. Pending(rest, c, todo, table, places, D, i, d)
    BY <1>3, <1>6, <2>2 DEF Pending
  <2> QED
    BY <2>3 DEF rest, todo
<1>7. CASE d # c
  <2>1. CASE LastEntry(map, D, i, d)
    <3>1. \A e \in Range(map) : e.date = d => e \in S
      BY <1>7
    <3>2. LastEntry(rest, D, i, d)
      <4> HIDE DEF S
      <4> QED
        BY <2>1, <3>1, LastEntryKept
    <3> HIDE DEF rest, todo
    <3>3. Pending(rest, c, todo, table, places, D, i, d)
      BY <3>2 DEF Pending
    <3> QED
      BY <3>3 DEF rest, todo
  <2>2. CASE ~LastEntry(map, D, i, d)
    <3>1. NoEntry(map, d) /\ ServedFrom(table, D, i, d)
      BY <1>5, <2>2 DEF Pending
    <3> HIDE DEF rest, todo
    <3>2. Pending(rest, c, todo, table, places, D, i, d)
      BY <1>4, <1>7, <3>1 DEF Pending
    <3> QED
      BY <3>2 DEF rest, todo
  <2> QED
    BY <2>1, <2>2
<1> QED
  BY <1>6, <1>7

\* One canteen is resolved.
LEMMA ResolvePending ==
    ASSUME NEW E, NEW todo \in Seq(E), todo # <<>>, NEW map, NEW date,
           NEW table, NEW places, NEW D, NEW i, NEW d,
           \A e \in Range(Parsed(D, i)) :
              e.canteen.name = D[i].name /\ e.canteen.pos = i - 1,
           Pending(map, date, todo, table, places, D, i, d),
           NEW canteen, canteen = Head(todo), NEW later, NEW placed,
           later = Upsert(table, <<canteen.name, date>>, canteen.lines),
           placed = Upsert(places, canteen.name, canteen.pos)
    PROVE  Pending(map, date, Tail(todo), later, placed, D, i, d)
<1> DEFINE rest == Tail(todo)
           name == D[i].name
<1>1. /\ DOMAIN todo = 1..Len(todo) /\ Len(todo) \in Nat \ {0} /\ canteen = todo[1]
      /\ DOMAIN rest = 1..(Len(todo) - 1)
      /\ \A k \in 1..(Len(todo) - 1) : rest[k] = todo[k + 1]
  OBVIOUS
<1>2. /\ <<canteen.name, date>> \in DOMAIN later
      /\ later[canteen.name, date] = canteen.lines
      /\ \A x \in DOMAIN table :
            x # <<canteen.name, date>> => x \in DOMAIN later /\ later[x] = table[x]
  BY DEF Upsert
<1>3. /\ canteen.name \in DOMAIN placed
      /\ placed[canteen.name] = canteen.pos
      /\ \A x \in DOMAIN places :
            x # canteen.name => x \in DOMAIN placed /\ placed[x] = places[x]
  BY DEF Upsert
<1> HIDE DEF rest
<1>4. CASE LastEntry(map, D, i, d)
  <2>1. Pending(map, date, rest, later, placed, D, i, d)
    BY <1>4 DEF Pending
  <2> QED
    BY <2>1 DEF rest
<1>5. CASE NoEntry(map, d) /\ d = date /\ LastTodo(todo, D, i, d)
  <2>1. PICK m \in DOMAIN todo :
            /\ \E e \in Range(Parsed(D, i)) : e.date = d /\ todo[m] = e.canteen
            /\ \A k \in DOMAIN todo : k > m => todo[k].name # name
    BY <1>5 DEF LastTodo
  <2>2. PICK e \in Range(Parsed(D, i)) : e.date = d /\ todo[m] = e.canteen
    BY <2>1
  <2>3. CASE m = 1
    <3>1. canteen = e.canteen /\ canteen.name = name /\ canteen.pos = i - 1
      BY <1>1, <2>2, <2>3
    <3>2. \A k \in DOMAIN rest : rest[k].name # name
      <4> SUFFICES ASSUME NEW k \in DOMAIN rest PROVE rest[k].name # name
        OBVIOUS
      <4>1. k + 1 \in DOMAIN todo /\ k + 1 > m /\ rest[k] = todo[k + 1]
        BY <1>1, <2>3
      <4> QED
        BY <2>1, <4>1
    <3>3. ServedFrom(later, D, i, d)
      <4>1. <<name, d>> \in DOMAIN later /\ later[name, d] = e.canteen.lines
        BY <1>2, <1>5, <3>1
      <4> QED
        BY <2>2, <4>1 DEF ServedFrom
    <3>4. PlacedBy(placed, D, i)
      BY <1>3, <3>1 DEF PlacedBy
    <3>5. Pending(map, date, rest, later, placed, D, i, d)
      BY <1>5, <3>2, <3>3, <3>4 DEF Pending
    <3> QED
      BY <3>5 DEF rest
  <2>4. CASE m # 1
    <3>1. m - 1 \in DOMAIN rest /\ rest[m - 1] = todo[m]
      BY <1>1, <2>4
    <3>2. \A k \in DOMAIN rest : k > m - 1 => rest[k].name # name
      <4> SUFFICES ASSUME NEW k \in DOMAIN rest, k > m - 1 PROVE rest[k].name # name
        OBVIOUS
      <4>1. k + 1 \in DOMAIN todo /\ k + 1 > m /\ rest[k] = todo[k + 1]
        BY <1>1
      <4> QED
        BY <2>1, <4>1
    <3>3. LastTodo(rest, D, i, d)
      BY <2>2, <3>1, <3>2 DEF LastTodo
    <3>4. Pending(map, date, rest, later, placed, D, i, d)
      BY <1>5, <3>3 DEF Pending
    <3> QED
      BY <3>4 DEF rest
  <2> QED
    BY <2>3, <2>4
<1>6. CASE /\ NoEntry(map, d) /\ ServedFrom(table, D, i, d)
           /\ d = date => /\ PlacedBy(places, D, i)
                          /\ \A k \in DOMAIN todo : todo[k].name # name
  <2>1. d = date => canteen.name # name
    BY <1>1, <1>6
  <2>2. ServedFrom(later, D, i, d)
    <3>1. <<name, d>> # <<canteen.name, date>>
      BY <2>1
    <3> QED
      BY <1>2, <1>6, <3>1 DEF ServedFrom
  <2>3. d = date => PlacedBy(placed, D, i)
    BY <1>3, <1>6, <2>1 DEF PlacedBy
  <2>4. d = date => \A k \in DOMAIN rest : rest[k].name # name
    BY <1>1, <1>6
  <2>5. Pending(map, date, rest, later, placed, D, i, d)
    BY <1>6, <2>2, <2>3, <2>4 DEF Pending
  <2> QED
    BY <2>5 DEF rest
<1> QED
  BY <1>4, <1>5, <1>6 DEF Pending

\* The pages of a website are documents.
LEMMA SiteDocs ==
    ASSUME NEW D, IsSeq(D), FromSite(D)
    PROVE  \A i \in 1..Len(D) : D[i] \in Document
<1>0. PICK today \in Start : \E urls \in {GetUrls(today), GetAllUrls(today)} :
          Len(D) = Len(urls) /\ \A i \in DOMAIN D : D[i] \in Site[urls[i]]
  BY DEF FromSite
<1>1. PICK urls \in {GetUrls(today), GetAllUrls(today)} :
          Len(D) = Len(urls) /\ \A i \in DOMAIN D : D[i] \in Site[urls[i]]
  BY <1>0
<1>2. IsSeq(urls)
  BY UrlsAreSeq
<1>3. DOMAIN D = 1..Len(D) /\ DOMAIN urls = 1..Len(urls)
  BY <1>2 DEF IsSeq
<1>4. \A i \in 1..Len(D) : urls[i] \in Asked
  BY <1>1, <1>3 DEF Asked, Range
<1> QED
  BY <1>1, <1>3, <1>4, SiteAssumption

\* A list of entries has a last one of a date.
LEMMA LastOne ==
    ASSUME NEW E, NEW s \in Seq(E), NEW d, NEW e \in Range(s), e.date = d
    PROVE  \E m \in DOMAIN s : /\ s[m].date = d
                               /\ \A k \in DOMAIN s : k > m => s[k].date # d
<1> DEFINE n == Len(s)
           Good == {k \in 1..n : s[k].date = d}
           T == {n - k : k \in Good}
<1>1. n \in Nat /\ DOMAIN s = 1..n
  OBVIOUS
<1>2. T \in SUBSET Nat
  BY <1>1
<1>3. T # {}
  BY <1>1 DEF Range
<1>4. PICK t \in T : \A u \in T : t <= u
  <2> HIDE DEF T
  <2> QED
    BY <1>2, <1>3, LeastNumber
<1>5. PICK m \in Good : t = n - m
  BY <1>4
<1>6. \A k \in Good : n - k \in T
  OBVIOUS
<1> HIDE DEF T
<1>7. \A k \in Good : n - m <= n - k
  BY <1>4, <1>5, <1>6
<1>8. m \in 1..n /\ \A k \in Good : k <= m
  BY <1>1, <1>7
<1>9. \A k \in 1..n : k > m => s[k].date # d
  <2> SUFFICES ASSUME NEW k \in 1..n, k > m, s[k].date = d PROVE FALSE
    OBVIOUS
  <2>1. k \in Good
    OBVIOUS
  <2> QED
    BY <1>1, <1>8, <2>1
<1> QED
  BY <1>1, <1>5, <1>8, <1>9

\* One more page is sorted.
LEMMA SortAppends ==
    ASSUME NEW D, NEW map, NEW p \in Nat, Sorted(map, D, p), D[p + 1] \in Document,
           Parsed(D, p + 1) # None
    PROVE  Sorted(map \o Parsed(D, p + 1), D, p + 1)
<1> DEFINE parsed == Parsed(D, p + 1)
           new == map \o parsed
           q == p + 1
<1>1. PICK E : map \in Seq(E)
  BY DEF Sorted, IsSeq
<1>2. PICK F : parsed \in Seq(F)
  BY ParsedEntries
<1>3. /\ \A e \in Range(parsed) : e.date \in ReadDates(D[q]) /\ e.canteen.name = D[q].name
      /\ \A d \in ReadDates(D[q]) : \E e \in Range(parsed) : e.date = d
  BY ParsedEntries
<1> HIDE DEF parsed
<1>4. /\ Len(map) \in Nat /\ Len(parsed) \in Nat
      /\ DOMAIN map = 1..Len(map) /\ DOMAIN parsed = 1..Len(parsed)
      /\ new \in Seq(E \cup F)
      /\ DOMAIN new = 1..(Len(map) + Len(parsed))
      /\ \A k \in 1..Len(map) : new[k] = map[k]
      /\ \A k \in 1..Len(parsed) : new[Len(map) + k] = parsed[k]
  <2>1. map \in Seq(E \cup F) /\ parsed \in Seq(E \cup F)
    BY <1>1, <1>2
  <2> QED
    BY <2>1
<1>5. IsSeq(new)
  <2> HIDE DEF new
  <2> QED
    BY <1>4, Sequential
<1> HIDE DEF new
<1>6. \A k \in DOMAIN new : k > Len(map) =>
          k - Len(map) \in DOMAIN parsed /\ new[k] = parsed[k - Len(map)]
  <2> SUFFICES ASSUME NEW k \in DOMAIN new, k > Len(map)
               PROVE  k - Len(map) \in DOMAIN parsed /\ new[k] = parsed[k - Len(map)]
    OBVIOUS
  <2>1. k - Len(map) \in 1..Len(parsed) /\ Len(map) + (k - Len(map)) = k
    BY <1>4
  <2>2. new[Len(map) + (k - Len(map))] = parsed[k - Len(map)]
    BY <1>4, <2>1
  <2> QED
    BY <1>4, <2>1, <2>2
<1>7. \A k \in DOMAIN new : k > Len(map) =>
          new[k].date \in ReadDates(D[q]) /\ new[k].canteen.name = D[q].name
  BY <1>3, <1>6 DEF Range
<1>8. \A k \in DOMAIN new : k <= Len(map) => k \in DOMAIN map /\ new[k] = map[k]
  BY <1>4
<1>9. ASSUME NEW d \in ReadDates(D[q])
      PROVE  ~NoEntry(new, d) /\ LastEntry(new, D, q, d)
  <2>1. PICK e \in Range(parsed) : e.date = d
    BY <1>3
  <2>2. PICK m \in DOMAIN parsed :
            parsed[m].date = d /\ \A k \in DOMAIN parsed : k > m => parsed[k].date # d
    BY <1>2, <2>1, LastOne
  <2> DEFINE n == Len(map) + m
  <2>3. n \in DOMAIN new /\ new[n] = parsed[m] /\ n > Len(map)
    BY <1>4
  <2>4. \A k \in DOMAIN new : k > n => new[k].date # d
    <3> SUFFICES ASSUME NEW k \in DOMAIN new, k > n PROVE new[k].date # d
      OBVIOUS
    <3>1. k > Len(map) /\ k - Len(map) > m
      BY <1>4
    <3> QED
      BY <1>6, <2>2, <3>1
  <2>5. new[n] \in Range(Parsed(D, q))
    <3>1. new[n] \in Range(parsed)
      BY <2>3 DEF Range
    <3> QED
      BY <3>1 DEF parsed
  <2> HIDE DEF n
  <2> QED
    BY <2>2, <2>3, <2>4, <2>5 DEF NoEntry, LastEntry
<1>10. ASSUME NEW i \in 1..p, NEW d \in ReadDates(D[i])
       PROVE  ~NoEntry(new, d) /\ (Latest(D, q, i, d) => LastEntry(new, D, i, d))
  <2>1. ~NoEntry(map, d) /\ (Latest(D, p, i, d) => LastEntry(map, D, i, d))
    BY DEF Sorted
  <2>2. \A k \in DOMAIN map : k \in DOMAIN new /\ new[k] = map[k] /\ k <= Len(map)
    BY <1>4
  <2>3. ~NoEntry(new, d)
    BY <2>1, <2>2 DEF NoEntry
  <2>4. ASSUME Latest(D, q, i, d) PROVE LastEntry(new, D, i, d)
    <3>1. 1..p \subseteq 1..q /\ q \in 1..q /\ q > i
      OBVIOUS
    <3>2. LastEntry(map, D, i, d)
      BY <2>1, <2>4, <3>1 DEF Latest
    <3>3. PICK m \in DOMAIN map :
              /\ map[m] \in Range(Parsed(D, i)) /\ map[m].date = d
              /\ \A k \in DOMAIN map :
                    k > m => ~(map[k].date = d /\ map[k].canteen.name = D[i].name)
      BY <3>2 DEF LastEntry
    <3>4. D[q].name = D[i].name => d \notin ReadDates(D[q])
      BY <2>4, <3>1 DEF Latest
    <3>5. ASSUME NEW k \in DOMAIN new, k > m
          PROVE  ~(new[k].date = d /\ new[k].canteen.name = D[i].name)
      <4>1. CASE k <= Len(map)
        BY <1>8, <3>3, <3>5, <4>1
      <4>2. CASE k > Len(map)
        BY <1>7, <3>4, <4>2
      <4> QED
        BY <1>4, <4>1, <4>2
    <3>6. m \in DOMAIN new /\ new[m] = map[m]
      BY <2>2
    <3> QED
      BY <3>3, <3>5, <3>6 DEF LastEntry
  <2> QED
    BY <2>3, <2>4
<1>11. \A i \in 1..q : i = q \/ i \in 1..p
  OBVIOUS
<1>12. \A i \in 1..q : Parsed(D, i) # None
  BY <1>11 DEF Sorted
<1>13. \A i \in 1..q : \A d \in ReadDates(D[i]) :
          ~NoEntry(new, d) /\ (Latest(D, q, i, d) => LastEntry(new, D, i, d))
  BY <1>9, <1>10, <1>11
<1>14. ASSUME NEW k \in DOMAIN new PROVE \E i \in 1..q : new[k].date \in ReadDates(D[i])
  <2>1. CASE k <= Len(map)
    <3>1. PICK i \in 1..p : map[k].date \in ReadDates(D[i])
      BY <1>8, <2>1 DEF Sorted
    <3>2. i \in 1..q
      OBVIOUS
    <3> QED
      BY <1>8, <2>1, <3>1, <3>2
  <2>2. CASE k > Len(map)
    <3>1. q \in 1..q
      OBVIOUS
    <3> QED
      BY <1>7, <2>2, <3>1
  <2> QED
    BY <1>4, <2>1, <2>2
<1>15. Sorted(new, D, q)
  BY <1>5, <1>12, <1>13, <1>14 DEF Sorted
<1> QED
  BY <1>15 DEF new, parsed

\* When all pages are sorted the dates the job wants are taken.
LEMMA StartServing ==
    ASSUME NEW s, IsSeq(s.docs), NEW map, Sorted(map, s.docs, Len(s.docs)),
           NEW date, NEW todo, NEW table, NEW places
    PROVE  LET taken == Only(map, {e \in Range(map) : s.kind = "full" \/ e.date = s.today})
           IN  IsSeq(taken) /\ Serving(s, taken, date, todo, table, places)
<1> DEFINE S == {e \in Range(map) : s.kind = "full" \/ e.date = s.today}
           taken == Only(map, S)
           D == s.docs
<1>1. DOMAIN D = 1..Len(D)
  BY DEF IsSeq
<1>2. PICK E : map \in Seq(E)
  BY DEF Sorted, IsSeq
<1>3. S \subseteq Range(map)
  OBVIOUS
<1>4. \A e \in Range(map) : e \in S <=> (s.kind = "full" \/ e.date = s.today)
  OBVIOUS
<1>5. IsSeq(taken) /\ Range(taken) = S
  <2> HIDE DEF S
  <2>1. taken \in Seq(E)
    BY <1>2, OnlyPicks
  <2>2. Range(taken) = Range(map) \cap S
    BY <1>2, OnlyRange
  <2> HIDE DEF taken
  <2> QED
    BY <1>3, <2>1, <2>2, Sequential
<1> HIDE DEF S
<1>6. ASSUME NEW i \in DOMAIN D, NEW d \in WantedBy(s, D[i])
      PROVE  /\ ~NoEntry(taken, d)
             /\ Latest(D, Len(D), i, d) => LastEntry(taken, D, i, d)
  <2>1. d \in ReadDates(D[i]) /\ (s.kind = "full" \/ d = s.today)
    BY DEF WantedBy
  <2>2. ~NoEntry(map, d) /\ (Latest(D, Len(D), i, d) => LastEntry(map, D, i, d))
    BY <1>1, <2>1 DEF Sorted
  <2>3. \A e \in Range(map) : e.date = d => e \in S
    BY <1>4, <2>1
  <2>4. ~NoEntry(taken, d)
    <3>1. PICK e \in Range(map) : e.date = d
      BY <2>2 DEF NoEntry, Range
    <3>2. e \in Range(taken)
      BY <1>5, <2>3, <3>1
    <3> HIDE DEF taken
    <3> QED
      BY <3>1, <3>2 DEF NoEntry, Range
  <2>5. LastEntry(map, D, i, d) => LastEntry(taken, D, i, d)
    BY <1>2, <2>3, LastEntryKept
  <2> QED
    BY <2>2, <2>4, <2>5
<1>7. ASSUME NEW k \in DOMAIN taken PROVE taken[k].date \in ListedBy(s)
  <2>1. taken[k] \in S
    <3> HIDE DEF taken
    <3> QED
      BY <1>5 DEF Range
  <2>2. PICK m \in DOMAIN map : taken[k] = map[m]
    BY <1>3, <2>1 DEF Range
  <2>3. PICK i \in 1..Len(D) : map[m].date \in ReadDates(D[i])
    BY DEF Sorted
  <2>4. taken[k].date \in WantedBy(s, D[i])
    BY <1>3, <1>4, <2>1, <2>2, <2>3 DEF WantedBy
  <2> QED
    BY <1>1, <2>4 DEF ListedBy
<1> HIDE DEF taken
<1>8. \A d \in ListedBy(s) : ~NoEntry(taken, d)
  BY <1>6 DEF ListedBy
<1>9. Serving(s, taken, date, todo, table, places)
  BY <1>6, <1>7, <1>8 DEF Serving, Pending
<1> QED
  BY <1>5, <1>9 DEF taken, S

\* The next date is taken.
LEMMA NextServing ==
    ASSUME NEW s, NEW map, IsSeq(map), NEW date, NEW table, NEW places,
           Serving(s, map, date, <<>>, table, places), NEW c,
           NEW entries, entries = Only(map, {e \in Range(map) : e.date = c}), entries # <<>>
    PROVE  LET rest == Only(map, {e \in Range(map) : e.date # c})
               todo == [k \in DOMAIN entries |-> entries[k].canteen]
           IN  IsSeq(rest) /\ IsSeq(todo) /\ Serving(s, rest, c, todo, table, places)
<1> DEFINE S == {e \in Range(map) : e.date = c}
           U == {e \in Range(map) : e.date # c}
           rest == Only(map, U)
           todo == [k \in DOMAIN entries |-> entries[k].canteen]
<1>1. PICK E : map \in Seq(E)
  BY DEF IsSeq
<1>2. entries \in Seq(E) /\ Range(entries) = Range(map) \cap S
  <2> HIDE DEF S
  <2>1. Only(map, S) \in Seq(E) /\ Range(Only(map, S)) = Range(map) \cap S
    BY <1>1, OnlyPicks, OnlyRange
  <2> QED
    BY <2>1 DEF S
<1>3. PICK m \in DOMAIN map : map[m].date = c
  <2>1. 1 \in DOMAIN entries
    BY <1>2
  <2>2. PICK e \in Range(map) : e \in S
    BY <1>2, <2>1 DEF Range
  <2> QED
    BY <2>2 DEF Range
<1>4. ~NoEntry(map, c)
  BY <1>3 DEF NoEntry
<1>5. IsSeq(todo)
  <2>1. DOMAIN entries = 1..Len(entries) /\ Len(entries) \in Nat
    BY <1>2
  <2>2. todo = [k \in 1..Len(entries) |-> entries[k].canteen]
    BY <2>1
  <2> DEFINE F == {entries[k].canteen : k \in 1..Len(entries)}
  <2>3. todo \in [1..Len(entries) -> F]
    BY <2>2
  <2> HIDE DEF todo, F
  <2> QED
    BY <2>1, <2>3, FunctionIsSeq, Sequential
<1>6. IsSeq(rest) /\ Range(rest) \subseteq Range(map)
  <2> HIDE DEF U
  <2>1. rest \in Seq(E)
    BY <1>1, OnlyPicks
  <2>2. Range(rest) = Range(map) \cap U
    BY <1>1, OnlyRange
  <2> HIDE DEF rest
  <2> QED
    BY <2>1, <2>2, Sequential
<1>7. ASSUME NEW i \in DOMAIN s.docs, NEW d \in WantedBy(s, s.docs[i]),
             Latest(s.docs, Len(s.docs), i, d)
      PROVE  Pending(rest, c, todo, table, places, s.docs, i, d)
  <2>1. Pending(map, date, <<>>, table, places, s.docs, i, d)
    BY <1>7 DEF Serving
  <2> QED
    BY <1>1, <1>4, <2>1, NextDatePending
<1> HIDE DEF rest, todo
<1>8. \A k \in DOMAIN rest : rest[k].date \in ListedBy(s)
  <2>1. \A k \in DOMAIN rest : \E n \in DOMAIN map : rest[k] = map[n]
    BY <1>6 DEF Range
  <2> QED
    BY <2>1 DEF Serving
<1>9. c \in ListedBy(s)
  BY <1>3 DEF Serving
<1>10. Serving(s, rest, c, todo, table, places)
  BY <1>7, <1>8, <1>9 DEF Serving
<1> QED
  BY <1>5, <1>6, <1>10 DEF rest, todo, U

\* A canteen is resolved.
LEMMA ResolveServing ==
    ASSUME NEW s, \A i \in DOMAIN s.docs : s.docs[i] \in Document /\ Parsed(s.docs, i) # None,
           NEW map, NEW date, NEW todo, IsSeq(todo), todo # <<>>, NEW table, NEW places,
           Serving(s, map, date, todo, table, places),
           NEW canteen, canteen = Head(todo), NEW later, NEW placed,
           later = Upsert(table, <<canteen.name, date>>, canteen.lines),
           placed = Upsert(places, canteen.name, canteen.pos)
    PROVE  Serving(s, map, date, Tail(todo), later, placed)
<1>1. PICK E : todo \in Seq(E)
  BY DEF IsSeq
<1>2. ASSUME NEW i \in DOMAIN s.docs, NEW d \in WantedBy(s, s.docs[i]),
             Latest(s.docs, Len(s.docs), i, d)
      PROVE  Pending(map, date, Tail(todo), later, placed, s.docs, i, d)
  <2>1. Pending(map, date, todo, table, places, s.docs, i, d)
    BY <1>2 DEF Serving
  <2>2. \A e \in Range(Parsed(s.docs, i)) :
            e.canteen.name = s.docs[i].name /\ e.canteen.pos = i - 1
    BY ParsedEntries
  <2> QED
    BY <1>1, <2>1, <2>2, ResolvePending
<1> QED
  BY <1>2 DEF Serving

\* Nothing is left to resolve.
LEMMA FinishServed ==
    ASSUME NEW s, NEW date, NEW table, NEW places,
           Serving(s, <<>>, date, <<>>, table, places)
    PROVE  ServedAll(s, table, places)
<1>1. ASSUME NEW i \in DOMAIN s.docs, NEW d \in WantedBy(s, s.docs[i]),
             Latest(s.docs, Len(s.docs), i, d)
      PROVE  /\ ServedFrom(table, s.docs, i, d)
             /\ d = date => PlacedBy(places, s.docs, i)
  <2>1. Pending(<<>>, date, <<>>, table, places, s.docs, i, d)
    BY <1>1 DEF Serving
  <2>2. ~LastEntry(<<>>, s.docs, i, d) /\ ~LastTodo(<<>>, s.docs, i, d)
    BY DEF LastEntry, LastTodo
  <2> QED
    BY <2>1, <2>2 DEF Pending
<1>2. \A d : NoEntry(<<>>, d)
  BY DEF NoEntry
<1>3. date \in ListedBy(s) \/ ListedBy(s) = {}
  BY <1>2 DEF Serving
<1> QED
  BY <1>1, <1>3 DEF ServedAll

-----------------------------------------------------------------------------
(* The steps                                                               *)

\* What is served is up to what the job does next.
LEMMA IdleServes == ASSUME ServeInv, job' = Idle, seen' = None PROVE ServeInv'
<1>1. JobInv'
  BY IdleInv
<1>2. job'.pc = "idle"
  BY DEF Idle
<1> QED
  BY <1>1, <1>2 DEF ServeInv, AnswersFromSite, TransformSorts, SeenFromSite, ResolvingServes,
                    IdleServed

\* A job starts: nothing is seen yet.
LEMMA RequestServes ==
    ASSUME NEW kind, NEW today, NEW urls, IsSeq(urls), AskedList(urls),
           Request(kind, today, urls)
    PROVE  ServeInv'
<1>1. JobInv'
  BY RequestKeeps
<1>2. job' = [Idle EXCEPT !.pc = "get_html_strings", !.kind = kind, !.today = today,
                          !.urls = urls]
      /\ seen' = None
  BY DEF Request
<1>3. job'.pc = "get_html_strings" /\ job'.urls = urls /\ job'.answers = <<>>
      /\ job'.map = <<>> /\ job'.todo = <<>> /\ Idle.pc = "idle"
  BY <1>2 DEF Idle
<1>4. AnswersFromSite'
  BY <1>3 DEF AnswersFromSite
<1>5. job' # Idle
  BY <1>3
<1> QED
  BY <1>1, <1>2, <1>3, <1>4, <1>5
     DEF ServeInv, TransformSorts, SeenFromSite, ResolvingServes, IdleServed

\* An answer is of the page that was asked for.
LEMMA AnswerServes ==
    ASSUME ServeInv, NEW i \in Unanswered, NEW doc \in Site[job.urls[i]] \cup {None},
           job.pc = "get_html_strings", seen' = seen,
           job' = [job EXCEPT !.answers = Append(@, [url |-> i, doc |-> doc])]
    PROVE  ServeInv'
<1> DEFINE new == [url |-> i, doc |-> doc]
           old == job.answers
<1>1. JobInv'
  BY AnswerKeeps DEF ServeInv
<1>2. /\ job'.pc = "get_html_strings" /\ job'.urls = job.urls
      /\ job'.answers = Append(old, new) /\ job'.map = job.map /\ job'.todo = job.todo
  BY JobFieldNames DEF ServeInv, JobInv, JobHasShape
<1>3. new.url = i /\ new.doc = doc
  OBVIOUS
<1> HIDE DEF new
<1>4. PICK E : old \in Seq(E)
  BY DEF ServeInv, JobInv, AnswersApart, IsSeq
<1> HIDE DEF old
<1>5. \A k \in DOMAIN Append(old, new) :
          \/ k \in DOMAIN old /\ Append(old, new)[k] = old[k]
          \/ Append(old, new)[k] = new
  BY <1>4
<1>6. \A k \in DOMAIN old : old[k].doc \in Site[job.urls[old[k].url]] \cup {None}
  BY DEF ServeInv, AnswersFromSite, old
<1>7. \A k \in DOMAIN Append(old, new) :
          Append(old, new)[k].doc \in Site[job.urls[Append(old, new)[k].url]] \cup {None}
  BY <1>3, <1>5, <1>6
<1>8. AskedList(job.urls) /\ job.map = <<>> /\ job.todo = <<>> /\ seen = None
  BY DEF ServeInv, AnswersFromSite, SeenFromSite
<1>9. AnswersFromSite'
  BY <1>2, <1>7, <1>8 DEF AnswersFromSite
<1> QED
  BY <1>1, <1>2, <1>8, <1>9
     DEF ServeInv, TransformSorts, SeenFromSite, ResolvingServes, IdleServed

\* The documents in the order of the urls are pages of the website.
LEMMA GetHtmlStringsServes == ASSUME ServeInv, GetHtmlStrings PROVE ServeInv'
<1> DEFINE docs == Documents(job.answers)
<1>1. /\ job.pc = "get_html_strings" /\ Unanswered = {} /\ seen' = seen
      /\ job' = IF \E i \in DOMAIN docs : docs[i] = None THEN Idle
                ELSE [job EXCEPT !.pc = "transform", !.answers = <<>>, !.docs = docs]
  BY DEF GetHtmlStrings
<1>2. AskedList(job.urls) /\ job.map = <<>> /\ job.todo = <<>> /\ seen = None
  BY <1>1 DEF ServeInv, AnswersFromSite, SeenFromSite
<1>3. CASE \E i \in DOMAIN docs : docs[i] = None
  BY <1>1, <1>2, <1>3, IdleServes
<1>4. CASE \A i \in DOMAIN docs : docs[i] # None
  <2>1. job' = [job EXCEPT !.pc = "transform", !.answers = <<>>, !.docs = docs]
    BY <1>1, <1>4
  <2>2. JobInv'
    BY GetHtmlStringsKeeps DEF ServeInv
  <2>3. Len(job.answers) = Len(job.urls) /\ Len(job.urls) \in Nat
    BY <1>1, AsManyAnswers DEF ServeInv
  <2>4. DOMAIN job.answers = 1..Len(job.urls) /\ DOMAIN job.urls = 1..Len(job.urls)
    BY <1>1, <2>3 DEF ServeInv, JobInv, AnswersApart, IsSeq
  <2>5. DOMAIN docs = 1..Len(job.urls) /\ Len(docs) = Len(job.urls)
    <3>1. docs = [i \in 1..Len(job.urls) |-> docs[i]]
      BY <2>4 DEF Documents
    <3> HIDE DEF docs
    <3> QED
      BY <2>3, <3>1
  <2>6. ASSUME NEW i \in DOMAIN docs PROVE docs[i] \in Site[job.urls[i]]
    <3>1. i \in DOMAIN job.urls
      BY <2>4, <2>5
    <3>2. \E k \in DOMAIN job.answers : job.answers[k].url = i
      BY <1>1, <3>1 DEF Unanswered
    <3> DEFINE k == CHOOSE x \in DOMAIN job.answers : job.answers[x].url = i
    <3>3. k \in DOMAIN job.answers /\ job.answers[k].url = i
      BY <3>2
    <3>4. docs[i] = job.answers[k].doc
      BY <2>4, <2>5 DEF Documents
    <3> HIDE DEF k, docs
    <3>5. job.answers[k].doc \in Site[job.urls[i]] \cup {None}
      BY <1>1, <3>3 DEF ServeInv, AnswersFromSite
    <3> QED
      BY <1>4, <3>4, <3>5
  <2> HIDE DEF docs
  <2>7. FromSite(docs)
    BY <1>2, <2>5, <2>6 DEF AskedList, FromSite
  <2>8. /\ job'.pc = "transform" /\ job'.docs = docs /\ job'.map = job.map
        /\ job'.todo = job.todo /\ job'.position = job.position /\ Idle.pc = "idle"
    BY <2>1, JobFieldNames DEF ServeInv, JobInv, JobHasShape, Idle
  <2>9. job.position = 0
    BY <1>1 DEF ServeInv, JobInv, AnswersApart
  <2>10. Sorted(<<>>, docs, 0)
    BY DEF Sorted, IsSeq
  <2>11. TransformSorts'
    BY <1>2, <2>7, <2>8, <2>9, <2>10 DEF TransformSorts
  <2>12. job' # Idle /\ seen' = None
    BY <1>1, <1>2, <2>8
  <2> QED
    BY <2>2, <2>8, <2>11, <2>12
       DEF ServeInv, AnswersFromSite, SeenFromSite, ResolvingServes, IdleServed
<1> QED
  BY <1>3, <1>4

\* A page is read and sorted.
LEMMA ParseAndSortServes == ASSUME ServeInv, ParseAndSort PROVE ServeInv'
<1> DEFINE pos == job.position
           D == job.docs
           parsed == Parsed(D, pos + 1)
<1>1. pos \in 0..Len(D) /\ IsSeq(D) /\ job.pc = "transform" /\ Len(D) \in Nat
  BY DEF ServeInv, JobInv, DocumentsRead, ParseAndSort, IsSeq
<1>2. parsed = Transform(D[pos + 1], pos)
  BY <1>1 DEF Parsed
<1>3. /\ pos < Len(D) /\ seen' = seen
      /\ job' = IF parsed = None THEN Idle
                ELSE [job EXCEPT !.position = pos + 1, !.map = @ \o parsed]
  BY <1>2 DEF ParseAndSort
<1>4. FromSite(D) /\ Sorted(job.map, D, pos) /\ job.todo = <<>> /\ seen = None
  BY <1>1 DEF ServeInv, TransformSorts, SeenFromSite
<1>5. CASE parsed = None
  BY <1>3, <1>4, <1>5, IdleServes
<1>6. CASE parsed # None
  <2>1. job' = [job EXCEPT !.position = pos + 1, !.map = @ \o parsed]
    BY <1>3, <1>6
  <2>2. JobInv'
    BY ParseAndSortKeeps DEF ServeInv
  <2>3. D[pos + 1] \in Document /\ pos \in Nat
    <3>1. pos + 1 \in 1..Len(D) /\ pos \in Nat
      BY <1>1, <1>3
    <3> QED
      BY <1>1, <1>4, <3>1, SiteDocs
  <2>4. Sorted(job.map \o parsed, D, pos + 1)
    BY <1>4, <1>6, <2>3, SortAppends
  <2> HIDE DEF parsed
  <2>5. /\ job'.pc = "transform" /\ job'.docs = D /\ job'.map = job.map \o parsed
        /\ job'.todo = job.todo /\ job'.position = pos + 1 /\ Idle.pc = "idle"
    BY <1>1, <2>1, JobFieldNames DEF ServeInv, JobInv, JobHasShape, Idle
  <2>6. TransformSorts'
    BY <1>4, <2>4, <2>5 DEF TransformSorts
  <2>7. job' # Idle /\ seen' = None
    BY <1>3, <1>4, <2>5
  <2> QED
    BY <2>2, <2>5, <2>6, <2>7
       DEF ServeInv, AnswersFromSite, SeenFromSite, ResolvingServes, IdleServed
<1> QED
  BY <1>5, <1>6

\* The sorted pages are what the job has seen.
LEMMA StartResolvingServes == ASSUME ServeInv, StartResolving PROVE ServeInv'
<1> DEFINE s == [kind |-> job.kind, today |-> job.today, docs |-> job.docs]
           taken == Only(job.map, {e \in Range(job.map) : s.kind = "full" \/ e.date = s.today})
<1>1. s.kind = job.kind /\ s.today = job.today /\ s.docs = job.docs
  OBVIOUS
<1>2. /\ job.pc = "transform" /\ job.position = Len(job.docs) /\ seen' = s
      /\ UNCHANGED tables
      /\ job' = [job EXCEPT !.pc = "start_resolving", !.map = taken]
  BY Zenon, <1>1 DEF StartResolving
<1>3. JobInv'
  BY StartResolvingKeeps DEF ServeInv
<1> HIDE DEF s
<1>4. IsSeq(s.docs) /\ FromSite(s.docs) /\ Sorted(job.map, s.docs, Len(s.docs))
      /\ job.todo = <<>>
  BY <1>1, <1>2 DEF ServeInv, TransformSorts, JobInv, DocumentsRead
<1>5. IsSeq(taken) /\ Serving(s, taken, job.date, job.todo, served, position)
  BY <1>4, StartServing
<1> HIDE DEF taken
<1>6. /\ job'.pc = "start_resolving" /\ job'.map = taken /\ job'.todo = job.todo
      /\ job'.date = job.date /\ Idle.pc = "idle"
  BY <1>2, JobFieldNames DEF ServeInv, JobInv, JobHasShape, Idle
<1>7. IsSeq(job.todo)
  BY <1>4 DEF IsSeq
<1>8. ResolvingServes'
  BY <1>2, <1>5, <1>6, <1>7 DEF ResolvingServes, tables
<1>9. \A i \in DOMAIN s.docs : Parsed(s.docs, i) # None
  <2>1. DOMAIN s.docs = 1..Len(s.docs)
    BY <1>4 DEF IsSeq
  <2> QED
    BY <1>4, <2>1 DEF Sorted
<1>10. SeenFromSite'
  BY <1>2, <1>4, <1>6, <1>9 DEF SeenFromSite
<1>11. job' # Idle
  BY <1>6
<1> QED
  BY <1>3, <1>6, <1>8, <1>10, <1>11 DEF ServeInv, AnswersFromSite, TransformSorts, IdleServed

\* A step of resolving: what holds of the new map, canteens and tables is all there is.
LEMMA ResolvingGoesOn ==
    ASSUME ServeInv, NEW date, NEW todo, NEW map, job.pc = "start_resolving",
           GoesOn(date, todo, map), IsSeq(map), IsSeq(todo), seen' \in {seen, None},
           seen' # None => Serving(seen, map, date, todo, served', position')
    PROVE  ServeInv'
<1>1. JobInv'
  BY ResolvingKeeps DEF ServeInv
<1>2. /\ job'.pc = "start_resolving" /\ job'.map = map /\ job'.todo = todo
      /\ job'.date = date /\ Idle.pc = "idle"
  BY JobFieldNames DEF ServeInv, JobInv, JobHasShape, GoesOn, Idle
<1>3. SeenFromSite'
  BY <1>2 DEF ServeInv, SeenFromSite
<1>4. ResolvingServes'
  BY <1>2 DEF ResolvingServes
<1>5. job' # Idle
  BY <1>2
<1> QED
  BY <1>1, <1>2, <1>3, <1>4, <1>5 DEF ServeInv, AnswersFromSite, TransformSorts, IdleServed

\* The next date of the map.
LEMMA NextDateServes == ASSUME ServeInv, NEW d, NextDate(d) PROVE ServeInv'
<1> DEFINE entries == Only(job.map, {e \in Range(job.map) : e.date = d})
           rest == Only(job.map, {e \in Range(job.map) : e.date # d})
           todo == [k \in DOMAIN entries |-> entries[k].canteen]
<1>1. /\ job.pc = "start_resolving" /\ job.todo = <<>> /\ entries # <<>>
      /\ GoesOn(d, todo, rest) /\ UNCHANGED <<tables, seen>>
  BY Zenon DEF NextDate, GoesOn
<1>2. IsSeq(job.map) /\
      (seen # None => Serving(seen, job.map, job.date, <<>>, served, position))
  BY <1>1 DEF ServeInv, ResolvingServes
<1>3. IsSeq(rest) /\ IsSeq(todo)
  <2>1. PICK E : job.map \in Seq(E)
    BY <1>2 DEF IsSeq
  <2>2. \A S : Only(job.map, S) \in Seq(E)
    BY <2>1, OnlyPicks
  <2>3. IsSeq(rest)
    BY <2>2, Sequential
  <2>4. entries \in Seq(E)
    BY <2>2
  <2> HIDE DEF entries
  <2>5. DOMAIN entries = 1..Len(entries) /\ Len(entries) \in Nat
    BY <2>4
  <2> DEFINE F == {entries[k].canteen : k \in 1..Len(entries)}
  <2>6. todo \in [1..Len(entries) -> F]
    BY <2>5
  <2> HIDE DEF todo, F
  <2>7. IsSeq(todo)
    BY <2>5, <2>6, FunctionIsSeq, Sequential
  <2> QED
    BY <2>3, <2>7
<1>4. seen # None => Serving(seen, rest, d, todo, served, position)
  BY <1>1, <1>2, NextServing
<1> HIDE DEF rest, todo
<1>5. seen' = seen /\ served' = served /\ position' = position
  BY <1>1 DEF tables
<1> QED
  BY <1>1, <1>3, <1>4, <1>5, ResolvingGoesOn

\* A canteen is resolved.
LEMMA ResolveServes == ASSUME ServeInv, Resolve PROVE ServeInv'
<1> DEFINE canteen == Head(job.todo)
<1>1. /\ job.pc = "start_resolving" /\ job.todo # <<>> /\ seen' = seen
      /\ position' = Upsert(position, canteen.name, canteen.pos)
      /\ served' = Upsert(served, <<canteen.name, job.date>>, canteen.lines)
      /\ job' = [job EXCEPT !.todo = Tail(@)]
  BY DEF Resolve, UpdateCanteen
<1>2. GoesOn(job.date, Tail(job.todo), job.map)
  BY <1>1, OnlyTodo DEF ServeInv, JobInv
<1>3. IsSeq(job.map) /\ IsSeq(job.todo)
  BY <1>1 DEF ServeInv, ResolvingServes
<1>4. IsSeq(Tail(job.todo))
  <2>1. PICK E : job.todo \in Seq(E)
    BY <1>3 DEF IsSeq
  <2>2. Tail(job.todo) \in Seq(E)
    BY <1>1, <2>1
  <2> QED
    BY <2>2, Sequential
<1>5. ASSUME seen # None
      PROVE  Serving(seen, job.map, job.date, Tail(job.todo), served', position')
  <2>1. \A i \in DOMAIN seen.docs :
            seen.docs[i] \in Document /\ Parsed(seen.docs, i) # None
    <3>1. FromSite(seen.docs) /\ IsSeq(seen.docs)
          /\ \A i \in DOMAIN seen.docs : Parsed(seen.docs, i) # None
      BY <1>5 DEF ServeInv, SeenFromSite
    <3>2. DOMAIN seen.docs = 1..Len(seen.docs)
      BY <3>1 DEF IsSeq
    <3> QED
      BY <3>1, <3>2, SiteDocs
  <2>2. Serving(seen, job.map, job.date, job.todo, served, position)
    BY <1>1, <1>5 DEF ServeInv, ResolvingServes
  <2> QED
    BY <1>1, <1>3, <2>1, <2>2, ResolveServing
<1> QED
  BY <1>1, <1>2, <1>3, <1>4, <1>5, ResolvingGoesOn

\* An error takes back what the job has seen.
LEMMA ResolveWithErrorsServes == ASSUME ServeInv, ResolveWithErrors PROVE ServeInv'
<1>1. /\ job.pc = "start_resolving" /\ job.todo # <<>> /\ seen' = None
      /\ job' = [job EXCEPT !.todo = Tail(@)]
  BY DEF ResolveWithErrors
<1>2. GoesOn(job.date, Tail(job.todo), job.map)
  BY <1>1, OnlyTodo DEF ServeInv, JobInv
<1>3. IsSeq(job.map) /\ IsSeq(job.todo)
  BY <1>1 DEF ServeInv, ResolvingServes
<1>4. IsSeq(Tail(job.todo))
  <2>1. PICK E : job.todo \in Seq(E)
    BY <1>3 DEF IsSeq
  <2>2. Tail(job.todo) \in Seq(E)
    BY <1>1, <2>1
  <2> QED
    BY <2>2, Sequential
<1> QED
  BY <1>1, <1>2, <1>3, <1>4, ResolvingGoesOn

\* A job that is through has served all.
LEMMA FinishServes == ASSUME ServeInv, Finish PROVE ServeInv'
<1>1. /\ job.pc = "start_resolving" /\ job.todo = <<>> /\ job.map = <<>> /\ job' = Idle
      /\ served' = served /\ position' = position /\ seen' = seen
  BY DEF Finish, tables
<1>2. JobInv' /\ Idle.pc = "idle"
  BY <1>1, IdleInv DEF Idle
<1>3. seen # None => ServedAll(seen, served, position)
  BY <1>1, FinishServed DEF ServeInv, ResolvingServes
<1>4. IdleServed'
  BY <1>1, <1>3 DEF IdleServed
<1>5. SeenFromSite'
  BY <1>1, <1>2 DEF ServeInv, SeenFromSite
<1> QED
  BY <1>1, <1>2, <1>4, <1>5 DEF ServeInv, AnswersFromSite, TransformSorts, ResolvingServes

\* At the start nothing is seen.
LEMMA InitServes == Init => ServeInv
<1> SUFFICES ASSUME Init PROVE ServeInv
  OBVIOUS
<1>1. JobInv
  BY JobFieldNames DEF Init, Idle, JobInv, JobHasShape, AnswersApart, DocumentsRead
<1>2. job = Idle /\ seen = None /\ Idle.pc = "idle"
  BY DEF Init, Idle
<1> QED
  BY <1>1, <1>2 DEF ServeInv, AnswersFromSite, TransformSorts, SeenFromSite, ResolvingServes,
                    IdleServed

\* The invariant is kept by every step.
LEMMA NextServes == ServeInv /\ [Next]_vars => ServeInv'
<1> SUFFICES ASSUME ServeInv, [Next]_vars PROVE ServeInv'
  OBVIOUS
<1>1. CASE StartUpdateParsing \/ StartFullParsing
  <2>1. \A today \in Start : /\ AskedList(GetUrls(today)) /\ AskedList(GetAllUrls(today))
                             /\ IsSeq(GetUrls(today)) /\ IsSeq(GetAllUrls(today))
    BY UrlsAreSeq DEF AskedList
  <2> QED
    BY <1>1, <2>1, RequestServes DEF StartUpdateParsing, StartFullParsing
<1>2. CASE \E i \in Unanswered : GetHtml(i) \/ Timeout(i)
  BY <1>2, AnswerServes DEF GetHtml, Timeout
<1>3. CASE GetHtmlStrings
  BY <1>3, GetHtmlStringsServes
<1>4. CASE ParseAndSort
  BY <1>4, ParseAndSortServes
<1>5. CASE StartResolving
  BY <1>5, StartResolvingServes
<1>6. CASE \E d : NextDate(d)
  BY <1>6, NextDateServes
<1>7. CASE Resolve
  BY <1>7, ResolveServes
<1>8. CASE ResolveWithErrors
  BY <1>8, ResolveWithErrorsServes
<1>9. CASE Finish
  BY <1>9, FinishServes
<1>10. CASE UNCHANGED vars
  <2>1. JobInv'
    BY <1>10 DEF ServeInv, vars, JobInv, JobHasShape, AnswersApart, DocumentsRead
  <2> QED
    BY <1>10, <2>1 DEF ServeInv, vars, tables, AnswersFromSite, TransformSorts, SeenFromSite,
                       ResolvingServes, IdleServed
<1> QED
  BY <1>1, <1>2, <1>3, <1>4, <1>5, <1>6, <1>7, <1>8, <1>9, <1>10 DEF Next, Work

-----------------------------------------------------------------------------
(* What is served is what is listed                                        *)

\* The entry for a date has the plan of the tab with that date.
LEMMA EntryOfTab ==
    ASSUME NEW D, NEW i, D[i] \in Document, Len(D[i].nav) = Len(D[i].days),
           Parsed(D, i) # None,
           NEW e \in Range(Parsed(D, i))
    PROVE  \E k \in Tab(D[i], e.date) : /\ k \in DOMAIN D[i].days
                                        /\ e.canteen.lines = GetLines(D[i].days[k])
<1> DEFINE doc == D[i]
           dates == GetDates(doc)
           canteens == GetCanteenForAllDays(doc, i - 1)
<1>1. /\ Len(dates) = Len(canteens)
      /\ Parsed(D, i) = [k \in DOMAIN dates |-> [date |-> dates[k], canteen |-> canteens[k]]]
  BY DEF Parsed, Transform
<1>2. doc.nav \in Seq({Unreadable} \cup Nat) /\ doc.days \in Seq(Seq(LineNode))
  BY DEF Document
<1>3. Len(doc.nav) = Len(doc.days)
  OBVIOUS
<1>4. dates \in Seq({Unreadable} \cup Nat)
  BY <1>2, OnlyPicks DEF GetDates
<1>5. PICK k \in DOMAIN dates : e = [date |-> dates[k], canteen |-> canteens[k]]
  <2> HIDE DEF dates, canteens
  <2> QED
    BY <1>1 DEF Range
<1>6. k \in 1..Len(dates) /\ Len(dates) \in Nat
  BY <1>4
<1>7. doc.name # None
  <2> SUFFICES ASSUME doc.name = None PROVE FALSE
    OBVIOUS
  <2>1. Len(canteens) = 0
    BY DEF GetCanteenForAllDays
  <2> QED
    BY <1>1, <1>6, <2>1
<1>8. canteens = [x \in DOMAIN doc.days |->
                     [name |-> doc.name, lines |-> GetLines(doc.days[x]), pos |-> i - 1]]
  BY <1>7 DEF GetCanteenForAllDays
<1>9. Len(canteens) = Len(doc.days) /\ DOMAIN doc.days = 1..Len(doc.days)
      /\ DOMAIN doc.nav = 1..Len(doc.nav)
  <2>1. DOMAIN doc.days = 1..Len(doc.days) /\ Len(doc.days) \in Nat
    BY <1>2
  <2> QED
    BY <1>2, <1>8, <2>1
<1>10. k \in DOMAIN doc.days /\ k \in DOMAIN doc.nav
  BY <1>1, <1>3, <1>6, <1>9
<1>11. dates[k] = doc.nav[k]
  <2>1. Len(dates) = Len(doc.nav)
    BY <1>1, <1>3, <1>9
  <2> QED
    BY <1>2, <1>10, <2>1, OnlyAll DEF GetDates
<1>12. canteens[k].lines = GetLines(doc.days[k])
  BY <1>8, <1>10
<1> HIDE DEF dates, canteens
<1>13. e.date = doc.nav[k] /\ e.canteen.lines = GetLines(doc.days[k])
  BY <1>5, <1>11, <1>12
<1>14. k \in Tab(doc, e.date)
  BY <1>10, <1>13 DEF Tab
<1> QED
  BY <1>10, <1>13, <1>14

\* The url of every page the job has seen.
LEMMA SeenPages ==
    ASSUME NEW D, IsSeq(D), FromSite(D)
    PROVE  \A i \in DOMAIN D : D[i] \in Document /\ \E url \in Asked : D[i] \in Site[url]
<1>1. PICK today \in Start : \E urls \in {GetUrls(today), GetAllUrls(today)} :
          Len(D) = Len(urls) /\ \A i \in DOMAIN D : D[i] \in Site[urls[i]]
  BY DEF FromSite
<1>2. PICK urls \in {GetUrls(today), GetAllUrls(today)} :
          Len(D) = Len(urls) /\ \A i \in DOMAIN D : D[i] \in Site[urls[i]]
  BY <1>1
<1>3. IsSeq(urls)
  BY UrlsAreSeq
<1>4. DOMAIN D = 1..Len(D) /\ DOMAIN urls = 1..Len(urls)
  BY <1>3 DEF IsSeq
<1>5. \A i \in DOMAIN D : urls[i] \in Asked
  BY <1>2, <1>4 DEF Asked, Range
<1> QED
  BY <1>2, <1>4, <1>5, SiteDocs

\* No later page of the canteen has a date the job wanted: none has it at all.
LEMMA LatestWanted ==
    ASSUME NEW s, IsSeq(s.docs), NEW i \in DOMAIN s.docs, NEW d \in WantedBy(s, s.docs[i]),
           \A j \in DOMAIN s.docs :
              j > i /\ s.docs[j].name = s.docs[i].name => d \notin WantedBy(s, s.docs[j])
    PROVE  Latest(s.docs, Len(s.docs), i, d)
<1>1. DOMAIN s.docs = 1..Len(s.docs)
  BY DEF IsSeq
<1>2. d \in ReadDates(s.docs[i]) /\ (s.kind = "full" \/ d = s.today)
  BY DEF WantedBy
<1>3. \A j \in 1..Len(s.docs) :
          j > i /\ s.docs[j].name = s.docs[i].name => d \notin ReadDates(s.docs[j])
  BY <1>1, <1>2 DEF WantedBy
<1> QED
  BY <1>2, <1>3 DEF Latest

\* The dates wanted, of a job and of the last one.
LEMMA WantedIsWantedBy == \A doc : Wanted(doc) = WantedBy(seen, doc)
BY DEF Wanted, WantedBy, ReadDates

\* A page has a day for every tab, whatever else is wrong with it.
PagesCounted ==
    \A url \in Asked : \A doc \in Site[url] : doc.root => Len(doc.nav) = Len(doc.days)

\* After a job without errors the plan of a canteen and a date is what the parser
\* reads on the tab with that date of the last page of the canteen that has it.
ServedUnderItsDate ==
    job = Idle /\ seen # None =>
        \A i \in DOMAIN seen.docs : \A d \in Wanted(seen.docs[i]) :
            (\A j \in DOMAIN seen.docs :
                j > i /\ seen.docs[j].name = seen.docs[i].name => d \notin Wanted(seen.docs[j]))
            => \E k \in Tab(seen.docs[i], d) :
                  /\ k \in DOMAIN seen.docs[i].days
                  /\ served[seen.docs[i].name, d] = GetLines(seen.docs[i].days[k])

\* The lines served are those of the tab.
LEMMA UnderDateWhenServed == ASSUME ServeInv, PagesCounted PROVE ServedUnderItsDate
<1> DEFINE D == seen.docs
<1> SUFFICES ASSUME job = Idle, seen # None, NEW i \in DOMAIN D, NEW d \in Wanted(D[i]),
                    \A j \in DOMAIN D : j > i /\ D[j].name = D[i].name => d \notin Wanted(D[j])
             PROVE  \E k \in Tab(D[i], d) : /\ k \in DOMAIN D[i].days
                                            /\ served[D[i].name, d] = GetLines(D[i].days[k])
  BY DEF ServedUnderItsDate
<1>1. FromSite(D) /\ IsSeq(D) /\ Parsed(D, i) # None
  BY DEF ServeInv, SeenFromSite
<1>2. D[i] \in Document /\ \E url \in Asked : D[i] \in Site[url]
  BY <1>1, SeenPages
<1>3. D[i].root
  BY <1>1, <1>2, ParsedEntries
<1>4. Len(D[i].nav) = Len(D[i].days)
  BY <1>2, <1>3 DEF PagesCounted
<1>5. Latest(D, Len(D), i, d)
  BY <1>1, WantedIsWantedBy, LatestWanted
<1>6. ServedFrom(served, D, i, d)
  BY <1>5, WantedIsWantedBy DEF ServeInv, IdleServed, ServedAll
<1>7. PICK e \in Range(Parsed(D, i)) : e.date = d /\ served[D[i].name, d] = e.canteen.lines
  BY <1>6 DEF ServedFrom
<1>8. \E k \in Tab(D[i], e.date) :
          k \in DOMAIN D[i].days /\ e.canteen.lines = GetLines(D[i].days[k])
  <2> HIDE DEF D
  <2> QED
    BY <1>1, <1>2, <1>4, EntryOfTab
<1> QED
  BY <1>7, <1>8

\* What is served is what the pages list.
LEMMA ListedWhenServed == ASSUME ServeInv, PagesWellMade PROVE ServedAsListed
<1> DEFINE D == seen.docs
<1> SUFFICES ASSUME job = Idle, seen # None, NEW i \in DOMAIN D, NEW d \in Wanted(D[i]),
                    \A j \in DOMAIN D : j > i /\ D[j].name = D[i].name => d \notin Wanted(D[j])
             PROVE  \E k \in Tab(D[i], d) : Planned(served[D[i].name, d]) = OnTab(D[i], k)
  BY DEF ServedAsListed
<1>1. FromSite(D) /\ IsSeq(D) /\ Parsed(D, i) # None
  BY DEF ServeInv, SeenFromSite
<1>2. D[i] \in Document /\ \E url \in Asked : D[i] \in Site[url]
  BY <1>1, SeenPages
<1>3. D[i].root
  BY <1>1, <1>2, ParsedEntries
<1>4. WellMade(D[i])
  BY <1>2, <1>3 DEF PagesWellMade
<1>5. ServedUnderItsDate
  <2>1. PagesCounted
    BY DEF PagesWellMade, PagesCounted, WellMade
  <2> QED
    BY <2>1, UnderDateWhenServed
<1>6. PICK k \in Tab(D[i], d) :
          k \in DOMAIN D[i].days /\ served[D[i].name, d] = GetLines(D[i].days[k])
  BY <1>5 DEF ServedUnderItsDate
<1>7. Planned(GetLines(D[i].days[k])) = OnTab(D[i], k)
  BY <1>2, <1>4, <1>6, ParsedAsWritten
<1> QED
  BY <1>6, <1>7

\* For every configuration, every website and every order of the answers: if every page
\* of a canteen has a day for every tab, no plan moves to another date or another
\* canteen, whatever prices, codes, facts and names the pages have or lack.
THEOREM PlansUnderTheirDates == PagesCounted => (Spec => []ServedUnderItsDate)
<1> SUFFICES ASSUME PagesCounted PROVE Spec => []ServedUnderItsDate
  OBVIOUS
<1>1. ServeInv => ServedUnderItsDate
  BY UnderDateWhenServed
<1> QED
  BY <1>1, InitServes, NextServes, PTL DEF Spec

\* For every configuration, every website and every order of the answers: if the pages
\* are made as the parser takes them to be, the plan of a canteen and a date is, after a
\* job without errors, what the last page with that date has under it.
THEOREM PlansAsListed == PagesWellMade => (Spec => []ServedAsListed)
<1> SUFFICES ASSUME PagesWellMade PROVE Spec => []ServedAsListed
  OBVIOUS
<1>1. ServeInv => ServedAsListed
  BY ListedWhenServed
<1> QED
  BY <1>1, InitServes, NextServes, PTL DEF Spec

-----------------------------------------------------------------------------
(* The canteens in the order of the configuration                          *)

\* Lines of a multiplication table.
LEMMA Multiples ==
    ASSUME NEW n \in Nat, NEW a \in Nat, NEW b \in Nat, a < b
    PROVE  n * a + n <= n * b
<1>1. b - a - 1 \in Nat
  OBVIOUS
<1>2. n * (b - a - 1) \in Nat
  BY <1>1
<1>3. n * (b - a - 1) = n * b - n * a - n
  OBVIOUS
<1> QED
  BY <1>2, <1>3

\* t is the W sequences of s, of length n, one after the other.
WeekByWeek(t, s, n, W) ==
    /\ Len(t) = n * W
    /\ \A w \in 1..W : \A c \in 1..n : t[n * (w - 1) + c] = s[w][c]

\* Weeks of equal length one after the other.
LEMMA FlattenedWeeks ==
    ASSUME NEW E, NEW n \in Nat, NEW W \in Nat, NEW s \in [1..W -> Seq(E)],
           \A w \in 1..W : Len(s[w]) = n
    PROVE  WeekByWeek(FlattenSeq(s), s, n, W)
<1>1. s \in Seq(Seq(E)) /\ Len(s) = W
  OBVIOUS
<1>2. CASE W = 0
  <2>1. FlattenSeq(s) = <<>>
    <3>1. Len(s) = 0
      BY <1>1, <1>2
    <3> QED
      BY <1>1, <3>1 DEF FlattenSeq
  <2> QED
    BY <1>2, <2>1 DEF WeekByWeek
<1>3. CASE W # 0
  <2> DEFINE f == CHOOSE g : Joined(g, s, W)
             Good(m) == /\ f[m] \in Seq(E) /\ Len(f[m]) = n * m
                        /\ \A w \in 1..m : \A c \in 1..n : f[m][n * (w - 1) + c] = s[w][c]
             T == {m \in 1..W : ~Good(m)}
  <2>1. FlattenSeq(s) = f[W]
    BY <1>1, <1>3, Zenon DEF FlattenSeq, Joined
  <2>2. Joined(f, s, W)
    BY JoinedExists
  <2> HIDE DEF f
  <2>3. T = {}
    <3> SUFFICES ASSUME T # {} PROVE FALSE
      OBVIOUS
    <3>1. PICK m \in T : \A k \in T : m <= k
      <4>1. T \in SUBSET Nat
        OBVIOUS
      <4> HIDE DEF T
      <4> QED
        BY <4>1, LeastNumber
    <3>2. m \in 1..W /\ ~Good(m)
      BY <3>1
    <3> HIDE DEF Good, T
    <3>3. f[m] = IF m = 1 THEN s[m] ELSE f[m - 1] \o s[m]
      BY <2>2, <3>2 DEF Joined
    <3>4. s[m] \in Seq(E) /\ Len(s[m]) = n /\ DOMAIN s[m] = 1..n
      BY <3>2
    <3>5. CASE m = 1
      <4>1. f[m] = s[m] /\ n * m = n
        BY <3>3, <3>5
      <4>2. \A w \in 1..m : \A c \in 1..n : w = m /\ n * (w - 1) + c = c
        BY <3>5
      <4>3. \A w \in 1..m : \A c \in 1..n : f[m][n * (w - 1) + c] = s[w][c]
        <5> SUFFICES ASSUME NEW w \in 1..m, NEW c \in 1..n
                     PROVE  f[m][n * (w - 1) + c] = s[w][c]
          OBVIOUS
        <5> QED
          BY <4>1, <4>2
      <4>4. Good(m)
        BY <3>4, <4>1, <4>3 DEF Good
      <4> QED
        BY <3>2, <4>4
    <3>6. CASE m # 1
      <4> DEFINE p == m - 1
      <4>1. p \in 1..W /\ p < m
        BY <3>2, <3>6
      <4>2. Good(p)
        <5>1. p \notin T
          BY <3>1, <3>2, <4>1
        <5> QED
          BY <4>1, <5>1 DEF T
      <4>3. /\ f[p] \in Seq(E) /\ Len(f[p]) = n * p
            /\ \A w \in 1..p : \A c \in 1..n : f[p][n * (w - 1) + c] = s[w][c]
        BY <4>2 DEF Good
      <4>4. n * p \in Nat /\ n * p + n = n * m
        <5>1. m \in Nat /\ p \in Nat
          BY <3>2, <4>1
        <5>2. n * p = n * m - n
          BY <5>1
        <5> QED
          BY <5>1, <5>2
      <4>5. f[m] = f[p] \o s[m]
        BY <3>3, <3>6
      <4> HIDE DEF p
      <4>6. /\ f[m] \in Seq(E) /\ Len(f[m]) = n * p + n
            /\ \A k \in 1..(n * p) : f[m][k] = f[p][k]
            /\ \A k \in 1..n : f[m][n * p + k] = s[m][k]
        <5> DEFINE u == f[p]
                   v == s[m]
                   l == n * p
        <5>1. u \in Seq(E) /\ v \in Seq(E) /\ Len(u) = l /\ Len(v) = n /\ l \in Nat
          BY <3>4, <4>3, <4>4
        <5>2. f[m] = u \o v
          BY <4>5
        <5> HIDE DEF u, v, l
        <5>3. /\ u \o v \in Seq(E) /\ Len(u \o v) = l + n
              /\ \A k \in 1..l : (u \o v)[k] = u[k]
              /\ \A k \in 1..n : (u \o v)[l + k] = v[k]
          BY <5>1
        <5> QED
          BY <5>2, <5>3 DEF u, v, l
      <4>7. ASSUME NEW w \in 1..m, NEW c \in 1..n
            PROVE  f[m][n * (w - 1) + c] = s[w][c]
        <5>1. CASE w = m
          BY <4>6, <5>1 DEF p
        <5>2. CASE w # m
          <6>1. w \in 1..p /\ w - 1 \in Nat /\ w - 1 < p /\ p \in Nat
            BY <3>2, <4>1, <5>2 DEF p
          <6>2. n * (w - 1) + n <= n * p
            BY <6>1, Multiples
          <6>3. n * (w - 1) \in Nat
            BY <6>1
          <6>4. n * (w - 1) + c \in 1..(n * p)
            BY <4>4, <6>2, <6>3
          <6> QED
            BY <4>3, <4>6, <6>1, <6>4
        <5> QED
          BY <5>1, <5>2
      <4>8. Good(m)
        BY <4>4, <4>6, <4>7 DEF Good
      <4> QED
        BY <3>2, <4>8
    <3> QED
      BY <3>5, <3>6
  <2>4. Good(W)
    BY <1>3, <2>3
  <2>5. WeekByWeek(f[W], s, n, W)
    BY <2>4 DEF WeekByWeek
  <2> QED
    BY <2>1, <2>5
<1> QED
  BY <1>2, <1>3

\* Every list of urls has the canteens in their order, week by week.
ByWeek(urls) ==
    \E W \in Nat :
        /\ Len(urls) = Len(Canteens) * W
        /\ \A w \in 1..W : \A c \in 1..Len(Canteens) :
              urls[Len(Canteens) * (w - 1) + c][1] = Canteens[c]

\* Both jobs ask week by week.
LEMMA UrlsByWeek == \A today : ByWeek(GetUrls(today)) /\ ByWeek(GetAllUrls(today))
<1> TAKE today
<1> DEFINE n == Len(Canteens)
           start(w) == today + DaysPerWeek * (w - 1)
           weeks == [w \in 1..WeeksToPoll |-> GetUrls(start(w))]
           E == {<<Canteens[i], CalendarWeek(start(w))>> : i \in 1..n, w \in 1..WeeksToPoll}
<1>1. n \in Nat /\ DOMAIN Canteens = 1..n /\ WeeksToPoll \in Nat
  BY LinksAssumption
<1>2. \A d : /\ GetUrls(d) = [i \in 1..n |-> <<Canteens[i], CalendarWeek(d)>>]
             /\ Len(GetUrls(d)) = n
             /\ \A c \in 1..n : GetUrls(d)[c][1] = Canteens[c]
  <2> TAKE d
  <2>1. GetUrls(d) = [i \in 1..n |-> <<Canteens[i], CalendarWeek(d)>>]
    BY <1>1 DEF GetUrls
  <2> QED
    BY <1>1, <2>1
<1>3. ByWeek(GetUrls(today))
  <2>1. Len(GetUrls(today)) = n * 1
    BY <1>1, <1>2
  <2>2. \A w \in 1..1 : \A c \in 1..n : n * (w - 1) + c = c
    BY <1>1
  <2>3. \A w \in 1..1 : \A c \in 1..n : GetUrls(today)[n * (w - 1) + c][1] = Canteens[c]
    BY <1>2, <2>2
  <2> QED
    BY <2>1, <2>3 DEF ByWeek
<1>4. ByWeek(GetAllUrls(today))
  <2>1. weeks \in [1..WeeksToPoll -> Seq(E)]
    <3> SUFFICES ASSUME NEW w \in 1..WeeksToPoll PROVE GetUrls(start(w)) \in Seq(E)
      OBVIOUS
    <3>1. \A i \in 1..n : <<Canteens[i], CalendarWeek(start(w))>> \in E
      OBVIOUS
    <3> HIDE DEF E
    <3> QED
      BY <1>1, <1>2, <3>1
  <2>2. \A w \in 1..WeeksToPoll : Len(weeks[w]) = n
    BY <1>2
  <2>3. \A w \in 1..WeeksToPoll : \A c \in 1..n : weeks[w][c][1] = Canteens[c]
    BY <1>2
  <2>4. GetAllUrls(today) = FlattenSeq(weeks)
    BY DEF GetAllUrls
  <2> HIDE DEF weeks, E, n
  <2>5. WeekByWeek(FlattenSeq(weeks), weeks, n, WeeksToPoll)
    BY <1>1, <2>1, <2>2, FlattenedWeeks
  <2>6. Len(GetAllUrls(today)) = n * WeeksToPoll
    BY <2>4, <2>5 DEF WeekByWeek
  <2>7. ASSUME NEW w \in 1..WeeksToPoll, NEW c \in 1..n
        PROVE  GetAllUrls(today)[n * (w - 1) + c][1] = Canteens[c]
    BY <2>3, <2>4, <2>5 DEF WeekByWeek
  <2> QED
    BY <1>1, <2>6, <2>7 DEF ByWeek, n
<1> QED
  BY <1>3, <1>4

\* The c-th page of the w-th week, of n canteens.
PageOf(n, w, c) == n * (w - 1) + c

\* Where a page stands, and the week it is of.
LEMMA PageOfWeek ==
    ASSUME NEW n \in Nat \ {0}, NEW W \in Nat, NEW w \in 1..W, NEW c \in 1..n
    PROVE  /\ PageOf(n, w, c) \in 1..(n * W)
           /\ (PageOf(n, w, c) - 1) \div n = w - 1
<1> DEFINE q == w - 1
           l == n * q
<1>1. q \in Nat /\ q < W /\ l \in Nat
  OBVIOUS
<1>2. l + n <= n * W /\ n * W \in Nat
  BY <1>1, Multiples
<1>3. PageOf(n, w, c) = l + c
  BY DEF PageOf
<1>4. (n * q + c - 1) \div n = q
  <2> HIDE DEF q, l
  <2> QED
    BY <1>1
<1>5. PageOf(n, w, c) - 1 = n * q + c - 1
  BY <1>3
<1> HIDE DEF q, l
<1>6. l + c \in 1..(n * W)
  BY <1>1, <1>2
<1> QED
  BY <1>3, <1>4, <1>5, <1>6 DEF q

\* Every page is of a week and a canteen.
LEMMA EveryPageOfWeek ==
    ASSUME NEW n \in Nat \ {0}, NEW W \in Nat, NEW x \in 1..(n * W)
    PROVE  \E w \in 1..W : \E c \in 1..n : x = PageOf(n, w, c)
<1> DEFINE q == (x - 1) \div n
           r == (x - 1) % n
<1>1. x \in Nat /\ x - 1 \in Nat /\ n * W \in Nat /\ x <= n * W
  OBVIOUS
<1>2. q \in Nat /\ r \in 0..(n - 1) /\ x - 1 = n * q + r
  BY <1>1
<1> HIDE DEF q, r
<1>3. q < W
  <2> SUFFICES ASSUME W <= q PROVE FALSE
    BY <1>2
  <2>1. W = q \/ W < q
    BY <1>2
  <2>2. n * W <= n * q
    BY <1>2, <2>1, Multiples
  <2>3. n * q \in Nat
    BY <1>2
  <2> QED
    BY <1>1, <1>2, <2>2, <2>3
<1>4. q + 1 \in 1..W /\ r + 1 \in 1..n
  BY <1>2, <1>3
<1>5. x = PageOf(n, q + 1, r + 1)
  <2>1. (q + 1) - 1 = q /\ n * q \in Nat
    BY <1>2
  <2> QED
    BY <1>1, <1>2, <2>1 DEF PageOf
<1> QED
  BY <1>4, <1>5

\* Of two pages of a canteen, the later one is of a later week.
LEMMA LaterWeek ==
    ASSUME NEW n \in Nat \ {0}, NEW v \in Nat \ {0}, NEW w \in Nat \ {0}, NEW c \in 1..n,
           PageOf(n, v, c) > PageOf(n, w, c)
    PROVE  v > w
<1> SUFFICES ASSUME v <= w PROVE FALSE
  OBVIOUS
<1> DEFINE a == v - 1
           b == w - 1
<1>1. a \in Nat /\ b \in Nat /\ (a = b \/ a < b)
  OBVIOUS
<1>2. PageOf(n, v, c) = n * a + c /\ PageOf(n, w, c) = n * b + c
  BY DEF PageOf
<1> HIDE DEF a, b
<1>3. n * a <= n * b
  BY <1>1, Multiples
<1>4. n * a \in Nat /\ n * b \in Nat
  BY <1>1
<1> QED
  BY <1>2, <1>3, <1>4

\* The pages of a job week by week, in each the canteens in their order.
PagesByWeek(D, W) ==
    /\ Len(D) = Len(Canteens) * W
    /\ \A w \in 1..W : \A c \in 1..Len(Canteens) :
          \E url \in Asked : /\ D[PageOf(Len(Canteens), w, c)] \in Site[url]
                             /\ url[1] = Canteens[c]

\* The pages a job has seen are those.
LEMMA SeenByWeek ==
    ASSUME NEW D, IsSeq(D), FromSite(D), Len(Canteens) # 0
    PROVE  \E W \in Nat : PagesByWeek(D, W)
<1> DEFINE n == Len(Canteens)
<1>1. PICK today \in Start : \E urls \in {GetUrls(today), GetAllUrls(today)} :
          Len(D) = Len(urls) /\ \A i \in DOMAIN D : D[i] \in Site[urls[i]]
  BY DEF FromSite
<1>2. PICK urls \in {GetUrls(today), GetAllUrls(today)} :
          Len(D) = Len(urls) /\ \A i \in DOMAIN D : D[i] \in Site[urls[i]]
  BY <1>1
<1>3. IsSeq(urls) /\ ByWeek(urls)
  BY UrlsAreSeq, UrlsByWeek
<1>4. DOMAIN D = 1..Len(D) /\ DOMAIN urls = 1..Len(urls)
  BY <1>3 DEF IsSeq
<1>5. PICK W \in Nat :
          /\ Len(urls) = n * W
          /\ \A w \in 1..W : \A c \in 1..n : urls[PageOf(n, w, c)][1] = Canteens[c]
  BY <1>3 DEF ByWeek, PageOf
<1>6. n \in Nat \ {0}
  BY LinksAssumption
<1> HIDE DEF n
<1>7. ASSUME NEW w \in 1..W, NEW c \in 1..n
      PROVE  \E url \in Asked : D[PageOf(n, w, c)] \in Site[url] /\ url[1] = Canteens[c]
  <2> DEFINE x == PageOf(n, w, c)
  <2>1. x \in 1..(n * W)
    BY <1>6, PageOfWeek
  <2>2. x \in DOMAIN D /\ x \in DOMAIN urls
    BY <1>2, <1>4, <1>5, <2>1
  <2>3. urls[x] \in Asked
    BY <1>2, <2>2 DEF Asked, Range
  <2>4. D[x] \in Site[urls[x]] /\ urls[x][1] = Canteens[c]
    BY <1>2, <1>5, <2>2
  <2> QED
    BY <2>3, <2>4
<1>8. PagesByWeek(D, W)
  BY <1>2, <1>5, <1>7 DEF PagesByWeek, n
<1> QED
  BY <1>8

\* The name of a page is that of its canteen, in every week.
NamedByWeek(D, W) ==
    \A v, w \in 1..W : \A b, c \in 1..Len(Canteens) :
        D[PageOf(Len(Canteens), v, b)].name = D[PageOf(Len(Canteens), w, c)].name <=> b = c

LEMMA NamesByWeek ==
    ASSUME NEW D, NEW W \in Nat, PagesByWeek(D, W), PagesNamed, \A i \in 1..Len(D) : D[i].root,
           Len(Canteens) # 0
    PROVE  NamedByWeek(D, W)
<1> SUFFICES ASSUME NEW v \in 1..W, NEW w \in 1..W,
                    NEW b \in 1..Len(Canteens), NEW c \in 1..Len(Canteens)
             PROVE  D[PageOf(Len(Canteens), v, b)].name = D[PageOf(Len(Canteens), w, c)].name
                    <=> b = c
  BY DEF NamedByWeek
<1> DEFINE n == Len(Canteens)
           p == D[PageOf(n, v, b)]
           q == D[PageOf(n, w, c)]
<1>1. n \in Nat \ {0} /\ DOMAIN Canteens = 1..n
  BY LinksAssumption
<1>2. PICK x \in Asked : p \in Site[x] /\ x[1] = Canteens[b]
  BY DEF PagesByWeek
<1>3. PICK y \in Asked : q \in Site[y] /\ y[1] = Canteens[c]
  BY DEF PagesByWeek
<1>4. p.root /\ q.root
  <2>1. PageOf(n, v, b) \in 1..(n * W) /\ PageOf(n, w, c) \in 1..(n * W)
    <3> HIDE DEF n
    <3>1. b \in 1..n /\ c \in 1..n
      BY DEF n
    <3> QED
      BY <1>1, <3>1, PageOfWeek
  <2>2. Len(D) = n * W
    BY DEF PagesByWeek
  <2> QED
    BY <2>1, <2>2
<1> HIDE DEF p, q
<1>5. p.name = q.name <=> x[1] = y[1]
  BY <1>2, <1>3, <1>4 DEF PagesNamed
<1>6. Canteens[b] = Canteens[c] <=> b = c
  BY <1>1 DEF PagesNamed
<1> QED
  BY <1>2, <1>3, <1>5, <1>6 DEF p, q

\* Of a set of numbers up to W there is a greatest.
LEMMA GreatestNumber ==
    ASSUME NEW W \in Nat, NEW T \in SUBSET (1..W), T # {}
    PROVE  \E m \in T : \A k \in T : k <= m
<1> DEFINE U == {W - k : k \in T}
<1>1. \A k \in T : k \in Nat /\ W - k \in Nat /\ W - k \in U
  OBVIOUS
<1>2. PICK u \in U : \A x \in U : u <= x
  <2>1. U \in SUBSET Nat /\ U # {}
    BY <1>1
  <2> HIDE DEF U
  <2> QED
    BY <2>1, LeastNumber
<1>3. PICK m \in T : u = W - m
  OBVIOUS
<1> HIDE DEF U
<1>4. \A k \in T : W - m <= W - k
  BY <1>1, <1>2, <1>3
<1>5. \A k \in T : k <= m
  BY <1>1, <1>4
<1> QED
  BY <1>5

\* The last week that lists a date gives the canteens their positions.
LEMMA InOrderWhenServed == ASSUME ServeInv, PagesNamed PROVE CanteensInOrder
<1> DEFINE D == seen.docs
           n == Len(Canteens)
           weekOf(i) == (i - 1) \div n
<1> SUFFICES ASSUME job = Idle, seen # None, UNION {Wanted(D[i]) : i \in DOMAIN D} # {},
                    \A i, j \in DOMAIN D :
                       weekOf(i) = weekOf(j) => Wanted(D[i]) = Wanted(D[j]),
                    NEW i \in 1..n, NEW j \in 1..n, i < j
             PROVE  position[D[i].name] < position[D[j].name]
  BY DEF CanteensInOrder
<1>1. FromSite(D) /\ IsSeq(D) /\ \A k \in DOMAIN D : Parsed(D, k) # None
  BY DEF ServeInv, SeenFromSite
<1>2. DOMAIN D = 1..Len(D)
  BY <1>1 DEF IsSeq
<1>3. \A k \in 1..Len(D) : D[k].root
  BY <1>1, <1>2, SiteDocs, ParsedEntries
<1>4. n \in Nat \ {0}
  BY LinksAssumption
<1>5. PICK W \in Nat : PagesByWeek(D, W)
  BY <1>1, <1>4, SeenByWeek
<1>6. Len(D) = n * W
  BY <1>5 DEF PagesByWeek
<1>7. \A v, w \in 1..W : \A b, c \in 1..n :
          D[PageOf(n, v, b)].name = D[PageOf(n, w, c)].name <=> b = c
  <2> HIDE DEF D, weekOf
  <2>1. NamedByWeek(D, W)
    BY <1>3, <1>4, <1>5, NamesByWeek
  <2> QED
    BY <2>1 DEF NamedByWeek
<1>8. ListedBy(seen) # {}
  BY WantedIsWantedBy DEF ListedBy
<1>9. PICK date \in ListedBy(seen) : \A k \in DOMAIN D :
          date \in WantedBy(seen, D[k]) /\ Latest(D, Len(D), k, date) => PlacedBy(position, D, k)
  BY <1>8 DEF ServeInv, IdleServed, ServedAll
<1> HIDE DEF n
<1>10. \A w \in 1..W : \A c \in 1..n :
           PageOf(n, w, c) \in DOMAIN D /\ weekOf(PageOf(n, w, c)) = w - 1
  BY <1>2, <1>4, <1>6, PageOfWeek
<1>11. \A k \in DOMAIN D : \E w \in 1..W : \E c \in 1..n : k = PageOf(n, w, c)
  <2> SUFFICES ASSUME NEW k \in DOMAIN D
               PROVE  \E w \in 1..W : \E c \in 1..n : k = PageOf(n, w, c)
    OBVIOUS
  <2>1. k \in 1..(n * W)
    BY <1>2, <1>6
  <2> QED
    BY <1>4, <2>1, EveryPageOfWeek
<1> HIDE DEF weekOf
<1> DEFINE T == {w \in 1..W : \E c \in 1..n : date \in WantedBy(seen, D[PageOf(n, w, c)])}
<1>12. T # {}
  <2>1. PICK k \in DOMAIN D : date \in WantedBy(seen, D[k])
    BY <1>9 DEF ListedBy
  <2> QED
    BY <1>11, <2>1
<1>13. PICK last \in T : \A w \in T : w <= last
  <2>1. T \in SUBSET (1..W)
    OBVIOUS
  <2> HIDE DEF T
  <2> QED
    BY <1>12, <2>1, GreatestNumber
<1>14. last \in 1..W /\ \E c \in 1..n : date \in WantedBy(seen, D[PageOf(n, last, c)])
  OBVIOUS
<1>15. \A w \in 1..W : \A c \in 1..n :
           date \in WantedBy(seen, D[PageOf(n, w, c)]) => w <= last
  BY <1>13
<1> HIDE DEF T
<1>16. ASSUME NEW c \in 1..n
       PROVE  position[D[PageOf(n, last, c)].name] = PageOf(n, last, c) - 1
  <2> DEFINE x == PageOf(n, last, c)
  <2>1. date \in WantedBy(seen, D[x])
    <3>1. PICK b \in 1..n : date \in WantedBy(seen, D[PageOf(n, last, b)])
      BY <1>14
    <3>2. weekOf(x) = weekOf(PageOf(n, last, b))
      BY <1>10, <1>14
    <3> QED
      BY <1>10, <1>14, <3>1, <3>2, WantedIsWantedBy
  <2>2. ASSUME NEW k \in DOMAIN D, k > x, D[k].name = D[x].name
        PROVE  date \notin WantedBy(seen, D[k])
    <3>1. PICK w \in 1..W : \E b \in 1..n : k = PageOf(n, w, b)
      BY <1>11
    <3>2. PICK b \in 1..n : k = PageOf(n, w, b)
      BY <3>1
    <3>3. b = c
      BY <1>7, <1>14, <2>2, <3>2
    <3>4. w > last
      <4>1. w \in Nat \ {0} /\ last \in Nat \ {0}
        BY <1>14
      <4> QED
        BY <1>4, <2>2, <3>2, <3>3, <4>1, LaterWeek
    <3>5. ~(w <= last)
      BY <1>14, <3>4
    <3> QED
      BY <1>15, <3>2, <3>5
  <2>3. x \in DOMAIN D
    BY <1>10, <1>14
  <2> HIDE DEF x
  <2>4. Latest(D, Len(D), x, date)
    BY <1>1, <2>1, <2>2, <2>3, LatestWanted
  <2>5. PlacedBy(position, D, x)
    BY <1>9, <2>1, <2>3, <2>4
  <2> QED
    BY <2>5 DEF PlacedBy, x
<1>17. \A c \in 1..n : D[c].name = D[PageOf(n, last, c)].name
  <2> SUFFICES ASSUME NEW c \in 1..n PROVE D[c].name = D[PageOf(n, last, c)].name
    OBVIOUS
  <2>1. PageOf(n, 1, c) = c
    BY <1>4 DEF PageOf
  <2>2. 1 \in 1..W
    BY <1>14
  <2> QED
    BY <1>7, <1>14, <2>1, <2>2
<1>18. PageOf(n, last, i) < PageOf(n, last, j)
       /\ PageOf(n, last, i) \in Int /\ PageOf(n, last, j) \in Int
  <2>1. n * (last - 1) \in Int
    BY <1>4, <1>14
  <2> QED
    BY <1>4, <2>1 DEF PageOf
<1> QED
  BY <1>16, <1>17, <1>18

\* For every configuration, every website and every order of the answers: if every page
\* of a canteen carries its name and no canteen is configured twice, the app lists the
\* canteens in the order of the configuration after a job without errors in which
\* the canteens of a week all listed the same dates.
THEOREM CanteensListedInOrder == PagesNamed => (Spec => []CanteensInOrder)
<1> SUFFICES ASSUME PagesNamed PROVE Spec => []CanteensInOrder
  OBVIOUS
<1>1. ServeInv => CanteensInOrder
  BY InOrderWhenServed
<1> QED
  BY <1>1, InitServes, NextServes, PTL DEF Spec
=============================================================================
