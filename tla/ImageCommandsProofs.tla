------------------------ MODULE ImageCommandsProofs ------------------------
(* Theorems about ImageCommands for any numbers of pictures, users and     *)
(* handlers, any barrier and any number of days.                           *)
EXTENDS ImageCommands, FiniteSetTheorems, TLAPS

-----------------------------------------------------------------------------
(* Type correctness                                                        *)

LEMMA InitTypeOK == Init => TypeOK
  BY NumbersAssumption DEF Init, TypeOK, Idle

LEMMA HandlerPCs ==
  ASSUME TypeOK, NEW r \in Request
  PROVE  /\ req[r].pc \in ReportPC => req[r] \in ReportHandler
         /\ req[r].pc \in UploadPC \cup DeletePC => req[r] \in FileHandler
         /\ req[r] # Idle => req[r].img \in used /\ req[r].pc \in PC
         /\ req[r] = Idle <=> req[r].pc = "idle"
<1>1. CASE req[r] \in ReportHandler
  <2>1. req[r].pc \in ReportPC /\ req[r].img \in used
    BY <1>1 DEF ReportHandler
  <2>2. req[r].pc \in PC \ (UploadPC \cup DeletePC) /\ req[r].pc # "idle"
    BY <2>1 DEF ReportPC, UploadPC, DeletePC, PC
  <2> QED
    BY <1>1, <2>1, <2>2 DEF Idle
<1>2. CASE req[r] \in FileHandler
  <2>1. req[r].pc \in UploadPC \cup DeletePC /\ req[r].img \in used
    BY <1>2 DEF FileHandler
  <2>2. req[r].pc \in PC \ ReportPC /\ req[r].pc # "idle"
    BY <2>1 DEF ReportPC, UploadPC, DeletePC, PC
  <2> QED
    BY <1>2, <2>1, <2>2 DEF Idle
<1>3. CASE req[r] = Idle
  <2>1. req[r].pc \notin PC
    BY <1>3 DEF Idle, ReportPC, UploadPC, DeletePC, PC
  <2> QED
    BY <1>3, <2>1 DEF PC, Idle
<1> QED
  BY <1>1, <1>2, <1>3 DEF TypeOK

LEMMA HandlerFields ==
  ASSUME TypeOK, NEW r \in Request, req[r] # Idle
  PROVE  req[r].img \in Image /\ req[r].seen \in Nat
<1>1. CASE req[r] \in ReportHandler
  BY <1>1 DEF ReportHandler, TypeOK
<1>2. CASE req[r] \in FileHandler
  <2>1. req[r].img \in used /\ req[r].seen = 0
    BY <1>2 DEF FileHandler
  <2> QED
    BY <2>1 DEF TypeOK
<1> QED
  BY <1>1, <1>2 DEF TypeOK

LEMMA ReportsFinite ==
  ASSUME NEW S \in SUBSET User
  PROVE  IsFiniteSet(S) /\ Cardinality(S) \in Nat
  BY SetsAssumption, FS_Subset, FS_CardinalityType

LEMMA DeleteRowTypeOK ==
  ASSUME TypeOK, NEW i \in Image, DeleteRow(i)
  PROVE  /\ linked' \subseteq used
         /\ visible' \subseteq linked'
         /\ approved' \subseteq linked'
         /\ linkDate' \in [Image -> 0..day]
         /\ reports' \in [Image -> SUBSET User]
  BY DEF TypeOK, DeleteRow

\* What a handler's record may become: the type is kept as identifiers are
\* handed out.
LEMMA SetHandlerTypeOK ==
  ASSUME TypeOK, used \subseteq used', NEW r \in Request,
         NEW h \in (ReportHandler \cup FileHandler \cup {Idle})',
         req' = [req EXCEPT ![r] = h]
  PROVE  req' \in [Request -> (ReportHandler \cup FileHandler \cup {Idle})']
<1>1. \A q \in Request : req[q] \in (ReportHandler \cup FileHandler \cup {Idle})'
  <2> SUFFICES ASSUME NEW q \in Request
               PROVE  req[q] \in (ReportHandler \cup FileHandler \cup {Idle})'
    OBVIOUS
  <2>1. ReportHandler \subseteq ReportHandler'
    BY DEF ReportHandler
  <2>2. FileHandler \subseteq FileHandler'
    BY DEF FileHandler
  <2>3. Idle' = Idle
    BY DEF Idle
  <2> QED
    BY <2>1, <2>2, <2>3 DEF TypeOK
<1> QED
  BY <1>1 DEF TypeOK

LEMMA FinishTypeOK ==
  ASSUME TypeOK, used \subseteq used', NEW r \in Request, Finish(r)
  PROVE  req' \in [Request -> (ReportHandler \cup FileHandler \cup {Idle})']
  BY SetHandlerTypeOK DEF Finish, Idle

LEMMA AwaitReportTypeOK ==
  ASSUME TypeOK, used' = used, NEW r \in Request, req[r].pc \in ReportPC,
         NEW pc \in ReportPC, Await(r, pc)
  PROVE  req' \in [Request -> (ReportHandler \cup FileHandler \cup {Idle})']
<1>1. req[r] \in ReportHandler
  BY HandlerPCs
<1>2. [req[r] EXCEPT !.pc = pc] \in ReportHandler'
  BY <1>1 DEF ReportHandler
<1>3. req' = [req EXCEPT ![r] = [req[r] EXCEPT !.pc = pc]]
  BY DEF Await
<1> QED
  BY <1>2, <1>3, SetHandlerTypeOK

LEMMA AwaitUploadTypeOK ==
  ASSUME TypeOK, used' = used, NEW r \in Request, req[r].pc \in UploadPC,
         NEW pc \in UploadPC, Await(r, pc)
  PROVE  req' \in [Request -> (ReportHandler \cup FileHandler \cup {Idle})']
<1>1. req[r] \in FileHandler
  BY HandlerPCs
<1>2. [req[r] EXCEPT !.pc = pc] \in FileHandler'
  BY <1>1 DEF FileHandler
<1>3. req' = [req EXCEPT ![r] = [req[r] EXCEPT !.pc = pc]]
  BY DEF Await
<1> QED
  BY <1>2, <1>3, SetHandlerTypeOK

LEMMA NextTypeOK == TypeOK /\ [Next]_vars => TypeOK'
<1> SUFFICES ASSUME TypeOK, [Next]_vars PROVE TypeOK'
  OBVIOUS
<1>1. CASE NextDay
  <2>1. linkDate' \in [Image -> 0..day']
    BY <1>1 DEF NextDay, TypeOK, tables
  <2>2. req' \in [Request -> (ReportHandler \cup FileHandler \cup {Idle})']
    BY <1>1 DEF NextDay, TypeOK, ReportHandler, FileHandler, Idle
  <2> QED
    BY <1>1, <2>1, <2>2, NumbersAssumption DEF NextDay, TypeOK, tables
<1>2. ASSUME NEW i \in Image, VerifyImage(i) PROVE TypeOK'
  BY <1>2 DEF VerifyImage, TypeOK, ReportHandler, FileHandler
<1>3. ASSUME NEW r \in Request, NEW i \in Image, NEW u \in User, ReportImage(r, i, u)
      PROVE  TypeOK'
  <2> DEFINE h == [pc |-> "get_image_info", img |-> i, usr |-> u,
                   seen |-> 0, late |-> i \in approved]
  <2>1. h \in ReportHandler'
    BY <1>3 DEF ReportImage, ReportHandler, ReportPC
  <2>2. req' \in [Request -> (ReportHandler \cup FileHandler \cup {Idle})']
    BY <1>3, <2>1, SetHandlerTypeOK DEF ReportImage
  <2> QED
    BY <1>3, <2>2 DEF ReportImage, TypeOK, tables
<1>4. ASSUME NEW r \in Request, NEW i \in Image, LinkImage(r, i) PROVE TypeOK'
  <2> DEFINE h == [pc |-> "save_image", img |-> i, usr |-> None,
                   seen |-> 0, late |-> FALSE]
  <2>1. h \in FileHandler'
    BY <1>4 DEF LinkImage, FileHandler, UploadPC
  <2>2. req' \in [Request -> (ReportHandler \cup FileHandler \cup {Idle})']
    BY <1>4, <2>1, SetHandlerTypeOK DEF LinkImage, Begin
  <2> QED
    BY <1>4, <2>2, NumbersAssumption DEF LinkImage, TypeOK
<1>5. ASSUME NEW r \in Request, NEW i \in Image, DeleteImage(r, i) PROVE TypeOK'
  BY <1>5, DeleteRowTypeOK
  DEF DeleteImage, Begin, TypeOK, ReportHandler, FileHandler, DeletePC
<1>6. ASSUME NEW r \in Request, GetImageInfo(r) PROVE TypeOK'
  <2> DEFINE i == req[r].img
  <2>1. req[r] \in ReportHandler /\ i \in used
    BY <1>6, HandlerPCs DEF GetImageInfo, Running, ReportPC, ReportHandler
  <2>2. Cardinality(reports[i]) \in Nat
    BY <2>1, ReportsFinite DEF TypeOK
  <2>3. req' \in [Request -> (ReportHandler \cup FileHandler \cup {Idle})']
    <3>1. CASE i \in linked \ approved
      <4> DEFINE h == [req[r] EXCEPT !.pc = "add_report", !.seen = Cardinality(reports[i])]
      <4>1. h \in ReportHandler'
        BY <1>6, <2>1, <2>2 DEF GetImageInfo, ReportHandler, ReportPC
      <4>2. req' = [req EXCEPT ![r] = h]
        BY <1>6, <3>1 DEF GetImageInfo
      <4> QED
        BY <1>6, <4>1, <4>2, SetHandlerTypeOK DEF GetImageInfo
    <3>2. CASE i \notin linked \ approved
      BY <1>6, <3>2, FinishTypeOK DEF GetImageInfo
    <3> QED
      BY <3>1, <3>2
  <2> QED
    BY <1>6, <2>3 DEF GetImageInfo, TypeOK, tables
<1>7. ASSUME NEW r \in Request, AddReport(r) PROVE TypeOK'
  <2> DEFINE i == req[r].img
  <2>1. req[r] \in ReportHandler /\ i \in Image /\ req[r].usr \in User
    BY <1>7, HandlerPCs DEF AddReport, Running, ReportPC, ReportHandler, TypeOK
  <2>2. req' \in [Request -> (ReportHandler \cup FileHandler \cup {Idle})']
    BY <1>7, FinishTypeOK, AwaitReportTypeOK DEF AddReport, Running, ReportPC
  <2>3. reports' \in [Image -> SUBSET User]
    BY <1>7, <2>1 DEF AddReport, TypeOK
  <2> QED
    BY <1>7, <2>2, <2>3 DEF AddReport, TypeOK
<1>8. ASSUME NEW r \in Request, HideImage(r) PROVE TypeOK'
  <2>1. req' \in [Request -> (ReportHandler \cup FileHandler \cup {Idle})']
    BY <1>8, AwaitReportTypeOK DEF HideImage, Running, ReportPC
  <2> QED
    BY <1>8, <2>1 DEF HideImage, TypeOK
<1>9. ASSUME NEW r \in Request, NotifyHidden(r) PROVE TypeOK'
  <2>1. req' \in [Request -> (ReportHandler \cup FileHandler \cup {Idle})']
    BY <1>9, FinishTypeOK DEF NotifyHidden
  <2>2. req[r].img \in used
    BY <1>9, HandlerPCs DEF NotifyHidden, Running
  <2> QED
    BY <1>9, <2>1, <2>2 DEF NotifyHidden, TypeOK, tables, PC, ReportPC
<1>10. ASSUME NEW r \in Request, SaveImage(r) PROVE TypeOK'
  <2>1. req' \in [Request -> (ReportHandler \cup FileHandler \cup {Idle})']
    BY <1>10, FinishTypeOK, AwaitUploadTypeOK DEF SaveImage, Running, UploadPC
  <2>2. req[r].img \in used
    BY <1>10, HandlerPCs DEF SaveImage, Running
  <2> QED
    BY <1>10, <2>1, <2>2 DEF SaveImage, TypeOK, tables, PC, UploadPC
<1>11. ASSUME NEW r \in Request, EncodeImage(r) PROVE TypeOK'
  <2>1. req' \in [Request -> (ReportHandler \cup FileHandler \cup {Idle})']
    BY <1>11, FinishTypeOK, AwaitUploadTypeOK DEF EncodeImage, Running, UploadPC
  <2> QED
    BY <1>11, <2>1 DEF EncodeImage, TypeOK, tables
<1>12. ASSUME NEW r \in Request, RevertLinkImage(r) PROVE TypeOK'
  <2>1. req' \in [Request -> (ReportHandler \cup FileHandler \cup {Idle})']
    BY <1>12, FinishTypeOK DEF RevertLinkImage
  <2>2. req[r].img \in Image
    BY <1>12, HandlerPCs DEF RevertLinkImage, Running, TypeOK
  <2> QED
    BY <1>12, <2>1, <2>2, DeleteRowTypeOK DEF RevertLinkImage, TypeOK
<1>13. ASSUME NEW r \in Request, RemoveFile(r) PROVE TypeOK'
  <2>1. req' \in [Request -> (ReportHandler \cup FileHandler \cup {Idle})']
    BY <1>13, FinishTypeOK DEF RemoveFile
  <2> QED
    BY <1>13, <2>1 DEF RemoveFile, TypeOK, tables
<1>14. ASSUME NEW r \in Request, CutOff(r) PROVE TypeOK'
  <2>1. req' \in [Request -> (ReportHandler \cup FileHandler \cup {Idle})']
    BY <1>14, FinishTypeOK DEF CutOff
  <2>2. req[r].img \in used /\ req[r].pc \in PC
    BY <1>14, HandlerPCs DEF CutOff
  <2> QED
    BY <1>14, <2>1, <2>2 DEF CutOff, TypeOK, tables
<1>15. CASE UNCHANGED vars
  BY <1>15 DEF vars, tables, TypeOK, ReportHandler, FileHandler
<1> QED
  BY <1>1, <1>2, <1>3, <1>4, <1>5, <1>6, <1>7, <1>8, <1>9, <1>10, <1>11, <1>12, <1>13, <1>14,
     <1>15
  DEF Next, Arrival, HandlerStep

\* Every variable only takes values the program can give it.
THEOREM TypeCorrect == Spec => []TypeOK
  BY InitTypeOK, NextTypeOK, PTL DEF Spec

-----------------------------------------------------------------------------
(* A handler's step changes no other handler.                              *)

LEMMA OthersUntouched ==
  ASSUME TypeOK, NEW r \in Request,
         \/ HandlerStep(r)
         \/ CutOff(r)
         \/ Arrival(r)
  PROVE  \A q \in Request \ {r} : req'[q] = req[q]
  BY DEF HandlerStep, CutOff, Arrival, TypeOK, GetImageInfo, AddReport, HideImage,
         NotifyHidden, SaveImage, EncodeImage, RevertLinkImage, RemoveFile, ReportImage, LinkImage,
         DeleteImage, Begin, Await, Finish

LEMMA FinishedIsIdle ==
  ASSUME TypeOK, NEW r \in Request, Finish(r)
  PROVE  req'[r] = Idle
  BY DEF Finish, TypeOK

LEMMA AwaitKeepsRest ==
  ASSUME TypeOK, NEW r \in Request, NEW pc, Await(r, pc), req[r] # Idle
  PROVE  /\ req'[r].pc = pc
         /\ req'[r].img = req[r].img
         /\ req'[r].seen = req[r].seen
         /\ req'[r].late = req[r].late
  BY DEF Await, TypeOK, ReportHandler, FileHandler

LEMMA ReadOutcome ==
  ASSUME TypeOK, NEW r \in Request, GetImageInfo(r)
  PROVE  \/ req'[r] = Idle
         \/ /\ req'[r].pc = "add_report"
            /\ req'[r].late = req[r].late
            /\ req'[r].img = req[r].img
            /\ req[r].img \in linked \ approved
            /\ req'[r].seen = Cardinality(reports[req[r].img])
<1>1. CASE Finish(r)
  BY <1>1, FinishedIsIdle
<1>2. CASE ~Finish(r)
  <2>1. req[r] \in ReportHandler
    BY HandlerPCs DEF GetImageInfo, Running, ReportPC
  <2>2. /\ req[r].img \in linked \ approved
        /\ req' = [req EXCEPT ![r].pc = "add_report",
                              ![r].seen = Cardinality(reports[req[r].img])]
    BY <1>2 DEF GetImageInfo
  <2> QED
    BY <2>1, <2>2 DEF TypeOK, ReportHandler
<1> QED
  BY <1>1, <1>2

LEMMA ArrivedFields ==
  ASSUME TypeOK, NEW r \in Request, NEW i \in Image, NEW u \in User, ReportImage(r, i, u)
  PROVE  req[r] = Idle /\ req'[r].pc = "get_image_info" /\ req'[r].img = i
  BY DEF ReportImage, TypeOK

-----------------------------------------------------------------------------
(* Pictures disappear only after enough reports                            *)

\* The count a report works with is never above the number of reports stored.
SeenBounded ==
    \A r \in Request :
        Running(r, "add_report") /\ req[r].img \in linked =>
            req[r].seen <= Cardinality(reports[req[r].img])

\* Whoever is about to hide a picture has enough reports behind it.
HideJustified ==
    \A r \in Request :
        Running(r, "hide_image") /\ req[r].img \in linked =>
            Cardinality(reports[req[r].img]) >= BarrierBase

ReportInv == SeenBounded /\ HideJustified /\ HiddenOnlyAfterEnoughReports

LEMMA BarrierAtLeastBase ==
  ASSUME NEW age \in Nat
  PROVE  ReportBarrier(age) \in Nat /\ ReportBarrier(age) >= BarrierBase
<1>1. age * age \in Nat
  OBVIOUS
<1>2. \A n \in Nat : n \div BarrierDivisor \in Nat
  BY NumbersAssumption
<1> QED
  BY <1>1, <1>2, NumbersAssumption DEF ReportBarrier

LEMMA AgeIsNat == ASSUME TypeOK, NEW i \in Image PROVE Age(i) \in Nat
  BY NumbersAssumption DEF TypeOK, Age

LEMMA OneMoreReport ==
  ASSUME TypeOK, NEW i \in Image, NEW u \in User, u \notin reports[i]
  PROVE  Cardinality(reports[i] \cup {u}) = Cardinality(reports[i]) + 1
  BY ReportsFinite, FS_AddElement DEF TypeOK

LEMMA NextReportInv == TypeOK /\ ReportInv /\ [Next]_vars => ReportInv'
<1> SUFFICES ASSUME TypeOK, ReportInv, [Next]_vars PROVE ReportInv'
  OBVIOUS
<1> USE DEF ReportInv, SeenBounded, HideJustified, HiddenOnlyAfterEnoughReports, Running
<1>1. CASE NextDay
  BY <1>1 DEF NextDay, tables
<1>2. ASSUME NEW i \in Image, VerifyImage(i) PROVE ReportInv'
  BY <1>2 DEF VerifyImage
<1>3. ASSUME NEW r \in Request, NEW i \in Image, NEW u \in User, ReportImage(r, i, u)
      PROVE  ReportInv'
  BY <1>3 DEF ReportImage, tables, TypeOK
<1>4. ASSUME NEW r \in Request, NEW i \in Image, LinkImage(r, i) PROVE ReportInv'
  BY <1>4, HandlerPCs DEF LinkImage, Begin, TypeOK, PC, ReportPC
<1>5. ASSUME NEW r \in Request, NEW i \in Image, DeleteImage(r, i) PROVE ReportInv'
  BY <1>5 DEF DeleteImage, DeleteRow, Begin, TypeOK
<1>6. ASSUME NEW r \in Request, GetImageInfo(r) PROVE ReportInv'
  <2> DEFINE i == req[r].img
  <2>1. \A q \in Request \ {r} : req'[q] = req[q]
    BY <1>6, OthersUntouched DEF HandlerStep
  <2>2. /\ req[r] # Idle
        /\ i \in Image
        /\ Cardinality(reports[i]) \in Nat
    BY <1>6, HandlerPCs, ReportsFinite DEF GetImageInfo, TypeOK, Idle
  <2>3. \/ req'[r] = Idle
        \/ /\ req'[r].pc = "add_report" /\ req'[r].img = i
           /\ req'[r].seen = Cardinality(reports[i])
    BY <1>6, ReadOutcome
  <2> QED
    BY <1>6, <2>1, <2>2, <2>3 DEF GetImageInfo, tables, Idle
<1>7. ASSUME NEW r \in Request, AddReport(r) PROVE ReportInv'
  <2> DEFINE i == req[r].img
             u == req[r].usr
  <2>1. \A q \in Request \ {r} : req'[q] = req[q]
    BY <1>7, OthersUntouched DEF HandlerStep
  <2>2. /\ req[r] # Idle
        /\ req[r] \in ReportHandler
    BY <1>7, HandlerPCs DEF AddReport, ReportPC, Idle
  <2>3. /\ i \in Image
        /\ u \in User
        /\ req[r].seen \in Nat
    BY <2>2 DEF ReportHandler, TypeOK
  <2>4. CASE ~CanAddReport(i, u)
    BY <1>7, <2>1, <2>4, FinishedIsIdle DEF AddReport, Idle
  <2>5. CASE CanAddReport(i, u)
    <3>1. /\ reports' = [reports EXCEPT ![i] = @ \cup {u}]
          /\ linked' = linked /\ visible' = visible
      BY <1>7, <2>5 DEF AddReport
    <3>2. Cardinality(reports'[i]) = Cardinality(reports[i]) + 1
      BY <2>3, <2>5, <3>1, OneMoreReport DEF CanAddReport, TypeOK
    <3>3. Cardinality(reports[i]) \in Nat
      BY <2>3, ReportsFinite DEF TypeOK
    <3>4. \A j \in Image : j # i => reports'[j] = reports[j]
      BY <3>1 DEF TypeOK
    <3>5. ASSUME NEW j \in Image
          PROVE  /\ Cardinality(reports[j]) \in Nat
                 /\ Cardinality(reports'[j]) \in Nat
                 /\ Cardinality(reports'[j]) >= Cardinality(reports[j])
      <4>1. Cardinality(reports[j]) \in Nat
        BY ReportsFinite DEF TypeOK
      <4>2. CASE j = i
        BY <3>2, <3>3, <4>2
      <4>3. CASE j # i
        BY <3>4, <4>1, <4>3
      <4> QED
        BY <4>1, <4>2, <4>3
    <3>6. \A q \in Request : req[q] # Idle => /\ req[q].img \in Image
                                             /\ req[q].seen \in Nat
      BY HandlerFields
    <3>7. \A q \in Request : req[q].pc \in {"add_report", "hide_image"} => req[q] # Idle
      BY HandlerPCs
    <3> HIDE DEF SeenBounded, HideJustified, HiddenOnlyAfterEnoughReports
    <3>10. ASSUME NEW q \in Request \ {r}
           PROVE  /\ Running(q, "add_report")' /\ req'[q].img \in linked' =>
                        req'[q].seen <= Cardinality(reports'[req'[q].img])
                  /\ Running(q, "hide_image")' /\ req'[q].img \in linked' =>
                        Cardinality(reports'[req'[q].img]) >= BarrierBase
      <4>1. /\ Running(q, "add_report") /\ req[q].img \in linked =>
                  req[q].seen <= Cardinality(reports[req[q].img])
            /\ Running(q, "hide_image") /\ req[q].img \in linked =>
                  Cardinality(reports[req[q].img]) >= BarrierBase
        BY DEF SeenBounded, HideJustified
      <4>2. Running(q, "add_report") \/ Running(q, "hide_image") =>
              /\ req[q].img \in Image
              /\ req[q].seen \in Nat
        BY <3>6, <3>7
      <4>3. req'[q] = req[q] /\ linked' = linked
        BY <2>1, <3>1
      <4>4. \A m, n, k \in Nat : n >= m => (k <= m => k <= n) /\ (m >= k => n >= k)
        OBVIOUS
      <4> QED
        BY <3>5, <4>1, <4>2, <4>3, <4>4, NumbersAssumption
    <3>11. HiddenOnlyAfterEnoughReports'
      <4>1. linked \subseteq Image
        BY DEF TypeOK
      <4>2. \A j \in linked \ visible : Cardinality(reports[j]) >= BarrierBase
        BY DEF HiddenOnlyAfterEnoughReports
      <4>3. \A j \in linked \ visible : Cardinality(reports'[j]) >= BarrierBase
        BY <3>5, <4>1, <4>2, NumbersAssumption
      <4> QED
        BY <3>1, <4>3 DEF HiddenOnlyAfterEnoughReports
    <3>8. CASE WillBeHidden(i, req[r].seen + 1)
      <4>1. req'[r].pc = "hide_image" /\ req'[r].img = i
        BY <1>7, <2>2, <2>5, <3>8, AwaitKeepsRest DEF AddReport
      <4>2. req[r].seen + 1 >= BarrierBase
        BY <2>3, <3>8, AgeIsNat, BarrierAtLeastBase, NumbersAssumption DEF WillBeHidden
      <4>3. req[r].seen <= Cardinality(reports[i])
        BY <1>7, <2>5 DEF AddReport, CanAddReport, SeenBounded
      <4>4. Cardinality(reports'[i]) >= BarrierBase
        BY <2>3, <3>2, <3>3, <4>2, <4>3, NumbersAssumption
      <4>5. Running(r, "hide_image")' /\ ~Running(r, "add_report")'
        BY <4>1
      <4> QED
        BY <3>10, <3>11, <4>1, <4>4, <4>5 DEF SeenBounded, HideJustified
    <3>9. CASE ~WillBeHidden(i, req[r].seen + 1)
      <4>1. req'[r] = Idle
        BY <1>7, <2>5, <3>9, FinishedIsIdle DEF AddReport
      <4>2. ~Running(r, "hide_image")' /\ ~Running(r, "add_report")'
        BY <4>1 DEF Idle
      <4> QED
        BY <3>10, <3>11, <4>2 DEF SeenBounded, HideJustified
    <3> QED
      BY <3>8, <3>9
  <2> QED
    BY <2>4, <2>5
<1>8. ASSUME NEW r \in Request, HideImage(r) PROVE ReportInv'
  BY <1>8 DEF HideImage, Await, TypeOK
<1>9. ASSUME NEW r \in Request, NotifyHidden(r) PROVE ReportInv'
  BY <1>9 DEF NotifyHidden, Finish, Idle, tables, TypeOK
<1>10. ASSUME NEW r \in Request, SaveImage(r) PROVE ReportInv'
  <2>1. \A q \in Request \ {r} : req'[q] = req[q]
    BY <1>10, OthersUntouched DEF HandlerStep
  <2>2. req'[r].pc \in {"encode_image", "revert_link_image"}
    BY <1>10, HandlerPCs, AwaitKeepsRest DEF SaveImage
  <2>3. req'[r].pc \notin {"add_report", "hide_image"}
    BY <2>2 DEF Idle
  <2> QED
    BY <1>10, <2>1, <2>3 DEF SaveImage, tables
<1>11. ASSUME NEW r \in Request, EncodeImage(r) PROVE ReportInv'
  <2>1. \A q \in Request \ {r} : req'[q] = req[q]
    BY <1>11, OthersUntouched DEF HandlerStep
  <2>2. \/ req'[r] = Idle /\ broken' = broken \ {req[r].img}
        \/ req'[r].pc = "revert_link_image" /\ req'[r].late = req[r].late
           /\ req'[r].img = req[r].img /\ broken' = broken
    BY <1>11, HandlerPCs, FinishedIsIdle, AwaitKeepsRest DEF EncodeImage
  <2> QED
    BY <1>11, <2>1, <2>2 DEF EncodeImage, tables, Idle
<1>12. ASSUME NEW r \in Request, RevertLinkImage(r) PROVE ReportInv'
  BY <1>12 DEF RevertLinkImage, DeleteRow, Finish, Idle, TypeOK
<1>13. ASSUME NEW r \in Request, RemoveFile(r) PROVE ReportInv'
  BY <1>13 DEF RemoveFile, Finish, Idle, tables, TypeOK
<1>14. ASSUME NEW r \in Request, CutOff(r) PROVE ReportInv'
  BY <1>14 DEF CutOff, Finish, Idle, tables, TypeOK
<1>15. CASE UNCHANGED vars
  BY <1>15 DEF vars, tables
<1> QED
  BY <1>1, <1>2, <1>3, <1>4, <1>5, <1>6, <1>7, <1>8, <1>9, <1>10, <1>11, <1>12, <1>13, <1>14,
     <1>15
  DEF Next, Arrival, HandlerStep

\* However the handlers interleave, whatever is cut off and however old the
\* picture is: it is only out of view with BarrierBase reports of different users.
THEOREM HiddenNeedsReports == Spec => []HiddenOnlyAfterEnoughReports
<1>1. Init => ReportInv
  BY DEF Init, ReportInv, SeenBounded, HideJustified, HiddenOnlyAfterEnoughReports,
         Running, Idle
<1>2. ReportInv => HiddenOnlyAfterEnoughReports
  BY DEF ReportInv
<1> QED
  BY <1>1, <1>2, NextReportInv, TypeCorrect, PTL DEF Spec

-----------------------------------------------------------------------------
(* Reports that arrive after the verification                              *)

\* A late report still has its first read before it, and that read will find
\* the picture verified or gone.
LateInv ==
    \A r \in Request :
        req[r].late => /\ Running(r, "get_image_info")
                       /\ req[r].img \notin linked \ approved

LEMMA NextLateInv == TypeOK /\ LateInv /\ [Next]_vars => LateInv'
<1> SUFFICES ASSUME TypeOK, LateInv, [Next]_vars PROVE LateInv'
  OBVIOUS
<1> USE DEF LateInv, Running
<1>1. CASE NextDay
  BY <1>1 DEF NextDay, tables
<1>2. ASSUME NEW i \in Image, VerifyImage(i) PROVE LateInv'
  BY <1>2 DEF VerifyImage
<1>3. ASSUME NEW r \in Request, NEW i \in Image, NEW u \in User, ReportImage(r, i, u)
      PROVE  LateInv'
  BY <1>3 DEF ReportImage, tables, TypeOK
<1>4. ASSUME NEW r \in Request, NEW i \in Image, LinkImage(r, i) PROVE LateInv'
  BY <1>4, HandlerPCs DEF LinkImage, Begin, TypeOK
<1>5. ASSUME NEW r \in Request, NEW i \in Image, DeleteImage(r, i) PROVE LateInv'
  BY <1>5 DEF DeleteImage, DeleteRow, Begin, TypeOK
<1>6. ASSUME NEW r \in Request, GetImageInfo(r) PROVE LateInv'
  <2>1. \A q \in Request \ {r} : req'[q] = req[q]
    BY <1>6, OthersUntouched DEF HandlerStep
  <2>2. \/ req'[r] = Idle
        \/ req'[r].pc = "add_report" /\ req'[r].late = req[r].late
           /\ req'[r].img = req[r].img /\ req[r].img \in linked \ approved
    BY <1>6, ReadOutcome
  <2> QED
    BY <1>6, <2>1, <2>2 DEF GetImageInfo, tables, Idle
<1>7. ASSUME NEW r \in Request, AddReport(r) PROVE LateInv'
  <2>1. \A q \in Request \ {r} : req'[q] = req[q]
    BY <1>7, OthersUntouched DEF HandlerStep
  <2>2. \/ req'[r] = Idle
        \/ req'[r].pc = "hide_image" /\ req'[r].late = req[r].late
           /\ req'[r].img = req[r].img
    BY <1>7, FinishedIsIdle, HandlerPCs, AwaitKeepsRest DEF AddReport
  <2> QED
    BY <1>7, <2>1, <2>2 DEF AddReport, Idle
<1>8. ASSUME NEW r \in Request, HideImage(r) PROVE LateInv'
  <2>1. \A q \in Request \ {r} : req'[q] = req[q]
    BY <1>8, OthersUntouched DEF HandlerStep
  <2>2. req'[r].pc = "notify_hidden" /\ req'[r].late = req[r].late
        /\ req'[r].img = req[r].img
    BY <1>8, HandlerPCs, AwaitKeepsRest DEF HideImage
  <2> QED
    BY <1>8, <2>1, <2>2 DEF HideImage
<1>9. ASSUME NEW r \in Request, NotifyHidden(r) PROVE LateInv'
  <2>1. \A q \in Request \ {r} : req'[q] = req[q]
    BY <1>9, OthersUntouched DEF HandlerStep
  <2> QED
    BY <1>9, <2>1, FinishedIsIdle DEF NotifyHidden, Idle, tables
<1>10. ASSUME NEW r \in Request, SaveImage(r) PROVE LateInv'
  <2>1. \A q \in Request \ {r} : req'[q] = req[q]
    BY <1>10, OthersUntouched DEF HandlerStep
  <2>2. \/ /\ req'[r].pc = "encode_image" /\ req'[r].late = req[r].late
           /\ req'[r].img = req[r].img
           /\ files' = files \cup {req[r].img} /\ broken' = broken \cup {req[r].img}
           /\ (req[r].img \in linked \/ <<req[r].img, "save_image">> \in cut')
        \/ /\ req'[r].pc = "revert_link_image" /\ req'[r].late = req[r].late
           /\ req'[r].img = req[r].img /\ files' = files /\ broken' = broken
    BY <1>10, HandlerPCs, AwaitKeepsRest DEF SaveImage
  <2>3. cut \subseteq cut'
    BY <1>10 DEF SaveImage
  <2> QED
    BY <1>10, <2>1, <2>2, <2>3 DEF SaveImage, tables, Idle
<1>11. ASSUME NEW r \in Request, EncodeImage(r) PROVE LateInv'
  <2>1. \A q \in Request \ {r} : req'[q] = req[q]
    BY <1>11, OthersUntouched DEF HandlerStep
  <2>2. \/ req'[r] = Idle /\ broken' = broken \ {req[r].img}
        \/ req'[r].pc = "revert_link_image" /\ req'[r].late = req[r].late
           /\ req'[r].img = req[r].img /\ broken' = broken
    BY <1>11, HandlerPCs, FinishedIsIdle, AwaitKeepsRest DEF EncodeImage
  <2> QED
    BY <1>11, <2>1, <2>2 DEF EncodeImage, tables, Idle
<1>12. ASSUME NEW r \in Request, RevertLinkImage(r) PROVE LateInv'
  <2>1. \A q \in Request \ {r} : req'[q] = req[q]
    BY <1>12, OthersUntouched DEF HandlerStep
  <2> QED
    BY <1>12, <2>1, FinishedIsIdle DEF RevertLinkImage, DeleteRow, Idle
<1>13. ASSUME NEW r \in Request, RemoveFile(r) PROVE LateInv'
  <2>1. \A q \in Request \ {r} : req'[q] = req[q]
    BY <1>13, OthersUntouched DEF HandlerStep
  <2> QED
    BY <1>13, <2>1, FinishedIsIdle DEF RemoveFile, Idle, tables
<1>14. ASSUME NEW r \in Request, CutOff(r) PROVE LateInv'
  <2>1. \A q \in Request \ {r} : req'[q] = req[q]
    BY <1>14, OthersUntouched
  <2> QED
    BY <1>14, <2>1, FinishedIsIdle DEF CutOff, Idle, tables
<1>15. CASE UNCHANGED vars
  BY <1>15 DEF vars, tables
<1> QED
  BY <1>1, <1>2, <1>3, <1>4, <1>5, <1>6, <1>7, <1>8, <1>9, <1>10, <1>11, <1>12, <1>13, <1>14,
     <1>15
  DEF Next, Arrival, HandlerStep

\* A report that arrives after the picture was verified is never recorded and
\* never hides the picture.
THEOREM LateReportsIgnored == Spec => []ReportAfterVerificationIgnored
<1>1. Init => LateInv
  BY DEF Init, LateInv, Idle
<1>2. LateInv => ReportAfterVerificationIgnored
  BY DEF LateInv, ReportAfterVerificationIgnored
<1> QED
  BY <1>1, <1>2, NextLateInv, TypeCorrect, PTL DEF Spec

-----------------------------------------------------------------------------
(* The mail about a hidden picture                                         *)

LEMMA NextAnnounced ==
  TypeOK /\ HiddenImagesAreAnnounced /\ [Next]_vars => HiddenImagesAreAnnounced'
<1> SUFFICES ASSUME TypeOK, HiddenImagesAreAnnounced, [Next]_vars
             PROVE  HiddenImagesAreAnnounced'
  OBVIOUS
<1> USE DEF HiddenImagesAreAnnounced, Busy, WasCut, Running
<1>1. CASE NextDay
  BY <1>1 DEF NextDay, tables
<1>2. ASSUME NEW i \in Image, VerifyImage(i) PROVE HiddenImagesAreAnnounced'
  BY <1>2 DEF VerifyImage
<1>3. ASSUME NEW r \in Request, NEW i \in Image, NEW u \in User, ReportImage(r, i, u)
      PROVE  HiddenImagesAreAnnounced'
  <2>1. \A q \in Request \ {r} : req'[q] = req[q]
    BY <1>3, OthersUntouched DEF Arrival
  <2>2. req[r] = Idle /\ req'[r].pc = "get_image_info"
    BY <1>3, ArrivedFields
  <2>3. req[r].pc = "idle"
    BY <2>2 DEF Idle
  <2>4. \A j \in Image : (\E q \in Request : req[q].img = j /\ req[q].pc \in {"notify_hidden"})
          => \E q \in Request : req'[q].img = j /\ req'[q].pc \in {"notify_hidden"}
    BY <2>1, <2>3
  <2>5. linked \subseteq Image
    BY DEF TypeOK
  <2>6. linked' = linked /\ visible' = visible /\ notified' = notified /\ cut' = cut
    BY <1>3 DEF ReportImage, tables
  <2> QED
    BY <2>4, <2>5, <2>6
<1>4. ASSUME NEW r \in Request, NEW i \in Image, LinkImage(r, i) PROVE HiddenImagesAreAnnounced'
  BY <1>4, HandlerPCs DEF LinkImage, Begin, TypeOK
<1>5. ASSUME NEW r \in Request, NEW i \in Image, DeleteImage(r, i) PROVE HiddenImagesAreAnnounced'
  <2>1. \A q \in Request \ {r} : req'[q] = req[q]
    BY <1>5, OthersUntouched DEF Arrival
  <2>2. req[r] = Idle /\ req'[r].pc = "remove_file" /\ req'[r].img = i
    BY <1>5 DEF DeleteImage, Begin, TypeOK
  <2>3. req[r].pc = "idle"
    BY <2>2 DEF Idle
  <2>4. \A j \in Image : (\E q \in Request : req[q].img = j /\ req[q].pc \in {"notify_hidden"})
          => \E q \in Request : req'[q].img = j /\ req'[q].pc \in {"notify_hidden"}
    BY <2>1, <2>3
  <2>5. linked \subseteq Image
    BY DEF TypeOK
  <2> QED
    BY <1>5, <2>4, <2>5 DEF DeleteImage, DeleteRow
<1>6. ASSUME NEW r \in Request, GetImageInfo(r) PROVE HiddenImagesAreAnnounced'
  <2>1. \A q \in Request \ {r} : req'[q] = req[q]
    BY <1>6, OthersUntouched DEF HandlerStep
  <2>2. \/ req'[r] = Idle
        \/ req'[r].pc = "add_report" /\ req'[r].late = req[r].late
           /\ req'[r].img = req[r].img /\ req[r].img \in linked \ approved
    BY <1>6, ReadOutcome
  <2> QED
    BY <1>6, <2>1, <2>2 DEF GetImageInfo, tables, Idle
<1>7. ASSUME NEW r \in Request, AddReport(r) PROVE HiddenImagesAreAnnounced'
  <2>1. \A q \in Request \ {r} : req'[q] = req[q]
    BY <1>7, OthersUntouched DEF HandlerStep
  <2>2. \/ req'[r] = Idle
        \/ req'[r].pc = "hide_image" /\ req'[r].late = req[r].late
           /\ req'[r].img = req[r].img
    BY <1>7, FinishedIsIdle, HandlerPCs, AwaitKeepsRest DEF AddReport
  <2> QED
    BY <1>7, <2>1, <2>2 DEF AddReport, Idle
<1>8. ASSUME NEW r \in Request, HideImage(r) PROVE HiddenImagesAreAnnounced'
  <2>1. \A q \in Request \ {r} : req'[q] = req[q]
    BY <1>8, OthersUntouched DEF HandlerStep
  <2>2. req'[r].pc = "notify_hidden" /\ req'[r].late = req[r].late
        /\ req'[r].img = req[r].img
    BY <1>8, HandlerPCs, AwaitKeepsRest DEF HideImage
  <2>3. /\ req[r].pc = "hide_image" /\ visible' = visible \ {req[r].img}
        /\ linked' = linked /\ notified' = notified /\ cut' = cut
    BY <1>8 DEF HideImage, Running
  <2>4. \A j : (\E q \in Request : req[q].img = j /\ req[q].pc \in {"notify_hidden"})
          => \E q \in Request : req'[q].img = j /\ req'[q].pc \in {"notify_hidden"}
    BY <2>1, <2>3
  <2>5. \E q \in Request : req'[q].img = req[r].img /\ req'[q].pc \in {"notify_hidden"}
    BY <2>2
  <2> QED
    BY <2>3, <2>4, <2>5
<1>9. ASSUME NEW r \in Request, NotifyHidden(r) PROVE HiddenImagesAreAnnounced'
  <2>1. \A q \in Request \ {r} : req'[q] = req[q]
    BY <1>9, OthersUntouched DEF HandlerStep
  <2> QED
    BY <1>9, <2>1, FinishedIsIdle DEF NotifyHidden, Idle, tables
<1>10. ASSUME NEW r \in Request, SaveImage(r) PROVE HiddenImagesAreAnnounced'
  <2>1. \A q \in Request \ {r} : req'[q] = req[q]
    BY <1>10, OthersUntouched DEF HandlerStep
  <2>2. \/ /\ req'[r].pc = "encode_image" /\ req'[r].late = req[r].late
           /\ req'[r].img = req[r].img
           /\ files' = files \cup {req[r].img} /\ broken' = broken \cup {req[r].img}
           /\ (req[r].img \in linked \/ <<req[r].img, "save_image">> \in cut')
        \/ /\ req'[r].pc = "revert_link_image" /\ req'[r].late = req[r].late
           /\ req'[r].img = req[r].img /\ files' = files /\ broken' = broken
    BY <1>10, HandlerPCs, AwaitKeepsRest DEF SaveImage
  <2>3. cut \subseteq cut'
    BY <1>10 DEF SaveImage
  <2> QED
    BY <1>10, <2>1, <2>2, <2>3 DEF SaveImage, tables, Idle
<1>11. ASSUME NEW r \in Request, EncodeImage(r) PROVE HiddenImagesAreAnnounced'
  <2>1. \A q \in Request \ {r} : req'[q] = req[q]
    BY <1>11, OthersUntouched DEF HandlerStep
  <2>2. \/ req'[r] = Idle /\ broken' = broken \ {req[r].img}
        \/ req'[r].pc = "revert_link_image" /\ req'[r].late = req[r].late
           /\ req'[r].img = req[r].img /\ broken' = broken
    BY <1>11, HandlerPCs, FinishedIsIdle, AwaitKeepsRest DEF EncodeImage
  <2> QED
    BY <1>11, <2>1, <2>2 DEF EncodeImage, tables, Idle
<1>12. ASSUME NEW r \in Request, RevertLinkImage(r) PROVE HiddenImagesAreAnnounced'
  <2>1. \A q \in Request \ {r} : req'[q] = req[q]
    BY <1>12, OthersUntouched DEF HandlerStep
  <2> QED
    BY <1>12, <2>1, FinishedIsIdle DEF RevertLinkImage, DeleteRow, Idle
<1>13. ASSUME NEW r \in Request, RemoveFile(r) PROVE HiddenImagesAreAnnounced'
  <2>1. \A q \in Request \ {r} : req'[q] = req[q]
    BY <1>13, OthersUntouched DEF HandlerStep
  <2> QED
    BY <1>13, <2>1, FinishedIsIdle DEF RemoveFile, Idle, tables
<1>14. ASSUME NEW r \in Request, CutOff(r) PROVE HiddenImagesAreAnnounced'
  <2>1. \A q \in Request \ {r} : req'[q] = req[q]
    BY <1>14, OthersUntouched
  <2> QED
    BY <1>14, <2>1, FinishedIsIdle DEF CutOff, Idle, tables
<1>15. CASE UNCHANGED vars
  BY <1>15 DEF vars, tables
<1> QED
  BY <1>1, <1>2, <1>3, <1>4, <1>5, <1>6, <1>7, <1>8, <1>9, <1>10, <1>11, <1>12, <1>13, <1>14,
     <1>15
  DEF Next, Arrival, HandlerStep

\* No picture is hidden behind the administrator's back: its mail was sent, is
\* about to be, or was lost.
THEOREM HiddenAnnounced == Spec => []HiddenImagesAreAnnounced
<1>1. Init => HiddenImagesAreAnnounced
  BY DEF Init, HiddenImagesAreAnnounced
<1> QED
  BY <1>1, NextAnnounced, TypeCorrect, PTL DEF Spec

-----------------------------------------------------------------------------
(* Rows and files                                                          *)

\* An identifier is handed out once, so a deleted row stays deleted ...
DeletedForGood ==
    \A r \in Request : Running(r, "remove_file") => req[r].img \notin linked

\* ... and a picture has one upload.
OneUpload ==
    \A q, r \in Request :
        /\ req[q].pc \in UploadPC /\ req[r].pc \in UploadPC
        /\ req[q].img = req[r].img
        => q = r

\* Its file does not exist before the save, is taken away only with the row, and
\* holds no whole picture until the save succeeds.
UploadingFile ==
    \A r \in Request :
        /\ Running(r, "save_image") => req[r].img \notin files
        /\ Running(r, "encode_image") /\ req[r].img \in linked => req[r].img \in files
        /\ req[r].pc \in {"encode_image", "revert_link_image"} => req[r].img \notin files \ broken

\* When the row is gone while the picture is encoded, the file goes too, unless
\* its deletion ran before there was a file, or was cut off.
EncodedOrphan ==
    \A r \in Request :
        Running(r, "encode_image") /\ req[r].img \in files \ linked =>
            \/ Busy(req[r].img, DeletePC)
            \/ WasCut(req[r].img, DeletePC \cup {"save_image"})

FileInv ==
    /\ DeletedForGood /\ OneUpload /\ UploadingFile /\ EncodedOrphan
    /\ LinkedImagesHaveFiles /\ OrphanedFilesExplained

LEMMA NextFileInv == TypeOK /\ FileInv /\ [Next]_vars => FileInv'
<1> SUFFICES ASSUME TypeOK, FileInv, [Next]_vars PROVE FileInv'
  OBVIOUS
<1> USE DEF FileInv, DeletedForGood, OneUpload, UploadingFile, EncodedOrphan,
            LinkedImagesHaveFiles, OrphanedFilesExplained,
            Busy, WasCut, Running, UploadPC, DeletePC
<1>1. CASE NextDay
  BY <1>1 DEF NextDay, tables
<1>2. ASSUME NEW i \in Image, VerifyImage(i) PROVE FileInv'
  BY <1>2 DEF VerifyImage
<1>3. ASSUME NEW r \in Request, NEW i \in Image, NEW u \in User, ReportImage(r, i, u)
      PROVE  FileInv'
  <2>1. \A q \in Request \ {r} : req'[q] = req[q]
    BY <1>3, OthersUntouched DEF Arrival
  <2>2. req[r] = Idle /\ req'[r].pc = "get_image_info"
    BY <1>3, ArrivedFields
  <2> QED
    BY <1>3, <2>1, <2>2 DEF ReportImage, tables, Idle
<1>4. ASSUME NEW r \in Request, NEW i \in Image, LinkImage(r, i) PROVE FileInv'
  BY <1>4, HandlerPCs DEF LinkImage, Begin, TypeOK, PC, ReportPC
<1>5. ASSUME NEW r \in Request, NEW i \in Image, DeleteImage(r, i) PROVE FileInv'
  <2>1. \A q \in Request \ {r} : req'[q] = req[q]
    BY <1>5, OthersUntouched DEF Arrival
  <2>2. req[r] = Idle /\ req'[r].pc = "remove_file" /\ req'[r].img = i
    BY <1>5 DEF DeleteImage, Begin, TypeOK
  <2> QED
    BY <1>5, <2>1, <2>2 DEF DeleteImage, DeleteRow, Idle
<1>6. ASSUME NEW r \in Request, GetImageInfo(r) PROVE FileInv'
  <2>1. \A q \in Request \ {r} : req'[q] = req[q]
    BY <1>6, OthersUntouched DEF HandlerStep
  <2>2. \/ req'[r] = Idle
        \/ req'[r].pc = "add_report" /\ req'[r].late = req[r].late
           /\ req'[r].img = req[r].img /\ req[r].img \in linked \ approved
    BY <1>6, ReadOutcome
  <2> QED
    BY <1>6, <2>1, <2>2 DEF GetImageInfo, tables, Idle
<1>7. ASSUME NEW r \in Request, AddReport(r) PROVE FileInv'
  <2>1. \A q \in Request \ {r} : req'[q] = req[q]
    BY <1>7, OthersUntouched DEF HandlerStep
  <2>2. \/ req'[r] = Idle
        \/ req'[r].pc = "hide_image" /\ req'[r].late = req[r].late
           /\ req'[r].img = req[r].img
    BY <1>7, FinishedIsIdle, HandlerPCs, AwaitKeepsRest DEF AddReport
  <2> QED
    BY <1>7, <2>1, <2>2 DEF AddReport, Idle
<1>8. ASSUME NEW r \in Request, HideImage(r) PROVE FileInv'
  <2>1. \A q \in Request \ {r} : req'[q] = req[q]
    BY <1>8, OthersUntouched DEF HandlerStep
  <2>2. req'[r].pc = "notify_hidden" /\ req'[r].late = req[r].late
        /\ req'[r].img = req[r].img
    BY <1>8, HandlerPCs, AwaitKeepsRest DEF HideImage
  <2> QED
    BY <1>8, <2>1, <2>2 DEF HideImage
<1>9. ASSUME NEW r \in Request, NotifyHidden(r) PROVE FileInv'
  <2>1. \A q \in Request \ {r} : req'[q] = req[q]
    BY <1>9, OthersUntouched DEF HandlerStep
  <2> QED
    BY <1>9, <2>1, FinishedIsIdle DEF NotifyHidden, Idle, tables
<1>10. ASSUME NEW r \in Request, SaveImage(r) PROVE FileInv'
  <2>1. \A q \in Request \ {r} : req'[q] = req[q]
    BY <1>10, OthersUntouched DEF HandlerStep
  <2>2. \/ /\ req'[r].pc = "encode_image" /\ req'[r].late = req[r].late
           /\ req'[r].img = req[r].img
           /\ files' = files \cup {req[r].img} /\ broken' = broken \cup {req[r].img}
           /\ (req[r].img \in linked \/ <<req[r].img, "save_image">> \in cut')
        \/ /\ req'[r].pc = "revert_link_image" /\ req'[r].late = req[r].late
           /\ req'[r].img = req[r].img /\ files' = files /\ broken' = broken
    BY <1>10, HandlerPCs, AwaitKeepsRest DEF SaveImage
  <2>3. cut \subseteq cut'
    BY <1>10 DEF SaveImage
  <2> QED
    BY <1>10, <2>1, <2>2, <2>3 DEF SaveImage, tables, Idle
<1>11. ASSUME NEW r \in Request, EncodeImage(r) PROVE FileInv'
  <2> DEFINE i == req[r].img
  <2>1. \A q \in Request \ {r} : req'[q] = req[q]
    BY <1>11, OthersUntouched DEF HandlerStep
  <2>2. \/ req'[r] = Idle /\ broken' = broken \ {i}
        \/ req'[r].pc = "revert_link_image" /\ req'[r].img = i /\ broken' = broken
           /\ i \notin files \ broken'
    BY <1>11, HandlerPCs, FinishedIsIdle, AwaitKeepsRest DEF EncodeImage
  <2>3. UNCHANGED <<linked, files, cut>>
    BY <1>11 DEF EncodeImage, tables
  <2>4. Running(r, "encode_image") /\ (i \in linked => i \in files)
    BY <1>11 DEF EncodeImage
  <2>5. \A q \in Request : req[q].pc \in DeletePC => req'[q] = req[q]
    BY <2>1, <2>4
  <2>6. DeletedForGood' /\ OneUpload'
    BY <2>1, <2>2, <2>3, <2>4 DEF Idle
  <2>7. UploadingFile'
    BY <2>1, <2>2, <2>3, <2>4 DEF Idle
  <2>8. EncodedOrphan'
    BY <2>1, <2>2, <2>3, <2>4, <2>5 DEF Idle
  <2>9. LinkedImagesHaveFiles'
    <3> SUFFICES ASSUME NEW j \in linked, j \notin files \ broken'
                 PROVE  Busy(j, UploadPC)' \/ WasCut(j, UploadPC)'
      BY <2>3
    <3>1. CASE j = i
      BY <2>2, <2>4, <3>1
    <3>2. CASE j # i
      BY <2>1, <2>2, <2>3, <3>2
    <3> QED
      BY <3>1, <3>2
  <2>10. OrphanedFilesExplained'
    <3> SUFFICES ASSUME NEW j \in files \ linked, j \notin broken'
                 PROVE  Busy(j, DeletePC)' \/ WasCut(j, DeletePC \cup {"save_image"})'
      BY <2>3
    <3>1. Busy(j, DeletePC) \/ WasCut(j, DeletePC \cup {"save_image"})
      BY <2>2, <2>4
    <3>2. Busy(j, DeletePC) => Busy(j, DeletePC)'
      BY <2>5
    <3> QED
      BY <2>3, <3>1, <3>2
  <2> QED
    BY <2>6, <2>7, <2>8, <2>9, <2>10
<1>12. ASSUME NEW r \in Request, RevertLinkImage(r) PROVE FileInv'
  <2>1. \A q \in Request \ {r} : req'[q] = req[q]
    BY <1>12, OthersUntouched DEF HandlerStep
  <2> QED
    BY <1>12, <2>1, FinishedIsIdle DEF RevertLinkImage, DeleteRow, Idle
<1>13. ASSUME NEW r \in Request, RemoveFile(r) PROVE FileInv'
  <2>1. \A q \in Request \ {r} : req'[q] = req[q]
    BY <1>13, OthersUntouched DEF HandlerStep
  <2> QED
    BY <1>13, <2>1, FinishedIsIdle DEF RemoveFile, Idle, tables
<1>14. ASSUME NEW r \in Request, CutOff(r) PROVE FileInv'
  <2>1. \A q \in Request \ {r} : req'[q] = req[q]
    BY <1>14, OthersUntouched
  <2> QED
    BY <1>14, <2>1, FinishedIsIdle DEF CutOff, Idle, tables
<1>15. CASE UNCHANGED vars
  BY <1>15 DEF vars, tables
<1> QED
  BY <1>1, <1>2, <1>3, <1>4, <1>5, <1>6, <1>7, <1>8, <1>9, <1>10, <1>11, <1>12, <1>13, <1>14,
     <1>15
  DEF Next, Arrival, HandlerStep

\* Every row has its file and every file its row, but for what is in progress
\* or was cut off.
LEMMA FilesKept == Spec => []FileInv
<1>1. Init => FileInv
  BY DEF Init, FileInv, DeletedForGood, OneUpload, UploadingFile, EncodedOrphan,
         LinkedImagesHaveFiles, OrphanedFilesExplained, Running, Idle, UploadPC
<1> QED
  BY <1>1, NextFileInv, TypeCorrect, PTL DEF Spec

\* A picture with a row has a file that holds it, unless its upload is at work or
\* was cut off.
THEOREM RowsHaveFiles == Spec => []LinkedImagesHaveFiles
<1>1. FileInv => LinkedImagesHaveFiles
  BY DEF FileInv
<1> QED
  BY <1>1, FilesKept, PTL

\* A file without a row belongs to a deletion at work or to a handler that was cut
\* off, or holds no whole picture, as a failing save leaves it.
THEOREM FilesHaveRows == Spec => []OrphanedFilesExplained
<1>1. FileInv => OrphanedFilesExplained
  BY DEF FileInv
<1> QED
  BY <1>1, FilesKept, PTL

-----------------------------------------------------------------------------
(* Reports go with their picture                                           *)

\* Reports are deleted with their picture, and none comes after that.
ReportsHaveRows == \A i \in Image \ linked : reports[i] = {}

LEMMA NextReportsHaveRows == TypeOK /\ ReportsHaveRows /\ [Next]_vars => ReportsHaveRows'
<1> SUFFICES ASSUME TypeOK, ReportsHaveRows, [Next]_vars PROVE ReportsHaveRows'
  OBVIOUS
<1> USE DEF ReportsHaveRows
<1>1. ASSUME UNCHANGED <<linked, reports>> PROVE ReportsHaveRows'
  BY <1>1
<1>2. ASSUME NEW r \in Request, NEW i \in Image, LinkImage(r, i) PROVE ReportsHaveRows'
  BY <1>2 DEF LinkImage
<1>3. ASSUME NEW i, DeleteRow(i) PROVE ReportsHaveRows'
  BY <1>3 DEF DeleteRow, TypeOK
<1>4. ASSUME NEW r \in Request, AddReport(r) PROVE ReportsHaveRows'
  BY <1>4 DEF AddReport, CanAddReport, TypeOK
<1>5. ASSUME NEW r \in Request,
             \/ \E i \in Image, u \in User : ReportImage(r, i, u)
             \/ GetImageInfo(r) \/ HideImage(r) \/ NotifyHidden(r) \/ SaveImage(r)
             \/ EncodeImage(r) \/ RemoveFile(r) \/ CutOff(r)
      PROVE  UNCHANGED <<linked, reports>>
  BY <1>5 DEF ReportImage, GetImageInfo, HideImage, NotifyHidden, SaveImage, EncodeImage, RemoveFile,
              CutOff, tables
<1>6. ASSUME NextDay \/ UNCHANGED vars \/ \E i \in Image : VerifyImage(i)
      PROVE  UNCHANGED <<linked, reports>>
  BY <1>6 DEF NextDay, VerifyImage, vars, tables
<1>7. \A r \in Request : /\ \A i \in Image : DeleteImage(r, i) => DeleteRow(i)
                         /\ RevertLinkImage(r) => DeleteRow(req[r].img)
  BY DEF DeleteImage, RevertLinkImage
<1> HIDE DEF ReportsHaveRows
<1>8. ASSUME NEW r \in Request, Arrival(r) \/ HandlerStep(r) \/ CutOff(r)
      PROVE  ReportsHaveRows'
  BY <1>1, <1>2, <1>3, <1>4, <1>5, <1>7, <1>8 DEF Arrival, HandlerStep
<1> QED
  BY <1>1, <1>6, <1>8 DEF Next

-----------------------------------------------------------------------------
(* Reports that race each other                                            *)

\* The handlers that will decide about picture i on a count below b.
Behind(i, b) ==
    {r \in Request : Running(r, "add_report") /\ req[r].img = i /\ req[r].seen < b}

\* Beyond the barrier each further report was one of these handlers: at any
\* count b the picture should have been hidden at, the reports stored since and
\* the handlers still behind are at most all handlers but the one at b.
RacersCounted(i) ==
    \A b \in Nat :
        ReportBarrier(Age(i)) - 1 <= b /\ b <= Cardinality(reports[i]) =>
            Cardinality(reports[i]) + Cardinality(Behind(i, b))
                <= b + Cardinality(Request) - 1

HideUnderWay(i) ==
    \/ Age(i) > MaxReportAge
    \/ Busy(i, {"hide_image"})
    \/ WasCut(i, {"hide_image"})

MissedInv == \A i \in visible \ approved : HideUnderWay(i) \/ RacersCounted(i)

LEMMA SquareMonotone ==
  ASSUME NEW a \in Nat, NEW c \in Nat, a <= c
  PROVE  a * a <= c * c
<1>1. PICK d \in Nat : c = a + d
  <2>1. c - a \in Nat /\ c = a + (c - a)
    OBVIOUS
  <2> QED
    BY <2>1
<1>2. c * c = a * a + 2 * (a * d) + d * d
  BY <1>1
<1>3. a * d \in Nat /\ d * d \in Nat /\ a * a \in Nat
  OBVIOUS
<1> QED
  BY <1>2, <1>3

\* The barrier never falls as a picture grows older.
LEMMA BarrierMonotone ==
  ASSUME NEW a \in Nat, NEW c \in Nat, a <= c
  PROVE  ReportBarrier(a) <= ReportBarrier(c)
<1>1. a * a \in Nat /\ c * c \in Nat /\ a * a <= c * c
  BY SquareMonotone
<1>2. \A x, y \in Nat : x <= y => x \div BarrierDivisor <= y \div BarrierDivisor
  BY NumbersAssumption
<1>3. \A x \in Nat : x \div BarrierDivisor \in Nat
  BY NumbersAssumption
<1> QED
  BY <1>1, <1>2, <1>3, NumbersAssumption DEF ReportBarrier

LEMMA BehindFinite ==
  ASSUME NEW S \in SUBSET Request
  PROVE  IsFiniteSet(S) /\ Cardinality(S) \in Nat /\ Cardinality(S) <= Cardinality(Request)
  BY SetsAssumption, FS_Subset, FS_CardinalityType

LEMMA StrictlyFewer ==
  ASSUME NEW S \in SUBSET Request, NEW r \in Request, r \notin S
  PROVE  Cardinality(S) <= Cardinality(Request) - 1
<1>1. S \in SUBSET (Request \ {r})
  OBVIOUS
<1>2. IsFiniteSet(Request \ {r}) /\ Cardinality(Request \ {r}) = Cardinality(Request) - 1
  BY SetsAssumption, FS_RemoveElement
<1> QED
  BY <1>1, <1>2, FS_Subset

\* What a step may do to picture i without a new report of it: time passes,
\* handlers leave, and whoever reads the count reads all of it.
QuietFor(i) ==
    /\ reports'[i] = reports[i] /\ linkDate'[i] = linkDate[i]
    /\ day' \in Nat /\ day <= day'
    /\ cut \subseteq cut'
    /\ Busy(i, {"hide_image"}) => Busy(i, {"hide_image"})' \/ WasCut(i, {"hide_image"})'
    /\ \A r \in Request : Running(r, "add_report")' /\ req'[r].img = i =>
         \/ req'[r].seen = Cardinality(reports[i])
         \/ Running(r, "add_report") /\ req[r].img = i /\ req[r].seen = req'[r].seen

LEMMA QuietKeeps ==
  ASSUME TypeOK, NEW i \in Image, QuietFor(i), HideUnderWay(i) \/ RacersCounted(i)
  PROVE  HideUnderWay(i)' \/ RacersCounted(i)'
<1>1. /\ Age(i) \in Nat /\ Age(i)' \in Nat /\ Age(i) <= Age(i)'
      /\ Cardinality(reports[i]) \in Nat
      /\ reports'[i] = reports[i]
  <2>1. linkDate[i] \in Nat /\ day \in Nat /\ linkDate[i] <= day
    BY NumbersAssumption DEF TypeOK
  <2>2. reports[i] \in SUBSET User
    BY DEF TypeOK
  <2> QED
    BY <2>1, <2>2, ReportsFinite DEF QuietFor, Age
<1>2. CASE HideUnderWay(i)
  <2>1. CASE Age(i) > MaxReportAge
    <3>1. Age(i)' > MaxReportAge
      BY <1>1, <2>1, NumbersAssumption
    <3> QED
      BY <3>1 DEF HideUnderWay
  <2>2. CASE Busy(i, {"hide_image"})
    BY <2>2 DEF QuietFor, HideUnderWay
  <2>3. CASE WasCut(i, {"hide_image"})
    <3>1. WasCut(i, {"hide_image"})'
      BY <2>3 DEF QuietFor, WasCut
    <3> QED
      BY <3>1 DEF HideUnderWay
  <2> QED
    BY <1>2, <2>1, <2>2, <2>3 DEF HideUnderWay
<1>3. CASE RacersCounted(i)
  <2> SUFFICES ASSUME NEW b \in Nat, ReportBarrier(Age(i)') - 1 <= b,
                      b <= Cardinality(reports[i])
               PROVE  Cardinality(reports[i]) + Cardinality(Behind(i, b)')
                        <= b + Cardinality(Request) - 1
    BY <1>1 DEF RacersCounted, Age
  <2>1. ReportBarrier(Age(i)) - 1 <= b
    BY <1>1, BarrierMonotone, BarrierAtLeastBase
  <2>2. Behind(i, b)' \subseteq Behind(i, b)
    BY <1>1 DEF QuietFor, Behind, Running
  <2>3. Behind(i, b) \in SUBSET Request
    BY DEF Behind
  <2>4. /\ Cardinality(Behind(i, b)') <= Cardinality(Behind(i, b))
        /\ Cardinality(Behind(i, b)') \in Nat /\ Cardinality(Behind(i, b)) \in Nat
    BY <2>2, <2>3, BehindFinite, FS_Subset, FS_CardinalityType
  <2>5. Cardinality(reports[i]) + Cardinality(Behind(i, b)) <= b + Cardinality(Request) - 1
    BY <1>3, <2>1 DEF RacersCounted
  <2>6. Cardinality(Request) \in Nat
    BY BehindFinite
  <2> QED
    BY <1>1, <2>4, <2>5, <2>6
<1> QED
  BY <1>2, <1>3

\* The report that does not hide the picture leaves the handlers behind, or is
\* itself the one at the count in question.
LEMMA AddReportCounted ==
  ASSUME TypeOK, NEW r \in Request, AddReport(r), NEW i \in Image, req[r].img = i,
         CanAddReport(i, req[r].usr), RacersCounted(i)
  PROVE  HideUnderWay(i)' \/ RacersCounted(i)'
<1> DEFINE n == Cardinality(reports[i])
<1>1. req[r] # Idle /\ req[r] \in ReportHandler
  BY HandlerPCs DEF AddReport, Running, ReportPC, Idle
<1>2. /\ req[r].usr \in User /\ req[r].seen \in Nat
      /\ \A q \in Request \ {r} : req'[q] = req[q]
  BY <1>1, OthersUntouched DEF ReportHandler, HandlerStep
<1>3. n \in Nat /\ Cardinality(reports'[i]) = n + 1 /\ Age(i)' = Age(i)
  <2>1. reports'[i] = reports[i] \cup {req[r].usr}
    BY DEF AddReport, TypeOK
  <2>2. reports[i] \in SUBSET User
    BY DEF TypeOK
  <2> QED
    BY <1>2, <2>1, <2>2, OneMoreReport, ReportsFinite DEF CanAddReport, AddReport, Age
<1>4. CASE WillBeHidden(i, req[r].seen + 1)
  <2>1. req'[r].pc = "hide_image" /\ req'[r].img = i
    BY <1>1, <1>4, AwaitKeepsRest DEF AddReport
  <2> QED
    BY <2>1 DEF HideUnderWay, Busy
<1>5. CASE ~WillBeHidden(i, req[r].seen + 1)
  <2>1. CASE Age(i) > MaxReportAge
    BY <1>3, <2>1 DEF HideUnderWay
  <2>2. CASE ~(Age(i) > MaxReportAge)
    <3>1. /\ ReportBarrier(Age(i)) \in Nat /\ Age(i) \in Nat
          /\ req[r].seen + 1 < ReportBarrier(Age(i))
      <4>1. Age(i) \in Nat
        BY AgeIsNat
      <4>2. ReportBarrier(Age(i)) \in Nat
        BY <4>1, BarrierAtLeastBase
      <4> QED
        BY <1>2, <1>5, <2>2, <4>1, <4>2, NumbersAssumption DEF WillBeHidden
    <3>2. req'[r] = Idle /\ Running(r, "add_report")
      BY <1>5, FinishedIsIdle DEF AddReport
    <3> SUFFICES ASSUME NEW b \in Nat, ReportBarrier(Age(i)) - 1 <= b, b <= n + 1
                 PROVE  n + 1 + Cardinality(Behind(i, b)') <= b + Cardinality(Request) - 1
      BY <1>3 DEF RacersCounted
    <3>3. Behind(i, b) \in SUBSET Request /\ r \in Behind(i, b)
      BY <1>2, <3>1, <3>2 DEF Behind
    <3>4. Behind(i, b)' = Behind(i, b) \ {r}
      BY <1>2, <3>2 DEF Behind, Running, Idle
    <3>5. /\ Cardinality(Behind(i, b)) \in Nat /\ IsFiniteSet(Behind(i, b))
          /\ Cardinality(Behind(i, b)) <= Cardinality(Request)
          /\ Cardinality(Request) \in Nat
      BY <3>3, BehindFinite
    <3>6. Cardinality(Behind(i, b)') = Cardinality(Behind(i, b)) - 1
      <4> PICK S \in SUBSET Request : S = Behind(i, b)
        BY <3>3
      <4>1. IsFiniteSet(S) /\ r \in S /\ Behind(i, b)' = S \ {r}
        BY <3>3, <3>4, <3>5
      <4>2. Cardinality(S \ {r}) = Cardinality(S) - 1
        BY <4>1, FS_RemoveElement
      <4> QED
        BY <4>1, <4>2
    <3>7. CASE b <= n
      <4>1. n + Cardinality(Behind(i, b)) <= b + Cardinality(Request) - 1
        BY <3>7 DEF RacersCounted
      <4> QED
        BY <1>3, <3>5, <3>6, <4>1
    <3>8. CASE b = n + 1
      BY <1>3, <3>5, <3>6, <3>8
    <3> QED
      BY <1>3, <3>7, <3>8
  <2> QED
    BY <2>1, <2>2
<1> QED
  BY <1>4, <1>5

\* Handlers of other pictures, and handlers of this one that neither report it
\* nor are cut off before they hide it, leave the count alone.
LEMMA StepQuiet ==
  ASSUME TypeOK, NEW r \in Request, NEW i \in visible,
         HandlerStep(r) \/ CutOff(r) \/ Arrival(r), i \in visible',
         AddReport(r) => req[r].img # i \/ ~CanAddReport(i, req[r].usr)
  PROVE  QuietFor(i)
<1>1. \A q \in Request \ {r} : req'[q] = req[q]
  BY OthersUntouched
<1>2. i \in Image /\ i \in used /\ day \in Nat
  BY NumbersAssumption DEF TypeOK
<1>3. ASSUME \/ Finish(r)
             \/ /\ req[r] = Idle
                /\ req'[r].pc \in {"get_image_info", "save_image", "remove_file"},
             reports'[i] = reports[i], linkDate'[i] = linkDate[i], day' = day, cut \subseteq cut',
             (Running(r, "hide_image") /\ req[r].img = i) => WasCut(i, {"hide_image"})'
      PROVE  QuietFor(i)
  <2>1. req'[r].pc \notin {"add_report", "hide_image"}
    BY <1>3, FinishedIsIdle DEF Idle
  <2>2. req[r].pc = "hide_image" => Finish(r)
    BY <1>3 DEF Idle
  <2> QED
    BY <1>1, <1>2, <1>3, <2>1, <2>2 DEF QuietFor, Busy, Running
<1>4. ASSUME req[r] # Idle, NEW pc, Await(r, pc), pc \notin {"add_report", "hide_image"},
             reports' = reports, linkDate' = linkDate, day' = day, cut \subseteq cut',
             ~Running(r, "hide_image") \/ req[r].img # i
      PROVE  QuietFor(i)
  <2>1. req'[r].pc = pc
    BY <1>4, AwaitKeepsRest
  <2> QED
    BY <1>1, <1>2, <1>4, <2>1 DEF QuietFor, Busy, Running
<1>5. CASE GetImageInfo(r)
  <2>1. CASE Finish(r)
    BY <1>3, <1>5, <2>1 DEF GetImageInfo, tables, Running
  <2>2. CASE ~Finish(r)
    <3>1. Running(r, "get_image_info")
          /\ UNCHANGED <<reports, linkDate, day, cut>>
      BY <1>5 DEF GetImageInfo, tables
    <3>2. \/ req'[r] = Idle
          \/ /\ req'[r].seen = Cardinality(reports[req[r].img])
             /\ req'[r].img = req[r].img
             /\ req'[r].pc = "add_report"
      BY <1>5, ReadOutcome
    <3> QED
      BY <1>1, <1>2, <3>1, <3>2 DEF QuietFor, Busy, Running, Idle
  <2> QED
    BY <2>1, <2>2
<1>6. CASE AddReport(r)
  <2>1. reports'[i] = reports[i]
    BY <1>2, <1>6 DEF AddReport, TypeOK
  <2>2. CASE Finish(r)
    BY <1>3, <1>6, <2>1, <2>2 DEF AddReport, Running
  <2>3. CASE Await(r, "hide_image")
    <3>1. req'[r].pc = "hide_image" /\ req[r].pc = "add_report"
      BY <1>6, <2>3, AwaitKeepsRest, HandlerPCs DEF AddReport, Running, Idle
    <3> QED
      BY <1>1, <1>2, <1>6, <2>1, <3>1 DEF QuietFor, Busy, Running, AddReport
  <2> QED
    BY <1>6, <2>2, <2>3 DEF AddReport
<1>7. CASE HideImage(r)
  <2>1. req[r].img # i /\ req[r] # Idle
    BY <1>7 DEF HideImage, Running, Idle
  <2> QED
    BY <1>4, <1>7, <2>1 DEF HideImage
<1>8. CASE NotifyHidden(r)
  BY <1>3, <1>8 DEF NotifyHidden, Running, tables
<1>9. CASE SaveImage(r)
  <2>1. req[r] # Idle /\ ~Running(r, "hide_image")
    BY <1>9 DEF SaveImage, Running, Idle
  <2> QED
    BY <1>3, <1>4, <1>9, <2>1 DEF SaveImage, tables
<1>10. CASE EncodeImage(r)
  <2>1. req[r] # Idle /\ ~Running(r, "hide_image")
    BY <1>10 DEF EncodeImage, Running, Idle
  <2> QED
    BY <1>3, <1>4, <1>10, <2>1 DEF EncodeImage, tables
<1>11. CASE RevertLinkImage(r)
  <2>1. reports'[i] = reports[i]
    BY <1>2, <1>11 DEF RevertLinkImage, DeleteRow, TypeOK
  <2> QED
    BY <1>3, <1>11, <2>1 DEF RevertLinkImage, DeleteRow, Running
<1>12. CASE RemoveFile(r)
  BY <1>3, <1>12 DEF RemoveFile, Running, tables
<1>13. CASE CutOff(r)
  <2>1. Finish(r) /\ cut' = cut \cup {<<req[r].img, req[r].pc>>}
    BY <1>13 DEF CutOff
  <2>2. (Running(r, "hide_image") /\ req[r].img = i) => WasCut(i, {"hide_image"})'
    BY <2>1 DEF WasCut, Running
  <2>3. /\ reports'[i] = reports[i] /\ linkDate'[i] = linkDate[i] /\ day' = day
        /\ cut \subseteq cut'
    BY <1>13, <2>1 DEF CutOff, tables
  <2>4. \/ Finish(r)
        \/ /\ req[r] = Idle
           /\ req'[r].pc \in {"get_image_info", "save_image", "remove_file"}
    BY <2>1
  <2>5. QuietFor(i)
    BY <1>3, <2>2, <2>3, <2>4
  <2> QED
    BY <2>5
<1>14. ASSUME NEW j \in Image, NEW u \in User, ReportImage(r, j, u) PROVE QuietFor(i)
  <2>1. req[r] = Idle /\ req'[r].pc = "get_image_info"
    BY <1>14, ArrivedFields
  <2> QED
    BY <1>3, <1>14, <2>1 DEF ReportImage, tables, Running, Idle
<1>15. ASSUME NEW j \in Image, LinkImage(r, j) PROVE QuietFor(i)
  <2>1. /\ req[r] = Idle /\ req'[r].pc = "save_image"
        /\ reports'[i] = reports[i] /\ linkDate'[i] = linkDate[i]
    BY <1>2, <1>15 DEF LinkImage, Begin, TypeOK
  <2> QED
    BY <1>3, <1>15, <2>1 DEF LinkImage, Running, Idle
<1>16. ASSUME NEW j \in Image, DeleteImage(r, j) PROVE QuietFor(i)
  <2>1. req[r] = Idle /\ req'[r].pc = "remove_file"
    BY <1>16 DEF DeleteImage, Begin, TypeOK
  <2>2. reports'[i] = reports[i] /\ linkDate' = linkDate
    BY <1>2, <1>16 DEF DeleteImage, DeleteRow, TypeOK
  <2> QED
    BY <1>3, <1>16, <2>1, <2>2 DEF DeleteImage, Running, Idle
<1> QED
  BY <1>5, <1>6, <1>7, <1>8, <1>9, <1>10, <1>11, <1>12, <1>13, <1>14, <1>15, <1>16
  DEF HandlerStep, Arrival

LEMMA NextMissedInv ==
  TypeOK /\ TypeOK' /\ ReportsHaveRows /\ MissedInv /\ [Next]_vars => MissedInv'
<1> SUFFICES ASSUME TypeOK, TypeOK', ReportsHaveRows, MissedInv, [Next]_vars,
                    NEW i \in Image, i \in visible', i \notin approved'
             PROVE  HideUnderWay(i)' \/ RacersCounted(i)'
  BY DEF MissedInv, TypeOK
<1>1. ASSUME i \in visible, i \notin approved, QuietFor(i)
      PROVE  HideUnderWay(i)' \/ RacersCounted(i)'
  <2>1. HideUnderWay(i) \/ RacersCounted(i)
    BY <1>1 DEF MissedInv
  <2> QED
    BY <1>1, <2>1, QuietKeeps
<1>2. CASE NextDay \/ UNCHANGED vars \/ \E j \in Image : VerifyImage(j)
  <2>1. /\ i \in visible /\ i \notin approved
        /\ req' = req /\ reports' = reports /\ linkDate' = linkDate /\ cut' = cut
        /\ day' \in Nat /\ day <= day'
    BY <1>2, NumbersAssumption DEF NextDay, vars, tables, VerifyImage, TypeOK
  <2>2. QuietFor(i)
    BY <2>1 DEF QuietFor, Busy, Running
  <2> QED
    BY <1>1, <2>1, <2>2
<1>3. ASSUME NEW r \in Request, LinkImage(r, i)
      PROVE  RacersCounted(i)'
  <2>1. i \notin used /\ reports'[i] = {}
    BY <1>3 DEF LinkImage, ReportsHaveRows, TypeOK
  <2>2. \A q \in Request : ~(Running(q, "add_report")' /\ req'[q].img = i)
    <3>1. \A q \in Request \ {r} : req'[q] = req[q]
      BY <1>3, OthersUntouched DEF Arrival
    <3>2. req'[r].pc = "save_image"
      BY <1>3 DEF LinkImage, Begin, TypeOK
    <3>3. \A q \in Request : req[q] # Idle => req[q].img \in used
      BY HandlerPCs
    <3> QED
      BY <2>1, <3>1, <3>2, <3>3 DEF Running, Idle
  <2>3. \A b : Behind(i, b)' = {}
    BY <2>2 DEF Behind
  <2>4. Cardinality(reports'[i]) = 0 /\ \A b : Cardinality(Behind(i, b)') = 0
    BY <2>1, <2>3, FS_EmptySet
  <2>5. Cardinality(Request) \in Nat /\ Cardinality(Request) # 0
    BY BehindFinite, SetsAssumption, FS_EmptySet
  <2> QED
    BY <2>4, <2>5 DEF RacersCounted
<1>4. ASSUME NEW r \in Request, HandlerStep(r) \/ CutOff(r) \/ Arrival(r), ~LinkImage(r, i)
      PROVE  HideUnderWay(i)' \/ RacersCounted(i)'
  <2>1. i \in visible /\ i \notin approved
    <3>1. CASE Arrival(r)
      BY <1>4, <3>1, <1>3 DEF Arrival, ReportImage, LinkImage, DeleteImage, DeleteRow, tables
    <3>2. CASE CutOff(r)
      BY <3>2 DEF CutOff, tables
    <3>3. CASE HandlerStep(r)
      BY <3>3 DEF HandlerStep, GetImageInfo, AddReport, HideImage, NotifyHidden, SaveImage,
                  EncodeImage, RevertLinkImage, RemoveFile, DeleteRow, tables
    <3> QED
      BY <1>4, <3>1, <3>2, <3>3
  <2>2. CASE AddReport(r) /\ req[r].img = i /\ CanAddReport(i, req[r].usr)
    <3>1. CASE RacersCounted(i)
      BY <2>2, <3>1, AddReportCounted
    <3>2. CASE HideUnderWay(i)
      <4>1. /\ \A q \in Request \ {r} : req'[q] = req[q]
            /\ req[r].pc = "add_report" /\ Age(i)' = Age(i) /\ cut' = cut
        BY <1>4, <2>2, OthersUntouched DEF AddReport, Running, Age
      <4> QED
        BY <3>2, <4>1 DEF HideUnderWay, Busy, WasCut
    <3> QED
      BY <2>1, <3>1, <3>2 DEF MissedInv
  <2>3. CASE ~(AddReport(r) /\ req[r].img = i /\ CanAddReport(i, req[r].usr))
    BY <1>1, <1>4, <2>1, <2>3, StepQuiet
  <2> QED
    BY <2>2, <2>3
<1> QED
  BY <1>2, <1>3, <1>4 DEF Next

\* However many reports race each other and on whichever day: a picture that is
\* in view although nobody is hiding it has at most one report for every other
\* handler above the number that should have hidden it.
THEOREM FewReportsMissed == Spec => []MissedReportsBounded
<1>1. Init => ReportsHaveRows /\ MissedInv
  BY DEF Init, ReportsHaveRows, MissedInv
<1>2. TypeOK /\ MissedInv => MissedReportsBounded
  <2> SUFFICES ASSUME TypeOK, MissedInv, NEW i \in visible \ approved, ~HideUnderWay(i)
               PROVE  Cardinality(reports[i]) <=
                        ReportBarrier(Age(i)) - 1 + Cardinality(Request) - 1
    BY DEF MissedReportsBounded, HideUnderWay
  <2> DEFINE b == ReportBarrier(Age(i)) - 1
  <2>1. i \in Image /\ reports[i] \in SUBSET User
    BY DEF TypeOK
  <2>2. b \in Nat
    BY <2>1, AgeIsNat, BarrierAtLeastBase, NumbersAssumption
  <2>3. /\ Cardinality(reports[i]) \in Nat /\ Cardinality(Request) \in Nat
        /\ Cardinality(Behind(i, b)) \in Nat
    BY <2>1, ReportsFinite, BehindFinite DEF Behind
  <2>4. b <= Cardinality(reports[i]) =>
          Cardinality(reports[i]) + Cardinality(Behind(i, b)) <= b + Cardinality(Request) - 1
    BY <2>2 DEF MissedInv, RacersCounted
  <2> HIDE DEF b
  <2>5. Cardinality(reports[i]) <= b + Cardinality(Request) - 1
    BY <2>2, <2>3, <2>4
  <2> QED
    BY <2>5 DEF b
<1> QED
  BY <1>1, <1>2, InitTypeOK, NextTypeOK, NextReportsHaveRows, NextMissedInv, PTL DEF Spec

-----------------------------------------------------------------------------
(* The handlers implement the gallery                                      *)

LEMMA PhaseFacts ==
  ASSUME TypeOK, NEW i \in Image
  PROVE  /\ PhaseOf[i] = "unused" <=> i \notin used
         /\ PhaseOf[i] = "shown" <=> i \in visible
         /\ PhaseOf[i] = "hidden" <=> i \in linked \ visible
         /\ PhaseOf[i] = "gone" <=> i \in used \ linked
         /\ PhaseOf[i] \in {"unused", "shown", "hidden", "gone"}
  BY DEF PhaseOf, TypeOK

LEMMA Untouched ==
  ASSUME UNCHANGED <<used, linked, visible, approved, reports>>
  PROVE  UNCHANGED <<PhaseOf, approved, reports>>
  BY DEF PhaseOf

LEMMA NextPhaseFacts ==
  ASSUME TypeOK', NEW i \in Image
  PROVE  /\ PhaseOf'[i] = "unused" <=> i \notin used'
         /\ PhaseOf'[i] = "shown" <=> i \in visible'
         /\ PhaseOf'[i] = "hidden" <=> i \in linked' \ visible'
         /\ PhaseOf'[i] = "gone" <=> i \in used' \ linked'
         /\ PhaseOf'[i] \in {"unused", "shown", "hidden", "gone"}
  BY DEF PhaseOf, TypeOK

SamePlace(j) ==
    /\ j \in used' <=> j \in used
    /\ j \in linked' <=> j \in linked
    /\ j \in visible' <=> j \in visible

\* A step moves picture i to a phase and leaves the others where they are.
LEMMA PhaseStep ==
  ASSUME TypeOK, TypeOK', NEW i \in Image, NEW p, PhaseOf'[i] = p,
         \A j \in Image \ {i} : SamePlace(j)
  PROVE  PhaseOf' = [PhaseOf EXCEPT ![i] = p]
<1>1. \A j \in Image \ {i} : PhaseOf'[j] = PhaseOf[j]
  <2> TAKE j \in Image \ {i}
  <2>1. /\ j \in used' <=> j \in used
        /\ j \in linked' <=> j \in linked
        /\ j \in visible' <=> j \in visible
    BY DEF SamePlace
  <2>2. /\ PhaseOf[j] = "unused" <=> j \notin used
        /\ PhaseOf[j] = "shown" <=> j \in visible
        /\ PhaseOf[j] = "hidden" <=> j \in linked \ visible
        /\ PhaseOf[j] = "gone" <=> j \in used \ linked
        /\ PhaseOf[j] \in {"unused", "shown", "hidden", "gone"}
    BY PhaseFacts
  <2>3. /\ PhaseOf'[j] = "unused" <=> j \notin used'
        /\ PhaseOf'[j] = "shown" <=> j \in visible'
        /\ PhaseOf'[j] = "hidden" <=> j \in linked' \ visible'
        /\ PhaseOf'[j] = "gone" <=> j \in used' \ linked'
        /\ PhaseOf'[j] \in {"unused", "shown", "hidden", "gone"}
    BY NextPhaseFacts
  <2> HIDE DEF PhaseOf
  <2> QED
    BY <2>1, <2>2, <2>3
<1>2. /\ PhaseOf = [j \in Image |-> PhaseOf[j]]
      /\ PhaseOf' = [j \in Image |-> PhaseOf'[j]]
  BY DEF PhaseOf
<1> QED
  BY <1>1, <1>2

LEMMA DeleteRowImplements ==
  ASSUME TypeOK, TypeOK', ReportsHaveRows, NEW i \in used, DeleteRow(i), used' = used
  PROVE  Gallery!Remove(i) \/ UNCHANGED <<PhaseOf, approved, reports>>
<1>0. i \in Image
  BY DEF TypeOK
<1>1. CASE i \in linked
  <2>1. PhaseOf'[i] = "gone"
    BY <1>0, NextPhaseFacts DEF DeleteRow, TypeOK
  <2>2. PhaseOf' = [PhaseOf EXCEPT ![i] = "gone"]
    <3>1. \A j \in Image \ {i} : SamePlace(j)
      BY DEF DeleteRow, SamePlace
    <3> QED
      BY <1>0, <2>1, <3>1, PhaseStep
  <2>3. PhaseOf[i] \in {"shown", "hidden"}
    BY <1>0, <1>1, PhaseFacts
  <2> QED
    BY <2>2, <2>3 DEF DeleteRow, Gallery!Remove, Gallery!Present
<1>2. CASE i \notin linked
  <2>1. linked' = linked /\ visible' = visible /\ approved' = approved
    BY <1>2 DEF DeleteRow, TypeOK
  <2>2. reports' = reports
    BY <1>0, <1>2 DEF DeleteRow, ReportsHaveRows, TypeOK
  <2> QED
    BY <2>1, <2>2, Untouched
<1> QED
  BY <1>1, <1>2

LEMMA StepImplements ==
  TypeOK /\ TypeOK' /\ ReportInv /\ ReportsHaveRows /\ [Next]_vars
    => [Gallery!GalleryNext]_<<PhaseOf, approved, reports>>
<1> SUFFICES ASSUME TypeOK, TypeOK', ReportInv, ReportsHaveRows, [Next]_vars
             PROVE  Gallery!GalleryNext \/ UNCHANGED <<PhaseOf, approved, reports>>
  OBVIOUS
<1>1. CASE NextDay \/ UNCHANGED vars
  BY <1>1, Untouched DEF NextDay, vars, tables
<1>2. ASSUME NEW i \in Image, VerifyImage(i) PROVE Gallery!Verify(i)
  <2>1. PhaseOf[i] \in {"shown", "hidden"}
    BY <1>2, PhaseFacts DEF VerifyImage
  <2> QED
    BY <1>2, <2>1 DEF VerifyImage, Gallery!Verify, Gallery!Present, PhaseOf
<1>3. ASSUME NEW r \in Request, NEW i \in Image, LinkImage(r, i) PROVE Gallery!Publish(i)
  <2>1. PhaseOf'[i] = "shown"
    BY <1>3, NextPhaseFacts DEF LinkImage
  <2>2. PhaseOf' = [PhaseOf EXCEPT ![i] = "shown"]
    <3>1. \A j \in Image \ {i} : SamePlace(j)
      BY <1>3 DEF LinkImage, SamePlace
    <3> QED
      BY <2>1, <3>1, PhaseStep
  <2> QED
    BY <1>3, <2>2, PhaseFacts DEF LinkImage, Gallery!Publish
<1>4. ASSUME NEW r \in Request, NEW i \in Image, DeleteImage(r, i)
      PROVE  Gallery!Remove(i) \/ UNCHANGED <<PhaseOf, approved, reports>>
  BY <1>4, DeleteRowImplements DEF DeleteImage
<1>5. ASSUME NEW r \in Request, RevertLinkImage(r)
      PROVE  Gallery!Remove(req[r].img) \/ UNCHANGED <<PhaseOf, approved, reports>>
  BY <1>5, HandlerPCs, DeleteRowImplements DEF RevertLinkImage, Running
<1>6. ASSUME NEW r \in Request, AddReport(r)
      PROVE  \/ Gallery!Report(req[r].img, req[r].usr)
             \/ UNCHANGED <<PhaseOf, approved, reports>>
  <2> DEFINE i == req[r].img
             u == req[r].usr
  <2>1. CASE ~CanAddReport(i, u)
    BY <1>6, <2>1, Untouched DEF AddReport
  <2>2. CASE CanAddReport(i, u)
    <3>1. PhaseOf[i] \in {"shown", "hidden"}
      BY <2>2, PhaseFacts DEF CanAddReport, TypeOK
    <3>2. PhaseOf' = PhaseOf /\ approved' = approved
      BY <1>6 DEF AddReport, PhaseOf
    <3> QED
      BY <1>6, <2>2, <3>1, <3>2 DEF AddReport, CanAddReport, Gallery!Report, Gallery!Present
  <2> QED
    BY <2>1, <2>2
<1>7. ASSUME NEW r \in Request, HideImage(r)
      PROVE  Gallery!Hide(req[r].img) \/ UNCHANGED <<PhaseOf, approved, reports>>
  <2> DEFINE i == req[r].img
  <2>1. CASE i \notin visible
    BY <1>7, <2>1, Untouched DEF HideImage
  <2>2. CASE i \in visible
    <3>1. i \in linked /\ i \in Image
      BY <2>2 DEF TypeOK
    <3>2. PhaseOf'[i] = "hidden"
      BY <1>7, <3>1, NextPhaseFacts DEF HideImage
    <3>3. PhaseOf' = [PhaseOf EXCEPT ![i] = "hidden"]
      <4>1. \A j \in Image \ {i} : SamePlace(j)
        BY <1>7 DEF HideImage, SamePlace
      <4> QED
        BY <3>1, <3>2, <4>1, PhaseStep
    <3>4. PhaseOf[i] = "shown"
      BY <2>2, <3>1, PhaseFacts
    <3>5. Cardinality(reports[i]) >= BarrierBase
      BY <1>7, <3>1 DEF HideImage, ReportInv, HideJustified
    <3>6. approved' = approved /\ reports' = reports
      BY <1>7 DEF HideImage
    <3> HIDE DEF i, PhaseOf
    <3>7. Gallery!Hide(i)
      BY <3>3, <3>4, <3>5, <3>6 DEF Gallery!Hide, Gallery!Cardinality, Cardinality
    <3> QED
      BY <3>7 DEF i
  <2> QED
    BY <2>1, <2>2
<1>8. ASSUME NEW r \in Request,
             \/ \E i \in Image, u \in User : ReportImage(r, i, u)
             \/ GetImageInfo(r) \/ NotifyHidden(r) \/ SaveImage(r)
             \/ EncodeImage(r) \/ RemoveFile(r) \/ CutOff(r)
      PROVE  UNCHANGED <<PhaseOf, approved, reports>>
  BY <1>8, Untouched
  DEF ReportImage, GetImageInfo, NotifyHidden, SaveImage, EncodeImage, RemoveFile, CutOff, tables
<1>9. \A r \in Request : AddReport(r) \/ HideImage(r) \/ RevertLinkImage(r) =>
        req[r].img \in Image
  BY HandlerPCs DEF AddReport, HideImage, RevertLinkImage, Running, TypeOK
<1>10. \A r \in Request : AddReport(r) => req[r].usr \in User
  BY HandlerPCs DEF AddReport, Running, ReportPC, ReportHandler
<1> QED
  BY <1>1, <1>2, <1>3, <1>4, <1>5, <1>6, <1>7, <1>8, <1>9, <1>10
  DEF Next, Arrival, HandlerStep, Gallery!GalleryNext

\* The handlers, interleaved and cut off in any way, implement the gallery:
\* distinct reporters, no way back into view, removal for good.
THEOREM CommandsImplementGallery == Spec => ImplementsGallery
<1>1. Init => Gallery!GalleryInit
  BY DEF Init, Gallery!GalleryInit, PhaseOf
<1>2. Init => ReportInv
  BY DEF Init, ReportInv, SeenBounded, HideJustified, HiddenOnlyAfterEnoughReports,
         Running, Idle
<1>3. Init => ReportsHaveRows
  BY DEF Init, ReportsHaveRows
<1> QED
  BY <1>1, <1>2, <1>3, InitTypeOK, NextTypeOK, NextReportInv, NextReportsHaveRows,
     StepImplements, PTL
  DEF Spec, ImplementsGallery, Gallery!GallerySpec, Gallery!galleryVars
=============================================================================
