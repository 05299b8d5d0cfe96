---------------------------- MODULE ReportProofs ----------------------------
(***************************************************************************)
(* When the two seconds suffice: if every read is answered before the      *)
(* timer fires and a report is begun only after the previous one has been  *)
(* saved, no report is saved with an empty field.                          *)
(***************************************************************************)
EXTENDS Report, TLAPS

Unhurried == setting.may = {}

(* The types that the argument needs.                                      *)
Typed ==
    /\ setting \in Settings
    /\ form \in Form /\ reads \in [ReadKind -> Nat] /\ timers \in Nat
    /\ saved \in Seq(Form)

(* While a save is due, each field has arrived or is being read.           *)
Coming ==
    timers > 0 =>
        /\ form.reason # Nil
        /\ form.reporter \/ reads["reporter"] > 0
        /\ form.post \/ (~OnPage /\ reads["post"] > 0)
        /\ form.accused # Nil \/ (OnPage /\ reads[setting.writer] > 0)

(* In a room the reasons are offered once a member is chosen.              *)
ChosenFirst == step = "reason" /\ ~OnPage => form.accused # Nil

IInv == Typed /\ Coming /\ ChosenFirst /\ CollectedBeforeSaving

LEMMA WriterIsMember == setting \in Settings /\ OnPage => setting.writer \in Member
  BY ReportAssumption DEF OnPage

LEMMA InitComplete == Init => IInv
  BY ReportAssumption DEF Init, IInv, Typed, Coming, ChosenFirst, Form, Blank,
     NothingAsked, CollectedBeforeSaving

LEMMA AnsweredTyped ==
    ASSUME reads \in [ReadKind -> Nat], NEW k \in ReadKind, reads[k] > 0
    PROVE  /\ Answered(k) \in [ReadKind -> Nat]
           /\ \A j \in ReadKind \ {k} : Answered(k)[j] = reads[j]
  BY DEF Answered

LEMMA AskingTyped ==
    ASSUME reads \in [ReadKind -> Nat], NEW kinds
    PROVE  /\ Asking(kinds) \in [ReadKind -> Nat]
           /\ \A j \in ReadKind : Asking(kinds)[j] >= reads[j]
           /\ \A j \in ReadKind \cap kinds : Asking(kinds)[j] > 0
  BY DEF Asking

LEMMA Kinds ==
    /\ "reporter" \in ReadKind /\ "post" \in ReadKind /\ "members" \in ReadKind
    /\ Member \subseteq ReadKind
    /\ \A m \in Member : m \notin {"reporter", "post", "members"}
  BY ReportAssumption DEF ReadKind

LEMMA NextComplete ==
    ASSUME Unhurried, IInv, [Next]_vars
    PROVE  IInv'
<1> USE DEF IInv
<1>env. "slow" \notin setting.may /\ "again" \notin setting.may /\ "offline" \notin setting.may
  BY DEF Unhurried
<1>set. setting' = setting /\ OnPage' = OnPage
  BY DEF Next, vars, OnPage
<1>wri. OnPage => setting.writer \in ReadKind \ {"reporter", "post", "members"}
  BY WriterIsMember, Kinds DEF Typed
<1> USE <1>set
<1>1. CASE BeginOnPage
  BY <1>1 DEF BeginOnPage, Typed, Coming, ChosenFirst, CollectedBeforeSaving
<1>2. CASE BeginInRoom
  <2>1. reads' = Asking({"members"}) /\ UNCHANGED <<form, step, timers, saved>>
    BY <1>2 DEF BeginInRoom
  <2>2. Typed' /\ \A j \in ReadKind : reads'[j] >= reads[j]
    BY <2>1, AskingTyped DEF Typed
  <2>3. Coming'
    BY <2>1, <2>2, <1>wri, Kinds DEF Coming, Typed
  <2> QED
    BY <2>1, <2>2, <2>3 DEF ChosenFirst, CollectedBeforeSaving
<1>3. CASE Cancel
  BY <1>3 DEF Cancel, Typed, Coming, ChosenFirst, CollectedBeforeSaving
<1>4. CASE Save
  <2>1. /\ timers > 0 /\ timers' = timers - 1 /\ saved' = Append(saved, form)
        /\ \A k \in {"reporter"} \cup Subject : reads[k] = 0
        /\ UNCHANGED <<form, step, reads>>
    BY <1>4, <1>env DEF Save
  <2>2. form.reporter /\ form.post /\ form.accused # Nil /\ form.reason # Nil
    <3>1. reads["reporter"] = 0 /\ form.reporter
      BY <2>1 DEF Coming, Typed
    <3>2. form.post
      BY <2>1 DEF Coming, Typed, Subject
    <3>3. form.accused # Nil
      <4>1. OnPage => reads[setting.writer] = 0
        BY <2>1 DEF Subject
      <4> QED
        BY <2>1, <4>1 DEF Coming
    <3> QED
      BY <2>1, <3>1, <3>2, <3>3 DEF Coming
  <2>3. Typed'
    BY <2>1 DEF Typed
  <2>4. Coming'
    BY <2>1, <2>3 DEF Coming, Typed
  <2>5. CollectedBeforeSaving'
    <3> SUFFICES ASSUME NEW i \in DOMAIN saved'
                 PROVE  /\ saved'[i].reporter /\ saved'[i].post
                        /\ saved'[i].accused # Nil /\ saved'[i].reason # Nil
      BY DEF CollectedBeforeSaving
    <3>1. (i \in DOMAIN saved /\ saved'[i] = saved[i]) \/ saved'[i] = form
      BY <2>1 DEF Typed
    <3> QED
      BY <2>2, <3>1 DEF CollectedBeforeSaving, Unhurried
  <2> QED
    BY <2>1, <2>3, <2>4, <2>5 DEF ChosenFirst
<1>5. ASSUME NEW m \in Member, Choose(m) PROVE IInv'
  <2>1. /\ form' = [form EXCEPT !.accused = m] /\ m # Nil
        /\ UNCHANGED <<reads, timers, saved>>
    BY <1>5, ReportAssumption DEF Choose
  <2>2. Typed' /\ form'.accused = m
    BY <2>1 DEF Typed, Form
  <2>3. form'.reason = form.reason /\ form'.reporter = form.reporter
        /\ form'.post = form.post
    BY <2>1 DEF Typed, Form
  <2> QED
    BY <2>1, <2>2, <2>3 DEF Coming, ChosenFirst, CollectedBeforeSaving
<1>6. ASSUME NEW m \in Member, AnswerMember(m) PROVE IInv'
  <2>1. ~OnPage /\ reads[m] > 0 /\ reads' = Answered(m) /\ UNCHANGED <<form, step, timers, saved>>
    BY <1>6 DEF AnswerMember
  <2>2. Typed' /\ \A j \in ReadKind \ {m} : reads'[j] = reads[j]
    BY <2>1, Kinds, AnsweredTyped DEF Typed
  <2>3. Coming'
    BY <2>1, <2>2, <1>wri, Kinds DEF Coming
  <2> QED
    BY <2>1, <2>2, <2>3 DEF ChosenFirst, CollectedBeforeSaving
<1>7. ASSUME NEW m \in Member, AnswerWriter(m) PROVE IInv'
  <2>1. /\ OnPage /\ reads[m] > 0 /\ reads' = Answered(m)
        /\ form' = [form EXCEPT !.accused = m] /\ m # Nil
        /\ UNCHANGED <<step, timers, saved>>
    BY <1>7, ReportAssumption DEF AnswerWriter
  <2>2. Typed' /\ \A j \in ReadKind \ {m} : reads'[j] = reads[j]
    BY <2>1, Kinds, AnsweredTyped DEF Typed, Form
  <2>3. form'.accused = m /\ form'.reason = form.reason
        /\ form'.reporter = form.reporter /\ form'.post = form.post
    BY <2>1 DEF Typed, Form
  <2>4. Coming'
    BY <2>1, <2>2, <2>3, <1>wri, Kinds DEF Coming
  <2> QED
    BY <2>1, <2>2, <2>4 DEF ChosenFirst, CollectedBeforeSaving
<1>8. ASSUME NEW r \in Reason, Confirm(r) PROVE IInv'
  <2>1. /\ form' = [form EXCEPT !.reason = r, !.post = OnPage \/ @] /\ r # Nil
        /\ reads' = Asking({"reporter"} \cup Subject) /\ timers' = timers + 1
        /\ step = "reason" /\ step' = "screen" /\ saved' = saved
    BY <1>8, ReportAssumption DEF Confirm
  <2>2. /\ reads' \in [ReadKind -> Nat]
        /\ \A j \in ReadKind \cap ({"reporter"} \cup Subject) : reads'[j] > 0
    BY <2>1, AskingTyped DEF Typed
  <2>3. form'.reason = r /\ form'.accused = form.accused
    BY <2>1 DEF Typed, Form
  <2>4. form'.post = (OnPage \/ form.post)
    BY <2>1 DEF Typed, Form
  <2>5. form' \in Form
    <3>1. (OnPage \/ form.post) \in BOOLEAN
      OBVIOUS
    <3> QED
      BY <2>1, <3>1, Zenon DEF Typed, Form
  <2>6. Coming'
    <3>1. reads'["reporter"] > 0
      BY <2>2, Kinds
    <3>2. form'.post \/ (~OnPage /\ reads'["post"] > 0)
      BY <2>2, <2>4, Kinds DEF Subject
    <3>3. form'.accused # Nil \/ (OnPage /\ reads'[setting.writer] > 0)
      BY <2>1, <2>2, <2>3, <1>wri DEF Subject, ChosenFirst
    <3> QED
      BY <2>1, <2>3, <3>1, <3>2, <3>3 DEF Coming
  <2>7. timers' \in Nat
    BY <2>1 DEF Typed
  <2>8. Typed'
    BY <2>1, <2>2, <2>5, <2>7 DEF Typed
  <2> QED
    BY <2>1, <2>6, <2>8 DEF ChosenFirst, CollectedBeforeSaving
<1>9. CASE AnswerMembers
  <2>1. /\ reads["members"] > 0 /\ step' = "sheet"
        /\ reads' = [k \in ReadKind |-> IF k = "members" THEN reads[k] - 1
                        ELSE IF k \in Member THEN reads[k] + 1 ELSE reads[k]]
        /\ UNCHANGED <<form, timers, saved>>
    BY <1>9 DEF AnswerMembers
  <2>2. Typed'
    BY <2>1 DEF Typed
  <2>3. \A j \in ReadKind \ {"members"} : reads'[j] >= reads[j]
    BY <2>1 DEF Typed
  <2>4. Coming'
    BY <2>1, <2>2, <2>3, <1>wri, Kinds DEF Coming, Typed
  <2> QED
    BY <2>1, <2>2, <2>4 DEF ChosenFirst, CollectedBeforeSaving
<1>10. CASE AnswerReporter
  <2>1. /\ reads["reporter"] > 0 /\ reads' = Answered("reporter")
        /\ form' = [form EXCEPT !.reporter = TRUE]
        /\ UNCHANGED <<step, timers, saved>>
    BY <1>10 DEF AnswerReporter
  <2>2. Typed' /\ \A j \in ReadKind \ {"reporter"} : reads'[j] = reads[j]
    BY <2>1, Kinds, AnsweredTyped DEF Typed, Form
  <2>3. form'.reporter /\ form'.reason = form.reason
        /\ form'.accused = form.accused /\ form'.post = form.post
    BY <2>1 DEF Typed, Form
  <2>4. Coming'
    BY <2>1, <2>2, <2>3, <1>wri, Kinds DEF Coming
  <2> QED
    BY <2>1, <2>2, <2>3, <2>4 DEF ChosenFirst, CollectedBeforeSaving
<1>11. CASE AnswerPost
  <2>1. /\ reads["post"] > 0 /\ reads' = Answered("post")
        /\ form' = [form EXCEPT !.post = TRUE]
        /\ UNCHANGED <<step, timers, saved>>
    BY <1>11 DEF AnswerPost
  <2>2. Typed' /\ \A j \in ReadKind \ {"post"} : reads'[j] = reads[j]
    BY <2>1, Kinds, AnsweredTyped DEF Typed, Form
  <2>3. form'.post /\ form'.reason = form.reason
        /\ form'.accused = form.accused /\ form'.reporter = form.reporter
    BY <2>1 DEF Typed, Form
  <2>4. Coming'
    BY <2>1, <2>2, <2>3, <1>wri, Kinds DEF Coming
  <2> QED
    BY <2>1, <2>2, <2>3, <2>4 DEF ChosenFirst, CollectedBeforeSaving
<1>12. ASSUME NEW k \in ReadKind, ReadFails(k) PROVE IInv'
  BY <1>12, <1>env DEF ReadFails
<1>13. CASE UNCHANGED vars
  BY <1>13 DEF vars, Typed, Coming, ChosenFirst, CollectedBeforeSaving
<1> QED
  BY <1>1, <1>2, <1>3, <1>4, <1>5, <1>6, <1>7, <1>8, <1>9, <1>10, <1>11, <1>12,
     <1>13 DEF Next, Step

(* The information of a report is collected before it is saved, for any    *)
(* number of members, reasons and reports, on a page and in a room,        *)
(* provided that the timer of two seconds outlasts every read and reports  *)
(* do not overlap.                                                         *)
THEOREM UnhurriedReportsComplete == Spec => []CollectedBeforeSaving
<1> DEFINE Inv == Unhurried => IInv
<1>1. Init => Inv
  BY InitComplete
<1>2. Inv /\ [Next]_vars => Inv'
  <2>1. [Next]_vars => Unhurried' = Unhurried
    BY DEF Next, vars, Unhurried
  <2> QED
    BY <2>1, NextComplete
<1>3. Inv => CollectedBeforeSaving
  BY DEF IInv, Unhurried, CollectedBeforeSaving
<1> QED
  BY <1>1, <1>2, <1>3, PTL DEF Spec
-----------------------------------------------------------------------------
(* Whatever the reads do, and however reports overlap: the types.          *)
Confirmed == [accused : Member, reason : Reason]

LEMMA AnswersTyped ==
    ASSUME TypeOK, NEW k \in ReadKind, reads[k] > 0
    PROVE  Answered(k) \in [ReadKind -> Nat]
  BY AnsweredTyped DEF TypeOK

LEMMA NextTyped ==
    ASSUME TypeOK, ChosenFirst, Next
    PROVE  TypeOK' /\ ChosenFirst'
<1>set. setting' = setting /\ OnPage' = OnPage
  BY DEF Next, OnPage
<1> USE <1>set
<1>1. CASE BeginOnPage \/ Cancel
  BY <1>1 DEF BeginOnPage, Cancel, TypeOK, ChosenFirst
<1>2. CASE BeginInRoom
  <2>1. reads' = Asking({"members"})
        /\ UNCHANGED <<form, offered, step, timers, saved, confirmed>>
    BY <1>2 DEF BeginInRoom
  <2>2. reads' \in [ReadKind -> Nat]
    BY <2>1, AskingTyped DEF TypeOK
  <2> QED
    BY <2>1, <2>2 DEF TypeOK, ChosenFirst
<1>3. CASE Save
  <2>1. /\ timers > 0 /\ timers' = timers - 1 /\ saved' = Append(saved, form)
        /\ UNCHANGED <<form, offered, step, reads, confirmed>>
    BY <1>3 DEF Save
  <2>2. timers' \in Nat /\ saved' \in Seq(Form)
    BY <2>1 DEF TypeOK
  <2> QED
    BY <2>1, <2>2 DEF TypeOK, ChosenFirst
<1>4. ASSUME NEW m \in Member, Choose(m)
      PROVE  TypeOK' /\ ChosenFirst'
  <2>1. /\ form' = [form EXCEPT !.accused = m] /\ m # Nil /\ step' = "reason"
        /\ offered' = {} /\ UNCHANGED <<reads, timers, saved, confirmed>>
    BY <1>4, ReportAssumption DEF Choose
  <2>2. form' \in Form /\ form'.accused = m
    BY <2>1 DEF TypeOK, Form
  <2> QED
    BY <2>1, <2>2 DEF TypeOK, ChosenFirst
<1>5. ASSUME NEW m \in Member, AnswerMember(m)
      PROVE  TypeOK' /\ ChosenFirst'
  <2>1. /\ reads[m] > 0 /\ reads' = Answered(m) /\ offered' \in {offered, offered \cup {m}}
        /\ UNCHANGED <<form, step, timers, saved, confirmed>>
    BY <1>5 DEF AnswerMember
  <2>2. reads' \in [ReadKind -> Nat]
    BY <2>1, AnswersTyped, Kinds
  <2> QED
    BY <2>1, <2>2 DEF TypeOK, ChosenFirst
<1>6. ASSUME NEW m \in Member, AnswerWriter(m)
      PROVE  TypeOK' /\ ChosenFirst'
  <2>1. /\ OnPage /\ reads[m] > 0 /\ reads' = Answered(m)
        /\ form' = [form EXCEPT !.accused = m]
        /\ UNCHANGED <<offered, step, timers, saved, confirmed>>
    BY <1>6 DEF AnswerWriter
  <2>2. reads' \in [ReadKind -> Nat] /\ form' \in Form
    BY <2>1, AnswersTyped, Kinds DEF TypeOK, Form
  <2> QED
    BY <2>1, <2>2 DEF TypeOK, ChosenFirst
<1>7. ASSUME NEW r \in Reason, Confirm(r)
      PROVE  TypeOK' /\ ChosenFirst'
  <2> DEFINE c == [accused |-> Accused, reason |-> r]
  <2>1. /\ form' = [form EXCEPT !.reason = r, !.post = OnPage \/ @]
        /\ reads' = Asking({"reporter"} \cup Subject) /\ timers' = timers + 1
        /\ step = "reason" /\ step' = "screen" /\ confirmed' = Append(confirmed, c)
        /\ UNCHANGED <<offered, saved>>
    BY <1>7 DEF Confirm
  <2>2. reads' \in [ReadKind -> Nat] /\ timers' \in Nat
    BY <2>1, AskingTyped DEF TypeOK
  <2>3. form' \in Form
    <3>1. (OnPage \/ form.post) \in BOOLEAN
      OBVIOUS
    <3> QED
      BY <2>1, <3>1, Zenon DEF TypeOK, Form
  <2>4. c \in Confirmed
    <3>1. Accused \in Member
      BY <2>1, WriterIsMember DEF Accused, ChosenFirst, TypeOK, Form
    <3> QED
      BY <3>1 DEF Confirmed
  <2> HIDE DEF c
  <2>5. confirmed' \in Seq(Confirmed)
    BY <2>1, <2>4 DEF TypeOK, Confirmed
  <2> QED
    BY <2>1, <2>2, <2>3, <2>5 DEF TypeOK, ChosenFirst, Confirmed
<1>8. CASE AnswerMembers
  <2>1. /\ reads["members"] > 0 /\ step' = "sheet" /\ offered' = {}
        /\ reads' = [k \in ReadKind |-> IF k = "members" THEN reads[k] - 1
                        ELSE IF k \in Member THEN reads[k] + 1 ELSE reads[k]]
        /\ UNCHANGED <<form, timers, saved, confirmed>>
    BY <1>8 DEF AnswerMembers
  <2>2. reads' \in [ReadKind -> Nat]
    BY <2>1 DEF TypeOK
  <2> QED
    BY <2>1, <2>2 DEF TypeOK, ChosenFirst
<1>9. CASE AnswerReporter \/ AnswerPost
  <2>1. PICK k \in {"reporter", "post"} :
            /\ reads[k] > 0 /\ reads' = Answered(k)
            /\ form' = [form EXCEPT !.reporter = TRUE] \/ form' = [form EXCEPT !.post = TRUE]
            /\ UNCHANGED <<offered, step, timers, saved, confirmed>>
    BY <1>9 DEF AnswerReporter, AnswerPost
  <2>2. reads' \in [ReadKind -> Nat] /\ form' \in Form /\ form'.accused = form.accused
    BY <2>1, AnswersTyped, Kinds DEF TypeOK, Form
  <2> QED
    BY <2>1, <2>2 DEF TypeOK, ChosenFirst
<1>10. ASSUME NEW k \in ReadKind, ReadFails(k)
       PROVE  TypeOK' /\ ChosenFirst'
  <2>1. /\ reads[k] > 0 /\ reads' = Answered(k)
        /\ UNCHANGED <<form, offered, step, timers, saved, confirmed>>
    BY <1>10 DEF ReadFails
  <2>2. reads' \in [ReadKind -> Nat]
    BY <2>1, AnswersTyped
  <2> QED
    BY <2>1, <2>2 DEF TypeOK, ChosenFirst
<1> QED
  BY <1>1, <1>2, <1>3, <1>4, <1>5, <1>6, <1>7, <1>8, <1>9, <1>10 DEF Next, Step

LEMMA StaysTyped ==
    ASSUME TypeOK, ChosenFirst, UNCHANGED vars
    PROVE  TypeOK' /\ ChosenFirst'
  BY DEF vars, TypeOK, ChosenFirst, OnPage

(* For any members, reasons and reports, with answers that are late, lost  *)
(* or of another report: form and documents keep their types; in           *)
(* particular a confirmed report accuses a member.                         *)
THEOREM ReportTypes == Spec => []TypeOK
<1>1. Init => TypeOK /\ ChosenFirst
  BY ReportAssumption DEF Init, TypeOK, ChosenFirst, Form, Blank, NothingAsked
<1>2. TypeOK /\ ChosenFirst /\ [Next]_vars => (TypeOK /\ ChosenFirst)'
  BY NextTyped, StaysTyped
<1> QED
  BY <1>1, <1>2, PTL DEF Spec
-----------------------------------------------------------------------------
(* Why a report is saved as it was confirmed if reports do not overlap.    *)
Single == "again" \notin setting.may

(* A page speaks of its writer only, and never asks for members.           *)
AsksWriter == OnPage =>
    /\ reads["members"] = 0 /\ step # "sheet"
    /\ form.accused \in {setting.writer, Nil}
    /\ \A i \in DOMAIN confirmed : confirmed[i].accused = setting.writer
    /\ \A m \in Member : reads[m] > 0 => m = setting.writer

(* One save is due at most, of the last report confirmed.                  *)
Due(n, c) ==
    n # 0 => /\ step = "screen" /\ c # <<>>
             /\ form.reason = c[Len(c)].reason
             /\ form.accused \in {c[Len(c)].accused, Nil}
OneDue ==
    /\ timers \in {0, 1} /\ Len(confirmed) = Len(saved) + timers
    /\ Due(timers, confirmed)

(* While the members are asked for, no dialog is open and no save is due.  *)
OneSheet ==
    /\ reads["members"] \in {0, 1}
    /\ reads["members"] # 0 => step = "screen" /\ timers = 0

SInv == AsksWriter /\ OneDue /\ OneSheet /\ SavedAsConfirmed

(* A step that only takes reads away, and perhaps opens or closes a        *)
(* dialog while no save is due.                                            *)
LEMMA ReadsShrink ==
    ASSUME Single, TypeOK, SInv, UNCHANGED <<setting, form, timers, saved, confirmed>>,
           reads' \in [ReadKind -> Nat], \A k \in ReadKind : reads'[k] <= reads[k],
           \/ step' = step \/ step' = "screen"
           \/ timers = 0 /\ reads'["members"] = 0 /\ ~OnPage
    PROVE  SInv'
<1>0. OnPage' = OnPage /\ Single' = Single
  BY DEF OnPage, Single
<1>1. \A k \in ReadKind : reads[k] \in Nat /\ reads'[k] \in Nat
  BY DEF TypeOK
<1>2. AsksWriter'
  BY <1>0, <1>1, Kinds DEF SInv, AsksWriter
<1>3. OneDue'
  <2>1. timers # 0 => step' = "screen"
    BY DEF SInv, OneDue, Due
  <2> QED
    BY <2>1 DEF SInv, OneDue, Due
<1>4. OneSheet'
  <2>1. reads'["members"] \in {0, 1} /\ (reads'["members"] # 0 => reads["members"] # 0)
    BY <1>1, Kinds DEF SInv, OneSheet
  <2> QED
    BY <2>1 DEF SInv, OneSheet
<1> QED
  BY <1>0, <1>2, <1>3, <1>4 DEF SInv, SavedAsConfirmed, Single

LEMMA AnsweredLess ==
    ASSUME TypeOK, NEW k \in ReadKind, reads[k] > 0
    PROVE  \A j \in ReadKind : Answered(k)[j] <= reads[j]
<1>1. \A j \in ReadKind : Answered(k)[j] = IF j = k THEN reads[j] - 1 ELSE reads[j]
  BY DEF Answered, TypeOK
<1> QED
  BY <1>1 DEF TypeOK

LEMMA BeginInv ==
    ASSUME Single, TypeOK, SInv, UNCHANGED setting, BeginOnPage \/ BeginInRoom
    PROVE  SInv'
<1>0. OnPage' = OnPage
  BY DEF OnPage
<1>1. timers = 0 /\ UNCHANGED <<form, timers, saved, confirmed>>
  BY DEF BeginOnPage, BeginInRoom, Free, Single
<1>2. OneDue' /\ SavedAsConfirmed'
  BY <1>1 DEF SInv, OneDue, Due, SavedAsConfirmed, Single
<1>3. CASE BeginOnPage
  BY <1>0, <1>1, <1>2, <1>3 DEF BeginOnPage, SInv, AsksWriter, OneSheet
<1>4. CASE BeginInRoom
  <2>1. /\ ~OnPage /\ step' = "screen" /\ reads["members"] = 0
        /\ reads' = Asking({"members"})
    BY <1>4 DEF BeginInRoom
  <2>2. reads'["members"] = 1
    BY <2>1, Kinds DEF Asking
  <2> QED
    BY <1>0, <1>1, <1>2, <2>1, <2>2 DEF SInv, AsksWriter, OneSheet
<1> QED
  BY <1>3, <1>4

LEMMA ChooseInv ==
    ASSUME Single, TypeOK, SInv, UNCHANGED setting, NEW m \in Member, Choose(m)
    PROVE  SInv'
<1>1. /\ step = "sheet" /\ step' = "reason" /\ ~OnPage
      /\ UNCHANGED <<reads, timers, saved, confirmed>>
  BY DEF Choose, SInv, AsksWriter
<1>2. timers = 0 /\ reads["members"] = 0
  BY <1>1 DEF SInv, OneDue, Due, OneSheet
<1> QED
  BY <1>1, <1>2 DEF SInv, AsksWriter, OneDue, Due, OneSheet, SavedAsConfirmed, Single, OnPage

LEMMA WriterInv ==
    ASSUME Single, TypeOK, SInv, UNCHANGED setting, NEW m \in Member, AnswerWriter(m)
    PROVE  SInv'
<1>0. OnPage' = OnPage
  BY DEF OnPage
<1>1. /\ OnPage /\ reads[m] > 0 /\ reads' = Answered(m)
      /\ form' = [form EXCEPT !.accused = m]
      /\ UNCHANGED <<step, timers, saved, confirmed>>
  BY DEF AnswerWriter
<1>2. m = setting.writer /\ form'.accused = m /\ form'.reason = form.reason
  BY <1>1 DEF SInv, AsksWriter, TypeOK, Form
<1>3. timers # 0 => form'.accused = confirmed[Len(confirmed)].accused
  <2>1. timers # 0 => confirmed # <<>> /\ Len(confirmed) \in DOMAIN confirmed
    <3>1. confirmed \in Seq(Confirmed)
      BY DEF TypeOK, Confirmed
    <3>2. timers # 0 => confirmed # <<>>
      BY DEF SInv, OneDue, Due
    <3> QED
      BY <3>1, <3>2
  <2> QED
    BY <1>1, <1>2, <2>1 DEF SInv, AsksWriter
<1>4. \A j \in ReadKind : reads'[j] <= reads[j] /\ reads[j] \in Nat /\ reads'[j] \in Nat
  BY <1>1, Kinds, AnsweredLess, AnswersTyped DEF TypeOK
<1>5. AsksWriter'
  BY <1>0, <1>1, <1>2, <1>4, Kinds DEF SInv, AsksWriter
<1>6. OneDue'
  BY <1>1, <1>2, <1>3 DEF SInv, OneDue, Due
<1>7. OneSheet'
  BY <1>1, <1>4, Kinds DEF SInv, AsksWriter, OneSheet
<1> QED
  BY <1>1, <1>5, <1>6, <1>7 DEF SInv, SavedAsConfirmed

LEMMA ConfirmInv ==
    ASSUME Single, TypeOK, ChosenFirst, SInv, UNCHANGED setting, NEW r \in Reason, Confirm(r)
    PROVE  SInv'
<1> DEFINE c == [accused |-> Accused, reason |-> r]
<1>0. OnPage' = OnPage
  BY DEF OnPage
<1>1. /\ step = "reason" /\ step' = "screen" /\ timers' = timers + 1 /\ saved' = saved
      /\ form' = [form EXCEPT !.reason = r, !.post = OnPage \/ @]
      /\ reads' = Asking({"reporter"} \cup Subject)
      /\ confirmed' = Append(confirmed, c)
  BY DEF Confirm
<1>2. timers = 0 /\ reads["members"] = 0
  BY <1>1 DEF SInv, OneDue, Due, OneSheet
<1>3. form'.reason = r /\ form'.accused = form.accused
  BY <1>1 DEF TypeOK, Form
<1>4. c.reason = r /\ c.accused = Accused /\ form.accused \in {Accused, Nil}
  BY DEF Accused, SInv, AsksWriter
<1>5. c \in Confirmed
  <2>1. Accused \in Member
    BY <1>1, WriterIsMember DEF Accused, ChosenFirst, TypeOK, Form
  <2> QED
    BY <2>1 DEF Confirmed
<1> HIDE DEF c
<1>6. /\ confirmed' # <<>> /\ Len(confirmed') = Len(confirmed) + 1
      /\ confirmed'[Len(confirmed')] = c
      /\ \A i \in DOMAIN confirmed' :
             (i \in DOMAIN confirmed /\ confirmed'[i] = confirmed[i]) \/ confirmed'[i] = c
      /\ \A i \in DOMAIN confirmed : i \in DOMAIN confirmed' /\ confirmed'[i] = confirmed[i]
  <2>1. confirmed \in Seq(Confirmed)
    BY DEF TypeOK, Confirmed
  <2> QED
    BY <1>1, <1>5, <2>1
<1>7. OneDue'
  <2>1. timers' = 1 /\ Len(confirmed') = Len(saved') + timers'
    <3>1. Len(confirmed) = Len(saved) + 0 /\ Len(saved) \in Nat
      BY <1>2 DEF SInv, OneDue, TypeOK
    <3> QED
      BY <1>1, <1>2, <1>6, <3>1
  <2> QED
    BY <1>1, <1>3, <1>4, <1>6, <2>1 DEF OneDue, Due
<1>8. \A k \in ReadKind : k \notin {"reporter"} \cup Subject => reads'[k] = reads[k]
  BY <1>1 DEF Asking
<1>9. reads'["members"] = 0
  <2>1. "members" \notin {"reporter"} \cup Subject
    BY WriterIsMember, Kinds DEF Subject, TypeOK
  <2> QED
    BY <1>2, <1>8, <2>1, Kinds
<1>10. AsksWriter'
  <2> SUFFICES ASSUME OnPage
               PROVE  /\ form'.accused \in {setting.writer, Nil}
                      /\ \A i \in DOMAIN confirmed' : confirmed'[i].accused = setting.writer
                      /\ \A m \in Member : reads'[m] > 0 => m = setting.writer
    BY <1>0, <1>1, <1>9 DEF AsksWriter
  <2>1. Accused = setting.writer
    BY DEF Accused
  <2>2. \A m \in Member : m # setting.writer => reads'[m] = reads[m]
    BY <1>8, Kinds DEF Subject
  <2> QED
    BY <1>3, <1>4, <1>6, <2>1, <2>2 DEF SInv, AsksWriter
<1>11. SavedAsConfirmed'
  BY <1>1, <1>6 DEF SInv, SavedAsConfirmed
<1> QED
  BY <1>1, <1>7, <1>9, <1>10, <1>11 DEF SInv, OneSheet

LEMMA SaveInv ==
    ASSUME Single, TypeOK, SInv, UNCHANGED setting, Save
    PROVE  SInv'
<1>1. /\ timers > 0 /\ timers' = timers - 1 /\ saved' = Append(saved, form)
      /\ UNCHANGED <<form, step, reads, confirmed>>
  BY DEF Save
<1>2. timers = 1 /\ timers' = 0
  BY <1>1 DEF SInv, OneDue
<1>3. saved \in Seq(Form) /\ confirmed \in Seq(Confirmed) /\ form \in Form
  BY DEF TypeOK, Confirmed
<1> DEFINE n == Len(confirmed)
           m == Len(saved)
<1>4. n = m + 1 /\ m \in Nat
  BY <1>2, <1>3 DEF SInv, OneDue
<1>5. /\ Len(saved') = m + 1 /\ saved'[m + 1] = form
      /\ \A i \in DOMAIN saved' :
             (i \in DOMAIN saved /\ saved'[i] = saved[i]) \/ (i = m + 1 /\ saved'[i] = form)
  BY <1>1, <1>3
<1>6. /\ n \in DOMAIN confirmed /\ form.reason = confirmed[n].reason
      /\ form.accused \in {confirmed[n].accused, Nil}
  BY <1>2, <1>3, <1>4 DEF SInv, OneDue, Due
<1> HIDE DEF n, m
<1>7. SavedAsConfirmed'
  <2> SUFFICES ASSUME NEW i \in DOMAIN saved'
               PROVE  /\ i \in DOMAIN confirmed
                      /\ saved'[i].reason = confirmed[i].reason
                      /\ saved'[i].accused \in {confirmed[i].accused, Nil}
    BY <1>1 DEF SavedAsConfirmed
  <2> QED
    BY <1>4, <1>5, <1>6 DEF SInv, SavedAsConfirmed, Single
<1>8. OneDue'
  BY <1>1, <1>2, <1>4, <1>5 DEF OneDue, Due, n
<1>9. AsksWriter' /\ OneSheet'
  BY <1>1, <1>2 DEF SInv, AsksWriter, OneSheet, OnPage
<1> QED
  BY <1>7, <1>8, <1>9 DEF SInv

LEMMA NextSaved ==
    ASSUME Single, TypeOK, ChosenFirst, SInv, Next
    PROVE  SInv'
<1>set. UNCHANGED setting
  BY DEF Next
<1>1. CASE BeginOnPage \/ BeginInRoom
  BY <1>set, <1>1, BeginInv
<1>2. CASE Save
  BY <1>set, <1>2, SaveInv
<1>3. CASE \E r \in Reason : Confirm(r)
  BY <1>set, <1>3, ConfirmInv
<1>4. CASE \E m \in Member : Choose(m) \/ AnswerWriter(m)
  BY <1>set, <1>4, ChooseInv, WriterInv
<1>5. CASE Cancel
  <2>1. step' = "screen" /\ UNCHANGED <<form, reads, timers, saved, confirmed>>
    BY <1>5 DEF Cancel
  <2>2. reads' \in [ReadKind -> Nat] /\ \A k \in ReadKind : reads'[k] <= reads[k]
    BY <2>1 DEF TypeOK
  <2> QED
    BY <1>set, <2>1, <2>2, ReadsShrink
<1>6. CASE AnswerMembers
  <2>1. /\ reads["members"] > 0 /\ step = "screen" /\ step' = "sheet"
        /\ reads' = [k \in ReadKind |-> IF k = "members" THEN reads[k] - 1
                        ELSE IF k \in Member THEN reads[k] + 1 ELSE reads[k]]
        /\ UNCHANGED <<form, timers, saved, confirmed>>
    BY <1>6 DEF AnswerMembers
  <2>2. reads["members"] = 1 /\ timers = 0 /\ ~OnPage
    BY <2>1 DEF SInv, OneSheet, AsksWriter
  <2>3. reads'["members"] = 0
    BY <2>1, <2>2, Kinds
  <2> QED
    BY <1>set, <2>1, <2>2, <2>3
       DEF SInv, AsksWriter, OneDue, Due, OneSheet, SavedAsConfirmed, OnPage
<1>7. CASE \/ \E m \in Member : AnswerMember(m)
           \/ \E k \in ReadKind : ReadFails(k)
  <2>1. PICK k \in ReadKind :
            /\ reads[k] > 0 /\ reads' = Answered(k)
            /\ UNCHANGED <<form, step, timers, saved, confirmed>>
    BY <1>7, Kinds DEF AnswerMember, ReadFails
  <2>2. reads' \in [ReadKind -> Nat] /\ \A j \in ReadKind : reads'[j] <= reads[j]
    BY <2>1, AnswersTyped, AnsweredLess
  <2> QED
    BY <1>set, <2>1, <2>2, ReadsShrink
<1>8. CASE AnswerReporter \/ AnswerPost
  <2>1. PICK k \in {"reporter", "post"} :
            /\ reads[k] > 0 /\ reads' = Answered(k)
            /\ form' = [form EXCEPT !.reporter = TRUE] \/ form' = [form EXCEPT !.post = TRUE]
            /\ UNCHANGED <<step, timers, saved, confirmed>>
    BY <1>8 DEF AnswerReporter, AnswerPost
  <2>2. form'.accused = form.accused /\ form'.reason = form.reason
    BY <2>1 DEF TypeOK, Form
  <2>3. \A j \in ReadKind : /\ reads'[j] <= reads[j]
                            /\ reads[j] \in Nat /\ reads'[j] \in Nat
    BY <2>1, AnswersTyped, AnsweredLess, Kinds DEF TypeOK
  <2>4. AsksWriter' /\ OneSheet'
    <3>1. reads'["members"] = reads["members"]
      BY <2>1, Kinds DEF Answered, TypeOK
    <3> QED
      BY <1>set, <2>1, <2>2, <2>3, <3>1, Kinds DEF SInv, AsksWriter, OneSheet, OnPage
  <2> QED
    BY <1>set, <2>1, <2>2, <2>4 DEF SInv, OneDue, Due, SavedAsConfirmed
<1> QED
  BY <1>1, <1>2, <1>3, <1>4, <1>5, <1>6, <1>7, <1>8 DEF Next, Step

(* If reports do not overlap, the i-th one saved is the i-th one           *)
(* confirmed, however late the answers are and whichever are lost: nobody  *)
(* is accused of what he was not reported for.                             *)
THEOREM ReportsAsConfirmed == Spec => []SavedAsConfirmed
<1> DEFINE Inv == Single => SInv
<1>1. Init => TypeOK /\ ChosenFirst /\ Inv
  <2>1. Init => TypeOK /\ ChosenFirst
    BY ReportAssumption DEF Init, TypeOK, ChosenFirst, Form, Blank, NothingAsked
  <2>2. Init => SInv
    BY Kinds DEF Init, SInv, AsksWriter, OneDue, Due, OneSheet, SavedAsConfirmed, Blank,
       NothingAsked
  <2> QED
    BY <2>1, <2>2
<1>2. TypeOK /\ ChosenFirst /\ Inv /\ [Next]_vars => (TypeOK /\ ChosenFirst /\ Inv)'
  <2> SUFFICES ASSUME TypeOK, ChosenFirst, Inv, [Next]_vars
               PROVE  TypeOK' /\ ChosenFirst' /\ Inv'
    OBVIOUS
  <2>1. Single' = Single
    BY DEF Next, vars, Single
  <2>2. CASE UNCHANGED vars
    <3>1. Inv'
      BY <2>1, <2>2
         DEF vars, SInv, AsksWriter, OneDue, Due, OneSheet, SavedAsConfirmed, OnPage
    <3> QED
      BY <2>2, <3>1, StaysTyped
  <2>3. CASE Next
    BY <2>1, <2>3, NextTyped, NextSaved
  <2> QED
    BY <2>2, <2>3
<1>3. Inv => SavedAsConfirmed
  BY DEF SInv, SavedAsConfirmed, Single
<1> QED
  BY <1>1, <1>2, <1>3, PTL DEF Spec
=============================================================================
