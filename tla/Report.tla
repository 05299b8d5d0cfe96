------------------------------- MODULE Report -------------------------------
(***************************************************************************)
(* Reporting a post, from its page, or a member of a chat room, from the   *)
(* room.  Both screens keep one ReportForm; confirming a reason starts     *)
(* reads that fill it in and, two seconds later, whatever it then holds is *)
(* saved as a new document.                                                *)
(***************************************************************************)
EXTENDS Integers, Sequences, FiniteSets

CONSTANTS Member,       (* students who can be reported                     *)
          Reason,       (* the reasons offered                              *)
          Nil,          (* an empty field of the form                       *)
          Settings,     (* the screens, and what may happen on each besides *)
                        (* one report at a time; a behaviour keeps to one   *)
          MaxReports    (* bound: reports confirmed, by setting             *)

(***************************************************************************)
(*   slow     two seconds may pass before a read is answered               *)
(*   again    a report may be begun within the two seconds of another      *)
(*   offline  a read may end with an error                                 *)
(***************************************************************************)
ASSUME ReportAssumption ==
    /\ Nil \notin Member /\ Nil \notin Reason
    /\ Member \cap {"reporter", "post", "members"} = {}
    /\ Settings \subseteq [writer : Member \cup {Nil},
                            may : SUBSET {"slow", "again", "offline"}]
    /\ MaxReports \in [Settings -> Nat]

VARIABLES setting,    (* the writer of the post, on its page, or Nil in a   *)
                      (* room; and what may happen                          *)
          form,       (* reportInformation; a text nothing tells apart is   *)
                      (* only there or not                                  *)
          offered,    (* members on the action sheet of the room            *)
          step,       (* the dialog on the screen                           *)
          reads,      (* unanswered reads, by what they will fill in        *)
          timers,     (* saves due two seconds after a confirmation         *)
          saved,      (* Firestore: reportList or chatReportList            *)
          confirmed   (* history: the reports confirmed, in order           *)

vars == <<setting, form, offered, step, reads, timers, saved, confirmed>>

OnPage == setting.writer # Nil

Form  == [reporter : BOOLEAN, post : BOOLEAN, accused : Member \cup {Nil},
          reason : Reason \cup {Nil}]
Blank == [reporter |-> FALSE, post |-> FALSE, accused |-> Nil, reason |-> Nil]

(* Reads: the reporter's own data, the post of the room, the members of    *)
(* the room, and one member's data (for the form of a page, or for the     *)
(* action sheet of a room).                                                *)
ReadKind == {"reporter", "post", "members"} \cup Member

(* Every variable has the type of the field or document it stands for.     *)
TypeOK ==
    /\ setting \in Settings
    /\ form \in Form /\ offered \subseteq Member
    /\ step \in {"screen", "sheet", "reason"}
    /\ reads \in [ReadKind -> Nat] /\ timers \in Nat
    /\ saved \in Seq(Form) /\ confirmed \in Seq([accused : Member, reason : Reason])

NothingAsked == [k \in ReadKind |-> 0]

Init ==
    /\ setting \in Settings
    /\ form = Blank /\ offered = {} /\ step = "screen"
    /\ reads = NothingAsked /\ timers = 0
    /\ saved = <<>> /\ confirmed = <<>>
-----------------------------------------------------------------------------
Asking(kinds) == [k \in ReadKind |-> IF k \in kinds THEN reads[k] + 1 ELSE reads[k]]
Answered(k)   == [reads EXCEPT ![k] = @ - 1]

Free == "again" \in setting.may \/ timers = 0
May  == Len(confirmed) < MaxReports[setting]

(* "Report": a page goes straight to the reasons; a room asks who are its  *)
(* members, to offer each of them on a new sheet.  (An answer for an       *)
(* earlier sheet changes nothing that is on the screen: a room is asked    *)
(* once those have come.)                                                  *)
BeginOnPage ==
    /\ OnPage /\ step = "screen" /\ Free /\ May
    /\ step' = "reason"
    /\ UNCHANGED <<form, offered, reads, timers, saved, confirmed>>

BeginInRoom ==
    /\ ~OnPage /\ step = "screen" /\ Free /\ May
    /\ \A k \in {"members"} \cup Member : reads[k] = 0
    /\ reads' = Asking({"members"})
    /\ UNCHANGED <<form, offered, step, timers, saved, confirmed>>

(* The sheet is shown with "cancel" alone; a member is added to it when    *)
(* his data arrives.                                                       *)
AnswerMembers ==
    /\ reads["members"] > 0 /\ step = "screen"
    /\ step' = "sheet" /\ offered' = {}
    /\ reads' = [k \in ReadKind |-> IF k = "members" THEN reads[k] - 1
                                    ELSE IF k \in Member THEN reads[k] + 1 ELSE reads[k]]
    /\ UNCHANGED <<form, timers, saved, confirmed>>

AnswerMember(m) ==
    /\ ~OnPage /\ reads[m] > 0
    /\ offered' = IF step = "sheet" THEN offered \cup {m} ELSE offered
    /\ reads' = Answered(m)
    /\ UNCHANGED <<form, step, timers, saved, confirmed>>

(* Mutant: the member chosen goes to the wrong field of the form.          *)
ChooseAsReason(m) ==
    /\ step = "sheet" /\ m \in offered
    /\ form' = [form EXCEPT !.reason = m]
    /\ step' = "reason" /\ offered' = {}
    /\ UNCHANGED <<reads, timers, saved, confirmed>>

(* A member is chosen: the form accuses him from now on.                   *)
Choose(m) ==
    /\ step = "sheet" /\ m \in offered
    /\ form' = [form EXCEPT !.accused = m]
    /\ step' = "reason" /\ offered' = {}
    /\ UNCHANGED <<reads, timers, saved, confirmed>>

Cancel ==
    /\ step # "screen"
    /\ step' = "screen" /\ offered' = {}
    /\ UNCHANGED <<form, reads, timers, saved, confirmed>>

(* What is asked for besides the reporter, and who is accused.             *)
Subject == {IF OnPage THEN setting.writer ELSE "post"}
Accused == IF OnPage THEN setting.writer ELSE form.accused

(* Mutants: the reporter is not asked for; the reason of the form stays;   *)
(* no save is scheduled.                                                   *)
ConfirmAnonymously(r) ==
    /\ step = "reason"
    /\ form' = [form EXCEPT !.reason = r, !.post = OnPage \/ @]
    /\ reads' = Asking(Subject)
    /\ timers' = timers + 1 /\ step' = "screen"
    /\ confirmed' = Append(confirmed, [accused |-> Accused, reason |-> r])
    /\ UNCHANGED <<offered, saved>>
ConfirmKeepingReason(r) ==
    /\ step = "reason"
    /\ form' = [form EXCEPT !.reason = IF @ = Nil THEN r ELSE @, !.post = OnPage \/ @]
    /\ reads' = Asking({"reporter"} \cup Subject)
    /\ timers' = timers + 1 /\ step' = "screen"
    /\ confirmed' = Append(confirmed, [accused |-> Accused, reason |-> r])
    /\ UNCHANGED <<offered, saved>>
ConfirmUnscheduled(r) ==
    /\ step = "reason"
    /\ form' = [form EXCEPT !.reason = r, !.post = OnPage \/ @]
    /\ reads' = Asking({"reporter"} \cup Subject)
    /\ step' = "screen"
    /\ confirmed' = Append(confirmed, [accused |-> Accused, reason |-> r])
    /\ UNCHANGED <<offered, timers, saved>>

(* The reason is confirmed: the form takes what the screen knows, the rest *)
(* is asked for, and the timer starts.                                     *)
Confirm(r) ==
    /\ step = "reason"
    /\ form' = [form EXCEPT !.reason = r, !.post = OnPage \/ @]
    /\ reads' = Asking({"reporter"} \cup Subject)
    /\ timers' = timers + 1 /\ step' = "screen"
    /\ confirmed' = Append(confirmed, [accused |-> Accused, reason |-> r])
    /\ UNCHANGED <<offered, saved>>

(* Answers that fill in the form.                                          *)
AnswerReporter ==
    /\ reads["reporter"] > 0
    /\ form' = [form EXCEPT !.reporter = TRUE]
    /\ reads' = Answered("reporter")
    /\ UNCHANGED <<offered, step, timers, saved, confirmed>>

AnswerPost ==
    /\ reads["post"] > 0
    /\ form' = [form EXCEPT !.post = TRUE]
    /\ reads' = Answered("post")
    /\ UNCHANGED <<offered, step, timers, saved, confirmed>>

AnswerWriter(m) ==
    /\ OnPage /\ reads[m] > 0
    /\ form' = [form EXCEPT !.accused = m]
    /\ reads' = Answered(m)
    /\ UNCHANGED <<offered, step, timers, saved, confirmed>>

ReadFails(k) ==
    /\ "offline" \in setting.may /\ reads[k] > 0
    /\ reads' = Answered(k)
    /\ UNCHANGED <<form, offered, step, timers, saved, confirmed>>

(* Two seconds later: what the form holds now is saved.                    *)
Save ==
    /\ timers > 0
    /\ "slow" \in setting.may \/ \A k \in {"reporter"} \cup Subject : reads[k] = 0
    /\ saved' = Append(saved, form)
    /\ timers' = timers - 1
    /\ UNCHANGED <<form, offered, step, reads, confirmed>>

Step ==
    \/ BeginOnPage \/ BeginInRoom \/ Cancel \/ Save
    \/ \E m \in Member : Choose(m) \/ AnswerMember(m) \/ AnswerWriter(m)
    \/ \E r \in Reason : Confirm(r)
    \/ AnswerMembers \/ AnswerReporter \/ AnswerPost
    \/ \E k \in ReadKind : ReadFails(k)

Next == Step /\ UNCHANGED setting

Spec == Init /\ [][Next]_vars

(* Timers fire, and Firestore answers.                                     *)
Fairness ==
    /\ WF_vars(Save /\ UNCHANGED setting)
    /\ WF_vars(AnswerReporter /\ UNCHANGED setting)
    /\ WF_vars(AnswerPost /\ UNCHANGED setting)
    /\ \A m \in Member : WF_vars(AnswerWriter(m) /\ UNCHANGED setting)
FairSpec == Spec /\ Fairness
-----------------------------------------------------------------------------
(* If answers come within the two seconds and reports do not overlap, the  *)
(* information of a report is collected before it is saved: no report      *)
(* reaches the server with an empty field.                                 *)
CollectedBeforeSaving == setting.may = {} =>
    \A i \in DOMAIN saved :
        saved[i].reporter /\ saved[i].post /\ saved[i].accused # Nil
                          /\ saved[i].reason # Nil

(* If reports do not overlap, the i-th report saved is the i-th one        *)
(* confirmed, whatever the reads do: nobody is accused of what he was not  *)
(* reported for, even if his data never arrived.                           *)
SavedAsConfirmed == "again" \notin setting.may =>
    \A i \in DOMAIN saved :
        /\ i \in DOMAIN confirmed /\ saved[i].reason = confirmed[i].reason
        /\ saved[i].accused \in {confirmed[i].accused, Nil}

(* Every report that the student was told is received reaches the server.  *)
ReportNumber == UNION {1..MaxReports[s] : s \in Settings}
EveryReportSaved ==
    \A n \in ReportNumber : (Len(confirmed) >= n) ~> (Len(saved) >= n)
=============================================================================
