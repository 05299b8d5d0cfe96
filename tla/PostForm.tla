------------------------------ MODULE PostForm ------------------------------
(***************************************************************************)
(* The form in which a student writes a post, or edits one: its fields,    *)
(* the "done" button that each of them may enable or disable, and the two  *)
(* seconds between "done" and the end of the form.  What "done" writes to  *)
(* the databases is in Recruitment.  A behaviour is the life of one form.  *)
(***************************************************************************)
EXTENDS Integers, Sequences

CONSTANTS MaxSeats,     (* bound: the stepper, 100 in the storyboard        *)
          MaxPosts      (* bound: presses of "done" in a behaviour          *)

ASSUME PostFormAssumption == MaxSeats \in Nat \ {0, 1} /\ MaxPosts \in Nat

VARIABLES
    mode,      (* "create" or "edit" (mainPostInformation); never changes   *)
    lastDay,   (* whether today is the last of its month; never changes     *)
    title,     (* titleTextField: whether anything is in it                 *)
    note,      (* noteTextView; the placeholder is the text in light gray   *)
    writing,   (* whether the note has the keyboard                         *)
    category,  (* whether selectedCategories is set                         *)
    seats,     (* recruitmentCountStepper                                   *)
    unfolded,  (* isMeetingTimeDatePickerShown                              *)
    picked,    (* meetingDatePicker; "now" until it is moved                *)
    label,     (* meetingDateLabel; "Detail" is its text in the storyboard  *)
    enabled,   (* writingDoneButton                                         *)
    timers,    (* dismissals due two seconds after "done"                   *)
    closed,    (* whether the form was dismissed                            *)
    saved,     (* posts written, or merged into the one edited, in order    *)
    touched    (* history: a field was touched after "done"                 *)

fields == <<title, note, writing, category, seats, unfolded, picked, label>>
rigid  == <<mode, lastDay>>
vars   == <<rigid, fields, enabled, timers, closed, saved, touched>>

Day   == {"today", "tomorrow"}
Saved == [complete : BOOLEAN, time : Day \cup {"now"}, shown : Day \cup {"Detail", ""}]

(* Every variable has the type of the control or property it stands for.   *)
TypeOK ==
    /\ mode \in {"create", "edit"} /\ lastDay \in BOOLEAN
    /\ title \in BOOLEAN /\ note \in {"placeholder", "empty", "own"}
    /\ writing \in BOOLEAN /\ (writing => note # "placeholder")
    /\ category \in BOOLEAN /\ seats \in 0..MaxSeats
    /\ unfolded \in BOOLEAN /\ picked \in Day \cup {"now"}
    /\ label \in Day \cup {"Detail", ""}
    /\ enabled \in BOOLEAN /\ timers \in Nat /\ closed \in BOOLEAN
    /\ saved \in Seq(Saved) /\ touched \in BOOLEAN

(* A date is told by its day of the month: today's, or today's plus one.   *)
(* On the last day of a month no day is today's plus one.                  *)
Told(d) == d = "today" \/ (d = "tomorrow" /\ ~lastDay)

(* What the button needs.  The label's text is never empty in a new form.  *)
MayPost(t, n, c, s, l) == t /\ n = "own" /\ c /\ s > 1 /\ l # ""

(* A new form is empty, but for its note's placeholder.                    *)
NewForm ==
    /\ mode = "create"
    /\ title = FALSE /\ note = "placeholder" /\ category = FALSE
    /\ seats = 1 /\ label = "Detail"

(* A form that edits shows the post, its time as the feed told it: not at  *)
(* all if the day is neither.  The date picker stays at now, as the label  *)
(* is no date it reads, or one before the least it allows.                 *)
EditedForm ==
    /\ mode = "edit"
    /\ title = TRUE /\ note = "own" /\ category = TRUE
    /\ seats \in 2..MaxSeats
    /\ label \in {""} \cup {d \in Day : Told(d)}

Init ==
    /\ lastDay \in BOOLEAN
    /\ writing = FALSE /\ unfolded = FALSE /\ picked = "now"
    /\ timers = 0 /\ closed = FALSE /\ saved = <<>> /\ touched = FALSE
    /\ NewForm \/ EditedForm
    /\ enabled = MayPost(title, note, category, seats, label)
-----------------------------------------------------------------------------
(* A field is touched: the form is on the screen, in the two seconds after *)
(* "done" as before, since the spinner covers a small square of it only.   *)
Touch == ~closed /\ touched' = (touched \/ timers > 0) /\ UNCHANGED <<timers, closed, saved>>

(* updateDoneButtonUI, with the fields as they are after the handler.      *)
UpdateDoneButtonUI == enabled' = MayPost(title', note', category', seats', label')

TypeTitle ==
    /\ Touch /\ title' \in BOOLEAN
    /\ UNCHANGED <<rigid, note, writing, category, seats, unfolded, picked, label>>
    /\ UpdateDoneButtonUI

(* Mutant: the placeholder is left in the note.                            *)
BeginNoteKeeping ==
    /\ Touch /\ ~writing
    /\ writing' = TRUE
    /\ UNCHANGED <<rigid, title, note, category, seats, unfolded, picked, label, enabled>>

(* The note takes the keyboard and loses its placeholder, or gets it back. *)
BeginNote ==
    /\ Touch /\ ~writing
    /\ writing' = TRUE /\ note' = IF note = "placeholder" THEN "empty" ELSE note
    /\ UNCHANGED <<rigid, title, category, seats, unfolded, picked, label, enabled>>

TypeNote ==
    /\ Touch /\ writing
    /\ note' \in {"empty", "own"}
    /\ UNCHANGED <<rigid, title, writing, category, seats, unfolded, picked, label>>
    /\ UpdateDoneButtonUI

EndNote ==
    /\ Touch /\ writing
    /\ writing' = FALSE /\ note' = IF note = "empty" THEN "placeholder" ELSE note
    /\ UNCHANGED <<rigid, title, category, seats, unfolded, picked, label, enabled>>

ChooseCategory ==
    /\ Touch /\ category' = TRUE
    /\ UNCHANGED <<rigid, title, note, writing, seats, unfolded, picked, label>>
    /\ UpdateDoneButtonUI

(* Mutant: the button is not updated.                                      *)
StepSeatsSilently ==
    /\ Touch /\ seats' \in {seats - 1, seats + 1} \cap 0..MaxSeats
    /\ UNCHANGED <<rigid, title, note, writing, category, unfolded, picked, label, enabled>>

StepSeats ==
    /\ Touch /\ seats' \in {seats - 1, seats + 1} \cap 0..MaxSeats
    /\ UNCHANGED <<rigid, title, note, writing, category, unfolded, picked, label>>
    /\ UpdateDoneButtonUI

TapMeetingTime ==
    /\ Touch /\ unfolded' = ~unfolded
    /\ UNCHANGED <<rigid, title, note, writing, category, seats, picked, label, enabled>>

(* Mutant: tomorrow is left out.                                           *)
MovePickerToday(d) ==
    /\ Touch /\ unfolded
    /\ picked' = d /\ label' = (IF d = "today" THEN d ELSE label)
    /\ UNCHANGED <<rigid, title, note, writing, category, seats, unfolded>>
    /\ UpdateDoneButtonUI

(* The label follows the picker, if the day can be told.                   *)
MovePicker(d) ==
    /\ Touch /\ unfolded
    /\ picked' = d /\ label' = (IF Told(d) THEN d ELSE label)
    /\ UNCHANGED <<rigid, title, note, writing, category, seats, unfolded>>
    /\ UpdateDoneButtonUI
-----------------------------------------------------------------------------
Save == saved' = Append(saved, [complete |-> MayPost(title, note, category, seats, label),
                                time |-> picked, shown |-> label])

(* Mutant: the button stays enabled.                                       *)
DoneCreatingEnabled ==
    /\ mode = "create" /\ ~closed /\ enabled /\ Len(saved) < MaxPosts
    /\ Save /\ timers' = timers + 1
    /\ UNCHANGED <<rigid, fields, enabled, closed, touched>>

(* "Done": the button is disabled, the post is written, and the form goes  *)
(* two seconds later.                                                      *)
DoneCreating ==
    /\ mode = "create" /\ ~closed /\ enabled /\ Len(saved) < MaxPosts
    /\ Save /\ enabled' = FALSE /\ timers' = timers + 1
    /\ UNCHANGED <<rigid, fields, closed, touched>>

(* An edited post is written when the form has gone.                       *)
DoneEditing ==
    /\ mode = "edit" /\ ~closed /\ enabled
    /\ Save /\ enabled' = FALSE /\ closed' = TRUE
    /\ UNCHANGED <<rigid, fields, timers, touched>>

Dismiss ==
    /\ timers > 0
    /\ timers' = timers - 1 /\ closed' = TRUE
    /\ UNCHANGED <<rigid, fields, enabled, saved, touched>>

Cancel ==
    /\ ~closed /\ closed' = TRUE
    /\ UNCHANGED <<rigid, fields, enabled, timers, saved, touched>>

Next ==
    \/ TypeTitle \/ BeginNote \/ TypeNote \/ EndNote \/ ChooseCategory
    \/ StepSeats \/ TapMeetingTime \/ \E d \in Day : MovePicker(d)
    \/ DoneCreating \/ DoneEditing \/ Dismiss \/ Cancel

Spec == Init /\ [][Next]_vars
-----------------------------------------------------------------------------
(* The button tells whether the fields may be posted, though the note's    *)
(* text comes and goes without it; after "done" it may be disabled only.   *)
ButtonTells == ~closed =>
    /\ enabled => MayPost(title, note, category, seats, label)
    /\ saved = <<>> /\ MayPost(title, note, category, seats, label) => enabled

(* No post is written with a field missing, or with the placeholder for    *)
(* its note, also not one that is written in the two seconds after "done". *)
OnlyCompletePosts == \A i \in DOMAIN saved : saved[i].complete

(* A press of "done" writes one post, unless a field is touched before the *)
(* form goes.                                                              *)
OnePostUntouched == ~touched => Len(saved) <= 1

(* If the picker was moved, on any day but the last of a month, the time   *)
(* that is written is the one the form showed.                             *)
TimeAsShown == ~lastDay =>
    \A i \in DOMAIN saved : saved[i].time # "now" => saved[i].time = saved[i].shown

(* The comment in doneButtonTapped: two presses do not write two posts.    *)
NeverTwoPosts == Len(saved) <= 1
=============================================================================
