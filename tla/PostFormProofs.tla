--------------------------- MODULE PostFormProofs ---------------------------
(***************************************************************************)
(* The "done" button of the form, for any stepper and any number of        *)
(* presses: it is enabled only while the fields may be posted, and without *)
(* a touch after the first press there is no second one.                   *)
(***************************************************************************)
EXTENDS PostForm, TLAPS

Fit == MayPost(title, note, category, seats, label)

(* While the form of an untouched press is still there, its button is      *)
(* disabled and its dismissal due.                                         *)
PressedOnce ==
    ~touched /\ saved # <<>> =>
        Len(saved) = 1 /\ (closed \/ (~enabled /\ timers > 0))

IInv == TypeOK /\ ButtonTells /\ OnlyCompletePosts /\ PressedOnce

LEMMA InitSafe == Init => IInv
<1> SUFFICES ASSUME Init PROVE IInv
  OBVIOUS
<1>1. Fit \in BOOLEAN /\ enabled = Fit
  BY DEF Init, NewForm, EditedForm, Fit, MayPost
<1>2. TypeOK
  <2>1. /\ mode \in {"create", "edit"} /\ lastDay \in BOOLEAN
        /\ writing \in BOOLEAN /\ unfolded \in BOOLEAN /\ closed \in BOOLEAN
        /\ touched \in BOOLEAN /\ title \in BOOLEAN /\ category \in BOOLEAN
        /\ enabled \in BOOLEAN /\ picked \in Day \cup {"now"}
        /\ (writing => note # "placeholder")
    BY <1>1, Zenon DEF Init, NewForm, EditedForm
  <2>2. note \in {"placeholder", "empty", "own"} /\ label \in Day \cup {"Detail", ""}
    BY Zenon DEF Init, NewForm, EditedForm, Day
  <2>3. seats \in 0..MaxSeats /\ timers \in Nat
    <3>1. timers = 0 /\ (seats = 1 \/ seats \in 2..MaxSeats)
      BY Zenon DEF Init, NewForm, EditedForm
    <3> QED
      BY <3>1, PostFormAssumption
  <2>4. saved \in Seq(Saved)
    <3>1. saved = <<>>
      BY DEF Init
    <3> QED
      BY <3>1
  <2> QED
    BY <2>1, <2>2, <2>3, <2>4, Zenon DEF TypeOK
<1>3. saved = <<>>
  BY DEF Init
<1>4. OnlyCompletePosts
  BY <1>3 DEF OnlyCompletePosts
<1>5. PressedOnce
  BY <1>3, Zenon DEF PressedOnce
<1>6. ButtonTells
  BY <1>1, Zenon DEF ButtonTells, Fit
<1> QED
  BY <1>2, <1>4, <1>5, <1>6 DEF IInv

(* A step that leaves the fields alone has only the rest to type.          *)
LEMMA SameFields ==
    ASSUME TypeOK, UNCHANGED <<rigid, fields>>,
           enabled' \in BOOLEAN, timers' \in Nat, closed' \in BOOLEAN,
           saved' \in Seq(Saved), touched' \in BOOLEAN
    PROVE  TypeOK'
<1>1. /\ mode' = mode /\ lastDay' = lastDay /\ title' = title /\ note' = note
      /\ writing' = writing /\ category' = category /\ seats' = seats
      /\ unfolded' = unfolded /\ picked' = picked /\ label' = label
  BY DEF rigid, fields
<1> QED
  BY <1>1, Zenon DEF TypeOK

(* A handler that touches a field keeps the invariant if the button        *)
(* follows the fields, or both stay.                                       *)
LEMMA TouchSafe ==
    ASSUME IInv, Touch, TypeOK',
           \/ UpdateDoneButtonUI
           \/ enabled' = enabled /\ Fit' = Fit
    PROVE  IInv'
<1>1. /\ ~closed /\ touched' = (touched \/ timers > 0)
      /\ timers' = timers /\ closed' = closed /\ saved' = saved
  BY DEF Touch
<1>2. OnlyCompletePosts'
  BY <1>1 DEF IInv, OnlyCompletePosts
<1>3. PressedOnce'
  <2>1. ~touched' => saved = <<>>
    BY <1>1 DEF IInv, PressedOnce
  <2> QED
    BY <1>1, <2>1 DEF PressedOnce
<1>4. ButtonTells'
  <2>1. CASE UpdateDoneButtonUI
    BY <2>1 DEF UpdateDoneButtonUI, ButtonTells
  <2>2. CASE enabled' = enabled /\ Fit' = Fit
    BY <1>1, <2>2 DEF IInv, ButtonTells, Fit
  <2> QED
    BY <2>1, <2>2
<1> QED
  BY <1>2, <1>3, <1>4 DEF IInv

(* What "done" saves is complete, since the button was enabled.            *)
LEMMA SaveSafe ==
    ASSUME IInv, Save, ~closed, enabled
    PROVE  /\ saved' \in Seq(Saved) /\ OnlyCompletePosts' /\ saved' # <<>>
           /\ ~touched => saved = <<>> /\ Len(saved') = 1
<1> DEFINE s == [complete |-> Fit, time |-> picked, shown |-> label]
<1>1. Fit \in BOOLEAN /\ s \in Saved /\ s.complete
  <2>1. Fit = TRUE
    BY DEF IInv, ButtonTells, Fit, MayPost, TypeOK
  <2> QED
    BY <2>1 DEF Saved, IInv, TypeOK
<1>2. saved' = Append(saved, s) /\ saved \in Seq(Saved)
  BY DEF Save, Fit, IInv, TypeOK
<1> HIDE DEF s
<1>3. saved' \in Seq(Saved) /\ saved' # <<>> /\ Len(saved') = Len(saved) + 1
  BY <1>1, <1>2
<1>4. OnlyCompletePosts'
  <2> SUFFICES ASSUME NEW i \in DOMAIN saved' PROVE saved'[i].complete
    BY DEF OnlyCompletePosts
  <2>1. (i \in DOMAIN saved /\ saved'[i] = saved[i]) \/ saved'[i] = s
    BY <1>1, <1>2
  <2> QED
    BY <1>1, <2>1 DEF IInv, OnlyCompletePosts
<1>5. ~touched => saved = <<>>
  BY DEF IInv, PressedOnce
<1> QED
  BY <1>2, <1>3, <1>4, <1>5

LEMMA NextSafe == IInv /\ [Next]_vars => IInv'
<1> SUFFICES ASSUME IInv, [Next]_vars PROVE IInv'
  OBVIOUS
<1>typ. TypeOK
  BY DEF IInv
<1>1. CASE TypeTitle
  <2>1. Touch /\ UpdateDoneButtonUI
    BY <1>1 DEF TypeTitle
  <2>2. TypeOK'
    BY <1>1, <1>typ DEF TypeTitle, Touch, UpdateDoneButtonUI, MayPost, TypeOK, rigid, Day
  <2> QED
    BY <2>1, <2>2, TouchSafe
<1>2. CASE BeginNote
  <2>1. Touch /\ enabled' = enabled /\ Fit' = Fit
    BY <1>2 DEF BeginNote, Fit, MayPost
  <2>2. TypeOK'
    BY ZenonT(40), <1>2, <1>typ DEF BeginNote, Touch, TypeOK, rigid, Day
  <2> QED
    BY <2>1, <2>2, TouchSafe
<1>3. CASE TypeNote
  <2>1. Touch /\ UpdateDoneButtonUI
    BY <1>3 DEF TypeNote
  <2>2. TypeOK'
    BY <1>3, <1>typ DEF TypeNote, Touch, UpdateDoneButtonUI, MayPost, TypeOK, rigid, Day
  <2> QED
    BY <2>1, <2>2, TouchSafe
<1>4. CASE EndNote
  <2>1. Touch /\ enabled' = enabled /\ Fit' = Fit
    BY <1>4 DEF EndNote, Fit, MayPost
  <2>2. TypeOK'
    BY ZenonT(40), <1>4, <1>typ DEF EndNote, Touch, TypeOK, rigid, Day
  <2> QED
    BY <2>1, <2>2, TouchSafe
<1>5. CASE ChooseCategory
  <2>1. Touch /\ UpdateDoneButtonUI
    BY <1>5 DEF ChooseCategory
  <2>2. TypeOK'
    BY <1>5, <1>typ DEF ChooseCategory, Touch, UpdateDoneButtonUI, MayPost, TypeOK, rigid, Day
  <2> QED
    BY <2>1, <2>2, TouchSafe
<1>6. CASE StepSeats
  <2>1. Touch /\ UpdateDoneButtonUI
    BY <1>6 DEF StepSeats
  <2>2. TypeOK'
    BY ZenonT(40), <1>6, <1>typ DEF StepSeats, Touch, UpdateDoneButtonUI, MayPost, TypeOK, rigid, Day
  <2> QED
    BY <2>1, <2>2, TouchSafe
<1>7. CASE TapMeetingTime
  <2>1. Touch /\ enabled' = enabled /\ Fit' = Fit
    BY <1>7 DEF TapMeetingTime, Fit, MayPost
  <2>2. TypeOK'
    BY ZenonT(40), <1>7, <1>typ DEF TapMeetingTime, Touch, TypeOK, rigid, Day
  <2> QED
    BY <2>1, <2>2, TouchSafe
<1>8. ASSUME NEW d \in Day, MovePicker(d) PROVE IInv'
  <2>1. Touch /\ UpdateDoneButtonUI
    BY <1>8 DEF MovePicker
  <2>2. TypeOK'
    BY <1>8, <1>typ DEF MovePicker, Touch, UpdateDoneButtonUI, MayPost, TypeOK, rigid, Day
  <2> QED
    BY <2>1, <2>2, TouchSafe
<1>9. CASE DoneCreating
  <2>1. /\ Save /\ ~closed /\ enabled /\ enabled' = FALSE /\ timers' = timers + 1
        /\ closed' = closed /\ touched' = touched
        /\ UNCHANGED <<rigid, fields>>
    BY <1>9 DEF DoneCreating
  <2>2. /\ saved' \in Seq(Saved) /\ OnlyCompletePosts' /\ saved' # <<>>
        /\ ~touched => saved = <<>> /\ Len(saved') = 1
    BY <2>1, SaveSafe
  <2>3. timers' \in Nat /\ timers' > 0
    <3>1. timers \in Nat
      BY <1>typ DEF TypeOK
    <3>2. timers' = timers + 1
      BY <2>1
    <3> QED
      BY <3>1, <3>2
  <2>4. TypeOK'
    <3>1. enabled' \in BOOLEAN /\ closed' \in BOOLEAN /\ touched' \in BOOLEAN
      BY <2>1, <1>typ, Zenon DEF TypeOK
    <3> QED
      BY <2>1, <2>2, <2>3, <3>1, <1>typ, SameFields
  <2>5. ButtonTells'
    BY <2>1, <2>2, Zenon DEF ButtonTells
  <2>6. PressedOnce'
    BY <2>1, <2>2, <2>3, Zenon DEF PressedOnce
  <2> QED
    BY <2>2, <2>4, <2>5, <2>6 DEF IInv
<1>10. CASE DoneEditing
  <2>1. /\ Save /\ ~closed /\ enabled /\ enabled' = FALSE /\ closed' = TRUE
        /\ timers' = timers /\ touched' = touched
        /\ UNCHANGED <<rigid, fields>>
    BY <1>10 DEF DoneEditing
  <2>2. /\ saved' \in Seq(Saved) /\ OnlyCompletePosts' /\ saved' # <<>>
        /\ ~touched => saved = <<>> /\ Len(saved') = 1
    BY <2>1, SaveSafe
  <2>3. timers' \in Nat
    BY <2>1, <1>typ DEF TypeOK
  <2>4. TypeOK'
    <3>1. enabled' \in BOOLEAN /\ closed' \in BOOLEAN /\ touched' \in BOOLEAN
      BY <2>1, <1>typ, Zenon DEF TypeOK
    <3> QED
      BY <2>1, <2>2, <2>3, <3>1, <1>typ, SameFields
  <2>5. ButtonTells'
    BY <2>1 DEF ButtonTells
  <2>6. PressedOnce'
    BY <2>1, <2>2, Zenon DEF PressedOnce
  <2> QED
    BY <2>2, <2>4, <2>5, <2>6 DEF IInv
<1>11. CASE Dismiss \/ Cancel
  <2>1. timers' \in Nat
    <3>1. timers \in Nat
      BY <1>typ DEF TypeOK
    <3>2. (timers > 0 /\ timers' = timers - 1) \/ timers' = timers
      BY <1>11 DEF Dismiss, Cancel
    <3> QED
      BY <3>1, <3>2
  <2>2. /\ closed' = TRUE /\ saved' = saved /\ touched' = touched
        /\ enabled' = enabled /\ UNCHANGED <<rigid, fields>>
    BY <1>11 DEF Dismiss, Cancel
  <2>3. TypeOK'
    <3>1. enabled' \in BOOLEAN /\ closed' \in BOOLEAN /\ touched' \in BOOLEAN
          /\ saved' \in Seq(Saved)
      BY <2>2, <1>typ, Zenon DEF TypeOK
    <3> QED
      BY <2>1, <2>2, <3>1, <1>typ, SameFields
  <2>4. ButtonTells'
    BY <2>2 DEF ButtonTells
  <2>5. OnlyCompletePosts'
    BY <2>2 DEF IInv, OnlyCompletePosts
  <2>6. PressedOnce'
    BY <2>2, Zenon DEF IInv, PressedOnce
  <2> QED
    BY <2>3, <2>4, <2>5, <2>6 DEF IInv
<1>12. CASE UNCHANGED vars
  <2>1. /\ UNCHANGED <<rigid, fields>> /\ enabled' = enabled /\ timers' = timers
        /\ closed' = closed /\ saved' = saved /\ touched' = touched
    BY <1>12 DEF vars
  <2>2. TypeOK'
    <3>1. enabled' \in BOOLEAN /\ closed' \in BOOLEAN /\ touched' \in BOOLEAN
          /\ saved' \in Seq(Saved) /\ timers' \in Nat
      BY <2>1, <1>typ, Zenon DEF TypeOK
    <3> QED
      BY <2>1, <3>1, <1>typ, SameFields
  <2>3. ButtonTells'
    BY <2>1 DEF fields, IInv, ButtonTells, MayPost
  <2>4. OnlyCompletePosts' /\ PressedOnce'
    BY <2>1 DEF IInv, OnlyCompletePosts, PressedOnce
  <2> QED
    BY <2>2, <2>3, <2>4 DEF IInv
<1> QED
  BY <1>1, <1>2, <1>3, <1>4, <1>5, <1>6, <1>7, <1>8, <1>9, <1>10, <1>11, <1>12 DEF Next

(* No post with a field missing is ever written, whatever is typed, and    *)
(* whenever "done" is pressed.                                             *)
THEOREM PostsAreComplete == Spec => []OnlyCompletePosts
<1>1. IInv => OnlyCompletePosts
  BY DEF IInv
<1> QED
  BY <1>1, InitSafe, NextSafe, PTL DEF Spec

(* One press, one post, unless a field is touched before the form goes.    *)
THEOREM OnePressOnePost == Spec => []OnePostUntouched
<1>1. IInv => OnePostUntouched
  <2> SUFFICES ASSUME IInv, ~touched PROVE Len(saved) <= 1
    BY DEF OnePostUntouched
  <2>1. CASE saved = <<>>
    BY <2>1
  <2>2. CASE saved # <<>>
    <3>1. Len(saved) = 1
      BY <2>2, Zenon DEF IInv, PressedOnce
    <3> QED
      BY <3>1
  <2> QED
    BY <2>1, <2>2
<1> QED
  BY <1>1, InitSafe, NextSafe, PTL DEF Spec
-----------------------------------------------------------------------------
(* The label shows the picker's day, if that can be told.                  *)
LabelFollows == ~lastDay /\ picked # "now" => picked = label

(* What "done" saves is what picker and label show.                        *)
LEMMA SaveShown ==
    ASSUME TypeOK, LabelFollows, TimeAsShown, Save, UNCHANGED lastDay
    PROVE  TimeAsShown'
<1> DEFINE s == [complete |-> MayPost(title, note, category, seats, label),
                 time |-> picked, shown |-> label]
<1>1. s.time = picked /\ s.shown = label
  OBVIOUS
<1>2. saved' = Append(saved, s) /\ saved \in Seq(Saved)
  BY DEF Save, TypeOK
<1> HIDE DEF s
<1> SUFFICES ASSUME ~lastDay, NEW i \in DOMAIN saved', saved'[i].time # "now"
             PROVE  saved'[i].time = saved'[i].shown
  BY DEF TimeAsShown
<1>3. (i \in DOMAIN saved /\ saved'[i] = saved[i]) \/ saved'[i] = s
  BY <1>2
<1> QED
  BY <1>1, <1>3 DEF TimeAsShown, LabelFollows

LEMMA NextShown ==
    ASSUME TypeOK, LabelFollows, TimeAsShown, [Next]_vars
    PROVE  LabelFollows' /\ TimeAsShown'
<1>1. CASE \E d \in Day : MovePicker(d)
  <2>1. PICK d \in Day : MovePicker(d)
    BY <1>1
  <2>2. /\ picked' = d /\ label' = (IF Told(d) THEN d ELSE label)
        /\ lastDay' = lastDay /\ saved' = saved
    BY <2>1 DEF MovePicker, Touch, rigid
  <2>3. ~lastDay => Told(d)
    BY DEF Told, Day
  <2> QED
    BY <2>2, <2>3 DEF LabelFollows, TimeAsShown
<1>2. CASE DoneCreating \/ DoneEditing
  <2>1. Save /\ UNCHANGED <<rigid, fields>>
    BY <1>2 DEF DoneCreating, DoneEditing
  <2> QED
    BY <2>1, SaveShown DEF LabelFollows, rigid, fields
<1>3. CASE \/ TypeTitle \/ BeginNote \/ TypeNote \/ EndNote \/ ChooseCategory
           \/ StepSeats \/ TapMeetingTime
  <2>1. UNCHANGED <<lastDay, picked, label, saved>>
    BY <1>3 DEF TypeTitle, BeginNote, TypeNote, EndNote, ChooseCategory, StepSeats,
       TapMeetingTime, Touch, rigid
  <2> QED
    BY <2>1 DEF LabelFollows, TimeAsShown
<1>4. CASE Dismiss \/ Cancel \/ UNCHANGED vars
  <2>1. UNCHANGED <<lastDay, picked, label, saved>>
    BY <1>4 DEF Dismiss, Cancel, vars, rigid, fields
  <2> QED
    BY <2>1 DEF LabelFollows, TimeAsShown
<1> QED
  BY <1>1, <1>2, <1>3, <1>4 DEF Next

(* The fields, the button and what is written have the types of their      *)
(* controls, for any stepper and any number of presses.                    *)
THEOREM FormTypes == Spec => []TypeOK
<1>1. IInv => TypeOK
  BY DEF IInv
<1> QED
  BY <1>1, InitSafe, NextSafe, PTL DEF Spec

(* The button is enabled only while the fields may be posted, and until    *)
(* "done" whenever they may, though some handlers do not update it.        *)
THEOREM ButtonTruthful == Spec => []ButtonTells
<1>1. IInv => ButtonTells
  BY DEF IInv
<1> QED
  BY <1>1, InitSafe, NextSafe, PTL DEF Spec

(* On any day but the last of a month, a picker that was moved is shown by *)
(* the label, so the time that is written is the one the form showed.      *)
THEOREM TimeIsShown == Spec => []TimeAsShown
<1>1. Init => LabelFollows /\ TimeAsShown
  BY DEF Init, LabelFollows, TimeAsShown
<1>2. TypeOK /\ LabelFollows /\ TimeAsShown /\ [Next]_vars
      => LabelFollows' /\ TimeAsShown'
  BY NextShown
<1> QED
  BY <1>1, <1>2, FormTypes, PTL DEF Spec
=============================================================================
