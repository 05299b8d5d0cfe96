------------------------------ MODULE Account -------------------------------
(***************************************************************************)
(* Registration, e-mail certification, login, logout and withdrawal on one *)
(* phone, which several students may use one after another.  Firebase Auth *)
(* keeps the accounts and the phone's sign-in, Firestore the users         *)
(* documents, the Realtime Database the names.  The settings screen is     *)
(* made when the app starts, and remembers who was signed in then.         *)
(***************************************************************************)
EXTENDS Naturals, FiniteSets

CONSTANTS Address, Nil,
          MaxUids,    (* bound: accounts ever created                       *)
          MaxTaps,    (* bound: what the student does                       *)
          Regimes     (* sets of: "retap", he taps a button again before    *)
                      (* its answer; "kill", the app ends in the middle of  *)
                      (* something; "offline", calls may fail               *)

Uid == 1..MaxUids

ASSUME AccountAssumption ==
    /\ Nil \notin Uid \cup Address
    /\ MaxUids \in Nat /\ MaxTaps \in Nat
    /\ Cardinality(Address) <= MaxUids
    /\ Regimes \subseteq SUBSET {"retap", "kill", "offline"}

VARIABLES
    status,    (* Auth, server: what has become of an account               *)
    email,     (* Auth, server: the address of an account                   *)
    docs,      (* Firestore: users/<uid>, by its e-mail field; Nil: none    *)
    names,     (* Realtime Database: users with a user/<uid>/userID         *)
    queue,     (* writes the phone has not brought to the servers           *)
    current,   (* Auth.auth().currentUser; survives the end of the app      *)
    seen,      (* its isEmailVerified, as last read from the server         *)
    owner,     (* MoreDetails: currentUid, set when the app started         *)
    screen, calls, trap,
    asked,     (* history: accounts whose students confirmed a withdrawal   *)
    taps, regime

vars == <<status, email, docs, names, queue, current, seen, owner, screen,
          calls, trap, asked, taps, regime>>
server == <<status, email, docs, names>>

Status == {"free", "new", "mailed", "verified", "deleted"}
Screen == {"login", "register", "certifyNew", "certifyOld", "main", "settings"}
Call   == [button : {"register", "login", "check", "settings", "withdraw"},
           op : {"query", "create", "created", "document", "signIn", "signedIn",
                 "reload", "fetch", "delete"},
           email : Address \cup {Nil}, uid : Uid \cup {Nil}, turn : 1..2]
Queued == [kind : {"document", "name"}, uid : Uid, email : Address]

Live(u) == status[u] \in {"new", "mailed", "verified"}

(* Types; nobody is signed in with an account that never was, and only a   *)
(* user who is signed in is known to be verified.                          *)
TypeOK ==
    /\ status \in [Uid -> Status] /\ email \in [Uid -> Address \cup {Nil}]
    /\ docs \in [Uid -> Address \cup {Nil}] /\ names \subseteq Uid
    /\ queue \subseteq Queued
    /\ current \in Uid \cup {Nil} /\ owner \in Uid \cup {Nil}
    /\ seen \in BOOLEAN /\ (seen => current # Nil)
    /\ screen \in Screen /\ calls \subseteq Call
    /\ trap \in {"none", "snapshot", "currentUser", "document", "profile", "withdrawal"}
    /\ asked \subseteq Uid /\ taps \in 0..MaxTaps /\ regime \in Regimes

(* A new phone; some students have registered before, elsewhere.           *)
Init ==
    \E known \in {f \in [Uid -> Address \cup {Nil}] :
                     \A u, v \in Uid : u < v /\ f[v] # Nil => f[u] \notin {f[v], Nil}} :
        /\ email = known /\ docs = known
        /\ names = {u \in Uid : known[u] # Nil}
        /\ status = [u \in Uid |-> IF known[u] = Nil THEN "free" ELSE "verified"]
        /\ queue = {} /\ current = Nil /\ seen = FALSE /\ owner = Nil
        /\ screen = "login" /\ calls = {} /\ trap = "none" /\ asked = {}
        /\ taps = 0 /\ regime \in Regimes
-----------------------------------------------------------------------------
(* What a read gets: the server's document, or this user's own write.      *)
Document(u) ==
    IF docs[u] # Nil THEN docs[u]
    ELSE IF current = u /\ \E w \in queue : w.kind = "document" /\ w.uid = u
    THEN (CHOOSE w \in queue : w.kind = "document" /\ w.uid = u).email
    ELSE Nil

(* Mutant: certification is not asked for.                                 *)
FirstScreenAnyone(u, verified) == IF u = Nil THEN "login" ELSE "main"

(* viewWillAppear of the main screen lets verified users pass.             *)
FirstScreen(u, verified) == IF u = Nil \/ ~verified THEN "login" ELSE "main"

Trap(reason) ==
    /\ trap' = reason
    /\ UNCHANGED <<server, queue, current, seen, owner, screen, calls, asked>>

(* Mutant: what was known of the former user is kept.                      *)
SignOutKeeping == current' = Nil /\ UNCHANGED seen

SignOut == current' = Nil /\ seen' = FALSE

Tap == taps < MaxTaps /\ taps' = taps + 1

(* He waits for every answer he can see; of a withdrawal he sees none.     *)
Waiting == \A c \in calls : c.button = "withdraw"

(* A button that starts a call: tapped once, or once more too early.       *)
TapFor(button, op, e, u) ==
    LET asking == {c \in calls : c.button # "withdraw"} IN
    /\ Tap
    /\ \/ asking = {}
       \/ /\ "retap" \in regime
          /\ \A c \in asking : c.button = button /\ c.email = e /\ c.turn = 1
    /\ calls' = calls \cup {[button |-> button, op |-> op, email |-> e, uid |-> u,
                             turn |-> IF asking = {} THEN 1 ELSE 2]}

Done(c)         == calls' = calls \ {c}
Then(c, op, u)  == calls' = (calls \ {c}) \cup {[c EXCEPT !.op = op, !.uid = u]}
-----------------------------------------------------------------------------
(* Registration.  Its screen signs out when it loads.                      *)
OpenRegistration ==
    /\ screen = "login" /\ Waiting /\ Tap
    /\ screen' = "register" /\ SignOut
    /\ UNCHANGED <<server, queue, owner, calls, trap, asked>>

CloseRegistration ==
    /\ screen = "register" /\ Waiting /\ Tap
    /\ screen' = "login"
    /\ UNCHANGED <<server, queue, current, seen, owner, calls, trap, asked>>

TapRegister(e) ==
    /\ screen = "register" /\ TapFor("register", "query", e, Nil)
    /\ UNCHANGED <<server, queue, current, seen, owner, screen, trap, asked>>

(* Mutant: nobody is signed in, and his document is read.                  *)
AnswerQueryForNobody(c) ==
    /\ c.op = "query"
    /\ IF \E u \in Uid : Document(u) = c.email
       THEN IF current = Nil THEN Trap("document")
            ELSE Then(c, "document", current) /\ UNCHANGED trap
       ELSE Then(c, "create", Nil) /\ UNCHANGED trap
    /\ UNCHANGED <<server, queue, current, seen, owner, screen, asked>>

(* Is there a users document with this address?  If so, and somebody is    *)
(* signed in, he may have come back from the certification.                *)
AnswerQuery(c) ==
    /\ c.op = "query"
    /\ IF \E u \in Uid : Document(u) = c.email
       THEN IF current = Nil THEN Done(c) ELSE Then(c, "document", current)
       ELSE Then(c, "create", Nil)
    /\ UNCHANGED <<server, queue, current, seen, owner, screen, trap, asked>>

(* Auth refuses an address that has an account; else the new user is       *)
(* signed in, and the completion is called.                                *)
AnswerCreate(c) ==
    /\ c.op = "create"
    /\ \/ /\ \E u \in Uid : Live(u) /\ email[u] = c.email
          /\ Done(c) /\ UNCHANGED <<status, email, current, seen>>
       \/ \E u \in Uid :
          /\ ~ \E v \in Uid : Live(v) /\ email[v] = c.email
          /\ status[u] = "free" /\ \A v \in 1..(u - 1) : status[v] # "free"
          /\ status' = [status EXCEPT ![u] = "new"]
          /\ email' = [email EXCEPT ![u] = c.email]
          /\ current' = u /\ seen' = FALSE
          /\ Then(c, "created", u)
    /\ UNCHANGED <<docs, names, queue, owner, screen, trap, asked>>

(* Mutant: the document is left to a later screen.                         *)
CreatedNameOnly(c) ==
    /\ c.op = "created"
    /\ IF current = Nil THEN Trap("currentUser")
       ELSE /\ queue' = queue \cup
                  {[kind |-> "name", uid |-> current, email |-> c.email]}
            /\ screen' = (IF screen = "register" THEN "certifyNew" ELSE screen)
            /\ Done(c)
            /\ UNCHANGED <<server, current, seen, owner, trap, asked>>

(* The completion writes document and name of whoever is signed in now.    *)
Created(c) ==
    /\ c.op = "created"
    /\ IF current = Nil THEN Trap("currentUser")
       ELSE /\ queue' = queue \cup
                  {[kind |-> k, uid |-> current, email |-> c.email] :
                      k \in {"document", "name"}}
            /\ screen' = (IF screen = "register" THEN "certifyNew" ELSE screen)
            /\ Done(c)
            /\ UNCHANGED <<server, current, seen, owner, trap, asked>>

(* Back from the certification with the same address: on to it again.      *)
AnswerDocument(c) ==
    /\ c.op = "document"
    /\ IF Document(c.uid) = Nil THEN Trap("document")
       ELSE /\ screen' = (IF screen = "register" /\ Document(c.uid) = c.email
                          THEN "certifyNew" ELSE screen)
            /\ Done(c)
            /\ UNCHANGED <<server, queue, current, seen, owner, trap, asked>>

(* The libraries bring a write to the server; Firestore's waits until its  *)
(* user is signed in.                                                      *)
Commit(w) ==
    /\ w.kind = "document" => current = w.uid
    /\ queue' = queue \ {w}
    /\ docs' = IF w.kind = "document" THEN [docs EXCEPT ![w.uid] = w.email] ELSE docs
    /\ names' = IF w.kind = "name" THEN names \cup {w.uid} ELSE names
    /\ UNCHANGED <<status, email, current, seen, owner, screen, calls, trap, asked>>
-----------------------------------------------------------------------------
(* Certification, reached from the registration or from the login.         *)
Certifying == screen \in {"certifyNew", "certifyOld"}

SendMail ==
    /\ Certifying /\ Waiting /\ Tap
    /\ current # Nil /\ status[current] = "new"
    /\ status' = [status EXCEPT ![current] = "mailed"]
    /\ UNCHANGED <<email, docs, names, queue, current, seen, owner, screen, calls,
                   trap, asked>>

(* The student follows the link in the mail.                               *)
Verify(u) ==
    /\ status[u] = "mailed"
    /\ status' = [status EXCEPT ![u] = "verified"]
    /\ UNCHANGED <<email, docs, names, queue, current, seen, owner, screen, calls,
                   trap, asked>>

TapCheck ==
    /\ Certifying /\ current # Nil /\ TapFor("check", "reload", Nil, current)
    /\ UNCHANGED <<server, queue, current, seen, owner, screen, trap, asked>>

(* Verified: he is signed out, and has to log in.                          *)
AnswerReload(c) ==
    /\ c.op = "reload" /\ Done(c)
    /\ IF current = c.uid /\ status[c.uid] = "verified"
       THEN SignOut /\ screen' = (IF Certifying THEN "login" ELSE screen)
       ELSE UNCHANGED <<current, seen, screen>>
    /\ UNCHANGED <<server, queue, owner, trap, asked>>

LeaveCertification ==
    /\ Certifying /\ Waiting /\ Tap
    /\ screen' = IF screen = "certifyNew" THEN "register" ELSE "login"
    /\ UNCHANGED <<server, queue, current, seen, owner, calls, trap, asked>>
-----------------------------------------------------------------------------
TapLogin(e) ==
    /\ screen = "login" /\ TapFor("login", "signIn", e, Nil)
    /\ UNCHANGED <<server, queue, current, seen, owner, screen, trap, asked>>

AnswerSignIn(c) ==
    /\ c.op = "signIn"
    /\ \/ /\ ~ \E u \in Uid : Live(u) /\ email[u] = c.email
          /\ Done(c) /\ UNCHANGED <<current, seen>>
       \/ \E u \in Uid :
          /\ Live(u) /\ email[u] = c.email
          /\ current' = u /\ seen' = (status[u] = "verified")
          /\ Then(c, "signedIn", u)
    /\ UNCHANGED <<server, queue, owner, screen, trap, asked>>

(* Verified users come to the main screen, others to the certification.    *)
SignedIn(c) ==
    /\ c.op = "signedIn" /\ Done(c)
    /\ screen' = IF screen # "login" THEN screen
                 ELSE IF seen THEN FirstScreen(current, seen) ELSE "certifyOld"
    /\ UNCHANGED <<server, queue, current, seen, owner, trap, asked>>

OpenSettings ==
    /\ screen = "main" /\ Waiting /\ screen' = "settings"
    /\ IF current = Nil THEN Tap /\ UNCHANGED calls
       ELSE TapFor("settings", "fetch", Nil, current)
    /\ UNCHANGED <<server, queue, current, seen, owner, trap, asked>>

(* FetchData casts the fields of the users document.                       *)
AnswerFetch(c) ==
    /\ c.op = "fetch"
    /\ IF Document(c.uid) = Nil THEN Trap("profile")
       ELSE /\ Done(c)
            /\ UNCHANGED <<server, queue, current, seen, owner, screen, trap, asked>>

LeaveSettings ==
    /\ screen = "settings" /\ Waiting /\ Tap
    /\ screen' = FirstScreen(current, seen)
    /\ UNCHANGED <<server, queue, current, seen, owner, calls, trap, asked>>

LogOut ==
    /\ screen = "settings" /\ Waiting /\ Tap
    /\ SignOut /\ screen' = "login"
    /\ UNCHANGED <<server, queue, owner, calls, trap, asked>>

(* Withdrawal: the user the settings remember is deleted, the one signed   *)
(* in is signed out; nobody waits for the answer.                          *)
Withdraw ==
    /\ screen = "settings" /\ Waiting
    /\ IF owner = Nil THEN Tap /\ Trap("withdrawal")
       ELSE /\ calls = {} /\ TapFor("withdraw", "delete", Nil, owner)
            /\ asked' = asked \cup ({current} \ {Nil})
            /\ SignOut /\ screen' = "login"
            /\ UNCHANGED <<server, queue, owner, trap>>

(* Auth deletes, and signs the user out if he is signed in again; or it    *)
(* refuses, as after a login long ago, and nobody is told.                 *)
AnswerDelete(c) ==
    /\ c.op = "delete" /\ Done(c)
    /\ \/ UNCHANGED <<status, current, seen>>
       \/ /\ Live(c.uid)
          /\ status' = [status EXCEPT ![c.uid] = "deleted"]
          /\ IF current = c.uid THEN SignOut ELSE UNCHANGED <<current, seen>>
    /\ UNCHANGED <<email, docs, names, queue, owner, screen, trap, asked>>
-----------------------------------------------------------------------------
(* Of the reads and calls that fail, one is unwrapped.                     *)
Fails(c) ==
    /\ "offline" \in regime /\ c.op \notin {"created", "signedIn"}
    /\ IF c.op = "query" THEN Trap("snapshot")
       ELSE /\ Done(c)
            /\ UNCHANGED <<server, queue, current, seen, owner, screen, trap, asked>>

(* The app is started again, after its end in peace or in the middle of    *)
(* something.  Only Firestore's queue is kept on disk.                     *)
Launch ==
    /\ Tap
    /\ \/ "kill" \in regime
       \/ calls = {} /\ \A w \in queue : w.kind # "name"
    /\ calls' = {} /\ queue' = {w \in queue : w.kind = "document"}
    /\ owner' = current /\ screen' = FirstScreen(current, seen)
    /\ UNCHANGED <<server, current, seen, trap, asked>>

Student ==
    \/ OpenRegistration \/ CloseRegistration \/ (\E e \in Address : TapRegister(e))
    \/ SendMail \/ TapCheck \/ LeaveCertification
    \/ (\E e \in Address : TapLogin(e))
    \/ OpenSettings \/ LeaveSettings \/ LogOut \/ Withdraw \/ Launch

Answer(c) ==
    \/ AnswerQuery(c) \/ AnswerCreate(c) \/ Created(c) \/ AnswerDocument(c)
    \/ AnswerReload(c) \/ AnswerSignIn(c) \/ SignedIn(c) \/ AnswerFetch(c)
    \/ AnswerDelete(c) \/ Fails(c)

Next ==
    /\ trap = "none" /\ UNCHANGED regime
    /\ \/ Student
       \/ /\ UNCHANGED taps
          /\ (\E c \in calls : Answer(c)) \/ (\E w \in queue : Commit(w))
             \/ \E u \in Uid : Verify(u)

Spec == Init /\ [][Next]_vars
-----------------------------------------------------------------------------
(* In peace: the app is not ended in the middle, no call fails.            *)
Peace == regime \subseteq {"retap"}

(* An account never stands without its profile, though the two are made    *)
(* one after the other in two services and a third keeps the name: both    *)
(* are there, on their way, or about to be written.  A document that is    *)
(* there is of its own account's student, also after kills and failures.   *)
ProfileKept ==
    \A u \in Uid :
        /\ docs[u] \in {Nil, email[u]}
        /\ Peace /\ Live(u) =>
            \/ \E c \in calls : c.op = "created" /\ current = u
            \/ /\ \/ docs[u] = email[u]
                  \/ [kind |-> "document", uid |-> u, email |-> email[u]] \in queue
               /\ \/ u \in names
                  \/ [kind |-> "name", uid |-> u, email |-> email[u]] \in queue

(* Behind the login is only who is signed in with a certified address, by  *)
(* whatever way he came there: the first start, certification, a restart   *)
(* in between.  (A withdrawn account may be signed out under him.)         *)
OnlyCertifiedInside ==
    screen \in {"main", "settings"} =>
        \/ current # Nil /\ seen /\ status[current] = "verified"
        \/ current = Nil /\ \E u \in Uid : status[u] = "deleted"

(* In peace nothing that is unwrapped or cast is missing, also for who     *)
(* taps twice, comes back from the certification, or finds his document    *)
(* still in the queue; but for the withdrawal of who was not signed in     *)
(* when the app started, and for what an account's deletion leaves.        *)
NoTrap ==
    Peace /\ (\A u \in Uid : status[u] # "deleted") => trap \in {"none", "withdrawal"}

(* "Withdraw from membership?": who confirms it is deleted, nobody else.   *)
OnlyWithdrawnDeleted == \A u \in Uid : status[u] = "deleted" => u \in asked
=============================================================================
