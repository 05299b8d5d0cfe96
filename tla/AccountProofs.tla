---------------------------- MODULE AccountProofs ----------------------------
(***************************************************************************)
(* For any students, accounts and taps, with calls that fail and kills:    *)
(* the types, that nobody is behind the login without a certified address, *)
(* and that documents are of their account's student; and in peace that no *)
(* account stands without its profile, and nothing that is unwrapped is    *)
(* missing.                                                                *)
(***************************************************************************)
EXTENDS Account, TLAPS

Registers(c) == c.op \in {"query", "create", "created", "document"}
LogsIn(c)    == c.op \in {"signIn", "signedIn"}

(* The screens on which a call may be under way, and what it carries.      *)
Suits(c) ==
    /\ Registers(c) => /\ c.button = "register" /\ c.email \in Address
                       /\ screen \in {"register", "certifyNew"}
    /\ LogsIn(c) => /\ c.button = "login" /\ c.email \in Address
                    /\ screen \in {"login", "certifyOld", "main"}
    /\ c.op = "reload" => /\ c.button = "check"
                          /\ screen \in {"certifyNew", "certifyOld", "login"}
    /\ c.op = "fetch" => c.button = "settings" /\ screen = "settings"
    /\ c.op = "delete" => c.button = "withdraw"
    /\ c.op \notin {"query", "create", "signIn"} => c.uid \in Uid

(* The calls that the student waits for are one button's, for one address. *)
Alike(c, d) ==
    c.button # "withdraw" /\ d.button # "withdraw"
        => c.button = d.button /\ c.email = d.email

CallsOK == \A c \in calls : Suits(c) /\ \A d \in calls : Alike(c, d)

(* Accounts: an address has one; what is stored of it, or will be, is its  *)
(* own.  Who is signed in has one, and is known for certified if it is.    *)
SignedUp ==
    /\ current # Nil => Live(current)
    /\ seen => status[current] = "verified"
OneAccount == \A u, v \in Uid : Live(u) /\ Live(v) /\ email[u] = email[v] => u = v
OwnProfile ==
    /\ \A u \in Uid : /\ docs[u] \in {Nil, email[u]}
                      /\ status[u] = "free" => docs[u] = Nil
                      /\ status[u] # "free" => email[u] \in Address
    /\ \A w \in queue : w.email = email[w.uid] /\ status[w.uid] # "free"

(* A completion finds the account of its own address, if any.              *)
OwnSession ==
    \A c \in calls :
        /\ c.op \in {"created", "signedIn"} /\ current # Nil => email[current] = c.email
        /\ LogsIn(c) /\ screen = "main" =>
               \A u \in Uid : Live(u) /\ email[u] = c.email => status[u] = "verified"

(* An account has both parts of its profile, or they are on their way.     *)
HasProfile(u) ==
    /\ \/ docs[u] = email[u]
       \/ [kind |-> "document", uid |-> u, email |-> email[u]] \in queue
    /\ \/ u \in names
       \/ [kind |-> "name", uid |-> u, email |-> email[u]] \in queue
Creating(u) == current = u /\ \E c \in calls : c.op = "created"
Profiles    == Peace => \A u \in Uid : Live(u) => Creating(u) \/ HasProfile(u)

(* What callbacks will unwrap is there, as long as nobody is deleted.      *)
NoneDeleted == \A u \in Uid : status[u] # "deleted"
Wanted(c) ==
    /\ c.op = "created" => current # Nil
    /\ c.op = "document" => \E u \in Uid : Live(u) /\ email[u] = c.email
    /\ c.op \in {"document", "fetch"} => Document(c.uid) # Nil
Found == Peace /\ NoneDeleted =>
    trap \in {"none", "withdrawal"} /\ \A c \in calls : Wanted(c)

IInv ==
    /\ TypeOK /\ CallsOK /\ SignedUp /\ OneAccount /\ OwnProfile /\ OwnSession
    /\ OnlyCertifiedInside /\ Profiles /\ Found
-----------------------------------------------------------------------------
(* Calls, one at a time.                                                   *)
LEMMA ThenAt ==
    ASSUME calls \subseteq Call, NEW c \in calls,
           NEW op \in {"create", "created", "document", "signedIn"},
           NEW u \in Uid \cup {Nil}, Then(c, op, u)
    PROVE  \E d \in Call : /\ calls' = (calls \ {c}) \cup {d}
                           /\ d.op = op /\ d.uid = u
                           /\ d.email = c.email /\ d.button = c.button
<1> DEFINE d == [c EXCEPT !.op = op, !.uid = u]
<1>1. d.op = op /\ d.uid = u /\ d.email = c.email /\ d.button = c.button
  BY DEF Call
<1>2. d \in Call /\ calls' = (calls \ {c}) \cup {d}
  BY DEF Call, Then
<1> HIDE DEF d
<1> QED
  BY <1>1, <1>2

LEMMA TapAt ==
    ASSUME TypeOK,
           NEW button \in {"register", "login", "check", "settings", "withdraw"},
           NEW op \in {"query", "signIn", "reload", "fetch", "delete"},
           NEW e \in Address \cup {Nil}, NEW u \in Uid \cup {Nil},
           TapFor(button, op, e, u)
    PROVE  /\ taps' \in 0..MaxTaps
           /\ \A c \in calls : c.button = "withdraw" \/ (c.button = button /\ c.email = e)
           /\ \E d \in Call : /\ calls' = calls \cup {d}
                              /\ d.button = button /\ d.op = op
                              /\ d.email = e /\ d.uid = u
<1> DEFINE asking == {c \in calls : c.button # "withdraw"}
           turn   == IF asking = {} THEN 1 ELSE 2
           d == [button |-> button, op |-> op, email |-> e, uid |-> u, turn |-> turn]
<1>1. calls' = calls \cup {d} /\ taps < MaxTaps /\ taps' = taps + 1
  BY DEF TapFor, Tap
<1>2. \A c \in asking : c.button = button /\ c.email = e
  BY DEF TapFor
<1>3. turn \in 1..2
  OBVIOUS
<1>4. d \in Call
  <2> HIDE DEF turn
  <2> QED
    BY <1>3 DEF Call
<1>5. d.button = button /\ d.op = op /\ d.email = e /\ d.uid = u
  OBVIOUS
<1>6. taps' \in 0..MaxTaps
  BY <1>1, AccountAssumption DEF TypeOK
<1> HIDE DEF d
<1> QED
  BY <1>1, <1>2, <1>4, <1>5, <1>6

(* Under every call that is waited for, the others are of its button.      *)
LEMMA Kinds ==
    ASSUME TypeOK, CallsOK, NEW c \in calls
    PROVE  /\ c.op \in {"query", "create", "created", "document", "signIn",
                       "signedIn", "reload", "fetch", "delete"}
           /\ c.button = "register" => Registers(c)
           /\ c.button = "login" => LogsIn(c)
           /\ c.button = "check" => c.op = "reload"
           /\ c.button = "settings" => c.op = "fetch"
           /\ c.button = "withdraw" <=> c.op = "delete"
<1>1. c \in Call /\ Suits(c)
  BY DEF TypeOK, CallsOK
<1>2. c.op \in {"query", "create", "created", "document", "signIn",
               "signedIn", "reload", "fetch", "delete"}
  BY <1>1 DEF Call
<1> QED
  BY <1>1, <1>2 DEF Suits, Registers, LogsIn

(* He waits for nothing: only withdrawals are under way.                   *)
LEMMA Idle ==
    ASSUME TypeOK, CallsOK, Waiting, NEW c \in calls
    PROVE  c.op = "delete" /\ c.button = "withdraw" /\ c.uid \in Uid
<1>1. c.button = "withdraw"
  BY DEF Waiting
<1>2. c.op = "delete"
  BY <1>1, Kinds
<1> QED
  BY <1>1, <1>2 DEF CallsOK, Suits

(* A document that may be read is its own account's.                       *)
LEMMA DocumentOwn ==
    ASSUME TypeOK, OwnProfile, NEW u \in Uid, Document(u) # Nil
    PROVE  Document(u) = email[u] /\ status[u] # "free"
<1>1. CASE docs[u] # Nil
  BY <1>1 DEF Document, OwnProfile
<1>2. CASE docs[u] = Nil
  <2>1. \E w \in queue : w.kind = "document" /\ w.uid = u
    BY <1>2 DEF Document
  <2> DEFINE w == CHOOSE w \in queue : w.kind = "document" /\ w.uid = u
  <2>2. w \in queue /\ w.uid = u
    BY <2>1
  <2>3. Document(u) = w.email
    BY <1>2 DEF Document
  <2> HIDE DEF w
  <2> QED
    BY <2>2, <2>3 DEF OwnProfile
<1> QED
  BY <1>1, <1>2

(* And the document of who is signed in is, once its write is queued.      *)
LEMMA DocumentThere ==
    ASSUME TypeOK, OwnProfile, NEW u \in Uid, status[u] # "free",
           \/ docs[u] = email[u]
           \/ /\ current = u
              /\ \E w \in queue : w.kind = "document" /\ w.uid = u
    PROVE  Document(u) # Nil
<1>1. email[u] # Nil
  BY AccountAssumption DEF OwnProfile
<1>2. CASE docs[u] # Nil
  BY <1>2 DEF Document
<1>3. CASE docs[u] = Nil
  <2>1. current = u /\ \E w \in queue : w.kind = "document" /\ w.uid = u
    BY <1>1, <1>3
  <2> DEFINE w == CHOOSE w \in queue : w.kind = "document" /\ w.uid = u
  <2>2. w \in queue
    BY <2>1
  <2>3. Document(u) = w.email
    BY <1>3, <2>1 DEF Document
  <2> HIDE DEF w
  <2>4. w.email \in Address
    BY <2>2 DEF TypeOK, Queued
  <2> QED
    BY <2>3, <2>4, AccountAssumption
<1> QED
  BY <1>2, <1>3

LEMMA ProfileThere ==
    ASSUME TypeOK, OwnProfile, NEW u \in Uid, current = u, Live(u), HasProfile(u)
    PROVE  Document(u) = email[u] /\ Document(u) # Nil
<1>1. status[u] # "free"
  BY DEF Live
<1>2. \/ docs[u] = email[u]
      \/ \E w \in queue : w.kind = "document" /\ w.uid = u
  BY DEF HasProfile
<1>3. Document(u) # Nil
  BY <1>1, <1>2, DocumentThere
<1> QED
  BY <1>3, DocumentOwn
-----------------------------------------------------------------------------
LEMMA InitInv == Init => IInv
<1> SUFFICES ASSUME Init PROVE IInv
  OBVIOUS
<1>1. /\ email \in [Uid -> Address \cup {Nil}] /\ docs = email
      /\ \A u, v \in Uid : u < v /\ email[v] # Nil => email[u] \notin {email[v], Nil}
      /\ names = {u \in Uid : email[u] # Nil}
      /\ status = [u \in Uid |-> IF email[u] = Nil THEN "free" ELSE "verified"]
  BY DEF Init
<1>2. /\ queue = {} /\ current = Nil /\ seen = FALSE /\ owner = Nil
      /\ screen = "login" /\ calls = {} /\ trap = "none" /\ asked = {}
      /\ taps = 0 /\ regime \in Regimes
  BY DEF Init
<1>3. TypeOK
  <2>1. status \in [Uid -> Status]
    BY <1>1 DEF Status
  <2>2. taps \in 0..MaxTaps
    BY <1>2, AccountAssumption
  <2>3. names \subseteq Uid
    BY <1>1
  <2> QED
    BY <1>1, <1>2, <2>1, <2>2, <2>3 DEF TypeOK, Screen
<1>4. CallsOK /\ OwnSession
  BY <1>2 DEF CallsOK, OwnSession
<1>5. SignedUp
  BY <1>2 DEF SignedUp
<1>6. OneAccount
  <2> SUFFICES ASSUME NEW u \in Uid, NEW v \in Uid, Live(u), Live(v), email[u] = email[v]
               PROVE  u = v
    BY DEF OneAccount
  <2>1. email[u] # Nil /\ email[v] # Nil
    BY <1>1 DEF Live
  <2>2. u < v \/ v < u \/ u = v
    BY AccountAssumption DEF Uid
  <2> QED
    BY <1>1, <2>1, <2>2
<1>7. OwnProfile
  BY <1>1, <1>2 DEF OwnProfile
<1>8. OnlyCertifiedInside
  BY <1>2 DEF OnlyCertifiedInside
<1>9. Profiles
  BY <1>1, <1>2 DEF Profiles, HasProfile, Live
<1>10. Found
  BY <1>2 DEF Found
<1> QED
  BY <1>3, <1>4, <1>5, <1>6, <1>7, <1>8, <1>9, <1>10 DEF IInv
-----------------------------------------------------------------------------
(* A step without registrations or logins under way, which leaves profiles *)
(* and accounts as they are but for certification.                         *)
LEMMA QuietStep ==
    ASSUME IInv, TypeOK', CallsOK', SignedUp', OnlyCertifiedInside',
           UNCHANGED <<email, docs, names, queue, regime>>,
           \A u \in Uid : /\ Live(u)' <=> Live(u)
                          /\ status'[u] = "free" <=> status[u] = "free"
                          /\ status'[u] = "deleted" <=> status[u] = "deleted",
           trap' \in {trap, "withdrawal"},
           \A c \in calls : c.op # "created",
           \A c \in calls' : c.op \in {"delete", "reload"}
    PROVE  IInv'
<1>1. OneAccount'
  BY DEF IInv, OneAccount
<1>2. OwnProfile'
  <2>1. /\ \A u \in Uid : docs'[u] = docs[u] /\ email'[u] = email[u]
        /\ queue' = queue /\ email' = email
    OBVIOUS
  <2>2. \A w \in queue : w.uid \in Uid
    BY DEF IInv, TypeOK, Queued
  <2> QED
    BY <2>1, <2>2 DEF IInv, OwnProfile
<1>3. OwnSession'
  BY DEF OwnSession, LogsIn
<1>4. Profiles'
  <2>1. \A u \in Uid : HasProfile(u)' = HasProfile(u)
    BY DEF HasProfile
  <2>2. \A u \in Uid : ~Creating(u)
    BY DEF Creating
  <2> QED
    BY <2>1, <2>2 DEF IInv, Profiles, Peace
<1>5. Found'
  <2>1. \A c \in calls' : Wanted(c)'
    BY DEF Wanted
  <2>2. NoneDeleted' => NoneDeleted
    BY DEF NoneDeleted
  <2> QED
    BY <2>1, <2>2 DEF IInv, Found, Peace
<1> QED
  BY <1>1, <1>2, <1>3, <1>4, <1>5 DEF IInv

(* He turns to another screen, signed out or not, and waits for nothing.   *)
LEMMA IdleStep ==
    ASSUME IInv, Waiting, calls' = calls, taps' \in 0..MaxTaps,
           UNCHANGED <<server, queue, owner, regime>>,
           screen' \in Screen,
           SignOut \/ UNCHANGED <<current, seen>>, OnlyCertifiedInside',
           trap' \in {trap, "withdrawal"}, asked' \subseteq Uid
    PROVE  IInv'
<1>1. \A c \in calls : c.op = "delete" /\ c.button = "withdraw" /\ c.uid \in Uid
  BY Idle DEF IInv
<1>2. status' = status /\ email' = email /\ docs' = docs /\ names' = names
  BY DEF server
<1>3. current' \in {current, Nil} /\ (seen' => seen /\ current' = current) /\ seen' \in BOOLEAN
  <2>1. seen \in BOOLEAN
    BY DEF IInv, TypeOK
  <2>2. SignOut \/ (current' = current /\ seen' = seen)
    OBVIOUS
  <2>3. CASE SignOut
    BY <2>3 DEF SignOut
  <2>4. CASE current' = current /\ seen' = seen
    BY <2>1, <2>4
  <2> QED
    BY <2>2, <2>3, <2>4
<1>4. TypeOK'
  BY <1>2, <1>3 DEF IInv, TypeOK
<1>5. CallsOK'
  BY <1>1 DEF CallsOK, Suits, Alike, Registers, LogsIn
<1>6. SignedUp'
  BY <1>2, <1>3 DEF IInv, SignedUp, Live
<1>7. \A u \in Uid : Live(u)' <=> Live(u)
  BY <1>2 DEF Live
<1> QED
  BY <1>1, <1>2, <1>4, <1>5, <1>6, <1>7, QuietStep

LEMMA TapOnly == ASSUME TypeOK, Tap PROVE taps' \in 0..MaxTaps
  BY AccountAssumption DEF TypeOK, Tap

(* From the first screen's choice, nobody passes uncertified.              *)
LEMMA FirstScreenCertified ==
    ASSUME TypeOK, SignedUp
    PROVE  /\ FirstScreen(current, seen) \in {"login", "main"}
           /\ FirstScreen(current, seen) = "main" =>
                current # Nil /\ seen /\ status[current] = "verified"
  BY DEF FirstScreen, SignedUp

LEMMA OpenRegistrationInv ==
    ASSUME IInv, regime' = regime, OpenRegistration PROVE IInv'
<1>1. taps' \in 0..MaxTaps
  BY TapOnly DEF IInv, OpenRegistration
<1>2. /\ Waiting /\ calls' = calls /\ screen' = "register" /\ SignOut
      /\ UNCHANGED <<server, queue, owner, trap, asked>>
  BY DEF OpenRegistration
<1>3. OnlyCertifiedInside' /\ screen' \in Screen
  BY <1>2 DEF OnlyCertifiedInside, Screen
<1>4. asked' \subseteq Uid
  BY <1>2 DEF IInv, TypeOK
<1> QED
  BY <1>1, <1>2, <1>3, <1>4, IdleStep

LEMMA CloseRegistrationInv ==
    ASSUME IInv, regime' = regime, CloseRegistration PROVE IInv'
<1>1. taps' \in 0..MaxTaps
  BY TapOnly DEF IInv, CloseRegistration
<1>2. /\ Waiting /\ calls' = calls /\ screen' = "login"
      /\ UNCHANGED <<server, queue, current, seen, owner, trap, asked>>
  BY DEF CloseRegistration
<1>3. OnlyCertifiedInside' /\ screen' \in Screen
  BY <1>2 DEF OnlyCertifiedInside, Screen
<1>4. asked' \subseteq Uid
  BY <1>2 DEF IInv, TypeOK
<1> QED
  BY <1>1, <1>2, <1>3, <1>4, IdleStep

LEMMA LeaveCertificationInv ==
    ASSUME IInv, regime' = regime, LeaveCertification PROVE IInv'
<1>1. taps' \in 0..MaxTaps
  BY TapOnly DEF IInv, LeaveCertification
<1>2. /\ Waiting /\ calls' = calls /\ screen' \in {"register", "login"}
      /\ UNCHANGED <<server, queue, current, seen, owner, trap, asked>>
  BY DEF LeaveCertification
<1>3. OnlyCertifiedInside' /\ screen' \in Screen
  BY <1>2 DEF OnlyCertifiedInside, Screen
<1>4. asked' \subseteq Uid
  BY <1>2 DEF IInv, TypeOK
<1> QED
  BY <1>1, <1>2, <1>3, <1>4, IdleStep

LEMMA LeaveSettingsInv ==
    ASSUME IInv, regime' = regime, LeaveSettings PROVE IInv'
<1>1. taps' \in 0..MaxTaps
  BY TapOnly DEF IInv, LeaveSettings
<1>2. /\ Waiting /\ calls' = calls /\ screen' = FirstScreen(current, seen)
      /\ UNCHANGED <<server, queue, current, seen, owner, trap, asked>>
  BY DEF LeaveSettings
<1>3. OnlyCertifiedInside' /\ screen' \in Screen
  BY <1>2, FirstScreenCertified DEF IInv, OnlyCertifiedInside, Screen, server
<1>4. asked' \subseteq Uid
  BY <1>2 DEF IInv, TypeOK
<1> QED
  BY <1>1, <1>2, <1>3, <1>4, IdleStep

LEMMA LogOutInv ==
    ASSUME IInv, regime' = regime, LogOut PROVE IInv'
<1>1. taps' \in 0..MaxTaps
  BY TapOnly DEF IInv, LogOut
<1>2. /\ Waiting /\ calls' = calls /\ screen' = "login" /\ SignOut
      /\ UNCHANGED <<server, queue, owner, trap, asked>>
  BY DEF LogOut
<1>3. OnlyCertifiedInside' /\ screen' \in Screen
  BY <1>2 DEF OnlyCertifiedInside, Screen
<1>4. asked' \subseteq Uid
  BY <1>2 DEF IInv, TypeOK
<1> QED
  BY <1>1, <1>2, <1>3, <1>4, IdleStep
-----------------------------------------------------------------------------
(* A mail is sent, or its link followed.                                   *)
LEMMA CertifyStep ==
    ASSUME IInv, NEW u \in Uid, Live(u), NEW s \in {"mailed", "verified"},
           status' = [status EXCEPT ![u] = s], status[u] # "verified",
           taps' \in 0..MaxTaps,
           UNCHANGED <<email, docs, names, queue, current, seen, owner, screen, calls,
                       trap, asked, regime>>
    PROVE  IInv'
<1>1. \A v \in Uid : /\ Live(v)' <=> Live(v)
                     /\ status'[v] = "free" <=> status[v] = "free"
                     /\ status'[v] = "deleted" <=> status[v] = "deleted"
                     /\ status[v] = "verified" => status'[v] = "verified"
  BY DEF IInv, TypeOK, Live
<1>2. TypeOK'
  BY DEF IInv, TypeOK, Status
<1>3. CallsOK'
  BY DEF IInv, CallsOK, Suits, Registers, LogsIn, Alike
<1>4. SignedUp'
  BY <1>1 DEF IInv, TypeOK, SignedUp
<1>5. OneAccount'
  BY <1>1 DEF IInv, OneAccount
<1>6. OwnProfile'
  <2>1. \A w \in queue : w.uid \in Uid
    BY DEF IInv, TypeOK, Queued
  <2> QED
    BY <1>1, <2>1 DEF IInv, OwnProfile
<1>7. OwnSession'
  BY <1>1 DEF IInv, OwnSession, LogsIn
<1>8. OnlyCertifiedInside'
  BY <1>1 DEF IInv, TypeOK, OnlyCertifiedInside
<1>9. Profiles'
  BY <1>1 DEF IInv, Profiles, Peace, HasProfile, Creating
<1>10. Found'
  <2>1. NoneDeleted' <=> NoneDeleted
    BY <1>1 DEF NoneDeleted
  <2>2. \A v \in Uid : Document(v)' = Document(v)
    BY DEF Document
  <2>3. \A c \in calls : c.op \in {"document", "fetch"} => c.uid \in Uid
    BY DEF IInv, CallsOK, Suits
  <2>4. \A c \in calls : Wanted(c) => Wanted(c)'
    BY <1>1, <2>2, <2>3 DEF Wanted
  <2> QED
    BY <2>1, <2>4 DEF IInv, Found, Peace
<1> QED
  BY <1>2, <1>3, <1>4, <1>5, <1>6, <1>7, <1>8, <1>9, <1>10 DEF IInv

LEMMA SendMailInv ==
    ASSUME IInv, regime' = regime, SendMail PROVE IInv'
<1>1. taps' \in 0..MaxTaps
  BY TapOnly DEF IInv, SendMail
<1>2. current \in Uid /\ Live(current) /\ status[current] # "verified"
  BY DEF IInv, TypeOK, SendMail, Live
<1> QED
  BY <1>1, <1>2, CertifyStep DEF SendMail

LEMMA VerifyInv ==
    ASSUME IInv, UNCHANGED <<regime, taps>>, NEW u \in Uid, Verify(u) PROVE IInv'
<1>1. taps' \in 0..MaxTaps
  BY DEF IInv, TypeOK
<1>2. Live(u) /\ status[u] # "verified"
  BY DEF Live, Verify
<1> QED
  BY <1>1, <1>2, CertifyStep DEF Verify
-----------------------------------------------------------------------------
(* One more call, made by who waits for none or for its like.              *)
LEMMA NewCall ==
    ASSUME IInv, taps' \in 0..MaxTaps, NEW d \in Call, calls' = calls \cup {d},
           d.button # "withdraw",
           \A c \in calls : c.button = "withdraw" \/ (c.button = d.button /\ c.email = d.email),
           \A c \in calls' : Suits(c)',
           d.op \in {"query", "signIn", "reload", "fetch"},
           d.op = "signIn" => screen' # "main",
           d.op = "fetch" /\ Peace /\ NoneDeleted => Document(d.uid) # Nil,
           screen' \in Screen, screen' = "main" => screen = "main", OnlyCertifiedInside',
           UNCHANGED <<server, queue, current, seen, owner, trap, asked, regime>>
    PROVE  IInv'
<1>1. status' = status /\ email' = email /\ docs' = docs /\ names' = names
  BY DEF server
<1>2. TypeOK'
  BY <1>1 DEF IInv, TypeOK
<1>3. CallsOK'
  BY DEF IInv, CallsOK, Alike
<1>4. SignedUp' /\ OneAccount' /\ OwnProfile'
  BY <1>1 DEF IInv, SignedUp, OneAccount, OwnProfile, Live
<1>5. OwnSession'
  <2> SUFFICES ASSUME NEW c \in calls'
               PROVE  /\ c.op \in {"created", "signedIn"} /\ current # Nil => email[current] = c.email
                      /\ LogsIn(c) /\ screen' = "main" =>
                          \A u \in Uid : Live(u) /\ email[u] = c.email => status[u] = "verified"
    BY <1>1 DEF OwnSession, LogsIn, Live
  <2>1. CASE c \in calls
    BY <2>1 DEF IInv, OwnSession
  <2>2. CASE c = d
    BY <2>2 DEF LogsIn
  <2> QED
    BY <2>1, <2>2
<1>6. Profiles'
  BY <1>1 DEF IInv, Profiles, Peace, HasProfile, Creating, Live
<1>7. Found'
  <2>1. NoneDeleted' <=> NoneDeleted
    BY <1>1 DEF NoneDeleted
  <2>2. \A c \in calls : Wanted(c) => Wanted(c)'
    BY <1>1 DEF Wanted, Document, Live
  <2>3. Peace /\ NoneDeleted => Wanted(d)'
    BY <1>1 DEF Wanted, Document
  <2> QED
    BY <2>1, <2>2, <2>3 DEF IInv, Found, Peace
<1> QED
  BY <1>2, <1>3, <1>4, <1>5, <1>6, <1>7 DEF IInv

LEMMA TapRegisterInv ==
    ASSUME IInv, regime' = regime, NEW e \in Address, TapRegister(e) PROVE IInv'
<1>1. /\ screen = "register" /\ TapFor("register", "query", e, Nil)
      /\ UNCHANGED <<server, queue, current, seen, owner, screen, trap, asked>>
  BY DEF TapRegister
<1>2. /\ taps' \in 0..MaxTaps
      /\ \A c \in calls : c.button = "withdraw" \/ (c.button = "register" /\ c.email = e)
      /\ \E d \in Call : /\ calls' = calls \cup {d}
                         /\ d.button = "register" /\ d.op = "query"
                         /\ d.email = e /\ d.uid = Nil
  BY <1>1, TapAt DEF IInv
<1>3. PICK d \in Call : /\ calls' = calls \cup {d}
                        /\ d.button = "register" /\ d.op = "query"
                        /\ d.email = e /\ d.uid = Nil
  BY <1>2
<1>4. \A c \in calls' : Suits(c)'
  BY <1>1, <1>3 DEF IInv, CallsOK, Suits, Registers, LogsIn
<1>5. OnlyCertifiedInside' /\ screen' \in Screen
  BY <1>1 DEF OnlyCertifiedInside, Screen
<1> QED
  BY <1>1, <1>2, <1>3, <1>4, <1>5, NewCall

LEMMA TapLoginInv ==
    ASSUME IInv, regime' = regime, NEW e \in Address, TapLogin(e) PROVE IInv'
<1>1. /\ screen = "login" /\ TapFor("login", "signIn", e, Nil)
      /\ UNCHANGED <<server, queue, current, seen, owner, screen, trap, asked>>
  BY DEF TapLogin
<1>2. /\ taps' \in 0..MaxTaps
      /\ \A c \in calls : c.button = "withdraw" \/ (c.button = "login" /\ c.email = e)
      /\ \E d \in Call : /\ calls' = calls \cup {d}
                         /\ d.button = "login" /\ d.op = "signIn"
                         /\ d.email = e /\ d.uid = Nil
  BY <1>1, TapAt DEF IInv
<1>3. PICK d \in Call : /\ calls' = calls \cup {d}
                        /\ d.button = "login" /\ d.op = "signIn"
                        /\ d.email = e /\ d.uid = Nil
  BY <1>2
<1>4. \A c \in calls' : Suits(c)'
  BY <1>1, <1>3 DEF IInv, CallsOK, Suits, Registers, LogsIn
<1>5. OnlyCertifiedInside' /\ screen' \in Screen
  BY <1>1 DEF OnlyCertifiedInside, Screen
<1> QED
  BY <1>1, <1>2, <1>3, <1>4, <1>5, NewCall

LEMMA TapCheckInv ==
    ASSUME IInv, regime' = regime, TapCheck PROVE IInv'
<1>1. /\ Certifying /\ current \in Uid /\ TapFor("check", "reload", Nil, current)
      /\ UNCHANGED <<server, queue, current, seen, owner, screen, trap, asked>>
  BY DEF TapCheck, IInv, TypeOK
<1>2. /\ taps' \in 0..MaxTaps
      /\ \A c \in calls : c.button = "withdraw" \/ (c.button = "check" /\ c.email = Nil)
      /\ \E d \in Call : /\ calls' = calls \cup {d}
                         /\ d.button = "check" /\ d.op = "reload"
                         /\ d.email = Nil /\ d.uid = current
  BY <1>1, TapAt DEF IInv
<1>3. PICK d \in Call : /\ calls' = calls \cup {d}
                        /\ d.button = "check" /\ d.op = "reload"
                        /\ d.email = Nil /\ d.uid = current
  BY <1>2
<1>4. \A c \in calls' : Suits(c)'
  BY <1>1, <1>3 DEF IInv, CallsOK, Suits, Registers, LogsIn, Certifying
<1>5. OnlyCertifiedInside' /\ screen' \in Screen
  BY <1>1 DEF OnlyCertifiedInside, Screen, Certifying
<1> QED
  BY <1>1, <1>2, <1>3, <1>4, <1>5, NewCall

LEMMA OpenSettingsInv ==
    ASSUME IInv, regime' = regime, OpenSettings PROVE IInv'
<1>1. /\ screen = "main" /\ Waiting /\ screen' = "settings"
      /\ UNCHANGED <<server, queue, current, seen, owner, trap, asked>>
  BY DEF OpenSettings
<1>2. OnlyCertifiedInside' /\ screen' \in Screen
  BY <1>1 DEF IInv, OnlyCertifiedInside, Screen, server
<1>3. CASE current = Nil
  <2>1. taps' \in 0..MaxTaps /\ calls' = calls
    BY <1>3, TapOnly DEF IInv, OpenSettings
  <2>2. asked' \subseteq Uid
    BY <1>1 DEF IInv, TypeOK
  <2> QED
    BY <1>1, <1>2, <2>1, <2>2, IdleStep
<1>4. CASE current # Nil
  <2>1. current \in Uid /\ TapFor("settings", "fetch", Nil, current)
    BY <1>4 DEF OpenSettings, IInv, TypeOK
  <2>2. /\ taps' \in 0..MaxTaps
        /\ \E d \in Call : /\ calls' = calls \cup {d}
                           /\ d.button = "settings" /\ d.op = "fetch"
                           /\ d.email = Nil /\ d.uid = current
    BY <2>1, TapAt DEF IInv
  <2>3. PICK d \in Call : /\ calls' = calls \cup {d}
                          /\ d.button = "settings" /\ d.op = "fetch"
                          /\ d.email = Nil /\ d.uid = current
    BY <2>2
  <2>4. \A c \in calls : c.op = "delete" /\ c.button = "withdraw" /\ c.uid \in Uid
    BY <1>1, Idle DEF IInv
  <2>5. \A c \in calls' : Suits(c)'
    BY <1>1, <2>1, <2>3, <2>4 DEF Suits, Registers, LogsIn
  <2>6. Peace => Document(current) # Nil
    <3>1. Live(current)
      BY <1>4 DEF IInv, SignedUp
    <3>2. Peace => HasProfile(current)
      BY <2>1, <2>4, <3>1 DEF IInv, Profiles, Creating
    <3> QED
      BY <2>1, <3>1, <3>2, ProfileThere DEF IInv
  <2> QED
    BY <1>1, <1>2, <2>2, <2>3, <2>4, <2>5, <2>6, NewCall
<1> QED
  BY <1>3, <1>4

LEMMA WithdrawInv ==
    ASSUME IInv, trap = "none", regime' = regime, Withdraw PROVE IInv'
<1>1. screen = "settings" /\ Waiting
  BY DEF Withdraw
<1>2. CASE owner = Nil
  <2>1. /\ taps' \in 0..MaxTaps /\ trap' = "withdrawal"
        /\ UNCHANGED <<server, queue, current, seen, owner, screen, calls, asked>>
    BY <1>2, TapOnly DEF IInv, Withdraw, Trap
  <2>2. OnlyCertifiedInside' /\ screen' \in Screen /\ asked' \subseteq Uid
    BY <2>1 DEF IInv, TypeOK, OnlyCertifiedInside, server
  <2> QED
    BY <1>1, <2>1, <2>2, IdleStep
<1>3. CASE owner # Nil
  <2>1. /\ calls = {} /\ TapFor("withdraw", "delete", Nil, owner) /\ owner \in Uid
        /\ asked' = asked \cup ({current} \ {Nil})
        /\ current' = Nil /\ seen' = FALSE /\ screen' = "login"
        /\ UNCHANGED <<server, queue, owner, trap>>
    BY <1>3 DEF Withdraw, SignOut, IInv, TypeOK
  <2>2. /\ taps' \in 0..MaxTaps
        /\ \E d \in Call : /\ calls' = calls \cup {d}
                           /\ d.button = "withdraw" /\ d.op = "delete"
                           /\ d.email = Nil /\ d.uid = owner
    BY <2>1, TapAt DEF IInv
  <2>3. \A c \in calls' : c \in Call /\ c.button = "withdraw" /\ c.op = "delete" /\ c.uid \in Uid
    BY <2>1, <2>2
  <2>4. status' = status /\ email' = email /\ docs' = docs /\ names' = names
    BY <2>1 DEF server
  <2>5. TypeOK'
    BY <2>1, <2>2, <2>3, <2>4 DEF IInv, TypeOK, Screen
  <2>6. CallsOK'
    BY <2>3 DEF CallsOK, Suits, Registers, LogsIn, Alike
  <2>7. SignedUp' /\ OnlyCertifiedInside'
    BY <2>1 DEF SignedUp, OnlyCertifiedInside
  <2>8. \A u \in Uid : Live(u)' <=> Live(u)
    BY <2>4 DEF Live
  <2> QED
    BY <2>1, <2>3, <2>4, <2>5, <2>6, <2>7, <2>8, QuietStep
<1> QED
  BY <1>2, <1>3

LEMMA LaunchInv ==
    ASSUME IInv, trap = "none", regime' = regime, Launch PROVE IInv'
<1>1. /\ calls' = {} /\ queue' = {w \in queue : w.kind = "document"}
      /\ owner' = current /\ screen' = FirstScreen(current, seen)
      /\ UNCHANGED <<current, seen, trap, asked>>
      /\ status' = status /\ email' = email /\ docs' = docs /\ names' = names
  BY DEF Launch, server
<1>2. taps' \in 0..MaxTaps
  BY TapOnly DEF IInv, Launch
<1>3. TypeOK'
  <2>1. screen' \in Screen
    BY <1>1, FirstScreenCertified DEF IInv, Screen
  <2> QED
    BY <1>1, <1>2, <2>1 DEF IInv, TypeOK
<1>4. CallsOK' /\ OwnSession'
  BY <1>1 DEF CallsOK, OwnSession
<1>5. SignedUp' /\ OneAccount'
  BY <1>1 DEF IInv, SignedUp, OneAccount, Live
<1>6. OwnProfile'
  BY <1>1 DEF IInv, OwnProfile
<1>7. OnlyCertifiedInside'
  BY <1>1, FirstScreenCertified DEF IInv, OnlyCertifiedInside
<1>8. Profiles'
  <2> SUFFICES ASSUME Peace PROVE \A u \in Uid : Live(u) => HasProfile(u)'
    BY <1>1 DEF Profiles, Peace, Live
  <2>1. calls = {} /\ \A w \in queue : w.kind # "name"
    BY DEF Launch, Peace
  <2>2. queue' = queue
    <3>1. \A w \in queue : w.kind = "document"
      BY <2>1 DEF IInv, TypeOK, Queued
    <3> QED
      BY <1>1, <3>1
  <2>3. \A u \in Uid : Live(u) => HasProfile(u)
    BY <2>1 DEF IInv, Profiles, Creating
  <2> QED
    BY <1>1, <2>2, <2>3 DEF HasProfile
<1>9. Found'
  BY <1>1 DEF Found
<1> QED
  BY <1>3, <1>4, <1>5, <1>6, <1>7, <1>8, <1>9 DEF IInv
-----------------------------------------------------------------------------
(* A call's answer, or its failure, after which nothing is left to do.     *)
LEMMA DoneStep ==
    ASSUME IInv, NEW c \in calls, Done(c), c.op # "created",
           UNCHANGED <<server, queue, current, seen, owner, screen, trap, asked, taps, regime>>
    PROVE  IInv'
<1>1. status' = status /\ email' = email /\ docs' = docs /\ names' = names
  BY DEF server
<1>2. calls' = calls \ {c}
  BY DEF Done
<1>3. TypeOK'
  BY <1>1, <1>2 DEF IInv, TypeOK
<1>4. CallsOK'
  BY <1>2 DEF IInv, CallsOK, Suits, Registers, LogsIn, Alike
<1>5. SignedUp' /\ OneAccount' /\ OwnProfile' /\ OnlyCertifiedInside'
  BY <1>1 DEF IInv, SignedUp, OneAccount, OwnProfile, OnlyCertifiedInside, Live
<1>6. OwnSession'
  BY <1>1, <1>2 DEF IInv, OwnSession, LogsIn, Live
<1>7. Profiles'
  BY <1>1, <1>2 DEF IInv, Profiles, Peace, HasProfile, Creating, Live
<1>8. Found'
  BY <1>1, <1>2 DEF IInv, Found, Peace, NoneDeleted, Wanted, Document, Live
<1> QED
  BY <1>3, <1>4, <1>5, <1>6, <1>7, <1>8 DEF IInv

(* An answer that was not expected.                                        *)
LEMMA TrapStep ==
    ASSUME IInv, NEW r \in {"snapshot", "currentUser", "document", "profile"},
           Trap(r), UNCHANGED <<taps, regime>>, ~(Peace /\ NoneDeleted)
    PROVE  IInv'
<1>1. /\ status' = status /\ email' = email /\ docs' = docs /\ names' = names
      /\ trap' = r
      /\ UNCHANGED <<queue, current, seen, owner, screen, calls, asked>>
  BY DEF server, Trap
<1>2. TypeOK'
  BY <1>1 DEF IInv, TypeOK
<1>3. CallsOK'
  BY <1>1 DEF IInv, CallsOK, Suits, Registers, LogsIn, Alike
<1>4. SignedUp' /\ OneAccount' /\ OwnProfile' /\ OnlyCertifiedInside'
  BY <1>1 DEF IInv, SignedUp, OneAccount, OwnProfile, OnlyCertifiedInside, Live
<1>5. OwnSession'
  BY <1>1 DEF IInv, OwnSession, LogsIn, Live
<1>6. Profiles'
  BY <1>1 DEF IInv, Profiles, Peace, HasProfile, Creating, Live
<1>7. Found'
  BY <1>1 DEF Found, Peace, NoneDeleted
<1> QED
  BY <1>2, <1>3, <1>4, <1>5, <1>6, <1>7 DEF IInv

LEMMA FailsInv ==
    ASSUME IInv, UNCHANGED <<taps, regime>>, NEW c \in calls, Fails(c) PROVE IInv'
<1>1. "offline" \in regime /\ c.op # "created"
  BY DEF Fails
<1>2. ~Peace
  BY <1>1 DEF Peace
<1>3. CASE c.op = "query"
  BY <1>2, <1>3, TrapStep DEF Fails
<1>4. CASE c.op # "query"
  BY <1>1, <1>4, DoneStep DEF Fails
<1> QED
  BY <1>3, <1>4

LEMMA AnswerFetchInv ==
    ASSUME IInv, UNCHANGED <<taps, regime>>, NEW c \in calls, AnswerFetch(c) PROVE IInv'
<1>1. CASE Document(c.uid) = Nil
  <2>1. ~(Peace /\ NoneDeleted)
    BY <1>1 DEF AnswerFetch, IInv, Found, Wanted
  <2> QED
    BY <1>1, <2>1, TrapStep DEF AnswerFetch
<1>2. CASE Document(c.uid) # Nil
  BY <1>2, DoneStep DEF AnswerFetch
<1> QED
  BY <1>1, <1>2

(* The registration under way goes on, on its screen.                      *)
LEMMA Registering ==
    ASSUME IInv, NEW c \in calls, c.button = "register"
    PROVE  /\ c.email \in Address /\ c \in Call
           /\ screen \in {"register", "certifyNew"}
           /\ \A d \in calls : \/ d.op = "delete" /\ d.button = "withdraw"
                               \/ Registers(d) /\ d.button = "register" /\ d.email = c.email
<1>1. c \in Call /\ Suits(c) /\ Registers(c)
  BY Kinds DEF IInv, TypeOK, CallsOK
<1>2. c.email \in Address /\ screen \in {"register", "certifyNew"}
  BY <1>1 DEF Suits
<1>3. ASSUME NEW d \in calls
      PROVE  \/ d.op = "delete" /\ d.button = "withdraw"
             \/ Registers(d) /\ d.button = "register" /\ d.email = c.email
  <2>1. CASE d.button = "withdraw"
    BY <2>1, Kinds DEF IInv
  <2>2. CASE d.button # "withdraw"
    <3>1. d.button = "register" /\ d.email = c.email
      BY <2>2 DEF IInv, CallsOK, Alike
    <3> QED
      BY <3>1, Kinds DEF IInv
  <2> QED
    BY <2>1, <2>2
<1> QED
  BY <1>1, <1>2, <1>3

LEMMA AnswerDocumentInv ==
    ASSUME IInv, UNCHANGED <<taps, regime>>, NEW c \in calls, AnswerDocument(c) PROVE IInv'
<1>1. CASE Document(c.uid) = Nil
  <2>1. ~(Peace /\ NoneDeleted)
    BY <1>1 DEF AnswerDocument, IInv, Found, Wanted
  <2> QED
    BY <1>1, <2>1, TrapStep DEF AnswerDocument
<1>2. CASE Document(c.uid) # Nil
  <2>1. c.op = "document" /\ calls' = calls \ {c}
        /\ screen' \in {screen, "certifyNew"}
        /\ UNCHANGED <<server, queue, current, seen, owner, trap, asked>>
    BY <1>2 DEF AnswerDocument, Done
  <2>2. c.button = "register"
    BY <2>1 DEF IInv, CallsOK, Suits, Registers
  <2>3. /\ screen \in {"register", "certifyNew"}
        /\ \A d \in calls : \/ d.op = "delete" /\ d.button = "withdraw"
                            \/ Registers(d) /\ d.button = "register" /\ d.email = c.email
    BY <2>2, Registering
  <2>4. screen' \in {"register", "certifyNew"}
    BY <2>1, <2>3
  <2>5. status' = status /\ email' = email /\ docs' = docs /\ names' = names
    BY <2>1 DEF server
  <2>6. TypeOK'
    BY <2>1, <2>4, <2>5 DEF IInv, TypeOK, Screen
  <2>7. CallsOK'
    BY <2>1, <2>3, <2>4 DEF IInv, CallsOK, Suits, Registers, LogsIn, Alike
  <2>8. SignedUp' /\ OneAccount' /\ OwnProfile' /\ OnlyCertifiedInside'
    BY <2>1, <2>4, <2>5 DEF IInv, SignedUp, OneAccount, OwnProfile, OnlyCertifiedInside, Live
  <2>9. OwnSession'
    BY <2>1, <2>4, <2>5 DEF IInv, OwnSession, LogsIn, Live
  <2>10. Profiles'
    BY <2>1, <2>5 DEF IInv, Profiles, Peace, HasProfile, Creating, Live
  <2>11. Found'
    BY <2>1, <2>5 DEF IInv, Found, Peace, NoneDeleted, Wanted, Document, Live
  <2> QED
    BY <2>6, <2>7, <2>8, <2>9, <2>10, <2>11 DEF IInv
<1> QED
  BY <1>1, <1>2

(* One call becomes another of the same registration.                      *)
LEMMA NextCall ==
    ASSUME IInv, NEW c \in calls, c.button = "register",
           NEW d \in Call, calls' = (calls \ {c}) \cup {d},
           d.button = c.button, d.email = c.email, screen' = screen,
           Registers(d), d.op \notin {"query", "create"} => d.uid \in Uid
    PROVE  CallsOK' /\ calls' \subseteq Call
<1>1. /\ c.email \in Address /\ screen \in {"register", "certifyNew"}
      /\ \A b \in calls : \/ b.op = "delete" /\ b.button = "withdraw"
                          \/ Registers(b) /\ b.button = "register" /\ b.email = c.email
  BY Registering
<1>2. \A b \in calls' : Suits(b)'
  BY <1>1 DEF IInv, CallsOK, Suits, Registers, LogsIn
<1>3. \A b, e \in calls' : Alike(b, e)'
  BY <1>1 DEF Alike
<1> QED
  BY <1>2, <1>3 DEF IInv, TypeOK, CallsOK

LEMMA AnswerQueryInv ==
    ASSUME IInv, UNCHANGED <<taps, regime>>, NEW c \in calls, AnswerQuery(c) PROVE IInv'
<1> DEFINE stored == \E u \in Uid : Document(u) = c.email
<1>1. /\ c.op = "query"
      /\ UNCHANGED <<server, queue, current, seen, owner, screen, trap, asked>>
  BY DEF AnswerQuery
<1>2. c.button = "register" /\ c.email \in Address /\ c.email # Nil
  BY <1>1, AccountAssumption DEF IInv, CallsOK, Suits, Registers
<1>3. CASE stored /\ current = Nil
  BY <1>1, <1>3, DoneStep DEF AnswerQuery
<1>4. CASE ~(stored /\ current = Nil)
  <2>1. \/ stored /\ current \in Uid /\ Then(c, "document", current)
        \/ Then(c, "create", Nil)
    BY <1>4 DEF AnswerQuery, IInv, TypeOK
  <2>2. \E d \in Call : /\ calls' = (calls \ {c}) \cup {d}
                        /\ \/ d.op = "document" /\ stored /\ current \in Uid /\ d.uid = current
                           \/ d.op = "create"
                        /\ d.email = c.email /\ d.button = c.button
    <3>1. CASE stored /\ current \in Uid /\ Then(c, "document", current)
      BY <3>1, ThenAt DEF IInv, TypeOK
    <3>2. CASE Then(c, "create", Nil)
      BY <3>2, ThenAt DEF IInv, TypeOK
    <3> QED
      BY <2>1, <3>1, <3>2
  <2>3. PICK d \in Call : /\ calls' = (calls \ {c}) \cup {d}
                          /\ \/ d.op = "document" /\ stored /\ current \in Uid /\ d.uid = current
                             \/ d.op = "create"
                          /\ d.email = c.email /\ d.button = c.button
    BY <2>2
  <2>4. CallsOK' /\ calls' \subseteq Call
    BY <1>1, <1>2, <2>3, NextCall DEF Registers
  <2>5. status' = status /\ email' = email /\ docs' = docs /\ names' = names
    BY <1>1 DEF server
  <2>6. TypeOK'
    BY <1>1, <2>4, <2>5 DEF IInv, TypeOK
  <2>7. SignedUp' /\ OneAccount' /\ OwnProfile' /\ OnlyCertifiedInside'
    BY <1>1, <2>5 DEF IInv, SignedUp, OneAccount, OwnProfile, OnlyCertifiedInside, Live
  <2>8. OwnSession'
    BY <1>1, <2>3, <2>5 DEF IInv, OwnSession, LogsIn, Live
  <2>9. Profiles'
    BY <1>1, <2>3, <2>5 DEF IInv, Profiles, Peace, HasProfile, Creating, Live
  <2>10. Found'
    <3> SUFFICES ASSUME Peace, NoneDeleted PROVE Found'
      BY <1>1, <2>5 DEF Found, Peace, NoneDeleted
    <3>1. \A b \in calls : Wanted(b)' = Wanted(b)
      BY <1>1, <2>5 DEF Wanted, Document, Live
    <3>2. ASSUME d.op = "document"
          PROVE  Wanted(d)
      <4>1. PICK u \in Uid : Document(u) = c.email
        BY <2>3, <3>2
      <4>2. email[u] = c.email /\ Live(u)
        <5>1. email[u] = c.email /\ status[u] # "free"
          BY <1>2, <4>1, DocumentOwn DEF IInv
        <5>2. status[u] \in Status /\ status[u] # "deleted"
          BY DEF IInv, TypeOK, NoneDeleted
        <5> QED
          BY <5>1, <5>2 DEF Live, Status
      <4>3. current \in Uid /\ d.uid = current /\ Live(current)
        BY <2>3, <3>2, AccountAssumption DEF IInv, SignedUp
      <4>4. Document(current) # Nil
        <5>1. CASE Creating(current)
          <6>1. PICK b \in calls : b.op = "created"
            BY <5>1 DEF Creating
          <6>2. b.email = c.email
            BY <1>2, <6>1, Registering
          <6>3. email[current] = b.email
            BY <4>3, <6>1, AccountAssumption DEF IInv, OwnSession
          <6>4. u = current
            BY <4>2, <4>3, <6>2, <6>3 DEF IInv, OneAccount
          <6> QED
            BY <1>2, <4>1, <6>4
        <5>2. CASE HasProfile(current)
          BY <4>3, <5>2, ProfileThere DEF IInv
        <5> QED
          BY <4>3, <5>1, <5>2 DEF IInv, Profiles
      <4> QED
        BY <2>3, <3>2, <4>2, <4>3, <4>4 DEF Wanted
    <3>3. Wanted(d)' = Wanted(d)
      BY <1>1, <2>5 DEF Wanted, Document, Live
    <3>4. d.op = "create" => Wanted(d)
      BY DEF Wanted
    <3> QED
      BY <1>1, <2>3, <3>1, <3>2, <3>3, <3>4 DEF IInv, Found
  <2> QED
    BY <2>4, <2>6, <2>7, <2>8, <2>9, <2>10 DEF IInv
<1> QED
  BY <1>3, <1>4

LEMMA AnswerCreateInv ==
    ASSUME IInv, UNCHANGED <<taps, regime>>, NEW c \in calls, AnswerCreate(c) PROVE IInv'
<1>1. /\ c.op = "create"
      /\ UNCHANGED <<docs, names, queue, owner, screen, trap, asked>>
  BY DEF AnswerCreate
<1>2. c.button = "register"
  BY <1>1 DEF IInv, CallsOK, Suits, Registers
<1>3. /\ c.email \in Address /\ screen \in {"register", "certifyNew"}
      /\ \A d \in calls : \/ d.op = "delete" /\ d.button = "withdraw"
                          \/ Registers(d) /\ d.button = "register" /\ d.email = c.email
  BY <1>2, Registering
<1>4. CASE Done(c) /\ UNCHANGED <<status, email, current, seen>>
  BY <1>1, <1>4, DoneStep DEF server
<1>5. ASSUME NEW u \in Uid, ~ \E v \in Uid : Live(v) /\ email[v] = c.email,
             status[u] = "free", status' = [status EXCEPT ![u] = "new"],
             email' = [email EXCEPT ![u] = c.email], current' = u, seen' = FALSE,
             Then(c, "created", u)
      PROVE  IInv'
  <2>1. PICK d \in Call : /\ calls' = (calls \ {c}) \cup {d}
                          /\ d.op = "created" /\ d.uid = u
                          /\ d.email = c.email /\ d.button = c.button
    BY <1>5, ThenAt DEF IInv, TypeOK
  <2>2. CallsOK' /\ calls' \subseteq Call
    BY <1>1, <1>2, <2>1, NextCall DEF Registers
  <2>3. /\ \A v \in Uid \ {u} : status'[v] = status[v] /\ email'[v] = email[v]
        /\ status'[u] = "new" /\ email'[u] = c.email
    BY <1>5 DEF IInv, TypeOK
  <2>4. TypeOK'
    BY <1>1, <1>3, <1>5, <2>2, AccountAssumption DEF IInv, TypeOK, Status
  <2>5. SignedUp'
    BY <1>5, <2>3 DEF SignedUp, Live
  <2>6. OneAccount'
    BY <1>5, <2>3 DEF IInv, OneAccount, Live
  <2>7. OwnProfile'
    <3>1. docs[u] = Nil /\ \A w \in queue : w.uid \in Uid \ {u}
      BY <1>5 DEF IInv, TypeOK, Queued, OwnProfile
    <3>2. \A v \in Uid : /\ docs[v] \in {Nil, email'[v]}
                         /\ status'[v] = "free" => docs[v] = Nil
                         /\ status'[v] # "free" => email'[v] \in Address
      BY <1>3, <2>3, <3>1 DEF IInv, OwnProfile
    <3>3. \A w \in queue : w.email = email'[w.uid] /\ status'[w.uid] # "free"
      BY <2>3, <3>1 DEF IInv, OwnProfile
    <3> QED
      BY <1>1, <3>2, <3>3 DEF OwnProfile
  <2>8. OwnSession'
    <3>1. \A b \in calls' : b.op = "delete" \/ (Registers(b) /\ b.email = c.email)
      BY <1>3, <2>1 DEF Registers
    <3> QED
      BY <1>5, <2>3, <3>1 DEF OwnSession, Registers, LogsIn
  <2>9. OnlyCertifiedInside'
    BY <1>1, <1>3 DEF OnlyCertifiedInside
  <2>10. Profiles'
    <3> SUFFICES ASSUME Peace, NEW v \in Uid, Live(v)' PROVE Creating(v)' \/ HasProfile(v)'
      BY DEF Profiles, Peace
    <3>1. CASE v = u
      BY <1>5, <2>1, <3>1 DEF Creating
    <3>2. CASE v # u
      <4>1. Live(v)
        BY <2>3, <3>2 DEF Live
      <4>2. ~Creating(v)
        <5> SUFFICES ASSUME current = v, NEW b \in calls, b.op = "created" PROVE FALSE
          BY DEF Creating
        <5>1. email[current] = b.email /\ b.email = c.email
          BY <1>3, AccountAssumption DEF IInv, OwnSession
        <5> QED
          BY <1>5, <4>1, <5>1
      <4>3. HasProfile(v)
        BY <4>1, <4>2 DEF IInv, Profiles
      <4> QED
        BY <1>1, <2>3, <3>2, <4>3 DEF HasProfile
    <3> QED
      BY <3>1, <3>2
  <2>11. Found'
    <3> SUFFICES ASSUME Peace, NoneDeleted PROVE Found'
      BY <2>3, <1>5 DEF Found, Peace, NoneDeleted
    <3>1. \A b \in calls : Wanted(b)
      BY DEF IInv, Found
    <3>2. \A b \in calls : b.op \notin {"document", "fetch"}
      BY <1>3, <1>5, <3>1 DEF Wanted, Registers
    <3>3. \A b \in calls' : Wanted(b)'
      BY <1>5, <2>1, <3>2, AccountAssumption DEF Wanted
    <3> QED
      BY <1>1, <3>3 DEF IInv, Found
  <2> QED
    BY <2>2, <2>4, <2>5, <2>6, <2>7, <2>8, <2>9, <2>10, <2>11 DEF IInv
<1> QED
  BY <1>4, <1>5 DEF AnswerCreate
-----------------------------------------------------------------------------
(* A document that could be read can be as long as it is there, in one     *)
(* place or the other.                                                     *)
LEMMA DocumentStays ==
    ASSUME TypeOK, TypeOK', NEW u \in Uid, Document(u) # Nil, current' = current,
           docs[u] # Nil => docs'[u] # Nil,
           (\E w \in queue : w.kind = "document" /\ w.uid = u)
             => \/ docs'[u] # Nil
                \/ \E w \in queue' : w.kind = "document" /\ w.uid = u
    PROVE  Document(u)' # Nil
<1>1. CASE docs'[u] # Nil
  BY <1>1 DEF Document
<1>2. CASE docs'[u] = Nil
  <2>1. docs[u] = Nil
    BY <1>2
  <2>2. current' = u /\ \E w \in queue' : w.kind = "document" /\ w.uid = u
    BY <1>2, <2>1 DEF Document
  <2> DEFINE w == CHOOSE w \in queue' : w.kind = "document" /\ w.uid = u
  <2>3. w \in queue'
    BY <2>2
  <2>4. Document(u)' = w.email
    BY <1>2, <2>2 DEF Document
  <2> HIDE DEF w
  <2>5. w.email \in Address
    BY <2>3 DEF TypeOK, Queued
  <2> QED
    BY <2>4, <2>5, AccountAssumption
<1> QED
  BY <1>1, <1>2

(* Writes: queued by the completion, brought to the servers one by one.    *)
LEMMA CreatedInv ==
    ASSUME IInv, UNCHANGED <<taps, regime>>, NEW c \in calls, Created(c) PROVE IInv'
<1>1. c.op = "created"
  BY DEF Created
<1>2. c.button = "register"
  BY <1>1 DEF IInv, CallsOK, Suits, Registers
<1>3. /\ c.email \in Address /\ screen \in {"register", "certifyNew"}
      /\ \A d \in calls : \/ d.op = "delete" /\ d.button = "withdraw"
                          \/ Registers(d) /\ d.button = "register" /\ d.email = c.email
  BY <1>2, Registering
<1>4. CASE current = Nil
  <2>1. ~(Peace /\ NoneDeleted)
    BY <1>1, <1>4 DEF IInv, Found, Wanted
  <2> QED
    BY <1>4, <2>1, TrapStep DEF Created
<1>5. CASE current # Nil
  <2> DEFINE document == [kind |-> "document", uid |-> current, email |-> c.email]
             name     == [kind |-> "name", uid |-> current, email |-> c.email]
  <2>1. /\ queue' = queue \cup {document, name}
        /\ calls' = calls \ {c} /\ screen' \in {screen, "certifyNew"}
        /\ UNCHANGED <<current, seen, owner, trap, asked>>
        /\ status' = status /\ email' = email /\ docs' = docs /\ names' = names
    BY <1>5 DEF Created, Done, server
  <2>2. current \in Uid /\ Live(current) /\ email[current] = c.email
    BY <1>1, <1>5 DEF IInv, TypeOK, SignedUp, OwnSession
  <2>3. document \in Queued /\ name \in Queued
    BY <1>3, <2>2 DEF Queued
  <2>4. /\ document.uid = current /\ document.email = c.email
        /\ name.uid = current /\ name.email = c.email
    OBVIOUS
  <2>5. /\ document = [kind |-> "document", uid |-> current, email |-> email[current]]
        /\ name = [kind |-> "name", uid |-> current, email |-> email[current]]
    BY <2>2
  <2> HIDE DEF document, name
  <2>6. screen' \in {"register", "certifyNew"}
    BY <1>3, <2>1
  <2>7. TypeOK'
    BY <2>1, <2>3, <2>6 DEF IInv, TypeOK, Screen
  <2>8. CallsOK'
    BY <1>3, <2>1, <2>6 DEF IInv, CallsOK, Suits, Registers, LogsIn, Alike
  <2>9. SignedUp' /\ OneAccount' /\ OnlyCertifiedInside'
    BY <2>1, <2>6 DEF IInv, SignedUp, OneAccount, OnlyCertifiedInside, Live
  <2>10. OwnProfile'
    <3>1. status[current] # "free"
      BY <2>2 DEF Live
    <3>2. \A w \in queue' : w.email = email[w.uid] /\ status[w.uid] # "free"
      BY <2>1, <2>2, <2>4, <3>1 DEF IInv, OwnProfile
    <3> QED
      BY <2>1, <3>2 DEF IInv, OwnProfile
  <2>11. OwnSession'
    BY <2>1, <2>6 DEF IInv, OwnSession, LogsIn, Live
  <2>12. Profiles'
    <3> SUFFICES ASSUME Peace, NEW u \in Uid, Live(u) PROVE HasProfile(u)'
      BY <2>1 DEF Profiles, Peace, Live
    <3>1. CASE u = current
      BY <2>1, <2>5, <3>1 DEF HasProfile
    <3>2. CASE u # current
      <4>1. HasProfile(u)
        BY <3>2 DEF IInv, Profiles, Creating
      <4> QED
        BY <2>1, <4>1 DEF HasProfile
    <3> QED
      BY <3>1, <3>2
  <2>13. Found'
    <3> SUFFICES ASSUME Peace, NoneDeleted PROVE Found'
      BY <2>1 DEF Found, Peace, NoneDeleted
    <3>1. ASSUME NEW b \in calls, b # c
          PROVE  Wanted(b)'
      <4>1. Wanted(b) /\ b \in Call
        BY DEF IInv, Found, TypeOK
      <4>2. b.op = "document" => Document(b.uid)' # Nil
        <5> SUFFICES ASSUME b.op = "document" PROVE Document(b.uid)' # Nil
          OBVIOUS
        <5>1. b.uid \in Uid /\ Document(b.uid) # Nil
          BY <4>1 DEF Wanted, IInv, CallsOK, Suits
        <5>2. (\E w \in queue : w.kind = "document" /\ w.uid = b.uid)
                => \E w \in queue' : w.kind = "document" /\ w.uid = b.uid
          BY <2>1
        <5> QED
          BY <2>1, <2>7, <5>1, <5>2, DocumentStays DEF IInv
      <4>3. b.op \in {"query", "create", "created", "document", "delete"}
        BY <1>3 DEF Registers
      <4> QED
        BY <2>1, <4>1, <4>2, <4>3, <1>5 DEF Wanted, Live
    <3> QED
      BY <2>1, <3>1 DEF IInv, Found
  <2> QED
    BY <2>7, <2>8, <2>9, <2>10, <2>11, <2>12, <2>13 DEF IInv
<1> QED
  BY <1>4, <1>5

LEMMA CommitInv ==
    ASSUME IInv, UNCHANGED <<taps, regime>>, NEW w \in queue, Commit(w) PROVE IInv'
<1>1. /\ queue' = queue \ {w}
      /\ docs' = IF w.kind = "document" THEN [docs EXCEPT ![w.uid] = w.email] ELSE docs
      /\ names' = IF w.kind = "name" THEN names \cup {w.uid} ELSE names
      /\ UNCHANGED <<status, email, current, seen, owner, screen, calls, trap, asked>>
  BY DEF Commit
<1>2. /\ w.uid \in Uid /\ w.email \in Address /\ w.email # Nil
      /\ w.email = email[w.uid] /\ status[w.uid] # "free"
  BY AccountAssumption DEF IInv, TypeOK, Queued, OwnProfile
<1>3. \A u \in Uid : \/ docs'[u] = docs[u]
                     \/ docs'[u] = email[u] /\ docs'[u] # Nil /\ status[u] # "free"
  BY <1>1, <1>2 DEF IInv, TypeOK
<1>4. TypeOK'
  BY <1>1, <1>2 DEF IInv, TypeOK
<1>5. CallsOK' /\ OwnSession'
  BY <1>1 DEF IInv, CallsOK, Suits, Registers, LogsIn, Alike, OwnSession, Live
<1>6. SignedUp' /\ OneAccount' /\ OnlyCertifiedInside'
  BY <1>1 DEF IInv, SignedUp, OneAccount, OnlyCertifiedInside, Live
<1>7. OwnProfile'
  <2>1. \A u \in Uid : /\ docs'[u] \in {Nil, email[u]}
                       /\ status[u] = "free" => docs'[u] = Nil
    BY <1>3 DEF IInv, OwnProfile
  <2> QED
    BY <1>1, <2>1 DEF IInv, OwnProfile
<1>8. \A u \in Uid : HasProfile(u) => HasProfile(u)'
  <2> SUFFICES ASSUME NEW u \in Uid, HasProfile(u) PROVE HasProfile(u)'
    OBVIOUS
  <2> DEFINE document == [kind |-> "document", uid |-> u, email |-> email[u]]
             name     == [kind |-> "name", uid |-> u, email |-> email[u]]
  <2>1. /\ document.kind = "document" /\ document.uid = u /\ document.email = email[u]
        /\ name.kind = "name" /\ name.uid = u
    OBVIOUS
  <2>2. /\ docs[u] = email[u] \/ document \in queue
        /\ u \in names \/ name \in queue
    BY DEF HasProfile
  <2>3. HasProfile(u)' <=> /\ docs'[u] = email[u] \/ document \in queue'
                           /\ u \in names' \/ name \in queue'
    BY <1>1 DEF HasProfile
  <2> HIDE DEF document, name
  <2>4. docs'[u] = email[u] \/ document \in queue'
    <3>1. CASE document = w
      BY <1>1, <2>1, <3>1 DEF IInv, TypeOK
    <3>2. CASE document # w
      BY <1>1, <1>3, <2>2, <3>2
    <3> QED
      BY <3>1, <3>2
  <2>5. u \in names' \/ name \in queue'
    BY <1>1, <2>1, <2>2
  <2> QED
    BY <2>3, <2>4, <2>5
<1>9. Profiles'
  BY <1>1, <1>8 DEF IInv, Profiles, Peace, Creating, Live
<1>10. Found'
  <2>1. ASSUME NEW u \in Uid, Document(u) # Nil
        PROVE  Document(u)' # Nil
    <3>1. docs[u] # Nil => docs'[u] # Nil
      BY <1>3
    <3>2. (\E x \in queue : x.kind = "document" /\ x.uid = u)
             => \/ docs'[u] # Nil
                \/ \E x \in queue' : x.kind = "document" /\ x.uid = u
      BY <1>1, <1>2 DEF IInv, TypeOK
    <3> QED
      BY <1>1, <1>4, <2>1, <3>1, <3>2, DocumentStays DEF IInv
  <2>2. \A c \in calls : c.op \in {"document", "fetch"} => c.uid \in Uid
    BY DEF IInv, CallsOK, Suits
  <2>3. \A c \in calls : Wanted(c) => Wanted(c)'
    BY <1>1, <2>1, <2>2 DEF Wanted, Live
  <2> QED
    BY <1>1, <2>3 DEF IInv, Found, Peace, NoneDeleted
<1> QED
  BY <1>4, <1>5, <1>6, <1>7, <1>9, <1>10 DEF IInv
-----------------------------------------------------------------------------
LEMMA AnswerReloadInv ==
    ASSUME IInv, UNCHANGED <<taps, regime>>, NEW c \in calls, AnswerReload(c) PROVE IInv'
<1>1. /\ c.op = "reload" /\ Done(c)
      /\ UNCHANGED <<server, queue, owner, trap, asked>>
  BY DEF AnswerReload
<1>2. CASE ~(current = c.uid /\ status[c.uid] = "verified")
  BY <1>1, <1>2, DoneStep DEF AnswerReload
<1>3. CASE current = c.uid /\ status[c.uid] = "verified"
  <2>1. /\ calls' = calls \ {c} /\ current' = Nil /\ seen' = FALSE
        /\ status' = status /\ email' = email /\ docs' = docs /\ names' = names
        /\ screen' = (IF Certifying THEN "login" ELSE screen)
    BY <1>1, <1>3 DEF AnswerReload, Done, SignOut, server
  <2>2. c.button = "check" /\ screen \in {"certifyNew", "certifyOld", "login"}
    BY <1>1 DEF IInv, CallsOK, Suits
  <2>3. screen' = "login"
    BY <2>1, <2>2 DEF Certifying
  <2>4. \A d \in calls : d.op \in {"reload", "delete"}
    <3> SUFFICES ASSUME NEW d \in calls PROVE d.op \in {"reload", "delete"}
      OBVIOUS
    <3>1. d.button = "withdraw" \/ d.button = "check"
      BY <2>2 DEF IInv, CallsOK, Alike
    <3> QED
      BY <3>1, Kinds DEF IInv
  <2>5. TypeOK'
    BY <1>1, <2>1, <2>3 DEF IInv, TypeOK, Screen
  <2>6. CallsOK'
    BY <2>1, <2>3, <2>4 DEF IInv, CallsOK, Suits, Registers, LogsIn, Alike
  <2>7. SignedUp' /\ OnlyCertifiedInside'
    BY <2>1, <2>3 DEF SignedUp, OnlyCertifiedInside
  <2>8. \A u \in Uid : Live(u)' <=> Live(u)
    BY <2>1 DEF Live
  <2> QED
    BY <1>1, <2>1, <2>4, <2>5, <2>6, <2>7, <2>8, QuietStep
<1> QED
  BY <1>2, <1>3

(* The login under way.                                                    *)
LEMMA LoggingIn ==
    ASSUME IInv, NEW c \in calls, c.button = "login"
    PROVE  /\ c.email \in Address /\ c \in Call
           /\ screen \in {"login", "certifyOld", "main"}
           /\ \A d \in calls : \/ d.op = "delete" /\ d.button = "withdraw"
                               \/ LogsIn(d) /\ d.button = "login" /\ d.email = c.email
<1>1. c \in Call /\ Suits(c) /\ LogsIn(c)
  BY Kinds DEF IInv, TypeOK, CallsOK
<1>2. c.email \in Address /\ screen \in {"login", "certifyOld", "main"}
  BY <1>1 DEF Suits
<1>3. ASSUME NEW d \in calls
      PROVE  \/ d.op = "delete" /\ d.button = "withdraw"
             \/ LogsIn(d) /\ d.button = "login" /\ d.email = c.email
  <2>1. CASE d.button = "withdraw"
    BY <2>1, Kinds DEF IInv
  <2>2. CASE d.button # "withdraw"
    <3>1. d.button = "login" /\ d.email = c.email
      BY <2>2 DEF IInv, CallsOK, Alike
    <3> QED
      BY <3>1, Kinds DEF IInv
  <2> QED
    BY <2>1, <2>2
<1> QED
  BY <1>1, <1>2, <1>3

(* Neither registrations nor the settings' fetch under way: the profiles   *)
(* are there, and nothing is going to be unwrapped.                        *)
LEMMA LoginKeeps ==
    ASSUME IInv, UNCHANGED <<server, queue, trap, regime>>,
           \A d \in calls \cup calls' : d.op \in {"delete", "signIn", "signedIn"}
    PROVE  OneAccount' /\ OwnProfile' /\ Profiles' /\ Found'
<1>1. status' = status /\ email' = email /\ docs' = docs /\ names' = names
  BY DEF server
<1>2. OneAccount' /\ OwnProfile'
  BY <1>1 DEF IInv, OneAccount, OwnProfile, Live
<1>3. Profiles'
  BY <1>1 DEF IInv, Profiles, Peace, HasProfile, Creating, Live
<1>4. Found'
  BY <1>1 DEF IInv, Found, Peace, NoneDeleted, Wanted
<1> QED
  BY <1>2, <1>3, <1>4

LEMMA AnswerSignInInv ==
    ASSUME IInv, UNCHANGED <<taps, regime>>, NEW c \in calls, AnswerSignIn(c) PROVE IInv'
<1>1. c.op = "signIn" /\ UNCHANGED <<server, queue, owner, screen, trap, asked>>
  BY DEF AnswerSignIn
<1>2. c.button = "login"
  BY <1>1 DEF IInv, CallsOK, Suits, LogsIn
<1>3. /\ c.email \in Address /\ screen \in {"login", "certifyOld", "main"}
      /\ \A d \in calls : \/ d.op = "delete" /\ d.button = "withdraw"
                          \/ LogsIn(d) /\ d.button = "login" /\ d.email = c.email
  BY <1>2, LoggingIn
<1>4. CASE Done(c) /\ UNCHANGED <<current, seen>>
  BY <1>1, <1>4, DoneStep
<1>5. ASSUME NEW u \in Uid, Live(u), email[u] = c.email, current' = u,
             seen' = (status[u] = "verified"), Then(c, "signedIn", u)
      PROVE  IInv'
  <2>1. PICK d \in Call : /\ calls' = (calls \ {c}) \cup {d}
                          /\ d.op = "signedIn" /\ d.uid = u
                          /\ d.email = c.email /\ d.button = c.button
    BY <1>5, ThenAt DEF IInv, TypeOK
  <2>2. status' = status /\ email' = email /\ docs' = docs /\ names' = names
    BY <1>1 DEF server
  <2>3. TypeOK'
    <3>1. calls' \subseteq Call
      BY <2>1 DEF IInv, TypeOK
    <3>2. seen' \in BOOLEAN
      BY <1>5, Zenon
    <3>3. current' # Nil
      BY <1>5, AccountAssumption
    <3> QED
      BY <1>1, <1>5, <2>2, <3>1, <3>2, <3>3 DEF IInv, TypeOK
  <2>4. \A b \in calls' : \/ b.op = "delete" /\ b.button = "withdraw" /\ b \in calls
                          \/ LogsIn(b) /\ b.button = "login" /\ b.email = c.email
    BY <1>2, <1>3, <2>1 DEF LogsIn
  <2>5. CallsOK'
    <3>1. \A b \in calls' : Suits(b)'
      BY <1>1, <1>3, <2>1, <2>4 DEF IInv, CallsOK, Suits, Registers, LogsIn
    <3> QED
      BY <2>4, <3>1 DEF CallsOK, Alike
  <2>6. SignedUp'
    BY <1>5, <2>2 DEF SignedUp, Live
  <2>7. OwnSession'
    <3>1. ASSUME NEW b \in calls', b.op \in {"created", "signedIn"}
          PROVE  email[u] = b.email
      BY <1>5, <2>4, <3>1 DEF LogsIn
    <3>2. ASSUME NEW b \in calls', screen = "main", LogsIn(b), NEW v \in Uid,
                 Live(v), email[v] = b.email
          PROVE  status[v] = "verified"
      <4>1. b.email = c.email
        BY <2>4, <3>2 DEF LogsIn
      <4> QED
        BY <1>1, <3>2, <4>1 DEF IInv, OwnSession, LogsIn
    <3> QED
      BY <1>1, <1>5, <2>2, <3>1, <3>2 DEF OwnSession, LogsIn, Live
  <2>8. OnlyCertifiedInside'
    <3> SUFFICES ASSUME screen = "main" PROVE OnlyCertifiedInside'
      BY <1>1, <1>3 DEF OnlyCertifiedInside
    <3>1. status[u] = "verified"
      BY <1>1, <1>5 DEF IInv, OwnSession, LogsIn
    <3> QED
      BY <1>5, <2>2, <3>1, AccountAssumption DEF OnlyCertifiedInside
  <2>9. OneAccount' /\ OwnProfile' /\ Profiles' /\ Found'
    BY <1>1, <1>3, <2>4, LoginKeeps DEF LogsIn
  <2> QED
    BY <2>3, <2>5, <2>6, <2>7, <2>8, <2>9 DEF IInv
<1> QED
  BY <1>4, <1>5 DEF AnswerSignIn

LEMMA SignedInInv ==
    ASSUME IInv, UNCHANGED <<taps, regime>>, NEW c \in calls, SignedIn(c) PROVE IInv'
<1>1. /\ c.op = "signedIn" /\ calls' = calls \ {c}
      /\ UNCHANGED <<server, queue, current, seen, owner, trap, asked>>
      /\ status' = status /\ email' = email /\ docs' = docs /\ names' = names
  BY DEF SignedIn, Done, server
<1>2. c.button = "login"
  BY <1>1 DEF IInv, CallsOK, Suits, LogsIn
<1>3. /\ c.email \in Address /\ screen \in {"login", "certifyOld", "main"}
      /\ \A d \in calls : \/ d.op = "delete" /\ d.button = "withdraw"
                          \/ LogsIn(d) /\ d.button = "login" /\ d.email = c.email
  BY <1>2, LoggingIn
<1>4. /\ screen' \in {"login", "certifyOld", "main"}
      /\ screen' = "main" => \/ screen = "main"
                             \/ current # Nil /\ seen /\ status[current] = "verified"
  BY <1>3, FirstScreenCertified DEF SignedIn, IInv
<1>5. TypeOK'
  BY <1>1, <1>4 DEF IInv, TypeOK, Screen
<1>6. CallsOK'
  BY <1>1, <1>3, <1>4 DEF IInv, CallsOK, Suits, Registers, LogsIn, Alike
<1>7. SignedUp'
  BY <1>1 DEF IInv, SignedUp, Live
<1>8. OwnSession'
  <2>1. ASSUME NEW b \in calls, LogsIn(b), screen' = "main", NEW v \in Uid,
               Live(v), email[v] = b.email
        PROVE  status[v] = "verified"
    <3>1. CASE screen = "main"
      BY <2>1, <3>1 DEF IInv, OwnSession
    <3>2. CASE current # Nil /\ status[current] = "verified"
      <4>1. email[current] = c.email /\ b.email = c.email
        BY <1>1, <1>3, <2>1, <3>2 DEF IInv, OwnSession, LogsIn
      <4>2. current \in Uid /\ Live(current)
        BY <3>2 DEF IInv, TypeOK, Live
      <4>3. v = current
        BY <2>1, <4>1, <4>2 DEF IInv, OneAccount
      <4> QED
        BY <3>2, <4>3
    <3> QED
      BY <1>4, <2>1, <3>1, <3>2
  <2>2. \A b \in calls : b.op \in {"created", "signedIn"} /\ current # Nil => email[current] = b.email
    BY DEF IInv, OwnSession
  <2> QED
    BY <1>1, <2>1, <2>2 DEF OwnSession, LogsIn, Live
<1>9. OnlyCertifiedInside'
  BY <1>1, <1>4 DEF IInv, OnlyCertifiedInside
<1>10. OneAccount' /\ OwnProfile' /\ Profiles' /\ Found'
  BY <1>1, <1>3, LoginKeeps DEF LogsIn
<1> QED
  BY <1>5, <1>6, <1>7, <1>8, <1>9, <1>10 DEF IInv

LEMMA AnswerDeleteInv ==
    ASSUME IInv, UNCHANGED <<taps, regime>>, NEW c \in calls, AnswerDelete(c) PROVE IInv'
<1>1. /\ c.op = "delete" /\ Done(c) /\ calls' = calls \ {c}
      /\ UNCHANGED <<email, docs, names, queue, owner, screen, trap, asked>>
  BY DEF AnswerDelete, Done
<1>2. CASE UNCHANGED <<status, current, seen>>
  BY <1>1, <1>2, DoneStep DEF server
<1>3. CASE /\ Live(c.uid) /\ status' = [status EXCEPT ![c.uid] = "deleted"]
           /\ IF current = c.uid THEN SignOut ELSE UNCHANGED <<current, seen>>
  <2>1. c.uid \in Uid
    BY <1>1 DEF IInv, CallsOK, Suits
  <2>2. /\ status'[c.uid] = "deleted"
        /\ \A u \in Uid \ {c.uid} : status'[u] = status[u]
    BY <1>3, <2>1 DEF IInv, TypeOK
  <2>3. \/ current' = Nil /\ seen' = FALSE
        \/ current' = current /\ seen' = seen /\ current # c.uid
    BY <1>3 DEF SignOut
  <2>4. \A u \in Uid : Live(u)' => Live(u) /\ status'[u] = status[u] /\ u # c.uid
    BY <2>2 DEF Live
  <2>5. TypeOK'
    <3>1. status' \in [Uid -> Status]
      BY <1>3, <2>1 DEF IInv, TypeOK, Status
    <3>2. CASE current' = Nil /\ seen' = FALSE
      BY <1>1, <3>1, <3>2 DEF IInv, TypeOK
    <3>3. CASE current' = current /\ seen' = seen
      BY <1>1, <3>1, <3>3 DEF IInv, TypeOK
    <3> QED
      BY <2>3, <3>2, <3>3
  <2>6. CallsOK'
    BY <1>1 DEF IInv, CallsOK, Suits, Registers, LogsIn, Alike
  <2>7. SignedUp'
    <3>1. CASE current' = Nil /\ seen' = FALSE
      BY <3>1 DEF SignedUp
    <3>2. CASE current' = current /\ seen' = seen /\ current # c.uid
      BY <2>2, <3>2 DEF IInv, TypeOK, SignedUp, Live
    <3> QED
      BY <2>3, <3>1, <3>2
  <2>8. OneAccount'
    BY <1>1, <2>4 DEF IInv, OneAccount
  <2>9. OwnProfile'
    <3>1. status[c.uid] # "free"
      BY <1>3 DEF Live
    <3>2. \A u \in Uid : status'[u] = "free" <=> status[u] = "free"
      BY <2>2, <3>1
    <3>3. \A w \in queue : w.uid \in Uid
      BY DEF IInv, TypeOK, Queued
    <3> QED
      BY <1>1, <3>2, <3>3 DEF IInv, OwnProfile
  <2>10. OwnSession'
    <3>1. \A b \in calls : b.op \in {"created", "signedIn"} /\ current' # Nil => email[current'] = b.email
      BY <2>3 DEF IInv, OwnSession
    <3>2. \A b \in calls : LogsIn(b) /\ screen = "main" =>
            \A u \in Uid : Live(u)' /\ email[u] = b.email => status'[u] = "verified"
      BY <2>4 DEF IInv, OwnSession
    <3> QED
      BY <1>1, <3>1, <3>2 DEF OwnSession, LogsIn
  <2>11. OnlyCertifiedInside'
    <3>1. CASE current' = Nil
      BY <2>1, <2>2, <3>1 DEF OnlyCertifiedInside
    <3>2. CASE current' # Nil
      BY <1>1, <2>2, <2>3, <3>2 DEF IInv, TypeOK, OnlyCertifiedInside
    <3> QED
      BY <3>1, <3>2
  <2>12. Profiles'
    <3> SUFFICES ASSUME Peace, NEW u \in Uid, Live(u)' PROVE Creating(u)' \/ HasProfile(u)'
      BY DEF Profiles, Peace
    <3>1. Live(u) /\ u # c.uid
      BY <2>4
    <3>2. Creating(u) \/ HasProfile(u)
      BY <3>1 DEF IInv, Profiles
    <3>3. HasProfile(u)' = HasProfile(u)
      BY <1>1 DEF HasProfile
    <3>4. current' = current \/ current = c.uid
      BY <1>3
    <3> QED
      BY <1>1, <3>1, <3>2, <3>3, <3>4 DEF Creating
  <2>13. Found'
    BY <2>1, <2>2 DEF Found, NoneDeleted
  <2> QED
    BY <2>5, <2>6, <2>7, <2>8, <2>9, <2>10, <2>11, <2>12, <2>13 DEF IInv
<1> QED
  BY <1>2, <1>3 DEF AnswerDelete
-----------------------------------------------------------------------------
LEMMA StutterInv == ASSUME IInv, UNCHANGED vars PROVE IInv'
<1>1. /\ UNCHANGED <<queue, current, seen, owner, screen, calls, trap, asked, taps, regime>>
      /\ status' = status /\ email' = email /\ docs' = docs /\ names' = names
  BY DEF vars
<1>2. TypeOK'
  BY <1>1 DEF IInv, TypeOK
<1>3. CallsOK' /\ OwnSession'
  BY <1>1 DEF IInv, CallsOK, Suits, Registers, LogsIn, Alike, OwnSession, Live
<1>4. SignedUp' /\ OneAccount' /\ OwnProfile' /\ OnlyCertifiedInside'
  BY <1>1 DEF IInv, SignedUp, OneAccount, OwnProfile, OnlyCertifiedInside, Live
<1>5. Profiles'
  BY <1>1 DEF IInv, Profiles, Peace, HasProfile, Creating, Live
<1>6. Found'
  BY <1>1 DEF IInv, Found, Peace, NoneDeleted, Wanted, Document, Live
<1> QED
  BY <1>2, <1>3, <1>4, <1>5, <1>6 DEF IInv

LEMMA NextInv == IInv /\ [Next]_vars => IInv'
<1> SUFFICES ASSUME IInv, [Next]_vars PROVE IInv'
  OBVIOUS
<1>1. CASE UNCHANGED vars
  BY <1>1, StutterInv
<1>2. CASE Next
  <2>1. trap = "none" /\ regime' = regime
    BY <1>2 DEF Next
  <2>2. CASE Student
    BY <2>1, <2>2, OpenRegistrationInv, CloseRegistrationInv, TapRegisterInv,
       SendMailInv, TapCheckInv, LeaveCertificationInv, TapLoginInv, OpenSettingsInv,
       LeaveSettingsInv, LogOutInv, WithdrawInv, LaunchInv DEF Student
  <2>3. ASSUME taps' = taps, NEW c \in calls, Answer(c) PROVE IInv'
    BY <2>1, <2>3, AnswerQueryInv, AnswerCreateInv, CreatedInv, AnswerDocumentInv,
       AnswerReloadInv, AnswerSignInInv, SignedInInv, AnswerFetchInv, AnswerDeleteInv,
       FailsInv DEF Answer
  <2>4. ASSUME taps' = taps, NEW w \in queue, Commit(w) PROVE IInv'
    BY <2>1, <2>4, CommitInv
  <2>5. ASSUME taps' = taps, NEW u \in Uid, Verify(u) PROVE IInv'
    BY <2>1, <2>5, VerifyInv
  <2> QED
    BY <1>2, <2>2, <2>3, <2>4, <2>5 DEF Next
<1> QED
  BY <1>1, <1>2

THEOREM Invariant == Spec => []IInv
<1>1. Init => IInv
  BY InitInv
<1>2. IInv /\ [Next]_vars => IInv'
  BY NextInv
<1> QED
  BY <1>1, <1>2, PTL DEF Spec

(* The account's types, and that nobody is signed in who has no account.   *)
THEOREM AccountTypes == Spec => []TypeOK
<1>1. IInv => TypeOK
  BY DEF IInv
<1> QED
  BY <1>1, Invariant, PTL

(* Main screen and settings are for certified students, whatever was       *)
(* tapped, failed or was killed before: viewWillAppear's check is enough.  *)
THEOREM CertifiedInside == Spec => []OnlyCertifiedInside
<1>1. IInv => OnlyCertifiedInside
  BY DEF IInv
<1> QED
  BY <1>1, Invariant, PTL

(* createUser's completion never leaves an account without its profile, or *)
(* gives it another's, though it asks who is signed in only when called.   *)
THEOREM ProfilesKept == Spec => []ProfileKept
<1>1. IInv => ProfileKept
  <2> SUFFICES ASSUME IInv, NEW u \in Uid
               PROVE  /\ docs[u] \in {Nil, email[u]}
                      /\ Peace /\ Live(u) =>
                           \/ \E c \in calls : c.op = "created" /\ current = u
                           \/ HasProfile(u)
    BY DEF ProfileKept, HasProfile
  <2> QED
    BY DEF IInv, OwnProfile, Profiles, Creating
<1> QED
  BY <1>1, Invariant, PTL

(* In peace no force unwrap of registration, certification, login or       *)
(* settings meets a nil, as long as no account is deleted.                 *)
THEOREM NothingMissing == Spec => []NoTrap
<1>1. IInv => NoTrap
  BY DEF IInv, Found, NoTrap, NoneDeleted
<1> QED
  BY <1>1, Invariant, PTL
=============================================================================
