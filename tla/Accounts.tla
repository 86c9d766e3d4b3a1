------------------------------ MODULE Accounts ------------------------------
(***************************************************************************)
(* The accounts of the access control server: the list controlDevices      *)
(* (AccessControlServer.cpp), its copy in data.dat (filemanager.cpp), the  *)
(* account cases of the server's RecvHandler, and the timer that resets a  *)
(* login count.  The handlers run one at a time in the server's thread;    *)
(* the timer's callback runs in a pool thread at any moment, also between  *)
(* the load and the store of a count that is being incremented.            *)
(*                                                                         *)
(* An account keeps what the decisions look at.  A login counter is a C    *)
(* char, and wraps.  A requested answer that changes nothing is no step.   *)
(* An account read from a torn file, or not read, has empty fields: NoUser *)
(* is the empty ContactID, NoDate the empty date of the password.          *)
(***************************************************************************)
EXTENDS TwoFactorAuth, FiniteSetsExt

CONSTANTS
  ContactIDs, Passwords,
  EmailPrefixes, \* <<d, e>> when email d is a prefix of email e, or e itself
  Conns,         \* connections to the server
  NoUser,        \* the empty ContactID: the owner of a connection nobody has logged in over
  NoEmail, NoPassword, \* the empty email and password
  MAX_DEVSIZE, MAX_ALLOW_LOGIN_ATTEMPT,
  CharHalf,      \* a char is in -CharHalf .. CharHalf - 1
  Uninitialised, \* the values LoginAttempt may come with in a registration
  MaxTimers,     \* bound: timers pending for one account
  MaxMonths,     \* bound: how often all passwords grow old
  MaxIncidents   \* bound: how often the file is not read, not written or cut short

Chars == (- CharHalf) .. (CharHalf - 1)

ASSUME PrefixesAssumption == /\ EmailPrefixes \subseteq Emails \X Emails
                             /\ \A e \in Emails : <<e, e>> \in EmailPrefixes
ASSUME EmptyAssumption == /\ NoUser \notin ContactIDs /\ NoEmail \notin Emails
                          /\ NoPassword \notin Passwords
ASSUME LimitsAssumption == /\ MAX_DEVSIZE \in Nat /\ CharHalf \in Nat
                           /\ MAX_ALLOW_LOGIN_ATTEMPT \in Nat /\ MAX_ALLOW_LOGIN_ATTEMPT < CharHalf
                           /\ MaxTimers \in Nat /\ MaxMonths \in Nat /\ MaxIncidents \in Nat
                           /\ Uninitialised \subseteq Chars

VARIABLES
  status,         \* of the server's thread
  controlDevices,
  file,           \* the accounts in data.dat
  owner,          \* Owner of each connection
  month,
  entered,        \* history: <<c, t>> when connection c was given its owner for token t
  promised,       \* history: the accounts as their users were told, up to an incident
  incidents       \* history: how often storing failed or was cut short, a list was stored
                  \* that had not been read, or accounts were not read

accountVars == <<status, controlDevices, file, owner, month, entered, promised, incidents>>
vars == <<accountVars, tfaVars>>

NoDate   == - 1
Stored   == [cid : ContactIDs \cup {NoUser}, email : Emails \cup {NoEmail},
             password : Passwords \cup {NoPassword}, changed : NoDate .. MaxMonths]
Accounts == [stored : Stored, attempts : Chars, timers : 0 .. MaxTimers, unwatched : BOOLEAN]

TypeOK ==
  /\ TfaTypeOK
  /\ status \in {"off", "running", "failed", "returned"}
  /\ controlDevices \in Seq(Accounts) /\ Len(controlDevices) <= MAX_DEVSIZE
  /\ file \in Seq(Stored) /\ Len(file) <= MAX_DEVSIZE
  /\ owner \in [Conns -> ContactIDs \cup {NoUser}]
  /\ month \in 0 .. MaxMonths
  /\ entered \subseteq Conns \X DOMAIN sent
  /\ promised \in Seq(Stored) /\ incidents \in 0 .. MaxIncidents

Saved(list) == [i \in DOMAIN list |-> list[i].stored]
Loaded(read) == [i \in DOMAIN read |->
                   [stored |-> read[i], attempts |-> 0, timers |-> 0, unwatched |-> FALSE]]

Init ==
  /\ status = "off" /\ controlDevices = <<>> /\ file = <<>>
  /\ owner = [c \in Conns |-> NoUser] /\ month = 0
  /\ entered = {} /\ promised = <<>> /\ incidents = 0
  /\ TfaInit
-----------------------------------------------------------------------------
(* data.dat.                                                                 *)

Blank == [cid |-> NoUser, email |-> NoEmail, password |-> NoPassword, changed |-> NoDate]

\* What is kept of the record in which the file ends, whose members are written in
\* the order of their names: a member that is not whole is not read.
Halves(r) == {Blank, [Blank EXCEPT !.cid = r.cid], [Blank EXCEPT !.cid = r.cid, !.email = r.email],
              [r EXCEPT !.password = NoPassword]}

\* What is read of a file whose writing was cut short: the parser's result is not
\* looked at.
Torn(list) ==
  {SubSeq(list, 1, k) : k \in 0 .. Len(list)}
    \cup UNION {{Append(SubSeq(list, 1, k - 1), h) : h \in Halves(list[k])} : k \in DOMAIN list}

\* What getLengthJSON and LoadData make of the file: nothing when it cannot be opened
\* for the first, and an empty account each time it cannot be for the second.
Readings ==
  {<<>>} \cup {[i \in DOMAIN file |-> IF i \in unread THEN Blank ELSE file[i]] :
                unread \in SUBSET DOMAIN file}

Incident == incidents < MaxIncidents /\ incidents' = incidents + 1

\* save_encrypted_json: it does not tell whether the file was opened or, once it was
\* and is empty, written.
Written(list) == \/ file' = list /\ UNCHANGED incidents
                 \/ file' \in {file} \cup Torn(list) /\ Incident

\* Mutant: the size is compared as for a registration.
StoreDataBelowLimit(list) ==
  IF Len(list) < MAX_DEVSIZE THEN Written(Saved(list)) ELSE UNCHANGED <<file, incidents>>

\* RegistrationToFile and StoreData.
StoreData(list) ==
  IF Len(list) < MAX_DEVSIZE + 1 THEN Written(Saved(list)) ELSE UNCHANGED <<file, incidents>>

\* What has been acknowledged is followed up to an incident.
Promise(list) == promised' = IF incidents' > 0 THEN <<>> ELSE list
-----------------------------------------------------------------------------
(* The server's life, as far as the accounts go. *)

\* The thread's start: what can be read of the file is appended to the list.
LoadAccounts ==
  /\ status = "off"
  /\ status' = "running"
  /\ \E read \in Readings : /\ controlDevices' = controlDevices \o Loaded(read)
                            /\ IF read = file THEN UNCHANGED incidents ELSE Incident
  /\ Promise(promised)
  /\ UNCHANGED <<file, owner, month, entered, tfaVars>>

\* The thread returns before it has read the file.
StartFails ==
  /\ status = "off"
  /\ status' = "failed"
  /\ UNCHANGED <<controlDevices, file, owner, month, entered, promised, incidents, tfaVars>>

\* It returns from its loop: no more messages, but the list stays.
ThreadReturns ==
  /\ status = "running"
  /\ status' = "returned"
  /\ UNCHANGED <<controlDevices, file, owner, month, entered, promised, incidents, tfaVars>>

\* Mutant: the list is not cleared.
CleanUpACServerKeepsList ==
  /\ status # "off"
  /\ status' = "off"
  /\ StoreData(controlDevices)
  /\ owner' = [c \in Conns |-> NoUser] /\ entered' = {}
  /\ Promise(promised)
  /\ UNCHANGED <<controlDevices, month, tfaVars>>

\* The list is stored whether it was read or not, and cleared.
CleanUpACServer ==
  /\ status # "off"
  /\ status' = "off"
  /\ IF status = "failed" THEN file' \in {<<>>, file} /\ Incident
                          ELSE StoreData(controlDevices)
  /\ controlDevices' = <<>>
  /\ owner' = [c \in Conns |-> NoUser] /\ entered' = {}
  /\ Promise(promised)
  /\ UNCHANGED <<month, tfaVars>>

\* The program ends and everything but the file is gone.  It also ends when a torn
\* file does not decode: then LoadAccounts is no step.
Dies ==
  /\ status' = "off" /\ controlDevices' = <<>>
  /\ owner' = [c \in Conns |-> NoUser] /\ entered' = {}
  /\ tokenMng' = <<>> /\ late' = TRUE /\ sent' = <<>> /\ used' = {}
  /\ UNCHANGED month

Crash == Dies /\ UNCHANGED <<file, promised, incidents>>

CloseConnection(c) ==
  /\ status = "running" /\ owner[c] # NoUser
  /\ owner' = [owner EXCEPT ![c] = NoUser]
  /\ entered' = {x \in entered : x[1] # c}
  /\ UNCHANGED <<status, controlDevices, file, month, promised, incidents, tfaVars>>
-----------------------------------------------------------------------------
(* Registration and passwords. *)

Duplicated(r) ==
  \E i \in DOMAIN controlDevices : \/ controlDevices[i].stored.cid = r.cid
                                   \/ controlDevices[i].stored.email = r.email

\* Only the pointer's size of the client's message is zeroed: its LoginAttempt
\* is whatever was in the memory.
Registered(r, n) ==
  Append(controlDevices, [stored |-> r, attempts |-> n, timers |-> 0,
                          unwatched |-> n > MAX_ALLOW_LOGIN_ATTEMPT])

Registration(r) ==
  /\ status = "running" /\ ~ Duplicated(r) /\ Len(controlDevices) < MAX_DEVSIZE
  /\ \E n \in Uninitialised : controlDevices' = Registered(r, n)
  /\ StoreData(controlDevices')
  /\ Promise(Append(promised, r))
  /\ UNCHANGED <<status, owner, month, entered, tfaVars>>

New(s, e, p) == IF s.email = e THEN [s EXCEPT !.password = p, !.changed = month] ELSE s
Changed(e, p) == [i \in DOMAIN controlDevices |->
                    [controlDevices[i] EXCEPT !.stored = New(@, e, p)]]

ReRegPasswordRequest(e, p) ==
  /\ status = "running"
  /\ controlDevices' = Changed(e, p)
  /\ StoreData(controlDevices')
  /\ Promise([i \in DOMAIN promised |-> New(promised[i], e, p)])
  /\ UNCHANGED <<status, owner, month, entered, tfaVars>>

\* The program ends while it writes.
CrashWhileStoring(list) ==
  /\ Dies
  /\ file' \in Torn(Saved(list))
  /\ Incident
  /\ Promise(promised)

ResetPasswordRequest(e) ==
  /\ status = "running" /\ \E i \in DOMAIN controlDevices : controlDevices[i].stored.email = e
  /\ SendTFA(e)
  /\ UNCHANGED accountVars

\* The answer opens the client's password window.
ChangePasswordRequest(e, t) ==
  /\ status = "running"
  /\ CheckToken(e, t)
  /\ UNCHANGED accountVars
-----------------------------------------------------------------------------
(* Logging in. *)

Wrapped(n) == IF n = CharHalf THEN - CharHalf ELSE n

\* The count after one more attempt, and whether it is beyond the limit.
Attempted(a) == Wrapped(a.attempts + 1)
Beyond(a)    == Attempted(a) > MAX_ALLOW_LOGIN_ATTEMPT

\* One failed attempt, during which lost resets are overwritten and started timers
\* started.
FailedAttempt(a, lost, started) ==
  [a EXCEPT !.attempts = Attempted(a), !.timers = a.timers - lost + started,
            !.unwatched = started = 0 /\ (a.unwatched \/ Beyond(a))]

\* Mutant: a timer is started only when the limit is passed for the first time.
CountedFirstOnly(a) ==
  {[FailedAttempt(a, lost, started) EXCEPT !.unwatched = a.unwatched /\ started = 0] :
     lost \in 0 .. Min({1, a.timers}),
     started \in IF a.attempts = MAX_ALLOW_LOGIN_ATTEMPT THEN {1} ELSE {0}}

\* What one failed attempt makes of an account.  A reset between the load and
\* the store of the count is lost; beyond the limit a timer is started, unless
\* that fails.
Counted(a) ==
  {FailedAttempt(a, lost, started) :
     lost \in 0 .. Min({1, a.timers}),
     started \in IF Beyond(a) THEN {0, 1} ELSE {0}}

Cleared(a) == [a EXCEPT !.attempts = 0, !.unwatched = FALSE]
Fired(a)   == [Cleared(a) EXCEPT !.timers = @ - 1]

\* The accounts the loop looks at: those whose email begins with the typed one,
\* up to the first where the password is right or the count is beyond the limit.
\* The counts in early are reset after they are stored and before they are
\* compared.
Matches(e) == {i \in DOMAIN controlDevices : <<e, controlDevices[i].stored.email>> \in EmailPrefixes}
Right(i, p) == controlDevices[i].stored.password = p
Stops(e, p, early) ==
  {i \in Matches(e) : \/ Right(i, p)
                      \/ i \notin early /\ Beyond(controlDevices[i])}
Tried(e, p, early) == {i \in Matches(e) : \A j \in Stops(e, p, early) : i <= j}

Outcomes(i, p, early) ==
  IF Right(i, p) THEN {Cleared(controlDevices[i])}
  ELSE IF i \in early THEN {Fired(controlDevices[i])} ELSE Counted(controlDevices[i])

\* The token goes to the address that was typed.
Login(e, p, early) ==
  /\ status = "running"
  /\ early \subseteq {i \in Tried(e, p, early) : ~ Right(i, p) /\ controlDevices[i].timers > 0}
  /\ \A i \in Tried(e, p, early) : Right(i, p) \/ controlDevices[i].timers < MaxTimers \/ i \in early
  /\ \E f \in [Tried(e, p, early) -> UNION {Outcomes(i, p, early) : i \in Tried(e, p, early)}] :
       /\ \A i \in DOMAIN f : f[i] \in Outcomes(i, p, early)
       /\ controlDevices' = [i \in DOMAIN controlDevices |-> IF i \in DOMAIN f THEN f[i] ELSE controlDevices[i]]
  /\ IF \E i \in Tried(e, p, early) : Right(i, p) THEN SendTFA(e) ELSE UNCHANGED tfaVars
  /\ UNCHANGED <<status, file, owner, month, entered, promised, incidents>>

\* A timer's callback.  It does not need the server's thread.
ResetLoginAttempt(i) ==
  /\ controlDevices[i].timers > 0
  /\ controlDevices' = [controlDevices EXCEPT ![i] = Fired(@)]
  /\ UNCHANGED <<status, file, owner, month, entered, promised, incidents, tfaVars>>

\* A token is used up also when the password is too old to log in with.  An empty
\* date leaves the time it is compared as unset.
TwoFactorRequest(c, i, t) ==
  LET a == controlDevices[i].stored
  IN /\ status = "running"
     /\ CheckToken(a.email, t)
     /\ \/ /\ a.changed \in {month, NoDate}
           /\ owner' = [owner EXCEPT ![c] = a.cid]
           /\ entered' = entered \cup {<<c, t>>}
        \/ a.changed # month /\ UNCHANGED <<owner, entered>>
     /\ UNCHANGED <<status, controlDevices, file, month, promised, incidents>>

MonthPasses ==
  /\ month < MaxMonths
  /\ month' = month + 1
  /\ UNCHANGED <<status, controlDevices, file, owner, entered, promised, incidents, tfaVars>>
-----------------------------------------------------------------------------
Candidates == [cid : ContactIDs, email : Emails, password : Passwords, changed : {month}]

Server  == LoadAccounts \/ StartFails \/ ThreadReturns \/ CleanUpACServer
Message == \/ \E r \in Candidates : Registration(r)
           \/ \E e \in Emails, p \in Passwords :
                ReRegPasswordRequest(e, p) \/ \E early \in SUBSET DOMAIN controlDevices : Login(e, p, early)
           \/ \E e \in Emails \cup {NoEmail} : ResetPasswordRequest(e)
           \/ \E t \in DOMAIN sent : \/ \E e \in Emails : ChangePasswordRequest(e, t)
                                     \/ \E c \in Conns, i \in DOMAIN controlDevices : TwoFactorRequest(c, i, t)
Crashes == \/ Crash
           \/ status # "off" /\ CrashWhileStoring(controlDevices)
           \/ /\ status = "running"
              /\ \/ \E e \in Emails, p \in Passwords : CrashWhileStoring(Changed(e, p))
                 \/ /\ Len(controlDevices) < MAX_DEVSIZE
                    /\ \E r \in Candidates : ~ Duplicated(r) /\ CrashWhileStoring(Registered(r, 0))
Passing == \/ TimePasses /\ UNCHANGED accountVars
           \/ MonthPasses
           \/ \E c \in Conns : CloseConnection(c)
           \/ \E i \in DOMAIN controlDevices : ResetLoginAttempt(i)

Next == Server \/ Message \/ Crashes \/ Passing

Spec == Init /\ [][Next]_vars
-----------------------------------------------------------------------------
(* Properties. *)

\* No two accounts share their contact ID or their email, in memory or in the
\* file, whatever was registered, stopped, restarted and cut short in between;
\* only fields that a torn or unread file left empty are alike.
AccountsDistinct ==
  \A list \in {Saved(controlDevices), file} : \A i, j \in DOMAIN list :
    i # j => /\ list[i].cid = list[j].cid => list[i].cid = NoUser
             /\ list[i].email = list[j].email => list[i].email = NoEmail

\* What a user was told is in the file: every account that was acknowledged, with
\* the password that was acknowledged last, as long as storing has not failed, no
\* crash has cut it short, no server was stopped that never read the list, and no
\* server was started that could not read the file.  After a start that could not,
\* the server runs without the accounts and its next store overwrites them.
FileKeepsPromises ==
  incidents > 0 \/ (file = promised /\ (status \in {"running", "returned"} => Saved(controlDevices) = promised))

\* A count beyond the limit goes back: a timer for it is pending, although an
\* attempt may overwrite what a timer has just reset, unless the count was never
\* reset since a registration that came with it, or a timer could not be started.
RestrictionIsWatched ==
  \A i \in DOMAIN controlDevices :
    controlDevices[i].attempts > MAX_ALLOW_LOGIN_ATTEMPT =>
      controlDevices[i].timers > 0 \/ controlDevices[i].unwatched

\* A connection belongs to a user only after a token mailed to that user's address
\* was entered over this connection, and no token admits over two connections.
OwnersAdmitted ==
  \A c \in Conns : owner[c] # NoUser =>
    \E i \in DOMAIN controlDevices, t \in DOMAIN sent :
      /\ controlDevices[i].stored.cid = owner[c] /\ controlDevices[i].stored.email = sent[t]
      /\ \A d \in Conns : <<d, t>> \in entered <=> d = c
=============================================================================
